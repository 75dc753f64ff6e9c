-------------------------- MODULE MCDemoLifecycle --------------------------
(* One demo, two admins and the nightly job. *)
EXTENDS DemoLifecycle
=============================================================================
