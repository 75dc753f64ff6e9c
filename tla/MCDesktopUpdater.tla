--------------------------- MODULE MCDesktopUpdater ---------------------------
(* One update object more than calls at once, so that a new offer always    *)
(* finds one, and both platforms.  (No symmetry: a liveness property.)      *)
EXTENDS DesktopUpdater
=============================================================================
