------------------------------ MODULE MCKeyedSave ------------------------------
(* Two drawers, two records and at most a few requests; what goes wrong is  *)
(* the constant Faults of each configuration.                               *)
EXTENDS KeyedSave, TLC

(* What went wrong, or takes a record out of what is promised.             *)
Mishap == {"let go" : b \in forgotten} \cup {"strayed" : b \in strayed} \cup mishaps

(* Bound: after a fault that costs a record its key no second key is made;   *)
(* the search ends where two such things meet, and where a record whose key  *)
(* was let go is saved again: the key store promises nothing of it.         *)
Scope ==
  /\ mishaps \subseteq {"crash"} \/ used <= 1
  /\ Cardinality(Mishap) <= 1
  /\ \A d \in waiting : body[d] \notin forgotten

Symmetric == Permutations(Drawers) \cup Permutations(Bodies) \cup Permutations(Jobs)
=============================================================================
