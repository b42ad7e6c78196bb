----------------------------- MODULE MCBlobFiles -----------------------------
(* BlobFiles for TLC, in two scenes: pages read what racing Adds store, or   *)
(* peers ask for what one adder stores.                                    *)
EXTENDS BlobFiles

CONSTANT First  \* the adder of the peers' scene

VARIABLE scene

SceneInit == Init /\ scene \in {"pages", "peers"}

SceneNext ==
  /\ \/ \E a \in Adder : (scene = "pages" \/ a = First) /\ AddSteps(a)
     \/ Crash
     \/ scene = "pages" /\ PageSteps
     \/ scene = "peers" /\ PeerSteps
  /\ UNCHANGED scene

SceneSpec == SceneInit /\ [][SceneNext]_<<vars, scene>> /\ Fairness
=============================================================================
