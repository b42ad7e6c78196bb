--------------------------- MODULE MCFeedStoreBoth ---------------------------
EXTENDS MCFeedStore

(***************************************************************************)
(* The universes in one run, each in behaviours of its own: one feed with  *)
(* forks and forgeries, two feeds with a message each, which may be handed *)
(* to either, or two feeds whose messages all have the zero key.  In the   *)
(* last one every message is handed to its own feed and nothing fails but  *)
(* Verify.  Errors of the hook of social are dropped in the first one.     *)
(***************************************************************************)
VARIABLE universe

UniverseInit == Init /\ universe \in {Forks, Pair, Keyless}

(* Only the authors of the universe are opened, only its messages arrive. *)
UniverseNext ==
  /\ UNCHANGED universe
  /\ Next
  /\ universe = Keyless => Healthy
  /\ \A mod \in Module :
       Nil \in Items(db'.index[mod]) => universe = Forks /\ mod = social
  /\ \A f \in Feed :
       /\ proc'[f] # "off" => \E m \in universe : m.author = f
       /\ \A m \in Items(addChan'[f]) : m \in universe
       /\ universe = Keyless => \A m \in Items(addChan'[f]) : m.author = f

UniverseSpec == UniverseInit /\ [][UniverseNext]_<<vars, universe>>
=============================================================================
