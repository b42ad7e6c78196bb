---------------------------- MODULE MCPubSubBoth ----------------------------
EXTENDS MCPubSub

(***************************************************************************)
(* The feed is either published to here, or filled by a peer and followed: *)
(* to have both in one behaviour is too much for TLC.                      *)
(***************************************************************************)
VARIABLE source

SourceInit == PInit /\ source \in {"here", "peer"}

SourceNext ==
  /\ UNCHANGED source
  /\ \/ FeedSteps
     \/ source = "here" /\ CallSteps
     \/ source = "peer" /\ (PeerSteps \/ StreamSteps)

SourceSpec == SourceInit /\ [][SourceNext]_<<pvars, source>>
=============================================================================
