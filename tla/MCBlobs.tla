------------------------------- MODULE MCBlobs -------------------------------
(***************************************************************************)
(* A small instance of Blobs: two pubs that are dialled in turn.           *)
(***************************************************************************)
EXTENDS Blobs

CONSTANTS pubA, pubB,\* peers
          in, out      \* slots

MCPubList == <<pubA, pubB>>
=============================================================================
