----------------------- MODULE MCTransportAttachment -----------------------
(***************************************************************************)
(* Instances of TransportAttachment: sessions and sockets are alike.       *)
(***************************************************************************)
EXTENDS TransportAttachment, TLC

Alike == Permutations(Sessions) \cup Permutations(Sockets)
=============================================================================
