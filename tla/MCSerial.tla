------------------------------- MODULE MCSerial -------------------------------
(***************************************************************************)
(* The instance with one worker, where the outbox replays: the invariant   *)
(* that proof needs is checked here before it is proved.                   *)
(***************************************************************************)
EXTENDS IndexingProofs
=============================================================================
