-------------------------------- MODULE MCMsg --------------------------------
(***************************************************************************)
(* Message queues for TLC with receivers that truncate (MSG_NOERROR).      *)
(***************************************************************************)
EXTENDS Msg

Truncating == {[typ |-> 0, except |-> FALSE, msgsz |-> 0, noerror |-> TRUE]}
=============================================================================
