---------------------------- MODULE MCJingleAdapter ----------------------------
(* Instances of the mailbox for TLC: two threads that may both give any    *)
(* command, to two contacts.                                               *)
EXTENDS Adapter
=============================================================================
