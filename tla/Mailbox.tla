-------------------------------- MODULE Mailbox --------------------------------
(***************************************************************************)
(* What the dialog may rely on when it gives a command to the signalling   *)
(* thread: there is room for one item, a new one replaces the one before,  *)
(* the newest is taken in the end; it may be taken again.                  *)
(***************************************************************************)
CONSTANTS Items, Nothing

VARIABLES content, fresh, taken

vars == <<content, fresh, taken>>

Init == content = Nothing /\ fresh = FALSE /\ taken = Nothing

Put(i) == content' = i /\ fresh' = TRUE /\ UNCHANGED taken
Take   == content # Nothing /\ taken' = content /\ fresh' = FALSE /\ UNCHANGED content

Next == Take \/ \E i \in Items : Put(i)

Spec == Init /\ [][Next]_vars /\ WF_vars(fresh /\ Take)
=============================================================================
