---------------------------- MODULE CallLifecycle ----------------------------
(***************************************************************************)
(* What the signalling of libjingle promises about one call, whatever the  *)
(* peers and the user do: its session only moves forward, a session that   *)
(* is over never comes back to life, and one that is over is disposed of.  *)
(***************************************************************************)
CONSTANT Sessions

VARIABLE phase

Phases == {"none", "ringing", "talking", "over", "gone"}

Init == phase = [s \in Sessions |-> "none"]

Move(s, from, to) ==
  /\ phase[s] \in from
  /\ phase' = [phase EXCEPT ![s] = to]

Ring(s)   == Move(s, {"none"}, "ringing")
Answer(s) == Move(s, {"ringing"}, "talking")
\* a call that is refused at once never rings
End(s)    == Move(s, {"none", "ringing", "talking"}, "over")
Dispose(s) == Move(s, {"over"}, "gone")

Next == \E s \in Sessions : Ring(s) \/ Answer(s) \/ End(s) \/ Dispose(s)

Spec == Init /\ [][Next]_phase /\ \A s \in Sessions : WF_phase(Dispose(s))
=============================================================================
