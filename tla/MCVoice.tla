-------------------------------- MODULE MCVoice --------------------------------
(* Voice for TLC: two calls, of which one may follow or overlap the other. *)
EXTENDS Voice
=============================================================================
