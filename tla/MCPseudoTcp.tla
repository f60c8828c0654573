----------------------------- MODULE MCPseudoTcp -----------------------------
(* PseudoTcp for TLC: only the initiator has something to say.             *)
EXTENDS PseudoTcp

MCMaxima   == <<2, 1>>
MCMaxBytes == [e \in Ends |-> IF e = "initiator" THEN 4 ELSE 0]
MCMaxNet   == [e \in Ends |-> IF e = "initiator" THEN 2 ELSE 1]
MCMtus     == [e \in Ends |-> IF e = "initiator" THEN {1} ELSE {}]
=============================================================================
