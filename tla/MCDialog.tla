-------------------------------- MODULE MCDialog --------------------------------
(* Instances of Dialog for TLC, with any signalling thread.                *)
EXTENDS Dialog
=============================================================================
