------------------------- MODULE MCLiveStepControl --------------------------
(* An instance of LiveStepControl for TLC. *)
EXTENDS LiveStepControl
=============================================================================
