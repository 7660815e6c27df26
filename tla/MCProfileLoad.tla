---------------------------- MODULE MCProfileLoad ---------------------------
(* ProfileLoad with three profiles: the one written, one to switch through *)
(* and one the firmware or the user moves to.                              *)
EXTENDS ProfileLoad
=============================================================================
