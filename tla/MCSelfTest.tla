----------------------------- MODULE MCSelfTest -----------------------------
(* Three profiles: one in use, one tested, and one more, on or off. *)
EXTENDS SelfTest
=============================================================================
