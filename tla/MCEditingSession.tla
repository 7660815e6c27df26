-------------------------- MODULE MCEditingSession --------------------------
(* EditingSession on two profiles and two contents.                        *)
EXTENDS EditingSession, TLC

CONSTANTS v1, v2

MCProfile  == {1, 2}
MCVersion  == {v1, v2}
MCSymmetry == Permutations(MCVersion)
=============================================================================
