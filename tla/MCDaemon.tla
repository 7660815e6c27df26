------------------------------- MODULE MCDaemon -----------------------------
(* Daemon with two apps and three profiles, of which the third is off.     *)
EXTENDS Daemon

CONSTANTS a, b

MCApp     == {a, b}
MCProfile == {1, 2, 3}
MCEnabled == {1, 2}
MCRules   == {[x \in MCApp |-> IF x = a THEN 1 ELSE 2],
              [x \in MCApp |-> IF x = a THEN 2 ELSE 0],
              [x \in MCApp |-> IF x = a THEN 3 ELSE 1]}
=============================================================================
