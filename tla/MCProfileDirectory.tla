------------------------- MODULE MCProfileDirectory -------------------------
(* ProfileDirectory for three profiles in four entries; factory            *)
(* directories with no profile, with one that is off, and with two.        *)
EXTENDS ProfileDirectory

Factory(n, flag) == [sector |-> ROM_DIRECTORY_SECTOR + n, flag |-> flag, reserved |-> 255]
MCRom == {[i \in 1..4 |-> Erased],
          [i \in 1..4 |-> IF i = 1 THEN Factory(1, 0) ELSE Erased],
          [i \in 1..4 |-> IF i <= 2 THEN Factory(i, 1) ELSE Erased]}
=============================================================================
