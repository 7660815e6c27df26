--------------------------- MODULE MCProfileMemory --------------------------
(* ProfileMemory with two profiles, and two or three commands in a row.    *)
EXTENDS ProfileMemory, TLC

CONSTANTS v1, v2, f1, f2, f3

MCVersions == {v1, v2}

(* Profiles 1 and 2 hold the same or different contents; both are on, or   *)
(* one.                                                                    *)
MCHealthy ==
    { m \in [Sector -> Directories \cup MCVersions] :
        /\ m[0] \in {Directory({1}, TRUE), Directory({1, 2}, TRUE)}
        /\ m[1] = v1 /\ m[2] \in MCVersions }
MCInitial == MCHealthy \cup { NeverSetUp }

MCFileSymmetry == Permutations(FileName)
=============================================================================
