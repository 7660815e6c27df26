--------------------------- MODULE MCSectorWrites ---------------------------
(* SectorWrites on a directory and two profile sectors.                    *)
EXTENDS SectorWrites

CONSTANTS dir, p1, p2,          \* the sectors
          oldDir, newDir,       \* directories
          old, new,             \* profiles
          torn                  \* any third bytes

MCSector  == {dir, p1, p2}
MCContent == [s \in MCSector |-> IF s = dir THEN {oldDir, newDir, torn} ELSE {old, new, torn}]
MCDamage  == [s \in MCSector |-> {torn}]

MCWrite(s, prev) ==
    [sector |-> s, data |-> IF s = dir THEN newDir ELSE new, previous |-> prev]

(* An edit or undo; a restore of everything, whose reads of the current    *)
(* bytes may have come back wrong; a restore from a directory that lists a *)
(* sector twice; a repair that writes only the directory.                  *)
MCPlans ==
    { <<MCWrite(p1, old)>>, <<MCWrite(dir, torn)>>,
      <<MCWrite(p1, old), MCWrite(p2, torn), MCWrite(dir, oldDir)>>,
      <<MCWrite(p1, old), MCWrite(p2, old), MCWrite(p1, old), MCWrite(dir, oldDir)>> }
=============================================================================
