---------------------------- MODULE AtomicWrites ----------------------------
(***************************************************************************)
(* What a write job on the mouse's profile memory promises its caller,     *)
(* before any detail of how a sector is transferred, read back or put      *)
(* back: the planned sectors change one after another, in plan order, each *)
(* from its old contents to its new contents in one step.  A job that      *)
(* stops early says what became of the one sector it was working on: it    *)
(* holds the bytes the plan would put back ("restored"), or nothing is     *)
(* promised about it ("unsure").  No other sector is ever at risk.         *)
(*                                                                         *)
(* SectorWrites, which is translated from src/src/editing.rs, implements   *)
(* this specification.                                                     *)
(***************************************************************************)
EXTENDS Naturals, Sequences

CONSTANTS
    Sector,     \* the user sectors of the mouse
    Content     \* Content[s] is the set of contents sector s can hold

(* One planned write: a sector, its new bytes, and the bytes to put back.  *)
Write == { w \in [sector   : Sector,
                  data     : UNION {Content[s] : s \in Sector},
                  previous : UNION {Content[s] : s \in Sector}] :
             w.data \in Content[w.sector] /\ w.previous \in Content[w.sector] }

VARIABLES
    memory,     \* memory[s]: the contents of sector s
    plan,       \* the writes of the current or last job, in order
    done,       \* how many of them have been made
    verdict     \* "none", "working", "ok", "restored" or "unsure"

absVars == <<memory, plan, done, verdict>>

AbsInit ==
    /\ \A s \in Sector : memory[s] \in Content[s]
    /\ plan = <<>>
    /\ done = 0
    /\ verdict = "none"

(* A new job is accepted only when none is at work. *)
Accept ==
    /\ verdict # "working"
    /\ plan' \in Seq(Write)
    /\ plan' # <<>>
    /\ done' = 0
    /\ verdict' = "working"
    /\ UNCHANGED memory

(* The next planned sector changes, whole. *)
Commit ==
    /\ verdict = "working"
    /\ done < Len(plan)
    /\ memory' = [memory EXCEPT ![plan[done + 1].sector] = plan[done + 1].data]
    /\ done' = done + 1
    /\ verdict' = IF done + 1 = Len(plan) THEN "ok" ELSE "working"
    /\ UNCHANGED plan

(* The job stops, and the sector it worked on holds the bytes to put back. *)
StopRestored ==
    /\ verdict = "working"
    /\ done < Len(plan)
    /\ memory' = [memory EXCEPT ![plan[done + 1].sector] = plan[done + 1].previous]
    /\ verdict' = "restored"
    /\ UNCHANGED <<plan, done>>

(* The job stops without knowing what the sector it worked on holds. *)
StopUnsure ==
    /\ verdict = "working"
    /\ done < Len(plan)
    /\ \E c \in Content[plan[done + 1].sector] :
          memory' = [memory EXCEPT ![plan[done + 1].sector] = c]
    /\ verdict' = "unsure"
    /\ UNCHANGED <<plan, done>>

AbsNext == Accept \/ Commit \/ StopRestored \/ StopUnsure

AbsSpec == AbsInit /\ [][AbsNext]_absVars
=============================================================================
