---------------------------- MODULE SectorWrites ----------------------------
(***************************************************************************)
(* Verified writes of whole flash sectors: write_verified and put_back of  *)
(* src/src/editing.rs over write_sector and read_sector of                 *)
(* src/src/onboard/feature.rs, and the loop that applies a planned list of *)
(* writes (restore, repair_directory; an edit is a list of one).           *)
(*                                                                         *)
(* The device is the environment: a transfer can fail part way (the sector *)
(* then holds its old bytes, the new ones or damaged ones), commit damaged *)
(* bytes, and a read can fail or come back wrong.  Each of these costs one *)
(* of MaxFaults faults.  The process can be killed between two requests or *)
(* in the middle of a transfer.  A wrong read is assumed never to show     *)
(* exactly the bytes it is compared with.                                  *)
(***************************************************************************)
EXTENDS Naturals, Sequences

CONSTANTS
    Sector,     \* the user sectors of the mouse, directory included
    Content,    \* Content[s] is the set of contents sector s can hold
    Damage,     \* Damage[s]: what a broken transfer can leave in sector s
    JobPlans,   \* the lists of writes a job may be asked to make
    MaxFaults   \* bound: device faults and kills in a behaviour

VARIABLES
    mem,        \* mem[s]: the contents of sector s
    writes,     \* the SectorWrites of the current or last job
    at,         \* the write being made, an index into writes
    phase,      \* the request sequence the job is in
    result,     \* how the last job ended
    faults,     \* device faults and kills so far
    start,      \* history: the memory when the job began
    held        \* history: the current sector's contents when its write began

vars == <<mem, writes, at, phase, result, faults, start, held>>

AllContent == UNION {Content[s] : s \in Sector}

(* editing.rs SectorWrite. *)
Write == { w \in [sector : Sector, data : AllContent, previous : AllContent] :
             w.data \in Content[w.sector] /\ w.previous \in Content[w.sector] }

(* A plan may name a sector twice (plan_restore drops only adjacent        *)
(* repeats), but then both writes come from the same backup.               *)
Plans == { ws \in Seq(Write) :
             /\ ws # <<>>
             /\ \A i, j \in DOMAIN ws :
                   ws[i].sector = ws[j].sector => ws[i].data = ws[j].data }

ASSUME ContentAssumption == Sector # {} /\ \A s \in Sector : Content[s] # {}
ASSUME DamageAssumption == \A s \in Sector : Damage[s] \subseteq Content[s]
ASSUME PlansAssumption == JobPlans \subseteq Plans
ASSUME FaultsAssumption == MaxFaults \in Nat

Phases  == {"idle", "writing", "written", "undoing", "undone"}
Results == {"none", "ok", "restored", "not_restored", "unread", "killed"}

Memory == { m \in [Sector -> AllContent] : \A s \in Sector : m[s] \in Content[s] }

TypeOK ==
    /\ mem \in Memory
    /\ writes \in Seq(Write)
    /\ at \in Nat
    /\ phase \in Phases
    /\ result \in Results
    /\ faults \in 0..MaxFaults
    /\ start \in Memory
    /\ held \in AllContent

Init ==
    /\ mem \in Memory
    /\ writes = <<>>
    /\ at = 1
    /\ phase = "idle"
    /\ result = "none"
    /\ faults = 0
    /\ start = mem
    /\ held = CHOOSE c \in AllContent : TRUE

Cur == writes[at].sector

Fault == faults < MaxFaults /\ faults' = faults + 1

(* The sector being worked on now holds c. *)
Store(c) == mem' = [mem EXCEPT ![Cur] = c]

(* What the sector can hold after a transfer of `sent' broke off. *)
Broken(sent) == Damage[Cur] \cup {mem[Cur], sent}

Finish(r) == phase' = "idle" /\ result' = r

-----------------------------------------------------------------------------
(* A job starts with its first write. *)
Begin(ws) ==
    /\ phase = "idle"
    /\ writes' = ws
    /\ at' = 1
    /\ phase' = "writing"
    /\ result' = "none"
    /\ start' = mem
    /\ held' = mem[ws[1].sector]
    /\ UNCHANGED <<mem, faults>>

(* write_sector succeeded: the sector holds the data, or, unnoticed so far, *)
(* something else.                                                          *)
WriteSector ==
    /\ phase = "writing"
    /\ \/ Store(writes[at].data) /\ UNCHANGED faults
       \/ Fault /\ \E c \in Damage[Cur] : Store(c)
    /\ phase' = "written"
    /\ UNCHANGED <<writes, at, result, start, held>>

(* write_sector failed part way: put_back follows. *)
WriteSectorFails ==
    /\ phase = "writing"
    /\ Fault
    /\ \E c \in Broken(writes[at].data) : Store(c)
    /\ phase' = "undoing"
    /\ UNCHANGED <<writes, at, result, start, held>>

(* Faulty variant: any read-back is taken for a match. *)
ReadBackMatches_Unchecked ==
    /\ phase = "written"
    /\ at' = at + 1
    /\ IF at = Len(writes)
       THEN Finish("ok") /\ UNCHANGED held
       ELSE phase' = "writing" /\ UNCHANGED result /\ held' = mem[writes[at + 1].sector]
    /\ UNCHANGED <<mem, writes, faults, start>>

(* The read-back equals the data: on to the next write, or the job is done. *)
ReadBackMatches ==
    /\ phase = "written"
    /\ mem[Cur] = writes[at].data
    /\ at' = at + 1
    /\ IF at = Len(writes)
       THEN Finish("ok") /\ UNCHANGED held
       ELSE phase' = "writing" /\ UNCHANGED result /\ held' = mem[writes[at + 1].sector]
    /\ UNCHANGED <<mem, writes, faults, start>>

(* Faulty variant: a sector that did not take is skipped and the next one   *)
(* is written.                                                              *)
ReadBackDiffers_GoesOn ==
    /\ phase = "written" /\ at < Len(writes)
    /\ (mem[Cur] # writes[at].data /\ UNCHANGED faults) \/ Fault
    /\ phase' = "writing" /\ at' = at + 1 /\ held' = mem[writes[at + 1].sector]
    /\ UNCHANGED <<mem, writes, result, start>>

(* The read-back differs, because the sector does or the read came back    *)
(* wrong: put_back follows.                                                *)
ReadBackDiffers ==
    /\ phase = "written"
    /\ (mem[Cur] # writes[at].data /\ UNCHANGED faults) \/ Fault
    /\ phase' = "undoing"
    /\ UNCHANGED <<mem, writes, at, result, start, held>>

(* The read-back request itself fails: the error is returned as it is, and *)
(* nothing is put back.                                                    *)
ReadBackFails ==
    /\ phase = "written"
    /\ Fault
    /\ Finish("unread")
    /\ UNCHANGED <<mem, writes, at, start, held>>

(* Faulty variant: the previous bytes of the job's first sector are put     *)
(* back, whichever failed.                                                  *)
PutBack_First ==
    /\ phase = "undoing"
    /\ Store(writes[1].previous)
    /\ phase' = "undone"
    /\ UNCHANGED <<writes, at, result, faults, start, held>>

(* put_back's write_sector. *)
PutBack ==
    /\ phase = "undoing"
    /\ \/ Store(writes[at].previous) /\ UNCHANGED faults
       \/ Fault /\ \E c \in Damage[Cur] : Store(c)
    /\ phase' = "undone"
    /\ UNCHANGED <<writes, at, result, start, held>>

PutBackFails ==
    /\ phase = "undoing"
    /\ Fault
    /\ \E c \in Broken(writes[at].previous) : Store(c)
    /\ Finish("not_restored")
    /\ UNCHANGED <<writes, at, start, held>>

(* Faulty variant: the put-back is reported without reading it. *)
ConfirmMatches_Unread ==
    /\ phase = "undone"
    /\ Finish("restored")
    /\ UNCHANGED <<mem, writes, at, faults, start, held>>

(* put_back's read, which must equal the previous bytes. *)
ConfirmMatches ==
    /\ phase = "undone"
    /\ mem[Cur] = writes[at].previous
    /\ Finish("restored")
    /\ UNCHANGED <<mem, writes, at, faults, start, held>>

ConfirmDiffers ==
    /\ phase = "undone"
    /\ (mem[Cur] # writes[at].previous /\ UNCHANGED faults) \/ Fault
    /\ Finish("not_restored")
    /\ UNCHANGED <<mem, writes, at, start, held>>

(* The process dies.  In the middle of a transfer the sector may hold      *)
(* anything; otherwise it stays as it is.                                  *)
Kill ==
    /\ phase # "idle"
    /\ Fault
    /\ \/ phase = "writing" /\ \E c \in Broken(writes[at].data) : Store(c)
       \/ phase = "undoing" /\ \E c \in Broken(writes[at].previous) : Store(c)
       \/ phase \in {"written", "undone"} /\ UNCHANGED mem
    /\ Finish("killed")
    /\ UNCHANGED <<writes, at, start, held>>

JobStep ==
    \/ WriteSector
    \/ WriteSectorFails
    \/ ReadBackMatches
    \/ ReadBackDiffers
    \/ ReadBackFails
    \/ PutBack
    \/ PutBackFails
    \/ ConfirmMatches
    \/ ConfirmDiffers
    \/ Kill

Next == JobStep \/ \E ws \in JobPlans : Begin(ws)

Spec == Init /\ [][Next]_vars

-----------------------------------------------------------------------------
(* The sectors a job has finished with. *)
Finished == { writes[i].sector : i \in {j \in DOMAIN writes : j < at} }

(* The sector nothing general can be said about: the one being worked on,  *)
(* or the one an unsuccessful job stopped at.                              *)
AtRisk == IF writes = <<>> \/ result = "ok" THEN {} ELSE {Cur}

(* At every moment, and after any failure or kill, every sector but the    *)
(* one being worked on holds exactly what the plan wrote to it when its    *)
(* turn is over, and exactly what it held before the job when it is not:   *)
(* a job that stops can damage one sector at most, and no later one.       *)
MemoryFollowsPlan ==
    /\ \A i \in DOMAIN writes :
          i < at /\ writes[i].sector \notin AtRisk
             => mem[writes[i].sector] = writes[i].data
    /\ \A s \in Sector \ (AtRisk \cup Finished) : mem[s] = start[s]

(* What a job reports is true of the memory: "ok" means every planned      *)
(* sector holds its new bytes, and an error that says the previous         *)
(* contents were written back means the failed sector holds them.          *)
ReportIsTrue ==
    /\ result = "ok" => \A i \in DOMAIN writes : mem[writes[i].sector] = writes[i].data
    /\ result = "restored" => mem[Cur] = writes[at].previous

(* The memory as a caller may count on it: a write in progress has not     *)
(* happened yet.                                                           *)
promised == IF phase = "idle" THEN mem ELSE [mem EXCEPT ![Cur] = held]

verdictOf ==
    IF phase # "idle" THEN "working"
    ELSE IF result \in {"none", "ok", "restored"} THEN result ELSE "unsure"

Abs == INSTANCE AtomicWrites WITH
          memory  <- promised,
          plan    <- writes,
          done    <- at - 1,
          verdict <- verdictOf

(* Transfers, read-backs, put-backs and kills implement sectors that       *)
(* change one at a time and whole.                                         *)
ImplementsAtomicWrites == Abs!AbsSpec
=============================================================================
