------------------------- MODULE SectorWritesProofs -------------------------
(***************************************************************************)
(* Machine-checked proofs about SectorWrites, for every set of sectors,    *)
(* every set of contents, every list of planned writes and every number of *)
(* faults.                                                                 *)
(***************************************************************************)
EXTENDS SectorWrites, TLAPS

-----------------------------------------------------------------------------
(* Facts about plans and memories.                                         *)

(* A planned write names a sector and contents of that sector. *)
LEMMA WriteFields ==
    ASSUME NEW w \in Write
    PROVE  /\ w.sector \in Sector
           /\ w.data \in Content[w.sector]
           /\ w.previous \in Content[w.sector]
           /\ w.data \in AllContent
  BY DEF Write, AllContent

(* A job's list of writes is not empty, and repeats of a sector agree. *)
LEMMA PlanFacts ==
    ASSUME NEW ws \in Plans
    PROVE  /\ ws \in Seq(Write)
           /\ ws # <<>>
           /\ Len(ws) \in Nat \ {0}
           /\ 1 \in DOMAIN ws
           /\ \A i, j \in DOMAIN ws :
                 ws[i].sector = ws[j].sector => ws[i].data = ws[j].data
  BY DEF Plans

(* Storing one of a sector's contents keeps the memory a memory. *)
LEMMA StoreKeepsMemory ==
    ASSUME NEW m \in Memory, NEW s \in Sector, NEW c \in Content[s]
    PROVE  /\ [m EXCEPT ![s] = c] \in Memory
           /\ [m EXCEPT ![s] = c][s] = c
           /\ \A t \in Sector \ {s} : [m EXCEPT ![s] = c][t] = m[t]
  BY DEF Memory, AllContent

-----------------------------------------------------------------------------
(* The inductive invariant.                                                *)

(* While a job is at work, and after it stopped without success, `at' is   *)
(* an index of its list; after success it is one past the end.             *)
Position ==
    /\ result # "ok" /\ writes # <<>> => at \in DOMAIN writes
    /\ result = "ok" => at = Len(writes) + 1
    /\ phase # "idle" => writes # <<>> /\ result = "none"
    /\ result \in {"ok", "restored"} => writes # <<>>

Consistent ==
    \A i, j \in DOMAIN writes :
        writes[i].sector = writes[j].sector => writes[i].data = writes[j].data

IInv == TypeOK /\ Position /\ Consistent /\ MemoryFollowsPlan /\ ReportIsTrue

(* The facts every step of a job starts from. *)
LEMMA AtWork ==
    ASSUME IInv, phase # "idle"
    PROVE  /\ writes \in Seq(Write) /\ at \in DOMAIN writes /\ at \in 1..Len(writes)
           /\ writes[at] \in Write
           /\ Cur \in Sector
           /\ result = "none"
           /\ AtRisk = {Cur}
           /\ writes # <<>>
<1>1. at \in DOMAIN writes /\ writes \in Seq(Write) /\ result = "none" /\ writes # <<>>
  BY DEF IInv, Position, TypeOK
<1>2. writes[at] \in Write
  BY <1>1
<1> QED
  BY <1>1, <1>2, WriteFields DEF Cur, AtRisk

(* A step that changes at most the sector being worked on, and does not    *)
(* report success, keeps the invariant's claims about the memory.          *)
LEMMA OnlyCurrentChanges ==
    ASSUME IInv, phase # "idle",
           UNCHANGED <<writes, at, start>>,
           mem' \in Memory,
           \A s \in Sector \ {Cur} : mem'[s] = mem[s],
           result' # "ok"
    PROVE  MemoryFollowsPlan'
<1>1. AtRisk = {Cur} /\ AtRisk' = {Cur} /\ Finished' = Finished
  BY AtWork DEF AtRisk, Cur, Finished
<1>2. ASSUME NEW i \in DOMAIN writes, i < at, writes[i].sector \notin AtRisk
      PROVE  mem'[writes[i].sector] = writes[i].data
  <2>1. writes[i] \in Write /\ writes[i].sector \in Sector \ {Cur}
    BY <1>1, <1>2, AtWork, WriteFields
  <2> QED
    BY <1>2, <2>1 DEF IInv, MemoryFollowsPlan
<1>3. ASSUME NEW s \in Sector \ (AtRisk \cup Finished)
      PROVE  mem'[s] = start[s]
  BY <1>1, <1>3 DEF IInv, MemoryFollowsPlan
<1> QED
  BY <1>1, <1>2, <1>3 DEF MemoryFollowsPlan

(* Storing contents in the sector being worked on is such a step. *)
LEMMA StoreCurrent ==
    ASSUME IInv, phase # "idle", NEW c \in Content[Cur], Store(c)
    PROVE  /\ mem' \in Memory
           /\ mem'[Cur] = c
           /\ \A s \in Sector \ {Cur} : mem'[s] = mem[s]
<1>1. mem \in Memory /\ Cur \in Sector
  BY AtWork DEF IInv, TypeOK
<1>2. mem' = [mem EXCEPT ![Cur] = c]
  BY DEF Store
<1>3. [mem EXCEPT ![Cur] = c] \in Memory
  BY <1>1, StoreKeepsMemory
<1> QED
  BY <1>1, <1>2, <1>3 DEF Memory

(* A broken transfer leaves one of the sector's contents. *)
LEMMA BrokenContent ==
    ASSUME IInv, phase # "idle"
    PROVE  /\ Damage[Cur] \subseteq Content[Cur]
           /\ Broken(writes[at].data) \subseteq Content[Cur]
           /\ Broken(writes[at].previous) \subseteq Content[Cur]
<1>1. Cur \in Sector /\ mem \in Memory
  BY AtWork DEF IInv, TypeOK
<1>2. writes[at].data \in Content[Cur] /\ writes[at].previous \in Content[Cur]
  BY AtWork, WriteFields DEF Cur
<1> QED
  BY <1>1, <1>2, DamageAssumption DEF Broken, Memory

(* A memory before its first job satisfies it.                             *)
LEMMA InitInvariant == Init => IInv
<1> SUFFICES ASSUME Init PROVE IInv
  OBVIOUS
<1>1. AllContent # {}
  BY ContentAssumption DEF AllContent
<1>2. TypeOK
  BY <1>1, FaultsAssumption DEF Init, TypeOK, Phases, Results
<1>3. MemoryFollowsPlan /\ Position /\ Consistent /\ ReportIsTrue
  BY DEF Init, MemoryFollowsPlan, Position, Consistent, ReportIsTrue
<1> QED
  BY <1>2, <1>3 DEF IInv

-----------------------------------------------------------------------------
(* One lemma per action: each keeps the invariant.                         *)

(* A job that begins a sound list keeps it.                                *)
LEMMA BeginInv ==
    ASSUME IInv, NEW ws \in Plans, Begin(ws)
    PROVE  IInv'
<1>1. /\ ws \in Seq(Write) /\ ws # <<>> /\ 1 \in DOMAIN ws /\ ws[1] \in Write
  BY PlanFacts
<1>2. mem[ws[1].sector] \in AllContent
  BY <1>1, WriteFields DEF IInv, TypeOK, Memory
<1>3. TypeOK'
  BY <1>1, <1>2 DEF IInv, TypeOK, Begin, Phases, Results
<1>4. Position' /\ Consistent'
  BY <1>1, PlanFacts DEF Begin, Position, Consistent
<1>5. Finished' = {}
  BY <1>1 DEF Begin, Finished
<1>6. MemoryFollowsPlan'
  BY <1>1, <1>5 DEF Begin, MemoryFollowsPlan
<1>7. ReportIsTrue'
  BY DEF Begin, ReportIsTrue
<1> QED
  BY <1>3, <1>4, <1>6, <1>7 DEF IInv

(* The transfers: the sector being worked on changes, nothing is reported. *)
LEMMA TransferInv ==
    ASSUME IInv, phase # "idle", NEW c \in Content[Cur], Store(c),
           faults' \in 0..MaxFaults,
           phase' \in Phases \ {"idle"},
           UNCHANGED <<writes, at, result, start, held>>
    PROVE  IInv'
<1>1. mem' \in Memory /\ \A s \in Sector \ {Cur} : mem'[s] = mem[s]
  BY StoreCurrent
<1>2. result = "none" /\ writes # <<>> /\ at \in DOMAIN writes
  BY AtWork
<1>3. TypeOK'
  BY <1>1 DEF IInv, TypeOK
<1>4. Position' /\ Consistent'
  BY <1>2 DEF IInv, Position, Consistent
<1>5. MemoryFollowsPlan'
  BY <1>1, <1>2, OnlyCurrentChanges
<1>6. ReportIsTrue'
  BY <1>2 DEF ReportIsTrue
<1> QED
  BY <1>3, <1>4, <1>5, <1>6 DEF IInv

(* The steps that only read, and go on. *)
LEMMA ReadOnInv ==
    ASSUME IInv, phase # "idle",
           faults' \in 0..MaxFaults,
           phase' \in Phases \ {"idle"},
           UNCHANGED <<mem, writes, at, result, start, held>>
    PROVE  IInv'
<1>1. result = "none" /\ writes # <<>> /\ at \in DOMAIN writes
  BY AtWork
<1>2. TypeOK' /\ Position' /\ Consistent'
  BY <1>1 DEF IInv, TypeOK, Position, Consistent
<1>3. MemoryFollowsPlan'
  BY <1>1, OnlyCurrentChanges DEF IInv, TypeOK
<1>4. ReportIsTrue'
  BY <1>1 DEF ReportIsTrue
<1> QED
  BY <1>2, <1>3, <1>4 DEF IInv

(* The steps that end a job without success. *)
LEMMA StopInv ==
    ASSUME IInv, phase # "idle",
           mem' \in Memory,
           \A s \in Sector \ {Cur} : mem'[s] = mem[s],
           faults' \in 0..MaxFaults,
           phase' = "idle",
           result' \in {"restored", "not_restored", "unread", "killed"},
           result' = "restored" => mem'[Cur] = writes[at].previous,
           UNCHANGED <<writes, at, start, held>>
    PROVE  IInv'
<1>1. result = "none" /\ writes # <<>> /\ at \in DOMAIN writes
  BY AtWork
<1>2. TypeOK'
  BY DEF IInv, TypeOK, Phases, Results
<1>3. Position' /\ Consistent'
  BY <1>1 DEF IInv, Position, Consistent
<1>4. MemoryFollowsPlan'
  BY OnlyCurrentChanges
<1>5. ReportIsTrue'
  BY DEF ReportIsTrue, Cur
<1> QED
  BY <1>2, <1>3, <1>4, <1>5 DEF IInv

(* A matching read-back: the sector is finished with. *)
LEMMA ReadBackMatchesInv ==
    ASSUME IInv, ReadBackMatches
    PROVE  IInv'
<1>1. /\ phase # "idle" /\ writes \in Seq(Write) /\ at \in 1..Len(writes)
      /\ result = "none" /\ writes # <<>> /\ AtRisk = {Cur} /\ Cur \in Sector
      /\ DOMAIN writes = 1..Len(writes) /\ Len(writes) \in Nat
      /\ UNCHANGED <<mem, writes, faults, start>> /\ at' = at + 1
      /\ mem[Cur] = writes[at].data
  BY AtWork DEF ReadBackMatches
<1>2. \A i \in 1..at : mem[writes[i].sector] = writes[i].data
  <2> TAKE i \in 1..at
  <2>1. CASE writes[i].sector = Cur
    <3>1. writes[i].data = writes[at].data
      BY <1>1, <2>1 DEF IInv, Consistent, Cur
    <3> QED
      BY <1>1, <2>1, <3>1
  <2>2. CASE writes[i].sector # Cur
    <3>1. i \in DOMAIN writes /\ i < at /\ writes[i].sector \notin AtRisk
      BY <1>1, <2>2 DEF Cur
    <3> QED
      BY <3>1 DEF IInv, MemoryFollowsPlan
  <2> QED
    BY <2>1, <2>2
<1>3. Finished' = Finished \cup {Cur}
  BY <1>1 DEF Finished, Cur
<1>4. MemoryFollowsPlan'
  <2>1. ASSUME NEW i \in DOMAIN writes', i < at'
        PROVE  mem'[writes'[i].sector] = writes'[i].data
    BY <1>1, <1>2, <2>1
  <2>2. ASSUME NEW s \in Sector \ (AtRisk' \cup Finished')
        PROVE  mem'[s] = start'[s]
    BY <1>1, <1>3, <2>2 DEF IInv, MemoryFollowsPlan
  <2> QED
    BY <2>1, <2>2 DEF MemoryFollowsPlan
<1>5. CASE at = Len(writes)
  <2>1. phase' = "idle" /\ result' = "ok" /\ held' = held
    BY <1>5 DEF ReadBackMatches, Finish
  <2>2. TypeOK' /\ Position' /\ Consistent'
    BY <1>1, <1>5, <2>1 DEF IInv, TypeOK, Position, Consistent, Phases, Results
  <2>3. ReportIsTrue'
    BY <1>1, <1>2, <1>5, <2>1 DEF ReportIsTrue
  <2> QED
    BY <1>4, <2>2, <2>3 DEF IInv
<1>6. CASE at # Len(writes)
  <2>1. /\ phase' = "writing" /\ result' = result
        /\ held' = mem[writes[at + 1].sector]
    BY <1>6 DEF ReadBackMatches
  <2>a. at + 1 \in 1..Len(writes)
    <3>1. ASSUME NEW n \in Nat, NEW k \in 1..n, k # n
          PROVE  k + 1 \in 1..n
      BY <3>1
    <3> QED
      BY <1>1, <1>6, <3>1
  <2>2. at + 1 \in DOMAIN writes /\ writes[at + 1] \in Write
    BY <1>1, <2>a
  <2>3. held' \in AllContent
    BY <2>1, <2>2, WriteFields DEF IInv, TypeOK, Memory
  <2>4. TypeOK' /\ Position' /\ Consistent'
    BY <1>1, <2>1, <2>2, <2>3 DEF IInv, TypeOK, Position, Consistent, Phases, Results
  <2>5. ReportIsTrue'
    BY <1>1, <2>1 DEF ReportIsTrue
  <2> QED
    BY <1>4, <2>4, <2>5 DEF IInv
<1> QED
  BY <1>5, <1>6

(* Every step keeps the invariant. *)
LEMMA NextInvariant == IInv /\ [Next]_vars => IInv'
<1> SUFFICES ASSUME IInv, [Next]_vars PROVE IInv'
  OBVIOUS
<1>f. ASSUME Fault PROVE faults' \in 0..MaxFaults
  BY <1>f, FaultsAssumption DEF Fault, IInv, TypeOK
<1>g. faults \in 0..MaxFaults /\ mem \in Memory
  BY DEF IInv, TypeOK
<1>1. CASE \E ws \in JobPlans : Begin(ws)
  BY <1>1, BeginInv, PlansAssumption
<1>2. CASE WriteSector
  <2>1. phase # "idle" /\ phase' \in Phases \ {"idle"}
        /\ UNCHANGED <<writes, at, result, start, held>>
    BY <1>2 DEF WriteSector, Phases
  <2>2. writes[at].data \in Content[Cur]
    BY <2>1, AtWork, WriteFields DEF Cur
  <2>3. PICK c \in Content[Cur] : Store(c) /\ faults' \in 0..MaxFaults
    BY <1>2, <1>f, <1>g, <2>1, <2>2, BrokenContent DEF WriteSector
  <2> QED
    BY <2>1, <2>3, TransferInv
<1>3. CASE WriteSectorFails
  <2>1. phase # "idle" /\ phase' \in Phases \ {"idle"}
        /\ UNCHANGED <<writes, at, result, start, held>>
    BY <1>3 DEF WriteSectorFails, Phases
  <2>2. PICK c \in Content[Cur] : Store(c)
    BY <1>3, <2>1, BrokenContent DEF WriteSectorFails
  <2>3. faults' \in 0..MaxFaults
    BY <1>3, <1>f DEF WriteSectorFails
  <2> QED
    BY <2>1, <2>2, <2>3, TransferInv
<1>4. CASE ReadBackMatches
  BY <1>4, ReadBackMatchesInv
<1>5. CASE ReadBackDiffers
  <2>1. faults' \in 0..MaxFaults
    BY <1>5, <1>f, <1>g DEF ReadBackDiffers
  <2> QED
    BY <1>5, <2>1, ReadOnInv DEF ReadBackDiffers, Phases
<1>6. CASE ReadBackFails
  <2>1. faults' \in 0..MaxFaults
    BY <1>6, <1>f DEF ReadBackFails
  <2> QED
    BY <1>6, <1>g, <2>1, StopInv DEF ReadBackFails, Finish
<1>7. CASE PutBack
  <2>1. phase # "idle" /\ phase' \in Phases \ {"idle"}
        /\ UNCHANGED <<writes, at, result, start, held>>
    BY <1>7 DEF PutBack, Phases
  <2>2. writes[at].previous \in Content[Cur]
    BY <2>1, AtWork, WriteFields DEF Cur
  <2>3. PICK c \in Content[Cur] : Store(c) /\ faults' \in 0..MaxFaults
    BY <1>7, <1>f, <1>g, <2>1, <2>2, BrokenContent DEF PutBack
  <2> QED
    BY <2>1, <2>3, TransferInv
<1>8. CASE PutBackFails
  <2>1. phase # "idle" /\ UNCHANGED <<writes, at, start, held>>
        /\ phase' = "idle" /\ result' = "not_restored"
    BY <1>8 DEF PutBackFails, Finish
  <2>2. PICK c \in Content[Cur] : Store(c)
    BY <1>8, <2>1, BrokenContent DEF PutBackFails
  <2>3. faults' \in 0..MaxFaults
    BY <1>8, <1>f DEF PutBackFails
  <2>4. mem' \in Memory /\ \A s \in Sector \ {Cur} : mem'[s] = mem[s]
    BY <2>1, <2>2, StoreCurrent
  <2> QED
    BY <2>1, <2>3, <2>4, StopInv
<1>9. CASE ConfirmMatches
  BY <1>9, <1>g, StopInv DEF ConfirmMatches, Finish
<1>10. CASE ConfirmDiffers
  <2>1. faults' \in 0..MaxFaults
    BY <1>10, <1>f, <1>g DEF ConfirmDiffers
  <2> QED
    BY <1>10, <1>g, <2>1, StopInv DEF ConfirmDiffers, Finish
<1>11. CASE Kill
  <2>1. phase # "idle" /\ UNCHANGED <<writes, at, start, held>>
        /\ phase' = "idle" /\ result' = "killed"
    BY <1>11 DEF Kill, Finish
  <2>2. mem' \in Memory /\ \A s \in Sector \ {Cur} : mem'[s] = mem[s]
    <3>1. CASE UNCHANGED mem
      BY <3>1, <1>g
    <3>2. CASE \E c \in Content[Cur] : Store(c)
      BY <2>1, <3>2, StoreCurrent
    <3> QED
      BY <1>11, <2>1, <3>1, <3>2, BrokenContent DEF Kill
  <2>3. faults' \in 0..MaxFaults
    BY <1>11, <1>f DEF Kill
  <2> QED
    BY <2>1, <2>2, <2>3, StopInv
<1>12. CASE UNCHANGED vars
  BY <1>12 DEF vars, IInv, TypeOK, Position, Consistent, MemoryFollowsPlan,
               ReportIsTrue, AtRisk, Finished, Cur
<1> QED
  BY <1>1, <1>2, <1>3, <1>4, <1>5, <1>6, <1>7, <1>8, <1>9, <1>10, <1>11, <1>12
     DEF Next, JobStep

-----------------------------------------------------------------------------
(* The theorems.                                                           *)

(* Every variable keeps its type through writes, put-backs and kills. *)
THEOREM TypeCorrect == Spec => []TypeOK
<1>1. IInv => TypeOK
  BY DEF IInv
<1> QED
  BY <1>1, InitInvariant, NextInvariant, PTL DEF Spec

(* At every moment, whatever the device does and wherever the process is   *)
(* killed, only the sector being worked on, or the one an unsuccessful job *)
(* stopped at, can hold anything but what the plan says.                   *)
THEOREM MemoryAlwaysFollowsPlan == Spec => []MemoryFollowsPlan
<1>1. IInv => MemoryFollowsPlan
  BY DEF IInv
<1> QED
  BY <1>1, InitInvariant, NextInvariant, PTL DEF Spec

(* A job that reports success wrote every sector, and one that reports     *)
(* that the previous contents were written back left them in the sector.   *)
THEOREM ReportsAreTrue == Spec => []ReportIsTrue
<1>1. IInv => ReportIsTrue
  BY DEF IInv
<1> QED
  BY <1>1, InitInvariant, NextInvariant, PTL DEF Spec

-----------------------------------------------------------------------------
(* The detailed writes implement AtomicWrites.                             *)

(* During a write, `held' is what the promised memory shows. *)
LEMMA PromisedAtWork ==
    ASSUME IInv, phase # "idle"
    PROVE  /\ promised = [mem EXCEPT ![Cur] = held]
           /\ verdictOf = "working"
           /\ at - 1 < Len(writes) /\ (at - 1) + 1 = at /\ at - 1 \in Nat
  BY AtWork DEF promised, verdictOf

(* A step of a write that is not its last changes nothing a caller may     *)
(* count on.                                                               *)
LEMMA InFlightStutters ==
    ASSUME IInv, phase # "idle", phase' # "idle",
           mem' \in Memory,
           \A s \in Sector \ {Cur} : mem'[s] = mem[s],
           UNCHANGED <<writes, at, held>>
    PROVE  UNCHANGED <<promised, writes, at - 1, verdictOf>>
<1>1. Cur' = Cur /\ Cur \in Sector /\ mem \in Memory
  BY AtWork DEF Cur, IInv, TypeOK
<1>2. [mem' EXCEPT ![Cur] = held] = [mem EXCEPT ![Cur] = held]
  BY <1>1 DEF Memory
<1> QED
  BY <1>1, <1>2 DEF promised, verdictOf

(* A job that stops at a sector leaves every other sector as promised. *)
LEMMA StopLeavesOthers ==
    ASSUME IInv, phase # "idle", phase' = "idle",
           mem' \in Memory,
           \A s \in Sector \ {Cur} : mem'[s] = mem[s]
    PROVE  promised' = [promised EXCEPT ![Cur] = mem'[Cur]]
<1>1. Cur \in Sector /\ mem \in Memory
  BY AtWork DEF IInv, TypeOK
<1>2. mem' = [[mem EXCEPT ![Cur] = held] EXCEPT ![Cur] = mem'[Cur]]
  BY <1>1 DEF Memory
<1> QED
  BY <1>2, PromisedAtWork DEF promised

(* A job that stops unsure of its sector is an abstract failure.           *)
LEMMA StopUnsureSteps ==
    ASSUME IInv, phase # "idle", phase' = "idle",
           result' \in {"not_restored", "unread", "killed"},
           mem' \in Memory,
           \A s \in Sector \ {Cur} : mem'[s] = mem[s],
           UNCHANGED <<writes, at>>
    PROVE  Abs!StopUnsure
<1>1. mem'[Cur] \in Content[Cur]
  BY AtWork DEF Memory
<1>2. verdictOf' = "unsure"
  BY DEF verdictOf
<1> QED
  BY <1>1, <1>2, StopLeavesOthers, PromisedAtWork DEF Abs!StopUnsure, Cur

(* A memory before its first job is one of the abstract specification.     *)
LEMMA InitImplementsAbs == Init => Abs!AbsInit
  BY DEF Init, Abs!AbsInit, promised, verdictOf, Memory

(* The abstract module's writes are this module's. *)
LEMMA SameWrites == Abs!Write = Write
  BY DEF Abs!Write, Write, AllContent

(* Every step is a step of AtomicWrites, or changes nothing it shows. *)
LEMMA NextImplementsAbs ==
    ASSUME IInv, IInv', [Next]_vars
    PROVE  [Abs!AbsNext]_(Abs!absVars)
<1> DEFINE Shown == <<promised, writes, at - 1, verdictOf>>
<1>a. ASSUME UNCHANGED Shown PROVE UNCHANGED Abs!absVars
  BY <1>a DEF Abs!absVars
<1>b. mem \in Memory /\ mem' \in Memory
  BY DEF IInv, TypeOK
<1>1. CASE \E ws \in JobPlans : Begin(ws)
  <2>1. PICK ws \in JobPlans : Begin(ws)
    BY <1>1
  <2>2. ws \in Seq(Write) /\ ws # <<>> /\ ws[1] \in Write
    BY PlanFacts, PlansAssumption
  <2>3. phase = "idle" /\ mem' = mem /\ writes' = ws /\ at' = 1 /\ phase' = "writing"
        /\ held' = mem[ws[1].sector]
    BY <2>1 DEF Begin
  <2>4. promised' = promised
    BY <1>b, <2>2, <2>3, WriteFields DEF promised, Cur, Memory
  <2>5. verdictOf # "working" /\ verdictOf' = "working"
    BY <2>3 DEF verdictOf, IInv, TypeOK, Results
  <2> QED
    BY <2>2, <2>3, <2>4, <2>5, SameWrites DEF Abs!AbsNext, Abs!Accept
<1>2. CASE phase # "idle" /\ phase' # "idle" /\ (WriteSector \/ WriteSectorFails \/ PutBack)
  <2>1. UNCHANGED <<writes, at, held>>
    BY <1>2 DEF WriteSector, WriteSectorFails, PutBack
  <2>2. \A s \in Sector \ {Cur} : mem'[s] = mem[s]
    BY <1>2, <1>b DEF WriteSector, WriteSectorFails, PutBack, Store, Memory
  <2> QED
    BY <1>2, <1>a, <1>b, <2>1, <2>2, InFlightStutters
<1>3. CASE ReadBackDiffers
  BY <1>3, <1>a, <1>b, InFlightStutters DEF ReadBackDiffers
<1>4. CASE ReadBackMatches
  <2>1. /\ phase = "written" /\ mem' = mem /\ writes' = writes /\ at' = at + 1
        /\ mem[Cur] = writes[at].data
    BY <1>4 DEF ReadBackMatches
  <2>2. /\ promised = [mem EXCEPT ![Cur] = held] /\ verdictOf = "working"
        /\ at - 1 < Len(writes) /\ (at - 1) + 1 = at /\ Cur \in Sector
    BY <2>1, PromisedAtWork, AtWork
  <2>3. mem = [promised EXCEPT ![Cur] = writes[at].data]
    BY <1>b, <2>1, <2>2 DEF Memory
  <2>4. promised' = mem
    <3>1. CASE at = Len(writes)
      BY <1>4, <2>1, <3>1 DEF ReadBackMatches, Finish, promised
    <3>2. CASE at # Len(writes)
      <4>1. phase' = "writing" /\ held' = mem[Cur']
        BY <1>4, <2>1, <3>2 DEF ReadBackMatches, Cur
      <4> QED
        BY <1>b, <2>1, <4>1 DEF promised, Memory
    <3> QED
      BY <3>1, <3>2
  <2>5. verdictOf' = IF at = Len(writes) THEN "ok" ELSE "working"
    BY <1>4 DEF ReadBackMatches, Finish, verdictOf
  <2>6. Abs!Commit
    BY <2>1, <2>2, <2>3, <2>4, <2>5 DEF Abs!Commit, Cur, IInv, TypeOK
  <2> QED
    BY <2>6 DEF Abs!AbsNext
<1>5. CASE ConfirmMatches
  <2>1. phase # "idle" /\ phase' = "idle" /\ result' = "restored" /\ mem' = mem
        /\ UNCHANGED <<writes, at>> /\ mem[Cur] = writes[at].previous
    BY <1>5 DEF ConfirmMatches, Finish
  <2>2. promised' = [promised EXCEPT ![Cur] = mem'[Cur]]
    BY <1>b, <2>1, StopLeavesOthers
  <2>3. verdictOf' = "restored"
    BY <2>1 DEF verdictOf
  <2>4. Abs!StopRestored
    BY <2>1, <2>2, <2>3, PromisedAtWork DEF Abs!StopRestored, Cur
  <2> QED
    BY <2>4 DEF Abs!AbsNext
<1>6. CASE ReadBackFails \/ PutBackFails \/ ConfirmDiffers \/ Kill
  <2>1. phase # "idle" /\ phase' = "idle" /\ UNCHANGED <<writes, at>>
        /\ result' \in {"not_restored", "unread", "killed"}
    BY <1>6 DEF ReadBackFails, PutBackFails, ConfirmDiffers, Kill, Finish
  <2>2. \A s \in Sector \ {Cur} : mem'[s] = mem[s]
    BY <1>6, <1>b DEF ReadBackFails, PutBackFails, ConfirmDiffers, Kill, Store, Memory
  <2> QED
    BY <1>b, <2>1, <2>2, StopUnsureSteps DEF Abs!AbsNext
<1>7. CASE UNCHANGED vars
  BY <1>7, <1>a DEF vars, promised, verdictOf, Cur
<1>8. WriteSector \/ WriteSectorFails \/ PutBack => phase # "idle" /\ phase' # "idle"
  BY DEF WriteSector, WriteSectorFails, PutBack
<1> QED
  BY <1>1, <1>2, <1>3, <1>4, <1>5, <1>6, <1>7, <1>8 DEF Next, JobStep

(* Transfers that fail or miscommit, read-backs, put-backs and kills       *)
(* together implement sectors that change one at a time, whole, and in     *)
(* plan order.                                                             *)
THEOREM WritesImplementAtomicWrites == Spec => ImplementsAtomicWrites
<1>1. Init => Abs!AbsInit
  BY InitImplementsAbs
<1>2. IInv /\ IInv' /\ [Next]_vars => [Abs!AbsNext]_(Abs!absVars)
  BY NextImplementsAbs
<1> QED
  BY <1>1, <1>2, InitInvariant, NextInvariant, PTL
     DEF Spec, ImplementsAtomicWrites, Abs!AbsSpec

=============================================================================
