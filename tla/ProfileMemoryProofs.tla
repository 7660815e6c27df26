------------------------- MODULE ProfileMemoryProofs ------------------------
(***************************************************************************)
(* Machine-checked proofs about ProfileMemory, for any number of profiles, *)
(* any contents and backup names, and any number of faults, kills and      *)
(* disturbed reads.  A job's writing is taken from SectorWritesProofs.     *)
(***************************************************************************)
EXTENDS ProfileMemory, FiniteSetTheorems, TLAPS

WP == INSTANCE SectorWritesProofs WITH JobPlans <- {}

-----------------------------------------------------------------------------
(* What SectorWrites assumes of its constants holds of this module's.      *)

(* The directory's sector and the profiles' are distinct, and there are    *)
(* finitely many.                                                          *)
LEMMA Sectors ==
    /\ USER_DIRECTORY_SECTOR \in Sector /\ Profile \subseteq Sector
    /\ USER_DIRECTORY_SECTOR \notin Profile
    /\ \A s \in Sector : s = USER_DIRECTORY_SECTOR \/ s \in Profile
    /\ IsFiniteSet(Sector)
    /\ 1 \in Profile
<1>1. Sector = 0..ProfileCount /\ USER_DIRECTORY_SECTOR = 0
  BY CountAssumption DEF Sector, Profile, USER_DIRECTORY_SECTOR
<1>2. IsFiniteSet(0..ProfileCount)
  BY CountAssumption, FS_Interval
<1> QED BY <1>1, <1>2, CountAssumption DEF Sector, Profile

(* What the directory and the profiles can hold.                           *)
LEMMA Contents ==
    /\ \A c \in {Erased, Torn, Noise} : \A s \in Sector : c \in Content[s]
    /\ Content[USER_DIRECTORY_SECTOR] = {Erased, Torn, Noise} \cup Directories
    /\ \A p \in Profile : Content[p] = {Erased, Torn, Noise} \cup Versions
    /\ \A on \in SUBSET Profile, crc \in BOOLEAN : Directory(on, crc) \in Directories
<1>1. \A on \in SUBSET Profile, crc \in BOOLEAN : Directory(on, crc) \in Directories
  BY DEF Directory, Directories
<1> QED BY <1>1, Sectors DEF Content

(* There are sectors, and each can hold something.                         *)
LEMMA SectorsHaveContents == Sector # {} /\ \A s \in Sector : Content[s] # {}
  BY Sectors, Contents

(* Damaged bytes are contents too.                                         *)
LEMMA DamageIsContent == \A s \in Sector : Damage[s] \subseteq Content[s]
<1>1. {Directory(on, FALSE) : on \in {{1}, Profile}} \subseteq Directories
  BY Sectors, Contents
<1>2. ASSUME NEW s \in Sector PROVE Damage[s] \subseteq Content[s]
  <2>1. CASE s = USER_DIRECTORY_SECTOR
    BY <1>1, <2>1, Contents DEF Damage
  <2>2. CASE s # USER_DIRECTORY_SECTOR
    BY <2>2, Sectors, Contents DEF Damage
  <2> QED BY <2>1, <2>2
<1> QED BY <1>2

(* Begin is never taken by SectorWrites itself: the commands call it.      *)
LEMMA NoJobPlans == {} \subseteq WP!Plans
  OBVIOUS

(* The two instances of SectorWrites are one.                              *)
LEMMA SameWrite == W!Write = WP!Write /\ W!AllContent = WP!AllContent
  BY DEF W!Write, WP!Write, W!AllContent, WP!AllContent

(* So are the lists of writes,                                             *)
LEMMA SamePlans == W!Plans = WP!Plans
  BY SameWrite DEF W!Plans, WP!Plans

(* the typing of a job,                                                    *)
LEMMA SameTypes ==
    (W!TypeOK <=> WP!TypeOK) /\ (W!TypeOK' <=> WP!TypeOK') /\ W!Memory = WP!Memory
  BY SameWrite DEF W!TypeOK, WP!TypeOK, W!Memory, WP!Memory, W!Phases, WP!Phases,
                   W!Results, WP!Results

(* and its steps.                                                          *)
LEMMA SameSteps ==
    /\ W!Init <=> WP!Init
    /\ \A ws : W!Begin(ws) <=> WP!Begin(ws)
    /\ W!JobStep <=> WP!JobStep
    /\ W!Fault <=> WP!Fault
    /\ W!Cur = WP!Cur
<1>1. W!Init <=> WP!Init
  BY SameWrite, SameTypes DEF W!Init, WP!Init
<1>2. \A ws : W!Begin(ws) <=> WP!Begin(ws)
  BY DEF W!Begin, WP!Begin
<1>3. W!JobStep <=> WP!JobStep
  BY DEF W!JobStep, WP!JobStep, W!Store, WP!Store, W!Cur, WP!Cur, W!Fault, WP!Fault,
         W!Broken, WP!Broken, W!Finish, WP!Finish, W!WriteSector, WP!WriteSector,
         W!WriteSectorFails, WP!WriteSectorFails, W!ReadBackMatches, WP!ReadBackMatches,
         W!ReadBackDiffers, WP!ReadBackDiffers, W!ReadBackFails, WP!ReadBackFails,
         W!PutBack, WP!PutBack, W!PutBackFails, WP!PutBackFails,
         W!ConfirmMatches, WP!ConfirmMatches, W!ConfirmDiffers, WP!ConfirmDiffers,
         W!Kill, WP!Kill
<1> QED BY <1>1, <1>2, <1>3 DEF W!Fault, WP!Fault, W!Cur, WP!Cur

(* A job that begins a sound list, and each of its steps, keeps what       *)
(* SectorWritesProofs shows of jobs.                                       *)
LEMMA JobKeeps ==
    ASSUME WP!IInv, W!JobStep \/ \E ws \in W!Plans : W!Begin(ws)
    PROVE  WP!IInv'
<1>1. CASE W!JobStep
  <2>1. [WP!Next]_(WP!vars)
    BY <1>1, SameSteps DEF WP!Next
  <2> QED BY <2>1, SectorsHaveContents, DamageIsContent, NoJobPlans, BoundsAssumption,
             WP!NextInvariant
<1>2. CASE \E ws \in W!Plans : W!Begin(ws)
  <2>1. PICK ws \in WP!Plans : WP!Begin(ws)
    BY <1>2, SamePlans, SameSteps
  <2> QED BY <2>1, SectorsHaveContents, DamageIsContent, NoJobPlans, BoundsAssumption,
             WP!BeginInv
<1> QED BY <1>1, <1>2

(* A step that leaves the job alone keeps it too.                          *)
LEMMA JobRests ==
    ASSUME WP!IInv, UNCHANGED <<mem, writes, at, phase, result, start, held>>,
           faults' \in 0..MaxFaults
    PROVE  WP!IInv' /\ W!Cur' = W!Cur
<1> USE DEF WP!IInv
<1>1. WP!TypeOK' /\ WP!Position' /\ WP!Consistent'
  BY DEF WP!TypeOK, WP!Position, WP!Consistent
<1>2. WP!AtRisk' = WP!AtRisk /\ WP!Finished' = WP!Finished
  BY DEF WP!AtRisk, WP!Finished, WP!Cur
<1>3. WP!MemoryFollowsPlan'
  BY <1>2 DEF WP!MemoryFollowsPlan
<1>4. WP!ReportIsTrue'
  BY DEF WP!ReportIsTrue, WP!Cur
<1> QED BY <1>1, <1>3, <1>4 DEF W!Cur

(* What a step of a job can do: the sector it works on takes the new       *)
(* bytes, the old ones, damaged ones, or stays.                            *)
LEMMA JobStepWrites ==
    ASSUME WP!IInv, W!JobStep
    PROVE  /\ UNCHANGED <<writes, start>> /\ phase # "idle"
           /\ writes \in Seq(W!Write) /\ at \in DOMAIN writes /\ W!Cur \in Sector
           /\ mem' \in W!Memory
           /\ \A s \in Sector \ {W!Cur} : mem'[s] = mem[s]
           /\ mem'[W!Cur] \in {mem[W!Cur], writes[at].data, writes[at].previous}
                              \cup Damage[W!Cur]
<1>1. phase # "idle" /\ UNCHANGED <<writes, start>>
  BY DEF W!JobStep, W!WriteSector, W!WriteSectorFails, W!ReadBackMatches, W!ReadBackDiffers,
         W!ReadBackFails, W!PutBack, W!PutBackFails, W!ConfirmMatches, W!ConfirmDiffers, W!Kill
<1>2. writes \in Seq(W!Write) /\ at \in DOMAIN writes /\ W!Cur \in Sector /\ mem \in W!Memory
  BY <1>1, SameWrite, SameTypes, SameSteps, SectorsHaveContents, DamageIsContent, NoJobPlans,
     BoundsAssumption, WP!AtWork DEF WP!IInv, WP!TypeOK
<1>3. mem' \in W!Memory
  BY JobKeeps, SameTypes DEF WP!IInv, WP!TypeOK
<1>4. \/ UNCHANGED mem
      \/ \E c \in {mem[W!Cur], writes[at].data, writes[at].previous} \cup Damage[W!Cur] : W!Store(c)
  BY DEF W!JobStep, W!WriteSector, W!WriteSectorFails, W!ReadBackMatches, W!ReadBackDiffers,
         W!ReadBackFails, W!PutBack, W!PutBackFails, W!ConfirmMatches, W!ConfirmDiffers, W!Kill,
         W!Broken
<1>5. ASSUME NEW c, W!Store(c)
      PROVE  mem'[W!Cur] = c /\ \A s \in Sector \ {W!Cur} : mem'[s] = mem[s]
  BY <1>2, <1>5 DEF W!Store, W!Memory
<1> QED BY <1>1, <1>2, <1>3, <1>4, <1>5

-----------------------------------------------------------------------------
(* Disturbed reads.                                                        *)

(* A pass that cost nothing saw the memory as it is, and one that cost     *)
(* less than two saw every sector that checks out as it is.                *)
LEMMA SeenFacts ==
    ASSUME TypeOK, NEW seen \in Seen
    PROVE  /\ \A s \in Sector : seen[s] \in {mem[s], Noise} /\ seen[s] \in Content[s]
           /\ Cost(seen) \in Nat /\ noise + Cost(seen) \in 0..MaxNoise
           /\ Cost(seen) = 0 => \A s \in Sector : seen[s] = mem[s]
           /\ Cost(seen) < 2 => \A s \in Sector : Valid(s, mem[s]) => seen[s] = mem[s]
<1> DEFINE wrong == Misread(seen)
           twice == { s \in wrong : Valid(s, mem[s]) }
<1>1. IsFiniteSet(wrong) /\ IsFiniteSet(twice) /\ twice \subseteq wrong
  BY Sectors, FS_Subset DEF Misread
<1>2. /\ Cardinality(wrong) \in Nat /\ Cardinality(twice) \in Nat
      /\ Cardinality(twice) <= Cardinality(wrong)
      /\ Cardinality(wrong) = 0 => wrong = {}
      /\ Cardinality(twice) = 0 => twice = {}
  BY <1>1, FS_CardinalityType, FS_Subset, FS_EmptySet
<1>3. Cost(seen) = Cardinality(wrong) + Cardinality(twice)
  BY DEF Cost
<1>4. noise \in 0..MaxNoise /\ noise + Cost(seen) <= MaxNoise
  BY DEF Seen, TypeOK
<1>5. \A s \in Sector : seen[s] \in {mem[s], Noise} /\ seen[s] \in Content[s]
  BY Contents DEF Seen, AsIs, TypeOK, W!TypeOK, W!Memory
<1>6. Cost(seen) = 0 => wrong = {}
  BY <1>2, <1>3
<1>7. Cost(seen) < 2 => twice = {}
  BY <1>2, <1>3
<1>8. wrong = {} => \A s \in Sector : seen[s] = mem[s]
  BY DEF Misread
<1>9. twice = {} => \A s \in Sector : Valid(s, mem[s]) => seen[s] = mem[s]
  BY DEF Misread
<1> HIDE DEF wrong, twice
<1> QED BY <1>2, <1>3, <1>4, <1>5, <1>6, <1>7, <1>8, <1>9, BoundsAssumption

-----------------------------------------------------------------------------
(* The inductive invariant.                                                *)

AllOff == Directory({}, TRUE)

(* The memory a command planned from. *)
Base == IF cmd.stage \in {"planned", "saved"} THEN mem ELSE start

(* A command is under way, or has written. *)
Live == cmd.stage # "over" \/ cmd.kind # "none"

(* What a list of writes planned from base promises: it never turns every  *)
(* profile off, it puts back what was there unless a read was disturbed, a *)
(* restore's covers every sector that is not as in the file, and a first   *)
(* directory comes after its profiles. *)
SoundPlan(kind, file, ws, base) ==
    /\ ws \in W!Plans
    /\ \A i, j \in DOMAIN ws : ws[i].sector = ws[j].sector => i = j
    /\ \A i \in DOMAIN ws :
          ws[i].sector = USER_DIRECTORY_SECTOR => AllOff \notin {ws[i].data, ws[i].previous}
    /\ noise = 0 => \A i \in DOMAIN ws : ws[i].previous = base[ws[i].sector]
    /\ kind = "restore" =>
          /\ file \in FileName /\ Restorable(files[file])
          /\ \A i \in DOMAIN ws : ws[i].data = files[file][ws[i].sector]
          /\ \A s \in Sector : base[s] = files[file][s] \/ \E i \in DOMAIN ws : ws[i].sector = s
    /\ kind = "repair" /\ base[USER_DIRECTORY_SECTOR] = Erased =>
          /\ Len(ws) = ProfileCount + 1
          /\ \A p \in Profile : ws[p].sector = p /\ ws[p].data = Factory
          /\ ws[ProfileCount + 1].sector = USER_DIRECTORY_SECTOR

PlanInv == Live => SoundPlan(cmd.kind, cmd.file, cmd.plan, Base)

(* A job runs exactly while a command writes, and is that command's. *)
StageInv ==
    /\ cmd.stage = "running" <=> phase # "idle"
    /\ HasWritten => writes = cmd.plan

(* The backup of a command that has saved it. *)
BackupInv ==
    cmd.stage = "saved" \/ HasWritten =>
        /\ cmd.backup \in FileName /\ files[cmd.backup] \in Files
        /\ files[cmd.backup][USER_DIRECTORY_SECTOR] \notin {Torn, Noise} =>
              \A s \in Sector : Valid(s, Base[s]) =>
                  \/ files[cmd.backup][s] = Base[s]
                  \/ files[cmd.backup][s] = Noise /\ noise >= 2

(* A backup holds nothing that was never in the memory. *)
FilesInv ==
    \A n \in FileName : files[n] \in Files => files[n][USER_DIRECTORY_SECTOR] # AllOff

(* A mouse that was healthy still is, or can be restored; and nothing is   *)
(* written before it can. *)
SafeInv ==
    setUp /\ noise < 2 =>
        \/ cmd.stage \in {"planned", "over"} /\ \A s \in Sector : Valid(s, mem[s])
        \/ \E n \in FileName : Restorable(files[n])

(* What put_back writes is what the sector held. *)
HeldInv ==
    noise = 0 =>
        /\ phase # "idle" => held = writes[at].previous
        /\ result = "restored" => mem[W!Cur] = held

IInv == /\ TypeOK /\ WP!IInv /\ SomeProfileOn
        /\ StageInv /\ PlanInv /\ BackupInv /\ FilesInv /\ SafeInv /\ HeldInv

(* The lists of a sound plan are typed. *)
LEMMA PlansAreWrites ==
    ASSUME NEW ws \in W!Plans
    PROVE  /\ ws \in Seq(W!Write)
           /\ \A i \in DOMAIN ws : /\ ws[i] \in W!Write /\ ws[i].sector \in Sector
                                    /\ ws[i].data \in Content[ws[i].sector]
                                    /\ ws[i].previous \in Content[ws[i].sector]
  BY DEF W!Plans, W!Write

(* A command that plans soundly keeps the invariant: nothing is written.   *)
LEMMA PlannedKeeps ==
    ASSUME IInv, Idle, NEW kind \in Kinds \ {"none"}, NEW file \in FileName \cup {NoFile},
           NEW ws, Planned(kind, file, ws), SoundPlan(kind, file, ws, mem)',
           noise' \in 0..MaxNoise, noise' >= noise
    PROVE  IInv'
<1> USE DEF IInv, Planned, Idle, jobVars
<1>1. ws \in W!Plans /\ ws \in Seq(W!Write)
  BY PlansAreWrites DEF SoundPlan
<1>2. cmd' = [kind |-> kind, file |-> file, plan |-> ws, stage |-> "planned", backup |-> NoFile]
  BY DEF NoCommand
<1>3. TypeOK'
  <2>1. cmd' \in Command
    BY <1>1, <1>2 DEF Command, Stages
  <2> QED BY <2>1 DEF TypeOK, W!TypeOK
<1>4. WP!IInv' /\ SomeProfileOn' /\ FilesInv'
  BY JobRests DEF TypeOK, W!TypeOK, SomeProfileOn, FilesInv
<1>5. StageInv' /\ BackupInv'
  BY <1>2 DEF StageInv, BackupInv, HasWritten
<1>6. PlanInv'
  BY <1>2 DEF PlanInv, Base
<1>7. SafeInv'
  BY <1>2 DEF SafeInv, TypeOK, Restorable
<1>8. HeldInv'
  BY DEF HeldInv, TypeOK, W!Cur
<1> QED BY <1>3, <1>4, <1>5, <1>6, <1>7, <1>8

(* A file that is there and whole is neither of the two marks.             *)
LEMMA MarksAreNoFiles == NoFile \notin Files /\ HalfFile \notin Files
<1>1. Files \subseteq [Sector -> W!AllContent \cup {NotSaved}]
  BY DEF Files
<1>2. {NoFile, HalfFile} \cap [Sector -> W!AllContent \cup {NotSaved}] = {}
  BY DistinctAssumption, Zenon DEF W!AllContent
<1> QED BY <1>1, <1>2

(* A command that ends without writing keeps it.                           *)
LEMMA EndsEarly ==
    ASSUME IInv, cmd.stage \in {"planned", "saved"}, cmd' = NoCommand,
           UNCHANGED <<mem, writes, at, phase, result, start, held, noise, setUp>>,
           faults' \in 0..MaxFaults, DOMAIN files' = FileName,
           \A n \in FileName : files'[n] = files[n] \/ (files[n] = NoFile /\ files'[n] = HalfFile)
    PROVE  IInv'
<1> USE DEF IInv
<1>1. TypeOK'
  BY DEF TypeOK, W!TypeOK, NoCommand, Command, Kinds, Stages
<1>2. WP!IInv' /\ SomeProfileOn'
  BY JobRests DEF SomeProfileOn
<1>3. FilesInv'
  BY MarksAreNoFiles DEF FilesInv
<1>4. StageInv' /\ BackupInv' /\ PlanInv'
  BY DEF StageInv, BackupInv, PlanInv, HasWritten, Live, NoCommand
<1>5. SafeInv'
  <2>1. \A n \in FileName : Restorable(files[n]) => Restorable(files'[n])
    BY DEF Restorable
  <2>2. (\A s \in Sector : Valid(s, mem[s])) <=> (\A s \in Sector : Valid(s, mem'[s]))
    OBVIOUS
  <2> QED BY <2>1, <2>2 DEF SafeInv, NoCommand, Restorable
<1>6. HeldInv'
  BY DEF HeldInv, W!Cur
<1> QED BY <1>1, <1>2, <1>3, <1>4, <1>5, <1>6

-----------------------------------------------------------------------------
(* Planning. *)

(* The contents a sector that checks out holds. *)
LEMMA ValidContents ==
    /\ \A c : Valid(USER_DIRECTORY_SECTOR, c) => /\ c \in Directories /\ c.on \subseteq Profile
                                               /\ c = Directory(c.on, TRUE)
    /\ \A p \in Profile : \A c : Valid(p, c) <=> c \in Versions
    /\ \A s \in Sector : \A c : Valid(s, c) =>
          c \in Content[s] /\ c \notin {Erased, Torn, Noise, NotSaved}
<1>1. \A p \in Profile : \A c : Valid(p, c) <=> c \in Versions
  BY Sectors DEF Valid
<1>2. ASSUME NEW c, Valid(USER_DIRECTORY_SECTOR, c)
      PROVE  c \in Directories /\ c.on \subseteq Profile /\ c = Directory(c.on, TRUE)
  <2>1. c \in [on : SUBSET Profile, crc : {TRUE}]
    BY <1>2 DEF Valid
  <2>2. c = [on |-> c.on, crc |-> c.crc] /\ c.on \in SUBSET Profile /\ c.crc = TRUE
    BY <2>1
  <2>3. c = Directory(c.on, TRUE)
    BY <2>2 DEF Directory
  <2> QED BY <2>2, <2>3, Contents
<1>3. ASSUME NEW s \in Sector, NEW c, Valid(s, c)
      PROVE  c \in Content[s] /\ c \notin {Erased, Torn, Noise, NotSaved}
  <2>1. c \in (IF s = USER_DIRECTORY_SECTOR THEN Directories ELSE Versions)
    BY <1>1, <1>2, <1>3, Sectors
  <2>2. c \in Content[s]
    BY <2>1, Sectors, Contents
  <2>3. c \in Versions \cup Directories
    BY <2>1
  <2> QED BY <2>2, <2>3, DistinctAssumption
<1> QED BY <1>1, <1>2, <1>3

(* A list of one write. *)
LEMMA OneWrite ==
    ASSUME NEW s \in Sector, NEW d \in Content[s], NEW q \in Content[s]
    PROVE  LET ws == <<SectorWrite(s, d, q)>>
           IN  /\ ws \in W!Plans /\ DOMAIN ws = {1} /\ Len(ws) = 1
               /\ ws[1].sector = s /\ ws[1].data = d /\ ws[1].previous = q
<1> DEFINE ws == <<SectorWrite(s, d, q)>>
<1>1. SectorWrite(s, d, q) \in W!Write
  BY DEF SectorWrite, W!Write, W!AllContent
<1>2. ws \in Seq(W!Write) /\ ws # <<>> /\ DOMAIN ws = {1} /\ Len(ws) = 1
  BY <1>1
<1>3. ws[1].sector = s /\ ws[1].data = d /\ ws[1].previous = q
  BY DEF SectorWrite
<1> QED BY <1>2, <1>3 DEF W!Plans

(* A plan of one write is sound when it writes a profile, or a directory   *)
(* that has one on over one that has. *)
LEMMA OneWriteKeeps ==
    ASSUME IInv, Idle, NEW kind \in Kinds \ {"none", "restore"},
           NEW s \in Sector, NEW d \in Content[s],
           Planned(kind, NoFile, <<SectorWrite(s, d, mem[s])>>), UNCHANGED noise,
           s = USER_DIRECTORY_SECTOR => d # AllOff,
           kind = "repair" => mem[USER_DIRECTORY_SECTOR] # Erased
    PROVE  IInv'
<1>0. PICK ws : ws = <<SectorWrite(s, d, mem[s])>>
  OBVIOUS
<1>1. mem[s] \in Content[s] /\ noise \in 0..MaxNoise /\ mem[USER_DIRECTORY_SECTOR] # AllOff
  BY DEF IInv, TypeOK, W!TypeOK, W!Memory, SomeProfileOn, AllOff
<1>2. /\ ws \in W!Plans /\ DOMAIN ws = {1}
      /\ ws[1].sector = s /\ ws[1].data = d /\ ws[1].previous = mem[s]
  BY <1>0, <1>1, OneWrite
<1>3. Planned(kind, NoFile, ws)
  BY <1>0
<1>4. mem' = mem /\ noise' = noise
  BY <1>3 DEF Planned, jobVars
<1>5. SoundPlan(kind, NoFile, ws, mem)'
  BY <1>1, <1>2, <1>4 DEF SoundPlan
<1>6. noise' \in 0..MaxNoise /\ noise' >= noise /\ kind \in Kinds \ {"none"}
      /\ NoFile \in FileName \cup {NoFile}
  BY <1>1, <1>4, BoundsAssumption
<1> QED BY <1>3, <1>5, <1>6, PlannedKeeps

(* An edit writes one profile. *)
LEMMA PlanEditKeeps ==
    ASSUME IInv, NEW p \in Profile, NEW v \in Versions, PlanEdit(p, v)
    PROVE  IInv'
<1>1. p \in Sector /\ p # USER_DIRECTORY_SECTOR /\ v \in Content[p]
  BY Sectors, Contents
<1>2. Idle /\ Planned("edit", NoFile, <<SectorWrite(p, v, mem[p])>>) /\ UNCHANGED noise
  BY DEF PlanEdit
<1>3. "edit" \in Kinds \ {"none", "restore"}
  BY DEF Kinds
<1> QED BY <1>1, <1>2, <1>3, OneWriteKeeps

(* Turning a profile on or off leaves one on. *)
LEMMA PlanEnableKeeps ==
    ASSUME IInv, NEW p \in Profile, NEW enabled \in BOOLEAN, PlanEnable(p, enabled)
    PROVE  IInv'
<1> DEFINE dir == mem[USER_DIRECTORY_SECTOR]
           on  == IF enabled THEN dir.on \cup {p} ELSE dir.on \ {p}
<1>1. dir.on \subseteq Profile
  BY ValidContents DEF PlanEnable
<1>2. on \subseteq Profile /\ on # {}
  BY <1>1 DEF PlanEnable
<1>3. /\ Idle /\ UNCHANGED noise
      /\ Planned("enable", NoFile,
                 <<SectorWrite(USER_DIRECTORY_SECTOR, Directory(on, TRUE),
                               mem[USER_DIRECTORY_SECTOR])>>)
  BY DEF PlanEnable
<1> HIDE DEF on
<1>4. /\ Directory(on, TRUE) \in Content[USER_DIRECTORY_SECTOR] /\ Directory(on, TRUE) # AllOff
      /\ USER_DIRECTORY_SECTOR \in Sector
  BY <1>2, Contents, Sectors DEF Directory, AllOff
<1>5. "enable" \in Kinds \ {"none", "restore"} /\ "enable" # "repair"
  BY DEF Kinds
<1> QED BY <1>3, <1>4, <1>5, OneWriteKeeps

(* Repairing a directory keeps what its entries say. *)
LEMMA PlanRepairKeeps == ASSUME IInv, PlanRepair PROVE IInv'
<1> DEFINE on == mem[USER_DIRECTORY_SECTOR].on
<1>1. PICK dir \in [on : (SUBSET Profile) \ {{}}, crc : {FALSE}] : dir = mem[USER_DIRECTORY_SECTOR]
  BY DEF PlanRepair
<1>2. dir.on \subseteq Profile /\ dir.on # {} /\ dir.crc = FALSE
      /\ dir = [on |-> dir.on, crc |-> dir.crc]
  OBVIOUS
<1>3. on \subseteq Profile /\ on # {} /\ mem[USER_DIRECTORY_SECTOR] = Directory(on, FALSE)
  BY <1>1, <1>2 DEF Directory
<1>4. /\ Idle /\ UNCHANGED noise
      /\ Planned("repair", NoFile,
                 <<SectorWrite(USER_DIRECTORY_SECTOR, Directory(on, TRUE),
                               mem[USER_DIRECTORY_SECTOR])>>)
  BY DEF PlanRepair
<1> HIDE DEF on
<1>5. /\ Directory(on, TRUE) \in Content[USER_DIRECTORY_SECTOR] /\ Directory(on, TRUE) # AllOff
      /\ USER_DIRECTORY_SECTOR \in Sector /\ Directory(on, FALSE) \in Directories
  BY <1>3, Contents, Sectors DEF Directory, AllOff
<1>6. mem[USER_DIRECTORY_SECTOR] # Erased
  BY <1>3, <1>5, DistinctAssumption
<1>7. "repair" \in Kinds \ {"none", "restore"}
  BY DEF Kinds
<1> QED BY <1>4, <1>5, <1>6, <1>7, OneWriteKeeps

(* A first directory comes after its profiles. *)
LEMMA PlanFirstDirectoryKeeps == ASSUME IInv, PlanFirstDirectory PROVE IInv'
<1>1. PICK seen \in Seen :
        /\ seen[USER_DIRECTORY_SECTOR] = Erased
        /\ Planned("repair", NoFile,
                   Append([p \in Profile |-> SectorWrite(p, Factory, seen[p])],
                          SectorWrite(USER_DIRECTORY_SECTOR, Directory(FirstOn, TRUE), Erased)))
        /\ noise' = noise + Cost(seen)
  BY DEF PlanFirstDirectory
<1>a. PICK first : first = [p \in Profile |-> SectorWrite(p, Factory, seen[p])]
  OBVIOUS
<1>b. PICK last : last = SectorWrite(USER_DIRECTORY_SECTOR, Directory(FirstOn, TRUE), Erased)
  OBVIOUS
<1>c. PICK ws : ws = Append(first, last)
  OBVIOUS
<1>2. last \in W!Write /\ Directory(FirstOn, TRUE) # AllOff
      /\ last.sector = USER_DIRECTORY_SECTOR /\ last.data = Directory(FirstOn, TRUE)
      /\ last.previous = Erased
  <2>1. FirstOn \subseteq Profile /\ FirstOn # {}
    BY FactoryAssumption, Sectors DEF FirstOn
  <2>2. Directory(FirstOn, TRUE) # AllOff
    BY <2>1 DEF Directory, AllOff
  <2> QED BY <1>b, <2>1, <2>2, Contents, Sectors DEF SectorWrite, W!Write, W!AllContent
<1>3. \A p \in Profile : /\ first[p] \in W!Write /\ first[p].sector = p /\ first[p].data = Factory
                         /\ first[p].previous = seen[p]
  <2> SUFFICES ASSUME NEW p \in Profile
               PROVE  SectorWrite(p, Factory, seen[p]) \in W!Write
    BY <1>a DEF SectorWrite
  <2>1. p \in Sector /\ Factory \in Content[p] /\ seen[p] \in Content[p]
    BY SeenFacts, Sectors, Contents, FactoryAssumption DEF IInv
  <2> QED BY <2>1 DEF SectorWrite, W!Write, W!AllContent
<1>4. first \in Seq(W!Write) /\ Len(first) = ProfileCount
  BY <1>a, <1>3, CountAssumption DEF Profile
<1>5. /\ ws \in Seq(W!Write) /\ Len(ws) = ProfileCount + 1 /\ ws # <<>>
      /\ \A p \in Profile : ws[p] = first[p]
      /\ ws[ProfileCount + 1] = last
      /\ DOMAIN ws = 1..(ProfileCount + 1)
  BY <1>2, <1>4, <1>c, CountAssumption DEF Profile
<1>6. \A i \in DOMAIN ws : i \in Profile \/ i = ProfileCount + 1
  BY <1>5, CountAssumption DEF Profile
<1>7. \A i, j \in DOMAIN ws : ws[i].sector = ws[j].sector => i = j
  BY <1>2, <1>3, <1>5, <1>6, Sectors
<1>8. ws \in W!Plans
  BY <1>5, <1>7 DEF W!Plans
<1>9. \A i \in DOMAIN ws :
        ws[i].sector = USER_DIRECTORY_SECTOR => AllOff \notin {ws[i].data, ws[i].previous}
  <2>1. Erased # AllOff
    <3>1. AllOff \in Directories
      BY Contents DEF AllOff
    <3> QED BY <3>1, DistinctAssumption
  <2>2. \A p \in Profile : ws[p].sector # USER_DIRECTORY_SECTOR
    BY <1>3, <1>5, Sectors
  <2> QED BY <2>1, <2>2, <1>2, <1>5, <1>6
<1>10. Cost(seen) = 0 => \A i \in DOMAIN ws : ws[i].previous = mem[ws[i].sector]
  BY <1>1, <1>2, <1>3, <1>5, <1>6, Sectors, SeenFacts DEF IInv
<1>11. Planned("repair", NoFile, ws) /\ Idle
  BY <1>1, <1>a, <1>b, <1>c DEF PlanFirstDirectory
<1>12. noise' \in 0..MaxNoise /\ noise' >= noise /\ (noise' = 0 => Cost(seen) = 0)
  BY <1>1, SeenFacts DEF IInv, TypeOK
<1>13. SoundPlan("repair", NoFile, ws, mem)'
  BY <1>2, <1>3, <1>5, <1>7, <1>8, <1>9, <1>10, <1>11, <1>12 DEF SoundPlan, Planned, jobVars
<1>14. "repair" \in Kinds \ {"none"} /\ NoFile \in FileName \cup {NoFile}
  BY DEF Kinds
<1> QED BY <1>11, <1>12, <1>13, <1>14, PlannedKeeps

(* An order of sectors names each of them once.                            *)
LEMMA OrderFacts ==
    ASSUME NEW sectors \in SUBSET Sector, NEW order \in RestoreOrder(sectors)
    PROVE  /\ Cardinality(sectors) \in Nat /\ DOMAIN order = 1..Cardinality(sectors)
           /\ \A i \in DOMAIN order : order[i] \in sectors
           /\ \A s \in sectors : \E i \in DOMAIN order : order[i] = s
           /\ \A i, j \in DOMAIN order : order[i] = order[j] => i = j
           /\ order # <<>> => 1 \in DOMAIN order
<1>1. Cardinality(sectors) \in Nat
  BY Sectors, FS_Subset, FS_CardinalityType
<1> DEFINE n == Cardinality(sectors)
<1>2. /\ order \in [1..n -> sectors]
      /\ \A s \in sectors : \E i \in DOMAIN order : order[i] = s
      /\ \A i, j \in DOMAIN order : i < j => Turn(order[i]) < Turn(order[j])
  BY DEF RestoreOrder
<1> HIDE DEF n
<1>3. n \in Nat
  BY <1>1 DEF n
<1>4. \A s \in Sector : Turn(s) \in Nat
  BY CountAssumption, Sectors DEF Turn, Profile
<1>5. \A i, j \in DOMAIN order : order[i] = order[j] => i = j
  <2> SUFFICES ASSUME NEW i \in DOMAIN order, NEW j \in DOMAIN order, order[i] = order[j], i < j
               PROVE  FALSE
    BY <1>2, <1>3
  <2>1. Turn(order[i]) < Turn(order[j]) /\ Turn(order[i]) \in Nat
    BY <1>2, <1>4
  <2> QED BY <2>1
<1>6. order # <<>> => 1 \in DOMAIN order
  <2> SUFFICES ASSUME 1 \notin DOMAIN order PROVE order = <<>>
    OBVIOUS
  <2>1. n = 0
    BY <1>2, <1>3
  <2>2. DOMAIN order = {}
    BY <1>2, <2>1
  <2> QED BY <1>2, <2>1, <2>2
<1> QED BY <1>2, <1>3, <1>5, <1>6 DEF n

(* A restore writes what differs from the file. *)
LEMMA PlanRestoreKeeps == ASSUME IInv, NEW n \in FileName, PlanRestore(n) PROVE IInv'
<1>1. PICK seen \in Seen : \E order \in RestoreOrder({ s \in Sector : files[n][s] # seen[s] }) :
          /\ order # <<>>
          /\ Planned("restore", n,
                     [i \in DOMAIN order |->
                         SectorWrite(order[i], files[n][order[i]], seen[order[i]])])
          /\ noise' = noise + Cost(seen)
  BY DEF PlanRestore
<1>2. PICK b : b = files[n]
  OBVIOUS
<1>3. PICK sectors : sectors = { s \in Sector : b[s] # seen[s] }
  OBVIOUS
<1>4. PICK order \in RestoreOrder(sectors) :
          /\ order # <<>>
          /\ Planned("restore", n,
                     [i \in DOMAIN order |-> SectorWrite(order[i], b[order[i]], seen[order[i]])])
          /\ noise' = noise + Cost(seen)
  BY <1>1, <1>2, <1>3
<1>5. PICK ws : ws = [i \in DOMAIN order |-> SectorWrite(order[i], b[order[i]], seen[order[i]])]
  OBVIOUS
<1>6. /\ Idle /\ Planned("restore", n, ws) /\ noise' = noise + Cost(seen)
      /\ UNCHANGED <<mem, files>>
  BY <1>4, <1>5 DEF PlanRestore, Planned, jobVars
<1>7. /\ Restorable(b) /\ b \in Files /\ b[USER_DIRECTORY_SECTOR] # AllOff
  BY <1>2 DEF PlanRestore, Restorable, IInv, TypeOK, FilesInv
<1>8. \A s \in Sector : /\ Valid(s, b[s]) /\ b[s] \in Content[s] /\ b[s] # Noise
                        /\ seen[s] \in {mem[s], Noise} /\ seen[s] \in Content[s]
  BY <1>7, ValidContents, SeenFacts DEF Restorable, IInv
<1>9. /\ Cardinality(sectors) \in Nat /\ DOMAIN order = 1..Cardinality(sectors)
      /\ \A i \in DOMAIN order : order[i] \in sectors
      /\ \A s \in sectors : \E i \in DOMAIN order : order[i] = s
      /\ \A i, j \in DOMAIN order : order[i] = order[j] => i = j
      /\ 1 \in DOMAIN order
  BY <1>3, <1>4, OrderFacts
<1>10. /\ DOMAIN ws = DOMAIN order
       /\ \A i \in DOMAIN ws : /\ order[i] \in Sector
                               /\ ws[i] = SectorWrite(order[i], b[order[i]], seen[order[i]])
                               /\ ws[i].sector = order[i] /\ ws[i].data = b[order[i]]
                               /\ ws[i].previous = seen[order[i]]
  BY <1>3, <1>5, <1>9 DEF SectorWrite
<1>11. \A i \in DOMAIN ws : ws[i] \in W!Write
  BY <1>8, <1>10 DEF SectorWrite, W!Write, W!AllContent
<1>12. ws \in Seq(W!Write) /\ ws # <<>>
  <2>1. ws \in [1..Cardinality(sectors) -> W!Write]
    BY <1>5, <1>9, <1>10, <1>11
  <2>2. ws \in Seq(W!Write)
    BY <2>1, <1>9
  <2> QED BY <2>2, <1>9, <1>10
<1>13. \A i, j \in DOMAIN ws : ws[i].sector = ws[j].sector => i = j
  BY <1>9, <1>10
<1>14. ws \in W!Plans
  BY <1>12, <1>13 DEF W!Plans
<1>15. AllOff \notin {mem[USER_DIRECTORY_SECTOR], Noise, b[USER_DIRECTORY_SECTOR]}
  <2>1. AllOff \in Directories
    BY Contents DEF AllOff
  <2> QED BY <2>1, <1>7, DistinctAssumption DEF IInv, SomeProfileOn, AllOff
<1>16. \A i \in DOMAIN ws :
          ws[i].sector = USER_DIRECTORY_SECTOR => AllOff \notin {ws[i].data, ws[i].previous}
  BY <1>8, <1>10, <1>15
<1>17. noise' \in 0..MaxNoise /\ noise' >= noise /\ (noise' = 0 => Cost(seen) = 0)
  BY <1>6, SeenFacts DEF IInv, TypeOK
<1>18. noise' = 0 => \A i \in DOMAIN ws : ws[i].previous = mem[ws[i].sector]
  BY <1>10, <1>17, SeenFacts DEF IInv
<1>19. \A s \in Sector : mem[s] = b[s] \/ \E i \in DOMAIN ws : ws[i].sector = s
  BY <1>3, <1>8, <1>9, <1>10
<1>20. "restore" \in Kinds \ {"none"} /\ "restore" # "repair" /\ n \in FileName \cup {NoFile}
  BY DEF Kinds
<1>21. files'[n] = b /\ mem' = mem /\ Restorable(files[n])'
  BY <1>2, <1>6, <1>7 DEF Restorable
<1>22. SoundPlan("restore", n, ws, mem)'
  BY <1>10, <1>13, <1>14, <1>16, <1>18, <1>19, <1>20, <1>21 DEF SoundPlan
<1> QED BY <1>6, <1>17, <1>20, <1>22, PlannedKeeps

-----------------------------------------------------------------------------
(* Backups and writing. *)

(* A plan stays sound as long as its file and its base do.                 *)
LEMMA StaysSound ==
    ASSUME NEW kind, NEW file, NEW ws, NEW base, SoundPlan(kind, file, ws, base),
           noise' = 0 => noise = 0,
           \A n \in FileName : Restorable(files[n]) => files'[n] = files[n]
    PROVE  SoundPlan(kind, file, ws, base)'
<1>1. \A n \in FileName : Restorable(files[n]) => files'[n] = files[n] /\ Restorable(files[n])'
  BY DEF Restorable
<1> QED BY <1>1 DEF SoundPlan

(* A new backup holds what the command read of the memory. *)
LEMMA SaveBackupKeeps == ASSUME IInv, NEW n \in FileName, SaveBackup(n) PROVE IInv'
<1>1. PICK seen \in Seen : \E listed \in Listed(seen[USER_DIRECTORY_SECTOR]) :
          /\ files' = [files EXCEPT ![n] = BackupOf(seen, listed)]
          /\ noise' = noise + Cost(seen)
  BY DEF SaveBackup
<1>2. PICK listed \in Listed(seen[USER_DIRECTORY_SECTOR]) :
          /\ files' = [files EXCEPT ![n] = BackupOf(seen, listed)]
          /\ noise' = noise + Cost(seen)
  BY <1>1
<1>3. PICK b : b = BackupOf(seen, listed)
  OBVIOUS
<1>4. /\ cmd.stage = "planned" /\ files[n] = NoFile
      /\ cmd' = [cmd EXCEPT !.stage = "saved", !.backup = n]
      /\ UNCHANGED <<mem, writes, at, phase, result, faults, start, held, setUp>>
      /\ cmd \in Command /\ DOMAIN files = FileName
  BY DEF SaveBackup, jobVars, IInv, TypeOK
<1>5. /\ cmd' \in Command /\ cmd'.stage = "saved" /\ cmd'.backup = n /\ cmd'.plan = cmd.plan
      /\ cmd'.kind = cmd.kind /\ cmd'.file = cmd.file
  BY <1>4 DEF Command, Stages
<1>6. /\ files'[n] = b /\ DOMAIN files' = FileName
      /\ \A m \in FileName : m # n => files'[m] = files[m]
  BY <1>2, <1>3, <1>4
<1>7. /\ \A s \in Sector : seen[s] \in {mem[s], Noise} /\ seen[s] \in Content[s]
      /\ Cost(seen) \in Nat /\ noise + Cost(seen) \in 0..MaxNoise
      /\ Cost(seen) < 2 => \A s \in Sector : Valid(s, mem[s]) => seen[s] = mem[s]
  BY SeenFacts DEF IInv
<1>8. b \in Files /\ b[USER_DIRECTORY_SECTOR] = seen[USER_DIRECTORY_SECTOR]
  BY <1>3, <1>7, Sectors DEF BackupOf, Files, W!AllContent
<1>9. b[USER_DIRECTORY_SECTOR] \notin {Torn, Noise} => \A s \in Sector : b[s] = seen[s]
  <2> SUFFICES ASSUME b[USER_DIRECTORY_SECTOR] \notin {Torn, Noise}
               PROVE  \A s \in Sector : b[s] = seen[s]
    OBVIOUS
  <2>1. listed = Profile
    BY <1>2, <1>8 DEF Listed
  <2> QED BY <1>3, <2>1, Sectors DEF BackupOf
<1>10. /\ noise' \in 0..MaxNoise /\ noise' >= noise /\ noise \in 0..MaxNoise
       /\ noise' < 2 => noise < 2 /\ Cost(seen) < 2
       /\ Cost(seen) >= 2 => noise' >= 2
       /\ noise' = 0 => noise = 0
  BY <1>2, <1>7, BoundsAssumption DEF IInv, TypeOK
<1>11. TypeOK'
  <2>1. \A m \in FileName : files'[m] \in {NoFile, HalfFile} \/ files'[m] \in Files
    BY <1>6, <1>8 DEF IInv, TypeOK
  <2>2. W!TypeOK' /\ setUp' \in BOOLEAN
    BY <1>4 DEF IInv, TypeOK, W!TypeOK
  <2> QED BY <2>1, <2>2, <1>5, <1>6, <1>10 DEF TypeOK
<1>12. WP!IInv' /\ SomeProfileOn'
  BY <1>4, JobRests DEF IInv, TypeOK, W!TypeOK, SomeProfileOn
<1>13. StageInv'
  BY <1>4, <1>5 DEF IInv, StageInv, HasWritten
<1>14. \A m \in FileName : Restorable(files[m]) => m # n /\ files'[m] = files[m]
  BY <1>4, <1>6 DEF Restorable
<1>15. PlanInv'
  <2>1. SoundPlan(cmd.kind, cmd.file, cmd.plan, mem)
    BY <1>4 DEF IInv, PlanInv, Live, Base
  <2>2. PICK kind, file, ws, base :
          kind = cmd.kind /\ file = cmd.file /\ ws = cmd.plan /\ base = mem
    OBVIOUS
  <2>3. SoundPlan(kind, file, ws, base)'
    BY <2>1, <2>2, <1>10, <1>14, StaysSound
  <2>4. cmd'.kind = kind /\ cmd'.file = file /\ cmd'.plan = ws /\ Base' = base
    BY <2>2, <1>4, <1>5 DEF Base
  <2> QED BY <2>3, <2>4 DEF PlanInv
<1>16. BackupInv'
  <2>1. Base' = mem
    BY <1>4, <1>5 DEF Base
  <2>2. ASSUME b[USER_DIRECTORY_SECTOR] \notin {Torn, Noise}, NEW s \in Sector, Valid(s, mem[s])
        PROVE  b[s] = mem[s] \/ (b[s] = Noise /\ noise' >= 2)
    BY <2>2, <1>7, <1>9, <1>10
  <2>3. files'[cmd'.backup] = b /\ cmd'.backup \in FileName
    BY <1>5, <1>6
  <2> QED BY <2>1, <2>2, <2>3, <1>8 DEF BackupInv
<1>17. FilesInv'
  <2>1. AllOff \in Directories
    BY Contents DEF AllOff
  <2>2. b[USER_DIRECTORY_SECTOR] # AllOff
    BY <2>1, <1>7, <1>8, Sectors, DistinctAssumption DEF IInv, SomeProfileOn, AllOff
  <2> QED BY <2>2, <1>6 DEF IInv, FilesInv
<1>18. SafeInv'
  <2> SUFFICES ASSUME setUp, noise' < 2 PROVE \E m \in FileName : Restorable(files[m])'
    BY <1>4 DEF SafeInv
  <2>1. CASE \E m \in FileName : Restorable(files[m])
    BY <2>1, <1>14 DEF Restorable
  <2>2. CASE \A s \in Sector : Valid(s, mem[s])
    <3>1. \A s \in Sector : seen[s] = mem[s] /\ Valid(s, seen[s])
      BY <2>2, <1>7, <1>10
    <3>2. b[USER_DIRECTORY_SECTOR] \notin {Torn, Noise}
      BY <3>1, <1>8, Sectors, ValidContents
    <3>3. \A s \in Sector : Valid(s, b[s])
      BY <3>1, <3>2, <1>9
    <3> QED BY <3>3, <1>6, <1>8, MarksAreNoFiles DEF Restorable
  <2> QED BY <2>1, <2>2, <1>10 DEF IInv, SafeInv
<1>19. HeldInv'
  BY <1>4, <1>10 DEF IInv, HeldInv, W!Cur
<1> QED BY <1>11, <1>12, <1>13, <1>15, <1>16, <1>17, <1>18, <1>19 DEF IInv

(* A name that is taken ends the command. *)
LEMMA NameTakenKeeps == ASSUME IInv, NEW n \in FileName, NameTaken(n) PROVE IInv'
<1>1. /\ cmd.stage \in {"planned", "saved"} /\ cmd' = NoCommand
      /\ UNCHANGED <<mem, writes, at, phase, result, start, held, noise, setUp>>
      /\ UNCHANGED <<faults, files>>
  BY DEF NameTaken, jobVars
<1>2. faults' \in 0..MaxFaults /\ DOMAIN files' = FileName
  BY <1>1 DEF IInv, TypeOK, W!TypeOK
<1>3. \A m \in FileName :
        files'[m] = files[m] \/ (files[m] = NoFile /\ files'[m] = HalfFile)
  BY <1>1
<1> QED BY <1>1, <1>2, <1>3, EndsEarly

(* A command killed before its first write leaves half a file at most. *)
LEMMA KilledEarlyKeeps == ASSUME IInv, NEW n \in FileName, KilledEarly(n) PROVE IInv'
<1>1. /\ cmd.stage \in {"planned", "saved"} /\ cmd' = NoCommand
      /\ UNCHANGED <<mem, writes, at, phase, result, start, held, noise, setUp>>
      /\ faults < MaxFaults /\ faults' = faults + 1
      /\ files' = files \/ (files[n] = NoFile /\ files' = [files EXCEPT ![n] = HalfFile])
  BY DEF KilledEarly, W!Fault
<1>2. faults' \in 0..MaxFaults /\ DOMAIN files = FileName
  BY <1>1, BoundsAssumption DEF IInv, TypeOK, W!TypeOK
<1>3. DOMAIN files' = FileName /\ \A m \in FileName :
        files'[m] = files[m] \/ (files[m] = NoFile /\ files'[m] = HalfFile)
  BY <1>1, <1>2
<1> QED BY <1>1, <1>2, <1>3, EndsEarly

(* Writing begins from the memory the command planned from. *)
LEMMA StartWritingKeeps == ASSUME IInv, StartWriting PROVE IInv'
<1>1. /\ cmd.stage = "saved" /\ W!Begin(cmd.plan) /\ cmd' = [cmd EXCEPT !.stage = "running"]
      /\ UNCHANGED <<files, noise, setUp>> /\ cmd \in Command
  BY DEF StartWriting, IInv, TypeOK
<1>2. /\ cmd' \in Command /\ cmd'.stage = "running" /\ cmd'.backup = cmd.backup
      /\ cmd'.plan = cmd.plan /\ cmd'.kind = cmd.kind /\ cmd'.file = cmd.file
  BY <1>1 DEF Command, Stages
<1>3. SoundPlan(cmd.kind, cmd.file, cmd.plan, mem)
  BY <1>1 DEF IInv, PlanInv, Live, Base
<1>4. cmd.plan \in W!Plans
  BY <1>3 DEF SoundPlan
<1>5. /\ phase' = "writing" /\ writes' = cmd.plan /\ at' = 1 /\ result' = "none"
      /\ start' = mem /\ held' = mem[cmd.plan[1].sector] /\ mem' = mem
  BY <1>1 DEF W!Begin
<1>6. WP!IInv' /\ W!TypeOK'
  BY <1>1, <1>4, JobKeeps, SameTypes DEF IInv, WP!IInv
<1>7. TypeOK' /\ SomeProfileOn' /\ FilesInv'
  BY <1>1, <1>2, <1>5, <1>6 DEF IInv, TypeOK, SomeProfileOn, FilesInv
<1>8. StageInv'
  BY <1>2, <1>5 DEF StageInv
<1>9. Base = mem /\ Base' = mem
  BY <1>1, <1>2, <1>5 DEF Base
<1>10. PlanInv'
  <2>1. PICK kind, file, ws, base :
          kind = cmd.kind /\ file = cmd.file /\ ws = cmd.plan /\ base = mem
    OBVIOUS
  <2>2. SoundPlan(kind, file, ws, base)'
    BY <2>1, <1>1, <1>3, StaysSound
  <2> QED BY <2>1, <2>2, <1>2, <1>9 DEF PlanInv
<1>11. BackupInv'
  BY <1>1, <1>2, <1>9 DEF IInv, BackupInv
<1>12. SafeInv'
  BY <1>1 DEF IInv, SafeInv, Restorable
<1>13. HeldInv'
  <2> SUFFICES ASSUME noise = 0 PROVE held' = writes'[at'].previous
    BY <1>1, <1>5 DEF HeldInv
  <2>1. 1 \in DOMAIN cmd.plan
    BY <1>4 DEF W!Plans
  <2> QED BY <2>1, <1>3, <1>5 DEF SoundPlan
<1> QED BY <1>6, <1>7, <1>8, <1>10, <1>11, <1>12, <1>13 DEF IInv

(* What a write step does to what HeldInv relates. *)
LEMMA WriteHolds ==
    ASSUME IInv, Write, noise = 0
    PROVE  /\ phase' # "idle" => held' = writes'[at'].previous
           /\ result' = "restored" => mem'[W!Cur'] = held'
<1>1. W!JobStep /\ cmd.stage = "running"
  BY DEF Write
<1>2. /\ phase # "idle" /\ held = writes[at].previous /\ writes' = writes
      /\ writes \in Seq(W!Write) /\ at \in DOMAIN writes /\ W!Cur \in Sector
  BY <1>1, JobStepWrites DEF IInv, HeldInv
<1>3. result = "none" /\ WP!AtRisk = {W!Cur} /\ writes = cmd.plan
  BY <1>1, <1>2, SameSteps, SectorsHaveContents, DamageIsContent, NoJobPlans, BoundsAssumption,
     WP!AtWork DEF IInv, StageInv, HasWritten
<1>4. CASE W!ReadBackMatches
  <2>1. result' # "restored"
    BY <1>3, <1>4 DEF W!ReadBackMatches, W!Finish
  <2> SUFFICES ASSUME phase' # "idle" PROVE held' = writes[at'].previous
    BY <2>1, <1>2
  <2>2. at' = at + 1 /\ at # Len(writes) /\ held' = mem[writes[at + 1].sector]
    BY <1>4 DEF W!ReadBackMatches, W!Finish
  <2>3. at + 1 \in DOMAIN writes /\ at \in Nat
    BY <2>2, <1>2
  <2>4. PICK s : s = writes[at + 1].sector
    OBVIOUS
  <2>5. s \in Sector
    BY <2>3, <2>4, <1>2 DEF W!Write
  <2>6. /\ \A i, j \in DOMAIN writes : writes[i].sector = writes[j].sector => i = j
        /\ \A i \in DOMAIN writes : writes[i].previous = start[writes[i].sector]
    BY <1>1, <1>3 DEF IInv, PlanInv, Live, Base, SoundPlan
  <2>7. s \notin WP!AtRisk
    BY <2>3, <2>4, <2>6, <1>2, <1>3 DEF W!Cur
  <2>8. s \notin WP!Finished
    <3> SUFFICES ASSUME NEW i \in DOMAIN writes, i < at, writes[i].sector = s PROVE FALSE
      BY DEF WP!Finished
    <3>1. i = at + 1
      BY <2>3, <2>4, <2>6
    <3> QED BY <3>1, <2>3
  <2>9. mem[s] = start[s]
    BY <2>5, <2>7, <2>8 DEF IInv, WP!IInv, WP!MemoryFollowsPlan
  <2> QED BY <2>2, <2>3, <2>4, <2>6, <2>9
<1>5. CASE W!ConfirmMatches
  BY <1>2, <1>5 DEF W!ConfirmMatches, W!Finish, W!Cur
<1>6. CASE ~(W!ReadBackMatches \/ W!ConfirmMatches)
  <2>1. UNCHANGED <<at, held>> /\ result' # "restored"
    BY <1>1, <1>3, <1>6
       DEF W!JobStep, W!WriteSector, W!WriteSectorFails, W!ReadBackDiffers, W!ReadBackFails,
           W!PutBack, W!PutBackFails, W!ConfirmDiffers, W!Kill, W!Finish
  <2> QED BY <2>1, <1>2
<1> QED BY <1>4, <1>5, <1>6

(* A step of a command's writing. *)
LEMMA WriteKeeps == ASSUME IInv, Write PROVE IInv'
<1>1. /\ cmd.stage = "running" /\ W!JobStep /\ UNCHANGED <<files, noise, setUp>>
      /\ cmd' = [cmd EXCEPT !.stage = IF phase' = "idle" THEN "over" ELSE "running"]
      /\ cmd \in Command
  BY DEF Write, IInv, TypeOK
<1>2. /\ cmd' \in Command /\ cmd'.backup = cmd.backup /\ cmd'.plan = cmd.plan
      /\ cmd'.kind = cmd.kind /\ cmd'.file = cmd.file
      /\ cmd'.stage = IF phase' = "idle" THEN "over" ELSE "running"
  BY <1>1 DEF Command, Stages
<1>3. /\ UNCHANGED <<writes, start>> /\ writes = cmd.plan
      /\ writes \in Seq(W!Write) /\ at \in DOMAIN writes /\ W!Cur \in Sector
      /\ \A s \in Sector \ {W!Cur} : mem'[s] = mem[s]
      /\ mem'[W!Cur] \in {mem[W!Cur], writes[at].data, writes[at].previous} \cup Damage[W!Cur]
  BY <1>1, JobStepWrites DEF IInv, StageInv, HasWritten
<1>4. WP!IInv' /\ W!TypeOK'
  BY <1>1, JobKeeps, SameTypes DEF IInv, WP!IInv
<1>5. TypeOK' /\ FilesInv'
  BY <1>1, <1>2, <1>4 DEF IInv, TypeOK, FilesInv
<1>6. Base = start /\ Base' = start /\ SoundPlan(cmd.kind, cmd.file, cmd.plan, start)
  BY <1>1, <1>2, <1>3 DEF Base, IInv, PlanInv, Live
<1>7. SomeProfileOn'
  <2>1. AllOff \notin Damage[USER_DIRECTORY_SECTOR]
    <3>1. AllOff \in Directories /\ Damage[USER_DIRECTORY_SECTOR]
             = {Erased, Torn} \cup {Directory(on, FALSE) : on \in {{1}, Profile}}
      BY Contents, Sectors DEF AllOff, Damage
    <3>2. \A on : Directory(on, FALSE) # AllOff
      BY DEF AllOff, Directory
    <3> QED BY <3>1, <3>2, DistinctAssumption
  <2>2. W!Cur = USER_DIRECTORY_SECTOR => AllOff \notin {writes[at].data, writes[at].previous}
    BY <1>3, <1>6 DEF SoundPlan, W!Cur
  <2>3. mem[USER_DIRECTORY_SECTOR] # AllOff
    BY DEF IInv, SomeProfileOn, AllOff
  <2> QED BY <2>1, <2>2, <2>3, <1>3, Sectors DEF SomeProfileOn, AllOff
<1>8. StageInv'
  BY <1>2, <1>3 DEF StageInv
<1>9. PlanInv'
  <2>1. PICK kind, file, ws, base :
          kind = cmd.kind /\ file = cmd.file /\ ws = cmd.plan /\ base = start
    OBVIOUS
  <2>2. SoundPlan(kind, file, ws, base)'
    BY <2>1, <1>1, <1>6, StaysSound
  <2> QED BY <2>1, <2>2, <1>2, <1>6 DEF PlanInv
<1>10. BackupInv'
  BY <1>1, <1>2, <1>6 DEF IInv, BackupInv, HasWritten
<1>11. SafeInv'
  BY <1>1 DEF IInv, SafeInv, Restorable
<1>12. HeldInv'
  BY <1>1, WriteHolds DEF HeldInv
<1> QED BY <1>4, <1>5, <1>7, <1>8, <1>9, <1>10, <1>11, <1>12 DEF IInv

-----------------------------------------------------------------------------
(* A mouse as it is handed over. *)
LEMMA InitHolds == Init => IInv
<1> SUFFICES ASSUME Init PROVE IInv
  OBVIOUS
<1>1. /\ mem \in InitialMemories /\ writes = <<>> /\ at = 1 /\ phase = "idle" /\ result = "none"
      /\ faults = 0 /\ cmd = NoCommand /\ files = [n \in FileName |-> NoFile] /\ noise = 0
      /\ setUp = Healthy(mem) /\ WP!Init
  BY SameSteps DEF Init, W!Init
<1>2. WP!IInv /\ W!TypeOK
  BY <1>1, SectorsHaveContents, DamageIsContent, NoJobPlans, BoundsAssumption, SameTypes,
     WP!InitInvariant DEF WP!IInv
<1>3. cmd \in Command /\ cmd.stage = "over" /\ cmd.kind = "none"
  BY <1>1 DEF NoCommand, Command, Kinds, Stages
<1>4. setUp \in BOOLEAN
  BY <1>1 DEF Healthy
<1>5. TypeOK
  BY <1>1, <1>2, <1>3, <1>4, BoundsAssumption DEF TypeOK
<1>6. SomeProfileOn
  BY <1>1, OnAssumption DEF SomeProfileOn
<1>7. StageInv /\ PlanInv /\ BackupInv /\ HeldInv
  BY <1>1, <1>3 DEF StageInv, PlanInv, BackupInv, HeldInv, HasWritten, Live
<1>8. FilesInv
  BY <1>1, MarksAreNoFiles DEF FilesInv
<1>9. SafeInv
  BY <1>1, <1>3 DEF SafeInv, Healthy
<1> QED BY <1>2, <1>5, <1>6, <1>7, <1>8, <1>9 DEF IInv

(* A step that changes nothing keeps it.                                   *)
LEMMA StutterKeeps == ASSUME IInv, UNCHANGED vars PROVE IInv'
<1>1. /\ UNCHANGED <<mem, writes, at, phase, result, faults, start, held>>
      /\ UNCHANGED <<cmd, files, noise, setUp>>
  BY DEF vars, jobVars
<1>2. WP!IInv' /\ W!TypeOK'
  BY <1>1, JobRests, SameTypes DEF IInv, TypeOK, W!TypeOK, WP!IInv
<1>3. TypeOK' /\ SomeProfileOn' /\ StageInv' /\ FilesInv'
  BY <1>1, <1>2 DEF IInv, TypeOK, SomeProfileOn, StageInv, HasWritten, FilesInv
<1>4. Base' = Base
  BY <1>1 DEF Base
<1>5. PlanInv'
  <2> SUFFICES ASSUME Live PROVE SoundPlan(cmd.kind, cmd.file, cmd.plan, Base)'
    BY <1>1 DEF PlanInv, Live
  <2>1. SoundPlan(cmd.kind, cmd.file, cmd.plan, Base)
    BY DEF IInv, PlanInv
  <2> QED BY <2>1, <1>1, <1>4 DEF SoundPlan, Restorable
<1>6. BackupInv' /\ SafeInv' /\ HeldInv'
  BY <1>1, <1>4 DEF IInv, BackupInv, HasWritten, SafeInv, HeldInv, Restorable, W!Cur
<1> QED BY <1>2, <1>3, <1>5, <1>6 DEF IInv

(* Every step of every command keeps the invariant.                        *)
LEMMA NextKeeps == IInv /\ [Next]_vars => IInv'
<1> SUFFICES ASSUME IInv, [Next]_vars PROVE IInv'
  OBVIOUS
<1> QED
  BY PlanEditKeeps, PlanEnableKeeps, PlanRestoreKeeps, PlanRepairKeeps, PlanFirstDirectoryKeeps,
     SaveBackupKeeps, NameTakenKeeps, KilledEarlyKeeps, StartWritingKeeps, WriteKeeps,
     StutterKeeps DEF Next

-----------------------------------------------------------------------------
(* What the invariant says of the properties. *)

(* A command that has written planned from the memory its job began with.  *)
LEMMA OnceWritten ==
    ASSUME IInv, HasWritten
    PROVE  Base = start /\ writes = cmd.plan /\ SoundPlan(cmd.kind, cmd.file, cmd.plan, start)
<1>1. Base = start /\ Live
  BY DEF HasWritten, Base, Live
<1> QED BY <1>1 DEF IInv, StageInv, PlanInv

(* The directory's turn is the last one. *)
LEMMA DirectoryIsLast == IInv => SetUpOrder
<1> SUFFICES ASSUME IInv, HasWritten, cmd.kind = "repair",
                    start[USER_DIRECTORY_SECTOR] = Erased, mem[USER_DIRECTORY_SECTOR] # Erased,
                    NEW p \in Profile
             PROVE  mem[p] = Factory
  BY DEF SetUpOrder
<1>1. /\ \A i, j \in DOMAIN writes : writes[i].sector = writes[j].sector => i = j
      /\ Len(writes) = ProfileCount + 1
      /\ writes[p].sector = p /\ writes[p].data = Factory
      /\ writes[ProfileCount + 1].sector = USER_DIRECTORY_SECTOR
  BY OnceWritten DEF SoundPlan
<1>2. /\ writes \in Seq(W!Write) /\ writes # <<>> /\ at \in Nat
      /\ result # "ok" => at \in DOMAIN writes
      /\ result = "ok" => at = Len(writes) + 1
  BY <1>1, CountAssumption, SameWrite DEF IInv, WP!IInv, WP!TypeOK, WP!Position
<1>3. DOMAIN writes = 1..(ProfileCount + 1) /\ p \in DOMAIN writes /\ p < ProfileCount + 1
      /\ ProfileCount + 1 \in DOMAIN writes
  BY <1>1, <1>2, CountAssumption DEF Profile
<1>4. USER_DIRECTORY_SECTOR \in WP!AtRisk \cup WP!Finished
  BY Sectors DEF IInv, WP!IInv, WP!MemoryFollowsPlan
<1>5. result # "ok" => WP!AtRisk = {writes[at].sector}
  BY <1>2 DEF WP!AtRisk, WP!Cur
<1>6. result = "ok" => WP!AtRisk = {}
  BY DEF WP!AtRisk
<1>7. p < at /\ p \notin WP!AtRisk
  <2>1. CASE result = "ok"
    BY <2>1, <1>1, <1>2, <1>3, <1>6, CountAssumption
  <2>2. CASE result # "ok"
    <3>1. at \in DOMAIN writes
      BY <2>2, <1>2
    <3>2. ASSUME USER_DIRECTORY_SECTOR \in WP!Finished PROVE FALSE
      <4>1. PICK i \in DOMAIN writes : i < at /\ writes[i].sector = USER_DIRECTORY_SECTOR
        BY <3>2 DEF WP!Finished
      <4>2. i = ProfileCount + 1
        BY <4>1, <1>1, <1>3
      <4> QED BY <4>1, <4>2, <3>1, <1>3, CountAssumption
    <3>3. writes[at].sector = USER_DIRECTORY_SECTOR
      BY <2>2, <3>2, <1>4, <1>5
    <3>4. at = ProfileCount + 1
      BY <3>1, <3>3, <1>1, <1>3
    <3> QED BY <2>2, <3>3, <3>4, <1>3, <1>5, Sectors
  <2> QED BY <2>1, <2>2
<1> QED BY <1>1, <1>3, <1>7 DEF IInv, WP!IInv, WP!MemoryFollowsPlan

(* A restore reported done left every sector as in its file. *)
LEMMA RestoreIsWhole == IInv => RestoreCompletes
<1> SUFFICES ASSUME IInv, cmd.kind = "restore", cmd.stage = "over", result = "ok"
             PROVE  mem = files[cmd.file]
  BY DEF RestoreCompletes
<1>1. /\ writes = cmd.plan /\ cmd.file \in FileName /\ Restorable(files[cmd.file])
      /\ \A i \in DOMAIN writes : writes[i].data = files[cmd.file][writes[i].sector]
      /\ \A s \in Sector :
            start[s] = files[cmd.file][s] \/ \E i \in DOMAIN writes : writes[i].sector = s
  BY OnceWritten DEF HasWritten, SoundPlan
<1>2. files[cmd.file] \in Files /\ mem \in W!Memory
  BY <1>1 DEF IInv, TypeOK, W!TypeOK, Restorable
<1>3. ASSUME NEW s \in Sector PROVE mem[s] = files[cmd.file][s]
  <2>1. CASE \E i \in DOMAIN writes : writes[i].sector = s
    BY <2>1, <1>1 DEF IInv, WP!IInv, WP!ReportIsTrue
  <2>2. CASE ~\E i \in DOMAIN writes : writes[i].sector = s
    <3>1. s \notin WP!AtRisk \cup WP!Finished
      BY <2>2 DEF WP!AtRisk, WP!Finished
    <3> QED BY <3>1, <2>2, <1>1 DEF IInv, WP!IInv, WP!MemoryFollowsPlan
  <2> QED BY <2>1, <2>2
<1>4. PICK m, b : m = mem /\ b = files[cmd.file]
  OBVIOUS
<1>5. m \in [Sector -> W!AllContent] /\ b \in [Sector -> W!AllContent \cup {NotSaved}]
      /\ \A s \in Sector : m[s] = b[s]
  BY <1>2, <1>3, <1>4 DEF W!Memory, Files
<1> QED BY <1>4, <1>5

-----------------------------------------------------------------------------
(* Whatever the user runs, wherever it fails or is killed: a directory     *)
(* that checks out always has a profile on, and a first directory is only  *)
(* in place once every profile it lists is.                                *)
THEOREM MemoryStaysUsable == Spec => []Consistent
<1>1. IInv => Consistent
  BY DirectoryIsLast DEF IInv, Consistent
<1> QED
  BY <1>1, InitHolds, NextKeeps, PTL DEF Spec

(* No command writes to the mouse before a file it saved itself holds      *)
(* every sector the command could still lose.                              *)
THEOREM BackupsComeFirst == Spec => []BackupPrecedesWrites
<1>1. ASSUME IInv, HasWritten
      PROVE  /\ cmd.backup # NoFile
             /\ files[cmd.backup] \notin {NoFile, HalfFile}
             /\ files[cmd.backup][USER_DIRECTORY_SECTOR] \notin {Torn, Noise}
                   => \A s \in Sector : SavedBefore(s)
  <2>1. Base = start
    BY <1>1, OnceWritten
  <2>2. cmd.backup \in FileName /\ files[cmd.backup] \in Files
    BY <1>1 DEF IInv, BackupInv
  <2>3. cmd.backup # NoFile /\ files[cmd.backup] \notin {NoFile, HalfFile}
    BY <2>2, MarksAreNoFiles, DistinctAssumption
  <2>4. files[cmd.backup][USER_DIRECTORY_SECTOR] \notin {Torn, Noise}
          => \A s \in Sector : SavedBefore(s)
    BY <1>1, <2>1 DEF IInv, BackupInv, SavedBefore
  <2> QED BY <2>3, <2>4
<1>2. IInv => BackupPrecedesWrites
  BY <1>1 DEF BackupPrecedesWrites
<1> QED
  BY <1>2, InitHolds, NextKeeps, PTL DEF Spec

(* A mouse that was healthy and has a damaged sector can be restored from  *)
(* a file that `omalogi restore' accepts.                                  *)
THEOREM DamageIsRecoverable == Spec => []Recoverable
<1>1. IInv => Recoverable
  BY DEF IInv, SafeInv, Recoverable
<1> QED
  BY <1>1, InitHolds, NextKeeps, PTL DEF Spec

(* What a restore and a rolled back write report is what the mouse holds.  *)
THEOREM RestoresAreAlwaysExact == Spec => []RestoresAreExact
<1>1. IInv => RestoresAreExact
  BY RestoreIsWhole DEF IInv, HeldInv, RestoredAsItWas, RestoresAreExact
<1> QED
  BY <1>1, InitHolds, NextKeeps, PTL DEF Spec
=============================================================================
