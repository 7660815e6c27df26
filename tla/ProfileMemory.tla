--------------------------- MODULE ProfileMemory ----------------------------
(***************************************************************************)
(* The mouse's profile memory under a sequence of commands that write it:  *)
(* editing a profile (and undo, which writes a whole profile back),        *)
(* turning a profile on or off, restoring a backup file and repairing the  *)
(* profile directory.  Each command plans from what it reads, saves a      *)
(* backup to a new file, then makes its planned writes (SectorWrites).     *)
(* Any command can fail or be killed at any point; the user then runs      *)
(* another.  A command holds the device lock throughout, so nobody else    *)
(* writes meanwhile.  src/src/editing.rs, src/src/device.rs (backup),      *)
(* src/src/main.rs (run_device).                                           *)
(*                                                                         *)
(* Sector 0 is the directory and profile p is stored in sector p, as in    *)
(* every memory read so far and as initial_entries lays it out.  A         *)
(* directory is the set of profiles that are on, with or without a         *)
(* matching checksum.                                                      *)
(***************************************************************************)
EXTENDS Naturals, Sequences, FiniteSets

CONSTANTS
    ProfileCount,   \* profiles the mouse stores
    Versions,       \* valid profile contents
    Factory,        \* the contents of the factory profile
    FactoryOn,      \* the profiles on in the factory directory
    Erased,         \* flash that was never written: all 0xFF
    Torn,           \* bytes that fail their checksum
    Noise,          \* bytes a disturbed read returned, which fail it too
    InitialMemories,\* the memories a mouse can start with
    FileName,       \* names of backup files
    NotSaved,       \* a sector a backup does not hold
    NoFile,         \* nothing is stored under a name
    HalfFile,       \* a backup the process was killed while saving
    MaxFaults,      \* bound: device faults and kills
    MaxNoise        \* bound: disturbed reads

Profile == 1..ProfileCount
USER_DIRECTORY_SECTOR == 0
Sector  == {USER_DIRECTORY_SECTOR} \cup Profile

Directory(on, crc) == [on |-> on, crc |-> crc]
Directories == [on : SUBSET Profile, crc : BOOLEAN]

Content == [s \in Sector |->
              {Erased, Torn, Noise} \cup
              (IF s = USER_DIRECTORY_SECTOR THEN Directories ELSE Versions)]

(* A broken transfer leaves erased or mixed bytes, or a directory whose    *)
(* entries are sound but whose checksum is not.                            *)
Damage == [s \in Sector |->
             {Erased, Torn} \cup
             (IF s = USER_DIRECTORY_SECTOR
              THEN {Directory(on, FALSE) : on \in {{1}, Profile}} ELSE {})]

ASSUME CountAssumption == ProfileCount \in Nat \ {0}
ASSUME BoundsAssumption == MaxFaults \in Nat /\ MaxNoise \in Nat
ASSUME FactoryAssumption == Factory \in Versions /\ FactoryOn \subseteq Profile
ASSUME InitialAssumption ==
    InitialMemories \subseteq { m \in [Sector -> UNION {Content[s] : s \in Sector}] :
                                  \A s \in Sector : m[s] \in Content[s] }

(* The mouse was not handed over with a directory that checks out and has  *)
(* every profile off.                                                      *)
ASSUME OnAssumption == \A m \in InitialMemories : m[USER_DIRECTORY_SECTOR] # Directory({}, TRUE)

(* Bytes that fail their checksum are no contents, and the marks of a file *)
(* that is not there or not whole are no files.                            *)
ASSUME DistinctAssumption ==
    /\ {Erased, Torn, Noise, NotSaved} \cap (Versions \cup Directories) = {}
    /\ NoFile \notin FileName
    /\ {NoFile, HalfFile} \cap [Sector -> (UNION {Content[s] : s \in Sector}) \cup {NotSaved}] = {}

VARIABLES mem, writes, at, phase, result, faults, start, held,  \* SectorWrites
          cmd,      \* the current or last command
          files,    \* files[n]: the backup stored under name n
          noise,    \* disturbed reads so far
          setUp     \* history: the memory was healthy in the beginning

W == INSTANCE SectorWrites WITH JobPlans <- {}

jobVars == <<mem, writes, at, phase, result, faults, start, held>>
vars    == <<jobVars, cmd, files, noise, setUp>>

Kinds  == {"none", "edit", "enable", "restore", "repair"}
Stages == {"planned", "saved", "running", "over"}

(* `file' is the file a restore reads; `backup' the one the command saves. *)
Command == [kind : Kinds, file : FileName \cup {NoFile},
            plan : Seq(W!Write), stage : Stages, backup : FileName \cup {NoFile}]

NoCommand == [kind |-> "none", file |-> NoFile, plan |-> <<>>,
              stage |-> "over", backup |-> NoFile]

-----------------------------------------------------------------------------
(* sector_crc_valid *)
Valid(s, c) == IF s = USER_DIRECTORY_SECTOR
               THEN c \in [on : SUBSET Profile, crc : {TRUE}]
               ELSE c \in Versions

(* What read_sector_as_is and read_backup_sector return for a sector. *)
AsIs(s) == {mem[s], Noise}

(* The disturbed reads such a pass over the memory took: a sector whose    *)
(* first read fails its checksum is read a second time, and whatever that  *)
(* returns is kept.                                                        *)
Misread(seen) == { s \in Sector : seen[s] # mem[s] }
Cost(seen) ==
    Cardinality(Misread(seen)) + Cardinality({ s \in Misread(seen) : Valid(s, mem[s]) })

(* Every sector as one pass may see it, within the bound on those reads. *)
Seen == { seen \in [Sector -> {Noise} \cup {mem[s] : s \in Sector}] :
            (\A s \in Sector : seen[s] \in AsIs(s)) /\ noise + Cost(seen) <= MaxNoise }

SectorWrite(s, new, old) == [sector |-> s, data |-> new, previous |-> old]

(* What Session::backup can save.  It follows the entries of the directory  *)
(* it read, or, when that was never written, takes every profile sector;    *)
(* bytes that are no directory can list anything.                           *)
Listed(dir) == IF dir \in {Torn, Noise} THEN SUBSET Profile ELSE {Profile}

BackupOf(seen, listed) ==
    [s \in Sector |-> IF s \in listed \cup {USER_DIRECTORY_SECTOR} THEN seen[s] ELSE NotSaved]

Files == { b \in [Sector -> W!AllContent \cup {NotSaved}] :
             \A s \in Sector : b[s] \in Content[s] \cup {NotSaved} }

TypeOK ==
    /\ W!TypeOK
    /\ cmd \in Command
    /\ DOMAIN files = FileName
    /\ \A n \in FileName : files[n] \in {NoFile, HalfFile} \/ files[n] \in Files
    /\ noise \in 0..MaxNoise
    /\ setUp \in BOOLEAN

(* A command has its list of writes; a disturbed read costs noise.         *)
Planned(kind, file, ws) ==
    /\ cmd' = [NoCommand EXCEPT !.kind = kind, !.file = file, !.plan = ws, !.stage = "planned"]
    /\ UNCHANGED <<jobVars, files, setUp>>

Idle == cmd.stage = "over"

(* Faulty variant: the edited bytes are also kept as the ones to put back. *)
PlanEdit_Aliased(p, v) ==
    /\ Idle
    /\ Valid(USER_DIRECTORY_SECTOR, mem[USER_DIRECTORY_SECTOR]) /\ Valid(p, mem[p])
    /\ v # mem[p]
    /\ Planned("edit", NoFile, <<SectorWrite(p, v, v)>>)
    /\ UNCHANGED noise

(* plan_profile_changes, and write_profile_sector for undo: both refuse    *)
(* unless the directory and the profile read with a matching checksum, and *)
(* when the profile already holds the bytes.                               *)
PlanEdit(p, v) ==
    /\ Idle
    /\ Valid(USER_DIRECTORY_SECTOR, mem[USER_DIRECTORY_SECTOR])
    /\ Valid(p, mem[p])
    /\ v # mem[p]
    /\ Planned("edit", NoFile, <<SectorWrite(p, v, mem[p])>>)
    /\ UNCHANGED noise

(* Faulty variants: the only profile turned on can be turned off; the       *)
(* directory is written to the profile's sector.                            *)
PlanEnable_AnyOff(p, enabled) ==
    LET dir == mem[USER_DIRECTORY_SECTOR]
        on  == IF enabled THEN dir.on \cup {p} ELSE dir.on \ {p}
    IN  /\ Idle
        /\ Valid(USER_DIRECTORY_SECTOR, dir)
        /\ (p \in dir.on) # enabled
        /\ Planned("enable", NoFile,
                   <<SectorWrite(USER_DIRECTORY_SECTOR, Directory(on, TRUE), dir)>>)
        /\ UNCHANGED noise

PlanEnable_WrongSector(p, enabled) ==
    LET dir == mem[USER_DIRECTORY_SECTOR]
    IN  /\ Idle
        /\ Valid(USER_DIRECTORY_SECTOR, dir)
        /\ (p \in dir.on) # enabled
        /\ Planned("enable", NoFile, <<SectorWrite(p, Directory(dir.on, TRUE), dir)>>)
        /\ UNCHANGED noise

(* plan_enabled.  Which profile is in use is left open here. *)
PlanEnable(p, enabled) ==
    LET dir == mem[USER_DIRECTORY_SECTOR]
        on  == IF enabled THEN dir.on \cup {p} ELSE dir.on \ {p}
    IN  /\ Idle
        /\ Valid(USER_DIRECTORY_SECTOR, dir)
        /\ (p \in dir.on) # enabled
        /\ ~enabled => \E q \in dir.on : q # p
        /\ Planned("enable", NoFile,
                   <<SectorWrite(USER_DIRECTORY_SECTOR, Directory(on, TRUE), dir)>>)
        /\ UNCHANGED noise

(* plan_restore: the sectors of the file that differ from what was read,   *)
(* profiles in directory order and the directory last.  The file is        *)
(* refused when one of its sectors fails its checksum.                     *)
Restorable(b) == b \notin {NoFile, HalfFile} /\ \A s \in Sector : Valid(s, b[s])

Turn(s) == IF s = USER_DIRECTORY_SECTOR THEN ProfileCount + 1 ELSE s
RestoreOrder(sectors) ==
    { order \in [1..Cardinality(sectors) -> sectors] :
        /\ \A s \in sectors : \E i \in DOMAIN order : order[i] = s
        /\ \A i, j \in DOMAIN order : i < j => Turn(order[i]) < Turn(order[j]) }

(* Faulty variant: the directory is left out. *)
PlanRestore_ProfilesOnly(n) ==
    /\ Idle
    /\ Restorable(files[n])
    /\ \E order \in RestoreOrder({ s \in Profile : files[n][s] # mem[s] }) :
          /\ order # <<>>
          /\ Planned("restore", n,
                     [i \in DOMAIN order |->
                         SectorWrite(order[i], files[n][order[i]], mem[order[i]])])
    /\ UNCHANGED noise

PlanRestore(n) ==
    /\ Idle
    /\ Restorable(files[n])
    /\ \E seen \in Seen : \E order \in RestoreOrder({ s \in Sector : files[n][s] # seen[s] }) :
          /\ order # <<>>
          /\ Planned("restore", n,
                     [i \in DOMAIN order |->
                         SectorWrite(order[i], files[n][order[i]], seen[order[i]])])
          /\ noise' = noise + Cost(seen)

(* plan_directory_repair for a damaged directory: its entries are sound    *)
(* and at least one is on, and every profile it lists has a matching       *)
(* checksum.                                                               *)
PlanRepair ==
    LET dir == mem[USER_DIRECTORY_SECTOR]
    IN  /\ Idle
        /\ dir \in [on : (SUBSET Profile) \ {{}}, crc : {FALSE}]
        /\ \A p \in Profile : Valid(p, mem[p])
        /\ Planned("repair", NoFile,
                   <<SectorWrite(USER_DIRECTORY_SECTOR, Directory(dir.on, TRUE), dir)>>)
        /\ UNCHANGED noise

(* plan_first_directory, for a directory that was never written: every     *)
(* profile as a copy of the factory profile, then the directory.           *)
FirstOn == IF FactoryOn = {} THEN {1} ELSE FactoryOn

(* Faulty variant: the directory first. *)
PlanFirstDirectory_DirectoryFirst ==
    /\ Idle
    /\ mem[USER_DIRECTORY_SECTOR] = Erased
    /\ Planned("repair", NoFile,
               <<SectorWrite(USER_DIRECTORY_SECTOR, Directory(FirstOn, TRUE), Erased)>>
               \o [p \in Profile |-> SectorWrite(p, Factory, mem[p])])
    /\ UNCHANGED noise

PlanFirstDirectory ==
    /\ Idle
    /\ mem[USER_DIRECTORY_SECTOR] = Erased
    /\ \E seen \in Seen :
         /\ seen[USER_DIRECTORY_SECTOR] = Erased
         /\ Planned("repair", NoFile,
                    Append([p \in Profile |-> SectorWrite(p, Factory, seen[p])],
                           SectorWrite(USER_DIRECTORY_SECTOR, Directory(FirstOn, TRUE), Erased)))
         /\ noise' = noise + Cost(seen)

-----------------------------------------------------------------------------
(* Faulty variant: an existing file is overwritten. *)
SaveBackup_Overwrites(n) ==
    /\ cmd.stage = "planned"
    /\ files' = [files EXCEPT ![n] = mem]
    /\ cmd' = [cmd EXCEPT !.stage = "saved", !.backup = n]
    /\ UNCHANGED <<jobVars, noise, setUp>>

(* save_backup: create_new refuses a name that exists; the command then    *)
(* ends without writing.                                                   *)
SaveBackup(n) ==
    /\ cmd.stage = "planned"
    /\ files[n] = NoFile
    /\ \E seen \in Seen : \E listed \in Listed(seen[USER_DIRECTORY_SECTOR]) :
          /\ files' = [files EXCEPT ![n] = BackupOf(seen, listed)]
          /\ noise' = noise + Cost(seen)
    /\ cmd' = [cmd EXCEPT !.stage = "saved", !.backup = n]
    /\ UNCHANGED <<jobVars, setUp>>

NameTaken(n) ==
    /\ cmd.stage = "planned"
    /\ files[n] # NoFile
    /\ cmd' = NoCommand
    /\ UNCHANGED <<jobVars, files, noise, setUp>>

(* Killed before its first write: a file being saved is never usable. *)
KilledEarly(n) ==
    /\ W!Fault
    /\ \/ cmd.stage = "planned" /\ files[n] = NoFile /\ files' = [files EXCEPT ![n] = HalfFile]
       \/ cmd.stage = "saved" /\ n = cmd.backup /\ UNCHANGED files
    /\ cmd' = NoCommand
    /\ UNCHANGED <<mem, writes, at, phase, result, start, held, noise, setUp>>

(* Faulty variant: writing may start before the backup is saved. *)
StartWriting_Early ==
    /\ cmd.stage \in {"planned", "saved"}
    /\ W!Begin(cmd.plan)
    /\ cmd' = [cmd EXCEPT !.stage = "running"]
    /\ UNCHANGED <<files, noise, setUp>>

StartWriting ==
    /\ cmd.stage = "saved"
    /\ W!Begin(cmd.plan)
    /\ cmd' = [cmd EXCEPT !.stage = "running"]
    /\ UNCHANGED <<files, noise, setUp>>

Write ==
    /\ cmd.stage = "running"
    /\ W!JobStep
    /\ cmd' = [cmd EXCEPT !.stage = IF phase' = "idle" THEN "over" ELSE "running"]
    /\ UNCHANGED <<files, noise, setUp>>

-----------------------------------------------------------------------------
Healthy(m) == m[USER_DIRECTORY_SECTOR] # Directory({}, TRUE) /\ \A s \in Sector : Valid(s, m[s])
NeverSetUp == [s \in Sector |-> Erased]

Init ==
    /\ W!Init
    /\ mem \in InitialMemories
    /\ cmd = NoCommand
    /\ files = [n \in FileName |-> NoFile]
    /\ noise = 0
    /\ setUp = Healthy(mem)

Next ==
    \/ \E p \in Profile, v \in Versions : PlanEdit(p, v)
    \/ \E p \in Profile, enabled \in BOOLEAN : PlanEnable(p, enabled)
    \/ \E n \in FileName : PlanRestore(n)
    \/ PlanRepair
    \/ PlanFirstDirectory
    \/ \E n \in FileName : SaveBackup(n)
    \/ \E n \in FileName : NameTaken(n)
    \/ \E n \in FileName : KilledEarly(n)
    \/ StartWriting
    \/ Write

Spec == Init /\ [][Next]_vars
-----------------------------------------------------------------------------
(* The command under way, or the one that ended last, has begun to write. *)
HasWritten == cmd.stage = "running" \/ (cmd.stage = "over" /\ cmd.kind # "none")

(* Bytes that check out are misread only when two reads are disturbed.     *)
SavedBefore(s) ==
    Valid(s, start[s]) => \/ files[cmd.backup][s] = start[s]
                          \/ files[cmd.backup][s] = Noise /\ noise >= 2

(* When a command writes, the file it names as its backup is complete and  *)
(* holds the memory as it was before the command, for every sector that    *)
(* passed its checksum then - unless the directory read as bytes that are  *)
(* no directory, so that it did not say which sectors to save.             *)
BackupPrecedesWrites ==
    HasWritten =>
        /\ cmd.backup # NoFile
        /\ files[cmd.backup] \notin {NoFile, HalfFile}
        /\ files[cmd.backup][USER_DIRECTORY_SECTOR] \notin {Torn, Noise}
              => \A s \in Sector : SavedBefore(s)

(* However commands fail and are killed on a mouse that was healthy, and   *)
(* whatever the user runs next, once any sector fails its checksum some    *)
(* backup file is one that `omalogi restore' accepts, as long as fewer     *)
(* than two reads were disturbed.                                          *)
Recoverable ==
    setUp /\ noise < 2 /\ (\E s \in Sector : ~Valid(s, mem[s]))
        => \E n \in FileName : Restorable(files[n])

(* A restore that reports success left every sector as the file has it,    *)
(* although it writes only the sectors that read differently.              *)
RestoreCompletes ==
    cmd.kind = "restore" /\ cmd.stage = "over" /\ result = "ok"
        => mem = files[cmd.file]

(* Setting up a directory that was never written: as long as any profile   *)
(* it will list is not in place, also after a failure or a kill, the       *)
(* directory is still never written and the mouse runs its factory         *)
(* profiles.                                                               *)
SetUpOrder ==
    HasWritten /\ cmd.kind = "repair" /\ start[USER_DIRECTORY_SECTOR] = Erased
        => \/ mem[USER_DIRECTORY_SECTOR] = Erased
           \/ \A p \in Profile : mem[p] = Factory

(* No sequence of commands leaves a directory that checks out and has      *)
(* every profile off.                                                      *)
SomeProfileOn ==
    mem[USER_DIRECTORY_SECTOR] # Directory({}, TRUE)

(* A failed write whose report says that the previous contents were        *)
(* written back left its sector as it was before the write, in every       *)
(* command, as long as no read came back disturbed.                        *)
RestoredAsItWas == result = "restored" /\ noise = 0 => mem[W!Cur] = held

(* What holds of the memory between any two steps: a directory that checks *)
(* out has a profile on, and a first one is written after its profiles     *)
(* (editing.rs, set_profile_enabled, repair_directory).                    *)
Consistent == TypeOK /\ SomeProfileOn /\ SetUpOrder

(* A restore reported done left the file's sectors, and a write reported as *)
(* rolled back left the sector it had (editing.rs, restore, put_back).     *)
RestoresAreExact == RestoreCompletes /\ RestoredAsItWas
=============================================================================
