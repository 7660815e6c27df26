-------------------------- MODULE ProfileDirectory --------------------------
(***************************************************************************)
(* The profile directory as bytes: how the list of profiles is read from   *)
(* its entries, changed in place when a profile is turned on or off,       *)
(* written for the first time from the factory directory, and rebuilt from *)
(* its own entries when its checksum does not match                        *)
(* (src/src/onboard/format.rs, edit.rs).  A write can be cut short: every  *)
(* entry then holds its old bytes, its new ones, or erased flash, and the  *)
(* checksum does not match.                                                *)
(***************************************************************************)
EXTENDS Naturals, Sequences, SequencesExt

CONSTANTS
    ProfileCount,       \* profiles the mouse stores
    RomProfileCount,    \* profiles its factory memory holds
    Room,               \* entries that fit in a directory sector
    RomDirectories,     \* factory directories: functions of 1..Room
    MaxDamage           \* bound: writes cut short and entries gone bad

USER_DIRECTORY_SECTOR == 0
ROM_DIRECTORY_SECTOR  == 256
DIRECTORY_END         == 65535

DirectoryEntry == [sector : (0..ProfileCount + 1) \cup (ROM_DIRECTORY_SECTOR..ROM_DIRECTORY_SECTOR + RomProfileCount)
                  \cup {DIRECTORY_END},
         flag : {0, 1, 2, 255}, reserved : {0, 7, 255}]
Erased == [sector |-> DIRECTORY_END, flag |-> 255, reserved |-> 255]
DirectorySector == [slots : [1..Room -> DirectoryEntry], crc : BOOLEAN]

ASSUME CountAssumption == /\ ProfileCount \in 1..255 /\ RomProfileCount \in 0..255   \* u8
                          /\ Room \in Nat /\ MaxDamage \in Nat
ASSUME RoomAssumption == ProfileCount < Room            \* first_directory_fits
ASSUME RomAssumption == RomDirectories \subseteq [1..Room -> DirectoryEntry]

VARIABLES
    dir,        \* the user directory sector
    rom,        \* the factory directory's entries
    old, new,   \* history: the lists of profiles before and after the write cut short
    intact,     \* history: nothing but a write cut short damaged the directory
    damage
directoryVars == <<dir, rom, old, new, intact, damage>>

-----------------------------------------------------------------------------
(* The entries before the end marker. *)
Count(slots) ==
    CHOOSE k \in 0..Room :
        /\ \A i \in 1..k : slots[i].sector # DIRECTORY_END
        /\ k = Room \/ slots[k + 1].sector = DIRECTORY_END

AtMost(k, limit) == IF k <= limit THEN k ELSE limit

(* parse_directory *)
Parse(slots, limit) ==
    [i \in 1..AtMost(Count(slots), limit) |->
        [sector |-> slots[i].sector, enabled |-> slots[i].flag # 0]]

Listed(slots) == Parse(slots, ProfileCount)

NeverWritten(d) == ~d.crc /\ \A i \in 1..Room : d.slots[i] = Erased

(* Faulty variant: an entry that repeats a sector is accepted. *)
IsRepairable_Repeats(slots) ==
    LET k == Count(slots) IN
    /\ k \in 1..ProfileCount /\ k < Room
    /\ \A i \in 1..k :
        /\ slots[i].sector # USER_DIRECTORY_SECTOR /\ slots[i].sector < ROM_DIRECTORY_SECTOR
        /\ slots[i].flag \in {0, 1} /\ slots[i].reserved \in {0, 255}
    /\ \E i \in 1..k : slots[i].flag = 1

(* directory_entries_for_repair succeeds. *)
IsRepairable(slots) ==
    LET k == Count(slots) IN
    /\ k \in 1..ProfileCount /\ k < Room
    /\ \A i \in 1..k :
        /\ slots[i].sector # USER_DIRECTORY_SECTOR /\ slots[i].sector < ROM_DIRECTORY_SECTOR
        /\ \A j \in 1..i - 1 : slots[j].sector # slots[i].sector
        /\ slots[i].flag \in {0, 1} /\ slots[i].reserved \in {0, 255}
    /\ \E i \in 1..k : slots[i].flag = 1

(* Faulty variant: an erased entry is passed over instead of ending the list. *)
Rebuilt_Compacted(slots, count) ==
    LET kept == SelectSeq([i \in 1..Room |-> slots[i]], LAMBDA slot : slot # Erased)
    IN  [i \in 1..Room |-> IF i \in DOMAIN kept THEN kept[i] ELSE Erased]

(* rebuilt_directory *)
Rebuilt(slots, count) == [i \in 1..Room |-> IF i <= count THEN slots[i] ELSE Erased]

(* Faulty variant: the profile's position is written as its flag. *)
WithEnabled_Position(slots, position, on) ==
    [slots EXCEPT ![position].flag = IF on THEN position ELSE 0]

(* directory_with_enabled *)
WithEnabled(slots, position, on) == [slots EXCEPT ![position].flag = IF on THEN 1 ELSE 0]

(* initial_entries: user profile N is a copy of factory profile N, or of   *)
(* the first, and on when factory profile N is; at least the first is on.  *)
HasFactoryProfiles(slots) ==
    LET factory == Parse(slots, RomProfileCount)
    IN  factory # <<>> /\ \A i \in DOMAIN factory : factory[i].sector > ROM_DIRECTORY_SECTOR

InitialEntries(slots) ==
    LET factory == Parse(slots, RomProfileCount)
        on(i) == i \in DOMAIN factory /\ factory[i].enabled
    IN  [i \in 1..ProfileCount |->
            [sector |-> i,
             enabled |-> on(i) \/ (i = 1 /\ \A j \in 1..ProfileCount : ~on(j)),
             factory |-> IF i \in DOMAIN factory THEN factory[i].sector ELSE factory[1].sector]]

(* initial_directory *)
InitialDirectory(slots) ==
    LET entries == InitialEntries(slots)
    IN  [i \in 1..Room |->
            IF i \in DOMAIN entries
            THEN [sector |-> entries[i].sector, flag |-> IF entries[i].enabled THEN 1 ELSE 0,
                  reserved |-> slots[1].reserved]
            ELSE Erased]

-----------------------------------------------------------------------------
(* A list of profiles every command can rely on. *)
SoundList(entries) ==
    /\ entries # <<>>
    /\ \A i \in DOMAIN entries : /\ entries[i].sector \in 1..ROM_DIRECTORY_SECTOR - 1
                                 /\ \A j \in 1..i - 1 : entries[j].sector # entries[i].sector
    /\ \E i \in DOMAIN entries : entries[i].enabled

(* Directories that another program wrote: as the mouse lays them out. *)
Written == { slots \in [1..Room -> {Erased} \cup
                          [sector : 1..ProfileCount, flag : {0, 1}, reserved : {0, 255}]] :
               /\ Count(slots) <= ProfileCount /\ SoundList(Listed(slots))
               /\ \A i \in 1..Room : i > Count(slots) => slots[i] = Erased }

DirectoryTypeOK ==
    /\ dir \in DirectorySector /\ rom \in RomDirectories /\ intact \in BOOLEAN
    /\ {old, new} \subseteq Seq([sector : Nat, enabled : BOOLEAN])
    /\ damage \in 0..MaxDamage

DirectoryInit ==
    /\ \/ \E slots \in Written : dir = [slots |-> slots, crc |-> TRUE]
       \/ dir = [slots |-> [i \in 1..Room |-> Erased], crc |-> FALSE]
    /\ rom \in RomDirectories
    /\ old = <<>> /\ new = <<>> /\ intact = TRUE /\ damage = 0

(* A directory write is verified, or cut short. *)
WriteDirectory(slots) ==
    \/ /\ dir' = [slots |-> slots, crc |-> TRUE]
       /\ intact' = TRUE
       /\ UNCHANGED <<old, new, damage>>
    \/ /\ damage < MaxDamage /\ damage' = damage + 1
       /\ \E mix \in [1..Room -> {"old", "new", "erased"}] :
            dir' = [slots |-> [i \in 1..Room |-> CASE mix[i] = "old" -> dir.slots[i]
                                                   [] mix[i] = "new" -> slots[i]
                                                   [] OTHER -> Erased],
                    crc |-> FALSE]
       /\ old' = Listed(dir.slots) /\ new' = Listed(slots)
       /\ intact' = dir.crc

(* plan_enabled: the profile is listed, its flag changes, and another one  *)
(* stays on.                                                               *)
SetEnabled(n, on) ==
    /\ dir.crc
    /\ LET entries == Listed(dir.slots)
       IN  /\ n \in DOMAIN entries
           /\ entries[n].enabled # on
           /\ ~on => \E i \in DOMAIN entries \ {n} : entries[i].enabled
    /\ WriteDirectory(WithEnabled(dir.slots, n, on))
    /\ UNCHANGED rom

(* plan_directory_repair, of a directory that lists something. *)
Repair ==
    /\ ~dir.crc /\ ~NeverWritten(dir)
    /\ IsRepairable(dir.slots)
    /\ WriteDirectory(Rebuilt(dir.slots, Count(dir.slots)))
    /\ UNCHANGED rom

(* plan_first_directory *)
SetUp ==
    /\ NeverWritten(dir)
    /\ HasFactoryProfiles(rom)
    /\ WriteDirectory(InitialDirectory(rom))
    /\ UNCHANGED rom

(* An entry goes bad. *)
Decay(i, slot) ==
    /\ damage < MaxDamage /\ damage' = damage + 1
    /\ slot # dir.slots[i]
    /\ dir' = [slots |-> [dir.slots EXCEPT ![i] = slot], crc |-> FALSE]
    /\ intact' = FALSE
    /\ UNCHANGED <<rom, old, new>>

DirectoryNext == \/ \E n \in 1..ProfileCount, on \in BOOLEAN : SetEnabled(n, on)
        \/ Repair \/ SetUp
        \/ \E i \in 1..Room, slot \in DirectoryEntry : Decay(i, slot)

DirectorySpec == DirectoryInit /\ [][DirectoryNext]_directoryVars
-----------------------------------------------------------------------------
(* A directory with a matching checksum lists distinct user profiles, at   *)
(* least one of them on, whatever was damaged and repaired before.         *)
ListIsSound == dir.crc => SoundList(Listed(dir.slots))

(* After a write cut short, a repair brings back the list from before or   *)
(* after that write, as far as its entries survived: no profile changes    *)
(* its place and none appears, and each is on or off as it was in one of   *)
(* the two.                                                                *)
FromEither(entries) ==
    \A i \in DOMAIN entries : \/ i \in DOMAIN old /\ entries[i] = old[i]
                              \/ i \in DOMAIN new /\ entries[i] = new[i]
RepairIsOldOrNew ==
    [][~dir.crc /\ dir'.crc /\ ~NeverWritten(dir) /\ intact
          => FromEither(Listed(dir'.slots))]_directoryVars

(* What a directory holds between any two writes is what format.rs can     *)
(* read, and sound when its checksum matches.                              *)
DirectorySound == DirectoryTypeOK /\ ListIsSound
=============================================================================
