-------------------------- MODULE ProfileLoadProofs -------------------------
(***************************************************************************)
(* Machine-checked proofs about ProfileLoad, for any number of profiles,   *)
(* failed requests, kills and presses of the profile button: the profile   *)
(* in use stays in use, one is always turned on, and what a command says   *)
(* of when its change takes effect is what the mouse does.                 *)
(***************************************************************************)
EXTENDS ProfileLoad, FiniteSetTheorems, WellFoundedInduction, TLAPS

(* The least of some natural numbers is one of them. *)
LEMMA MinIsOne == ASSUME NEW S \in SUBSET Nat, S # {} PROVE Min(S) \in S
<1>1. PICK R : R = OpToRel(<, Nat)
  OBVIOUS
<1>2. IsWellFoundedOn(R, Nat)
  BY <1>1, NatLessThanWellFounded
<1>3. \A x, y \in Nat : <<y, x>> \in R <=> y < x
  BY <1>1 DEF OpToRel
<1>4. PICK x \in S : \A y \in S : ~(<<y, x>> \in R)
  BY <1>2, WFMin
<1>5. ASSUME NEW y \in S PROVE x <= y
  <2>1. x \in Nat /\ y \in Nat /\ ~(<<y, x>> \in R)
    BY <1>4
  <2>2. ~(y < x)
    BY <2>1, <1>3, Zenon
  <2> QED BY <2>1, <2>2
<1> QED BY <1>5 DEF Min

(* A directory with two profiles on has one on besides any one.            *)
LEMMA OneBesides ==
    ASSUME NEW S \in SUBSET Profile, NEW p \in Profile, ~(Cardinality(S) <= 1)
    PROVE  S \ {p} # {}
<1> SUFFICES ASSUME S \subseteq {p} PROVE FALSE
  OBVIOUS
<1>1. IsFiniteSet({p}) /\ Cardinality({p}) = 1
  BY FS_Singleton
<1>2. Cardinality(S) <= 1
  BY <1>1, FS_Subset
<1> QED BY <1>2

(* What the kinds of commands write. *)
LEMMA CommandFacts ==
    ASSUME cmd \in Commands
    PROVE  /\ cmd.kind \in {"none", "edit", "toggle", "restore", "activate"}
           /\ cmd.profile \in Profile /\ cmd.enabled \in BOOLEAN
           /\ cmd.written \subseteq Sectors
           /\ cmd.kind = "toggle" => cmd.written = {USER_DIRECTORY_SECTOR}
           /\ cmd.kind = "edit" => cmd.written \subseteq Profile
<1>1. CASE cmd \in [kind : {"none", "edit"}, profile : Profile, enabled : {FALSE},
                    written : SUBSET Profile]
  BY <1>1 DEF Sectors
<1>2. CASE cmd \in [kind : {"toggle"}, profile : Profile, enabled : BOOLEAN,
                    written : {{USER_DIRECTORY_SECTOR}}]
  BY <1>2 DEF Sectors
<1>3. CASE cmd \in [kind : {"restore"}, profile : Profile, enabled : {FALSE},
                    written : (SUBSET Sectors) \ {{}}]
  BY <1>3
<1>4. CASE cmd \in [kind : {"activate"}, profile : Profile, enabled : {FALSE}, written : {{}}]
  BY <1>4
<1> QED BY <1>1, <1>2, <1>3, <1>4 DEF Commands

(* Profiles are numbered from 1: none is the directory, or no profile.     *)
LEMMA NoProfileIsSectorZero == USER_DIRECTORY_SECTOR \notin Profile /\ NONE \notin Profile
                               /\ Profile \subseteq Nat /\ 1 \in Profile
  BY CountAssumption DEF USER_DIRECTORY_SECTOR, NONE, Profile

-----------------------------------------------------------------------------
(* The inductive invariant.                                                *)

(* A command written without error is in the middle of nothing; a request  *)
(* under way belongs to the command that makes it.                         *)
StageInv ==
    /\ step # "idle" => outcome = "none"
    /\ step \in {"plan", "read_in_use", "read_now"} => cmd.kind = "toggle"
    /\ step = "write" => cmd.kind \in {"edit", "toggle", "restore"}
    /\ step = "write_directory" => cmd.kind = "restore"
    /\ step = "read_index" => cmd.kind \in {"edit", "restore"}
    /\ step = "read_now" => inUse \in Profile
    /\ step = "write" /\ cmd.kind = "toggle" => inUse \in Profile

(* A switch under way is one its command makes: away from the profile that *)
(* was written and back to it, back to the one in use before a toggle, or  *)
(* the one asked for.                                                      *)
Switching == step \in {"set", "read_back"}
Reloading == Switching /\ switch.why \in {"away", "back", "again"}

SwitchInv ==
    Switching =>
        /\ switch.to \in Profile
        /\ \/ switch.why = "away" /\ switch.to # inUse
           \/ switch.why \in {"back", "again"} /\ switch.to = inUse
           \/ switch.why = "select" /\ cmd.kind = "toggle" /\ switch.to = inUse
           \/ switch.why = "activate" /\ cmd.kind = "activate"
        /\ Reloading => cmd.kind \in {"edit", "restore"} /\ inUse \in Profiles

(* The profile that runs was loaded after its memory was written. *)
Fresh == current = loaded /\ ~stale

(* On the way to another profile and back, the mouse loads whatever it     *)
(* moves to, and having been away it cannot come back without loading.     *)
ReloadInv ==
    /\ Reloading => /\ current # inUse => Fresh
                    /\ switch.why # "away" /\ switch.away => Fresh
    /\ outcome = "now" /\ Profiles # {} => Fresh /\ (~pressed => current \in Profiles)

(* While nobody presses the button, the profile that was in use when a     *)
(* command began is known to it, and is in use when it does not write the  *)
(* directory. *)
UseInv ==
    ~pressed /\ cmd.kind \in {"edit", "toggle"} =>
        /\ step \in {"plan", "read_in_use", "write", "read_index"} => current = before
        /\ step = "write" /\ cmd.kind = "toggle" => inUse = before
        /\ step = "read_now" \/ Switching => inUse = before
        /\ outcome \in {"ok", "now", "when_activated", "not_loaded"} => current = before

(* A profile that is being turned off is neither the only one turned on    *)
(* nor, while nobody presses the button, the one in use. *)
OffInv ==
    cmd.kind = "toggle" /\ ~cmd.enabled =>
        /\ step \in {"read_in_use", "write"} => on \ {cmd.profile} # {}
        /\ ~pressed /\ (step \notin {"idle", "plan"} \/ outcome = "ok") => before # cmd.profile

IInv == /\ TypeOK /\ StageInv /\ SwitchInv /\ ReloadInv /\ UseInv /\ OffInv
        /\ WhenActivatedIsTrue

-----------------------------------------------------------------------------
(* A command begins with nothing of the last one. *)
LEMMA StartKeeps ==
    ASSUME IInv, NEW kind, NEW p \in Profile, NEW enabled, NEW written, NEW first, NEW why,
           Start(kind, p, enabled, written, first, why),
           [kind |-> kind, profile |-> p, enabled |-> enabled, written |-> written] \in Commands,
           \/ kind \in {"edit", "restore"} /\ first = "write" /\ why = "none"
           \/ kind = "toggle" /\ first = "plan" /\ why = "none"
           \/ kind = "activate" /\ first = "set" /\ why = "activate"
    PROVE  IInv'
<1>1. /\ cmd' \in Commands /\ cmd'.kind = kind /\ step' = first /\ outcome' = "none"
      /\ UNCHANGED <<onboard, on, current, loaded, stale, presses, faults>>
      /\ inUse' = NONE /\ before' = current /\ pressed' = FALSE
  BY DEF Start, device
<1>2. switch' = [why |-> why, to |-> IF first = "set" THEN p ELSE NONE, away |-> FALSE]
  BY DEF Start, NoSwitch
<1>3. TypeOK'
  BY <1>1, <1>2, NoProfileIsSectorZero DEF IInv, TypeOK, Steps, Reasons, Outcomes
<1>4. StageInv'
  BY <1>1 DEF StageInv
<1>5. SwitchInv'
  BY <1>1, <1>2 DEF SwitchInv, Switching, Reloading
<1>6. ReloadInv' /\ WhenActivatedIsTrue'
  BY <1>1, <1>2 DEF ReloadInv, Switching, Reloading, WhenActivatedIsTrue
<1>7. UseInv'
  BY <1>1 DEF UseInv, Switching
<1>8. OffInv'
  BY <1>1 DEF OffInv
<1> QED BY <1>3, <1>4, <1>5, <1>6, <1>7, <1>8 DEF IInv

(* An edit begins with the write of its profile.                           *)
LEMMA StartEditKeeps == ASSUME IInv, NEW p \in Profile, StartEdit(p) PROVE IInv'
<1>1. [kind |-> "edit", profile |-> p, enabled |-> FALSE, written |-> {p}] \in Commands
  BY DEF Commands
<1> QED BY <1>1, StartKeeps DEF StartEdit

(* A restore begins with a write, of whichever sectors.                    *)
LEMMA StartRestoreKeeps ==
    ASSUME IInv, NEW written \in SUBSET Sectors, StartRestore(written) PROVE IInv'
<1>1. [kind |-> "restore", profile |-> 1, enabled |-> FALSE, written |-> written] \in Commands
  BY NoProfileIsSectorZero DEF Commands, StartRestore
<1> QED BY <1>1, NoProfileIsSectorZero, StartKeeps DEF StartRestore

(* Turning a profile on or off begins with a plan.                         *)
LEMMA StartToggleKeeps ==
    ASSUME IInv, NEW p \in Profile, NEW enabled \in BOOLEAN, StartToggle(p, enabled) PROVE IInv'
<1>1. [kind |-> "toggle", profile |-> p, enabled |-> enabled,
       written |-> {USER_DIRECTORY_SECTOR}] \in Commands
  BY DEF Commands
<1> QED BY <1>1, StartKeeps DEF StartToggle

(* An activation begins with the switch it asks for.                       *)
LEMMA StartActivateKeeps == ASSUME IInv, NEW p \in Profile, StartActivate(p) PROVE IInv'
<1>1. [kind |-> "activate", profile |-> p, enabled |-> FALSE, written |-> {}] \in Commands
  BY DEF Commands
<1> QED BY <1>1, StartKeeps DEF StartActivate

(* A command that ends with an error, or is killed, promises nothing. *)
LEMMA EndsKeeps ==
    ASSUME IInv, step # "idle", UNCHANGED <<device, local, history>>,
           step' = "idle", outcome' \in {"error", "killed", "left"}, faults' \in 0..MaxFaults
    PROVE  IInv'
<1> USE DEF IInv, device, local, history
<1>1. TypeOK'
  BY DEF TypeOK, Steps, Outcomes
<1>2. StageInv' /\ SwitchInv' /\ ReloadInv' /\ UseInv' /\ WhenActivatedIsTrue'
  BY DEF StageInv, SwitchInv, ReloadInv, UseInv, Switching, Reloading, WhenActivatedIsTrue
<1>3. OffInv'
  BY DEF OffInv
<1> QED BY <1>1, <1>2, <1>3

(* Where the mouse was left is only read for the error.                    *)
LEMMA ReadLeftKeeps == ASSUME IInv, ReadLeft PROVE IInv'
<1>1. faults' \in 0..MaxFaults
  BY BoundsAssumption DEF ReadLeft, Fault, IInv, TypeOK
<1> QED BY <1>1, EndsKeeps DEF ReadLeft, Finish

(* A request that fails ends the command with an error.                    *)
LEMMA RequestFailsKeeps == ASSUME IInv, RequestFails PROVE IInv'
<1>1. faults' \in 0..MaxFaults
  BY BoundsAssumption DEF RequestFails, Fault, IInv, TypeOK
<1> QED BY <1>1, EndsKeeps DEF RequestFails, Finish

(* A killed process leaves the mouse as it is.                             *)
LEMMA KillKeeps == ASSUME IInv, Kill PROVE IInv'
<1>1. faults' \in 0..MaxFaults
  BY BoundsAssumption DEF Kill, Fault, IInv, TypeOK
<1> QED BY <1>1, EndsKeeps DEF Kill, Finish

-----------------------------------------------------------------------------
(* Turning a profile on or off. *)

(* The plan refuses the only profile on, and the one in use. *)
LEMMA PlanToggleKeeps == ASSUME IInv, PlanToggle PROVE IInv'
<1>1. CASE PlanRefuses
  BY <1>1, EndsKeeps DEF PlanToggle, Finish, IInv, TypeOK
<1>2. CASE ~PlanRefuses
  <2> USE DEF IInv, device, local, history
  <2>1. /\ step = "plan" /\ step' = "read_in_use" /\ cmd.kind = "toggle"
        /\ UNCHANGED <<device, local, history, outcome, faults>>
    BY <1>2 DEF PlanToggle, StageInv
  <2>2. ~cmd.enabled => cmd.profile # current /\ on \ {cmd.profile} # {}
    BY <1>2, OneBesides, CommandFacts DEF PlanRefuses, TypeOK
  <2>3. TypeOK'
    BY <2>1 DEF TypeOK, Steps
  <2>4. StageInv' /\ SwitchInv' /\ ReloadInv' /\ WhenActivatedIsTrue'
    BY <2>1 DEF StageInv, SwitchInv, ReloadInv, Switching, Reloading, WhenActivatedIsTrue
  <2>5. UseInv'
    BY <2>1 DEF UseInv, Switching
  <2>6. OffInv'
    BY <2>1, <2>2 DEF OffInv, UseInv, StageInv
  <2> QED BY <2>3, <2>4, <2>5, <2>6
<1> QED BY <1>1, <1>2

(* What is noted before the write is the profile in use.                   *)
LEMMA ReadInUseKeeps == ASSUME IInv, ReadInUse PROVE IInv'
<1> USE DEF IInv, device, history
<1>1. /\ step = "read_in_use" /\ step' = "write" /\ inUse' = current /\ cmd.kind = "toggle"
      /\ UNCHANGED <<device, cmd, switch, history, outcome, faults>> /\ outcome = "none"
  BY DEF ReadInUse, StageInv
<1>2. TypeOK'
  BY <1>1 DEF TypeOK, Steps
<1>3. StageInv'
  BY <1>1 DEF StageInv, TypeOK
<1>4. SwitchInv' /\ ReloadInv' /\ WhenActivatedIsTrue'
  BY <1>1 DEF SwitchInv, ReloadInv, Switching, Reloading, WhenActivatedIsTrue
<1>5. UseInv'
  BY <1>1 DEF UseInv, Switching
<1>6. OffInv'
  BY <1>1 DEF OffInv
<1> QED BY <1>2, <1>3, <1>4, <1>5, <1>6

(* Written profiles make what was loaded from them old. *)
LEMMA WriteProfilesKeeps == ASSUME IInv, WriteProfiles PROVE IInv'
<1> USE DEF IInv, local, history
<1>1. /\ step = "write" /\ cmd.written \ {USER_DIRECTORY_SECTOR} # {} /\ outcome = "none"
      /\ stale' = (stale \/ loaded \in cmd.written)
      /\ step' = IF USER_DIRECTORY_SECTOR \in cmd.written THEN "write_directory" ELSE "read_index"
      /\ UNCHANGED <<onboard, on, current, loaded, local, history, outcome, faults>>
  BY DEF WriteProfiles, StageInv
<1>2. /\ cmd.kind \in {"edit", "restore"} /\ cmd.kind # "toggle"
      /\ cmd.kind = "edit" => USER_DIRECTORY_SECTOR \notin cmd.written
  BY <1>1, CommandFacts, NoProfileIsSectorZero DEF StageInv, TypeOK
<1>3. TypeOK'
  BY <1>1 DEF TypeOK, Steps
<1>4. StageInv'
  BY <1>1, <1>2 DEF StageInv
<1>5. SwitchInv' /\ ReloadInv' /\ WhenActivatedIsTrue'
  BY <1>1 DEF SwitchInv, ReloadInv, Switching, Reloading, WhenActivatedIsTrue
<1>6. UseInv'
  BY <1>1, <1>2 DEF UseInv, Switching
<1>7. OffInv'
  BY <1>1, <1>2 DEF OffInv
<1> QED BY <1>3, <1>4, <1>5, <1>6, <1>7

(* Where the mouse may go when its directory is written. *)
LEMMA Commits ==
    ASSUME TypeOK, NEW dir \in (SUBSET Profile) \ {{}}, CommitDirectory(dir)
    PROVE  /\ on' = dir /\ onboard' = onboard
           /\ current' \in Profile /\ loaded' \in Profile /\ stale' \in BOOLEAN
  BY DEF CommitDirectory, TypeOK

(* A directory that is written has a profile on, and the mouse may go to   *)
(* one that is on.                                                         *)
LEMMA WriteDirectoryKeeps == ASSUME IInv, WriteDirectory PROVE IInv'
<1> USE DEF IInv, local, history
<1>0. cmd.kind \in {"toggle", "restore"} /\ step \in {"write", "write_directory"}
      /\ outcome = "none" /\ UNCHANGED <<local, history, faults>> /\ AfterDirectory
  BY DEF WriteDirectory, StageInv
<1>1. \E dir \in (SUBSET Profile) \ {{}} : CommitDirectory(dir)
  <2>1. CASE cmd.kind = "toggle"
    <3> DEFINE dir == IF cmd.enabled THEN on \cup {cmd.profile} ELSE on \ {cmd.profile}
    <3>1. CommitDirectory(dir)
      BY <2>1 DEF WriteDirectory
    <3>2. step = "write" /\ cmd.profile \in Profile /\ on \subseteq Profile
      BY <1>0, <2>1, CommandFacts DEF StageInv, TypeOK
    <3>3. dir \in (SUBSET Profile) \ {{}}
      BY <2>1, <3>2 DEF OffInv
    <3> HIDE DEF dir
    <3> QED BY <3>1, <3>3
  <2>2. CASE cmd.kind = "restore"
    BY <2>2 DEF WriteDirectory
  <2> QED BY <1>0, <2>1, <2>2
<1>2. /\ on' \in (SUBSET Profile) \ {{}} /\ onboard' = onboard
      /\ current' \in Profile /\ loaded' \in Profile /\ stale' \in BOOLEAN
  BY <1>1, Commits
<1>3. \/ cmd.kind = "toggle" /\ step' = "read_now" /\ outcome' = "none"
      \/ cmd.kind = "restore" /\ step' = "read_index" /\ outcome' = "none"
      \/ cmd.kind = "restore" /\ step' = "idle" /\ outcome' = "now"
         /\ cmd.written = {USER_DIRECTORY_SECTOR}
  BY <1>0 DEF AfterDirectory, Finish
<1>4. TypeOK'
  BY <1>0, <1>2, <1>3 DEF TypeOK, Steps, Outcomes
<1>5. StageInv'
  BY <1>0, <1>3 DEF StageInv
<1>6. SwitchInv' /\ ReloadInv' /\ WhenActivatedIsTrue'
  BY <1>0, <1>3
     DEF SwitchInv, ReloadInv, Switching, Reloading, WhenActivatedIsTrue, Profiles
<1>7. UseInv'
  BY <1>0, <1>3 DEF UseInv, StageInv, Switching
<1>8. OffInv'
  BY <1>0, <1>3 DEF OffInv, StageInv
<1> QED BY <1>4, <1>5, <1>6, <1>7, <1>8

(* A mouse that moved away is told to come back.                           *)
LEMMA ReadNowKeeps == ASSUME IInv, ReadNow PROVE IInv'
<1> USE DEF IInv, device, history
<1>1. /\ step = "read_now" /\ cmd.kind = "toggle" /\ inUse \in Profile /\ outcome = "none"
      /\ UNCHANGED <<device, cmd, inUse, history, faults>>
      /\ \/ current = inUse /\ step' = "idle" /\ outcome' = "ok" /\ switch' = switch
         \/ step' = "set" /\ switch' = [why |-> "select", to |-> inUse, away |-> FALSE]
            /\ outcome' = "none"
  BY DEF ReadNow, StageInv, Finish
<1>2. TypeOK'
  <2>1. switch' \in [why : Reasons, to : Profile \cup {NONE}, away : BOOLEAN]
    <3>1. [why |-> "select", to |-> inUse, away |-> FALSE]
            \in [why : Reasons, to : Profile \cup {NONE}, away : BOOLEAN]
      BY <1>1 DEF Reasons
    <3> QED BY <1>1, <3>1 DEF TypeOK
  <2> QED BY <1>1, <2>1 DEF TypeOK, Steps, Outcomes
<1>3. StageInv' /\ WhenActivatedIsTrue'
  BY <1>1 DEF StageInv, WhenActivatedIsTrue
<1>4. SwitchInv' /\ ReloadInv'
  BY <1>1 DEF SwitchInv, ReloadInv, Switching, Reloading
<1>5. UseInv'
  BY <1>1 DEF UseInv, Switching
<1>6. OffInv'
  BY <1>1 DEF OffInv
<1> QED BY <1>2, <1>3, <1>4, <1>5, <1>6

-----------------------------------------------------------------------------
(* Loading what was written. *)
LEMMA ReadIndexKeeps == ASSUME IInv, ReadIndex PROVE IInv'
<1> USE DEF IInv, device, history
<1>0. /\ step = "read_index" /\ cmd.kind \in {"edit", "restore"} /\ outcome = "none"
      /\ UNCHANGED <<device, cmd, history, faults>> /\ inUse' = current
      /\ current \in Profile
  BY DEF ReadIndex, StageInv, TypeOK
<1>1. \/ (~onboard \/ current \notin cmd.written) /\ step' = "idle"
         /\ outcome' = "when_activated" /\ switch' = switch
      \/ step' = "idle" /\ outcome' = "not_loaded" /\ switch' = switch
      \/ /\ step' = "set" /\ outcome' = "none" /\ Others(current) # {} /\ current \in cmd.written
         /\ switch' = [why |-> "away", to |-> Min(Others(current)), away |-> FALSE]
  BY <1>0 DEF ReadIndex, Finish
<1>2. Others(current) # {} => Min(Others(current)) \in Profile /\ Min(Others(current)) # current
  <2>1. Others(current) \subseteq Profile /\ current \notin Others(current)
    BY DEF Others, TypeOK
  <2>2. Others(current) # {} => Min(Others(current)) \in Others(current)
    BY <2>1, MinIsOne, NoProfileIsSectorZero
  <2> QED BY <2>1, <2>2
<1>3. TypeOK'
  <2>1. switch' \in [why : Reasons, to : Profile \cup {NONE}, away : BOOLEAN]
    <3>1. Others(current) # {} => [why |-> "away", to |-> Min(Others(current)), away |-> FALSE]
            \in [why : Reasons, to : Profile \cup {NONE}, away : BOOLEAN]
      BY <1>2 DEF Reasons
    <3> QED BY <1>1, <3>1 DEF TypeOK
  <2> QED BY <1>0, <1>1, <2>1 DEF TypeOK, Steps, Outcomes
<1>4. StageInv'
  BY <1>0, <1>1 DEF StageInv
<1>5. SwitchInv'
  BY <1>0, <1>1, <1>2, NoProfileIsSectorZero DEF SwitchInv, Switching, Reloading, Profiles
<1>6. ReloadInv'
  BY <1>0, <1>1 DEF ReloadInv, Switching, Reloading
<1>7. WhenActivatedIsTrue'
  BY <1>0, <1>1 DEF WhenActivatedIsTrue, Profiles
<1>8. UseInv'
  BY <1>0, <1>1 DEF UseInv, Switching
<1>9. OffInv'
  BY <1>0, <1>1 DEF OffInv
<1> QED BY <1>3, <1>4, <1>5, <1>6, <1>7, <1>8, <1>9

(* A mouse told to switch stays as it is or loads another profile. *)
LEMMA Selects ==
    ASSUME TypeOK, NEW p \in Profile, Select(p) \/ UNCHANGED device
    PROVE  /\ UNCHANGED <<onboard, on>>
           /\ current' \in Profile /\ loaded' \in Profile /\ stale' \in BOOLEAN
           /\ Fresh => Fresh'
           /\ current' # current => Fresh'
<1>1. CASE UNCHANGED device
  BY <1>1 DEF device, TypeOK, Fresh
<1>2. CASE Select(p) /\ p = current
  BY <1>2 DEF Select, TypeOK, Fresh
<1>3. CASE Select(p) /\ p # current
  BY <1>3 DEF Select, TypeOK, Fresh
<1> QED BY <1>1, <1>2, <1>3

(* A press loads what it moves to.                                         *)
LEMMA PressKeeps == ASSUME IInv, Press PROVE IInv'
<1> USE DEF IInv, local
<1>1. PICK q \in on : q # current /\ Select(q)
  BY DEF Press
<1>2. /\ q \in Profile /\ current' = q /\ loaded' = q /\ stale' = FALSE
      /\ UNCHANGED <<onboard, on>>
  BY <1>1 DEF Select, TypeOK
<1>3. /\ presses' \in 0..MaxPresses /\ pressed' = TRUE
      /\ UNCHANGED <<local, before, step, outcome, faults>>
  BY BoundsAssumption DEF Press, TypeOK
<1>4. TypeOK'
  BY <1>2, <1>3 DEF TypeOK
<1>5. StageInv' /\ SwitchInv'
  BY <1>3 DEF StageInv, SwitchInv, Switching, Reloading, Profiles
<1>6. ReloadInv'
  BY <1>2, <1>3 DEF ReloadInv, Fresh
<1>7. WhenActivatedIsTrue'
  BY <1>2 DEF WhenActivatedIsTrue
<1>8. UseInv' /\ OffInv'
  BY <1>2, <1>3 DEF UseInv, OffInv
<1> QED BY <1>4, <1>5, <1>6, <1>7, <1>8

(* A switch is made or ignored.                                            *)
LEMMA SetCurrentKeeps == ASSUME IInv, SetCurrent PROVE IInv'
<1> USE DEF IInv, local, history
<1>1. /\ step = "set" /\ step' = "read_back" /\ UNCHANGED <<local, history, outcome>>
      /\ Select(switch.to) \/ UNCHANGED device
      /\ faults' \in 0..MaxFaults /\ switch.to \in Profile /\ outcome = "none"
  BY BoundsAssumption DEF SetCurrent, Fault, TypeOK, SwitchInv, Switching, StageInv
<1>2. /\ UNCHANGED <<onboard, on>>
      /\ current' \in Profile /\ loaded' \in Profile /\ stale' \in BOOLEAN
      /\ Fresh => Fresh'
      /\ current' # current => Fresh'
  BY <1>1, Selects
<1>3. TypeOK'
  BY <1>1, <1>2 DEF TypeOK, Steps
<1>4. StageInv' /\ WhenActivatedIsTrue'
  BY <1>1 DEF StageInv, WhenActivatedIsTrue
<1>5. SwitchInv'
  BY <1>1 DEF SwitchInv, Switching, Reloading, Profiles
<1>6. ReloadInv'
  BY <1>1, <1>2 DEF ReloadInv, Switching, Reloading
<1>7. UseInv'
  BY <1>1 DEF UseInv, Switching
<1>8. OffInv'
  BY <1>1, <1>2 DEF OffInv
<1> QED BY <1>3, <1>4, <1>5, <1>6, <1>7, <1>8

(* What can follow a switch. *)
LEMMA AfterSwitchCases ==
    ASSUME switch.why \in Reasons \ {"none"}, NEW worked \in BOOLEAN, AfterSwitch(worked)
    PROVE  \/ /\ switch.why = "away" /\ step' = "set" /\ outcome' = outcome
              /\ switch' = [why |-> "back", to |-> inUse, away |-> worked]
           \/ /\ switch.why = "back" /\ step' = "set" /\ outcome' = outcome
              /\ switch' = [switch EXCEPT !.why = "again"]
           \/ /\ switch.why \in {"back", "again"} /\ worked /\ step' = "idle"
              /\ outcome' = (IF switch.away THEN "now" ELSE "not_loaded") /\ switch' = switch
           \/ switch.why = "again" /\ step' = "read_left" /\ UNCHANGED <<outcome, switch>>
           \/ /\ switch.why = "select" /\ step' = "idle"
              /\ outcome' = (IF worked THEN "ok" ELSE "left") /\ switch' = switch
           \/ /\ switch.why = "activate" /\ step' = "idle"
              /\ outcome' = (IF worked THEN "ok" ELSE "error") /\ switch' = switch
<1> USE DEF AfterSwitch, Finish
<1>1. CASE switch.why = "away"
  BY <1>1
<1>2. CASE switch.why = "back"
  BY <1>2
<1>3. CASE switch.why = "again"
  BY <1>3
<1>4. CASE switch.why = "select"
  BY <1>4
<1>5. CASE switch.why = "activate"
  BY <1>5
<1> QED BY <1>1, <1>2, <1>3, <1>4, <1>5 DEF Reasons

(* What follows a switch that was made, ignored or failed keeps it.        *)
LEMMA AfterSwitchKeeps ==
    ASSUME IInv, Switching, NEW worked \in BOOLEAN, AfterSwitch(worked),
           worked => current' = switch.to, Select(switch.to) \/ UNCHANGED device,
           faults' \in 0..MaxFaults, UNCHANGED <<cmd, inUse, history>>
    PROVE  IInv'
<1> USE DEF IInv, history
<1>1. /\ switch.why \in Reasons \ {"none"} /\ switch.to \in Profile /\ outcome = "none"
      /\ switch \in [why : Reasons, to : Profile \cup {NONE}, away : BOOLEAN]
      /\ step # "idle" /\ step \notin {"plan"}
  BY DEF SwitchInv, Switching, Reasons, StageInv, TypeOK
<1>2. /\ UNCHANGED <<onboard, on>>
      /\ current' \in Profile /\ loaded' \in Profile /\ stale' \in BOOLEAN
      /\ Fresh => Fresh'
      /\ current' # current => Fresh'
  BY <1>1, Selects
<1>3. Reloading => /\ current' # inUse => Fresh'
                   /\ switch.why # "away" /\ switch.away => Fresh'
  BY <1>2 DEF ReloadInv
<1>4. CASE /\ switch.why = "away" /\ step' = "set" /\ outcome' = outcome
           /\ switch' = [why |-> "back", to |-> inUse, away |-> worked]
  <2>1. Reloading /\ cmd.kind \in {"edit", "restore"} /\ inUse \in Profiles /\ switch.to # inUse
    BY <1>4 DEF Reloading, SwitchInv
  <2>2. inUse \in Profile
    BY <2>1, CommandFacts DEF Profiles, TypeOK, Sectors
  <2>3. worked => Fresh'
    BY <1>3, <2>1
  <2>4. TypeOK'
    BY <1>2, <1>4, <2>2 DEF TypeOK, Steps, Reasons
  <2>5. StageInv' /\ WhenActivatedIsTrue'
    BY <1>1, <1>4 DEF StageInv, WhenActivatedIsTrue
  <2>6. SwitchInv'
    BY <1>4, <2>1, <2>2 DEF SwitchInv, Switching, Reloading, Profiles
  <2>7. ReloadInv'
    BY <1>1, <1>3, <1>4, <2>1, <2>3 DEF ReloadInv
  <2>8. UseInv' /\ OffInv'
    BY <1>1, <1>4, <2>1 DEF UseInv, OffInv, Switching
  <2> QED BY <2>4, <2>5, <2>6, <2>7, <2>8
<1>5. CASE /\ switch.why = "back" /\ step' = "set" /\ outcome' = outcome
           /\ switch' = [switch EXCEPT !.why = "again"]
  <2>1. Reloading /\ cmd.kind \in {"edit", "restore"} /\ inUse \in Profiles /\ switch.to = inUse
    BY <1>5 DEF Reloading, SwitchInv
  <2>2. switch' = [why |-> "again", to |-> switch.to, away |-> switch.away]
    BY <1>1, <1>5
  <2>3. TypeOK'
    BY <1>1, <1>2, <1>5, <2>2 DEF TypeOK, Steps, Reasons
  <2>4. StageInv' /\ WhenActivatedIsTrue'
    BY <1>1, <1>5 DEF StageInv, WhenActivatedIsTrue
  <2>5. SwitchInv'
    BY <1>1, <1>5, <2>1, <2>2 DEF SwitchInv, Switching, Reloading, Profiles
  <2>6. ReloadInv'
    BY <1>1, <1>3, <1>5, <2>1, <2>2 DEF ReloadInv
  <2>7. UseInv' /\ OffInv'
    BY <1>1, <1>5, <2>1 DEF UseInv, OffInv, Switching
  <2> QED BY <2>3, <2>4, <2>5, <2>6, <2>7
<1>6. CASE /\ switch.why \in {"back", "again"} /\ worked /\ step' = "idle"
           /\ outcome' = (IF switch.away THEN "now" ELSE "not_loaded") /\ switch' = switch
  <2>1. /\ Reloading /\ cmd.kind \in {"edit", "restore"} /\ inUse \in Profiles
        /\ switch.to = inUse /\ current' = inUse
    BY <1>6 DEF Reloading, SwitchInv
  <2>2. TypeOK'
    BY <1>2, <1>6 DEF TypeOK, Steps, Outcomes
  <2>3. StageInv' /\ SwitchInv' /\ WhenActivatedIsTrue'
    BY <1>6 DEF StageInv, SwitchInv, Switching, Reloading, WhenActivatedIsTrue
  <2>4. ReloadInv'
    BY <1>3, <1>6, <2>1 DEF ReloadInv, Reloading, Switching, Profiles
  <2>5. UseInv'
    BY <1>6, <2>1 DEF UseInv, Switching
  <2>6. OffInv'
    BY <1>6, <2>1 DEF OffInv
  <2> QED BY <2>2, <2>3, <2>4, <2>5, <2>6
<1>7. CASE switch.why = "again" /\ step' = "read_left" /\ UNCHANGED <<outcome, switch>>
  <2>1. cmd.kind # "toggle"
    BY <1>7 DEF Reloading, SwitchInv
  <2>2. TypeOK'
    BY <1>2, <1>7 DEF TypeOK, Steps
  <2>3. StageInv' /\ SwitchInv' /\ ReloadInv' /\ WhenActivatedIsTrue'
    BY <1>1, <1>7
       DEF StageInv, SwitchInv, ReloadInv, Switching, Reloading, WhenActivatedIsTrue
  <2>4. UseInv' /\ OffInv'
    BY <1>1, <1>7, <2>1 DEF UseInv, OffInv, Switching
  <2> QED BY <2>2, <2>3, <2>4
<1>8. CASE /\ switch.why = "select" /\ step' = "idle"
           /\ outcome' = (IF worked THEN "ok" ELSE "left") /\ switch' = switch
  <2>1. cmd.kind = "toggle" /\ switch.to = inUse
    BY <1>8 DEF SwitchInv
  <2>2. TypeOK'
    BY <1>2, <1>8 DEF TypeOK, Steps, Outcomes
  <2>3. StageInv' /\ SwitchInv' /\ ReloadInv' /\ WhenActivatedIsTrue'
    BY <1>8 DEF StageInv, SwitchInv, ReloadInv, Switching, Reloading, WhenActivatedIsTrue
  <2>4. UseInv'
    BY <1>8, <2>1 DEF UseInv, Switching
  <2>5. OffInv'
    BY <1>1, <1>8 DEF OffInv
  <2> QED BY <2>2, <2>3, <2>4, <2>5
<1>9. CASE /\ switch.why = "activate" /\ step' = "idle"
           /\ outcome' = (IF worked THEN "ok" ELSE "error") /\ switch' = switch
  <2>1. cmd.kind = "activate"
    BY <1>9 DEF SwitchInv
  <2>2. TypeOK'
    BY <1>2, <1>9 DEF TypeOK, Steps, Outcomes
  <2>3. StageInv' /\ SwitchInv' /\ ReloadInv' /\ WhenActivatedIsTrue'
    BY <1>9 DEF StageInv, SwitchInv, ReloadInv, Switching, Reloading, WhenActivatedIsTrue
  <2>4. UseInv' /\ OffInv'
    BY <2>1 DEF UseInv, OffInv
  <2> QED BY <2>2, <2>3, <2>4
<1> QED BY <1>1, <1>4, <1>5, <1>6, <1>7, <1>8, <1>9, AfterSwitchCases

(* A request that fails counts as a switch that did not work.              *)
LEMMA SetCurrentFailsKeeps == ASSUME IInv, SetCurrentFails PROVE IInv'
<1>1. faults' \in 0..MaxFaults /\ Switching
  BY BoundsAssumption DEF SetCurrentFails, Fault, IInv, TypeOK, Switching
<1> QED BY <1>1, AfterSwitchKeeps DEF SetCurrentFails

(* The mouse says whether it switched.                                     *)
LEMMA ReadBackKeeps == ASSUME IInv, ReadBack PROVE IInv'
<1>1. faults' \in 0..MaxFaults /\ Switching /\ UNCHANGED device
  BY DEF ReadBack, IInv, TypeOK, Switching
<1>2. (current = switch.to) => current' = switch.to
  BY <1>1 DEF device
<1> QED BY <1>1, <1>2, AfterSwitchKeeps DEF ReadBack

(* A read-back that fails counts as a switch that did not work.            *)
LEMMA ReadBackFailsKeeps == ASSUME IInv, ReadBackFails PROVE IInv'
<1>1. faults' \in 0..MaxFaults /\ Switching
  BY BoundsAssumption DEF ReadBackFails, Fault, IInv, TypeOK, Switching
<1> QED BY <1>1, AfterSwitchKeeps DEF ReadBackFails

-----------------------------------------------------------------------------
(* A mouse before its first command keeps it.                              *)
LEMMA InitHolds == Init => IInv
<1> SUFFICES ASSUME Init PROVE IInv
  OBVIOUS
<1>1. cmd \in Commands
  BY NoProfileIsSectorZero DEF Init, Commands
<1>2. TypeOK
  <2>1. current \in Profile /\ loaded \in Profile /\ before \in Profile
    BY DEF Init
  <2>2. switch \in [why : Reasons, to : Profile \cup {NONE}, away : BOOLEAN]
    BY DEF Init, NoSwitch, Reasons
  <2>3. presses \in 0..MaxPresses /\ faults \in 0..MaxFaults
    BY BoundsAssumption DEF Init
  <2> QED BY <1>1, <2>1, <2>2, <2>3 DEF Init, TypeOK, Steps, Outcomes
<1>3. StageInv /\ SwitchInv /\ ReloadInv /\ UseInv /\ OffInv /\ WhenActivatedIsTrue
  BY DEF Init, StageInv, SwitchInv, ReloadInv, UseInv, OffInv, WhenActivatedIsTrue,
         Switching, Reloading
<1> QED BY <1>2, <1>3 DEF IInv

(* A step that changes nothing keeps it.                                   *)
LEMMA StutterKeeps == ASSUME IInv, UNCHANGED vars PROVE IInv'
<1> USE DEF IInv, vars, device, local, history
<1>1. TypeOK' /\ StageInv'
  BY DEF TypeOK, StageInv
<1>2. SwitchInv' /\ ReloadInv'
  BY DEF SwitchInv, ReloadInv, Switching, Reloading, Fresh, Profiles
<1>3. UseInv' /\ OffInv' /\ WhenActivatedIsTrue'
  BY DEF UseInv, OffInv, Switching, WhenActivatedIsTrue, Profiles
<1> QED BY <1>1, <1>2, <1>3

(* Every request, command and press keeps the invariant.                   *)
LEMMA NextKeeps == IInv /\ [Next]_vars => IInv'
<1> SUFFICES ASSUME IInv, [Next]_vars PROVE IInv'
  OBVIOUS
<1>1. CASE Begin
  BY <1>1, StartEditKeeps, StartActivateKeeps, StartToggleKeeps, StartRestoreKeeps DEF Begin
<1>2. CASE Request
  BY <1>2, PlanToggleKeeps, ReadInUseKeeps, WriteProfilesKeeps, WriteDirectoryKeeps, ReadNowKeeps,
     ReadIndexKeeps, SetCurrentKeeps, SetCurrentFailsKeeps, ReadBackKeeps, ReadBackFailsKeeps,
     ReadLeftKeeps, RequestFailsKeeps, KillKeeps DEF Request
<1> QED BY <1>1, <1>2, PressKeeps, StutterKeeps DEF Next

-----------------------------------------------------------------------------
(* A profile that set_profile_enabled turned off is not the one in use,    *)
(* wherever the firmware moved on the write, and one stays turned on.      *)
THEOREM OffIsNeverInUse == Spec => []Consistent
<1>1. ASSUME IInv, cmd.kind = "toggle", outcome = "ok", ~cmd.enabled, ~pressed
      PROVE  current # cmd.profile
  <2>1. current = before
    BY <1>1 DEF IInv, UseInv
  <2> QED BY <1>1, <2>1 DEF IInv, OffInv
<1>2. IInv => Consistent
  BY <1>1 DEF IInv, Consistent, OffIsNotInUse
<1> QED BY <1>2, InitHolds, NextKeeps, PTL DEF Spec

(* "Now" and "when activated", as load_written reports them, are true of   *)
(* what the mouse runs, however requests fail or are ignored.              *)
THEOREM LoadReportsAreTrue == Spec => []ReportIsTrue
<1>1. IInv => NowMeansLoaded
  BY DEF IInv, ReloadInv, NowMeansLoaded, Fresh
<1>2. IInv => ReportIsTrue
  BY <1>1 DEF IInv, ReportIsTrue
<1> QED BY <1>2, InitHolds, NextKeeps, PTL DEF Spec

(* A command that ends without an error leaves the mouse on the profile    *)
(* that was in use, unless the user pressed the button meanwhile.          *)
THEOREM InUseStays == Spec => []StaysInUse
<1>1. IInv => StaysInUse
  BY DEF IInv, UseInv, StaysInUse
<1> QED BY <1>1, InitHolds, NextKeeps, PTL DEF Spec
=============================================================================
