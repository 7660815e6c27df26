----------------------------- MODULE ProfileLoad ----------------------------
(***************************************************************************)
(* Which profile the mouse runs, and with which contents, while commands   *)
(* write its memory: load_written, set_profile_enabled, switch_profile and *)
(* the end of restore in src/src/editing.rs, activate_profile in           *)
(* src/src/device.rs.                                                      *)
(*                                                                         *)
(* The firmware keeps a current profile, which it reports, and runs the    *)
(* settings it last loaded.  It loads a profile only when told to switch   *)
(* to one that is not current, and it may move its current profile when    *)
(* the directory is written, with or without loading it                    *)
(* (src/docs/hardware-tests.md, 2026-09-30).  The user can press the       *)
(* cycle-profile button between any two requests.  A command is a sequence *)
(* of requests under the device lock, so no other process acts meanwhile;  *)
(* it can be killed.  Verified writes are SectorWrites: here one either    *)
(* changes its sectors or ends the command.                                *)
(***************************************************************************)
EXTENDS Naturals, FiniteSets, FiniteSetsExt

CONSTANTS
    ProfileCount,   \* profiles the mouse stores
    MaxFaults,      \* bound: failed or ignored requests, and kills
    MaxPresses      \* bound: presses of the profile button

ASSUME CountAssumption == ProfileCount \in Nat \ {0}
ASSUME BoundsAssumption == MaxFaults \in Nat /\ MaxPresses \in Nat

Profile == 1..ProfileCount
USER_DIRECTORY_SECTOR == 0
NONE == 0           \* no profile

VARIABLES
    onboard,    \* the mouse is in onboard mode (host mode otherwise)
    on,         \* the profiles turned on in the directory
    current,    \* the profile the mouse reports as current
    loaded,     \* the profile whose settings it runs
    stale,      \* that profile's memory was written after it was loaded
    presses,    \* button presses so far
    cmd,        \* the current or last command
    step,       \* its next request
    switch,     \* the profile switch under way: why, to which, did `away' work
    inUse,      \* set_profile_enabled: the current profile before its write
    outcome,    \* what the last command returned
    before,     \* history: the current profile when the command began
    pressed,    \* history: the button was pressed since then
    faults

device  == <<onboard, on, current, loaded, stale>>
local   == <<cmd, switch, inUse>>
history == <<before, presses, pressed>>
vars    == <<device, local, history, step, outcome, faults>>

Steps    == {"idle", "plan", "read_in_use", "write", "write_directory", "read_now", "read_index",
             "set", "read_back", "read_left"}
Reasons  == {"none", "away", "back", "again", "select", "activate"}
Outcomes == {"none", "ok", "now", "when_activated", "not_loaded", "left", "error", "killed"}
Sectors  == Profile \cup {USER_DIRECTORY_SECTOR}
Commands ==
    [kind : {"none", "edit"}, profile : Profile, enabled : {FALSE}, written : SUBSET Profile]
    \cup [kind : {"toggle"}, profile : Profile, enabled : BOOLEAN,
          written : {{USER_DIRECTORY_SECTOR}}]
    \cup [kind : {"restore"}, profile : Profile, enabled : {FALSE},
          written : (SUBSET Sectors) \ {{}}]
    \cup [kind : {"activate"}, profile : Profile, enabled : {FALSE}, written : {{}}]

TypeOK ==
    /\ onboard \in BOOLEAN /\ on \in (SUBSET Profile) \ {{}}
    /\ current \in Profile /\ loaded \in Profile /\ stale \in BOOLEAN
    /\ cmd \in Commands /\ step \in Steps
    /\ switch \in [why : Reasons, to : Profile \cup {NONE}, away : BOOLEAN]
    /\ inUse \in Profile \cup {NONE}
    /\ outcome \in Outcomes /\ before \in Profile
    /\ presses \in 0..MaxPresses /\ pressed \in BOOLEAN /\ faults \in 0..MaxFaults

NoSwitch == [why |-> "none", to |-> NONE, away |-> FALSE]

Init ==
    /\ onboard \in BOOLEAN
    /\ on \in (SUBSET Profile) \ {{}}
    /\ current \in on
    /\ loaded = current
    /\ stale = FALSE
    /\ cmd = [kind |-> "none", profile |-> 1, enabled |-> FALSE, written |-> {}]
    /\ step = "idle"
    /\ switch = NoSwitch
    /\ inUse = NONE
    /\ outcome = "none"
    /\ before = current
    /\ presses = 0 /\ pressed = FALSE
    /\ faults = 0

Fault == faults < MaxFaults /\ faults' = faults + 1

Finish(result) == step' = "idle" /\ outcome' = result

-----------------------------------------------------------------------------
(* The firmware. *)

(* Selecting the current profile does nothing; another one is loaded. *)
Select(p) ==
    /\ current' = p
    /\ loaded' = IF p # current THEN p ELSE loaded
    /\ stale' = (p = current /\ stale)
    /\ UNCHANGED <<onboard, on>>

(* Committing a directory may move the current profile, loading it or not. *)
CommitDirectory(dir) ==
    /\ on' = dir
    /\ \/ UNCHANGED <<current, loaded, stale>>
       \/ \E q \in dir : current' = q /\ UNCHANGED <<loaded, stale>>
       \/ \E q \in dir : current' = q /\ loaded' = q /\ stale' = FALSE
    /\ UNCHANGED onboard

(* The user presses the profile button, at any time. *)
Press ==
    /\ presses < MaxPresses
    /\ presses' = presses + 1
    /\ pressed' = TRUE
    /\ \E q \in on : q # current /\ Select(q)
    /\ UNCHANGED <<local, before, step, outcome, faults>>

-----------------------------------------------------------------------------
(* Commands. *)
Start(kind, p, enabled, written, first, why) ==
    /\ step = "idle"
    /\ cmd' = [kind |-> kind, profile |-> p, enabled |-> enabled, written |-> written]
    /\ step' = first
    /\ switch' = [NoSwitch EXCEPT !.why = why, !.to = IF first = "set" THEN p ELSE NONE]
    /\ inUse' = NONE
    /\ before' = current /\ pressed' = FALSE
    /\ outcome' = "none"
    /\ UNCHANGED <<device, presses, faults>>

StartEdit(p) == Start("edit", p, FALSE, {p}, "write", "none")

(* A restore writes the sectors that differ from its file. *)
StartRestore(written) ==
    written # {} /\ Start("restore", 1, FALSE, written, "write", "none")

StartToggle(p, enabled) ==
    Start("toggle", p, enabled, {USER_DIRECTORY_SECTOR}, "plan", "none")

(* activate_profile: refused in host mode and for a profile that is off. *)
StartActivate(p) ==
    onboard /\ p \in on /\ Start("activate", p, FALSE, {}, "set", "activate")

(* Faulty variants: the last one on, or the one in use, is not refused. *)
PlanRefuses_NotLast ==
    (cmd.profile \in on) = cmd.enabled \/ (~cmd.enabled /\ current = cmd.profile)
PlanRefuses_NotInUse ==
    (cmd.profile \in on) = cmd.enabled \/ (~cmd.enabled /\ Cardinality(on) <= 1)

(* plan_enabled: refused when nothing would change and, to turn a profile  *)
(* off, when it is in use or the only one turned on.                       *)
PlanRefuses ==
    \/ (cmd.profile \in on) = cmd.enabled
    \/ ~cmd.enabled /\ (current = cmd.profile \/ Cardinality(on) <= 1)

PlanToggle ==
    /\ step = "plan"
    /\ IF PlanRefuses THEN Finish("error") ELSE step' = "read_in_use" /\ UNCHANGED outcome
    /\ UNCHANGED <<device, local, history, faults>>

ReadInUse ==
    /\ step = "read_in_use"
    /\ inUse' = current
    /\ step' = "write"
    /\ UNCHANGED <<device, cmd, switch, history, outcome, faults>>

-----------------------------------------------------------------------------
(* The profile sectors are written and verified, then the directory. *)
WriteProfiles ==
    /\ step = "write"
    /\ cmd.written \ {USER_DIRECTORY_SECTOR} # {}
    /\ stale' = (stale \/ loaded \in cmd.written)
    /\ step' = IF USER_DIRECTORY_SECTOR \in cmd.written THEN "write_directory" ELSE "read_index"
    /\ UNCHANGED <<onboard, on, current, loaded, local, history, outcome, faults>>

AfterDirectory ==
    CASE cmd.kind = "toggle" -> step' = "read_now" /\ UNCHANGED outcome
      [] cmd.written = {USER_DIRECTORY_SECTOR} /\ cmd.kind = "restore" -> Finish("now")
      [] OTHER -> step' = "read_index" /\ UNCHANGED outcome

(* The directory of a restore is whichever its file holds. *)
WriteDirectory ==
    /\ \/ step = "write_directory"
       \/ step = "write" /\ cmd.written = {USER_DIRECTORY_SECTOR}
    /\ \/ /\ cmd.kind = "toggle"
          /\ CommitDirectory(IF cmd.enabled THEN on \cup {cmd.profile} ELSE on \ {cmd.profile})
       \/ /\ cmd.kind = "restore"
          /\ \E dir \in (SUBSET Profile) \ {{}, on} : CommitDirectory(dir)
    /\ AfterDirectory
    /\ UNCHANGED <<local, history, faults>>

(* Faulty variant: the mouse is taken to stay on its profile. *)
ReadNow_Trusting ==
    /\ step = "read_now"
    /\ Finish("ok")
    /\ UNCHANGED <<device, local, history, faults>>

(* set_profile_enabled: the profile that was in use is selected again when *)
(* the mouse moved away from it.                                           *)
ReadNow ==
    /\ step = "read_now"
    /\ IF current = inUse
       THEN Finish("ok") /\ UNCHANGED switch
       ELSE /\ step' = "set"
            /\ switch' = [why |-> "select", to |-> inUse, away |-> FALSE]
            /\ UNCHANGED outcome
    /\ UNCHANGED <<device, cmd, inUse, history, faults>>

(* load_written: the mode, the directory and the current profile. *)
Others(p) == on \ {p}

(* Faulty variant: goes by the profile that was current when it began. *)
ReadIndex_Cached ==
    /\ step = "read_index"
    /\ before \notin cmd.written
    /\ Finish("when_activated")
    /\ UNCHANGED <<device, local, history, faults>>

ReadIndex ==
    /\ step = "read_index"
    /\ IF ~onboard \/ current \notin cmd.written
       THEN Finish("when_activated") /\ UNCHANGED switch
       ELSE IF Others(current) = {}
       THEN Finish("not_loaded") /\ UNCHANGED switch
       ELSE /\ step' = "set"
            /\ switch' = [why |-> "away", to |-> Min(Others(current)), away |-> FALSE]
            /\ UNCHANGED outcome
    /\ inUse' = current
    /\ UNCHANGED <<device, cmd, history, faults>>

-----------------------------------------------------------------------------
(* switch_profile: select, then read the current profile. *)
SetCurrent ==
    /\ step = "set"
    /\ \/ Select(switch.to) /\ UNCHANGED faults
       \/ Fault /\ UNCHANGED device              \* accepted and ignored
    /\ step' = "read_back"
    /\ UNCHANGED <<local, history, outcome>>

(* Faulty variant: any answer will do. *)
AfterSwitch_AnyAnswer(worked) ==
    CASE switch.why = "away" ->
            /\ step' = "set"
            /\ switch' = [why |-> "back", to |-> inUse, away |-> TRUE]
            /\ UNCHANGED outcome
      [] switch.why \in {"back", "again"} -> Finish("now") /\ UNCHANGED switch
      [] switch.why \in {"select", "activate"} -> Finish("ok") /\ UNCHANGED switch

(* What follows a switch that worked or did not. *)
AfterSwitch(worked) ==
    CASE switch.why = "away" ->
            /\ step' = "set"
            /\ switch' = [why |-> "back", to |-> inUse, away |-> worked]
            /\ UNCHANGED outcome
      [] switch.why = "back" /\ ~worked ->
            /\ step' = "set"
            /\ switch' = [switch EXCEPT !.why = "again"]
            /\ UNCHANGED outcome
      [] switch.why \in {"back", "again"} /\ worked ->
            /\ Finish(IF switch.away THEN "now" ELSE "not_loaded")
            /\ UNCHANGED switch
      [] switch.why = "again" /\ ~worked ->
            /\ step' = "read_left"
            /\ UNCHANGED <<outcome, switch>>
      [] switch.why = "select" ->
            /\ Finish(IF worked THEN "ok" ELSE "left")
            /\ UNCHANGED switch
      [] switch.why = "activate" ->
            /\ Finish(IF worked THEN "ok" ELSE "error")
            /\ UNCHANGED switch

(* The request fails: it reached the mouse or it did not. *)
SetCurrentFails ==
    /\ step = "set"
    /\ Fault
    /\ Select(switch.to) \/ UNCHANGED device
    /\ AfterSwitch(FALSE)
    /\ UNCHANGED <<cmd, inUse, history>>

ReadBack ==
    /\ step = "read_back"
    /\ AfterSwitch(current = switch.to)
    /\ UNCHANGED <<device, cmd, inUse, history, faults>>

ReadBackFails ==
    /\ step = "read_back"
    /\ Fault
    /\ AfterSwitch(FALSE)
    /\ UNCHANGED <<device, cmd, inUse, history>>

(* The profile the mouse is left on is read, for the error message. *)
ReadLeft ==
    /\ step = "read_left"
    /\ UNCHANGED faults \/ Fault
    /\ Finish("left")
    /\ UNCHANGED <<device, local, history>>

(* Any other request fails: the command ends with an error.  A write that  *)
(* fails leaves its sector as it was.                                      *)
RequestFails ==
    /\ step \in {"plan", "read_in_use", "write", "write_directory", "read_now", "read_index"}
    /\ Fault
    /\ Finish("error")
    /\ UNCHANGED <<device, local, history>>

Kill ==
    /\ step # "idle"
    /\ Fault
    /\ Finish("killed")
    /\ UNCHANGED <<device, local, history>>

Request ==
    \/ PlanToggle \/ ReadInUse \/ WriteProfiles \/ WriteDirectory \/ ReadNow \/ ReadIndex
    \/ SetCurrent \/ SetCurrentFails \/ ReadBack \/ ReadBackFails \/ ReadLeft
    \/ RequestFails \/ Kill

Begin ==
    \/ \E p \in Profile : StartEdit(p) \/ StartActivate(p)
    \/ \E p \in Profile, enabled \in BOOLEAN : StartToggle(p, enabled)
    \/ \E written \in SUBSET Sectors : StartRestore(written)

Next == Begin \/ Request \/ Press

Spec == Init /\ [][Next]_vars
-----------------------------------------------------------------------------
Profiles == cmd.written \ {USER_DIRECTORY_SECTOR}

(* "Now" is only reported when the profile written, if the mouse runs it,  *)
(* was loaded after the write; and unless the user pressed the button      *)
(* meanwhile, the mouse does run one of the profiles written.              *)
NowMeansLoaded ==
    outcome = "now" /\ Profiles # {}
        => /\ loaded \in Profiles => ~stale
           /\ ~pressed => loaded \in Profiles /\ current = loaded

(* "When activated" is only reported when the profile the mouse reports as *)
(* current does not run settings older than its memory.                    *)
WhenActivatedIsTrue ==
    outcome = "when_activated" /\ onboard => ~(current = loaded /\ loaded \in Profiles /\ stale)

(* A profile switched through, or moved to by the firmware, does not stay: *)
(* a command that does not report an error leaves the profile that was in  *)
(* use in use, unless the user pressed the button or a restore replaced    *)
(* the directory.                                                          *)
StaysInUse ==
    (/\ step = "idle" /\ outcome \in {"ok", "now", "when_activated", "not_loaded"}
     /\ ~pressed /\ cmd.kind \in {"edit", "toggle"})
        => current = before

(* While nobody presses the profile button, a profile that was turned off  *)
(* is not the one in use, wherever the firmware moved on the write.        *)
OffIsNotInUse ==
    cmd.kind = "toggle" /\ outcome = "ok" /\ ~cmd.enabled /\ ~pressed
        => current # cmd.profile

(* What holds of the mouse between any two steps: a profile turned off by  *)
(* set_profile_enabled is not left in use.                                 *)
Consistent == TypeOK /\ OffIsNotInUse

(* What load_written reports, that the change applies now or when the      *)
(* profile is activated, is what the mouse does.                           *)
ReportIsTrue == NowMeansLoaded /\ WhenActivatedIsTrue
=============================================================================
