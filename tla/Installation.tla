----------------------------- MODULE Installation ---------------------------
(***************************************************************************)
(* How Omalogi gets onto a user's system and off it again: install.sh      *)
(* (the helper and its udev rule), `omalogi setup' (src/src/setup.rs: the  *)
(* plugin's files, the bar, the daemon) and uninstall.sh.  They change     *)
(* files one by one, can fail or be killed between any two, and are then   *)
(* run again; the shell keeps the overlay it has loaded; the user, the     *)
(* plugin manager and the package manager change the same things.          *)
(*                                                                         *)
(* One script runs at a time, on an Omarchy system.  A release is its      *)
(* number, and so are its helper, its rule and each of its files.          *)
(***************************************************************************)
EXTENDS Naturals, Sequences, FiniteSets

CONSTANTS
    Release,
    Broken,         \* a helper that was half written
    PluginFiles,    \* PLUGIN_FILES: their names, in order
    MaxFaults,      \* bound: failed steps and kills
    MaxOthers       \* bound: changes by the user, the shell and the package managers

None == 0
PluginFile == {PluginFiles[i] : i \in DOMAIN PluginFiles}
Manifest == "manifest.json"         \* read fresh by the shell
Code == "plugin/Model.js"           \* says which version it is
Uninstaller == "uninstall.sh"

ASSUME ReleaseAssumption == Release \subseteq Nat \ {0} /\ Broken \notin Release \cup {None}
ASSUME FilesAssumption == PluginFiles \in Seq(PluginFile) /\ {Manifest, Code, Uninstaller} \subseteq PluginFile
ASSUME DistinctAssumption ==
    \A i, j \in DOMAIN PluginFiles : PluginFiles[i] = PluginFiles[j] => i = j
ASSUME BoundsAssumption == {MaxFaults, MaxOthers} \subseteq Nat

VARIABLES
    helper,         \* ~/.local/bin/omalogi
    packaged,       \* the package: /usr/bin/omalogi, its unit and its rule
    dir,            \* the plugin's folder
    shell,          \* what the running shell found and loaded of it
    bar,            \* Omalogi in shell.json: "off", "listed" as a plugin, "on" the bar
    unit,           \* the user's own systemd unit is there
    daemon,         \* whether it is enabled, and the helper it runs (Broken: tried again)
    rule,           \* the udev rule in /etc
    inForce,        \* the rule the mouse's node was last set up by
    script,         \* the script that runs
    left,           \* history: what runs left to do, "rescan" or "udev"
    mixed,          \* history: the shell loaded files of two versions
    faults, others

vars == <<helper, packaged, dir, shell, bar, unit, daemon, rule, inForce, script, left, mixed,
          faults, others>>

Whole(v) == [f \in PluginFile |-> v]
NotLoaded == Whole(None)

Idle == [at |-> "idle", of |-> "setup", by |-> None, i |-> 1, changed |-> FALSE,
         existed |-> FALSE, withBar |-> FALSE, withDaemon |-> FALSE, todo |-> {}, plan |-> {}, did |-> {},
         ran |-> FALSE, failed |-> FALSE, warned |-> FALSE, disturbed |-> FALSE]

Step == {"plugin", "bar", "unit", "daemon"}
Removal == {"daemon", "unit", "binary", "rule", "plugin"}
Script ==
    [at : {"idle", "download", "binary", "rule", "udev", "ask", "plugin", "rescan", "bar", "put",
           "daemon", "reload", "enable", "restart", "access", "remove", "done"},
     of : {"install", "setup", "uninstall"},
     by : Release \cup {None},          \* the release it installs, or the helper that runs it
     i : 1..Len(PluginFiles), changed : BOOLEAN, existed : BOOLEAN,
     withBar : BOOLEAN, withDaemon : BOOLEAN,
     todo : SUBSET Removal,             \* what uninstall.sh still removes
     plan : SUBSET Step, did : SUBSET Step,
     ran : BOOLEAN, failed : BOOLEAN, warned : BOOLEAN, disturbed : BOOLEAN]

TypeOK ==
    /\ helper \in Release \cup {None, Broken} /\ packaged \in Release \cup {None}
    /\ dir \in [kind : {"none", "files", "git"}, file : [PluginFile -> Release \cup {None}]]
    /\ dir.kind = "none" <=> dir.file = NotLoaded
    /\ shell \in [knows : BOOLEAN, runs : [PluginFile -> Release \cup {None}]]
    /\ bar \in {"off", "listed", "on", "unreadable"} /\ unit \in BOOLEAN
    /\ daemon \in [enabled : BOOLEAN, runs : Release \cup {None, Broken}]
    /\ {rule, inForce} \subseteq Release \cup {None}
    /\ script \in Script
    /\ left \subseteq {"rescan", "udev"} /\ mixed \in BOOLEAN
    /\ faults \in 0..MaxFaults /\ others \in 0..MaxOthers

Init ==
    /\ helper = None /\ packaged \in Release \cup {None}
    /\ dir = [kind |-> "none", file |-> NotLoaded]
    /\ shell = [knows |-> FALSE, runs |-> NotLoaded]
    /\ bar = "off" /\ unit = FALSE /\ daemon = [enabled |-> FALSE, runs |-> None]
    /\ rule = None /\ inForce = packaged
    /\ script = Idle /\ left = {} /\ mixed = FALSE
    /\ faults = 0 /\ others = 0

system == <<helper, dir, shell, bar, unit, daemon, rule, inForce>>
rest   == <<packaged, mixed, others>>

At(step) == script.at = step
Go(s) == script' = s
To(step) == Go([script EXCEPT !.at = step])
NoFault == UNCHANGED <<faults, left>>

Effective == IF rule # None THEN rule ELSE packaged
UnitHelper == IF unit THEN helper ELSE packaged

-----------------------------------------------------------------------------
(* `omalogi setup', by a helper of release `by'. *)
Outdated(by) == dir.kind # "git" /\ dir.file # Whole(by)

StartSetup(s, by, withBar, withDaemon) ==
    Go([s EXCEPT !.at = "plugin", !.by = by, !.i = 1, !.existed = dir.kind # "none",
                 !.withBar = withBar, !.withDaemon = withDaemon])

(* From a terminal, by whichever helper the user has. *)
Setup ==
    /\ At("idle")
    /\ \E by \in {helper, packaged} \cap Release, withBar, withDaemon \in BOOLEAN :
          StartSetup(Idle, by, withBar, withDaemon)
    /\ NoFault /\ UNCHANGED <<system, rest>>

(* Faulty variant: the folder is not made. *)
WriteFile_NoFolder ==
    dir' = [dir EXCEPT !.file[PluginFiles[script.i]] = script.by]

WriteFile ==
    LET f == PluginFiles[script.i]
    IN  dir' = [kind |-> IF dir.kind = "git" THEN "git" ELSE "files",
                file |-> [dir.file EXCEPT ![f] = script.by]]
Last == script.i = Len(PluginFiles)

(* Faulty variant: a folder that is there is taken to be current. *)
PluginStep_Existing ==
    /\ At("plugin")
    /\ IF script.existed /\ script.i = 1 THEN To("bar") /\ UNCHANGED dir
       ELSE /\ WriteFile
            /\ Go([script EXCEPT !.did = @ \cup {"plugin"}, !.i = IF Last THEN 1 ELSE @ + 1,
                                 !.at = IF Last THEN "rescan" ELSE "plugin"])
    /\ NoFault /\ UNCHANGED <<helper, shell, bar, unit, daemon, rule, inForce, rest>>

(* Faulty variant: a new folder is left to be found. *)
PluginStep_NotFound ==
    /\ At("plugin")
    /\ IF script.i = 1 /\ dir.kind = "git" THEN To("bar") /\ UNCHANGED dir
       ELSE /\ WriteFile
            /\ Go([script EXCEPT !.did = @ \cup {"plugin"}, !.i = IF Last THEN 1 ELSE @ + 1,
                                 !.at = IF Last THEN "bar" ELSE "plugin"])
    /\ NoFault /\ UNCHANGED <<helper, shell, bar, unit, daemon, rule, inForce, rest>>

(* plugin_step: each file that differs is written under another name and   *)
(* renamed; a checkout is left to the plugin manager.  For new files in a  *)
(* folder that was there the user is told to restart the shell.            *)
PluginStep ==
    /\ At("plugin") /\ UNCHANGED faults
    /\ IF script.i = 1 /\ dir.kind = "git" THEN To("bar") /\ UNCHANGED <<dir, left>>
       ELSE LET differs == dir.file[PluginFiles[script.i]] # script.by
                changed == script.changed \/ differs
                told == Last /\ changed /\ script.existed
            IN  /\ IF differs THEN WriteFile ELSE UNCHANGED dir
                /\ left' = IF told /\ ~shell.knows THEN left \cup {"rescan"} ELSE left
                /\ Go([script EXCEPT
                         !.changed = changed, !.did = IF changed THEN @ \cup {"plugin"} ELSE @,
                         !.i = IF Last THEN 1 ELSE @ + 1, !.warned = told,
                         !.at = IF ~Last THEN "plugin"
                                ELSE IF changed /\ ~script.existed THEN "rescan" ELSE "bar"])
    /\ UNCHANGED <<helper, shell, bar, unit, daemon, rule, inForce, rest>>

Rescan ==
    /\ At("rescan")
    /\ shell' = [shell EXCEPT !.knows = TRUE]
    /\ left' = left \ {"rescan"}
    /\ To("bar")
    /\ UNCHANGED faults /\ UNCHANGED <<helper, dir, bar, unit, daemon, rule, inForce, rest>>

Failed(s, step) == [s EXCEPT !.failed = TRUE, !.at = step]

(* Faulty variant: a widget that is listed as a plugin is just placed. *)
BarStep_Put ==
    /\ At("bar")
    /\ IF ~script.withBar \/ bar = "on" THEN To("daemon") /\ UNCHANGED bar
       ELSE IF bar = "unreadable" THEN Go(Failed(script, "daemon")) /\ UNCHANGED bar
       ELSE To("put") /\ UNCHANGED bar
    /\ NoFault /\ UNCHANGED <<helper, dir, shell, unit, daemon, rule, inForce, rest>>

(* bar_step: what is listed as a plugin is disabled before it is placed. *)
BarStep ==
    /\ At("bar")
    /\ IF ~script.withBar \/ bar = "on" THEN To("daemon") /\ UNCHANGED bar
       ELSE IF bar = "unreadable" THEN Go(Failed(script, "daemon")) /\ UNCHANGED bar
       ELSE To("put") /\ bar' = "off"
    /\ NoFault /\ UNCHANGED <<helper, dir, shell, unit, daemon, rule, inForce, rest>>

(* `omarchy bar put' answers "ok" without placing a listed plugin. *)
BarPut ==
    /\ At("put")
    /\ bar' = IF bar = "off" THEN "on" ELSE bar
    /\ Go([script EXCEPT !.at = "daemon", !.did = @ \cup {"bar"}])
    /\ NoFault /\ UNCHANGED <<helper, dir, shell, unit, daemon, rule, inForce, rest>>

(* daemon_step: a unit is written only when there is none. *)
DaemonStep ==
    /\ At("daemon")
    /\ IF ~script.withDaemon THEN To("access") /\ UNCHANGED unit
       ELSE IF unit \/ packaged # None THEN To("enable") /\ UNCHANGED unit
       ELSE unit' = TRUE /\ Go([script EXCEPT !.at = "reload", !.did = @ \cup {"unit"}])
    /\ NoFault /\ UNCHANGED <<helper, dir, shell, bar, daemon, rule, inForce, rest>>

Reload ==
    /\ At("reload") /\ To("enable")
    /\ NoFault /\ UNCHANGED <<system, rest>>

EnableDaemon ==
    /\ At("enable")
    /\ daemon' = [daemon EXCEPT !.enabled = TRUE]
    /\ Go([script EXCEPT !.at = "restart", !.did = @ \cup {"daemon"}])
    /\ NoFault /\ UNCHANGED <<helper, dir, shell, bar, unit, rule, inForce, rest>>

Started == IF UnitHelper \in Release THEN UnitHelper ELSE Broken

(* Faulty variant: a daemon that runs is left running. *)
RestartDaemon_Start ==
    /\ At("restart")
    /\ daemon' = [daemon EXCEPT !.runs = IF @ = None THEN Started ELSE @]
    /\ To("access")
    /\ NoFault /\ UNCHANGED <<helper, dir, shell, bar, unit, rule, inForce, rest>>

(* systemctl succeeds whether or not there is a helper to run. *)
RestartDaemon ==
    /\ At("restart")
    /\ daemon' = [daemon EXCEPT !.runs = Started]
    /\ To("access")
    /\ NoFault /\ UNCHANGED <<helper, dir, shell, bar, unit, rule, inForce, rest>>

(* systemd starts a daemon that failed again. *)
Respawn ==
    /\ daemon.runs = Broken /\ UnitHelper \in Release
    /\ daemon' = [daemon EXCEPT !.runs = UnitHelper]
    /\ NoFault /\ UNCHANGED <<script, helper, dir, shell, bar, unit, rule, inForce, rest>>

(* Whether the mouse can be reached is only reported. *)
AccessStep ==
    /\ At("access")
    /\ Go([script EXCEPT !.at = "done", !.ran = TRUE])
    /\ NoFault /\ UNCHANGED <<system, rest>>

(* Faulty variant: the plan leaves out the unit. *)
Planned_NoUnit(by) ==
    {s \in {"plugin", "bar", "daemon"} :
        \/ s = "plugin" /\ Outdated(by)
        \/ s = "bar" /\ bar \in {"off", "listed"}
        \/ s = "daemon"}

(* What a dry run says it would do. *)
Planned(by) ==
    {s \in Step :
        \/ s = "plugin" /\ Outdated(by)
        \/ s = "bar" /\ bar \in {"off", "listed"}
        \/ s = "unit" /\ ~unit /\ packaged = None
        \/ s = "daemon"}

-----------------------------------------------------------------------------
(* install.sh. *)
Install(v) ==
    /\ At("idle")
    /\ Go([Idle EXCEPT !.at = "download", !.of = "install", !.by = v])
    /\ NoFault /\ UNCHANGED <<system, rest>>

(* Nothing is installed before the archive matches its checksum. *)
Download ==
    /\ At("download") /\ To("binary")
    /\ NoFault /\ UNCHANGED <<system, rest>>

InstallBinary ==
    /\ At("binary")
    /\ helper' = script.by
    /\ To("rule")
    /\ NoFault /\ UNCHANGED <<dir, shell, bar, unit, daemon, rule, inForce, rest>>

(* Faulty variant: any rule is good enough. *)
InstallRule_Any ==
    /\ At("rule")
    /\ IF Effective # None THEN To("ask") /\ UNCHANGED rule
       ELSE rule' = script.by /\ To("udev")
    /\ NoFault /\ UNCHANGED <<helper, dir, shell, bar, unit, daemon, inForce, rest>>

(* A rule that is up to date is not installed again; sudo asks for the     *)
(* others. *)
InstallRule ==
    /\ At("rule")
    /\ IF rule = script.by \/ (rule = None /\ packaged = script.by) THEN To("ask") /\ UNCHANGED rule
       ELSE rule' = script.by /\ To("udev")
    /\ NoFault /\ UNCHANGED <<helper, dir, shell, bar, unit, daemon, inForce, rest>>

ReloadRules ==
    /\ At("udev")
    /\ inForce' = Effective
    /\ left' = left \ {"udev"}
    /\ To("ask")
    /\ UNCHANGED faults /\ UNCHANGED <<helper, dir, shell, bar, unit, daemon, rule, rest>>

(* The changes a dry run names are made only when the user agrees; one     *)
(* that fails ends the installer.                                          *)
Ask ==
    /\ At("ask")
    /\ \/ bar = "unreadable" /\ Go(Failed(script, "done"))
       \/ bar # "unreadable" /\ To("done")
       \/ bar # "unreadable" /\ StartSetup([script EXCEPT !.plan = Planned(script.by)], script.by, TRUE, TRUE)
    /\ NoFault /\ UNCHANGED <<system, rest>>

-----------------------------------------------------------------------------
(* uninstall.sh: what there is to remove, in its order, the plugin last:   *)
(* the script is one of its files.                                         *)
ToRemove ==
    {s \in Removal :
        \/ s = "daemon" /\ (daemon.enabled \/ daemon.runs \in Release)
        \/ s = "unit" /\ unit
        \/ s = "binary" /\ helper \in Release
        \/ s = "rule" /\ rule # None
        \/ s = "plugin" /\ dir.kind # "none"}

Place == [daemon |-> 1, unit |-> 2, binary |-> 3, rule |-> 4, plugin |-> 5]

(* Faulty variant: whatever is found next. *)
Removes_Any(s, todo) == s \in todo

Removes(s, todo) == s \in todo /\ \A t \in todo : Place[s] <= Place[t]

Uninstall ==
    /\ At("idle") /\ dir.file[Uninstaller] # None
    /\ Go([Idle EXCEPT !.at = "remove", !.of = "uninstall", !.todo = ToRemove])
    /\ NoFault /\ UNCHANGED <<system, rest>>

Gone(s) ==
    /\ daemon' = IF s = "daemon" THEN [enabled |-> FALSE, runs |-> None] ELSE daemon
    /\ unit' = (unit /\ s # "unit")
    /\ helper' = IF s = "binary" THEN None ELSE helper
    /\ rule' = IF s = "rule" THEN None ELSE rule
    /\ dir' = IF s = "plugin" THEN [kind |-> "none", file |-> NotLoaded] ELSE dir
    /\ shell' = IF s = "plugin" THEN [knows |-> FALSE, runs |-> NotLoaded] ELSE shell
    /\ bar' = IF s = "plugin" THEN "off" ELSE bar
    /\ left' = IF s = "plugin" THEN left \ {"rescan"}
               ELSE IF s = "rule" THEN left \cup {"udev"} ELSE left
    /\ mixed' = (mixed /\ s # "plugin")

Remove(s) ==
    /\ At("remove") /\ Removes(s, script.todo)
    /\ ~(s = "plugin" /\ bar = "unreadable")
    /\ Gone(s)
    /\ Go([script EXCEPT !.todo = @ \ {s}])
    /\ UNCHANGED <<inForce, packaged, faults, others>>

(* `omarchy plugin remove' edits shell.json. *)
RemoveRefused ==
    /\ At("remove") /\ Removes("plugin", script.todo) /\ bar = "unreadable"
    /\ Go(Failed(script, "done"))
    /\ NoFault /\ UNCHANGED <<system, rest>>

Uninstalled ==
    /\ At("remove") /\ script.todo = {}
    /\ To("done")
    /\ NoFault /\ UNCHANGED <<system, rest>>

Finish ==
    /\ At("done") /\ Go(Idle)
    /\ NoFault /\ UNCHANGED <<system, rest>>

-----------------------------------------------------------------------------
(* A step that fails: the shell scripts stop, `set -e'; setup stops when   *)
(* the plugin cannot be written and otherwise goes on with its next step.  *)
AfterFailure ==
    IF script.at \in {"download", "binary", "rule", "udev", "plugin", "remove"}
    THEN Failed(script, "done")
    ELSE IF At("rescan") THEN [script EXCEPT !.warned = TRUE, !.at = "bar"]
    ELSE IF script.at \in {"bar", "put"} THEN Failed(script, "daemon")
    ELSE Failed(script, "access")

CanFail ==
    \/ script.at \in {"download", "binary", "rule", "udev", "plugin", "rescan", "put", "reload",
                      "enable", "restart"}
    \/ At("bar") /\ script.withBar /\ bar = "listed"
    \/ At("daemon") /\ script.withDaemon /\ ~unit /\ packaged = None
    \/ At("remove") /\ script.todo # {}

LeftUndone == IF script.at \in {"rescan", "udev"} THEN left \cup {script.at} ELSE left

Stops(s) ==
    /\ faults < MaxFaults /\ faults' = faults + 1
    /\ Go(s)
    /\ helper' \in IF At("binary") THEN {helper, Broken} ELSE {helper}
    /\ left' = LeftUndone
    /\ UNCHANGED <<dir, shell, bar, unit, daemon, rule, inForce, rest>>

Fail == CanFail /\ Stops(AfterFailure)

(* A closed terminal, an interrupt, the machine turned off. *)
Kill == script.at \notin {"idle", "done"} /\ Stops(Idle)

-----------------------------------------------------------------------------
(* What others change, between two steps of a script or when none runs.    *)
Other ==
    /\ others < MaxOthers /\ others' = others + 1
    /\ Go([script EXCEPT !.disturbed = ~At("idle")])
    /\ UNCHANGED <<helper, faults>>

Manages == UNCHANGED <<unit, daemon, rule, inForce, packaged>>

(* `omarchy plugin add' and `omarchy plugin update'. *)
PluginAdd(v) ==
    /\ Other /\ dir.kind = "none" /\ bar # "unreadable"
    /\ dir' = [kind |-> "git", file |-> Whole(v)]
    /\ shell' = [shell EXCEPT !.knows = TRUE]
    /\ left' = left \ {"rescan"}
    /\ bar' \in {bar, "listed", "on"}
    /\ Manages /\ UNCHANGED mixed

PluginUpdate(v) ==
    /\ Other /\ dir.kind = "git" /\ dir.file = Whole(dir.file[Manifest])
    /\ dir' = [dir EXCEPT !.file = Whole(v)]
    /\ Manages /\ UNCHANGED <<shell, bar, left, mixed>>

(* The overlay is loaded when it is first opened, and kept. *)
OpenOverlay ==
    /\ Other
    /\ shell.knows /\ shell.runs = NotLoaded /\ dir.kind # "none" /\ bar \in {"listed", "on"}
    /\ shell' = [shell EXCEPT !.runs = dir.file]
    /\ mixed' = (dir.file # Whole(dir.file[Manifest]))
    /\ Manages /\ UNCHANGED <<dir, bar, left>>

RestartShell ==
    /\ Other
    /\ shell' = [knows |-> dir.kind # "none", runs |-> NotLoaded]
    /\ left' = left \ {"rescan"} /\ mixed' = FALSE
    /\ Manages /\ UNCHANGED <<dir, bar>>

(* shell.json is the user's to edit. *)
EditBar ==
    /\ Other
    /\ bar' \in {"off", "listed", "on", "unreadable"}
    /\ Manages /\ UNCHANGED <<dir, shell, left, mixed>>

(* A package's install script applies its rule to a mouse that is there. *)
InstallPackage(v) ==
    /\ Other
    /\ packaged' = v
    /\ inForce' = IF rule # None THEN rule ELSE v
    /\ left' = left \ {"udev"}
    /\ UNCHANGED <<dir, shell, bar, unit, daemon, rule, mixed>>

Replug ==
    /\ Other
    /\ inForce' = Effective /\ left' = left \ {"udev"}
    /\ UNCHANGED <<dir, shell, bar, unit, daemon, rule, packaged, mixed>>

-----------------------------------------------------------------------------
(* Faulty variant: the version on disk is compared with itself. *)
Stale_OnDisk == dir.file[Code] # dir.file[Manifest]

(* Whether the overlay that runs tells that the files are newer. *)
Stale == shell.runs # NotLoaded /\ dir.file[Manifest] # None /\ shell.runs[Code] # dir.file[Manifest]

Scripts ==
    \/ Setup \/ PluginStep \/ Rescan \/ BarStep \/ BarPut \/ DaemonStep \/ Reload
    \/ EnableDaemon \/ RestartDaemon \/ AccessStep
    \/ \E v \in Release : Install(v)
    \/ Download \/ InstallBinary \/ InstallRule \/ ReloadRules \/ Ask
    \/ Uninstall \/ RemoveRefused \/ Uninstalled \/ Finish
    \/ \E s \in Removal : Remove(s)

Others ==
    \/ \E v \in Release : PluginAdd(v) \/ PluginUpdate(v) \/ InstallPackage(v)
    \/ OpenOverlay \/ RestartShell \/ EditBar \/ Replug \/ Respawn

Next == Scripts \/ Fail \/ Kill \/ Others

Spec == Init /\ [][Next]_vars

-----------------------------------------------------------------------------
(* A setup that ran to its end, nothing failing and nobody interfering. *)
SetUp == At("done") /\ script.ran /\ ~script.failed /\ ~script.disturbed

(* A setup that reports no failure made all it is for true, whatever       *)
(* earlier runs left half done: each file is its helper's, unless the      *)
(* plugin manager keeps them; the indicator is on the bar; the daemon is   *)
(* enabled and runs the helper its unit names.                             *)
SetupTakesEffect ==
    SetUp =>
        /\ dir.kind = "git" \/ dir.file = Whole(script.by)
        /\ script.withBar => bar = "on"
        /\ script.withDaemon => daemon = [enabled |-> TRUE, runs |-> Started]

(* After such a setup the shell has found the plugin, unless a run before  *)
(* it ended between the last file and the rescan, or told the user to      *)
(* restart the shell: later runs find the files in place and do not say so *)
(* again.                                                                  *)
ShellFindsPlugin == SetUp => shell.knows \/ "rescan" \in left

(* After such a setup, a shell that runs other files than those installed  *)
(* is noticed: by the setup or by the overlay itself, even when the files  *)
(* were replaced by a run that was killed before it could say so.          *)
UpdateIsNoticed ==
    SetUp /\ shell.runs # NotLoaded /\ shell.runs # dir.file
        => script.warned \/ Stale \/ mixed

(* When the installer has ended, the mouse is under this release's rule,   *)
(* unless a run before it ended between the copy and the trigger, or an    *)
(* uninstall removed a rule and left the package's to the next replug: a   *)
(* rule that is there is then taken to be up to date.                      *)
RuleInForce ==
    At("done") /\ script.of = "install" /\ ~script.failed /\ ~script.disturbed
        => inForce = script.by \/ "udev" \in left

(* What the installer's setup changes is what the dry run named before the *)
(* user agreed, and all of it unless a step failed.                        *)
PlanIsKept ==
    script.of = "install" /\ ~script.disturbed =>
        /\ script.did \subseteq script.plan
        /\ At("done") /\ ~script.failed => script.did = script.plan

(* An uninstall that fails can be run again: the plugin, whose folder      *)
(* holds the script, goes when nothing else is left.                       *)
UninstallerGoesLast ==
    [][dir.kind # "none" /\ dir'.kind = "none" /\ ~script.disturbed =>
         /\ helper \notin Release /\ ~unit /\ rule = None
         /\ daemon = [enabled |-> FALSE, runs |-> None]]_vars

(* What install.sh has setup change is what its dry run showed.            *)
Consistent == TypeOK /\ PlanIsKept

(* What setup and the installer report as done is so, on whatever earlier  *)
(* runs left (setup.rs, install.sh).                                       *)
DoneIsDone == SetupTakesEffect /\ RuleInForce

(* The running shell has found the plugin setup wrote, and one that runs   *)
(* another version is noticed (setup.rs, plugin_step; Model.js, staleShell). *)
ShellIsCurrent == ShellFindsPlugin /\ UpdateIsNoticed
=============================================================================
