------------------------- MODULE InstallationProofs -------------------------
(***************************************************************************)
(* What setup and the installer report as done is so, what they change is  *)
(* what was planned, the running shell learns of it, and the uninstaller   *)
(* removes its own folder last: for every list of plugin files, every set  *)
(* of releases and any number of failures, kills and changes by others.    *)
(***************************************************************************)
EXTENDS Installation, TLAPS

(* What the steps rely on besides: the fields of a script's state, and     *)
(* which of them are set where. *)
Types ==
    /\ dir \in [kind : {"none", "files", "git"}, file : [PluginFile -> Release \cup {None}]]
    /\ daemon = [enabled |-> daemon.enabled, runs |-> daemon.runs]
    /\ daemon.enabled \in BOOLEAN
    /\ daemon.runs # None \/ At("restart") => daemon.enabled
    /\ daemon.runs \in Release \cup {None, Broken}
    /\ script = [f \in DOMAIN Idle |-> script[f]]
    /\ script.i \in 1..Len(PluginFiles)
    /\ script.todo \subseteq Removal
    /\ script.at \in {"download", "binary", "rule", "udev", "ask"} => script.of = "install"
    /\ script.of = "install" \/ At("plugin") => script.by \in Release
    /\ At("idle") \/ At("remove") => script.of # "install"
    /\ script.ran => At("done")

Undisturbed == ~script.failed /\ ~script.disturbed

(* The mouse is under the rule that is there, or a trigger is due. *)
ForceInv == inForce = Effective \/ "udev" \in left \/ At("udev")

(* Once the installer is past the rule, it is this release's. *)
RuleInv ==
    script.of = "install" /\ Undisturbed /\ script.at \notin {"download", "binary", "rule"}
        => Effective = script.by

Written(n) == dir.kind = "git" \/ \A k \in 1..n : dir.file[PluginFiles[k]] = script.by

(* The steps of setup, each of which leaves alone what those before it     *)
(* did. *)
Finished == At("done") /\ script.ran
PluginInv ==
    Undisturbed =>
        /\ At("plugin") => Written(script.i - 1)
        /\ script.at \in {"rescan", "bar", "put", "daemon", "reload", "enable", "restart", "access"}
           \/ Finished => Written(Len(PluginFiles))
BarInv ==
    Undisturbed =>
        /\ At("put") => bar = "off"
        /\ script.at \in {"daemon", "reload", "enable", "restart", "access"} \/ Finished
              => (script.withBar => bar = "on")
DaemonInv ==
    Undisturbed /\ (At("access") \/ Finished) /\ script.withDaemon
        => daemon = [enabled |-> TRUE, runs |-> Started]

(* What is not on the uninstaller's list is not there. *)
RemoveInv ==
    At("remove") /\ ~script.disturbed =>
        /\ "daemon" \notin script.todo => daemon = [enabled |-> FALSE, runs |-> None]
        /\ "unit" \notin script.todo => ~unit
        /\ "binary" \notin script.todo => helper \notin Release
        /\ "rule" \notin script.todo => rule = None

IInv == Types /\ ForceInv /\ RuleInv /\ PluginInv /\ BarInv /\ DaemonInv /\ RemoveInv

-----------------------------------------------------------------------------
(* There is a first plugin file. *)
LEMMA FilesListed ==
    Len(PluginFiles) \in Nat \ {0} /\ DOMAIN PluginFiles = 1..Len(PluginFiles)
BY FilesAssumption DEF PluginFile

(* A system Omalogi was never installed on. *)
LEMMA InitKeeps == Init => IInv
<1> SUFFICES ASSUME Init PROVE IInv
    OBVIOUS
<1> USE DEF Init, Idle, NotLoaded, Whole, None, At, Finished
<1>1. Types
      BY FilesListed DEF Types
<1>2. ForceInv /\ RuleInv
      BY DEF ForceInv, RuleInv, Effective
<1>3. PluginInv /\ BarInv /\ DaemonInv /\ RemoveInv
      BY DEF PluginInv, BarInv, DaemonInv, RemoveInv
<1> QED BY <1>1, <1>2, <1>3 DEF IInv

-----------------------------------------------------------------------------
(* The steps of setup. *)

(* Setup starts before its first file. *)
LEMMA SetupKeeps == ASSUME IInv, Setup PROVE IInv'
<1> USE DEF Idle
<1>1. PICK by \in Release, withBar, withDaemon \in BOOLEAN :
          script' = [Idle EXCEPT !.at = "plugin", !.by = by, !.i = 1, !.existed = dir.kind # "none",
                                 !.withBar = withBar, !.withDaemon = withDaemon]
      BY DEF Setup, StartSetup, Go
<1>2. /\ At("idle") /\ script'.at = "plugin" /\ script'.of = "setup" /\ script'.by \in Release
      /\ script'.i = 1 /\ script'.todo = {} /\ script'.ran = FALSE
      BY <1>1 DEF Setup
<1>3. script' = [f \in DOMAIN Idle |-> script'[f]]
      BY <1>1
<1>4. UNCHANGED <<helper, packaged, dir, bar, unit, daemon, rule, inForce, left>>
      BY DEF Setup, NoFault, system, rest
<1> USE DEF IInv, Types, At, Finished
<1>5. Types' /\ ForceInv' /\ RuleInv'
      BY <1>2, <1>3, <1>4, FilesListed DEF ForceInv, RuleInv, Effective
<1>6. PluginInv' /\ BarInv'
      BY <1>2, <1>4 DEF PluginInv, BarInv, Written
<1>7. DaemonInv' /\ RemoveInv'
      BY <1>2 DEF DaemonInv, RemoveInv
<1> QED BY <1>5, <1>6, <1>7

(* One file more is its helper's, and the last one completes them. *)
LEMMA PluginStepKeeps == ASSUME IInv, PluginStep PROVE IInv'
<1> USE DEF IInv
<1> DEFINE f == PluginFiles[script.i]
<1>1. /\ At("plugin") /\ script.i \in 1..Len(PluginFiles) /\ script.by \in Release
      /\ f \in PluginFile
      /\ UNCHANGED <<helper, bar, unit, daemon, rule, inForce, packaged>>
      /\ left \subseteq left'
      BY FilesListed DEF PluginStep, Types, rest, PluginFile
<1>2. /\ script' = [g \in DOMAIN Idle |-> script'[g]]
      /\ script'.at \in {"plugin", "rescan", "bar"}
      /\ script'.of = script.of /\ script'.by = script.by
      /\ script'.ran = script.ran /\ script'.todo = script.todo
      /\ script'.disturbed = script.disturbed /\ script'.failed = script.failed
      BY DEF PluginStep, Types, To, Go, Idle
<1>3. /\ script'.i \in 1..Len(PluginFiles)
      /\ \/ dir.kind = "git" /\ script'.at = "bar" /\ dir' = dir
         \/ Last /\ script'.at # "plugin"
         \/ ~Last /\ script'.at = "plugin" /\ script'.i = script.i + 1
  <2>1. CASE script.i = 1 /\ dir.kind = "git"
    <3>1. To("bar") /\ dir' = dir
          BY <2>1 DEF PluginStep
    <3>2. script'.at = "bar" /\ script'.i = script.i
          BY <3>1 DEF Types, To, Go, Idle
    <3> QED BY <1>1, <2>1, <3>1, <3>2
  <2>2. CASE ~(script.i = 1 /\ dir.kind = "git")
    <3>1. /\ script'.i = IF Last THEN 1 ELSE script.i + 1
          /\ script'.at = "plugin" <=> ~Last
          BY <2>2 DEF PluginStep, Types, Go, Idle
    <3> QED BY <1>1, <3>1, FilesListed DEF Last
  <2> QED BY <2>1, <2>2
<1>4. /\ dir' \in [kind : {"none", "files", "git"}, file : [PluginFile -> Release \cup {None}]]
      /\ dir'.kind = "git" <=> dir.kind = "git"
      BY <1>1 DEF PluginStep, Types, WriteFile
<1>5. \/ dir.kind = "git"
      \/ \A g \in PluginFile : dir'.file[g] = IF g = f THEN script.by ELSE dir.file[g]
      BY <1>1 DEF PluginStep, Types, WriteFile
<1>6. Types'
      BY <1>1, <1>2, <1>3, <1>4 DEF Types, At
<1>7. ForceInv' /\ RuleInv'
      BY <1>1, <1>2 DEF ForceInv, RuleInv, At, Effective, Undisturbed
<1>8. PluginInv'
  <2>1. SUFFICES ASSUME Undisturbed PROVE PluginInv'
        BY <1>2 DEF PluginInv, Undisturbed
  <2>2. Written(script.i - 1)
        BY <1>1, <2>1 DEF PluginInv
  <2>3. dir'.kind = "git" \/ (\A k \in 1..script.i : dir'.file[PluginFiles[k]] = script'.by)
    <3>1. \A k \in 1..script.i : PluginFiles[k] \in PluginFile
          BY <1>1, FilesListed DEF PluginFile
    <3>2. \A k \in 1..script.i : k = script.i \/ k \in 1..(script.i - 1)
          BY <1>1, FilesListed
    <3> QED BY <1>2, <1>4, <1>5, <2>2, <3>1, <3>2 DEF Written
  <2> QED BY <1>1, <1>2, <1>3, <1>4, <2>3, FilesListed DEF PluginInv, At, Finished, Written, Last
<1>9. BarInv' /\ DaemonInv' /\ RemoveInv'
      BY <1>1, <1>2 DEF BarInv, DaemonInv, RemoveInv, At, Finished, Types
<1> QED BY <1>6, <1>7, <1>8, <1>9

(* install.sh starts from nothing. *)
LEMMA InstallKeeps == ASSUME IInv, NEW v \in Release, Install(v) PROVE IInv'
<1> USE DEF Idle
<1>1. /\ At("idle") /\ script'.at = "download" /\ script'.of = "install" /\ script'.by = v
      /\ script'.i = 1 /\ script'.todo = {} /\ script'.ran = FALSE
      /\ script' = [f \in DOMAIN Idle |-> script'[f]]
      BY DEF Install, Go
<1>2. UNCHANGED <<helper, packaged, dir, bar, unit, daemon, rule, inForce, left>>
      BY DEF Install, NoFault, system, rest
<1> USE DEF IInv, Types, At, Finished
<1>3. Types'
      BY <1>1, <1>2, FilesListed
<1>4. ForceInv' /\ RuleInv' /\ PluginInv' /\ BarInv' /\ DaemonInv' /\ RemoveInv'
      BY <1>1, <1>2 DEF ForceInv, RuleInv, Effective, PluginInv, BarInv, DaemonInv, RemoveInv
<1> QED BY <1>3, <1>4

(* The installer leaves the rest to setup, or ends. *)
LEMMA AskKeeps == ASSUME IInv, Ask PROVE IInv'
<1> USE DEF IInv
<1>1. At("ask") /\ UNCHANGED <<helper, packaged, dir, bar, unit, daemon, rule, inForce, left>>
      BY DEF Ask, NoFault, system, rest
<1>2. script.of = "install" /\ script.by \in Release /\ ~script.ran
      BY <1>1 DEF Types, At
<1>3. /\ script' = [f \in DOMAIN Idle |-> script'[f]]
      /\ script'.at \in {"done", "plugin"} /\ script'.i \in {1, script.i}
      /\ script'.of = script.of /\ script'.by = script.by /\ script'.todo = script.todo
      /\ script'.ran = script.ran /\ script'.disturbed = script.disturbed
      /\ script'.failed = script.failed \/ (script'.failed = TRUE /\ script'.at = "done")
      /\ script'.at = "plugin" => script'.i = 1
  <2>1. CASE Go(Failed(script, "done"))
        BY <2>1 DEF Types, Failed, Go, Idle
  <2>2. CASE To("done")
        BY <2>2 DEF Types, To, Go, Idle
  <2>3. CASE StartSetup([script EXCEPT !.plan = Planned(script.by)], script.by, TRUE, TRUE)
        BY <2>3 DEF Types, StartSetup, Go, Idle
  <2> QED BY <2>1, <2>2, <2>3 DEF Ask
<1>4. Types'
  <2>1. script'.i \in 1..Len(PluginFiles)
        BY <1>3, FilesListed DEF Types
  <2>2. script'.by \in Release /\ script'.todo \subseteq Removal /\ ~script'.ran
        BY <1>2, <1>3 DEF Types
  <2> QED BY <1>1, <1>2, <1>3, <2>1, <2>2 DEF Types, At
<1>5. ForceInv' /\ RuleInv'
      BY <1>1, <1>3 DEF ForceInv, RuleInv, At, Effective, Undisturbed
<1>6. PluginInv' /\ BarInv' /\ DaemonInv' /\ RemoveInv'
      BY <1>1, <1>2, <1>3 DEF PluginInv, BarInv, DaemonInv, RemoveInv, At, Finished, Undisturbed,
                              Written
<1> QED BY <1>4, <1>5, <1>6

(* What is not on the list is not there when the list is made. *)
LEMMA UninstallKeeps == ASSUME IInv, Uninstall PROVE IInv'
<1> USE DEF IInv
<1>1. At("idle") /\ UNCHANGED <<helper, packaged, dir, bar, unit, daemon, rule, inForce, left>>
      BY DEF Uninstall, NoFault, system, rest
<1>2. /\ script' = [f \in DOMAIN Idle |-> script'[f]]
      /\ script'.at = "remove" /\ script'.of = "uninstall" /\ script'.i = 1
      /\ script'.todo = ToRemove /\ script'.ran = FALSE
      BY DEF Uninstall, Go, Idle
<1>3. ToRemove \subseteq Removal
      BY DEF ToRemove
<1>4. Types' /\ ForceInv' /\ RuleInv'
      BY <1>1, <1>2, <1>3, FilesListed DEF Types, ForceInv, RuleInv, At, Effective
<1>5. PluginInv' /\ BarInv' /\ DaemonInv'
      BY <1>2 DEF PluginInv, BarInv, DaemonInv, At, Finished
<1>6. RemoveInv'
  <2>1. "daemon" \notin ToRemove => daemon = [enabled |-> FALSE, runs |-> None]
        BY DEF ToRemove, Removal, Types
  <2> QED BY <1>1, <1>2, <2>1 DEF RemoveInv, ToRemove, Removal
<1> QED BY <1>4, <1>5, <1>6

(* The daemon runs what its unit names, and was enabled before. *)
LEMMA RestartDaemonKeeps == ASSUME IInv, RestartDaemon PROVE IInv'
<1> USE DEF IInv
<1>1. /\ At("restart") /\ script' = [script EXCEPT !.at = "access"]
      /\ UNCHANGED <<helper, dir, bar, unit, rule, inForce, packaged, left>>
      BY DEF RestartDaemon, To, Go, NoFault, rest
<1>2. Started \in Release \cup {Broken} /\ Started' = Started
      BY <1>1 DEF Started, UnitHelper
<1>3. daemon' = [enabled |-> TRUE, runs |-> Started]
      BY <1>1 DEF RestartDaemon, Types
<1>4. Types' /\ ForceInv' /\ RuleInv'
      BY <1>1, <1>2, <1>3 DEF Types, ForceInv, RuleInv, At, Effective, Undisturbed, Idle
<1>5. PluginInv' /\ BarInv'
      BY <1>1 DEF Types, PluginInv, BarInv, At, Finished, Undisturbed, Written, Idle
<1>6. DaemonInv' /\ RemoveInv'
      BY <1>1, <1>2, <1>3 DEF Types, DaemonInv, RemoveInv, At, Idle
<1> QED BY <1>4, <1>5, <1>6

(* The rule is this release's, or becomes it and waits for the trigger. *)
LEMMA InstallRuleKeeps == ASSUME IInv, InstallRule PROVE IInv'
<1> USE DEF IInv
<1>1. At("rule") /\ UNCHANGED <<helper, dir, bar, unit, daemon, inForce, packaged, left>>
      BY DEF InstallRule, NoFault, rest
<1>2. script.by \in Release /\ script.of = "install" /\ ~script.ran
      BY <1>1 DEF Types, At
<1>3. \/ script' = [script EXCEPT !.at = "ask"] /\ rule' = rule /\ Effective = script.by
      \/ script' = [script EXCEPT !.at = "udev"] /\ rule' = script.by
      BY <1>2, ReleaseAssumption DEF InstallRule, To, Go, Effective, None
<1>4. Types'
      BY <1>1, <1>2, <1>3 DEF Types, At, Idle
<1>5. ForceInv'
      BY <1>1, <1>3 DEF Types, ForceInv, At, Effective, Idle
<1>6. RuleInv'
      BY <1>1, <1>2, <1>3, ReleaseAssumption DEF Types, RuleInv, At, Effective, Idle, None
<1>7. PluginInv' /\ BarInv' /\ DaemonInv' /\ RemoveInv'
      BY <1>1, <1>2, <1>3 DEF Types, PluginInv, BarInv, DaemonInv, RemoveInv, At, Finished, Idle
<1> QED BY <1>4, <1>5, <1>6, <1>7

(* The indicator is on the bar, or is about to be put there, or a step     *)
(* failed. *)
LEMMA BarStepKeeps == ASSUME IInv, BarStep PROVE IInv'
<1> USE DEF IInv
<1>1. At("bar") /\ UNCHANGED <<helper, dir, unit, daemon, rule, inForce, packaged, left>>
      BY DEF BarStep, NoFault, rest
<1>2. \/ script' = [script EXCEPT !.at = "daemon"] /\ bar' = bar /\ (script.withBar => bar = "on")
      \/ script' = [script EXCEPT !.failed = TRUE, !.at = "daemon"]
      \/ script' = [script EXCEPT !.at = "put"] /\ bar' = "off"
      BY DEF BarStep, To, Go, Failed
<1> USE DEF Types, At, Finished, Undisturbed, Idle
<1>3. CASE script' = [script EXCEPT !.at = "daemon"] /\ bar' = bar /\ (script.withBar => bar = "on")
  <2>1. Types' /\ ForceInv' /\ RuleInv'
        BY <1>1, <1>3 DEF ForceInv, RuleInv, Effective
  <2>2. PluginInv' /\ BarInv'
        BY <1>1, <1>3 DEF PluginInv, BarInv, Written
  <2>3. DaemonInv' /\ RemoveInv'
        BY <1>1, <1>3 DEF DaemonInv, RemoveInv
  <2> QED BY <2>1, <2>2, <2>3
<1>4. CASE script' = [script EXCEPT !.failed = TRUE, !.at = "daemon"]
  <2>1. Types' /\ ForceInv' /\ RuleInv'
        BY <1>1, <1>4 DEF ForceInv, RuleInv, Effective
  <2>2. PluginInv' /\ BarInv' /\ DaemonInv' /\ RemoveInv'
        BY <1>1, <1>4 DEF PluginInv, BarInv, DaemonInv, RemoveInv
  <2> QED BY <2>1, <2>2
<1>5. CASE script' = [script EXCEPT !.at = "put"] /\ bar' = "off"
  <2>1. Types' /\ ForceInv' /\ RuleInv'
        BY <1>1, <1>5 DEF ForceInv, RuleInv, Effective
  <2>2. PluginInv' /\ BarInv'
        BY <1>1, <1>5 DEF PluginInv, BarInv, Written
  <2>3. DaemonInv' /\ RemoveInv'
        BY <1>1, <1>5 DEF DaemonInv, RemoveInv
  <2> QED BY <2>1, <2>2, <2>3
<1> QED BY <1>2, <1>3, <1>4, <1>5

(* A unit that is not there is written. *)
LEMMA DaemonStepKeeps == ASSUME IInv, DaemonStep PROVE IInv'
<1> USE DEF IInv
<1>1. At("daemon") /\ UNCHANGED <<helper, dir, bar, daemon, rule, inForce, packaged, left>>
      BY DEF DaemonStep, NoFault, rest
<1>2. \/ script' = [script EXCEPT !.at = "access"] /\ ~script.withDaemon
      \/ script' = [script EXCEPT !.at = "enable"]
      \/ script' = [script EXCEPT !.at = "reload", !.did = @ \cup {"unit"}]
      BY DEF DaemonStep, To, Go
<1> USE DEF Types, At, Finished, Undisturbed, Idle
<1>3. CASE script' = [script EXCEPT !.at = "access"] /\ ~script.withDaemon
  <2>1. Types' /\ ForceInv' /\ RuleInv'
        BY <1>1, <1>3 DEF ForceInv, RuleInv, Effective
  <2>2. PluginInv' /\ BarInv'
        BY <1>1, <1>3 DEF PluginInv, BarInv, Written
  <2>3. DaemonInv' /\ RemoveInv'
        BY <1>1, <1>3 DEF DaemonInv, RemoveInv
  <2> QED BY <2>1, <2>2, <2>3
<1>4. ASSUME script' = [script EXCEPT !.at = "enable"]
             \/ script' = [script EXCEPT !.at = "reload", !.did = @ \cup {"unit"}]
      PROVE  IInv'
  <2>1. Types' /\ ForceInv' /\ RuleInv'
        BY <1>1, <1>4 DEF ForceInv, RuleInv, Effective
  <2>2. PluginInv' /\ BarInv'
        BY <1>1, <1>4 DEF PluginInv, BarInv, Written
  <2>3. DaemonInv' /\ RemoveInv'
        BY <1>1, <1>4 DEF DaemonInv, RemoveInv
  <2> QED BY <2>1, <2>2, <2>3
<1> QED BY <1>2, <1>3, <1>4

(* The steps that change one thing. *)
LEMMA OtherSetupKeeps ==
    ASSUME IInv, Rescan \/ BarPut \/ Reload \/ EnableDaemon \/ AccessStep
    PROVE  IInv'
<1> USE ReleaseAssumption DEF IInv, Types, Undisturbed, Finished, Effective, Idle, None, Whole,
           NotLoaded, At, Go, To, NoFault, system, rest
<1>1. CASE Rescan
  <2> USE DEF Rescan
  <2>1. Types' /\ ForceInv' /\ RuleInv'
        BY <1>1 DEF ForceInv, RuleInv, Removal
  <2>2. PluginInv' /\ BarInv'
        BY <1>1 DEF PluginInv, BarInv, Written
  <2>3. DaemonInv' /\ RemoveInv'
        BY <1>1 DEF DaemonInv, RemoveInv, Started, UnitHelper
  <2> QED BY <2>1, <2>2, <2>3
<1>2. CASE BarPut
  <2> USE DEF BarPut
  <2>1. Types' /\ ForceInv' /\ RuleInv'
        BY <1>2 DEF ForceInv, RuleInv, Removal
  <2>2. PluginInv' /\ BarInv'
        BY <1>2 DEF PluginInv, BarInv, Written
  <2>3. DaemonInv' /\ RemoveInv'
        BY <1>2 DEF DaemonInv, RemoveInv, Started, UnitHelper
  <2> QED BY <2>1, <2>2, <2>3
<1>3. CASE Reload
  <2> USE DEF Reload
  <2>1. Types' /\ ForceInv' /\ RuleInv'
        BY <1>3 DEF ForceInv, RuleInv, Removal
  <2>2. PluginInv' /\ BarInv'
        BY <1>3 DEF PluginInv, BarInv, Written
  <2>3. DaemonInv' /\ RemoveInv'
        BY <1>3 DEF DaemonInv, RemoveInv, Started, UnitHelper
  <2> QED BY <2>1, <2>2, <2>3
<1>4. CASE EnableDaemon
  <2> USE DEF EnableDaemon
  <2>1. Types' /\ ForceInv' /\ RuleInv'
        BY <1>4 DEF ForceInv, RuleInv, Removal
  <2>2. PluginInv' /\ BarInv'
        BY <1>4 DEF PluginInv, BarInv, Written
  <2>3. DaemonInv' /\ RemoveInv'
        BY <1>4 DEF DaemonInv, RemoveInv, Started, UnitHelper
  <2> QED BY <2>1, <2>2, <2>3
<1>5. CASE AccessStep
  <2> USE DEF AccessStep
  <2>1. Types' /\ ForceInv' /\ RuleInv'
        BY <1>5 DEF ForceInv, RuleInv, Removal
  <2>2. PluginInv' /\ BarInv'
        BY <1>5 DEF PluginInv, BarInv, Written
  <2>3. DaemonInv' /\ RemoveInv'
        BY <1>5 DEF DaemonInv, RemoveInv, Started, UnitHelper
  <2> QED BY <2>1, <2>2, <2>3
<1> QED BY <1>1, <1>2, <1>3, <1>4, <1>5

-----------------------------------------------------------------------------
(* The rest of the installer and the uninstaller. *)
LEMMA OtherScriptKeeps ==
    ASSUME IInv, \/ Download \/ InstallBinary \/ ReloadRules \/ RemoveRefused
           \/ Uninstalled \/ Finish
    PROVE  IInv'
<1> USE ReleaseAssumption DEF IInv, Types, Undisturbed, Finished, Effective, Idle, None, Whole,
           NotLoaded, At, Go, To, NoFault, system, rest
<1>1. CASE Download
  <2> USE DEF Download
  <2>1. Types' /\ ForceInv' /\ RuleInv'
        BY <1>1 DEF ForceInv, RuleInv, Removal
  <2>2. PluginInv' /\ BarInv'
        BY <1>1 DEF PluginInv, BarInv, Written
  <2>3. DaemonInv' /\ RemoveInv'
        BY <1>1 DEF DaemonInv, RemoveInv, Started, UnitHelper
  <2> QED BY <2>1, <2>2, <2>3
<1>2. CASE InstallBinary
  <2> USE DEF InstallBinary
  <2>1. Types' /\ ForceInv' /\ RuleInv'
        BY <1>2 DEF ForceInv, RuleInv, Removal
  <2>2. PluginInv' /\ BarInv'
        BY <1>2 DEF PluginInv, BarInv, Written
  <2>3. DaemonInv' /\ RemoveInv'
        BY <1>2 DEF DaemonInv, RemoveInv, Started, UnitHelper
  <2> QED BY <2>1, <2>2, <2>3
<1>3. CASE ReloadRules
  <2> USE DEF ReloadRules
  <2>1. Types' /\ ForceInv' /\ RuleInv'
        BY <1>3 DEF ForceInv, RuleInv, Removal
  <2>2. PluginInv' /\ BarInv'
        BY <1>3 DEF PluginInv, BarInv, Written
  <2>3. DaemonInv' /\ RemoveInv'
        BY <1>3 DEF DaemonInv, RemoveInv, Started, UnitHelper
  <2> QED BY <2>1, <2>2, <2>3
<1>4. CASE RemoveRefused
  <2> USE DEF RemoveRefused, Failed, Removes
  <2>1. Types' /\ ForceInv' /\ RuleInv'
        BY <1>4 DEF ForceInv, RuleInv, Removal
  <2>2. PluginInv' /\ BarInv'
        BY <1>4 DEF PluginInv, BarInv, Written
  <2>3. DaemonInv' /\ RemoveInv'
        BY <1>4 DEF DaemonInv, RemoveInv, Started, UnitHelper
  <2> QED BY <2>1, <2>2, <2>3
<1>5. CASE Uninstalled
  <2> USE DEF Uninstalled
  <2>1. Types' /\ ForceInv' /\ RuleInv'
        BY <1>5 DEF ForceInv, RuleInv, Removal
  <2>2. PluginInv' /\ BarInv'
        BY <1>5 DEF PluginInv, BarInv, Written
  <2>3. DaemonInv' /\ RemoveInv'
        BY <1>5 DEF DaemonInv, RemoveInv, Started, UnitHelper
  <2> QED BY <2>1, <2>2, <2>3
<1>6. CASE Finish
  <2> USE DEF Finish
  <2>1. Types' /\ ForceInv' /\ RuleInv'
        BY <1>6 DEF ForceInv, RuleInv, Removal
  <2>2. PluginInv' /\ BarInv'
        BY <1>6 DEF PluginInv, BarInv, Written
  <2>3. DaemonInv' /\ RemoveInv'
        BY <1>6 DEF DaemonInv, RemoveInv, Started, UnitHelper
  <2> QED BY <2>1, <2>2, <2>3
<1> QED BY <1>1, <1>2, <1>3, <1>4, <1>5, <1>6

(* What is taken off the list is gone. *)
LEMMA RemoveKeeps == ASSUME IInv, NEW s \in Removal, Remove(s) PROVE IInv'
<1> USE DEF IInv
<1>1. /\ At("remove") /\ script' = [script EXCEPT !.todo = @ \ {s}] /\ Gone(s)
      /\ UNCHANGED <<inForce, packaged>>
      BY DEF Remove, Go
<1>2. /\ script' = [f \in DOMAIN Idle |-> script'[f]]
      /\ script'.at = "remove" /\ script'.of = script.of /\ script'.by = script.by
      /\ script'.i = script.i /\ script'.todo = script.todo \ {s} /\ script'.ran = script.ran
      /\ script'.disturbed = script.disturbed
      BY <1>1 DEF Types, Idle, At
<1>3. dir' \in [kind : {"none", "files", "git"}, file : [PluginFile -> Release \cup {None}]]
      BY <1>1 DEF Gone, Types, NotLoaded, Whole
<1>4. Types'
  <2>1. CASE daemon' = daemon
        BY <1>1, <1>2, <1>3, <2>1 DEF Types, At
  <2>2. CASE daemon' = [enabled |-> FALSE, runs |-> None]
        BY <1>1, <1>2, <1>3, <2>2 DEF Types, At
  <2> QED BY <1>1, <2>1, <2>2 DEF Gone
<1>5. ForceInv'
      BY <1>1 DEF Gone, ForceInv, At, Effective
<1>6. RuleInv' /\ PluginInv' /\ BarInv' /\ DaemonInv'
      BY <1>1, <1>2 DEF Types, RuleInv, PluginInv, BarInv, DaemonInv, At, Finished
<1>7. RemoveInv'
  <2>1. "daemon" \notin script.todo /\ s # "daemon" => daemon' = daemon
        BY <1>1 DEF Gone
  <2>2. s = "daemon" => daemon' = [enabled |-> FALSE, runs |-> None]
        BY <1>1 DEF Gone
  <2>3. unit' => unit /\ s # "unit"
        BY <1>1 DEF Gone
  <2>4. /\ helper' = IF s = "binary" THEN None ELSE helper
        /\ rule' = IF s = "rule" THEN None ELSE rule
        BY <1>1 DEF Gone
  <2> QED BY <1>1, <1>2, <2>1, <2>2, <2>3, <2>4, ReleaseAssumption DEF RemoveInv, At, None
<1> QED BY <1>4, <1>5, <1>6, <1>7

-----------------------------------------------------------------------------
(* Failures, kills and what others do. *)
(* A script that failed promises nothing but the trigger it left out. *)
LEMMA FailKeeps == ASSUME IInv, Fail PROVE IInv'
<1> USE DEF IInv
<1>1. /\ UNCHANGED <<dir, bar, unit, daemon, rule, inForce, packaged>>
      /\ helper' = helper \/ At("binary")
      /\ left' = LeftUndone /\ ~At("idle") /\ ~At("done") /\ ~At("access")
      BY DEF Fail, Stops, CanFail, rest, At
<1>2. /\ script' = [f \in DOMAIN Idle |-> script'[f]]
      /\ script'.of = script.of /\ script'.by = script.by /\ script'.i = script.i
      /\ script'.todo = script.todo /\ script'.ran = script.ran
      /\ script'.disturbed = script.disturbed
      /\ \/ At("rescan") /\ script'.at = "bar" /\ script'.failed = script.failed
         \/ ~At("rescan") /\ script'.at \in {"done", "daemon", "access"} /\ script'.failed = TRUE
  <2>1. CASE At("rescan")
        BY <2>1 DEF Fail, Stops, Go, AfterFailure, Types, Idle, At
  <2>2. CASE ~At("rescan")
    <3>1. \E at \in {"done", "daemon", "access"} :
              script' = [script EXCEPT !.failed = TRUE, !.at = at]
          BY <2>2 DEF Fail, Stops, Go, AfterFailure, Failed
    <3> QED BY <2>2, <3>1 DEF Types, Idle, At
  <2> QED BY <2>1, <2>2
<1>3. Types'
      BY <1>1, <1>2 DEF Types, At
<1>4. ForceInv' /\ RuleInv'
      BY <1>1, <1>2 DEF ForceInv, RuleInv, At, Effective, LeftUndone, Undisturbed
<1>5. PluginInv' /\ BarInv' /\ DaemonInv' /\ RemoveInv'
      BY <1>1, <1>2 DEF PluginInv, BarInv, DaemonInv, RemoveInv, At, Finished, Undisturbed, Written
<1> QED BY <1>3, <1>4, <1>5

(* Nor does one that was killed. *)
LEMMA KillKeeps == ASSUME IInv, Kill PROVE IInv'
<1> USE DEF IInv
<1>1. /\ script' = Idle /\ left' = LeftUndone /\ ~At("idle")
      /\ UNCHANGED <<dir, bar, unit, daemon, rule, inForce, packaged>>
      BY DEF Kill, Stops, Go, rest, At
<1>2. /\ script'.at = "idle" /\ script'.of = "setup" /\ script'.i = 1 /\ script'.todo = {}
      /\ script'.ran = FALSE /\ script' = [f \in DOMAIN Idle |-> script'[f]]
      BY <1>1 DEF Idle
<1>3. Types'
      BY <1>1, <1>2, FilesListed DEF Types, At
<1>4. ForceInv' /\ RuleInv'
      BY <1>1, <1>2 DEF ForceInv, RuleInv, Effective, LeftUndone, At
<1>5. PluginInv' /\ BarInv' /\ DaemonInv' /\ RemoveInv'
      BY <1>2 DEF PluginInv, BarInv, DaemonInv, RemoveInv, At, Finished
<1> QED BY <1>3, <1>4, <1>5

(* systemd can only start what a restart would have started. *)
LEMMA RespawnKeeps == ASSUME IInv, Respawn PROVE IInv'
<1> USE DEF IInv
<1>1. /\ daemon.runs = Broken /\ UnitHelper \in Release
      /\ daemon' = [daemon EXCEPT !.runs = UnitHelper]
      /\ UNCHANGED <<script, helper, dir, bar, unit, rule, inForce, packaged, left>>
      BY DEF Respawn, NoFault, rest
<1>2. Broken # None /\ Started # Broken /\ Started' = Started
      BY <1>1, ReleaseAssumption DEF Started, UnitHelper
<1>3. daemon' = [enabled |-> daemon.enabled, runs |-> UnitHelper] /\ daemon.enabled
      BY <1>1, <1>2 DEF Types
<1>4. Types' /\ ForceInv' /\ RuleInv'
      BY <1>1, <1>3 DEF Types, ForceInv, RuleInv, At, Effective, Undisturbed
<1>5. PluginInv' /\ BarInv'
      BY <1>1 DEF PluginInv, BarInv, At, Finished, Undisturbed, Written
<1>6. DaemonInv' /\ RemoveInv'
      BY <1>1, <1>2 DEF DaemonInv, RemoveInv, At, Finished, Undisturbed
<1> QED BY <1>4, <1>5, <1>6

(* A script that others disturb promises nothing but to apply the rule. *)
LEMMA OthersKeep == ASSUME IInv, Others PROVE IInv'
<1> DEFINE Folder == [kind : {"none", "files", "git"}, file : [PluginFile -> Release \cup {None}]]
           Quiet == /\ Other /\ UNCHANGED <<unit, daemon>> /\ dir' \in Folder
                    /\ \/ inForce' = Effective'
                       \/ /\ UNCHANGED <<inForce, rule, packaged>>
                          /\ "udev" \in left => "udev" \in left'
<1> USE DEF IInv
<1>1. Respawn \/ Quiet
  <2>1. dir \in Folder
        BY DEF Types
  <2>2. ASSUME NEW v \in Release, PluginAdd(v) \/ PluginUpdate(v) PROVE Quiet
        BY <2>1, <2>2 DEF PluginAdd, PluginUpdate, Manages, Whole
  <2>3. ASSUME NEW v \in Release, InstallPackage(v) PROVE Quiet
        BY <2>1, <2>3 DEF InstallPackage, Effective
  <2>4. CASE OpenOverlay \/ RestartShell \/ EditBar
        BY <2>1, <2>4 DEF OpenOverlay, RestartShell, EditBar, Manages
  <2>5. CASE Replug
        BY <2>1, <2>5 DEF Replug, Effective
  <2> QED BY <2>2, <2>3, <2>4, <2>5 DEF Others
<1>2. CASE Quiet
  <2>1. /\ script' = [f \in DOMAIN Idle |-> script'[f]]
        /\ script'.at = script.at /\ script'.of = script.of /\ script'.by = script.by
        /\ script'.i = script.i /\ script'.todo = script.todo /\ script'.ran = script.ran
        /\ ~At("idle") => script'.disturbed
        BY <1>2 DEF Types, Other, Go, Idle
  <2>2. Types'
        BY <1>2, <2>1 DEF Types, At
  <2>3. ForceInv'
        BY <1>2, <2>1 DEF ForceInv, At, Effective
  <2>4. RuleInv' /\ PluginInv' /\ BarInv' /\ DaemonInv' /\ RemoveInv'
        BY <2>1 DEF Types, RuleInv, PluginInv, BarInv, DaemonInv, RemoveInv, At, Finished,
                    Undisturbed
  <2> QED BY <2>2, <2>3, <2>4
<1> QED BY <1>1, <1>2, RespawnKeeps

(* Every step keeps the invariant. *)
LEMMA StepKeeps == IInv /\ [Next]_vars => IInv'
<1> SUFFICES ASSUME IInv, [Next]_vars PROVE IInv'
    OBVIOUS
<1>1. CASE UNCHANGED vars
  <2> USE <1>1 DEF vars, IInv, At, Finished, Undisturbed
  <2>1. Types' /\ ForceInv' /\ RuleInv'
        BY DEF Types, ForceInv, RuleInv, Effective
  <2>2. PluginInv' /\ BarInv' /\ DaemonInv' /\ RemoveInv'
        BY DEF PluginInv, BarInv, DaemonInv, RemoveInv, Written, Started, UnitHelper
  <2> QED BY <2>1, <2>2
<1>2. CASE Scripts
      BY <1>2, SetupKeeps, PluginStepKeeps, BarStepKeeps, DaemonStepKeeps, RestartDaemonKeeps,
         OtherSetupKeeps, InstallKeeps, InstallRuleKeeps, AskKeeps, UninstallKeeps,
         RemoveKeeps, OtherScriptKeeps DEF Scripts
<1>3. CASE Fail \/ Kill \/ Others
      BY <1>3, FailKeeps, KillKeeps, OthersKeep
<1> QED BY <1>1, <1>2, <1>3 DEF Next

(* The invariant holds throughout. *)
LEMMA AlwaysKept == Spec => []IInv
BY InitKeeps, StepKeeps, PTL DEF Spec

-----------------------------------------------------------------------------
(* What `omalogi setup' and install.sh report as done is so, on whatever   *)
(* earlier runs left half done (setup.rs, install.sh). *)
THEOREM DoneHolds == Spec => []DoneIsDone
<1>1. IInv => DoneIsDone
  <2> SUFFICES ASSUME IInv PROVE DoneIsDone
      OBVIOUS
  <2> USE DEF IInv, Undisturbed, Finished, At
  <2>1. ASSUME SetUp PROVE dir.kind = "git" \/ dir.file = Whole(script.by)
    <3>1. Written(Len(PluginFiles))
          BY <2>1 DEF SetUp, PluginInv
    <3>2. ASSUME dir.kind # "git" PROVE \A f \in PluginFile : dir.file[f] = script.by
          BY <3>1, <3>2, FilesListed DEF Written, PluginFile
    <3> QED BY <3>2 DEF Types, Whole
  <2>2. SetUp => (script.withBar => bar = "on")
        BY DEF SetUp, BarInv
  <2>3. SetUp => (script.withDaemon => daemon = [enabled |-> TRUE, runs |-> Started])
        BY DEF SetUp, DaemonInv
  <2>4. RuleInForce
        BY DEF RuleInForce, RuleInv, ForceInv
  <2> QED BY <2>1, <2>2, <2>3, <2>4 DEF DoneIsDone, SetupTakesEffect
<1> QED BY <1>1, AlwaysKept, PTL

(* uninstall.sh: "Last: it deletes the folder this script may be running   *)
(* from."  When the plugin's folder goes, nothing else of Omalogi is left  *)
(* for a run that cannot be started again. *)
THEOREM FolderGoesLast == Spec => UninstallerGoesLast
<1> DEFINE P == dir.kind # "none" /\ dir'.kind = "none" /\ ~script.disturbed =>
                    /\ helper \notin Release /\ ~unit /\ rule = None
                    /\ daemon = [enabled |-> FALSE, runs |-> None]
<1>1. IInv /\ [Next]_vars => [P]_vars
  <2> SUFFICES ASSUME IInv, Next, dir.kind # "none", dir'.kind = "none", ~script.disturbed
               PROVE  P
      OBVIOUS
  <2>1. Remove("plugin")
    <3>1. ~PluginStep
          BY DEF PluginStep, WriteFile
    <3>2. \A v \in Release : ~PluginAdd(v) /\ ~PluginUpdate(v)
          BY DEF PluginAdd, PluginUpdate, IInv, Types
    <3>3. \A v \in Release : ~Install(v) /\ ~InstallPackage(v)
          BY DEF Install, InstallPackage, system
    <3>4. ~(\/ Setup \/ Rescan \/ BarStep \/ BarPut \/ DaemonStep \/ Reload
            \/ EnableDaemon \/ RestartDaemon \/ AccessStep)
          BY DEF Setup, Rescan, BarStep, BarPut, DaemonStep, Reload, EnableDaemon, RestartDaemon,
                 AccessStep, system
    <3>5. ~(\/ Download \/ InstallBinary \/ InstallRule \/ ReloadRules \/ Ask
            \/ Uninstall \/ RemoveRefused \/ Uninstalled \/ Finish)
          BY DEF Download, InstallBinary, InstallRule, ReloadRules, Ask, Uninstall, RemoveRefused,
                 Uninstalled, Finish, system
    <3>6. ~(Fail \/ Kill \/ OpenOverlay \/ RestartShell \/ EditBar \/ Replug \/ Respawn)
          BY DEF Fail, Kill, Stops, OpenOverlay, RestartShell, EditBar, Replug, Respawn
    <3>7. PICK s \in Removal : Remove(s)
          BY <3>1, <3>2, <3>3, <3>4, <3>5, <3>6 DEF Next, Scripts, Others
    <3> QED BY <3>7 DEF Remove, Gone
  <2>2. script.todo = {"plugin"} /\ At("remove")
    <3>1. \A t \in Removal : Place["plugin"] <= Place[t] => t = "plugin"
          BY DEF Place, Removal
    <3>2. At("remove") /\ "plugin" \in script.todo
          BY <2>1 DEF Remove, Removes
    <3>3. \A t \in script.todo : Place["plugin"] <= Place[t]
          BY <2>1 DEF Remove, Removes
    <3>4. script.todo \subseteq Removal
          BY DEF IInv, Types
    <3> QED BY <3>1, <3>2, <3>3, <3>4
  <2> QED BY <2>2 DEF IInv, RemoveInv
<1> QED BY <1>1, AlwaysKept, PTL DEF Spec, UninstallerGoesLast
-----------------------------------------------------------------------------
(* The types, from what the steps rely on. *)

(* A script's state stays one: a step sets one or a few of its fields. *)
LEMMA IdleTyped == Idle \in Script
BY FilesListed DEF Idle, Script, None

(* Moving on keeps the type. *)
LEMMA MoveTyped ==
    ASSUME NEW s \in Script,
           NEW at \in {"idle", "download", "binary", "rule", "udev", "ask", "plugin", "rescan",
                       "bar", "put", "daemon", "reload", "enable", "restart", "access", "remove",
                       "done"}
    PROVE  /\ [s EXCEPT !.at = at] \in Script
           /\ Failed(s, at) \in Script
<1>1. [s EXCEPT !.at = at] \in Script
      BY DEF Script
<1>2. [s EXCEPT !.failed = TRUE, !.at = at] \in Script
      BY DEF Script
<1> QED BY <1>1, <1>2 DEF Failed

(* A step, or a failure, that only moves the script on. *)
LEMMA MoveFields ==
    ASSUME script \in Script, NEW at,
           script' = [script EXCEPT !.at = at] \/ script' = Failed(script, at)
    PROVE  /\ script'.at = at /\ script'.of = script.of /\ script'.by = script.by
           /\ script'.i = script.i /\ script'.plan = script.plan /\ script'.did = script.did
           /\ script'.withBar = script.withBar /\ script'.withDaemon = script.withDaemon
           /\ script'.changed = script.changed /\ script'.ran = script.ran
           /\ script'.disturbed = script.disturbed
BY DEF Failed, Script

(* Setup starts with its options set. *)
LEMMA StartTyped ==
    ASSUME NEW s \in Script, NEW by \in Release,
           NEW withBar \in BOOLEAN, NEW withDaemon \in BOOLEAN,
           StartSetup(s, by, withBar, withDaemon)
    PROVE  script' \in Script
<1> DEFINE existed == dir.kind # "none"
<1>1. script' = [s EXCEPT !.at = "plugin", !.by = by, !.i = 1, !.existed = existed,
                          !.withBar = withBar, !.withDaemon = withDaemon]
      BY DEF StartSetup, Go
<1>2. existed \in BOOLEAN /\ 1 \in 1..Len(PluginFiles)
      BY FilesListed
<1> HIDE DEF existed
<1> QED BY <1>1, <1>2 DEF Script

(* Every step of setup does. *)
LEMMA SetupTyped ==
    ASSUME IInv, TypeOK,
           Setup \/ PluginStep \/ Rescan \/ BarStep \/ BarPut \/ DaemonStep \/ Reload
           \/ EnableDaemon \/ RestartDaemon \/ AccessStep
    PROVE  script' \in Script
<1> USE DEF Go, To
<1>1. script \in Script /\ script.i \in 1..Len(PluginFiles)
      BY DEF TypeOK, Script
<1>2. CASE Setup
      BY <1>2, IdleTyped, StartTyped DEF Setup
<1>3. CASE PluginStep
  <2> DEFINE differs == dir.file[PluginFiles[script.i]] # script.by
             changed == script.changed \/ differs
             told == Last /\ changed /\ script.existed
             did == IF changed THEN script.did \cup {"plugin"} ELSE script.did
             i == IF Last THEN 1 ELSE script.i + 1
             at == IF ~Last THEN "plugin"
                   ELSE IF changed /\ ~script.existed THEN "rescan" ELSE "bar"
  <2>1. CASE script.i = 1 /\ dir.kind = "git"
        BY <1>1, <1>3, <2>1, MoveTyped DEF PluginStep
  <2>2. CASE ~(script.i = 1 /\ dir.kind = "git")
    <3>1. script' = [script EXCEPT !.changed = changed, !.did = did, !.i = i, !.warned = told,
                                   !.at = at]
          BY <1>3, <2>2 DEF PluginStep
    <3>2. changed \in BOOLEAN /\ told \in BOOLEAN
          BY <1>1 DEF Script
    <3>3. i \in 1..Len(PluginFiles)
          BY <1>1, FilesListed DEF Last
    <3>4. did \in SUBSET Step
          BY <1>1 DEF Step, Script
    <3>5. at \in {"plugin", "rescan", "bar"}
          OBVIOUS
    <3> HIDE DEF changed, told, did, i, at
    <3> QED BY <1>1, <3>1, <3>2, <3>3, <3>4, <3>5 DEF Script
  <2> QED BY <2>1, <2>2
<1>4. CASE Rescan
      BY <1>1, <1>4, MoveTyped DEF Rescan
<1>5. CASE BarStep
      BY <1>1, <1>5, MoveTyped DEF BarStep
<1>6. CASE BarPut
      BY <1>1, <1>6 DEF BarPut, Step, Script
<1>7. CASE DaemonStep
  <2>1. CASE script' = [script EXCEPT !.at = "reload", !.did = @ \cup {"unit"}]
        BY <1>1, <2>1 DEF Step, Script
  <2> QED BY <1>1, <1>7, <2>1, MoveTyped DEF DaemonStep
<1>8. CASE Reload
      BY <1>1, <1>8, MoveTyped DEF Reload
<1>9. CASE EnableDaemon
      BY <1>1, <1>9 DEF EnableDaemon, Step, Script
<1>10. CASE RestartDaemon
      BY <1>1, <1>10, MoveTyped DEF RestartDaemon
<1>11. CASE AccessStep
      BY <1>1, <1>11 DEF AccessStep, Script
<1> QED BY <1>2, <1>3, <1>4, <1>5, <1>6, <1>7, <1>8, <1>9, <1>10, <1>11

(* The same for the installer, the uninstaller, and what stops or disturbs *)
(* a script. *)
LEMMA RestTyped ==
    ASSUME IInv, TypeOK,
           \/ \E v \in Release : Install(v)
           \/ Download \/ InstallBinary \/ InstallRule \/ ReloadRules \/ Ask
           \/ Uninstall \/ RemoveRefused \/ Uninstalled \/ Finish
           \/ \E s \in Removal : Remove(s)
           \/ Fail \/ Kill \/ Others
    PROVE  script' \in Script
<1> USE DEF Go, To
<1>1. script \in Script
      BY DEF TypeOK
<1>2. ASSUME NEW v \in Release, Install(v) PROVE script' \in Script
      BY <1>2, IdleTyped DEF Install, Script
<1>3. CASE Download \/ InstallBinary \/ InstallRule \/ ReloadRules
      BY <1>1, <1>3, MoveTyped DEF Download, InstallBinary, InstallRule, ReloadRules
<1>4. CASE Ask
  <2>1. CASE script' = Failed(script, "done") \/ script' = [script EXCEPT !.at = "done"]
        BY <1>1, <2>1, MoveTyped
  <2>2. CASE StartSetup([script EXCEPT !.plan = Planned(script.by)], script.by, TRUE, TRUE)
    <3>1. Planned(script.by) \in SUBSET Step
          BY DEF Planned
    <3>2. [script EXCEPT !.plan = Planned(script.by)] \in Script
          BY <1>1, <3>1 DEF Script
    <3>3. script.by \in Release
          BY <1>4 DEF Ask, IInv, Types, At
    <3> QED BY <2>2, <3>2, <3>3, StartTyped
  <2> QED BY <1>4, <2>1, <2>2 DEF Ask
<1>5. CASE Uninstall
  <2>1. ToRemove \in SUBSET Removal
        BY DEF ToRemove
  <2> QED BY <1>5, <2>1, IdleTyped DEF Uninstall, Script
<1>6. CASE RemoveRefused \/ Uninstalled
      BY <1>1, <1>6, MoveTyped DEF RemoveRefused, Uninstalled
<1>7. CASE Finish \/ Kill
      BY <1>7, IdleTyped DEF Finish, Kill, Stops
<1>8. ASSUME NEW s \in Removal, Remove(s) PROVE script' \in Script
      BY <1>1, <1>8 DEF Remove, Script
<1>9. CASE Fail
  <2>1. CASE script' = [script EXCEPT !.warned = TRUE, !.at = "bar"]
        BY <1>1, <2>1 DEF Script
  <2> QED BY <1>1, <1>9, <2>1, MoveTyped DEF Fail, Stops, AfterFailure
<1>10. CASE Others
  <2>1. script' = script \/ script' = [script EXCEPT !.disturbed = ~At("idle")]
        BY <1>10 DEF Others, Other, PluginAdd, PluginUpdate, InstallPackage, OpenOverlay,
                     RestartShell, EditBar, Replug, Respawn
  <2>2. ASSUME NEW b \in BOOLEAN PROVE [script EXCEPT !.disturbed = b] \in Script
        BY <1>1 DEF Script
  <2>3. CASE At("idle")
        BY <1>1, <2>1, <2>2, <2>3
  <2>4. CASE ~At("idle")
        BY <1>1, <2>1, <2>2, <2>4
  <2> QED BY <2>3, <2>4
<1> QED BY <1>2, <1>3, <1>4, <1>5, <1>6, <1>7, <1>8, <1>9, <1>10

(* So does the system.  A file that is written makes its folder, and what  *)
(* else is installed is a release's. *)
DirTyped ==
    /\ dir \in [kind : {"none", "files", "git"}, file : [PluginFile -> Release \cup {None}]]
    /\ dir.kind = "none" <=> dir.file = NotLoaded

ShellTyped == shell \in [knows : BOOLEAN, runs : [PluginFile -> Release \cup {None}]]

PartsTyped ==
    /\ helper \in Release \cup {None, Broken} /\ packaged \in Release \cup {None}
    /\ bar \in {"off", "listed", "on", "unreadable"} /\ unit \in BOOLEAN
    /\ daemon \in [enabled : BOOLEAN, runs : Release \cup {None, Broken}]
    /\ {rule, inForce} \subseteq Release \cup {None}

CountsTyped ==
    /\ left \subseteq {"rescan", "udev"} /\ mixed \in BOOLEAN
    /\ faults \in 0..MaxFaults /\ others \in 0..MaxOthers

(* The type invariant by parts. *)
LEMMA TypeParts ==
    TypeOK <=> DirTyped /\ ShellTyped /\ PartsTyped /\ CountsTyped /\ script \in Script
BY Zenon DEF TypeOK, DirTyped, ShellTyped, PartsTyped, CountsTyped

(* Files of one release are no empty folder. *)
LEMMA WholeLoaded ==
    \A v \in Release : /\ Whole(v) \in [PluginFile -> Release \cup {None}]
                       /\ Whole(v) # NotLoaded /\ Whole(v)[Manifest] = v
<1> TAKE v \in Release
<1>1. v # None /\ Manifest \in PluginFile
      BY ReleaseAssumption, FilesAssumption DEF None
<1>2. Whole(v)[Manifest] = v /\ NotLoaded[Manifest] = None
      BY <1>1 DEF Whole, NotLoaded
<1> QED BY <1>1, <1>2 DEF Whole

(* A file that is written is there. *)
LEMMA FileWritten ==
    ASSUME IInv, DirTyped, At("plugin"), WriteFile
    PROVE  DirTyped' /\ dir'.file # NotLoaded
<1> DEFINE f == PluginFiles[script.i]
<1>1. f \in PluginFile /\ script.by \in Release /\ script.by # None
      BY FilesListed, ReleaseAssumption DEF IInv, Types, PluginFile, None
<1>2. /\ dir'.file = [dir.file EXCEPT ![f] = script.by]
      /\ dir'.kind \in {"git", "files"}
      /\ dir' \in [kind : {"none", "files", "git"}, file : [PluginFile -> Release \cup {None}]]
      BY <1>1 DEF WriteFile, DirTyped
<1>3. dir'.file[f] = script.by /\ NotLoaded[f] = None
      BY <1>1, <1>2 DEF DirTyped, NotLoaded, Whole
<1> QED BY <1>1, <1>2, <1>3 DEF DirTyped

(* Every step keeps the system's types. *)
LEMMA SystemTyped ==
    ASSUME IInv, TypeOK, Next
    PROVE  DirTyped' /\ ShellTyped' /\ PartsTyped' /\ CountsTyped'
<1> USE BoundsAssumption
<1>1. DirTyped /\ ShellTyped /\ PartsTyped /\ CountsTyped /\ script \in Script
      BY TypeParts
<1>2. ASSUME UNCHANGED <<system, rest, left, faults>>
      PROVE  DirTyped' /\ ShellTyped' /\ PartsTyped' /\ CountsTyped'
      BY <1>1, <1>2 DEF system, rest, DirTyped, ShellTyped, PartsTyped, CountsTyped
<1>3. CASE \/ Setup \/ Reload \/ AccessStep \/ Download \/ Ask \/ Uninstall \/ RemoveRefused
           \/ Uninstalled \/ Finish \/ \E v \in Release : Install(v)
      BY <1>2, <1>3 DEF Setup, Reload, AccessStep, Download, Ask, Uninstall, RemoveRefused,
                        Uninstalled, Finish, Install, NoFault
<1>4. CASE PluginStep
  <2>1. DirTyped'
        BY <1>1, <1>4, FileWritten DEF PluginStep, DirTyped
  <2>2. left' \subseteq {"rescan", "udev"}
        BY <1>1, <1>4 DEF PluginStep, CountsTyped
  <2> QED BY <1>1, <1>4, <2>1, <2>2 DEF PluginStep, rest, ShellTyped, PartsTyped, CountsTyped
<1>5. CASE Rescan
      BY <1>1, <1>5 DEF Rescan, rest, DirTyped, ShellTyped, PartsTyped, CountsTyped
<1>6. CASE BarStep \/ BarPut
      BY <1>1, <1>6 DEF BarStep, BarPut, NoFault, rest, DirTyped, ShellTyped, PartsTyped,
                        CountsTyped
<1>7. CASE DaemonStep
      BY <1>1, <1>7 DEF DaemonStep, NoFault, rest, DirTyped, ShellTyped, PartsTyped, CountsTyped
<1>8. CASE EnableDaemon \/ RestartDaemon \/ Respawn
  <2>1. Started \in Release \cup {Broken}
        BY DEF Started
  <2>2. daemon' \in [enabled : BOOLEAN, runs : Release \cup {None, Broken}]
        BY <1>1, <1>8, <2>1 DEF EnableDaemon, RestartDaemon, Respawn, PartsTyped
  <2> QED BY <1>1, <1>8, <2>2 DEF EnableDaemon, RestartDaemon, Respawn, NoFault, rest, DirTyped,
                                  ShellTyped, PartsTyped, CountsTyped
<1>9. CASE InstallBinary \/ InstallRule \/ ReloadRules
  <2>1. script.at \in {"binary", "rule"} => script.by \in Release
        BY DEF IInv, Types
  <2>2. PartsTyped'
        BY <1>1, <1>9, <2>1 DEF InstallBinary, InstallRule, ReloadRules, rest, PartsTyped, At,
                                Effective
  <2> QED BY <1>1, <1>9, <2>2 DEF InstallBinary, InstallRule, ReloadRules, NoFault, rest, DirTyped,
                                  ShellTyped, CountsTyped
<1>10. ASSUME NEW s \in Removal, Remove(s)
       PROVE  DirTyped' /\ ShellTyped' /\ PartsTyped' /\ CountsTyped'
  <2>1. NotLoaded \in [PluginFile -> Release \cup {None}]
        BY DEF NotLoaded, Whole
  <2>2. DirTyped' /\ ShellTyped'
        BY <1>1, <1>10, <2>1 DEF Remove, Gone, DirTyped, ShellTyped
  <2>3. PartsTyped'
        BY <1>1, <1>10 DEF Remove, Gone, PartsTyped
  <2>4. CountsTyped'
        BY <1>1, <1>10 DEF Remove, Gone, CountsTyped
  <2> QED BY <2>2, <2>3, <2>4
<1>11. CASE Fail \/ Kill
  <2>1. faults' \in 0..MaxFaults
        BY <1>1, <1>11 DEF Fail, Kill, Stops, CountsTyped
  <2>2. left' \subseteq {"rescan", "udev"}
        BY <1>1, <1>11 DEF Fail, Kill, Stops, LeftUndone, CountsTyped
  <2>3. helper' \in Release \cup {None, Broken}
        BY <1>1, <1>11 DEF Fail, Kill, Stops, PartsTyped
  <2> QED BY <1>1, <1>11, <2>1, <2>2, <2>3 DEF Fail, Kill, Stops, rest, DirTyped, ShellTyped,
                                               PartsTyped, CountsTyped
<1>12. ASSUME NEW v \in Release, PluginAdd(v) \/ PluginUpdate(v) \/ InstallPackage(v)
       PROVE  DirTyped' /\ ShellTyped' /\ PartsTyped' /\ CountsTyped'
  <2>1. others' \in 0..MaxOthers
        BY <1>1, <1>12 DEF PluginAdd, PluginUpdate, InstallPackage, Other, CountsTyped
  <2>2. ShellTyped'
        BY <1>1, <1>12 DEF PluginAdd, PluginUpdate, InstallPackage, ShellTyped
  <2>3. DirTyped'
    <3>1. CASE dir' = [kind |-> "git", file |-> Whole(v)]
          BY <3>1, WholeLoaded DEF DirTyped
    <3>2. CASE dir' = [dir EXCEPT !.file = Whole(v)] /\ dir.kind = "git"
          BY <1>1, <3>2, WholeLoaded DEF DirTyped
    <3> QED BY <1>1, <1>12, <3>1, <3>2 DEF PluginAdd, PluginUpdate, InstallPackage, DirTyped
  <2>4. PartsTyped' /\ CountsTyped'
        BY <1>1, <1>12, <2>1 DEF PluginAdd, PluginUpdate, InstallPackage, Other, Manages,
                                 PartsTyped, CountsTyped
  <2> QED BY <2>2, <2>3, <2>4
<1>13. CASE OpenOverlay \/ RestartShell \/ EditBar \/ Replug
  <2>1. others' \in 0..MaxOthers
        BY <1>1, <1>13 DEF OpenOverlay, RestartShell, EditBar, Replug, Other, CountsTyped
  <2>2. DirTyped' /\ ShellTyped'
    <3>1. UNCHANGED dir
          BY <1>13 DEF OpenOverlay, RestartShell, EditBar, Replug
    <3>2. \/ shell' = shell
          \/ shell' = [shell EXCEPT !.runs = dir.file]
          \/ \E knows \in BOOLEAN : shell' = [knows |-> knows, runs |-> NotLoaded]
          BY <1>13 DEF OpenOverlay, RestartShell, EditBar, Replug
    <3>3. NotLoaded \in [PluginFile -> Release \cup {None}]
          BY DEF NotLoaded, Whole
    <3> QED BY <1>1, <3>1, <3>2, <3>3 DEF DirTyped, ShellTyped
  <2>3. PartsTyped' /\ CountsTyped'
        BY <1>1, <1>13, <2>1 DEF OpenOverlay, RestartShell, EditBar, Replug, Other, Manages,
                                 Effective, PartsTyped, CountsTyped
  <2> QED BY <2>2, <2>3
<1> QED BY <1>3, <1>4, <1>5, <1>6, <1>7, <1>8, <1>9, <1>10, <1>11, <1>12, <1>13
        DEF Next, Scripts, Others

(* Every step keeps all types. *)
LEMMA TypeStep == IInv /\ TypeOK /\ [Next]_vars => TypeOK'
<1> SUFFICES ASSUME IInv, TypeOK, [Next]_vars PROVE TypeOK'
    OBVIOUS
<1>1. CASE UNCHANGED vars
      BY <1>1 DEF vars, TypeOK
<1>2. CASE Next
  <2>1. script' \in Script
        BY <1>2, SetupTyped, RestTyped DEF Next, Scripts
  <2>2. DirTyped' /\ ShellTyped' /\ PartsTyped' /\ CountsTyped'
        BY <1>2, SystemTyped
  <2> QED BY <2>1, <2>2 DEF TypeOK, DirTyped, ShellTyped, PartsTyped, CountsTyped
<1> QED BY <1>1, <1>2

(* The types hold throughout. *)
LEMMA AlwaysTyped == Spec => []TypeOK
<1>1. Init => TypeOK
  <2>1. NotLoaded \in [PluginFile -> Release \cup {None}]
        BY DEF NotLoaded, Whole
  <2> SUFFICES ASSUME Init PROVE TypeOK
      OBVIOUS
  <2>2. DirTyped /\ ShellTyped
        BY <2>1 DEF Init, DirTyped, ShellTyped
  <2>3. PartsTyped
        BY DEF Init, PartsTyped, None
  <2>4. CountsTyped /\ script \in Script
    <3>1. MaxFaults \in Nat /\ MaxOthers \in Nat
          BY BoundsAssumption
    <3>2. 0 \in 0..MaxFaults /\ 0 \in 0..MaxOthers
          BY <3>1
    <3>3. left = {} /\ mixed = FALSE /\ faults = 0 /\ others = 0
          BY DEF Init
    <3>4. CountsTyped
          BY <3>2, <3>3 DEF CountsTyped
    <3> QED BY <3>4, IdleTyped DEF Init
  <2> QED BY <2>2, <2>3, <2>4, TypeParts
<1> QED BY <1>1, TypeStep, AlwaysKept, PTL DEF Spec

-----------------------------------------------------------------------------
(* What the running shell knows and runs of the plugin. *)

SetupStage ==
    {"plugin", "rescan", "bar", "put", "daemon", "reload", "enable", "restart", "access"}

LastFile == PluginFiles[Len(PluginFiles)]

(* A shell that did not find a complete folder is about to be told, or the *)
(* telling is what a run left out. *)
FoundInv == shell.knows \/ "rescan" \in left \/ At("rescan") \/ dir.file[LastFile] = None

(* The plugin manager's folder was found when it was made and holds one    *)
(* version; setup does not write to it. *)
GitInv ==
    /\ dir.kind = "git" => shell.knows /\ dir.file = Whole(dir.file[Manifest])
    /\ At("plugin") /\ script.i > 1 => dir.kind = "files"

RunsInv == ~mixed => shell.runs = Whole(shell.runs[Manifest])

ByInv == script.at \in SetupStage \/ script.ran => script.by \in Release

ShellInv == FoundInv /\ GitInv /\ RunsInv /\ ByInv

(* A step that leaves the folder and the shell alone, and starts setup,    *)
(* if it does, at the first file. *)
LEMMA ElsewhereKeeps ==
    ASSUME ShellInv, UNCHANGED <<dir, shell, mixed>>,
           "rescan" \in left \/ At("rescan") => "rescan" \in left',
           At("plugin")' => script'.i = 1,
           ByInv'
    PROVE  ShellInv'
<1> USE DEF ShellInv
<1>1. FoundInv'
      BY DEF FoundInv, At
<1>2. GitInv'
      BY DEF GitInv, At
<1>3. RunsInv'
      BY DEF RunsInv
<1> QED BY <1>1, <1>2, <1>3

(* The last file is written by a setup that then has it found, or tells    *)
(* the user to. *)
LEMMA FilesFound == ASSUME IInv, TypeOK, ShellInv, PluginStep PROVE ShellInv'
<1> DEFINE f == PluginFiles[script.i]
           differs == dir.file[f] # script.by
           changed == script.changed \/ differs
           told == Last /\ changed /\ script.existed
           at == IF ~Last THEN "plugin" ELSE IF changed /\ ~script.existed THEN "rescan" ELSE "bar"
<1> USE DEF ShellInv
<1>1. /\ At("plugin") /\ script.i \in 1..Len(PluginFiles) /\ script.by \in Release
      /\ script.by # None /\ UNCHANGED <<shell, mixed>>
      BY ReleaseAssumption DEF PluginStep, IInv, Types, rest, None
<1>2. CASE script.i = 1 /\ dir.kind = "git"
  <2>1. script' = [script EXCEPT !.at = "bar"] /\ UNCHANGED <<dir, left>>
        BY <1>2 DEF PluginStep, To, Go
  <2>2. script'.at = "bar" /\ script'.by = script.by
        BY <2>1 DEF TypeOK, Script
  <2>3. ~At("rescan") /\ ~At("plugin")' /\ ByInv'
        BY <1>1, <2>2 DEF At, ByInv
  <2> QED BY <1>1, <2>1, <2>3, ElsewhereKeeps
<1>3. CASE ~(script.i = 1 /\ dir.kind = "git")
  <2>1. /\ IF differs THEN WriteFile ELSE UNCHANGED dir
        /\ left' = IF told /\ ~shell.knows THEN left \cup {"rescan"} ELSE left
        /\ script' = [script EXCEPT
                       !.changed = changed, !.did = IF changed THEN @ \cup {"plugin"} ELSE @,
                       !.i = IF Last THEN 1 ELSE @ + 1, !.warned = told, !.at = at]
        BY <1>3 DEF PluginStep, Go
  <2>2. script'.at = at /\ script'.by = script.by
        BY <2>1 DEF TypeOK, Script
  <2>3. dir.kind # "git"
        BY <1>1, <1>3, FilesListed DEF GitInv
  <2>4. dir'.kind = "files"
    <3>1. CASE differs
          BY <2>1, <2>3, <3>1 DEF WriteFile
    <3>2. CASE ~differs
      <4>1. f \in PluginFile
            BY <1>1, FilesListed DEF PluginFile
      <4>2. dir.kind # "none"
            BY <1>1, <3>2, <4>1 DEF TypeOK, NotLoaded, Whole
      <4> QED BY <2>1, <2>3, <3>2, <4>2 DEF TypeOK
    <3> QED BY <3>1, <3>2
  <2>5. GitInv' /\ RunsInv' /\ ByInv'
        BY <1>1, <2>2, <2>4 DEF GitInv, RunsInv, ByInv
  <2>6. FoundInv'
    <3>1. LastFile \in PluginFile
          BY FilesListed DEF LastFile, PluginFile
    <3>2. shell.knows \/ "rescan" \in left \/ dir.file[LastFile] = None
          BY <1>1 DEF FoundInv, At
    <3>3. CASE Last
      <4>1. dir.file[LastFile] = None => changed
            BY <1>1, <3>3 DEF Last, LastFile
      <4>2. changed => told \/ at = "rescan"
            BY <3>3
      <4> QED BY <1>1, <2>1, <2>2, <3>2, <4>1, <4>2 DEF FoundInv, At
    <3>4. CASE ~Last
      <4>1. f # LastFile
            BY <1>1, <3>4, FilesListed, DistinctAssumption DEF Last, LastFile
      <4>2. dir'.file[LastFile] = dir.file[LastFile]
            BY <2>1, <3>1, <4>1 DEF WriteFile, TypeOK
      <4> QED BY <1>1, <2>1, <3>2, <3>4, <4>2 DEF FoundInv
    <3> QED BY <3>3, <3>4
  <2> QED BY <2>5, <2>6
<1> QED BY <1>2, <1>3

(* Every step keeps it. *)
LEMMA ShellStep == ASSUME IInv, TypeOK, TypeOK', ShellInv, [Next]_vars PROVE ShellInv'
<1> USE DEF ShellInv
<1>1. CASE UNCHANGED vars
      BY <1>1 DEF vars, FoundInv, GitInv, RunsInv, ByInv, At
<1>2. CASE PluginStep
      BY <1>2, FilesFound
<1>3. CASE Setup
  <2>1. PICK by \in Release, withBar, withDaemon \in BOOLEAN :
            script' = [Idle EXCEPT !.at = "plugin", !.by = by, !.i = 1,
                                   !.existed = dir.kind # "none",
                                   !.withBar = withBar, !.withDaemon = withDaemon]
        BY <1>3 DEF Setup, StartSetup, Go
  <2>2. script'.at = "plugin" /\ script'.i = 1 /\ script'.by = by
        BY <2>1 DEF Idle
  <2> QED BY <1>3, <2>2, ElsewhereKeeps DEF Setup, NoFault, system, rest, At, ByInv
<1>4. CASE Ask
  <2>1. script.by \in Release /\ ~script.ran
        BY <1>4 DEF Ask, IInv, Types, At
  <2>2. /\ script'.by = script.by /\ script'.ran = script.ran
        /\ script'.at = "plugin" => script'.i = 1
    <3>1. CASE Go(Failed(script, "done")) \/ To("done")
          BY <3>1 DEF TypeOK, Script, Failed, To, Go
    <3>2. CASE StartSetup([script EXCEPT !.plan = Planned(script.by)], script.by, TRUE, TRUE)
          BY <3>2 DEF TypeOK, Script, StartSetup, Go
    <3> QED BY <1>4, <3>1, <3>2 DEF Ask
  <2> QED BY <1>4, <2>1, <2>2, ElsewhereKeeps DEF Ask, NoFault, system, rest, At, ByInv
<1>5. CASE Rescan
  <2>1. At("rescan") /\ script'.at = "bar" /\ script'.by = script.by
        BY <1>5 DEF Rescan, To, Go, TypeOK, Script, At
  <2>2. shell'.knows = TRUE /\ shell'.runs = shell.runs
        BY <1>5 DEF Rescan, TypeOK
  <2> QED BY <1>5, <2>1, <2>2 DEF Rescan, rest, FoundInv, GitInv, RunsInv, ByInv, At, SetupStage
<1>6. CASE BarStep \/ BarPut \/ DaemonStep \/ Reload \/ EnableDaemon \/ RestartDaemon \/ AccessStep
  <2>1. script.at \in SetupStage \ {"rescan"}
        BY <1>6 DEF BarStep, BarPut, DaemonStep, Reload, EnableDaemon, RestartDaemon, AccessStep,
                    At, SetupStage
  <2>2. script'.by = script.by /\ script'.at # "plugin"
    <3>1. CASE BarStep
      <4>1. \/ script' = [script EXCEPT !.at = "daemon"] \/ script' = Failed(script, "daemon")
            \/ script' = [script EXCEPT !.at = "put"]
            BY <3>1 DEF BarStep, To, Go
      <4> QED BY <4>1, MoveFields DEF TypeOK
    <3>2. CASE DaemonStep
      <4>1. CASE script' = [script EXCEPT !.at = "reload", !.did = @ \cup {"unit"}]
            BY <4>1 DEF TypeOK, Script
      <4>2. CASE \/ script' = [script EXCEPT !.at = "access"]
                 \/ script' = [script EXCEPT !.at = "enable"]
            BY <4>2, MoveFields DEF TypeOK
      <4> QED BY <3>2, <4>1, <4>2 DEF DaemonStep, To, Go
    <3>3. CASE BarPut \/ Reload \/ EnableDaemon \/ RestartDaemon \/ AccessStep
          BY <3>3 DEF BarPut, Reload, EnableDaemon, RestartDaemon, AccessStep, To, Go, TypeOK,
                      Script
    <3> QED BY <1>6, <3>1, <3>2, <3>3
  <2>3. UNCHANGED <<dir, shell, mixed, left>>
        BY <1>6 DEF BarStep, BarPut, DaemonStep, Reload, EnableDaemon, RestartDaemon, AccessStep,
                    NoFault, system, rest
  <2> QED BY <2>1, <2>2, <2>3, ElsewhereKeeps DEF ByInv, At
<1>7. ASSUME NEW v \in Release, Install(v) PROVE ShellInv'
  <2>1. script'.at = "download" /\ ~script'.ran
        BY <1>7 DEF Install, Go, Idle
  <2> QED BY <1>7, <2>1, ElsewhereKeeps DEF Install, NoFault, system, rest, At, ByInv, SetupStage
<1>8. CASE \/ Download \/ InstallBinary \/ InstallRule \/ ReloadRules
  <2>1. /\ script'.at \in {"binary", "rule", "udev", "ask"} /\ script'.ran = script.ran
        /\ ~script.ran /\ ~At("rescan")
        BY <1>8 DEF Download, InstallBinary, InstallRule, ReloadRules, To, Go, TypeOK, Script, At,
                    IInv, Types
  <2>2. UNCHANGED <<dir, shell, mixed>> /\ ("rescan" \in left => "rescan" \in left')
        BY <1>8 DEF Download, InstallBinary, InstallRule, ReloadRules, NoFault, system, rest
  <2> QED BY <2>1, <2>2, ElsewhereKeeps DEF ByInv, At, SetupStage
<1>9. CASE Uninstall \/ RemoveRefused \/ Uninstalled \/ Finish
  <2>1. script'.at \in {"remove", "done", "idle"} /\ ~script'.ran /\ ~At("rescan")
    <3>1. CASE Uninstall
          BY <3>1 DEF Uninstall, Go, At, Idle
    <3>2. CASE Finish
          BY <3>2 DEF Finish, Go, At, Idle
    <3>3. CASE RemoveRefused \/ Uninstalled
      <4>1. At("remove") /\ ~script.ran
            BY <3>3 DEF RemoveRefused, Uninstalled, At, IInv, Types
      <4>2. script' = [script EXCEPT !.at = "done"] \/ script' = Failed(script, "done")
            BY <3>3 DEF RemoveRefused, Uninstalled, To, Go
      <4> QED BY <4>1, <4>2, MoveFields DEF TypeOK, At
    <3> QED BY <1>9, <3>1, <3>2, <3>3
  <2>2. UNCHANGED <<dir, shell, mixed, left>>
        BY <1>9 DEF Uninstall, RemoveRefused, Uninstalled, Finish, NoFault, system, rest
  <2> QED BY <2>1, <2>2, ElsewhereKeeps DEF ByInv, At, SetupStage
<1>10. ASSUME NEW s \in Removal, Remove(s) PROVE ShellInv'
  <2>1. script'.at = "remove" /\ script'.ran = script.ran /\ At("remove") /\ ~script.ran
        BY <1>10 DEF Remove, Go, TypeOK, Script, At, IInv, Types
  <2>2. CASE s # "plugin"
    <3>1. UNCHANGED <<dir, shell, mixed>> /\ ("rescan" \in left => "rescan" \in left')
          BY <1>10, <2>2 DEF Remove, Gone, TypeOK
    <3> QED BY <2>1, <3>1, ElsewhereKeeps DEF ByInv, At, SetupStage
  <2>3. CASE s = "plugin"
    <3>1. /\ dir' = [kind |-> "none", file |-> NotLoaded]
          /\ shell' = [knows |-> FALSE, runs |-> NotLoaded]
          BY <1>10, <2>3 DEF Remove, Gone
    <3>2. LastFile \in PluginFile /\ Manifest \in PluginFile
          BY FilesListed, FilesAssumption DEF LastFile, PluginFile
    <3> QED BY <2>1, <3>1, <3>2 DEF FoundInv, GitInv, RunsInv, ByInv, At, SetupStage, NotLoaded,
                                    Whole
  <2> QED BY <2>2, <2>3
<1>11. CASE Fail \/ Kill
  <2>1. /\ UNCHANGED <<dir, shell, mixed>>
        /\ "rescan" \in left \/ At("rescan") => "rescan" \in left'
        BY <1>11 DEF Fail, Kill, Stops, rest, LeftUndone, At
  <2>2. script'.at # "plugin" /\ ByInv'
    <3>1. CASE Kill
          BY <3>1 DEF Kill, Stops, Go, Idle, ByInv, SetupStage
    <3>2. CASE Fail
      <4>1. /\ script'.at # "plugin" /\ script'.by = script.by /\ script'.ran = script.ran
            /\ script.at \in SetupStage \/ script'.at = "done"
            BY <3>2 DEF Fail, CanFail, Stops, Go, AfterFailure, Failed, TypeOK, Script, At,
                        SetupStage
      <4> QED BY <4>1 DEF ByInv, SetupStage
    <3> QED BY <1>11, <3>1, <3>2
  <2> QED BY <2>1, <2>2, ElsewhereKeeps DEF At
<1>12. CASE Respawn
      BY <1>12 DEF Respawn, NoFault, rest, FoundInv, GitInv, RunsInv, ByInv, At
<1>13. ASSUME Other PROVE /\ script'.at = script.at /\ script'.i = script.i
                          /\ script'.by = script.by /\ script'.ran = script.ran
      BY <1>13 DEF Other, Go, TypeOK, Script
<1>14. ASSUME NEW v \in Release, PluginAdd(v) PROVE ShellInv'
  <2>1. dir'.file = Whole(v) /\ dir'.kind = "git" /\ shell'.knows = TRUE /\ shell'.runs = shell.runs
        BY <1>14 DEF PluginAdd, TypeOK
  <2>2. Other /\ dir.kind = "none" /\ UNCHANGED mixed
        BY <1>14 DEF PluginAdd
  <2> QED BY <1>13, <2>1, <2>2, WholeLoaded DEF FoundInv, GitInv, RunsInv, ByInv, At
<1>15. ASSUME NEW v \in Release, PluginUpdate(v) PROVE ShellInv'
  <2>1. dir'.file = Whole(v) /\ dir'.kind = dir.kind /\ dir.kind = "git"
        BY <1>15 DEF PluginUpdate, TypeOK
  <2>2. Other /\ UNCHANGED <<shell, mixed>>
        BY <1>15 DEF PluginUpdate
  <2> QED BY <1>13, <2>1, <2>2, WholeLoaded DEF FoundInv, GitInv, RunsInv, ByInv, At
<1>16. ASSUME NEW v \in Release, InstallPackage(v) PROVE ShellInv'
      BY <1>13, <1>16 DEF InstallPackage, FoundInv, GitInv, RunsInv, ByInv, At
<1>17. CASE EditBar \/ Replug
      BY <1>13, <1>17 DEF EditBar, Replug, Manages, FoundInv, GitInv, RunsInv, ByInv, At
<1>18. CASE OpenOverlay
  <2>1. shell'.runs = dir.file /\ shell'.knows = shell.knows
        BY <1>18 DEF OpenOverlay, TypeOK
  <2>2. ~mixed' => dir.file = Whole(dir.file[Manifest])
        BY <1>18 DEF OpenOverlay
  <2> QED BY <1>13, <1>18, <2>1, <2>2 DEF OpenOverlay, Manages, FoundInv, GitInv, RunsInv, ByInv, At
<1>19. CASE RestartShell
  <2>1. shell'.runs = NotLoaded /\ (shell'.knows <=> dir.kind # "none")
        BY <1>19 DEF RestartShell
  <2>2. LastFile \in PluginFile /\ Manifest \in PluginFile
        BY FilesListed, FilesAssumption DEF LastFile, PluginFile
  <2>3. dir.kind = "none" => dir.file[LastFile] = None
        BY <2>2 DEF TypeOK, NotLoaded, Whole
  <2>4. NotLoaded = Whole(NotLoaded[Manifest])
        BY <2>2 DEF NotLoaded, Whole
  <2> QED BY <1>13, <1>19, <2>1, <2>3, <2>4 DEF RestartShell, Manages, FoundInv, GitInv, RunsInv,
                                                ByInv, At
<1> QED BY <1>1, <1>2, <1>3, <1>4, <1>5, <1>6, <1>7, <1>8, <1>9, <1>10, <1>11, <1>12, <1>14, <1>15,
           <1>16, <1>17, <1>18, <1>19 DEF Next, Scripts, Others

(* It holds throughout. *)
LEMMA ShellKept == Spec => []ShellInv
<1>1. Init => ShellInv
  <2>1. NotLoaded = Whole(NotLoaded[Manifest]) /\ NotLoaded[LastFile] = None
        BY FilesListed, FilesAssumption DEF NotLoaded, Whole, LastFile, PluginFile
  <2> QED BY <2>1 DEF Init, ShellInv, FoundInv, GitInv, RunsInv, ByInv, At, Idle, SetupStage
<1>2. IInv /\ TypeOK /\ TypeOK' /\ ShellInv /\ [Next]_vars => ShellInv'
      BY ShellStep
<1> QED BY <1>1, <1>2, AlwaysKept, AlwaysTyped, PTL DEF Spec

-----------------------------------------------------------------------------
(* What the installer's dry run named, and what its setup did and will do. *)

Todo ==
    {s \in Step :
        \/ /\ s = "plugin" /\ At("plugin") /\ dir.kind # "git" /\ ~script.changed
           /\ \E k \in script.i..Len(PluginFiles) : dir.file[PluginFiles[k]] # script.by
        \/ /\ s = "bar"
           /\ At("put") \/ (script.at \in {"plugin", "rescan", "bar"} /\ bar \in {"off", "listed"})
        \/ /\ s = "unit" /\ script.at \in {"plugin", "rescan", "bar", "put", "daemon"}
           /\ ~unit /\ packaged = None
        \/ s = "daemon" /\ script.at \in SetupStage \ {"restart", "access"}}

Before == {"download", "binary", "rule", "udev", "ask"}
Planning == script.of = "install" /\ ~script.disturbed

(* Until the user agreed nothing is planned or done.  Afterwards what is   *)
(* done and what is still to do are planned, and the whole plan unless a   *)
(* step failed. *)
PlanInv ==
    Planning =>
        /\ script.at \in Before =>
              script.plan = {} /\ script.did = {} /\ ~script.failed /\ ~script.changed
        /\ script.at \in SetupStage \cup {"done"} =>
              /\ script.did \cup Todo \subseteq script.plan
              /\ ~script.failed => script.plan \subseteq script.did \cup Todo
        /\ script.at \in SetupStage => script.withBar /\ script.withDaemon
        /\ At("plugin") /\ script.changed => "plugin" \in script.did

(* A step of setup that does no more than it still had to. *)
LEMMA StepKept ==
    ASSUME PlanInv, script.at \in SetupStage,
           script'.at \in (SetupStage \cup {"done"}) \ {"plugin"},
           script'.of = script.of, script'.plan = script.plan, script'.disturbed = script.disturbed,
           script'.withBar = script.withBar, script'.withDaemon = script.withDaemon,
           script'.did \cup Todo' \subseteq script.did \cup Todo,
           \/ script'.failed /\ script'.failed = TRUE
           \/ /\ script'.failed = script.failed
              /\ script.did \cup Todo \subseteq script'.did \cup Todo'
    PROVE  PlanInv'
BY DEF PlanInv, Planning, Before, SetupStage, At

(* Each file that differs from the planned one makes the plugin's step. *)
LEMMA FilesPlanned == ASSUME IInv, TypeOK, ShellInv, PlanInv, PluginStep PROVE PlanInv'
<1> DEFINE f == PluginFiles[script.i]
           differs == dir.file[f] # script.by
           changed == script.changed \/ differs
           did == IF changed THEN script.did \cup {"plugin"} ELSE script.did
           told == Last /\ changed /\ script.existed
           at == IF ~Last THEN "plugin" ELSE IF changed /\ ~script.existed THEN "rescan" ELSE "bar"
<1>1. At("plugin") /\ script.i \in 1..Len(PluginFiles) /\ UNCHANGED <<bar, unit, packaged>>
      BY DEF PluginStep, rest, IInv, Types
<1>2. CASE script.i = 1 /\ dir.kind = "git"
  <2>1. script' = [script EXCEPT !.at = "bar"] /\ UNCHANGED dir
        BY <1>2 DEF PluginStep, To, Go
  <2>2. /\ script'.at = "bar" /\ script'.of = script.of /\ script'.plan = script.plan
        /\ script'.did = script.did
        /\ script'.disturbed = script.disturbed /\ script'.withBar = script.withBar
        /\ script'.withDaemon = script.withDaemon /\ script'.failed = script.failed
        BY <2>1 DEF TypeOK, Script
  <2>3. Todo' = Todo
        BY <1>1, <1>2, <2>1, <2>2 DEF Todo, At, SetupStage
  <2> QED BY <1>1, <2>2, <2>3, StepKept DEF At, SetupStage
<1>3. CASE ~(script.i = 1 /\ dir.kind = "git")
  <2>1. /\ IF differs THEN WriteFile ELSE UNCHANGED dir
        /\ script' = [script EXCEPT !.changed = changed, !.did = did,
                       !.i = IF Last THEN 1 ELSE @ + 1, !.warned = told, !.at = at]
        BY <1>3 DEF PluginStep, Go
  <2>2. /\ script'.at = at /\ script'.of = script.of /\ script'.plan = script.plan
        /\ script'.disturbed = script.disturbed /\ script'.withBar = script.withBar
        /\ script'.withDaemon = script.withDaemon /\ script'.failed = script.failed
        /\ script'.did = did /\ script'.by = script.by
        /\ script'.i = IF Last THEN 1 ELSE script.i + 1
        /\ script'.changed <=> changed
        BY <2>1 DEF TypeOK, Script
  <2>3. dir.kind # "git" /\ dir'.kind # "git"
        BY <1>1, <1>3, <2>1, FilesListed DEF ShellInv, GitInv, WriteFile
  <2>4. "plugin" \in Todo <=>
          /\ ~script.changed
          /\ \E k \in script.i..Len(PluginFiles) : dir.file[PluginFiles[k]] # script.by
        BY <1>1, <2>3 DEF Todo, Step
  <2>5. "plugin" \in Todo' <=>
          /\ ~Last /\ ~changed
          /\ \E k \in script.i + 1..Len(PluginFiles) : dir'.file[PluginFiles[k]] # script.by
        BY <2>2, <2>3 DEF Todo, Step, At
  <2>6. \A s \in {"bar", "unit", "daemon"} : s \in Todo' <=> s \in Todo
        BY <1>1, <2>2 DEF Todo, Step, At, SetupStage
  <2>7. did \cup Todo' = script.did \cup Todo \/ (script.changed /\ "plugin" \notin script.did)
    <3>1. CASE script.changed
      <4>1. "plugin" \notin Todo /\ "plugin" \notin Todo' /\ did = script.did \cup {"plugin"}
            BY <2>4, <2>5, <3>1
      <4> QED BY <2>6, <3>1, <4>1 DEF Todo, Step
    <3>2. CASE ~script.changed /\ differs
      <4>1. "plugin" \in Todo /\ "plugin" \notin Todo' /\ did = script.did \cup {"plugin"}
            BY <1>1, <2>4, <2>5, <3>2
      <4> QED BY <2>6, <4>1 DEF Todo, Step
    <3>3. CASE ~changed
      <4>1. "plugin" \in Todo <=> "plugin" \in Todo'
            BY <1>1, <2>1, <2>4, <2>5, <3>3, FilesListed DEF Last
      <4> QED BY <2>6, <3>3, <4>1 DEF Todo, Step
    <3> QED BY <3>1, <3>2, <3>3
  <2>8. SUFFICES ASSUME Planning PROVE PlanInv'
        BY <2>2 DEF PlanInv, Planning
  <2>9. did \cup Todo' = script.did \cup Todo
        BY <1>1, <2>7, <2>8 DEF PlanInv
  <2>10. changed => "plugin" \in did
        OBVIOUS
  <2>11. at \in SetupStage /\ at \notin Before
        BY DEF SetupStage, Before
  <2> HIDE DEF did, at, changed
  <2> QED BY <1>1, <2>2, <2>8, <2>9, <2>10, <2>11 DEF PlanInv, At, SetupStage
<1> QED BY <1>2, <1>3

(* The steps of setup after the plugin's. *)
LEMMA SetupPlanned ==
    ASSUME TypeOK, PlanInv,
           Rescan \/ BarStep \/ BarPut \/ DaemonStep \/ Reload \/ EnableDaemon \/ RestartDaemon
           \/ AccessStep
    PROVE  PlanInv'
<1> USE DEF To, Go
<1>1. script \in Script
      BY DEF TypeOK
<1>2. SUFFICES ASSUME Planning PROVE PlanInv'
  <2>1. script'.of = script.of /\ script'.disturbed = script.disturbed
    <3>1. CASE BarStep
      <4>1. \/ script' = [script EXCEPT !.at = "daemon"] \/ script' = Failed(script, "daemon")
            \/ script' = [script EXCEPT !.at = "put"]
            BY <3>1 DEF BarStep
      <4> QED BY <1>1, <4>1, MoveFields
    <3>2. CASE DaemonStep
      <4>1. CASE script' = [script EXCEPT !.at = "reload", !.did = @ \cup {"unit"}]
            BY <1>1, <4>1 DEF Script
      <4>2. CASE \/ script' = [script EXCEPT !.at = "access"]
                 \/ script' = [script EXCEPT !.at = "enable"]
            BY <1>1, <4>2, MoveFields
      <4> QED BY <3>2, <4>1, <4>2 DEF DaemonStep
    <3>3. CASE Rescan \/ BarPut \/ Reload \/ EnableDaemon \/ RestartDaemon \/ AccessStep
          BY <1>1, <3>3 DEF Rescan, BarPut, Reload, EnableDaemon, RestartDaemon, AccessStep, Script
    <3> QED BY <3>1, <3>2, <3>3
  <2> QED BY <2>1 DEF PlanInv, Planning
<1>3. script.at \in SetupStage => script.withBar /\ script.withDaemon
      BY <1>2 DEF PlanInv
<1>4. CASE Rescan
  <2>1. /\ At("rescan") /\ script' = [script EXCEPT !.at = "bar"]
        /\ UNCHANGED <<bar, unit, packaged>>
        BY <1>4 DEF Rescan, rest
  <2>2. Todo' = Todo
        BY <1>1, <2>1, MoveFields DEF Todo, At, SetupStage
  <2>3. script'.failed = script.failed
        BY <1>1, <2>1 DEF Script
  <2> QED BY <1>1, <2>1, <2>2, <2>3, MoveFields, StepKept DEF At, SetupStage
<1>5. CASE BarStep
  <2>1. At("bar") /\ script.withBar /\ UNCHANGED <<unit, packaged>>
        BY <1>3, <1>5 DEF BarStep, rest, At, SetupStage
  <2>2. CASE bar = "on"
    <3>1. script' = [script EXCEPT !.at = "daemon"]
          BY <1>5, <2>2 DEF BarStep
    <3>2. Todo' = Todo
          BY <1>1, <2>1, <2>2, <3>1, MoveFields DEF Todo, At, SetupStage
    <3>3. script'.failed = script.failed
          BY <1>1, <3>1 DEF Script
    <3> QED BY <1>1, <2>1, <3>1, <3>2, <3>3, MoveFields, StepKept DEF At, SetupStage
  <2>3. CASE bar = "unreadable"
    <3>1. script' = Failed(script, "daemon")
          BY <1>5, <2>1, <2>3 DEF BarStep
    <3>2. /\ script'.at = "daemon" /\ script'.did = script.did
          /\ script'.of = script.of /\ script'.plan = script.plan
          /\ script'.disturbed = script.disturbed /\ script'.withBar = script.withBar
          /\ script'.withDaemon = script.withDaemon
          BY <1>1, <3>1, MoveFields
    <3>3. script'.failed = TRUE
          BY <1>1, <3>1 DEF Script, Failed
    <3>4. Todo' = Todo
          BY <2>1, <2>3, <3>2 DEF Todo, At, SetupStage
    <3> QED BY <2>1, <3>2, <3>3, <3>4, StepKept DEF At, SetupStage
  <2>4. CASE bar \in {"off", "listed"}
    <3>1. script' = [script EXCEPT !.at = "put"]
          BY <1>5, <2>1, <2>4 DEF BarStep
    <3>2. Todo' = Todo
          BY <1>1, <2>1, <2>4, <3>1, MoveFields DEF Todo, At, SetupStage
    <3>3. script'.failed = script.failed
          BY <1>1, <3>1 DEF Script
    <3> QED BY <1>1, <2>1, <3>1, <3>2, <3>3, MoveFields, StepKept DEF At, SetupStage
  <2> QED BY <2>2, <2>3, <2>4 DEF TypeOK
<1>6. CASE BarPut
  <2>1. /\ At("put") /\ script' = [script EXCEPT !.at = "daemon", !.did = @ \cup {"bar"}]
        /\ UNCHANGED <<unit, packaged>>
        BY <1>6 DEF BarPut, rest
  <2>2. /\ script'.at = "daemon" /\ script'.did = script.did \cup {"bar"}
        /\ script'.of = script.of /\ script'.plan = script.plan
        /\ script'.disturbed = script.disturbed /\ script'.withBar = script.withBar
        /\ script'.withDaemon = script.withDaemon /\ script'.failed = script.failed
        BY <1>1, <2>1 DEF Script
  <2>3. Todo = Todo' \cup {"bar"}
        BY <2>1, <2>2 DEF Todo, At, SetupStage, Step
  <2> QED BY <2>1, <2>2, <2>3, StepKept DEF At, SetupStage
<1>7. CASE DaemonStep
  <2>1. At("daemon") /\ script.withDaemon /\ UNCHANGED <<bar, packaged>>
        BY <1>3, <1>7 DEF DaemonStep, rest, At, SetupStage
  <2>2. CASE unit \/ packaged # None
    <3>1. script' = [script EXCEPT !.at = "enable"] /\ UNCHANGED unit
          BY <1>7, <2>1, <2>2 DEF DaemonStep
    <3>2. Todo' = Todo
          BY <1>1, <2>1, <2>2, <3>1, MoveFields DEF Todo, At, SetupStage
    <3>3. script'.failed = script.failed
          BY <1>1, <3>1 DEF Script
    <3> QED BY <1>1, <2>1, <3>1, <3>2, <3>3, MoveFields, StepKept DEF At, SetupStage
  <2>3. CASE ~(unit \/ packaged # None)
    <3>1. script' = [script EXCEPT !.at = "reload", !.did = @ \cup {"unit"}]
          BY <1>7, <2>1, <2>3 DEF DaemonStep
    <3>2. /\ script'.at = "reload" /\ script'.did = script.did \cup {"unit"}
          /\ script'.of = script.of /\ script'.plan = script.plan
          /\ script'.disturbed = script.disturbed /\ script'.withBar = script.withBar
          /\ script'.withDaemon = script.withDaemon /\ script'.failed = script.failed
          BY <1>1, <3>1 DEF Script
    <3>3. Todo = Todo' \cup {"unit"}
          BY <2>1, <2>3, <3>2 DEF Todo, At, SetupStage, Step
    <3> QED BY <2>1, <3>2, <3>3, StepKept DEF At, SetupStage
  <2> QED BY <2>2, <2>3
<1>8. CASE EnableDaemon
  <2>1. At("enable") /\ script' = [script EXCEPT !.at = "restart", !.did = @ \cup {"daemon"}]
        BY <1>8 DEF EnableDaemon
  <2>2. /\ script'.at = "restart" /\ script'.did = script.did \cup {"daemon"}
        /\ script'.of = script.of /\ script'.plan = script.plan
        /\ script'.disturbed = script.disturbed /\ script'.withBar = script.withBar
        /\ script'.withDaemon = script.withDaemon /\ script'.failed = script.failed
        BY <1>1, <2>1 DEF Script
  <2>3. Todo = Todo' \cup {"daemon"}
        BY <2>1, <2>2 DEF Todo, At, SetupStage, Step
  <2> QED BY <2>1, <2>2, <2>3, StepKept DEF At, SetupStage
<1>9. CASE Reload \/ RestartDaemon \/ AccessStep
  <2>1. /\ \/ At("reload") /\ script'.at = "enable"
           \/ At("restart") /\ script'.at = "access"
           \/ At("access") /\ script'.at = "done"
        /\ script'.did = script.did /\ script'.of = script.of /\ script'.plan = script.plan
        /\ script'.disturbed = script.disturbed /\ script'.withBar = script.withBar
        /\ script'.withDaemon = script.withDaemon /\ script'.failed = script.failed
        BY <1>1, <1>9 DEF Reload, RestartDaemon, AccessStep, Script
  <2>2. Todo' = Todo
        BY <2>1 DEF Todo, At, SetupStage
  <2> QED BY <2>1, <2>2, StepKept DEF At, SetupStage
<1> QED BY <1>4, <1>5, <1>6, <1>7, <1>8, <1>9

(* The dry run names what setup will do. *)
LEMMA PlanMade ==
    ASSUME TypeOK, DirTyped, script.by \in Release,
           script'.at = "plugin", script'.i = 1, script'.by = script.by, script'.changed = FALSE,
           UNCHANGED <<dir, bar, unit, packaged>>
    PROVE  Todo' = Planned(script.by)
<1>1. dir.file # Whole(script.by) <=>
          \E k \in 1..Len(PluginFiles) : dir.file[PluginFiles[k]] # script.by
  <2>1. \A f \in PluginFile : \E k \in 1..Len(PluginFiles) : PluginFiles[k] = f
        BY FilesListed DEF PluginFile
  <2>2. \A k \in 1..Len(PluginFiles) : PluginFiles[k] \in PluginFile
        BY FilesListed DEF PluginFile
  <2>3. dir.file = Whole(script.by) <=> \A f \in PluginFile : dir.file[f] = script.by
        BY DEF DirTyped, Whole
  <2> QED BY <2>1, <2>2, <2>3
<1> QED BY <1>1 DEF Todo, Planned, Outdated, At, SetupStage

(* The rest of the installer, and what ends or disturbs it. *)
LEMMA RestPlanned ==
    ASSUME IInv, TypeOK, PlanInv,
           \/ Setup \/ \E v \in Release : Install(v)
           \/ Download \/ InstallBinary \/ InstallRule \/ ReloadRules \/ Ask
           \/ Uninstall \/ RemoveRefused \/ Uninstalled \/ Finish
           \/ \E s \in Removal : Remove(s)
           \/ Fail \/ Kill \/ Others
    PROVE  PlanInv'
<1>1. script \in Script /\ DirTyped
      BY DEF TypeOK, DirTyped
<1>2. ASSUME script'.of # "install" PROVE PlanInv'
      BY <1>2 DEF PlanInv, Planning
<1>3. CASE Setup \/ Uninstall \/ Finish \/ Kill
  <2>1. CASE Setup
    <3>1. PICK by \in Release, withBar, withDaemon \in BOOLEAN :
              script' = [Idle EXCEPT !.at = "plugin", !.by = by, !.i = 1,
                                     !.existed = dir.kind # "none",
                                     !.withBar = withBar, !.withDaemon = withDaemon]
          BY <2>1 DEF Setup, StartSetup, Go
    <3> QED BY <1>2, <3>1 DEF Idle
  <2>2. CASE Uninstall
        BY <1>2, <2>2 DEF Uninstall, Go, Idle
  <2>3. CASE Finish \/ Kill
        BY <1>2, <2>3 DEF Finish, Kill, Stops, Go, Idle
  <2> QED BY <1>3, <2>1, <2>2, <2>3
<1>4. CASE RemoveRefused \/ Uninstalled \/ \E s \in Removal : Remove(s)
  <2>1. At("remove")
        BY <1>4 DEF RemoveRefused, Uninstalled, Remove
  <2>2. script.of # "install"
        BY <2>1 DEF IInv, Types
  <2>3. script'.of = script.of
    <3>1. CASE RemoveRefused \/ Uninstalled
          BY <1>1, <3>1, MoveFields DEF RemoveRefused, Uninstalled, To, Go
    <3>2. ASSUME NEW s \in Removal, Remove(s) PROVE script'.of = script.of
          BY <1>1, <3>2 DEF Remove, Go, Script
    <3> QED BY <1>4, <3>1, <3>2
  <2> QED BY <1>2, <2>2, <2>3
<1>5. ASSUME NEW v \in Release, Install(v) PROVE PlanInv'
  <2>1. /\ script'.at = "download" /\ script'.plan = {} /\ script'.did = {}
        /\ script'.failed = FALSE /\ script'.changed = FALSE
        BY <1>5 DEF Install, Go, Idle
  <2> QED BY <2>1 DEF PlanInv, SetupStage, At
<1>6. CASE Download \/ InstallBinary \/ InstallRule \/ ReloadRules
  <2>1. /\ script.at \in Before /\ script'.at \in Before
        /\ script'.plan = script.plan /\ script'.did = script.did /\ script'.of = script.of
        /\ script'.disturbed = script.disturbed /\ script'.failed = script.failed
        /\ script'.changed = script.changed
        BY <1>1, <1>6 DEF Download, InstallBinary, InstallRule, ReloadRules, To, Go, At, Before,
                          Script
  <2> QED BY <2>1 DEF PlanInv, Planning, Before, SetupStage, At
<1>7. CASE Ask
  <2>1. At("ask") /\ UNCHANGED <<dir, bar, unit, packaged>> /\ script.by \in Release
        BY <1>7 DEF Ask, NoFault, system, rest, IInv, Types, At
  <2>2. CASE Go(Failed(script, "done")) \/ To("done")
    <3>1. /\ script'.at = "done" /\ script'.plan = script.plan /\ script'.did = script.did
          /\ script'.of = script.of /\ script'.disturbed = script.disturbed
          BY <1>1, <2>2, MoveFields DEF To, Go
    <3>2. Todo' = {}
          BY <3>1 DEF Todo, At, SetupStage
    <3> QED BY <2>1, <3>1, <3>2 DEF PlanInv, Planning, Before, SetupStage, At
  <2>3. CASE StartSetup([script EXCEPT !.plan = Planned(script.by)], script.by, TRUE, TRUE)
    <3>1. /\ script'.at = "plugin" /\ script'.i = 1 /\ script'.by = script.by
          /\ script'.plan = Planned(script.by) /\ script'.did = script.did
          /\ script'.of = script.of /\ script'.disturbed = script.disturbed
          /\ script'.changed = script.changed /\ script'.withBar = TRUE /\ script'.withDaemon = TRUE
          BY <1>1, <2>3 DEF StartSetup, Go, Script
    <3>2. SUFFICES ASSUME Planning PROVE PlanInv'
          BY <3>1 DEF PlanInv, Planning
    <3>3. script.did = {} /\ script.changed = FALSE
          BY <1>1, <2>1, <3>2 DEF PlanInv, Before, At, Script
    <3>4. Todo' = Planned(script.by)
          BY <1>1, <2>1, <3>1, <3>3, PlanMade
    <3> QED BY <3>1, <3>3, <3>4 DEF PlanInv, Before, At
  <2> QED BY <1>7, <2>2, <2>3 DEF Ask
<1>8. CASE Fail
  <2>1. UNCHANGED <<bar, unit, packaged>>
        BY <1>8 DEF Fail, Stops, rest
  <2>2. CASE At("rescan")
    <3>1. script' = [script EXCEPT !.warned = TRUE, !.at = "bar"]
          BY <1>8, <2>2 DEF Fail, Stops, Go, AfterFailure, At
    <3>2. /\ script'.at = "bar" /\ script'.did = script.did
          /\ script'.of = script.of /\ script'.plan = script.plan
          /\ script'.disturbed = script.disturbed /\ script'.withBar = script.withBar
          /\ script'.withDaemon = script.withDaemon /\ script'.failed = script.failed
          BY <1>1, <3>1 DEF Script
    <3>3. Todo' = Todo
          BY <2>1, <2>2, <3>2 DEF Todo, At, SetupStage
    <3> QED BY <2>2, <3>2, <3>3, StepKept DEF At, SetupStage
  <2>3. CASE ~At("rescan")
    <3>1. \/ script' = Failed(script, "done")
          \/ script' = Failed(script, "daemon") /\ script.at \in {"bar", "put"}
          \/ /\ script' = Failed(script, "access")
             /\ script.at \in {"daemon", "reload", "enable", "restart"}
          BY <1>8, <2>3 DEF Fail, CanFail, Stops, Go, AfterFailure, At
    <3>2. script'.failed = TRUE
          BY <1>1, <3>1 DEF Failed, Script
    <3>3. /\ script'.did = script.did /\ script'.of = script.of /\ script'.plan = script.plan
          /\ script'.disturbed = script.disturbed /\ script'.withBar = script.withBar
          /\ script'.withDaemon = script.withDaemon
          /\ \/ script'.at = "done"
             \/ script'.at = "daemon" /\ script.at \in {"bar", "put"}
             \/ script'.at = "access" /\ script.at \in {"daemon", "reload", "enable", "restart"}
          BY <1>1, <3>1, MoveFields
    <3>4. Todo' \subseteq Todo
          BY <2>1, <3>3 DEF Todo, At, SetupStage, Step
    <3>5. CASE script.at \in SetupStage
          BY <3>2, <3>3, <3>4, <3>5, StepKept DEF SetupStage
    <3>6. CASE script.at \in Before
      <4>1. script'.at = "done" /\ Todo' = {}
            BY <3>3, <3>6 DEF Before, Todo, At, SetupStage
      <4> QED BY <3>2, <3>3, <3>6, <4>1 DEF PlanInv, Planning, Before, SetupStage, At
    <3>7. CASE At("remove")
          BY <1>2, <3>3, <3>7 DEF IInv, Types
    <3> QED BY <1>8, <3>5, <3>6, <3>7 DEF Fail, CanFail, SetupStage, Before, At
  <2> QED BY <2>2, <2>3
<1>9. CASE Others
  <2>1. CASE Respawn
    <3>1. UNCHANGED <<script, dir, bar, unit, packaged>>
          BY <2>1 DEF Respawn, rest
    <3> QED BY <3>1 DEF PlanInv, Planning, Todo, At
  <2>2. CASE Other
    <3>1. script' = [script EXCEPT !.disturbed = ~At("idle")]
          BY <2>2 DEF Other, Go
    <3>2. script'.of = script.of /\ (~At("idle") => script'.disturbed)
          BY <1>1, <3>1 DEF Script
    <3>3. At("idle") => script.of # "install"
          BY DEF IInv, Types
    <3> QED BY <1>2, <3>2, <3>3 DEF PlanInv, Planning
  <2> QED BY <1>9, <2>1, <2>2 DEF Others, PluginAdd, PluginUpdate, InstallPackage, OpenOverlay,
                                  RestartShell, EditBar, Replug
<1> QED BY <1>3, <1>4, <1>5, <1>6, <1>7, <1>8, <1>9

(* The plan is kept to throughout. *)
LEMMA PlanKept == Spec => []PlanInv
<1>1. Init => PlanInv
      BY DEF Init, Idle, PlanInv, Planning
<1>2. IInv /\ TypeOK /\ ShellInv /\ PlanInv /\ [Next]_vars => PlanInv'
  <2> SUFFICES ASSUME IInv, TypeOK, ShellInv, PlanInv, [Next]_vars PROVE PlanInv'
      OBVIOUS
  <2>1. CASE UNCHANGED vars
        BY <2>1 DEF vars, PlanInv, Planning, Todo, At
  <2>2. CASE Next
        BY <2>2, FilesPlanned, SetupPlanned, RestPlanned DEF Next, Scripts
  <2> QED BY <2>1, <2>2
<1> QED BY <1>1, <1>2, AlwaysKept, AlwaysTyped, ShellKept, PTL DEF Spec

-----------------------------------------------------------------------------
(* What install.sh has setup change is what its dry run showed before the  *)
(* user agreed, and all of it unless a step failed; the state keeps its    *)
(* types. *)
THEOREM PlanHolds == Spec => []Consistent
<1>1. IInv /\ TypeOK /\ PlanInv => Consistent
  <2> SUFFICES ASSUME IInv, TypeOK, PlanInv, Planning
               PROVE  /\ script.did \subseteq script.plan
                      /\ At("done") /\ ~script.failed => script.did = script.plan
      BY DEF Consistent, PlanIsKept, Planning
  <2>1. script.at \in Before => script.did = {} /\ script.plan = {}
        BY DEF PlanInv
  <2>2. script.at \in SetupStage \cup {"done"} => script.did \subseteq script.plan
        BY DEF PlanInv
  <2>3. At("done") => Todo = {}
        BY DEF Todo, At, SetupStage
  <2>4. script.at \in Before \cup SetupStage \cup {"done"}
        BY DEF Before, SetupStage, IInv, Types, TypeOK, Script, Planning, At
  <2>5. At("done") /\ ~script.failed => script.did = script.plan
        BY <2>2, <2>3 DEF PlanInv, At
  <2> QED BY <2>1, <2>2, <2>4, <2>5
<1> QED BY <1>1, AlwaysKept, AlwaysTyped, PlanKept, PTL

(* After a setup that reports success the running shell has found the      *)
(* plugin, or a run before left that to the user; and one that runs        *)
(* another version is noticed, whatever was killed or disturbed before     *)
(* (setup.rs, plugin_step; Model.js, staleShell). *)
THEOREM ShellHolds == Spec => []ShellIsCurrent
<1>1. TypeOK /\ ShellInv /\ DoneIsDone => ShellIsCurrent
  <2> SUFFICES ASSUME TypeOK, ShellInv, DoneIsDone, SetUp PROVE ShellIsCurrent
      BY DEF ShellIsCurrent, ShellFindsPlugin, UpdateIsNoticed
  <2>1. script.by \in Release /\ At("done")
        BY DEF ShellInv, ByInv, SetUp
  <2>2. dir.kind = "git" \/ dir.file = Whole(script.by)
        BY DEF DoneIsDone, SetupTakesEffect
  <2>3. dir.file[LastFile] # None \/ shell.knows
    <3>1. LastFile \in PluginFile /\ script.by # None
          BY <2>1, FilesListed, ReleaseAssumption DEF LastFile, PluginFile, None
    <3> QED BY <2>2, <3>1 DEF ShellInv, GitInv, Whole
  <2>4. ShellFindsPlugin
        BY <2>1, <2>3 DEF ShellInv, FoundInv, ShellFindsPlugin, At
  <2>5. UpdateIsNoticed
    <3>1. dir.file[Manifest] # None /\ dir.file = Whole(dir.file[Manifest])
      <4>1. CASE dir.kind = "git"
        <5>1. dir.file = Whole(dir.file[Manifest]) /\ dir.file # NotLoaded
              BY <4>1 DEF ShellInv, GitInv, TypeOK
        <5> QED BY <5>1 DEF NotLoaded
      <4>2. CASE dir.file = Whole(script.by)
            BY <2>1, <4>2, WholeLoaded, ReleaseAssumption DEF None
      <4> QED BY <2>2, <4>1, <4>2
    <3>2. SUFFICES ASSUME shell.runs # NotLoaded, shell.runs # dir.file, ~mixed PROVE Stale
          BY DEF UpdateIsNoticed
    <3>3. shell.runs = Whole(shell.runs[Manifest])
          BY <3>2 DEF ShellInv, RunsInv
    <3>4. Manifest \in PluginFile /\ Code \in PluginFile
          BY FilesAssumption
    <3>5. shell.runs[Code] = shell.runs[Manifest]
          BY <3>3, <3>4 DEF Whole
    <3> QED BY <3>1, <3>2, <3>3, <3>5 DEF Stale
  <2> QED BY <2>4, <2>5 DEF ShellIsCurrent
<1> QED BY <1>1, AlwaysTyped, ShellKept, DoneHolds, PTL
=============================================================================
