------------------------------ MODULE SelfTest ------------------------------
(***************************************************************************)
(* `omalogi verify': the self-test of src/src/verify.rs, which writes and  *)
(* switches a real mouse through a server of its own and must leave it as  *)
(* it was, whatever fails on the way.                                      *)
(*                                                                         *)
(* A request to the server is one step, with every outcome the functions   *)
(* of ProfileLoad and SectorWrites give it; outcomes are sets of records.  *)
(* The caller holds the device lock, so no other program acts; the user    *)
(* can press the cycle-profile button between two requests, and any        *)
(* request can fail.  Only one profile is written: its contents are told   *)
(* apart by the phase that wrote them, and the other profiles have their   *)
(* own.  The wording of the report is left out: it passes or it fails.     *)
(***************************************************************************)
EXTENDS Naturals, FiniteSets, SequencesExt, FiniteSetsExt

CONSTANTS
    ProfileCount,   \* profiles the mouse stores
    Bindings,       \* writes of the bindings phase
    Edits,          \* writes of the sensitivity and names phases
    Undos,          \* writes that the undo phase takes back
    LiveTries,      \* reads of the live settings before it counts
    MaxFaults,      \* bound: requests that fail
    MaxPresses      \* bound: presses of the profile button

ASSUME CountsAssumption ==
    /\ {Bindings, Edits, Undos, LiveTries} \subseteq Nat \ {0}
    /\ {ProfileCount, MaxFaults, MaxPresses} \subseteq Nat

StoredProfile == 1..ProfileCount
NONE == 0           \* no profile

Content(kind, n) == [kind |-> kind, n |-> n]
Found == Content("found", 0)        \* the test profile as it was
Own   == Content("own", 0)          \* what another profile holds
Torn  == Content("torn", 0)         \* a write that stopped half way
Contents ==
    [kind : {"found", "own", "torn", "named", "spelled", "probe", "bindings", "edit", "undo", "in_use"},
     n : 0..Max({Bindings, Edits + 1, Undos, 3})]

(* Contents with the test's own bindings on the buttons. *)
IsScrambled(content) == content.kind \in {"probe", "bindings", "edit", "undo"}

VARIABLES
    mouse,      \* profiles on, current and loaded profile, memory of the test profile
    undo,       \* the server's undo stack
    script,     \* what SelfTest and verify remember
    step,       \* the script's next request
    failed,     \* a check failed
    report,     \* how verify ended
    start,      \* history: the mouse as verify found it
    presses,    \* history: presses of the profile button
    faults,     \* history: requests that failed
    excused,    \* history: failed reads of the live settings that may be tried again
    spoiled,    \* history: a write, undo or switch of the test failed
    late        \* history: a request failed after the put-back began

selfTestVars == <<mouse, undo, script, step, failed, report, start, presses, faults, excused, spoiled, late>>

Steps ==
    {"prepare", "set_up", "enable", "name", "begin", "bindings", "reread", "probe", "undo_probe",
     "refusals", "unchanged", "edits", "reread_edits", "unsorted", "names", "before", "history", "undo_back",
     "snapshot", "activate", "read_active", "live_active", "in_use", "live_in_use", "undo_in_use",
     "live_undone", "rate_undone", "refuse_off", "toggle", "go_home", "live_home", "home",
     "put_back", "restore", "compare", "done"}

SelfTestTypeOK ==
    /\ mouse \in [onboard : BOOLEAN, spellable : BOOLEAN, on : (SUBSET StoredProfile) \ {{}}, torn : BOOLEAN,
                  current : StoredProfile, loaded : [profile : StoredProfile, content : Contents], memory : Contents]
    /\ undo \in Seq(Contents)
    /\ script \in [number : 0..ProfileCount, home : 0..ProfileCount, off : 0..ProfileCount, i : Nat,
                   last_undo : Nat, snapshot : Contents, written : Seq(Contents), undone : 0..3]
    /\ step \in Steps /\ failed \in BOOLEAN
    /\ report \in {"none", "refused", "error", "pass", "fail"}
    /\ presses \in 0..MaxPresses /\ faults \in 0..MaxFaults /\ excused \in 0..faults
    /\ spoiled \in BOOLEAN /\ late \in BOOLEAN

Fresh(number) ==
    [number |-> number, home |-> NONE, off |-> NONE, i |-> 1, last_undo |-> 0,
     snapshot |-> Found, written |-> <<>>, undone |-> 0]

(* Healthy memory, in any mode, with any profile in use.  `spellable' says *)
(* whether the server's requests can express what the test profile holds;  *)
(* a profile with a gap in its DPI stages, for one, they cannot.           *)
SelfTestInit ==
    /\ mouse \in [onboard : BOOLEAN, spellable : BOOLEAN, on : (SUBSET StoredProfile) \ {{}}, torn : {FALSE},
                  current : StoredProfile, loaded : {[profile |-> p, content |-> Own] : p \in StoredProfile},
                  memory : {Found}]
    /\ mouse.current \in mouse.on /\ mouse.loaded.profile = mouse.current
    /\ undo = <<>>
    /\ script = Fresh(NONE)
    /\ step = "prepare" /\ failed = FALSE /\ report = "none"
    /\ start = mouse
    /\ presses = 0 /\ faults = 0 /\ excused = 0 /\ spoiled = FALSE /\ late = FALSE

-----------------------------------------------------------------------------
(* The firmware, as in ProfileLoad. *)
ContentOf(m, p) == IF p = script.number THEN m.memory ELSE Own

Load(m, p)   == [m EXCEPT !.current = p, !.loaded = [profile |-> p, content |-> ContentOf(m, p)]]
Select(m, p) == IF p = m.current THEN m ELSE Load(m, p)

(* Committing a directory may move the current profile, loading it or not. *)
Committed(m, dir) ==
    LET stays == [m EXCEPT !.on = dir, !.torn = FALSE]
    IN {stays} \cup {[stays EXCEPT !.current = p] : p \in dir} \cup {Load(stays, p) : p \in dir}

PressButton ==
    /\ presses < MaxPresses /\ step # "done"
    /\ \E p \in mouse.on \ {mouse.current} : mouse' = Load(mouse, p)
    /\ presses' = presses + 1
    /\ UNCHANGED <<undo, script, step, failed, report, start, faults, excused, spoiled, late>>

-----------------------------------------------------------------------------
(* The server's requests, each the set of its outcomes. *)
Outcome(m, stack, ok, effect, cost) ==
    [mouse |-> m, undo |-> stack, ok |-> ok, effect |-> effect, cost |-> cost]

Answer(m, effect) == Outcome(m, undo, TRUE, effect, 0)
Fails(m, cost)    == Outcome(m, undo, FALSE, "none", cost)

(* Reading every profile: refused while one of the sectors is damaged. *)
ReadState ==
    {Fails(mouse, 1)}
    \cup (IF mouse.torn THEN {Fails(mouse, 0)} ELSE {Answer(mouse, "none")})
    \cup (IF mouse.memory = Torn THEN {Fails(mouse, 0)} ELSE {})

(* load_written, after a write of the test profile to m. *)
LoadWritten(m) ==
    LET number == script.number
        others == m.on \ {number}
        away   == Load(m, Min(others))
    IN IF ~m.onboard \/ m.current # number
       THEN {Answer(m, "when_activated"), Fails(m, 1)}
       ELSE IF others = {}
       THEN {Answer(m, "not_loaded"), Fails(m, 1)}
       ELSE {Answer(Load(m, number), "now"), Fails(m, 1), Fails(away, 2), Fails(Load(m, number), 2)}
            \cup {Outcome(left, undo, TRUE, "not_loaded", 1) : left \in {m, Load(m, number)}}

(* A verified write of the test profile that does not succeed. *)
WriteFails(content) ==
    {Fails([mouse EXCEPT !.memory = c], 1) : c \in {mouse.memory, Torn, content}}

(* The request's work is done; what it does last, its answer, can fail.    *)
Answered(outcomes) ==
    outcomes \cup {[o EXCEPT !.ok = FALSE, !.cost = @ + 1] : o \in {o \in outcomes : o.ok}}

(* What the changes that write a content back make of it. *)
Spelled(content) == IF mouse.spellable THEN content ELSE Content("spelled", 0)

(* What the server refuses when it plans a write. *)
Unwritable == mouse.torn \/ mouse.memory = Torn

(* apply: an undo step is kept once the write is loaded. *)
Apply(content) ==
    LET Pushed(o) == IF o.ok THEN [o EXCEPT !.undo = Append(undo, mouse.memory)] ELSE o
    IN {Fails(mouse, 1)} \cup
       CASE Unwritable -> {Fails(mouse, 0)}
         [] ~Unwritable /\ content = mouse.memory -> {Answer(mouse, "none")}
         [] OTHER -> WriteFails(content) \cup
                     Answered({Pushed(o) : o \in LoadWritten([mouse EXCEPT !.memory = content])})

(* undo: the latest step is dropped once its bytes are written and loaded. *)
Undo ==
    LET previous  == Last(undo)
        Popped(o) == IF o.ok THEN [o EXCEPT !.undo = Front(undo)] ELSE o
    IN {Fails(mouse, 1)} \cup
       CASE undo = <<>> \/ Unwritable -> {Fails(mouse, 0)}
         [] undo # <<>> /\ ~Unwritable /\ previous = mouse.memory ->
                Answered({Popped(Answer(mouse, "none"))})
         [] OTHER -> WriteFails(previous) \cup
                     Answered({Popped(o) : o \in LoadWritten([mouse EXCEPT !.memory = previous])})

(* set_enabled: refused for the profile in use and the last one on; the    *)
(* profile in use is selected again when the mouse moved away from it.     *)
SetEnabled(p, enabled) ==
    {Fails(mouse, 1)} \cup
    IF \/ mouse.torn
       \/ (p \in mouse.on) = enabled
       \/ ~enabled /\ (mouse.current = p \/ Cardinality(mouse.on) <= 1)
    THEN {Fails(mouse, 0)}
    ELSE LET moved    == Committed(mouse, IF enabled THEN mouse.on \cup {p} ELSE mouse.on \ {p})
             selected == {Select(m, mouse.current) : m \in moved}
         IN {Fails(m, 1) : m \in moved \cup selected \cup {[mouse EXCEPT !.torn = TRUE]}}
            \cup (IF mouse.memory = Torn
                  THEN {Fails(m, 0) : m \in selected}
                  ELSE {Answer(m, "none") : m \in selected})

(* activate_profile. *)
Activate(p) ==
    {Fails(mouse, 1)} \cup
    IF ~mouse.onboard \/ mouse.torn \/ p \notin mouse.on
    THEN {Fails(mouse, 0)}
    ELSE {Answer(Select(mouse, p), "none"), Fails(Select(mouse, p), 1)}

(* Faulty variant: the live settings are read once. *)
Live_Once == {Outcome(mouse, undo, TRUE, "live", 0), Outcome(mouse, undo, FALSE, "live", 1)}

(* live_dpi: a read that fails is tried again. *)
Live ==
    {Outcome(mouse, undo, missed < LiveTries, "live", missed) : missed \in 0..LiveTries}

(* restore: the sectors that differ from the backup, the directory last.   *)
Restore ==
    LET profile   == mouse.memory # Found
        directory == mouse.torn \/ mouse.on # start.on
        put       == [mouse EXCEPT !.memory = Found]
    IN {Fails(mouse, 1)} \cup
       CASE ~profile /\ ~directory -> {Answer(mouse, "none")}
         [] profile /\ ~directory  -> WriteFails(Found) \cup LoadWritten(put)
         [] ~profile /\ directory  ->
                {Fails([mouse EXCEPT !.torn = TRUE], 1)}
                \cup {Answer(m, "now") : m \in Committed(mouse, start.on)}
         [] profile /\ directory   ->
                WriteFails(Found)
                \cup {Fails([put EXCEPT !.torn = t], 1) : t \in {mouse.torn, TRUE}}
                \cup UNION {LoadWritten(m) : m \in Committed(put, start.on)}

-----------------------------------------------------------------------------
(* The script.  `writes' marks the requests whose failure must show in     *)
(* the report: not the reads, nor those that may be refused.               *)
Ask(at, outcomes, writes, Then(_)) ==
    /\ step = at
    /\ \E o \in outcomes :
          /\ faults + o.cost <= MaxFaults
          /\ faults' = faults + o.cost
          /\ excused' = excused + IF o.effect = "live" /\ o.cost < LiveTries THEN o.cost ELSE 0
          /\ spoiled' = (spoiled \/ (writes /\ ~o.ok /\ o.cost > 0))
          /\ late' = (late \/ (at \in {"put_back", "restore", "compare"} /\ o.cost > 0))
          /\ mouse' = o.mouse /\ undo' = o.undo
          /\ Then(o)
    /\ UNCHANGED <<start, presses>>

Go(next, ok) == step' = next /\ failed' = (failed \/ ~ok) /\ UNCHANGED report
End(result)  == step' = "done" /\ report' = result /\ UNCHANGED failed

(* `result': a request that fails ends the test. *)
Result(o, next, ok) == IF o.ok THEN Go(next, ok) ELSE Go("home", FALSE)

(* The next write of a phase, or the next phase. *)
Loop(count, again, next) == IF script.i < count THEN again ELSE next
Counted(count) == [script EXCEPT !.i = IF @ < count THEN @ + 1 ELSE 1]

(* The check, the choice of the profile and the backup: nothing is written *)
(* unless all of them succeed, and never the profile in use.               *)
Prepare ==
    /\ step = "prepare"
    /\ \/ \E p \in StoredProfile \ {mouse.current} :
             /\ script' = Fresh(p)
             /\ Go("set_up", TRUE) /\ start' = mouse /\ UNCHANGED faults
       \/ End("refused") /\ UNCHANGED <<script, start, faults>>
       \/ End("error") /\ faults < MaxFaults /\ faults' = faults + 1 /\ UNCHANGED <<script, start>>
    /\ UNCHANGED <<mouse, undo, presses, excused, spoiled, late>>

(* set_up: a failure ends the test with nothing left to switch back.       *)
SetUp ==
    Ask("set_up", ReadState, FALSE, LAMBDA o :
        /\ script' = [script EXCEPT !.home = mouse.current]
        /\ IF o.ok THEN Go(IF script.number \in mouse.on THEN "name" ELSE "enable", TRUE)
                   ELSE Go("put_back", FALSE))

Enable ==
    Ask("enable", SetEnabled(script.number, TRUE), TRUE, LAMBDA o :
        UNCHANGED script /\ IF o.ok THEN Go("name", TRUE) ELSE Go("put_back", FALSE))

Name ==
    Ask("name", Apply(Content("named", 0)), TRUE, LAMBDA o :
        UNCHANGED script /\ IF o.ok THEN Go("begin", TRUE) ELSE Go("put_back", FALSE))

Begin ==
    Ask("begin", ReadState, FALSE, LAMBDA o :
        /\ script' = [script EXCEPT !.snapshot = mouse.memory,
                                    !.off = IF mouse.on = StoredProfile THEN NONE ELSE Min(StoredProfile \ mouse.on)]
        /\ Result(o, "bindings", TRUE))

(* Faulty variant: the depth of undo is not kept. *)
BindingsPhase_NoDepth ==
    Ask("bindings", Apply(Content("bindings", script.i)), TRUE, LAMBDA o :
        /\ script' = Counted(Bindings)
        /\ Go(Loop(Bindings, "bindings", "reread"), o.ok /\ o.effect = "when_activated"))

(* 1. Every action on every button. *)
BindingsPhase ==
    Ask("bindings", Apply(Content("bindings", script.i)), TRUE, LAMBDA o :
        /\ script' = [Counted(Bindings) EXCEPT
                          !.last_undo = IF o.ok /\ o.effect # "none" THEN Len(o.undo) ELSE @]
        /\ Go(Loop(Bindings, "bindings", "reread"), o.ok /\ o.effect = "when_activated"))

Reread ==
    Ask("reread", ReadState, FALSE, LAMBDA o : UNCHANGED script /\ Result(o, "probe", TRUE))

(* A button the mouse may not have: either answer will do. *)
Probe ==
    Ask("probe", {Fails(mouse, 0)} \cup Apply(Content("probe", 0)), FALSE, LAMBDA o :
        UNCHANGED script /\ Go(IF o.ok THEN "undo_probe" ELSE "refusals", TRUE))

UndoProbe ==
    Ask("undo_probe", Undo, TRUE, LAMBDA o : UNCHANGED script /\ Result(o, "refusals", TRUE))

(* 2. Requests the server refuses, then a change that changes nothing: the *)
(* depth of undo is that of the last bindings write.                       *)
Refusals ==
    Ask("refusals", {Fails(mouse, 0), Fails(mouse, 1)}, FALSE, LAMBDA o :
        UNCHANGED script /\ Go("unchanged", TRUE))

Unchanged ==
    Ask("unchanged", Apply(mouse.memory), FALSE, LAMBDA o :
        UNCHANGED script
        /\ Result(o, "edits", o.effect = "none" /\ Len(o.undo) = script.last_undo))

(* Faulty variant: a write that fails is passed over. *)
EditsPhase_PassedOver ==
    Ask("edits", Apply(Content("edit", script.i)), TRUE, LAMBDA o :
        /\ script' = Counted(Edits)
        /\ Go(Loop(Edits, "edits", "reread_edits"), TRUE))

(* 3. Sensitivity, and a list of stages the server may refuse.  4. Names.  *)
EditsPhase ==
    Ask("edits", Apply(Content("edit", script.i)), TRUE, LAMBDA o :
        /\ script' = Counted(Edits)
        /\ Go(Loop(Edits, "edits", "reread_edits"), o.ok))

RereadEdits ==
    Ask("reread_edits", ReadState, FALSE, LAMBDA o : UNCHANGED script /\ Result(o, "unsorted", TRUE))

Unsorted ==
    Ask("unsorted", {Fails(mouse, 0)} \cup Apply(Content("edit", 0)), FALSE, LAMBDA o :
        UNCHANGED script /\ Go("names", TRUE))

Names ==
    Ask("names", Apply(Content("edit", Edits + 1)), TRUE, LAMBDA o :
        UNCHANGED script /\ Go("before", o.ok))

(* 5. Each write is undone in turn, then the snapshot is written back.     *)
Before ==
    Ask("before", ReadState, FALSE, LAMBDA o :
        /\ script' = [script EXCEPT !.written = <<mouse.memory>>]
        /\ Result(o, "history", TRUE))

History ==
    Ask("history", Apply(Content("undo", script.i)), TRUE, LAMBDA o :
        /\ script' = [Counted(Undos) EXCEPT !.written = IF o.ok THEN Append(@, o.mouse.memory) ELSE @]
        /\ Go(CASE script.i < Undos                           -> "history"
                [] script.i = Undos /\ Len(script'.written) > 1 -> "undo_back"
                [] OTHER                                      -> "snapshot", o.ok))

UndoBack ==
    LET written == Front(script.written)
    IN Ask("undo_back", Undo, TRUE, LAMBDA o :
        /\ script' = [script EXCEPT !.written = written]
        /\ Result(o, IF Len(written) > 1 THEN "undo_back" ELSE "snapshot",
                  o.mouse.memory = Last(written)))

(* Faulty variant: the checks in use follow whatever was put back. *)
Snapshot_GoesOn ==
    Ask("snapshot", Apply(Spelled(script.snapshot)), TRUE, LAMBDA o :
        UNCHANGED script /\ Go("activate", o.ok /\ o.mouse.memory = script.snapshot))

Snapshot ==
    Ask("snapshot", Apply(Spelled(script.snapshot)), TRUE, LAMBDA o :
        UNCHANGED script
        /\ IF o.ok /\ o.mouse.memory = script.snapshot
           THEN Go("activate", TRUE) ELSE Go("home", FALSE))

(* 6. In use: the mouse runs what was written, at once.                    *)
ActivateTest ==
    Ask("activate", Activate(script.number), TRUE, LAMBDA o :
        UNCHANGED script /\ Result(o, "read_active", TRUE))

ReadActive ==
    Ask("read_active", ReadState, FALSE, LAMBDA o :
        UNCHANGED script /\ Result(o, "live_active", mouse.current = script.number))

(* A profile with one DPI stage has no other default to write. *)
LiveActive ==
    Ask("live_active", Live, FALSE, LAMBDA o :
        /\ \E first \in {1, 2} : script' = [script EXCEPT !.i = first]
        /\ Result(o, "in_use", mouse.loaded.content = script.snapshot))

AfterInUse == IF script'.undone > 0 THEN "undo_in_use" ELSE "live_undone"

(* The default DPI, the report rate, and one harmless button. *)
InUse ==
    Ask("in_use", Apply(Content("in_use", script.i)), TRUE, LAMBDA o :
        /\ script' = [script EXCEPT !.undone = IF o.ok THEN @ + 1 ELSE @,
                                    !.i = IF o.ok /\ @ < 3 THEN @ ELSE IF @ < 3 THEN @ + 1 ELSE 1]
        /\ Go(CASE script.i < 3 /\ o.ok  -> "live_in_use"
                [] script.i < 3 /\ ~o.ok -> "in_use"
                [] OTHER                 -> AfterInUse, o.ok /\ o.effect = "now"))

LiveInUse ==
    Ask("live_in_use", IF script.i = 1 THEN Live ELSE ReadState, FALSE, LAMBDA o :
        /\ script' = [script EXCEPT !.i = @ + 1]
        /\ Result(o, "in_use", mouse.loaded.content = mouse.memory))

(* Faulty variant: one undo too many. *)
UndoInUse_OneMore ==
    Ask("undo_in_use", Undo, TRUE, LAMBDA o :
        /\ script' = [script EXCEPT !.undone = @ - 1]
        /\ Result(o, IF script.undone > 0 THEN "undo_in_use" ELSE "live_undone", o.effect = "now"))

UndoInUse ==
    Ask("undo_in_use", Undo, TRUE, LAMBDA o :
        /\ script' = [script EXCEPT !.undone = @ - 1]
        /\ Result(o, IF script.undone > 1 THEN "undo_in_use" ELSE "live_undone", o.effect = "now"))

LiveUndone ==
    Ask("live_undone", Live, FALSE, LAMBDA o :
        UNCHANGED script /\ Result(o, "rate_undone", mouse.loaded.content = script.snapshot))

RateUndone ==
    Ask("rate_undone", ReadState, FALSE, LAMBDA o :
        UNCHANGED script /\ Result(o, "refuse_off", mouse.loaded.content = script.snapshot))

RefuseOff ==
    Ask("refuse_off", SetEnabled(script.number, FALSE), FALSE, LAMBDA o :
        UNCHANGED script /\ Go(IF script.off = NONE THEN "go_home" ELSE "toggle", ~o.ok))

(* A profile that is off cannot be turned off; it is turned on and off.    *)
Toggle ==
    Ask("toggle", SetEnabled(script.off, script.i = 2), script.i > 1, LAMBDA o :
        /\ script' = Counted(3)
        /\ IF script.i = 1 THEN Go("toggle", ~o.ok)
           ELSE Result(o, Loop(3, "toggle", "go_home"), TRUE))

GoHome ==
    Ask("go_home", Activate(script.home), TRUE, LAMBDA o :
        UNCHANGED script /\ Result(o, "live_home", TRUE))

LiveHome ==
    Ask("live_home", Live, FALSE, LAMBDA o :
        UNCHANGED script /\ Result(o, "home", mouse.loaded.profile = script.home))

(* run_all switches back whatever happened; then the server is dropped.    *)
Home ==
    Ask("home", {[o EXCEPT !.undo = <<>>] : o \in Activate(script.home)}, TRUE, LAMBDA o :
        script' = Fresh(script.number) /\ Go("put_back", o.ok))

(* Faulty variant: a test that passed has put everything back itself. *)
PutBack_OnlyFailed ==
    Ask("put_back", {Answer(mouse, "none"), Fails(mouse, 1)}, FALSE, LAMBDA o :
        UNCHANGED script /\ IF ~o.ok THEN End("error") ELSE Go(IF failed THEN "restore" ELSE "compare", TRUE))

(* verify: the sectors the test does not write are compared, the backup is *)
(* restored, and the memory is compared with it.                           *)
PutBack ==
    Ask("put_back", {Answer(mouse, "none"), Fails(mouse, 1)}, FALSE, LAMBDA o :
        UNCHANGED script /\ IF o.ok THEN Go("restore", TRUE) ELSE End("error"))

RestoreBackup ==
    Ask("restore", Restore, TRUE, LAMBDA o : UNCHANGED script /\ Go("compare", o.ok))

IsAsFound == mouse.memory = Found /\ mouse.on = start.on /\ ~mouse.torn

Compare ==
    Ask("compare", {Answer(mouse, "none"), Fails(mouse, 1)}, FALSE, LAMBDA o :
        UNCHANGED script
        /\ End(CASE ~o.ok                   -> "error"
                 [] o.ok /\ ~failed /\ IsAsFound -> "pass"
                 [] OTHER                   -> "fail"))

Script ==
    \/ Prepare \/ SetUp \/ Enable \/ Name \/ Begin
    \/ BindingsPhase \/ Reread \/ Probe \/ UndoProbe \/ Refusals \/ Unchanged
    \/ EditsPhase \/ RereadEdits \/ Unsorted \/ Names
    \/ Before \/ History \/ UndoBack \/ Snapshot
    \/ ActivateTest \/ ReadActive \/ LiveActive \/ InUse \/ LiveInUse \/ UndoInUse
    \/ LiveUndone \/ RateUndone \/ RefuseOff \/ Toggle
    \/ GoHome \/ LiveHome \/ Home
    \/ PutBack \/ RestoreBackup \/ Compare

SelfTestNext == Script \/ PressButton

SelfTestSpec == SelfTestInit /\ [][SelfTestNext]_selfTestVars

-----------------------------------------------------------------------------
(* On a mouse in onboard mode whose test profile requests can express, and *)
(* while nobody presses its button, the test passes if no request fails,   *)
(* wherever the firmware moves on a directory write; a read of the live    *)
(* settings that is missed twice does not fail it.                         *)
UndisturbedPasses ==
    report \in {"fail", "error"} =>
        presses > 0 \/ faults > excused \/ ~mouse.onboard \/ ~mouse.spellable

(* A pass says that every write, undo and switch the test relied on worked *)
(* and that the memory is as the test found it.                            *)
PassIsEarned ==
    report = "pass" => ~spoiled /\ IsAsFound

(* Whatever failed before the put-back began, a test that reports leaves   *)
(* the memory as it was, unless the put-back itself fails.                 *)
PutsMemoryBack ==
    report \in {"pass", "fail"} /\ ~late => IsAsFound

(* "so the mouse stays usable": unless the user presses its button, the    *)
(* mouse never runs the bindings the test tries, however writes, switches  *)
(* and the firmware's moves fall.                                          *)
StaysUsable ==
    IsScrambled(mouse.loaded.content) => presses > 0

(* What the test owes the user's mouse at every moment and at its end:     *)
(* it stays usable, and its memory is put back (verify.rs).                *)
SelfTestSound == SelfTestTypeOK /\ PutsMemoryBack /\ StaysUsable
=============================================================================
