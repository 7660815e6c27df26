# A verification project for Omalogi

Omalogi edits the onboard memory of Logitech mice: a Rust program (`src/src/`)
that talks HID++ to the mouse as a command line tool, as a server and as a
daemon, and an overlay for the Omarchy shell in QML (`src/plugin/`).  The memory
is a directory sector that lists profiles and one sector for each; it is flash
with no transactions, it is shared by every process, and the mouse's own
buttons and firmware act on it at any time.  This directory holds TLA+ models of
the parts where that is hard, the TLC runs that check them and proofs checked
by TLAPS.

Paths below are relative to the repository (`src/...`); `PROJECT.json` maps every
definition to the lines it models.

## Inventory

| Part | Code | State it keeps | Operations | What makes it correct |
|---|---|---|---|---|
| Verified sector writes | `src/src/editing.rs` (`write_verified`, `put_back`), `src/src/onboard/feature.rs` | the sector being written, its new and its previous bytes | transfer, read back, put back | one sector at risk at a time; the report is true |
| Memory commands, backups | `editing.rs`, `device.rs`, `main.rs` | planned writes, backup files | edit, enable, restore, repair, first set-up, save a backup | a complete backup before the first write; a damaged memory can be restored |
| Profile loading | `editing.rs` (`load_written`, `set_profile_enabled`), `device.rs` (`activate_profile`) | the profile in use before the write | switch away and back, select again | "in use now" is true; the profile in use stays in use |
| Directory format | `onboard/format.rs`, `onboard/edit.rs` | the directory's entries | parse, toggle, repair, first directory | lists distinct profiles, one on; repair invents nothing |
| Server | `serve.rs` | backup path, undo stack | one request at a time under the lock | undo leads back to the backup |
| Overlay session | `plugin/Omalogi.qml`, `OmalogiServer.qml`, `Model.js` | draft, original, timer, requests in flight | edit, save, undo, select, activate, refresh, open, close | one write in flight; no edit lost |
| Drafts | `plugin/Model.js`, `SensitivityPanel.qml`, `DpiTrack.qml`; `editing.rs` (`plan_profile_changes`), `onboard/edit.rs` | levels, default and shift level, rate, bindings; the slot last read | move, add, remove a level, give a role, bind, save, read back | roles stay on levels; a save reads back as drafted and leaves the rest alone |
| Daemon | `daemon.rs` | session, focus, rules, last read profile, pending rules, state file | tick, focus event, reload, publish | follows the rules; the state file is true |
| Rules, Hyprland events | `rules.rs`, `hyprland.rs` | none | parse, match | inputs of the daemon |
| Device lock | `lock.rs` | a lock file | acquire, try | one process's traffic at a time |
| Consent | `consent.rs` | accepted models, in a file | accept, ensure | an untested mouse is written only after the user accepted it |
| Overlay view | `plugin/Omalogi.qml`, `OmalogiServer.qml`, `Model.js`; `serve.rs`, `hidraw.rs` | what was read last, flags of requests in flight, the server's session | open, read, retry, repair, poll, activate, accept, close | flags match requests; the mouse in use is followed; the server is let go |
| Pictures | `assets.rs`, `main.rs` (`picture`), `Omalogi.qml` | a cache of an index and files | fetch, check, cache, refresh; switch colour | whole files only; offline once cached; a refresh repairs |
| Installation | `install.sh`, `setup.rs`, `uninstall.sh`, `packaging/`, `Model.js` (`staleShell`) | helper, plugin folder, bar, unit, daemon, udev rule | install, set up, uninstall | what is reported done is done, whatever was left half done |
| Self-test | `verify.rs` | the test profile, its snapshot, the depth of undo | set-up, six phases of writes and checks, put-back | leaves the memory as it was; a pass is earned; the mouse stays usable |
| Check, names, action texts, transport | `check.rs`, `action.rs`, `label.rs`, `text.rs`, `hidraw.rs`, `wireless.rs` | | | |

How they interact.  The overlay sends JSON lines to one server process and reads
its replies in order; the server, the daemon and every command each open their
own session and take the device lock for a request, a tick or a command.  The
daemon only tries the lock.  Everything they share is the mouse: its memory, the
profile it reports as current and the settings it runs.  The user presses the
profile button and the firmware moves the current profile without asking any of
them.  Mice are plugged in and out under a running server, and under a question
the overlay has asked about one of them.  On disk the overlay's and other
processes' picture commands share a cache, and the installer, setup, the plugin
manager and the package manager change the same files.

What is hard: a request fails after it took effect; a process is killed between
two transfers; a read is disturbed by another program's traffic; replies
arrive after the state they were computed from has changed; the profile in use
moves between a check and the write it guards; a cached profile is stale when a
rule is compared with it; a script is killed and run again on what it left.  `hazards` in `PROJECT.json` lists each at its line
with the properties that would catch it.

## Modules

* **SectorWrites** - a job of planned sector writes, one HID++ request per step.
  A transfer can stop half way, a reply can be lost, a read-back can differ or
  fail, and the process can be killed after any request.  `JobStep` is
  `write_verified`; `Begin`, `Finish` are the loop around it that `write_plan`,
  `restore` and `repair_directory` share.  **AtomicWrites** is what a job
  promises: sectors change whole, one after the other, and a job that stops
  leaves at most one of them damaged and says which of "put back" and "not put
  back" it was.  SectorWrites implements it (`ImplementsAtomicWrites`; the
  mapping hides the transfer and the read-back).
* **ProfileMemory** - whole commands: what is read, planned, backed up and
  written, in `SaveBackup`/`StartWriting`/`Write` order.  It instantiates
  SectorWrites for the writing, request by request.  A profile's
  bytes are a version; a sector can also be erased, torn, or (when a read was
  disturbed) noise.  Backup files are complete, half written, or absent.
  **ProfileMemoryProofs** has its theorems.
* **ProfileLoad** - what the mouse runs while those commands go on, request by
  request: `current` is what it reports, `loaded` what it runs, `stale` whether
  that profile's memory changed since.  `CommitDirectory` is the firmware's answer
  to a directory write as `src/docs/hardware-tests.md` recorded it: the current
  profile stays, moves without being loaded, or moves and is loaded.
  **ProfileLoadProofs** has its theorems.
* **ProfileDirectory** - the directory sector entry by entry: `Parse`,
  `IsRepairable`, `Rebuilt`, `WithEnabled`, `InitialEntries` and
  `InitialDirectory` are the functions of `format.rs` and `edit.rs` with the same
  names; writes can be cut short with any mix of old, new and erased entries.
  The checksums of the profile sectors and the comparison of two reads
  that a repair also asks for are ProfileMemory's `PlanRepair`.
  Its theorems are in **ProfileEditingProofs**.
* **EditingSession** - the overlay, the server process and the pipe between them.
  The overlay's functions are one action each (`Edit` is `updateDraft`,
  `SelectProfile`, `Undo`, `Activate`, `Save`, `Close`, `FinishClose`, `Refresh`,
  `HandOver` for the self-test and the installer); the callbacks are
  `ApplyReply`, `UndoReply`, `WriteError`, `StateReply`, `ActivateReply`, which
  end in `AfterWrite`; `ServerExits` is the process's end with everything it
  fails.  `Handle` answers one request, as `serve.rs` does under the lock.
  Profiles are one value each and drafts are always valid: what a draft holds is
  ProfileEditing's.
  **EditingSessionProofs** has its theorems.
* **ProfileEditing** - one profile as a draft, as the changes a save sends, and as
  bytes.  `DraftFromSlot`, `SetStage`, `RemoveStageKeepingRoles`, `ServeChanges`
  and `HasRoles` (no `draftProblem`) are the functions of `Model.js`; `SetCurrent`,
  `AddLevel`, `DragLevel`, `DragAway`, `ClickBar` are the handlers of the sensitivity page;
  `Accepted`, `Edited` are `plan_profile_changes` and the `ProfileEditor` it fills.
  The change is planned against the sector the mouse holds when it arrives, which
  `OtherWrites` may have replaced.  A binding is its text and the bytes the text does
  not carry; levels keep the two spellings of an unused stage.  The server's plan,
  write and answer are one step, since no edit of the overlay depends on the sector.
  `Levels` and `SortStages` order by counting what comes before (`InOrder`), which, unlike
  a recursive sort, can be proved about.
  **ProfileEditingProofs** has its theorems.
* **Daemon** - one action per stretch of code between two awaits; `World` is the
  user, the mouse, other processes and the editor of the rules file.  `pc` is
  where the task waits.  Focus is the app alone and a rules file is the function
  from apps to profiles that `profile_for` computes from it.  **DaemonProofs** has its
  theorems.
* **SelfTest** - the script of `omalogi verify`, one action per request (or per
  phase of like requests), against the server's requests as sets of outcomes:
  `Apply`, `Undo`, `SetEnabled`, `Activate`, `ReadState` and `Live` return every
  way the request can change the mouse, the undo stack and the answer.  What
  ProfileLoad does in several steps is one step here.  `Ask` is the client's
  request, `Result` the ones whose failure ends the test, `Go` a check of the
  tally.  A profile's contents are named by the phase that wrote them.  Its theorems
  are the second part of **DaemonProofs**.

* **OverlayView** - what the overlay knows of the mouse and how.  Mice are plugged in and
  out; the server opens the first one `find_supported` names and keeps it until it
  exits.  `StateReply`, `LiveReply`, `ActivateReply`, `ApplyReply`, `AcceptReply` and
  `RepairReply` are the callbacks of `Omalogi.qml`; `Refresh`, `Retry`, `Repair`,
  `RefreshLive`, `DaemonUpdated`, `Save`, `AcceptUntested` its functions; `Exits` is
  `OmalogiServer.onExited`, `Send` its `request`, `StopWhenIdle` what several callbacks
  end with.  `Handle` answers one request, writes gated by `MayWrite`
  (`ensure_writes_accepted`).  An edit is a number, and every profile is on: undo,
  unsaved profile switches and what a save does to memory are EditingSession's.
  **OverlayViewProofs** has its theorems.
* **Pictures** - the cache file by file, each with its temporary name, and runs of
  `omalogi picture` from the overlay and from a terminal: `ReadIndex`, `Advance`, `CheckFile`,
  `Fetch`, `CreateTmp`, `Write`, `Rename`, `ReadMetadata` are the stretches of
  `assets::load` between two accesses of the disk or the network.  A file is its revision,
  `Broken` when half written.  The host publishes a revision; `PictureFinished` is the
  overlay's callback.  Its theorems are in **OverlayViewProofs**.
* **Installation** - `install.sh`, `omalogi setup` and `uninstall.sh`, one action per
  change they make, in their order, and what is run between: the plugin manager, the package's
  install script, the shell, the user's shell.json, a replugged mouse.  A release is
  a number and so are its helper, its rule and each of its files.  `Fail` ends a step as
  `set -e` or setup's report does; `Kill` ends the run anywhere.  `Planned` is what
  the dry run names.
  **InstallationProofs** has its theorems.

Each module has one invariant, `Consistent` (in Pictures `CacheSound`, in ProfileDirectory
`DirectorySound`), that joins the type invariant with the plainer invariants of its state; other properties that belong
together are joined in the same way, and their parts have names and comments of their own.

The variables called history in each module record what happened for a
property to refer to; no action is guarded by one.  Definitions with a suffix
(`Save_Now`, `Stalled_Counted`) are faulty variants of the definition they are
named after; nothing uses them but the mutants of `PROJECT.json`.

## Runs

| Run | Bounds | What it shows |
|---|---|---|
| `sector_writes` | two profile sectors and the directory, three faults | job typing, `MemoryFollowsPlan`, `ReportIsTrue` and the refinement |
| `memory` | two profiles, two versions, three backup files, three faults or kills, one disturbed read | every command in a row: `BackupPrecedesWrites`, `Recoverable`, `RestoresAreExact`, and set-up order and some profile on (`Consistent`) |
| `load` | three profiles, two faults, one press | "now" and "when activated" are true (`ReportIsTrue`); `StaysInUse`; a profile turned off is not in use (`Consistent`) |
| `directory` | three profiles in four entries, one write cut short or entry gone bad, three factory directories | a directory that checks out is sound (`Consistent`); `RepairIsOldOrNew` |
| `session_saves` | two profiles, two versions, two edits, one fault, one write of another process | one write in flight (`Consistent`), `NothingLost`, `UndoReachesBackup` |
| `session_skipped` | as small as shows it | **violated**: see findings |
| `profile_edit` | three levels of three DPI values, one button and one wheel slot, two stored profiles, three edits, one write the overlay is not told of | `RolesKept`, `SavedAsDrafted`, `OthersKept`; drafts are accepted (`Consistent`) |
| `daemon` | two apps, two or three profiles, three changes of the world, two stalls | `RuleFollowed`, the state file is true (`Consistent`), and the mouse `Settles` |
| `self_test` | three profiles, two bindings writes, two undone writes, two failed requests, one press | `UndisturbedPasses`, `PassIsEarned`, memory put back and mouse usable (`SelfTestSound`) |
| `view` | two untested mice, two profiles, two edits, one event of any kind | `WrittenAsAgreed`, `UnsavedSurvives`, `FollowsMouse`, `EditsSettle`, `LetsGo`, flags match requests (`Consistent`) |
| `pictures` | one view in two colours, two revisions, two processes, one fault, one command in a terminal; from an empty cache or one two killed commands broke | `CacheSound`, `CacheServes`, `ColorShown`, and the overlay `StopsAsking` |
| `installation` | two releases, four plugin files, one failed step or kill, two changes by others | `DoneIsDone`, `ShellIsCurrent`, `UninstallerGoesLast`, the plan is kept (`Consistent`) |

Why the bounds are enough.  Three sectors are a directory, the profile written
and another; a third kind of sector does not exist.  Three profiles in `load`
are the one written, the one switched through and one the firmware or
the user moves to.  Two edits let one be in flight and one arrive meanwhile (three were
checked once without writes of others); the second profile is the one a save must not be confused with.  Faults
are a budget over a whole behaviour: two let a failure hit the handling of
a failure, three the handling of that.  In `self_test` the live settings are read twice
instead of three times before a miss counts, so that two faults reach the end of
the retries.  In `profile_edit` three values give a removed level a nearest
one on either side and let levels meet and pass each other; the stored profiles
have gaps of both kinds, levels out of order, a default that points at nothing
and bindings without text; the intervals are ones whose Hz the overlay and the
server compute alike (6 and 7 ms are not: `RateAssumption`); three edits let one be saved, one be made
meanwhile and one follow.  In `view` two mice are the one a question was about
and the one that is there when it is answered, both are plugged in at first, or none,
so that one event exchanges them, and the queue is cut only for
acceptances and activations, which nothing else limits.  In `pictures` one fault or kill can hit any
access and the second initial state is what two can leave; the invariants were also
checked once with two terminal commands.  In `installation` two releases are an older and a newer one, the
four files are the manifest, which is written first, the uninstaller, the file that
holds the version and one after it, and two changes by others are one before and one
during a run; the properties were also checked once with two faults.  Each bound is a constant in a guard.

Where a run has `CHECK_DEADLOCK FALSE` the system really stops: a command that
ended with the bound on commands spent, a directory that no command repairs, a
self-test that has reported.

Fairness.  In EditingSession the animation, the timer, the server and the
reading of its output go on by themselves (weak fairness); nothing is assumed of
the user, of faults or of other processes.  In OverlayView the same hold, and the
live poll's timer; a mouse, a daemon or a user owes nothing, so `FollowsMouse` is stated for an
overlay that is left open on a mouse that stays.  In Pictures a command that runs
goes on; nothing is assumed of the host.  In Daemon the task's own steps are
weakly fair, as the runtime and the service manager make them; handling an event
is strongly fair, because the ticker waits three seconds between ticks, so
`select!` cannot choose a tick for ever while an event waits; other
processes release the lock, since their commands end; and an unplugged mouse
is plugged in again.  Nothing is assumed of presses, focus or edits of the file.

## Findings

`session_skipped`: `unchangedChanges` survives a later save, and the same change made
again is silently not sent.

Two more disagreements with what the repository says were met, which no run states:

* A slot past the physical buttons (the wheel) can be edited while the profile
  binds it.  The overlay goes by the slot it read last, the server by what the mouse
  holds: disabled, saved, and bound again while that save is in flight, the slot is
  refused, and with it everything else the draft holds, against the comment on
  `saving` (`src/plugin/Omalogi.qml:69`: edits made meanwhile are saved after it).
* The self-test selects the profile that was in use before it restores the backup;
  the restore writes the directory, after which the firmware may move its current
  profile, so a test that passes can end on another one, against
  `src/README.md:184` ("puts everything back") and the check in `src/tests/verify.rs:80`.

What the properties except by name, with the history variable that names it:

* `raced` (EditingSession): the reply to an undo drops edits made meanwhile.
* `overlooked` (Daemon): a press since the last poll.
* `left` (OverlayView): the server keeps running after the overlay closed when the
  last thing that happened was the reply to an activation or an acceptance, an error, or a timer
  with nothing to save.
* `agreed` (OverlayView): the question about an untested mouse stays on screen when the mouse is
  exchanged; the click accepts whichever mouse is opened next.
* `clashed` (Pictures): two commands write the same temporary file; killed while they
  clash they leave an index that no run but `--refresh` gets over, and the overlay
  never asks for one.
* `left` (Installation): a run that ended between the last plugin file and the rescan, or
  between the copy of the udev rule and its trigger; and an uninstall, which removes a rule
  without a trigger.  Later runs find the files in place and do neither.
* `mixed` (Installation): the shell loaded files while they were replaced; when the
  version was already the new one nothing tells it.

Also real, from the models' runs: the marks of the profile in use can be wrong until the next
reading (`withSlot` replaces one profile and leaves the others marked); a draft is kept
when another mouse of a different model is plugged in, and saved onto it; a directory damaged after
the first reading is only reported in the footer, without the card that repairs it, and an
untested mouse with a damaged directory cannot be repaired from the overlay, because it
cannot be accepted there; a retry on a live server goes to the process that is
stopping and fails once; the picture of the previous mouse stays after an exchange; a failed
refresh leaves a new index with old files; a helper that was half written is not removed by the
uninstaller; setup's advice on access looks for the rule in `/usr/lib` only, where the installer does
not put it.

Hazards that are real and that no property covers have a note in
`PROJECT.json`: a backup that holds one damaged sector and is refused as a whole,
another process's change that a later save reverts, what a save in flight leaves of a
draft, and the daemon's stale comparison.
Two more are outside the models: a press between the in-use check and the
directory write, which nothing in the code could prevent, and a state file left by a
daemon that was killed.

## Proofs

`SectorWritesProofs` proves, for every memory, plan and number of faults:

* `TypeCorrect`: the typing of a job.
* `MemoryAlwaysFollowsPlan`: sectors before the current one hold their new bytes,
  sectors after it their old ones.
* `ReportsAreTrue`: success, roll-back and failure are reported as they are.
* `WritesImplementAtomicWrites`: every step maps to a step of AtomicWrites or
  to a stutter.

Assumptions are the named ASSUMEs of SectorWrites on its constants (plans
name distinct sectors; the fault bound is a number).  `MemoryFollowsPlan` and
`ReportIsTrue` are not inductive: a report is true because of what the sector
held when the step before it was taken.  The inductive invariant adds, for
each place in `write_verified`, what the current sector can hold there; the
proof has a step for each action.  The refinement uses the same
invariant.

`ProfileMemoryProofs` proves, for any number of profiles, contents and backup names, and any
number of faults, kills and disturbed reads:

* `MemoryStaysUsable`: `Consistent`.  A first directory is written after the profiles it lists, and
  no command turns every profile off.
* `BackupsComeFirst`: `BackupPrecedesWrites`.
* `DamageIsRecoverable`: `Recoverable`.
* `RestoresAreAlwaysExact`: `RestoresAreExact`.

The writing is SectorWrites', and `JobKeeps` takes what a sector holds after each of its requests from
SectorWritesProofs' invariant.  On top of it the inductive invariant says what was known when the
list of writes was made (`PlanInv`): which sectors it names, in which order, what they hold in memory
and what is to be written (`SoundPlan`), since a restore's order and a first set-up's
safety are facts of the list and not of any step; what each stage of a command has done
(`StageInv`); that the backup a command saved holds what its sectors held (`BackupInv`);
and that while a sector is damaged some file holds what it held before (`SafeInv`, with
`HeldInv` for the sectors noise was read from).  One disturbed read is not enough to plan from noise, because
the code reads twice; the properties that depend on it say so with `noise < 2`.

`ProfileLoadProofs` proves, for any number of profiles, failed requests, kills and presses:

* `OffIsNeverInUse`: `Consistent`.  `OffInv` carries it over a toggle, whose check and whose
  write are apart.
* `LoadReportsAreTrue`: `ReportIsTrue`.  `ReloadInv` says what the mouse runs at each place of the
  switch away and back.
* `InUseStays`: `StaysInUse`.  `UseInv` says where the profile in use before the command is,
  wherever the command has got to.

`EditingSessionProofs` proves, for any profiles and contents, and any number of edits, requests,
failures, exits of the server and writes of other processes:

* `OneWriteAtATime`: `Consistent`.  `PipeInv` says it request by request, and that a save in
  flight is of the profile shown, which is what lets a reply be taken for the draft's.
* `UndoLeadsBack`: `UndoReachesBackup`.  Taking steps back one after another is a recursion, so
  `Unwind` is first shown, by the well-foundedness of the natural numbers, to give each profile
  what its oldest step holds (`UnwindIsTakenBack`); `StackInv` says that this is what the
  backup holds.
* `NoEditIsLost`: `NothingLost`.  While a write is in flight the memory, what was read last,
  the draft and what the user wants differ in every way a reply can leave them, so `LostInv` says
  of each what the replies still to be read will make of it: what a
  reply says is so unless a later one says otherwise (`RepliesInv`), and so for what is shown
  (`ShownInv`), wanted (`WantedInv`) and drafted (`DraftInv`).  When a
  reply was read these collapse into `Settled`, which the next profile, the next save or nothing
  to do keep.

`ProfileEditingProofs` proves, for every sensor, set of slots and stored profile, and any number
of edits and writes of other processes:

* `RolesStay`: `RolesKept`.  Each edit keeps a draft a draft and its roles among its levels
  (`MoveIs`, `InsertIs`, `RemoveIs`, `FieldKeeps`).  The roles move by value, so the lemmas need
  that sorting keeps which levels there are (`SortIs`) and that taking one out leaves a nearest
  one (`FirstLeast`).  It is inductive only with what a save in flight is known of
  (`InFlightIsWhole`): the draft it leaves behind has both roles, and so keeps them when the
  answer replaces `original` by a profile that may have or lack its own.
* `EditsAreTaken`: `Consistent`.  The change of a draft made from the sector in memory names
  levels the sensor supports, roles that some stage has afterwards (`RolePlanned`) and a rate that
  has an interval (`OfferedHasInterval`); for the last `RatesOffered` says that every rate,
  in bytes, in a step of the undo stack or in a draft, is one the mouse offers.
* `SavesReadBack`: `SavedAsDrafted`.  `ReadsBackAsDrafted` goes from the changes through the plan
  to the bytes and back: what the stages in use spell is the list written (`LevelsOfFirst`), an index
  found by value points at that value (`IndexIs`), and an interval chosen for a rate rounds
  to it (`RatePlanned`).  A draft without a rate sends none, so its rate may differ.

* `SavesKeepTheRest`: `OthersKept`.  A save writes nothing but what the draft changed,
  whatever the mouse holds by then.  It needs no invariant: the lemmas follow
  each field from `serveChanges` through the plan to the bytes, and the one about
  unused stages uses that an accepted change has supported DPI values, which are
  never 0 or 0xFFFF (`SensorAssumption`).

and of ProfileDirectory, for any number of profiles, factory directories and damage:

* `DirectoryStaysSound`: `DirectorySound`.  What matches its checksum need not only be sound but
  laid out (`Laid`: entries up to `ProfileCount`, erased flash behind), since that is what turning a
  profile on or off is given, and what a write cut short leaves of it.
* `RepairsInventNothing`: `RepairIsOldOrNew`.  `DirInv` says of a directory that fails its checksum,
  while nothing else damaged it, that what it lists is from the directory before the write or the one written
  (`FromEither`), or that it was never written.  A list ends at the first erased entry, so the
  lemmas count entries before they compare them.

`DaemonProofs` proves, for any apps, profiles and rules files, and any number of changes
and stalls:

* `RuleHolds`: `RuleFollowed`.  It is not inductive: within a handler the rule need
  not be followed yet.  `RuleInv` says that outside apply_rules, whenever nothing is
  known that would have the rules applied (`Quiet`), the rule is on the mouse or cannot
  be.  `Quiet` counts the events that wait, and that they cannot hide a change of
  the app is `FocusInv`: the last one is the app in focus.
* `StateHolds`: `Consistent`.  What the daemon takes for the active profile is what it
  last read, and what it published when the handler ended (`ActiveInv`).

and of SelfTest, for any number of profiles, of writes in each phase, of retries of live reads, and
any number of failed requests and presses of the button:

* `SelfTestStaysSound`: `SelfTestSound`.  `UseInv` says that the test profile is not in use while it
  holds the bindings tried, by the place of the script, and that nothing undo can bring back in the
  last phase is one of them (`UndoInv`); `MemoryInv` needs that what the phases write is
  of rising rank, or a write in use could already be there and leave no step to undo.
* `UndisturbedTestPasses`: `UndisturbedPasses`.  `CalmInv` says what every check relies on
  while nothing disturbs the test: which profiles are on (`Chosen`), that undo is as deep as the
  script remembers (`Depth`), that the last steps of undo lead back through what was written
  (`Taken`, with `Backs`) and in use down to the snapshot (`InUseAsWritten`, with `Climbs`), and that the mouse runs
  what was written.  One lemma for each kind of request says what its outcomes can be
  (`ApplyIs`, `UndoIs`, `SetEnabledIs`, `ActivateIs`, `RestoreIs`), and each of the 36 actions is
  one lemma that takes the conjuncts in turn.
* `PassIsWhatItSays`: `PassIsEarned`.  A request that failed made the tally fail
  (`ReportInv`), and what the put-back restored is as found unless it failed itself.

`OverlayViewProofs` proves, for every set of mice and any number of requests, edits and
exchanges:

* `AgreementHolds`: `WrittenAsAgreed`.  The inductive invariant says where an agreement
  on its way to the server is valid: with a mouse open the user agreed to that one, and
  a server still to find a mouse has the agreement to any (`Agreement`); the
  dialog is only up when a mouse was read (`Dialog`); a server that is not on has no
  mouse, and none at all has no requests (`Process`).  It uses nothing of what the requests
  carry, so they are typed by their own elements.
* `FlagsHold`: `Consistent`.  A flag is one request, so the lemmas count lines: what sending,
  answering and reading one do to the number of a kind (`SendCounted`, `ReadCounted`, ...), and that a save sets
  `saving` when it sends and only then (`SaveCounted`).  Typing the answers needs that a line that
  saves or activates names a profile (`LinesMeant`).
* `ServerIsLetGo`: `LetsGo`, from the same invariant `ViewInv`: a flag that is set is a request under
  way, and an open overlay has its window (`MountInv`).
* `EditsSurvive`: `UnsavedSurvives`.  There are edits only of a mouse that was read (`EditInv`), so
  the first reading, which replaces the draft, replaces none.

and of Pictures, for any views, revisions and lists of files, and any number of commands, failures and kills:

* `CacheStaysSound`: `CacheSound`.  `RunFits` says what one run is about to do, by place: its files
  are renders its index lists, and what it fetched is the version listed.  `OwnBytes` says
  that a run that met no other one renames its own bytes, and `Met` that two runs that write one
  file have met.  What a run returned so far is as its index lists (`PlacedFor`): it follows from the
  files it has passed, and a rename only adds to them.
* `CacheIsEnough`: `CacheServes`.  `CachedFor` and `HostedFor` say by which index a run goes that
  found everything in the cache, or that may download from a host that holds one revision.
* `ColorIsTheSwitch`: `ColorShown`.

The proofs about ProfileDirectory, SelfTest and Pictures are the second parts of their modules and
share no lemma with the first.

`InstallationProofs` proves, for every list of plugin files, every set of releases and
any number of failures, kills and changes by others:

* `DoneHolds`: `DoneIsDone`.  For each of the steps of setup the inductive invariant says what the
  earlier ones left (`PluginInv`, `BarInv`, `DaemonInv`), for the installer that the
  rule is this release's once it is past that step (`RuleInv`), and at any time that the rule in
  force is the one there is or a trigger is due (`ForceInv`).
* `FolderGoesLast`: `UninstallerGoesLast`.  What is not on the uninstaller's list is not
  there (`RemoveInv`), and the plugin is taken from the list last.
* `PlanHolds`: `Consistent`.  The installer's dry run and the setup that follows walk the same steps
  apart.  `PlanInv` says that what setup has done and what is before it (`Todo`) is planned,
  and while no step failed that the whole plan is done or before it.
* `ShellHolds`: `ShellIsCurrent`.  `FoundInv`: a shell that has not found a complete folder is about to be
  told, unless the telling is what a run left out; `RunsInv`: what it runs is of one version
  unless files were loaded while they were replaced.

These invariants were also checked by TLC on the instances of `memory`, `load`,
`session_saves`, `profile_edit`, `directory`, `pictures`, `daemon`, `self_test`, `view` and `installation`.  Their assumptions are the ASSUMEs on the constants of these modules:
profiles are numbers from 1 and rules files pick among them, the mouse was not handed over with a
directory that checks out and has every profile off, bytes that fail their checksum are no contents, other processes write rates the mouse offers or none,
a mouse has at most 256 levels, the counts of profiles fit in a byte, each phase of the self-test writes at least once, some view is asked for, `NoMouse` is no mouse, the
plugin's files include the three the model names and are distinct, and a half-written helper is
no release.

Only model-checked: liveness, which rests on fairness TLAPS does not handle (`Settles`,
`EditsSettle`, `FollowsMouse`, `StopsAsking`).  Every invariant and every property of steps
that a run checks is also stated by a theorem.

## Not modelled

Profile names and the texts of actions (`action.rs`, `label.rs`, `text.rs`), the
precedence of rules, the parsing of Hyprland's events, the layout of the overlay, its
drag and drop and shortcut recorder, and turning profiles on and off from the overlay
(the writes are ProfileMemory's and ProfileLoad's).  `check.rs` only reads and
reports.  Of `hidraw.rs` and `wireless.rs` only which mouse is found and its loss are
modelled; the rest is transport, whose failures are the failed requests of the
other modules.  Of the installer: systems without Omarchy, and a rule in `/usr/lib`
that no package owns.

## What could follow

1. Action texts and the precedence of rules, as operators checked against
   reference definitions.
2. Enabling of profiles from the overlay, in EditingSession, with undo.
