---------------------------- MODULE EditingSession --------------------------
(***************************************************************************)
(* The overlay and its server: edits that save themselves after a pause,   *)
(* one write in flight at a time, undo, switching profiles and closing     *)
(* while a write is under way (src/plugin/Omalogi.qml), the process that   *)
(* answers its requests in order (src/plugin/OmalogiServer.qml), and what  *)
(* `omalogi serve' does for each (src/src/serve.rs).  The server can fail  *)
(* a request, before or after the memory changed, or die; other processes  *)
(* write the memory between two requests, under the device lock.           *)
(*                                                                         *)
(* A profile is one value that an edit replaces: fields are not told       *)
(* apart, and every draft can be saved.  The overlay starts loaded, on a   *)
(* mouse that is accepted for editing.                                     *)
(***************************************************************************)
EXTENDS Naturals, Sequences, SequencesExt

CONSTANTS
    Profile,        \* positive numbers
    Version,        \* contents of a profile
    MaxEdits,       \* bound: edits the user makes
    MaxFaults,      \* bound: failed requests, exits and writes of other processes
    MaxOthers,      \* bound: writes of other processes, of those
    MaxQueue        \* bound: requests waiting when the user activates

NoProfile == 0
ASSUME ProfileAssumption == Profile # {} /\ Profile \subseteq Nat \ {NoProfile}
ASSUME VersionAssumption == Version # {}
ASSUME BoundsAssumption == {MaxEdits, MaxFaults, MaxOthers, MaxQueue} \subseteq Nat

VARIABLES
    mem,            \* the mouse: mem[p] is what profile p holds
    \* the server
    server,         \* "off", "on", or "stopping": told to stop
    backup,         \* what its backup holds, <<>> before its first write
    stack,          \* the steps it can undo
    requests,       \* lines it has not answered
    replies,        \* lines the overlay has not read
    \* the overlay
    opened, mounted, loading,
    cursor,         \* the profile shown
    shown,          \* shown[p]: profile p as last read (`onboard')
    original, draft,\* the profile shown as the mouse has it, and as edited
    timer,          \* saveTimer is running
    saving, undoing,
    undoDepth,
    pendingCursor,
    unchanged,      \* the save the mouse turned out to have already
    \* history and bounds
    wanted,         \* wanted[p]: what the user last asked profile p to hold
    told,           \* profiles whose last write was reported as failed
    raced,          \* an edit was made while an undo was in flight
    stale,          \* a save took effect and left `unchanged' behind
    foreign,        \* memory changed since the backup and no step undoes it
    edits, faults, others

serverVars  == <<server, backup, stack, requests>>
overlayVars == <<opened, mounted, loading, cursor, shown, original, draft, timer,
                 saving, undoing, undoDepth, pendingCursor, unchanged>>
history     == <<wanted, told, raced, stale, foreign>>
bounds      == <<edits, faults, others>>
vars == <<mem, serverVars, replies, overlayVars, history, bounds>>

NoSave == <<>>
Request == [cmd : {"apply"}, profile : Profile, value : Version]
           \cup [cmd : {"undo", "state", "activate"}]
Reply == [to : {"apply", "undo", "state", "activate"}, ok : {FALSE},
          profile : Profile \cup {NoProfile}]
         \cup [to : {"apply", "undo"}, ok : {TRUE}, profile : Profile, value : Version,
               effect : BOOLEAN, undo : Nat]
         \cup [to : {"state"}, ok : {TRUE}, profiles : [Profile -> Version]]
         \cup [to : {"activate"}, ok : {TRUE}]
UndoStep == [profile : Profile, previous : Version]

TypeOK ==
    /\ mem \in [Profile -> Version] /\ shown \in [Profile -> Version]
    /\ server \in {"off", "on", "stopping"}
    /\ backup \in {<<>>} \cup [Profile -> Version]
    /\ stack \in Seq(UndoStep) /\ requests \in Seq(Request) /\ replies \in Seq(Reply)
    /\ {opened, mounted, loading, timer, saving, undoing, raced, stale, foreign} \subseteq BOOLEAN
    /\ cursor \in Profile /\ pendingCursor \in Profile \cup {NoProfile}
    /\ original \in Version /\ draft \in Version
    /\ undoDepth \in Nat
    /\ unchanged \in {NoSave} \cup (Profile \X Version)
    /\ wanted \in [Profile -> Version] /\ told \subseteq Profile
    /\ edits \in 0..MaxEdits /\ faults \in 0..MaxFaults /\ others \in 0..MaxOthers

Init ==
    /\ mem \in [Profile -> Version]
    /\ server = "on" /\ backup = <<>> /\ stack = <<>> /\ requests = <<>> /\ replies = <<>>
    /\ opened = TRUE /\ mounted = TRUE /\ loading = FALSE
    /\ cursor \in Profile
    /\ shown = mem /\ original = mem[cursor] /\ draft = original
    /\ timer = FALSE /\ saving = FALSE /\ undoing = FALSE
    /\ undoDepth = 0 /\ pendingCursor = NoProfile /\ unchanged = NoSave
    /\ wanted = mem /\ told = {} /\ raced = FALSE /\ stale = FALSE /\ foreign = FALSE
    /\ edits = 0 /\ faults = 0 /\ others = 0

Fault == faults + others < MaxFaults /\ faults' = faults + 1

inFlight == Len(requests) + Len(replies)
dirty == draft # original
busy  == saving \/ undoing

-----------------------------------------------------------------------------
(* OmalogiServer: a request starts the process when there is none.  One    *)
(* that was told to stop still takes lines until it has exited.            *)
Send(r) ==
    /\ requests' = Append(requests, r)
    /\ IF server = "off"
       THEN server' = "on" /\ backup' = <<>> /\ stack' = <<>>
       ELSE UNCHANGED <<server, backup, stack>>

(* stopServerWhenIdle, with the overlay's state and the requests after     *)
(* this step.                                                              *)
StopWhenIdle ==
    /\ server' = IF ~opened' /\ Len(replies') = 0 /\ requests = <<>> /\ ~timer' /\ server = "on"
                 THEN "stopping" ELSE server
    /\ UNCHANGED <<backup, stack, requests>>

SendApply(p, v) == Send([cmd |-> "apply", profile |-> p, value |-> v]) /\ saving' = TRUE

(* save() has something to send. *)
Unsaved == dirty /\ <<cursor, draft>> # unchanged

LoadDraft(p) ==
    /\ cursor' = p
    /\ original' = shown'[p]
    /\ draft' = shown'[p]
    /\ unchanged' = NoSave

-----------------------------------------------------------------------------
(* What the user does. *)
Edit(v) ==
    /\ opened
    /\ edits < MaxEdits /\ edits' = edits + 1
    /\ draft' = v
    /\ timer' = (v # original)
    /\ wanted' = [wanted EXCEPT ![cursor] = v]
    /\ raced' = (raced \/ undoing)
    /\ UNCHANGED <<mem, serverVars, replies, opened, mounted, loading, cursor, shown, original,
                   saving, undoing, undoDepth, pendingCursor, unchanged, told, stale, foreign,
                   faults, others>>

(* Faulty variant: the profile waiting to be shown is counted from one more. *)
SelectProfile_OffByOne(p) ==
    /\ opened
    /\ p # cursor
    /\ timer' = FALSE
    /\ busy
    /\ pendingCursor' = p + 1
    /\ UNCHANGED <<mem, serverVars, replies, opened, mounted, loading, cursor, shown, original,
                   draft, saving, undoing, undoDepth, unchanged, history, bounds>>

SelectProfile(p) ==
    /\ opened
    /\ p # cursor
    /\ timer' = FALSE
    /\ UNCHANGED <<mem, replies, opened, mounted, loading, shown, undoing, undoDepth,
                   history, bounds>>
    /\ IF busy \/ Unsaved
       THEN /\ pendingCursor' = p
            /\ UNCHANGED <<cursor, original, draft, unchanged>>
            /\ IF busy THEN UNCHANGED <<serverVars, saving>> ELSE SendApply(cursor, draft)
       ELSE /\ LoadDraft(p)
            /\ UNCHANGED <<serverVars, saving, pendingCursor>>

(* Drops what is not saved yet, or asks the server to undo its last step.  *)
Undo ==
    /\ opened
    /\ ~busy
    /\ timer' = FALSE
    /\ IF dirty
       THEN /\ draft' = original
            /\ wanted' = [wanted EXCEPT ![cursor] = original]
            /\ UNCHANGED <<serverVars, undoing>>
       ELSE /\ undoDepth > 0
            /\ undoing' = TRUE
            /\ Send([cmd |-> "undo"])
            /\ wanted' = IF stack' = <<>> THEN wanted
                         ELSE [wanted EXCEPT ![Last(stack).profile] = Last(stack).previous]
            /\ UNCHANGED draft
    /\ UNCHANGED <<mem, replies, opened, mounted, loading, cursor, shown, original, saving,
                   undoDepth, pendingCursor, unchanged, told, raced, stale, foreign, bounds>>

Activate ==
    /\ opened
    /\ inFlight < MaxQueue
    /\ Send([cmd |-> "activate"])
    /\ UNCHANGED <<mem, replies, overlayVars, history, bounds>>

(* Faulty variant: a save does not wait for the write in flight. *)
Save_Now ==
    /\ timer' = FALSE
    /\ IF Unsaved THEN SendApply(cursor, draft) ELSE UNCHANGED <<serverVars, saving>>
    /\ UNCHANGED <<mem, replies, mounted, loading, cursor, shown, original, draft, undoing,
                   undoDepth, pendingCursor, unchanged, history, bounds>>

(* save(), once the timer is stopped: it waits again while a write is in   *)
(* flight.                                                                 *)
Save ==
    /\ timer' = (dirty /\ busy)
    /\ IF ~busy /\ Unsaved THEN SendApply(cursor, draft) ELSE UNCHANGED <<serverVars, saving>>
    /\ UNCHANGED <<mem, replies, mounted, loading, cursor, shown, original, draft, undoing,
                   undoDepth, pendingCursor, unchanged, history, bounds>>

(* The pause after an edit is over, or the user pressed Ctrl+S. *)
TimerFires == timer /\ Save /\ UNCHANGED opened
SaveKey    == opened /\ dirty /\ Save /\ UNCHANGED opened

(* Closing saves what the timer was waiting to save. *)
Close ==
    /\ opened
    /\ opened' = FALSE
    /\ \/ timer /\ Save
       \/ ~timer /\ UNCHANGED <<mem, serverVars, replies, mounted, loading, cursor, shown,
                                original, draft, timer, saving, undoing, undoDepth,
                                pendingCursor, unchanged, history, bounds>>

(* The exit animation is over. *)
FinishClose ==
    /\ ~opened /\ mounted
    /\ mounted' = FALSE
    /\ UNCHANGED <<opened, timer, replies>>
    /\ StopWhenIdle
    /\ UNCHANGED <<mem, loading, cursor, shown, original, draft, saving, undoing, undoDepth,
                   pendingCursor, unchanged, history, bounds>>

Refresh ==
    /\ loading' = TRUE
    /\ IF loading THEN UNCHANGED serverVars ELSE Send([cmd |-> "state"])
    /\ UNCHANGED <<mem, replies, cursor, shown, original, draft, timer, saving, undoing,
                   undoDepth, pendingCursor, unchanged, history, bounds>>

Open       == ~opened /\ opened' = TRUE /\ mounted' = TRUE /\ Refresh
RefreshKey == opened /\ ~dirty /\ ~saving /\ ~loading /\ Refresh /\ UNCHANGED <<opened, mounted>>

(* runSelfTest, installHelper: the server is stopped whatever it is doing, *)
(* then the overlay closes, which saves what the timer was waiting to save. *)
HandOver ==
    /\ opened
    /\ Fault
    /\ server = "on" /\ server' = "stopping"
    /\ opened' = FALSE
    /\ timer' = (timer /\ dirty /\ busy)
    /\ IF timer /\ ~busy /\ Unsaved
       THEN /\ saving' = TRUE
            /\ requests' = Append(requests, [cmd |-> "apply", profile |-> cursor, value |-> draft])
       ELSE UNCHANGED <<saving, requests>>
    /\ UNCHANGED <<mem, backup, stack, replies, mounted, loading, cursor, shown, original, draft,
                   undoing, undoDepth, pendingCursor, unchanged, history, edits, others>>

-----------------------------------------------------------------------------
(* Replies. *)

(* afterWrite, with what the reply made of the draft: edits made while the *)
(* write was in flight are saved next, then the profile the user chose     *)
(* meanwhile is shown.                                                     *)
AfterWrite(ok, was, now, key) ==
    LET more    == ok /\ now # was
        pending == pendingCursor # NoProfile
    IN  CASE more /\ opened /\ ~pending ->
                 /\ timer' = TRUE /\ saving' = FALSE
                 /\ original' = was /\ draft' = now /\ unchanged' = key
                 /\ UNCHANGED <<cursor, pendingCursor, serverVars>>
          [] more /\ ~(opened /\ ~pending) /\ <<cursor, now>> # key ->
                 /\ original' = was /\ draft' = now /\ unchanged' = key
                 /\ SendApply(cursor, now)
                 /\ UNCHANGED <<cursor, pendingCursor, timer>>
          [] OTHER ->
                 /\ saving' = FALSE
                 /\ IF pending
                    THEN LoadDraft(pendingCursor)
                    ELSE original' = was /\ draft' = now /\ unchanged' = key /\ UNCHANGED cursor
                 /\ pendingCursor' = NoProfile
                 /\ UNCHANGED timer
                 /\ StopWhenIdle

(* Faulty variant: the draft becomes what was saved. *)
ApplyReply_DraftSaved(r) ==
    /\ r.to = "apply" /\ r.ok
    /\ shown' = [shown EXCEPT ![r.profile] = r.value]
    /\ undoDepth' = r.undo
    /\ stale' = (stale \/ (r.effect /\ unchanged # NoSave))
    /\ AfterWrite(TRUE, r.value, r.value, IF r.effect THEN unchanged ELSE <<r.profile, r.value>>)
    /\ told' = told \ {r.profile}
    /\ UNCHANGED <<undoing, loading>>

ApplyReply(r) ==
    /\ r.to = "apply" /\ r.ok
    /\ shown' = [shown EXCEPT ![r.profile] = r.value]
    /\ undoDepth' = r.undo
    /\ stale' = (stale \/ (r.effect /\ unchanged # NoSave))
    /\ AfterWrite(TRUE, IF cursor = r.profile THEN r.value ELSE original, draft,
                  IF r.effect THEN unchanged ELSE <<r.profile, r.value>>)
    /\ told' = told \ {r.profile}
    /\ UNCHANGED <<undoing, loading>>

(* The draft becomes what the undo put back. *)
UndoReply(r) ==
    /\ r.to = "undo" /\ r.ok
    /\ undoing' = FALSE
    /\ shown' = [shown EXCEPT ![r.profile] = r.value]
    /\ undoDepth' = r.undo
    /\ IF cursor = r.profile
       THEN AfterWrite(TRUE, r.value, r.value, NoSave)
       ELSE AfterWrite(TRUE, original, draft, NoSave)
    /\ told' = told \ {r.profile}
    /\ UNCHANGED <<loading, stale>>

(* The footer says what failed. *)
WriteError(r) ==
    /\ r.to \in {"apply", "undo"} /\ ~r.ok
    /\ UNCHANGED <<shown, undoDepth, loading, stale>>
    /\ undoing' = (undoing /\ r.to # "undo")
    /\ told' = told \cup ({r.profile} \ {NoProfile})
    /\ AfterWrite(FALSE, original, draft, unchanged)

StateReply(r) ==
    /\ r.to = "state"
    /\ loading' = FALSE
    /\ UNCHANGED <<saving, undoing, undoDepth, pendingCursor, timer, told, stale>>
    /\ IF r.ok
       THEN /\ shown' = r.profiles
            /\ IF dirty \/ busy THEN UNCHANGED <<cursor, original, draft, unchanged>>
                                ELSE LoadDraft(cursor)
            /\ StopWhenIdle
       ELSE UNCHANGED <<shown, cursor, original, draft, unchanged, serverVars>>

ActivateReply(r) ==
    /\ r.to = "activate"
    /\ UNCHANGED <<loading, cursor, shown, original, draft, timer, saving, undoing, undoDepth,
                   pendingCursor, unchanged, serverVars, told, stale>>

ReadReply ==
    /\ replies # <<>>
    /\ replies' = Tail(replies)
    /\ UNCHANGED <<mem, opened, mounted, wanted, raced, foreign, bounds>>
    /\ LET r == Head(replies)
       IN  ApplyReply(r) \/ UndoReply(r) \/ WriteError(r) \/ StateReply(r) \/ ActivateReply(r)

(* The process is gone: every request still waiting fails, and nothing is  *)
(* sent again by itself.                                                   *)
ServerExits ==
    /\ server' = "off" /\ backup' = <<>> /\ stack' = <<>> /\ requests' = <<>> /\ replies' = <<>>
    /\ loading' = FALSE /\ saving' = FALSE /\ undoing' = FALSE
    /\ told' = IF undoing THEN Profile ELSE IF saving THEN told \cup {cursor} ELSE told
    /\ foreign' = FALSE
    /\ UNCHANGED <<mem, opened, mounted, shown, timer, undoDepth, wanted, raced, stale,
                   edits, others>>
    /\ IF busy /\ pendingCursor # NoProfile
       THEN LoadDraft(pendingCursor) /\ pendingCursor' = NoProfile
       ELSE UNCHANGED <<cursor, original, draft, unchanged, pendingCursor>>

ServerDies  == server = "on" /\ Fault /\ ServerExits
ServerStops == server = "stopping" /\ ServerExits /\ UNCHANGED faults

-----------------------------------------------------------------------------
(* serve.rs: one request at a time, each under the device lock. *)
Answer(r) ==
    /\ requests' = Tail(requests)
    /\ replies' = Append(replies, r)

Refuse(cmd, p) == Answer([to |-> cmd, ok |-> FALSE, profile |-> p])

Report(cmd, p, value, effect) ==
    Answer([to |-> cmd, ok |-> TRUE, profile |-> p, value |-> value, effect |-> effect,
            undo |-> Len(stack')])

Put(p, v) == mem' = [mem EXCEPT ![p] = v]

(* ensure_backup: once a session. *)
EnsureBackup == backup' = IF backup = <<>> THEN mem ELSE backup

(* apply: the step is kept once the write is verified; an active profile   *)
(* that the mouse does not load is no error, a request lost on the way is. *)
Apply(p, v) ==
    \/ /\ mem[p] = v
       /\ UNCHANGED <<mem, backup, stack, foreign, faults>>
       /\ Report("apply", p, v, FALSE)
    \/ /\ mem[p] # v
       /\ EnsureBackup
       /\ Put(p, v)
       /\ stack' = Append(stack, [profile |-> p, previous |-> mem[p]])
       /\ UNCHANGED foreign
       /\ \/ UNCHANGED faults /\ Report("apply", p, v, TRUE)
          \/ Fault /\ Refuse("apply", p)
    \/ /\ Fault
       /\ EnsureBackup \/ UNCHANGED backup
       /\ \/ UNCHANGED <<mem, foreign>>
          \/ mem[p] # v /\ backup' # <<>> /\ Put(p, v) /\ foreign' = TRUE
       /\ UNCHANGED stack
       /\ Refuse("apply", p)

(* Faulty variant: the step is gone even when the write fails. *)
UndoLast_Popped ==
    /\ UNCHANGED <<backup, foreign>>
    /\ stack # <<>>
    /\ stack' = Front(stack)
    /\ LET step == Last(stack) IN
       \/ /\ Put(step.profile, step.previous)
          /\ Report("undo", step.profile, step.previous, TRUE)
          /\ UNCHANGED faults
       \/ Fault /\ UNCHANGED mem /\ Refuse("undo", step.profile)

(* undo: the step is kept unless its bytes were written, or were there     *)
(* already.                                                                *)
UndoLast ==
    /\ UNCHANGED <<backup, foreign>>
    /\ IF stack = <<>>
       THEN Refuse("undo", NoProfile) /\ UNCHANGED <<mem, stack, faults>>
       ELSE LET step == Last(stack) IN
            \/ /\ Put(step.profile, step.previous)
               /\ stack' = Front(stack)
               /\ \/ /\ Report("undo", step.profile, step.previous,
                                mem[step.profile] # step.previous)
                     /\ UNCHANGED faults
                  \/ Fault /\ Refuse("undo", step.profile)
            \/ /\ Fault
               /\ Put(step.profile, step.previous) \/ UNCHANGED mem
               /\ UNCHANGED stack
               /\ Refuse("undo", step.profile)

ReadState ==
    /\ UNCHANGED <<mem, backup, stack, foreign>>
    /\ \/ UNCHANGED faults /\ Answer([to |-> "state", ok |-> TRUE, profiles |-> mem])
       \/ Fault /\ Refuse("state", NoProfile)

ActivateProfile ==
    /\ UNCHANGED <<mem, backup, stack, foreign>>
    /\ \/ UNCHANGED faults /\ Answer([to |-> "activate", ok |-> TRUE])
       \/ Fault /\ Refuse("activate", NoProfile)

Handle ==
    /\ server # "off"
    /\ requests # <<>>
    /\ LET r == Head(requests)
       IN  \/ r.cmd = "apply" /\ Apply(r.profile, r.value)
           \/ r.cmd = "undo" /\ UndoLast
           \/ r.cmd = "state" /\ ReadState
           \/ r.cmd = "activate" /\ ActivateProfile
    /\ UNCHANGED <<server, overlayVars, wanted, told, raced, stale, edits, others>>

(* A CLI command or another server writes a profile. *)
OtherWrites(p, v) ==
    /\ faults + others < MaxFaults
    /\ others < MaxOthers /\ others' = others + 1
    /\ v # mem[p]
    /\ Put(p, v)
    /\ foreign' = TRUE
    /\ UNCHANGED <<serverVars, replies, overlayVars, wanted, told, raced, stale, edits, faults>>

User ==
    \/ \E v \in Version : Edit(v)
    \/ \E p \in Profile : SelectProfile(p)
    \/ Undo \/ Activate \/ SaveKey \/ RefreshKey \/ Close \/ Open \/ HandOver

Next ==
    \/ User
    \/ FinishClose \/ TimerFires \/ ReadReply
    \/ Handle \/ ServerStops \/ ServerDies
    \/ \E p \in Profile, v \in Version : OtherWrites(p, v)

(* The animation, the timer, the server and the reading of its replies go  *)
(* on by themselves.                                                       *)
Fairness == /\ WF_vars(FinishClose) /\ WF_vars(TimerFires) /\ WF_vars(ReadReply)
            /\ WF_vars(Handle) /\ WF_vars(ServerStops)

Spec == Init /\ [][Next]_vars /\ Fairness
-----------------------------------------------------------------------------
(* The requests and replies in flight, oldest first. *)
Pipe == [i \in DOMAIN replies |-> replies[i].to] \o [i \in DOMAIN requests |-> requests[i].cmd]
IsWrite(c) == c \in {"apply", "undo"}

(* At most one write is in flight, and it is the one the overlay waits     *)
(* for: across saves, undos, closing and opening again, and servers that   *)
(* exit.                                                                   *)
OneWriteInFlight ==
    /\ \A i, j \in DOMAIN Pipe : IsWrite(Pipe[i]) /\ IsWrite(Pipe[j]) => i = j
    /\ saving  <=> \E i \in DOMAIN Pipe : Pipe[i] = "apply"
    /\ undoing <=> \E i \in DOMAIN Pipe : Pipe[i] = "undo"

Quiet == requests = <<>> /\ replies = <<>> /\ ~timer
Saved == \A p \in Profile \ told : mem[p] = wanted[p]

(* When nothing is waiting or in flight, every profile holds what the user *)
(* last asked for, unless its last write was reported as failed: switching *)
(* profiles, editing during a save, undoing and closing lose nothing.  Two *)
(* ways of losing an edit that the code has are left out: one made while   *)
(* an undo is in flight is dropped by its reply (raced), and the one the   *)
(* next property is about.                                                 *)
NothingLost == Quiet /\ others = 0 /\ ~raced /\ ~stale => Saved

(* README.md: "Changes save themselves."  Nothing edited is left unsaved   *)
(* when nothing is going to save it, unless an error was shown.            *)
ChangesSaveThemselves == Quiet => ~dirty \/ cursor \in told

(* The memory after each of the steps kept for undo is taken back, the     *)
(* last one first.                                                         *)
Unwind[n \in 0..Len(stack)] ==
    IF n = 0 THEN mem
    ELSE LET step == stack[Len(stack) - n + 1]
         IN  [Unwind[n - 1] EXCEPT ![step.profile] = step.previous]

(* The steps kept for undo, taken back one after another, lead to the      *)
(* memory the session's backup holds.                                      *)
UndoReachesBackup == backup # <<>> /\ ~foreign => Unwind[Len(stack)] = backup

(* What the overlay believes of its requests is what is in the pipe        *)
(* (Omalogi.qml: "At most one write is in flight").                        *)
Consistent == TypeOK /\ OneWriteInFlight
=============================================================================
