------------------------------ MODULE OverlayView ---------------------------
(***************************************************************************)
(* What the overlay knows of the mouse, and how it comes to know it: mice  *)
(* are plugged in and out, `omalogi serve' opens one of them and keeps it  *)
(* until it exits (src/src/serve.rs, main.rs, device.rs), a mouse that was *)
(* not tested is written only after the user accepted it                   *)
(* (src/src/consent.rs), the profile in use changes with the mouse's       *)
(* buttons, with the daemon and with Activate, and the overlay follows it  *)
(* through the daemon's state file and by polling                          *)
(* (src/plugin/Omalogi.qml, src/plugin/Model.js).                          *)
(*                                                                         *)
(* An edit is a number; what a save does to the memory, undo and switching *)
(* profiles with unsaved edits are in EditingSession.  Every profile is    *)
(* on, and every mouse's layout can be read.                               *)
(***************************************************************************)
EXTENDS Naturals, Sequences, FiniteSets

CONSTANTS
    Mouse,          \* the models the user has
    NoMouse,
    Verified,       \* those tested on hardware
    Wired,          \* those on a cable, which are looked for first
    ProfileCount,
    MaxEdits,       \* bound: edits the user makes
    MaxEvents,      \* bound: mice plugged in or out, damage, failed requests and exits,
                    \* profile switches on a mouse, changes of the daemon's state
    MaxQueue        \* bound: requests in flight when the user accepts, and one less
                    \* when the user activates

ASSUME MouseAssumption == NoMouse \notin Mouse /\ Verified \subseteq Mouse /\ Wired \subseteq Mouse
ASSUME CountAssumption == ProfileCount \in Nat \ {0}
ASSUME BoundsAssumption == {MaxEdits, MaxEvents, MaxQueue} \subseteq Nat

Profile == 1..ProfileCount
NoProfile == 0
NoEdit == 0

VARIABLES
    \* the mice, and the files Omalogi keeps
    plugged,        \* the mice connected
    current,        \* current[m]: the profile mouse m runs
    damaged,        \* mice whose profile directory fails its checksum
    accepted,       \* untested.json: models the user accepted
    ran,            \* the profiles the mice ran so far
    \* the server
    server,         \* "off", "starting", "on", or "stopping": told to stop
    session,        \* the mouse it has open, NoMouse once that is gone
    requests,       \* lines it has not answered
    replies,        \* lines the overlay has not read
    \* the overlay
    opened, mounted,
    loading, livePolling, saving,
    ready,          \* the mouse was read once
    support,        \* the mouse it was told of, and whether it may be written
    active,         \* onboard.active_position
    inUse,          \* the profiles it marks `In use'
    cursor,
    unsaved,        \* the last edit not saved, or NoEdit
    timer,          \* saveTimer is running
    acceptOpen,     \* it asks whether to edit an untested mouse
    loadError,      \* why there is nothing to show
    told,           \* the user knows that the edit is not saved
    daemonSeen,     \* the daemon's active profile as last read
    \* history and bounds
    agreed,         \* the mice the user agreed to edit
    trespassed,     \* another untested mouse was written
    left,           \* nothing will look at the idle server again
    edits, events

mice     == <<plugged, current, ran, damaged, accepted>>
serverVars == <<server, session, requests, replies>>
flags    == <<loading, livePolling, saving>>
view     == <<ready, support, active, inUse>>
editor   == <<cursor, unsaved>>
history  == <<agreed, trespassed, left>>
bounds   == <<edits, events>>
vars == <<mice, serverVars, opened, mounted, flags, view, editor, timer, acceptOpen, loadError,
          told, daemonSeen, history, bounds>>

Command == {"state", "live", "activate", "apply", "accept", "repair"}
Request == [cmd : Command, profile : Profile \cup {NoProfile}, edit : 0..MaxEdits]
Reply   == [to : Command, ok : {FALSE}, kind : {"error", "directory"}]
           \cup [to : {"state"}, ok : {TRUE}, mouse : Mouse, accepted : BOOLEAN, active : Profile]
           \cup [to : {"live", "activate"}, ok : {TRUE}, active : Profile]
           \cup [to : {"apply"}, ok : {TRUE}, profile : Profile, edit : 1..MaxEdits,
                 active : BOOLEAN]
           \cup [to : {"accept"}, ok : {TRUE}, mouse : Mouse]
           \cup [to : {"repair"}, ok : {TRUE}]

NoSupport == [mouse |-> NoMouse, accepted |-> TRUE]

TypeOK ==
    /\ {plugged, damaged, accepted, agreed} \subseteq SUBSET Mouse
    /\ current \in [Mouse -> Profile]
    /\ ran \subseteq Profile /\ daemonSeen \in Profile \cup {NoProfile}
    /\ server \in {"off", "starting", "on", "stopping"} /\ session \in plugged \cup {NoMouse}
    /\ requests \in Seq(Request) /\ replies \in Seq(Reply)
    /\ {opened, mounted, loading, livePolling, saving, ready, timer, acceptOpen, told, trespassed, left}
         \subseteq BOOLEAN
    /\ support \in [mouse : Mouse \cup {NoMouse}, accepted : BOOLEAN]
    /\ {active, cursor} \subseteq Profile /\ inUse \subseteq Profile
    /\ {unsaved, edits} \subseteq 0..MaxEdits
    /\ loadError \in {"", "device", "directory", "error"}
    /\ events \in 0..MaxEvents

Init ==
    /\ plugged \in SUBSET Mouse
    /\ current = [m \in Mouse |-> 1] /\ ran = {1} /\ damaged = {} /\ accepted = {}
    /\ server = "off" /\ session = NoMouse /\ requests = <<>> /\ replies = <<>>
    /\ opened = FALSE /\ mounted = FALSE
    /\ loading = FALSE /\ livePolling = FALSE /\ saving = FALSE
    /\ ready = FALSE /\ support = NoSupport /\ active = 1 /\ inUse = {}
    /\ cursor = 1 /\ unsaved = NoEdit
    /\ timer = FALSE /\ acceptOpen = FALSE /\ loadError = "" /\ told = FALSE /\ daemonSeen = NoProfile
    /\ agreed = {} /\ trespassed = FALSE /\ left = FALSE
    /\ edits = 0 /\ events = 0

Event == events < MaxEvents /\ events' = events + 1

inFlight == Len(requests) + Len(replies)
dirty == unsaved # NoEdit
Sent(c) == \/ \E i \in DOMAIN requests : requests[i].cmd = c
           \/ \E i \in DOMAIN replies : replies[i].to = c

-----------------------------------------------------------------------------
(* OmalogiServer: the first request starts the process; one that was told  *)
(* to stop still takes lines until it has exited.                          *)
Send(c, p, e) ==
    /\ requests' = Append(requests, [cmd |-> c, profile |-> p, edit |-> e])
    /\ server' = IF server = "off" THEN "starting" ELSE server

Stopped(s) == IF s = "off" THEN "off" ELSE "stopping"

(* stopServerWhenIdle, after this step. *)
StopWhenIdle ==
    /\ server' = IF ~opened' /\ requests = <<>> /\ replies' = <<>> /\ ~timer' THEN Stopped(server)
                                                                              ELSE server
    /\ UNCHANGED requests

NeedsAcceptance(s) == s.mouse \notin Verified \cup {NoMouse} /\ ~s.accepted

(* save(): sends the edit, asks first when the mouse was not tested, or    *)
(* waits for the save in flight.  e, s and busy are the edit, `support'    *)
(* and `saving' when it runs; wait says that the timer is left running.    *)
Save(e, s, busy, wait) ==
    IF e = NoEdit \/ NeedsAcceptance(s) THEN
        /\ acceptOpen' = (acceptOpen \/ e # NoEdit)
        /\ timer' = wait /\ saving' = busy
        /\ UNCHANGED <<server, requests>>
    ELSE IF busy THEN
        /\ timer' = TRUE /\ saving' = TRUE
        /\ UNCHANGED <<server, requests, acceptOpen>>
    ELSE
        /\ saving' = TRUE /\ timer' = wait
        /\ Send("apply", cursor, e)
        /\ UNCHANGED acceptOpen

LoadDraft(p) == cursor' = p /\ unsaved' = NoEdit

(* withActive: the profile is the only one in use. *)
WithActive(p) == active' = p /\ inUse' = {p}

(* Faulty variant: the editor moves whatever it holds. *)
ObserveActive_Always(p) ==
    IF p = active THEN UNCHANGED <<active, inUse, editor>>
    ELSE WithActive(p) /\ LoadDraft(p)

(* observeActive: the editor moves along when it shows the profile in use  *)
(* and nothing in it is unsaved.                                           *)
ObserveActive(p) ==
    IF p = active THEN UNCHANGED <<active, inUse, editor>>
    ELSE /\ WithActive(p)
         /\ IF cursor = active /\ ~(dirty \/ saving \/ timer) THEN LoadDraft(p) ELSE UNCHANGED editor

-----------------------------------------------------------------------------
(* What the user does. *)

(* refresh(), on a server that may have been told to stop. *)
Refresh(s) ==
    /\ loadError' = ""
    /\ loading' = TRUE
    /\ IF loading THEN server' = s /\ UNCHANGED requests
       ELSE /\ requests' = Append(requests, [cmd |-> "state", profile |-> NoProfile, edit |-> 0])
            /\ server' = IF s = "off" THEN "starting" ELSE s

Open ==
    /\ ~opened /\ opened' = TRUE /\ mounted' = TRUE
    /\ IF loading THEN UNCHANGED <<loading, loadError, server, requests>> ELSE Refresh(server)
    /\ left' = FALSE
    /\ UNCHANGED <<mice, session, replies, livePolling, saving, view, editor, timer, acceptOpen,
                   told, daemonSeen, agreed, trespassed, bounds>>

RefreshKey ==
    /\ opened /\ ~loading /\ ~dirty /\ ~saving
    /\ Refresh(server)
    /\ UNCHANGED <<mice, session, replies, opened, mounted, livePolling, saving, view, editor,
                   timer, acceptOpen, told, daemonSeen, history, bounds>>

(* Try again, on the card that says why there is nothing to show. *)
Retry ==
    /\ opened /\ loadError # ""
    /\ Refresh(Stopped(server))
    /\ UNCHANGED <<mice, session, replies, opened, mounted, livePolling, saving, view, editor,
                   timer, acceptOpen, told, daemonSeen, history, bounds>>

Repair ==
    /\ opened /\ loadError = "directory" /\ ~loading
    /\ loading' = TRUE
    /\ Send("repair", NoProfile, 0)
    /\ UNCHANGED <<mice, session, replies, opened, mounted, livePolling, saving, view, editor,
                   timer, acceptOpen, loadError, told, daemonSeen, history, bounds>>

Edit ==
    /\ opened /\ ready /\ ~acceptOpen
    /\ edits < MaxEdits /\ edits' = edits + 1
    /\ unsaved' = edits'
    /\ told' = FALSE
    /\ timer' = TRUE
    /\ UNCHANGED <<mice, serverVars, opened, mounted, flags, view, cursor, acceptOpen,
                   loadError, daemonSeen, history, events>>

(* Shows another profile, when nothing is unsaved. *)
Select(p) ==
    /\ opened /\ ready /\ p # cursor /\ ~dirty /\ ~saving
    /\ timer' = FALSE
    /\ LoadDraft(p)
    /\ UNCHANGED <<mice, serverVars, opened, mounted, flags, view, acceptOpen, loadError,
                   told, daemonSeen, history, bounds>>

(* activate(), unless the profile is marked in use (activationRefusal). *)
Activate ==
    /\ opened /\ ready /\ inFlight < MaxQueue
    /\ cursor \notin inUse
    /\ Send("activate", cursor, 0)
    /\ UNCHANGED <<mice, session, replies, opened, mounted, flags, view, editor, timer, acceptOpen,
                   loadError, told, daemonSeen, history, bounds>>

(* Edit it: the dialog names the mouse last read.  When the server does    *)
(* not have that one open any more, there is no telling which mouse it     *)
(* will be. *)
AcceptUntested ==
    /\ opened /\ acceptOpen /\ inFlight <= MaxQueue
    /\ acceptOpen' = FALSE
    /\ Send("accept", NoProfile, 0)
    /\ agreed' = agreed \cup (IF session = support.mouse THEN {session} ELSE Mouse)
    /\ UNCHANGED <<mice, session, replies, opened, mounted, flags, view, editor, timer, loadError,
                   told, daemonSeen, trespassed, left, bounds>>

Dismiss ==
    /\ opened /\ acceptOpen
    /\ acceptOpen' = FALSE
    /\ told' = dirty
    /\ UNCHANGED <<mice, serverVars, opened, mounted, flags, view, editor, timer, loadError,
                   daemonSeen, history, bounds>>

SaveNow == Save(unsaved, support, saving, FALSE)

(* The pause after an edit is over; the server is not looked at again when *)
(* that finds nothing to send. *)
TimerFires ==
    /\ timer
    /\ SaveNow
    /\ left' = (~opened /\ ~saving')
    /\ UNCHANGED <<mice, session, replies, opened, mounted, loading, livePolling, view, editor,
                   loadError, told, daemonSeen, agreed, trespassed, bounds>>

(* Closing saves what the timer was waiting to save; the dialog stays. *)
Close ==
    /\ opened /\ opened' = FALSE
    /\ IF timer THEN SaveNow ELSE UNCHANGED <<server, requests, saving, timer, acceptOpen>>
    /\ UNCHANGED <<mice, session, replies, mounted, loading, livePolling, view, editor, loadError,
                   told, daemonSeen, history, bounds>>

(* Faulty variant: the server is left to itself. *)
FinishClose_Leaves ==
    /\ ~opened /\ mounted /\ mounted' = FALSE
    /\ UNCHANGED <<mice, serverVars, opened, flags, view, editor, timer, acceptOpen, loadError,
                   told, daemonSeen, history, bounds>>

FinishClose ==
    /\ ~opened /\ mounted /\ mounted' = FALSE
    /\ UNCHANGED <<opened, replies, timer>>
    /\ StopWhenIdle
    /\ UNCHANGED <<mice, session, flags, view, editor, acceptOpen, loadError, told, daemonSeen,
                   history, bounds>>

(* installHelper, from the card: the server is stopped, the overlay closes. *)
InstallHelper ==
    /\ opened /\ ~ready /\ loadError \in {"device", "error"}
    /\ opened' = FALSE
    /\ server' = Stopped(server)
    /\ UNCHANGED <<mice, session, requests, replies, mounted, flags, view, editor, timer,
                   acceptOpen, loadError, told, daemonSeen, history, bounds>>

-----------------------------------------------------------------------------
(* What goes on by itself in the overlay. *)

(* Faulty variant: the daemon is trusted while it runs. *)
CanPollLive_NoDaemon ==
    /\ opened /\ ready /\ ~loading /\ ~livePolling /\ ~saving /\ ~dirty /\ ~timer
    /\ inFlight = 0 /\ daemonSeen = NoProfile

(* canPollLive: only when the reply can interrupt nothing. *)
CanPollLive == opened /\ ready /\ ~loading /\ ~livePolling /\ ~saving /\ ~dirty /\ ~timer
               /\ inFlight = 0

RefreshLive ==
    /\ CanPollLive
    /\ livePolling' = TRUE
    /\ Send("live", NoProfile, 0)
    /\ UNCHANGED <<mice, session, replies, opened, mounted, loading, saving, view, editor, timer,
                   acceptOpen, loadError, told, daemonSeen, history, bounds>>

(* The daemon's state file changed and is read again: it names the profile *)
(* found at a poll some time ago, or none when there was no mouse. *)
DaemonUpdated(p) ==
    /\ p # daemonSeen /\ daemonSeen' = p
    /\ Event
    /\ IF ready /\ p # NoProfile THEN ObserveActive(p) ELSE UNCHANGED <<active, inUse, editor>>
    /\ UNCHANGED <<mice, serverVars, opened, mounted, flags, ready, support, timer, acceptOpen,
                   loadError, told, history, edits>>

(* Faulty variant: a failure only shows in the footer. *)
FailLoad_Footer(kind) == UNCHANGED loadError

(* failLoad: after the first read, only the footer says it. *)
FailLoad(kind) == loadError' = IF ready THEN loadError ELSE kind

StateReply(r) ==
    /\ r.to = "state"
    /\ loading' = FALSE
    /\ UNCHANGED <<livePolling, saving, timer, acceptOpen, told>>
    /\ IF r.ok
       THEN /\ support' = [mouse |-> r.mouse, accepted |-> r.accepted]
            /\ WithActive(r.active) /\ ready' = TRUE
            /\ CASE ~ready -> LoadDraft(r.active)
                 [] ready /\ ~dirty /\ ~saving -> LoadDraft(cursor)
                 [] OTHER -> UNCHANGED editor
            /\ StopWhenIdle
            /\ UNCHANGED <<loadError, left>>
       ELSE /\ FailLoad(r.kind)
            /\ left' = ~opened
            /\ UNCHANGED <<view, editor, server, requests>>

LiveReply(r) ==
    /\ r.to = "live"
    /\ livePolling' = FALSE
    /\ IF r.ok /\ opened THEN ObserveActive(r.active) ELSE UNCHANGED <<active, inUse, editor>>
    /\ UNCHANGED <<loading, saving, ready, support, timer, acceptOpen, loadError, told, left>>
    /\ StopWhenIdle

ActivateReply(r) ==
    /\ r.to = "activate"
    /\ IF r.ok THEN WithActive(r.active) ELSE UNCHANGED <<active, inUse>>
    /\ left' = ~opened
    /\ UNCHANGED <<flags, ready, support, editor, server, requests, timer, acceptOpen, loadError, told>>

(* withSlot: one profile is replaced by what was written. *)
WithSlot(r) ==
    IF r.active THEN active' = r.profile /\ inUse' = inUse \cup {r.profile}
                ELSE inUse' = inUse \ {r.profile} /\ UNCHANGED active

(* save()'s reply and afterWrite: edits made meanwhile are saved next, at  *)
(* once when the overlay has closed. *)
ApplyReply(r) ==
    LET rest == IF r.ok /\ cursor = r.profile /\ unsaved = r.edit THEN NoEdit ELSE unsaved
        more == r.ok /\ rest # NoEdit
    IN  /\ r.to = "apply"
        /\ IF r.ok THEN WithSlot(r) ELSE UNCHANGED <<active, inUse>>
        /\ unsaved' = rest
        /\ told' = ~r.ok
        /\ UNCHANGED <<loading, livePolling, ready, support, cursor, loadError, left>>
        /\ IF more /\ opened
           THEN timer' = TRUE /\ saving' = FALSE /\ UNCHANGED <<server, requests, acceptOpen>>
           ELSE IF more /\ ~NeedsAcceptance(support)
           THEN Save(rest, support, FALSE, timer)
           ELSE /\ saving' = FALSE /\ acceptOpen' = (acceptOpen \/ more)
                /\ UNCHANGED timer
                /\ StopWhenIdle

(* Faulty variant: the edit that waited is forgotten. *)
AcceptReply_Only(r) ==
    /\ r.to = "accept"
    /\ IF r.ok THEN support' = [mouse |-> r.mouse, accepted |-> TRUE] /\ UNCHANGED told
               ELSE told' = dirty /\ UNCHANGED support
    /\ left' = ~opened
    /\ UNCHANGED <<flags, ready, active, inUse, editor, server, requests, timer, acceptOpen,
                   loadError>>

AcceptReply(r) ==
    /\ r.to = "accept"
    /\ IF r.ok
       THEN /\ support' = [mouse |-> r.mouse, accepted |-> TRUE]
            /\ Save(unsaved, support', saving, timer)
            /\ UNCHANGED told
       ELSE /\ told' = dirty
            /\ UNCHANGED <<support, server, requests, timer, saving, acceptOpen>>
    /\ left' = ~opened
    /\ UNCHANGED <<loading, livePolling, ready, active, inUse, editor, loadError>>

RepairReply(r) ==
    /\ r.to = "repair"
    /\ IF r.ok
       THEN loading' = TRUE /\ loadError' = "" /\ Send("state", NoProfile, 0)
       ELSE loading' = FALSE /\ loadError' = r.kind /\ UNCHANGED <<server, requests>>
    /\ left' = (~opened /\ ~r.ok)
    /\ UNCHANGED <<livePolling, saving, view, editor, timer, acceptOpen, told>>

ReadReply ==
    /\ replies # <<>> /\ replies' = Tail(replies)
    /\ UNCHANGED <<mice, session, opened, mounted, daemonSeen, agreed, trespassed, bounds>>
    /\ LET r == Head(replies)
       IN  \/ StateReply(r) \/ LiveReply(r) \/ ActivateReply(r)
           \/ ApplyReply(r) \/ AcceptReply(r) \/ RepairReply(r)

-----------------------------------------------------------------------------
(* The process. *)

(* find_supported, then the mice behind receivers: the first one found. *)
Found == IF plugged \cap Wired # {} THEN plugged \cap Wired ELSE plugged

(* Session::open, tried twice by run_serve. *)
ServerOpens ==
    /\ server = "starting"
    /\ session' \in Found
    /\ server' = "on"
    /\ UNCHANGED <<mice, requests, replies, opened, mounted, flags, view, editor, timer, acceptOpen,
                   loadError, told, daemonSeen, history, bounds>>

(* Faulty variant: the requests that waited are forgotten. *)
Exits_Forgets(kind) ==
    /\ server' = "off" /\ session' = NoMouse /\ requests' = <<>> /\ replies' = <<>>
    /\ UNCHANGED <<flags, loadError, told>>
    /\ left' = FALSE
    /\ UNCHANGED <<mice, opened, mounted, view, editor, timer, acceptOpen, daemonSeen, agreed,
                   trespassed, edits>>

(* onExited: every request still waiting fails, and the overlay is told. *)
Exits(kind) ==
    /\ server' = "off" /\ session' = NoMouse /\ requests' = <<>> /\ replies' = <<>>
    /\ loading' = FALSE /\ livePolling' = FALSE /\ saving' = FALSE
    /\ told' = (told \/ (dirty /\ (saving \/ Sent("accept"))))
    /\ IF inFlight > 0 THEN FailLoad(kind) ELSE UNCHANGED loadError
    /\ left' = FALSE
    /\ UNCHANGED <<mice, opened, mounted, view, editor, timer, acceptOpen, daemonSeen, agreed,
                   trespassed, edits>>

NoMouseFound == server = "starting" /\ plugged = {} /\ Exits("device") /\ UNCHANGED events
OpenFails    == server = "starting" /\ Event /\ Exits("error")
ServerDies  == server = "on" /\ Event /\ Exits("error")
ServerStops == server = "stopping" /\ Exits("error") /\ UNCHANGED events

-----------------------------------------------------------------------------
(* serve.rs: one request at a time. *)
Answer(r) == requests' = Tail(requests) /\ replies' = Append(replies, r)

Refuse(c, kind) == Answer([to |-> c, ok |-> FALSE, kind |-> kind])

Runs(m, p) == current' = [current EXCEPT ![m] = p] /\ ran' = ran \cup {p}

MayWrite(m) == m \in Verified \cup accepted

Wrote(m) == trespassed' = (trespassed \/ m \notin Verified \cup agreed)

ReadState ==
    /\ UNCHANGED <<current, ran, damaged, accepted, trespassed>>
    /\ IF session \in damaged THEN Refuse("state", "directory")
       ELSE Answer([to |-> "state", ok |-> TRUE, mouse |-> session, accepted |-> MayWrite(session),
                    active |-> current[session]])

ReadLive ==
    /\ UNCHANGED <<current, ran, damaged, accepted, trespassed>>
    /\ Answer([to |-> "live", ok |-> TRUE, active |-> current[session]])

ActivateProfile(p) ==
    /\ UNCHANGED <<damaged, accepted, trespassed>>
    /\ IF session \in damaged THEN Refuse("activate", "directory") /\ UNCHANGED <<current, ran>>
       ELSE /\ Runs(session, p)
            /\ Answer([to |-> "activate", ok |-> TRUE, active |-> p])

(* Faulty variant: the write is not held back. *)
Apply_Ungated(p, e) ==
    /\ UNCHANGED <<current, ran, damaged, accepted>>
    /\ IF session \in damaged THEN Refuse("apply", "directory") /\ UNCHANGED trespassed
       ELSE /\ Wrote(session)
            /\ Answer([to |-> "apply", ok |-> TRUE, profile |-> p, edit |-> e,
                       active |-> current[session] = p])

(* apply: planned, gated by ensure_writes_accepted, written and loaded. *)
Apply(p, e) ==
    /\ UNCHANGED <<current, ran, damaged, accepted>>
    /\ IF session \in damaged THEN Refuse("apply", "directory") /\ UNCHANGED trespassed
       ELSE IF ~MayWrite(session) THEN Refuse("apply", "error") /\ UNCHANGED trespassed
       ELSE /\ Wrote(session)
            /\ Answer([to |-> "apply", ok |-> TRUE, profile |-> p, edit |-> e,
                       active |-> current[session] = p])

(* accept_untested: the model this process has open is put in the file. *)
Accept ==
    /\ UNCHANGED <<current, ran, damaged, trespassed>>
    /\ accepted' = IF MayWrite(session) THEN accepted ELSE accepted \cup {session}
    /\ Answer([to |-> "accept", ok |-> TRUE, mouse |-> session])

(* repair_directory: refused for an intact directory. *)
RepairDirectory ==
    /\ UNCHANGED <<current, ran, accepted>>
    /\ IF session \in damaged /\ MayWrite(session)
       THEN Wrote(session) /\ damaged' = damaged \ {session}
            /\ Answer([to |-> "repair", ok |-> TRUE])
       ELSE Refuse("repair", "error") /\ UNCHANGED <<damaged, trespassed>>

(* A mouse that is gone fails every request until the process is replaced; *)
(* a request may also fail on the way, before or after it took effect. *)
Handle ==
    /\ server \in {"on", "stopping"} /\ requests # <<>>
    /\ LET r == Head(requests)
       IN  IF session = NoMouse
           THEN server = "on" /\ Refuse(r.cmd, "error")
                /\ UNCHANGED <<current, ran, damaged, accepted, trespassed, events>>
           ELSE \/ /\ CASE r.cmd = "state"    -> ReadState
                        [] r.cmd = "live"     -> ReadLive
                        [] r.cmd = "activate" -> ActivateProfile(r.profile)
                        [] r.cmd = "apply"    -> Apply(r.profile, r.edit)
                        [] r.cmd = "accept"   -> Accept
                        [] r.cmd = "repair"   -> RepairDirectory
                   /\ UNCHANGED events
                \/ /\ Event /\ Refuse(r.cmd, "error")
                   /\ UNCHANGED <<damaged, accepted, trespassed>>
                   /\ \/ UNCHANGED <<current, ran>>
                      \/ r.cmd = "activate" /\ Runs(session, r.profile)
    /\ UNCHANGED <<plugged, server, session, opened, mounted, flags, view, editor, timer,
                   acceptOpen, loadError, told, daemonSeen, agreed, left, edits>>

-----------------------------------------------------------------------------
(* The mice and the daemon. *)
overlay == <<serverVars, opened, mounted, flags, view, editor, timer, acceptOpen, loadError,
             told, daemonSeen, history>>

PlugIn(m) ==
    /\ m \notin plugged /\ Event
    /\ plugged' = plugged \cup {m}
    /\ UNCHANGED <<current, ran, damaged, accepted, overlay, edits>>

(* Faulty variant: the loss of the mouse goes unnoticed. *)
Unplug_Unnoticed(m) ==
    /\ m \in plugged /\ Event
    /\ plugged' = plugged \ {m}
    /\ UNCHANGED <<current, ran, damaged, accepted, overlay, edits>>

Unplug(m) ==
    /\ m \in plugged /\ Event
    /\ plugged' = plugged \ {m}
    /\ session' = IF session = m THEN NoMouse ELSE session
    /\ UNCHANGED <<current, ran, damaged, accepted, server, requests, replies, opened,
                   mounted, flags, view, editor, timer, acceptOpen, loadError, told, daemonSeen, history,
                   edits>>

(* A write that was cut short elsewhere leaves a directory that fails its  *)
(* checksum. *)
DirectoryDamaged(m) ==
    /\ m \in plugged \ damaged /\ Event
    /\ damaged' = damaged \cup {m}
    /\ UNCHANGED <<plugged, current, ran, accepted, overlay, edits>>

PressButton(m, p) ==
    /\ m \in plugged /\ p # current[m]
    /\ Event
    /\ Runs(m, p)
    /\ UNCHANGED <<plugged, damaged, accepted, overlay, edits>>

User ==
    \/ Open \/ Close \/ RefreshKey \/ Retry \/ Repair \/ InstallHelper
    \/ Edit \/ Activate \/ AcceptUntested \/ Dismiss
    \/ \E p \in Profile : Select(p)

Next ==
    \/ User
    \/ TimerFires \/ FinishClose \/ RefreshLive \/ ReadReply
    \/ ServerOpens \/ NoMouseFound \/ OpenFails \/ ServerDies \/ ServerStops \/ Handle
    \/ \E m \in Mouse : PlugIn(m) \/ Unplug(m) \/ DirectoryDamaged(m)
    \/ \E m \in Mouse, p \in Profile : PressButton(m, p)
    \/ \E p \in ran \cup {NoProfile} : DaemonUpdated(p)

(* The animation, the timers, the process and the reading  *)
(* of its replies go on by themselves; the user, the mice and the daemon   *)
(* owe nothing. *)
Fairness ==
    /\ WF_vars(TimerFires) /\ WF_vars(FinishClose) /\ WF_vars(RefreshLive)
    /\ WF_vars(ReadReply) /\ WF_vars(Handle)
    /\ WF_vars(ServerOpens) /\ WF_vars(NoMouseFound) /\ WF_vars(ServerStops)

Spec == Init /\ [][Next]_vars /\ Fairness
-----------------------------------------------------------------------------
Waiting(cmds) == {i \in DOMAIN requests : requests[i].cmd \in cmds}
Coming(cmds)  == {i \in DOMAIN replies : replies[i].to \in cmds}
InFlight(flag, cmds) ==
    Cardinality(Waiting(cmds)) + Cardinality(Coming(cmds)) = (IF flag THEN 1 ELSE 0)

(* `loading', `livePolling' and `saving' are set exactly while their one   *)
(* request is unanswered, whatever the server, the mouse and the user did  *)
(* meanwhile: no flag is left behind that would end all reading, polling   *)
(* or saving, and no request is sent twice. *)
FlagsMatchRequests ==
    /\ InFlight(loading, {"state", "repair"})
    /\ InFlight(livePolling, {"live"})
    /\ InFlight(saving, {"apply"})

(* Omalogi.qml: "An untested mouse is written only after the user accepts  *)
(* it."  The mouse written is the one the dialog named, unless the click   *)
(* came when the server had that one no longer open. *)
WrittenAsAgreed == ~trespassed

(* The overlay never waits for nothing: without a mouse to show it is      *)
(* reading one or says why there is none. *)
NeverStuckReading == opened /\ ~ready => loading \/ loadError # ""

(* An unsaved edit stays in the draft until it is saved: no reply, daemon  *)
(* state, reopening or lost server replaces it. *)
SaveAnswered == replies # <<>> /\ Head(replies).to = "apply" /\ Head(replies).ok
                /\ Head(replies).edit = unsaved
UnsavedSurvives ==
    [][dirty => unsaved' = unsaved \/ edits' # edits \/ SaveAnswered]_vars

(* A mouse that stays plugged in and keeps its profile is followed: an     *)
(* overlay left open on it takes that profile for the active one, whatever *)
(* the daemon's file said last. *)
LeftOpen ==
    /\ opened /\ ready /\ ~dirty /\ session # NoMouse
    /\ \A i \in DOMAIN requests : requests[i].cmd = "live"
    /\ \A i \in DOMAIN replies : replies[i].to = "live"
FollowsMouse == <>[]LeftOpen => <>[](session # NoMouse /\ active = current[session])

(* An edit is saved in the end, or the user knows that it was not or is    *)
(* asked about the mouse: also when the mouse is exchanged, the server     *)
(* exits or the overlay is closed meanwhile. *)
EditsSettle == []<>(~dirty \/ told \/ acceptOpen)

(* Omalogi.qml: "The server keeps the mouse open; it stops once the        *)
(* overlay is closed and idle."  It does, unless what came last was the    *)
(* answer to an activation or an acceptance, an error, or a timer that     *)
(* found nothing to save (left). *)
LetsGo == ~mounted /\ inFlight = 0 /\ ~timer => server \in {"off", "stopping"} \/ left

(* What the overlay shows of its requests is so: a flag is set while its   *)
(* request is under way, and without a mouse it reads or says why not      *)
(* (Omalogi.qml, refresh, failLoad).                                       *)
Consistent == TypeOK /\ FlagsMatchRequests /\ NeverStuckReading
=============================================================================
