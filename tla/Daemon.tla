------------------------------- MODULE Daemon -------------------------------
(***************************************************************************)
(* `omalogi daemon' (src/src/daemon.rs): it follows Hyprland's focus       *)
(* events and switches the mouse to the profile the rules file picks for   *)
(* the focused app, polls the mouse every few seconds, reloads the rules   *)
(* when the file changes, keeps off the mouse while another Omalogi        *)
(* process holds the device lock, reconnects after errors, and publishes   *)
(* what it knows for the shell.                                            *)
(*                                                                         *)
(* One action stands for the code between two awaits of the daemon's task; *)
(* the user, the mouse, other processes and the rules file move between    *)
(* any two.  Focus is the app alone, and a rules file is the profile it    *)
(* picks for each app.                                                     *)
(***************************************************************************)
EXTENDS Naturals, Sequences

CONSTANTS
    App,
    Profile,        \* profile numbers, all of them in the directory
    Enabled,        \* those turned on
    Rules,          \* rules files that parse: functions of App
    MaxChanges,     \* bound: what the world does to the daemon
    MaxStalls       \* bound: requests that stall

NoProfile == 0
Broken == <<>>                          \* a rules file that does not parse
ASSUME ProfileAssumption == /\ Profile # {} /\ Profile \subseteq Nat \ {NoProfile}
                            /\ Enabled # {} /\ Enabled \subseteq Profile
ASSUME RulesAssumption == Rules # {} /\ Rules \subseteq [App -> Profile \cup {NoProfile}]
ASSUME BoundsAssumption == MaxChanges \in Nat /\ MaxStalls \in Nat /\ App # {}

VARIABLES
    \* the world
    current,        \* the profile the mouse is on
    present,        \* the mouse answers
    othersHold,     \* another process holds the device lock
    focus,          \* the focused app
    events,         \* focus events the daemon has not read
    file,           \* the rules file: its stamp and what is in it
    \* the daemon
    pc,
    more,           \* this is a tick, and pending rules are still to be looked at
    opened,         \* this tick opened the session
    target,         \* the profile being activated
    session, active, app,
    rules, stamp, configError, deviceError, ruleError,
    rulesPending, transient,
    published,      \* the state file
    \* history and bounds
    chosen,         \* picked on the mouse since the focus or the rules last changed
    unseen,         \* the mouse's profile was changed and not read since
    overlooked,     \* a rule was not applied, trusting a stale `active'
    changes, stalls

world  == <<current, present, othersHold, focus, file>>
errors == <<configError, deviceError, ruleError>>
history == <<chosen, unseen, overlooked>>
bounds == <<changes, stalls>>
vars == <<world, events, pc, more, opened, target, session, active, app, rules, stamp, errors,
          rulesPending, transient, published, history, bounds>>

NoState == <<>>
NoRules == [a \in App |-> NoProfile]
Working == {"opening", "reading", "rules", "setting", "confirming", "next"}

TypeOK ==
    /\ current \in Profile /\ focus \in App /\ events \in Seq(App)
    /\ file \in [stamp : Nat, rules : Rules \cup {Broken}]
    /\ pc \in {"off", "connected", "starting", "idle"} \cup Working
    /\ {present, othersHold, more, opened, session, rulesPending, unseen, overlooked,
        configError, deviceError, ruleError} \subseteq BOOLEAN
    /\ {target, active} \subseteq Profile \cup {NoProfile}
    /\ app \in App /\ rules \in Rules \cup {NoRules} /\ stamp \in Nat
    /\ transient \in {0, 1} /\ chosen \in BOOLEAN
    /\ published \in {NoState} \cup [active : Profile \cup {NoProfile}, error : BOOLEAN]
    /\ changes \in 0..MaxChanges /\ stalls \in 0..MaxStalls

Init ==
    /\ current \in Enabled /\ present \in BOOLEAN /\ othersHold = FALSE
    /\ focus \in App /\ events = <<>>
    /\ file \in [stamp : {1}, rules : Rules \cup {Broken}]
    /\ pc = "off" /\ more = FALSE /\ opened = FALSE /\ target = NoProfile
    /\ session = FALSE /\ active = NoProfile /\ app = focus
    /\ rules = NoRules /\ stamp = 0
    /\ configError = FALSE /\ deviceError = FALSE /\ ruleError = FALSE
    /\ rulesPending = FALSE /\ transient = 0 /\ published = NoState
    /\ chosen = FALSE /\ unseen = FALSE /\ overlooked = FALSE
    /\ changes = 0 /\ stalls = 0

-----------------------------------------------------------------------------
(* The world. *)
Change == changes < MaxChanges /\ changes' = changes + 1 /\ UNCHANGED stalls

daemonVars == <<pc, more, opened, target, session, active, app, rules, stamp, errors,
                rulesPending, transient, published>>

(* The mouse's own profile button, which cycles through the enabled ones.  *)
Press(p) ==
    /\ Change
    /\ present
    /\ p \in Enabled \ {current}
    /\ current' = p
    /\ chosen' = TRUE
    /\ unseen' = TRUE
    /\ UNCHANGED <<present, othersHold, focus, file, events, daemonVars, overlooked>>

(* Events reach the daemon from the moment it has connected. *)
FocusChange(a) ==
    /\ Change
    /\ a # focus
    /\ focus' = a
    /\ events' = IF pc = "off" THEN events ELSE Append(events, a)
    /\ chosen' = FALSE
    /\ UNCHANGED <<current, present, othersHold, file, daemonVars, unseen, overlooked>>

SaveRules(r) ==
    /\ Change
    /\ file' = [stamp |-> file.stamp + 1, rules |-> r]
    /\ chosen' = FALSE
    /\ UNCHANGED <<current, present, othersHold, focus, events, daemonVars, unseen, overlooked>>

Unplug ==
    /\ Change
    /\ present /\ present' = FALSE
    /\ UNCHANGED <<current, othersHold, focus, file, events, daemonVars, history>>

Plug(p) ==
    /\ ~present /\ present' = TRUE
    /\ current' = p
    /\ chosen' = FALSE /\ unseen' = TRUE /\ overlooked' = TRUE
    /\ UNCHANGED <<othersHold, focus, file, events, daemonVars, bounds>>

OthersTake ==
    /\ Change
    /\ ~othersHold /\ pc \notin Working
    /\ othersHold' = TRUE
    /\ UNCHANGED <<current, present, focus, file, events, daemonVars, history>>

(* `omalogi profiles activate', the overlay, or a write that reloads.      *)
OthersActivate(p) ==
    /\ othersHold /\ present
    /\ p \in Enabled \ {current}
    /\ Change
    /\ current' = p
    /\ unseen' = TRUE /\ overlooked' = TRUE
    /\ UNCHANGED <<present, othersHold, focus, file, events, daemonVars, chosen>>

OthersRelease ==
    /\ othersHold /\ othersHold' = FALSE
    /\ UNCHANGED <<current, present, focus, file, events, daemonVars, history, bounds>>

-----------------------------------------------------------------------------
(* publish, with the daemon's state after this step. *)
Publish ==
    published' = [active |-> active', error |-> configError' \/ deviceError' \/ ruleError']

(* ConfigWatch::reload: a broken edit keeps the last good rules. *)
Reload ==
    /\ stamp' = file.stamp
    /\ configError' = (file.rules = Broken)
    /\ rules' = IF file.rules = Broken THEN rules ELSE file.rules

Disconnect == session' = FALSE /\ active' = NoProfile

(* handle_error for a device that is gone, and for a stalled request: one  *)
(* stall is retried by the next tick, a second one in a row drops the      *)
(* session.                                                                *)
Lost ==
    /\ transient' = 0
    /\ deviceError' = TRUE
    /\ Disconnect
    /\ UNCHANGED rulesPending

(* Faulty variant: stalls are only counted. *)
Stalled_Counted(forRule) ==
    /\ stalls < MaxStalls /\ stalls' = stalls + 1
    /\ transient' = transient + 1
    /\ rulesPending' = (rulesPending \/ forRule)
    /\ UNCHANGED <<session, active, deviceError>>

Stalled(forRule) ==
    /\ stalls < MaxStalls /\ stalls' = stalls + 1
    /\ IF transient = 0
       THEN /\ transient' = 1
            /\ rulesPending' = (rulesPending \/ forRule)
            /\ UNCHANGED <<session, active, deviceError>>
       ELSE Lost

RequestFails(forRule) ==
    /\ UNCHANGED changes
    /\ Stalled(forRule) \/ (~present /\ Lost /\ UNCHANGED stalls)

(* run: events are queued before the focus is read, so no change is lost.  *)
Connect ==
    /\ pc = "off" /\ pc' = "connected"
    /\ UNCHANGED <<world, events, more, opened, target, session, active, app, rules, stamp, errors,
                   rulesPending, transient, published, history, bounds>>

ReadFocus ==
    /\ pc = "connected" /\ pc' = "starting"
    /\ app' = focus
    /\ Reload
    /\ UNCHANGED <<world, events, more, opened, target, session, active, deviceError, ruleError,
                   rulesPending, transient, published, history, bounds>>

(* The select loop ends on a signal, and the state file goes with it. *)
Terminate ==
    /\ Change
    /\ pc = "idle" /\ pc' = "off"
    /\ events' = <<>>
    /\ session' = FALSE /\ active' = NoProfile /\ rules' = NoRules /\ stamp' = 0
    /\ configError' = FALSE /\ deviceError' = FALSE /\ ruleError' = FALSE
    /\ rulesPending' = FALSE /\ transient' = 0 /\ published' = NoState
    /\ UNCHANGED <<world, more, opened, target, app, history>>

Tick ==
    /\ pc \in {"starting", "idle"}
    /\ UNCHANGED <<world, events, target, session, active, app, rules, stamp, errors, rulesPending,
                   transient, history, bounds>>
    /\ IF othersHold
       THEN /\ pc' = "idle"
            /\ Publish
            /\ UNCHANGED <<more, opened>>
       ELSE /\ pc' = IF session THEN "reading" ELSE "opening"
            /\ more' = TRUE /\ opened' = FALSE
            /\ UNCHANGED published

(* Faulty variant: a focus change is dropped while the device is busy. *)
HandleEvent_Busy ==
    /\ pc = "idle"
    /\ events # <<>>
    /\ app' = Head(events) /\ events' = Tail(events)
    /\ pc' = IF app' # app /\ ~othersHold THEN "rules" ELSE "idle"
    /\ more' = FALSE
    /\ UNCHANGED <<world, opened, target, session, active, rules, stamp, errors, rulesPending,
                   transient, published, history, bounds>>

HandleEvent ==
    /\ pc = "idle"
    /\ events # <<>>
    /\ app' = Head(events) /\ events' = Tail(events)
    /\ pc' = IF app' # app /\ ~othersHold THEN "rules" ELSE "idle"
    /\ more' = FALSE
    /\ rulesPending' = (rulesPending \/ (app' # app /\ othersHold))
    /\ UNCHANGED <<world, opened, target, session, active, rules, stamp, errors,
                   transient, published, history, bounds>>

(* refresh_device without a session. *)
Open ==
    /\ pc = "opening"
    /\ \/ /\ present
          /\ session' = TRUE /\ deviceError' = FALSE /\ opened' = TRUE
          /\ pc' = "reading"
          /\ UNCHANGED <<active, stalls>>
       \/ /\ deviceError' = TRUE
          /\ Disconnect
          /\ pc' = "next"
          /\ UNCHANGED opened
          /\ \/ ~present /\ UNCHANGED stalls
             \/ stalls < MaxStalls /\ stalls' = stalls + 1
    /\ UNCHANGED <<world, events, more, target, app, rules, stamp, configError, ruleError,
                   rulesPending, transient, published, history, changes>>

(* Faulty variant: a rule's profile is believed to stay. *)
Read_Believing ==
    /\ pc = "reading"
    /\ present
    /\ active' = IF active = NoProfile THEN current ELSE active
    /\ transient' = 0
    /\ unseen' = FALSE
    /\ pc' = IF opened \/ file.stamp # stamp THEN "rules" ELSE "next"
    /\ UNCHANGED <<world, events, more, opened, target, session, app, rules, stamp, errors,
                   rulesPending, published, chosen, overlooked, bounds>>

(* Faulty variant: edited rules wait for the next focus change. *)
Read_RulesWait ==
    /\ pc = "reading"
    /\ present
    /\ active' = current
    /\ transient' = 0
    /\ unseen' = FALSE
    /\ pc' = IF opened THEN "rules" ELSE "next"
    /\ UNCHANGED <<world, events, more, opened, target, session, app, rules, stamp, errors,
                   rulesPending, published, chosen, overlooked, bounds>>

(* read_active_profile; the rules are applied when the session is new or   *)
(* the file has changed.                                                   *)
Read ==
    /\ pc = "reading"
    /\ pc' = IF opened \/ file.stamp # stamp THEN "rules" ELSE "next"
    /\ \/ /\ present
          /\ active' = current
          /\ transient' = 0
          /\ unseen' = FALSE
          /\ UNCHANGED <<session, deviceError, rulesPending, bounds>>
       \/ RequestFails(FALSE) /\ UNCHANGED unseen
    /\ UNCHANGED <<world, events, more, opened, target, app, rules, stamp, configError, ruleError,
                   published, chosen, overlooked>>

(* apply_rules, up to its first request. *)
ApplyRules ==
    /\ pc = "rules"
    /\ IF file.stamp # stamp THEN Reload ELSE UNCHANGED <<stamp, configError, rules>>
    /\ ruleError' = FALSE
    /\ LET want == rules'[app]
       IN  IF session /\ want \notin {NoProfile, active}
           THEN pc' = "setting" /\ target' = want /\ UNCHANGED overlooked
           ELSE /\ pc' = "next" /\ target' = NoProfile
                /\ overlooked' = (want = active /\ want \notin {NoProfile, current})
    /\ UNCHANGED <<world, events, more, opened, session, active, app, deviceError, rulesPending,
                   transient, published, chosen, unseen, bounds>>

(* activate_profile's switch: a request that stalled may still have reached *)
(* the mouse.                                                              *)
SetProfile ==
    /\ pc = "setting"
    /\ \/ /\ present /\ target \in Enabled
          /\ current' = target
          /\ pc' = "confirming"
          /\ chosen' = FALSE /\ overlooked' = FALSE
          /\ UNCHANGED <<session, active, deviceError, ruleError, rulesPending, transient, bounds>>
       \/ /\ present /\ target \notin Enabled
          /\ ruleError' = TRUE
          /\ pc' = "next"
          /\ UNCHANGED <<current, session, active, deviceError, rulesPending, transient,
                         chosen, overlooked, bounds>>
       \/ /\ RequestFails(TRUE)
          /\ \/ present /\ target \in Enabled /\ current' = target
             \/ UNCHANGED current
          /\ pc' = "next"
          /\ UNCHANGED <<ruleError, chosen, overlooked>>
    /\ UNCHANGED <<present, othersHold, focus, file, events, more, opened, target, app, rules,
                   stamp, configError, published, unseen>>

(* Its read-back; another profile than the one asked for is an error that  *)
(* drops the session.                                                      *)
Confirm ==
    /\ pc = "confirming" /\ pc' = "next"
    /\ \/ /\ present
          /\ IF current = target
             THEN /\ active' = target /\ transient' = 0
                  /\ UNCHANGED <<session, deviceError, rulesPending>>
             ELSE Lost
          /\ unseen' = FALSE
          /\ UNCHANGED bounds
       \/ RequestFails(TRUE) /\ UNCHANGED unseen
    /\ UNCHANGED <<world, events, more, opened, target, app, rules, stamp, configError, ruleError,
                   published, chosen, overlooked>>

(* The end of a handler: a tick applies pending rules first. *)
Proceed ==
    /\ pc = "next"
    /\ more' = FALSE
    /\ rulesPending' = (rulesPending /\ ~more)
    /\ UNCHANGED <<world, events, opened, target, session, active, app, rules, stamp, errors,
                   transient, history, bounds>>
    /\ IF more /\ rulesPending
       THEN pc' = "rules" /\ UNCHANGED published
       ELSE pc' = "idle" /\ Publish

World ==
    \/ \E p \in Profile : Press(p) \/ OthersActivate(p)
    \/ \E p \in Enabled : Plug(p)
    \/ \E a \in App : FocusChange(a)
    \/ \E r \in Rules \cup {Broken} : SaveRules(r)
    \/ Unplug \/ OthersTake \/ OthersRelease \/ Terminate

Next == World \/ Connect \/ ReadFocus \/ Tick \/ HandleEvent \/ Open \/ Read \/ ApplyRules
              \/ SetProfile \/ Confirm \/ Proceed

(* The task runs, the service manager starts it again, and other commands  *)
(* end.  The ticker waits three seconds, so an event does not wait for     *)
(* ever behind ticks: hence strong fairness.                               *)
Fairness ==
    /\ WF_vars(Connect) /\ WF_vars(ReadFocus) /\ WF_vars(Tick) /\ SF_vars(HandleEvent)
    /\ WF_vars(Open) /\ WF_vars(Read) /\ WF_vars(ApplyRules) /\ WF_vars(SetProfile)
    /\ WF_vars(Confirm) /\ WF_vars(Proceed)
    /\ WF_vars(OthersRelease) /\ WF_vars(\E p \in Enabled : Plug(p))

Spec == Init /\ [][Next]_vars /\ Fairness
-----------------------------------------------------------------------------
(* Between two handlers, with every event handled and a working session,   *)
(* the mouse is on the profile the rules pick for the app in focus, unless *)
(* it was picked on the mouse since, or a stale cache hid the difference:  *)
(* no busy lock, stall, reload or reconnect loses a rule.                  *)
RuleFollowed ==
    pc = "idle" /\ events = <<>> /\ stamp = file.stamp /\ ~rulesPending /\ session
        /\ ~chosen /\ ~overlooked
        => rules[app] \in {NoProfile, current} \cup (Profile \ Enabled)

(* The profile the shell shows is the one the mouse is on, unless it was   *)
(* switched since the last poll or the last request stalled.               *)
StateIsTrue ==
    pc = "idle" /\ published # NoState /\ ~unseen /\ transient = 0
        => published.active \in {NoProfile, current}

(* Once the world is still, the mouse comes to the profile that the file   *)
(* picks for the focused app and stays there, or the state file says why   *)
(* not.                                                                    *)
Settled ==
    \/ chosen \/ overlooked
    \/ published # NoState /\ published.error
    \/ file.rules # Broken /\ file.rules[focus] \in {NoProfile, current}
Settles == <>[]Settled

(* What the daemon published is what the mouse is on (daemon.rs, publish). *)
Consistent == TypeOK /\ StateIsTrue
=============================================================================
