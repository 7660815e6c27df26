---------------------------- MODULE DaemonProofs ----------------------------
(***************************************************************************)
(* The daemon loses no rule and publishes the profile the mouse is on: for *)
(* any apps, profiles and rules files, and any number of stalls and of     *)
(* changes around it.                                                      *)
(*                                                                         *)
(* The self-test leaves the mouse as it found it, keeps it usable, passes  *)
(* when nothing disturbs it and reports no pass that is not earned: for    *)
(* any number of profiles and of writes in each phase, and any number of   *)
(* requests that fail.  It is the other program of the repository that     *)
(* drives a mouse without its user.                                        *)
(***************************************************************************)
EXTENDS Daemon, SelfTest, FiniteSetTheorems, WellFoundedInduction, SequenceTheorems, TLAPS

-----------------------------------------------------------------------------
(* The inductive invariant.                                                *)

(* The rule for the daemon's app is on the mouse, or cannot be. *)
Obeyed == rules[app] \in {NoProfile, current} \cup (Profile \ Enabled)

(* No event that waits will change the app. *)
Settling == \A i \in DOMAIN events : events[i] = app

(* Nothing is known that would have the rules applied. *)
Quiet == Settling /\ stamp = file.stamp /\ ~rulesPending /\ session /\ ~chosen /\ ~overlooked

(* The last event is the app in focus, which no event repeats. *)
FocusInv ==
    /\ pc = "off" => events = <<>>
    /\ events # <<>> => events[Len(events)] = focus
    /\ events = <<>> /\ pc \notin {"off", "connected"} => app = focus

(* Where a session is open, and which profile is being activated. *)
StageInv ==
    /\ pc \in {"off", "connected", "starting", "opening"} => ~session
    /\ pc \in {"setting", "confirming"} => target = rules[app] /\ target # NoProfile
    /\ stamp <= file.stamp

(* Outside apply_rules the rule is followed, but where a step that is due  *)
(* will look at it. *)
RuleInv ==
    \/ pc \in {"rules", "setting"}
    \/ pc = "reading" /\ opened
    \/ Quiet => Obeyed

(* What the daemon takes for the active profile. *)
ActiveInv ==
    /\ ~unseen /\ transient = 0 /\ pc # "confirming" => active \in {NoProfile, current}
    /\ pc = "idle" /\ published # NoState => published.active = active

(* The types, one flag at a time. *)
WorldTypes ==
    /\ current \in Profile /\ focus \in App /\ events \in Seq(App)
    /\ file \in [stamp : Nat, rules : Rules \cup {Broken}]
    /\ app \in App /\ rules \in Rules \cup {NoRules} /\ stamp \in Nat
    /\ transient \in {0, 1}
    /\ changes \in 0..MaxChanges /\ stalls \in 0..MaxStalls
StepTypes ==
    /\ pc \in {"off", "connected", "starting", "idle"} \cup Working
    /\ target \in Profile \cup {NoProfile}
    /\ active \in Profile \cup {NoProfile}
FlagTypes ==
    /\ present \in BOOLEAN /\ othersHold \in BOOLEAN /\ more \in BOOLEAN
    /\ opened \in BOOLEAN /\ session \in BOOLEAN /\ rulesPending \in BOOLEAN
    /\ unseen \in BOOLEAN /\ overlooked \in BOOLEAN /\ chosen \in BOOLEAN
    /\ configError \in BOOLEAN /\ deviceError \in BOOLEAN /\ ruleError \in BOOLEAN
StateTypes ==
    published \in {NoState} \cup [active : Profile \cup {NoProfile}, error : BOOLEAN]

Types == WorldTypes /\ StepTypes /\ FlagTypes /\ StateTypes

IInv == Types /\ FocusInv /\ StageInv /\ RuleInv /\ ActiveInv

-----------------------------------------------------------------------------
(* One lemma per action, and one step in it per part of the invariant.     *)

(* A pick on the mouse suspends the rule, and what was read last is old.   *)
LEMMA PressKeeps == ASSUME IInv, NEW p \in Profile, Press(p) PROVE IInv'
<1> USE ProfileAssumption, RulesAssumption, BoundsAssumption DEF IInv, Types, Press, Change,
         daemonVars, world, errors, history, bounds
<1>1. WorldTypes'
  BY DEF WorldTypes, StepTypes, NoProfile, NoRules, Working
<1>2. StepTypes'
  BY DEF StepTypes, WorldTypes, NoProfile, NoRules, Working
<1>3. FlagTypes'
  BY DEF FlagTypes
<1>4. FocusInv'
  BY DEF FocusInv, WorldTypes, StepTypes
<1>5. StageInv'
  BY DEF StageInv, WorldTypes, StepTypes, Working
<1>6. RuleInv'
  BY DEF RuleInv, Quiet, Obeyed, Settling, StageInv, FocusInv, WorldTypes, StepTypes
<1>7. ActiveInv'
  BY DEF ActiveInv, WorldTypes, StepTypes, NoState
<1>8. StateTypes'
  BY <1>2, <1>3 DEF StateTypes, StepTypes, FlagTypes, NoState
<1> QED BY <1>1, <1>2, <1>3, <1>4, <1>5, <1>6, <1>7, <1>8

(* Another process moves the mouse while it holds the lock: seen later.    *)
LEMMA OthersActivateKeeps == ASSUME IInv, NEW p \in Profile, OthersActivate(p) PROVE IInv'
<1> USE ProfileAssumption, RulesAssumption, BoundsAssumption DEF IInv, Types, OthersActivate,
         Change, daemonVars, world, errors, history, bounds
<1>1. WorldTypes'
  BY DEF WorldTypes, StepTypes, NoProfile, NoRules, Working
<1>2. StepTypes'
  BY DEF StepTypes, WorldTypes, NoProfile, NoRules, Working
<1>3. FlagTypes'
  BY DEF FlagTypes
<1>4. FocusInv'
  BY DEF FocusInv, WorldTypes, StepTypes
<1>5. StageInv'
  BY DEF StageInv, WorldTypes, StepTypes, Working
<1>6. RuleInv'
  BY DEF RuleInv, Quiet, Obeyed, Settling, StageInv, FocusInv, WorldTypes, StepTypes
<1>7. ActiveInv'
  BY DEF ActiveInv, WorldTypes, StepTypes, NoState
<1>8. StateTypes'
  BY <1>2, <1>3 DEF StateTypes, StepTypes, FlagTypes, NoState
<1> QED BY <1>1, <1>2, <1>3, <1>4, <1>5, <1>6, <1>7, <1>8

(* A mouse that comes back may be on any profile.                          *)
LEMMA PlugKeeps == ASSUME IInv, NEW p \in Enabled, Plug(p) PROVE IInv'
<1> USE ProfileAssumption, RulesAssumption, BoundsAssumption DEF IInv, Types, Plug, Change,
         daemonVars, world, errors, history, bounds
<1>1. WorldTypes'
  BY DEF WorldTypes, StepTypes, NoProfile, NoRules, Working
<1>2. StepTypes'
  BY DEF StepTypes, WorldTypes, NoProfile, NoRules, Working
<1>3. FlagTypes'
  BY DEF FlagTypes
<1>4. FocusInv'
  BY DEF FocusInv, WorldTypes, StepTypes
<1>5. StageInv'
  BY DEF StageInv, WorldTypes, StepTypes, Working
<1>6. RuleInv'
  BY DEF RuleInv, Quiet, Obeyed, Settling, StageInv, FocusInv, WorldTypes, StepTypes
<1>7. ActiveInv'
  BY DEF ActiveInv, WorldTypes, StepTypes, NoState
<1>8. StateTypes'
  BY <1>2, <1>3 DEF StateTypes, StepTypes, FlagTypes, NoState
<1> QED BY <1>1, <1>2, <1>3, <1>4, <1>5, <1>6, <1>7, <1>8

(* An event that waits names another app than the one in focus before it.  *)
LEMMA FocusChangeKeeps == ASSUME IInv, NEW a \in App, FocusChange(a) PROVE IInv'
<1> USE ProfileAssumption, RulesAssumption, BoundsAssumption DEF IInv, Types, FocusChange,
         Change, daemonVars, world, errors, history, bounds
<1>1. WorldTypes'
  BY AppendProperties, LenProperties DEF WorldTypes, StepTypes, NoProfile, NoRules, Working
<1>2. StepTypes'
  BY DEF StepTypes, WorldTypes, NoProfile, NoRules, Working
<1>3. FlagTypes'
  BY DEF FlagTypes
<1>4. FocusInv'
  BY AppendProperties, LenProperties DEF FocusInv, WorldTypes, StepTypes
<1>5. StageInv'
  BY DEF StageInv, WorldTypes, StepTypes, Working
<1>6. RuleInv'
  <2>1. CASE pc = "off"
    BY <2>1 DEF RuleInv, Quiet, StageInv
  <2>2. CASE pc # "off"
    <3>1. events \in Seq(App) /\ events' = Append(events, a)
      BY <2>2 DEF WorldTypes
    <3>2. DOMAIN events' = 1..(Len(events) + 1) /\ events'[Len(events) + 1] = a
      BY <3>1, AppendProperties, LenProperties
    <3>3. Len(events) \in Nat /\ DOMAIN events = 1..Len(events)
          /\ \A i \in 1..Len(events) : events'[i] = events[i]
      BY <3>1, AppendProperties, LenProperties
    <3>4. Settling' => a = app
      BY <3>2, <3>3 DEF Settling
    <3>5. Settling' /\ events # <<>> => focus = app
      <4>1. events # <<>> => Len(events) \in 1..Len(events)
        BY <3>1, <3>3, EmptySeq
      <4> QED BY <4>1, <3>2, <3>3 DEF Settling, FocusInv
    <3>6. Quiet' => FALSE
      BY <3>4, <3>5 DEF Quiet, FocusInv, StageInv
    <3> QED BY <3>6 DEF RuleInv
  <2> QED BY <2>1, <2>2
<1>7. ActiveInv'
  BY DEF ActiveInv, WorldTypes, StepTypes, NoState
<1>8. StateTypes'
  BY <1>2, <1>3 DEF StateTypes, StepTypes, FlagTypes, NoState
<1> QED BY <1>1, <1>2, <1>3, <1>4, <1>5, <1>6, <1>7, <1>8

(* A saved file is newer than the one the daemon read.                     *)
LEMMA SaveRulesKeeps == ASSUME IInv, NEW r \in Rules \cup {Broken}, SaveRules(r) PROVE IInv'
<1> USE ProfileAssumption, RulesAssumption, BoundsAssumption DEF IInv, Types, SaveRules, Change,
         daemonVars, world, errors, history, bounds
<1>1. WorldTypes'
  BY DEF WorldTypes, StepTypes, NoProfile, NoRules, Working
<1>2. StepTypes'
  BY DEF StepTypes, WorldTypes, NoProfile, NoRules, Working
<1>3. FlagTypes'
  BY DEF FlagTypes
<1>4. FocusInv'
  BY DEF FocusInv, WorldTypes, StepTypes
<1>5. StageInv'
  BY DEF StageInv, WorldTypes, StepTypes, Working
<1>6. RuleInv'
  BY DEF RuleInv, Quiet, Obeyed, Settling, StageInv, FocusInv, WorldTypes, StepTypes
<1>7. ActiveInv'
  BY DEF ActiveInv, WorldTypes, StepTypes, NoState
<1>8. StateTypes'
  BY <1>2, <1>3 DEF StateTypes, StepTypes, FlagTypes, NoState
<1> QED BY <1>1, <1>2, <1>3, <1>4, <1>5, <1>6, <1>7, <1>8

(* The mouse goes away: nothing the daemon knows changes.                  *)
LEMMA UnplugKeeps == ASSUME IInv, Unplug PROVE IInv'
<1> USE ProfileAssumption, RulesAssumption, BoundsAssumption DEF IInv, Types, Unplug, Change,
         daemonVars, world, errors, history, bounds
<1>1. WorldTypes'
  BY DEF WorldTypes, StepTypes, NoProfile, NoRules, Working
<1>2. StepTypes'
  BY DEF StepTypes, WorldTypes, NoProfile, NoRules, Working
<1>3. FlagTypes'
  BY DEF FlagTypes
<1>4. FocusInv'
  BY DEF FocusInv, WorldTypes, StepTypes
<1>5. StageInv'
  BY DEF StageInv, WorldTypes, StepTypes, Working
<1>6. RuleInv'
  BY DEF RuleInv, Quiet, Obeyed, Settling, StageInv, FocusInv, WorldTypes, StepTypes
<1>7. ActiveInv'
  BY DEF ActiveInv, WorldTypes, StepTypes, NoState
<1>8. StateTypes'
  BY <1>2, <1>3 DEF StateTypes, StepTypes, FlagTypes, NoState
<1> QED BY <1>1, <1>2, <1>3, <1>4, <1>5, <1>6, <1>7, <1>8

(* The lock is taken between two handlers.                                 *)
LEMMA OthersTakeKeeps == ASSUME IInv, OthersTake PROVE IInv'
<1> USE ProfileAssumption, RulesAssumption, BoundsAssumption DEF IInv, Types, OthersTake,
         Working, Change, daemonVars, world, errors, history, bounds
<1>1. WorldTypes'
  BY DEF WorldTypes, StepTypes, NoProfile, NoRules, Working
<1>2. StepTypes'
  BY DEF StepTypes, WorldTypes, NoProfile, NoRules, Working
<1>3. FlagTypes'
  BY DEF FlagTypes
<1>4. FocusInv'
  BY DEF FocusInv, WorldTypes, StepTypes
<1>5. StageInv'
  BY DEF StageInv, WorldTypes, StepTypes, Working
<1>6. RuleInv'
  BY DEF RuleInv, Quiet, Obeyed, Settling, StageInv, FocusInv, WorldTypes, StepTypes
<1>7. ActiveInv'
  BY DEF ActiveInv, WorldTypes, StepTypes, NoState
<1>8. StateTypes'
  BY <1>2, <1>3 DEF StateTypes, StepTypes, FlagTypes, NoState
<1> QED BY <1>1, <1>2, <1>3, <1>4, <1>5, <1>6, <1>7, <1>8

(* The lock is given back.                                                 *)
LEMMA OthersReleaseKeeps == ASSUME IInv, OthersRelease PROVE IInv'
<1> USE ProfileAssumption, RulesAssumption, BoundsAssumption DEF IInv, Types, OthersRelease,
         Change, daemonVars, world, errors, history, bounds
<1>1. WorldTypes'
  BY DEF WorldTypes, StepTypes, NoProfile, NoRules, Working
<1>2. StepTypes'
  BY DEF StepTypes, WorldTypes, NoProfile, NoRules, Working
<1>3. FlagTypes'
  BY DEF FlagTypes
<1>4. FocusInv'
  BY DEF FocusInv, WorldTypes, StepTypes
<1>5. StageInv'
  BY DEF StageInv, WorldTypes, StepTypes, Working
<1>6. RuleInv'
  BY DEF RuleInv, Quiet, Obeyed, Settling, StageInv, FocusInv, WorldTypes, StepTypes
<1>7. ActiveInv'
  BY DEF ActiveInv, WorldTypes, StepTypes, NoState
<1>8. StateTypes'
  BY <1>2, <1>3 DEF StateTypes, StepTypes, FlagTypes, NoState
<1> QED BY <1>1, <1>2, <1>3, <1>4, <1>5, <1>6, <1>7, <1>8

(* The daemon ends: the next one starts without a session and without      *)
(* events.                                                                 *)
LEMMA TerminateKeeps == ASSUME IInv, Terminate PROVE IInv'
<1> USE ProfileAssumption, RulesAssumption, BoundsAssumption DEF IInv, Types, Terminate, Change,
         daemonVars, world, errors, history, bounds
<1>1. WorldTypes'
  BY DEF WorldTypes, StepTypes, NoProfile, NoRules, Working
<1>2. StepTypes'
  BY DEF StepTypes, WorldTypes, NoProfile, NoRules, Working
<1>3. FlagTypes'
  BY DEF FlagTypes
<1>4. FocusInv'
  BY DEF FocusInv, WorldTypes, StepTypes
<1>5. StageInv'
  BY DEF StageInv, WorldTypes, StepTypes, Working
<1>6. RuleInv'
  BY DEF RuleInv, Quiet, Obeyed, Settling, StageInv, FocusInv, WorldTypes, StepTypes
<1>7. ActiveInv'
  BY DEF ActiveInv, WorldTypes, StepTypes, NoState
<1>8. StateTypes'
  BY <1>2, <1>3 DEF StateTypes, StepTypes, FlagTypes, NoState
<1> QED BY <1>1, <1>2, <1>3, <1>4, <1>5, <1>6, <1>7, <1>8

(* Events are queued before the focus is read.                             *)
LEMMA ConnectKeeps == ASSUME IInv, Connect PROVE IInv'
<1> USE ProfileAssumption, RulesAssumption, BoundsAssumption DEF IInv, Types, Connect, Change,
         daemonVars, world, errors, history, bounds
<1>1. WorldTypes'
  BY DEF WorldTypes, StepTypes, NoProfile, NoRules, Working
<1>2. StepTypes'
  BY DEF StepTypes, WorldTypes, NoProfile, NoRules, Working
<1>3. FlagTypes'
  BY DEF FlagTypes
<1>4. FocusInv'
  BY DEF FocusInv, WorldTypes, StepTypes
<1>5. StageInv'
  BY DEF StageInv, WorldTypes, StepTypes, Working
<1>6. RuleInv'
  BY DEF RuleInv, Quiet, Obeyed, Settling, StageInv, FocusInv, WorldTypes, StepTypes
<1>7. ActiveInv'
  BY DEF ActiveInv, WorldTypes, StepTypes, NoState
<1>8. StateTypes'
  BY <1>2, <1>3 DEF StateTypes, StepTypes, FlagTypes, NoState
<1> QED BY <1>1, <1>2, <1>3, <1>4, <1>5, <1>6, <1>7, <1>8

(* The focus that is read is the last event's, if one waits.               *)
LEMMA ReadFocusKeeps == ASSUME IInv, ReadFocus PROVE IInv'
<1> USE ProfileAssumption, RulesAssumption, BoundsAssumption DEF IInv, Types, ReadFocus, Reload,
         Change, daemonVars, world, errors, history, bounds
<1>1. WorldTypes'
  BY DEF WorldTypes, StepTypes, NoProfile, NoRules, Working
<1>2. StepTypes'
  BY DEF StepTypes, WorldTypes, NoProfile, NoRules, Working
<1>3. FlagTypes'
  BY DEF FlagTypes
<1>4. FocusInv'
  BY DEF FocusInv, WorldTypes, StepTypes
<1>5. StageInv'
  BY DEF StageInv, WorldTypes, StepTypes, Working
<1>6. RuleInv'
  BY DEF RuleInv, Quiet, Obeyed, Settling, StageInv, FocusInv, WorldTypes, StepTypes
<1>7. ActiveInv'
  BY DEF ActiveInv, WorldTypes, StepTypes, NoState
<1>8. StateTypes'
  BY <1>2, <1>3 DEF StateTypes, StepTypes, FlagTypes, NoState
<1> QED BY <1>1, <1>2, <1>3, <1>4, <1>5, <1>6, <1>7, <1>8

(* A tick under another's lock changes nothing but the state file.         *)
LEMMA TickKeeps == ASSUME IInv, Tick PROVE IInv'
<1> USE ProfileAssumption, RulesAssumption, BoundsAssumption DEF IInv, Types, Tick, Publish,
         Change, daemonVars, world, errors, history, bounds
<1>1. WorldTypes'
  BY DEF WorldTypes, StepTypes, NoProfile, NoRules, Working
<1>2. StepTypes'
  BY DEF StepTypes, WorldTypes, NoProfile, NoRules, Working
<1>3. FlagTypes'
  BY DEF FlagTypes
<1>4. FocusInv'
  BY DEF FocusInv, WorldTypes, StepTypes
<1>5. StageInv'
  BY DEF StageInv, WorldTypes, StepTypes, Working
<1>6. RuleInv'
  BY DEF RuleInv, Quiet, Obeyed, Settling, StageInv, FocusInv, WorldTypes, StepTypes
<1>7. ActiveInv'
  BY DEF ActiveInv, WorldTypes, StepTypes, NoState
<1>8. StateTypes'
  BY <1>2, <1>3 DEF StateTypes, StepTypes, FlagTypes, NoState
<1> QED BY <1>1, <1>2, <1>3, <1>4, <1>5, <1>6, <1>7, <1>8

(* A new app has its rule applied now, or noted while the lock is held.    *)
LEMMA HandleEventKeeps == ASSUME IInv, HandleEvent PROVE IInv'
<1> USE ProfileAssumption, RulesAssumption, BoundsAssumption DEF IInv, Types, HandleEvent,
         Change, daemonVars, world, errors, history, bounds
<1>0. /\ events' \in Seq(App) /\ app' \in App /\ app' = events[1]
      /\ Len(events) \in Nat /\ Len(events) > 0 /\ Len(events') = Len(events) - 1
      /\ DOMAIN events = 1..Len(events) /\ DOMAIN events' = 1..Len(events')
      /\ \A i \in 1..Len(events') : events'[i] = events[i + 1]
  <2>1. events \in Seq(App) /\ events # <<>>
    BY DEF WorldTypes
  <2>2. Head(events) = events[1] /\ Len(events) \in Nat /\ Len(events) > 0
    BY <2>1, EmptySeq, LenProperties
  <2> QED BY <2>1, <2>2, HeadTailProperties, LenProperties
<1>1. WorldTypes'
  BY <1>0 DEF WorldTypes
<1>2. StepTypes'
  BY DEF StepTypes, WorldTypes, NoProfile, NoRules, Working
<1>3. FlagTypes'
  BY DEF FlagTypes
<1>4. FocusInv'
  <2>1. CASE events' = <<>>
    <3>1. Len(events) = 1
      <4>1. Len(events') = 0
        BY <2>1, EmptySeq
      <4> QED BY <4>1, <1>0
    <3>2. app' = focus
      <4>1. events # <<>>
        OBVIOUS
      <4> QED BY <3>1, <4>1, <1>0 DEF FocusInv
    <3> QED BY <2>1, <3>2 DEF FocusInv
  <2>2. CASE events' # <<>>
    <3>1. Len(events') \in 1..Len(events')
      BY <2>2, <1>0, EmptySeq
    <3>2. events'[Len(events')] = focus
      BY <3>1, <1>0 DEF FocusInv
    <3> QED BY <2>2, <3>2 DEF FocusInv
  <2> QED BY <2>1, <2>2
<1>5. StageInv'
  BY DEF StageInv, WorldTypes, StepTypes, Working
<1>6. RuleInv'
  <2>1. CASE app' # app
    BY <2>1 DEF RuleInv, Quiet, FlagTypes
  <2>2. CASE app' = app
    <3>1. Settling' => Settling
      <4> SUFFICES ASSUME Settling', NEW i \in 1..Len(events) PROVE events[i] = app
        BY <1>0 DEF Settling
      <4>1. CASE i = 1
        BY <4>1, <2>2, <1>0
      <4>2. CASE i # 1
        <5>1. i - 1 \in 1..Len(events') /\ events'[i - 1] = events[(i - 1) + 1] /\ (i - 1) + 1 = i
          BY <4>2, <1>0
        <5>2. events'[i - 1] = app'
          BY <5>1, <1>0 DEF Settling
        <5> QED BY <5>1, <5>2, <2>2
      <4> QED BY <4>1, <4>2
    <3>2. Quiet' => Quiet
      BY <3>1, <2>2 DEF Quiet
    <3> QED BY <3>2, <2>2 DEF RuleInv, Obeyed
  <2> QED BY <2>1, <2>2
<1>7. ActiveInv'
  BY DEF ActiveInv, WorldTypes, StepTypes, NoState
<1>8. StateTypes'
  BY <1>2, <1>3 DEF StateTypes, StepTypes, FlagTypes, NoState
<1> QED BY <1>1, <1>2, <1>3, <1>4, <1>5, <1>6, <1>7, <1>8

(* A session that opens has its rule applied after it is read.             *)
LEMMA OpenKeeps == ASSUME IInv, Open PROVE IInv'
<1> USE ProfileAssumption, RulesAssumption, BoundsAssumption DEF IInv, Types, Open, Disconnect,
         Change, daemonVars, world, errors, history, bounds
<1>1. WorldTypes'
  BY DEF WorldTypes, StepTypes, NoProfile, NoRules, Working
<1>2. StepTypes'
  BY DEF StepTypes, WorldTypes, NoProfile, NoRules, Working
<1>3. FlagTypes'
  BY DEF FlagTypes
<1>4. FocusInv'
  BY DEF FocusInv, WorldTypes, StepTypes
<1>5. StageInv'
  BY DEF StageInv, WorldTypes, StepTypes, Working
<1>6. RuleInv'
  BY DEF RuleInv, Quiet, Obeyed, Settling, StageInv, FocusInv, WorldTypes, StepTypes
<1>7. ActiveInv'
  BY DEF ActiveInv, WorldTypes, StepTypes, NoState
<1>8. StateTypes'
  BY <1>2, <1>3 DEF StateTypes, StepTypes, FlagTypes, NoState
<1> QED BY <1>1, <1>2, <1>3, <1>4, <1>5, <1>6, <1>7, <1>8

(* What was read is what the mouse is on; a new file has its rule applied. *)
LEMMA ReadKeeps == ASSUME IInv, Read PROVE IInv'
<1> USE ProfileAssumption, RulesAssumption, BoundsAssumption DEF IInv, Types, Read, RequestFails,
         Stalled, Lost, Disconnect, Change, daemonVars, world, errors, history, bounds
<1>1. WorldTypes'
  BY DEF WorldTypes, StepTypes, NoProfile, NoRules, Working
<1>2. StepTypes'
  BY DEF StepTypes, WorldTypes, NoProfile, NoRules, Working
<1>3. FlagTypes'
  <2>1. session' \in BOOLEAN /\ deviceError' \in BOOLEAN
    BY DEF FlagTypes
  <2>2. rulesPending' \in BOOLEAN
    BY DEF FlagTypes
  <2>3. unseen' \in BOOLEAN
    BY DEF FlagTypes
  <2> QED BY <2>1, <2>2, <2>3 DEF FlagTypes
<1>4. FocusInv'
  BY DEF FocusInv, WorldTypes, StepTypes
<1>5. StageInv'
  BY DEF StageInv, WorldTypes, StepTypes, Working
<1>6. RuleInv'
  BY DEF RuleInv, Quiet, Obeyed, Settling, StageInv, FocusInv, WorldTypes, StepTypes
<1>7. ActiveInv'
  BY DEF ActiveInv, WorldTypes, StepTypes, NoState
<1>8. StateTypes'
  BY <1>2, <1>3 DEF StateTypes, StepTypes, FlagTypes, NoState
<1> QED BY <1>1, <1>2, <1>3, <1>4, <1>5, <1>6, <1>7, <1>8

(* The rule is followed, or about to be, or overlooked.                    *)
LEMMA ApplyRulesKeeps == ASSUME IInv, ApplyRules PROVE IInv'
<1> USE ProfileAssumption, RulesAssumption, BoundsAssumption DEF IInv, Types, ApplyRules, Reload,
         Change, daemonVars, world, errors, history, bounds
<1>1. WorldTypes'
  BY DEF WorldTypes, StepTypes, NoProfile, NoRules, Working
<1>2. StepTypes'
  BY DEF StepTypes, WorldTypes, NoProfile, NoRules, Working
<1>3. FlagTypes'
  BY DEF FlagTypes
<1>4. FocusInv'
  BY DEF FocusInv, WorldTypes, StepTypes
<1>5. StageInv'
  BY DEF StageInv, WorldTypes, StepTypes, Working
<1>6. RuleInv'
  BY DEF RuleInv, Quiet, Obeyed, Settling, StageInv, FocusInv, WorldTypes, StepTypes
<1>7. ActiveInv'
  BY DEF ActiveInv, WorldTypes, StepTypes, NoState
<1>8. StateTypes'
  BY <1>2, <1>3 DEF StateTypes, StepTypes, FlagTypes, NoState
<1> QED BY <1>1, <1>2, <1>3, <1>4, <1>5, <1>6, <1>7, <1>8

(* The switch is made, refused, lost with the session, or noted for a      *)
(* retry.                                                                  *)
LEMMA SetProfileKeeps == ASSUME IInv, SetProfile PROVE IInv'
<1> USE ProfileAssumption, RulesAssumption, BoundsAssumption DEF IInv, Types, SetProfile,
         RequestFails, Stalled, Lost, Disconnect, Change, daemonVars, world, errors, history,
         bounds
<1>1. WorldTypes'
  BY DEF WorldTypes, StepTypes, NoProfile, NoRules, Working
<1>2. StepTypes'
  BY DEF StepTypes, WorldTypes, NoProfile, NoRules, Working
<1>3. FlagTypes'
  <2>1. session' \in BOOLEAN /\ deviceError' \in BOOLEAN
    BY DEF FlagTypes
  <2>2. rulesPending' \in BOOLEAN
    BY DEF FlagTypes
  <2>3. ruleError' \in BOOLEAN
    BY DEF FlagTypes
  <2>4. chosen' \in BOOLEAN /\ overlooked' \in BOOLEAN
    BY DEF FlagTypes
  <2> QED BY <2>1, <2>2, <2>3, <2>4 DEF FlagTypes
<1>4. FocusInv'
  BY DEF FocusInv, WorldTypes, StepTypes
<1>5. StageInv'
  BY DEF StageInv, WorldTypes, StepTypes, Working
<1>6. RuleInv'
  BY DEF RuleInv, Quiet, Obeyed, Settling, StageInv, FocusInv, WorldTypes, StepTypes
<1>7. ActiveInv'
  BY DEF ActiveInv, WorldTypes, StepTypes, NoState
<1>8. StateTypes'
  BY <1>2, <1>3 DEF StateTypes, StepTypes, FlagTypes, NoState
<1> QED BY <1>1, <1>2, <1>3, <1>4, <1>5, <1>6, <1>7, <1>8

(* The read-back agrees, or the session goes.                              *)
LEMMA ConfirmKeeps == ASSUME IInv, Confirm PROVE IInv'
<1> USE ProfileAssumption, RulesAssumption, BoundsAssumption DEF IInv, Types, Confirm,
         RequestFails, Stalled, Lost, Disconnect, Change, daemonVars, world, errors, history,
         bounds
<1>1. WorldTypes'
  BY DEF WorldTypes, StepTypes, NoProfile, NoRules, Working
<1>2. StepTypes'
  BY DEF StepTypes, WorldTypes, NoProfile, NoRules, Working
<1>3. FlagTypes'
  <2>1. session' \in BOOLEAN /\ deviceError' \in BOOLEAN
    BY DEF FlagTypes
  <2>2. rulesPending' \in BOOLEAN
    BY DEF FlagTypes
  <2>3. unseen' \in BOOLEAN
    BY DEF FlagTypes
  <2> QED BY <2>1, <2>2, <2>3 DEF FlagTypes
<1>4. FocusInv'
  BY DEF FocusInv, WorldTypes, StepTypes
<1>5. StageInv'
  BY DEF StageInv, WorldTypes, StepTypes, Working
<1>6. RuleInv'
  BY DEF RuleInv, Quiet, Obeyed, Settling, StageInv, FocusInv, WorldTypes, StepTypes
<1>7. ActiveInv'
  BY DEF ActiveInv, WorldTypes, StepTypes, NoState
<1>8. StateTypes'
  BY <1>2, <1>3 DEF StateTypes, StepTypes, FlagTypes, NoState
<1> QED BY <1>1, <1>2, <1>3, <1>4, <1>5, <1>6, <1>7, <1>8

(* Pending rules are applied by a tick, and kept by an event.              *)
LEMMA ProceedKeeps == ASSUME IInv, Proceed PROVE IInv'
<1> USE ProfileAssumption, RulesAssumption, BoundsAssumption DEF IInv, Types, Proceed, Publish,
         Change, daemonVars, world, errors, history, bounds
<1>1. WorldTypes'
  BY DEF WorldTypes, StepTypes, NoProfile, NoRules, Working
<1>2. StepTypes'
  BY DEF StepTypes, WorldTypes, NoProfile, NoRules, Working
<1>3. FlagTypes'
  BY DEF FlagTypes
<1>4. FocusInv'
  BY DEF FocusInv, WorldTypes, StepTypes
<1>5. StageInv'
  BY DEF StageInv, WorldTypes, StepTypes, Working
<1>6. RuleInv'
  BY DEF RuleInv, Quiet, Obeyed, Settling, StageInv, FocusInv, WorldTypes, StepTypes
<1>7. ActiveInv'
  BY DEF ActiveInv, WorldTypes, StepTypes, NoState
<1>8. StateTypes'
  BY <1>2, <1>3 DEF StateTypes, StepTypes, FlagTypes, NoState
<1> QED BY <1>1, <1>2, <1>3, <1>4, <1>5, <1>6, <1>7, <1>8

-----------------------------------------------------------------------------
(* A step that changes nothing keeps it.                                   *)
LEMMA StutterKeeps == ASSUME IInv, UNCHANGED vars PROVE IInv'
<1> USE DEF IInv, Types, vars, world, errors, history, bounds
<1>1. Types'
  BY DEF WorldTypes, StepTypes, FlagTypes, StateTypes
<1>2. FocusInv' /\ StageInv' /\ ActiveInv'
  BY DEF FocusInv, StageInv, ActiveInv
<1>3. RuleInv'
  BY DEF RuleInv, Quiet, Obeyed, Settling
<1> QED BY <1>1, <1>2, <1>3

(* A daemon that has not started knows nothing.                            *)
LEMMA InitHolds == Init => IInv
<1> SUFFICES ASSUME Init PROVE IInv
  OBVIOUS
<1> USE ProfileAssumption, RulesAssumption, BoundsAssumption DEF Init
<1>1. WorldTypes
  BY EmptySeq DEF WorldTypes, NoRules
<1>2. StepTypes /\ StateTypes
  BY DEF StepTypes, StateTypes, NoProfile
<1>3. FlagTypes
  BY DEF FlagTypes
<1>4. FocusInv /\ StageInv /\ RuleInv /\ ActiveInv
  BY DEF FocusInv, StageInv, RuleInv, Quiet, ActiveInv
<1> QED BY <1>1, <1>2, <1>3, <1>4 DEF IInv, Types

(* Every step of the daemon and of the world keeps the invariant.          *)
LEMMA NextKeeps == IInv /\ [Next]_vars => IInv'
<1> SUFFICES ASSUME IInv, [Next]_vars PROVE IInv'
  OBVIOUS
<1>1. CASE World
  <2>1. ASSUME NEW p \in Profile, Press(p) PROVE IInv'
    BY <2>1, PressKeeps
  <2>2. ASSUME NEW p \in Profile, OthersActivate(p) PROVE IInv'
    BY <2>2, OthersActivateKeeps
  <2>3. ASSUME NEW p \in Enabled, Plug(p) PROVE IInv'
    BY <2>3, PlugKeeps
  <2>4. ASSUME NEW a \in App, FocusChange(a) PROVE IInv'
    BY <2>4, FocusChangeKeeps
  <2>5. ASSUME NEW r \in Rules \cup {Broken}, SaveRules(r) PROVE IInv'
    BY <2>5, SaveRulesKeeps
  <2>6. CASE Unplug
    BY <2>6, UnplugKeeps
  <2>7. CASE OthersTake
    BY <2>7, OthersTakeKeeps
  <2>8. CASE OthersRelease
    BY <2>8, OthersReleaseKeeps
  <2>9. CASE Terminate
    BY <2>9, TerminateKeeps
  <2> QED BY <1>1, <2>1, <2>2, <2>3, <2>4, <2>5, <2>6, <2>7, <2>8, <2>9 DEF World
<1>2. CASE Connect
  BY <1>2, ConnectKeeps
<1>3. CASE ReadFocus
  BY <1>3, ReadFocusKeeps
<1>4. CASE Tick
  BY <1>4, TickKeeps
<1>5. CASE HandleEvent
  BY <1>5, HandleEventKeeps
<1>6. CASE Open
  BY <1>6, OpenKeeps
<1>7. CASE Read
  BY <1>7, ReadKeeps
<1>8. CASE ApplyRules
  BY <1>8, ApplyRulesKeeps
<1>9. CASE SetProfile
  BY <1>9, SetProfileKeeps
<1>10. CASE Confirm
  BY <1>10, ConfirmKeeps
<1>11. CASE Proceed
  BY <1>11, ProceedKeeps
<1>12. CASE UNCHANGED vars
  BY <1>12, StutterKeeps
<1> QED BY <1>1, <1>2, <1>3, <1>4, <1>5, <1>6, <1>7, <1>8, <1>9, <1>10, <1>11, <1>12 DEF Next

(* Between two handlers nothing is left to look at the rule later.         *)
LEMMA InvSuffices == IInv => TypeOK /\ RuleFollowed /\ StateIsTrue
<1> SUFFICES ASSUME IInv PROVE TypeOK /\ RuleFollowed /\ StateIsTrue
  OBVIOUS
<1> USE DEF IInv, Types
<1>1. TypeOK
  BY DEF TypeOK, WorldTypes, StepTypes, FlagTypes, StateTypes
<1>2. RuleFollowed
  BY EmptySeq DEF RuleFollowed, RuleInv, Quiet, Settling, Obeyed
<1>3. StateIsTrue
  BY DEF StateIsTrue, ActiveInv
<1> QED BY <1>1, <1>2, <1>3

-----------------------------------------------------------------------------
(* The theorems.                                                           *)

(* The invariant holds in every state the daemon and the world reach.      *)
LEMMA InvHolds == Spec => []IInv
<1> QED BY InitHolds, NextKeeps, PTL DEF Spec

(* However the focus, the rules file, the mouse, the lock and the stalls   *)
(* interleave, a daemon between two handlers with nothing left to handle   *)
(* has the mouse on the profile its rules pick (daemon.rs, apply_rules),   *)
(* for any apps, profiles and files.                                       *)
THEOREM RuleHolds == Spec => []RuleFollowed
<1> QED BY InvHolds, InvSuffices, PTL

(* The state file names the profile the mouse is on, but for a switch that *)
(* has not been polled yet or a request that stalled (daemon.rs, publish). *)
THEOREM StateHolds == Spec => []Consistent
<1>1. TypeOK /\ StateIsTrue => Consistent
  BY DEF Consistent
<1> QED BY <1>1, InvHolds, InvSuffices, PTL

(***************************************************************************)
(* The self-test.                                                          *)
(***************************************************************************)

(* The steps before the test profile is in use, those in which it is, and  *)
(* those that end the test.                                                *)
SetsUp   == {"set_up", "enable", "name", "begin"}
Phases   == {"bindings", "reread", "probe", "undo_probe", "refusals", "unchanged", "edits",
             "reread_edits", "unsorted", "names", "before", "history", "undo_back", "snapshot"}
Using    == {"in_use", "live_in_use", "undo_in_use"}
Running  == {"read_active", "live_active", "live_undone", "rate_undone", "refuse_off", "toggle",
             "go_home", "live_home"} \cup Using
Ending   == {"home", "put_back", "restore", "compare"}
Early    == SetsUp \cup Phases \cup {"activate"}
Homed    == (Early \cup Running \cup {"home"}) \ {"set_up"}
Written  == Phases \cup {"activate"} \cup Running

Mice == [onboard : BOOLEAN, spellable : BOOLEAN, on : (SUBSET StoredProfile) \ {{}},
         torn : BOOLEAN, current : StoredProfile,
         loaded : [profile : StoredProfile, content : Contents], memory : Contents]
Scripts == [number : 0..ProfileCount, home : 0..ProfileCount, off : 0..ProfileCount, i : Nat,
            last_undo : Nat, snapshot : Contents, written : Seq(Contents), undone : 0..3]

TestTypes == SelfTestTypeOK /\ start \in Mice

(* What the script remembers fits its place.                               *)
PlaceInv ==
    /\ step \notin {"prepare", "done"} => script.number \in StoredProfile
    /\ step = "prepare" => script = Fresh(NONE)
    /\ step = "done" <=> report # "none"
    /\ step = "toggle" => script.off # NONE
    /\ step = "undo_back" => Len(script.written) > 1
    /\ step = "history" => script.written # <<>>

(* How far the writes of each phase are counted.                           *)
CountInv ==
    /\ script.i \in Nat \ {0}
    /\ step = "bindings" => script.i <= Bindings
    /\ step = "edits" => script.i <= Edits
    /\ step = "history" => script.i <= Undos
    /\ step \in {"in_use", "toggle"} => script.i <= 3
    /\ step = "live_in_use" => script.i <= 2
    /\ step \in (Early \cup Running)
          \ {"bindings", "edits", "history", "in_use", "live_in_use", "toggle"} => script.i = 1
    /\ step \in (Early \cup Running) \ Using => script.undone = 0
    /\ step = "in_use" => script.undone < script.i
    /\ step = "live_in_use" => script.undone <= script.i
    /\ step = "undo_in_use" => script.undone > 0

(* How far the phase in use has written.                                   *)
Rank(content) == IF content.kind = "in_use" THEN content.n ELSE 0

(* What the memory holds at each place, and what undo can bring back.      *)
MemoryInv ==
    /\ step \in {"prepare", "set_up", "enable"} => mouse.memory = Found
    /\ step \in {"name", "begin", "activate"} \cup Running => ~IsScrambled(mouse.memory)
    /\ step \in Written => ~IsScrambled(script.snapshot) /\ script.snapshot.kind # "in_use"
    /\ step \in Early \cup {"prepare", "read_active", "live_active"} =>
          mouse.memory.kind # "in_use"
    /\ step = "in_use" => Rank(mouse.memory) < script.i
    /\ step = "live_in_use" => Rank(mouse.memory) <= script.i

UndoInv ==
    /\ step \in Early \cup {"prepare", "read_active", "live_active"} =>
          \A j \in 1..Len(undo) : undo[j].kind # "in_use"
    /\ step \in Using =>
          /\ script.undone <= Len(undo)
          /\ \A j \in 1..Len(undo) : j > Len(undo) - script.undone => ~IsScrambled(undo[j])

(* What the mouse runs while nobody presses its button.                    *)
UseInv ==
    presses = 0 =>
        /\ ~IsScrambled(mouse.loaded.content)
        /\ step \in Early => mouse.current # script.number
        /\ step \in Homed => script.home # script.number
        /\ step \in Ending => mouse.current # script.number \/ ~IsScrambled(mouse.memory)

(* A failure shows, and what was put back is as found.                     *)
ReportInv ==
    /\ spoiled => failed
    /\ report = "pass" => ~spoiled /\ IsAsFound
    /\ late => faults > excused
    /\ step = "compare" /\ ~late => IsAsFound
    /\ report \in {"pass", "fail"} /\ ~late => IsAsFound

(* Nothing disturbs the test, and then it is where it should be.           *)
Calm == presses = 0 /\ faults <= excused /\ mouse.onboard /\ mouse.spellable

Sound ==
    /\ ~failed /\ ~mouse.torn /\ mouse.memory # Torn /\ report \notin {"fail", "error"}
    /\ step \notin {"put_back", "restore", "compare", "done"} => mouse.current \in mouse.on
    /\ \A j \in 1..Len(undo) : undo[j] # Torn

(* The profiles the script counts on are on, and the one it turns on and   *)
(* off is off.                                                             *)
Chosen ==
    /\ step = "enable" => script.number \notin mouse.on
    /\ step \in Homed => script.home \in mouse.on
    /\ step \in Homed \ {"enable"} => script.number \in mouse.on
    /\ step \in Written \ {"toggle"} => script.off = NONE \/ script.off \notin mouse.on
    /\ step = "toggle" =>
          /\ script.off \in mouse.on <=> script.i = 3
          /\ script.off # script.number /\ script.off # script.home

(* The depth of undo is the one after the last write of the bindings.      *)
Depth ==
    /\ step = "begin" => mouse.memory = Content("named", 0)
    /\ step \in Written => script.snapshot = Content("named", 0)
    /\ step = "bindings" =>
          /\ mouse.memory.kind = "bindings" => mouse.memory.n < script.i
          /\ script.i > 1 => script.last_undo = Len(undo)
    /\ step \in {"reread", "probe", "refusals", "unchanged"} => script.last_undo = Len(undo)
    /\ step \in {"bindings", "reread", "probe"} => mouse.memory.kind # "probe"
    /\ step = "undo_probe" => Len(undo) = script.last_undo + 1

(* The last steps of undo lead from the memory back through the contents   *)
(* written.                                                                *)
Backs(memory, stack, written) ==
    /\ memory = written[Len(written)]
    /\ Len(stack) >= Len(written) - 1
    /\ \A j \in 1..Len(written) - 1 : stack[Len(stack) - (Len(written) - 1) + j] = written[j]

Taken ==
    /\ step \in Phases \ {"history", "undo_back", "snapshot"} => mouse.memory.kind # "undo"
    /\ step = "undo_probe" => undo[Len(undo)].kind # "undo"
    /\ step = "history" => (mouse.memory.kind = "undo" => mouse.memory.n < script.i)
    /\ step \in {"history", "undo_back"} => Backs(mouse.memory, undo, script.written)

(* Each write in use is of higher rank than the one before, down to the    *)
(* snapshot.                                                               *)
Climbs(memory, stack, snapshot, k) ==
    /\ k = 0 => memory = snapshot
    /\ k > 0 =>
          /\ stack[Len(stack) - k + 1] = snapshot
          /\ \A j \in 1..Len(stack) - 1 :
                j > Len(stack) - k => Rank(stack[j]) < Rank(stack[j + 1])
          /\ Rank(stack[Len(stack)]) < Rank(memory)

InUseAsWritten ==
    /\ step = "activate" => mouse.memory = script.snapshot
    /\ step \in Running \ {"live_home"} => mouse.current = script.number
    /\ step \in {"read_active", "live_active", "live_undone", "rate_undone"} \cup Using =>
          mouse.loaded.content = mouse.memory
    /\ step \in {"read_active", "live_active", "live_undone", "rate_undone"} =>
          mouse.memory = script.snapshot
    /\ step \in Using => Climbs(mouse.memory, undo, script.snapshot, script.undone)
    /\ step = "live_home" => mouse.loaded.profile = script.home

CalmInv == Calm => Sound /\ Chosen /\ Depth /\ Taken /\ InUseAsWritten

SelfTestInv ==
    /\ TestTypes /\ PlaceInv /\ CountInv /\ MemoryInv /\ UndoInv
    /\ UseInv /\ ReportInv /\ CalmInv

-----------------------------------------------------------------------------
(* Contents and mice.                                                      *)
Numbers == {Bindings, Edits + 1, Undos, 3}

LEMMA TestNumbers ==
    /\ Bindings \in Nat \ {0} /\ Edits \in Nat \ {0} /\ Undos \in Nat \ {0}
    /\ LiveTries \in Nat \ {0}
    /\ ProfileCount \in Nat /\ MaxFaults \in Nat /\ MaxPresses \in Nat
  BY CountsAssumption

LEMMA HighestNumber == Max(Numbers) \in Nat /\ \A n \in Numbers : n <= Max(Numbers)
<1>1. Numbers \subseteq Nat
  BY TestNumbers DEF Numbers
<1>2. \E x \in Numbers : \A y \in Numbers : x >= y
  BY TestNumbers DEF Numbers
<1>3. Max(Numbers) \in Numbers /\ \A y \in Numbers : Max(Numbers) >= y
  BY <1>2 DEF Max
<1> HIDE DEF Numbers
<1> QED BY <1>1, <1>3

Kinds == {"found", "own", "torn", "named", "spelled", "probe", "bindings", "edit", "undo", "in_use"}

LEMMA ContentsIs == Contents = [kind : Kinds, n : 0..Max(Numbers)]
  BY DEF Contents, Kinds, Numbers

LEMMA ContentIs ==
    ASSUME NEW kind \in Kinds, NEW n \in Nat, n <= Max(Numbers)
    PROVE  Content(kind, n) \in Contents
<1>1. n \in 0..Max(Numbers)
  BY HighestNumber
<1> QED BY <1>1, ContentsIs DEF Content

LEMMA ContentOfKind == \A kind, n : Content(kind, n).kind = kind /\ Content(kind, n).n = n
  BY DEF Content

LEMMA ContentsWritten ==
    /\ Found \in Contents /\ Own \in Contents /\ Torn \in Contents
    /\ Content("named", 0) \in Contents /\ Content("spelled", 0) \in Contents
    /\ Content("probe", 0) \in Contents
    /\ \A n \in 1..Bindings : Content("bindings", n) \in Contents
    /\ \A n \in 0..Edits + 1 : Content("edit", n) \in Contents
    /\ \A n \in 1..Undos : Content("undo", n) \in Contents
    /\ \A n \in 1..3 : Content("in_use", n) \in Contents
<1>1. /\ Bindings <= Max(Numbers) /\ Edits + 1 <= Max(Numbers)
      /\ Undos <= Max(Numbers) /\ 3 <= Max(Numbers) /\ 0 <= Max(Numbers) /\ Max(Numbers) \in Nat
  BY HighestNumber DEF Numbers
<1>2. /\ Found \in Contents /\ Own \in Contents /\ Torn \in Contents
      /\ Content("named", 0) \in Contents /\ Content("spelled", 0) \in Contents
      /\ Content("probe", 0) \in Contents
  BY <1>1, ContentIs DEF Kinds, Found, Own, Torn
<1>3. ASSUME NEW n \in 1..Bindings PROVE Content("bindings", n) \in Contents
  BY <1>1, ContentIs, TestNumbers DEF Kinds
<1>4. ASSUME NEW n \in 0..Edits + 1 PROVE Content("edit", n) \in Contents
  BY <1>1, ContentIs, TestNumbers DEF Kinds
<1>5. ASSUME NEW n \in 1..Undos PROVE Content("undo", n) \in Contents
  BY <1>1, ContentIs, TestNumbers DEF Kinds
<1>6. ASSUME NEW n \in 1..3 PROVE Content("in_use", n) \in Contents
  BY <1>1, ContentIs DEF Kinds
<1> QED BY <1>2, <1>3, <1>4, <1>5, <1>6

LEMMA KindsOf ==
    /\ Found.kind = "found" /\ Own.kind = "own" /\ Torn.kind = "torn"
    /\ Found.n = 0 /\ Own.n = 0 /\ Torn.n = 0
    /\ Found # Torn /\ Own # Torn
    /\ ~IsScrambled(Found) /\ ~IsScrambled(Own) /\ ~IsScrambled(Torn)
<1>1. /\ Found.kind = "found" /\ Own.kind = "own" /\ Torn.kind = "torn"
      /\ Found.n = 0 /\ Own.n = 0 /\ Torn.n = 0
  BY ContentOfKind DEF Found, Own, Torn
<1> QED BY <1>1 DEF IsScrambled

(* The least of some natural numbers is one of them. *)
LEMMA LeastIsOne == ASSUME NEW S \in SUBSET Nat, S # {} PROVE Min(S) \in S
<1>1. PICK R : R = OpToRel(<, Nat)
  OBVIOUS
<1>2. IsWellFoundedOn(R, Nat)
  BY <1>1, NatLessThanWellFounded
<1>3. \A x, y \in Nat : <<y, x>> \in R <=> y < x
  BY <1>1 DEF OpToRel
<1>4. PICK x \in S : \A y \in S : ~(<<y, x>> \in R)
  BY <1>2, WFMin
<1>5. ASSUME NEW y \in S PROVE x <= y
  <2>1. x \in Nat /\ y \in Nat /\ ~(<<y, x>> \in R)
    BY <1>4
  <2>2. ~(y < x)
    BY <2>1, <1>3, Zenon
  <2> QED BY <2>1, <2>2
<1> QED BY <1>5 DEF Min

-----------------------------------------------------------------------------
(* What the firmware makes of a mouse, field by field.                     *)
Same(n, m) ==
    n.onboard = m.onboard /\ n.spellable = m.spellable /\ n.on = m.on /\ n.torn = m.torn

Ready == mouse \in Mice /\ undo \in Seq(Contents) /\ script.number \in StoredProfile

LEMMA MouseFields ==
    ASSUME NEW m \in Mice
    PROVE  /\ m.onboard \in BOOLEAN /\ m.spellable \in BOOLEAN /\ m.torn \in BOOLEAN
           /\ m.on \subseteq StoredProfile /\ m.on # {} /\ m.current \in StoredProfile
           /\ m.loaded.profile \in StoredProfile /\ m.loaded.content \in Contents
           /\ m.memory \in Contents
<1>1. m.loaded \in [profile : StoredProfile, content : Contents]
  BY DEF Mice
<1>2. m.loaded.profile \in StoredProfile /\ m.loaded.content \in Contents
  BY <1>1
<1>3. /\ m.onboard \in BOOLEAN /\ m.spellable \in BOOLEAN /\ m.torn \in BOOLEAN
      /\ m.on \in (SUBSET StoredProfile) \ {{}} /\ m.current \in StoredProfile
      /\ m.memory \in Contents
  BY DEF Mice
<1> QED BY <1>2, <1>3

LEMMA ContentOfIs ==
    ASSUME Ready, NEW m \in Mice, NEW p \in StoredProfile
    PROVE  /\ ContentOf(m, p) \in Contents
           /\ p = script.number => ContentOf(m, p) = m.memory
           /\ p # script.number => ContentOf(m, p) = Own
  BY MouseFields, ContentsWritten DEF ContentOf

LEMMA LoadIs ==
    ASSUME Ready, NEW m \in Mice, NEW p \in StoredProfile
    PROVE  /\ Load(m, p) \in Mice /\ Same(Load(m, p), m) /\ Load(m, p).memory = m.memory
           /\ Load(m, p).current = p /\ Load(m, p).loaded.profile = p
           /\ Load(m, p).loaded.content = ContentOf(m, p)
<1> DEFINE l == [profile |-> p, content |-> ContentOf(m, p)]
           n == [m EXCEPT !.current = p, !.loaded = l]
<1>1. l \in [profile : StoredProfile, content : Contents]
  BY ContentOfIs
<1>2. l.profile = p /\ l.content = ContentOf(m, p)
  OBVIOUS
<1> HIDE DEF l
<1>3. n \in Mice
  BY <1>1, Zenon DEF Mice
<1>4. n.onboard = m.onboard /\ n.spellable = m.spellable /\ n.on = m.on
  BY DEF Mice
<1>5. n.torn = m.torn /\ n.memory = m.memory
  BY DEF Mice
<1>6. n.current = p /\ n.loaded = l
  BY DEF Mice
<1>7. Load(m, p) = n
  BY DEF Load, l
<1> HIDE DEF n
<1> QED BY <1>2, <1>3, <1>4, <1>5, <1>6, <1>7 DEF Same

LEMMA SelectIs ==
    ASSUME Ready, NEW m \in Mice, NEW p \in StoredProfile
    PROVE  /\ Select(m, p) \in Mice /\ Same(Select(m, p), m) /\ Select(m, p).memory = m.memory
           /\ Select(m, p).current = p
           /\ \/ p = m.current /\ Select(m, p).loaded = m.loaded
              \/ /\ p # m.current
                 /\ Select(m, p).loaded.profile = p
                 /\ Select(m, p).loaded.content = ContentOf(m, p)
<1>1. CASE p = m.current
  BY <1>1 DEF Select, Same
<1>2. CASE p # m.current
  BY <1>2, LoadIs DEF Select
<1> QED BY <1>1, <1>2

LEMMA MemoryIs ==
    ASSUME NEW m \in Mice, NEW c \in Contents
    PROVE  /\ [m EXCEPT !.memory = c] \in Mice /\ Same([m EXCEPT !.memory = c], m)
           /\ [m EXCEPT !.memory = c].memory = c
           /\ [m EXCEPT !.memory = c].current = m.current
           /\ [m EXCEPT !.memory = c].loaded = m.loaded
<1>1. [m EXCEPT !.memory = c] \in Mice
  BY Zenon DEF Mice
<1>2. /\ Same([m EXCEPT !.memory = c], m)
      /\ [m EXCEPT !.memory = c].memory = c
      /\ [m EXCEPT !.memory = c].current = m.current
      /\ [m EXCEPT !.memory = c].loaded = m.loaded
  BY DEF Mice, Same
<1> QED BY <1>1, <1>2

LEMMA TornIs ==
    ASSUME NEW m \in Mice, NEW t \in BOOLEAN
    PROVE  /\ [m EXCEPT !.torn = t] \in Mice
           /\ [m EXCEPT !.torn = t].torn = t
           /\ [m EXCEPT !.torn = t].on = m.on
           /\ [m EXCEPT !.torn = t].onboard = m.onboard
           /\ [m EXCEPT !.torn = t].spellable = m.spellable
           /\ [m EXCEPT !.torn = t].memory = m.memory
           /\ [m EXCEPT !.torn = t].current = m.current
           /\ [m EXCEPT !.torn = t].loaded = m.loaded
<1>1. [m EXCEPT !.torn = t] \in Mice
  BY Zenon DEF Mice
<1> QED BY <1>1 DEF Mice

LEMMA CurrentIs ==
    ASSUME NEW m \in Mice, NEW p \in StoredProfile
    PROVE  /\ [m EXCEPT !.current = p] \in Mice /\ Same([m EXCEPT !.current = p], m)
           /\ [m EXCEPT !.current = p].memory = m.memory
           /\ [m EXCEPT !.current = p].current = p
           /\ [m EXCEPT !.current = p].loaded = m.loaded
<1>1. [m EXCEPT !.current = p] \in Mice
  BY Zenon DEF Mice
<1>2. /\ Same([m EXCEPT !.current = p], m)
      /\ [m EXCEPT !.current = p].memory = m.memory
      /\ [m EXCEPT !.current = p].current = p
      /\ [m EXCEPT !.current = p].loaded = m.loaded
  BY DEF Mice, Same
<1> QED BY <1>1, <1>2

LEMMA DirectoryIs ==
    ASSUME NEW m \in Mice, NEW dir \in (SUBSET StoredProfile) \ {{}}
    PROVE  /\ [m EXCEPT !.on = dir, !.torn = FALSE] \in Mice
           /\ [m EXCEPT !.on = dir, !.torn = FALSE].on = dir
           /\ [m EXCEPT !.on = dir, !.torn = FALSE].torn = FALSE
           /\ [m EXCEPT !.on = dir, !.torn = FALSE].onboard = m.onboard
           /\ [m EXCEPT !.on = dir, !.torn = FALSE].spellable = m.spellable
           /\ [m EXCEPT !.on = dir, !.torn = FALSE].memory = m.memory
           /\ [m EXCEPT !.on = dir, !.torn = FALSE].current = m.current
           /\ [m EXCEPT !.on = dir, !.torn = FALSE].loaded = m.loaded
<1>1. [m EXCEPT !.on = dir, !.torn = FALSE] \in Mice
  BY Zenon DEF Mice
<1> QED BY <1>1 DEF Mice

(* A directory is committed: the firmware loads a profile, or does not.    *)
Commits(n, m, dir) ==
    /\ n \in Mice /\ n.on = dir /\ n.torn = FALSE
    /\ n.onboard = m.onboard /\ n.spellable = m.spellable /\ n.memory = m.memory
    /\ n.current = m.current \/ n.current \in dir
    /\ \/ n.loaded = m.loaded
       \/ n.loaded.profile = n.current /\ n.loaded.content = ContentOf(m, n.current)

LEMMA CommittedIs ==
    ASSUME Ready, NEW m \in Mice, NEW dir \in (SUBSET StoredProfile) \ {{}},
           NEW n \in Committed(m, dir)
    PROVE  Commits(n, m, dir)
<1> DEFINE stays == [m EXCEPT !.on = dir, !.torn = FALSE]
<1>1. /\ stays \in Mice /\ stays.on = dir /\ stays.torn = FALSE
      /\ stays.onboard = m.onboard /\ stays.spellable = m.spellable
      /\ stays.memory = m.memory /\ stays.current = m.current /\ stays.loaded = m.loaded
  BY DirectoryIs
<1>2. \/ n = stays
      \/ \E p \in dir : n = [stays EXCEPT !.current = p]
      \/ \E p \in dir : n = Load(stays, p)
  BY DEF Committed
<1> HIDE DEF stays
<1>3. CASE n = stays
  BY <1>1, <1>3 DEF Commits
<1>4. ASSUME NEW p \in dir, n = [stays EXCEPT !.current = p] PROVE Commits(n, m, dir)
  <2>1. p \in StoredProfile
    OBVIOUS
  <2>2. /\ n \in Mice /\ Same(n, stays) /\ n.memory = stays.memory
        /\ n.current = p /\ n.loaded = stays.loaded
    BY <2>1, <1>1, <1>4, CurrentIs
  <2> QED BY <2>2, <1>1 DEF Commits, Same
<1>5. ASSUME NEW p \in dir, n = Load(stays, p) PROVE Commits(n, m, dir)
  <2>1. p \in StoredProfile
    OBVIOUS
  <2>2. /\ n \in Mice /\ Same(n, stays) /\ n.memory = stays.memory
        /\ n.current = p /\ n.loaded.profile = p
        /\ n.loaded.content = ContentOf(stays, p)
    BY <2>1, <1>1, <1>5, LoadIs
  <2>3. ContentOf(stays, p) = ContentOf(m, p)
    BY <1>1 DEF ContentOf
  <2> QED BY <2>2, <2>3, <1>1 DEF Commits, Same
<1> QED BY <1>2, <1>3, <1>4, <1>5

-----------------------------------------------------------------------------
(* What a request can come to.                                             *)
Effects == {"none", "when_activated", "not_loaded", "now"}
Outcomes == [mouse : Mice, undo : Seq(Contents), ok : BOOLEAN, effect : Effects, cost : Nat]

LEMMA AnswerIs ==
    ASSUME Ready, NEW m \in Mice, NEW effect \in Effects
    PROVE  /\ Answer(m, effect) \in Outcomes
           /\ Answer(m, effect).mouse = m /\ Answer(m, effect).undo = undo
           /\ Answer(m, effect).ok = TRUE /\ Answer(m, effect).effect = effect
           /\ Answer(m, effect).cost = 0
<1>1. undo \in Seq(Contents) /\ 0 \in Nat /\ TRUE \in BOOLEAN
  BY DEF Ready
<1> QED BY <1>1 DEF Answer, Outcome, Outcomes

LEMMA FailsIs ==
    ASSUME Ready, NEW m \in Mice, NEW cost \in Nat
    PROVE  /\ Fails(m, cost) \in Outcomes
           /\ Fails(m, cost).mouse = m /\ Fails(m, cost).undo = undo
           /\ Fails(m, cost).ok = FALSE /\ Fails(m, cost).effect = "none"
           /\ Fails(m, cost).cost = cost
<1>1. undo \in Seq(Contents) /\ FALSE \in BOOLEAN /\ "none" \in Effects
  BY DEF Ready, Effects
<1> QED BY <1>1 DEF Fails, Outcome, Outcomes

LEMMA OutcomeFields ==
    ASSUME NEW o \in Outcomes
    PROVE  /\ o.mouse \in Mice /\ o.undo \in Seq(Contents) /\ o.ok \in BOOLEAN
           /\ o.effect \in Effects /\ o.effect # "live" /\ o.cost \in Nat
<1>1. /\ o.mouse \in Mice /\ o.undo \in Seq(Contents) /\ o.ok \in BOOLEAN
      /\ o.effect \in Effects /\ o.cost \in Nat
  BY Zenon DEF Outcomes
<1> QED BY <1>1 DEF Effects

LEMMA UndoneIs ==
    ASSUME NEW o \in Outcomes, NEW stack \in Seq(Contents)
    PROVE  /\ [o EXCEPT !.undo = stack] \in Outcomes
           /\ [o EXCEPT !.undo = stack].undo = stack
           /\ [o EXCEPT !.undo = stack].mouse = o.mouse
           /\ [o EXCEPT !.undo = stack].ok = o.ok
           /\ [o EXCEPT !.undo = stack].effect = o.effect
           /\ [o EXCEPT !.undo = stack].cost = o.cost
<1>1. [o EXCEPT !.undo = stack] \in Outcomes
  BY Zenon DEF Outcomes
<1> QED BY <1>1 DEF Outcomes

LEMMA LostIs ==
    ASSUME NEW o \in Outcomes
    PROVE  /\ [o EXCEPT !.ok = FALSE, !.cost = @ + 1] \in Outcomes
           /\ [o EXCEPT !.ok = FALSE, !.cost = @ + 1].undo = o.undo
           /\ [o EXCEPT !.ok = FALSE, !.cost = @ + 1].mouse = o.mouse
           /\ [o EXCEPT !.ok = FALSE, !.cost = @ + 1].ok = FALSE
           /\ [o EXCEPT !.ok = FALSE, !.cost = @ + 1].effect = o.effect
           /\ [o EXCEPT !.ok = FALSE, !.cost = @ + 1].cost = o.cost + 1
<1>1. o.cost + 1 \in Nat
  BY OutcomeFields
<1>2. [o EXCEPT !.ok = FALSE, !.cost = @ + 1] \in Outcomes
  BY <1>1, Zenon DEF Outcomes
<1> QED BY <1>2 DEF Outcomes

(* The outcomes of a request and those whose answer is lost.               *)
LEMMA AnsweredIs ==
    ASSUME NEW S \in SUBSET Outcomes, NEW o \in Answered(S)
    PROVE  \/ o \in S
           \/ \E q \in S : /\ q.ok /\ o \in Outcomes /\ o.undo = q.undo /\ o.mouse = q.mouse
                           /\ o.ok = FALSE /\ o.effect = q.effect /\ o.cost = q.cost + 1
<1>1. \/ o \in S
      \/ \E q \in S : q.ok /\ o = [q EXCEPT !.ok = FALSE, !.cost = @ + 1]
  BY DEF Answered
<1>2. ASSUME NEW q \in S, q.ok, o = [q EXCEPT !.ok = FALSE, !.cost = @ + 1]
      PROVE  /\ q.ok /\ o \in Outcomes /\ o.undo = q.undo /\ o.mouse = q.mouse
             /\ o.ok = FALSE /\ o.effect = q.effect /\ o.cost = q.cost + 1
  <2>1. q \in Outcomes
    OBVIOUS
  <2> QED BY <2>1, <1>2, LostIs
<1> QED BY <1>1, <1>2

-----------------------------------------------------------------------------
(* The test profile of m was written: is it loaded, and what does the mouse *)
(* run afterwards.                                                         *)
Runs(n, m) ==
    \/ n.current = m.current /\ n.loaded = m.loaded
    \/ /\ m.current = script.number /\ n.current = m.current
       /\ n.loaded.profile = m.current /\ n.loaded.content = m.memory
    \/ /\ m.current = script.number /\ n.current \in m.on /\ n.current # script.number
       /\ n.loaded.profile = n.current /\ n.loaded.content = Own

Loads(o, m) ==
    /\ o \in Outcomes /\ o.undo = undo
    /\ Same(o.mouse, m) /\ o.mouse.memory = m.memory /\ Runs(o.mouse, m)
    /\ o.cost = 0 =>
         /\ o.ok
         /\ m.current # script.number => o.effect = "when_activated"
         /\ m.onboard /\ m.current = script.number /\ m.on \ {script.number} # {} =>
              /\ o.effect = "now" /\ o.mouse.current = m.current
              /\ o.mouse.loaded.content = m.memory

LEMMA LoadWrittenIs ==
    ASSUME Ready, NEW m \in Mice, NEW o \in LoadWritten(m)
    PROVE  Loads(o, m)
<1> DEFINE number == script.number
           others == m.on \ {number}
           away == Load(m, Min(others))
           back == Load(m, number)
<1>1. /\ m.onboard \in BOOLEAN /\ m.on \subseteq StoredProfile /\ m.current \in StoredProfile
      /\ number \in StoredProfile /\ StoredProfile \subseteq Nat /\ 0 \in Nat /\ 1 \in Nat
      /\ 2 \in Nat
      /\ "none" \in Effects /\ "when_activated" \in Effects /\ "not_loaded" \in Effects
      /\ "now" \in Effects /\ FALSE \in BOOLEAN /\ TRUE \in BOOLEAN /\ undo \in Seq(Contents)
  BY MouseFields DEF Ready, StoredProfile, Effects
<1>2. /\ back \in Mice /\ Same(back, m) /\ back.memory = m.memory /\ back.current = number
      /\ back.loaded.profile = number /\ back.loaded.content = m.memory
  <2>1. ContentOf(m, number) = m.memory
    BY <1>1, ContentOfIs, Zenon
  <2> QED BY <2>1, <1>1, LoadIs, Zenon
<1>3. others # {} =>
        /\ away \in Mice /\ Same(away, m) /\ away.memory = m.memory /\ away.current \in others
        /\ away.loaded.profile = away.current /\ away.loaded.content = Own
  <2>1. others # {} => Min(others) \in others
    <3>1. others \in SUBSET Nat
      BY <1>1
    <3> HIDE DEF others
    <3> QED BY <3>1, LeastIsOne
  <2>2. SUFFICES ASSUME others # {}
                 PROVE  /\ away \in Mice /\ Same(away, m) /\ away.memory = m.memory
                        /\ away.current \in others /\ away.loaded.profile = away.current
                        /\ away.loaded.content = Own
    OBVIOUS
  <2>3. Min(others) \in others /\ Min(others) \in StoredProfile /\ Min(others) # number
    BY <2>1, <2>2, <1>1
  <2>4. ContentOf(m, Min(others)) = Own
    BY <2>3, ContentOfIs, Zenon
  <2> HIDE DEF others, number
  <2> QED BY <2>3, <2>4, LoadIs, Zenon
<1>4. Same(m, m)
  BY DEF Same
<1>5. CASE ~m.onboard \/ m.current # number
  <2>1. o \in {Answer(m, "when_activated"), Fails(m, 1)}
    BY <1>5 DEF LoadWritten
  <2>2. CASE o = Answer(m, "when_activated")
    <3>1. /\ o \in Outcomes /\ o.mouse = m /\ o.undo = undo /\ o.ok = TRUE
          /\ o.effect = "when_activated" /\ o.cost = 0
      BY <2>2, <1>1, AnswerIs
    <3> QED BY <3>1, <1>4, <1>5 DEF Loads, Runs
  <2>3. CASE o = Fails(m, 1)
    <3>1. o \in Outcomes /\ o.mouse = m /\ o.undo = undo /\ o.cost = 1
      BY <2>3, <1>1, FailsIs
    <3> QED BY <3>1, <1>4 DEF Loads, Runs
  <2> QED BY <2>1, <2>2, <2>3
<1>6. CASE ~(~m.onboard \/ m.current # number) /\ others = {}
  <2>1. o \in {Answer(m, "not_loaded"), Fails(m, 1)}
    BY <1>6 DEF LoadWritten
  <2>2. CASE o = Answer(m, "not_loaded")
    <3>1. /\ o \in Outcomes /\ o.mouse = m /\ o.undo = undo /\ o.ok = TRUE
          /\ o.effect = "not_loaded" /\ o.cost = 0
      BY <2>2, <1>1, AnswerIs
    <3> QED BY <3>1, <1>4, <1>6 DEF Loads, Runs
  <2>3. CASE o = Fails(m, 1)
    <3>1. o \in Outcomes /\ o.mouse = m /\ o.undo = undo /\ o.cost = 1
      BY <2>3, <1>1, FailsIs
    <3> QED BY <3>1, <1>4 DEF Loads, Runs
  <2> QED BY <2>1, <2>2, <2>3
<1>7. CASE ~(~m.onboard \/ m.current # number) /\ others # {}
  <2>1. \/ o = Answer(back, "now") \/ o = Fails(m, 1) \/ o = Fails(away, 2) \/ o = Fails(back, 2)
        \/ o = Outcome(m, undo, TRUE, "not_loaded", 1)
        \/ o = Outcome(back, undo, TRUE, "not_loaded", 1)
    BY <1>7, Zenon DEF LoadWritten
  <2>2. m.current = number /\ m.onboard
    BY <1>7, <1>1
  <2> HIDE DEF back, away
  <2>3. CASE o = Answer(back, "now")
    <3>1. /\ o \in Outcomes /\ o.mouse = back /\ o.undo = undo /\ o.ok = TRUE
          /\ o.effect = "now" /\ o.cost = 0
      BY <2>3, <1>1, <1>2, AnswerIs
    <3> QED BY <3>1, <1>2, <2>2 DEF Loads, Runs
  <2>4. CASE o = Fails(m, 1)
    <3>1. o \in Outcomes /\ o.mouse = m /\ o.undo = undo /\ o.cost = 1
      BY <2>4, <1>1, FailsIs
    <3> QED BY <3>1, <1>4 DEF Loads, Runs
  <2>5. CASE o = Fails(away, 2)
    <3>1. away \in Mice
      BY <1>3, <1>7, Zenon
    <3>2. ASSUME NEW a \in Mice, o = Fails(a, 2)
          PROVE  o \in Outcomes /\ o.mouse = a /\ o.undo = undo /\ o.cost = 2
      BY <3>2, <1>1 DEF Fails, Outcome, Outcomes
    <3>3. o \in Outcomes /\ o.mouse = away /\ o.undo = undo /\ o.cost = 2
      BY <2>5, <3>1, <3>2, Zenon
    <3>4. away.current \in m.on /\ away.current # number
      BY <1>3, <1>7 DEF others
    <3> QED BY <3>3, <3>4, <1>3, <1>7, <2>2 DEF Loads, Runs
  <2>6. CASE o = Fails(back, 2)
    <3>1. o \in Outcomes /\ o.mouse = back /\ o.undo = undo /\ o.cost = 2
      BY <2>6, <1>1, <1>2, FailsIs
    <3> QED BY <3>1, <1>2, <2>2 DEF Loads, Runs
  <2>7. CASE o = Outcome(m, undo, TRUE, "not_loaded", 1)
    <3>1. o \in Outcomes /\ o.mouse = m /\ o.undo = undo /\ o.cost = 1
      BY <2>7, <1>1 DEF Outcome, Outcomes
    <3> QED BY <3>1, <1>4 DEF Loads, Runs
  <2>8. CASE o = Outcome(back, undo, TRUE, "not_loaded", 1)
    <3>1. o \in Outcomes /\ o.mouse = back /\ o.undo = undo /\ o.cost = 1
      BY <2>8, <1>1, <1>2 DEF Outcome, Outcomes
    <3> QED BY <3>1, <1>2, <2>2 DEF Loads, Runs
  <2> QED BY <2>1, <2>3, <2>4, <2>5, <2>6, <2>7, <2>8
<1> QED BY <1>5, <1>6, <1>7

-----------------------------------------------------------------------------
(* A verified write of the test profile and what follows it.               *)
Rewrites(o, content) ==
    /\ o \in Outcomes /\ Same(o.mouse, mouse)
    /\ o.mouse.memory \in {mouse.memory, Torn, content}
    /\ \/ o.mouse.current = mouse.current /\ o.mouse.loaded = mouse.loaded
       \/ /\ mouse.current = script.number /\ o.mouse.memory = content
          /\ o.mouse.loaded.profile = o.mouse.current
          /\ \/ o.mouse.current = mouse.current /\ o.mouse.loaded.content = content
             \/ /\ o.mouse.current \in mouse.on /\ o.mouse.current # script.number
                /\ o.mouse.loaded.content = Own
    /\ o.ok => o.mouse.memory = content

(* Nothing failed: the write took effect where it can.                     *)
Smooth(o, content) ==
    /\ o.ok
    /\ content = mouse.memory => o.effect = "none" /\ o.mouse = mouse
    /\ content # mouse.memory /\ mouse.current # script.number => o.effect = "when_activated"
    /\ /\ content # mouse.memory /\ mouse.onboard /\ mouse.current = script.number
       /\ mouse.on \ {script.number} # {}
       => /\ o.effect = "now" /\ o.mouse.current = mouse.current
          /\ o.mouse.loaded.content = content

LEMMA WriteFailsIs ==
    ASSUME Ready, NEW content \in Contents, NEW o \in WriteFails(content)
    PROVE  Rewrites(o, content) /\ o.undo = undo /\ ~o.ok /\ o.cost = 1
<1>1. PICK c \in {mouse.memory, Torn, content} : o = Fails([mouse EXCEPT !.memory = c], 1)
  BY DEF WriteFails
<1>2. mouse \in Mice /\ c \in Contents
  BY MouseFields, ContentsWritten DEF Ready
<1> DEFINE m == [mouse EXCEPT !.memory = c]
<1>3. /\ m \in Mice /\ Same(m, mouse) /\ m.memory = c
      /\ m.current = mouse.current /\ m.loaded = mouse.loaded
  BY <1>2, MemoryIs
<1>4. o = Fails(m, 1)
  BY <1>1
<1> HIDE DEF m
<1>5. o \in Outcomes /\ o.mouse = m /\ o.undo = undo /\ o.ok = FALSE /\ o.cost = 1
  BY <1>3, <1>4, FailsIs
<1> QED BY <1>3, <1>5 DEF Rewrites

(* Loading what was written.                                               *)
LEMMA LoadedIs ==
    ASSUME Ready, NEW content \in Contents, content # mouse.memory,
           NEW o \in LoadWritten([mouse EXCEPT !.memory = content])
    PROVE  /\ Rewrites(o, content) /\ o.undo = undo /\ o.mouse.memory = content
           /\ o.cost = 0 => Smooth(o, content)
<1> DEFINE m == [mouse EXCEPT !.memory = content]
<1>1. /\ m \in Mice /\ Same(m, mouse) /\ m.memory = content
      /\ m.current = mouse.current /\ m.loaded = mouse.loaded
  BY MemoryIs DEF Ready
<1>2. Loads(o, m)
  <2>1. o \in LoadWritten(m)
    OBVIOUS
  <2> HIDE DEF m
  <2> QED BY <1>1, <2>1, LoadWrittenIs
<1> HIDE DEF m
<1>3. Rewrites(o, content)
  BY <1>1, <1>2 DEF Loads, Runs, Rewrites, Same
<1>4. o.cost = 0 => Smooth(o, content)
  BY <1>1, <1>2 DEF Loads, Smooth, Same
<1> QED BY <1>1, <1>2, <1>3, <1>4 DEF Loads

(* The set of a write's outcomes once undo is kept up to date.             *)
Kept(q, stack) == IF q.ok THEN [q EXCEPT !.undo = stack] ELSE q
KeptWrites(content, stack) ==
    {Kept(q, stack) : q \in LoadWritten([mouse EXCEPT !.memory = content])}

LEMMA AnsweredWrites ==
    ASSUME Ready, NEW content \in Contents, content # mouse.memory,
           NEW stack \in Seq(Contents),
           NEW o \in Answered(KeptWrites(content, stack))
    PROVE  /\ Rewrites(o, content) /\ o.undo \in {undo, stack}
           /\ o.ok => o.undo = stack
           /\ o.cost = 0 => Smooth(o, content)
<1> DEFINE W == LoadWritten([mouse EXCEPT !.memory = content])
           S == {Kept(q, stack) : q \in W}
<1>1. ASSUME NEW q \in W
      PROVE  /\ Rewrites(q, content) /\ q.undo = undo /\ q.mouse.memory = content
             /\ q.cost = 0 => Smooth(q, content)
  BY LoadedIs
<1> HIDE DEF W
<1>2. ASSUME NEW q \in W
      PROVE  /\ Kept(q, stack) \in Outcomes /\ Kept(q, stack).mouse = q.mouse
             /\ Kept(q, stack).ok = q.ok
             /\ Kept(q, stack).effect = q.effect /\ Kept(q, stack).cost = q.cost
             /\ Kept(q, stack).undo = IF q.ok THEN stack ELSE undo
  <2>1. q \in Outcomes /\ q.undo = undo
    BY <1>1 DEF Rewrites
  <2>2. CASE q.ok
    BY <2>1, <2>2, UndoneIs DEF Kept
  <2>3. CASE ~q.ok
    BY <2>1, <2>3 DEF Kept
  <2> QED BY <2>2, <2>3
<1>3. o \in Answered(S)
  BY DEF W, KeptWrites
<1>4. S \in SUBSET Outcomes
  BY <1>2
<1>5. \E q \in W :
        \/ o = Kept(q, stack)
        \/ /\ q.ok /\ o \in Outcomes /\ o.undo = stack /\ o.mouse = q.mouse
           /\ o.ok = FALSE /\ o.cost = q.cost + 1
  <2> DEFINE Unheard(s) == /\ s.ok /\ o \in Outcomes /\ o.undo = s.undo /\ o.mouse = s.mouse
                        /\ o.ok = FALSE /\ o.cost = s.cost + 1
  <2>1. o \in S \/ \E s \in S : Unheard(s)
    BY <1>3, <1>4, AnsweredIs
  <2>2. \A s \in S : \E q \in W : s = Kept(q, stack)
    OBVIOUS
  <2>3. ASSUME NEW q \in W, Unheard(Kept(q, stack))
        PROVE  /\ q.ok /\ o \in Outcomes /\ o.undo = stack /\ o.mouse = q.mouse
               /\ o.ok = FALSE /\ o.cost = q.cost + 1
    BY <2>3, <1>2
  <2> HIDE DEF S, Unheard
  <2> QED BY <2>1, <2>2, <2>3
<1>6. PICK q \in W :
        \/ o = Kept(q, stack)
        \/ /\ q.ok /\ o \in Outcomes /\ o.undo = stack /\ o.mouse = q.mouse
           /\ o.ok = FALSE /\ o.cost = q.cost + 1
  BY <1>5
<1> HIDE DEF S
<1>7. CASE o = Kept(q, stack)
  <2>1. /\ o \in Outcomes /\ o.mouse = q.mouse /\ o.ok = q.ok /\ o.effect = q.effect
        /\ o.cost = q.cost /\ o.undo = IF q.ok THEN stack ELSE undo
    BY <1>7, <1>2
  <2>2. Rewrites(o, content)
    BY <2>1, <1>1 DEF Rewrites
  <2>3. o.cost = 0 => Smooth(o, content)
    BY <2>1, <1>1 DEF Smooth
  <2> QED BY <2>1, <2>2, <2>3
<1>8. CASE /\ q.ok /\ o \in Outcomes /\ o.undo = stack /\ o.mouse = q.mouse
           /\ o.ok = FALSE /\ o.cost = q.cost + 1
  <2>1. q.cost \in Nat
    BY <1>1, OutcomeFields DEF Rewrites
  <2>2. o.cost # 0
    BY <2>1, <1>8
  <2>3. Rewrites(o, content)
    BY <1>8, <1>1 DEF Rewrites
  <2> QED BY <2>2, <2>3, <1>8
<1> QED BY <1>6, <1>7, <1>8

LEMMA StaysIs ==
    ASSUME Ready, NEW o, o \in Outcomes, o.mouse = mouse, ~o.ok, NEW content
    PROVE  Rewrites(o, content)
  BY DEF Rewrites, Same

Applied(o, content) ==
    /\ Rewrites(o, content)
    /\ o.undo \in {undo, Append(undo, mouse.memory)}
    /\ o.ok => o.undo = IF content = mouse.memory THEN undo ELSE Append(undo, mouse.memory)
    /\ o.cost = 0 /\ ~mouse.torn /\ mouse.memory # Torn => Smooth(o, content)

LEMMA ApplyIs ==
    ASSUME Ready, NEW content \in Contents, NEW o \in Apply(content)
    PROVE  Applied(o, content)
<1> DEFINE stack == Append(undo, mouse.memory)
           S == KeptWrites(content, stack)
<1>1. mouse \in Mice /\ mouse.memory \in Contents /\ undo \in Seq(Contents)
  BY MouseFields DEF Ready
<1>2. stack \in Seq(Contents)
  BY <1>1
<1>3. \/ o = Fails(mouse, 1)
      \/ Unwritable /\ o = Fails(mouse, 0)
      \/ ~Unwritable /\ content = mouse.memory /\ o = Answer(mouse, "none")
      \/ ~Unwritable /\ content # mouse.memory /\ o \in WriteFails(content)
      \/ ~Unwritable /\ content # mouse.memory /\ o \in Answered(S)
  <2>1. CASE Unwritable
    BY <2>1 DEF Apply
  <2>2. CASE ~Unwritable /\ content = mouse.memory
    BY <2>2 DEF Apply
  <2>3. CASE ~Unwritable /\ content # mouse.memory
    BY <2>3, Zenon DEF Apply, KeptWrites, Kept
  <2> QED BY <2>1, <2>2, <2>3
<1>4. CASE o = Fails(mouse, 1)
  <2>1. o \in Outcomes /\ o.mouse = mouse /\ o.undo = undo /\ o.ok = FALSE /\ o.cost = 1
    BY <1>1, <1>4 DEF Fails, Outcome, Outcomes, Effects
  <2> QED BY <2>1, StaysIs DEF Applied
<1>5. CASE Unwritable /\ o = Fails(mouse, 0)
  <2>1. o \in Outcomes /\ o.mouse = mouse /\ o.undo = undo /\ o.ok = FALSE
    BY <1>1, <1>5 DEF Fails, Outcome, Outcomes, Effects
  <2> QED BY <2>1, <1>5, StaysIs DEF Applied, Unwritable
<1>6. CASE ~Unwritable /\ content = mouse.memory /\ o = Answer(mouse, "none")
  <2>1. o \in Outcomes /\ o.mouse = mouse /\ o.undo = undo /\ o.ok = TRUE /\ o.effect = "none"
    BY <1>1, <1>6, AnswerIs DEF Effects
  <2> QED BY <2>1, <1>6 DEF Applied, Rewrites, Smooth, Same
<1>7. CASE ~Unwritable /\ content # mouse.memory /\ o \in WriteFails(content)
  BY <1>7, WriteFailsIs DEF Applied
<1>8. CASE ~Unwritable /\ content # mouse.memory /\ o \in Answered(S)
  <2>1. /\ Rewrites(o, content) /\ o.undo \in {undo, stack}
        /\ o.ok => o.undo = stack
        /\ o.cost = 0 => Smooth(o, content)
    <3> HIDE DEF stack
    <3> QED BY <1>2, <1>8, AnsweredWrites, Zenon
  <2>2. content # mouse.memory
    BY <1>8
  <2> HIDE DEF S
  <2> QED BY <2>1, <2>2, Zenon DEF Applied
<1> QED BY <1>3, <1>4, <1>5, <1>6, <1>7, <1>8

LEMMA FrontIs ==
    ASSUME NEW S, NEW s \in Seq(S), s # <<>>
    PROVE  /\ Front(s) \in Seq(S) /\ Len(Front(s)) = Len(s) - 1 /\ Len(s) \in Nat \ {0}
           /\ Last(s) = s[Len(s)] /\ Last(s) \in S
           /\ \A i \in 1..Len(s) - 1 : Front(s)[i] = s[i]
<1>1. Len(s) \in Nat \ {0} /\ DOMAIN s = 1..Len(s) /\ \A i \in 1..Len(s) : s[i] \in S
  BY EmptySeq
<1>2. Front(s) = SubSeq(s, 1, Len(s) - 1)
  BY DEF Front
<1>3. \A i \in 1..(Len(s) - 1) : s[i] \in S
  BY <1>1
<1>4. /\ SubSeq(s, 1, Len(s) - 1) \in Seq(S)
      /\ Len(SubSeq(s, 1, Len(s) - 1)) = Len(s) - 1
      /\ \A i \in 1..Len(s) - 1 : SubSeq(s, 1, Len(s) - 1)[i] = s[i]
  BY <1>1, <1>3
<1> QED BY <1>1, <1>2, <1>4 DEF Last

Undoes(o) ==
    /\ Rewrites(o, Last(undo))
    /\ o.undo \in {undo, Front(undo)}
    /\ o.ok => undo # <<>> /\ o.undo = Front(undo)
    /\ undo = <<>> => o.mouse = mouse /\ o.undo = undo
    /\ o.cost = 0 /\ ~mouse.torn /\ mouse.memory # Torn /\ undo # <<>> => Smooth(o, Last(undo))

LEMMA UndoIs ==
    ASSUME Ready, NEW o \in Undo
    PROVE  Undoes(o)
<1> DEFINE previous == Last(undo)
           stack == Front(undo)
           S == KeptWrites(previous, stack)
           A == Answer(mouse, "none")
           P == IF A.ok THEN [A EXCEPT !.undo = stack] ELSE A
<1>1. mouse \in Mice /\ mouse.memory \in Contents /\ undo \in Seq(Contents)
  BY MouseFields DEF Ready
<1>2. undo # <<>> => stack \in Seq(Contents) /\ previous \in Contents
  BY <1>1, FrontIs
<1>3. \/ o = Fails(mouse, 1)
      \/ (undo = <<>> \/ Unwritable) /\ o = Fails(mouse, 0)
      \/ undo # <<>> /\ ~Unwritable /\ previous = mouse.memory /\ o \in Answered({P})
      \/ undo # <<>> /\ ~Unwritable /\ previous # mouse.memory /\ o \in WriteFails(previous)
      \/ undo # <<>> /\ ~Unwritable /\ previous # mouse.memory /\ o \in Answered(S)
  <2>1. CASE undo = <<>> \/ Unwritable
    BY <2>1 DEF Undo
  <2>2. CASE undo # <<>> /\ ~Unwritable /\ previous = mouse.memory
    BY <2>2, Zenon DEF Undo
  <2>3. CASE undo # <<>> /\ ~Unwritable /\ previous # mouse.memory
    BY <2>3, Zenon DEF Undo, KeptWrites, Kept
  <2> QED BY <2>1, <2>2, <2>3
<1>4. CASE o = Fails(mouse, 1)
  <2>1. o \in Outcomes /\ o.mouse = mouse /\ o.undo = undo /\ o.ok = FALSE /\ o.cost = 1
    BY <1>1, <1>4 DEF Fails, Outcome, Outcomes, Effects
  <2> QED BY <2>1, StaysIs DEF Undoes
<1>5. CASE (undo = <<>> \/ Unwritable) /\ o = Fails(mouse, 0)
  <2>1. o \in Outcomes /\ o.mouse = mouse /\ o.undo = undo /\ o.ok = FALSE
    BY <1>1, <1>5 DEF Fails, Outcome, Outcomes, Effects
  <2> QED BY <2>1, <1>5, StaysIs DEF Undoes, Unwritable
<1>6. CASE undo # <<>> /\ ~Unwritable /\ previous = mouse.memory /\ o \in Answered({P})
  <2>1. A \in Outcomes /\ A.mouse = mouse /\ A.ok = TRUE /\ A.effect = "none" /\ A.cost = 0
    BY <1>1, AnswerIs DEF Effects
  <2> HIDE DEF A
  <2>2. /\ P \in Outcomes /\ P.mouse = mouse /\ P.undo = stack /\ P.ok = TRUE
        /\ P.effect = "none" /\ P.cost = 0
    <3> HIDE DEF stack
    <3> QED BY <2>1, <1>2, <1>6, UndoneIs
  <2> HIDE DEF P
  <2>3. \/ o = P
        \/ /\ o \in Outcomes /\ o.undo = stack /\ o.mouse = mouse /\ o.ok = FALSE /\ o.cost = 1
    <3>1. {P} \in SUBSET Outcomes
      BY <2>2
    <3>2. \/ o \in {P}
          \/ \E q \in {P} : /\ q.ok /\ o \in Outcomes /\ o.undo = q.undo /\ o.mouse = q.mouse
                            /\ o.ok = FALSE /\ o.effect = q.effect /\ o.cost = q.cost + 1
      BY <3>1, <1>6, AnsweredIs
    <3> QED BY <3>2, <2>2
  <2>4. CASE o = P
    BY <2>4, <2>2, <1>6 DEF Undoes, Rewrites, Smooth, Same
  <2>5. CASE o \in Outcomes /\ o.undo = stack /\ o.mouse = mouse /\ o.ok = FALSE /\ o.cost = 1
    BY <1>6, <2>5, StaysIs DEF Undoes
  <2> QED BY <2>3, <2>4, <2>5
<1>7. CASE undo # <<>> /\ ~Unwritable /\ previous # mouse.memory /\ o \in WriteFails(previous)
  BY <1>7, <1>2, WriteFailsIs DEF Undoes
<1>8. CASE undo # <<>> /\ ~Unwritable /\ previous # mouse.memory /\ o \in Answered(S)
  <2>1. /\ Rewrites(o, previous) /\ o.undo \in {undo, stack}
        /\ o.ok => o.undo = stack
        /\ o.cost = 0 => Smooth(o, previous)
    <3> HIDE DEF stack, previous
    <3> QED BY <1>2, <1>8, AnsweredWrites, Zenon
  <2>2. undo # <<>>
    BY <1>8
  <2> HIDE DEF S
  <2> QED BY <2>1, <2>2, Zenon DEF Undoes
<1> QED BY <1>3, <1>4, <1>5, <1>6, <1>7, <1>8

-----------------------------------------------------------------------------
(* The other requests.                                                     *)
Reads(o) ==
    /\ o \in Outcomes /\ o.mouse = mouse /\ o.undo = undo
    /\ o.cost = 0 /\ ~mouse.torn /\ mouse.memory # Torn => o.ok

LEMMA ReadStateIs == ASSUME Ready, NEW o \in ReadState PROVE Reads(o)
<1>1. mouse \in Mice
  BY DEF Ready
<1>2. \/ o = Fails(mouse, 1)
      \/ mouse.torn /\ o = Fails(mouse, 0)
      \/ ~mouse.torn /\ o = Answer(mouse, "none")
      \/ mouse.memory = Torn /\ o = Fails(mouse, 0)
  BY DEF ReadState
<1>3. CASE o = Fails(mouse, 1)
  BY <1>1, <1>3 DEF Reads, Ready, Fails, Outcome, Outcomes, Effects
<1>4. CASE (mouse.torn \/ mouse.memory = Torn) /\ o = Fails(mouse, 0)
  BY <1>1, <1>4 DEF Reads, Ready, Fails, Outcome, Outcomes, Effects
<1>5. CASE o = Answer(mouse, "none")
  BY <1>1, <1>5 DEF Reads, Ready, Answer, Outcome, Outcomes, Effects
<1> QED BY <1>2, <1>3, <1>4, <1>5

Refused(p, enabled) ==
    \/ mouse.torn
    \/ (p \in mouse.on) = enabled
    \/ ~enabled /\ (mouse.current = p \/ Cardinality(mouse.on) <= 1)

Directory(p, enabled) == IF enabled THEN mouse.on \cup {p} ELSE mouse.on \ {p}

(* The profile was turned on or off, or was not.                           *)
Turns(n, p, enabled) ==
    /\ n \in Mice /\ n.onboard = mouse.onboard /\ n.spellable = mouse.spellable
    /\ n.memory = mouse.memory /\ n.on \in {mouse.on, Directory(p, enabled)}
    /\ \/ n.loaded = mouse.loaded
       \/ n.loaded.profile = n.current /\ n.loaded.content = ContentOf(mouse, n.current)

Toggles(o, p, enabled) ==
    /\ o \in Outcomes /\ o.undo = undo /\ Turns(o.mouse, p, enabled)
    /\ o.ok => o.mouse.on = Directory(p, enabled) /\ o.mouse.torn = FALSE
    /\ o.ok \/ o.cost = 0 => o.mouse.current = mouse.current
    /\ o.cost = 0 /\ Refused(p, enabled) => ~o.ok /\ o.mouse = mouse
    /\ o.cost = 0 /\ ~Refused(p, enabled) /\ mouse.memory # Torn => o.ok

LEMMA TurnsNot == ASSUME Ready, NEW p, NEW enabled PROVE Turns(mouse, p, enabled)
  BY DEF Turns, Ready

LEMMA SetEnabledIs ==
    ASSUME Ready, NEW p \in StoredProfile, NEW enabled \in BOOLEAN,
           NEW o \in SetEnabled(p, enabled)
    PROVE  Toggles(o, p, enabled)
<1> DEFINE dir == Directory(p, enabled)
           moved == Committed(mouse, dir)
           selected == {Select(m, mouse.current) : m \in moved}
<1>1. mouse \in Mice /\ mouse.on \subseteq StoredProfile /\ mouse.current \in StoredProfile
  BY MouseFields DEF Ready
<1>2. \/ o = Fails(mouse, 1)
      \/ Refused(p, enabled) /\ o = Fails(mouse, 0)
      \/ /\ ~Refused(p, enabled)
         /\ \/ \E m \in moved \cup selected \cup {[mouse EXCEPT !.torn = TRUE]} : o = Fails(m, 1)
            \/ mouse.memory = Torn /\ \E m \in selected : o = Fails(m, 0)
            \/ mouse.memory # Torn /\ \E m \in selected : o = Answer(m, "none")
  <2>1. CASE Refused(p, enabled)
    BY <2>1, Zenon DEF SetEnabled, Refused
  <2>2. CASE ~Refused(p, enabled)
    <3>1. CASE mouse.memory = Torn
      BY <2>2, <3>1, Zenon DEF SetEnabled, Refused, Directory
    <3>2. CASE mouse.memory # Torn
      BY <2>2, <3>2, Zenon DEF SetEnabled, Refused, Directory
    <3> QED BY <3>1, <3>2
  <2> QED BY <2>1, <2>2
<1>3. CASE o = Fails(mouse, 1)
  <2>1. o \in Outcomes /\ o.mouse = mouse /\ o.undo = undo /\ o.ok = FALSE /\ o.cost = 1
    BY <1>1, <1>3 DEF Ready, Fails, Outcome, Outcomes, Effects
  <2> QED BY <2>1, TurnsNot DEF Toggles
<1>4. CASE Refused(p, enabled) /\ o = Fails(mouse, 0)
  <2>1. o \in Outcomes /\ o.mouse = mouse /\ o.undo = undo /\ o.ok = FALSE
    BY <1>1, <1>4 DEF Ready, Fails, Outcome, Outcomes, Effects
  <2> QED BY <2>1, <1>4, TurnsNot DEF Toggles
<1>5. CASE ~Refused(p, enabled)
  <2>1. dir \in (SUBSET StoredProfile) \ {{}}
    <3>1. dir \subseteq StoredProfile
      BY <1>1 DEF Directory
    <3>2. CASE enabled
      BY <3>1, <3>2 DEF Directory
    <3>3. CASE ~enabled
      <4>1. SUFFICES ASSUME mouse.on \subseteq {p} PROVE FALSE
        BY <3>1, <3>3 DEF Directory
      <4>2. IsFiniteSet({p}) /\ Cardinality({p}) = 1
        BY FS_Singleton
      <4>3. Cardinality(mouse.on) <= 1
        BY <4>1, <4>2, FS_Subset
      <4> QED BY <4>3, <3>3, <1>5 DEF Refused
    <3> QED BY <3>2, <3>3
  <2>2. ASSUME NEW m \in moved
        PROVE  Commits(m, mouse, dir) /\ Turns(m, p, enabled) /\ m \in Mice
    <3>1. Commits(m, mouse, dir)
      <4> HIDE DEF dir
      <4> QED BY <1>1, <2>1, CommittedIs
    <3> QED BY <3>1 DEF Commits, Turns
  <2>3. ASSUME NEW s \in selected
        PROVE  /\ Turns(s, p, enabled) /\ s.on = dir /\ s.torn = FALSE
               /\ s.current = mouse.current /\ s \in Mice
    <3>1. PICK m \in moved : s = Select(m, mouse.current)
      OBVIOUS
    <3>2. Commits(m, mouse, dir) /\ m \in Mice
      BY <2>2
    <3>3. /\ s \in Mice /\ Same(s, m) /\ s.memory = m.memory /\ s.current = mouse.current
          /\ \/ mouse.current = m.current /\ s.loaded = m.loaded
             \/ /\ mouse.current # m.current
                /\ s.loaded.profile = mouse.current
                /\ s.loaded.content = ContentOf(m, mouse.current)
      BY <1>1, <3>1, <3>2, SelectIs
    <3>4. ContentOf(m, mouse.current) = ContentOf(mouse, mouse.current)
      BY <3>2 DEF Commits, ContentOf
    <3> HIDE DEF dir, moved, selected
    <3>5. /\ s.on = dir /\ s.torn = FALSE /\ s.memory = mouse.memory
          /\ s.onboard = mouse.onboard /\ s.spellable = mouse.spellable
      BY <3>2, <3>3 DEF Commits, Same
    <3>6. \/ s.loaded = mouse.loaded
          \/ s.loaded.profile = s.current /\ s.loaded.content = ContentOf(mouse, s.current)
      BY <3>2, <3>3, <3>4 DEF Commits
    <3> QED BY <3>3, <3>5, <3>6 DEF Turns, dir
  <2> HIDE DEF moved, selected
  <2>4. ASSUME NEW m \in moved \cup selected \cup {[mouse EXCEPT !.torn = TRUE]}, o = Fails(m, 1)
        PROVE  Toggles(o, p, enabled)
    <3>1. Turns(m, p, enabled) /\ m \in Mice
      <4>1. CASE m = [mouse EXCEPT !.torn = TRUE]
        BY <1>1, <4>1, TornIs DEF Turns
      <4> QED BY <4>1, <2>2, <2>3, <2>4
    <3>2. o \in Outcomes /\ o.mouse = m /\ o.undo = undo /\ o.ok = FALSE /\ o.cost = 1
      BY <3>1, <2>4 DEF Ready, Fails, Outcome, Outcomes, Effects
    <3> QED BY <3>1, <3>2 DEF Toggles
  <2>5. ASSUME mouse.memory = Torn, NEW m \in selected, o = Fails(m, 0)
        PROVE  Toggles(o, p, enabled)
    <3>1. o \in Outcomes /\ o.mouse = m /\ o.undo = undo /\ o.ok = FALSE
      BY <2>3, <2>5 DEF Ready, Fails, Outcome, Outcomes, Effects
    <3> QED BY <3>1, <2>3, <2>5, <1>5 DEF Toggles
  <2>6. ASSUME mouse.memory # Torn, NEW m \in selected, o = Answer(m, "none")
        PROVE  Toggles(o, p, enabled)
    <3>1. o \in Outcomes /\ o.mouse = m /\ o.undo = undo /\ o.ok = TRUE
      BY <2>3, <2>6 DEF Ready, Answer, Outcome, Outcomes, Effects
    <3> QED BY <3>1, <2>3, <2>6, <1>5 DEF Toggles
  <2> QED BY <1>2, <1>3, <1>4, <1>5, <2>4, <2>5, <2>6
<1> QED BY <1>2, <1>3, <1>4, <1>5

(* A profile was activated, or was not.                                    *)
Activates(o, p) ==
    /\ o \in Outcomes /\ o.undo = undo
    /\ Same(o.mouse, mouse) /\ o.mouse.memory = mouse.memory
    /\ \/ o.mouse.current = mouse.current /\ o.mouse.loaded = mouse.loaded
       \/ /\ p \in mouse.on /\ p # mouse.current /\ o.mouse.current = p
          /\ o.mouse.loaded.profile = p /\ o.mouse.loaded.content = ContentOf(mouse, p)
    /\ o.ok => o.mouse.current = p
    /\ o.cost = 0 /\ mouse.onboard /\ ~mouse.torn /\ p \in mouse.on => o.ok

LEMMA ActivateIs == ASSUME Ready, NEW p, NEW o \in Activate(p) PROVE Activates(o, p)
<1>1. mouse \in Mice /\ mouse.on \subseteq StoredProfile
  BY MouseFields DEF Ready
<1> DEFINE no == ~mouse.onboard \/ mouse.torn \/ p \notin mouse.on
<1>2. \/ o = Fails(mouse, 1)
      \/ no /\ o = Fails(mouse, 0)
      \/ ~no /\ (o = Answer(Select(mouse, p), "none") \/ o = Fails(Select(mouse, p), 1))
  BY DEF Activate
<1>3. CASE o = Fails(mouse, 1)
  <2>1. o \in Outcomes /\ o.mouse = mouse /\ o.undo = undo /\ o.ok = FALSE /\ o.cost = 1
    BY <1>1, <1>3 DEF Ready, Fails, Outcome, Outcomes, Effects
  <2> QED BY <2>1 DEF Activates, Same
<1>4. CASE no /\ o = Fails(mouse, 0)
  <2>1. o \in Outcomes /\ o.mouse = mouse /\ o.undo = undo /\ o.ok = FALSE
    BY <1>1, <1>4 DEF Ready, Fails, Outcome, Outcomes, Effects
  <2> QED BY <2>1, <1>4 DEF Activates, Same
<1>5. CASE ~no /\ (o = Answer(Select(mouse, p), "none") \/ o = Fails(Select(mouse, p), 1))
  <2>1. p \in StoredProfile /\ p \in mouse.on
    BY <1>1, <1>5
  <2> DEFINE n == Select(mouse, p)
  <2>2. /\ n \in Mice /\ Same(n, mouse) /\ n.memory = mouse.memory /\ n.current = p
        /\ \/ p = mouse.current /\ n.loaded = mouse.loaded
           \/ /\ p # mouse.current
              /\ n.loaded.profile = p
              /\ n.loaded.content = ContentOf(mouse, p)
    BY <1>1, <2>1, SelectIs
  <2>3. o = Answer(n, "none") \/ o = Fails(n, 1)
    BY <1>5
  <2> HIDE DEF n
  <2>4. CASE o = Answer(n, "none")
    <3>1. o \in Outcomes /\ o.mouse = n /\ o.undo = undo /\ o.ok = TRUE
      BY <2>2, <2>4 DEF Ready, Answer, Outcome, Outcomes, Effects
    <3> QED BY <3>1, <2>1, <2>2 DEF Activates
  <2>5. CASE o = Fails(n, 1)
    <3>1. o \in Outcomes /\ o.mouse = n /\ o.undo = undo /\ o.ok = FALSE /\ o.cost = 1
      BY <2>2, <2>5 DEF Ready, Fails, Outcome, Outcomes, Effects
    <3> QED BY <3>1, <2>1, <2>2 DEF Activates
  <2> QED BY <2>3, <2>4, <2>5
<1> QED BY <1>2, <1>3, <1>4, <1>5

LEMMA LiveIs ==
    ASSUME NEW o \in Live
    PROVE  /\ o.mouse = mouse /\ o.undo = undo /\ o.effect = "live"
           /\ o.cost \in Nat /\ o.cost <= LiveTries
           /\ o.ok = (o.cost < LiveTries) /\ o.ok \in BOOLEAN
<1>1. PICK missed \in 0..LiveTries : o = Outcome(mouse, undo, missed < LiveTries, "live", missed)
  BY DEF Live
<1>2. /\ o.mouse = mouse /\ o.undo = undo /\ o.effect = "live" /\ o.cost = missed
      /\ o.ok = (missed < LiveTries)
  BY <1>1 DEF Outcome
<1> QED BY <1>2, TestNumbers

-----------------------------------------------------------------------------
(* The backup is put back.                                                 *)
Restores(o) ==
    /\ o \in Outcomes /\ o.undo = undo
    /\ o.mouse.onboard = mouse.onboard /\ o.mouse.spellable = mouse.spellable
    /\ o.mouse.memory \in {mouse.memory, Torn, Found}
    /\ o.mouse.current = mouse.current \/ o.mouse.memory = Found
    /\ o.mouse.loaded.content \in {mouse.loaded.content, Own, Found}
    /\ o.cost = 0 =>
          o.ok /\ o.mouse.memory = Found /\ o.mouse.on = start.on /\ o.mouse.torn = FALSE

LEMMA RestoresFails ==
    ASSUME Ready, NEW m \in Mice, NEW o, o = Fails(m, 1),
           m.onboard = mouse.onboard, m.spellable = mouse.spellable,
           m.memory \in {mouse.memory, Torn, Found}, m.current = mouse.current,
           m.loaded = mouse.loaded
    PROVE  Restores(o)
<1>1. o \in Outcomes /\ o.mouse = m /\ o.undo = undo /\ o.cost = 1
  BY DEF Ready, Fails, Outcome, Outcomes, Effects
<1> QED BY <1>1 DEF Restores

(* The profile is written, to a mouse whose directory is as it was.        *)
LEMMA RestoresLoads ==
    ASSUME Ready, NEW m \in Mice, NEW o \in LoadWritten(m),
           m.onboard = mouse.onboard, m.spellable = mouse.spellable,
           m.memory = Found, m.on = start.on, m.torn = FALSE,
           m.loaded.content \in {mouse.loaded.content, Own, Found}
    PROVE  Restores(o)
<1>1. Loads(o, m)
  BY LoadWrittenIs
<1>2. o.mouse.loaded.content \in {mouse.loaded.content, Own, Found}
  BY <1>1 DEF Loads, Runs
<1> QED BY <1>1, <1>2 DEF Loads, Restores, Same

LEMMA RestoreIs ==
    ASSUME Ready, start \in Mice, NEW o \in Restore
    PROVE  Restores(o)
<1> DEFINE profile == mouse.memory # Found
           directory == mouse.torn \/ mouse.on # start.on
           put == [mouse EXCEPT !.memory = Found]
<1>1. /\ mouse \in Mice /\ mouse.torn \in BOOLEAN
      /\ start.on \in (SUBSET StoredProfile) \ {{}}
  BY MouseFields DEF Ready
<1>2. /\ put \in Mice /\ Same(put, mouse) /\ put.memory = Found
      /\ put.current = mouse.current /\ put.loaded = mouse.loaded
  BY <1>1, MemoryIs, ContentsWritten
<1>3. \/ o = Fails(mouse, 1)
      \/ ~profile /\ ~directory /\ o = Answer(mouse, "none")
      \/ profile /\ ~directory /\ o \in WriteFails(Found) \cup LoadWritten(put)
      \/ /\ ~profile /\ directory
         /\ \/ o = Fails([mouse EXCEPT !.torn = TRUE], 1)
            \/ \E m \in Committed(mouse, start.on) : o = Answer(m, "now")
      \/ /\ profile /\ directory
         /\ \/ o \in WriteFails(Found)
            \/ \E t \in {mouse.torn, TRUE} : o = Fails([put EXCEPT !.torn = t], 1)
            \/ \E m \in Committed(put, start.on) : o \in LoadWritten(m)
  <2>1. CASE ~profile /\ ~directory
    BY <2>1, Zenon DEF Restore
  <2>2. CASE profile /\ ~directory
    BY <2>2, Zenon DEF Restore
  <2>3. CASE ~profile /\ directory
    BY <2>3, Zenon DEF Restore
  <2>4. CASE profile /\ directory
    BY <2>4, Zenon DEF Restore
  <2> QED BY <2>1, <2>2, <2>3, <2>4
<1>4. ASSUME o \in WriteFails(Found) PROVE Restores(o)
  <2>1. Rewrites(o, Found) /\ o.undo = undo /\ ~o.ok /\ o.cost = 1
    BY <1>4, WriteFailsIs, ContentsWritten
  <2>2. \/ o.mouse.current = mouse.current /\ o.mouse.loaded = mouse.loaded
        \/ /\ o.mouse.memory = Found
           /\ o.mouse.loaded.content = Found \/ o.mouse.loaded.content = Own
    BY <2>1 DEF Rewrites
  <2> QED BY <2>1, <2>2 DEF Rewrites, Restores, Same
<1>5. CASE o = Fails(mouse, 1)
  BY <1>1, <1>5, RestoresFails
<1>6. CASE ~profile /\ ~directory /\ o = Answer(mouse, "none")
  <2>1. o \in Outcomes /\ o.mouse = mouse /\ o.undo = undo /\ o.ok = TRUE
    BY <1>6 DEF Ready, Answer, Outcome, Outcomes, Effects
  <2> QED BY <2>1, <1>1, <1>6 DEF Restores
<1>7. CASE profile /\ ~directory /\ o \in LoadWritten(put)
  <2>1. put.on = start.on /\ put.torn = FALSE
    BY <1>1, <1>2, <1>7 DEF Same
  <2>2. put.onboard = mouse.onboard /\ put.spellable = mouse.spellable
    BY <1>2 DEF Same
  <2> HIDE DEF put
  <2> QED BY <1>2, <2>1, <2>2, <1>7, RestoresLoads
<1>8. CASE ~profile /\ directory /\ o = Fails([mouse EXCEPT !.torn = TRUE], 1)
  <2> DEFINE m == [mouse EXCEPT !.torn = TRUE]
  <2>1. /\ m \in Mice /\ m.onboard = mouse.onboard /\ m.spellable = mouse.spellable
        /\ m.memory = mouse.memory /\ m.current = mouse.current /\ m.loaded = mouse.loaded
    BY <1>1, TornIs
  <2>2. o = Fails(m, 1)
    BY <1>8
  <2> HIDE DEF m
  <2> QED BY <2>1, <2>2, RestoresFails
<1>9. ASSUME ~profile, directory, NEW m \in Committed(mouse, start.on), o = Answer(m, "now")
      PROVE  Restores(o)
  <2>1. Commits(m, mouse, start.on)
    BY <1>1, <1>9, CommittedIs
  <2>2. o \in Outcomes /\ o.mouse = m /\ o.undo = undo /\ o.ok = TRUE
    BY <2>1, <1>9 DEF Ready, Answer, Outcome, Outcomes, Effects, Commits
  <2>3. ContentOf(mouse, m.current) \in {Found, Own}
    BY <1>9 DEF ContentOf
  <2> QED BY <2>1, <2>2, <2>3, <1>9 DEF Commits, Restores
<1>10. ASSUME NEW t \in {mouse.torn, TRUE}, o = Fails([put EXCEPT !.torn = t], 1)
       PROVE  Restores(o)
  <2> DEFINE m == [put EXCEPT !.torn = t]
  <2>1. /\ m \in Mice /\ m.onboard = put.onboard /\ m.spellable = put.spellable
        /\ m.memory = put.memory /\ m.current = put.current /\ m.loaded = put.loaded
    <3> HIDE DEF put
    <3>1. t \in BOOLEAN
      BY <1>1
    <3> QED BY <3>1, <1>2, TornIs
  <2>2. o = Fails(m, 1)
    BY <1>10
  <2>3. put.onboard = mouse.onboard /\ put.spellable = mouse.spellable
    BY <1>2 DEF Same
  <2> HIDE DEF m, put
  <2> QED BY <2>1, <2>2, <2>3, <1>2, RestoresFails
<1>11. ASSUME NEW m \in Committed(put, start.on), o \in LoadWritten(m)
       PROVE  Restores(o)
  <2> HIDE DEF put
  <2>1. Commits(m, put, start.on)
    BY <1>1, <1>2, <1>11, CommittedIs
  <2>2. ContentOf(put, m.current) \in {Found, Own}
    BY <1>2 DEF ContentOf
  <2>3. /\ m \in Mice /\ m.onboard = mouse.onboard /\ m.spellable = mouse.spellable
        /\ m.memory = Found /\ m.on = start.on /\ m.torn = FALSE
    BY <2>1, <1>2 DEF Commits, Same
  <2>4. m.loaded.content \in {mouse.loaded.content, Own, Found}
    BY <2>1, <2>2, <1>2 DEF Commits
  <2> QED BY <2>3, <2>4, <1>11, RestoresLoads
<1> HIDE DEF put, profile, directory
<1> QED BY <1>3, <1>4, <1>5, <1>6, <1>7, <1>8, <1>9, <1>10, <1>11

-----------------------------------------------------------------------------
(* What every request has in common.                                       *)
Asked(o, at, writes) ==
    /\ step = at
    /\ faults + o.cost <= MaxFaults
    /\ faults' = faults + o.cost
    /\ excused' = excused + IF o.effect = "live" /\ o.cost < LiveTries THEN o.cost ELSE 0
    /\ spoiled' = (spoiled \/ (writes /\ ~o.ok /\ o.cost > 0))
    /\ late' = (late \/ (at \in {"put_back", "restore", "compare"} /\ o.cost > 0))
    /\ mouse' = o.mouse /\ undo' = o.undo
    /\ UNCHANGED <<start, presses>>

LEMMA TestFields ==
    ASSUME TestTypes
    PROVE  /\ mouse \in Mice /\ start \in Mice /\ undo \in Seq(Contents) /\ script \in Scripts
           /\ step \in Steps /\ failed \in BOOLEAN /\ spoiled \in BOOLEAN /\ late \in BOOLEAN
           /\ report \in {"none", "refused", "error", "pass", "fail"}
           /\ presses \in Nat /\ faults \in Nat /\ excused \in Nat /\ excused <= faults
           /\ faults <= MaxFaults /\ presses <= MaxPresses
  BY TestNumbers DEF TestTypes, SelfTestTypeOK, Mice, Scripts

LEMMA ScriptFields ==
    ASSUME NEW s \in Scripts
    PROVE  /\ s.number \in 0..ProfileCount /\ s.home \in 0..ProfileCount
           /\ s.off \in 0..ProfileCount /\ s.i \in Nat /\ s.last_undo \in Nat
           /\ s.snapshot \in Contents /\ s.written \in Seq(Contents) /\ s.undone \in 0..3
  BY DEF Scripts

LEMMA TestReady ==
    ASSUME SelfTestInv, step \notin {"prepare", "done"}
    PROVE  /\ Ready /\ report = "none" /\ script \in Scripts /\ failed \in BOOLEAN
           /\ start \in Mice
  BY TestFields DEF SelfTestInv, PlaceInv, Ready

LEMMA Asking ==
    ASSUME SelfTestInv, NEW o, NEW at, NEW writes \in BOOLEAN, Asked(o, at, writes),
           o.mouse \in Mice, o.undo \in Seq(Contents), o.ok \in BOOLEAN, o.cost \in Nat,
           o.mouse.onboard = mouse.onboard, o.mouse.spellable = mouse.spellable,
           script' \in Scripts, step' \in Steps, failed' \in BOOLEAN,
           report' \in {"none", "refused", "error", "pass", "fail"}
    PROVE  /\ TestTypes'
           /\ Calm' => /\ Calm
                       /\ o.effect # "live" => o.cost = 0
                       /\ o.effect = "live" => o.cost < LiveTries
<1>1. /\ mouse \in Mice /\ start \in Mice /\ presses \in Nat /\ faults \in Nat
      /\ excused \in Nat /\ excused <= faults /\ spoiled \in BOOLEAN /\ late \in BOOLEAN
      /\ presses <= MaxPresses /\ MaxFaults \in Nat /\ MaxPresses \in Nat
  BY TestFields, TestNumbers DEF SelfTestInv
<1>2. /\ faults' = faults + o.cost /\ faults' \in Nat /\ faults' <= MaxFaults
      /\ o.effect = "live" /\ o.cost < LiveTries => excused' = excused + o.cost
      /\ ~(o.effect = "live" /\ o.cost < LiveTries) => excused' = excused
      /\ excused' \in Nat /\ excused' <= faults'
  BY <1>1 DEF Asked
<1>3. /\ mouse' \in Mice /\ undo' \in Seq(Contents) /\ start' = start /\ presses' = presses
      /\ spoiled' \in BOOLEAN /\ late' \in BOOLEAN
  BY <1>1 DEF Asked
<1>4. faults' \in 0..MaxFaults /\ excused' \in 0..faults' /\ presses' \in 0..MaxPresses
  BY <1>1, <1>2, <1>3
<1>5. TestTypes'
  BY <1>1, <1>3, <1>4 DEF TestTypes, SelfTestTypeOK, Mice, Scripts
<1>6. ASSUME Calm' PROVE Calm
  BY <1>1, <1>2, <1>3, <1>6 DEF Calm, Asked
<1>7. ASSUME Calm', o.effect # "live" PROVE o.cost = 0
  BY <1>1, <1>2, <1>7 DEF Calm
<1>8. ASSUME Calm', o.effect = "live" PROVE o.cost < LiveTries
  <2>1. LiveTries \in Nat
    BY TestNumbers
  <2> QED BY <2>1, <1>1, <1>2, <1>8, TestNumbers DEF Calm
<1> QED BY <1>5, <1>6, <1>7, <1>8

(* What is counted of a request.                                           *)
LEMMA Counting ==
    ASSUME SelfTestInv, NEW o, NEW at, NEW writes \in BOOLEAN, Asked(o, at, writes),
           o.ok \in BOOLEAN, o.cost \in Nat,
           failed => failed', writes /\ ~o.ok => failed',
           at \in {"put_back", "restore", "compare"} => o.effect # "live"
    PROVE  /\ spoiled' => failed'
           /\ ~writes /\ spoiled' => spoiled
           /\ late' => faults' > excused'
           /\ ~late' => ~late
           /\ at \in {"put_back", "restore", "compare"} /\ ~late' => o.cost = 0
<1>1. /\ faults \in Nat /\ excused \in Nat /\ excused <= faults
      /\ spoiled \in BOOLEAN /\ late \in BOOLEAN
  BY TestFields DEF SelfTestInv
<1>2. (spoiled => failed) /\ (late => faults > excused)
  BY DEF SelfTestInv, ReportInv
<1>3. (spoiled' => failed') /\ (~writes /\ spoiled' => spoiled)
  BY <1>2 DEF Asked
<1>4. late' => faults' > excused'
  <2>1. CASE late
    BY <2>1, <1>1, <1>2 DEF Asked
  <2>2. CASE ~late
    BY <2>2, <1>1 DEF Asked
  <2> QED BY <2>1, <2>2
<1>5. ~late' => ~late
  BY DEF Asked
<1>6. ASSUME at \in {"put_back", "restore", "compare"}, ~late' PROVE o.cost = 0
  <2>1. ~(o.cost > 0)
    BY <1>6 DEF Asked
  <2> QED BY <2>1
<1> QED BY <1>3, <1>4, <1>5, <1>6

(* A request after which the test goes on, or ends in an error.            *)
LEMMA Reporting ==
    ASSUME SelfTestInv, NEW o, NEW at, NEW writes \in BOOLEAN, Asked(o, at, writes),
           o.ok \in BOOLEAN, o.cost \in Nat,
           failed => failed', writes /\ ~o.ok => failed',
           at \in {"put_back", "restore", "compare"} => o.effect # "live",
           report' \in {"none", "error"}, step' # "compare"
    PROVE  ReportInv'
<1>1. (spoiled' => failed') /\ (late' => faults' > excused')
  BY Counting
<1> QED BY <1>1 DEF ReportInv

-----------------------------------------------------------------------------
(* What the script remembers, field by field.                              *)
Memo(s, number, home, off, i, last_undo, snapshot, written, undone) ==
    /\ s \in Scripts
    /\ s.number = number /\ s.home = home /\ s.off = off /\ s.i = i
    /\ s.last_undo = last_undo /\ s.snapshot = snapshot /\ s.written = written
    /\ s.undone = undone

LEMMA HomeMemo ==
    ASSUME NEW s \in Scripts,
           NEW home \in 0..ProfileCount
    PROVE  Memo([s EXCEPT !.home = home],
                s.number, home, s.off, s.i, s.last_undo, s.snapshot, s.written, s.undone)
<1> DEFINE t == [s EXCEPT !.home = home]
<1>1. t \in Scripts
  BY Zenon DEF Scripts
<1>2. t.number = s.number
  BY DEF Scripts
<1>3. t.home = home
  BY DEF Scripts
<1>4. t.off = s.off
  BY DEF Scripts
<1>5. t.i = s.i
  BY DEF Scripts
<1>6. t.last_undo = s.last_undo
  BY DEF Scripts
<1>7. t.snapshot = s.snapshot
  BY DEF Scripts
<1>8. t.written = s.written
  BY DEF Scripts
<1>9. t.undone = s.undone
  BY DEF Scripts
<1> HIDE DEF t
<1>10. Memo(t, s.number, home, s.off, s.i, s.last_undo, s.snapshot, s.written, s.undone)
  BY <1>1, <1>2, <1>3, <1>4, <1>5, <1>6, <1>7, <1>8, <1>9, Zenon DEF Memo
<1> QED BY <1>10, Zenon DEF t

LEMMA BeginMemo ==
    ASSUME NEW s \in Scripts,
           NEW snapshot \in Contents,
           NEW off \in 0..ProfileCount
    PROVE  Memo([s EXCEPT !.snapshot = snapshot, !.off = off],
                s.number, s.home, off, s.i, s.last_undo, snapshot, s.written, s.undone)
<1> DEFINE t == [s EXCEPT !.snapshot = snapshot, !.off = off]
<1>1. t \in Scripts
  BY Zenon DEF Scripts
<1>2. t.number = s.number
  BY DEF Scripts
<1>3. t.home = s.home
  BY DEF Scripts
<1>4. t.off = off
  BY DEF Scripts
<1>5. t.i = s.i
  BY DEF Scripts
<1>6. t.last_undo = s.last_undo
  BY DEF Scripts
<1>7. t.snapshot = snapshot
  BY DEF Scripts
<1>8. t.written = s.written
  BY DEF Scripts
<1>9. t.undone = s.undone
  BY DEF Scripts
<1> HIDE DEF t
<1>10. Memo(t, s.number, s.home, off, s.i, s.last_undo, snapshot, s.written, s.undone)
  BY <1>1, <1>2, <1>3, <1>4, <1>5, <1>6, <1>7, <1>8, <1>9, Zenon DEF Memo
<1> QED BY <1>10, Zenon DEF t

LEMMA IndexMemo ==
    ASSUME NEW s \in Scripts,
           NEW i \in Nat
    PROVE  Memo([s EXCEPT !.i = i],
                s.number, s.home, s.off, i, s.last_undo, s.snapshot, s.written, s.undone)
<1> DEFINE t == [s EXCEPT !.i = i]
<1>1. t \in Scripts
  BY Zenon DEF Scripts
<1>2. t.number = s.number
  BY DEF Scripts
<1>3. t.home = s.home
  BY DEF Scripts
<1>4. t.off = s.off
  BY DEF Scripts
<1>5. t.i = i
  BY DEF Scripts
<1>6. t.last_undo = s.last_undo
  BY DEF Scripts
<1>7. t.snapshot = s.snapshot
  BY DEF Scripts
<1>8. t.written = s.written
  BY DEF Scripts
<1>9. t.undone = s.undone
  BY DEF Scripts
<1> HIDE DEF t
<1>10. Memo(t, s.number, s.home, s.off, i, s.last_undo, s.snapshot, s.written, s.undone)
  BY <1>1, <1>2, <1>3, <1>4, <1>5, <1>6, <1>7, <1>8, <1>9, Zenon DEF Memo
<1> QED BY <1>10, Zenon DEF t

LEMMA DepthMemo ==
    ASSUME NEW s \in Scripts,
           NEW last_undo \in Nat
    PROVE  Memo([s EXCEPT !.last_undo = last_undo],
                s.number, s.home, s.off, s.i, last_undo, s.snapshot, s.written, s.undone)
<1> DEFINE t == [s EXCEPT !.last_undo = last_undo]
<1>1. t \in Scripts
  BY Zenon DEF Scripts
<1>2. t.number = s.number
  BY DEF Scripts
<1>3. t.home = s.home
  BY DEF Scripts
<1>4. t.off = s.off
  BY DEF Scripts
<1>5. t.i = s.i
  BY DEF Scripts
<1>6. t.last_undo = last_undo
  BY DEF Scripts
<1>7. t.snapshot = s.snapshot
  BY DEF Scripts
<1>8. t.written = s.written
  BY DEF Scripts
<1>9. t.undone = s.undone
  BY DEF Scripts
<1> HIDE DEF t
<1>10. Memo(t, s.number, s.home, s.off, s.i, last_undo, s.snapshot, s.written, s.undone)
  BY <1>1, <1>2, <1>3, <1>4, <1>5, <1>6, <1>7, <1>8, <1>9, Zenon DEF Memo
<1> QED BY <1>10, Zenon DEF t

LEMMA WrittenMemo ==
    ASSUME NEW s \in Scripts,
           NEW written \in Seq(Contents)
    PROVE  Memo([s EXCEPT !.written = written],
                s.number, s.home, s.off, s.i, s.last_undo, s.snapshot, written, s.undone)
<1> DEFINE t == [s EXCEPT !.written = written]
<1>1. t \in Scripts
  BY Zenon DEF Scripts
<1>2. t.number = s.number
  BY DEF Scripts
<1>3. t.home = s.home
  BY DEF Scripts
<1>4. t.off = s.off
  BY DEF Scripts
<1>5. t.i = s.i
  BY DEF Scripts
<1>6. t.last_undo = s.last_undo
  BY DEF Scripts
<1>7. t.snapshot = s.snapshot
  BY DEF Scripts
<1>8. t.written = written
  BY DEF Scripts
<1>9. t.undone = s.undone
  BY DEF Scripts
<1> HIDE DEF t
<1>10. Memo(t, s.number, s.home, s.off, s.i, s.last_undo, s.snapshot, written, s.undone)
  BY <1>1, <1>2, <1>3, <1>4, <1>5, <1>6, <1>7, <1>8, <1>9, Zenon DEF Memo
<1> QED BY <1>10, Zenon DEF t

LEMMA UndoneMemo ==
    ASSUME NEW s \in Scripts,
           NEW undone \in 0..3
    PROVE  Memo([s EXCEPT !.undone = undone],
                s.number, s.home, s.off, s.i, s.last_undo, s.snapshot, s.written, undone)
<1> DEFINE t == [s EXCEPT !.undone = undone]
<1>1. t \in Scripts
  BY Zenon DEF Scripts
<1>2. t.number = s.number
  BY DEF Scripts
<1>3. t.home = s.home
  BY DEF Scripts
<1>4. t.off = s.off
  BY DEF Scripts
<1>5. t.i = s.i
  BY DEF Scripts
<1>6. t.last_undo = s.last_undo
  BY DEF Scripts
<1>7. t.snapshot = s.snapshot
  BY DEF Scripts
<1>8. t.written = s.written
  BY DEF Scripts
<1>9. t.undone = undone
  BY DEF Scripts
<1> HIDE DEF t
<1>10. Memo(t, s.number, s.home, s.off, s.i, s.last_undo, s.snapshot, s.written, undone)
  BY <1>1, <1>2, <1>3, <1>4, <1>5, <1>6, <1>7, <1>8, <1>9, Zenon DEF Memo
<1> QED BY <1>10, Zenon DEF t

LEMMA InUseMemo ==
    ASSUME NEW s \in Scripts,
           NEW undone \in 0..3,
           NEW i \in Nat
    PROVE  Memo([s EXCEPT !.undone = undone, !.i = i],
                s.number, s.home, s.off, i, s.last_undo, s.snapshot, s.written, undone)
<1> DEFINE t == [s EXCEPT !.undone = undone, !.i = i]
<1>1. t \in Scripts
  BY Zenon DEF Scripts
<1>2. t.number = s.number
  BY DEF Scripts
<1>3. t.home = s.home
  BY DEF Scripts
<1>4. t.off = s.off
  BY DEF Scripts
<1>5. t.i = i
  BY DEF Scripts
<1>6. t.last_undo = s.last_undo
  BY DEF Scripts
<1>7. t.snapshot = s.snapshot
  BY DEF Scripts
<1>8. t.written = s.written
  BY DEF Scripts
<1>9. t.undone = undone
  BY DEF Scripts
<1> HIDE DEF t
<1>10. Memo(t, s.number, s.home, s.off, i, s.last_undo, s.snapshot, s.written, undone)
  BY <1>1, <1>2, <1>3, <1>4, <1>5, <1>6, <1>7, <1>8, <1>9, Zenon DEF Memo
<1> QED BY <1>10, Zenon DEF t

LEMMA FreshMemo ==
    ASSUME NEW number \in 0..ProfileCount
    PROVE  Memo(Fresh(number), number, NONE, NONE, 1, 0, Found, <<>>, 0)
<1>1. Found \in Contents /\ NONE \in 0..ProfileCount /\ <<>> \in Seq(Contents)
  BY ContentsWritten, TestNumbers DEF NONE
<1>2. Fresh(number) \in Scripts
  BY <1>1 DEF Fresh, Scripts
<1> QED BY <1>2 DEF Fresh, Memo

(* One write further.                                                      *)
Following(i, count) == IF i < count THEN i + 1 ELSE 1

LEMMA CountedMemo ==
    ASSUME script \in Scripts, NEW count \in Nat
    PROVE  Memo(Counted(count),
                script.number, script.home, script.off, Following(script.i, count),
                script.last_undo, script.snapshot, script.written, script.undone)
<1>1. Following(script.i, count) \in Nat
  BY ScriptFields DEF Following
<1>2. Counted(count) = [script EXCEPT !.i = Following(script.i, count)]
  BY DEF Counted, Following
<1> QED BY <1>1, <1>2, IndexMemo

-----------------------------------------------------------------------------
(* The stack of undo after a write, and after an undo.                     *)
Pushed(s, t, c) ==
    /\ Len(s) \in Nat /\ Len(t) \in Nat
    /\ t = s \/ Len(t) = Len(s) + 1
    /\ \A j \in 1..Len(t) : \/ j \in 1..Len(s) /\ t[j] = s[j]
                            \/ j = Len(t) /\ Len(t) = Len(s) + 1 /\ t[j] = c

LEMMA PushIs ==
    ASSUME NEW s \in Seq(Contents), NEW c \in Contents, NEW t \in {s, Append(s, c)}
    PROVE  /\ Pushed(s, t, c)
           /\ t = Append(s, c) => /\ t # s /\ Len(t) = Len(s) + 1 /\ t[Len(t)] = c
                                  /\ \A j \in 1..Len(s) : t[j] = s[j]
<1>1. Len(s) \in Nat
  OBVIOUS
<1>2. CASE t = s
  <2>1. Append(s, c) # s
    <3>1. Len(Append(s, c)) = Len(s) + 1
      OBVIOUS
    <3> QED BY <3>1, <1>1
  <2> QED BY <1>1, <1>2, <2>1 DEF Pushed
<1>3. CASE t = Append(s, c) /\ t # s
  <2>1. Len(t) = Len(s) + 1 /\ t[Len(s) + 1] = c /\ \A j \in 1..Len(s) : t[j] = s[j]
    BY <1>1, <1>3
  <2> QED BY <1>1, <2>1, <1>3 DEF Pushed
<1> QED BY <1>2, <1>3

(* A write the server may refuse.                                          *)
Maybe(o, content) ==
    /\ Rewrites(o, content)
    /\ o.undo \in {undo, Append(undo, mouse.memory)}
    /\ o.ok => o.undo = IF content = mouse.memory THEN undo ELSE Append(undo, mouse.memory)
    /\ o.cost = 0 /\ ~mouse.torn /\ mouse.memory # Torn =>
          Smooth(o, content) \/ (~o.ok /\ o.mouse = mouse /\ o.undo = undo)

LEMMA MaybeIs ==
    ASSUME Ready, NEW content \in Contents, NEW o \in {Fails(mouse, 0)} \cup Apply(content)
    PROVE  Maybe(o, content)
<1>1. CASE o = Fails(mouse, 0)
  <2>1. o \in Outcomes /\ o.mouse = mouse /\ o.undo = undo /\ o.ok = FALSE
    BY <1>1 DEF Ready, Fails, Outcome, Outcomes, Effects
  <2> QED BY <2>1, StaysIs DEF Maybe
<1>2. CASE o \in Apply(content)
  BY <1>2, ApplyIs DEF Applied, Maybe
<1> QED BY <1>1, <1>2

(* A step less to take back.                                               *)
Popped(s, t) ==
    /\ Len(s) \in Nat /\ Len(t) \in Nat
    /\ t = s \/ (Len(s) > 0 /\ Len(t) = Len(s) - 1)
    /\ \A j \in 1..Len(t) : j \in 1..Len(s) /\ t[j] = s[j]

LEMMA PopIs ==
    ASSUME NEW s \in Seq(Contents), NEW t, t = s \/ (s # <<>> /\ t = Front(s))
    PROVE  /\ Popped(s, t)
           /\ s # <<>> /\ t = Front(s) => Len(s) > 0 /\ Len(t) = Len(s) - 1
<1>1. CASE t = s /\ ~(s # <<>> /\ t = Front(s))
  <2>1. Len(s) \in Nat
    OBVIOUS
  <2>2. Popped(s, t)
    BY <1>1, <2>1 DEF Popped
  <2> QED BY <1>1, <2>2, Zenon
<1>2. CASE s # <<>> /\ t = Front(s)
  <2>1. Len(t) = Len(s) - 1 /\ Len(s) \in Nat \ {0} /\ \A i \in 1..Len(s) - 1 : t[i] = s[i]
    BY <1>2, FrontIs
  <2> QED BY <2>1 DEF Popped
<1> QED BY <1>1, <1>2

LEMMA LatestIs ==
    ASSUME NEW s \in Seq(Contents), s # <<>>
    PROVE  /\ Last(s) \in Contents /\ Last(s) = s[Len(s)]
           /\ Len(s) \in Nat /\ Len(s) > 0 /\ Len(s) \in 1..Len(s)
  BY FrontIs

-----------------------------------------------------------------------------
(* The steps back grow and shrink with what was written.                   *)
LEMMA RankIs == ASSUME NEW c \in Contents PROVE Rank(c) \in Nat
<1>1. c.n \in 0..Max(Numbers) /\ Max(Numbers) \in Nat
  BY HighestNumber, ContentsIs
<1> QED BY <1>1 DEF Rank

LEMMA BacksOn ==
    ASSUME NEW u \in Seq(Contents), NEW w \in Seq(Contents), NEW m \in Contents,
           NEW c \in Contents, w # <<>>, Backs(m, u, w)
    PROVE  Backs(c, Append(u, m), Append(w, c))
<1> DEFINE v == Append(u, m)
           x == Append(w, c)
           U == Len(u)
           W == Len(w)
<1>1. U \in Nat /\ W \in Nat /\ W > 0
  OBVIOUS
<1>2. /\ Len(v) = U + 1 /\ v[U + 1] = m /\ \A j \in 1..U : v[j] = u[j]
      /\ Len(x) = W + 1 /\ x[W + 1] = c /\ \A j \in 1..W : x[j] = w[j]
  OBVIOUS
<1>3. m = w[W] /\ U >= W - 1 /\ \A j \in 1..W - 1 : u[U - (W - 1) + j] = w[j]
  BY DEF Backs
<1> HIDE DEF v, x, U, W
<1>4. ASSUME NEW j \in 1..W PROVE v[U + 1 - W + j] = x[j]
  <2>1. CASE j = W
    BY <1>1, <1>2, <1>3, <2>1
  <2>2. CASE j < W
    <3>1. U - (W - 1) + j \in 1..U /\ U + 1 - W + j = U - (W - 1) + j /\ j \in 1..W - 1
      BY <1>1, <1>3, <2>2
    <3> QED BY <1>2, <1>3, <3>1
  <2> QED BY <1>1, <2>1, <2>2
<1>5. Backs(c, v, x)
  <2>1. Len(x) - 1 = W /\ Len(v) - (Len(x) - 1) = U + 1 - W /\ Len(v) >= Len(x) - 1
    BY <1>1, <1>2, <1>3
  <2> QED BY <1>1, <1>2, <1>4, <2>1 DEF Backs
<1> QED BY <1>5 DEF v, x

LEMMA BacksOff ==
    ASSUME NEW u \in Seq(Contents), NEW w \in Seq(Contents), NEW m, Len(w) > 1,
           Backs(m, u, w)
    PROVE  /\ u # <<>> /\ w # <<>> /\ Last(u) = Last(Front(w))
           /\ Backs(Last(u), Front(u), Front(w))
<1> DEFINE U == Len(u)
           W == Len(w)
           v == Front(u)
           x == Front(w)
<1>1. U \in Nat /\ W \in Nat /\ W > 1 /\ w # <<>>
  OBVIOUS
<1>2. U >= W - 1 /\ \A j \in 1..W - 1 : u[U - (W - 1) + j] = w[j]
  BY DEF Backs
<1>3. u # <<>>
  BY <1>1, <1>2
<1>4. /\ Len(v) = U - 1 /\ \A i \in 1..U - 1 : v[i] = u[i]
      /\ Last(u) = u[U]
  BY <1>3, FrontIs
<1>5. /\ Len(x) = W - 1 /\ \A i \in 1..W - 1 : x[i] = w[i]
      /\ x \in Seq(Contents)
  BY <1>1, FrontIs
<1>6. Last(x) = x[Len(x)]
  BY DEF Last
<1> HIDE DEF U, W, v, x
<1>7. u[U] = w[W - 1]
  <2>1. W - 1 \in 1..W - 1 /\ U - (W - 1) + (W - 1) = U
    BY <1>1
  <2> QED BY <1>2, <2>1
<1>8. Last(u) = Last(x) /\ Last(u) = x[W - 1]
  BY <1>1, <1>4, <1>5, <1>6, <1>7
<1>9. ASSUME NEW j \in 1..W - 2 PROVE v[U - 1 - (W - 2) + j] = x[j]
  <2>1. /\ U - 1 - (W - 2) + j = U - (W - 1) + j /\ U - (W - 1) + j \in 1..U - 1
        /\ j \in 1..W - 1
    BY <1>1, <1>2
  <2> QED BY <1>2, <1>4, <1>5, <2>1
<1>10. Backs(Last(u), v, x)
  <2>1. /\ Len(x) - 1 = W - 2 /\ Len(v) - (Len(x) - 1) = U - 1 - (W - 2)
        /\ Len(v) >= Len(x) - 1
    BY <1>1, <1>2, <1>4, <1>5
  <2> QED BY <1>5, <1>8, <1>9, <2>1 DEF Backs
<1> QED BY <1>1, <1>3, <1>8, <1>10 DEF v, x

LEMMA ClimbsOn ==
    ASSUME NEW u \in Seq(Contents), NEW m \in Contents, NEW c \in Contents, NEW snapshot,
           NEW k \in Nat, k <= Len(u), Climbs(m, u, snapshot, k), Rank(m) < Rank(c)
    PROVE  Climbs(c, Append(u, m), snapshot, k + 1)
<1> DEFINE v == Append(u, m)
           U == Len(u)
<1>1. U \in Nat /\ k <= U
  OBVIOUS
<1>2. Len(v) = U + 1 /\ v[U + 1] = m /\ \A j \in 1..U : v[j] = u[j]
  OBVIOUS
<1>3. k > 0 => /\ u[U - k + 1] = snapshot /\ Rank(u[U]) < Rank(m)
               /\ \A j \in 1..U - 1 : j > U - k => Rank(u[j]) < Rank(u[j + 1])
  BY DEF Climbs
<1>4. k = 0 => m = snapshot
  BY DEF Climbs
<1> HIDE DEF v, U
<1>5. v[U + 1 - (k + 1) + 1] = snapshot
  <2>1. CASE k = 0
    BY <1>1, <1>2, <1>4, <2>1
  <2>2. CASE k > 0
    <3>1. U + 1 - (k + 1) + 1 = U - k + 1 /\ U - k + 1 \in 1..U
      BY <1>1, <2>2
    <3> QED BY <1>2, <1>3, <2>2, <3>1
  <2> QED BY <2>1, <2>2
<1>6. ASSUME NEW j \in 1..U, j > U - k PROVE Rank(v[j]) < Rank(v[j + 1])
  <2>1. k > 0
    BY <1>1, <1>6
  <2>2. CASE j = U
    BY <1>1, <1>2, <1>3, <2>1, <2>2
  <2>3. CASE j # U
    <3>1. j \in 1..U - 1 /\ j + 1 \in 1..U
      BY <1>1, <2>3
    <3> QED BY <1>2, <1>3, <1>6, <2>1, <3>1
  <2> QED BY <2>2, <2>3
<1>7. Climbs(c, v, snapshot, k + 1)
  <2>1. k + 1 > 0 /\ k + 1 # 0
    OBVIOUS
  <2>2. U + 1 - 1 = U /\ U + 1 - (k + 1) = U - k
    BY <1>1
  <2>3. v[Len(v) - (k + 1) + 1] = snapshot
    <3>1. Len(v) - (k + 1) + 1 = U + 1 - (k + 1) + 1
      BY <1>1, <1>2
    <3> QED BY <1>5, <3>1, Zenon
  <2>4. \A j \in 1..Len(v) - 1 : j > Len(v) - (k + 1) => Rank(v[j]) < Rank(v[j + 1])
    <3>1. Len(v) - 1 = U /\ Len(v) - (k + 1) = U - k
      <4>1. Len(v) = U + 1
        BY <1>2
      <4> QED BY <1>1, <4>1
    <3> QED BY <1>6, <3>1, Zenon
  <2>5. Rank(v[Len(v)]) < Rank(c)
    BY <1>2
  <2> QED BY <2>1, <2>3, <2>4, <2>5, Zenon DEF Climbs
<1> QED BY <1>7 DEF v

LEMMA ClimbsOff ==
    ASSUME NEW u \in Seq(Contents), NEW m, NEW snapshot,
           NEW k \in Nat \ {0}, k <= Len(u), Climbs(m, u, snapshot, k)
    PROVE  u # <<>> /\ Rank(Last(u)) < Rank(m) /\ Climbs(Last(u), Front(u), snapshot, k - 1)
<1> DEFINE U == Len(u)
           v == Front(u)
<1>1. U \in Nat /\ 1 <= k /\ k <= U
  OBVIOUS
<1>2. u # <<>>
  BY <1>1
<1>3. Len(v) = U - 1 /\ Last(u) = u[U] /\ \A i \in 1..U - 1 : v[i] = u[i]
  BY <1>2, FrontIs
<1>4. /\ u[U - k + 1] = snapshot /\ Rank(u[U]) < Rank(m)
      /\ \A j \in 1..U - 1 : j > U - k => Rank(u[j]) < Rank(u[j + 1])
  BY DEF Climbs
<1> HIDE DEF v, U
<1>5. CASE k = 1
  <2>1. Last(u) = snapshot
    BY <1>1, <1>3, <1>4, <1>5
  <2> QED BY <1>2, <1>3, <1>4, <1>5, <2>1 DEF Climbs
<1>6. CASE k > 1
  <2>1. U - k + 1 \in 1..U - 1 /\ U - 1 \in 1..U - 1 /\ U - 1 > U - k /\ U - 1 + 1 = U
    BY <1>1, <1>6
  <2>2. v[U - 1 - (k - 1) + 1] = snapshot
    <3>1. U - 1 - (k - 1) + 1 = U - k + 1
      BY <1>1
    <3> QED BY <1>3, <1>4, <2>1, <3>1
  <2>3. Rank(v[U - 1]) < Rank(u[U])
    BY <1>3, <1>4, <2>1
  <2>4. ASSUME NEW j \in 1..U - 2, j > U - k PROVE Rank(v[j]) < Rank(v[j + 1])
    <3>1. j \in 1..U - 1 /\ j + 1 \in 1..U - 1
      BY <1>1
    <3> QED BY <1>3, <1>4, <2>4, <3>1
  <2>5. Climbs(u[U], v, snapshot, k - 1)
    <3>1. /\ k - 1 > 0 /\ k - 1 # 0 /\ Len(v) = U - 1 /\ Len(v) - 1 = U - 2
          /\ Len(v) - (k - 1) = U - k /\ Len(v) - (k - 1) + 1 = U - 1 - (k - 1) + 1
      BY <1>1, <1>3, <1>6
    <3> QED BY <2>2, <2>3, <2>4, <3>1 DEF Climbs
  <2> QED BY <1>2, <1>3, <1>4, <2>5 DEF v
<1>7. k = 1 \/ k > 1
  BY <1>1
<1> QED BY <1>5, <1>6, <1>7 DEF v

-----------------------------------------------------------------------------
(* Every step of the test keeps the invariant.  Each proof picks the       *)
(* outcome of the request, says what it makes of the mouse, the stack of   *)
(* undo and what the script remembers and where the script goes from it,   *)
(* then takes the conjuncts of the invariant one by one.                   *)
(*                                                                         *)
(* First, the set-up.                                                      *)
LEMMA PrepareKeeps == ASSUME SelfTestInv, Prepare PROVE SelfTestInv'
<1> USE DEF SetsUp, Phases, Using, Running, Ending, Early, Homed, Written
<1>1. /\ step = "prepare" /\ report = "none" /\ script = Fresh(NONE)
      /\ mouse \in Mice /\ start \in Mice /\ undo \in Seq(Contents) /\ failed \in BOOLEAN
      /\ faults \in Nat /\ excused \in Nat /\ excused <= faults
  BY TestFields DEF Prepare, SelfTestInv, PlaceInv
<1>2. mouse' = mouse /\ undo' = undo /\ presses' = presses /\ excused' = excused
      /\ spoiled' = spoiled /\ late' = late
  BY DEF Prepare
<1>3. ASSUME NEW p \in StoredProfile \ {mouse.current}, script' = Fresh(p),
             Go("set_up", TRUE), start' = mouse, UNCHANGED faults
      PROVE  SelfTestInv'
  <2>1. /\ script' \in Scripts /\ script'.number = p /\ script'.i = 1 /\ script'.undone = 0
    <3>1. p \in 0..ProfileCount
      BY TestNumbers DEF StoredProfile
    <3> QED BY <1>3, <3>1, FreshMemo DEF Memo
  <2>2. /\ step' = "set_up" /\ report' = "none" /\ start' = mouse /\ faults' = faults
        /\ failed' = failed
    BY <1>1, <1>3 DEF Go
  <2>3. TestTypes'
    BY <1>1, <1>2, <2>1, <2>2 DEF SelfTestInv, TestTypes, SelfTestTypeOK, Mice, Scripts, Steps
  <2>4. PlaceInv' /\ CountInv'
    BY <1>1, <2>1, <2>2 DEF PlaceInv, CountInv
  <2>5. MemoryInv' /\ UndoInv'
    BY <1>1, <1>2, <2>2, KindsOf DEF SelfTestInv, MemoryInv, UndoInv
  <2>6. UseInv'
    BY <1>1, <1>2, <1>3, <2>1, <2>2 DEF SelfTestInv, UseInv
  <2>7. ReportInv'
    BY <1>2, <2>2 DEF SelfTestInv, ReportInv
  <2>8. CalmInv'
    BY <1>1, <1>2, <2>2
       DEF SelfTestInv, CalmInv, Calm, Sound, Chosen, Depth, Taken, InUseAsWritten
  <2> QED BY <2>3, <2>4, <2>5, <2>6, <2>7, <2>8 DEF SelfTestInv
<1>4. ASSUME NEW result \in {"refused", "error"}, End(result), script' = script, start' = start,
             \/ result = "refused" /\ faults' = faults
             \/ result = "error" /\ faults < MaxFaults /\ faults' = faults + 1
      PROVE  SelfTestInv'
  <2>1. step' = "done" /\ report' = result /\ failed' = failed
    BY <1>4 DEF End
  <2>2. faults' \in 0..MaxFaults /\ excused <= faults' /\ faults <= faults'
        /\ excused \in 0..faults'
    BY <1>1, <1>4, TestNumbers DEF SelfTestInv, TestTypes, SelfTestTypeOK
  <2>3. TestTypes'
    <3>1. script' \in Scripts /\ start' \in Mice /\ script \in Scripts
      BY <1>1, <1>4, TestFields DEF SelfTestInv
    <3> QED BY <1>1, <1>2, <1>4, <2>1, <2>2, <3>1
            DEF SelfTestInv, TestTypes, SelfTestTypeOK, Mice, Scripts, Steps
  <2>4. PlaceInv' /\ CountInv'
    BY <1>1, <1>4, <2>1 DEF SelfTestInv, PlaceInv, CountInv
  <2>5. MemoryInv' /\ UndoInv'
    BY <2>1 DEF MemoryInv, UndoInv
  <2>6. UseInv'
    BY <1>1, <1>2, <2>1 DEF SelfTestInv, UseInv
  <2>7. ReportInv'
    BY <1>1, <1>2, <1>4, <2>1, <2>2 DEF SelfTestInv, ReportInv
  <2>8. ASSUME Calm' PROVE Sound' /\ Chosen' /\ Depth' /\ Taken' /\ InUseAsWritten'
    <3>1. result = "refused" /\ faults' = faults
      BY <1>1, <1>2, <1>4, <2>8 DEF Calm
    <3>2. Sound
      BY <1>2, <2>8, <3>1 DEF SelfTestInv, CalmInv, Calm
    <3>3. Sound'
      BY <1>2, <2>1, <3>1, <3>2 DEF Sound
    <3> QED BY <2>1, <3>3 DEF Chosen, Depth, Taken, InUseAsWritten
  <2> QED BY <2>3, <2>4, <2>5, <2>6, <2>7, <2>8 DEF SelfTestInv, CalmInv
<1> QED BY <1>3, <1>4 DEF Prepare

LEMMA SetUpKeeps == ASSUME SelfTestInv, SetUp PROVE SelfTestInv'
<1> USE DEF SetsUp, Phases, Using, Running, Ending, Early, Homed, Written
<1>1. PICK o \in ReadState :
          /\ Asked(o, "set_up", FALSE)
          /\ script' = [script EXCEPT !.home = mouse.current]
          /\ IF o.ok THEN Go(IF script.number \in mouse.on THEN "name" ELSE "enable", TRUE)
                 ELSE Go("put_back", FALSE)
  BY Zenon DEF SetUp, Ask, Asked
<1>2. /\ step = "set_up" /\ Ready /\ report = "none" /\ script \in Scripts
      /\ failed \in BOOLEAN /\ start \in Mice /\ FALSE \in BOOLEAN
  BY <1>1, TestReady DEF Asked
<1>3. mouse.current \in 0..ProfileCount
  BY <1>2, MouseFields, TestNumbers DEF Ready, StoredProfile
<1>4. Reads(o)
  BY <1>1, <1>2, ReadStateIs
<1>5. /\ o.mouse \in Mice /\ o.undo \in Seq(Contents) /\ o.ok \in BOOLEAN /\ o.cost \in Nat
      /\ o.mouse.onboard = mouse.onboard /\ o.mouse.spellable = mouse.spellable
  BY <1>2, <1>4, OutcomeFields DEF Reads, Ready
<1>6. /\ mouse' = mouse /\ undo' = undo /\ presses' = presses /\ start' = start
      /\ script' \in Scripts
      /\ script'.number = script.number
      /\ script'.home = mouse.current
      /\ script'.off = script.off
      /\ script'.i = script.i
      /\ script'.last_undo = script.last_undo
      /\ script'.snapshot = script.snapshot
      /\ script'.written = script.written
      /\ script'.undone = script.undone
  <2>1. mouse' = mouse /\ undo' = undo /\ presses' = presses /\ start' = start
    BY <1>1, <1>2, <1>4 DEF Asked, Reads
  <2>2. script' \in Scripts
        /\ script'.number = script.number
        /\ script'.home = mouse.current
        /\ script'.off = script.off
        /\ script'.i = script.i
        /\ script'.last_undo = script.last_undo
        /\ script'.snapshot = script.snapshot
        /\ script'.written = script.written
        /\ script'.undone = script.undone
    <3>1. Memo(script', script.number, mouse.current, script.off, script.i, script.last_undo,
               script.snapshot, script.written, script.undone)
      BY <1>1, <1>2, <1>3, HomeMemo
    <3> QED BY <3>1 DEF Memo
  <2> QED BY <2>1, <2>2
<1>7. /\ report' = "none" /\ failed' \in BOOLEAN /\ (failed => failed') /\ (~o.ok => failed')
      /\ o.ok => failed' = failed
      /\ o.ok => step' = IF script.number \in mouse.on THEN "name" ELSE "enable"
      /\ ~o.ok => step' = "put_back"
  BY <1>1, <1>2, <1>5 DEF Go
<1>8. TestTypes' /\ (Calm' => Calm /\ o.cost = 0)
  <2>1. script' \in Scripts /\ step' \in Steps /\ failed' \in BOOLEAN
    BY <1>2, <1>6, <1>7 DEF Steps
  <2>2. o.effect # "live"
    BY <1>4, OutcomeFields DEF Reads
  <2> QED BY <2>1, <2>2, <1>1, <1>2, <1>5, <1>7, Asking
<1>9. PlaceInv'
  BY <1>2, <1>6, <1>7 DEF SelfTestInv, PlaceInv
<1>10. CountInv'
  BY <1>2, <1>6, <1>7 DEF SelfTestInv, CountInv
<1>11. MemoryInv'
  BY <1>2, <1>6, <1>7, KindsOf DEF SelfTestInv, MemoryInv
<1>12. UndoInv'
  BY <1>2, <1>6, <1>7 DEF SelfTestInv, UndoInv
<1>13. UseInv'
  BY <1>2, <1>6, <1>7 DEF SelfTestInv, UseInv, MemoryInv
<1>14. ReportInv'
  <2>1. failed => failed'
    BY <1>2, <1>7
  <2>2. FALSE /\ ~o.ok => failed'
    BY <1>2, <1>7
  <2>3. report' \in {"none", "error"} /\ step' # "compare"
    BY <1>7
  <2>4. "set_up" \notin {"put_back", "restore", "compare"}
    OBVIOUS
  <2> QED BY <2>1, <2>2, <2>3, <2>4, <1>1, <1>2, <1>5, Reporting, Zenon
<1>15. ASSUME Calm' PROVE /\ Calm /\ failed' = FALSE /\ o.ok
  <2>1. /\ Sound /\ Calm /\ presses = 0 /\ presses' = 0 /\ mouse.onboard /\ mouse.spellable
    BY <1>6, <1>8, <1>15 DEF SelfTestInv, CalmInv, Calm
  <2>2. o.ok
    BY <1>4, <1>8, <1>15, <2>1 DEF Sound, Reads
  <2> QED BY <1>6, <1>7, <2>1, <2>2 DEF Sound
<1>16. ASSUME Calm' PROVE Sound'
  BY <1>2, <1>6, <1>7, <1>15, <1>16 DEF SelfTestInv, CalmInv, Sound
<1>17. ASSUME Calm' PROVE Chosen'
  BY <1>2, <1>6, <1>7, <1>15, <1>17 DEF SelfTestInv, CalmInv, Chosen, Sound
<1>18. ASSUME Calm' PROVE Depth'
  BY <1>2, <1>6, <1>7, <1>15, <1>18 DEF SelfTestInv, CalmInv, Depth
<1>19. ASSUME Calm' PROVE Taken'
  BY <1>2, <1>6, <1>7, <1>15, <1>19 DEF SelfTestInv, CalmInv, Taken
<1>20. ASSUME Calm' PROVE InUseAsWritten'
  BY <1>2, <1>6, <1>7, <1>15, <1>20 DEF SelfTestInv, CalmInv, InUseAsWritten
<1> QED BY <1>8, <1>9, <1>10, <1>11, <1>12, <1>13, <1>14, <1>16, <1>17, <1>18, <1>19, <1>20
        DEF SelfTestInv, CalmInv

LEMMA EnableKeeps == ASSUME SelfTestInv, Enable PROVE SelfTestInv'
<1> USE DEF SetsUp, Phases, Using, Running, Ending, Early, Homed, Written
<1>1. PICK o \in SetEnabled(script.number, TRUE) :
          /\ Asked(o, "enable", TRUE)
          /\ UNCHANGED script
          /\ IF o.ok THEN Go("name", TRUE) ELSE Go("put_back", FALSE)
  BY Zenon DEF Enable, Ask, Asked
<1>2. /\ step = "enable" /\ Ready /\ report = "none" /\ script \in Scripts
      /\ failed \in BOOLEAN /\ start \in Mice /\ TRUE \in BOOLEAN
  BY <1>1, TestReady DEF Asked
<1>3. script.number \in StoredProfile /\ TRUE \in BOOLEAN
  BY <1>2, ScriptFields DEF Ready, SelfTestInv, PlaceInv, StoredProfile, NONE
<1>4. ~IsScrambled(Own)
  BY KindsOf
<1>5. Toggles(o, script.number, TRUE)
  BY <1>1, <1>2, <1>3, SetEnabledIs
<1>6. /\ o.mouse \in Mice /\ o.undo \in Seq(Contents) /\ o.ok \in BOOLEAN /\ o.cost \in Nat
      /\ o.mouse.onboard = mouse.onboard /\ o.mouse.spellable = mouse.spellable
  BY <1>2, <1>5, OutcomeFields DEF Toggles, Turns
<1>7. /\ undo' = undo /\ presses' = presses /\ start' = start
      /\ mouse' = o.mouse /\ mouse'.memory = mouse.memory
      /\ \/ mouse'.loaded = mouse.loaded
         \/ mouse'.loaded.content \in {Own, mouse.memory}
      /\ o.ok => mouse'.current = mouse.current
      /\ script' = script
  <2>1. /\ undo' = undo /\ presses' = presses /\ start' = start
        /\ mouse' = o.mouse /\ mouse'.memory = mouse.memory
        /\ \/ mouse'.loaded = mouse.loaded
           \/ mouse'.loaded.content \in {Own, mouse.memory}
        /\ o.ok => mouse'.current = mouse.current
    BY <1>1, <1>2, <1>5 DEF Asked, Toggles, Turns, ContentOf
  <2>2. /\ script' = script
    BY <1>1
  <2> QED BY <2>1, <2>2
<1>8. /\ report' = "none" /\ failed' \in BOOLEAN /\ (failed => failed') /\ (~o.ok => failed')
      /\ o.ok => failed' = failed
      /\ o.ok => step' = "name"
      /\ ~o.ok => step' = "put_back"
  BY <1>1, <1>2, <1>6 DEF Go
<1>9. TestTypes' /\ (Calm' => Calm /\ o.cost = 0)
  <2>1. script' \in Scripts /\ step' \in Steps /\ failed' \in BOOLEAN
    BY <1>2, <1>7, <1>8 DEF Steps
  <2>2. o.effect # "live"
    BY <1>5, OutcomeFields DEF Toggles, Turns
  <2> QED BY <2>1, <2>2, <1>1, <1>2, <1>6, <1>8, Asking
<1>10. PlaceInv'
  BY <1>2, <1>7, <1>8 DEF SelfTestInv, PlaceInv
<1>11. CountInv'
  BY <1>2, <1>7, <1>8 DEF SelfTestInv, CountInv
<1>12. MemoryInv'
  BY <1>2, <1>7, <1>8, KindsOf DEF SelfTestInv, MemoryInv
<1>13. UndoInv'
  BY <1>2, <1>7, <1>8 DEF SelfTestInv, UndoInv
<1>14. UseInv'
  BY <1>2, <1>7, <1>8, KindsOf, <1>4 DEF SelfTestInv, UseInv, MemoryInv
<1>15. ReportInv'
  <2>1. failed => failed'
    BY <1>2, <1>8
  <2>2. TRUE /\ ~o.ok => failed'
    BY <1>2, <1>8
  <2>3. report' \in {"none", "error"} /\ step' # "compare"
    BY <1>8
  <2>4. "enable" \notin {"put_back", "restore", "compare"}
    OBVIOUS
  <2> QED BY <2>1, <2>2, <2>3, <2>4, <1>1, <1>2, <1>6, Reporting, Zenon
<1>16. ASSUME Calm' PROVE /\ Calm /\ failed' = FALSE /\ step' = "name" /\ ~mouse'.torn
                          /\ mouse'.current = mouse.current
                          /\ mouse'.on = mouse.on \cup {script.number}
  <2>1. /\ Sound /\ Calm /\ presses = 0 /\ presses' = 0 /\ mouse.onboard /\ mouse.spellable
        /\ o.cost = 0 /\ ~mouse.torn /\ mouse.memory # Torn
    BY <1>7, <1>9, <1>16 DEF SelfTestInv, CalmInv, Calm, Sound
  <2>2. script.number \notin mouse.on
    BY <1>2, <2>1 DEF SelfTestInv, CalmInv, Chosen
  <2>3. ~Refused(script.number, TRUE)
    BY <2>1, <2>2 DEF Refused
  <2>4. o.ok
    BY <1>5, <2>1, <2>3 DEF Toggles
  <2> QED BY <1>5, <1>7, <1>8, <2>1, <2>4 DEF Sound, Toggles, Directory
<1>17. ASSUME Calm' PROVE Sound'
  <2>1. Sound
    BY <1>16, <1>17 DEF SelfTestInv, CalmInv
  <2> QED BY <1>2, <1>7, <1>8, <1>16, <1>17, <2>1 DEF Sound, Calm
<1>18. ASSUME Calm' PROVE Chosen'
  BY <1>2, <1>7, <1>8, <1>16, <1>18 DEF SelfTestInv, CalmInv, Chosen
<1>19. ASSUME Calm' PROVE Depth'
  BY <1>2, <1>7, <1>8, <1>16, <1>19 DEF SelfTestInv, CalmInv, Depth
<1>20. ASSUME Calm' PROVE Taken'
  BY <1>2, <1>7, <1>8, <1>16, <1>20 DEF SelfTestInv, CalmInv, Taken
<1>21. ASSUME Calm' PROVE InUseAsWritten'
  BY <1>2, <1>7, <1>8, <1>16, <1>21 DEF SelfTestInv, CalmInv, InUseAsWritten
<1> QED BY <1>9, <1>10, <1>11, <1>12, <1>13, <1>14, <1>15, <1>17, <1>18, <1>19, <1>20, <1>21
        DEF SelfTestInv, CalmInv

LEMMA NameKeeps == ASSUME SelfTestInv, Name PROVE SelfTestInv'
<1> USE DEF SetsUp, Phases, Using, Running, Ending, Early, Homed, Written
<1>1. PICK o \in Apply(Content("named", 0)) :
          /\ Asked(o, "name", TRUE)
          /\ UNCHANGED script
          /\ IF o.ok THEN Go("begin", TRUE) ELSE Go("put_back", FALSE)
  BY Zenon DEF Name, Ask, Asked
<1>2. /\ step = "name" /\ Ready /\ report = "none" /\ script \in Scripts
      /\ failed \in BOOLEAN /\ start \in Mice /\ TRUE \in BOOLEAN
  BY <1>1, TestReady DEF Asked
<1>3. /\ Content("named", 0) \in Contents
      /\ Content("named", 0).kind = "named" /\ Content("named", 0).n = 0
      /\ ~IsScrambled(Content("named", 0))
  BY ContentsWritten, ContentOfKind DEF IsScrambled
<1>4. /\ Torn.kind = "torn" /\ ~IsScrambled(Torn) /\ mouse.memory \in Contents
      /\ undo \in Seq(Contents) /\ mouse \in Mice
  BY <1>2, KindsOf, MouseFields DEF Ready
<1>5. Applied(o, Content("named", 0))
  BY <1>2, <1>3, ApplyIs, Zenon
<1>6. /\ o.mouse \in Mice /\ o.undo \in Seq(Contents) /\ o.ok \in BOOLEAN /\ o.cost \in Nat
      /\ o.mouse.onboard = mouse.onboard /\ o.mouse.spellable = mouse.spellable
  BY <1>2, <1>5, OutcomeFields DEF Applied, Rewrites, Same
<1>7. /\ undo' \in {undo, Append(undo, mouse.memory)} /\ presses' = presses /\ start' = start
      /\ mouse'.memory \in {mouse.memory, Torn, Content("named", 0)}
      /\ o.ok => mouse'.memory = Content("named", 0)
      /\ mouse'.on = mouse.on /\ mouse'.torn = mouse.torn
      /\ presses = 0 => mouse'.current = mouse.current /\ mouse'.loaded = mouse.loaded
      /\ script' = script
  <2>1. /\ undo' \in {undo, Append(undo, mouse.memory)} /\ presses' = presses /\ start' = start
        /\ mouse'.memory \in {mouse.memory, Torn, Content("named", 0)}
        /\ o.ok => mouse'.memory = Content("named", 0)
        /\ mouse'.on = mouse.on /\ mouse'.torn = mouse.torn
        /\ presses = 0 => mouse'.current = mouse.current /\ mouse'.loaded = mouse.loaded
    BY <1>1, <1>2, <1>5 DEF Asked, Applied, Rewrites, Same, SelfTestInv, UseInv
  <2>2. script' = script
    BY <1>1
  <2> QED BY <2>1, <2>2
<1>8. /\ report' = "none" /\ failed' \in BOOLEAN /\ (failed => failed') /\ (~o.ok => failed')
      /\ o.ok => failed' = failed /\ step' = "begin"
      /\ ~o.ok => step' = "put_back"
  BY <1>1, <1>2, <1>6, <1>7 DEF Go, Result, Loop, End
<1>9. Pushed(undo, undo', mouse.memory)
  <2>1. undo' \in {undo, Append(undo, mouse.memory)}
    BY <1>7
  <2> QED BY <2>1, <1>4, PushIs, Zenon
<1>10. TestTypes' /\ (Calm' => Calm /\ o.cost = 0)
  <2>1. script' \in Scripts /\ step' \in Steps /\ failed' \in BOOLEAN
    BY <1>2, <1>7, <1>8 DEF Steps
  <2>2. o.effect # "live"
    BY <1>5, OutcomeFields DEF Applied, Rewrites
  <2> QED BY <2>1, <2>2, <1>1, <1>2, <1>6, <1>8, Asking
<1>11. PlaceInv'
  BY <1>2, <1>7, <1>8 DEF SelfTestInv, PlaceInv
<1>12. CountInv'
  BY <1>2, <1>7, <1>8 DEF SelfTestInv, CountInv
<1>13. MemoryInv'
  BY <1>2, <1>7, <1>8, <1>3, <1>4 DEF SelfTestInv, MemoryInv
<1>14. UndoInv'
  BY <1>2, <1>7, <1>8, <1>3, <1>4, <1>9 DEF SelfTestInv, UndoInv, MemoryInv, Pushed
<1>15. UseInv'
  BY <1>2, <1>7, <1>8, <1>3, <1>4 DEF SelfTestInv, UseInv, MemoryInv
<1>16. ReportInv'
  <2>1. failed => failed'
    BY <1>2, <1>8
  <2>2. TRUE /\ ~o.ok => failed'
    BY <1>2, <1>8
  <2>3. report' \in {"none", "error"} /\ step' # "compare"
    BY <1>8
  <2>4. "name" \notin {"put_back", "restore", "compare"}
    OBVIOUS
  <2> QED BY <2>1, <2>2, <2>3, <2>4, <1>1, <1>2, <1>6, Reporting, Zenon
<1>17. ASSUME Calm' PROVE /\ Calm /\ failed' = FALSE /\ mouse'.memory = Content("named", 0)
                          /\ step' = "begin"
  <2>1. /\ Sound /\ Calm /\ o.cost = 0 /\ presses = 0 /\ presses' = 0
        /\ mouse.onboard /\ mouse.spellable
    BY <1>7, <1>10, <1>17 DEF SelfTestInv, CalmInv, Calm
  <2>2. mouse.current # script.number
    BY <1>2, <2>1 DEF SelfTestInv, UseInv
  <2>3. Smooth(o, Content("named", 0))
    BY <1>5, <2>1 DEF Applied, Sound
  <2>4. o.ok
    BY <2>3 DEF Smooth
  <2> QED BY <1>1, <1>7, <1>8, <2>1, <2>4 DEF Sound
<1>18. ASSUME Calm' PROVE Sound'
  <2>1. Sound
    BY <1>17, <1>18 DEF SelfTestInv, CalmInv
  <2>2. mouse'.memory # Torn
    BY <1>7, <1>17, <1>18, <1>3, <1>4, <2>1 DEF Sound
  <2>3. \A j \in 1..Len(undo') : undo'[j] # Torn
    BY <1>9, <2>1 DEF Sound, Pushed
  <2> QED BY <1>2, <1>7, <1>8, <1>17, <1>18, <2>1, <2>2, <2>3 DEF Sound, Calm
<1>19. ASSUME Calm' PROVE Chosen'
  BY <1>2, <1>7, <1>8, <1>17, <1>19, <1>3, <1>4 DEF SelfTestInv, CalmInv, Chosen
<1>20. ASSUME Calm' PROVE Depth'
  BY <1>2, <1>7, <1>8, <1>17, <1>20, <1>3, <1>4, <1>9 DEF SelfTestInv, CalmInv, Depth, Pushed
<1>21. ASSUME Calm' PROVE Taken'
  BY <1>2, <1>7, <1>8, <1>17, <1>21, <1>3, <1>4, <1>9 DEF SelfTestInv, CalmInv, Taken, Pushed
<1>22. ASSUME Calm' PROVE InUseAsWritten'
  BY <1>2, <1>7, <1>8, <1>17, <1>22, <1>3, <1>4 DEF SelfTestInv, CalmInv, InUseAsWritten
<1> QED BY <1>10, <1>11, <1>12, <1>13, <1>14, <1>15, <1>16, <1>18, <1>19, <1>20, <1>21, <1>22
        DEF SelfTestInv, CalmInv

LEMMA BeginKeeps == ASSUME SelfTestInv, Begin PROVE SelfTestInv'
<1> USE DEF SetsUp, Phases, Using, Running, Ending, Early, Homed, Written
<1>1. PICK o \in ReadState :
          /\ Asked(o, "begin", FALSE)
          /\ script' = [script EXCEPT !.snapshot = mouse.memory,
                                    !.off = IF mouse.on = StoredProfile THEN NONE
                                            ELSE Min(StoredProfile \ mouse.on)]
          /\ Result(o, "bindings", TRUE)
  BY Zenon DEF Begin, Ask, Asked
<1>2. /\ step = "begin" /\ Ready /\ report = "none" /\ script \in Scripts
      /\ failed \in BOOLEAN /\ start \in Mice /\ FALSE \in BOOLEAN
  BY <1>1, TestReady DEF Asked
<1> DEFINE off == IF mouse.on = StoredProfile THEN NONE ELSE Min(StoredProfile \ mouse.on)
<1>3. /\ off \in 0..ProfileCount /\ mouse.memory \in Contents
      /\ off = NONE \/ off \notin mouse.on
  <2>1. mouse \in Mice /\ mouse.memory \in Contents /\ mouse.on \subseteq StoredProfile
    BY <1>2, MouseFields DEF Ready
  <2>2. CASE mouse.on = StoredProfile
    BY <2>1, <2>2, TestNumbers DEF NONE
  <2>3. CASE mouse.on # StoredProfile
    <3>1. StoredProfile \ mouse.on # {}
      BY <2>1, <2>3, Zenon
    <3>2. StoredProfile \ mouse.on \in SUBSET Nat
      BY TestNumbers DEF StoredProfile
    <3>3. Min(StoredProfile \ mouse.on) \in StoredProfile \ mouse.on
      BY <3>1, <3>2, LeastIsOne
    <3> QED BY <2>1, <2>3, <3>3, TestNumbers DEF StoredProfile
  <2> QED BY <2>2, <2>3
<1> HIDE DEF off
<1>4. Reads(o)
  BY <1>1, <1>2, ReadStateIs
<1>5. /\ o.mouse \in Mice /\ o.undo \in Seq(Contents) /\ o.ok \in BOOLEAN /\ o.cost \in Nat
      /\ o.mouse.onboard = mouse.onboard /\ o.mouse.spellable = mouse.spellable
  BY <1>2, <1>4, OutcomeFields DEF Reads, Ready
<1>6. /\ mouse' = mouse /\ undo' = undo /\ presses' = presses /\ start' = start
      /\ script' \in Scripts
      /\ script'.number = script.number
      /\ script'.home = script.home
      /\ script'.off = off
      /\ script'.i = script.i
      /\ script'.last_undo = script.last_undo
      /\ script'.snapshot = mouse.memory
      /\ script'.written = script.written
      /\ script'.undone = script.undone
  <2>1. mouse' = mouse /\ undo' = undo /\ presses' = presses /\ start' = start
    BY <1>1, <1>2, <1>4 DEF Asked, Reads
  <2>2. script' \in Scripts
        /\ script'.number = script.number
        /\ script'.home = script.home
        /\ script'.off = off
        /\ script'.i = script.i
        /\ script'.last_undo = script.last_undo
        /\ script'.snapshot = mouse.memory
        /\ script'.written = script.written
        /\ script'.undone = script.undone
    <3>1. script' = [script EXCEPT !.snapshot = mouse.memory, !.off = off]
      BY <1>1 DEF off
    <3>2. Memo(script', script.number, script.home, off, script.i, script.last_undo,
               mouse.memory, script.written, script.undone)
      BY <1>2, <1>3, <3>1, BeginMemo
    <3> QED BY <3>2 DEF Memo
  <2> QED BY <2>1, <2>2
<1>7. /\ report' = "none" /\ failed' \in BOOLEAN /\ (failed => failed') /\ (~o.ok => failed')
      /\ o.ok => failed' = failed
      /\ o.ok => step' = "bindings"
      /\ ~o.ok => step' = "home"
  BY <1>1, <1>2, <1>5 DEF Result, Go
<1>8. TestTypes' /\ (Calm' => Calm /\ o.cost = 0)
  <2>1. script' \in Scripts /\ step' \in Steps /\ failed' \in BOOLEAN
    BY <1>2, <1>6, <1>7 DEF Steps
  <2>2. o.effect # "live"
    BY <1>4, OutcomeFields DEF Reads
  <2> QED BY <2>1, <2>2, <1>1, <1>2, <1>5, <1>7, Asking
<1>9. PlaceInv'
  BY <1>2, <1>6, <1>7 DEF SelfTestInv, PlaceInv
<1>10. CountInv'
  BY <1>2, <1>6, <1>7, TestNumbers DEF SelfTestInv, CountInv
<1>11. MemoryInv'
  BY <1>2, <1>6, <1>7 DEF SelfTestInv, MemoryInv
<1>12. UndoInv'
  BY <1>2, <1>6, <1>7 DEF SelfTestInv, UndoInv
<1>13. UseInv'
  BY <1>2, <1>6, <1>7 DEF SelfTestInv, UseInv
<1>14. ReportInv'
  <2>1. failed => failed'
    BY <1>2, <1>7
  <2>2. FALSE /\ ~o.ok => failed'
    BY <1>2, <1>7
  <2>3. report' \in {"none", "error"} /\ step' # "compare"
    BY <1>7
  <2>4. "begin" \notin {"put_back", "restore", "compare"}
    OBVIOUS
  <2> QED BY <2>1, <2>2, <2>3, <2>4, <1>1, <1>2, <1>5, Reporting, Zenon
<1>15. ASSUME Calm' PROVE /\ Calm /\ failed' = FALSE /\ step' = "bindings"
                          /\ mouse.memory = Content("named", 0) /\ mouse.memory.kind = "named"
  <2>1. /\ Sound /\ Calm /\ presses = 0 /\ presses' = 0 /\ mouse.onboard /\ mouse.spellable
    BY <1>6, <1>8, <1>15 DEF SelfTestInv, CalmInv, Calm
  <2>2. o.ok
    BY <1>4, <1>8, <1>15, <2>1 DEF Sound, Reads
  <2>3. mouse.memory = Content("named", 0)
    BY <1>2, <2>1 DEF SelfTestInv, CalmInv, Depth
  <2> QED BY <1>6, <1>7, <2>1, <2>2, <2>3, ContentOfKind DEF Sound
<1>16. ASSUME Calm' PROVE Sound'
  BY <1>2, <1>6, <1>7, <1>15, <1>16 DEF SelfTestInv, CalmInv, Sound
<1>17. ASSUME Calm' PROVE Chosen'
  BY <1>2, <1>6, <1>7, <1>15, <1>17, <1>3 DEF SelfTestInv, CalmInv, Chosen
<1>18. ASSUME Calm' PROVE Depth'
  BY <1>2, <1>6, <1>7, <1>15, <1>18, ContentOfKind DEF SelfTestInv, CalmInv, Depth, CountInv
<1>19. ASSUME Calm' PROVE Taken'
  BY <1>2, <1>6, <1>7, <1>15, <1>19 DEF SelfTestInv, CalmInv, Taken
<1>20. ASSUME Calm' PROVE InUseAsWritten'
  BY <1>2, <1>6, <1>7, <1>15, <1>20 DEF SelfTestInv, CalmInv, InUseAsWritten
<1> QED BY <1>8, <1>9, <1>10, <1>11, <1>12, <1>13, <1>14, <1>16, <1>17, <1>18, <1>19, <1>20
        DEF SelfTestInv, CalmInv

-----------------------------------------------------------------------------
(* The bindings, the refusals and the edits.                               *)
LEMMA BindingsPhaseKeeps == ASSUME SelfTestInv, BindingsPhase PROVE SelfTestInv'
<1> USE DEF SetsUp, Phases, Using, Running, Ending, Early, Homed, Written
<1>1. PICK o \in Apply(Content("bindings", script.i)) :
          /\ Asked(o, "bindings", TRUE)
          /\ script' = [Counted(Bindings) EXCEPT
                             !.last_undo = IF o.ok /\ o.effect # "none" THEN Len(o.undo) ELSE @]
          /\ Go(Loop(Bindings, "bindings", "reread"), o.ok /\ o.effect = "when_activated")
  BY Zenon DEF BindingsPhase, Ask, Asked
<1>2. /\ step = "bindings" /\ Ready /\ report = "none" /\ script \in Scripts
      /\ failed \in BOOLEAN /\ start \in Mice /\ TRUE \in BOOLEAN
  BY <1>1, TestReady DEF Asked
<1>3. /\ Content("bindings", script.i) \in Contents
      /\ Content("bindings", script.i).kind = "bindings"
      /\ Content("bindings", script.i).n = script.i
  BY <1>2, TestNumbers, ContentsWritten, ContentOfKind DEF SelfTestInv, CountInv
<1>4. /\ Torn.kind = "torn" /\ ~IsScrambled(Torn) /\ mouse.memory \in Contents
      /\ undo \in Seq(Contents) /\ mouse \in Mice
  BY <1>2, KindsOf, MouseFields DEF Ready
<1>5. Applied(o, Content("bindings", script.i))
  BY <1>2, <1>3, ApplyIs, Zenon
<1>6. /\ o.mouse \in Mice /\ o.undo \in Seq(Contents) /\ o.ok \in BOOLEAN /\ o.cost \in Nat
      /\ o.mouse.onboard = mouse.onboard /\ o.mouse.spellable = mouse.spellable
  BY <1>2, <1>5, OutcomeFields DEF Applied, Rewrites, Same
<1>7. /\ undo' \in {undo, Append(undo, mouse.memory)} /\ presses' = presses /\ start' = start
      /\ mouse'.memory \in {mouse.memory, Torn, Content("bindings", script.i)}
      /\ o.ok => mouse'.memory = Content("bindings", script.i)
      /\ mouse'.on = mouse.on /\ mouse'.torn = mouse.torn
      /\ presses = 0 => mouse'.current = mouse.current /\ mouse'.loaded = mouse.loaded
      /\ script' \in Scripts
      /\ script'.number = script.number
      /\ script'.home = script.home
      /\ script'.off = script.off
      /\ script'.i = Following(script.i, Bindings)
      /\ script'.last_undo = (IF o.ok /\ o.effect # "none" THEN Len(o.undo) ELSE script.last_undo)
      /\ script'.snapshot = script.snapshot
      /\ script'.written = script.written
      /\ script'.undone = script.undone
  <2>1. /\ undo' \in {undo, Append(undo, mouse.memory)} /\ presses' = presses /\ start' = start
        /\ mouse'.memory \in {mouse.memory, Torn, Content("bindings", script.i)}
        /\ o.ok => mouse'.memory = Content("bindings", script.i)
        /\ mouse'.on = mouse.on /\ mouse'.torn = mouse.torn
        /\ presses = 0 => mouse'.current = mouse.current /\ mouse'.loaded = mouse.loaded
    BY <1>1, <1>2, <1>5 DEF Asked, Applied, Rewrites, Same, SelfTestInv, UseInv
  <2>2. script' \in Scripts
        /\ script'.number = script.number
        /\ script'.home = script.home
        /\ script'.off = script.off
        /\ script'.i = Following(script.i, Bindings)
        /\ script'.last_undo = (IF o.ok /\ o.effect # "none" THEN Len(o.undo) ELSE script.last_undo)
        /\ script'.snapshot = script.snapshot
        /\ script'.written = script.written
        /\ script'.undone = script.undone
    <3> DEFINE next == IF o.ok /\ o.effect # "none" THEN Len(o.undo) ELSE script.last_undo
    <3>1. /\ Counted(Bindings) \in Scripts
          /\ Memo(Counted(Bindings), script.number, script.home, script.off,
                  Following(script.i, Bindings), script.last_undo, script.snapshot,
                  script.written, script.undone)
      BY <1>2, TestNumbers, CountedMemo DEF Memo
    <3>2. Counted(Bindings).last_undo = script.last_undo
      BY <3>1 DEF Memo
    <3>3. script' = [Counted(Bindings) EXCEPT !.last_undo = next]
      BY <1>1, <3>2
    <3>4. next \in Nat
      BY <1>2, <1>6, ScriptFields
    <3> HIDE DEF next
    <3>5. Memo(script', Counted(Bindings).number, Counted(Bindings).home, Counted(Bindings).off,
               Counted(Bindings).i, next, Counted(Bindings).snapshot, Counted(Bindings).written,
               Counted(Bindings).undone)
      BY <3>1, <3>3, <3>4, DepthMemo
    <3> QED BY <3>1, <3>5 DEF Memo, next
  <2> QED BY <2>1, <2>2
<1>8. /\ report' = "none" /\ failed' \in BOOLEAN /\ (failed => failed') /\ (~o.ok => failed')
      /\ o.ok /\ o.effect = "when_activated" => failed' = failed
      /\ step' = IF script.i < Bindings THEN "bindings" ELSE "reread"
  BY <1>1, <1>2, <1>6, <1>7 DEF Go, Result, Loop, End
<1>9. Pushed(undo, undo', mouse.memory)
  <2>1. undo' \in {undo, Append(undo, mouse.memory)}
    BY <1>7
  <2> QED BY <2>1, <1>4, PushIs, Zenon
<1>10. TestTypes' /\ (Calm' => Calm /\ o.cost = 0)
  <2>1. script' \in Scripts /\ step' \in Steps /\ failed' \in BOOLEAN
    BY <1>2, <1>7, <1>8 DEF Steps
  <2>2. o.effect # "live"
    BY <1>5, OutcomeFields DEF Applied, Rewrites
  <2> QED BY <2>1, <2>2, <1>1, <1>2, <1>6, <1>8, Asking
<1>11. PlaceInv'
  BY <1>2, <1>7, <1>8 DEF SelfTestInv, PlaceInv
<1>12. CountInv'
  BY <1>2, <1>7, <1>8, TestNumbers DEF SelfTestInv, CountInv, Following
<1>13. MemoryInv'
  BY <1>2, <1>7, <1>8, <1>3, <1>4 DEF SelfTestInv, MemoryInv
<1>14. UndoInv'
  BY <1>2, <1>7, <1>8, <1>3, <1>4, <1>9 DEF SelfTestInv, UndoInv, MemoryInv, Pushed
<1>15. UseInv'
  BY <1>2, <1>7, <1>8, <1>3, <1>4 DEF SelfTestInv, UseInv
<1>16. ReportInv'
  <2>1. failed => failed'
    BY <1>2, <1>8
  <2>2. TRUE /\ ~o.ok => failed'
    BY <1>2, <1>8
  <2>3. report' \in {"none", "error"} /\ step' # "compare"
    BY <1>8
  <2>4. "bindings" \notin {"put_back", "restore", "compare"}
    OBVIOUS
  <2> QED BY <2>1, <2>2, <2>3, <2>4, <1>1, <1>2, <1>6, Reporting, Zenon
<1>17. ASSUME Calm' PROVE /\ Calm /\ failed' = FALSE /\ undo' = Append(undo, mouse.memory)
                          /\ mouse'.memory = Content("bindings", script.i)
                          /\ script'.last_undo = Len(undo') /\ Len(undo') = Len(undo) + 1
  <2>1. /\ Sound /\ Calm /\ o.cost = 0 /\ presses = 0 /\ presses' = 0
        /\ mouse.onboard /\ mouse.spellable
    BY <1>7, <1>10, <1>17 DEF SelfTestInv, CalmInv, Calm
  <2>2. mouse.current # script.number
    BY <1>2, <2>1 DEF SelfTestInv, UseInv
  <2>3. Smooth(o, Content("bindings", script.i))
    BY <1>5, <2>1 DEF Applied, Sound
  <2>4. mouse.memory # Content("bindings", script.i)
    BY <1>2, <1>3, <2>1, ScriptFields DEF SelfTestInv, CalmInv, Depth
  <2>5. o.ok /\ o.effect = "when_activated"
    BY <2>2, <2>3, <2>4 DEF Smooth
  <2>6. undo' = Append(undo, mouse.memory)
    BY <1>1, <1>5, <2>4, <2>5 DEF Applied, Asked
  <2>7. Len(undo') = Len(undo) + 1
    BY <1>4, <2>6, PushIs
  <2> QED BY <1>1, <1>7, <1>8, <2>1, <2>5, <2>6, <2>7 DEF Sound, Asked
<1>18. ASSUME Calm' PROVE Sound'
  <2>1. Sound
    BY <1>17, <1>18 DEF SelfTestInv, CalmInv
  <2>2. mouse'.memory # Torn
    BY <1>7, <1>17, <1>18, <1>3, <1>4, <2>1 DEF Sound
  <2>3. \A j \in 1..Len(undo') : undo'[j] # Torn
    BY <1>9, <2>1 DEF Sound, Pushed
  <2> QED BY <1>2, <1>7, <1>8, <1>17, <1>18, <2>1, <2>2, <2>3 DEF Sound, Calm
<1>19. ASSUME Calm' PROVE Chosen'
  BY <1>2, <1>7, <1>8, <1>17, <1>19, <1>3, <1>4 DEF SelfTestInv, CalmInv, Chosen
<1>20. ASSUME Calm' PROVE Depth'
  BY <1>2, <1>7, <1>8, <1>17, <1>20, ScriptFields, TestNumbers, <1>3, <1>4, <1>9
     DEF SelfTestInv, CalmInv, Depth, Following, Pushed
<1>21. ASSUME Calm' PROVE Taken'
  BY <1>2, <1>7, <1>8, <1>17, <1>21, <1>3, <1>4, <1>9 DEF SelfTestInv, CalmInv, Taken, Pushed
<1>22. ASSUME Calm' PROVE InUseAsWritten'
  BY <1>2, <1>7, <1>8, <1>17, <1>22, <1>3, <1>4 DEF SelfTestInv, CalmInv, InUseAsWritten
<1> QED BY <1>10, <1>11, <1>12, <1>13, <1>14, <1>15, <1>16, <1>18, <1>19, <1>20, <1>21, <1>22
        DEF SelfTestInv, CalmInv

LEMMA RereadKeeps == ASSUME SelfTestInv, Reread PROVE SelfTestInv'
<1> USE DEF SetsUp, Phases, Using, Running, Ending, Early, Homed, Written
<1>1. PICK o \in ReadState :
          /\ Asked(o, "reread", FALSE)
          /\ UNCHANGED script
          /\ Result(o, "probe", TRUE)
  BY Zenon DEF Reread, Ask, Asked
<1>2. /\ step = "reread" /\ Ready /\ report = "none" /\ script \in Scripts
      /\ failed \in BOOLEAN /\ start \in Mice /\ FALSE \in BOOLEAN
  BY <1>1, TestReady DEF Asked
<1>3. Reads(o)
  BY <1>1, <1>2, ReadStateIs
<1>4. /\ o.mouse \in Mice /\ o.undo \in Seq(Contents) /\ o.ok \in BOOLEAN /\ o.cost \in Nat
      /\ o.mouse.onboard = mouse.onboard /\ o.mouse.spellable = mouse.spellable
  BY <1>2, <1>3, OutcomeFields DEF Reads, Ready
<1>5. mouse' = mouse /\ undo' = undo /\ presses' = presses /\ start' = start
      /\ script' = script
  BY <1>1, <1>2, <1>3 DEF Asked, Reads
<1>6. /\ report' = "none"
      /\ \/ /\ o.ok /\ step' = "probe" /\ failed' \in BOOLEAN /\ (failed => failed')
            /\ TRUE => failed' = failed
         \/ ~o.ok /\ step' = "home" /\ failed' = TRUE
  BY <1>1, <1>2, <1>4 DEF Result, Go
<1>7. TestTypes' /\ (Calm' => Calm /\ o.cost = 0)
  <2>1. script' \in Scripts /\ step' \in Steps /\ failed' \in BOOLEAN
    BY <1>2, <1>5, <1>6 DEF Steps
  <2>2. o.effect # "live"
    BY <1>3, OutcomeFields DEF Reads
  <2> QED BY <2>1, <2>2, <1>1, <1>2, <1>4, <1>6, Asking
<1>8. PlaceInv'
  BY <1>2, <1>5, <1>6 DEF SelfTestInv, PlaceInv
<1>9. CountInv'
  BY <1>2, <1>5, <1>6 DEF SelfTestInv, CountInv
<1>10. MemoryInv'
  BY <1>2, <1>5, <1>6 DEF SelfTestInv, MemoryInv
<1>11. UndoInv'
  BY <1>2, <1>5, <1>6 DEF SelfTestInv, UndoInv
<1>12. UseInv'
  BY <1>2, <1>5, <1>6 DEF SelfTestInv, UseInv, MemoryInv
<1>13. ReportInv'
  <2>1. failed => failed'
    BY <1>2, <1>6
  <2>2. FALSE /\ ~o.ok => failed'
    BY <1>2, <1>6
  <2>3. report' \in {"none", "error"} /\ step' # "compare"
    BY <1>6
  <2>4. "reread" \notin {"put_back", "restore", "compare"}
    OBVIOUS
  <2> QED BY <2>1, <2>2, <2>3, <2>4, <1>1, <1>2, <1>4, Reporting, Zenon
<1>14. ASSUME Calm' PROVE step' = "probe" /\ Calm /\ failed' = FALSE
  BY <1>2, <1>3, <1>4, <1>6, <1>7, <1>14, <1>5 DEF SelfTestInv, CalmInv, Sound, Reads
<1>15. ASSUME Calm' PROVE Sound'
  BY <1>2, <1>5, <1>6, <1>14, <1>15 DEF SelfTestInv, CalmInv, Sound
<1>16. ASSUME Calm' PROVE Chosen'
  BY <1>2, <1>5, <1>6, <1>14, <1>16 DEF SelfTestInv, CalmInv, Chosen
<1>17. ASSUME Calm' PROVE Depth'
  BY <1>2, <1>5, <1>6, <1>14, <1>17 DEF SelfTestInv, CalmInv, Depth
<1>18. ASSUME Calm' PROVE Taken'
  BY <1>2, <1>5, <1>6, <1>14, <1>18 DEF SelfTestInv, CalmInv, Taken
<1>19. ASSUME Calm' PROVE InUseAsWritten'
  BY <1>2, <1>5, <1>6, <1>14, <1>19 DEF SelfTestInv, CalmInv, InUseAsWritten
<1> QED BY <1>7, <1>8, <1>9, <1>10, <1>11, <1>12, <1>13, <1>15, <1>16, <1>17, <1>18, <1>19
        DEF SelfTestInv, CalmInv

LEMMA ProbeKeeps == ASSUME SelfTestInv, Probe PROVE SelfTestInv'
<1> USE DEF SetsUp, Phases, Using, Running, Ending, Early, Homed, Written
<1>1. PICK o \in {Fails(mouse, 0)} \cup Apply(Content("probe", 0)) :
          /\ Asked(o, "probe", FALSE)
          /\ UNCHANGED script
          /\ Go(IF o.ok THEN "undo_probe" ELSE "refusals", TRUE)
  BY Zenon DEF Probe, Ask, Asked
<1>2. /\ step = "probe" /\ Ready /\ report = "none" /\ script \in Scripts
      /\ failed \in BOOLEAN /\ start \in Mice /\ FALSE \in BOOLEAN
  BY <1>1, TestReady DEF Asked
<1>3. /\ Content("probe", 0) \in Contents
      /\ Content("probe", 0).kind = "probe" /\ Content("probe", 0).n = 0
  BY ContentsWritten, ContentOfKind
<1>4. /\ Torn.kind = "torn" /\ ~IsScrambled(Torn) /\ mouse.memory \in Contents
      /\ undo \in Seq(Contents) /\ mouse \in Mice
  BY <1>2, KindsOf, MouseFields DEF Ready
<1>5. Maybe(o, Content("probe", 0))
  BY <1>2, <1>3, MaybeIs, Zenon
<1>6. /\ o.mouse \in Mice /\ o.undo \in Seq(Contents) /\ o.ok \in BOOLEAN /\ o.cost \in Nat
      /\ o.mouse.onboard = mouse.onboard /\ o.mouse.spellable = mouse.spellable
  BY <1>2, <1>5, OutcomeFields DEF Maybe, Rewrites, Same
<1>7. /\ undo' \in {undo, Append(undo, mouse.memory)} /\ presses' = presses /\ start' = start
      /\ mouse'.memory \in {mouse.memory, Torn, Content("probe", 0)}
      /\ o.ok => mouse'.memory = Content("probe", 0)
      /\ mouse'.on = mouse.on /\ mouse'.torn = mouse.torn
      /\ presses = 0 => mouse'.current = mouse.current /\ mouse'.loaded = mouse.loaded
      /\ script' = script
  <2>1. /\ undo' \in {undo, Append(undo, mouse.memory)} /\ presses' = presses /\ start' = start
        /\ mouse'.memory \in {mouse.memory, Torn, Content("probe", 0)}
        /\ o.ok => mouse'.memory = Content("probe", 0)
        /\ mouse'.on = mouse.on /\ mouse'.torn = mouse.torn
        /\ presses = 0 => mouse'.current = mouse.current /\ mouse'.loaded = mouse.loaded
    BY <1>1, <1>2, <1>5 DEF Asked, Maybe, Rewrites, Same, SelfTestInv, UseInv
  <2>2. script' = script
    BY <1>1
  <2> QED BY <2>1, <2>2
<1>8. /\ report' = "none" /\ failed' = failed
      /\ step' = IF o.ok THEN "undo_probe" ELSE "refusals"
  BY <1>1, <1>2, <1>6, <1>7 DEF Go, Result, Loop, End
<1>9. Pushed(undo, undo', mouse.memory)
  <2>1. undo' \in {undo, Append(undo, mouse.memory)}
    BY <1>7
  <2> QED BY <2>1, <1>4, PushIs, Zenon
<1>10. TestTypes' /\ (Calm' => Calm /\ o.cost = 0)
  <2>1. script' \in Scripts /\ step' \in Steps /\ failed' \in BOOLEAN
    BY <1>2, <1>7, <1>8 DEF Steps
  <2>2. o.effect # "live"
    BY <1>5, OutcomeFields DEF Maybe, Rewrites
  <2> QED BY <2>1, <2>2, <1>1, <1>2, <1>6, <1>8, Asking
<1>11. PlaceInv'
  BY <1>2, <1>7, <1>8 DEF SelfTestInv, PlaceInv
<1>12. CountInv'
  BY <1>2, <1>7, <1>8 DEF SelfTestInv, CountInv
<1>13. MemoryInv'
  BY <1>2, <1>7, <1>8, <1>3, <1>4 DEF SelfTestInv, MemoryInv
<1>14. UndoInv'
  BY <1>2, <1>7, <1>8, <1>3, <1>4, <1>9 DEF SelfTestInv, UndoInv, MemoryInv, Pushed
<1>15. UseInv'
  BY <1>2, <1>7, <1>8, <1>3, <1>4 DEF SelfTestInv, UseInv
<1>16. ReportInv'
  <2>1. failed => failed'
    BY <1>2, <1>8
  <2>2. FALSE /\ ~o.ok => failed'
    BY <1>2, <1>8
  <2>3. report' \in {"none", "error"} /\ step' # "compare"
    BY <1>8
  <2>4. "probe" \notin {"put_back", "restore", "compare"}
    OBVIOUS
  <2> QED BY <2>1, <2>2, <2>3, <2>4, <1>1, <1>2, <1>6, Reporting, Zenon
<1>17. ASSUME Calm' PROVE /\ Calm /\ failed' = FALSE
                          /\ o.ok => undo' = Append(undo, mouse.memory)
                          /\ ~o.ok => undo' = undo /\ mouse'.memory = mouse.memory
  <2>1. /\ Sound /\ Calm /\ o.cost = 0 /\ presses = 0 /\ presses' = 0
        /\ mouse.onboard /\ mouse.spellable
    BY <1>7, <1>10, <1>17 DEF SelfTestInv, CalmInv, Calm
  <2>2. mouse.current # script.number
    BY <1>2, <2>1 DEF SelfTestInv, UseInv
  <2>3. Smooth(o, Content("probe", 0)) \/ (~o.ok /\ o.mouse = mouse /\ o.undo = undo)
    BY <1>5, <2>1 DEF Maybe, Sound
  <2>4. mouse.memory # Content("probe", 0)
    BY <1>2, <1>3, <2>1 DEF SelfTestInv, CalmInv, Depth
  <2>5. o.ok => o.undo = Append(undo, mouse.memory)
    BY <1>5, <2>4 DEF Maybe
  <2>6. ~o.ok => o.undo = undo /\ o.mouse = mouse
    BY <2>3 DEF Smooth
  <2> QED BY <1>1, <1>7, <1>8, <2>1, <2>5, <2>6 DEF Sound, Asked
<1>18. ASSUME Calm' PROVE Sound'
  <2>1. Sound
    BY <1>17, <1>18 DEF SelfTestInv, CalmInv
  <2>2. mouse'.memory # Torn
    BY <1>7, <1>17, <1>18, <1>3, <1>4, <2>1 DEF Sound
  <2>3. \A j \in 1..Len(undo') : undo'[j] # Torn
    BY <1>9, <2>1 DEF Sound, Pushed
  <2> QED BY <1>2, <1>7, <1>8, <1>17, <1>18, <2>1, <2>2, <2>3 DEF Sound, Calm
<1>19. ASSUME Calm' PROVE Chosen'
  BY <1>2, <1>7, <1>8, <1>17, <1>19, <1>3, <1>4 DEF SelfTestInv, CalmInv, Chosen
<1>20. ASSUME Calm' PROVE Depth'
  BY <1>2, <1>7, <1>8, <1>17, <1>20, <1>3, <1>4, <1>9 DEF SelfTestInv, CalmInv, Depth, Pushed
<1>21. ASSUME Calm' PROVE Taken'
  BY <1>2, <1>7, <1>8, <1>17, <1>21, <1>3, <1>4, <1>9 DEF SelfTestInv, CalmInv, Taken, Pushed
<1>22. ASSUME Calm' PROVE InUseAsWritten'
  BY <1>2, <1>7, <1>8, <1>17, <1>22, <1>3, <1>4 DEF SelfTestInv, CalmInv, InUseAsWritten
<1> QED BY <1>10, <1>11, <1>12, <1>13, <1>14, <1>15, <1>16, <1>18, <1>19, <1>20, <1>21, <1>22
        DEF SelfTestInv, CalmInv

LEMMA UndoProbeKeeps == ASSUME SelfTestInv, UndoProbe PROVE SelfTestInv'
<1> USE DEF SetsUp, Phases, Using, Running, Ending, Early, Homed, Written
<1>1. PICK o \in Undo :
          /\ Asked(o, "undo_probe", TRUE)
          /\ UNCHANGED script
          /\ Result(o, "refusals", TRUE)
  BY Zenon DEF UndoProbe, Ask, Asked
<1>2. /\ step = "undo_probe" /\ Ready /\ report = "none" /\ script \in Scripts
      /\ failed \in BOOLEAN /\ start \in Mice /\ TRUE \in BOOLEAN
  BY <1>1, TestReady DEF Asked
<1>3. undo # <<>> => /\ Last(undo) \in Contents /\ Last(undo) = undo[Len(undo)]
                     /\ Len(undo) \in Nat /\ Len(undo) > 0 /\ Len(undo) \in 1..Len(undo)
  BY <1>2, LatestIs DEF Ready
<1>4. /\ Torn.kind = "torn" /\ ~IsScrambled(Torn) /\ mouse.memory \in Contents
      /\ undo \in Seq(Contents) /\ mouse \in Mice
  BY <1>2, KindsOf, MouseFields DEF Ready
<1>5. Undoes(o)
  BY <1>2, UndoIs, Zenon
<1>6. /\ o.mouse \in Mice /\ o.undo \in Seq(Contents) /\ o.ok \in BOOLEAN /\ o.cost \in Nat
      /\ o.mouse.onboard = mouse.onboard /\ o.mouse.spellable = mouse.spellable
  BY <1>2, <1>5, OutcomeFields DEF Undoes, Rewrites, Same
<1>7. /\ undo' = undo \/ (undo # <<>> /\ undo' = Front(undo))
      /\ presses' = presses /\ start' = start
      /\ mouse'.memory \in {mouse.memory, Torn} \/ (undo # <<>> /\ mouse'.memory = Last(undo))
      /\ o.ok => undo # <<>> /\ mouse'.memory = Last(undo) /\ undo' = Front(undo)
      /\ mouse'.on = mouse.on /\ mouse'.torn = mouse.torn
      /\ presses = 0 => mouse'.current = mouse.current /\ mouse'.loaded = mouse.loaded
      /\ script' = script
  <2>1. /\ undo' = undo \/ (undo # <<>> /\ undo' = Front(undo))
        /\ presses' = presses /\ start' = start
        /\ mouse'.memory \in {mouse.memory, Torn} \/ (undo # <<>> /\ mouse'.memory = Last(undo))
        /\ o.ok => undo # <<>> /\ mouse'.memory = Last(undo) /\ undo' = Front(undo)
        /\ mouse'.on = mouse.on /\ mouse'.torn = mouse.torn
        /\ presses = 0 => mouse'.current = mouse.current /\ mouse'.loaded = mouse.loaded
    <3>1. mouse' = o.mouse /\ undo' = o.undo /\ presses' = presses /\ start' = start
      BY <1>1 DEF Asked
    <3>2. CASE undo = <<>>
      <4>1. o.mouse = mouse /\ o.undo = undo /\ ~o.ok
        BY <1>5, <3>2, Zenon DEF Undoes
      <4>2. mouse' = mouse /\ undo' = undo
        BY <3>1, <4>1, Zenon
      <4>3. mouse'.memory \in {mouse.memory, Torn} /\ mouse'.loaded.content = mouse.loaded.content
        BY <4>2
      <4> QED BY <3>1, <4>1, <4>2, <4>3, Zenon
    <3>3. CASE undo # <<>>
      <4>1. o.ok => o.mouse.memory = Last(undo) /\ o.undo = Front(undo)
        BY <1>5 DEF Undoes, Rewrites
      <4>2. o.undo \in {undo, Front(undo)} /\ o.mouse.memory \in {mouse.memory, Torn, Last(undo)}
        BY <1>5 DEF Undoes, Rewrites
      <4>3. o.mouse.on = mouse.on /\ o.mouse.torn = mouse.torn
        BY <1>5 DEF Undoes, Rewrites, Same
      <4>4. presses = 0 => o.mouse.current = mouse.current /\ o.mouse.loaded = mouse.loaded
        BY <1>2, <1>5 DEF Undoes, Rewrites, SelfTestInv, UseInv
      <4>5. mouse'.memory \in {mouse.memory, Torn} \/ mouse'.memory = Last(undo)
        BY <3>1, <4>2
      <4>6. undo' = undo \/ undo' = Front(undo)
        BY <3>1, <4>2
      <4> QED BY <3>1, <3>3, <4>1, <4>3, <4>4, <4>5, <4>6, Zenon
    <3> QED BY <3>2, <3>3
  <2>2. script' = script
    BY <1>1
  <2> QED BY <2>1, <2>2
<1>8. /\ report' = "none" /\ failed' \in BOOLEAN /\ (failed => failed') /\ (~o.ok => failed')
      /\ o.ok => failed' = failed
      /\ o.ok => step' = "refusals"
      /\ ~o.ok => step' = "home"
  BY <1>1, <1>2, <1>6, <1>7 DEF Go, Result
<1>9. Popped(undo, undo')
  <2>1. undo' = undo \/ (undo # <<>> /\ undo' = Front(undo))
    BY <1>7
  <2> QED BY <2>1, <1>4, PopIs, Zenon
<1>10. TestTypes' /\ (Calm' => Calm /\ o.cost = 0)
  <2>1. script' \in Scripts /\ step' \in Steps /\ failed' \in BOOLEAN
    BY <1>2, <1>7, <1>8 DEF Steps
  <2>2. o.effect # "live"
    BY <1>5, OutcomeFields DEF Undoes, Rewrites
  <2> QED BY <2>1, <2>2, <1>1, <1>2, <1>6, <1>8, Asking
<1>11. PlaceInv'
  BY <1>2, <1>7, <1>8 DEF SelfTestInv, PlaceInv
<1>12. CountInv'
  BY <1>2, <1>7, <1>8 DEF SelfTestInv, CountInv
<1>13. MemoryInv'
  BY <1>2, <1>7, <1>8, <1>3, <1>4 DEF SelfTestInv, MemoryInv, UndoInv
<1>14. UndoInv'
  BY <1>2, <1>7, <1>8, <1>3, <1>4, <1>9 DEF SelfTestInv, UndoInv, MemoryInv, Popped
<1>15. UseInv'
  BY <1>2, <1>7, <1>8, <1>3, <1>4 DEF SelfTestInv, UseInv
<1>16. ReportInv'
  <2>1. failed => failed'
    BY <1>2, <1>8
  <2>2. TRUE /\ ~o.ok => failed'
    BY <1>2, <1>8
  <2>3. report' \in {"none", "error"} /\ step' # "compare"
    BY <1>8
  <2>4. "undo_probe" \notin {"put_back", "restore", "compare"}
    OBVIOUS
  <2> QED BY <2>1, <2>2, <2>3, <2>4, <1>1, <1>2, <1>6, Reporting, Zenon
<1>17. ASSUME Calm' PROVE /\ Calm /\ failed' = FALSE /\ step' = "refusals"
                          /\ undo # <<>> /\ mouse'.memory = Last(undo) /\ Last(undo) # Torn
                          /\ Len(undo') = Len(undo) - 1
  <2>1. /\ Sound /\ Calm /\ o.cost = 0 /\ presses = 0 /\ presses' = 0
        /\ mouse.onboard /\ mouse.spellable
    BY <1>7, <1>10, <1>17 DEF SelfTestInv, CalmInv, Calm
  <2>2. mouse.current # script.number
    BY <1>2, <2>1 DEF SelfTestInv, UseInv
  <2>3. undo # <<>> => Smooth(o, Last(undo))
    BY <1>5, <2>1 DEF Undoes, Sound
  <2>4. Len(undo) = script.last_undo + 1
    BY <1>2, <2>1 DEF SelfTestInv, CalmInv, Depth
  <2>5. undo # <<>>
    BY <1>2, <2>4, ScriptFields
  <2>6. o.ok
    BY <2>3, <2>5 DEF Smooth
  <2>7. Len(undo') = Len(undo) - 1
    BY <1>7, <1>4, <2>6, PopIs
  <2> QED BY <1>7, <1>8, <1>3, <2>1, <2>5, <2>6, <2>7 DEF Sound
<1>18. ASSUME Calm' PROVE Sound'
  <2>1. Sound
    BY <1>17, <1>18 DEF SelfTestInv, CalmInv
  <2>2. undo # <<>> => Last(undo) # Torn
    BY <1>3, <2>1 DEF Sound
  <2>3. mouse'.memory # Torn
    BY <1>17, <1>18, <2>2
  <2>4. \A j \in 1..Len(undo') : undo'[j] # Torn
    BY <1>9, <2>1 DEF Sound, Popped
  <2> QED BY <1>2, <1>7, <1>8, <1>17, <1>18, <2>1, <2>3, <2>4 DEF Sound, Calm
<1>19. ASSUME Calm' PROVE Chosen'
  BY <1>2, <1>7, <1>8, <1>17, <1>19, <1>3, <1>4 DEF SelfTestInv, CalmInv, Chosen
<1>20. ASSUME Calm' PROVE Depth'
  BY <1>2, <1>7, <1>8, <1>17, <1>20, ScriptFields, <1>3, <1>4, <1>9
     DEF SelfTestInv, CalmInv, Depth, Popped
<1>21. ASSUME Calm' PROVE Taken'
  BY <1>2, <1>7, <1>8, <1>17, <1>21, <1>3, <1>4, <1>9 DEF SelfTestInv, CalmInv, Taken, Popped
<1>22. ASSUME Calm' PROVE InUseAsWritten'
  BY <1>2, <1>7, <1>8, <1>17, <1>22, <1>3, <1>4 DEF SelfTestInv, CalmInv, InUseAsWritten
<1> QED BY <1>10, <1>11, <1>12, <1>13, <1>14, <1>15, <1>16, <1>18, <1>19, <1>20, <1>21, <1>22
        DEF SelfTestInv, CalmInv

LEMMA RefusalsKeeps == ASSUME SelfTestInv, Refusals PROVE SelfTestInv'
<1> USE DEF SetsUp, Phases, Using, Running, Ending, Early, Homed, Written
<1>1. PICK o \in {Fails(mouse, 0), Fails(mouse, 1)} :
          /\ Asked(o, "refusals", FALSE)
          /\ UNCHANGED script
          /\ Go("unchanged", TRUE)
  BY Zenon DEF Refusals, Ask, Asked
<1>2. /\ step = "refusals" /\ Ready /\ report = "none" /\ script \in Scripts
      /\ failed \in BOOLEAN /\ start \in Mice /\ FALSE \in BOOLEAN
  BY <1>1, TestReady DEF Asked
<1>3. mouse \in Mice /\ 0 \in Nat /\ 1 \in Nat
  BY <1>2 DEF Ready, Effects
<1>4. o \in Outcomes /\ o.mouse = mouse /\ o.undo = undo
  <2>1. CASE o = Fails(mouse, 0)
    <3>1. /\ Fails(mouse, 0) \in Outcomes /\ Fails(mouse, 0).mouse = mouse
          /\ Fails(mouse, 0).undo = undo /\ Fails(mouse, 0).ok = FALSE
      BY <1>2, <1>3, FailsIs
    <3> QED BY <2>1, <3>1
  <2>2. CASE o = Fails(mouse, 1)
    <3>1. /\ Fails(mouse, 1) \in Outcomes /\ Fails(mouse, 1).mouse = mouse
          /\ Fails(mouse, 1).undo = undo /\ Fails(mouse, 1).cost = 1
      BY <1>2, <1>3, FailsIs
    <3> QED BY <2>2, <3>1
  <2> QED BY <1>1, <2>1, <2>2
<1>5. /\ o.mouse \in Mice /\ o.undo \in Seq(Contents) /\ o.ok \in BOOLEAN /\ o.cost \in Nat
      /\ o.mouse.onboard = mouse.onboard /\ o.mouse.spellable = mouse.spellable
  BY <1>2, <1>4, OutcomeFields DEF Ready
<1>6. mouse' = mouse /\ undo' = undo /\ presses' = presses /\ start' = start /\ script' = script
  BY <1>1, <1>4 DEF Asked
<1>7. /\ report' = "none" /\ failed' \in BOOLEAN /\ (failed => failed') /\ failed' = failed
      /\ step' = "unchanged"
  BY <1>1, <1>2 DEF Go
<1>8. TestTypes' /\ (Calm' => Calm /\ o.cost = 0)
  <2>1. script' \in Scripts /\ step' \in Steps /\ failed' \in BOOLEAN
    BY <1>2, <1>6, <1>7 DEF Steps
  <2>2. o.effect # "live"
    BY <1>4, OutcomeFields
  <2> QED BY <2>1, <2>2, <1>1, <1>2, <1>5, <1>7, Asking
<1>9. PlaceInv'
  BY <1>2, <1>6, <1>7 DEF SelfTestInv, PlaceInv
<1>10. CountInv'
  BY <1>2, <1>6, <1>7 DEF SelfTestInv, CountInv
<1>11. MemoryInv'
  BY <1>2, <1>6, <1>7 DEF SelfTestInv, MemoryInv
<1>12. UndoInv'
  BY <1>2, <1>6, <1>7 DEF SelfTestInv, UndoInv
<1>13. UseInv'
  BY <1>2, <1>6, <1>7 DEF SelfTestInv, UseInv
<1>14. ReportInv'
  <2>1. failed => failed'
    BY <1>2, <1>7
  <2>2. FALSE /\ ~o.ok => failed'
    BY <1>2, <1>7
  <2>3. report' \in {"none", "error"} /\ step' # "compare"
    BY <1>7
  <2>4. "refusals" \notin {"put_back", "restore", "compare"}
    OBVIOUS
  <2> QED BY <2>1, <2>2, <2>3, <2>4, <1>1, <1>2, <1>5, Reporting, Zenon
<1>15. ASSUME Calm' PROVE Calm /\ failed' = FALSE
  <2>1. /\ Sound /\ Calm /\ presses = 0 /\ presses' = 0 /\ mouse.onboard /\ mouse.spellable
        /\ o.cost = 0 /\ ~mouse.torn /\ mouse.memory # Torn
    BY <1>6, <1>8, <1>15 DEF SelfTestInv, CalmInv, Calm, Sound
  <2> QED BY <1>2, <1>7, <2>1 DEF Sound
<1>16. ASSUME Calm' PROVE Sound'
  <2>1. Sound
    BY <1>15, <1>16 DEF SelfTestInv, CalmInv
  <2> QED BY <1>2, <1>6, <1>7, <1>15, <1>16, <2>1 DEF Sound, Calm
<1>17. ASSUME Calm' PROVE Chosen'
  BY <1>2, <1>6, <1>7, <1>15, <1>17 DEF SelfTestInv, CalmInv, Chosen
<1>18. ASSUME Calm' PROVE Depth'
  BY <1>2, <1>6, <1>7, <1>15, <1>18 DEF SelfTestInv, CalmInv, Depth
<1>19. ASSUME Calm' PROVE Taken'
  BY <1>2, <1>6, <1>7, <1>15, <1>19 DEF SelfTestInv, CalmInv, Taken
<1>20. ASSUME Calm' PROVE InUseAsWritten'
  BY <1>2, <1>6, <1>7, <1>15, <1>20 DEF SelfTestInv, CalmInv, InUseAsWritten
<1> QED BY <1>8, <1>9, <1>10, <1>11, <1>12, <1>13, <1>14, <1>16, <1>17, <1>18, <1>19, <1>20
        DEF SelfTestInv, CalmInv

LEMMA UnchangedKeeps == ASSUME SelfTestInv, Unchanged PROVE SelfTestInv'
<1> USE DEF SetsUp, Phases, Using, Running, Ending, Early, Homed, Written
<1>1. PICK o \in Apply(mouse.memory) :
          /\ Asked(o, "unchanged", FALSE)
          /\ UNCHANGED script
          /\ Result(o, "edits", o.effect = "none" /\ Len(o.undo) = script.last_undo)
  BY Zenon DEF Unchanged, Ask, Asked
<1>2. /\ step = "unchanged" /\ Ready /\ report = "none" /\ script \in Scripts
      /\ failed \in BOOLEAN /\ start \in Mice /\ FALSE \in BOOLEAN
  BY <1>1, TestReady DEF Asked
<1>3. /\ mouse.memory \in Contents
  BY <1>2, MouseFields DEF Ready
<1>4. /\ Torn.kind = "torn" /\ ~IsScrambled(Torn) /\ mouse.memory \in Contents
      /\ undo \in Seq(Contents) /\ mouse \in Mice
  BY <1>2, KindsOf, MouseFields DEF Ready
<1>5. Applied(o, mouse.memory)
  BY <1>2, <1>3, ApplyIs, Zenon
<1>6. /\ o.mouse \in Mice /\ o.undo \in Seq(Contents) /\ o.ok \in BOOLEAN /\ o.cost \in Nat
      /\ o.mouse.onboard = mouse.onboard /\ o.mouse.spellable = mouse.spellable
  BY <1>2, <1>5, OutcomeFields DEF Applied, Rewrites, Same
<1>7. /\ undo' \in {undo, Append(undo, mouse.memory)} /\ presses' = presses /\ start' = start
      /\ mouse'.memory \in {mouse.memory, Torn, mouse.memory}
      /\ o.ok => mouse'.memory = mouse.memory
      /\ mouse'.on = mouse.on /\ mouse'.torn = mouse.torn
      /\ presses = 0 => mouse'.current = mouse.current /\ mouse'.loaded = mouse.loaded
      /\ script' = script
  <2>1. /\ undo' \in {undo, Append(undo, mouse.memory)} /\ presses' = presses /\ start' = start
        /\ mouse'.memory \in {mouse.memory, Torn, mouse.memory}
        /\ o.ok => mouse'.memory = mouse.memory
        /\ mouse'.on = mouse.on /\ mouse'.torn = mouse.torn
        /\ presses = 0 => mouse'.current = mouse.current /\ mouse'.loaded = mouse.loaded
    BY <1>1, <1>2, <1>5 DEF Asked, Applied, Rewrites, Same, SelfTestInv, UseInv
  <2>2. script' = script
    BY <1>1
  <2> QED BY <2>1, <2>2
<1>8. /\ report' = "none" /\ failed' \in BOOLEAN /\ (failed => failed') /\ (~o.ok => failed')
      /\ o.ok => step' = "edits"
      /\ o.ok /\ o.effect = "none" /\ Len(o.undo) = script.last_undo => failed' = failed
      /\ ~o.ok => step' = "home"
  BY <1>1, <1>2, <1>6, <1>7 DEF Go, Result, Loop, End
<1>9. Pushed(undo, undo', mouse.memory)
  <2>1. undo' \in {undo, Append(undo, mouse.memory)}
    BY <1>7
  <2> QED BY <2>1, <1>4, PushIs, Zenon
<1>10. TestTypes' /\ (Calm' => Calm /\ o.cost = 0)
  <2>1. script' \in Scripts /\ step' \in Steps /\ failed' \in BOOLEAN
    BY <1>2, <1>7, <1>8 DEF Steps
  <2>2. o.effect # "live"
    BY <1>5, OutcomeFields DEF Applied, Rewrites
  <2> QED BY <2>1, <2>2, <1>1, <1>2, <1>6, <1>8, Asking
<1>11. PlaceInv'
  BY <1>2, <1>7, <1>8 DEF SelfTestInv, PlaceInv
<1>12. CountInv'
  BY <1>2, <1>7, <1>8, TestNumbers DEF SelfTestInv, CountInv
<1>13. MemoryInv'
  BY <1>2, <1>7, <1>8, <1>3, <1>4 DEF SelfTestInv, MemoryInv
<1>14. UndoInv'
  BY <1>2, <1>7, <1>8, <1>3, <1>4, <1>9 DEF SelfTestInv, UndoInv, MemoryInv, Pushed
<1>15. UseInv'
  BY <1>2, <1>7, <1>8, <1>3, <1>4 DEF SelfTestInv, UseInv
<1>16. ReportInv'
  <2>1. failed => failed'
    BY <1>2, <1>8
  <2>2. FALSE /\ ~o.ok => failed'
    BY <1>2, <1>8
  <2>3. report' \in {"none", "error"} /\ step' # "compare"
    BY <1>8
  <2>4. "unchanged" \notin {"put_back", "restore", "compare"}
    OBVIOUS
  <2> QED BY <2>1, <2>2, <2>3, <2>4, <1>1, <1>2, <1>6, Reporting, Zenon
<1>17. ASSUME Calm' PROVE /\ Calm /\ failed' = FALSE /\ mouse' = mouse /\ undo' = undo
                          /\ step' = "edits"
  <2>1. /\ Sound /\ Calm /\ o.cost = 0 /\ presses = 0 /\ presses' = 0
        /\ mouse.onboard /\ mouse.spellable
    BY <1>7, <1>10, <1>17 DEF SelfTestInv, CalmInv, Calm
  <2>2. mouse.current # script.number
    BY <1>2, <2>1 DEF SelfTestInv, UseInv
  <2>3. Smooth(o, mouse.memory)
    BY <1>5, <2>1 DEF Applied, Sound
  <2>4. o.ok /\ o.effect = "none" /\ o.mouse = mouse
    BY <2>3 DEF Smooth
  <2>5. o.undo = undo
    BY <1>5, <2>4 DEF Applied
  <2>6. Len(o.undo) = script.last_undo
    BY <1>2, <2>1, <2>5 DEF SelfTestInv, CalmInv, Depth
  <2> QED BY <1>1, <1>7, <1>8, <2>1, <2>4, <2>5, <2>6 DEF Sound, Asked
<1>18. ASSUME Calm' PROVE Sound'
  <2>1. Sound
    BY <1>17, <1>18 DEF SelfTestInv, CalmInv
  <2>2. mouse'.memory # Torn
    BY <1>7, <1>17, <1>18, <1>3, <1>4, <2>1 DEF Sound
  <2>3. \A j \in 1..Len(undo') : undo'[j] # Torn
    BY <1>9, <2>1 DEF Sound, Pushed
  <2> QED BY <1>2, <1>7, <1>8, <1>17, <1>18, <2>1, <2>2, <2>3 DEF Sound, Calm
<1>19. ASSUME Calm' PROVE Chosen'
  BY <1>2, <1>7, <1>8, <1>17, <1>19, <1>3, <1>4 DEF SelfTestInv, CalmInv, Chosen
<1>20. ASSUME Calm' PROVE Depth'
  BY <1>2, <1>7, <1>8, <1>17, <1>20, <1>3, <1>4, <1>9 DEF SelfTestInv, CalmInv, Depth, Pushed
<1>21. ASSUME Calm' PROVE Taken'
  BY <1>2, <1>7, <1>8, <1>17, <1>21, <1>3, <1>4, <1>9 DEF SelfTestInv, CalmInv, Taken, Pushed
<1>22. ASSUME Calm' PROVE InUseAsWritten'
  BY <1>2, <1>7, <1>8, <1>17, <1>22, <1>3, <1>4 DEF SelfTestInv, CalmInv, InUseAsWritten
<1> QED BY <1>10, <1>11, <1>12, <1>13, <1>14, <1>15, <1>16, <1>18, <1>19, <1>20, <1>21, <1>22
        DEF SelfTestInv, CalmInv

LEMMA EditsPhaseKeeps == ASSUME SelfTestInv, EditsPhase PROVE SelfTestInv'
<1> USE DEF SetsUp, Phases, Using, Running, Ending, Early, Homed, Written
<1>1. PICK o \in Apply(Content("edit", script.i)) :
          /\ Asked(o, "edits", TRUE)
          /\ script' = Counted(Edits)
          /\ Go(Loop(Edits, "edits", "reread_edits"), o.ok)
  BY Zenon DEF EditsPhase, Ask, Asked
<1>2. /\ step = "edits" /\ Ready /\ report = "none" /\ script \in Scripts
      /\ failed \in BOOLEAN /\ start \in Mice /\ TRUE \in BOOLEAN
  BY <1>1, TestReady DEF Asked
<1>3. /\ Content("edit", script.i) \in Contents
      /\ Content("edit", script.i).kind = "edit" /\ Content("edit", script.i).n = script.i
  BY <1>2, TestNumbers, ContentsWritten, ContentOfKind DEF SelfTestInv, CountInv
<1>4. /\ Torn.kind = "torn" /\ ~IsScrambled(Torn) /\ mouse.memory \in Contents
      /\ undo \in Seq(Contents) /\ mouse \in Mice
  BY <1>2, KindsOf, MouseFields DEF Ready
<1>5. Applied(o, Content("edit", script.i))
  BY <1>2, <1>3, ApplyIs, Zenon
<1>6. /\ o.mouse \in Mice /\ o.undo \in Seq(Contents) /\ o.ok \in BOOLEAN /\ o.cost \in Nat
      /\ o.mouse.onboard = mouse.onboard /\ o.mouse.spellable = mouse.spellable
  BY <1>2, <1>5, OutcomeFields DEF Applied, Rewrites, Same
<1>7. /\ undo' \in {undo, Append(undo, mouse.memory)} /\ presses' = presses /\ start' = start
      /\ mouse'.memory \in {mouse.memory, Torn, Content("edit", script.i)}
      /\ o.ok => mouse'.memory = Content("edit", script.i)
      /\ mouse'.on = mouse.on /\ mouse'.torn = mouse.torn
      /\ presses = 0 => mouse'.current = mouse.current /\ mouse'.loaded = mouse.loaded
      /\ script' \in Scripts
      /\ script'.number = script.number
      /\ script'.home = script.home
      /\ script'.off = script.off
      /\ script'.i = Following(script.i, Edits)
      /\ script'.last_undo = script.last_undo
      /\ script'.snapshot = script.snapshot
      /\ script'.written = script.written
      /\ script'.undone = script.undone
  <2>1. /\ undo' \in {undo, Append(undo, mouse.memory)} /\ presses' = presses /\ start' = start
        /\ mouse'.memory \in {mouse.memory, Torn, Content("edit", script.i)}
        /\ o.ok => mouse'.memory = Content("edit", script.i)
        /\ mouse'.on = mouse.on /\ mouse'.torn = mouse.torn
        /\ presses = 0 => mouse'.current = mouse.current /\ mouse'.loaded = mouse.loaded
    BY <1>1, <1>2, <1>5 DEF Asked, Applied, Rewrites, Same, SelfTestInv, UseInv
  <2>2. script' \in Scripts
        /\ script'.number = script.number
        /\ script'.home = script.home
        /\ script'.off = script.off
        /\ script'.i = Following(script.i, Edits)
        /\ script'.last_undo = script.last_undo
        /\ script'.snapshot = script.snapshot
        /\ script'.written = script.written
        /\ script'.undone = script.undone
    <3>1. Memo(script', script.number, script.home, script.off,
               Following(script.i, Edits), script.last_undo, script.snapshot,
               script.written, script.undone)
      BY <1>1, <1>2, TestNumbers, CountedMemo
    <3> QED BY <3>1 DEF Memo
  <2> QED BY <2>1, <2>2
<1>8. /\ report' = "none" /\ failed' \in BOOLEAN /\ (failed => failed') /\ (~o.ok => failed')
      /\ o.ok => failed' = failed
      /\ step' = IF script.i < Edits THEN "edits" ELSE "reread_edits"
  BY <1>1, <1>2, <1>6, <1>7 DEF Go, Result, Loop, End
<1>9. Pushed(undo, undo', mouse.memory)
  <2>1. undo' \in {undo, Append(undo, mouse.memory)}
    BY <1>7
  <2> QED BY <2>1, <1>4, PushIs, Zenon
<1>10. TestTypes' /\ (Calm' => Calm /\ o.cost = 0)
  <2>1. script' \in Scripts /\ step' \in Steps /\ failed' \in BOOLEAN
    BY <1>2, <1>7, <1>8 DEF Steps
  <2>2. o.effect # "live"
    BY <1>5, OutcomeFields DEF Applied, Rewrites
  <2> QED BY <2>1, <2>2, <1>1, <1>2, <1>6, <1>8, Asking
<1>11. PlaceInv'
  BY <1>2, <1>7, <1>8 DEF SelfTestInv, PlaceInv
<1>12. CountInv'
  BY <1>2, <1>7, <1>8, TestNumbers DEF SelfTestInv, CountInv, Following
<1>13. MemoryInv'
  BY <1>2, <1>7, <1>8, <1>3, <1>4 DEF SelfTestInv, MemoryInv
<1>14. UndoInv'
  BY <1>2, <1>7, <1>8, <1>3, <1>4, <1>9 DEF SelfTestInv, UndoInv, MemoryInv, Pushed
<1>15. UseInv'
  BY <1>2, <1>7, <1>8, <1>3, <1>4 DEF SelfTestInv, UseInv
<1>16. ReportInv'
  <2>1. failed => failed'
    BY <1>2, <1>8
  <2>2. TRUE /\ ~o.ok => failed'
    BY <1>2, <1>8
  <2>3. report' \in {"none", "error"} /\ step' # "compare"
    BY <1>8
  <2>4. "edits" \notin {"put_back", "restore", "compare"}
    OBVIOUS
  <2> QED BY <2>1, <2>2, <2>3, <2>4, <1>1, <1>2, <1>6, Reporting, Zenon
<1>17. ASSUME Calm' PROVE /\ Calm /\ failed' = FALSE /\ mouse'.memory = Content("edit", script.i)
  <2>1. /\ Sound /\ Calm /\ o.cost = 0 /\ presses = 0 /\ presses' = 0
        /\ mouse.onboard /\ mouse.spellable
    BY <1>7, <1>10, <1>17 DEF SelfTestInv, CalmInv, Calm
  <2>2. mouse.current # script.number
    BY <1>2, <2>1 DEF SelfTestInv, UseInv
  <2>3. Smooth(o, Content("edit", script.i))
    BY <1>5, <2>1 DEF Applied, Sound
  <2>4. o.ok
    BY <2>3 DEF Smooth
  <2> QED BY <1>1, <1>7, <1>8, <2>1, <2>4 DEF Sound
<1>18. ASSUME Calm' PROVE Sound'
  <2>1. Sound
    BY <1>17, <1>18 DEF SelfTestInv, CalmInv
  <2>2. mouse'.memory # Torn
    BY <1>7, <1>17, <1>18, <1>3, <1>4, <2>1 DEF Sound
  <2>3. \A j \in 1..Len(undo') : undo'[j] # Torn
    BY <1>9, <2>1 DEF Sound, Pushed
  <2> QED BY <1>2, <1>7, <1>8, <1>17, <1>18, <2>1, <2>2, <2>3 DEF Sound, Calm
<1>19. ASSUME Calm' PROVE Chosen'
  BY <1>2, <1>7, <1>8, <1>17, <1>19, <1>3, <1>4 DEF SelfTestInv, CalmInv, Chosen
<1>20. ASSUME Calm' PROVE Depth'
  BY <1>2, <1>7, <1>8, <1>17, <1>20, <1>3, <1>4, <1>9 DEF SelfTestInv, CalmInv, Depth, Pushed
<1>21. ASSUME Calm' PROVE Taken'
  BY <1>2, <1>7, <1>8, <1>17, <1>21, <1>3, <1>4, <1>9 DEF SelfTestInv, CalmInv, Taken, Pushed
<1>22. ASSUME Calm' PROVE InUseAsWritten'
  BY <1>2, <1>7, <1>8, <1>17, <1>22, <1>3, <1>4 DEF SelfTestInv, CalmInv, InUseAsWritten
<1> QED BY <1>10, <1>11, <1>12, <1>13, <1>14, <1>15, <1>16, <1>18, <1>19, <1>20, <1>21, <1>22
        DEF SelfTestInv, CalmInv

LEMMA RereadEditsKeeps == ASSUME SelfTestInv, RereadEdits PROVE SelfTestInv'
<1> USE DEF SetsUp, Phases, Using, Running, Ending, Early, Homed, Written
<1>1. PICK o \in ReadState :
          /\ Asked(o, "reread_edits", FALSE)
          /\ UNCHANGED script
          /\ Result(o, "unsorted", TRUE)
  BY Zenon DEF RereadEdits, Ask, Asked
<1>2. /\ step = "reread_edits" /\ Ready /\ report = "none" /\ script \in Scripts
      /\ failed \in BOOLEAN /\ start \in Mice /\ FALSE \in BOOLEAN
  BY <1>1, TestReady DEF Asked
<1>3. Reads(o)
  BY <1>1, <1>2, ReadStateIs
<1>4. /\ o.mouse \in Mice /\ o.undo \in Seq(Contents) /\ o.ok \in BOOLEAN /\ o.cost \in Nat
      /\ o.mouse.onboard = mouse.onboard /\ o.mouse.spellable = mouse.spellable
  BY <1>2, <1>3, OutcomeFields DEF Reads, Ready
<1>5. mouse' = mouse /\ undo' = undo /\ presses' = presses /\ start' = start
      /\ script' = script
  BY <1>1, <1>2, <1>3 DEF Asked, Reads
<1>6. /\ report' = "none"
      /\ \/ /\ o.ok /\ step' = "unsorted" /\ failed' \in BOOLEAN /\ (failed => failed')
            /\ TRUE => failed' = failed
         \/ ~o.ok /\ step' = "home" /\ failed' = TRUE
  BY <1>1, <1>2, <1>4 DEF Result, Go
<1>7. TestTypes' /\ (Calm' => Calm /\ o.cost = 0)
  <2>1. script' \in Scripts /\ step' \in Steps /\ failed' \in BOOLEAN
    BY <1>2, <1>5, <1>6 DEF Steps
  <2>2. o.effect # "live"
    BY <1>3, OutcomeFields DEF Reads
  <2> QED BY <2>1, <2>2, <1>1, <1>2, <1>4, <1>6, Asking
<1>8. PlaceInv'
  BY <1>2, <1>5, <1>6 DEF SelfTestInv, PlaceInv
<1>9. CountInv'
  BY <1>2, <1>5, <1>6 DEF SelfTestInv, CountInv
<1>10. MemoryInv'
  BY <1>2, <1>5, <1>6 DEF SelfTestInv, MemoryInv
<1>11. UndoInv'
  BY <1>2, <1>5, <1>6 DEF SelfTestInv, UndoInv
<1>12. UseInv'
  BY <1>2, <1>5, <1>6 DEF SelfTestInv, UseInv, MemoryInv
<1>13. ReportInv'
  <2>1. failed => failed'
    BY <1>2, <1>6
  <2>2. FALSE /\ ~o.ok => failed'
    BY <1>2, <1>6
  <2>3. report' \in {"none", "error"} /\ step' # "compare"
    BY <1>6
  <2>4. "reread_edits" \notin {"put_back", "restore", "compare"}
    OBVIOUS
  <2> QED BY <2>1, <2>2, <2>3, <2>4, <1>1, <1>2, <1>4, Reporting, Zenon
<1>14. ASSUME Calm' PROVE step' = "unsorted" /\ Calm /\ failed' = FALSE
  BY <1>2, <1>3, <1>4, <1>6, <1>7, <1>14, <1>5 DEF SelfTestInv, CalmInv, Sound, Reads
<1>15. ASSUME Calm' PROVE Sound'
  BY <1>2, <1>5, <1>6, <1>14, <1>15 DEF SelfTestInv, CalmInv, Sound
<1>16. ASSUME Calm' PROVE Chosen'
  BY <1>2, <1>5, <1>6, <1>14, <1>16 DEF SelfTestInv, CalmInv, Chosen
<1>17. ASSUME Calm' PROVE Depth'
  BY <1>2, <1>5, <1>6, <1>14, <1>17 DEF SelfTestInv, CalmInv, Depth
<1>18. ASSUME Calm' PROVE Taken'
  BY <1>2, <1>5, <1>6, <1>14, <1>18 DEF SelfTestInv, CalmInv, Taken
<1>19. ASSUME Calm' PROVE InUseAsWritten'
  BY <1>2, <1>5, <1>6, <1>14, <1>19 DEF SelfTestInv, CalmInv, InUseAsWritten
<1> QED BY <1>7, <1>8, <1>9, <1>10, <1>11, <1>12, <1>13, <1>15, <1>16, <1>17, <1>18, <1>19
        DEF SelfTestInv, CalmInv

LEMMA UnsortedKeeps == ASSUME SelfTestInv, Unsorted PROVE SelfTestInv'
<1> USE DEF SetsUp, Phases, Using, Running, Ending, Early, Homed, Written
<1>1. PICK o \in {Fails(mouse, 0)} \cup Apply(Content("edit", 0)) :
          /\ Asked(o, "unsorted", FALSE)
          /\ UNCHANGED script
          /\ Go("names", TRUE)
  BY Zenon DEF Unsorted, Ask, Asked
<1>2. /\ step = "unsorted" /\ Ready /\ report = "none" /\ script \in Scripts
      /\ failed \in BOOLEAN /\ start \in Mice /\ FALSE \in BOOLEAN
  BY <1>1, TestReady DEF Asked
<1>3. /\ Content("edit", 0) \in Contents
      /\ Content("edit", 0).kind = "edit" /\ Content("edit", 0).n = 0
  BY TestNumbers, ContentsWritten, ContentOfKind
<1>4. /\ Torn.kind = "torn" /\ ~IsScrambled(Torn) /\ mouse.memory \in Contents
      /\ undo \in Seq(Contents) /\ mouse \in Mice
  BY <1>2, KindsOf, MouseFields DEF Ready
<1>5. Maybe(o, Content("edit", 0))
  BY <1>2, <1>3, MaybeIs, Zenon
<1>6. /\ o.mouse \in Mice /\ o.undo \in Seq(Contents) /\ o.ok \in BOOLEAN /\ o.cost \in Nat
      /\ o.mouse.onboard = mouse.onboard /\ o.mouse.spellable = mouse.spellable
  BY <1>2, <1>5, OutcomeFields DEF Maybe, Rewrites, Same
<1>7. /\ undo' \in {undo, Append(undo, mouse.memory)} /\ presses' = presses /\ start' = start
      /\ mouse'.memory \in {mouse.memory, Torn, Content("edit", 0)}
      /\ o.ok => mouse'.memory = Content("edit", 0)
      /\ mouse'.on = mouse.on /\ mouse'.torn = mouse.torn
      /\ presses = 0 => mouse'.current = mouse.current /\ mouse'.loaded = mouse.loaded
      /\ script' = script
  <2>1. /\ undo' \in {undo, Append(undo, mouse.memory)} /\ presses' = presses /\ start' = start
        /\ mouse'.memory \in {mouse.memory, Torn, Content("edit", 0)}
        /\ o.ok => mouse'.memory = Content("edit", 0)
        /\ mouse'.on = mouse.on /\ mouse'.torn = mouse.torn
        /\ presses = 0 => mouse'.current = mouse.current /\ mouse'.loaded = mouse.loaded
    BY <1>1, <1>2, <1>5 DEF Asked, Maybe, Rewrites, Same, SelfTestInv, UseInv
  <2>2. script' = script
    BY <1>1
  <2> QED BY <2>1, <2>2
<1>8. report' = "none" /\ failed' = failed /\ step' = "names"
  BY <1>1, <1>2, <1>6, <1>7 DEF Go, Result, Loop, End
<1>9. Pushed(undo, undo', mouse.memory)
  <2>1. undo' \in {undo, Append(undo, mouse.memory)}
    BY <1>7
  <2> QED BY <2>1, <1>4, PushIs, Zenon
<1>10. TestTypes' /\ (Calm' => Calm /\ o.cost = 0)
  <2>1. script' \in Scripts /\ step' \in Steps /\ failed' \in BOOLEAN
    BY <1>2, <1>7, <1>8 DEF Steps
  <2>2. o.effect # "live"
    BY <1>5, OutcomeFields DEF Maybe, Rewrites
  <2> QED BY <2>1, <2>2, <1>1, <1>2, <1>6, <1>8, Asking
<1>11. PlaceInv'
  BY <1>2, <1>7, <1>8 DEF SelfTestInv, PlaceInv
<1>12. CountInv'
  BY <1>2, <1>7, <1>8 DEF SelfTestInv, CountInv
<1>13. MemoryInv'
  BY <1>2, <1>7, <1>8, <1>3, <1>4 DEF SelfTestInv, MemoryInv
<1>14. UndoInv'
  BY <1>2, <1>7, <1>8, <1>3, <1>4, <1>9 DEF SelfTestInv, UndoInv, MemoryInv, Pushed
<1>15. UseInv'
  BY <1>2, <1>7, <1>8, <1>3, <1>4 DEF SelfTestInv, UseInv
<1>16. ReportInv'
  <2>1. failed => failed'
    BY <1>2, <1>8
  <2>2. FALSE /\ ~o.ok => failed'
    BY <1>2, <1>8
  <2>3. report' \in {"none", "error"} /\ step' # "compare"
    BY <1>8
  <2>4. "unsorted" \notin {"put_back", "restore", "compare"}
    OBVIOUS
  <2> QED BY <2>1, <2>2, <2>3, <2>4, <1>1, <1>2, <1>6, Reporting, Zenon
<1>17. ASSUME Calm' PROVE /\ Calm /\ failed' = FALSE
                          /\ mouse'.memory # Torn /\ mouse'.memory.kind # "undo"
  <2>1. /\ Sound /\ Calm /\ o.cost = 0 /\ presses = 0 /\ presses' = 0
        /\ mouse.onboard /\ mouse.spellable
    BY <1>7, <1>10, <1>17 DEF SelfTestInv, CalmInv, Calm
  <2>2. mouse.current # script.number
    BY <1>2, <2>1 DEF SelfTestInv, UseInv
  <2>3. Smooth(o, Content("edit", 0)) \/ (~o.ok /\ o.mouse = mouse /\ o.undo = undo)
    BY <1>5, <2>1 DEF Maybe, Sound
  <2>4. o.ok => mouse'.memory = Content("edit", 0)
    BY <1>7
  <2>5. ~o.ok => mouse'.memory = mouse.memory
    BY <1>1, <2>3 DEF Smooth, Asked
  <2>6. mouse.memory # Torn /\ mouse.memory.kind # "undo"
    BY <1>2, <2>1 DEF SelfTestInv, CalmInv, Sound, Taken
  <2> QED BY <1>6, <1>8, <1>3, <1>4, <2>1, <2>4, <2>5, <2>6 DEF Sound
<1>18. ASSUME Calm' PROVE Sound'
  <2>1. Sound
    BY <1>17, <1>18 DEF SelfTestInv, CalmInv
  <2>2. mouse'.memory # Torn
    BY <1>7, <1>17, <1>18, <1>3, <1>4, <2>1 DEF Sound
  <2>3. \A j \in 1..Len(undo') : undo'[j] # Torn
    BY <1>9, <2>1 DEF Sound, Pushed
  <2> QED BY <1>2, <1>7, <1>8, <1>17, <1>18, <2>1, <2>2, <2>3 DEF Sound, Calm
<1>19. ASSUME Calm' PROVE Chosen'
  BY <1>2, <1>7, <1>8, <1>17, <1>19, <1>3, <1>4 DEF SelfTestInv, CalmInv, Chosen
<1>20. ASSUME Calm' PROVE Depth'
  BY <1>2, <1>7, <1>8, <1>17, <1>20, <1>3, <1>4, <1>9 DEF SelfTestInv, CalmInv, Depth, Pushed
<1>21. ASSUME Calm' PROVE Taken'
  BY <1>2, <1>7, <1>8, <1>17, <1>21, <1>3, <1>4, <1>9 DEF SelfTestInv, CalmInv, Taken, Pushed
<1>22. ASSUME Calm' PROVE InUseAsWritten'
  BY <1>2, <1>7, <1>8, <1>17, <1>22, <1>3, <1>4 DEF SelfTestInv, CalmInv, InUseAsWritten
<1> QED BY <1>10, <1>11, <1>12, <1>13, <1>14, <1>15, <1>16, <1>18, <1>19, <1>20, <1>21, <1>22
        DEF SelfTestInv, CalmInv

LEMMA NamesKeeps == ASSUME SelfTestInv, Names PROVE SelfTestInv'
<1> USE DEF SetsUp, Phases, Using, Running, Ending, Early, Homed, Written
<1>1. PICK o \in Apply(Content("edit", Edits + 1)) :
          /\ Asked(o, "names", TRUE)
          /\ UNCHANGED script
          /\ Go("before", o.ok)
  BY Zenon DEF Names, Ask, Asked
<1>2. /\ step = "names" /\ Ready /\ report = "none" /\ script \in Scripts
      /\ failed \in BOOLEAN /\ start \in Mice /\ TRUE \in BOOLEAN
  BY <1>1, TestReady DEF Asked
<1>3. /\ Content("edit", Edits + 1) \in Contents
      /\ Content("edit", Edits + 1).kind = "edit" /\ Content("edit", Edits + 1).n = Edits + 1
  BY TestNumbers, ContentsWritten, ContentOfKind
<1>4. /\ Torn.kind = "torn" /\ ~IsScrambled(Torn) /\ mouse.memory \in Contents
      /\ undo \in Seq(Contents) /\ mouse \in Mice
  BY <1>2, KindsOf, MouseFields DEF Ready
<1>5. Applied(o, Content("edit", Edits + 1))
  BY <1>2, <1>3, ApplyIs, Zenon
<1>6. /\ o.mouse \in Mice /\ o.undo \in Seq(Contents) /\ o.ok \in BOOLEAN /\ o.cost \in Nat
      /\ o.mouse.onboard = mouse.onboard /\ o.mouse.spellable = mouse.spellable
  BY <1>2, <1>5, OutcomeFields DEF Applied, Rewrites, Same
<1>7. /\ undo' \in {undo, Append(undo, mouse.memory)} /\ presses' = presses /\ start' = start
      /\ mouse'.memory \in {mouse.memory, Torn, Content("edit", Edits + 1)}
      /\ o.ok => mouse'.memory = Content("edit", Edits + 1)
      /\ mouse'.on = mouse.on /\ mouse'.torn = mouse.torn
      /\ presses = 0 => mouse'.current = mouse.current /\ mouse'.loaded = mouse.loaded
      /\ script' = script
  <2>1. /\ undo' \in {undo, Append(undo, mouse.memory)} /\ presses' = presses /\ start' = start
        /\ mouse'.memory \in {mouse.memory, Torn, Content("edit", Edits + 1)}
        /\ o.ok => mouse'.memory = Content("edit", Edits + 1)
        /\ mouse'.on = mouse.on /\ mouse'.torn = mouse.torn
        /\ presses = 0 => mouse'.current = mouse.current /\ mouse'.loaded = mouse.loaded
    BY <1>1, <1>2, <1>5 DEF Asked, Applied, Rewrites, Same, SelfTestInv, UseInv
  <2>2. script' = script
    BY <1>1
  <2> QED BY <2>1, <2>2
<1>8. /\ report' = "none" /\ failed' \in BOOLEAN /\ (failed => failed') /\ (~o.ok => failed')
      /\ o.ok => failed' = failed
      /\ step' = "before"
  BY <1>1, <1>2, <1>6, <1>7 DEF Go, Result, Loop, End
<1>9. Pushed(undo, undo', mouse.memory)
  <2>1. undo' \in {undo, Append(undo, mouse.memory)}
    BY <1>7
  <2> QED BY <2>1, <1>4, PushIs, Zenon
<1>10. TestTypes' /\ (Calm' => Calm /\ o.cost = 0)
  <2>1. script' \in Scripts /\ step' \in Steps /\ failed' \in BOOLEAN
    BY <1>2, <1>7, <1>8 DEF Steps
  <2>2. o.effect # "live"
    BY <1>5, OutcomeFields DEF Applied, Rewrites
  <2> QED BY <2>1, <2>2, <1>1, <1>2, <1>6, <1>8, Asking
<1>11. PlaceInv'
  BY <1>2, <1>7, <1>8 DEF SelfTestInv, PlaceInv
<1>12. CountInv'
  BY <1>2, <1>7, <1>8 DEF SelfTestInv, CountInv
<1>13. MemoryInv'
  BY <1>2, <1>7, <1>8, <1>3, <1>4 DEF SelfTestInv, MemoryInv
<1>14. UndoInv'
  BY <1>2, <1>7, <1>8, <1>3, <1>4, <1>9 DEF SelfTestInv, UndoInv, MemoryInv, Pushed
<1>15. UseInv'
  BY <1>2, <1>7, <1>8, <1>3, <1>4 DEF SelfTestInv, UseInv
<1>16. ReportInv'
  <2>1. failed => failed'
    BY <1>2, <1>8
  <2>2. TRUE /\ ~o.ok => failed'
    BY <1>2, <1>8
  <2>3. report' \in {"none", "error"} /\ step' # "compare"
    BY <1>8
  <2>4. "names" \notin {"put_back", "restore", "compare"}
    OBVIOUS
  <2> QED BY <2>1, <2>2, <2>3, <2>4, <1>1, <1>2, <1>6, Reporting, Zenon
<1>17. ASSUME Calm' PROVE /\ Calm /\ failed' = FALSE /\ mouse'.memory = Content("edit", Edits + 1)
  <2>1. /\ Sound /\ Calm /\ o.cost = 0 /\ presses = 0 /\ presses' = 0
        /\ mouse.onboard /\ mouse.spellable
    BY <1>7, <1>10, <1>17 DEF SelfTestInv, CalmInv, Calm
  <2>2. mouse.current # script.number
    BY <1>2, <2>1 DEF SelfTestInv, UseInv
  <2>3. Smooth(o, Content("edit", Edits + 1))
    BY <1>5, <2>1 DEF Applied, Sound
  <2>4. o.ok
    BY <2>3 DEF Smooth
  <2> QED BY <1>1, <1>7, <1>8, <2>1, <2>4 DEF Sound
<1>18. ASSUME Calm' PROVE Sound'
  <2>1. Sound
    BY <1>17, <1>18 DEF SelfTestInv, CalmInv
  <2>2. mouse'.memory # Torn
    BY <1>7, <1>17, <1>18, <1>3, <1>4, <2>1 DEF Sound
  <2>3. \A j \in 1..Len(undo') : undo'[j] # Torn
    BY <1>9, <2>1 DEF Sound, Pushed
  <2> QED BY <1>2, <1>7, <1>8, <1>17, <1>18, <2>1, <2>2, <2>3 DEF Sound, Calm
<1>19. ASSUME Calm' PROVE Chosen'
  BY <1>2, <1>7, <1>8, <1>17, <1>19, <1>3, <1>4 DEF SelfTestInv, CalmInv, Chosen
<1>20. ASSUME Calm' PROVE Depth'
  BY <1>2, <1>7, <1>8, <1>17, <1>20, <1>3, <1>4, <1>9 DEF SelfTestInv, CalmInv, Depth, Pushed
<1>21. ASSUME Calm' PROVE Taken'
  BY <1>2, <1>7, <1>8, <1>17, <1>21, <1>3, <1>4, <1>9 DEF SelfTestInv, CalmInv, Taken, Pushed
<1>22. ASSUME Calm' PROVE InUseAsWritten'
  BY <1>2, <1>7, <1>8, <1>17, <1>22, <1>3, <1>4 DEF SelfTestInv, CalmInv, InUseAsWritten
<1> QED BY <1>10, <1>11, <1>12, <1>13, <1>14, <1>15, <1>16, <1>18, <1>19, <1>20, <1>21, <1>22
        DEF SelfTestInv, CalmInv

-----------------------------------------------------------------------------
(* Each write is undone in turn.                                           *)
LEMMA BeforeKeeps == ASSUME SelfTestInv, Before PROVE SelfTestInv'
<1> USE DEF SetsUp, Phases, Using, Running, Ending, Early, Homed, Written
<1>1. PICK o \in ReadState :
          /\ Asked(o, "before", FALSE)
          /\ script' = [script EXCEPT !.written = <<mouse.memory>>]
          /\ Result(o, "history", TRUE)
  BY Zenon DEF Before, Ask, Asked
<1>2. /\ step = "before" /\ Ready /\ report = "none" /\ script \in Scripts
      /\ failed \in BOOLEAN /\ start \in Mice /\ FALSE \in BOOLEAN
  BY <1>1, TestReady DEF Asked
<1>3. <<mouse.memory>> \in Seq(Contents) /\ Len(<<mouse.memory>>) = 1 /\ Len(undo) \in Nat
      /\ <<mouse.memory>>[1] = mouse.memory /\ <<mouse.memory>> # <<>>
  <2>1. mouse.memory \in Contents /\ undo \in Seq(Contents)
    BY <1>2, MouseFields DEF Ready
  <2> QED BY <2>1
<1>4. Reads(o)
  BY <1>1, <1>2, ReadStateIs
<1>5. /\ o.mouse \in Mice /\ o.undo \in Seq(Contents) /\ o.ok \in BOOLEAN /\ o.cost \in Nat
      /\ o.mouse.onboard = mouse.onboard /\ o.mouse.spellable = mouse.spellable
  BY <1>2, <1>4, OutcomeFields DEF Reads, Ready
<1>6. /\ mouse' = mouse /\ undo' = undo /\ presses' = presses /\ start' = start
      /\ script' \in Scripts
      /\ script'.number = script.number
      /\ script'.home = script.home
      /\ script'.off = script.off
      /\ script'.i = script.i
      /\ script'.last_undo = script.last_undo
      /\ script'.snapshot = script.snapshot
      /\ script'.written = <<mouse.memory>>
      /\ script'.undone = script.undone
  <2>1. mouse' = mouse /\ undo' = undo /\ presses' = presses /\ start' = start
    BY <1>1, <1>2, <1>4 DEF Asked, Reads
  <2>2. script' \in Scripts
        /\ script'.number = script.number
        /\ script'.home = script.home
        /\ script'.off = script.off
        /\ script'.i = script.i
        /\ script'.last_undo = script.last_undo
        /\ script'.snapshot = script.snapshot
        /\ script'.written = <<mouse.memory>>
        /\ script'.undone = script.undone
    <3>1. Memo(script', script.number, script.home, script.off, script.i, script.last_undo,
               script.snapshot, <<mouse.memory>>, script.undone)
      BY <1>1, <1>2, <1>3, WrittenMemo
    <3> QED BY <3>1 DEF Memo
  <2> QED BY <2>1, <2>2
<1>7. /\ report' = "none" /\ failed' \in BOOLEAN /\ (failed => failed') /\ (~o.ok => failed')
      /\ o.ok => failed' = failed
      /\ o.ok => step' = "history"
      /\ ~o.ok => step' = "home"
  BY <1>1, <1>2, <1>5 DEF Result, Go
<1>8. TestTypes' /\ (Calm' => Calm /\ o.cost = 0)
  <2>1. script' \in Scripts /\ step' \in Steps /\ failed' \in BOOLEAN
    BY <1>2, <1>6, <1>7 DEF Steps
  <2>2. o.effect # "live"
    BY <1>4, OutcomeFields DEF Reads
  <2> QED BY <2>1, <2>2, <1>1, <1>2, <1>5, <1>7, Asking
<1>9. PlaceInv'
  BY <1>2, <1>6, <1>7, <1>3 DEF SelfTestInv, PlaceInv
<1>10. CountInv'
  BY <1>2, <1>6, <1>7, TestNumbers DEF SelfTestInv, CountInv
<1>11. MemoryInv'
  BY <1>2, <1>6, <1>7 DEF SelfTestInv, MemoryInv
<1>12. UndoInv'
  BY <1>2, <1>6, <1>7 DEF SelfTestInv, UndoInv
<1>13. UseInv'
  BY <1>2, <1>6, <1>7 DEF SelfTestInv, UseInv
<1>14. ReportInv'
  <2>1. failed => failed'
    BY <1>2, <1>7
  <2>2. FALSE /\ ~o.ok => failed'
    BY <1>2, <1>7
  <2>3. report' \in {"none", "error"} /\ step' # "compare"
    BY <1>7
  <2>4. "before" \notin {"put_back", "restore", "compare"}
    OBVIOUS
  <2> QED BY <2>1, <2>2, <2>3, <2>4, <1>1, <1>2, <1>5, Reporting, Zenon
<1>15. ASSUME Calm' PROVE /\ Calm /\ failed' = FALSE /\ step' = "history"
  <2>1. /\ Sound /\ Calm /\ presses = 0 /\ presses' = 0 /\ mouse.onboard /\ mouse.spellable
    BY <1>6, <1>8, <1>15 DEF SelfTestInv, CalmInv, Calm
  <2>2. o.ok
    BY <1>4, <1>8, <1>15, <2>1 DEF Sound, Reads
  <2> QED BY <1>6, <1>7, <2>1, <2>2 DEF Sound
<1>16. ASSUME Calm' PROVE Sound'
  BY <1>2, <1>6, <1>7, <1>15, <1>16 DEF SelfTestInv, CalmInv, Sound
<1>17. ASSUME Calm' PROVE Chosen'
  BY <1>2, <1>6, <1>7, <1>15, <1>17 DEF SelfTestInv, CalmInv, Chosen
<1>18. ASSUME Calm' PROVE Depth'
  BY <1>2, <1>6, <1>7, <1>15, <1>18 DEF SelfTestInv, CalmInv, Depth
<1>19. ASSUME Calm' PROVE Taken'
  BY <1>2, <1>6, <1>7, <1>15, <1>19, <1>3 DEF SelfTestInv, CalmInv, Taken, Backs
<1>20. ASSUME Calm' PROVE InUseAsWritten'
  BY <1>2, <1>6, <1>7, <1>15, <1>20 DEF SelfTestInv, CalmInv, InUseAsWritten
<1> QED BY <1>8, <1>9, <1>10, <1>11, <1>12, <1>13, <1>14, <1>16, <1>17, <1>18, <1>19, <1>20
        DEF SelfTestInv, CalmInv

LEMMA HistoryKeeps == ASSUME SelfTestInv, History PROVE SelfTestInv'
<1> USE DEF SetsUp, Phases, Using, Running, Ending, Early, Homed, Written
<1>1. PICK o \in Apply(Content("undo", script.i)) :
          /\ Asked(o, "history", TRUE)
          /\ script' = [Counted(Undos) EXCEPT
                          !.written = IF o.ok THEN Append(@, o.mouse.memory) ELSE @]
          /\ Go(CASE script.i < Undos                           -> "history"
                [] script.i = Undos /\ Len(script'.written) > 1 -> "undo_back"
                [] OTHER                                      -> "snapshot", o.ok)
  BY Zenon DEF History, Ask, Asked
<1>2. /\ step = "history" /\ Ready /\ report = "none" /\ script \in Scripts
      /\ failed \in BOOLEAN /\ start \in Mice /\ TRUE \in BOOLEAN
  BY <1>1, TestReady DEF Asked
<1>3. /\ Content("undo", script.i) \in Contents
      /\ Content("undo", script.i).kind = "undo" /\ Content("undo", script.i).n = script.i
  BY <1>2, TestNumbers, ContentsWritten, ContentOfKind DEF SelfTestInv, CountInv
<1>4. /\ Torn.kind = "torn" /\ ~IsScrambled(Torn) /\ mouse.memory \in Contents
      /\ undo \in Seq(Contents) /\ mouse \in Mice
  BY <1>2, KindsOf, MouseFields DEF Ready
<1>5. Applied(o, Content("undo", script.i))
  BY <1>2, <1>3, ApplyIs, Zenon
<1>6. /\ o.mouse \in Mice /\ o.undo \in Seq(Contents) /\ o.ok \in BOOLEAN /\ o.cost \in Nat
      /\ o.mouse.onboard = mouse.onboard /\ o.mouse.spellable = mouse.spellable
  BY <1>2, <1>5, OutcomeFields DEF Applied, Rewrites, Same
<1>7. /\ undo' \in {undo, Append(undo, mouse.memory)} /\ presses' = presses /\ start' = start
      /\ mouse'.memory \in {mouse.memory, Torn, Content("undo", script.i)}
      /\ o.ok => mouse'.memory = Content("undo", script.i)
      /\ mouse'.on = mouse.on /\ mouse'.torn = mouse.torn
      /\ presses = 0 => mouse'.current = mouse.current /\ mouse'.loaded = mouse.loaded
      /\ script' \in Scripts
      /\ script'.number = script.number
      /\ script'.home = script.home
      /\ script'.off = script.off
      /\ script'.i = Following(script.i, Undos)
      /\ script'.last_undo = script.last_undo
      /\ script'.snapshot = script.snapshot
      /\ script'.written = (IF o.ok THEN Append(script.written, o.mouse.memory)
                                     ELSE script.written)
      /\ script'.undone = script.undone
  <2>1. /\ undo' \in {undo, Append(undo, mouse.memory)} /\ presses' = presses /\ start' = start
        /\ mouse'.memory \in {mouse.memory, Torn, Content("undo", script.i)}
        /\ o.ok => mouse'.memory = Content("undo", script.i)
        /\ mouse'.on = mouse.on /\ mouse'.torn = mouse.torn
        /\ presses = 0 => mouse'.current = mouse.current /\ mouse'.loaded = mouse.loaded
    BY <1>1, <1>2, <1>5 DEF Asked, Applied, Rewrites, Same, SelfTestInv, UseInv
  <2>2. script' \in Scripts
        /\ script'.number = script.number
        /\ script'.home = script.home
        /\ script'.off = script.off
        /\ script'.i = Following(script.i, Undos)
        /\ script'.last_undo = script.last_undo
        /\ script'.snapshot = script.snapshot
        /\ script'.written = (IF o.ok THEN Append(script.written, o.mouse.memory)
                                       ELSE script.written)
        /\ script'.undone = script.undone
    <3> DEFINE next == IF o.ok THEN Append(script.written, o.mouse.memory) ELSE script.written
    <3>1. /\ Counted(Undos) \in Scripts
          /\ Memo(Counted(Undos), script.number, script.home, script.off,
                  Following(script.i, Undos), script.last_undo, script.snapshot,
                  script.written, script.undone)
      BY <1>2, TestNumbers, CountedMemo DEF Memo
    <3>2. Counted(Undos).written = script.written
      BY <3>1 DEF Memo
    <3>3. script' = [Counted(Undos) EXCEPT !.written = next]
      BY <1>1, <3>2
    <3>4. next \in Seq(Contents)
      BY <1>2, <1>6, ScriptFields DEF Mice
    <3> HIDE DEF next
    <3>5. Memo(script', Counted(Undos).number, Counted(Undos).home, Counted(Undos).off,
               Counted(Undos).i, Counted(Undos).last_undo, Counted(Undos).snapshot, next,
               Counted(Undos).undone)
      BY <3>1, <3>3, <3>4, WrittenMemo
    <3> QED BY <3>1, <3>5 DEF Memo, next
  <2> QED BY <2>1, <2>2
<1>8. /\ report' = "none" /\ failed' \in BOOLEAN /\ (failed => failed') /\ (~o.ok => failed')
      /\ o.ok => failed' = failed
      /\ step' = CASE script.i < Undos                           -> "history"
                   [] script.i = Undos /\ Len(script'.written) > 1 -> "undo_back"
                   [] OTHER                                      -> "snapshot"
  BY <1>1, <1>2, <1>6, <1>7 DEF Go, Result, Loop, End
<1>9. Pushed(undo, undo', mouse.memory)
  <2>1. undo' \in {undo, Append(undo, mouse.memory)}
    BY <1>7
  <2> QED BY <2>1, <1>4, PushIs, Zenon
<1>10. script'.written # <<>> /\ Len(script'.written) \in Nat
  <2>1. script.written # <<>> /\ script.written \in Seq(Contents)
    BY <1>2, ScriptFields DEF SelfTestInv, PlaceInv
  <2>2. o.mouse.memory \in Contents
    BY <1>6, MouseFields
  <2>3. Append(script.written, o.mouse.memory) # <<>>
    BY <2>1, <2>2
  <2>4. script'.written \in Seq(Contents) /\ script'.written # <<>>
    BY <1>7, <2>1, <2>3, ScriptFields
  <2> QED BY <2>4
<1>11. \/ step' = "history" /\ script.i < Undos
       \/ step' = "undo_back" /\ Len(script'.written) > 1 /\ script.i = Undos
       \/ step' = "snapshot" /\ script.i = Undos
  <2>1. /\ script.i \in Nat /\ Undos \in Nat /\ script.i <= Undos
    BY <1>2, ScriptFields, TestNumbers DEF SelfTestInv, CountInv
  <2>2. CASE script.i < Undos
    <3>1. ~(script.i = Undos)
      BY <2>1, <2>2
    <3>2. step' = CASE script.i < Undos                           -> "history"
                    [] script.i = Undos /\ Len(script'.written) > 1 -> "undo_back"
                    [] OTHER                                      -> "snapshot"
      BY <1>8
    <3> QED BY <3>1, <3>2, <2>2, Zenon
  <2>3. CASE script.i = Undos /\ Len(script'.written) > 1
    BY <1>8, <2>1, <2>3
  <2>4. CASE script.i = Undos /\ ~(Len(script'.written) > 1)
    BY <1>8, <2>1, <2>4
  <2> QED BY <2>1, <2>2, <2>3, <2>4
<1>12. TestTypes' /\ (Calm' => Calm /\ o.cost = 0)
  <2>1. script' \in Scripts /\ step' \in Steps /\ failed' \in BOOLEAN
    BY <1>2, <1>7, <1>8 DEF Steps
  <2>2. o.effect # "live"
    BY <1>5, OutcomeFields DEF Applied, Rewrites
  <2> QED BY <2>1, <2>2, <1>1, <1>2, <1>6, <1>8, Asking
<1>13. PlaceInv'
  BY <1>2, <1>7, <1>8, <1>10, <1>11 DEF SelfTestInv, PlaceInv
<1>14. CountInv'
  BY <1>2, <1>7, <1>8, <1>11, TestNumbers, ScriptFields DEF SelfTestInv, CountInv, Following
<1>15. MemoryInv'
  BY <1>2, <1>7, <1>8, <1>11, <1>3, <1>4 DEF SelfTestInv, MemoryInv
<1>16. UndoInv'
  BY <1>2, <1>7, <1>8, <1>11, <1>3, <1>4, <1>9 DEF SelfTestInv, UndoInv, MemoryInv, Pushed
<1>17. UseInv'
  BY <1>2, <1>7, <1>8, <1>11, <1>3, <1>4 DEF SelfTestInv, UseInv
<1>18. ReportInv'
  <2>1. failed => failed'
    BY <1>2, <1>8
  <2>2. TRUE /\ ~o.ok => failed'
    BY <1>2, <1>8
  <2>3. report' \in {"none", "error"} /\ step' # "compare"
    BY <1>8
  <2>4. "history" \notin {"put_back", "restore", "compare"}
    OBVIOUS
  <2> QED BY <2>1, <2>2, <2>3, <2>4, <1>1, <1>2, <1>6, Reporting, Zenon
<1>19. ASSUME Calm' PROVE /\ Calm /\ failed' = FALSE /\ mouse'.memory = Content("undo", script.i)
                          /\ Backs(mouse'.memory, undo', script'.written)
  <2>1. /\ Sound /\ Calm /\ o.cost = 0 /\ presses = 0 /\ presses' = 0
        /\ mouse.onboard /\ mouse.spellable
    BY <1>7, <1>12, <1>19 DEF SelfTestInv, CalmInv, Calm
  <2>2. mouse.current # script.number
    BY <1>2, <2>1 DEF SelfTestInv, UseInv
  <2>3. Smooth(o, Content("undo", script.i))
    BY <1>5, <2>1 DEF Applied, Sound
  <2>4. mouse.memory # Content("undo", script.i)
    BY <1>2, <1>3, <2>1, ScriptFields DEF SelfTestInv, CalmInv, Taken
  <2>5. o.ok /\ o.undo = Append(undo, mouse.memory) /\ o.mouse.memory = Content("undo", script.i)
    BY <1>5, <2>3, <2>4 DEF Smooth, Applied, Rewrites
  <2>6. Backs(mouse.memory, undo, script.written)
    BY <1>2, <2>1 DEF SelfTestInv, CalmInv, Taken
  <2>7. script.written # <<>> /\ script.written \in Seq(Contents)
    BY <1>2, ScriptFields DEF SelfTestInv, PlaceInv
  <2>8. Backs(Content("undo", script.i), Append(undo, mouse.memory),
              Append(script.written, Content("undo", script.i)))
    BY <1>3, <1>4, <2>6, <2>7, BacksOn
  <2>9. /\ mouse'.memory = Content("undo", script.i) /\ undo' = Append(undo, mouse.memory)
        /\ script'.written = Append(script.written, Content("undo", script.i))
    BY <1>1, <1>7, <2>5 DEF Asked
  <2>10. failed' = FALSE
    BY <1>8, <2>1, <2>5 DEF Sound
  <2> QED BY <2>1, <2>8, <2>9, <2>10
<1>20. ASSUME Calm' PROVE Sound'
  <2>1. Sound
    BY <1>19, <1>20 DEF SelfTestInv, CalmInv
  <2>2. mouse'.memory # Torn
    BY <1>7, <1>19, <1>20, <1>3, <1>4, <2>1 DEF Sound
  <2>3. \A j \in 1..Len(undo') : undo'[j] # Torn
    BY <1>9, <2>1 DEF Sound, Pushed
  <2> QED BY <1>2, <1>7, <1>8, <1>19, <1>20, <2>1, <2>2, <2>3 DEF Sound, Calm
<1>21. ASSUME Calm' PROVE Chosen'
  BY <1>2, <1>7, <1>8, <1>19, <1>21, <1>11, <1>3, <1>4 DEF SelfTestInv, CalmInv, Chosen
<1>22. ASSUME Calm' PROVE Depth'
  BY <1>2, <1>7, <1>8, <1>19, <1>22, <1>11, <1>3, <1>4, <1>9
     DEF SelfTestInv, CalmInv, Depth, Pushed
<1>23. ASSUME Calm' PROVE Taken'
  BY <1>2, <1>7, <1>8, <1>19, <1>23, <1>11, ScriptFields, TestNumbers, <1>3, <1>4, <1>9
     DEF SelfTestInv, CalmInv, Taken, Following, Pushed
<1>24. ASSUME Calm' PROVE InUseAsWritten'
  BY <1>2, <1>7, <1>8, <1>19, <1>24, <1>11, <1>3, <1>4 DEF SelfTestInv, CalmInv, InUseAsWritten
<1> QED BY <1>12, <1>13, <1>14, <1>15, <1>16, <1>17, <1>18, <1>20, <1>21, <1>22, <1>23, <1>24
        DEF SelfTestInv, CalmInv

LEMMA UndoBackKeeps == ASSUME SelfTestInv, UndoBack PROVE SelfTestInv'
<1> USE DEF SetsUp, Phases, Using, Running, Ending, Early, Homed, Written
<1>1. PICK o \in Undo :
          /\ Asked(o, "undo_back", TRUE)
          /\ script' = [script EXCEPT !.written = Front(script.written)]
          /\ Result(o, IF Len(Front(script.written)) > 1 THEN "undo_back" ELSE "snapshot",
                    o.mouse.memory = Last(Front(script.written)))
  BY Zenon DEF UndoBack, Ask, Asked
<1>2. /\ step = "undo_back" /\ Ready /\ report = "none" /\ script \in Scripts
      /\ failed \in BOOLEAN /\ start \in Mice /\ TRUE \in BOOLEAN
  BY <1>1, TestReady DEF Asked
<1>3. undo # <<>> => /\ Last(undo) \in Contents /\ Last(undo) = undo[Len(undo)]
                     /\ Len(undo) \in Nat /\ Len(undo) > 0 /\ Len(undo) \in 1..Len(undo)
  BY <1>2, LatestIs DEF Ready
<1>4. /\ Torn.kind = "torn" /\ ~IsScrambled(Torn) /\ mouse.memory \in Contents
      /\ undo \in Seq(Contents) /\ mouse \in Mice
  BY <1>2, KindsOf, MouseFields DEF Ready
<1>5. /\ script.written \in Seq(Contents) /\ Front(script.written) \in Seq(Contents)
      /\ Len(script.written) > 1
  BY <1>2, ScriptFields, FrontIs DEF SelfTestInv, PlaceInv
<1>6. Undoes(o)
  BY <1>2, UndoIs, Zenon
<1>7. /\ o.mouse \in Mice /\ o.undo \in Seq(Contents) /\ o.ok \in BOOLEAN /\ o.cost \in Nat
      /\ o.mouse.onboard = mouse.onboard /\ o.mouse.spellable = mouse.spellable
  BY <1>2, <1>6, OutcomeFields DEF Undoes, Rewrites, Same
<1>8. /\ undo' = undo \/ (undo # <<>> /\ undo' = Front(undo))
      /\ presses' = presses /\ start' = start
      /\ mouse'.memory \in {mouse.memory, Torn} \/ (undo # <<>> /\ mouse'.memory = Last(undo))
      /\ o.ok => undo # <<>> /\ mouse'.memory = Last(undo) /\ undo' = Front(undo)
      /\ mouse'.on = mouse.on /\ mouse'.torn = mouse.torn
      /\ presses = 0 => mouse'.current = mouse.current /\ mouse'.loaded = mouse.loaded
      /\ script' \in Scripts
      /\ script'.number = script.number
      /\ script'.home = script.home
      /\ script'.off = script.off
      /\ script'.i = script.i
      /\ script'.last_undo = script.last_undo
      /\ script'.snapshot = script.snapshot
      /\ script'.written = Front(script.written)
      /\ script'.undone = script.undone
  <2>1. /\ undo' = undo \/ (undo # <<>> /\ undo' = Front(undo))
        /\ presses' = presses /\ start' = start
        /\ mouse'.memory \in {mouse.memory, Torn} \/ (undo # <<>> /\ mouse'.memory = Last(undo))
        /\ o.ok => undo # <<>> /\ mouse'.memory = Last(undo) /\ undo' = Front(undo)
        /\ mouse'.on = mouse.on /\ mouse'.torn = mouse.torn
        /\ presses = 0 => mouse'.current = mouse.current /\ mouse'.loaded = mouse.loaded
    <3>1. mouse' = o.mouse /\ undo' = o.undo /\ presses' = presses /\ start' = start
      BY <1>1 DEF Asked
    <3>2. CASE undo = <<>>
      <4>1. o.mouse = mouse /\ o.undo = undo /\ ~o.ok
        BY <1>6, <3>2, Zenon DEF Undoes
      <4>2. mouse' = mouse /\ undo' = undo
        BY <3>1, <4>1, Zenon
      <4>3. mouse'.memory \in {mouse.memory, Torn} /\ mouse'.loaded.content = mouse.loaded.content
        BY <4>2
      <4> QED BY <3>1, <4>1, <4>2, <4>3, Zenon
    <3>3. CASE undo # <<>>
      <4>1. o.ok => o.mouse.memory = Last(undo) /\ o.undo = Front(undo)
        BY <1>6 DEF Undoes, Rewrites
      <4>2. o.undo \in {undo, Front(undo)} /\ o.mouse.memory \in {mouse.memory, Torn, Last(undo)}
        BY <1>6 DEF Undoes, Rewrites
      <4>3. o.mouse.on = mouse.on /\ o.mouse.torn = mouse.torn
        BY <1>6 DEF Undoes, Rewrites, Same
      <4>4. presses = 0 => o.mouse.current = mouse.current /\ o.mouse.loaded = mouse.loaded
        BY <1>2, <1>6 DEF Undoes, Rewrites, SelfTestInv, UseInv
      <4>5. mouse'.memory \in {mouse.memory, Torn} \/ mouse'.memory = Last(undo)
        BY <3>1, <4>2
      <4>6. undo' = undo \/ undo' = Front(undo)
        BY <3>1, <4>2
      <4> QED BY <3>1, <3>3, <4>1, <4>3, <4>4, <4>5, <4>6, Zenon
    <3> QED BY <3>2, <3>3
  <2>2. script' \in Scripts
        /\ script'.number = script.number
        /\ script'.home = script.home
        /\ script'.off = script.off
        /\ script'.i = script.i
        /\ script'.last_undo = script.last_undo
        /\ script'.snapshot = script.snapshot
        /\ script'.written = Front(script.written)
        /\ script'.undone = script.undone
    <3>1. Memo(script', script.number, script.home, script.off, script.i, script.last_undo,
               script.snapshot, Front(script.written), script.undone)
      BY <1>1, <1>2, <1>5, WrittenMemo
    <3> QED BY <3>1 DEF Memo
  <2> QED BY <2>1, <2>2
<1>9. /\ report' = "none" /\ failed' \in BOOLEAN /\ (failed => failed') /\ (~o.ok => failed')
      /\ o.ok /\ o.mouse.memory = Last(Front(script.written)) => failed' = failed
      /\ o.ok => step' = IF Len(Front(script.written)) > 1 THEN "undo_back" ELSE "snapshot"
      /\ ~o.ok => step' = "home"
  BY <1>1, <1>2, <1>7 DEF Go, Result
<1>10. Popped(undo, undo')
  <2>1. undo' = undo \/ (undo # <<>> /\ undo' = Front(undo))
    BY <1>8
  <2> QED BY <2>1, <1>4, PopIs, Zenon
<1>11. TestTypes' /\ (Calm' => Calm /\ o.cost = 0)
  <2>1. script' \in Scripts /\ step' \in Steps /\ failed' \in BOOLEAN
    BY <1>2, <1>8, <1>9 DEF Steps
  <2>2. o.effect # "live"
    BY <1>6, OutcomeFields DEF Undoes, Rewrites
  <2> QED BY <2>1, <2>2, <1>1, <1>2, <1>7, <1>9, Asking
<1>12. PlaceInv'
  BY <1>2, <1>8, <1>9 DEF SelfTestInv, PlaceInv
<1>13. CountInv'
  BY <1>2, <1>8, <1>9 DEF SelfTestInv, CountInv
<1>14. MemoryInv'
  BY <1>2, <1>8, <1>9, <1>3, <1>4 DEF SelfTestInv, MemoryInv, UndoInv
<1>15. UndoInv'
  BY <1>2, <1>8, <1>9, <1>3, <1>4, <1>10 DEF SelfTestInv, UndoInv, MemoryInv, Popped
<1>16. UseInv'
  BY <1>2, <1>8, <1>9, <1>3, <1>4 DEF SelfTestInv, UseInv
<1>17. ReportInv'
  <2>1. failed => failed'
    BY <1>2, <1>9
  <2>2. TRUE /\ ~o.ok => failed'
    BY <1>2, <1>9
  <2>3. report' \in {"none", "error"} /\ step' # "compare"
    BY <1>9
  <2>4. "undo_back" \notin {"put_back", "restore", "compare"}
    OBVIOUS
  <2> QED BY <2>1, <2>2, <2>3, <2>4, <1>1, <1>2, <1>7, Reporting, Zenon
<1>18. ASSUME Calm' PROVE /\ Calm /\ failed' = FALSE
                          /\ step' = IF Len(Front(script.written)) > 1
                                     THEN "undo_back" ELSE "snapshot"
                          /\ undo # <<>> /\ mouse'.memory = Last(undo) /\ Last(undo) # Torn
                          /\ Backs(mouse'.memory, undo', script'.written)
  <2>1. /\ Sound /\ Calm /\ o.cost = 0 /\ presses = 0 /\ presses' = 0
        /\ mouse.onboard /\ mouse.spellable
    BY <1>8, <1>11, <1>18 DEF SelfTestInv, CalmInv, Calm
  <2>2. mouse.current # script.number
    BY <1>2, <2>1 DEF SelfTestInv, UseInv
  <2>3. undo # <<>> => Smooth(o, Last(undo))
    BY <1>6, <2>1 DEF Undoes, Sound
  <2>4. Backs(mouse.memory, undo, script.written)
    BY <1>2, <2>1 DEF SelfTestInv, CalmInv, Taken
  <2>5. /\ undo # <<>> /\ Last(undo) = Last(Front(script.written))
        /\ Backs(Last(undo), Front(undo), Front(script.written))
    BY <1>4, <1>5, <2>4, BacksOff
  <2>6. o.ok /\ o.mouse.memory = Last(undo)
    BY <1>6, <2>3, <2>5 DEF Smooth, Undoes, Rewrites
  <2>7. Last(undo) # Torn
    BY <1>3, <2>1, <2>5 DEF Sound
  <2> QED BY <1>8, <1>9, <2>1, <2>5, <2>6, <2>7 DEF Sound
<1>19. ASSUME Calm' PROVE Sound'
  <2>1. Sound
    BY <1>18, <1>19 DEF SelfTestInv, CalmInv
  <2>2. undo # <<>> => Last(undo) # Torn
    BY <1>3, <2>1 DEF Sound
  <2>3. mouse'.memory # Torn
    BY <1>18, <1>19, <2>2
  <2>4. \A j \in 1..Len(undo') : undo'[j] # Torn
    BY <1>10, <2>1 DEF Sound, Popped
  <2> QED BY <1>2, <1>8, <1>9, <1>18, <1>19, <2>1, <2>3, <2>4 DEF Sound, Calm
<1>20. ASSUME Calm' PROVE Chosen'
  BY <1>2, <1>8, <1>9, <1>18, <1>20, <1>3, <1>4 DEF SelfTestInv, CalmInv, Chosen
<1>21. ASSUME Calm' PROVE Depth'
  BY <1>2, <1>8, <1>9, <1>18, <1>21, <1>3, <1>4, <1>10 DEF SelfTestInv, CalmInv, Depth, Popped
<1>22. ASSUME Calm' PROVE Taken'
  BY <1>2, <1>8, <1>9, <1>18, <1>22, <1>3, <1>4, <1>10 DEF SelfTestInv, CalmInv, Taken, Popped
<1>23. ASSUME Calm' PROVE InUseAsWritten'
  BY <1>2, <1>8, <1>9, <1>18, <1>23, <1>3, <1>4 DEF SelfTestInv, CalmInv, InUseAsWritten
<1> QED BY <1>11, <1>12, <1>13, <1>14, <1>15, <1>16, <1>17, <1>19, <1>20, <1>21, <1>22, <1>23
        DEF SelfTestInv, CalmInv

LEMMA SnapshotKeeps == ASSUME SelfTestInv, Snapshot PROVE SelfTestInv'
<1> USE DEF SetsUp, Phases, Using, Running, Ending, Early, Homed, Written
<1>1. PICK o \in Apply(Spelled(script.snapshot)) :
          /\ Asked(o, "snapshot", TRUE)
          /\ UNCHANGED script
          /\ IF o.ok /\ o.mouse.memory = script.snapshot THEN Go("activate", TRUE)
                                                     ELSE Go("home", FALSE)
  BY Zenon DEF Snapshot, Ask, Asked
<1>2. /\ step = "snapshot" /\ Ready /\ report = "none" /\ script \in Scripts
      /\ failed \in BOOLEAN /\ start \in Mice /\ TRUE \in BOOLEAN
  BY <1>1, TestReady DEF Asked
<1>3. /\ Spelled(script.snapshot) \in Contents
      /\ Spelled(script.snapshot).kind # "in_use" /\ ~IsScrambled(Spelled(script.snapshot))
      /\ mouse.spellable => Spelled(script.snapshot) = script.snapshot
  BY <1>2, ScriptFields, ContentsWritten, ContentOfKind
     DEF Spelled, IsScrambled, SelfTestInv, MemoryInv
<1>4. /\ Torn.kind = "torn" /\ ~IsScrambled(Torn) /\ mouse.memory \in Contents
      /\ undo \in Seq(Contents) /\ mouse \in Mice
  BY <1>2, KindsOf, MouseFields DEF Ready
<1>5. Applied(o, Spelled(script.snapshot))
  BY <1>2, <1>3, ApplyIs, Zenon
<1>6. /\ o.mouse \in Mice /\ o.undo \in Seq(Contents) /\ o.ok \in BOOLEAN /\ o.cost \in Nat
      /\ o.mouse.onboard = mouse.onboard /\ o.mouse.spellable = mouse.spellable
  BY <1>2, <1>5, OutcomeFields DEF Applied, Rewrites, Same
<1>7. /\ undo' \in {undo, Append(undo, mouse.memory)} /\ presses' = presses /\ start' = start
      /\ mouse'.memory \in {mouse.memory, Torn, Spelled(script.snapshot)}
      /\ o.ok => mouse'.memory = Spelled(script.snapshot)
      /\ mouse'.on = mouse.on /\ mouse'.torn = mouse.torn
      /\ presses = 0 => mouse'.current = mouse.current /\ mouse'.loaded = mouse.loaded
      /\ script' = script
  <2>1. /\ undo' \in {undo, Append(undo, mouse.memory)} /\ presses' = presses /\ start' = start
        /\ mouse'.memory \in {mouse.memory, Torn, Spelled(script.snapshot)}
        /\ o.ok => mouse'.memory = Spelled(script.snapshot)
        /\ mouse'.on = mouse.on /\ mouse'.torn = mouse.torn
        /\ presses = 0 => mouse'.current = mouse.current /\ mouse'.loaded = mouse.loaded
    BY <1>1, <1>2, <1>5 DEF Asked, Applied, Rewrites, Same, SelfTestInv, UseInv
  <2>2. script' = script
    BY <1>1
  <2> QED BY <2>1, <2>2
<1>8. /\ report' = "none" /\ failed' \in BOOLEAN /\ (failed => failed') /\ (~o.ok => failed')
      /\ \/ /\ o.ok /\ o.mouse.memory = script.snapshot
            /\ step' = "activate" /\ failed' = failed
         \/ /\ ~(o.ok /\ o.mouse.memory = script.snapshot) /\ step' = "home"
  BY <1>1, <1>2, <1>6, <1>7 DEF Go, Result, Loop, End
<1>9. Pushed(undo, undo', mouse.memory)
  <2>1. undo' \in {undo, Append(undo, mouse.memory)}
    BY <1>7
  <2> QED BY <2>1, <1>4, PushIs, Zenon
<1>10. TestTypes' /\ (Calm' => Calm /\ o.cost = 0)
  <2>1. script' \in Scripts /\ step' \in Steps /\ failed' \in BOOLEAN
    BY <1>2, <1>7, <1>8 DEF Steps
  <2>2. o.effect # "live"
    BY <1>5, OutcomeFields DEF Applied, Rewrites
  <2> QED BY <2>1, <2>2, <1>1, <1>2, <1>6, <1>8, Asking
<1>11. PlaceInv'
  BY <1>2, <1>7, <1>8 DEF SelfTestInv, PlaceInv
<1>12. CountInv'
  BY <1>2, <1>7, <1>8 DEF SelfTestInv, CountInv
<1>13. MemoryInv'
  BY <1>2, <1>7, <1>8, <1>3, <1>4 DEF SelfTestInv, MemoryInv
<1>14. UndoInv'
  BY <1>2, <1>7, <1>8, <1>3, <1>4, <1>9 DEF SelfTestInv, UndoInv, MemoryInv, Pushed
<1>15. UseInv'
  BY <1>2, <1>7, <1>8, <1>3, <1>4 DEF SelfTestInv, UseInv
<1>16. ReportInv'
  <2>1. failed => failed'
    BY <1>2, <1>8
  <2>2. TRUE /\ ~o.ok => failed'
    BY <1>2, <1>8
  <2>3. report' \in {"none", "error"} /\ step' # "compare"
    BY <1>8
  <2>4. "snapshot" \notin {"put_back", "restore", "compare"}
    OBVIOUS
  <2> QED BY <2>1, <2>2, <2>3, <2>4, <1>1, <1>2, <1>6, Reporting, Zenon
<1>17. ASSUME Calm' PROVE /\ Calm /\ failed' = FALSE /\ step' = "activate"
                          /\ mouse'.memory = script.snapshot /\ mouse'.memory # Torn
  <2>1. /\ Sound /\ Calm /\ o.cost = 0 /\ presses = 0 /\ presses' = 0
        /\ mouse.onboard /\ mouse.spellable
    BY <1>7, <1>10, <1>17 DEF SelfTestInv, CalmInv, Calm
  <2>2. mouse.current # script.number
    BY <1>2, <2>1 DEF SelfTestInv, UseInv
  <2>3. Smooth(o, Spelled(script.snapshot))
    BY <1>5, <2>1 DEF Applied, Sound
  <2>4. o.ok /\ o.mouse.memory = script.snapshot
    BY <1>5, <1>3, <2>1, <2>3 DEF Smooth, Applied, Rewrites
  <2>5. script.snapshot = Content("named", 0)
    BY <1>2, <2>1 DEF SelfTestInv, CalmInv, Depth
  <2>6. script.snapshot # Torn
    BY <2>5, KindsOf, ContentOfKind
  <2> QED BY <1>1, <1>7, <1>8, <2>1, <2>4, <2>6 DEF Sound, Asked
<1>18. ASSUME Calm' PROVE Sound'
  <2>1. Sound
    BY <1>17, <1>18 DEF SelfTestInv, CalmInv
  <2>2. mouse'.memory # Torn
    BY <1>7, <1>17, <1>18, <1>3, <1>4, <2>1 DEF Sound
  <2>3. \A j \in 1..Len(undo') : undo'[j] # Torn
    BY <1>9, <2>1 DEF Sound, Pushed
  <2> QED BY <1>2, <1>7, <1>8, <1>17, <1>18, <2>1, <2>2, <2>3 DEF Sound, Calm
<1>19. ASSUME Calm' PROVE Chosen'
  BY <1>2, <1>7, <1>8, <1>17, <1>19, <1>3, <1>4 DEF SelfTestInv, CalmInv, Chosen
<1>20. ASSUME Calm' PROVE Depth'
  BY <1>2, <1>7, <1>8, <1>17, <1>20, <1>3, <1>4, <1>9 DEF SelfTestInv, CalmInv, Depth, Pushed
<1>21. ASSUME Calm' PROVE Taken'
  BY <1>2, <1>7, <1>8, <1>17, <1>21, <1>3, <1>4, <1>9 DEF SelfTestInv, CalmInv, Taken, Pushed
<1>22. ASSUME Calm' PROVE InUseAsWritten'
  BY <1>2, <1>7, <1>8, <1>17, <1>22, <1>3, <1>4 DEF SelfTestInv, CalmInv, InUseAsWritten
<1> QED BY <1>10, <1>11, <1>12, <1>13, <1>14, <1>15, <1>16, <1>18, <1>19, <1>20, <1>21, <1>22
        DEF SelfTestInv, CalmInv

-----------------------------------------------------------------------------
(* The test profile is in use.                                             *)
LEMMA ActivateTestKeeps == ASSUME SelfTestInv, ActivateTest PROVE SelfTestInv'
<1> USE DEF SetsUp, Phases, Using, Running, Ending, Early, Homed, Written
<1>1. PICK o \in Activate(script.number) :
          /\ Asked(o, "activate", TRUE)
          /\ UNCHANGED script
          /\ Result(o, "read_active", TRUE)
  BY Zenon DEF ActivateTest, Ask, Asked
<1>2. /\ step = "activate" /\ Ready /\ report = "none" /\ script \in Scripts
      /\ failed \in BOOLEAN /\ start \in Mice /\ TRUE \in BOOLEAN
  BY <1>1, TestReady DEF Asked
<1>3. ~IsScrambled(Own)
  BY KindsOf
<1>4. Activates(o, script.number)
  BY <1>1, <1>2, ActivateIs
<1>5. /\ o.mouse \in Mice /\ o.undo \in Seq(Contents) /\ o.ok \in BOOLEAN /\ o.cost \in Nat
      /\ o.mouse.onboard = mouse.onboard /\ o.mouse.spellable = mouse.spellable
  BY <1>2, <1>4, OutcomeFields DEF Activates, Same
<1>6. /\ undo' = undo /\ presses' = presses /\ start' = start /\ mouse' = o.mouse
      /\ mouse'.memory = mouse.memory /\ mouse'.on = mouse.on /\ mouse'.torn = mouse.torn
      /\ \/ mouse'.loaded = mouse.loaded
         \/ mouse'.loaded.content \in {Own, mouse.memory}
      /\ script' = script
  BY <1>1, <1>2, <1>4 DEF Asked, Activates, Same, ContentOf
<1>7. /\ report' = "none" /\ failed' \in BOOLEAN /\ (failed => failed') /\ (~o.ok => failed')
      /\ o.ok => failed' = failed
      /\ o.ok => step' = "read_active"
      /\ ~o.ok => step' = "home"
  BY <1>1, <1>2, <1>5 DEF Result, Go
<1>8. TestTypes' /\ (Calm' => Calm /\ o.cost = 0)
  <2>1. script' \in Scripts /\ step' \in Steps /\ failed' \in BOOLEAN
    BY <1>2, <1>6, <1>7 DEF Steps
  <2>2. o.effect # "live"
    BY <1>4, OutcomeFields DEF Activates
  <2> QED BY <2>1, <2>2, <1>1, <1>2, <1>5, <1>7, Asking
<1>9. PlaceInv'
  BY <1>2, <1>6, <1>7 DEF SelfTestInv, PlaceInv
<1>10. CountInv'
  BY <1>2, <1>6, <1>7 DEF SelfTestInv, CountInv
<1>11. MemoryInv'
  BY <1>2, <1>6, <1>7 DEF SelfTestInv, MemoryInv
<1>12. UndoInv'
  BY <1>2, <1>6, <1>7 DEF SelfTestInv, UndoInv
<1>13. UseInv'
  BY <1>2, <1>6, <1>7, <1>3 DEF SelfTestInv, UseInv, MemoryInv
<1>14. ReportInv'
  <2>1. failed => failed'
    BY <1>2, <1>7
  <2>2. TRUE /\ ~o.ok => failed'
    BY <1>2, <1>7
  <2>3. report' \in {"none", "error"} /\ step' # "compare"
    BY <1>7
  <2>4. "activate" \notin {"put_back", "restore", "compare"}
    OBVIOUS
  <2> QED BY <2>1, <2>2, <2>3, <2>4, <1>1, <1>2, <1>5, Reporting, Zenon
<1>15. ASSUME Calm' PROVE /\ Calm /\ failed' = FALSE /\ step' = "read_active"
                          /\ mouse'.current = script.number /\ mouse'.current \in mouse'.on
                          /\ mouse'.loaded.content = mouse.memory
  <2>1. /\ Sound /\ Calm /\ presses = 0 /\ presses' = 0 /\ mouse.onboard /\ mouse.spellable
        /\ o.cost = 0 /\ ~mouse.torn /\ mouse.memory # Torn
    BY <1>6, <1>8, <1>15 DEF SelfTestInv, CalmInv, Calm, Sound
  <2>2. script.number \in mouse.on /\ mouse.current # script.number
    BY <1>2, <2>1 DEF SelfTestInv, CalmInv, Chosen, UseInv
  <2>3. o.ok
    BY <1>4, <2>1, <2>2 DEF Activates
  <2>4. o.mouse.current = script.number /\ o.mouse.loaded.content = ContentOf(mouse, script.number)
    BY <1>4, <2>2, <2>3 DEF Activates
  <2>5. ContentOf(mouse, script.number) = mouse.memory
    BY DEF ContentOf
  <2> QED BY <1>2, <1>6, <1>7, <2>1, <2>2, <2>3, <2>4, <2>5 DEF Sound
<1>16. ASSUME Calm' PROVE Sound'
  <2>1. Sound
    BY <1>15, <1>16 DEF SelfTestInv, CalmInv
  <2> QED BY <1>2, <1>6, <1>7, <1>15, <1>16, <2>1 DEF Sound, Calm
<1>17. ASSUME Calm' PROVE Chosen'
  BY <1>2, <1>6, <1>7, <1>15, <1>17 DEF SelfTestInv, CalmInv, Chosen
<1>18. ASSUME Calm' PROVE Depth'
  BY <1>2, <1>6, <1>7, <1>15, <1>18 DEF SelfTestInv, CalmInv, Depth
<1>19. ASSUME Calm' PROVE Taken'
  BY <1>2, <1>6, <1>7, <1>15, <1>19 DEF SelfTestInv, CalmInv, Taken
<1>20. ASSUME Calm' PROVE InUseAsWritten'
  BY <1>2, <1>6, <1>7, <1>15, <1>20 DEF SelfTestInv, CalmInv, InUseAsWritten
<1> QED BY <1>8, <1>9, <1>10, <1>11, <1>12, <1>13, <1>14, <1>16, <1>17, <1>18, <1>19, <1>20
        DEF SelfTestInv, CalmInv

LEMMA ReadActiveKeeps == ASSUME SelfTestInv, ReadActive PROVE SelfTestInv'
<1> USE DEF SetsUp, Phases, Using, Running, Ending, Early, Homed, Written
<1>1. PICK o \in ReadState :
          /\ Asked(o, "read_active", FALSE)
          /\ UNCHANGED script
          /\ Result(o, "live_active", mouse.current = script.number)
  BY Zenon DEF ReadActive, Ask, Asked
<1>2. /\ step = "read_active" /\ Ready /\ report = "none" /\ script \in Scripts
      /\ failed \in BOOLEAN /\ start \in Mice /\ FALSE \in BOOLEAN
  BY <1>1, TestReady DEF Asked
<1>3. Reads(o)
  BY <1>1, <1>2, ReadStateIs
<1>4. /\ o.mouse \in Mice /\ o.undo \in Seq(Contents) /\ o.ok \in BOOLEAN /\ o.cost \in Nat
      /\ o.mouse.onboard = mouse.onboard /\ o.mouse.spellable = mouse.spellable
  BY <1>2, <1>3, OutcomeFields DEF Reads, Ready
<1>5. mouse' = mouse /\ undo' = undo /\ presses' = presses /\ start' = start
      /\ script' = script
  BY <1>1, <1>2, <1>3 DEF Asked, Reads
<1>6. /\ report' = "none"
      /\ \/ /\ o.ok /\ step' = "live_active" /\ failed' \in BOOLEAN /\ (failed => failed')
            /\ mouse.current = script.number => failed' = failed
         \/ ~o.ok /\ step' = "home" /\ failed' = TRUE
  BY <1>1, <1>2, <1>4 DEF Result, Go
<1>7. TestTypes' /\ (Calm' => Calm /\ o.cost = 0)
  <2>1. script' \in Scripts /\ step' \in Steps /\ failed' \in BOOLEAN
    BY <1>2, <1>5, <1>6 DEF Steps
  <2>2. o.effect # "live"
    BY <1>3, OutcomeFields DEF Reads
  <2> QED BY <2>1, <2>2, <1>1, <1>2, <1>4, <1>6, Asking
<1>8. PlaceInv'
  BY <1>2, <1>5, <1>6 DEF SelfTestInv, PlaceInv
<1>9. CountInv'
  BY <1>2, <1>5, <1>6 DEF SelfTestInv, CountInv
<1>10. MemoryInv'
  BY <1>2, <1>5, <1>6 DEF SelfTestInv, MemoryInv
<1>11. UndoInv'
  BY <1>2, <1>5, <1>6 DEF SelfTestInv, UndoInv
<1>12. UseInv'
  BY <1>2, <1>5, <1>6 DEF SelfTestInv, UseInv, MemoryInv
<1>13. ReportInv'
  <2>1. failed => failed'
    BY <1>2, <1>6
  <2>2. FALSE /\ ~o.ok => failed'
    BY <1>2, <1>6
  <2>3. report' \in {"none", "error"} /\ step' # "compare"
    BY <1>6
  <2>4. "read_active" \notin {"put_back", "restore", "compare"}
    OBVIOUS
  <2> QED BY <2>1, <2>2, <2>3, <2>4, <1>1, <1>2, <1>4, Reporting, Zenon
<1>14. ASSUME Calm' PROVE step' = "live_active" /\ Calm /\ failed' = FALSE
  BY <1>2, <1>3, <1>4, <1>6, <1>7, <1>14, <1>5
     DEF SelfTestInv, CalmInv, Sound, Reads, InUseAsWritten
<1>15. ASSUME Calm' PROVE Sound'
  BY <1>2, <1>5, <1>6, <1>14, <1>15 DEF SelfTestInv, CalmInv, Sound
<1>16. ASSUME Calm' PROVE Chosen'
  BY <1>2, <1>5, <1>6, <1>14, <1>16 DEF SelfTestInv, CalmInv, Chosen
<1>17. ASSUME Calm' PROVE Depth'
  BY <1>2, <1>5, <1>6, <1>14, <1>17 DEF SelfTestInv, CalmInv, Depth
<1>18. ASSUME Calm' PROVE Taken'
  BY <1>2, <1>5, <1>6, <1>14, <1>18 DEF SelfTestInv, CalmInv, Taken
<1>19. ASSUME Calm' PROVE InUseAsWritten'
  BY <1>2, <1>5, <1>6, <1>14, <1>19 DEF SelfTestInv, CalmInv, InUseAsWritten
<1> QED BY <1>7, <1>8, <1>9, <1>10, <1>11, <1>12, <1>13, <1>15, <1>16, <1>17, <1>18, <1>19
        DEF SelfTestInv, CalmInv

LEMMA LiveActiveKeeps == ASSUME SelfTestInv, LiveActive PROVE SelfTestInv'
<1> USE DEF SetsUp, Phases, Using, Running, Ending, Early, Homed, Written
<1>1. PICK o \in Live :
          /\ Asked(o, "live_active", FALSE)
          /\ \E first \in {1, 2} : script' = [script EXCEPT !.i = first]
          /\ Result(o, "in_use", mouse.loaded.content = script.snapshot)
  BY Zenon DEF LiveActive, Ask, Asked
<1>2. /\ step = "live_active" /\ Ready /\ report = "none" /\ script \in Scripts
      /\ failed \in BOOLEAN /\ start \in Mice /\ FALSE \in BOOLEAN
  BY <1>1, TestReady DEF Asked
<1>3. PICK first \in {1, 2} : script' = [script EXCEPT !.i = first]
  BY <1>1
<1>4. Rank(mouse.memory) = 0 /\ Len(undo) \in Nat /\ first \in Nat
  BY <1>2, <1>3 DEF SelfTestInv, MemoryInv, Rank, Ready
<1>5. /\ o.mouse = mouse /\ o.undo = undo /\ o.effect = "live"
      /\ o.cost \in Nat /\ o.cost <= LiveTries
      /\ o.ok = (o.cost < LiveTries) /\ o.ok \in BOOLEAN
  BY <1>1, LiveIs
<1>6. /\ o.mouse \in Mice /\ o.undo \in Seq(Contents) /\ o.ok \in BOOLEAN /\ o.cost \in Nat
      /\ o.mouse.onboard = mouse.onboard /\ o.mouse.spellable = mouse.spellable
  BY <1>2, <1>5 DEF Ready
<1>7. /\ mouse' = mouse /\ undo' = undo /\ presses' = presses /\ start' = start
      /\ script' \in Scripts
      /\ script'.number = script.number
      /\ script'.home = script.home
      /\ script'.off = script.off
      /\ script'.i = first
      /\ script'.last_undo = script.last_undo
      /\ script'.snapshot = script.snapshot
      /\ script'.written = script.written
      /\ script'.undone = script.undone
  <2>1. mouse' = mouse /\ undo' = undo /\ presses' = presses /\ start' = start
    BY <1>1, <1>2, <1>5 DEF Asked, Reads
  <2>2. script' \in Scripts
        /\ script'.number = script.number
        /\ script'.home = script.home
        /\ script'.off = script.off
        /\ script'.i = first
        /\ script'.last_undo = script.last_undo
        /\ script'.snapshot = script.snapshot
        /\ script'.written = script.written
        /\ script'.undone = script.undone
    <3>1. Memo(script', script.number, script.home, script.off, first, script.last_undo,
               script.snapshot, script.written, script.undone)
      BY <1>2, <1>3, IndexMemo
    <3> QED BY <3>1 DEF Memo
  <2> QED BY <2>1, <2>2
<1>8. /\ report' = "none" /\ failed' \in BOOLEAN /\ (failed => failed') /\ (~o.ok => failed')
      /\ o.ok /\ mouse.loaded.content = script.snapshot => failed' = failed
      /\ o.ok => step' = "in_use"
      /\ ~o.ok => step' = "home"
  BY <1>1, <1>2, <1>6 DEF Result, Go
<1>9. TestTypes' /\ (Calm' => Calm /\ o.cost < LiveTries)
  <2>1. script' \in Scripts /\ step' \in Steps /\ failed' \in BOOLEAN
    BY <1>2, <1>7, <1>8 DEF Steps
  <2> QED BY <2>1, <1>1, <1>2, <1>5, <1>6, <1>8, Asking
<1>10. PlaceInv'
  BY <1>2, <1>7, <1>8 DEF SelfTestInv, PlaceInv
<1>11. CountInv'
  BY <1>2, <1>7, <1>8, <1>3 DEF SelfTestInv, CountInv
<1>12. MemoryInv'
  BY <1>2, <1>7, <1>8, <1>3, <1>4 DEF SelfTestInv, MemoryInv
<1>13. UndoInv'
  BY <1>2, <1>7, <1>8, <1>4 DEF SelfTestInv, UndoInv, CountInv
<1>14. UseInv'
  BY <1>2, <1>7, <1>8 DEF SelfTestInv, UseInv, MemoryInv
<1>15. ReportInv'
  <2>1. failed => failed'
    BY <1>2, <1>8
  <2>2. FALSE /\ ~o.ok => failed'
    BY <1>2, <1>8
  <2>3. report' \in {"none", "error"} /\ step' # "compare"
    BY <1>8
  <2>4. "live_active" \notin {"put_back", "restore", "compare"}
    OBVIOUS
  <2> QED BY <2>1, <2>2, <2>3, <2>4, <1>1, <1>2, <1>6, Reporting, Zenon
<1>16. ASSUME Calm' PROVE /\ Calm /\ failed' = FALSE /\ step' = "in_use"
  <2>1. /\ Sound /\ Calm /\ presses = 0 /\ presses' = 0 /\ mouse.onboard /\ mouse.spellable
    BY <1>7, <1>9, <1>16 DEF SelfTestInv, CalmInv, Calm
  <2>2. o.ok
    BY <1>5, <1>9, <1>16, <2>1 DEF Sound
  <2>3. mouse.loaded.content = script.snapshot
    BY <1>2, <2>1 DEF SelfTestInv, CalmInv, InUseAsWritten
  <2> QED BY <1>7, <1>8, <2>1, <2>2, <2>3 DEF Sound
<1>17. ASSUME Calm' PROVE Sound'
  BY <1>2, <1>7, <1>8, <1>16, <1>17 DEF SelfTestInv, CalmInv, Sound
<1>18. ASSUME Calm' PROVE Chosen'
  BY <1>2, <1>7, <1>8, <1>16, <1>18 DEF SelfTestInv, CalmInv, Chosen
<1>19. ASSUME Calm' PROVE Depth'
  BY <1>2, <1>7, <1>8, <1>16, <1>19 DEF SelfTestInv, CalmInv, Depth
<1>20. ASSUME Calm' PROVE Taken'
  BY <1>2, <1>7, <1>8, <1>16, <1>20 DEF SelfTestInv, CalmInv, Taken
<1>21. ASSUME Calm' PROVE InUseAsWritten'
  BY <1>2, <1>7, <1>8, <1>16, <1>21 DEF SelfTestInv, CalmInv, InUseAsWritten, Climbs, CountInv
<1> QED BY <1>9, <1>10, <1>11, <1>12, <1>13, <1>14, <1>15, <1>17, <1>18, <1>19, <1>20, <1>21
        DEF SelfTestInv, CalmInv

LEMMA InUseKeeps == ASSUME SelfTestInv, InUse PROVE SelfTestInv'
<1> USE DEF SetsUp, Phases, Using, Running, Ending, Early, Homed, Written
<1>1. PICK o \in Apply(Content("in_use", script.i)) :
          /\ Asked(o, "in_use", TRUE)
          /\ script' = [script EXCEPT !.undone = IF o.ok THEN @ + 1 ELSE @,
                                    !.i = IF o.ok /\ @ < 3 THEN @ ELSE IF @ < 3 THEN @ + 1 ELSE 1]
          /\ Go(CASE script.i < 3 /\ o.ok  -> "live_in_use"
                [] script.i < 3 /\ ~o.ok -> "in_use"
                [] OTHER                 -> AfterInUse, o.ok /\ o.effect = "now")
  BY Zenon DEF InUse, Ask, Asked
<1>2. /\ step = "in_use" /\ Ready /\ report = "none" /\ script \in Scripts
      /\ failed \in BOOLEAN /\ start \in Mice /\ TRUE \in BOOLEAN
  BY <1>1, TestReady DEF Asked
<1>3. /\ Content("in_use", script.i) \in Contents
      /\ Content("in_use", script.i).kind = "in_use" /\ Content("in_use", script.i).n = script.i
      /\ ~IsScrambled(Content("in_use", script.i)) /\ Rank(Content("in_use", script.i)) = script.i
  BY <1>2, ContentsWritten, ContentOfKind DEF SelfTestInv, CountInv, IsScrambled, Rank
<1>4. /\ Torn.kind = "torn" /\ ~IsScrambled(Torn) /\ mouse.memory \in Contents
      /\ undo \in Seq(Contents) /\ mouse \in Mice
  BY <1>2, KindsOf, MouseFields DEF Ready
<1>5. /\ script.undone \in Nat /\ script.undone <= Len(undo) /\ Len(undo) \in Nat
      /\ script.i \in 1..3 /\ script.undone < script.i
      /\ ~IsScrambled(mouse.memory) /\ Rank(mouse.memory) < script.i
      /\ Content("in_use", script.i) # mouse.memory /\ Rank(Torn) = 0
      /\ Rank(mouse.memory) \in Nat
  <2>1. /\ script.undone \in Nat /\ script.undone <= Len(undo) /\ Len(undo) \in Nat
        /\ script.i \in 1..3 /\ script.undone < script.i
    BY <1>2, <1>4, ScriptFields DEF SelfTestInv, CountInv, UndoInv
  <2>2. ~IsScrambled(mouse.memory) /\ Rank(mouse.memory) < script.i
    BY <1>2 DEF SelfTestInv, MemoryInv
  <2>3. Content("in_use", script.i) # mouse.memory
    BY <1>3, <2>1, <2>2
  <2>4. Rank(Torn) = 0
    BY <1>4 DEF Rank
  <2> QED BY <1>4, <2>1, <2>2, <2>3, <2>4, RankIs
<1>6. Applied(o, Content("in_use", script.i))
  BY <1>2, <1>3, ApplyIs, Zenon
<1>7. /\ o.mouse \in Mice /\ o.undo \in Seq(Contents) /\ o.ok \in BOOLEAN /\ o.cost \in Nat
      /\ o.mouse.onboard = mouse.onboard /\ o.mouse.spellable = mouse.spellable
  BY <1>2, <1>6, OutcomeFields DEF Applied, Rewrites, Same
<1>8. /\ undo' \in {undo, Append(undo, mouse.memory)} /\ presses' = presses /\ start' = start
      /\ mouse'.memory \in {mouse.memory, Torn, Content("in_use", script.i)}
      /\ o.ok => mouse'.memory = Content("in_use", script.i)
      /\ mouse'.on = mouse.on /\ mouse'.torn = mouse.torn
      /\ script' \in Scripts
      /\ script'.number = script.number
      /\ script'.home = script.home
      /\ script'.off = script.off
      /\ script'.i = (IF o.ok /\ script.i < 3 THEN script.i
                           ELSE IF script.i < 3 THEN script.i + 1 ELSE 1)
      /\ script'.last_undo = script.last_undo
      /\ script'.snapshot = script.snapshot
      /\ script'.written = script.written
      /\ script'.undone = (IF o.ok THEN script.undone + 1 ELSE script.undone)
  <2>1. /\ undo' \in {undo, Append(undo, mouse.memory)} /\ presses' = presses /\ start' = start
        /\ mouse'.memory \in {mouse.memory, Torn, Content("in_use", script.i)}
        /\ o.ok => mouse'.memory = Content("in_use", script.i)
        /\ mouse'.on = mouse.on /\ mouse'.torn = mouse.torn
    BY <1>1, <1>2, <1>6 DEF Asked, Applied, Rewrites, Same, SelfTestInv, UseInv
  <2>2. script' \in Scripts
        /\ script'.number = script.number
        /\ script'.home = script.home
        /\ script'.off = script.off
        /\ script'.i = (IF o.ok /\ script.i < 3 THEN script.i
                             ELSE IF script.i < 3 THEN script.i + 1 ELSE 1)
        /\ script'.last_undo = script.last_undo
        /\ script'.snapshot = script.snapshot
        /\ script'.written = script.written
        /\ script'.undone = (IF o.ok THEN script.undone + 1 ELSE script.undone)
    <3> DEFINE added == IF o.ok THEN script.undone + 1 ELSE script.undone
               next == IF o.ok /\ script.i < 3 THEN script.i
                       ELSE IF script.i < 3 THEN script.i + 1 ELSE 1
    <3>1. added \in 0..3 /\ next \in Nat
      BY <1>5
    <3>2. script' = [script EXCEPT !.undone = added, !.i = next]
      BY <1>1
    <3> HIDE DEF added, next
    <3>3. Memo(script', script.number, script.home, script.off, next, script.last_undo,
               script.snapshot, script.written, added)
      BY <1>2, <3>1, <3>2, InUseMemo
    <3> QED BY <3>3 DEF Memo, added, next
  <2> QED BY <2>1, <2>2
<1>9. /\ report' = "none" /\ failed' \in BOOLEAN /\ (failed => failed') /\ (~o.ok => failed')
      /\ o.ok /\ o.effect = "now" => failed' = failed
      /\ \/ script.i < 3 /\ o.ok /\ step' = "live_in_use"
         \/ script.i < 3 /\ ~o.ok /\ step' = "in_use"
         \/ script.i = 3 /\ script'.undone > 0 /\ step' = "undo_in_use"
         \/ script.i = 3 /\ script'.undone = 0 /\ step' = "live_undone"
  <2>1. /\ report' = "none" /\ failed' \in BOOLEAN /\ (failed => failed') /\ (~o.ok => failed')
        /\ o.ok /\ o.effect = "now" => failed' = failed
    BY <1>1, <1>2, <1>7 DEF Go
  <2>2. step' = CASE script.i < 3 /\ o.ok  -> "live_in_use"
                  [] script.i < 3 /\ ~o.ok -> "in_use"
                  [] OTHER                 -> AfterInUse
    BY <1>1 DEF Go
  <2>3. CASE script.i < 3 /\ o.ok
    BY <2>1, <2>2, <2>3
  <2>4. CASE script.i < 3 /\ ~o.ok
    BY <2>1, <2>2, <2>4
  <2>5. CASE ~(script.i < 3)
    <3>1. step' = AfterInUse
      BY <2>2, <2>5
    <3>2. script.i = 3 /\ script'.undone \in Nat
      BY <1>8, <1>5, <2>5, ScriptFields
    <3> QED BY <2>1, <3>1, <3>2 DEF AfterInUse
  <2> QED BY <1>7, <2>3, <2>4, <2>5

<1>10. Pushed(undo, undo', mouse.memory)
  <2>1. undo' \in {undo, Append(undo, mouse.memory)}
    BY <1>8
  <2> QED BY <2>1, <1>4, PushIs, Zenon
<1>11. o.ok => Len(undo') = Len(undo) + 1
  BY <1>1, <1>6, <1>4, <1>5, PushIs DEF Asked, Applied
<1>12. mouse'.loaded.content \in {mouse.loaded.content, Own, Content("in_use", script.i)}
  BY <1>1, <1>6 DEF Asked, Applied, Rewrites
<1>13. TestTypes' /\ (Calm' => Calm /\ o.cost = 0)
  <2>1. script' \in Scripts /\ step' \in Steps /\ failed' \in BOOLEAN
    BY <1>2, <1>8, <1>9 DEF Steps
  <2>2. o.effect # "live"
    BY <1>6, OutcomeFields DEF Applied, Rewrites
  <2> QED BY <2>1, <2>2, <1>1, <1>2, <1>7, <1>9, Asking
<1>14. PlaceInv'
  BY <1>2, <1>8, <1>9 DEF SelfTestInv, PlaceInv
<1>15. CountInv'
  BY <1>2, <1>8, <1>9, <1>5 DEF SelfTestInv, CountInv
<1>16. MemoryInv'
  BY <1>2, <1>8, <1>9, <1>5, <1>3, <1>4 DEF SelfTestInv, MemoryInv
<1>17. UndoInv'
  BY <1>2, <1>8, <1>9, <1>5, <1>11, <1>3, <1>4, <1>10 DEF SelfTestInv, UndoInv, Pushed
<1>18. UseInv'
  BY <1>2, <1>8, <1>9, <1>5, <1>12, KindsOf, <1>3, <1>4 DEF SelfTestInv, UseInv, MemoryInv
<1>19. ReportInv'
  <2>1. failed => failed'
    BY <1>2, <1>9
  <2>2. TRUE /\ ~o.ok => failed'
    BY <1>2, <1>9
  <2>3. report' \in {"none", "error"} /\ step' # "compare"
    BY <1>9
  <2>4. "in_use" \notin {"put_back", "restore", "compare"}
    OBVIOUS
  <2> QED BY <2>1, <2>2, <2>3, <2>4, <1>1, <1>2, <1>7, Reporting, Zenon
<1>20. ASSUME Calm' PROVE /\ Calm /\ failed' = FALSE /\ o.ok
                          /\ mouse'.memory = Content("in_use", script.i)
                          /\ mouse'.current = mouse.current
                          /\ mouse'.loaded.content = mouse'.memory
                          /\ Climbs(mouse'.memory, undo', script'.snapshot, script'.undone)
  <2>1. /\ Sound /\ Calm /\ o.cost = 0 /\ presses = 0 /\ presses' = 0
        /\ mouse.onboard /\ mouse.spellable
    BY <1>8, <1>13, <1>20 DEF SelfTestInv, CalmInv, Calm
  <2>2. Smooth(o, Content("in_use", script.i))
    BY <1>6, <2>1 DEF Applied, Sound
  <2>3. Climbs(mouse.memory, undo, script.snapshot, script.undone)
    BY <1>2, <2>1 DEF SelfTestInv, CalmInv, InUseAsWritten
  <2>4. Climbs(Content("in_use", script.i), Append(undo, mouse.memory), script.snapshot,
               script.undone + 1)
    BY <1>3, <1>4, <1>5, <2>3, ClimbsOn
  <2>5. mouse.current = script.number /\ mouse.on \ {script.number} # {}
    BY <1>2, <2>1 DEF SelfTestInv, CalmInv, InUseAsWritten, Chosen, UseInv
  <2>6. /\ o.ok /\ o.effect = "now" /\ o.mouse.current = mouse.current
        /\ o.mouse.loaded.content = Content("in_use", script.i)
    BY <1>5, <2>1, <2>2, <2>5 DEF Smooth
  <2>7. undo' = Append(undo, mouse.memory)
    BY <1>1, <1>6, <1>5, <2>6 DEF Asked, Applied
  <2>8. failed' = FALSE
    BY <1>9, <2>1, <2>6 DEF Sound
  <2> QED BY <1>1, <1>8, <1>5, <2>1, <2>4, <2>6, <2>7, <2>8 DEF Asked
<1>21. ASSUME Calm' PROVE Sound'
  <2>1. Sound
    BY <1>20, <1>21 DEF SelfTestInv, CalmInv
  <2>2. mouse'.memory # Torn
    BY <1>8, <1>20, <1>21, <1>3, <1>4, <2>1 DEF Sound
  <2>3. \A j \in 1..Len(undo') : undo'[j] # Torn
    BY <1>10, <2>1 DEF Sound, Pushed
  <2> QED BY <1>2, <1>8, <1>9, <1>20, <1>21, <2>1, <2>2, <2>3 DEF Sound, Calm
<1>22. ASSUME Calm' PROVE Chosen'
  BY <1>2, <1>8, <1>9, <1>20, <1>22, <1>3, <1>4 DEF SelfTestInv, CalmInv, Chosen
<1>23. ASSUME Calm' PROVE Depth'
  BY <1>2, <1>8, <1>9, <1>20, <1>23, <1>3, <1>4, <1>10 DEF SelfTestInv, CalmInv, Depth, Pushed
<1>24. ASSUME Calm' PROVE Taken'
  BY <1>2, <1>8, <1>9, <1>20, <1>24, <1>3, <1>4, <1>10 DEF SelfTestInv, CalmInv, Taken, Pushed
<1>25. ASSUME Calm' PROVE InUseAsWritten'
  BY <1>2, <1>8, <1>9, <1>20, <1>25, <1>5, <1>3, <1>4 DEF SelfTestInv, CalmInv, InUseAsWritten
<1> QED BY <1>13, <1>14, <1>15, <1>16, <1>17, <1>18, <1>19, <1>21, <1>22, <1>23, <1>24, <1>25
        DEF SelfTestInv, CalmInv

LEMMA LiveInUseKeeps == ASSUME SelfTestInv, LiveInUse PROVE SelfTestInv'
<1> USE DEF SetsUp, Phases, Using, Running, Ending, Early, Homed, Written
<1>1. PICK o \in IF script.i = 1 THEN Live ELSE ReadState :
          /\ Asked(o, "live_in_use", FALSE)
          /\ script' = [script EXCEPT !.i = @ + 1]
          /\ Result(o, "in_use", mouse.loaded.content = mouse.memory)
  BY Zenon DEF LiveInUse, Ask, Asked
<1>2. /\ step = "live_in_use" /\ Ready /\ report = "none" /\ script \in Scripts
      /\ failed \in BOOLEAN /\ start \in Mice /\ FALSE \in BOOLEAN
  BY <1>1, TestReady DEF Asked
<1>3. script.i \in Nat /\ script.i + 1 \in Nat /\ script.undone \in Nat
      /\ Rank(mouse.memory) \in Nat
  BY <1>2, ScriptFields, MouseFields, RankIs DEF Ready
<1>4. /\ o.mouse = mouse /\ o.undo = undo /\ o.ok \in BOOLEAN /\ o.cost \in Nat
      /\ \/ o.effect = "live" /\ o.ok = (o.cost < LiveTries)
         \/ /\ o.effect # "live"
            /\ o.cost = 0 /\ ~mouse.torn /\ mouse.memory # Torn => o.ok
  <2>1. CASE o \in Live
    BY <2>1, LiveIs
  <2>2. CASE o \in ReadState
    BY <1>2, <2>2, ReadStateIs, OutcomeFields DEF Reads
  <2> QED BY <2>1, <2>2
<1>5. /\ o.mouse \in Mice /\ o.undo \in Seq(Contents) /\ o.ok \in BOOLEAN /\ o.cost \in Nat
      /\ o.mouse.onboard = mouse.onboard /\ o.mouse.spellable = mouse.spellable
  BY <1>2, <1>4 DEF Ready
<1>6. /\ mouse' = mouse /\ undo' = undo /\ presses' = presses /\ start' = start
      /\ script' \in Scripts
      /\ script'.number = script.number
      /\ script'.home = script.home
      /\ script'.off = script.off
      /\ script'.i = script.i + 1
      /\ script'.last_undo = script.last_undo
      /\ script'.snapshot = script.snapshot
      /\ script'.written = script.written
      /\ script'.undone = script.undone
  <2>1. mouse' = mouse /\ undo' = undo /\ presses' = presses /\ start' = start
    BY <1>1, <1>2, <1>4 DEF Asked, Reads
  <2>2. script' \in Scripts
        /\ script'.number = script.number
        /\ script'.home = script.home
        /\ script'.off = script.off
        /\ script'.i = script.i + 1
        /\ script'.last_undo = script.last_undo
        /\ script'.snapshot = script.snapshot
        /\ script'.written = script.written
        /\ script'.undone = script.undone
    <3>1. Memo(script', script.number, script.home, script.off, script.i + 1, script.last_undo,
               script.snapshot, script.written, script.undone)
      BY <1>1, <1>2, <1>3, IndexMemo
    <3> QED BY <3>1 DEF Memo
  <2> QED BY <2>1, <2>2
<1>7. /\ report' = "none" /\ failed' \in BOOLEAN /\ (failed => failed') /\ (~o.ok => failed')
      /\ o.ok /\ mouse.loaded.content = mouse.memory => failed' = failed
      /\ o.ok => step' = "in_use"
      /\ ~o.ok => step' = "home"
  BY <1>1, <1>2, <1>5 DEF Result, Go
<1>8. TestTypes' /\ (Calm' => Calm /\ (o.effect = "live" => o.cost < LiveTries)
                                 /\ (o.effect # "live" => o.cost = 0))
  <2>1. script' \in Scripts /\ step' \in Steps /\ failed' \in BOOLEAN
    BY <1>2, <1>6, <1>7 DEF Steps
  <2> QED BY <2>1, <1>1, <1>2, <1>4, <1>5, <1>7, Asking
<1>9. PlaceInv'
  BY <1>2, <1>6, <1>7 DEF SelfTestInv, PlaceInv
<1>10. CountInv'
  BY <1>2, <1>6, <1>7, <1>3 DEF SelfTestInv, CountInv
<1>11. MemoryInv'
  BY <1>2, <1>6, <1>7, <1>3 DEF SelfTestInv, MemoryInv
<1>12. UndoInv'
  BY <1>2, <1>6, <1>7 DEF SelfTestInv, UndoInv
<1>13. UseInv'
  BY <1>2, <1>6, <1>7 DEF SelfTestInv, UseInv, MemoryInv
<1>14. ReportInv'
  <2>1. failed => failed'
    BY <1>2, <1>7
  <2>2. FALSE /\ ~o.ok => failed'
    BY <1>2, <1>7
  <2>3. report' \in {"none", "error"} /\ step' # "compare"
    BY <1>7
  <2>4. "live_in_use" \notin {"put_back", "restore", "compare"}
    OBVIOUS
  <2> QED BY <2>1, <2>2, <2>3, <2>4, <1>1, <1>2, <1>5, Reporting, Zenon
<1>15. ASSUME Calm' PROVE /\ Calm /\ failed' = FALSE /\ step' = "in_use"
  <2>1. /\ Sound /\ Calm /\ presses = 0 /\ presses' = 0 /\ mouse.onboard /\ mouse.spellable
    BY <1>6, <1>8, <1>15 DEF SelfTestInv, CalmInv, Calm
  <2>2. o.ok
    BY <1>4, <1>8, <1>15, <2>1 DEF Sound
  <2>3. mouse.loaded.content = mouse.memory
    BY <1>2, <2>1 DEF SelfTestInv, CalmInv, InUseAsWritten
  <2> QED BY <1>6, <1>7, <2>1, <2>2, <2>3 DEF Sound
<1>16. ASSUME Calm' PROVE Sound'
  BY <1>2, <1>6, <1>7, <1>15, <1>16 DEF SelfTestInv, CalmInv, Sound
<1>17. ASSUME Calm' PROVE Chosen'
  BY <1>2, <1>6, <1>7, <1>15, <1>17 DEF SelfTestInv, CalmInv, Chosen
<1>18. ASSUME Calm' PROVE Depth'
  BY <1>2, <1>6, <1>7, <1>15, <1>18 DEF SelfTestInv, CalmInv, Depth
<1>19. ASSUME Calm' PROVE Taken'
  BY <1>2, <1>6, <1>7, <1>15, <1>19 DEF SelfTestInv, CalmInv, Taken
<1>20. ASSUME Calm' PROVE InUseAsWritten'
  BY <1>2, <1>6, <1>7, <1>15, <1>20 DEF SelfTestInv, CalmInv, InUseAsWritten
<1> QED BY <1>8, <1>9, <1>10, <1>11, <1>12, <1>13, <1>14, <1>16, <1>17, <1>18, <1>19, <1>20
        DEF SelfTestInv, CalmInv

LEMMA UndoInUseKeeps == ASSUME SelfTestInv, UndoInUse PROVE SelfTestInv'
<1> USE DEF SetsUp, Phases, Using, Running, Ending, Early, Homed, Written
<1>1. PICK o \in Undo :
          /\ Asked(o, "undo_in_use", TRUE)
          /\ script' = [script EXCEPT !.undone = @ - 1]
          /\ Result(o, IF script.undone > 1 THEN "undo_in_use" ELSE "live_undone", o.effect = "now")
  BY Zenon DEF UndoInUse, Ask, Asked
<1>2. /\ step = "undo_in_use" /\ Ready /\ report = "none" /\ script \in Scripts
      /\ failed \in BOOLEAN /\ start \in Mice /\ TRUE \in BOOLEAN
  BY <1>1, TestReady DEF Asked
<1>3. undo # <<>> => /\ Last(undo) \in Contents /\ Last(undo) = undo[Len(undo)]
                     /\ Len(undo) \in Nat /\ Len(undo) > 0 /\ Len(undo) \in 1..Len(undo)
  BY <1>2, LatestIs DEF Ready
<1>4. /\ Torn.kind = "torn" /\ ~IsScrambled(Torn) /\ mouse.memory \in Contents
      /\ undo \in Seq(Contents) /\ mouse \in Mice
  BY <1>2, KindsOf, MouseFields DEF Ready
<1>5. /\ undo # <<>> /\ script.undone \in Nat \ {0} /\ script.undone <= Len(undo)
      /\ script.undone <= 3 /\ script.undone - 1 \in 0..3 /\ ~IsScrambled(Last(undo))
  <2>1. script.undone \in Nat \ {0} /\ script.undone <= Len(undo) /\ script.undone <= 3
    BY <1>2, ScriptFields DEF SelfTestInv, CountInv, UndoInv
  <2>2. undo # <<>>
    BY <2>1
  <2>3. ~IsScrambled(undo[Len(undo)])
    BY <1>2, <1>3, <2>1, <2>2 DEF SelfTestInv, UndoInv
  <2> QED BY <1>3, <2>1, <2>2, <2>3
<1>6. Undoes(o)
  BY <1>2, UndoIs, Zenon
<1>7. /\ o.mouse \in Mice /\ o.undo \in Seq(Contents) /\ o.ok \in BOOLEAN /\ o.cost \in Nat
      /\ o.mouse.onboard = mouse.onboard /\ o.mouse.spellable = mouse.spellable
  BY <1>2, <1>6, OutcomeFields DEF Undoes, Rewrites, Same
<1>8. /\ undo' = undo \/ (undo # <<>> /\ undo' = Front(undo))
      /\ presses' = presses /\ start' = start
      /\ mouse'.memory \in {mouse.memory, Torn} \/ (undo # <<>> /\ mouse'.memory = Last(undo))
      /\ o.ok => undo # <<>> /\ mouse'.memory = Last(undo) /\ undo' = Front(undo)
      /\ mouse'.on = mouse.on /\ mouse'.torn = mouse.torn
      /\ \/ mouse'.loaded.content \in {mouse.loaded.content, Own}
         \/ undo # <<>> /\ mouse'.loaded.content = Last(undo)
      /\ script' \in Scripts
      /\ script'.number = script.number
      /\ script'.home = script.home
      /\ script'.off = script.off
      /\ script'.i = script.i
      /\ script'.last_undo = script.last_undo
      /\ script'.snapshot = script.snapshot
      /\ script'.written = script.written
      /\ script'.undone = script.undone - 1
  <2>1. /\ undo' = undo \/ (undo # <<>> /\ undo' = Front(undo))
        /\ presses' = presses /\ start' = start
        /\ mouse'.memory \in {mouse.memory, Torn} \/ (undo # <<>> /\ mouse'.memory = Last(undo))
        /\ o.ok => undo # <<>> /\ mouse'.memory = Last(undo) /\ undo' = Front(undo)
        /\ mouse'.on = mouse.on /\ mouse'.torn = mouse.torn
        /\ \/ mouse'.loaded.content \in {mouse.loaded.content, Own}
           \/ undo # <<>> /\ mouse'.loaded.content = Last(undo)
    <3>1. mouse' = o.mouse /\ undo' = o.undo /\ presses' = presses /\ start' = start
      BY <1>1 DEF Asked
    <3>2. CASE undo = <<>>
      <4>1. o.mouse = mouse /\ o.undo = undo /\ ~o.ok
        BY <1>6, <3>2, Zenon DEF Undoes
      <4>2. mouse' = mouse /\ undo' = undo
        BY <3>1, <4>1, Zenon
      <4>3. mouse'.memory \in {mouse.memory, Torn} /\ mouse'.loaded.content = mouse.loaded.content
        BY <4>2
      <4> QED BY <3>1, <4>1, <4>2, <4>3, Zenon
    <3>3. CASE undo # <<>>
      <4>1. o.ok => o.mouse.memory = Last(undo) /\ o.undo = Front(undo)
        BY <1>6 DEF Undoes, Rewrites
      <4>2. o.undo \in {undo, Front(undo)} /\ o.mouse.memory \in {mouse.memory, Torn, Last(undo)}
        BY <1>6 DEF Undoes, Rewrites
      <4>3. o.mouse.on = mouse.on /\ o.mouse.torn = mouse.torn
        BY <1>6 DEF Undoes, Rewrites, Same
      <4>4. o.mouse.loaded.content \in {mouse.loaded.content, Own, Last(undo)}
        BY <1>2, <1>6 DEF Undoes, Rewrites, SelfTestInv, UseInv
      <4>5. mouse'.memory \in {mouse.memory, Torn} \/ mouse'.memory = Last(undo)
        BY <3>1, <4>2
      <4>6. undo' = undo \/ undo' = Front(undo)
        BY <3>1, <4>2
      <4> QED BY <3>1, <3>3, <4>1, <4>3, <4>4, <4>5, <4>6, Zenon
    <3> QED BY <3>2, <3>3
  <2>2. script' \in Scripts
        /\ script'.number = script.number
        /\ script'.home = script.home
        /\ script'.off = script.off
        /\ script'.i = script.i
        /\ script'.last_undo = script.last_undo
        /\ script'.snapshot = script.snapshot
        /\ script'.written = script.written
        /\ script'.undone = script.undone - 1
    <3>1. Memo(script', script.number, script.home, script.off, script.i, script.last_undo,
               script.snapshot, script.written, script.undone - 1)
      BY <1>1, <1>2, <1>5, UndoneMemo
    <3> QED BY <3>1 DEF Memo
  <2> QED BY <2>1, <2>2
<1>9. /\ report' = "none" /\ failed' \in BOOLEAN /\ (failed => failed') /\ (~o.ok => failed')
      /\ o.ok /\ o.effect = "now" => failed' = failed
      /\ o.ok => step' = IF script.undone > 1 THEN "undo_in_use" ELSE "live_undone"
      /\ ~o.ok => step' = "home"
  BY <1>1, <1>2, <1>7 DEF Go, Result
<1>10. Popped(undo, undo')
  <2>1. undo' = undo \/ (undo # <<>> /\ undo' = Front(undo))
    BY <1>8
  <2> QED BY <2>1, <1>4, PopIs, Zenon
<1>11. TestTypes' /\ (Calm' => Calm /\ o.cost = 0)
  <2>1. script' \in Scripts /\ step' \in Steps /\ failed' \in BOOLEAN
    BY <1>2, <1>8, <1>9 DEF Steps
  <2>2. o.effect # "live"
    BY <1>6, OutcomeFields DEF Undoes, Rewrites
  <2> QED BY <2>1, <2>2, <1>1, <1>2, <1>7, <1>9, Asking
<1>12. PlaceInv'
  BY <1>2, <1>8, <1>9 DEF SelfTestInv, PlaceInv
<1>13. CountInv'
  BY <1>2, <1>8, <1>9, <1>5 DEF SelfTestInv, CountInv
<1>14. MemoryInv'
  BY <1>2, <1>8, <1>9, <1>5, <1>3, <1>4 DEF SelfTestInv, MemoryInv
<1>15. UndoInv'
  BY <1>2, <1>8, <1>9, <1>5, <1>3, <1>4, <1>10 DEF SelfTestInv, UndoInv, Popped
<1>16. UseInv'
  BY <1>2, <1>8, <1>9, <1>5, KindsOf, <1>3, <1>4 DEF SelfTestInv, UseInv, MemoryInv
<1>17. ReportInv'
  <2>1. failed => failed'
    BY <1>2, <1>9
  <2>2. TRUE /\ ~o.ok => failed'
    BY <1>2, <1>9
  <2>3. report' \in {"none", "error"} /\ step' # "compare"
    BY <1>9
  <2>4. "undo_in_use" \notin {"put_back", "restore", "compare"}
    OBVIOUS
  <2> QED BY <2>1, <2>2, <2>3, <2>4, <1>1, <1>2, <1>7, Reporting, Zenon
<1>18. ASSUME Calm' PROVE /\ Calm /\ failed' = FALSE /\ undo # <<>> /\ o.ok
                          /\ mouse'.memory = Last(undo) /\ Last(undo) # Torn
                          /\ script.undone = 1 => mouse'.memory = script'.snapshot
                          /\ mouse'.current = mouse.current
                          /\ mouse'.loaded.content = mouse'.memory
                          /\ Climbs(mouse'.memory, undo', script'.snapshot, script'.undone)
  <2>1. /\ Sound /\ Calm /\ o.cost = 0 /\ presses = 0 /\ presses' = 0
        /\ mouse.onboard /\ mouse.spellable
    BY <1>8, <1>11, <1>18 DEF SelfTestInv, CalmInv, Calm
  <2>2. undo # <<>> => Smooth(o, Last(undo))
    BY <1>6, <2>1 DEF Undoes, Sound
  <2>3. Climbs(mouse.memory, undo, script.snapshot, script.undone)
    BY <1>2, <2>1 DEF SelfTestInv, CalmInv, InUseAsWritten
  <2>4. /\ Rank(Last(undo)) < Rank(mouse.memory)
        /\ Climbs(Last(undo), Front(undo), script.snapshot, script.undone - 1)
    BY <1>4, <1>5, <2>3, ClimbsOff
  <2>5. Last(undo) # mouse.memory
    BY <1>3, <1>4, <1>5, <2>4, RankIs
  <2>6. mouse.current = script.number /\ mouse.on \ {script.number} # {}
    BY <1>2, <2>1 DEF SelfTestInv, CalmInv, InUseAsWritten, Chosen, UseInv
  <2>7. /\ o.ok /\ o.effect = "now" /\ o.mouse.current = mouse.current
        /\ o.mouse.loaded.content = Last(undo)
    BY <1>5, <2>1, <2>2, <2>5, <2>6 DEF Smooth
  <2>8. Last(undo) # Torn
    BY <1>3, <1>5, <2>1 DEF Sound
  <2>9. failed' = FALSE
    BY <1>9, <2>1, <2>7 DEF Sound
  <2>10. script.undone = 1 => Last(undo) = script.snapshot
    BY <1>5, <2>4 DEF Climbs
  <2> QED BY <1>1, <1>8, <1>5, <2>1, <2>4, <2>7, <2>8, <2>9, <2>10 DEF Asked
<1>19. ASSUME Calm' PROVE Sound'
  <2>1. Sound
    BY <1>18, <1>19 DEF SelfTestInv, CalmInv
  <2>2. undo # <<>> => Last(undo) # Torn
    BY <1>3, <2>1 DEF Sound
  <2>3. mouse'.memory # Torn
    BY <1>18, <1>19, <2>2
  <2>4. \A j \in 1..Len(undo') : undo'[j] # Torn
    BY <1>10, <2>1 DEF Sound, Popped
  <2> QED BY <1>2, <1>8, <1>9, <1>18, <1>19, <2>1, <2>3, <2>4 DEF Sound, Calm
<1>20. ASSUME Calm' PROVE Chosen'
  BY <1>2, <1>8, <1>9, <1>18, <1>20, <1>3, <1>4 DEF SelfTestInv, CalmInv, Chosen
<1>21. ASSUME Calm' PROVE Depth'
  BY <1>2, <1>8, <1>9, <1>18, <1>21, <1>3, <1>4, <1>10 DEF SelfTestInv, CalmInv, Depth, Popped
<1>22. ASSUME Calm' PROVE Taken'
  BY <1>2, <1>8, <1>9, <1>18, <1>22, <1>3, <1>4, <1>10 DEF SelfTestInv, CalmInv, Taken, Popped
<1>23. ASSUME Calm' PROVE InUseAsWritten'
  BY <1>2, <1>8, <1>9, <1>18, <1>23, <1>5, <1>3, <1>4 DEF SelfTestInv, CalmInv, InUseAsWritten
<1> QED BY <1>11, <1>12, <1>13, <1>14, <1>15, <1>16, <1>17, <1>19, <1>20, <1>21, <1>22, <1>23
        DEF SelfTestInv, CalmInv

LEMMA LiveUndoneKeeps == ASSUME SelfTestInv, LiveUndone PROVE SelfTestInv'
<1> USE DEF SetsUp, Phases, Using, Running, Ending, Early, Homed, Written
<1>1. PICK o \in Live :
          /\ Asked(o, "live_undone", FALSE)
          /\ UNCHANGED script
          /\ Result(o, "rate_undone", mouse.loaded.content = script.snapshot)
  BY Zenon DEF LiveUndone, Ask, Asked
<1>2. /\ step = "live_undone" /\ Ready /\ report = "none" /\ script \in Scripts
      /\ failed \in BOOLEAN /\ start \in Mice /\ FALSE \in BOOLEAN
  BY <1>1, TestReady DEF Asked
<1>3. /\ o.mouse = mouse /\ o.undo = undo /\ o.effect = "live"
      /\ o.cost \in Nat /\ o.cost <= LiveTries
      /\ o.ok = (o.cost < LiveTries) /\ o.ok \in BOOLEAN
  BY <1>1, LiveIs
<1>4. /\ o.mouse \in Mice /\ o.undo \in Seq(Contents) /\ o.ok \in BOOLEAN /\ o.cost \in Nat
      /\ o.mouse.onboard = mouse.onboard /\ o.mouse.spellable = mouse.spellable
  BY <1>2, <1>3 DEF Ready
<1>5. mouse' = mouse /\ undo' = undo /\ presses' = presses /\ start' = start
      /\ script' = script
  BY <1>1, <1>2, <1>3 DEF Asked, Reads
<1>6. /\ report' = "none"
      /\ \/ /\ o.ok /\ step' = "rate_undone" /\ failed' \in BOOLEAN /\ (failed => failed')
            /\ mouse.loaded.content = script.snapshot => failed' = failed
         \/ ~o.ok /\ step' = "home" /\ failed' = TRUE
  BY <1>1, <1>2, <1>4 DEF Result, Go
<1>7. TestTypes' /\ (Calm' => Calm /\ o.cost < LiveTries)
  <2>1. script' \in Scripts /\ step' \in Steps /\ failed' \in BOOLEAN
    BY <1>2, <1>5, <1>6 DEF Steps
  <2> QED BY <2>1, <1>1, <1>2, <1>3, <1>4, <1>6, Asking
<1>8. PlaceInv'
  BY <1>2, <1>5, <1>6 DEF SelfTestInv, PlaceInv
<1>9. CountInv'
  BY <1>2, <1>5, <1>6 DEF SelfTestInv, CountInv
<1>10. MemoryInv'
  BY <1>2, <1>5, <1>6 DEF SelfTestInv, MemoryInv
<1>11. UndoInv'
  BY <1>2, <1>5, <1>6 DEF SelfTestInv, UndoInv
<1>12. UseInv'
  BY <1>2, <1>5, <1>6 DEF SelfTestInv, UseInv, MemoryInv
<1>13. ReportInv'
  <2>1. failed => failed'
    BY <1>2, <1>6
  <2>2. FALSE /\ ~o.ok => failed'
    BY <1>2, <1>6
  <2>3. report' \in {"none", "error"} /\ step' # "compare"
    BY <1>6
  <2>4. "live_undone" \notin {"put_back", "restore", "compare"}
    OBVIOUS
  <2> QED BY <2>1, <2>2, <2>3, <2>4, <1>1, <1>2, <1>4, Reporting, Zenon
<1>14. ASSUME Calm' PROVE step' = "rate_undone" /\ Calm /\ failed' = FALSE
  BY <1>2, <1>3, <1>4, <1>6, <1>7, <1>14, <1>5
     DEF SelfTestInv, CalmInv, Sound, Reads, InUseAsWritten
<1>15. ASSUME Calm' PROVE Sound'
  BY <1>2, <1>5, <1>6, <1>14, <1>15 DEF SelfTestInv, CalmInv, Sound
<1>16. ASSUME Calm' PROVE Chosen'
  BY <1>2, <1>5, <1>6, <1>14, <1>16 DEF SelfTestInv, CalmInv, Chosen
<1>17. ASSUME Calm' PROVE Depth'
  BY <1>2, <1>5, <1>6, <1>14, <1>17 DEF SelfTestInv, CalmInv, Depth
<1>18. ASSUME Calm' PROVE Taken'
  BY <1>2, <1>5, <1>6, <1>14, <1>18 DEF SelfTestInv, CalmInv, Taken
<1>19. ASSUME Calm' PROVE InUseAsWritten'
  BY <1>2, <1>5, <1>6, <1>14, <1>19 DEF SelfTestInv, CalmInv, InUseAsWritten
<1> QED BY <1>7, <1>8, <1>9, <1>10, <1>11, <1>12, <1>13, <1>15, <1>16, <1>17, <1>18, <1>19
        DEF SelfTestInv, CalmInv

LEMMA RateUndoneKeeps == ASSUME SelfTestInv, RateUndone PROVE SelfTestInv'
<1> USE DEF SetsUp, Phases, Using, Running, Ending, Early, Homed, Written
<1>1. PICK o \in ReadState :
          /\ Asked(o, "rate_undone", FALSE)
          /\ UNCHANGED script
          /\ Result(o, "refuse_off", mouse.loaded.content = script.snapshot)
  BY Zenon DEF RateUndone, Ask, Asked
<1>2. /\ step = "rate_undone" /\ Ready /\ report = "none" /\ script \in Scripts
      /\ failed \in BOOLEAN /\ start \in Mice /\ FALSE \in BOOLEAN
  BY <1>1, TestReady DEF Asked
<1>3. Reads(o)
  BY <1>1, <1>2, ReadStateIs
<1>4. /\ o.mouse \in Mice /\ o.undo \in Seq(Contents) /\ o.ok \in BOOLEAN /\ o.cost \in Nat
      /\ o.mouse.onboard = mouse.onboard /\ o.mouse.spellable = mouse.spellable
  BY <1>2, <1>3, OutcomeFields DEF Reads, Ready
<1>5. mouse' = mouse /\ undo' = undo /\ presses' = presses /\ start' = start
      /\ script' = script
  BY <1>1, <1>2, <1>3 DEF Asked, Reads
<1>6. /\ report' = "none"
      /\ \/ /\ o.ok /\ step' = "refuse_off" /\ failed' \in BOOLEAN /\ (failed => failed')
            /\ mouse.loaded.content = script.snapshot => failed' = failed
         \/ ~o.ok /\ step' = "home" /\ failed' = TRUE
  BY <1>1, <1>2, <1>4 DEF Result, Go
<1>7. TestTypes' /\ (Calm' => Calm /\ o.cost = 0)
  <2>1. script' \in Scripts /\ step' \in Steps /\ failed' \in BOOLEAN
    BY <1>2, <1>5, <1>6 DEF Steps
  <2>2. o.effect # "live"
    BY <1>3, OutcomeFields DEF Reads
  <2> QED BY <2>1, <2>2, <1>1, <1>2, <1>4, <1>6, Asking
<1>8. PlaceInv'
  BY <1>2, <1>5, <1>6 DEF SelfTestInv, PlaceInv
<1>9. CountInv'
  BY <1>2, <1>5, <1>6 DEF SelfTestInv, CountInv
<1>10. MemoryInv'
  BY <1>2, <1>5, <1>6 DEF SelfTestInv, MemoryInv
<1>11. UndoInv'
  BY <1>2, <1>5, <1>6 DEF SelfTestInv, UndoInv
<1>12. UseInv'
  BY <1>2, <1>5, <1>6 DEF SelfTestInv, UseInv, MemoryInv
<1>13. ReportInv'
  <2>1. failed => failed'
    BY <1>2, <1>6
  <2>2. FALSE /\ ~o.ok => failed'
    BY <1>2, <1>6
  <2>3. report' \in {"none", "error"} /\ step' # "compare"
    BY <1>6
  <2>4. "rate_undone" \notin {"put_back", "restore", "compare"}
    OBVIOUS
  <2> QED BY <2>1, <2>2, <2>3, <2>4, <1>1, <1>2, <1>4, Reporting, Zenon
<1>14. ASSUME Calm' PROVE step' = "refuse_off" /\ Calm /\ failed' = FALSE
  BY <1>2, <1>3, <1>4, <1>6, <1>7, <1>14, <1>5
     DEF SelfTestInv, CalmInv, Sound, Reads, InUseAsWritten
<1>15. ASSUME Calm' PROVE Sound'
  BY <1>2, <1>5, <1>6, <1>14, <1>15 DEF SelfTestInv, CalmInv, Sound
<1>16. ASSUME Calm' PROVE Chosen'
  BY <1>2, <1>5, <1>6, <1>14, <1>16 DEF SelfTestInv, CalmInv, Chosen
<1>17. ASSUME Calm' PROVE Depth'
  BY <1>2, <1>5, <1>6, <1>14, <1>17 DEF SelfTestInv, CalmInv, Depth
<1>18. ASSUME Calm' PROVE Taken'
  BY <1>2, <1>5, <1>6, <1>14, <1>18 DEF SelfTestInv, CalmInv, Taken
<1>19. ASSUME Calm' PROVE InUseAsWritten'
  BY <1>2, <1>5, <1>6, <1>14, <1>19 DEF SelfTestInv, CalmInv, InUseAsWritten
<1> QED BY <1>7, <1>8, <1>9, <1>10, <1>11, <1>12, <1>13, <1>15, <1>16, <1>17, <1>18, <1>19
        DEF SelfTestInv, CalmInv

LEMMA RefuseOffKeeps == ASSUME SelfTestInv, RefuseOff PROVE SelfTestInv'
<1> USE DEF SetsUp, Phases, Using, Running, Ending, Early, Homed, Written
<1>1. PICK o \in SetEnabled(script.number, FALSE) :
          /\ Asked(o, "refuse_off", FALSE)
          /\ UNCHANGED script
          /\ Go(IF script.off = NONE THEN "go_home" ELSE "toggle", ~o.ok)
  BY Zenon DEF RefuseOff, Ask, Asked
<1>2. /\ step = "refuse_off" /\ Ready /\ report = "none" /\ script \in Scripts
      /\ failed \in BOOLEAN /\ start \in Mice /\ FALSE \in BOOLEAN
  BY <1>1, TestReady DEF Asked
<1>3. script.number \in StoredProfile /\ FALSE \in BOOLEAN
  BY <1>2, ScriptFields DEF Ready, SelfTestInv, PlaceInv, StoredProfile, NONE
<1>4. ~IsScrambled(Own)
  BY KindsOf
<1>5. Toggles(o, script.number, FALSE)
  BY <1>1, <1>2, <1>3, SetEnabledIs
<1>6. /\ o.mouse \in Mice /\ o.undo \in Seq(Contents) /\ o.ok \in BOOLEAN /\ o.cost \in Nat
      /\ o.mouse.onboard = mouse.onboard /\ o.mouse.spellable = mouse.spellable
  BY <1>2, <1>5, OutcomeFields DEF Toggles, Turns
<1>7. /\ undo' = undo /\ presses' = presses /\ start' = start
      /\ mouse' = o.mouse /\ mouse'.memory = mouse.memory
      /\ \/ mouse'.loaded = mouse.loaded
         \/ mouse'.loaded.content \in {Own, mouse.memory}
      /\ o.ok => mouse'.current = mouse.current
      /\ script' = script
  <2>1. /\ undo' = undo /\ presses' = presses /\ start' = start
        /\ mouse' = o.mouse /\ mouse'.memory = mouse.memory
        /\ \/ mouse'.loaded = mouse.loaded
           \/ mouse'.loaded.content \in {Own, mouse.memory}
        /\ o.ok => mouse'.current = mouse.current
    BY <1>1, <1>2, <1>5 DEF Asked, Toggles, Turns, ContentOf
  <2>2. /\ script' = script
    BY <1>1
  <2> QED BY <2>1, <2>2
<1>8. /\ report' = "none" /\ failed' \in BOOLEAN /\ (failed => failed')
      /\ ~o.ok => failed' = failed
      /\ step' = IF script.off = NONE THEN "go_home" ELSE "toggle"
  BY <1>1, <1>2, <1>6 DEF Go
<1>9. TestTypes' /\ (Calm' => Calm /\ o.cost = 0)
  <2>1. script' \in Scripts /\ step' \in Steps /\ failed' \in BOOLEAN
    BY <1>2, <1>7, <1>8 DEF Steps
  <2>2. o.effect # "live"
    BY <1>5, OutcomeFields DEF Toggles, Turns
  <2> QED BY <2>1, <2>2, <1>1, <1>2, <1>6, <1>8, Asking
<1>10. PlaceInv'
  BY <1>2, <1>7, <1>8 DEF SelfTestInv, PlaceInv
<1>11. CountInv'
  BY <1>2, <1>7, <1>8 DEF SelfTestInv, CountInv
<1>12. MemoryInv'
  BY <1>2, <1>7, <1>8 DEF SelfTestInv, MemoryInv
<1>13. UndoInv'
  BY <1>2, <1>7, <1>8 DEF SelfTestInv, UndoInv
<1>14. UseInv'
  BY <1>2, <1>7, <1>8, <1>4 DEF SelfTestInv, UseInv, MemoryInv
<1>15. ReportInv'
  <2>1. failed => failed'
    BY <1>2, <1>8
  <2>2. FALSE /\ ~o.ok => failed'
    BY <1>2, <1>8
  <2>3. report' \in {"none", "error"} /\ step' # "compare"
    BY <1>8
  <2>4. "refuse_off" \notin {"put_back", "restore", "compare"}
    OBVIOUS
  <2> QED BY <2>1, <2>2, <2>3, <2>4, <1>1, <1>2, <1>6, Reporting, Zenon
<1>16. ASSUME Calm' PROVE Calm /\ failed' = FALSE /\ mouse' = mouse
  <2>1. /\ Sound /\ Calm /\ presses = 0 /\ presses' = 0 /\ mouse.onboard /\ mouse.spellable
        /\ o.cost = 0 /\ ~mouse.torn /\ mouse.memory # Torn
    BY <1>7, <1>9, <1>16 DEF SelfTestInv, CalmInv, Calm, Sound
  <2>2. mouse.current = script.number
    BY <1>2, <2>1 DEF SelfTestInv, CalmInv, InUseAsWritten
  <2>3. Refused(script.number, FALSE)
    BY <2>2 DEF Refused
  <2>4. ~o.ok /\ o.mouse = mouse
    BY <1>5, <2>1, <2>3 DEF Toggles
  <2> QED BY <1>7, <1>8, <2>1, <2>4 DEF Sound
<1>17. ASSUME Calm' PROVE Sound'
  <2>1. Sound
    BY <1>16, <1>17 DEF SelfTestInv, CalmInv
  <2> QED BY <1>2, <1>7, <1>8, <1>16, <1>17, <2>1 DEF Sound, Calm
<1>18. ASSUME Calm' PROVE Chosen'
  BY <1>2, <1>7, <1>8, <1>16, <1>18 DEF SelfTestInv, CalmInv, Chosen, CountInv
<1>19. ASSUME Calm' PROVE Depth'
  BY <1>2, <1>7, <1>8, <1>16, <1>19 DEF SelfTestInv, CalmInv, Depth
<1>20. ASSUME Calm' PROVE Taken'
  BY <1>2, <1>7, <1>8, <1>16, <1>20 DEF SelfTestInv, CalmInv, Taken
<1>21. ASSUME Calm' PROVE InUseAsWritten'
  BY <1>2, <1>7, <1>8, <1>16, <1>21 DEF SelfTestInv, CalmInv, InUseAsWritten
<1> QED BY <1>9, <1>10, <1>11, <1>12, <1>13, <1>14, <1>15, <1>17, <1>18, <1>19, <1>20, <1>21
        DEF SelfTestInv, CalmInv

LEMMA ToggleKeeps == ASSUME SelfTestInv, Toggle PROVE SelfTestInv'
<1> USE DEF SetsUp, Phases, Using, Running, Ending, Early, Homed, Written
<1>1. PICK o \in SetEnabled(script.off, (script.i = 2)) :
          /\ Asked(o, "toggle", (script.i > 1))
          /\ script' = Counted(3)
          /\ IF script.i = 1 THEN Go("toggle", ~o.ok)
             ELSE Result(o, Loop(3, "toggle", "go_home"), TRUE)
  BY Zenon DEF Toggle, Ask, Asked
<1>2. /\ step = "toggle" /\ Ready /\ report = "none" /\ script \in Scripts
      /\ failed \in BOOLEAN /\ start \in Mice /\ (script.i > 1) \in BOOLEAN
  BY <1>1, TestReady DEF Asked
<1>3. script.off \in StoredProfile /\ (script.i = 2) \in BOOLEAN
  BY <1>2, ScriptFields DEF Ready, SelfTestInv, PlaceInv, StoredProfile, NONE
<1>4. ~IsScrambled(Own)
  BY KindsOf
<1>5. Toggles(o, script.off, (script.i = 2))
  BY <1>1, <1>2, <1>3, SetEnabledIs
<1>6. /\ o.mouse \in Mice /\ o.undo \in Seq(Contents) /\ o.ok \in BOOLEAN /\ o.cost \in Nat
      /\ o.mouse.onboard = mouse.onboard /\ o.mouse.spellable = mouse.spellable
  BY <1>2, <1>5, OutcomeFields DEF Toggles, Turns
<1>7. /\ undo' = undo /\ presses' = presses /\ start' = start
      /\ mouse' = o.mouse /\ mouse'.memory = mouse.memory
      /\ \/ mouse'.loaded = mouse.loaded
         \/ mouse'.loaded.content \in {Own, mouse.memory}
      /\ o.ok => mouse'.current = mouse.current
      /\ script' \in Scripts
      /\ script'.number = script.number
      /\ script'.home = script.home
      /\ script'.off = script.off
      /\ script'.i = Following(script.i, 3)
      /\ script'.last_undo = script.last_undo
      /\ script'.snapshot = script.snapshot
      /\ script'.written = script.written
      /\ script'.undone = script.undone
  <2>1. /\ undo' = undo /\ presses' = presses /\ start' = start
        /\ mouse' = o.mouse /\ mouse'.memory = mouse.memory
        /\ \/ mouse'.loaded = mouse.loaded
           \/ mouse'.loaded.content \in {Own, mouse.memory}
        /\ o.ok => mouse'.current = mouse.current
    BY <1>1, <1>2, <1>5 DEF Asked, Toggles, Turns, ContentOf
  <2>2. /\ script' \in Scripts
        /\ script'.number = script.number
        /\ script'.home = script.home
        /\ script'.off = script.off
        /\ script'.i = Following(script.i, 3)
        /\ script'.last_undo = script.last_undo
        /\ script'.snapshot = script.snapshot
        /\ script'.written = script.written
        /\ script'.undone = script.undone
    <3>1. Memo(script', script.number, script.home, script.off, Following(script.i, 3),
               script.last_undo, script.snapshot, script.written, script.undone)
      BY <1>1, <1>2, CountedMemo
    <3> QED BY <3>1 DEF Memo
  <2> QED BY <2>1, <2>2
<1>8. /\ report' = "none" /\ failed' \in BOOLEAN /\ (failed => failed')
      /\ script.i = 1 => step' = "toggle" /\ (~o.ok => failed' = failed)
      /\ script.i # 1 => /\ o.ok => /\ failed' = failed
                                    /\ step' = IF script.i < 3 THEN "toggle" ELSE "go_home"
                         /\ ~o.ok => step' = "home" /\ failed' = TRUE
  BY <1>1, <1>2, <1>6 DEF Go, Result, Loop
<1>9. TestTypes' /\ (Calm' => Calm /\ o.cost = 0)
  <2>1. script' \in Scripts /\ step' \in Steps /\ failed' \in BOOLEAN
    BY <1>2, <1>7, <1>8 DEF Steps
  <2>2. o.effect # "live"
    BY <1>5, OutcomeFields DEF Toggles, Turns
  <2> QED BY <2>1, <2>2, <1>1, <1>2, <1>6, <1>8, Asking
<1>10. PlaceInv'
  BY <1>2, <1>7, <1>8 DEF SelfTestInv, PlaceInv
<1>11. CountInv'
  BY <1>2, <1>7, <1>8 DEF SelfTestInv, CountInv, Following
<1>12. MemoryInv'
  BY <1>2, <1>7, <1>8 DEF SelfTestInv, MemoryInv
<1>13. UndoInv'
  BY <1>2, <1>7, <1>8 DEF SelfTestInv, UndoInv
<1>14. UseInv'
  BY <1>2, <1>7, <1>8, <1>4 DEF SelfTestInv, UseInv, MemoryInv
<1>15. ReportInv'
  <2>1. failed => failed'
    BY <1>2, <1>8
  <2>2. (script.i > 1) /\ ~o.ok => failed'
    BY <1>2, <1>8
  <2>3. report' \in {"none", "error"} /\ step' # "compare"
    BY <1>8
  <2>4. "toggle" \notin {"put_back", "restore", "compare"}
    OBVIOUS
  <2> QED BY <2>1, <2>2, <2>3, <2>4, <1>1, <1>2, <1>6, Reporting, Zenon
<1>16. ASSUME Calm' PROVE /\ Calm /\ failed' = FALSE /\ mouse'.current = mouse.current
                          /\ ~mouse'.torn
                          /\ script.i = 1 => mouse'.on = mouse.on
                          /\ script.i = 2 =>
                                mouse'.on = mouse.on \cup {script.off} /\ step' = "toggle"
                          /\ script.i = 3 =>
                                mouse'.on = mouse.on \ {script.off} /\ step' = "go_home"
  <2>1. /\ Sound /\ Calm /\ presses = 0 /\ presses' = 0 /\ mouse.onboard /\ mouse.spellable
        /\ o.cost = 0 /\ ~mouse.torn /\ mouse.memory # Torn
    BY <1>7, <1>9, <1>16 DEF SelfTestInv, CalmInv, Calm, Sound
  <2>2. /\ mouse.current = script.number /\ script.off # script.number
        /\ (script.off \in mouse.on) <=> script.i = 3
        /\ script.number \in mouse.on
    BY <1>2, <2>1 DEF SelfTestInv, CalmInv, InUseAsWritten, Chosen
  <2>3. CASE script.i = 1
    <3>1. Refused(script.off, script.i = 2)
      BY <2>2, <2>3 DEF Refused
    <3>2. ~o.ok /\ o.mouse = mouse
      BY <1>5, <2>1, <3>1 DEF Toggles
    <3> QED BY <1>2, <1>7, <1>8, <2>1, <2>3, <3>2 DEF Sound
  <2>4. CASE script.i = 2
    <3>1. ~Refused(script.off, script.i = 2)
      BY <2>1, <2>2, <2>4 DEF Refused
    <3>2. o.ok
      BY <1>5, <2>1, <3>1 DEF Toggles
    <3>3. Directory(script.off, script.i = 2) = mouse.on \cup {script.off}
      BY <2>4 DEF Directory
    <3> QED BY <1>2, <1>5, <1>7, <1>8, <2>1, <2>4, <3>2, <3>3 DEF Sound, Toggles
  <2>5. CASE script.i = 3
    <3>1. IsFiniteSet(mouse.on) /\ {script.number, script.off} \subseteq mouse.on
      <4>1. mouse.on \subseteq 1..ProfileCount
        BY <1>2, MouseFields DEF Ready, StoredProfile
      <4>2. IsFiniteSet(1..ProfileCount)
        BY FS_Interval, TestNumbers
      <4> QED BY <2>2, <2>5, <4>1, <4>2, FS_Subset
    <3>2. Cardinality({script.number, script.off}) = 2
      <4>1. IsFiniteSet({script.number}) /\ Cardinality({script.number}) = 1
        BY FS_Singleton
      <4>2. Cardinality({script.number} \cup {script.off}) = Cardinality({script.number}) + 1
        BY <2>2, <4>1, FS_AddElement
      <4>3. {script.number} \cup {script.off} = {script.number, script.off}
        OBVIOUS
      <4> QED BY <4>1, <4>2, <4>3
    <3>3. Cardinality(mouse.on) \in Nat /\ Cardinality(mouse.on) >= 2
      BY <3>1, <3>2, FS_Subset, FS_CardinalityType
    <3>4. ~Refused(script.off, script.i = 2)
      BY <2>1, <2>2, <2>5, <3>3 DEF Refused
    <3>5. o.ok
      BY <1>5, <2>1, <3>4 DEF Toggles
    <3>6. Directory(script.off, script.i = 2) = mouse.on \ {script.off}
      BY <2>5 DEF Directory
    <3> QED BY <1>2, <1>5, <1>7, <1>8, <2>1, <2>5, <3>5, <3>6 DEF Sound, Toggles
  <2>6. script.i \in {1, 2, 3}
    BY <1>2 DEF SelfTestInv, CountInv
  <2> QED BY <2>3, <2>4, <2>5, <2>6
<1>17. ASSUME Calm' PROVE Sound'
  <2>1. Sound
    BY <1>16, <1>17 DEF SelfTestInv, CalmInv
  <2>2. mouse.current \in mouse'.on
    <3>1. /\ mouse.current = script.number /\ script.off # script.number
          /\ mouse.current \in mouse.on /\ script.i \in {1, 2, 3}
      BY <1>2, <1>16, <1>17, <2>1
         DEF SelfTestInv, CalmInv, InUseAsWritten, Chosen, Sound, CountInv
    <3> QED BY <1>16, <1>17, <3>1
  <2> QED BY <1>2, <1>7, <1>8, <1>16, <1>17, <2>1, <2>2 DEF Sound, Calm
<1>18. ASSUME Calm' PROVE Chosen'
  <2>1. /\ script.i \in {1, 2, 3} /\ script.home \in mouse.on /\ script.number \in mouse.on
        /\ (script.off \in mouse.on) <=> script.i = 3
        /\ script.off # script.number /\ script.off # script.home
    BY <1>2, <1>16, <1>18 DEF SelfTestInv, CalmInv, Chosen, CountInv
  <2>2. CASE script.i = 1
    BY <1>2, <1>7, <1>8, <1>16, <1>18, <2>1, <2>2 DEF Chosen, Following
  <2>3. CASE script.i = 2
    BY <1>2, <1>7, <1>8, <1>16, <1>18, <2>1, <2>3 DEF Chosen, Following
  <2>4. CASE script.i = 3
    BY <1>2, <1>7, <1>8, <1>16, <1>18, <2>1, <2>4 DEF Chosen, Following
  <2> QED BY <2>1, <2>2, <2>3, <2>4
<1>19. ASSUME Calm' PROVE Depth'
  BY <1>2, <1>7, <1>8, <1>16, <1>19 DEF SelfTestInv, CalmInv, Depth
<1>20. ASSUME Calm' PROVE Taken'
  BY <1>2, <1>7, <1>8, <1>16, <1>20 DEF SelfTestInv, CalmInv, Taken
<1>21. ASSUME Calm' PROVE InUseAsWritten'
  BY <1>2, <1>7, <1>8, <1>16, <1>21 DEF SelfTestInv, CalmInv, InUseAsWritten
<1> QED BY <1>9, <1>10, <1>11, <1>12, <1>13, <1>14, <1>15, <1>17, <1>18, <1>19, <1>20, <1>21
        DEF SelfTestInv, CalmInv

-----------------------------------------------------------------------------
(* The way home, and what is put back.                                     *)
LEMMA GoHomeKeeps == ASSUME SelfTestInv, GoHome PROVE SelfTestInv'
<1> USE DEF SetsUp, Phases, Using, Running, Ending, Early, Homed, Written
<1>1. PICK o \in Activate(script.home) :
          /\ Asked(o, "go_home", TRUE)
          /\ UNCHANGED script
          /\ Result(o, "live_home", TRUE)
  BY Zenon DEF GoHome, Ask, Asked
<1>2. /\ step = "go_home" /\ Ready /\ report = "none" /\ script \in Scripts
      /\ failed \in BOOLEAN /\ start \in Mice /\ TRUE \in BOOLEAN
  BY <1>1, TestReady DEF Asked
<1>3. ~IsScrambled(Own)
  BY KindsOf
<1>4. Activates(o, script.home)
  BY <1>1, <1>2, ActivateIs
<1>5. /\ o.mouse \in Mice /\ o.undo \in Seq(Contents) /\ o.ok \in BOOLEAN /\ o.cost \in Nat
      /\ o.mouse.onboard = mouse.onboard /\ o.mouse.spellable = mouse.spellable
  BY <1>2, <1>4, OutcomeFields DEF Activates, Same
<1>6. /\ undo' = undo /\ presses' = presses /\ start' = start /\ mouse' = o.mouse
      /\ mouse'.memory = mouse.memory /\ mouse'.on = mouse.on /\ mouse'.torn = mouse.torn
      /\ \/ mouse'.loaded = mouse.loaded
         \/ mouse'.loaded.content \in {Own, mouse.memory}
      /\ script' = script
  BY <1>1, <1>2, <1>4 DEF Asked, Activates, Same, ContentOf
<1>7. /\ report' = "none" /\ failed' \in BOOLEAN /\ (failed => failed') /\ (~o.ok => failed')
      /\ o.ok => failed' = failed
      /\ o.ok => step' = "live_home"
      /\ ~o.ok => step' = "home"
  BY <1>1, <1>2, <1>5 DEF Result, Go
<1>8. TestTypes' /\ (Calm' => Calm /\ o.cost = 0)
  <2>1. script' \in Scripts /\ step' \in Steps /\ failed' \in BOOLEAN
    BY <1>2, <1>6, <1>7 DEF Steps
  <2>2. o.effect # "live"
    BY <1>4, OutcomeFields DEF Activates
  <2> QED BY <2>1, <2>2, <1>1, <1>2, <1>5, <1>7, Asking
<1>9. PlaceInv'
  BY <1>2, <1>6, <1>7 DEF SelfTestInv, PlaceInv
<1>10. CountInv'
  BY <1>2, <1>6, <1>7 DEF SelfTestInv, CountInv
<1>11. MemoryInv'
  BY <1>2, <1>6, <1>7 DEF SelfTestInv, MemoryInv
<1>12. UndoInv'
  BY <1>2, <1>6, <1>7 DEF SelfTestInv, UndoInv
<1>13. UseInv'
  BY <1>2, <1>6, <1>7, <1>3 DEF SelfTestInv, UseInv, MemoryInv
<1>14. ReportInv'
  <2>1. failed => failed'
    BY <1>2, <1>7
  <2>2. TRUE /\ ~o.ok => failed'
    BY <1>2, <1>7
  <2>3. report' \in {"none", "error"} /\ step' # "compare"
    BY <1>7
  <2>4. "go_home" \notin {"put_back", "restore", "compare"}
    OBVIOUS
  <2> QED BY <2>1, <2>2, <2>3, <2>4, <1>1, <1>2, <1>5, Reporting, Zenon
<1>15. ASSUME Calm' PROVE /\ Calm /\ failed' = FALSE /\ step' = "live_home"
                          /\ mouse'.current = script.home /\ mouse'.current \in mouse'.on
                          /\ mouse'.loaded.profile = script.home
  <2>1. /\ Sound /\ Calm /\ presses = 0 /\ presses' = 0 /\ mouse.onboard /\ mouse.spellable
        /\ o.cost = 0 /\ ~mouse.torn /\ mouse.memory # Torn
    BY <1>6, <1>8, <1>15 DEF SelfTestInv, CalmInv, Calm, Sound
  <2>2. /\ script.home \in mouse.on /\ mouse.current = script.number
        /\ script.home # script.number
    BY <1>2, <2>1 DEF SelfTestInv, CalmInv, Chosen, UseInv, InUseAsWritten
  <2>3. o.ok
    BY <1>4, <2>1, <2>2 DEF Activates
  <2>4. o.mouse.current = script.home /\ o.mouse.loaded.profile = script.home
    BY <1>4, <2>2, <2>3 DEF Activates
  <2> QED BY <1>2, <1>6, <1>7, <2>1, <2>2, <2>3, <2>4 DEF Sound
<1>16. ASSUME Calm' PROVE Sound'
  <2>1. Sound
    BY <1>15, <1>16 DEF SelfTestInv, CalmInv
  <2> QED BY <1>2, <1>6, <1>7, <1>15, <1>16, <2>1 DEF Sound, Calm
<1>17. ASSUME Calm' PROVE Chosen'
  BY <1>2, <1>6, <1>7, <1>15, <1>17 DEF SelfTestInv, CalmInv, Chosen
<1>18. ASSUME Calm' PROVE Depth'
  BY <1>2, <1>6, <1>7, <1>15, <1>18 DEF SelfTestInv, CalmInv, Depth
<1>19. ASSUME Calm' PROVE Taken'
  BY <1>2, <1>6, <1>7, <1>15, <1>19 DEF SelfTestInv, CalmInv, Taken
<1>20. ASSUME Calm' PROVE InUseAsWritten'
  BY <1>2, <1>6, <1>7, <1>15, <1>20 DEF SelfTestInv, CalmInv, InUseAsWritten
<1> QED BY <1>8, <1>9, <1>10, <1>11, <1>12, <1>13, <1>14, <1>16, <1>17, <1>18, <1>19, <1>20
        DEF SelfTestInv, CalmInv

LEMMA LiveHomeKeeps == ASSUME SelfTestInv, LiveHome PROVE SelfTestInv'
<1> USE DEF SetsUp, Phases, Using, Running, Ending, Early, Homed, Written
<1>1. PICK o \in Live :
          /\ Asked(o, "live_home", FALSE)
          /\ UNCHANGED script
          /\ Result(o, "home", mouse.loaded.profile = script.home)
  BY Zenon DEF LiveHome, Ask, Asked
<1>2. /\ step = "live_home" /\ Ready /\ report = "none" /\ script \in Scripts
      /\ failed \in BOOLEAN /\ start \in Mice /\ FALSE \in BOOLEAN
  BY <1>1, TestReady DEF Asked
<1>3. /\ o.mouse = mouse /\ o.undo = undo /\ o.effect = "live"
      /\ o.cost \in Nat /\ o.cost <= LiveTries
      /\ o.ok = (o.cost < LiveTries) /\ o.ok \in BOOLEAN
  BY <1>1, LiveIs
<1>4. /\ o.mouse \in Mice /\ o.undo \in Seq(Contents) /\ o.ok \in BOOLEAN /\ o.cost \in Nat
      /\ o.mouse.onboard = mouse.onboard /\ o.mouse.spellable = mouse.spellable
  BY <1>2, <1>3 DEF Ready
<1>5. mouse' = mouse /\ undo' = undo /\ presses' = presses /\ start' = start
      /\ script' = script
  BY <1>1, <1>2, <1>3 DEF Asked, Reads
<1>6. /\ report' = "none"
      /\ \/ /\ o.ok /\ step' = "home" /\ failed' \in BOOLEAN /\ (failed => failed')
            /\ mouse.loaded.profile = script.home => failed' = failed
         \/ ~o.ok /\ step' = "home" /\ failed' = TRUE
  BY <1>1, <1>2, <1>4 DEF Result, Go
<1>7. TestTypes' /\ (Calm' => Calm /\ o.cost < LiveTries)
  <2>1. script' \in Scripts /\ step' \in Steps /\ failed' \in BOOLEAN
    BY <1>2, <1>5, <1>6 DEF Steps
  <2> QED BY <2>1, <1>1, <1>2, <1>3, <1>4, <1>6, Asking
<1>8. PlaceInv'
  BY <1>2, <1>5, <1>6 DEF SelfTestInv, PlaceInv
<1>9. CountInv'
  BY <1>2, <1>5, <1>6 DEF SelfTestInv, CountInv
<1>10. MemoryInv'
  BY <1>2, <1>5, <1>6 DEF SelfTestInv, MemoryInv
<1>11. UndoInv'
  BY <1>2, <1>5, <1>6 DEF SelfTestInv, UndoInv
<1>12. UseInv'
  BY <1>2, <1>5, <1>6 DEF SelfTestInv, UseInv, MemoryInv
<1>13. ReportInv'
  <2>1. failed => failed'
    BY <1>2, <1>6
  <2>2. FALSE /\ ~o.ok => failed'
    BY <1>2, <1>6
  <2>3. report' \in {"none", "error"} /\ step' # "compare"
    BY <1>6
  <2>4. "live_home" \notin {"put_back", "restore", "compare"}
    OBVIOUS
  <2> QED BY <2>1, <2>2, <2>3, <2>4, <1>1, <1>2, <1>4, Reporting, Zenon
<1>14. ASSUME Calm' PROVE step' = "home" /\ Calm /\ failed' = FALSE
  BY <1>2, <1>3, <1>4, <1>6, <1>7, <1>14, <1>5
     DEF SelfTestInv, CalmInv, Sound, Reads, InUseAsWritten
<1>15. ASSUME Calm' PROVE Sound'
  BY <1>2, <1>5, <1>6, <1>14, <1>15 DEF SelfTestInv, CalmInv, Sound
<1>16. ASSUME Calm' PROVE Chosen'
  BY <1>2, <1>5, <1>6, <1>14, <1>16 DEF SelfTestInv, CalmInv, Chosen
<1>17. ASSUME Calm' PROVE Depth'
  BY <1>2, <1>5, <1>6, <1>14, <1>17 DEF SelfTestInv, CalmInv, Depth
<1>18. ASSUME Calm' PROVE Taken'
  BY <1>2, <1>5, <1>6, <1>14, <1>18 DEF SelfTestInv, CalmInv, Taken
<1>19. ASSUME Calm' PROVE InUseAsWritten'
  BY <1>2, <1>5, <1>6, <1>14, <1>19 DEF SelfTestInv, CalmInv, InUseAsWritten
<1> QED BY <1>7, <1>8, <1>9, <1>10, <1>11, <1>12, <1>13, <1>15, <1>16, <1>17, <1>18, <1>19
        DEF SelfTestInv, CalmInv

LEMMA HomeKeeps == ASSUME SelfTestInv, Home PROVE SelfTestInv'
<1> USE DEF SetsUp, Phases, Using, Running, Ending, Early, Homed, Written
<1>1. PICK o \in {[o EXCEPT !.undo = <<>>] : o \in Activate(script.home)} :
          /\ Asked(o, "home", TRUE)
          /\ script' = Fresh(script.number)
          /\ Go("put_back", o.ok)
  BY Zenon DEF Home, Ask, Asked
<1>2. /\ step = "home" /\ Ready /\ report = "none" /\ script \in Scripts
      /\ failed \in BOOLEAN /\ start \in Mice /\ TRUE \in BOOLEAN
  BY <1>1, TestReady DEF Asked
<1>3. ~IsScrambled(Own)
  BY KindsOf
<1>4. PICK q \in Activate(script.home) : o = [q EXCEPT !.undo = <<>>]
  BY <1>1
<1>5. Activates(q, script.home)
  BY <1>2, <1>4, ActivateIs
<1>6. /\ o \in Outcomes /\ o.undo = <<>> /\ o.mouse = q.mouse /\ o.ok = q.ok
      /\ o.effect = q.effect /\ o.cost = q.cost
  <2>1. q \in Outcomes /\ <<>> \in Seq(Contents)
    BY <1>5 DEF Activates
  <2> QED BY <2>1, <1>4, UndoneIs
<1>7. ContentOf(mouse, script.home) \in {Own, mouse.memory}
      /\ (script.home # script.number => ContentOf(mouse, script.home) = Own)
  BY DEF ContentOf
<1>8. /\ o \in Outcomes /\ Same(o.mouse, mouse) /\ o.mouse.memory = mouse.memory
      /\ \/ o.mouse.current = mouse.current /\ o.mouse.loaded = mouse.loaded
         \/ /\ script.home \in mouse.on /\ script.home # mouse.current
            /\ o.mouse.current = script.home
            /\ o.mouse.loaded.content = ContentOf(mouse, script.home)
      /\ o.cost = 0 /\ mouse.onboard /\ ~mouse.torn /\ script.home \in mouse.on => o.ok
  BY <1>5, <1>6 DEF Activates
<1>9. /\ o.mouse \in Mice /\ o.undo \in Seq(Contents) /\ o.ok \in BOOLEAN /\ o.cost \in Nat
      /\ o.mouse.onboard = mouse.onboard /\ o.mouse.spellable = mouse.spellable
  BY <1>2, <1>8, OutcomeFields DEF Same
<1>10. /\ undo' = <<>> /\ presses' = presses /\ start' = start /\ mouse' = o.mouse
       /\ mouse'.memory = mouse.memory /\ mouse'.on = mouse.on /\ mouse'.torn = mouse.torn
       /\ \/ mouse'.loaded = mouse.loaded
          \/ mouse'.loaded.content \in {Own, mouse.memory}
       /\ presses = 0 => /\ mouse'.current = mouse.current \/ mouse'.current # script.number
                         /\ mouse'.loaded = mouse.loaded \/ mouse'.loaded.content = Own
       /\ script' \in Scripts /\ script'.number = script.number /\ script'.i = 1
  <2>1. /\ script' \in Scripts /\ script'.number = script.number /\ script'.i = 1
    <3>1. script.number \in 0..ProfileCount
      BY <1>2, ScriptFields
    <3> QED BY <1>1, <3>1, FreshMemo DEF Memo
  <2>2. presses = 0 => script.home # script.number
    BY <1>2 DEF SelfTestInv, UseInv
  <2>3. undo' = <<>> /\ presses' = presses /\ start' = start /\ mouse' = o.mouse
    BY <1>1, <1>6 DEF Asked
  <2>4. mouse'.memory = mouse.memory /\ mouse'.on = mouse.on /\ mouse'.torn = mouse.torn
    BY <1>8, <2>3 DEF Same
  <2>5. /\ mouse'.loaded = mouse.loaded \/ mouse'.loaded.content \in {Own, mouse.memory}
        /\ presses = 0 => /\ mouse'.current = mouse.current \/ mouse'.current # script.number
                          /\ mouse'.loaded = mouse.loaded \/ mouse'.loaded.content = Own
    BY <1>8, <1>7, <2>2, <2>3
  <2> QED BY <2>1, <2>3, <2>4, <2>5
<1>11. /\ report' = "none" /\ failed' \in BOOLEAN /\ (failed => failed') /\ (~o.ok => failed')
       /\ o.ok => failed' = failed
       /\ step' = "put_back"
  BY <1>1, <1>2, <1>9 DEF Go
<1>12. TestTypes' /\ (Calm' => Calm /\ o.cost = 0)
  <2>1. script' \in Scripts /\ step' \in Steps /\ failed' \in BOOLEAN
    BY <1>2, <1>10, <1>11 DEF Steps
  <2>2. o.effect # "live"
    BY <1>8, OutcomeFields
  <2> QED BY <2>1, <2>2, <1>1, <1>2, <1>9, <1>11, Asking
<1>13. PlaceInv'
  BY <1>2, <1>10, <1>11 DEF SelfTestInv, PlaceInv
<1>14. CountInv'
  BY <1>2, <1>10, <1>11 DEF SelfTestInv, CountInv
<1>15. MemoryInv'
  BY <1>2, <1>10, <1>11 DEF SelfTestInv, MemoryInv
<1>16. UndoInv'
  BY <1>2, <1>10, <1>11 DEF SelfTestInv, UndoInv
<1>17. UseInv'
  BY <1>2, <1>10, <1>11, <1>3 DEF SelfTestInv, UseInv, MemoryInv
<1>18. ReportInv'
  <2>1. failed => failed'
    BY <1>2, <1>11
  <2>2. TRUE /\ ~o.ok => failed'
    BY <1>2, <1>11
  <2>3. report' \in {"none", "error"} /\ step' # "compare"
    BY <1>11
  <2>4. "home" \notin {"put_back", "restore", "compare"}
    OBVIOUS
  <2> QED BY <2>1, <2>2, <2>3, <2>4, <1>1, <1>2, <1>9, Reporting, Zenon
<1>19. ASSUME Calm' PROVE /\ Calm /\ failed' = FALSE /\ step' = "put_back"
  <2>1. /\ Sound /\ Calm /\ presses = 0 /\ presses' = 0 /\ mouse.onboard /\ mouse.spellable
        /\ o.cost = 0 /\ ~mouse.torn /\ mouse.memory # Torn
    BY <1>10, <1>12, <1>19 DEF SelfTestInv, CalmInv, Calm, Sound
  <2>2. script.home \in mouse.on
    BY <1>2, <2>1 DEF SelfTestInv, CalmInv, Chosen
  <2>3. o.ok
    BY <1>8, <2>1, <2>2
  <2> QED BY <1>2, <1>10, <1>11, <2>1, <2>3 DEF Sound
<1>20. ASSUME Calm' PROVE Sound'
  <2>1. Sound
    BY <1>19, <1>20 DEF SelfTestInv, CalmInv
  <2> QED BY <1>2, <1>10, <1>11, <1>19, <1>20, <2>1 DEF Sound, Calm
<1>21. ASSUME Calm' PROVE Chosen'
  BY <1>2, <1>10, <1>11, <1>19, <1>21 DEF SelfTestInv, CalmInv, Chosen
<1>22. ASSUME Calm' PROVE Depth'
  BY <1>2, <1>10, <1>11, <1>19, <1>22 DEF SelfTestInv, CalmInv, Depth
<1>23. ASSUME Calm' PROVE Taken'
  BY <1>2, <1>10, <1>11, <1>19, <1>23 DEF SelfTestInv, CalmInv, Taken
<1>24. ASSUME Calm' PROVE InUseAsWritten'
  BY <1>2, <1>10, <1>11, <1>19, <1>24 DEF SelfTestInv, CalmInv, InUseAsWritten
<1> QED BY <1>12, <1>13, <1>14, <1>15, <1>16, <1>17, <1>18, <1>20, <1>21, <1>22, <1>23, <1>24
        DEF SelfTestInv, CalmInv

LEMMA PutBackKeeps == ASSUME SelfTestInv, PutBack PROVE SelfTestInv'
<1> USE DEF SetsUp, Phases, Using, Running, Ending, Early, Homed, Written
<1>1. PICK o \in {Answer(mouse, "none"), Fails(mouse, 1)} :
          /\ Asked(o, "put_back", FALSE)
          /\ UNCHANGED script
          /\ IF o.ok THEN Go("restore", TRUE) ELSE End("error")
  BY Zenon DEF PutBack, Ask, Asked
<1>2. /\ step = "put_back" /\ Ready /\ report = "none" /\ script \in Scripts
      /\ failed \in BOOLEAN /\ start \in Mice /\ FALSE \in BOOLEAN
  BY <1>1, TestReady DEF Asked
<1>3. mouse \in Mice /\ 0 \in Nat /\ 1 \in Nat /\ "none" \in Effects
  BY <1>2 DEF Ready, Effects
<1>4. o \in Outcomes /\ o.mouse = mouse /\ o.undo = undo /\ (o.cost = 0 => o.ok)
  <2>1. CASE o = Answer(mouse, "none")
    <3>1. /\ Answer(mouse, "none") \in Outcomes /\ Answer(mouse, "none").mouse = mouse
          /\ Answer(mouse, "none").undo = undo /\ Answer(mouse, "none").ok = TRUE
      BY <1>2, <1>3, AnswerIs
    <3> QED BY <2>1, <3>1
  <2>2. CASE o = Fails(mouse, 1)
    <3>1. /\ Fails(mouse, 1) \in Outcomes /\ Fails(mouse, 1).mouse = mouse
          /\ Fails(mouse, 1).undo = undo /\ Fails(mouse, 1).cost = 1
      BY <1>2, <1>3, FailsIs
    <3> QED BY <2>2, <3>1
  <2> QED BY <1>1, <2>1, <2>2
<1>5. /\ o.mouse \in Mice /\ o.undo \in Seq(Contents) /\ o.ok \in BOOLEAN /\ o.cost \in Nat
      /\ o.mouse.onboard = mouse.onboard /\ o.mouse.spellable = mouse.spellable
  BY <1>2, <1>4, OutcomeFields DEF Ready
<1>6. mouse' = mouse /\ undo' = undo /\ presses' = presses /\ start' = start /\ script' = script
  BY <1>1, <1>4 DEF Asked
<1>7. /\ report' \in {"none", "error"} /\ failed' = failed
      /\ o.ok => step' = "restore" /\ report' = "none"
      /\ ~o.ok => step' = "done" /\ report' = "error"
  BY <1>1, <1>2 DEF Go, End
<1>8. TestTypes' /\ (Calm' => Calm /\ o.cost = 0)
  <2>1. script' \in Scripts /\ step' \in Steps /\ failed' \in BOOLEAN
    BY <1>2, <1>6, <1>7 DEF Steps
  <2>2. o.effect # "live"
    BY <1>4, OutcomeFields
  <2> QED BY <2>1, <2>2, <1>1, <1>2, <1>5, <1>7, Asking
<1>9. PlaceInv'
  BY <1>2, <1>6, <1>7 DEF SelfTestInv, PlaceInv
<1>10. CountInv'
  BY <1>2, <1>6, <1>7 DEF SelfTestInv, CountInv
<1>11. MemoryInv'
  BY <1>2, <1>6, <1>7 DEF SelfTestInv, MemoryInv
<1>12. UndoInv'
  BY <1>2, <1>6, <1>7 DEF SelfTestInv, UndoInv
<1>13. UseInv'
  BY <1>2, <1>6, <1>7 DEF SelfTestInv, UseInv
<1>14. ReportInv'
  <2>1. failed => failed'
    BY <1>2, <1>7
  <2>2. FALSE /\ ~o.ok => failed'
    BY <1>2, <1>7
  <2>3. report' \in {"none", "error"} /\ step' # "compare"
    BY <1>7
  <2>4. o.effect # "live"
    BY <1>4, OutcomeFields
  <2> QED BY <2>1, <2>2, <2>3, <2>4, <1>1, <1>2, <1>5, Reporting, Zenon
<1>15. ASSUME Calm' PROVE Calm /\ failed' = FALSE /\ step' = "restore" /\ report' = "none"
  <2>1. /\ Sound /\ Calm /\ presses = 0 /\ presses' = 0 /\ mouse.onboard /\ mouse.spellable
        /\ o.cost = 0 /\ ~mouse.torn /\ mouse.memory # Torn
    BY <1>6, <1>8, <1>15 DEF SelfTestInv, CalmInv, Calm, Sound
  <2>2. o.ok
    BY <1>4, <2>1
  <2> QED BY <1>2, <1>7, <2>1, <2>2 DEF Sound
<1>16. ASSUME Calm' PROVE Sound'
  <2>1. Sound
    BY <1>15, <1>16 DEF SelfTestInv, CalmInv
  <2> QED BY <1>2, <1>6, <1>7, <1>15, <1>16, <2>1 DEF Sound, Calm
<1>17. ASSUME Calm' PROVE Chosen'
  BY <1>2, <1>6, <1>7, <1>15, <1>17 DEF SelfTestInv, CalmInv, Chosen
<1>18. ASSUME Calm' PROVE Depth'
  BY <1>2, <1>6, <1>7, <1>15, <1>18 DEF SelfTestInv, CalmInv, Depth
<1>19. ASSUME Calm' PROVE Taken'
  BY <1>2, <1>6, <1>7, <1>15, <1>19 DEF SelfTestInv, CalmInv, Taken
<1>20. ASSUME Calm' PROVE InUseAsWritten'
  BY <1>2, <1>6, <1>7, <1>15, <1>20 DEF SelfTestInv, CalmInv, InUseAsWritten
<1> QED BY <1>8, <1>9, <1>10, <1>11, <1>12, <1>13, <1>14, <1>16, <1>17, <1>18, <1>19, <1>20
        DEF SelfTestInv, CalmInv

LEMMA RestoreBackupKeeps == ASSUME SelfTestInv, RestoreBackup PROVE SelfTestInv'
<1> USE DEF SetsUp, Phases, Using, Running, Ending, Early, Homed, Written
<1>1. PICK o \in Restore :
          /\ Asked(o, "restore", TRUE)
          /\ UNCHANGED script
          /\ Go("compare", o.ok)
  BY Zenon DEF RestoreBackup, Ask, Asked
<1>2. /\ step = "restore" /\ Ready /\ report = "none" /\ script \in Scripts
      /\ failed \in BOOLEAN /\ start \in Mice /\ TRUE \in BOOLEAN
  BY <1>1, TestReady DEF Asked
<1>3. Restores(o)
  BY <1>1, <1>2, RestoreIs
<1>4. /\ o.mouse \in Mice /\ o.undo \in Seq(Contents) /\ o.ok \in BOOLEAN /\ o.cost \in Nat
      /\ o.mouse.onboard = mouse.onboard /\ o.mouse.spellable = mouse.spellable
  BY <1>2, <1>3, OutcomeFields DEF Restores
<1>5. /\ undo' = undo /\ presses' = presses /\ start' = start /\ script' = script
      /\ mouse' = o.mouse
  BY <1>1, <1>3 DEF Asked, Restores
<1>6. /\ report' = "none" /\ failed' \in BOOLEAN /\ (failed => failed') /\ (~o.ok => failed')
      /\ o.ok => failed' = failed
      /\ step' = "compare"
  BY <1>1, <1>2, <1>4 DEF Go
<1>7. TestTypes' /\ (Calm' => Calm /\ o.cost = 0)
  <2>1. script' \in Scripts /\ step' \in Steps /\ failed' \in BOOLEAN
    BY <1>2, <1>5, <1>6 DEF Steps
  <2>2. o.effect # "live"
    BY <1>3, OutcomeFields DEF Restores
  <2> QED BY <2>1, <2>2, <1>1, <1>2, <1>4, <1>6, Asking
<1>8. PlaceInv'
  BY <1>2, <1>5, <1>6 DEF SelfTestInv, PlaceInv
<1>9. CountInv'
  BY <1>2, <1>5, <1>6 DEF SelfTestInv, CountInv
<1>10. MemoryInv'
  BY <1>2, <1>5, <1>6 DEF SelfTestInv, MemoryInv
<1>11. UndoInv'
  BY <1>2, <1>5, <1>6 DEF SelfTestInv, UndoInv
<1>12. UseInv'
  BY <1>2, <1>3, <1>5, <1>6, KindsOf DEF SelfTestInv, UseInv, Restores
<1>13. ReportInv'
  <2>1. /\ spoiled' => failed'
        /\ late' => faults' > excused'
        /\ ~late' => o.cost = 0
    <3>1. o.effect # "live" /\ (failed => failed') /\ (~o.ok => failed')
      BY <1>2, <1>3, <1>6, OutcomeFields DEF Restores
    <3> QED BY <3>1, <1>1, <1>2, <1>4, Counting
  <2>2. ~late' => IsAsFound'
    BY <1>3, <1>5, <2>1 DEF Restores, IsAsFound
  <2> QED BY <1>6, <2>1, <2>2 DEF ReportInv
<1>14. ASSUME Calm' PROVE Calm /\ failed' = FALSE /\ ~mouse'.torn /\ mouse'.memory # Torn
  <2>1. /\ Sound /\ Calm /\ presses = 0 /\ presses' = 0 /\ mouse.onboard /\ mouse.spellable
        /\ o.cost = 0
    BY <1>5, <1>7, <1>14 DEF SelfTestInv, CalmInv, Calm, Sound
  <2>2. o.ok /\ o.mouse.memory = Found /\ o.mouse.torn = FALSE
    BY <1>3, <2>1 DEF Restores
  <2> QED BY <1>2, <1>5, <1>6, <2>1, <2>2, KindsOf DEF Sound
<1>15. ASSUME Calm' PROVE Sound'
  <2>1. Sound
    BY <1>14, <1>15 DEF SelfTestInv, CalmInv
  <2> QED BY <1>2, <1>5, <1>6, <1>14, <1>15, <2>1 DEF Sound, Calm
<1>16. ASSUME Calm' PROVE Chosen'
  BY <1>2, <1>5, <1>6, <1>14, <1>16 DEF SelfTestInv, CalmInv, Chosen
<1>17. ASSUME Calm' PROVE Depth'
  BY <1>2, <1>5, <1>6, <1>14, <1>17 DEF SelfTestInv, CalmInv, Depth
<1>18. ASSUME Calm' PROVE Taken'
  BY <1>2, <1>5, <1>6, <1>14, <1>18 DEF SelfTestInv, CalmInv, Taken
<1>19. ASSUME Calm' PROVE InUseAsWritten'
  BY <1>2, <1>5, <1>6, <1>14, <1>19 DEF SelfTestInv, CalmInv, InUseAsWritten
<1> QED BY <1>7, <1>8, <1>9, <1>10, <1>11, <1>12, <1>13, <1>15, <1>16, <1>17, <1>18, <1>19
        DEF SelfTestInv, CalmInv

LEMMA CompareKeeps == ASSUME SelfTestInv, Compare PROVE SelfTestInv'
<1> USE DEF SetsUp, Phases, Using, Running, Ending, Early, Homed, Written
<1>1. PICK o \in {Answer(mouse, "none"), Fails(mouse, 1)} :
          /\ Asked(o, "compare", FALSE)
          /\ UNCHANGED script
          /\ End(CASE ~o.ok                        -> "error"
                 [] o.ok /\ ~failed /\ IsAsFound -> "pass"
                 [] OTHER                        -> "fail")
  BY Zenon DEF Compare, Ask, Asked
<1>2. /\ step = "compare" /\ Ready /\ report = "none" /\ script \in Scripts
      /\ failed \in BOOLEAN /\ start \in Mice /\ FALSE \in BOOLEAN
  BY <1>1, TestReady DEF Asked
<1>3. mouse \in Mice /\ 0 \in Nat /\ 1 \in Nat /\ "none" \in Effects
  BY <1>2 DEF Ready, Effects
<1>4. o \in Outcomes /\ o.mouse = mouse /\ o.undo = undo /\ (o.cost = 0 => o.ok)
  <2>1. CASE o = Answer(mouse, "none")
    <3>1. /\ Answer(mouse, "none") \in Outcomes /\ Answer(mouse, "none").mouse = mouse
          /\ Answer(mouse, "none").undo = undo /\ Answer(mouse, "none").ok = TRUE
      BY <1>2, <1>3, AnswerIs
    <3> QED BY <2>1, <3>1
  <2>2. CASE o = Fails(mouse, 1)
    <3>1. /\ Fails(mouse, 1) \in Outcomes /\ Fails(mouse, 1).mouse = mouse
          /\ Fails(mouse, 1).undo = undo /\ Fails(mouse, 1).cost = 1
      BY <1>2, <1>3, FailsIs
    <3> QED BY <2>2, <3>1
  <2> QED BY <1>1, <2>1, <2>2
<1>5. /\ o.mouse \in Mice /\ o.undo \in Seq(Contents) /\ o.ok \in BOOLEAN /\ o.cost \in Nat
      /\ o.mouse.onboard = mouse.onboard /\ o.mouse.spellable = mouse.spellable
  BY <1>2, <1>4, OutcomeFields DEF Ready
<1>6. mouse' = mouse /\ undo' = undo /\ presses' = presses /\ start' = start /\ script' = script
  BY <1>1, <1>4 DEF Asked
<1>7. /\ report' \in {"error", "pass", "fail"} /\ failed' = failed /\ step' = "done"
      /\ report' = "pass" => o.ok /\ ~failed /\ IsAsFound
      /\ o.ok /\ ~failed /\ IsAsFound => report' = "pass"
  BY <1>1, <1>2 DEF End
<1>8. TestTypes' /\ (Calm' => Calm /\ o.cost = 0)
  <2>1. script' \in Scripts /\ step' \in Steps /\ failed' \in BOOLEAN
    BY <1>2, <1>6, <1>7 DEF Steps
  <2>2. o.effect # "live"
    BY <1>4, OutcomeFields
  <2> QED BY <2>1, <2>2, <1>1, <1>2, <1>5, <1>7, Asking
<1>9. PlaceInv'
  BY <1>2, <1>6, <1>7 DEF SelfTestInv, PlaceInv
<1>10. CountInv'
  BY <1>2, <1>6, <1>7 DEF SelfTestInv, CountInv
<1>11. MemoryInv'
  BY <1>2, <1>6, <1>7 DEF SelfTestInv, MemoryInv
<1>12. UndoInv'
  BY <1>2, <1>6, <1>7 DEF SelfTestInv, UndoInv
<1>13. UseInv'
  BY <1>2, <1>6, <1>7 DEF SelfTestInv, UseInv
<1>14. ReportInv'
  <2>1. /\ spoiled' => failed' /\ spoiled
        /\ late' => faults' > excused'
        /\ ~late' => ~late
    <3>1. o.effect # "live" /\ (failed => failed')
      BY <1>4, <1>7, OutcomeFields
    <3> QED BY <3>1, <1>1, <1>2, <1>5, Counting
  <2>2. ~late' => IsAsFound
    BY <1>2, <2>1 DEF SelfTestInv, ReportInv
  <2>3. IsAsFound' = IsAsFound
    BY <1>6 DEF IsAsFound
  <2>4. report' = "pass" => ~spoiled /\ IsAsFound
    BY <1>7 DEF SelfTestInv, ReportInv
  <2> QED BY <1>2, <1>7, <2>1, <2>2, <2>3, <2>4 DEF ReportInv
<1>15. ASSUME Calm' PROVE Calm /\ failed' = FALSE /\ report' = "pass"
  <2>1. /\ Sound /\ Calm /\ presses = 0 /\ presses' = 0 /\ mouse.onboard /\ mouse.spellable
        /\ o.cost = 0 /\ ~mouse.torn /\ mouse.memory # Torn
    BY <1>6, <1>8, <1>15 DEF SelfTestInv, CalmInv, Calm, Sound
  <2>2. o.ok
    BY <1>4, <2>1
  <2>3. ~late
    <3>1. faults \in Nat /\ excused \in Nat
      BY TestFields DEF SelfTestInv
    <3> QED BY <2>1, <3>1 DEF Calm, SelfTestInv, ReportInv
  <2>4. IsAsFound
    BY <1>2, <2>3 DEF SelfTestInv, ReportInv
  <2> QED BY <1>2, <1>7, <2>1, <2>2, <2>4 DEF Sound
<1>16. ASSUME Calm' PROVE Sound'
  <2>1. Sound
    BY <1>15, <1>16 DEF SelfTestInv, CalmInv
  <2> QED BY <1>2, <1>6, <1>7, <1>15, <1>16, <2>1 DEF Sound, Calm
<1>17. ASSUME Calm' PROVE Chosen'
  BY <1>2, <1>6, <1>7, <1>15, <1>17 DEF SelfTestInv, CalmInv, Chosen
<1>18. ASSUME Calm' PROVE Depth'
  BY <1>2, <1>6, <1>7, <1>15, <1>18 DEF SelfTestInv, CalmInv, Depth
<1>19. ASSUME Calm' PROVE Taken'
  BY <1>2, <1>6, <1>7, <1>15, <1>19 DEF SelfTestInv, CalmInv, Taken
<1>20. ASSUME Calm' PROVE InUseAsWritten'
  BY <1>2, <1>6, <1>7, <1>15, <1>20 DEF SelfTestInv, CalmInv, InUseAsWritten
<1> QED BY <1>8, <1>9, <1>10, <1>11, <1>12, <1>13, <1>14, <1>16, <1>17, <1>18, <1>19, <1>20
        DEF SelfTestInv, CalmInv

LEMMA PressButtonKeeps == ASSUME SelfTestInv, PressButton PROVE SelfTestInv'
<1>1. /\ mouse \in Mice /\ start \in Mice /\ presses \in Nat
  BY TestFields DEF SelfTestInv
<1>2. PICK p \in mouse.on : mouse' = Load(mouse, p)
  BY DEF PressButton
<1>3. /\ presses' = presses + 1 /\ undo' = undo /\ script' = script /\ step' = step
      /\ failed' = failed /\ report' = report /\ start' = start /\ faults' = faults
      /\ excused' = excused /\ spoiled' = spoiled /\ late' = late
  BY DEF PressButton
<1>4. mouse' \in Mice /\ Same(mouse', mouse) /\ mouse'.memory = mouse.memory
  <2> DEFINE l == [profile |-> p, content |-> ContentOf(mouse, p)]
             n == [mouse EXCEPT !.current = p, !.loaded = l]
  <2>1. p \in StoredProfile /\ ContentOf(mouse, p) \in Contents
    BY <1>1, MouseFields, ContentsWritten DEF ContentOf
  <2>2. l \in [profile : StoredProfile, content : Contents]
    BY <2>1
  <2> HIDE DEF l
  <2>3. n \in Mice
    BY <1>1, <2>1, <2>2, Zenon DEF Mice
  <2>4. n.onboard = mouse.onboard /\ n.spellable = mouse.spellable /\ n.on = mouse.on
    BY <1>1 DEF Mice
  <2>5. n.torn = mouse.torn /\ n.memory = mouse.memory
    BY <1>1 DEF Mice
  <2>6. mouse' = n
    BY <1>2 DEF Load, l
  <2> HIDE DEF n
  <2> QED BY <2>3, <2>4, <2>5, <2>6 DEF Same
<1>5. presses' # 0 /\ presses' \in 0..MaxPresses
  BY <1>1, <1>3, TestNumbers DEF PressButton, SelfTestInv, TestTypes, SelfTestTypeOK
<1>6. TestTypes'
  <2>1. script \in Scripts
    BY TestFields DEF SelfTestInv
  <2> QED BY <1>1, <1>3, <1>4, <1>5, <2>1
          DEF SelfTestInv, TestTypes, SelfTestTypeOK, Mice, Scripts, Steps
<1>7. PlaceInv' /\ CountInv'
  BY <1>3 DEF SelfTestInv, PlaceInv, CountInv
<1>8. MemoryInv' /\ UndoInv'
  BY <1>3, <1>4 DEF SelfTestInv, MemoryInv, UndoInv
<1>9. UseInv' /\ CalmInv'
  BY <1>5 DEF UseInv, CalmInv, Calm
<1>10. ReportInv'
  BY <1>3, <1>4 DEF SelfTestInv, ReportInv, IsAsFound, Same
<1> QED BY <1>6, <1>7, <1>8, <1>9, <1>10 DEF SelfTestInv

-----------------------------------------------------------------------------
(* The invariant holds, and what the runs check follows from it.           *)
LEMMA StillKeeps == ASSUME SelfTestInv, UNCHANGED selfTestVars PROVE SelfTestInv'
<1>1. /\ mouse' = mouse /\ undo' = undo /\ script' = script /\ step' = step /\ failed' = failed
      /\ report' = report /\ start' = start /\ presses' = presses /\ faults' = faults
      /\ excused' = excused /\ spoiled' = spoiled /\ late' = late
  BY DEF selfTestVars
<1>2. TestTypes' /\ PlaceInv' /\ CountInv'
  BY <1>1 DEF SelfTestInv, TestTypes, SelfTestTypeOK, PlaceInv, CountInv
<1>3. MemoryInv' /\ UndoInv'
  BY <1>1 DEF SelfTestInv, MemoryInv, UndoInv
<1>4. UseInv' /\ ReportInv'
  BY <1>1 DEF SelfTestInv, UseInv, ReportInv, IsAsFound
<1>5. ASSUME Calm' PROVE Sound' /\ Chosen' /\ Depth' /\ Taken' /\ InUseAsWritten'
  <2>1. Sound /\ Chosen /\ Depth /\ Taken /\ InUseAsWritten
    BY <1>1, <1>5 DEF SelfTestInv, CalmInv, Calm
  <2>2. Sound' /\ Chosen'
    BY <1>1, <2>1 DEF Sound, Chosen
  <2>3. Depth' /\ Taken'
    BY <1>1, <2>1 DEF Depth, Taken, Backs
  <2>4. InUseAsWritten'
    BY <1>1, <2>1 DEF InUseAsWritten, Climbs
  <2> QED BY <2>2, <2>3, <2>4
<1> QED BY <1>2, <1>3, <1>4, <1>5 DEF SelfTestInv, CalmInv

LEMMA FreshInv == SelfTestInit => SelfTestInv
<1> SUFFICES ASSUME SelfTestInit PROVE SelfTestInv
  OBVIOUS
<1> USE DEF SetsUp, Phases, Using, Running, Ending, Early, Homed, Written
<1>1. /\ mouse.memory = Found /\ mouse.torn = FALSE /\ mouse.current \in mouse.on
      /\ mouse.loaded.content = Own /\ mouse \in Mice
  <2>1. mouse.memory = Found /\ mouse.torn = FALSE /\ mouse.current \in mouse.on
    BY DEF SelfTestInit
  <2>2. PICK q \in StoredProfile : mouse.loaded = [profile |-> q, content |-> Own]
    BY DEF SelfTestInit
  <2>3. mouse.loaded.content = Own
    BY <2>2
  <2>4. mouse.loaded \in [profile : StoredProfile, content : Contents]
    BY <2>2, ContentsWritten
  <2>5. Found \in Contents
    BY ContentsWritten
  <2>6. mouse \in Mice
    <3> DEFINE Loaded == {[profile |-> p, content |-> Own] : p \in StoredProfile}
    <3>1. Loaded \subseteq [profile : StoredProfile, content : Contents]
      BY ContentsWritten
    <3>2. mouse \in [onboard : BOOLEAN, spellable : BOOLEAN, on : (SUBSET StoredProfile) \ {{}},
                     torn : {FALSE}, current : StoredProfile, loaded : Loaded, memory : {Found}]
      BY DEF SelfTestInit
    <3> HIDE DEF Loaded
    <3> QED BY <2>5, <3>1, <3>2 DEF Mice
  <2> QED BY <2>1, <2>3, <2>6
<1>2. /\ undo = <<>> /\ script = Fresh(NONE) /\ step = "prepare" /\ failed = FALSE
      /\ report = "none" /\ start = mouse /\ presses = 0 /\ faults = 0 /\ excused = 0
      /\ spoiled = FALSE /\ late = FALSE
  BY DEF SelfTestInit
<1>3. /\ script \in Scripts /\ script.number = NONE /\ script.i = 1 /\ script.undone = 0
  <2>1. NONE \in 0..ProfileCount
    BY TestNumbers DEF NONE
  <2> QED BY <1>2, <2>1, FreshMemo DEF Memo
<1>4. TestTypes
  <2>1. 0 \in 0..MaxFaults /\ 0 \in 0..MaxPresses /\ 0 \in 0..0 /\ <<>> \in Seq(Contents)
    BY TestNumbers
  <2>2. step \in Steps
    BY <1>2 DEF Steps
  <2>3. mouse \in Mice /\ start \in Mice /\ script \in Scripts
    BY <1>1, <1>2, <1>3
  <2> QED BY <1>2, <2>1, <2>2, <2>3 DEF TestTypes, SelfTestTypeOK, Mice, Scripts
<1>5. PlaceInv /\ CountInv
  BY <1>2, <1>3 DEF PlaceInv, CountInv
<1>6. MemoryInv /\ UndoInv
  BY <1>1, <1>2, KindsOf DEF MemoryInv, UndoInv
<1>7. UseInv /\ ReportInv
  BY <1>1, <1>2, KindsOf DEF UseInv, ReportInv
<1>8. CalmInv
  BY <1>1, <1>2, KindsOf DEF CalmInv, Sound, Chosen, Depth, Taken, InUseAsWritten
<1> QED BY <1>4, <1>5, <1>6, <1>7, <1>8 DEF SelfTestInv

LEMMA SelfTestKeeps == SelfTestInv /\ [SelfTestNext]_selfTestVars => SelfTestInv'
<1> SUFFICES ASSUME SelfTestInv, [SelfTestNext]_selfTestVars PROVE SelfTestInv'
  OBVIOUS
<1>1. CASE Prepare \/ SetUp \/ Enable \/ Name \/ Begin
  BY <1>1, PrepareKeeps, SetUpKeeps, EnableKeeps, NameKeeps, BeginKeeps
<1>2. CASE BindingsPhase \/ Reread \/ Probe \/ UndoProbe \/ Refusals \/ Unchanged
  BY <1>2, BindingsPhaseKeeps, RereadKeeps, ProbeKeeps, UndoProbeKeeps, RefusalsKeeps,
     UnchangedKeeps
<1>3. CASE EditsPhase \/ RereadEdits \/ Unsorted \/ Names
  BY <1>3, EditsPhaseKeeps, RereadEditsKeeps, UnsortedKeeps, NamesKeeps
<1>4. CASE Before \/ History \/ UndoBack \/ Snapshot
  BY <1>4, BeforeKeeps, HistoryKeeps, UndoBackKeeps, SnapshotKeeps
<1>5. CASE ActivateTest \/ ReadActive \/ LiveActive \/ InUse \/ LiveInUse \/ UndoInUse
  BY <1>5, ActivateTestKeeps, ReadActiveKeeps, LiveActiveKeeps, InUseKeeps, LiveInUseKeeps,
     UndoInUseKeeps
<1>6. CASE LiveUndone \/ RateUndone \/ RefuseOff \/ Toggle
  BY <1>6, LiveUndoneKeeps, RateUndoneKeeps, RefuseOffKeeps, ToggleKeeps
<1>7. CASE GoHome \/ LiveHome \/ Home \/ PutBack \/ RestoreBackup \/ Compare
  BY <1>7, GoHomeKeeps, LiveHomeKeeps, HomeKeeps, PutBackKeeps, RestoreBackupKeeps, CompareKeeps
<1>8. CASE PressButton
  BY <1>8, PressButtonKeeps
<1>9. CASE UNCHANGED selfTestVars
  BY <1>9, StillKeeps
<1> QED BY <1>1, <1>2, <1>3, <1>4, <1>5, <1>6, <1>7, <1>8, <1>9 DEF SelfTestNext, Script

LEMMA SelfTestInvHolds == SelfTestSpec => []SelfTestInv
  BY FreshInv, SelfTestKeeps, PTL DEF SelfTestSpec

(* Whatever fails before the put-back leaves the memory as it was found,   *)
(* and without a press of the button the mouse never runs the bindings the *)
(* test tries (verify.rs: "so the mouse stays usable").                    *)
THEOREM SelfTestStaysSound == SelfTestSpec => []SelfTestSound
<1>1. SelfTestInv => SelfTestSound
  BY DEF SelfTestInv, TestTypes, UseInv, ReportInv, SelfTestSound, PutsMemoryBack, StaysUsable,
         SelfTestTypeOK
<1> QED BY <1>1, SelfTestInvHolds, PTL

(* Undisturbed, on a mouse in onboard mode whose profile the requests can  *)
(* express, the test does not fail (verify.rs).                            *)
THEOREM UndisturbedTestPasses == SelfTestSpec => []UndisturbedPasses
<1>1. SelfTestInv => UndisturbedPasses
  <2> SUFFICES ASSUME SelfTestInv, report \in {"fail", "error"},
                      ~(presses > 0 \/ faults > excused \/ ~mouse.onboard \/ ~mouse.spellable)
               PROVE  FALSE
    BY DEF UndisturbedPasses
  <2>1. Calm
    BY TestFields DEF SelfTestInv, Calm
  <2> QED BY <2>1 DEF SelfTestInv, CalmInv, Sound
<1> QED BY <1>1, SelfTestInvHolds, PTL

(* A pass is not reported over a write, undo or switch that failed, nor    *)
(* over memory that differs from what was found (verify.rs).               *)
THEOREM PassIsWhatItSays == SelfTestSpec => []PassIsEarned
<1>1. SelfTestInv => PassIsEarned
  BY DEF SelfTestInv, ReportInv, PassIsEarned
<1> QED BY <1>1, SelfTestInvHolds, PTL
=============================================================================
