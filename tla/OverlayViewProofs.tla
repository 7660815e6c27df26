------------------------- MODULE OverlayViewProofs --------------------------
(***************************************************************************)
(* For every set of mice, however they are exchanged while requests wait,  *)
(* and however many requests there are: an untested mouse is written only  *)
(* after the user agreed to it, the overlay's flags stand for requests     *)
(* that are under way, an idle server is let go of, and an edit stays in   *)
(* the draft until it is saved.                                            *)
(*                                                                         *)
(* The second part is about Pictures, what that overlay shows of a mouse:  *)
(* whatever fails or is killed, the cached files are as one index lists    *)
(* them and a refresh gets over an incomplete cache.                       *)
(***************************************************************************)
EXTENDS OverlayView, Pictures, FiniteSetTheorems, FunctionTheorems, TLAPS

Elems(s) == {s[i] : i \in DOMAIN s}
IsSeq(s) == s \in Seq(Elems(s))

-----------------------------------------------------------------------------
(* Facts about the lines that wait.  What they carry besides does not      *)
(* matter here, so they are typed by their own elements.                   *)

(* No line waits. *)
LEMMA NoLines == IsSeq(<<>>) /\ Elems(<<>>) = {}
<1>1. <<>> \in Seq({}) /\ DOMAIN <<>> = {}
      OBVIOUS
<1> QED BY <1>1 DEF Elems, IsSeq

(* One line more. *)
LEMMA LineAdded ==
    ASSUME NEW s, NEW x, IsSeq(s)
    PROVE  IsSeq(Append(s, x)) /\ Elems(Append(s, x)) = Elems(s) \cup {x}
<1> DEFINE t == Append(s, x)
           S == Elems(s) \cup {x}
<1>1. s \in Seq(S)
      BY DEF IsSeq
<1>2. /\ t \in Seq(S) /\ Len(t) = Len(s) + 1 /\ Len(s) \in Nat
      /\ \A i \in 1..Len(s) : t[i] = s[i]
      /\ t[Len(s) + 1] = x
      BY <1>1
<1>3. DOMAIN t = 1..Len(s) + 1 /\ DOMAIN s = 1..Len(s)
      BY <1>1, <1>2
<1> HIDE DEF t
<1>4. Elems(t) \subseteq S
      BY <1>2, <1>3 DEF Elems
<1>5. S \subseteq Elems(t)
  <2>1. x \in Elems(t)
        BY <1>2, <1>3 DEF Elems
  <2>2. Elems(s) \subseteq Elems(t)
    <3>1. SUFFICES ASSUME NEW i \in DOMAIN s PROVE s[i] \in Elems(t)
          BY DEF Elems
    <3>2. i \in DOMAIN t /\ t[i] = s[i]
          BY <1>2, <1>3
    <3> QED BY <3>2 DEF Elems
  <2> QED BY <2>1, <2>2
<1>6. Elems(t) = S
      BY <1>4, <1>5
<1> QED BY <1>2, <1>6 DEF IsSeq, t

(* The first line is taken away. *)
LEMMA LineTaken ==
    ASSUME NEW s, IsSeq(s), s # <<>>
    PROVE  IsSeq(Tail(s)) /\ Elems(Tail(s)) \subseteq Elems(s) /\ Head(s) \in Elems(s)
<1> DEFINE t == Tail(s)
           S == Elems(s)
<1>1. s \in Seq(S)
      BY DEF IsSeq
<1>2. /\ t \in Seq(S) /\ Len(t) = Len(s) - 1 /\ Len(s) \in Nat \ {0}
      /\ Head(s) = s[1] /\ DOMAIN s = 1..Len(s)
      BY <1>1
<1>3. DOMAIN t = 1..Len(t)
      BY <1>2
<1> HIDE DEF t
<1>4. Elems(t) \subseteq S
      BY <1>2, <1>3 DEF Elems
<1>5. \A i \in DOMAIN t : t[i] \in Elems(t)
      BY DEF Elems
<1>6. t \in Seq(Elems(t))
      BY <1>2, <1>3, <1>5
<1>7. Head(s) \in S
      BY <1>2 DEF Elems
<1> QED BY <1>4, <1>6, <1>7 DEF IsSeq, t

-----------------------------------------------------------------------------
(* The inductive invariant.                                                *)

Asked == \E r \in Elems(requests) : r.cmd = "accept"

(* A server that is off has no requests, and one that is not on has no     *)
(* mouse open. *)
Process ==
    /\ server \in {"off", "starting", "on", "stopping"}
    /\ session \in Mouse \cup {NoMouse}
    /\ server \in {"off", "starting"} => session = NoMouse
    /\ server = "off" => requests = <<>>
    /\ IsSeq(requests) /\ \A r \in Elems(requests) : r.cmd \in Command

(* Any mouse the server could take the user's agreement for is one the     *)
(* user agreed to: the one that it has open, and any one of them while it  *)
(* has still to find one. *)
Agreement ==
    Asked => /\ server = "starting" => Mouse \subseteq agreed
             /\ session # NoMouse => session \in agreed

(* The dialog names a mouse. *)
Dialog ==
    /\ acceptOpen \in BOOLEAN
    /\ acceptOpen => support.mouse # NoMouse
    /\ IsSeq(replies)
    /\ \A r \in Elems(replies) : r.ok /\ r.to \in {"state", "accept"} => r.mouse # NoMouse

IInv ==
    /\ plugged \subseteq Mouse
    /\ Process
    /\ Agreement
    /\ Dialog
    /\ accepted \subseteq agreed
    /\ ~trespassed

(* Nothing is asked or agreed at first. *)
LEMMA InitAgreed == Init => IInv
BY NoLines DEF Init, IInv, Process, Agreement, Dialog, Asked, NoSupport

(* A line for the server that is no agreement. *)
LEMMA LineSent ==
    ASSUME IInv, NEW c \in Command \ {"accept"}, NEW p, NEW e, Send(c, p, e),
           session' = session, agreed' = agreed
    PROVE  Process' /\ Agreement'
<1> DEFINE x == [cmd |-> c, profile |-> p, edit |-> e]
<1>1. IsSeq(requests') /\ Elems(requests') = Elems(requests) \cup {x}
      BY LineAdded DEF Send, IInv, Process
<1>2. Asked' => Asked
      BY <1>1 DEF Asked
<1>3. server' # "off" /\ (server' = server \/ (server = "off" /\ server' = "starting"))
      BY DEF Send, IInv, Process
<1>4. Process'
      BY <1>1, <1>3 DEF Process, IInv
<1>5. server = "off" => ~Asked
      BY NoLines DEF IInv, Process, Asked
<1>6. Agreement'
      BY <1>2, <1>3, <1>5 DEF Agreement, IInv
<1> QED BY <1>4, <1>6

(* The server is told to stop, or left alone. *)
LEMMA ServerTold ==
    ASSUME IInv, server' \in {server, Stopped(server)}, requests' = requests, session' = session,
           agreed' = agreed
    PROVE  Process' /\ Agreement'
BY DEF IInv, Process, Agreement, Asked, Stopped

(* stopServerWhenIdle does one of the two. *)
LEMMA IdleServerTold ==
    ASSUME IInv, StopWhenIdle, session' = session, agreed' = agreed
    PROVE  Process' /\ Agreement'
<1>1. server' \in {server, Stopped(server)} /\ requests' = requests
      BY DEF StopWhenIdle
<1> QED BY <1>1, ServerTold

(* What a save does to the lines and to the dialog. *)
LEMMA SaveAgreed ==
    ASSUME IInv, NEW e, NEW s, NEW busy, NEW wait, Save(e, s, busy, wait),
           session' = session, agreed' = agreed, s.mouse = support'.mouse,
           support' = support \/ support'.mouse # NoMouse
    PROVE  /\ Process' /\ Agreement'
           /\ acceptOpen' \in BOOLEAN /\ (acceptOpen' => support'.mouse # NoMouse)
<1>1. acceptOpen \in BOOLEAN /\ (acceptOpen => support'.mouse # NoMouse)
      BY DEF IInv, Dialog
<1>2. CASE e = NoEdit \/ NeedsAcceptance(s)
  <2>1. acceptOpen' = (acceptOpen \/ e # NoEdit) /\ server' = server /\ requests' = requests
        BY <1>2 DEF Save
  <2>2. e # NoEdit => s.mouse # NoMouse
        BY <1>2 DEF NeedsAcceptance
  <2> QED BY <1>1, <2>1, <2>2, ServerTold
<1>3. CASE ~(e = NoEdit \/ NeedsAcceptance(s))
  <2>1. /\ acceptOpen' = acceptOpen
        /\ (server' = server /\ requests' = requests) \/ Send("apply", cursor, e)
        BY <1>3 DEF Save
  <2>2. "apply" \in Command \ {"accept"}
        BY DEF Command
  <2> QED BY <1>1, <2>1, <2>2, ServerTold, LineSent
<1> QED BY <1>2, <1>3

(* The rest of the invariant, for a step that leaves the mice alone. *)
LEMMA MiceKept ==
    ASSUME IInv, Process', Agreement', Dialog',
           UNCHANGED <<plugged, accepted, trespassed>>, agreed \subseteq agreed'
    PROVE  IInv'
BY DEF IInv

-----------------------------------------------------------------------------
(* The steps.                                                              *)

(* refresh() sends at most a line that is no agreement. *)
LEMMA RefreshAgreed ==
    ASSUME IInv, NEW t \in {server, Stopped(server)}, Refresh(t),
           UNCHANGED <<plugged, session, replies, support, acceptOpen, agreed, accepted,
                       trespassed>>
    PROVE  IInv'
<1>1. Dialog'
      BY DEF IInv, Dialog
<1>2. CASE loading
  <2>1. server' \in {server, Stopped(server)} /\ requests' = requests
        BY <1>2 DEF Refresh
  <2> QED BY <1>1, <2>1, ServerTold, MiceKept
<1>3. CASE ~loading
  <2> DEFINE x == [cmd |-> "state", profile |-> NoProfile, edit |-> 0]
  <2>1. requests' = Append(requests, x) /\ server' = (IF t = "off" THEN "starting" ELSE t)
        BY <1>3 DEF Refresh
  <2>2. IsSeq(requests') /\ Elems(requests') = Elems(requests) \cup {x}
        BY <2>1, LineAdded DEF IInv, Process
  <2>3. Asked' => Asked
        BY <2>2 DEF Asked
  <2>4. /\ server' \in {"starting", "on", "stopping"}
        /\ server' = "starting" => server \in {"off", "starting"}
        BY <2>1 DEF IInv, Process, Stopped
  <2>5. Process'
        BY <2>2, <2>4 DEF Process, IInv, Command
  <2>6. server = "off" => ~Asked
        BY NoLines DEF IInv, Process, Asked
  <2>7. Agreement'
        BY <2>3, <2>4, <2>6 DEF Agreement, IInv
  <2> QED BY <1>1, <2>5, <2>7, MiceKept
<1> QED BY <1>2, <1>3

(* What the user does: only a click in the dialog adds an agreement. *)
LEMMA UserAgreed == ASSUME IInv, User PROVE IInv'
<1> USE DEF mice, serverVars, flags, view, editor, history, bounds
<1>1. CASE Open
  <2>1. CASE loading
    <3>1. server' = server /\ requests' = requests /\ session' = session /\ agreed' = agreed
          BY <1>1, <2>1 DEF Open
    <3>2. Dialog'
          BY <1>1 DEF Open, IInv, Dialog
    <3> QED BY <1>1, <3>1, <3>2, ServerTold, MiceKept DEF Open
  <2>2. CASE ~loading
        BY <1>1, <2>2, RefreshAgreed DEF Open
  <2> QED BY <2>1, <2>2
<1>2. CASE RefreshKey
      BY <1>2, RefreshAgreed DEF RefreshKey
<1>3. CASE Retry
      BY <1>3, RefreshAgreed DEF Retry
<1>4. CASE Repair
  <2>1. Dialog'
        BY <1>4 DEF Repair, IInv, Dialog
  <2>2. "repair" \in Command \ {"accept"}
        BY DEF Command
  <2> QED BY <1>4, <2>1, <2>2, LineSent, MiceKept DEF Repair
<1>5. CASE Activate
  <2>1. Dialog'
        BY <1>5 DEF Activate, IInv, Dialog
  <2>2. "activate" \in Command \ {"accept"}
        BY DEF Command
  <2> QED BY <1>5, <2>1, <2>2, LineSent, MiceKept DEF Activate
<1>6. CASE InstallHelper
  <2>1. Dialog'
        BY <1>6 DEF InstallHelper, IInv, Dialog
  <2> QED BY <1>6, <2>1, ServerTold, MiceKept DEF InstallHelper
<1>7. CASE Close
  <2>1. CASE timer
    <3>1. Save(unsaved, support, saving, FALSE)
          BY <1>7, <2>1 DEF Close, SaveNow
    <3>2. /\ session' = session /\ agreed' = agreed /\ support' = support /\ replies' = replies
          /\ UNCHANGED <<plugged, accepted, trespassed>>
          BY <1>7 DEF Close
    <3>3. /\ Process' /\ Agreement'
          /\ acceptOpen' \in BOOLEAN /\ (acceptOpen' => support'.mouse # NoMouse)
          BY <3>1, <3>2, SaveAgreed
    <3>4. Dialog'
          BY <3>2, <3>3 DEF IInv, Dialog
    <3> QED BY <3>2, <3>3, <3>4, MiceKept
  <2>2. CASE ~timer
        BY <1>7, <2>2 DEF Close, IInv, Process, Agreement, Asked, Dialog
  <2> QED BY <2>1, <2>2
<1>8. CASE AcceptUntested
  <2> DEFINE x == [cmd |-> "accept", profile |-> NoProfile, edit |-> 0]
  <2>1. /\ requests' = Append(requests, x)
        /\ server' = IF server = "off" THEN "starting" ELSE server
        /\ agreed' = agreed \cup (IF session = support.mouse THEN {session} ELSE Mouse)
        /\ acceptOpen /\ acceptOpen' = FALSE
        /\ UNCHANGED <<plugged, accepted, trespassed, session, replies, support>>
        BY <1>8 DEF AcceptUntested, Send
  <2>2. IsSeq(requests') /\ Elems(requests') = Elems(requests) \cup {x}
        BY <2>1, LineAdded DEF IInv, Process
  <2>3. Process'
        BY <2>1, <2>2 DEF IInv, Process, Command
  <2>4. support.mouse # NoMouse
        BY <2>1 DEF IInv, Dialog
  <2>5. server' = "starting" => Mouse \subseteq agreed'
        BY <2>1, <2>4 DEF IInv, Process
  <2>6. session' # NoMouse => session' \in agreed'
        BY <2>1 DEF IInv, Process
  <2>7. Agreement'
        BY <2>5, <2>6 DEF Agreement
  <2>8. Dialog'
        BY <2>1 DEF IInv, Dialog
  <2>9. agreed \subseteq agreed'
        BY <2>1
  <2> QED BY <2>1, <2>3, <2>7, <2>8, <2>9, MiceKept
<1>9. CASE Edit
      BY <1>9 DEF Edit, IInv, Process, Agreement, Asked, Dialog
<1>10. CASE Dismiss
      BY <1>10 DEF Dismiss, IInv, Process, Agreement, Asked, Dialog
<1>11. ASSUME NEW p \in Profile, Select(p) PROVE IInv'
      BY <1>11 DEF Select, IInv, Process, Agreement, Asked, Dialog
<1> QED BY <1>1, <1>2, <1>3, <1>4, <1>5, <1>6, <1>7, <1>8, <1>9, <1>10, <1>11 DEF User

(* Whatever reply is read. *)
LEMMA ReplyAgreed == ASSUME IInv, ReadReply PROVE IInv'
<1> USE DEF mice, serverVars, flags, view, editor, history, bounds
<1> DEFINE r == Head(replies)
<1>1. /\ replies' = Tail(replies)
      /\ UNCHANGED <<plugged, accepted, trespassed, session, agreed>>
      BY DEF ReadReply
<1>2. r \in Elems(replies) /\ IsSeq(replies') /\ Elems(replies') \subseteq Elems(replies)
      BY <1>1, LineTaken DEF ReadReply, IInv, Dialog
<1>3. \A q \in Elems(replies') : q.ok /\ q.to \in {"state", "accept"} => q.mouse # NoMouse
      BY <1>2 DEF IInv, Dialog
<1>4. r.ok /\ r.to \in {"state", "accept"} => r.mouse # NoMouse
      BY <1>2 DEF IInv, Dialog
<1>5. acceptOpen \in BOOLEAN /\ (acceptOpen => support.mouse # NoMouse)
      BY DEF IInv, Dialog
<1> HIDE DEF r
<1>6. SUFFICES /\ Process' /\ Agreement'
               /\ acceptOpen' \in BOOLEAN /\ (acceptOpen' => support'.mouse # NoMouse)
      BY <1>1, <1>2, <1>3, MiceKept DEF Dialog
<1>7. CASE StateReply(r)
  <2>1. CASE r.ok
    <3>1. support'.mouse # NoMouse /\ acceptOpen' = acceptOpen /\ StopWhenIdle
          BY <1>4, <1>7, <2>1 DEF StateReply
    <3> QED BY <1>1, <1>5, <3>1, IdleServerTold
  <2>2. CASE ~r.ok
    <3>1. UNCHANGED <<support, acceptOpen, server, requests>>
          BY <1>7, <2>2 DEF StateReply
    <3> QED BY <1>1, <1>5, <3>1, ServerTold
  <2> QED BY <2>1, <2>2
<1>8. CASE LiveReply(r)
  <2>1. UNCHANGED <<support, acceptOpen>> /\ StopWhenIdle
        BY <1>8 DEF LiveReply
  <2> QED BY <1>1, <1>5, <2>1, IdleServerTold
<1>9. CASE ActivateReply(r)
  <2>1. UNCHANGED <<support, acceptOpen, server, requests>>
        BY <1>9 DEF ActivateReply
  <2> QED BY <1>1, <1>5, <2>1, ServerTold
<1>10. CASE ApplyReply(r)
  <2> DEFINE rest == IF r.ok /\ cursor = r.profile /\ unsaved = r.edit THEN NoEdit ELSE unsaved
             more == r.ok /\ rest # NoEdit
  <2>1. support' = support
        BY <1>10 DEF ApplyReply
  <2>2. CASE more /\ opened
    <3>1. UNCHANGED <<acceptOpen, server, requests>>
          BY <1>10, <2>2 DEF ApplyReply
    <3> QED BY <1>1, <1>5, <2>1, <3>1, ServerTold
  <2>3. CASE more /\ ~opened /\ ~NeedsAcceptance(support)
    <3>1. Save(rest, support, FALSE, timer)
          BY <1>10, <2>3 DEF ApplyReply
    <3> QED BY <1>1, <2>1, <3>1, SaveAgreed
  <2>4. CASE ~more \/ (~opened /\ NeedsAcceptance(support))
    <3>1. acceptOpen' = (acceptOpen \/ more) /\ StopWhenIdle
          BY <1>10, <2>4 DEF ApplyReply
    <3>2. more => support.mouse # NoMouse
          BY <2>4 DEF NeedsAcceptance
    <3> HIDE DEF more
    <3> QED BY <1>1, <1>5, <2>1, <3>1, <3>2, IdleServerTold
  <2> QED BY <2>2, <2>3, <2>4
<1>11. CASE AcceptReply(r)
  <2>1. CASE r.ok
    <3>1. /\ Save(unsaved, support', saving, timer)
          /\ support' = [mouse |-> r.mouse, accepted |-> TRUE]
          BY <1>11, <2>1 DEF AcceptReply
    <3>2. support'.mouse # NoMouse
          BY <1>4, <1>11, <2>1, <3>1 DEF AcceptReply
    <3> QED BY <1>1, <3>1, <3>2, SaveAgreed
  <2>2. CASE ~r.ok
    <3>1. UNCHANGED <<support, acceptOpen, server, requests>>
          BY <1>11, <2>2 DEF AcceptReply
    <3> QED BY <1>1, <1>5, <3>1, ServerTold
  <2> QED BY <2>1, <2>2
<1>12. CASE RepairReply(r)
  <2>1. UNCHANGED <<support, acceptOpen>>
        BY <1>12 DEF RepairReply
  <2>2. (server' = server /\ requests' = requests) \/ Send("state", NoProfile, 0)
        BY <1>12 DEF RepairReply
  <2>3. "state" \in Command \ {"accept"}
        BY DEF Command
  <2> QED BY <1>1, <1>5, <2>1, <2>2, <2>3, ServerTold, LineSent
<1> QED BY <1>7, <1>8, <1>9, <1>10, <1>11, <1>12 DEF ReadReply, r

(* What goes on in the overlay and beside it. *)
LEMMA OverlayAgreed ==
    ASSUME IInv,
           \/ TimerFires \/ FinishClose \/ RefreshLive
           \/ \E p \in ran \cup {NoProfile} : DaemonUpdated(p)
    PROVE  IInv'
<1> USE DEF mice, serverVars, flags, view, editor, history, bounds
<1>1. CASE TimerFires
  <2>1. /\ Save(unsaved, support, saving, FALSE)
        /\ UNCHANGED <<plugged, accepted, trespassed, session, replies, support, agreed>>
        BY <1>1 DEF TimerFires, SaveNow
  <2>2. /\ Process' /\ Agreement'
        /\ acceptOpen' \in BOOLEAN /\ (acceptOpen' => support'.mouse # NoMouse)
        BY <2>1, SaveAgreed
  <2>3. Dialog'
        BY <2>1, <2>2 DEF IInv, Dialog
  <2> QED BY <2>1, <2>2, <2>3, MiceKept
<1>2. CASE FinishClose
  <2>1. Dialog'
        BY <1>2 DEF FinishClose, IInv, Dialog
  <2> QED BY <1>2, <2>1, IdleServerTold, MiceKept DEF FinishClose
<1>3. CASE RefreshLive
  <2>1. Dialog'
        BY <1>3 DEF RefreshLive, IInv, Dialog
  <2>2. "live" \in Command \ {"accept"}
        BY DEF Command
  <2> QED BY <1>3, <2>1, <2>2, LineSent, MiceKept DEF RefreshLive
<1>4. ASSUME NEW p, DaemonUpdated(p) PROVE IInv'
      BY <1>4 DEF DaemonUpdated, IInv, Process, Agreement, Asked, Dialog
<1> QED BY <1>1, <1>2, <1>3, <1>4

(* The lines that waited are gone with the process. *)
LEMMA ExitAgreed ==
    ASSUME IInv, NoMouseFound \/ OpenFails \/ ServerDies \/ ServerStops
    PROVE  IInv'
<1> USE DEF mice
<1>1. PICK kind : Exits(kind)
      BY DEF NoMouseFound, OpenFails, ServerDies, ServerStops
<1>2. /\ server' = "off" /\ session' = NoMouse /\ requests' = <<>> /\ replies' = <<>>
      /\ UNCHANGED <<plugged, accepted, trespassed, acceptOpen, support, agreed>>
      BY <1>1 DEF Exits, view
<1>3. Process' /\ Agreement' /\ Dialog'
      BY <1>2, NoLines DEF IInv, Process, Agreement, Asked, Dialog
<1> QED BY <1>2, <1>3, MiceKept

(* Whichever mouse is found, the agreement on the way was given for it. *)
LEMMA OpenAgreed == ASSUME IInv, ServerOpens PROVE IInv'
<1>1. session' \in Mouse
      BY DEF ServerOpens, Found, IInv
<1>2. /\ server = "starting" /\ server' = "on"
      /\ UNCHANGED <<plugged, accepted, trespassed, requests, replies, acceptOpen, support, agreed>>
      BY DEF ServerOpens, mice, view, history
<1>3. Process' /\ Dialog'
      BY <1>1, <1>2 DEF IInv, Process, Dialog
<1>4. Agreement'
      BY <1>1, <1>2 DEF IInv, Agreement, Asked
<1> QED BY <1>2, <1>3, <1>4, MiceKept

(* The mice come and go; no other mouse takes the place of the one that    *)
(* the server has open. *)
LEMMA MouseAgreed ==
    ASSUME IInv, NEW m \in Mouse,
           \/ PlugIn(m) \/ Unplug(m) \/ DirectoryDamaged(m)
           \/ \E p \in Profile : PressButton(m, p)
    PROVE  IInv'
<1>1. /\ plugged' \subseteq Mouse /\ session' \in {session, NoMouse}
      /\ UNCHANGED <<accepted, trespassed, server, requests, replies, acceptOpen, support, agreed>>
      BY DEF PlugIn, Unplug, DirectoryDamaged, PressButton, Runs, overlay, serverVars, view,
             history, IInv
<1> QED BY <1>1 DEF IInv, Process, Agreement, Asked, Dialog

(* The server does what the oldest line says. *)
LEMMA HandleAgreed == ASSUME IInv, Handle PROVE IInv'
<1> DEFINE r == Head(requests)
<1>1. /\ server \in {"on", "stopping"} /\ requests # <<>>
      /\ UNCHANGED <<plugged, server, session, acceptOpen, support, agreed>>
      BY DEF Handle, view
<1>2. /\ r \in Elems(requests)
      /\ IsSeq(Tail(requests)) /\ Elems(Tail(requests)) \subseteq Elems(requests)
      BY <1>1, LineTaken DEF IInv, Process
<1>3. r.cmd = "accept" /\ session # NoMouse => session \in agreed
      BY <1>2 DEF IInv, Agreement, Asked
<1>4. r.cmd \in Command
      BY <1>2 DEF IInv, Process
<1>5. ASSUME NEW q, Answer(q), q.ok /\ q.to \in {"state", "accept"} => q.mouse # NoMouse
      PROVE  Process' /\ Agreement' /\ Dialog'
  <2>1. requests' = Tail(requests) /\ replies' = Append(replies, q)
        BY <1>5 DEF Answer
  <2>2. Process' /\ Agreement'
        BY <1>1, <1>2, <2>1 DEF IInv, Process, Agreement, Asked
  <2>3. IsSeq(replies') /\ Elems(replies') = Elems(replies) \cup {q}
        BY <2>1, LineAdded DEF IInv, Dialog
  <2>4. Dialog'
        BY <1>1, <1>5, <2>3 DEF IInv, Dialog
  <2> QED BY <2>2, <2>4
<1>6. ASSUME NEW c, NEW kind, Refuse(c, kind)
      PROVE  Process' /\ Agreement' /\ Dialog'
      BY <1>5, <1>6 DEF Refuse
<1>7. MayWrite(session) => session \in Verified \cup agreed
      BY DEF MayWrite, IInv
<1> SUFFICES Process' /\ Agreement' /\ Dialog' /\ accepted' \subseteq agreed /\ ~trespassed'
    BY <1>1 DEF IInv
<1> HIDE DEF r
<1>8. CASE \E kind : Refuse(r.cmd, kind) /\ UNCHANGED <<accepted, trespassed>>
      BY <1>6, <1>8 DEF IInv
<1>9. ASSUME session # NoMouse,
             CASE r.cmd = "state"    -> ReadState
               [] r.cmd = "live"     -> ReadLive
               [] r.cmd = "activate" -> ActivateProfile(r.profile)
               [] r.cmd = "apply"    -> Apply(r.profile, r.edit)
               [] r.cmd = "accept"   -> Accept
               [] r.cmd = "repair"   -> RepairDirectory
      PROVE  Process' /\ Agreement' /\ Dialog' /\ accepted' \subseteq agreed /\ ~trespassed'
  <2>1. CASE ReadState
    <3> DEFINE q == [to |-> "state", ok |-> TRUE, mouse |-> session,
                     accepted |-> MayWrite(session), active |-> current[session]]
    <3>1. Answer(q) \/ Refuse("state", "directory")
          BY <2>1 DEF ReadState
    <3>2. UNCHANGED <<accepted, trespassed>>
          BY <2>1 DEF ReadState
    <3> QED BY <1>5, <1>6, <1>9, <3>1, <3>2 DEF IInv
  <2>2. CASE ReadLive
        BY <1>5, <2>2 DEF ReadLive, IInv
  <2>3. CASE ActivateProfile(r.profile)
    <3> DEFINE q == [to |-> "activate", ok |-> TRUE, active |-> r.profile]
    <3>1. Answer(q) \/ Refuse("activate", "directory")
          BY <2>3 DEF ActivateProfile
    <3>2. UNCHANGED <<accepted, trespassed>>
          BY <2>3 DEF ActivateProfile
    <3> QED BY <1>5, <1>6, <3>1, <3>2 DEF IInv
  <2>4. CASE Apply(r.profile, r.edit)
    <3> DEFINE q == [to |-> "apply", ok |-> TRUE, profile |-> r.profile, edit |-> r.edit,
                     active |-> current[session] = r.profile]
    <3>1. Answer(q) \/ Refuse("apply", "directory") \/ Refuse("apply", "error")
          BY <2>4 DEF Apply
    <3>2. accepted' = accepted
          BY <2>4 DEF Apply
    <3>3. ~trespassed'
          BY <1>7, <2>4 DEF Apply, Wrote, IInv
    <3> QED BY <1>5, <1>6, <3>1, <3>2, <3>3 DEF IInv
  <2>5. CASE r.cmd = "accept" /\ Accept
    <3>1. /\ Answer([to |-> "accept", ok |-> TRUE, mouse |-> session])
          /\ accepted' \subseteq accepted \cup {session} /\ trespassed' = trespassed
          BY <2>5 DEF Accept
    <3> QED BY <1>3, <1>5, <1>9, <2>5, <3>1 DEF IInv
  <2>6. CASE RepairDirectory
    <3>1. Answer([to |-> "repair", ok |-> TRUE]) \/ Refuse("repair", "error")
          BY <2>6 DEF RepairDirectory
    <3>2. accepted' = accepted
          BY <2>6 DEF RepairDirectory
    <3>3. ~trespassed'
          BY <1>7, <2>6 DEF RepairDirectory, Wrote, IInv
    <3> QED BY <1>5, <1>6, <3>1, <3>2, <3>3 DEF IInv
  <2> QED BY <1>4, <1>9, <2>1, <2>2, <2>3, <2>4, <2>5, <2>6 DEF Command
<1> QED BY <1>8, <1>9 DEF Handle, r

-----------------------------------------------------------------------------
(* Every step keeps the invariant. *)
LEMMA StepAgreed == IInv /\ [Next]_vars => IInv'
<1> SUFFICES ASSUME IInv, [Next]_vars PROVE IInv'
    OBVIOUS
<1>1. CASE UNCHANGED vars
      BY <1>1 DEF vars, mice, serverVars, view, history, IInv, Process, Agreement, Asked, Dialog
<1>2. CASE Next
      BY <1>2, UserAgreed, OverlayAgreed, ReplyAgreed, OpenAgreed, ExitAgreed, HandleAgreed,
         MouseAgreed DEF Next
<1> QED BY <1>1, <1>2

(* A mouse that was not tested is written only if the user agreed to it,   *)
(* whichever mouse is found when the server starts again with the lines    *)
(* that waited (ensure_writes_accepted, acceptUntested): the agreement is  *)
(* asked for a mouse that is known, and no second mouse takes its place    *)
(* in a process.                                                           *)
THEOREM AgreementHolds == Spec => []WrittenAsAgreed
<1>1. Init => IInv
      BY InitAgreed
<1>2. IInv /\ [Next]_vars => IInv'
      BY StepAgreed
<1>3. IInv => WrittenAsAgreed
      BY DEF IInv, WrittenAsAgreed
<1> QED BY <1>1, <1>2, <1>3, PTL DEF Spec
-----------------------------------------------------------------------------
(* How many lines of a kind wait.                                          *)

(* Lines are counted by their places. *)
LEMMA PlacesFinite ==
    ASSUME NEW n \in Nat, NEW I \in SUBSET (1..n)
    PROVE  IsFiniteSet(I) /\ Cardinality(I) \in Nat
<1>1. IsFiniteSet(1..n)
      BY FS_Interval
<1>2. IsFiniteSet(I)
      BY <1>1, FS_Subset
<1> QED BY <1>2, FS_CardinalityType

(* One place more at the end. *)
LEMMA PlaceAdded ==
    ASSUME NEW n \in Nat, NEW I \in SUBSET (1..n)
    PROVE  Cardinality(I \cup {n + 1}) = Cardinality(I) + 1
<1>1. n + 1 \notin I
      OBVIOUS
<1> QED BY <1>1, PlacesFinite, FS_AddElement

(* The first place taken away, and the others moved up. *)
LEMMA PlaceTaken ==
    ASSUME NEW n \in Nat \ {0}, NEW I \in SUBSET (1..n)
    PROVE  Cardinality({i \in 1..n - 1 : i + 1 \in I})
              = Cardinality(I) - (IF 1 \in I THEN 1 ELSE 0)
<1> DEFINE J == {i \in 1..n - 1 : i + 1 \in I}
           f == [i \in J |-> i + 1]
<1>1. f \in Bijection(J, I \ {1})
  <2>1. f \in [J -> I \ {1}]
        OBVIOUS
  <2>2. \A a, b \in J : f[a] = f[b] => a = b
        OBVIOUS
  <2>3. \A k \in I \ {1} : \E i \in J : f[i] = k
    <3>1. TAKE k \in I \ {1}
    <3>2. k - 1 \in J /\ f[k - 1] = k
          OBVIOUS
    <3> QED BY <3>2
  <2> HIDE DEF f, J
  <2> QED BY <2>1, <2>2, <2>3, Fun_IsBij
<1>2. IsFiniteSet(J) /\ IsFiniteSet(I) /\ Cardinality(I) \in Nat
  <2>1. J \in SUBSET (1..n)
        OBVIOUS
  <2> QED BY <2>1, PlacesFinite
<1> HIDE DEF f, J
<1>3. Cardinality(J) = Cardinality(I \ {1})
      BY <1>1, <1>2, FS_Bijection DEF ExistsBijection
<1>4. Cardinality(I \ {1}) = IF 1 \in I THEN Cardinality(I) - 1 ELSE Cardinality(I)
      BY <1>2, FS_RemoveElement
<1>5. Cardinality(J) = Cardinality(I) - (IF 1 \in I THEN 1 ELSE 0)
      BY <1>2, <1>3, <1>4
<1> QED BY <1>5 DEF J

Typed == requests \in Seq(Request) /\ replies \in Seq(Reply)

NumWaiting(cmds) == Cardinality(Waiting(cmds))
NumComing(cmds)  == Cardinality(Coming(cmds))
One(b) == IF b THEN 1 ELSE 0

LEMMA NumTyped ==
    ASSUME Typed, NEW cmds
    PROVE  NumWaiting(cmds) \in Nat /\ NumComing(cmds) \in Nat
<1>1. /\ Len(requests) \in Nat /\ Waiting(cmds) \in SUBSET (1..Len(requests))
      /\ Len(replies) \in Nat /\ Coming(cmds) \in SUBSET (1..Len(replies))
      BY DEF Typed, Waiting, Coming
<1> QED BY <1>1, PlacesFinite DEF NumWaiting, NumComing

(* A line is sent. *)
LEMMA SentCounted ==
    ASSUME Typed, NEW CONSTANT cmds, NEW x, requests' = Append(requests, x)
    PROVE  NumWaiting(cmds)' = NumWaiting(cmds) + One(x.cmd \in cmds)
<1> DEFINE n == Len(requests)
           I == Waiting(cmds)
<1>1. /\ n \in Nat /\ I \in SUBSET (1..n) /\ DOMAIN requests = 1..n
      /\ DOMAIN requests' = 1..n + 1 /\ requests'[n + 1] = x
      /\ \A i \in 1..n : requests'[i] = requests[i]
      BY DEF Typed, Waiting
<1>2. Waiting(cmds)' = {i \in 1..n + 1 : requests'[i].cmd \in cmds}
      BY <1>1 DEF Waiting
<1>3. Waiting(cmds)' = I \cup {i \in {n + 1} : x.cmd \in cmds}
      BY <1>1, <1>2 DEF Waiting
<1>4. CASE x.cmd \in cmds
  <2>1. Waiting(cmds)' = I \cup {n + 1}
        BY <1>3, <1>4
  <2> HIDE DEF n, I
  <2> QED BY <1>1, <1>4, <2>1, PlaceAdded DEF NumWaiting, One, I
<1>5. CASE x.cmd \notin cmds
  <2>1. Waiting(cmds)' = I
        BY <1>3, <1>5
  <2> QED BY <1>5, <2>1, NumTyped DEF NumWaiting, One
<1> QED BY <1>4, <1>5

(* A line is handled. *)
LEMMA HandledCounted ==
    ASSUME Typed, NEW CONSTANT cmds, requests # <<>>, requests' = Tail(requests)
    PROVE  NumWaiting(cmds)' = NumWaiting(cmds) - One(Head(requests).cmd \in cmds)
<1> DEFINE n == Len(requests)
           I == Waiting(cmds)
<1>1. /\ n \in Nat \ {0} /\ I \in SUBSET (1..n) /\ DOMAIN requests = 1..n
      /\ DOMAIN requests' = 1..n - 1 /\ Head(requests) = requests[1]
      /\ \A i \in 1..n - 1 : requests'[i] = requests[i + 1]
      BY DEF Typed, Waiting
<1>2. Waiting(cmds)' = {i \in 1..n - 1 : requests'[i].cmd \in cmds}
      BY <1>1 DEF Waiting
<1>3. Waiting(cmds)' = {i \in 1..n - 1 : i + 1 \in I}
      BY <1>1, <1>2 DEF Waiting
<1>4. 1 \in I <=> Head(requests).cmd \in cmds
      BY <1>1 DEF Waiting
<1> HIDE DEF n, I
<1> QED BY <1>1, <1>3, <1>4, PlaceTaken DEF NumWaiting, One, I

(* A reply is written. *)
LEMMA AnsweredCounted ==
    ASSUME Typed, NEW CONSTANT cmds, NEW x, replies' = Append(replies, x)
    PROVE  NumComing(cmds)' = NumComing(cmds) + One(x.to \in cmds)
<1> DEFINE n == Len(replies)
           I == Coming(cmds)
<1>1. /\ n \in Nat /\ I \in SUBSET (1..n) /\ DOMAIN replies = 1..n
      /\ DOMAIN replies' = 1..n + 1 /\ replies'[n + 1] = x
      /\ \A i \in 1..n : replies'[i] = replies[i]
      BY DEF Typed, Coming
<1>2. Coming(cmds)' = {i \in 1..n + 1 : replies'[i].to \in cmds}
      BY <1>1 DEF Coming
<1>3. Coming(cmds)' = I \cup {i \in {n + 1} : x.to \in cmds}
      BY <1>1, <1>2 DEF Coming
<1>4. CASE x.to \in cmds
  <2>1. Coming(cmds)' = I \cup {n + 1}
        BY <1>3, <1>4
  <2> HIDE DEF n, I
  <2> QED BY <1>1, <1>4, <2>1, PlaceAdded DEF NumComing, One, I
<1>5. CASE x.to \notin cmds
  <2>1. Coming(cmds)' = I
        BY <1>3, <1>5
  <2> QED BY <1>5, <2>1, NumTyped DEF NumComing, One
<1> QED BY <1>4, <1>5

(* A reply is read. *)
LEMMA ReadCounted ==
    ASSUME Typed, NEW CONSTANT cmds, replies # <<>>, replies' = Tail(replies)
    PROVE  NumComing(cmds)' = NumComing(cmds) - One(Head(replies).to \in cmds)
<1> DEFINE n == Len(replies)
           I == Coming(cmds)
<1>1. /\ n \in Nat \ {0} /\ I \in SUBSET (1..n) /\ DOMAIN replies = 1..n
      /\ DOMAIN replies' = 1..n - 1 /\ Head(replies) = replies[1]
      /\ \A i \in 1..n - 1 : replies'[i] = replies[i + 1]
      BY DEF Typed, Coming
<1>2. Coming(cmds)' = {i \in 1..n - 1 : replies'[i].to \in cmds}
      BY <1>1 DEF Coming
<1>3. Coming(cmds)' = {i \in 1..n - 1 : i + 1 \in I}
      BY <1>1, <1>2 DEF Coming
<1>4. 1 \in I <=> Head(replies).to \in cmds
      BY <1>1 DEF Coming
<1> HIDE DEF n, I
<1> QED BY <1>1, <1>3, <1>4, PlaceTaken DEF NumComing, One, I

(* Where a line waits, its kind is counted. *)
LEMMA SomeCounted ==
    ASSUME Typed, NEW cmds
    PROVE  NumWaiting(cmds) + NumComing(cmds) # 0 => Len(requests) + Len(replies) # 0
<1>1. ASSUME Len(requests) = 0 PROVE NumWaiting(cmds) = 0
      BY <1>1, FS_EmptySet DEF Typed, NumWaiting, Waiting
<1>2. ASSUME Len(replies) = 0 PROVE NumComing(cmds) = 0
      BY <1>2, FS_EmptySet DEF Typed, NumComing, Coming
<1> QED BY <1>1, <1>2 DEF Typed

-----------------------------------------------------------------------------
(* The types, by parts. *)

MiceTyped ==
    /\ {plugged, damaged, accepted, agreed} \subseteq SUBSET Mouse
    /\ current \in [Mouse -> Profile]
    /\ ran \subseteq Profile /\ daemonSeen \in Profile \cup {NoProfile}
    /\ trespassed \in BOOLEAN /\ events \in 0..MaxEvents

ServerTyped ==
    server \in {"off", "starting", "on", "stopping"} /\ session \in plugged \cup {NoMouse}

FlagsTyped ==
    /\ {opened, mounted, loading, livePolling, saving, ready, timer, acceptOpen, told, left}
         \subseteq BOOLEAN
    /\ loadError \in {"", "device", "directory", "error"}

DraftTyped ==
    /\ support \in [mouse : Mouse \cup {NoMouse}, accepted : BOOLEAN]
    /\ {active, cursor} \subseteq Profile /\ inUse \subseteq Profile
    /\ {unsaved, edits} \subseteq 0..MaxEdits

(* A line that saves or activates names a profile, and one that saves an   *)
(* edit. *)
Meant(q) == /\ q.cmd \in {"apply", "activate"} => q.profile # NoProfile
            /\ q.cmd = "apply" => q.edit # NoEdit
LinesMeant == \A i \in DOMAIN requests : Meant(requests[i])

(* The type invariant is these. *)
LEMMA TypeParts == TypeOK <=> MiceTyped /\ ServerTyped /\ FlagsTyped /\ DraftTyped /\ Typed
BY Zenon DEF TypeOK, MiceTyped, ServerTyped, FlagsTyped, DraftTyped, Typed

(* What a save sets. *)
LEMMA SaveTyped ==
    ASSUME FlagsTyped, ServerTyped, NEW e, NEW s, NEW busy \in BOOLEAN, NEW wait \in BOOLEAN,
           Save(e, s, busy, wait)
    PROVE  /\ acceptOpen' \in BOOLEAN /\ timer' \in BOOLEAN /\ saving' \in BOOLEAN
           /\ server' \in {server, "starting"}
<1>1. CASE e = NoEdit \/ NeedsAcceptance(s)
  <2>1. /\ acceptOpen' = (acceptOpen \/ e # NoEdit)
        /\ timer' = wait /\ saving' = busy /\ server' = server
        BY <1>1 DEF Save
  <2> QED BY <2>1 DEF FlagsTyped
<1>2. CASE ~(e = NoEdit \/ NeedsAcceptance(s)) /\ busy
      BY <1>2 DEF Save, FlagsTyped
<1>3. CASE ~(e = NoEdit \/ NeedsAcceptance(s)) /\ ~busy
      BY <1>3 DEF Save, Send, FlagsTyped
<1> QED BY <1>1, <1>2, <1>3

(* And stopping the server. *)
LEMMA StopTyped == ASSUME ServerTyped, StopWhenIdle PROVE server' \in {server, "off", "stopping"}
BY DEF StopWhenIdle, Stopped

Quiet == UNCHANGED <<mice, agreed, trespassed, daemonSeen, session, events>>

(* A step that leaves the mice, the process and the draft alone. *)
LEMMA FlagsOnly ==
    ASSUME TypeOK, Quiet, UNCHANGED <<support, active, inUse, cursor, unsaved, edits>>,
           server' \in {"off", "starting", "on", "stopping"}, FlagsTyped'
    PROVE  MiceTyped' /\ ServerTyped' /\ FlagsTyped' /\ DraftTyped'
BY DEF TypeOK, Quiet, mice, MiceTyped, ServerTyped, DraftTyped

LEMMA UserTyped ==
    ASSUME IInv, TypeOK, User
    PROVE  MiceTyped' /\ ServerTyped' /\ FlagsTyped' /\ DraftTyped'
<1> USE BoundsAssumption DEF serverVars, flags, view, editor, history, bounds
<1>1. MiceTyped /\ ServerTyped /\ FlagsTyped /\ DraftTyped
      BY TypeParts
<1>2. ASSUME NEW t \in {server, Stopped(server)}, Refresh(t),
             Quiet, UNCHANGED <<support, active, inUse, cursor, unsaved, edits, livePolling, saving,
                                ready, timer, acceptOpen, told>>,
             opened' \in BOOLEAN, mounted' \in BOOLEAN, left' \in BOOLEAN
      PROVE  MiceTyped' /\ ServerTyped' /\ FlagsTyped' /\ DraftTyped'
  <2>1. server' \in {"off", "starting", "on", "stopping"} /\ loading' = TRUE /\ loadError' = ""
        BY <1>1, <1>2 DEF Refresh, Stopped, ServerTyped
  <2> QED BY <1>1, <1>2, <2>1, FlagsOnly DEF FlagsTyped
<1>3. CASE Open
  <2>1. CASE loading
    <3>1. FlagsTyped' /\ server' \in {"off", "starting", "on", "stopping"}
          BY <1>1, <1>3, <2>1 DEF Open, FlagsTyped, ServerTyped
    <3> QED BY <1>3, <3>1, FlagsOnly DEF Open, Quiet
  <2>2. CASE ~loading
        BY <1>2, <1>3, <2>2 DEF Open, Quiet
  <2> QED BY <2>1, <2>2
<1>4. CASE RefreshKey
      BY <1>1, <1>2, <1>4 DEF RefreshKey, Quiet, FlagsTyped
<1>5. CASE Retry
      BY <1>1, <1>2, <1>5 DEF Retry, Quiet, FlagsTyped
<1>6. CASE Repair \/ Activate
  <2>1. FlagsTyped' /\ server' \in {"off", "starting", "on", "stopping"}
        BY <1>1, <1>6 DEF Repair, Activate, Send, FlagsTyped, ServerTyped
  <2> QED BY <1>6, <2>1, FlagsOnly DEF Repair, Activate, Quiet
<1>7. CASE InstallHelper
  <2>1. FlagsTyped' /\ server' \in {"off", "starting", "on", "stopping"}
        BY <1>1, <1>7 DEF InstallHelper, Stopped, FlagsTyped, ServerTyped
  <2> QED BY <1>7, <2>1, FlagsOnly DEF InstallHelper, Quiet
<1>8. CASE Close
  <2>1. CASE timer
    <3>1. Save(unsaved, support, saving, FALSE)
          BY <1>8, <2>1 DEF Close, SaveNow
    <3>2. saving \in BOOLEAN
          BY <1>1 DEF FlagsTyped
    <3>3. /\ acceptOpen' \in BOOLEAN /\ timer' \in BOOLEAN /\ saving' \in BOOLEAN
          /\ server' \in {server, "starting"}
          BY <1>1, <3>1, <3>2, SaveTyped
    <3>4. FlagsTyped' /\ server' \in {"off", "starting", "on", "stopping"}
          BY <1>1, <1>8, <3>3 DEF Close, FlagsTyped, ServerTyped
    <3> QED BY <1>8, <3>4, FlagsOnly DEF Close, Quiet
  <2>2. CASE ~timer
    <3>1. FlagsTyped' /\ server' \in {"off", "starting", "on", "stopping"}
          BY <1>1, <1>8, <2>2 DEF Close, FlagsTyped, ServerTyped
    <3> QED BY <1>8, <3>1, FlagsOnly DEF Close, Quiet
  <2> QED BY <2>1, <2>2
<1>9. CASE AcceptUntested
  <2>1. agreed' \in SUBSET Mouse
    <3>1. support.mouse \in Mouse
          BY <1>1, <1>9 DEF AcceptUntested, IInv, Dialog, DraftTyped
    <3> QED BY <1>1, <1>9, <3>1 DEF AcceptUntested, MiceTyped
  <2>2. MiceTyped'
        BY <1>1, <1>9, <2>1 DEF AcceptUntested, mice, MiceTyped
  <2> QED BY <1>1, <1>9, <2>2 DEF AcceptUntested, mice, Send, ServerTyped, FlagsTyped, DraftTyped
<1>10. CASE Edit
  <2>1. edits' \in 0..MaxEdits
        BY <1>1, <1>10 DEF Edit, DraftTyped
  <2>2. FlagsTyped'
        BY <1>1, <1>10 DEF Edit, FlagsTyped
  <2>3. MiceTyped' /\ ServerTyped'
        BY <1>1, <1>10 DEF Edit, mice, MiceTyped, ServerTyped
  <2> QED BY <1>1, <1>10, <2>1, <2>2, <2>3 DEF Edit, DraftTyped
<1>11. CASE Dismiss
  <2>1. told' \in BOOLEAN
        BY <1>11 DEF Dismiss, dirty
  <2>2. FlagsTyped' /\ server' \in {"off", "starting", "on", "stopping"}
        BY <1>1, <1>11, <2>1 DEF Dismiss, FlagsTyped, ServerTyped
  <2> QED BY <1>11, <2>2, FlagsOnly DEF Dismiss, Quiet
<1>12. ASSUME NEW p \in Profile, Select(p)
       PROVE  MiceTyped' /\ ServerTyped' /\ FlagsTyped' /\ DraftTyped'
  <2>1. MiceTyped' /\ ServerTyped' /\ FlagsTyped'
        BY <1>1, <1>12 DEF Select, mice, MiceTyped, ServerTyped, FlagsTyped
  <2>2. unsaved' \in 0..MaxEdits /\ cursor' \in Profile
        BY <1>1, <1>12 DEF Select, LoadDraft, NoEdit
  <2> QED BY <1>1, <1>12, <2>1, <2>2 DEF Select, DraftTyped
<1> QED BY <1>3, <1>4, <1>5, <1>6, <1>7, <1>8, <1>9, <1>10, <1>11, <1>12 DEF User

(* The profile in use was observed. *)
LEMMA Observed ==
    ASSUME DraftTyped, NEW p \in Profile, ObserveActive(p), UNCHANGED <<support, edits>>
    PROVE  DraftTyped'
<1>1. NoEdit \in 0..MaxEdits
      BY BoundsAssumption DEF NoEdit
<1>2. /\ active' \in {active, p} /\ inUse' \in {inUse, {p}}
      /\ cursor' \in {cursor, p} /\ unsaved' \in {unsaved, NoEdit}
      BY DEF ObserveActive, WithActive, LoadDraft, editor
<1>3. unsaved' \in 0..MaxEdits
      BY <1>1, <1>2 DEF DraftTyped
<1> QED BY <1>2, <1>3 DEF DraftTyped

(* Whatever reply is read: what it carries has its type. *)
LEMMA ReplyTyped ==
    ASSUME TypeOK, ReadReply
    PROVE  MiceTyped' /\ ServerTyped' /\ FlagsTyped' /\ DraftTyped'
<1> USE DEF flags, view, editor, bounds
<1> DEFINE r == Head(replies)
<1>1. MiceTyped /\ ServerTyped /\ FlagsTyped /\ DraftTyped
      BY TypeParts
<1>2. r \in Reply
  <2>1. replies \in Seq(Reply) /\ replies # <<>>
        BY DEF ReadReply, TypeOK
  <2> HIDE DEF r
  <2>2. \A S : \A q \in Seq(S) : q # <<>> => Head(q) \in S
        OBVIOUS
  <2> QED BY <2>1, <2>2 DEF r
<1>3. /\ MiceTyped'
      /\ UNCHANGED <<plugged, session, opened, mounted, edits>>
      BY <1>1 DEF ReadReply, mice, MiceTyped
<1> HIDE DEF r
<1>4. SUFFICES server' \in {"off", "starting", "on", "stopping"} /\ FlagsTyped' /\ DraftTyped'
      BY <1>1, <1>3 DEF ServerTyped
<1>5. /\ r.ok /\ r.to = "state"
            => r.mouse \in Mouse /\ r.accepted \in BOOLEAN /\ r.active \in Profile
      /\ r.ok /\ r.to \in {"live", "activate"} => r.active \in Profile
      /\ r.ok /\ r.to = "apply" => r.profile \in Profile /\ r.active \in BOOLEAN
      /\ r.ok /\ r.to = "accept" => r.mouse \in Mouse
      /\ ~r.ok => r.kind \in {"error", "directory"}
      /\ r.ok \in BOOLEAN
      BY <1>2 DEF Reply
<1>12. NoEdit \in 0..MaxEdits
       BY BoundsAssumption DEF NoEdit
<1>6. CASE StateReply(r)
  <2>1. CASE r.ok
    <3>1. server' \in {server, "off", "stopping"}
          BY <1>1, <1>6, <2>1, StopTyped DEF StateReply
    <3>2. support' = [mouse |-> r.mouse, accepted |-> r.accepted] /\ active' = r.active
          /\ inUse' = {r.active} /\ ready' = TRUE
          BY <1>6, <2>1 DEF StateReply, WithActive
    <3>3. /\ cursor' \in {r.active, cursor} /\ unsaved' \in {unsaved, NoEdit}
          BY <1>6, <2>1 DEF StateReply, LoadDraft
    <3>4. FlagsTyped'
          BY <1>1, <1>3, <1>6, <2>1, <3>2 DEF StateReply, FlagsTyped
    <3>5. DraftTyped'
      <4>1. r.mouse \in Mouse /\ r.accepted \in BOOLEAN /\ r.active \in Profile
            BY <1>5, <1>6, <2>1 DEF StateReply
      <4>2. unsaved' \in 0..MaxEdits
            BY <1>1, <1>12, <3>3 DEF DraftTyped
      <4> QED BY <1>1, <1>3, <3>2, <3>3, <4>1, <4>2 DEF DraftTyped
    <3> QED BY <1>1, <3>1, <3>4, <3>5 DEF ServerTyped
  <2>2. CASE ~r.ok
    <3>1. left' \in BOOLEAN /\ loadError' \in {loadError, r.kind}
          BY <1>1, <1>6, <2>2 DEF StateReply, FailLoad, FlagsTyped
    <3>2. FlagsTyped'
          BY <1>1, <1>3, <1>5, <1>6, <2>2, <3>1 DEF StateReply, FlagsTyped
    <3> QED BY <1>1, <1>3, <1>6, <2>2, <3>2 DEF StateReply, DraftTyped, ServerTyped
  <2> QED BY <2>1, <2>2
<1>7. CASE LiveReply(r)
  <2>1. server' \in {server, "off", "stopping"}
        BY <1>1, <1>7, StopTyped DEF LiveReply
  <2>2. FlagsTyped'
        BY <1>1, <1>3, <1>7 DEF LiveReply, FlagsTyped
  <2>3. DraftTyped'
    <3>1. CASE r.ok /\ opened
      <4>1. ObserveActive(r.active) /\ support' = support /\ r.active \in Profile
            BY <1>5, <1>7, <3>1 DEF LiveReply
      <4> QED BY <1>1, <1>3, <4>1, Observed
    <3>2. CASE ~(r.ok /\ opened)
          BY <1>1, <1>3, <1>7, <3>2 DEF LiveReply, DraftTyped
    <3> QED BY <3>1, <3>2
  <2> QED BY <1>1, <2>1, <2>2, <2>3 DEF ServerTyped
<1>8. CASE ActivateReply(r)
  <2>1. left' \in BOOLEAN
        BY <1>1, <1>8 DEF ActivateReply, FlagsTyped
  <2>2. FlagsTyped' /\ server' = server
        BY <1>1, <1>3, <1>8, <2>1 DEF ActivateReply, FlagsTyped
  <2>3. DraftTyped'
        BY <1>1, <1>3, <1>5, <1>8 DEF ActivateReply, WithActive, DraftTyped
  <2> QED BY <1>1, <2>2, <2>3 DEF ServerTyped
<1>9. CASE ApplyReply(r)
  <2> DEFINE rest == IF r.ok /\ cursor = r.profile /\ unsaved = r.edit THEN NoEdit ELSE unsaved
             more == r.ok /\ rest # NoEdit
  <2>1. /\ unsaved' = rest /\ told' = ~r.ok
        /\ UNCHANGED <<loading, livePolling, ready, support, cursor, loadError, left>>
        BY <1>9 DEF ApplyReply
  <2>2. active' \in Profile /\ inUse' \subseteq Profile
        BY <1>1, <1>5, <1>9 DEF ApplyReply, WithSlot, DraftTyped
  <2>3. DraftTyped'
    <3>1. unsaved' \in 0..MaxEdits
          BY <1>1, <1>12, <2>1 DEF DraftTyped
    <3> QED BY <1>1, <1>3, <2>1, <2>2, <3>1 DEF DraftTyped
  <2>4. told' \in BOOLEAN /\ timer \in BOOLEAN /\ more \in BOOLEAN
        BY <1>1, <1>5, <2>1 DEF FlagsTyped
  <2>5. /\ acceptOpen' \in BOOLEAN /\ timer' \in BOOLEAN /\ saving' \in BOOLEAN
        /\ server' \in {"off", "starting", "on", "stopping"}
    <3>1. CASE more /\ opened
          BY <1>1, <1>9, <3>1 DEF ApplyReply, FlagsTyped, ServerTyped
    <3>2. CASE more /\ ~opened /\ ~NeedsAcceptance(support)
      <4>1. Save(rest, support, FALSE, timer)
            BY <1>9, <3>2 DEF ApplyReply
      <4> QED BY <1>1, <2>4, <4>1, SaveTyped DEF ServerTyped
    <3>3. CASE ~more \/ (~opened /\ NeedsAcceptance(support))
      <4>1. saving' = FALSE /\ acceptOpen' = (acceptOpen \/ more) /\ timer' = timer /\ StopWhenIdle
            BY <1>9, <3>3 DEF ApplyReply
      <4> HIDE DEF more
      <4> QED BY <1>1, <2>4, <4>1, StopTyped DEF ServerTyped, FlagsTyped
    <3> QED BY <3>1, <3>2, <3>3
  <2>6. FlagsTyped'
        BY <1>1, <1>3, <2>1, <2>4, <2>5 DEF FlagsTyped
  <2> QED BY <2>3, <2>5, <2>6
<1>10. CASE AcceptReply(r)
  <2>1. /\ UNCHANGED <<loading, livePolling, ready, active, inUse, cursor, unsaved, loadError>>
        /\ left' = ~opened
        BY <1>10 DEF AcceptReply
  <2>2. left' \in BOOLEAN
        BY <1>1, <2>1 DEF FlagsTyped
  <2>3. CASE r.ok
    <3>1. /\ Save(unsaved, support', saving, timer) /\ told' = told
          /\ support' = [mouse |-> r.mouse, accepted |-> TRUE]
          BY <1>10, <2>3 DEF AcceptReply
    <3>2. r.mouse \in Mouse
          BY <1>5, <1>10, <2>3 DEF AcceptReply
    <3>3. /\ acceptOpen' \in BOOLEAN /\ timer' \in BOOLEAN /\ saving' \in BOOLEAN
          /\ server' \in {server, "starting"}
      <4>1. saving \in BOOLEAN /\ timer \in BOOLEAN
            BY <1>1 DEF FlagsTyped
      <4> QED BY <1>1, <3>1, <4>1, SaveTyped
    <3>4. FlagsTyped'
          BY <1>1, <1>3, <2>1, <2>2, <3>1, <3>3 DEF FlagsTyped
    <3>5. DraftTyped'
          BY <1>1, <1>3, <2>1, <3>1, <3>2 DEF DraftTyped
    <3> QED BY <1>1, <3>3, <3>4, <3>5 DEF ServerTyped
  <2>4. CASE ~r.ok
    <3>1. told' = dirty /\ UNCHANGED <<support, server, requests, timer, saving, acceptOpen>>
          BY <1>10, <2>4 DEF AcceptReply
    <3>2. told' \in BOOLEAN
          BY <3>1 DEF dirty
    <3>3. FlagsTyped'
          BY <1>1, <1>3, <2>1, <2>2, <3>1, <3>2 DEF FlagsTyped
    <3>4. DraftTyped'
          BY <1>1, <1>3, <2>1, <3>1 DEF DraftTyped
    <3> QED BY <1>1, <3>1, <3>3, <3>4 DEF ServerTyped
  <2> QED BY <2>3, <2>4
<1>11. CASE RepairReply(r)
  <2>1. /\ UNCHANGED <<livePolling, saving, ready, timer, acceptOpen, told>> /\ loading' \in BOOLEAN
        /\ left' \in BOOLEAN /\ loadError' \in {"", "error", "directory"}
        BY <1>1, <1>5, <1>11 DEF RepairReply, FlagsTyped
  <2>2. FlagsTyped'
        BY <1>1, <1>3, <2>1 DEF FlagsTyped
  <2>3. DraftTyped'
        BY <1>1, <1>3, <1>11 DEF RepairReply, DraftTyped
  <2>4. server' \in {server, "starting"}
        BY <1>11 DEF RepairReply, Send
  <2> QED BY <1>1, <2>2, <2>3, <2>4 DEF ServerTyped
<1> QED BY <1>6, <1>7, <1>8, <1>9, <1>10, <1>11 DEF ReadReply, r

(* The timer, the animation, polling and the daemon's file. *)
LEMMA OverlayTyped ==
    ASSUME TypeOK,
           \/ TimerFires \/ FinishClose \/ RefreshLive
           \/ \E p \in ran \cup {NoProfile} : DaemonUpdated(p)
    PROVE  MiceTyped' /\ ServerTyped' /\ FlagsTyped' /\ DraftTyped'
<1> USE DEF serverVars, flags, view, editor, history, bounds
<1>1. MiceTyped /\ ServerTyped /\ FlagsTyped /\ DraftTyped
      BY TypeParts
<1>2. CASE TimerFires
  <2>1. saving \in BOOLEAN /\ Save(unsaved, support, saving, FALSE)
        BY <1>1, <1>2 DEF TimerFires, SaveNow, FlagsTyped
  <2>2. /\ acceptOpen' \in BOOLEAN /\ timer' \in BOOLEAN /\ saving' \in BOOLEAN
        /\ server' \in {server, "starting"}
        BY <1>1, <2>1, SaveTyped
  <2>3. left' \in BOOLEAN
        BY <1>2 DEF TimerFires
  <2>4. FlagsTyped' /\ server' \in {"off", "starting", "on", "stopping"}
        BY <1>1, <1>2, <2>2, <2>3 DEF TimerFires, FlagsTyped, ServerTyped
  <2> QED BY <1>2, <2>4, FlagsOnly DEF TimerFires, Quiet
<1>3. CASE FinishClose
  <2>1. FlagsTyped' /\ server' \in {"off", "starting", "on", "stopping"}
        BY <1>1, <1>3, StopTyped DEF FinishClose, FlagsTyped, ServerTyped
  <2> QED BY <1>3, <2>1, FlagsOnly DEF FinishClose, Quiet
<1>4. CASE RefreshLive
  <2>1. FlagsTyped' /\ server' \in {"off", "starting", "on", "stopping"}
        BY <1>1, <1>4 DEF RefreshLive, Send, FlagsTyped, ServerTyped
  <2> QED BY <1>4, <2>1, FlagsOnly DEF RefreshLive, Quiet
<1>5. ASSUME NEW p \in ran \cup {NoProfile}, DaemonUpdated(p)
      PROVE  MiceTyped' /\ ServerTyped' /\ FlagsTyped' /\ DraftTyped'
  <2>1. p \in Profile \cup {NoProfile} /\ events' \in 0..MaxEvents
        BY <1>1, <1>5, BoundsAssumption DEF DaemonUpdated, Event, MiceTyped
  <2>2. MiceTyped' /\ ServerTyped' /\ FlagsTyped'
        BY <1>1, <1>5, <2>1 DEF DaemonUpdated, mice, MiceTyped, ServerTyped, FlagsTyped
  <2>3. CASE ready /\ p # NoProfile
        BY <1>1, <1>5, <2>1, <2>2, <2>3, Observed DEF DaemonUpdated
  <2>4. CASE ~(ready /\ p # NoProfile)
        BY <1>1, <1>5, <2>2, <2>4 DEF DaemonUpdated, DraftTyped
  <2> QED BY <2>2, <2>3, <2>4
<1> QED BY <1>2, <1>3, <1>4, <1>5

(* The process opens a mouse or ends. *)
LEMMA ProcessTyped ==
    ASSUME TypeOK, ServerOpens \/ NoMouseFound \/ OpenFails \/ ServerDies \/ ServerStops
    PROVE  MiceTyped' /\ ServerTyped' /\ FlagsTyped' /\ DraftTyped'
<1> USE DEF flags, view, editor, history, bounds
<1>1. MiceTyped /\ ServerTyped /\ FlagsTyped /\ DraftTyped
      BY TypeParts
<1>2. CASE ServerOpens
  <2>1. session' \in plugged
        BY <1>2 DEF ServerOpens, Found
  <2> QED BY <1>1, <1>2, <2>1 DEF ServerOpens, mice, MiceTyped, ServerTyped, FlagsTyped, DraftTyped
<1>3. ASSUME NEW kind \in {"device", "error"}, Exits(kind), events' \in 0..MaxEvents
      PROVE  MiceTyped' /\ ServerTyped' /\ FlagsTyped' /\ DraftTyped'
  <2>1. MiceTyped' /\ DraftTyped' /\ ServerTyped'
        BY <1>1, <1>3 DEF Exits, mice, MiceTyped, DraftTyped, ServerTyped
  <2>2. told' = (told \/ (dirty /\ (saving \/ Sent("accept"))))
        BY <1>3 DEF Exits
  <2>3. told' \in BOOLEAN
        BY <2>2
  <2>4. loadError' \in {loadError, kind}
        BY <1>3 DEF Exits, FailLoad
  <2> QED BY <1>1, <1>3, <2>1, <2>3, <2>4 DEF Exits, FlagsTyped
<1>4. Event => events' \in 0..MaxEvents
      BY <1>1, BoundsAssumption DEF Event, MiceTyped
<1> QED BY <1>1, <1>2, <1>3, <1>4
        DEF NoMouseFound, OpenFails, ServerDies, ServerStops, MiceTyped

(* A mouse is plugged in or out, is damaged, or changes its profile. *)
LEMMA MouseTyped ==
    ASSUME TypeOK,
           \/ \E m \in Mouse : PlugIn(m) \/ Unplug(m) \/ DirectoryDamaged(m)
           \/ \E m \in Mouse, p \in Profile : PressButton(m, p)
    PROVE  /\ MiceTyped' /\ ServerTyped' /\ FlagsTyped' /\ DraftTyped'
           /\ UNCHANGED <<server, requests, replies, opened, mounted, flags, ready, timer,
                          loadError, left>>
<1> USE DEF overlay, serverVars, flags, view, editor, history, bounds
<1>1. MiceTyped /\ ServerTyped /\ FlagsTyped /\ DraftTyped
      BY TypeParts
<1>2. Event => events' \in 0..MaxEvents
      BY <1>1, BoundsAssumption DEF Event, MiceTyped
<1>3. ASSUME NEW m \in Mouse, PlugIn(m) \/ DirectoryDamaged(m)
      PROVE  /\ MiceTyped' /\ ServerTyped'
             /\ UNCHANGED <<server, requests, replies, opened, mounted, flags, view, editor, edits,
                            timer, acceptOpen, told, loadError, left>>
      BY <1>1, <1>2, <1>3 DEF PlugIn, DirectoryDamaged, MiceTyped, ServerTyped
<1>4. ASSUME NEW m \in Mouse, Unplug(m)
      PROVE  /\ MiceTyped' /\ ServerTyped'
             /\ UNCHANGED <<server, requests, replies, opened, mounted, flags, view, editor, edits,
                            timer, acceptOpen, told, loadError, left>>
      BY <1>1, <1>2, <1>4 DEF Unplug, MiceTyped, ServerTyped
<1>5. ASSUME NEW m \in Mouse, NEW p \in Profile, PressButton(m, p)
      PROVE  /\ MiceTyped' /\ ServerTyped'
             /\ UNCHANGED <<server, requests, replies, opened, mounted, flags, view, editor, edits,
                            timer, acceptOpen, told, loadError, left>>
  <2>1. current' \in [Mouse -> Profile] /\ ran' \subseteq Profile
        BY <1>1, <1>5 DEF PressButton, Runs, MiceTyped
  <2> QED BY <1>1, <1>2, <1>5, <2>1 DEF PressButton, MiceTyped, ServerTyped
<1>6. /\ MiceTyped' /\ ServerTyped'
      /\ UNCHANGED <<server, requests, replies, opened, mounted, flags, view, editor, edits,
                     timer, acceptOpen, told, loadError, left>>
      BY <1>3, <1>4, <1>5
<1> QED BY <1>1, <1>6 DEF FlagsTyped, DraftTyped

(* The first request is answered, by a reply of its kind. *)
LEMMA HandleTyped ==
    ASSUME TypeOK, LinesMeant, Handle
    PROVE  /\ MiceTyped' /\ ServerTyped' /\ FlagsTyped' /\ DraftTyped'
           /\ \E x \in Reply : x.to = Head(requests).cmd /\ Answer(x)
           /\ requests # <<>>
           /\ UNCHANGED <<server, opened, mounted, flags, ready, timer, loadError, left>>
<1> USE DEF flags, view, editor, history, bounds
<1> DEFINE r == Head(requests)
<1>1. MiceTyped /\ ServerTyped /\ FlagsTyped /\ DraftTyped /\ Typed
      BY TypeParts
<1>2. requests # <<>> /\ r \in Request /\ Meant(r)
  <2>1. requests \in Seq(Request) /\ requests # <<>>
        BY <1>1 DEF Handle, Typed
  <2>2. 1 \in DOMAIN requests /\ r = requests[1] /\ r \in Request
        BY <2>1
  <2> QED BY <2>1, <2>2 DEF LinesMeant
<1> DEFINE Kept == /\ current' \in [Mouse -> Profile] /\ ran' \subseteq Profile
                   /\ {damaged', accepted'} \subseteq SUBSET Mouse /\ trespassed' \in BOOLEAN
           Answers == \E x \in Reply : x.to = r.cmd /\ Answer(x)
<1> HIDE DEF r
<1>3. /\ UNCHANGED <<plugged, server, session, opened, mounted, flags, view, editor, timer,
                     acceptOpen, loadError, told, daemonSeen, agreed, left, edits>>
      BY DEF Handle
<1>4. UNCHANGED <<current, ran, damaged, accepted, trespassed>> => Kept
      BY <1>1 DEF MiceTyped
<1>5. \A kind \in {"error", "directory"} : Refuse(r.cmd, kind) => Answers
  <2>1. TAKE kind \in {"error", "directory"}
  <2>2. [to |-> r.cmd, ok |-> FALSE, kind |-> kind] \in Reply
        BY <1>2 DEF Reply, Request
  <2> QED BY <2>2 DEF Refuse
<1>6. \A p \in Profile : session \in Mouse /\ Runs(session, p)
                          => current' \in [Mouse -> Profile] /\ ran' \subseteq Profile
      BY <1>1 DEF Runs, MiceTyped
<1>7. events' \in 0..MaxEvents /\ Kept /\ Answers
  <2>1. CASE session = NoMouse
    <3>1. /\ Refuse(r.cmd, "error")
          /\ UNCHANGED <<current, ran, damaged, accepted, trespassed, events>>
          BY <2>1 DEF Handle, r
    <3> QED BY <1>1, <1>4, <1>5, <3>1 DEF MiceTyped
  <2>2. CASE session # NoMouse
    <3>1. session \in Mouse
          BY <1>1, <2>2 DEF ServerTyped, MiceTyped
    <3>2. ASSUME Event, Refuse(r.cmd, "error"), UNCHANGED <<damaged, accepted, trespassed>>,
                 UNCHANGED <<current, ran>> \/ (r.cmd = "activate" /\ Runs(session, r.profile))
          PROVE  events' \in 0..MaxEvents /\ Kept /\ Answers
      <4>1. events' \in 0..MaxEvents
            BY <1>1, <3>2, BoundsAssumption DEF Event, MiceTyped
      <4>2. r.cmd = "activate" => r.profile \in Profile
            BY <1>2 DEF Meant, Request
      <4>3. Kept
            BY <1>1, <1>6, <3>1, <3>2, <4>2 DEF MiceTyped
      <4> QED BY <1>5, <3>2, <4>1, <4>3
    <3>3. ASSUME r.cmd = "state", ReadState PROVE Kept /\ Answers
      <4>1. current[session] \in Profile /\ MayWrite(session) \in BOOLEAN
            BY <1>1, <3>1 DEF MiceTyped, MayWrite
      <4>2. [to |-> "state", ok |-> TRUE, mouse |-> session, accepted |-> MayWrite(session),
             active |-> current[session]] \in Reply
            BY <3>1, <4>1 DEF Reply
      <4>3. CASE session \in damaged
            BY <1>4, <1>5, <3>3, <4>3 DEF ReadState
      <4>4. CASE session \notin damaged
            BY <1>4, <3>3, <4>2, <4>4 DEF ReadState
      <4> QED BY <4>3, <4>4
    <3>4. ASSUME r.cmd = "live", ReadLive PROVE Kept /\ Answers
      <4>1. current[session] \in Profile
            BY <1>1, <3>1 DEF MiceTyped
      <4>2. [to |-> "live", ok |-> TRUE, active |-> current[session]] \in Reply
            BY <4>1 DEF Reply
      <4> QED BY <1>4, <3>4, <4>2 DEF ReadLive
    <3>5. ASSUME r.cmd = "activate", ActivateProfile(r.profile) PROVE Kept /\ Answers
      <4>1. r.profile \in Profile
            BY <1>2, <3>5 DEF Meant, Request
      <4>2. [to |-> "activate", ok |-> TRUE, active |-> r.profile] \in Reply
            BY <4>1 DEF Reply
      <4>3. CASE session \in damaged
            BY <1>4, <1>5, <3>5, <4>3 DEF ActivateProfile
      <4>4. CASE session \notin damaged
            BY <1>1, <1>6, <3>1, <3>5, <4>1, <4>2, <4>4 DEF ActivateProfile, MiceTyped
      <4> QED BY <4>3, <4>4
    <3>6. ASSUME r.cmd = "apply", Apply(r.profile, r.edit) PROVE Kept /\ Answers
      <4>1. r.profile \in Profile /\ r.edit \in 1..MaxEdits
            BY <1>2, <3>6, BoundsAssumption DEF Meant, Request, NoEdit
      <4>2. [to |-> "apply", ok |-> TRUE, profile |-> r.profile, edit |-> r.edit,
             active |-> current[session] = r.profile] \in Reply
            BY <4>1 DEF Reply
      <4>3. CASE session \in damaged
            BY <1>4, <1>5, <3>6, <4>3 DEF Apply
      <4>4. CASE session \notin damaged /\ ~MayWrite(session)
            BY <1>4, <1>5, <3>6, <4>4 DEF Apply
      <4>5. CASE session \notin damaged /\ MayWrite(session)
        <5>1. /\ UNCHANGED <<current, ran, damaged, accepted>>
              /\ trespassed' = (trespassed \/ session \notin Verified \cup agreed)
              BY <3>6, <4>5 DEF Apply, Wrote
        <5>2. Kept
              BY <1>1, <5>1 DEF MiceTyped
        <5> QED BY <3>6, <4>2, <4>5, <5>2 DEF Apply
      <4> QED BY <4>3, <4>4, <4>5
    <3>7. ASSUME r.cmd = "accept", Accept PROVE Kept /\ Answers
      <4>1. [to |-> "accept", ok |-> TRUE, mouse |-> session] \in Reply
            BY <3>1 DEF Reply
      <4> QED BY <1>1, <3>1, <3>7, <4>1 DEF Accept, MiceTyped
    <3>8. ASSUME r.cmd = "repair", RepairDirectory PROVE Kept /\ Answers
      <4>1. [to |-> "repair", ok |-> TRUE] \in Reply
            BY DEF Reply
      <4>2. CASE session \in damaged /\ MayWrite(session)
        <5>1. /\ UNCHANGED <<current, ran, accepted>> /\ damaged' = damaged \ {session}
              /\ trespassed' = (trespassed \/ session \notin Verified \cup agreed)
              BY <3>8, <4>2 DEF RepairDirectory, Wrote
        <5>2. Kept
              BY <1>1, <5>1 DEF MiceTyped
        <5> QED BY <3>8, <4>1, <4>2, <5>2 DEF RepairDirectory
      <4>3. CASE ~(session \in damaged /\ MayWrite(session))
            BY <1>4, <1>5, <3>8, <4>3 DEF RepairDirectory
      <4> QED BY <4>2, <4>3
    <3>9. r.cmd \in Command
          BY <1>2 DEF Request
    <3>10. \/ /\ CASE r.cmd = "state"    -> ReadState
                   [] r.cmd = "live"     -> ReadLive
                   [] r.cmd = "activate" -> ActivateProfile(r.profile)
                   [] r.cmd = "apply"    -> Apply(r.profile, r.edit)
                   [] r.cmd = "accept"   -> Accept
                   [] r.cmd = "repair"   -> RepairDirectory
              /\ UNCHANGED events
           \/ /\ Event /\ Refuse(r.cmd, "error")
              /\ UNCHANGED <<damaged, accepted, trespassed>>
              /\ UNCHANGED <<current, ran>> \/ (r.cmd = "activate" /\ Runs(session, r.profile))
           BY <2>2 DEF Handle, r
    <3>11. events \in 0..MaxEvents
           BY <1>1 DEF MiceTyped
    <3> HIDE DEF Kept, Answers
    <3> QED BY <3>2, <3>3, <3>4, <3>5, <3>6, <3>7, <3>8, <3>9, <3>10, <3>11 DEF Command
  <2> QED BY <2>1, <2>2
<1>8. MiceTyped'
      BY <1>1, <1>3, <1>7 DEF MiceTyped
<1>9. ServerTyped' /\ FlagsTyped' /\ DraftTyped'
      BY <1>1, <1>3 DEF ServerTyped, FlagsTyped, DraftTyped
<1> QED BY <1>2, <1>3, <1>7, <1>8, <1>9 DEF r

-----------------------------------------------------------------------------
(* The requests, and the flags that stand for them.                        *)

Reads == {"state", "repair"}
Polls == {"live"}
Saves == {"apply"}

(* The lines that wait are as they were. *)
LEMMA SameLines ==
    /\ UNCHANGED requests /\ LinesMeant => LinesMeant'
    /\ UNCHANGED requests => \A cmds : NumWaiting(cmds)' = NumWaiting(cmds)
    /\ UNCHANGED replies => \A cmds : NumComing(cmds)' = NumComing(cmds)
BY DEF LinesMeant, Meant, NumWaiting, NumComing, Waiting, Coming

(* The flags count their lines. *)
LEMMA FlagsCounted ==
    FlagsMatchRequests <=>
        /\ NumWaiting(Reads) + NumComing(Reads) = One(loading)
        /\ NumWaiting(Polls) + NumComing(Polls) = One(livePolling)
        /\ NumWaiting(Saves) + NumComing(Saves) = One(saving)
BY Zenon DEF FlagsMatchRequests, InFlight, NumWaiting, NumComing, One, Reads, Polls, Saves

(* A request is sent. *)
LEMMA SendCounted ==
    ASSUME Typed, LinesMeant, NEW CONSTANT c \in Command,
           NEW p \in Profile \cup {NoProfile}, NEW e \in 0..MaxEdits,
           requests' = Append(requests, [cmd |-> c, profile |-> p, edit |-> e]),
           Meant([cmd |-> c, profile |-> p, edit |-> e])
    PROVE  /\ requests' \in Seq(Request) /\ LinesMeant' /\ requests' # <<>>
           /\ \A cmds : NumWaiting(cmds)' = NumWaiting(cmds) + One(c \in cmds)
<1> DEFINE x == [cmd |-> c, profile |-> p, edit |-> e]
<1>1. x \in Request /\ x.cmd = c /\ Meant(x)
      BY DEF Request
<1> HIDE DEF x
<1>2. requests' = Append(requests, x) /\ requests \in Seq(Request)
      BY DEF x, Typed
<1>3. /\ requests' \in Seq(Request) /\ requests' # <<>>
      /\ DOMAIN requests' = 1..Len(requests) + 1
      /\ DOMAIN requests = 1..Len(requests) /\ Len(requests) \in Nat
      /\ \A i \in 1..Len(requests) : requests'[i] = requests[i]
      /\ requests'[Len(requests) + 1] = x
      BY <1>1, <1>2
<1>4. \A i \in DOMAIN requests' : Meant(requests'[i])
      BY <1>1, <1>3 DEF LinesMeant
<1>5. LinesMeant'
      BY <1>4 DEF LinesMeant, Meant
<1>6. ASSUME NEW CONSTANT cmds
      PROVE  NumWaiting(cmds)' = NumWaiting(cmds) + One(x.cmd \in cmds)
      BY <1>2, SentCounted
<1> QED BY <1>1, <1>3, <1>5, <1>6

(* A save sets `saving' when and only when it sends one. *)
LEMMA SaveCounted ==
    ASSUME Typed, LinesMeant, cursor \in Profile, NEW e \in 0..MaxEdits, NEW s,
           NEW busy \in BOOLEAN, NEW wait, Save(e, s, busy, wait)
    PROVE  /\ requests' \in Seq(Request) /\ LinesMeant'
           /\ NumWaiting(Reads)' = NumWaiting(Reads) /\ NumWaiting(Polls)' = NumWaiting(Polls)
           /\ NumWaiting(Saves)' + One(busy) = NumWaiting(Saves) + One(saving')
<1>1. NumWaiting(Saves) \in Nat /\ NumWaiting(Reads) \in Nat /\ NumWaiting(Polls) \in Nat
      BY NumTyped
<1>2. CASE e = NoEdit \/ NeedsAcceptance(s)
  <2>1. saving' = busy /\ requests' = requests
        BY <1>2 DEF Save
  <2> QED BY <1>1, <2>1, SameLines DEF Typed
<1>3. CASE ~(e = NoEdit \/ NeedsAcceptance(s)) /\ busy
  <2>1. saving' = TRUE /\ requests' = requests
        BY <1>3 DEF Save
  <2> QED BY <1>1, <1>3, <2>1, SameLines DEF Typed
<1>4. CASE ~(e = NoEdit \/ NeedsAcceptance(s)) /\ ~busy
  <2>1. /\ saving' = TRUE
        /\ requests' = Append(requests, [cmd |-> "apply", profile |-> cursor, edit |-> e])
        BY <1>4 DEF Save, Send
  <2>2. Meant([cmd |-> "apply", profile |-> cursor, edit |-> e])
        BY <1>4, CountAssumption DEF Meant, Profile, NoProfile
  <2>3. /\ requests' \in Seq(Request) /\ LinesMeant'
        /\ \A cmds : NumWaiting(cmds)' = NumWaiting(cmds) + One("apply" \in cmds)
        BY <2>1, <2>2, SendCounted DEF Command
  <2> QED BY <1>1, <1>4, <2>1, <2>3 DEF One, Reads, Polls, Saves
<1> QED BY <1>2, <1>3, <1>4

LinesRight == Typed /\ LinesMeant /\ FlagsMatchRequests

(* Neither the lines nor the flags change. *)
LEMMA LinesKept ==
    ASSUME LinesRight, UNCHANGED <<requests, replies, flags>>
    PROVE  LinesRight'
BY FlagsCounted, SameLines
   DEF LinesRight, Typed, flags, FlagsMatchRequests, InFlight, Waiting, Coming

(* Reading again sends a request unless one is under way. *)
LEMMA RefreshLines ==
    ASSUME TypeOK, LinesRight, NEW t, Refresh(t), UNCHANGED <<replies, livePolling, saving>>
    PROVE  LinesRight'
<1>1. loading' = TRUE
      BY DEF Refresh
<1>2. CASE loading
  <2>1. UNCHANGED <<requests, replies, flags>>
        BY <1>1, <1>2 DEF Refresh, flags, TypeOK
  <2> QED BY <2>1, LinesKept
<1>3. CASE ~loading
  <2>1. requests' = Append(requests, [cmd |-> "state", profile |-> NoProfile, edit |-> 0])
        BY <1>3 DEF Refresh
  <2>2. Meant([cmd |-> "state", profile |-> NoProfile, edit |-> 0]) /\ 0 \in 0..MaxEdits
        BY BoundsAssumption DEF Meant
  <2>3. /\ requests' \in Seq(Request) /\ LinesMeant'
        /\ \A cmds : NumWaiting(cmds)' = NumWaiting(cmds) + One("state" \in cmds)
        BY <2>1, <2>2, SendCounted DEF Command, LinesRight
  <2>4. \A cmds : NumComing(cmds)' = NumComing(cmds)
        BY SameLines
  <2>5. NumWaiting(Reads) \in Nat /\ NumComing(Reads) \in Nat
        /\ NumWaiting(Polls) \in Nat /\ NumComing(Polls) \in Nat
        /\ NumWaiting(Saves) \in Nat /\ NumComing(Saves) \in Nat
        BY NumTyped DEF LinesRight
  <2>6. /\ NumWaiting(Reads)' + NumComing(Reads)' = One(loading')
        /\ NumWaiting(Polls)' + NumComing(Polls)' = One(livePolling')
        /\ NumWaiting(Saves)' + NumComing(Saves)' = One(saving')
        BY <1>1, <1>3, <2>3, <2>4, <2>5, FlagsCounted DEF LinesRight, One, Reads, Polls, Saves
  <2>7. FlagsMatchRequests'
        BY <2>6 DEF FlagsMatchRequests, InFlight, NumWaiting, NumComing, One, Reads, Polls, Saves
  <2> QED BY <2>3, <2>7 DEF LinesRight, Typed
<1> QED BY <1>2, <1>3

LEMMA Counts ==
    ASSUME Typed
    PROVE  /\ NumWaiting(Reads) \in Nat /\ NumComing(Reads) \in Nat
           /\ NumWaiting(Polls) \in Nat /\ NumComing(Polls) \in Nat
           /\ NumWaiting(Saves) \in Nat /\ NumComing(Saves) \in Nat
BY NumTyped

(* The flags after a step, from the counts after it. *)
LEMMA FlagsMatch ==
    ASSUME NumWaiting(Reads)' + NumComing(Reads)' = One(loading'),
           NumWaiting(Polls)' + NumComing(Polls)' = One(livePolling'),
           NumWaiting(Saves)' + NumComing(Saves)' = One(saving')
    PROVE  FlagsMatchRequests'
BY DEF FlagsMatchRequests, InFlight, NumWaiting, NumComing, One, Reads, Polls, Saves

(* A request is sent, and its flag set. *)
LEMMA SentLines ==
    ASSUME LinesRight, NEW CONSTANT c \in Command,
           NEW p \in Profile \cup {NoProfile}, NEW e \in 0..MaxEdits, Send(c, p, e),
           Meant([cmd |-> c, profile |-> p, edit |-> e]), UNCHANGED replies,
           One(loading') = One(loading) + One(c \in Reads),
           One(livePolling') = One(livePolling) + One(c \in Polls),
           One(saving') = One(saving) + One(c \in Saves)
    PROVE  LinesRight'
<1>1. /\ requests' \in Seq(Request) /\ LinesMeant'
      /\ \A cmds : NumWaiting(cmds)' = NumWaiting(cmds) + One(c \in cmds)
      BY SendCounted DEF LinesRight, Send
<1>2. \A cmds : NumComing(cmds)' = NumComing(cmds)
      BY SameLines
<1>3. /\ NumWaiting(Reads)' + NumComing(Reads)' = One(loading')
      /\ NumWaiting(Polls)' + NumComing(Polls)' = One(livePolling')
      /\ NumWaiting(Saves)' + NumComing(Saves)' = One(saving')
  <2>1. /\ NumWaiting(Reads)' = NumWaiting(Reads) + One(c \in Reads)
        /\ NumWaiting(Polls)' = NumWaiting(Polls) + One(c \in Polls)
        /\ NumWaiting(Saves)' = NumWaiting(Saves) + One(c \in Saves)
        /\ One(c \in Reads) \in Nat /\ One(c \in Polls) \in Nat /\ One(c \in Saves) \in Nat
        BY <1>1 DEF One
  <2>2. /\ NumComing(Reads)' = NumComing(Reads)
        /\ NumComing(Polls)' = NumComing(Polls)
        /\ NumComing(Saves)' = NumComing(Saves)
        BY <1>2
  <2>3. /\ NumWaiting(Reads) + NumComing(Reads) = One(loading)
        /\ NumWaiting(Polls) + NumComing(Polls) = One(livePolling)
        /\ NumWaiting(Saves) + NumComing(Saves) = One(saving)
        BY FlagsCounted DEF LinesRight
  <2> QED BY <2>1, <2>2, <2>3, Counts DEF LinesRight
<1>4. FlagsMatchRequests'
      BY <1>3, FlagsMatch
<1> QED BY <1>1, <1>4 DEF LinesRight, Typed

(* A save without a reply. *)
LEMMA SavedLines ==
    ASSUME TypeOK, LinesRight, NEW s, NEW wait, Save(unsaved, s, saving, wait),
           UNCHANGED <<replies, loading, livePolling>>
    PROVE  LinesRight'
<1>1. Typed /\ LinesMeant /\ cursor \in Profile /\ unsaved \in 0..MaxEdits /\ saving \in BOOLEAN
      BY DEF LinesRight, TypeOK
<1>2. /\ requests' \in Seq(Request) /\ LinesMeant'
      /\ NumWaiting(Reads)' = NumWaiting(Reads) /\ NumWaiting(Polls)' = NumWaiting(Polls)
      /\ NumWaiting(Saves)' + One(saving) = NumWaiting(Saves) + One(saving')
      BY <1>1, SaveCounted
<1>3. \A cmds : NumComing(cmds)' = NumComing(cmds)
      BY SameLines
<1>4. NumWaiting(Saves)' \in Nat
  <2>1. NumWaiting(Saves)' = Cardinality({i \in 1..Len(requests') : requests'[i].cmd \in Saves})
    <3>1. DOMAIN requests' = 1..Len(requests')
          BY <1>2
    <3> QED BY <3>1 DEF NumWaiting, Waiting
  <2>2. Len(requests') \in Nat
        BY <1>2
  <2> QED BY <2>1, <2>2, PlacesFinite
<1>5. /\ NumWaiting(Reads)' + NumComing(Reads)' = One(loading')
      /\ NumWaiting(Polls)' + NumComing(Polls)' = One(livePolling')
      /\ NumWaiting(Saves)' + NumComing(Saves)' = One(saving')
      BY <1>1, <1>2, <1>3, <1>4, Counts, FlagsCounted DEF LinesRight, One
<1>6. FlagsMatchRequests'
      BY <1>5, FlagsMatch
<1> QED BY <1>2, <1>6 DEF LinesRight, Typed

LEMMA UserLines == ASSUME TypeOK, LinesRight, User PROVE LinesRight'
<1> USE DEF serverVars, flags, view, editor, history, bounds
<1>1. loading \in BOOLEAN /\ livePolling \in BOOLEAN /\ saving \in BOOLEAN
      BY DEF TypeOK
<1>2. CASE Open
      BY <1>2, LinesKept, RefreshLines DEF Open
<1>3. CASE RefreshKey \/ Retry
      BY <1>3, RefreshLines DEF RefreshKey, Retry
<1>4. NoProfile \in Profile \cup {NoProfile} /\ 0 \in 0..MaxEdits
      BY BoundsAssumption
<1>5. CASE Repair
  <2>1. ~loading /\ loading' = TRUE /\ Send("repair", NoProfile, 0)
        /\ UNCHANGED <<replies, livePolling, saving>>
        BY <1>5 DEF Repair
  <2>2. /\ One(loading') = One(loading) + One("repair" \in Reads)
        /\ One(livePolling') = One(livePolling) + One("repair" \in Polls)
        /\ One(saving') = One(saving) + One("repair" \in Saves)
        BY <2>1 DEF One, Reads, Polls, Saves
  <2> QED BY <1>4, <2>1, <2>2, SentLines DEF Command, Meant
<1>6. CASE Activate
  <2>1. Send("activate", cursor, 0) /\ UNCHANGED <<replies, flags>> /\ cursor \in Profile
        BY <1>6 DEF Activate, TypeOK
  <2>2. /\ One(loading') = One(loading) + One("activate" \in Reads)
        /\ One(livePolling') = One(livePolling) + One("activate" \in Polls)
        /\ One(saving') = One(saving) + One("activate" \in Saves)
        BY <2>1 DEF One, Reads, Polls, Saves
  <2>3. cursor # NoProfile
        BY <2>1, CountAssumption DEF Profile, NoProfile
  <2> QED BY <1>4, <2>1, <2>2, <2>3, SentLines DEF Command, Meant
<1>7. CASE AcceptUntested
  <2>1. Send("accept", NoProfile, 0) /\ UNCHANGED <<replies, flags>>
        BY <1>7 DEF AcceptUntested
  <2>2. /\ One(loading') = One(loading) + One("accept" \in Reads)
        /\ One(livePolling') = One(livePolling) + One("accept" \in Polls)
        /\ One(saving') = One(saving) + One("accept" \in Saves)
        BY <2>1 DEF One, Reads, Polls, Saves
  <2> QED BY <1>4, <2>1, <2>2, SentLines DEF Command, Meant
<1>8. CASE Close
  <2>1. CASE timer
        BY <1>8, <2>1, SavedLines DEF Close, SaveNow
  <2>2. CASE ~timer
        BY <1>8, <2>2, LinesKept DEF Close
  <2> QED BY <2>1, <2>2
<1>9. CASE InstallHelper \/ Edit \/ Dismiss
      BY <1>9, LinesKept DEF InstallHelper, Edit, Dismiss
<1>10. ASSUME NEW p \in Profile, Select(p) PROVE LinesRight'
      BY <1>10, LinesKept DEF Select
<1> QED BY <1>2, <1>3, <1>5, <1>6, <1>7, <1>8, <1>9, <1>10 DEF User

LEMMA OverlayLines ==
    ASSUME TypeOK, LinesRight,
           \/ TimerFires \/ FinishClose \/ RefreshLive
           \/ \E p \in ran \cup {NoProfile} : DaemonUpdated(p)
    PROVE  LinesRight'
<1> USE DEF serverVars, flags
<1>1. CASE TimerFires
      BY <1>1, SavedLines DEF TimerFires, SaveNow
<1>2. CASE FinishClose
      BY <1>2, LinesKept DEF FinishClose, StopWhenIdle
<1>3. CASE RefreshLive
  <2>1. /\ ~livePolling /\ livePolling' = TRUE /\ Send("live", NoProfile, 0)
        /\ UNCHANGED <<replies, loading, saving>>
        BY <1>3 DEF RefreshLive, CanPollLive
  <2>2. /\ One(loading') = One(loading) + One("live" \in Reads)
        /\ One(livePolling') = One(livePolling) + One("live" \in Polls)
        /\ One(saving') = One(saving) + One("live" \in Saves)
        BY <2>1 DEF One, Reads, Polls, Saves
  <2>3. 0 \in 0..MaxEdits
        BY BoundsAssumption
  <2> QED BY <2>1, <2>2, <2>3, SentLines DEF Command, Meant
<1>4. ASSUME NEW p \in ran \cup {NoProfile}, DaemonUpdated(p) PROVE LinesRight'
      BY <1>4, LinesKept DEF DaemonUpdated
<1> QED BY <1>1, <1>2, <1>3, <1>4

LEMMA ProcessLines ==
    ASSUME TypeOK, LinesRight,
           ServerOpens \/ NoMouseFound \/ OpenFails \/ ServerDies \/ ServerStops
    PROVE  LinesRight'
<1>1. CASE ServerOpens
      BY <1>1, LinesKept DEF ServerOpens
<1>2. ASSUME NEW kind, Exits(kind) PROVE LinesRight'
  <2>1. requests' = <<>> /\ replies' = <<>> /\ ~loading' /\ ~livePolling' /\ ~saving'
        BY <1>2 DEF Exits
  <2>2. Typed' /\ LinesMeant'
        BY <2>1 DEF Typed, LinesMeant
  <2>3. \A cmds : NumWaiting(cmds)' = 0 /\ NumComing(cmds)' = 0
        BY <2>1, FS_EmptySet DEF NumWaiting, NumComing, Waiting, Coming
  <2>4. FlagsMatchRequests'
        BY <2>1, <2>3, FlagsMatch DEF One
  <2> QED BY <2>2, <2>4 DEF LinesRight
<1> QED BY <1>1, <1>2 DEF NoMouseFound, OpenFails, ServerDies, ServerStops

LEMMA HandleLines == ASSUME TypeOK, LinesRight, Handle PROVE LinesRight'
<1>1. PICK x \in Reply : x.to = Head(requests).cmd /\ Answer(x)
      BY HandleTyped DEF LinesRight
<1>2. requests # <<>> /\ UNCHANGED flags
      BY HandleTyped DEF LinesRight
<1>3. requests' = Tail(requests) /\ replies' = Append(replies, x)
      BY <1>1 DEF Answer
<1>4. Typed'
      BY <1>2, <1>3 DEF LinesRight, Typed
<1>5. LinesMeant'
  <2>1. /\ requests \in Seq(Request) /\ Len(requests) \in Nat \ {0}
        /\ DOMAIN requests = 1..Len(requests) /\ DOMAIN requests' = 1..Len(requests) - 1
        /\ \A i \in 1..Len(requests) - 1 : requests'[i] = requests[i + 1]
        BY <1>2, <1>3 DEF LinesRight, Typed
  <2>2. \A i \in DOMAIN requests' : Meant(requests'[i])
        BY <2>1 DEF LinesRight, LinesMeant
  <2> QED BY <2>2 DEF LinesMeant, Meant
<1>6. ASSUME NEW CONSTANT cmds
      PROVE  /\ NumWaiting(cmds)' = NumWaiting(cmds) - One(Head(requests).cmd \in cmds)
             /\ NumComing(cmds)' = NumComing(cmds) + One(Head(requests).cmd \in cmds)
      BY <1>1, <1>2, <1>3, HandledCounted, AnsweredCounted DEF LinesRight
<1>7. /\ NumWaiting(Reads)' + NumComing(Reads)' = One(loading')
      /\ NumWaiting(Polls)' + NumComing(Polls)' = One(livePolling')
      /\ NumWaiting(Saves)' + NumComing(Saves)' = One(saving')
  <2> DEFINE c == Head(requests).cmd
  <2>1. /\ NumWaiting(Reads)' = NumWaiting(Reads) - One(c \in Reads)
        /\ NumWaiting(Polls)' = NumWaiting(Polls) - One(c \in Polls)
        /\ NumWaiting(Saves)' = NumWaiting(Saves) - One(c \in Saves)
        /\ NumComing(Reads)' = NumComing(Reads) + One(c \in Reads)
        /\ NumComing(Polls)' = NumComing(Polls) + One(c \in Polls)
        /\ NumComing(Saves)' = NumComing(Saves) + One(c \in Saves)
        /\ One(c \in Reads) \in Nat /\ One(c \in Polls) \in Nat /\ One(c \in Saves) \in Nat
        BY <1>6 DEF One
  <2> HIDE DEF c
  <2>2. /\ NumWaiting(Reads) + NumComing(Reads) = One(loading)
        /\ NumWaiting(Polls) + NumComing(Polls) = One(livePolling)
        /\ NumWaiting(Saves) + NumComing(Saves) = One(saving)
        BY FlagsCounted DEF LinesRight
  <2>3. One(loading') = One(loading) /\ One(livePolling') = One(livePolling)
        /\ One(saving') = One(saving)
        BY <1>2 DEF flags
  <2> QED BY <2>1, <2>2, <2>3, Counts DEF LinesRight
<1> QED BY <1>4, <1>5, <1>7, FlagsMatch DEF LinesRight

(* The first reply is read: where it is counted, it was counted. *)
LEMMA ReadLine ==
    ASSUME Typed, replies # <<>>, replies' = Tail(replies)
    PROVE  /\ replies' \in Seq(Reply)
           /\ \A cmds : /\ NumComing(cmds)' = NumComing(cmds) - One(Head(replies).to \in cmds)
                        /\ Head(replies).to \in cmds => NumComing(cmds) # 0
<1>1. replies' \in Seq(Reply)
      BY DEF Typed
<1>2. ASSUME NEW CONSTANT cmds
      PROVE  NumComing(cmds)' = NumComing(cmds) - One(Head(replies).to \in cmds)
      BY <1>2, ReadCounted
<1>3. ASSUME NEW CONSTANT cmds, Head(replies).to \in cmds
      PROVE  NumComing(cmds) # 0
  <2>1. /\ Len(replies) \in Nat \ {0} /\ DOMAIN replies = 1..Len(replies)
        /\ Head(replies) = replies[1]
        BY DEF Typed
  <2>2. 1 \in Coming(cmds) /\ Coming(cmds) \in SUBSET (1..Len(replies))
        BY <1>3, <2>1 DEF Coming
  <2>3. IsFiniteSet(Coming(cmds))
        BY <2>1, <2>2, PlacesFinite
  <2> QED BY <2>2, <2>3, FS_EmptySet DEF NumComing
<1> QED BY <1>1, <1>2, <1>3

(* The reply that was waited for takes the flag back. *)
LEMMA ReplyLines == ASSUME TypeOK, LinesRight, ReadReply PROVE LinesRight'
<1> USE DEF flags
<1> DEFINE r == Head(replies)
           c == r.to
<1>1. Typed /\ replies # <<>> /\ replies' = Tail(replies)
      BY DEF ReadReply, LinesRight
<1>2. /\ replies' \in Seq(Reply)
      /\ \A cmds : /\ NumComing(cmds)' = NumComing(cmds) - One(c \in cmds)
                   /\ c \in cmds => NumComing(cmds) # 0
      BY <1>1, ReadLine
<1> HIDE DEF c, r
<1>3. /\ NumComing(Reads)' = NumComing(Reads) - One(c \in Reads)
      /\ NumComing(Polls)' = NumComing(Polls) - One(c \in Polls)
      /\ NumComing(Saves)' = NumComing(Saves) - One(c \in Saves)
      /\ c \in Reads => NumComing(Reads) # 0
      /\ c \in Polls => NumComing(Polls) # 0
      /\ c \in Saves => NumComing(Saves) # 0
      BY <1>2
<1>4. /\ NumWaiting(Reads) + NumComing(Reads) = One(loading)
      /\ NumWaiting(Polls) + NumComing(Polls) = One(livePolling)
      /\ NumWaiting(Saves) + NumComing(Saves) = One(saving)
      BY FlagsCounted DEF LinesRight
<1>5. loading \in BOOLEAN /\ livePolling \in BOOLEAN /\ saving \in BOOLEAN
      BY DEF TypeOK
<1>6. /\ NumWaiting(Reads) \in Nat /\ NumComing(Reads) \in Nat
      /\ NumWaiting(Polls) \in Nat /\ NumComing(Polls) \in Nat
      /\ NumWaiting(Saves) \in Nat /\ NumComing(Saves) \in Nat
      BY <1>1, Counts
<1>7. ASSUME UNCHANGED requests,
             One(loading') = One(loading) - One(c \in Reads),
             One(livePolling') = One(livePolling) - One(c \in Polls),
             One(saving') = One(saving) - One(c \in Saves)
      PROVE  LinesRight'
  <2>1. /\ NumWaiting(Reads)' = NumWaiting(Reads) /\ NumWaiting(Polls)' = NumWaiting(Polls)
        /\ NumWaiting(Saves)' = NumWaiting(Saves)
        /\ One(c \in Reads) \in Nat /\ One(c \in Polls) \in Nat /\ One(c \in Saves) \in Nat
        BY <1>7, SameLines DEF One
  <2>2. /\ NumWaiting(Reads)' + NumComing(Reads)' = One(loading')
        /\ NumWaiting(Polls)' + NumComing(Polls)' = One(livePolling')
        /\ NumWaiting(Saves)' + NumComing(Saves)' = One(saving')
        BY <1>3, <1>4, <1>6, <1>7, <2>1
  <2> QED BY <1>1, <1>2, <1>7, <2>2, FlagsMatch, SameLines DEF LinesRight, Typed
<1>8. CASE StateReply(r)
  <2>1. c = "state" /\ loading' = FALSE /\ UNCHANGED <<requests, livePolling, saving>>
        BY <1>8 DEF StateReply, StopWhenIdle, c
  <2>2. loading
        BY <1>3, <1>4, <1>5, <1>6, <2>1 DEF One, Reads
  <2> QED BY <1>7, <2>1, <2>2 DEF One, Reads, Polls, Saves
<1>9. CASE LiveReply(r)
  <2>1. c = "live" /\ livePolling' = FALSE /\ UNCHANGED <<requests, loading, saving>>
        BY <1>9 DEF LiveReply, StopWhenIdle, c
  <2>2. livePolling
        BY <1>3, <1>4, <1>5, <1>6, <2>1 DEF One, Polls
  <2> QED BY <1>7, <2>1, <2>2 DEF One, Reads, Polls, Saves
<1>10. CASE ActivateReply(r)
  <2>1. c = "activate" /\ UNCHANGED <<requests, flags>>
        BY <1>10 DEF ActivateReply, c
  <2> QED BY <1>4, <1>6, <1>7, <2>1 DEF One, Reads, Polls, Saves
<1>11. CASE ApplyReply(r)
  <2> DEFINE rest == IF r.ok /\ cursor = r.profile /\ unsaved = r.edit THEN NoEdit ELSE unsaved
             more == r.ok /\ rest # NoEdit
  <2>1. c = "apply" /\ UNCHANGED <<loading, livePolling>>
        BY <1>11 DEF ApplyReply, c
  <2>2. saving
        BY <1>3, <1>4, <1>5, <1>6, <2>1 DEF One, Saves
  <2>3. CASE (more /\ opened) \/ ~more \/ NeedsAcceptance(support)
    <3>1. saving' = FALSE /\ UNCHANGED requests
          BY <1>11, <2>3 DEF ApplyReply, StopWhenIdle
    <3> QED BY <1>7, <2>1, <2>2, <3>1 DEF One, Reads, Polls, Saves
  <2>4. CASE more /\ ~opened /\ ~NeedsAcceptance(support)
    <3>1. Save(rest, support, FALSE, timer)
          BY <1>11, <2>4 DEF ApplyReply
    <3>2. rest \in 0..MaxEdits /\ cursor \in Profile
      <4>1. NoEdit \in 0..MaxEdits
            BY BoundsAssumption DEF NoEdit
      <4> QED BY <4>1 DEF TypeOK
    <3>3. /\ requests' \in Seq(Request) /\ LinesMeant'
          /\ NumWaiting(Reads)' = NumWaiting(Reads) /\ NumWaiting(Polls)' = NumWaiting(Polls)
          /\ NumWaiting(Saves)' + One(FALSE) = NumWaiting(Saves) + One(saving')
          BY <1>1, <3>1, <3>2, SaveCounted DEF LinesRight
    <3>4. rest # NoEdit
          BY <2>4
    <3> HIDE DEF rest
    <3>5. saving' = TRUE
          BY <2>4, <3>1, <3>4 DEF Save
    <3>6. NumWaiting(Saves)' = 1 /\ NumComing(Saves)' = 0
      <4>1. requests' = Append(requests, [cmd |-> "apply", profile |-> cursor, edit |-> rest])
            BY <2>4, <3>1, <3>4 DEF Save, Send
      <4>2. NumWaiting(Saves)' = NumWaiting(Saves) + 1
            BY <1>1, <4>1, SentCounted DEF One, Saves
      <4>3. NumWaiting(Saves) = 0 /\ NumComing(Saves) = 1
        <5>1. NumComing(Saves) # 0
              BY <1>3, <2>1 DEF Saves
        <5>2. One(saving) = 1
              BY <2>2 DEF One
        <5> QED BY <1>4, <1>6, <5>1, <5>2
      <4> QED BY <1>3, <2>1, <4>2, <4>3 DEF One, Saves
    <3>7. /\ NumWaiting(Reads)' + NumComing(Reads)' = One(loading')
          /\ NumWaiting(Polls)' + NumComing(Polls)' = One(livePolling')
          /\ NumWaiting(Saves)' + NumComing(Saves)' = One(saving')
          BY <1>3, <1>4, <1>6, <2>1, <3>3, <3>5, <3>6 DEF One, Reads, Polls, Saves
    <3> QED BY <1>2, <3>3, <3>7, FlagsMatch DEF LinesRight, Typed
  <2> QED BY <2>3, <2>4
<1>12. CASE AcceptReply(r)
  <2>1. c = "accept" /\ UNCHANGED <<loading, livePolling>>
        BY <1>12 DEF AcceptReply, c
  <2>2. CASE ~r.ok
    <3>1. UNCHANGED <<requests, saving>>
          BY <1>12, <2>2 DEF AcceptReply
    <3> QED BY <1>4, <1>6, <1>7, <2>1, <3>1 DEF One, Reads, Polls, Saves
  <2>3. CASE r.ok
    <3>1. Save(unsaved, support', saving, timer)
          BY <1>12, <2>3 DEF AcceptReply
    <3>2. unsaved \in 0..MaxEdits /\ cursor \in Profile
          BY DEF TypeOK
    <3>3. /\ requests' \in Seq(Request) /\ LinesMeant'
          /\ NumWaiting(Reads)' = NumWaiting(Reads) /\ NumWaiting(Polls)' = NumWaiting(Polls)
          /\ NumWaiting(Saves)' + One(saving) = NumWaiting(Saves) + One(saving')
          BY <1>1, <1>5, <3>1, <3>2, SaveCounted DEF LinesRight
    <3>4. /\ NumComing(Reads)' = NumComing(Reads) /\ NumComing(Polls)' = NumComing(Polls)
          /\ NumComing(Saves)' = NumComing(Saves)
          BY <1>3, <1>6, <2>1 DEF One, Reads, Polls, Saves
    <3>5. NumWaiting(Saves)' \in Nat
      <4>1. NumWaiting(Saves)' = Cardinality({i \in 1..Len(requests') : requests'[i].cmd \in Saves})
        <5>1. DOMAIN requests' = 1..Len(requests')
              BY <3>3
        <5> QED BY <5>1 DEF NumWaiting, Waiting
      <4>2. Len(requests') \in Nat
            BY <3>3
      <4> QED BY <4>1, <4>2, PlacesFinite
    <3>6. /\ NumWaiting(Reads)' + NumComing(Reads)' = One(loading')
          /\ NumWaiting(Polls)' + NumComing(Polls)' = One(livePolling')
          BY <1>4, <1>6, <2>1, <3>3, <3>4
    <3>7. NumWaiting(Saves)' + NumComing(Saves)' = One(saving')
      <4>1. One(saving) \in Nat /\ One(saving') \in Nat
            BY DEF One
      <4>2. /\ NumWaiting(Saves)' + One(saving) = NumWaiting(Saves) + One(saving')
            /\ NumComing(Saves)' = NumComing(Saves)
            /\ NumWaiting(Saves) + NumComing(Saves) = One(saving)
            BY <1>4, <3>3, <3>4
      <4>3. \A a, b, d, f, g, h \in Nat : a + f = b + g /\ h = d /\ b + d = f => a + h = g
            OBVIOUS
      <4> QED BY <1>6, <3>5, <4>1, <4>2, <4>3
    <3> QED BY <1>2, <3>3, <3>6, <3>7, FlagsMatch DEF LinesRight, Typed
  <2> QED BY <2>2, <2>3
<1>13. CASE RepairReply(r)
  <2>1. c = "repair" /\ UNCHANGED <<livePolling, saving>>
        BY <1>13 DEF RepairReply, c
  <2>2. loading
        BY <1>3, <1>4, <1>5, <1>6, <2>1 DEF One, Reads
  <2>3. CASE ~r.ok
    <3>1. loading' = FALSE /\ UNCHANGED requests
          BY <1>13, <2>3 DEF RepairReply
    <3> QED BY <1>7, <2>1, <2>2, <3>1 DEF One, Reads, Polls, Saves
  <2>4. CASE r.ok
    <3>1. /\ loading' = TRUE
          /\ requests' = Append(requests, [cmd |-> "state", profile |-> NoProfile, edit |-> 0])
          BY <1>13, <2>4 DEF RepairReply, Send
    <3>2. Meant([cmd |-> "state", profile |-> NoProfile, edit |-> 0]) /\ 0 \in 0..MaxEdits
          BY BoundsAssumption DEF Meant
    <3>3. /\ requests' \in Seq(Request) /\ LinesMeant'
          /\ \A cmds : NumWaiting(cmds)' = NumWaiting(cmds) + One("state" \in cmds)
          BY <1>1, <3>1, <3>2, SendCounted DEF Command, LinesRight
    <3>4. /\ NumWaiting(Reads)' = NumWaiting(Reads) + 1
          /\ NumWaiting(Polls)' = NumWaiting(Polls) /\ NumWaiting(Saves)' = NumWaiting(Saves)
          BY <1>6, <3>3 DEF One, Reads, Polls, Saves
    <3>5. /\ NumComing(Reads)' = NumComing(Reads) - 1
          /\ NumComing(Polls)' = NumComing(Polls) /\ NumComing(Saves)' = NumComing(Saves)
          BY <1>3, <1>6, <2>1 DEF One, Reads, Polls, Saves
    <3>6. One(loading') = One(loading)
          BY <2>2, <3>1 DEF One
    <3>7. /\ NumWaiting(Reads)' + NumComing(Reads)' = One(loading')
          /\ NumWaiting(Polls)' + NumComing(Polls)' = One(livePolling')
          /\ NumWaiting(Saves)' + NumComing(Saves)' = One(saving')
          BY <1>4, <1>6, <2>1, <3>4, <3>5, <3>6
    <3> QED BY <1>2, <3>3, <3>7, FlagsMatch DEF LinesRight, Typed
  <2> QED BY <2>3, <2>4
<1>14. StateReply(r) \/ LiveReply(r) \/ ActivateReply(r)
       \/ ApplyReply(r) \/ AcceptReply(r) \/ RepairReply(r)
       BY DEF ReadReply, r
<1> QED BY Zenon, <1>8, <1>9, <1>10, <1>11, <1>12, <1>13, <1>14

-----------------------------------------------------------------------------
(* What the overlay waits for, and who waits for it.                       *)

(* The overlay's window is there while it is open. *)
MountInv == opened => mounted

Rest == UNCHANGED <<server, requests, replies, opened, mounted, loading, ready, timer,
                    loadError, left>>

ViewInv == TypeOK /\ LinesRight /\ NeverStuckReading /\ MountInv /\ LetsGo

(* A step that leaves all this alone. *)
LEMMA RestKept ==
    ASSUME Rest, NeverStuckReading, MountInv, LetsGo
    PROVE  NeverStuckReading' /\ MountInv' /\ LetsGo'
BY DEF Rest, NeverStuckReading, MountInv, LetsGo, inFlight

(* A request is under way while a flag is set. *)
LEMMA FlagInFlight ==
    ASSUME TypeOK, LinesRight
    PROVE  loading \/ livePolling \/ saving => inFlight # 0
<1>1. \A cmds : NumWaiting(cmds) + NumComing(cmds) # 0 => inFlight # 0
      BY SomeCounted DEF inFlight, LinesRight
<1>2. /\ NumWaiting(Reads) + NumComing(Reads) = One(loading)
      /\ NumWaiting(Polls) + NumComing(Polls) = One(livePolling)
      /\ NumWaiting(Saves) + NumComing(Saves) = One(saving)
      BY FlagsCounted DEF LinesRight
<1>3. loading \in BOOLEAN /\ livePolling \in BOOLEAN /\ saving \in BOOLEAN
      BY DEF TypeOK
<1> QED BY <1>1, <1>2, <1>3 DEF One

LEMMA FlagInFlightNext ==
    (TypeOK /\ LinesRight)' => (loading \/ livePolling \/ saving => inFlight # 0)'
<1>1. TypeOK /\ LinesRight => (loading \/ livePolling \/ saving => inFlight # 0)
      BY FlagInFlight
<1> QED BY <1>1, PTL

(* With a line waiting, the server is not idle. *)
LEMMA BusyGoes == ASSUME Typed', requests' # <<>> \/ replies' # <<>> PROVE LetsGo'
<1>1. requests' \in Seq(Request) /\ replies' \in Seq(Reply)
      BY DEF Typed
<1>2. Len(requests') + Len(replies') # 0
      BY <1>1
<1> QED BY <1>2 DEF LetsGo, inFlight

(* stopServerWhenIdle stops it. *)
LEMMA IdleGoes == ASSUME Typed', StopWhenIdle, MountInv' PROVE LetsGo'
<1>1. CASE ~opened' /\ requests = <<>> /\ replies' = <<>> /\ ~timer'
      BY <1>1 DEF StopWhenIdle, Stopped, LetsGo
<1>2. CASE requests # <<>> \/ replies' # <<>>
      BY <1>2, BusyGoes DEF StopWhenIdle
<1>3. CASE opened' \/ timer'
      BY <1>3 DEF LetsGo, MountInv
<1> QED BY <1>1, <1>2, <1>3

LEMMA UserRead ==
    ASSUME ViewInv, User
    PROVE  NeverStuckReading' /\ MountInv' /\ LetsGo'
<1> USE DEF serverVars, flags, view, editor, history, bounds
<1>1. opened \in BOOLEAN /\ opened => mounted
      BY DEF ViewInv, TypeOK, MountInv
<1>2. CASE Open
      BY <1>2 DEF Open, Refresh, NeverStuckReading, MountInv, LetsGo
<1>3. CASE RefreshKey \/ Retry
      BY <1>1, <1>3 DEF RefreshKey, Retry, Refresh, NeverStuckReading, MountInv, LetsGo
<1>4. CASE Repair
      BY <1>1, <1>4 DEF Repair, NeverStuckReading, MountInv, LetsGo
<1>5. CASE Activate
      BY <1>1, <1>5 DEF ViewInv, Activate, NeverStuckReading, MountInv, LetsGo
<1>6. CASE AcceptUntested
      BY <1>1, <1>6 DEF ViewInv, AcceptUntested, NeverStuckReading, MountInv, LetsGo
<1>7. CASE Close
      BY <1>1, <1>7 DEF Close, NeverStuckReading, MountInv, LetsGo
<1>8. CASE InstallHelper
      BY <1>1, <1>8 DEF InstallHelper, NeverStuckReading, MountInv, LetsGo
<1>9. CASE Edit
      BY <1>1, <1>9 DEF ViewInv, Edit, NeverStuckReading, MountInv, LetsGo
<1>10. CASE Dismiss
      BY <1>1, <1>10 DEF ViewInv, Dismiss, NeverStuckReading, MountInv, LetsGo
<1>11. ASSUME NEW p \in Profile, Select(p) PROVE NeverStuckReading' /\ MountInv' /\ LetsGo'
      BY <1>1, <1>11 DEF ViewInv, Select, NeverStuckReading, MountInv, LetsGo, User
<1> QED BY <1>2, <1>3, <1>4, <1>5, <1>6, <1>7, <1>8, <1>9, <1>10, <1>11 DEF User

LEMMA OverlayRead ==
    ASSUME ViewInv, TypeOK', LinesRight',
           \/ TimerFires \/ FinishClose \/ RefreshLive
           \/ \E p \in ran \cup {NoProfile} : DaemonUpdated(p)
    PROVE  NeverStuckReading' /\ MountInv' /\ LetsGo'
<1> USE DEF serverVars, flags, view, editor, history, bounds
<1>1. CASE TimerFires
  <2>1. /\ UNCHANGED <<opened, mounted, loading, ready, loadError>>
        /\ left' = (~opened /\ ~saving')
        BY <1>1 DEF TimerFires
  <2>2. CASE saving'
    <3>1. inFlight' # 0
          BY <2>2, FlagInFlightNext
    <3> QED BY <2>1, <3>1 DEF ViewInv, NeverStuckReading, MountInv, LetsGo
  <2>3. CASE ~saving'
        BY <2>1, <2>3 DEF ViewInv, NeverStuckReading, MountInv, LetsGo
  <2> QED BY <2>2, <2>3
<1>2. CASE FinishClose
  <2>1. NeverStuckReading' /\ MountInv'
        BY <1>2 DEF FinishClose, NeverStuckReading, MountInv
  <2> QED BY <1>2, <2>1, IdleGoes DEF FinishClose, LinesRight
<1>3. CASE RefreshLive
  <2>1. /\ opened /\ UNCHANGED <<opened, mounted, loading, ready, loadError>>
        BY <1>3 DEF RefreshLive, CanPollLive
  <2> QED BY <2>1 DEF ViewInv, NeverStuckReading, MountInv, LetsGo
<1>4. ASSUME NEW p \in ran \cup {NoProfile}, DaemonUpdated(p)
      PROVE  NeverStuckReading' /\ MountInv' /\ LetsGo'
      BY <1>4, RestKept DEF ViewInv, DaemonUpdated, Rest
<1> QED BY <1>1, <1>2, <1>3, <1>4

LEMMA ReplyRead ==
    ASSUME ViewInv, TypeOK', LinesRight', ReadReply
    PROVE  NeverStuckReading' /\ MountInv' /\ LetsGo'
<1> USE DEF flags, view, editor
<1> DEFINE r == Head(replies)
<1>1. r \in Reply
  <2>1. replies \in Seq(Reply) /\ replies # <<>>
        BY DEF ReadReply, ViewInv, TypeOK
  <2> HIDE DEF r
  <2>2. \A S : \A q \in Seq(S) : q # <<>> => Head(q) \in S
        OBVIOUS
  <2> QED BY <2>1, <2>2 DEF r
<1>2. /\ r.ok \in BOOLEAN
      /\ ~r.ok => r.kind # ""
      BY <1>1 DEF Reply
<1>3. UNCHANGED <<opened, mounted>> /\ Typed' /\ opened \in BOOLEAN
      BY DEF ReadReply, LinesRight, ViewInv, TypeOK
<1>4. MountInv' /\ (~mounted' => ~opened)
      BY <1>3 DEF ViewInv, MountInv
<1>5. StateReply(r) \/ LiveReply(r) \/ ActivateReply(r)
      \/ ApplyReply(r) \/ AcceptReply(r) \/ RepairReply(r)
      BY DEF ReadReply
<1> HIDE DEF r
<1>6. ASSUME UNCHANGED <<loading, ready, loadError>> PROVE NeverStuckReading'
      BY <1>3, <1>6 DEF ViewInv, NeverStuckReading
<1>7. left' = ~opened => LetsGo'
      BY <1>4 DEF LetsGo
<1>8. CASE StateReply(r)
  <2>1. CASE r.ok
    <3>1. ready' = TRUE /\ StopWhenIdle
          BY <1>8, <2>1 DEF StateReply
    <3> QED BY <1>3, <1>4, <3>1, IdleGoes DEF NeverStuckReading
  <2>2. CASE ~r.ok
    <3>1. ready' = ready /\ loadError' = (IF ready THEN loadError ELSE r.kind) /\ left' = ~opened
          BY <1>8, <2>2 DEF StateReply, FailLoad
    <3> QED BY <1>2, <1>4, <1>7, <2>2, <3>1 DEF NeverStuckReading
  <2> QED BY <2>1, <2>2
<1>9. CASE LiveReply(r)
      BY <1>3, <1>4, <1>6, <1>9, IdleGoes DEF LiveReply
<1>10. CASE ActivateReply(r)
      BY <1>4, <1>6, <1>7, <1>10 DEF ActivateReply
<1>11. CASE ApplyReply(r)
  <2> DEFINE rest == IF r.ok /\ cursor = r.profile /\ unsaved = r.edit THEN NoEdit ELSE unsaved
             more == r.ok /\ rest # NoEdit
  <2>1. UNCHANGED <<loading, ready, loadError>>
        BY <1>11 DEF ApplyReply
  <2>2. CASE more /\ opened
        BY <1>4, <1>6, <2>1, <2>2 DEF LetsGo
  <2>3. CASE more /\ ~opened /\ ~NeedsAcceptance(support)
    <3>1. Save(rest, support, FALSE, timer) /\ rest # NoEdit
          BY <1>11, <2>3 DEF ApplyReply
    <3> HIDE DEF rest
    <3>2. saving' = TRUE
          BY <2>3, <3>1 DEF Save
    <3>3. inFlight' # 0
          BY <3>2, FlagInFlightNext
    <3> QED BY <1>4, <1>6, <2>1, <3>3 DEF LetsGo
  <2>4. CASE ~more \/ (~opened /\ NeedsAcceptance(support))
    <3>1. StopWhenIdle
          BY <1>11, <2>4 DEF ApplyReply
    <3> QED BY <1>3, <1>4, <1>6, <2>1, <3>1, IdleGoes
  <2> QED BY <2>2, <2>3, <2>4
<1>12. CASE AcceptReply(r)
      BY <1>4, <1>6, <1>7, <1>12 DEF AcceptReply
<1>13. CASE RepairReply(r)
  <2>1. CASE r.ok
    <3>1. loading' = TRUE
          BY <1>13, <2>1 DEF RepairReply
    <3>2. inFlight' # 0
          BY <3>1, FlagInFlightNext
    <3> QED BY <1>4, <3>1, <3>2 DEF NeverStuckReading, LetsGo
  <2>2. CASE ~r.ok
    <3>1. loadError' = r.kind /\ left' = (~opened /\ ~r.ok)
          BY <1>13, <2>2 DEF RepairReply
    <3> QED BY <1>2, <1>4, <2>2, <3>1 DEF NeverStuckReading, LetsGo
  <2> QED BY <2>1, <2>2
<1> QED BY Zenon, <1>4, <1>5, <1>8, <1>9, <1>10, <1>11, <1>12, <1>13

LEMMA ProcessRead ==
    ASSUME ViewInv, ServerOpens \/ NoMouseFound \/ OpenFails \/ ServerDies \/ ServerStops
    PROVE  NeverStuckReading' /\ MountInv' /\ LetsGo'
<1> USE DEF flags, view, history
<1>1. CASE ServerOpens
      BY <1>1 DEF ViewInv, ServerOpens, NeverStuckReading, MountInv, LetsGo, inFlight
<1>2. ASSUME NEW kind, kind # "", Exits(kind)
      PROVE  NeverStuckReading' /\ MountInv' /\ LetsGo'
  <2>1. LetsGo' /\ MountInv' /\ UNCHANGED <<opened, ready>>
        BY <1>2 DEF Exits, LetsGo, ViewInv, MountInv
  <2>2. CASE inFlight > 0
    <3>1. loadError' = IF ready THEN loadError ELSE kind
          BY <1>2, <2>2 DEF Exits, FailLoad
    <3> QED BY <1>2, <2>1, <3>1 DEF NeverStuckReading
  <2>3. CASE ~(inFlight > 0)
    <3>1. ~loading
      <4>1. inFlight \in Nat
        <5>1. Len(requests) \in Nat /\ Len(replies) \in Nat
              BY DEF ViewInv, LinesRight, Typed
        <5> QED BY <5>1 DEF inFlight
      <4> QED BY <2>3, <4>1, FlagInFlight DEF ViewInv
    <3>2. loadError' = loadError
          BY <1>2, <2>3 DEF Exits
    <3> QED BY <2>1, <3>1, <3>2 DEF ViewInv, NeverStuckReading
  <2> QED BY <2>1, <2>2, <2>3
<1> QED BY <1>1, <1>2 DEF NoMouseFound, OpenFails, ServerDies, ServerStops

LEMMA HandleRead ==
    ASSUME ViewInv, LinesRight', Handle
    PROVE  NeverStuckReading' /\ MountInv' /\ LetsGo'
<1>1. /\ \E x \in Reply : x.to = Head(requests).cmd /\ Answer(x)
      /\ UNCHANGED <<opened, mounted, flags, ready, loadError>>
      BY HandleTyped DEF ViewInv, LinesRight
<1>2. NeverStuckReading' /\ MountInv'
      BY <1>1 DEF ViewInv, NeverStuckReading, MountInv, flags
<1>3. replies' # <<>>
  <2>1. PICK x \in Reply : replies' = Append(replies, x)
        BY <1>1 DEF Answer
  <2>2. replies \in Seq(Reply)
        BY DEF ViewInv, TypeOK
  <2> QED BY <2>1, <2>2
<1> QED BY <1>2, <1>3, BusyGoes DEF LinesRight

-----------------------------------------------------------------------------
LEMMA InitView == Init => ViewInv
<1> SUFFICES ASSUME Init PROVE ViewInv
    OBVIOUS
<1>1. requests = <<>> /\ replies = <<>> /\ Typed
  <2>1. \A S : <<>> \in Seq(S)
        OBVIOUS
  <2> QED BY <2>1 DEF Init, Typed
<1>2. TypeOK
  <2>1. 0 \in 0..MaxEdits /\ 0 \in 0..MaxEvents /\ 1 \in Profile
        BY BoundsAssumption, CountAssumption DEF Profile
  <2>2. MiceTyped
        BY <2>1 DEF Init, MiceTyped
  <2>3. ServerTyped /\ FlagsTyped
        BY DEF Init, ServerTyped, FlagsTyped
  <2>4. DraftTyped
        BY <2>1 DEF Init, DraftTyped, NoSupport, NoEdit
  <2> QED BY <1>1, <2>2, <2>3, <2>4, TypeParts
<1>3. LinesRight
  <2>1. DOMAIN requests = {} /\ DOMAIN replies = {}
        BY <1>1
  <2>2. LinesMeant
        BY <2>1 DEF LinesMeant
  <2>3. \A cmds : NumWaiting(cmds) = 0 /\ NumComing(cmds) = 0
    <3>1. \A cmds : Waiting(cmds) = {} /\ Coming(cmds) = {}
          BY <2>1 DEF Waiting, Coming
    <3> QED BY <3>1, FS_EmptySet DEF NumWaiting, NumComing
  <2>4. One(loading) = 0 /\ One(livePolling) = 0 /\ One(saving) = 0
        BY DEF Init, One
  <2>5. FlagsMatchRequests
        BY <2>3, <2>4, FlagsCounted
  <2> QED BY <1>1, <2>2, <2>5 DEF LinesRight
<1>4. NeverStuckReading /\ MountInv /\ LetsGo
      BY DEF Init, NeverStuckReading, MountInv, LetsGo
<1> QED BY <1>2, <1>3, <1>4 DEF ViewInv

LEMMA StepView == IInv /\ ViewInv /\ [Next]_vars => ViewInv'
<1> SUFFICES ASSUME IInv, ViewInv, [Next]_vars PROVE ViewInv'
    OBVIOUS
<1> DEFINE OverlayStep == \/ TimerFires \/ FinishClose \/ RefreshLive
                          \/ \E p \in ran \cup {NoProfile} : DaemonUpdated(p)
           ProcessStep == ServerOpens \/ NoMouseFound \/ OpenFails \/ ServerDies \/ ServerStops
           MouseStep == \/ \E m \in Mouse : PlugIn(m) \/ Unplug(m) \/ DirectoryDamaged(m)
                        \/ \E m \in Mouse, p \in Profile : PressButton(m, p)
<1>1. TypeOK /\ LinesRight /\ LinesMeant
      BY DEF ViewInv, LinesRight
<1>2. ASSUME MiceTyped' /\ ServerTyped' /\ FlagsTyped' /\ DraftTyped', LinesRight' PROVE TypeOK'
      BY <1>2 DEF TypeOK, MiceTyped, ServerTyped, FlagsTyped, DraftTyped, LinesRight, Typed
<1>3. CASE User
      BY <1>1, <1>2, <1>3, UserTyped, UserLines, UserRead DEF ViewInv
<1>4. CASE OverlayStep
  <2>1. TypeOK' /\ LinesRight'
        BY <1>1, <1>2, <1>4, OverlayTyped, OverlayLines
  <2> QED BY <1>4, <2>1, OverlayRead DEF ViewInv
<1>5. CASE ReadReply
  <2>1. TypeOK' /\ LinesRight'
        BY <1>1, <1>2, <1>5, ReplyTyped, ReplyLines
  <2> QED BY <1>5, <2>1, ReplyRead DEF ViewInv
<1>6. CASE ProcessStep
  <2>1. TypeOK' /\ LinesRight'
        BY <1>1, <1>2, <1>6, ProcessTyped, ProcessLines
  <2> QED BY <1>6, <2>1, ProcessRead DEF ViewInv
<1>7. CASE Handle
  <2>1. TypeOK' /\ LinesRight'
        BY <1>1, <1>2, <1>7, HandleTyped, HandleLines
  <2> QED BY <1>7, <2>1, HandleRead DEF ViewInv
<1>8. CASE MouseStep
  <2>1. /\ MiceTyped' /\ ServerTyped' /\ FlagsTyped' /\ DraftTyped'
        /\ UNCHANGED <<requests, replies, flags>> /\ Rest
        BY <1>1, <1>8, MouseTyped DEF Rest, flags
  <2>2. LinesRight'
        BY <1>1, <2>1, LinesKept
  <2> QED BY <1>2, <2>1, <2>2, RestKept DEF ViewInv
<1>9. CASE UNCHANGED vars
  <2>1. UNCHANGED <<requests, replies, flags>> /\ Rest
        BY <1>9 DEF vars, serverVars, flags, view, history, Rest
  <2>2. LinesRight'
        BY <1>1, <2>1, LinesKept
  <2>3. TypeOK'
        BY <1>1, <1>9 DEF vars, mice, serverVars, flags, view, editor, history, bounds, TypeOK
  <2> QED BY <2>1, <2>2, <2>3, RestKept DEF ViewInv
<1>10. Next => User \/ OverlayStep \/ ReadReply \/ ProcessStep \/ Handle \/ MouseStep
      BY Zenon DEF Next
<1> HIDE DEF OverlayStep, ProcessStep, MouseStep
<1> QED BY <1>3, <1>4, <1>5, <1>6, <1>7, <1>8, <1>9, <1>10

LEMMA ViewHolds == Spec => []ViewInv
<1>1. Spec => []IInv
  <2>1. Init /\ [][Next]_vars => []IInv
        BY InitAgreed, StepAgreed, PTL
  <2> QED BY <2>1, PTL DEF Spec
<1> QED BY <1>1, InitView, StepView, PTL DEF Spec

(* Whatever mice come and go, and whatever fails: the flags that hold back *)
(* reading, polling and saving stand for one request each that is still    *)
(* unanswered, and an overlay without a mouse reads or says why it has     *)
(* none (Omalogi.qml, refresh, refreshLive, save, failLoad, onExited).     *)
THEOREM FlagsHold == Spec => []Consistent
<1>1. ViewInv => Consistent
      BY DEF ViewInv, LinesRight, Consistent
<1> QED BY <1>1, ViewHolds, PTL

(* An idle server is let go of once the overlay has closed, but for the    *)
(* ends of its work that `left' names (Omalogi.qml, stopServerWhenIdle).   *)
THEOREM ServerIsLetGo == Spec => []LetsGo
<1>1. ViewInv => LetsGo
      BY DEF ViewInv
<1> QED BY <1>1, ViewHolds, PTL

-----------------------------------------------------------------------------
(* What becomes of an edit.                                                *)

(* There are edits only of a mouse that was read. *)
EditInv == dirty => ready

Survives == dirty => unsaved' = unsaved \/ edits' # edits \/ SaveAnswered

(* A step that leaves the draft alone. *)
LEMMA DraftLeft ==
    ASSUME EditInv, unsaved' = unsaved, ready' = ready \/ ready'
    PROVE  EditInv' /\ Survives
BY DEF EditInv, Survives, dirty

(* A profile observed replaces no edit. *)
LEMMA ObservedKeeps ==
    ASSUME NEW p, ObserveActive(p)
    PROVE  unsaved' \in {unsaved, NoEdit} /\ (dirty => unsaved' = unsaved)
<1>1. CASE p = active
      BY <1>1 DEF ObserveActive, editor
<1>2. CASE p # active
      BY <1>2 DEF ObserveActive, editor, LoadDraft, dirty
<1> QED BY <1>1, <1>2

LEMMA ReplyLeaves == ASSUME EditInv, ReadReply PROVE EditInv' /\ Survives
<1> USE DEF view, editor
<1> DEFINE r == Head(replies)
<1>1. StateReply(r) \/ LiveReply(r) \/ ActivateReply(r)
      \/ ApplyReply(r) \/ AcceptReply(r) \/ RepairReply(r)
      BY DEF ReadReply
<1>2. replies # <<>>
      BY DEF ReadReply
<1>3. ASSUME r.to = "apply", r.ok, r.edit = unsaved PROVE SaveAnswered
      BY <1>2, <1>3 DEF SaveAnswered
<1> HIDE DEF r
<1>4. CASE StateReply(r)
  <2>1. CASE r.ok
    <3>1. ready' = TRUE
          BY <1>4, <2>1 DEF StateReply
    <3>2. dirty => unsaved' = unsaved
      <4>1. CASE ready /\ dirty
            BY <1>4, <2>1, <4>1 DEF StateReply
      <4> QED BY <4>1 DEF EditInv
    <3> QED BY <3>1, <3>2 DEF EditInv, Survives
  <2>2. CASE ~r.ok
        BY <1>4, <2>2, DraftLeft DEF StateReply
  <2> QED BY <2>1, <2>2
<1>5. CASE LiveReply(r)
  <2>1. ready' = ready /\ unsaved' \in {unsaved, NoEdit} /\ (dirty => unsaved' = unsaved)
        BY <1>5, ObservedKeeps DEF LiveReply
  <2> QED BY <2>1 DEF EditInv, Survives, dirty
<1>6. CASE ActivateReply(r)
      BY <1>6, DraftLeft DEF ActivateReply
<1>7. CASE ApplyReply(r)
  <2> DEFINE rest == IF r.ok /\ cursor = r.profile /\ unsaved = r.edit THEN NoEdit ELSE unsaved
  <2>1. unsaved' = rest /\ ready' = ready /\ r.to = "apply"
        BY <1>7 DEF ApplyReply
  <2>2. CASE unsaved' = unsaved
        BY <2>1, <2>2, DraftLeft
  <2>3. CASE unsaved' # unsaved
    <3>1. SaveAnswered /\ unsaved' = NoEdit
          BY <1>3, <2>1, <2>3
    <3> QED BY <3>1 DEF EditInv, Survives, dirty
  <2> QED BY <2>2, <2>3
<1>8. CASE AcceptReply(r)
      BY <1>8, DraftLeft DEF AcceptReply
<1>9. CASE RepairReply(r)
      BY <1>9, DraftLeft DEF RepairReply
<1> QED BY Zenon, <1>1, <1>4, <1>5, <1>6, <1>7, <1>8, <1>9

LEMMA StepLeaves == ASSUME TypeOK, EditInv, [Next]_vars PROVE EditInv' /\ Survives
<1> USE DEF serverVars, flags, view, editor, history, bounds
<1>1. CASE Open \/ RefreshKey \/ Retry \/ Repair \/ InstallHelper
      BY <1>1, DraftLeft DEF Open, RefreshKey, Retry, Repair, InstallHelper
<1>2. CASE Close \/ Activate \/ AcceptUntested \/ Dismiss
      BY <1>2, DraftLeft DEF Close, Activate, AcceptUntested, Dismiss
<1>3. CASE Edit
  <2>1. ready /\ ready' = ready /\ edits' = edits + 1
        BY <1>3 DEF Edit
  <2>2. edits \in Nat
    <3>1. edits \in 0..MaxEdits
          BY DEF TypeOK
    <3> QED BY <3>1
  <2> QED BY <2>1, <2>2 DEF EditInv, Survives
<1>4. ASSUME NEW p \in Profile, Select(p) PROVE EditInv' /\ Survives
  <2>1. ~dirty /\ unsaved' = NoEdit
        BY <1>4 DEF Select, LoadDraft
  <2> QED BY <2>1 DEF EditInv, Survives, dirty
<1>5. CASE TimerFires \/ FinishClose \/ RefreshLive
      BY <1>5, DraftLeft DEF TimerFires, FinishClose, RefreshLive
<1>6. CASE ReadReply
      BY <1>6, ReplyLeaves
<1>7. CASE ServerOpens
      BY <1>7, DraftLeft DEF ServerOpens
<1>8. ASSUME NEW kind, Exits(kind) PROVE EditInv' /\ Survives
      BY <1>8, DraftLeft DEF Exits
<1>9. CASE Handle
      BY <1>9, DraftLeft DEF Handle
<1>10. ASSUME NEW m \in Mouse, PlugIn(m) \/ Unplug(m) \/ DirectoryDamaged(m)
       PROVE  EditInv' /\ Survives
      BY <1>10, DraftLeft DEF PlugIn, Unplug, DirectoryDamaged, overlay
<1>11. ASSUME NEW m \in Mouse, NEW p \in Profile, PressButton(m, p) PROVE EditInv' /\ Survives
      BY <1>11, DraftLeft DEF PressButton, overlay
<1>12. ASSUME NEW p \in ran \cup {NoProfile}, DaemonUpdated(p) PROVE EditInv' /\ Survives
  <2>1. ready' = ready /\ unsaved' \in {unsaved, NoEdit} /\ (dirty => unsaved' = unsaved)
        BY <1>12, ObservedKeeps DEF DaemonUpdated
  <2> QED BY <2>1 DEF EditInv, Survives, dirty
<1>13. CASE UNCHANGED vars
      BY <1>13, DraftLeft DEF vars
<1>14. NoMouseFound \/ OpenFails \/ ServerDies \/ ServerStops => EditInv' /\ Survives
      BY <1>8 DEF NoMouseFound, OpenFails, ServerDies, ServerStops
<1> QED BY Zenon, <1>1, <1>2, <1>3, <1>4, <1>5, <1>6, <1>7, <1>9, <1>10, <1>11, <1>12, <1>13, <1>14
        DEF Next, User

(* An edit is in the draft until a save of it is answered: no reply, no    *)
(* state of the daemon, no reopening and no lost server replaces it        *)
(* (Omalogi.qml, refresh, observeActive, afterWrite).                     *)
THEOREM EditsSurvive == Spec => UnsavedSurvives
<1>1. Init => EditInv
      BY DEF Init, EditInv, dirty
<1>2. ViewInv /\ EditInv /\ [Next]_vars => EditInv' /\ [Survives]_vars
      BY StepLeaves DEF ViewInv
<1>3. ViewInv /\ EditInv /\ [Next]_vars => EditInv'
      BY <1>2
<1>4. ViewInv /\ EditInv /\ [Next]_vars
          => [dirty => unsaved' = unsaved \/ edits' # edits \/ SaveAnswered]_vars
      BY <1>2 DEF Survives
<1> QED BY <1>1, <1>3, <1>4, ViewHolds, PTL DEF Spec, UnsavedSurvives

(* Names of files and numbers of versions. *)
Names == File \cup {Index}
Marks == Version \cup Revision

LEMMA FileNames ==
    /\ Metadata \in File /\ Index \notin File /\ Metadata # Index
    /\ \A v \in View, c \in Colour :
          Render(v, c) \in File /\ Render(v, c) # Metadata /\ Render(v, c) # Index
<1>1. Metadata # Index
  BY DEF Metadata, Index
<1>2. \A v, c : Render(v, c) # Metadata /\ Render(v, c) # Index
  BY DEF Render, Metadata, Index
<1> QED BY <1>1, <1>2 DEF File

LEMMA MarksAre ==
    /\ Version \subseteq Nat /\ Revision \subseteq Nat \ {0} /\ None = 0
    /\ None \in Version /\ None \notin Revision
    /\ Broken \notin Marks /\ Broken # None
    /\ \A r \in Revision, n \in File : Listed[r][n] \in Version
<1>1. Version \subseteq Nat /\ Revision \subseteq Nat \ {0} /\ None = 0 /\ Broken = -1
  BY ListedAssumption DEF None, Broken
<1>2. None \in Version /\ \A r \in Revision, n \in File : Listed[r][n] \in Version
  BY DEF Version
<1> QED BY <1>1, <1>2 DEF Marks

(* What a run serves of a revision: renders of that revision, in order.    *)
LEMMA RendersAre ==
    ASSUME NEW r \in Revision, NEW white \in BOOLEAN
    PROVE  /\ DOMAIN Renders(r, white) = DOMAIN Views
           /\ Renders(r, white) \in Seq(File) /\ Renders(r, white) # <<>>
           /\ \A i \in DOMAIN Views :
                 /\ Renders(r, white)[i] \in File /\ Renders(r, white)[i] # Metadata
                 /\ Listed[r][Renders(r, white)[i]] # None
<1>1. /\ Views \in Seq(STRING) /\ Views # <<>> /\ Len(Views) \in Nat
      /\ DOMAIN Views = 1..Len(Views)
  BY ViewsAssumption
<1> DEFINE c == IF white /\ HasWhite(r) THEN "white" ELSE "black"
<1>2. Renders(r, white) = [i \in DOMAIN Views |-> Render(Views[i], c)]
  BY DEF Renders
<1>3. c \in Colour
  BY DEF Colour
<1>4. \A v \in View : Listed[r][Render(v, c)] # None
  BY ServedAssumption DEF HasWhite
<1> HIDE DEF c
<1>5. \A i \in DOMAIN Views : Views[i] \in View
  BY DEF View
<1>6. ASSUME NEW i \in DOMAIN Views
      PROVE  /\ Renders(r, white)[i] \in File /\ Renders(r, white)[i] # Metadata
             /\ Listed[r][Renders(r, white)[i]] # None
  <2>1. Renders(r, white)[i] = Render(Views[i], c)
    BY <1>2
  <2> QED BY <2>1, <1>3, <1>4, <1>5, FileNames
<1>7. DOMAIN Renders(r, white) = DOMAIN Views
  BY <1>2
<1>8. Renders(r, white) \in [1..Len(Views) -> File]
  BY <1>1, <1>2, <1>6
<1>9. Renders(r, white) \in Seq(File)
  BY <1>1, <1>8
<1>10. Renders(r, white) # <<>>
  <2>1. 1 \in DOMAIN Views
    BY <1>1
  <2> QED BY <2>1, <1>7
<1> QED BY <1>6, <1>7, <1>9, <1>10

LEMMA MetadataListed ==
    ASSUME NEW r \in Revision PROVE Listed[r][Metadata] # None
  BY ServedAssumption

(* The first of the files still to return, and the others.                 *)
LEMMA TodoIs ==
    ASSUME NEW todo \in Seq(File), todo # <<>>
    PROVE  /\ Head(todo) \in File /\ Tail(todo) \in Seq(File)
           /\ 1 \in DOMAIN todo /\ Head(todo) = todo[1]
           /\ {Tail(todo)[i] : i \in DOMAIN Tail(todo)} \subseteq {todo[i] : i \in DOMAIN todo}
           /\ {todo[i] : i \in DOMAIN todo}
                 = {Head(todo)} \cup {Tail(todo)[i] : i \in DOMAIN Tail(todo)}
<1>1. /\ Head(todo) \in File /\ Tail(todo) \in Seq(File) /\ Head(todo) = todo[1]
      /\ Len(todo) \in Nat /\ Len(todo) >= 1 /\ Len(Tail(todo)) = Len(todo) - 1
      /\ DOMAIN todo = 1..Len(todo) /\ DOMAIN Tail(todo) = 1..(Len(todo) - 1)
      /\ \A i \in 1..(Len(todo) - 1) : Tail(todo)[i] = todo[i + 1]
  OBVIOUS
<1>2. ASSUME NEW i \in DOMAIN Tail(todo)
      PROVE  Tail(todo)[i] \in {todo[j] : j \in DOMAIN todo}
  <2>1. i + 1 \in DOMAIN todo /\ Tail(todo)[i] = todo[i + 1]
    BY <1>1
  <2> QED BY <2>1
<1>3. ASSUME NEW i \in DOMAIN todo, i # 1
      PROVE  todo[i] \in {Tail(todo)[j] : j \in DOMAIN Tail(todo)}
  <2>1. i - 1 \in DOMAIN Tail(todo) /\ (i - 1) + 1 = i
    BY <1>1, <1>3
  <2>2. Tail(todo)[i - 1] = todo[i]
    BY <2>1, <1>1
  <2> QED BY <2>1, <2>2
<1>4. 1 \in DOMAIN todo
  BY <1>1
<1> QED BY <1>1, <1>2, <1>3, <1>4

-----------------------------------------------------------------------------
(* The invariant.                                                          *)

(* The renders a run goes by, and the files it still has to return.        *)
Wanted(r) == Renders(r.index, r.white)
Left(r) == {r.todo[i] : i \in DOMAIN r.todo}

(* What one run has done and what it is about to do fit together.          *)
RunFits(r) ==
    /\ r.index = None =>
          r.pc \in {"idle", "index", "fetch", "create", "write", "rename", "failed"}
             /\ r.todo = <<>>
    /\ r.index # None =>
          r.pc \in {"check", "fetch", "create", "write", "rename", "metadata", "done"}
    /\ r.index # None /\ r.pc \in {"check", "fetch", "create", "write", "rename"} =>
          /\ r.todo # <<>>
          /\ r.todo = <<Metadata>> \/ \A n \in Left(r) : \E i \in DOMAIN Views : n = Wanted(r)[i]
    /\ r.pc \in {"metadata", "done"} => r.todo = <<>>
    /\ r.index # None /\ r.pc = "fetch" => Listed[r.index][Head(r.todo)] # None
    /\ r.index = None /\ r.pc \in {"create", "write", "rename"} => r.data \in Revision
    /\ r.index # None /\ r.pc \in {"create", "write", "rename"} =>
          r.data = Listed[r.index][Head(r.todo)] /\ r.data # None
    /\ r.pc = "write" <=> r.file # "closed"

(* Two runs that write one file have met, and are owed nothing.            *)
Met == \A p, q \in Caller : \A n \in Names :
          p # q /\ Writing(p, n) /\ Writing(q, n) => clashed /\ run[p].owed = "nothing"

(* A run that met no other one finds its own bytes in its temporary.       *)
Undisturbed(p) == run[p].owed # "nothing" \/ ~clashed
OwnBytes(p) ==
    Undisturbed(p) => /\ run[p].pc = "write" => run[p].file = "tmp"
                      /\ run[p].pc = "rename" => tmp[Name(p)] = run[p].data

(* What a run has returned so far is what its index lists.                 *)
PlacedIn(files, r) ==
    r.owed # "nothing" /\ r.index # None /\ r.todo # <<Metadata>> =>
        /\ files[Metadata] = Listed[r.index][Metadata]
        /\ r.pc # "metadata" =>
              \A i \in DOMAIN Views :
                 Wanted(r)[i] \in Left(r) \/ files[Wanted(r)[i]] = Listed[r.index][Wanted(r)[i]]
PlacedFor(r) == PlacedIn(path, r)

(* A run that found everything in the cache goes by that.                  *)
CachedFor(r) ==
    r.owed = "cached" =>
        /\ Available(r.white)
        /\ r.pc \in {"index", "check", "metadata", "done"}
        /\ r.pc = "index" => ~r.refresh
        /\ r.index # None => r.index = path[Index]

(* A run that may download goes by the one revision the host holds.        *)
HostedFor(r) ==
    r.owed = "download" =>
        /\ Settled /\ ~r.offline /\ r.pc \notin {"idle", "failed"}
        /\ r.pc = "index" => r.refresh \/ path[Index] \in {None, host.index}
        /\ r.index # None => r.index = host.index
        /\ r.index = None /\ r.pc \in {"create", "write", "rename"} => r.data = host.index

(* The index and its temporary hold revisions of the index.                *)
IndexFits == {path[Index], tmp[Index]} \subseteq Revision \cup {None, Broken}

PicInv ==
    /\ PicturesTypeOK /\ IndexFits
    /\ \A p \in Caller : RunFits(run[p]) /\ OwnBytes(p)
    /\ Met /\ IndexReadable
    /\ \A p \in Caller : PlacedFor(run[p]) /\ CachedFor(run[p]) /\ HostedFor(run[p])
    /\ ColorShown

(* The type invariant, run by run.                                         *)
LEMMA PicTyped ==
    ASSUME PicturesTypeOK
    PROVE  /\ host = [index |-> host.index, files |-> host.files]
           /\ host.index \in Revision /\ host.files \in Revision
           /\ path \in [Names -> Marks \cup {Broken}]
           /\ tmp \in [Names -> Marks \cup {Broken}]
           /\ run \in [Caller -> Run] /\ clashed \in BOOLEAN
           /\ "overlay" \in Caller /\ "terminal" \in Caller
  BY MarksAre DEF PicturesTypeOK, Names, Marks, Caller

LEMMA RunFields ==
    ASSUME NEW r \in Run
    PROVE  /\ r.pc \in {"idle", "index", "check", "fetch", "create", "write", "rename",
                        "metadata", "done", "failed"}
           /\ r.white \in BOOLEAN /\ r.offline \in BOOLEAN /\ r.refresh \in BOOLEAN
           /\ r.index \in Revision \cup {None} /\ r.todo \in Seq(File)
           /\ r.data \in Marks
           /\ r.file \in {"closed", "tmp", "path", "gone"}
           /\ r.owed \in {"nothing", "whole", "cached", "download"}
  BY DEF Run, Marks

(* The file a run is at.                                                   *)
At(r) == IF r.index = None THEN Index ELSE Head(r.todo)

LEMMA AtIs ==
    ASSUME NEW r \in Run, RunFits(r), r.pc \in {"check", "fetch", "create", "write", "rename"}
    PROVE  /\ At(r) \in Names
           /\ At(r) = Index <=> r.index = None
           /\ r.index # None => r.index \in Revision /\ At(r) \in File /\ At(r) = Head(r.todo)
<1>1. r.index \in Revision \cup {None} /\ r.todo \in Seq(File) /\ None \notin Revision
  BY RunFields, MarksAre
<1>2. CASE r.index = None
  BY <1>2 DEF At, Names
<1>3. CASE r.index # None
  <2>1. r.todo # <<>>
    BY <1>3 DEF RunFits
  <2>2. Head(r.todo) \in File
    BY <2>1, <1>1
  <2> QED BY <2>2, <1>1, <1>3, FileNames DEF At, Names
<1> QED BY <1>2, <1>3

LEMMA NameIsAt == \A p \in Caller : Name(p) = At(run[p])
  BY DEF Name, At

(* Who is writing depends on the runs alone.                               *)
Writes(r, n) == r.pc \in {"write", "rename"} /\ At(r) = n

LEMMA WritingIs == \A p \in Caller, n \in Names : Writing(p, n) <=> Writes(run[p], n)
  BY NameIsAt DEF Writing, Writes

-----------------------------------------------------------------------------
(* Steps of one run that leave the cached files alone.                     *)
LEMMA RunStepKeeps ==
    ASSUME PicInv, NEW p \in Caller, NEW r \in Run,
           RunFits(r), PlacedFor(r), CachedFor(r), HostedFor(r),
           r.pc \notin {"write", "rename"},
           run' = [run EXCEPT ![p] = r],
           UNCHANGED <<host, path, tmp, clashed>>,
           mouseColor' \in Colour, picture' \in [index : Revision \cup {None}, white : BOOLEAN],
           faults' \in 0..MaxFaults, commands' \in 0..MaxCommands, ColorShown'
    PROVE  PicInv'
<1>1. run \in [Caller -> Run] /\ PicturesTypeOK
  BY PicTyped DEF PicInv
<1>2. PicturesTypeOK'
  BY <1>1 DEF PicturesTypeOK
<1>3. /\ run'[p] = r
      /\ \A q \in Caller \ {p} : run'[q] = run[q]
  BY <1>1
<1>4. \A q \in Caller :
         /\ RunFits(run'[q]) /\ PlacedFor(run'[q])
         /\ CachedFor(run'[q]) /\ HostedFor(run'[q])
  BY <1>3 DEF PicInv
<1>5. \A q \in Caller : PlacedFor(run[q])' /\ CachedFor(run[q])' /\ HostedFor(run[q])'
  BY <1>4 DEF PlacedFor, PlacedIn, CachedFor, HostedFor, Available, Settled
<1>6. \A q \in Caller, n \in Names : Writing(q, n)' => q # p /\ Writing(q, n)
  BY <1>3 DEF Writing, Name
<1>7. Met'
  BY <1>3, <1>6 DEF Met, PicInv
<1>8. ASSUME NEW q \in Caller PROVE OwnBytes(q)'
  <2>1. CASE q = p
    BY <2>1, <1>3 DEF OwnBytes
  <2>2. CASE q # p
    BY <2>2, <1>3 DEF PicInv, OwnBytes, Undisturbed, Name
  <2> QED BY <2>1, <2>2
<1>9. IndexReadable'
  BY DEF IndexReadable, PicInv
<1> QED BY <1>2, <1>4, <1>5, <1>7, <1>8, <1>9 DEF PicInv, IndexFits

-----------------------------------------------------------------------------
(* The records that the actions make of a run, field by field.             *)
Pc == {"idle", "index", "check", "fetch", "create", "write", "rename", "metadata", "done",
       "failed"}
Where == {"closed", "tmp", "path", "gone"}
Due == {"nothing", "whole", "cached", "download"}

Is(s, pc, white, refresh, offline, index, todo, data, file, owed) ==
    /\ s \in Run
    /\ s.pc = pc /\ s.white = white /\ s.refresh = refresh /\ s.offline = offline
    /\ s.index = index /\ s.todo = todo /\ s.data = data /\ s.file = file /\ s.owed = owed

LEMMA RunIs ==
    Run = [pc : Pc, white : BOOLEAN, offline : BOOLEAN, refresh : BOOLEAN,
           index : Revision \cup {None}, todo : Seq(File), data : Marks, file : Where, owed : Due]
  BY DEF Run, Pc, Marks, Where, Due

LEMMA PcIs ==
    ASSUME NEW r \in Run, NEW pc \in Pc
    PROVE  Is([r EXCEPT !.pc = pc],
              pc, r.white, r.refresh, r.offline, r.index, r.todo, r.data, r.file, r.owed)
<1> DEFINE s == [r EXCEPT !.pc = pc]
<1>1. s \in Run
  BY RunIs, Zenon
<1>2. s.pc = pc
  BY RunIs
<1>3. s.white = r.white
  BY RunIs
<1>4. s.refresh = r.refresh
  BY RunIs
<1>5. s.offline = r.offline
  BY RunIs
<1>6. s.index = r.index
  BY RunIs
<1>7. s.todo = r.todo
  BY RunIs
<1>8. s.data = r.data
  BY RunIs
<1>9. s.file = r.file
  BY RunIs
<1>10. s.owed = r.owed
  BY RunIs
<1> HIDE DEF s
<1>20. Is(s, pc, r.white, r.refresh, r.offline, r.index, r.todo, r.data, r.file, r.owed)
  BY <1>1, <1>2, <1>3, <1>4, <1>5, <1>6, <1>7, <1>8, <1>9, <1>10, Zenon DEF Is
<1> QED BY <1>20, Zenon DEF s

LEMMA OwedIs ==
    ASSUME NEW r \in Run, NEW owed \in Due
    PROVE  Is([r EXCEPT !.owed = owed],
              r.pc, r.white, r.refresh, r.offline, r.index, r.todo, r.data, r.file, owed)
<1> DEFINE s == [r EXCEPT !.owed = owed]
<1>1. s \in Run
  BY RunIs, Zenon
<1>2. s.pc = r.pc
  BY RunIs
<1>3. s.white = r.white
  BY RunIs
<1>4. s.refresh = r.refresh
  BY RunIs
<1>5. s.offline = r.offline
  BY RunIs
<1>6. s.index = r.index
  BY RunIs
<1>7. s.todo = r.todo
  BY RunIs
<1>8. s.data = r.data
  BY RunIs
<1>9. s.file = r.file
  BY RunIs
<1>10. s.owed = owed
  BY RunIs
<1> HIDE DEF s
<1>20. Is(s, r.pc, r.white, r.refresh, r.offline, r.index, r.todo, r.data, r.file, owed)
  BY <1>1, <1>2, <1>3, <1>4, <1>5, <1>6, <1>7, <1>8, <1>9, <1>10, Zenon DEF Is
<1> QED BY <1>20, Zenon DEF s

LEMMA PcRefreshIs ==
    ASSUME NEW r \in Run, NEW pc \in Pc, NEW refresh \in BOOLEAN
    PROVE  Is([r EXCEPT !.pc = pc, !.refresh = refresh],
              pc, r.white, refresh, r.offline, r.index, r.todo, r.data, r.file, r.owed)
<1> DEFINE s == [r EXCEPT !.pc = pc, !.refresh = refresh]
<1>1. s \in Run
  BY RunIs, Zenon
<1>2. s.pc = pc
  BY RunIs
<1>3. s.white = r.white
  BY RunIs
<1>4. s.refresh = refresh
  BY RunIs
<1>5. s.offline = r.offline
  BY RunIs
<1>6. s.index = r.index
  BY RunIs
<1>7. s.todo = r.todo
  BY RunIs
<1>8. s.data = r.data
  BY RunIs
<1>9. s.file = r.file
  BY RunIs
<1>10. s.owed = r.owed
  BY RunIs
<1> HIDE DEF s
<1>20. Is(s, pc, r.white, refresh, r.offline, r.index, r.todo, r.data, r.file, r.owed)
  BY <1>1, <1>2, <1>3, <1>4, <1>5, <1>6, <1>7, <1>8, <1>9, <1>10, Zenon DEF Is
<1> QED BY <1>20, Zenon DEF s

LEMMA PcDataIs ==
    ASSUME NEW r \in Run, NEW pc \in Pc, NEW data \in Marks
    PROVE  Is([r EXCEPT !.pc = pc, !.data = data],
              pc, r.white, r.refresh, r.offline, r.index, r.todo, data, r.file, r.owed)
<1> DEFINE s == [r EXCEPT !.pc = pc, !.data = data]
<1>1. s \in Run
  BY RunIs, Zenon
<1>2. s.pc = pc
  BY RunIs
<1>3. s.white = r.white
  BY RunIs
<1>4. s.refresh = r.refresh
  BY RunIs
<1>5. s.offline = r.offline
  BY RunIs
<1>6. s.index = r.index
  BY RunIs
<1>7. s.todo = r.todo
  BY RunIs
<1>8. s.data = data
  BY RunIs
<1>9. s.file = r.file
  BY RunIs
<1>10. s.owed = r.owed
  BY RunIs
<1> HIDE DEF s
<1>20. Is(s, pc, r.white, r.refresh, r.offline, r.index, r.todo, data, r.file, r.owed)
  BY <1>1, <1>2, <1>3, <1>4, <1>5, <1>6, <1>7, <1>8, <1>9, <1>10, Zenon DEF Is
<1> QED BY <1>20, Zenon DEF s

LEMMA PcFileIs ==
    ASSUME NEW r \in Run, NEW pc \in Pc, NEW file \in Where
    PROVE  Is([r EXCEPT !.pc = pc, !.file = file],
              pc, r.white, r.refresh, r.offline, r.index, r.todo, r.data, file, r.owed)
<1> DEFINE s == [r EXCEPT !.pc = pc, !.file = file]
<1>1. s \in Run
  BY RunIs, Zenon
<1>2. s.pc = pc
  BY RunIs
<1>3. s.white = r.white
  BY RunIs
<1>4. s.refresh = r.refresh
  BY RunIs
<1>5. s.offline = r.offline
  BY RunIs
<1>6. s.index = r.index
  BY RunIs
<1>7. s.todo = r.todo
  BY RunIs
<1>8. s.data = r.data
  BY RunIs
<1>9. s.file = file
  BY RunIs
<1>10. s.owed = r.owed
  BY RunIs
<1> HIDE DEF s
<1>20. Is(s, pc, r.white, r.refresh, r.offline, r.index, r.todo, r.data, file, r.owed)
  BY <1>1, <1>2, <1>3, <1>4, <1>5, <1>6, <1>7, <1>8, <1>9, <1>10, Zenon DEF Is
<1> QED BY <1>20, Zenon DEF s

LEMMA PcTodoIs ==
    ASSUME NEW r \in Run, NEW pc \in Pc, NEW todo \in Seq(File)
    PROVE  Is([r EXCEPT !.pc = pc, !.todo = todo],
              pc, r.white, r.refresh, r.offline, r.index, todo, r.data, r.file, r.owed)
<1> DEFINE s == [r EXCEPT !.pc = pc, !.todo = todo]
<1>1. s \in Run
  BY RunIs, Zenon
<1>2. s.pc = pc
  BY RunIs
<1>3. s.white = r.white
  BY RunIs
<1>4. s.refresh = r.refresh
  BY RunIs
<1>5. s.offline = r.offline
  BY RunIs
<1>6. s.index = r.index
  BY RunIs
<1>7. s.todo = todo
  BY RunIs
<1>8. s.data = r.data
  BY RunIs
<1>9. s.file = r.file
  BY RunIs
<1>10. s.owed = r.owed
  BY RunIs
<1> HIDE DEF s
<1>20. Is(s, pc, r.white, r.refresh, r.offline, r.index, todo, r.data, r.file, r.owed)
  BY <1>1, <1>2, <1>3, <1>4, <1>5, <1>6, <1>7, <1>8, <1>9, <1>10, Zenon DEF Is
<1> QED BY <1>20, Zenon DEF s

LEMMA OwedFileIs ==
    ASSUME NEW r \in Run, NEW owed \in Due, NEW file \in Where
    PROVE  Is([r EXCEPT !.owed = owed, !.file = file],
              r.pc, r.white, r.refresh, r.offline, r.index, r.todo, r.data, file, owed)
<1> DEFINE s == [r EXCEPT !.owed = owed, !.file = file]
<1>1. s \in Run
  BY RunIs, Zenon
<1>2. s.pc = r.pc
  BY RunIs
<1>3. s.white = r.white
  BY RunIs
<1>4. s.refresh = r.refresh
  BY RunIs
<1>5. s.offline = r.offline
  BY RunIs
<1>6. s.index = r.index
  BY RunIs
<1>7. s.todo = r.todo
  BY RunIs
<1>8. s.data = r.data
  BY RunIs
<1>9. s.file = file
  BY RunIs
<1>10. s.owed = owed
  BY RunIs
<1> HIDE DEF s
<1>20. Is(s, r.pc, r.white, r.refresh, r.offline, r.index, r.todo, r.data, file, owed)
  BY <1>1, <1>2, <1>3, <1>4, <1>5, <1>6, <1>7, <1>8, <1>9, <1>10, Zenon DEF Is
<1> QED BY <1>20, Zenon DEF s

LEMMA FoundIs ==
    ASSUME NEW r \in Run, NEW pc \in Pc, NEW index \in Revision \cup {None},
           NEW todo \in Seq(File), NEW refresh \in BOOLEAN
    PROVE  Is([r EXCEPT !.pc = pc, !.index = index, !.todo = todo, !.refresh = refresh],
              pc, r.white, refresh, r.offline, index, todo, r.data, r.file, r.owed)
<1> DEFINE s == [r EXCEPT !.pc = pc, !.index = index, !.todo = todo, !.refresh = refresh]
<1>1. s \in Run
  BY RunIs, Zenon
<1>2. s.pc = pc
  BY RunIs
<1>3. s.white = r.white
  BY RunIs
<1>4. s.refresh = refresh
  BY RunIs
<1>5. s.offline = r.offline
  BY RunIs
<1>6. s.index = index
  BY RunIs
<1>7. s.todo = todo
  BY RunIs
<1>8. s.data = r.data
  BY RunIs
<1>9. s.file = r.file
  BY RunIs
<1>10. s.owed = r.owed
  BY RunIs
<1> HIDE DEF s
<1>20. Is(s, pc, r.white, refresh, r.offline, index, todo, r.data, r.file, r.owed)
  BY <1>1, <1>2, <1>3, <1>4, <1>5, <1>6, <1>7, <1>8, <1>9, <1>10, Zenon DEF Is
<1> QED BY <1>20, Zenon DEF s

LEMMA IndexedIs ==
    ASSUME NEW r \in Run, NEW pc \in Pc, NEW index \in Revision \cup {None},
           NEW data \in Marks, NEW todo \in Seq(File)
    PROVE  Is([r EXCEPT !.pc = pc, !.index = index, !.data = data, !.todo = todo],
              pc, r.white, r.refresh, r.offline, index, todo, data, r.file, r.owed)
<1> DEFINE s == [r EXCEPT !.pc = pc, !.index = index, !.data = data, !.todo = todo]
<1>1. s \in Run
  BY RunIs, Zenon
<1>2. s.pc = pc
  BY RunIs
<1>3. s.white = r.white
  BY RunIs
<1>4. s.refresh = r.refresh
  BY RunIs
<1>5. s.offline = r.offline
  BY RunIs
<1>6. s.index = index
  BY RunIs
<1>7. s.todo = todo
  BY RunIs
<1>8. s.data = data
  BY RunIs
<1>9. s.file = r.file
  BY RunIs
<1>10. s.owed = r.owed
  BY RunIs
<1> HIDE DEF s
<1>20. Is(s, pc, r.white, r.refresh, r.offline, index, todo, data, r.file, r.owed)
  BY <1>1, <1>2, <1>3, <1>4, <1>5, <1>6, <1>7, <1>8, <1>9, <1>10, Zenon DEF Is
<1> QED BY <1>20, Zenon DEF s

LEMMA AdvanceIs ==
    ASSUME NEW r \in Run, NEW todo \in Seq(File), NEW data \in Marks,
           NEW file \in Where, NEW pc \in Pc
    PROVE  Is([r EXCEPT !.todo = todo, !.data = data, !.file = file, !.pc = pc],
              pc, r.white, r.refresh, r.offline, r.index, todo, data, file, r.owed)
<1> DEFINE s == [r EXCEPT !.todo = todo, !.data = data, !.file = file, !.pc = pc]
<1>1. s \in Run
  BY RunIs, Zenon
<1>2. s.pc = pc
  BY RunIs
<1>3. s.white = r.white
  BY RunIs
<1>4. s.refresh = r.refresh
  BY RunIs
<1>5. s.offline = r.offline
  BY RunIs
<1>6. s.index = r.index
  BY RunIs
<1>7. s.todo = todo
  BY RunIs
<1>8. s.data = data
  BY RunIs
<1>9. s.file = file
  BY RunIs
<1>10. s.owed = r.owed
  BY RunIs
<1> HIDE DEF s
<1>20. Is(s, pc, r.white, r.refresh, r.offline, r.index, todo, data, file, r.owed)
  BY <1>1, <1>2, <1>3, <1>4, <1>5, <1>6, <1>7, <1>8, <1>9, <1>10, Zenon DEF Is
<1> QED BY <1>20, Zenon DEF s

LEMMA KilledIs ==
    ASSUME NEW r \in Run, NEW pc \in Pc, NEW white \in BOOLEAN
    PROVE  Is([r EXCEPT !.pc = pc, !.white = white],
              pc, white, r.refresh, r.offline, r.index, r.todo, r.data, r.file, r.owed)
<1> DEFINE s == [r EXCEPT !.pc = pc, !.white = white]
<1>1. s \in Run
  BY RunIs, Zenon
<1>2. s.pc = pc
  BY RunIs
<1>3. s.white = white
  BY RunIs
<1>4. s.refresh = r.refresh
  BY RunIs
<1>5. s.offline = r.offline
  BY RunIs
<1>6. s.index = r.index
  BY RunIs
<1>7. s.todo = r.todo
  BY RunIs
<1>8. s.data = r.data
  BY RunIs
<1>9. s.file = r.file
  BY RunIs
<1>10. s.owed = r.owed
  BY RunIs
<1> HIDE DEF s
<1>20. Is(s, pc, white, r.refresh, r.offline, r.index, r.todo, r.data, r.file, r.owed)
  BY <1>1, <1>2, <1>3, <1>4, <1>5, <1>6, <1>7, <1>8, <1>9, <1>10, Zenon DEF Is
<1> QED BY <1>20, Zenon DEF s

LEMMA GoneIs ==
    ASSUME NEW r \in Run, NEW pc \in Pc, NEW white \in BOOLEAN, NEW owed \in Due
    PROVE  Is([r EXCEPT !.pc = pc, !.white = white, !.owed = owed],
              pc, white, r.refresh, r.offline, r.index, r.todo, r.data, r.file, owed)
<1> DEFINE s == [r EXCEPT !.pc = pc, !.white = white, !.owed = owed]
<1>1. s \in Run
  BY RunIs, Zenon
<1>2. s.pc = pc
  BY RunIs
<1>3. s.white = white
  BY RunIs
<1>4. s.refresh = r.refresh
  BY RunIs
<1>5. s.offline = r.offline
  BY RunIs
<1>6. s.index = r.index
  BY RunIs
<1>7. s.todo = r.todo
  BY RunIs
<1>8. s.data = r.data
  BY RunIs
<1>9. s.file = r.file
  BY RunIs
<1>10. s.owed = owed
  BY RunIs
<1> HIDE DEF s
<1>20. Is(s, pc, white, r.refresh, r.offline, r.index, r.todo, r.data, r.file, owed)
  BY <1>1, <1>2, <1>3, <1>4, <1>5, <1>6, <1>7, <1>8, <1>9, <1>10, Zenon DEF Is
<1> QED BY <1>20, Zenon DEF s

LEMMA StartedIs ==
    ASSUME NEW r \in Run, NEW pc \in Pc, NEW white \in BOOLEAN,
           NEW refresh \in BOOLEAN, NEW offline \in BOOLEAN, NEW owed \in Due
    PROVE  Is([r EXCEPT !.pc = pc, !.white = white, !.refresh = refresh,
                          !.offline = offline, !.owed = owed],
              pc, white, refresh, offline, r.index, r.todo, r.data, r.file, owed)
<1> DEFINE s == [r EXCEPT !.pc = pc, !.white = white, !.refresh = refresh,
                          !.offline = offline, !.owed = owed]
<1>1. s \in Run
  BY RunIs, Zenon
<1>2. s.pc = pc
  BY RunIs
<1>3. s.white = white
  BY RunIs
<1>4. s.refresh = refresh
  BY RunIs
<1>5. s.offline = offline
  BY RunIs
<1>6. s.index = r.index
  BY RunIs
<1>7. s.todo = r.todo
  BY RunIs
<1>8. s.data = r.data
  BY RunIs
<1>9. s.file = r.file
  BY RunIs
<1>10. s.owed = owed
  BY RunIs
<1> HIDE DEF s
<1>20. Is(s, pc, white, refresh, offline, r.index, r.todo, r.data, r.file, owed)
  BY <1>1, <1>2, <1>3, <1>4, <1>5, <1>6, <1>7, <1>8, <1>9, <1>10, Zenon DEF Is
<1> QED BY <1>20, Zenon DEF s


(* The words of those records. *)
LEMMA Words ==
    /\ "idle" \in Pc /\ "index" \in Pc /\ "check" \in Pc /\ "fetch" \in Pc /\ "create" \in Pc
    /\ "write" \in Pc /\ "rename" \in Pc /\ "metadata" \in Pc /\ "done" \in Pc /\ "failed" \in Pc
    /\ "closed" \in Where /\ "tmp" \in Where /\ "path" \in Where /\ "gone" \in Where
    /\ "nothing" \in Due /\ "whole" \in Due /\ "cached" \in Due /\ "download" \in Due
    /\ TRUE \in BOOLEAN /\ FALSE \in BOOLEAN
    /\ <<>> \in Seq(File) /\ <<Metadata>> \in Seq(File) /\ <<Metadata>> # <<>>
    /\ None \in Revision \cup {None} /\ None \in Marks
<1>1. /\ <<>> \in Seq(File) /\ <<Metadata>> \in Seq(File) /\ <<Metadata>> # <<>>
      /\ None \in Revision \cup {None} /\ None \in Marks
  BY FileNames, MarksAre DEF Marks
<1> QED BY <1>1 DEF Pc, Where, Due

LEMMA IdleIs == Is(Idle, "idle", FALSE, FALSE, FALSE, None, <<>>, None, "closed", "nothing")
<1>1. Idle \in Run
  BY RunIs, Words DEF Idle
<1> QED BY <1>1 DEF Is, Idle

(* A run that goes on shows nothing new in the overlay.                    *)
LEMMA ColorKept ==
    ASSUME PicInv, NEW p \in Caller, NEW r \in Run, r.pc # "idle",
           run' = [run EXCEPT ![p] = r], UNCHANGED <<mouseColor, picture>>
    PROVE  ColorShown'
<1>1. run \in [Caller -> Run]
  BY PicTyped DEF PicInv
<1>2. CASE p = "overlay"
  BY <1>1, <1>2 DEF ColorShown, Running
<1>3. CASE p # "overlay"
  <2>1. run'["overlay"] = run["overlay"]
    BY <1>1, <1>3, PicTyped DEF PicInv
  <2> QED BY <2>1 DEF ColorShown, Running, PicInv
<1> QED BY <1>2, <1>3

LEMMA GoesOnKeeps ==
    ASSUME PicInv, NEW p \in Caller, NEW r \in Run,
           RunFits(r), PlacedFor(r), CachedFor(r), HostedFor(r),
           r.pc \notin {"write", "rename", "idle"}, Go(p, r),
           UNCHANGED <<host, cache, others>>, faults' \in 0..MaxFaults
    PROVE  PicInv'
<1>1. /\ run' = [run EXCEPT ![p] = r] /\ UNCHANGED <<host, path, tmp, clashed>>
      /\ UNCHANGED <<mouseColor, picture, commands>>
  BY DEF Go, cache, others
<1>2. ColorShown'
  BY <1>1, ColorKept
<1>3. /\ mouseColor' \in Colour /\ picture' \in [index : Revision \cup {None}, white : BOOLEAN]
      /\ commands' \in 0..MaxCommands
  BY <1>1 DEF PicInv, PicturesTypeOK
<1> QED BY <1>1, <1>2, <1>3, RunStepKeeps

(* What a run that gave up leaves.                                         *)
LEMMA GoneFits ==
    ASSUME NEW r \in Run, r.owed \notin {"cached", "download"}, NEW s,
           \/ s = [Idle EXCEPT !.pc = "failed", !.white = r.white, !.owed = r.owed]
           \/ s = [Idle EXCEPT !.pc = "failed", !.white = r.white]
    PROVE  /\ s \in Run /\ RunFits(s) /\ s.pc = "failed"
           /\ PlacedFor(s) /\ CachedFor(s) /\ HostedFor(s)
<1>1. /\ Idle \in Run /\ Idle.index = None /\ Idle.todo = <<>> /\ Idle.file = "closed"
      /\ Idle.owed = "nothing"
  BY IdleIs DEF Is
<1>2. r.white \in BOOLEAN /\ r.owed \in Due
  BY RunFields DEF Due
<1>3. /\ s \in Run /\ s.pc = "failed" /\ s.index = None /\ s.todo = <<>> /\ s.file = "closed"
      /\ s.owed \in {r.owed, "nothing"}
  <2>1. CASE s = [Idle EXCEPT !.pc = "failed", !.white = r.white, !.owed = r.owed]
    <3>1. Is(s, "failed", r.white, Idle.refresh, Idle.offline, Idle.index, Idle.todo, Idle.data,
             Idle.file, r.owed)
      BY <2>1, <1>1, <1>2, Words, GoneIs, Zenon
    <3> QED BY <3>1, <1>1 DEF Is
  <2>2. CASE s = [Idle EXCEPT !.pc = "failed", !.white = r.white]
    <3>1. Is(s, "failed", r.white, Idle.refresh, Idle.offline, Idle.index, Idle.todo, Idle.data,
             Idle.file, Idle.owed)
      BY <2>2, <1>1, <1>2, Words, KilledIs, Zenon
    <3> QED BY <3>1, <1>1 DEF Is
  <2> QED BY <2>1, <2>2
<1>4. RunFits(s)
  BY <1>3 DEF RunFits
<1> QED BY <1>3, <1>4 DEF PlacedFor, PlacedIn, CachedFor, HostedFor

LEMMA FailKeeps ==
    ASSUME PicInv, NEW p \in Caller, Fail(p), run[p].owed \notin {"cached", "download"},
           UNCHANGED <<host, cache, others>>, NoFault
    PROVE  PicInv'
<1> DEFINE s == [Idle EXCEPT !.pc = "failed", !.white = run[p].white, !.owed = run[p].owed]
<1>1. run[p] \in Run
  BY PicTyped DEF PicInv
<1>2. Go(p, s)
  BY DEF Fail
<1>3. faults' \in 0..MaxFaults
  BY DEF NoFault, PicInv, PicturesTypeOK
<1> HIDE DEF s
<1>4. /\ s \in Run /\ RunFits(s) /\ s.pc = "failed"
      /\ PlacedFor(s) /\ CachedFor(s) /\ HostedFor(s)
  BY <1>1, GoneFits, Zenon DEF s
<1> QED BY <1>2, <1>3, <1>4, GoesOnKeeps

(* What a complete cache holds.                                            *)
LEMMA AvailableIs ==
    ASSUME NEW white \in BOOLEAN, Available(white)
    PROVE  /\ path[Index] \in Revision
           /\ path[Metadata] = Listed[path[Index]][Metadata]
           /\ \A i \in DOMAIN Views :
                 path[Renders(path[Index], white)[i]]
                    = Listed[path[Index]][Renders(path[Index], white)[i]]
  BY DEF Available

(* A kill or a failed access.                                              *)
LEMMA DieKeeps == ASSUME PicInv, NEW p \in Caller, Die(p) PROVE PicInv'
<1> DEFINE s == [Idle EXCEPT !.pc = "failed", !.white = run[p].white]
<1>1. run[p] \in Run
  BY PicTyped DEF PicInv
<1>2. Go(p, s) /\ UNCHANGED <<host, cache, others>>
  BY DEF Die
<1>3. faults' \in 0..MaxFaults
  BY LimitsAssumption DEF Die, Fault, PicInv, PicturesTypeOK
<1> HIDE DEF s
<1>4. PICK r \in Run : r.white = run[p].white /\ r.owed = "nothing"
  <2>1. Is([run[p] EXCEPT !.owed = "nothing"], run[p].pc, run[p].white, run[p].refresh,
           run[p].offline, run[p].index, run[p].todo, run[p].data, run[p].file, "nothing")
    BY <1>1, Words, OwedIs, Zenon
  <2> QED BY <2>1 DEF Is
<1>5. /\ s \in Run /\ RunFits(s) /\ s.pc = "failed"
      /\ PlacedFor(s) /\ CachedFor(s) /\ HostedFor(s)
  <2>1. s = [Idle EXCEPT !.pc = "failed", !.white = r.white]
    BY <1>4 DEF s
  <2>2. r.owed \notin {"cached", "download"}
    BY <1>4
  <2> QED BY <2>1, <2>2, GoneFits, Zenon
<1> QED BY <1>2, <1>3, <1>5, GoesOnKeeps

LEMMA ReadIndexKeeps == ASSUME PicInv, NEW p \in Caller, ReadIndex(p) PROVE PicInv'
<1> DEFINE r == run[p]
           found == path[Index]
           download == found = None \/ r.refresh
<1>1. /\ r \in Run /\ RunFits(r) /\ PlacedFor(r) /\ CachedFor(r) /\ HostedFor(r)
      /\ r.pc = "index" /\ r.index = None /\ r.todo = <<>> /\ r.file = "closed"
  BY PicTyped DEF PicInv, ReadIndex, RunFits
<1>2. UNCHANGED <<host, cache, others>> /\ NoFault /\ faults' \in 0..MaxFaults
  BY DEF ReadIndex, NoFault, PicInv, PicturesTypeOK
<1>3. r.owed = "cached" => found \in Revision /\ ~r.refresh /\ Available(r.white)
  BY <1>1, RunFields, AvailableIs DEF CachedFor
<1>4. r.owed = "download" =>
         ~r.offline /\ Settled /\ (r.refresh \/ found \in {None, host.index})
         /\ host.index \in Revision
  BY <1>1, PicTyped DEF HostedFor, PicInv
<1>5. CASE download /\ ~r.offline
  <2> DEFINE s == [r EXCEPT !.pc = "fetch", !.refresh = FALSE]
  <2>1. Go(p, s)
    BY <1>5 DEF ReadIndex
  <2>2. Is(s, "fetch", r.white, FALSE, r.offline, r.index, r.todo, r.data, r.file, r.owed)
    BY <1>1, Words, PcRefreshIs, Zenon
  <2> HIDE DEF s, r
  <2>3. /\ s \in Run /\ s.pc = "fetch" /\ s.index = None /\ s.todo = <<>> /\ s.file = "closed"
        /\ s.owed = r.owed /\ s.offline = r.offline /\ s.white = r.white
    BY <2>2, <1>1 DEF Is
  <2>4. RunFits(s)
    BY <2>3 DEF RunFits
  <2>5. r.owed # "cached"
    BY <1>3, <1>5, MarksAre
  <2>6. PlacedFor(s) /\ CachedFor(s) /\ HostedFor(s)
    BY <2>3, <2>5, <1>4 DEF PlacedFor, PlacedIn, CachedFor, HostedFor
  <2> QED BY <2>1, <2>3, <2>4, <2>6, <1>2, GoesOnKeeps
<1>6. CASE ~(download /\ ~r.offline) /\ found \in {None, Broken}
  <2>1. Fail(p)
    BY <1>6 DEF ReadIndex
  <2>2. r.owed # "cached"
    BY <1>3, <1>6, MarksAre DEF Marks
  <2>3. r.owed # "download"
    BY <1>4, <1>6, MarksAre DEF Marks
  <2> QED BY <2>1, <2>2, <2>3, <1>2, FailKeeps
<1>7. CASE ~(download /\ ~r.offline) /\ found \notin {None, Broken}
  <2> DEFINE s == [r EXCEPT !.pc = "check", !.index = found, !.todo = <<Metadata>>,
                            !.refresh = FALSE]
  <2>1. Go(p, s)
    BY <1>7 DEF ReadIndex
  <2>2. found \in Revision
    BY <1>7 DEF PicInv, IndexFits
  <2>3. Is(s, "check", r.white, FALSE, r.offline, found, <<Metadata>>, r.data, r.file, r.owed)
    <3>1. found \in Revision \cup {None}
      BY <2>2
    <3> QED BY <3>1, <1>1, Words, FoundIs, Zenon
  <2> HIDE DEF s, r
  <2>4. /\ s \in Run /\ s.pc = "check" /\ s.index = found /\ s.todo = <<Metadata>>
        /\ s.file = "closed" /\ s.todo # <<>>
        /\ s.owed = r.owed /\ s.offline = r.offline /\ s.white = r.white
    BY <2>3, <1>1, Words DEF Is
  <2>5. RunFits(s)
    BY <2>2, <2>4, MarksAre DEF RunFits
  <2>6. CachedFor(s)
    BY <1>3, <2>4 DEF CachedFor
  <2>7. HostedFor(s)
    BY <1>4, <1>7, <2>4, MarksAre DEF HostedFor
  <2>8. PlacedFor(s)
    BY <2>4 DEF PlacedFor, PlacedIn
  <2> QED BY <2>1, <2>4, <2>5, <2>6, <2>7, <2>8, <1>2, GoesOnKeeps
<1> QED BY <1>5, <1>6, <1>7

(* The file a run is at is one that its index lists.                       *)
LEMMA HeadListed ==
    ASSUME NEW r \in Run, RunFits(r), r.index # None,
           r.pc \in {"check", "fetch", "create", "write", "rename"}
    PROVE  /\ r.index \in Revision /\ r.todo \in Seq(File) /\ r.todo # <<>>
           /\ Head(r.todo) \in File /\ Listed[r.index][Head(r.todo)] # None
           /\ \/ r.todo = <<Metadata>> /\ Head(r.todo) = Metadata
              \/ /\ r.todo # <<Metadata>> /\ Head(r.todo) # Metadata
                 /\ \E i \in DOMAIN Views : Head(r.todo) = Wanted(r)[i]
<1>1. r.index \in Revision /\ r.white \in BOOLEAN /\ r.todo \in Seq(File) /\ r.todo # <<>>
  BY RunFields DEF RunFits
<1>2. Head(r.todo) \in File /\ 1 \in DOMAIN r.todo /\ Head(r.todo) = r.todo[1]
  BY <1>1, TodoIs
<1>3. CASE r.todo = <<Metadata>>
  <2>1. Head(r.todo) = Metadata
    BY <1>3
  <2> QED BY <2>1, <1>1, <1>2, <1>3, MetadataListed
<1>4. CASE r.todo # <<Metadata>>
  <2>1. Head(r.todo) \in Left(r)
    BY <1>2 DEF Left
  <2>2. PICK i \in DOMAIN Views : Head(r.todo) = Wanted(r)[i]
    BY <2>1, <1>1, <1>4 DEF RunFits
  <2> QED BY <2>2, <1>1, <1>2, <1>4, RendersAre DEF Wanted
<1> QED BY <1>3, <1>4

(* The next file, once this one is in place.                               *)
LEMMA AdvanceFits ==
    ASSUME NEW r \in Run, RunFits(r), r.index # None,
           r.pc \in {"check", "fetch", "create", "write", "rename"},
           NEW files, PlacedIn(files, r),
           r.owed # "nothing" => files[Head(r.todo)] = Listed[r.index][Head(r.todo)]
    PROVE  /\ Advance(r) \in Run /\ RunFits(Advance(r))
           /\ Advance(r).pc \in {"metadata", "check", "done"}
           /\ PlacedIn(files, Advance(r))
           /\ Advance(r).owed = r.owed /\ Advance(r).index = r.index
           /\ Advance(r).white = r.white /\ Advance(r).offline = r.offline
<1> DEFINE pc == IF Head(r.todo) = Metadata THEN "metadata"
                 ELSE IF Tail(r.todo) = <<>> THEN "done" ELSE "check"
           s == Advance(r)
<1>1. /\ r.index \in Revision /\ r.todo \in Seq(File) /\ r.todo # <<>>
      /\ Head(r.todo) \in File
      /\ \/ r.todo = <<Metadata>> /\ Head(r.todo) = Metadata
         \/ r.todo # <<Metadata>> /\ Head(r.todo) # Metadata
  BY HeadListed
<1>2. /\ Tail(r.todo) \in Seq(File)
      /\ {r.todo[i] : i \in DOMAIN r.todo}
            = {Head(r.todo)} \cup {Tail(r.todo)[i] : i \in DOMAIN Tail(r.todo)}
  BY <1>1, TodoIs
<1>3. pc \in Pc
  BY Words
<1>4. s = [r EXCEPT !.todo = Tail(r.todo), !.data = None, !.file = "closed", !.pc = pc]
  BY DEF Advance
<1>5. Is(s, pc, r.white, r.refresh, r.offline, r.index, Tail(r.todo), None, "closed", r.owed)
  <2> HIDE DEF pc, s
  <2> QED BY <1>2, <1>3, <1>4, Words, AdvanceIs, Zenon
<1> HIDE DEF s
<1>6. /\ s \in Run /\ s.pc = pc /\ s.index = r.index /\ s.todo = Tail(r.todo)
      /\ s.file = "closed" /\ s.white = r.white /\ s.offline = r.offline /\ s.owed = r.owed
  BY <1>5 DEF Is
<1>7. Wanted(s) = Wanted(r) /\ Left(r) = {Head(r.todo)} \cup Left(s)
  BY <1>2, <1>6 DEF Wanted, Left
<1>8. CASE r.todo = <<Metadata>>
  <2>1. /\ Head(r.todo) = Metadata /\ s.pc = "metadata" /\ s.todo = <<>>
    BY <1>8, <1>6
  <2>2. RunFits(s)
    BY <2>1, <1>6, <1>1 DEF RunFits
  <2>3. PlacedIn(files, s)
    BY <2>1, <1>6 DEF PlacedIn
  <2> QED BY <2>1, <2>2, <2>3, <1>6 DEF s
<1>9. CASE r.todo # <<Metadata>>
  <2>1. s.pc = IF Tail(r.todo) = <<>> THEN "done" ELSE "check"
    BY <1>1, <1>6, <1>9
  <2>2. \A n \in Left(r) : \E i \in DOMAIN Views : n = Wanted(r)[i]
    BY <1>9 DEF RunFits
  <2>3. \A n \in Left(s) : \E i \in DOMAIN Views : n = Wanted(s)[i]
    BY <2>2, <1>7
  <2>4. RunFits(s)
    BY <2>1, <2>3, <1>6, <1>1 DEF RunFits
  <2>5. PlacedIn(files, s)
    <3>1. SUFFICES ASSUME r.owed # "nothing"
          PROVE  /\ files[Metadata] = Listed[r.index][Metadata]
                 /\ \A i \in DOMAIN Views :
                       Wanted(r)[i] \in Left(s)
                         \/ files[Wanted(r)[i]] = Listed[r.index][Wanted(r)[i]]
      BY <1>6, <1>7 DEF PlacedIn
    <3>2. /\ files[Metadata] = Listed[r.index][Metadata]
          /\ \A i \in DOMAIN Views :
                Wanted(r)[i] \in Left(r) \/ files[Wanted(r)[i]] = Listed[r.index][Wanted(r)[i]]
      BY <3>1, <1>9 DEF PlacedIn
    <3>3. files[Head(r.todo)] = Listed[r.index][Head(r.todo)]
      BY <3>1
    <3> QED BY <3>2, <3>3, <1>7
  <2> QED BY <2>1, <2>4, <2>5, <1>6 DEF s
<1> QED BY <1>8, <1>9

LEMMA CheckFileKeeps == ASSUME PicInv, NEW p \in Caller, CheckFile(p) PROVE PicInv'
<1> DEFINE r == run[p]
           n == Head(r.todo)
<1>1. /\ r \in Run /\ RunFits(r) /\ PlacedFor(r) /\ CachedFor(r) /\ HostedFor(r)
      /\ r.pc = "check" /\ r.index # None /\ r.file = "closed" /\ r.white \in BOOLEAN
  BY PicTyped, RunFields DEF PicInv, CheckFile, RunFits
<1>2. UNCHANGED <<host, cache, others>> /\ NoFault /\ faults' \in 0..MaxFaults
  BY DEF CheckFile, NoFault, PicInv, PicturesTypeOK
<1>3. /\ r.index \in Revision /\ r.todo # <<>> /\ n \in File /\ Listed[r.index][n] # None
      /\ n = Metadata \/ \E i \in DOMAIN Views : n = Wanted(r)[i]
  BY <1>1, HeadListed
<1>4. r.owed = "cached" => path[n] = Listed[r.index][n]
  <2>1. SUFFICES ASSUME r.owed = "cached" PROVE path[n] = Listed[r.index][n]
    OBVIOUS
  <2>2. Available(r.white) /\ r.index = path[Index]
    BY <2>1, <1>1 DEF CachedFor
  <2> HIDE DEF n, r
  <2> QED BY <2>2, <1>1, <1>3, AvailableIs DEF Wanted
<1>5. r.owed = "download" => ~r.offline /\ Settled /\ r.index = host.index
  BY <1>1 DEF HostedFor
<1>6. CASE path[n] # None /\ path[n] = Listed[r.index][n]
  <2>1. Go(p, Advance(r))
    BY <1>6 DEF CheckFile
  <2> HIDE DEF r
  <2>2. /\ Advance(r) \in Run /\ RunFits(Advance(r))
        /\ Advance(r).pc \in {"metadata", "check", "done"}
        /\ PlacedIn(path, Advance(r))
        /\ Advance(r).owed = r.owed /\ Advance(r).index = r.index
        /\ Advance(r).white = r.white /\ Advance(r).offline = r.offline
    BY <1>1, <1>6, AdvanceFits DEF PlacedFor
  <2>3. CachedFor(Advance(r)) /\ HostedFor(Advance(r))
    BY <2>2, <1>1 DEF CachedFor, HostedFor
  <2> QED BY <2>1, <2>2, <2>3, <1>2, GoesOnKeeps DEF PlacedFor
<1>7. CASE ~(path[n] # None /\ path[n] = Listed[r.index][n]) /\ r.offline
  <2>1. Fail(p)
    BY <1>7 DEF CheckFile
  <2>2. r.owed \notin {"cached", "download"}
    BY <1>3, <1>4, <1>5, <1>7
  <2> QED BY <2>1, <2>2, <1>2, FailKeeps
<1>8. CASE ~(path[n] # None /\ path[n] = Listed[r.index][n]) /\ ~r.offline
  <2> DEFINE s == [r EXCEPT !.pc = "fetch"]
  <2>1. Go(p, s)
    BY <1>3, <1>8 DEF CheckFile
  <2>2. Is(s, "fetch", r.white, r.refresh, r.offline, r.index, r.todo, r.data, r.file, r.owed)
    BY <1>1, Words, PcIs, Zenon
  <2>3. r.owed # "cached"
    BY <1>3, <1>4, <1>8
  <2> HIDE DEF s, r
  <2>4. /\ s \in Run /\ s.pc = "fetch" /\ s.index = r.index /\ s.todo = r.todo
        /\ s.file = "closed" /\ s.owed = r.owed /\ s.offline = r.offline /\ s.white = r.white
    BY <2>2, <1>1 DEF Is
  <2>5. RunFits(s)
    BY <2>4, <1>1, <1>3, MarksAre DEF RunFits, Left, Wanted
  <2>6. PlacedFor(s) /\ CachedFor(s) /\ HostedFor(s)
    BY <2>3, <2>4, <1>1 DEF PlacedFor, PlacedIn, CachedFor, HostedFor, Left, Wanted
  <2> QED BY <2>1, <2>4, <2>5, <2>6, <1>2, GoesOnKeeps
<1> QED BY <1>6, <1>7, <1>8

LEMMA FetchKeeps == ASSUME PicInv, NEW p \in Caller, Fetch(p) PROVE PicInv'
<1> DEFINE r == run[p]
           n == Name(p)
           got == IF n = Index THEN host.index ELSE Listed[host.files][n]
<1>1. /\ r \in Run /\ RunFits(r) /\ PlacedFor(r) /\ CachedFor(r) /\ HostedFor(r)
      /\ r.pc = "fetch" /\ r.file = "closed" /\ r.white \in BOOLEAN
      /\ r.owed # "cached"
  BY PicTyped, RunFields DEF PicInv, Fetch, RunFits, CachedFor
<1>2. UNCHANGED <<host, cache, others>> /\ NoFault /\ faults' \in 0..MaxFaults
  BY DEF Fetch, NoFault, PicInv, PicturesTypeOK
<1>3. /\ n \in Names /\ (n = Index <=> r.index = None)
      /\ r.index # None => r.index \in Revision /\ n \in File /\ n = Head(r.todo)
  BY <1>1, AtIs, NameIsAt
<1>4. host.index \in Revision /\ host.files \in Revision
  BY PicTyped DEF PicInv
<1>5. r.owed = "download" => host.files = host.index /\ (r.index # None => r.index = host.index)
  BY <1>1 DEF HostedFor, Settled
<1> HIDE DEF n
<1>6. CASE n = Index \/ got = Listed[r.index][n]
  <2> DEFINE s == [r EXCEPT !.pc = "create", !.data = got]
  <2>1. Go(p, s)
    BY <1>6 DEF Fetch, n
  <2>2. got \in Marks /\ (r.index = None => got = host.index)
        /\ (r.index # None => got = Listed[r.index][Head(r.todo)] /\ got # None)
    <3>1. CASE n = Index
      BY <3>1, <1>3, <1>4 DEF Marks
    <3>2. CASE n # Index
      <4>1. got = Listed[r.index][n] /\ got \in Version
        BY <3>2, <1>3, <1>4, <1>6, MarksAre
      <4>2. Listed[r.index][Head(r.todo)] # None
        BY <3>2, <1>1, <1>3 DEF RunFits
      <4> QED BY <4>1, <4>2, <3>2, <1>3 DEF Marks
    <3> QED BY <3>1, <3>2
  <2> HIDE DEF got
  <2>3. Is(s, "create", r.white, r.refresh, r.offline, r.index, r.todo, got, r.file, r.owed)
    BY <1>1, <2>2, Words, PcDataIs, Zenon
  <2> HIDE DEF s, r
  <2>4. /\ s \in Run /\ s.pc = "create" /\ s.index = r.index /\ s.todo = r.todo /\ s.data = got
        /\ s.file = "closed" /\ s.owed = r.owed /\ s.offline = r.offline /\ s.white = r.white
    BY <2>3, <1>1 DEF Is
  <2>5. RunFits(s)
    <3>1. Wanted(s) = Wanted(r) /\ Left(s) = Left(r)
      BY <2>4 DEF Wanted, Left
    <3>2. r.index = None => r.todo = <<>>
      BY <1>1 DEF RunFits
    <3>3. r.index # None =>
             /\ r.todo # <<>>
             /\ r.todo = <<Metadata>> \/ \A m \in Left(r) : \E i \in DOMAIN Views : m = Wanted(r)[i]
      BY <1>1 DEF RunFits
    <3> QED BY <3>1, <3>2, <3>3, <2>2, <2>4, <1>4 DEF RunFits
  <2>6. PlacedFor(s) /\ CachedFor(s)
    BY <2>4, <1>1 DEF PlacedFor, PlacedIn, CachedFor, Left, Wanted
  <2>7. HostedFor(s)
    BY <2>2, <2>4, <1>1 DEF HostedFor
  <2> QED BY <2>1, <2>4, <2>5, <2>6, <2>7, <1>2, GoesOnKeeps
<1>7. CASE ~(n = Index \/ got = Listed[r.index][n])
  <2>1. Fail(p)
    BY <1>7 DEF Fetch, n
  <2>2. r.owed # "download"
    BY <1>3, <1>5, <1>7
  <2> QED BY <2>1, <2>2, <1>1, <1>2, FailKeeps
<1> QED BY <1>6, <1>7

LEMMA ReadMetadataKeeps == ASSUME PicInv, NEW p \in Caller, ReadMetadata(p) PROVE PicInv'
<1> DEFINE r == run[p]
           todo == Renders(r.index, r.white)
<1>1. /\ r \in Run /\ RunFits(r) /\ PlacedFor(r) /\ CachedFor(r) /\ HostedFor(r)
      /\ r.pc = "metadata" /\ r.index \in Revision /\ r.index # None /\ r.todo = <<>>
      /\ r.file = "closed" /\ r.white \in BOOLEAN
  BY PicTyped, RunFields DEF PicInv, ReadMetadata, RunFits
<1>2. UNCHANGED <<host, cache, others>> /\ NoFault /\ faults' \in 0..MaxFaults
  BY DEF ReadMetadata, NoFault, PicInv, PicturesTypeOK
<1>3. r.owed # "nothing" => path[Metadata] = Listed[r.index][Metadata]
  BY <1>1, Words DEF PlacedFor, PlacedIn
<1>4. CASE path[Metadata] = Broken
  <2>1. Fail(p)
    BY <1>4 DEF ReadMetadata
  <2>2. r.owed = "nothing"
    BY <1>1, <1>3, <1>4, FileNames, MarksAre DEF Marks
  <2> QED BY <2>1, <2>2, <1>2, FailKeeps
<1>5. CASE path[Metadata] # Broken
  <2> DEFINE s == [r EXCEPT !.pc = "check", !.todo = todo]
  <2>1. Go(p, s)
    BY <1>5 DEF ReadMetadata
  <2>2. todo \in Seq(File) /\ todo # <<>> /\ DOMAIN todo = DOMAIN Views
    BY <1>1, RendersAre
  <2>3. Is(s, "check", r.white, r.refresh, r.offline, r.index, todo, r.data, r.file, r.owed)
    BY <1>1, <2>2, Words, PcTodoIs, Zenon
  <2> HIDE DEF s, r
  <2>4. /\ s \in Run /\ s.pc = "check" /\ s.index = r.index /\ s.todo = todo
        /\ s.file = "closed" /\ s.owed = r.owed /\ s.offline = r.offline /\ s.white = r.white
    BY <2>3, <1>1 DEF Is
  <2>5. Wanted(s) = todo /\ Left(s) = {todo[i] : i \in DOMAIN Views}
    BY <2>2, <2>4 DEF Wanted, Left
  <2> HIDE DEF todo
  <2>6. RunFits(s)
    BY <2>2, <2>4, <2>5, <1>1 DEF RunFits
  <2>7. PlacedFor(s)
    BY <2>4, <2>5, <1>3 DEF PlacedFor, PlacedIn
  <2>8. CachedFor(s) /\ HostedFor(s)
    BY <2>4, <1>1 DEF CachedFor, HostedFor
  <2> QED BY <2>1, <2>4, <2>6, <2>7, <2>8, <1>2, GoesOnKeeps
<1> QED BY <1>4, <1>5

-----------------------------------------------------------------------------
(* Steps that write.                                                       *)

(* A run that is where it was: only its place, file and debts differ.      *)
Kin(s, r) ==
    /\ s \in Run
    /\ s.white = r.white /\ s.refresh = r.refresh /\ s.offline = r.offline
    /\ s.index = r.index /\ s.todo = r.todo /\ s.data = r.data

KinAs(s, r, pc, file, owed) == Kin(s, r) /\ s.pc = pc /\ s.file = file /\ s.owed = owed

LEMMA KinAt ==
    ASSUME NEW r, NEW s, Kin(s, r)
    PROVE  At(s) = At(r) /\ Wanted(s) = Wanted(r) /\ Left(s) = Left(r)
  BY DEF Kin, At, Wanted, Left

LEMMA KinFits ==
    ASSUME NEW r \in Run, NEW s, Kin(s, r), RunFits(r), s.pc = "write" <=> s.file # "closed",
           \/ s.pc = r.pc
           \/ r.pc \in {"create", "write", "rename"} /\ s.pc \in {"create", "write", "rename"}
    PROVE  RunFits(s)
<1>1. s.index = r.index /\ s.todo = r.todo /\ s.data = r.data
  BY DEF Kin
<1>2. Wanted(s) = Wanted(r) /\ Left(s) = Left(r)
  BY KinAt
<1>3. CASE s.pc = r.pc
  BY <1>1, <1>2, <1>3 DEF RunFits
<1>4. CASE r.pc \in {"create", "write", "rename"} /\ s.pc \in {"create", "write", "rename"}
  <2>1. r.index = None => r.todo = <<>> /\ r.data \in Revision
    BY <1>4 DEF RunFits
  <2>2. r.index # None =>
           /\ r.todo # <<>>
           /\ r.todo = <<Metadata>> \/ \A n \in Left(r) : \E i \in DOMAIN Views : n = Wanted(r)[i]
           /\ r.data = Listed[r.index][Head(r.todo)] /\ r.data # None
    BY <1>4 DEF RunFits
  <2> QED BY <2>1, <2>2, <1>1, <1>2, <1>4 DEF RunFits
<1> QED BY <1>3, <1>4

LEMMA UnowedIs ==
    ASSUME NEW r \in Run
    PROVE  KinAs([r EXCEPT !.owed = "nothing"], r, r.pc, r.file, "nothing")
<1> DEFINE s == [r EXCEPT !.owed = "nothing"]
<1>1. Is(s, r.pc, r.white, r.refresh, r.offline, r.index, r.todo, r.data, r.file, "nothing")
  BY Words, OwedIs, Zenon
<1> HIDE DEF s
<1>2. KinAs(s, r, r.pc, r.file, "nothing")
  BY <1>1 DEF Is, KinAs, Kin
<1> QED BY <1>2, Zenon DEF s

LEMMA ShiftedIs ==
    ASSUME NEW r \in Run, NEW file \in Where
    PROVE  KinAs([r EXCEPT !.owed = "nothing", !.file = file], r, r.pc, file, "nothing")
<1> DEFINE s == [r EXCEPT !.owed = "nothing", !.file = file]
<1>1. Is(s, r.pc, r.white, r.refresh, r.offline, r.index, r.todo, r.data, file, "nothing")
  BY Words, OwedFileIs, Zenon
<1> HIDE DEF s
<1>2. KinAs(s, r, r.pc, file, "nothing")
  BY <1>1 DEF Is, KinAs, Kin
<1> QED BY <1>2, Zenon DEF s

LEMMA MovesOn ==
    ASSUME NEW r \in Run, NEW pc \in Pc, NEW file \in Where
    PROVE  KinAs([r EXCEPT !.pc = pc, !.file = file], r, pc, file, r.owed)
<1> DEFINE s == [r EXCEPT !.pc = pc, !.file = file]
<1>1. Is(s, pc, r.white, r.refresh, r.offline, r.index, r.todo, r.data, file, r.owed)
  BY PcFileIs, Zenon
<1> HIDE DEF s
<1>2. KinAs(s, r, pc, file, r.owed)
  BY <1>1 DEF Is, KinAs, Kin
<1> QED BY <1>2, Zenon DEF s

(* A run that is owed nothing has nothing to lose.                         *)
LEMMA NothingOwed ==
    ASSUME PicInv, NEW q \in Caller, run'[q].owed = "nothing"
    PROVE  PlacedFor(run[q])' /\ CachedFor(run[q])' /\ HostedFor(run[q])'
  BY DEF PlacedFor, PlacedIn, CachedFor, HostedFor

(* What is left to show of a step that writes.                             *)
LEMMA WriteStepKeeps ==
    ASSUME PicInv, NEW p \in Caller, run' \in [Caller -> Run],
           path' \in [Names -> Marks \cup {Broken}], tmp' \in [Names -> Marks \cup {Broken}],
           clashed' \in BOOLEAN, UNCHANGED <<host, others>>, NoFault,
           run[p].pc # "idle", run'[p].pc # "idle",
           \A q \in Caller \ {p} : run'[q].pc = run[q].pc,
           IndexFits', IndexReadable', Met',
           \A q \in Caller : RunFits(run'[q]),
           \A q \in Caller : OwnBytes(q)',
           \A q \in Caller : PlacedFor(run[q])' /\ CachedFor(run[q])' /\ HostedFor(run[q])'
    PROVE  PicInv'
<1>1. PicturesTypeOK'
  <2>1. /\ path' \in [File \cup {Index} -> Version \cup Revision \cup {Broken}]
        /\ tmp' \in [File \cup {Index} -> Version \cup Revision \cup {None, Broken}]
    <3>1. Names = File \cup {Index} /\ Marks = Version \cup Revision /\ None \in Version
      BY MarksAre DEF Names, Marks
    <3>2. Version \cup Revision \cup {None, Broken} = Marks \cup {Broken}
      BY <3>1
    <3> QED BY <3>1, <3>2
  <2> QED BY <2>1 DEF PicInv, PicturesTypeOK, others, NoFault
<1>2. ColorShown'
  <2>1. run'["overlay"].pc = "idle" => run["overlay"].pc = "idle"
    BY PicTyped DEF PicInv
  <2> QED BY <2>1 DEF PicInv, ColorShown, Running, others
<1> QED BY <1>1, <1>2 DEF PicInv

(* What a run writes: an index, or the file its index lists.               *)
LEMMA DataIs ==
    ASSUME PicInv, NEW p \in Caller, run[p].pc \in {"create", "write", "rename"}
    PROVE  /\ run[p] \in Run /\ RunFits(run[p]) /\ Name(p) \in Names
           /\ run[p].data \in Marks /\ run[p].data # Broken /\ run[p].data # None
           /\ Name(p) = Index <=> run[p].index = None
           /\ run[p].index = None => run[p].data \in Revision
           /\ run[p].index # None => /\ Name(p) = Head(run[p].todo) /\ Name(p) \in File
                                     /\ run[p].data = Listed[run[p].index][Name(p)]
           /\ run[p].owed # "cached"
<1>1. run[p] \in Run /\ RunFits(run[p]) /\ CachedFor(run[p])
  BY PicTyped DEF PicInv
<1>2. run[p].data \in Marks
  BY <1>1, RunFields
<1>3. /\ Name(p) \in Names /\ (Name(p) = Index <=> run[p].index = None)
      /\ run[p].index # None => Name(p) = Head(run[p].todo) /\ Name(p) \in File
  BY <1>1, AtIs, NameIsAt
<1>4. /\ run[p].index = None => run[p].data \in Revision
      /\ run[p].index # None => run[p].data = Listed[run[p].index][Name(p)] /\ run[p].data # None
  BY <1>1, <1>3 DEF RunFits
<1>5. run[p].owed # "cached"
  BY <1>1 DEF CachedFor
<1> QED BY <1>1, <1>2, <1>3, <1>4, <1>5, MarksAre

(* Nobody else has the temporary of a run that met no other.               *)
LEMMA Alone ==
    ASSUME PicInv, NEW p \in Caller, run[p].pc \in {"write", "rename"}, Undisturbed(p)
    PROVE  \A q \in Caller \ {p} : ~Writing(q, Name(p))
<1>1. Name(p) \in Names /\ Writing(p, Name(p))
  BY DataIs DEF Writing
<1>2. ASSUME NEW q \in Caller \ {p}, Writing(q, Name(p)) PROVE FALSE
  <2>1. clashed /\ run[p].owed = "nothing"
    BY <1>1, <1>2 DEF PicInv, Met
  <2> QED BY <2>1 DEF Undisturbed
<1> QED BY <1>2

LEMMA CreateTmpKeeps == ASSUME PicInv, NEW p \in Caller, CreateTmp(p) PROVE PicInv'
<1> DEFINE n == Name(p)
<1>1. /\ run[p].pc = "create" /\ tmp' = [tmp EXCEPT ![n] = Broken]
      /\ clashed' = (clashed \/ Shared(p)) /\ NoFault /\ UNCHANGED <<host, path, others>>
      /\ n \in Names /\ run[p].owed # "cached"
  BY DataIs DEF CreateTmp
<1>2. /\ run \in [Caller -> Run] /\ clashed \in BOOLEAN
      /\ path \in [Names -> Marks \cup {Broken}] /\ tmp \in [Names -> Marks \cup {Broken}]
  BY PicTyped DEF PicInv
<1>3. ASSUME NEW q \in Caller
      PROVE  /\ Kin(run'[q], run[q])
             /\ run'[q].owed = IF Shared(p) THEN "nothing" ELSE run[q].owed
             /\ q = p => run'[q].pc = "write" /\ run'[q].file = "tmp"
             /\ q # p => run'[q].pc = run[q].pc /\ run'[q].file = run[q].file
  <2> DEFINE u == [run[q] EXCEPT !.owed = "nothing"]
             r == IF Shared(p) THEN u ELSE run[q]
             s == [r EXCEPT !.pc = "write", !.file = "tmp"]
  <2>1. run'[q] = IF q = p THEN s ELSE r
    BY DEF CreateTmp
  <2>2. run[q] \in Run
    BY <1>2
  <2>3. KinAs(u, run[q], run[q].pc, run[q].file, "nothing")
    BY <2>2, UnowedIs, Zenon
  <2> HIDE DEF u
  <2>4. /\ Kin(r, run[q]) /\ r.pc = run[q].pc /\ r.file = run[q].file
        /\ r.owed = IF Shared(p) THEN "nothing" ELSE run[q].owed
    <3>1. CASE Shared(p)
      BY <3>1, <2>3 DEF KinAs
    <3>2. CASE ~Shared(p)
      BY <3>2, <2>2 DEF Kin
    <3> QED BY <3>1, <3>2
  <2> HIDE DEF r
  <2>5. KinAs(s, r, "write", "tmp", r.owed)
    <3>1. r \in Run
      BY <2>4 DEF Kin
    <3>2. "write" \in Pc /\ "tmp" \in Where
      BY Words
    <3> QED BY <3>1, <3>2, MovesOn, Zenon
  <2> HIDE DEF s
  <2>6. Kin(s, run[q])
    BY <2>4, <2>5 DEF KinAs, Kin
  <2> QED BY <2>1, <2>4, <2>5, <2>6 DEF KinAs
<1> HIDE DEF n
<1>4. run' \in [Caller -> Run]
  <2>1. run' = [q \in Caller |-> run'[q]]
    BY DEF CreateTmp
  <2> QED BY <2>1, <1>3 DEF Kin
<1>5. \A q \in Caller : RunFits(run'[q])
  <2>1. ASSUME NEW q \in Caller PROVE RunFits(run'[q])
    <3>1. /\ run[q] \in Run /\ RunFits(run[q]) /\ Kin(run'[q], run[q])
      BY <1>2, <1>3 DEF PicInv
    <3>2. run'[q].pc = "write" <=> run'[q].file # "closed"
      BY <1>3, <3>1 DEF RunFits
    <3>3. \/ run'[q].pc = run[q].pc
          \/ run[q].pc \in {"create", "write", "rename"}
             /\ run'[q].pc \in {"create", "write", "rename"}
      BY <1>1, <1>3
    <3> QED BY <3>1, <3>2, <3>3, KinFits
  <2> QED BY <2>1
<1>6. \A q \in Caller : Name(q)' = Name(q)
  <2>1. \A q \in Caller : At(run'[q]) = At(run[q])
    BY <1>3, KinAt
  <2> QED BY <2>1 DEF Name, At
<1>7. \A q \in Caller \ {p}, m \in Names : Writing(q, m)' <=> Writing(q, m)
  BY <1>3, <1>6 DEF Writing
<1>8. Met'
  <2>1. ASSUME NEW q \in Caller, NEW t \in Caller, NEW m \in Names, q # t,
               Writing(q, m)', Writing(t, m)'
        PROVE  clashed' /\ run'[q].owed = "nothing"
    <3>1. CASE q # p /\ t # p
      <4>1. clashed /\ run[q].owed = "nothing"
        BY <2>1, <3>1, <1>7 DEF PicInv, Met
      <4> QED BY <4>1, <1>1, <1>3
    <3>2. CASE q = p \/ t = p
      <4>1. Shared(p)
        <5>1. m = n
          BY <2>1, <3>2, <1>6 DEF Writing, n
        <5> QED BY <2>1, <3>2, <5>1, <1>7 DEF Shared, n
      <4> QED BY <4>1, <1>1, <1>3
    <3> QED BY <3>1, <3>2
  <2> QED BY <2>1 DEF Met
<1>9. ASSUME NEW q \in Caller PROVE OwnBytes(q)'
  <2>1. SUFFICES ASSUME run'[q].owed # "nothing" \/ ~clashed'
                 PROVE  /\ run'[q].pc = "write" => run'[q].file = "tmp"
                        /\ run'[q].pc = "rename" => tmp'[Name(q)'] = run'[q].data
    BY DEF OwnBytes, Undisturbed
  <2>2. ~Shared(p)
    BY <2>1, <1>1, <1>3
  <2>3. CASE q = p
    BY <2>3, <1>3
  <2>4. CASE q # p
    <3>1. OwnBytes(q) /\ Undisturbed(q)
      BY <2>1, <2>2, <1>1, <1>3 DEF PicInv, Undisturbed
    <3>2. run'[q].pc = run[q].pc /\ run'[q].file = run[q].file /\ run'[q].data = run[q].data
      BY <2>4, <1>3 DEF Kin
    <3>3. run[q].pc = "rename" => Name(q) # n /\ Name(q) \in Names
      BY <2>2, <2>4, DataIs DEF Shared, Writing, n
    <3> QED BY <3>1, <3>2, <3>3, <1>1, <1>2, <1>6 DEF OwnBytes
  <2> QED BY <2>3, <2>4
<1>10. ASSUME NEW q \in Caller PROVE PlacedFor(run[q])' /\ CachedFor(run[q])' /\ HostedFor(run[q])'
  <2>1. CASE Shared(p)
    BY <2>1, <1>3, NothingOwed
  <2>2. CASE ~Shared(p)
    <3>1. /\ run'[q].owed = run[q].owed /\ Kin(run'[q], run[q])
          /\ q # p => run'[q].pc = run[q].pc
          /\ q = p => run[q].pc = "create" /\ run'[q].pc = "write" /\ run[q].owed # "cached"
      BY <2>2, <1>1, <1>3
    <3>2. Wanted(run'[q]) = Wanted(run[q]) /\ Left(run'[q]) = Left(run[q])
      BY <3>1, KinAt
    <3>3. PlacedFor(run[q]) /\ CachedFor(run[q]) /\ HostedFor(run[q])
      BY DEF PicInv
    <3>4. PlacedFor(run[q])'
      <4>1. PlacedIn(path, run'[q])
        BY <3>1, <3>2, <3>3, <1>1 DEF PlacedFor, PlacedIn, Kin
      <4> QED BY <4>1, <1>1 DEF PlacedFor, PlacedIn, Wanted, Left
    <3>5. CachedFor(run[q])'
      BY <3>1, <3>3, <1>1 DEF CachedFor, Kin, Available
    <3>6. HostedFor(run[q])'
      BY <3>1, <3>3, <1>1 DEF HostedFor, Kin, Settled
    <3> QED BY <3>4, <3>5, <3>6
  <2> QED BY <2>1, <2>2
<1>11. IndexFits'
  BY <1>1, <1>2 DEF PicInv, IndexFits, Names
<1>12. IndexReadable'
  BY <1>1 DEF PicInv, IndexReadable
<1>13. tmp' \in [Names -> Marks \cup {Broken}] /\ clashed' \in BOOLEAN
  BY <1>1, <1>2 DEF Shared
<1>14. /\ run[p].pc # "idle" /\ run'[p].pc # "idle"
       /\ \A q \in Caller \ {p} : run'[q].pc = run[q].pc
  BY <1>1, <1>3
<1> QED BY <1>1, <1>2, <1>4, <1>5, <1>8, <1>9, <1>10, <1>11, <1>12, <1>13, <1>14, WriteStepKeeps

LEMMA WriteKeeps == ASSUME PicInv, NEW p \in Caller, Write(p) PROVE PicInv'
<1> DEFINE n == Name(p)
           data == run[p].data
<1>1. /\ run[p].pc = "write" /\ NoFault /\ UNCHANGED <<host, clashed, others>>
      /\ n \in Names /\ data \in Marks /\ data # Broken /\ (n = Index => data \in Revision)
      /\ run[p].owed # "cached" /\ run[p].file \in {"tmp", "path", "gone"}
  <2>1. run[p].pc = "write" /\ NoFault /\ UNCHANGED <<host, clashed, others>>
    BY DEF Write
  <2>2. run[p] \in Run /\ RunFits(run[p])
    BY <2>1, DataIs
  <2>3. run[p].file # "closed"
    BY <2>1, <2>2 DEF RunFits
  <2>4. run[p].file \in {"tmp", "path", "gone"}
    BY <2>2, <2>3, RunFields
  <2> QED BY <2>1, <2>4, DataIs
<1>2. /\ run \in [Caller -> Run] /\ clashed \in BOOLEAN
      /\ path \in [Names -> Marks \cup {Broken}] /\ tmp \in [Names -> Marks \cup {Broken}]
  BY PicTyped DEF PicInv
<1>3. ASSUME NEW q \in Caller
      PROVE  /\ Kin(run'[q], run[q])
             /\ q = p => /\ run'[q].pc = "rename" /\ run'[q].file = "closed"
                         /\ run'[q].owed = run[q].owed
             /\ q # p => /\ run'[q].pc = run[q].pc /\ run'[q].file = run[q].file
                         /\ run'[q].owed = IF run[p].file = "path" THEN "nothing"
                                                                   ELSE run[q].owed
  <2> DEFINE u == [run[q] EXCEPT !.owed = "nothing"]
             s == [run[p] EXCEPT !.pc = "rename", !.file = "closed"]
  <2>1. run'[q] = IF q = p THEN s ELSE IF run[p].file = "path" THEN u ELSE run[q]
    BY DEF Write
  <2>2. run[q] \in Run /\ run[p] \in Run
    BY <1>2
  <2>3. KinAs(u, run[q], run[q].pc, run[q].file, "nothing")
    BY <2>2, UnowedIs, Zenon
  <2>4. KinAs(s, run[p], "rename", "closed", run[p].owed)
    <3>1. "rename" \in Pc /\ "closed" \in Where
      BY Words
    <3> QED BY <2>2, <3>1, MovesOn, Zenon
  <2> HIDE DEF u, s
  <2>5. KinAs(run[q], run[q], run[q].pc, run[q].file, run[q].owed)
    BY <2>2 DEF KinAs, Kin
  <2> QED BY <2>1, <2>3, <2>4, <2>5 DEF KinAs
<1>4. run' \in [Caller -> Run]
  <2>1. run' = [q \in Caller |-> run'[q]]
    BY DEF Write
  <2> QED BY <2>1, <1>3 DEF Kin
<1>5. \/ /\ run[p].file = "tmp" /\ UNCHANGED path
         /\ \E c \in Written(p, tmp[n]) : tmp' = [tmp EXCEPT ![n] = c]
      \/ /\ run[p].file = "path" /\ UNCHANGED tmp
         /\ \E c \in {data, Broken} : path' = [path EXCEPT ![n] = c]
      \/ run[p].file = "gone" /\ UNCHANGED <<path, tmp>>
  BY <1>1 DEF Write
<1>6. Written(p, tmp[n]) \subseteq {data, Broken} /\ (~Shared(p) => Written(p, tmp[n]) = {data})
  BY DEF Written
<1>7. (\A q \in Caller \ {p} : ~Writing(q, n)) => ~Shared(p)
  BY DEF Shared
<1>8. Undisturbed(p) => run[p].file = "tmp"
  BY <1>1 DEF PicInv, OwnBytes
<1> HIDE DEF n, data
<1>9. ASSUME NEW m \in Names
      PROVE  /\ m # n => path'[m] = path[m] /\ tmp'[m] = tmp[m]
             /\ path'[m] \in {path[m], data, Broken} /\ tmp'[m] \in {tmp[m], data, Broken}
             /\ run[p].file # "path" => path'[m] = path[m]
  <2>1. CASE run[p].file = "tmp"
    <3>1. PICK c \in Written(p, tmp[n]) : tmp' = [tmp EXCEPT ![n] = c] /\ UNCHANGED path
      BY <1>5, <2>1
    <3> QED BY <3>1, <1>2, <1>6
  <2>2. CASE run[p].file = "path"
    <3>1. PICK c \in {data, Broken} : path' = [path EXCEPT ![n] = c] /\ UNCHANGED tmp
      BY <1>5, <2>2
    <3> QED BY <2>2, <3>1, <1>2
  <2>3. CASE run[p].file = "gone"
    BY <1>5, <2>3
  <2> QED BY <2>1, <2>2, <2>3, <1>1
<1>10. path' \in [Names -> Marks \cup {Broken}] /\ tmp' \in [Names -> Marks \cup {Broken}]
  <2>1. CASE run[p].file = "tmp"
    BY <2>1, <1>1, <1>2, <1>5, <1>6
  <2>2. CASE run[p].file = "path"
    BY <2>2, <1>1, <1>2, <1>5
  <2>3. CASE run[p].file = "gone"
    BY <1>2, <1>5, <2>3
  <2> QED BY <2>1, <2>2, <2>3, <1>1
<1>11. \A q \in Caller : RunFits(run'[q])
  <2>1. ASSUME NEW q \in Caller PROVE RunFits(run'[q])
    <3>1. /\ run[q] \in Run /\ RunFits(run[q]) /\ Kin(run'[q], run[q])
      BY <1>2, <1>3 DEF PicInv
    <3>2. run'[q].pc = "write" <=> run'[q].file # "closed"
      BY <1>3, <3>1 DEF RunFits
    <3>3. \/ run'[q].pc = run[q].pc
          \/ run[q].pc \in {"create", "write", "rename"}
             /\ run'[q].pc \in {"create", "write", "rename"}
      BY <1>1, <1>3
    <3> QED BY <3>1, <3>2, <3>3, KinFits
  <2> QED BY <2>1
<1>12. \A q \in Caller : Name(q)' = Name(q)
  <2>1. \A q \in Caller : At(run'[q]) = At(run[q])
    BY <1>3, KinAt
  <2> QED BY <2>1 DEF Name, At
<1>13. \A q \in Caller, m \in Names : Writing(q, m)' => Writing(q, m)
  BY <1>1, <1>3, <1>12 DEF Writing
<1>14. ASSUME NEW q \in Caller, run[q].owed = "nothing" PROVE run'[q].owed = "nothing"
  BY <1>3, <1>14
<1>15. Met'
  <2>1. ASSUME NEW q \in Caller, NEW t \in Caller, NEW m \in Names, q # t,
               Writing(q, m)', Writing(t, m)'
        PROVE  clashed' /\ run'[q].owed = "nothing"
    <3>1. clashed /\ run[q].owed = "nothing"
      BY <2>1, <1>13 DEF PicInv, Met
    <3> QED BY <3>1, <1>1, <1>14
  <2> QED BY <2>1 DEF Met
<1>16. ASSUME run[p].file = "path"
       PROVE  clashed /\ \A q \in Caller : run'[q].owed = "nothing"
  <2>1. ~Undisturbed(p)
    BY <1>8, <1>16
  <2> QED BY <2>1, <1>2, <1>3, <1>14, <1>16 DEF Undisturbed
<1>17. ASSUME NEW q \in Caller PROVE OwnBytes(q)'
  <2>1. SUFFICES ASSUME run'[q].owed # "nothing" \/ ~clashed'
                 PROVE  /\ run'[q].pc = "write" => run'[q].file = "tmp"
                        /\ run'[q].pc = "rename" => tmp'[Name(q)'] = run'[q].data
    BY DEF OwnBytes, Undisturbed
  <2>2. Undisturbed(q)
    BY <2>1, <1>1, <1>14 DEF Undisturbed
  <2>3. CASE q = p
    <3>1. run[p].file = "tmp" /\ ~Shared(p)
      BY <2>2, <2>3, <1>1, <1>7, <1>8, Alone DEF n
    <3>2. PICK c \in Written(p, tmp[n]) : tmp' = [tmp EXCEPT ![n] = c]
      BY <3>1, <1>5
    <3>3. tmp'[n] = data
      BY <3>1, <3>2, <1>1, <1>2, <1>6
    <3>4. run'[q].data = data /\ Name(q)' = n
      BY <2>3, <1>3, <1>12 DEF Kin, data, n
    <3> QED BY <2>3, <3>3, <3>4, <1>3
  <2>4. CASE q # p
    <3>1. OwnBytes(q)
      BY DEF PicInv
    <3>2. run'[q].pc = run[q].pc /\ run'[q].file = run[q].file /\ run'[q].data = run[q].data
      BY <2>4, <1>3 DEF Kin
    <3>3. run[q].pc = "rename" => Name(q) # n /\ Name(q) \in Names
      <4>1. SUFFICES ASSUME run[q].pc = "rename" PROVE Name(q) # n /\ Name(q) \in Names
        OBVIOUS
      <4>2. ~Writing(p, Name(q)) /\ Name(q) \in Names
        BY <4>1, <2>2, <2>4, Alone, DataIs
      <4> QED BY <4>2, <1>1 DEF Writing, n
    <3> QED BY <3>1, <3>2, <3>3, <2>2, <1>9, <1>12 DEF OwnBytes
  <2> QED BY <2>3, <2>4
<1>18. ASSUME NEW q \in Caller
       PROVE  PlacedFor(run[q])' /\ CachedFor(run[q])' /\ HostedFor(run[q])'
  <2>1. CASE run[p].file = "path"
    BY <2>1, <1>16, NothingOwed
  <2>2. CASE run[p].file # "path"
    <3>1. UNCHANGED path
      BY <2>2, <1>1, <1>5
    <3>2. /\ run'[q].owed = run[q].owed /\ Kin(run'[q], run[q])
          /\ q # p => run'[q].pc = run[q].pc
          /\ q = p => run[q].pc = "write" /\ run'[q].pc = "rename" /\ run[q].owed # "cached"
      BY <2>2, <1>1, <1>3
    <3>3. Wanted(run'[q]) = Wanted(run[q]) /\ Left(run'[q]) = Left(run[q])
      BY <3>2, KinAt
    <3>4. PlacedFor(run[q]) /\ CachedFor(run[q]) /\ HostedFor(run[q])
      BY DEF PicInv
    <3>5. PlacedFor(run[q])'
      <4>1. PlacedIn(path, run'[q])
        BY <3>2, <3>3, <3>4 DEF PlacedFor, PlacedIn, Kin
      <4> QED BY <4>1, <3>1 DEF PlacedFor, PlacedIn, Wanted, Left
    <3>6. CachedFor(run[q])'
      BY <3>1, <3>2, <3>4 DEF CachedFor, Kin, Available
    <3>7. HostedFor(run[q])'
      BY <3>1, <3>2, <3>4, <1>1 DEF HostedFor, Kin, Settled
    <3> QED BY <3>5, <3>6, <3>7
  <2> QED BY <2>1, <2>2
<1>19. IndexFits'
  <2>1. Index \in Names
    BY DEF Names
  <2>2. CASE n = Index
    BY <2>1, <2>2, <1>1, <1>9 DEF PicInv, IndexFits
  <2>3. CASE n # Index
    BY <2>1, <2>3, <1>9 DEF PicInv, IndexFits
  <2> QED BY <2>2, <2>3
<1>20. IndexReadable'
  <2>1. CASE run[p].file = "path"
    BY <2>1, <1>1, <1>16 DEF IndexReadable
  <2>2. CASE run[p].file # "path"
    <3>1. Index \in Names
      BY DEF Names
    <3> QED BY <2>2, <3>1, <1>1, <1>9 DEF PicInv, IndexReadable
  <2> QED BY <2>1, <2>2
<1>21. /\ run[p].pc # "idle" /\ run'[p].pc # "idle" /\ clashed' \in BOOLEAN
       /\ \A q \in Caller \ {p} : run'[q].pc = run[q].pc
  BY <1>1, <1>2, <1>3
<1>22. UNCHANGED <<host, others>> /\ NoFault
  BY <1>1
<1> QED BY <1>4, <1>10, <1>11, <1>15, <1>17, <1>18, <1>19, <1>20, <1>21, <1>22, WriteStepKeeps

LEMMA RenameKeeps == ASSUME PicInv, NEW p \in Caller, Rename(p) PROVE PicInv'
<1> DEFINE r == run[p]
           n == Name(p)
           s == run'[p]
<1>1. /\ r.pc = "rename" /\ NoFault /\ UNCHANGED <<host, clashed, others>>
      /\ r \in Run /\ RunFits(r) /\ PlacedFor(r) /\ HostedFor(r)
      /\ n \in Names /\ r.data \in Marks /\ r.data # Broken /\ r.data # None
      /\ (n = Index <=> r.index = None) /\ (r.index = None => r.data \in Revision)
      /\ r.index # None => n = Head(r.todo) /\ r.data = Listed[r.index][n]
      /\ r.owed # "cached"
  <2>1. r.pc = "rename" /\ NoFault /\ UNCHANGED <<host, clashed, others>>
    BY DEF Rename
  <2>2. PlacedFor(r) /\ HostedFor(r)
    BY DEF PicInv
  <2> QED BY <2>1, <2>2, DataIs
<1>2. /\ run \in [Caller -> Run] /\ clashed \in BOOLEAN
      /\ path \in [Names -> Marks \cup {Broken}] /\ tmp \in [Names -> Marks \cup {Broken}]
  BY PicTyped DEF PicInv
<1>3. Undisturbed(p) => tmp[n] = r.data
  BY <1>1 DEF PicInv, OwnBytes
<1>4. CASE tmp[n] = None
  <2>1. Fail(p) /\ UNCHANGED <<path, tmp>>
    BY <1>4 DEF Rename
  <2>2. r.owed = "nothing"
    BY <1>1, <1>3, <1>4 DEF Undisturbed
  <2> QED BY <2>1, <2>2, <1>1, FailKeeps DEF cache
<1>5. CASE tmp[n] # None
  <2> DEFINE next == IF r.index = None
                     THEN [r EXCEPT !.pc = "check", !.index = r.data, !.data = None,
                                    !.todo = <<Metadata>>]
                     ELSE Advance(r)
             f(q) == IF Writing(q, n) THEN Moved(run[q].file) ELSE run[q].file
             rest(q) == [run[q] EXCEPT !.owed = "nothing", !.file = f(q)]
  <2>1. /\ path' = [path EXCEPT ![n] = tmp[n]] /\ tmp' = [tmp EXCEPT ![n] = None]
        /\ run' = [q \in Caller |-> IF q = p THEN next ELSE rest(q)]
    BY <1>5 DEF Rename
  <2>2. ASSUME NEW q \in Caller \ {p}
        PROVE  /\ run[q] \in Run /\ RunFits(run[q])
               /\ KinAs(run'[q], run[q], run[q].pc, f(q), "nothing")
               /\ (f(q) = "closed" <=> run[q].file = "closed")
    <3>1. run[q] \in Run /\ RunFits(run[q]) /\ run[q].file \in Where
      BY <1>2, RunFields DEF PicInv, Where
    <3>2. f(q) \in Where /\ (f(q) = "closed" <=> run[q].file = "closed")
      BY <3>1 DEF Moved, Where
    <3>3. run'[q] = rest(q)
      BY <2>1
    <3> HIDE DEF f
    <3>4. KinAs(rest(q), run[q], run[q].pc, f(q), "nothing")
      BY <3>1, <3>2, ShiftedIs, Zenon
    <3> HIDE DEF rest
    <3> QED BY <3>1, <3>2, <3>3, <3>4
  <2>3. s = next
    BY <2>1
  <2>5. r.owed # "nothing" => tmp[n] = r.data
    BY <1>3 DEF Undisturbed
  <2>6. /\ path'[n] = tmp[n]
        /\ \A m \in Names : m # n => path'[m] = path[m] /\ tmp'[m] = tmp[m]
        /\ path' \in [Names -> Marks \cup {Broken}] /\ tmp' \in [Names -> Marks \cup {Broken}]
    BY <2>1, <1>1, <1>2, MarksAre DEF Marks
  <2> HIDE DEF rest
  <2>7. /\ s \in Run /\ RunFits(s) /\ s.pc \in {"check", "metadata", "done"}
        /\ PlacedIn(path', s) /\ s.owed = r.owed
        /\ s.owed = "download" => ~s.offline /\ s.index = host.index
    <3>1. CASE r.index = None
      <4> DEFINE t == [r EXCEPT !.pc = "check", !.index = r.data, !.data = None,
                                !.todo = <<Metadata>>]
      <4>1. s = t
        BY <2>3, <3>1
      <4>2. r.data \in Revision \cup {None} /\ r.data # None
        BY <3>1, <1>1
      <4>3. Is(t, "check", r.white, r.refresh, r.offline, r.data, <<Metadata>>,
               None, r.file, r.owed)
        BY <1>1, <4>2, Words, IndexedIs, Zenon
      <4> HIDE DEF t, s, r
      <4>4. /\ s \in Run /\ s.pc = "check" /\ s.index = r.data /\ s.todo = <<Metadata>>
            /\ s.file = r.file /\ s.owed = r.owed /\ s.offline = r.offline /\ s.todo # <<>>
        BY <4>1, <4>3, Words DEF Is
      <4>5. r.file = "closed"
        <5>1. r.file \in Where /\ (r.pc = "write" <=> r.file # "closed")
          BY <1>1, RunFields DEF RunFits, Where
        <5> QED BY <5>1, <1>1
      <4>6. RunFits(s)
        BY <4>2, <4>4, <4>5 DEF RunFits
      <4>7. PlacedIn(path', s)
        BY <4>4 DEF PlacedIn
      <4>8. s.owed = "download" => ~s.offline /\ s.index = host.index
        BY <4>4, <3>1, <1>1 DEF HostedFor
      <4> QED BY <4>4, <4>6, <4>7, <4>8
    <3>2. CASE r.index # None
      <4>1. s = Advance(r)
        BY <2>3, <3>2
      <4>2. PlacedIn(path', r)
        <5>1. SUFFICES ASSUME r.owed # "nothing", r.todo # <<Metadata>>
              PROVE  /\ path'[Metadata] = Listed[r.index][Metadata]
                     /\ \A i \in DOMAIN Views :
                           \/ Wanted(r)[i] \in Left(r)
                           \/ path'[Wanted(r)[i]] = Listed[r.index][Wanted(r)[i]]
          BY DEF PlacedIn
        <5>2. /\ path[Metadata] = Listed[r.index][Metadata]
              /\ \A i \in DOMAIN Views :
                    \/ Wanted(r)[i] \in Left(r)
                    \/ path[Wanted(r)[i]] = Listed[r.index][Wanted(r)[i]]
          BY <5>1, <3>2, <1>1 DEF PlacedFor, PlacedIn
        <5>3. path'[n] = Listed[r.index][n]
          BY <5>1, <2>5, <2>6, <3>2, <1>1
        <5>4. Metadata \in Names /\ \A i \in DOMAIN Views : Wanted(r)[i] \in Names
          <6>1. r.index \in Revision /\ r.white \in BOOLEAN
            BY <3>2, <1>1, RunFields
          <6> QED BY <6>1, RendersAre, FileNames DEF Wanted, Names
        <5>5. ASSUME NEW m \in Names, path[m] = Listed[r.index][m]
              PROVE  path'[m] = Listed[r.index][m]
          <6>1. CASE m = n
            BY <6>1, <5>3
          <6>2. CASE m # n
            BY <6>2, <5>5, <2>6
          <6> QED BY <6>1, <6>2
        <5>6. path'[Metadata] = Listed[r.index][Metadata]
          BY <5>2, <5>4, <5>5
        <5>7. ASSUME NEW i \in DOMAIN Views
              PROVE  \/ Wanted(r)[i] \in Left(r)
                     \/ path'[Wanted(r)[i]] = Listed[r.index][Wanted(r)[i]]
          <6>1. Wanted(r)[i] \in Names
            BY <5>4
          <6>2. \/ Wanted(r)[i] \in Left(r)
                \/ path[Wanted(r)[i]] = Listed[r.index][Wanted(r)[i]]
            BY <5>2
          <6> QED BY <6>1, <6>2, <5>5
        <5> QED BY <5>6, <5>7
      <4>3. r.owed # "nothing" => path'[Head(r.todo)] = Listed[r.index][Head(r.todo)]
        BY <2>5, <2>6, <3>2, <1>1
      <4>4. /\ Advance(r) \in Run /\ RunFits(Advance(r))
            /\ Advance(r).pc \in {"metadata", "check", "done"}
            /\ PlacedIn(path', Advance(r))
            /\ Advance(r).owed = r.owed /\ Advance(r).index = r.index
            /\ Advance(r).white = r.white /\ Advance(r).offline = r.offline
        <5> HIDE DEF r
        <5> QED BY <3>2, <4>2, <4>3, <1>1, AdvanceFits
      <4>5. r.owed = "download" => ~r.offline /\ r.index = host.index
        BY <3>2, <1>1 DEF HostedFor
      <4> HIDE DEF s
      <4> QED BY <4>1, <4>4, <4>5
    <3> QED BY <3>1, <3>2
  <2> HIDE DEF s, next, f
  <2>8. run' \in [Caller -> Run]
    <3>1. \A q \in Caller : run'[q] \in Run
      BY <2>2, <2>7 DEF s, KinAs, Kin
    <3>2. run' = [q \in Caller |-> run'[q]]
      BY <2>1
    <3> QED BY <3>1, <3>2
  <2>9. \A q \in Caller : RunFits(run'[q])
    <3>1. ASSUME NEW q \in Caller \ {p} PROVE RunFits(run'[q])
      <4>1. /\ run[q] \in Run /\ RunFits(run[q]) /\ Kin(run'[q], run[q])
            /\ run'[q].pc = run[q].pc /\ (run'[q].file = "closed" <=> run[q].file = "closed")
        BY <2>2 DEF KinAs
      <4>2. run'[q].pc = "write" <=> run'[q].file # "closed"
        BY <4>1 DEF RunFits
      <4> QED BY <4>1, <4>2, KinFits
    <3> QED BY <3>1, <2>7 DEF s
  <2>10. \A q \in Caller \ {p} : Name(q)' = Name(q)
    <3>1. \A q \in Caller \ {p} : At(run'[q]) = At(run[q])
      BY <2>2, KinAt DEF KinAs
    <3> QED BY <3>1 DEF Name, At
  <2>11. \A q \in Caller, m \in Names : Writing(q, m)' => q # p /\ Writing(q, m)
    BY <2>2, <2>7, <2>10 DEF Writing, KinAs, s
  <2>12. Met'
    <3>1. ASSUME NEW q \in Caller, NEW t \in Caller, NEW m \in Names, q # t,
                 Writing(q, m)', Writing(t, m)'
          PROVE  clashed' /\ run'[q].owed = "nothing"
      <4>1. clashed /\ q # p
        BY <3>1, <2>11 DEF PicInv, Met
      <4> QED BY <4>1, <2>2, <1>1 DEF KinAs
    <3> QED BY <3>1 DEF Met
  <2>13. ASSUME NEW q \in Caller PROVE OwnBytes(q)'
    <3>1. CASE q = p
      BY <3>1, <2>7 DEF OwnBytes, s
    <3>2. CASE q # p
      <4>1. /\ run'[q].pc = run[q].pc /\ run'[q].file = f(q) /\ run'[q].owed = "nothing"
            /\ run'[q].data = run[q].data
        BY <3>2, <2>2 DEF KinAs, Kin
      <4>2. SUFFICES ASSUME ~clashed
                     PROVE  /\ run[q].pc = "write" => f(q) = "tmp"
                            /\ run[q].pc = "rename" => tmp'[Name(q)] = run[q].data
        BY <4>1, <3>2, <2>10, <1>1 DEF OwnBytes, Undisturbed
      <4>3. OwnBytes(q) /\ Undisturbed(q) /\ Undisturbed(p)
        BY <4>2 DEF PicInv, Undisturbed
      <4>4. ~Writing(q, n)
        BY <3>2, <4>3, <1>1, Alone DEF n
      <4>5. run[q].pc = "rename" => Name(q) # n /\ Name(q) \in Names
        BY <4>4, DataIs DEF Writing, n
      <4> QED BY <4>3, <4>4, <4>5, <2>6 DEF OwnBytes, f
    <3> QED BY <3>1, <3>2
  <2>14. ASSUME NEW q \in Caller
         PROVE  PlacedFor(run[q])' /\ CachedFor(run[q])' /\ HostedFor(run[q])'
    <3>1. CASE q # p
      <4>1. run'[q].owed = "nothing"
        BY <3>1, <2>2 DEF KinAs
      <4> QED BY <4>1, NothingOwed
    <3>2. CASE q = p
      <4>1. PlacedFor(run[q])'
        BY <3>2, <2>7 DEF PlacedFor, PlacedIn, Wanted, Left, s
      <4>2. CachedFor(run[q])'
        BY <3>2, <2>7, <1>1 DEF CachedFor, s
      <4>3. r.owed = "download" => Settled
        BY <1>1 DEF HostedFor
      <4>4. HostedFor(run[q])'
        BY <3>2, <4>3, <2>7, <1>1 DEF HostedFor, Settled, s
      <4> QED BY <4>1, <4>2, <4>4
    <3> QED BY <3>1, <3>2
  <2>15. Index \in Names
    BY DEF Names
  <2>16. IndexFits'
    <3>1. path'[Index] \in {path[Index], tmp[Index]} /\ tmp'[Index] \in {tmp[Index], None}
      BY <2>1, <2>6, <2>15, <1>1, <1>2
    <3> QED BY <3>1 DEF PicInv, IndexFits
  <2>17. IndexReadable'
    <3>1. CASE n = Index
      BY <3>1, <2>6, <1>1, <1>3 DEF IndexReadable, Undisturbed
    <3>2. CASE n # Index
      BY <3>2, <2>6, <2>15, <1>1 DEF PicInv, IndexReadable
    <3> QED BY <3>1, <3>2
  <2>18. /\ run[p].pc # "idle" /\ run'[p].pc # "idle" /\ clashed' \in BOOLEAN
         /\ \A q \in Caller \ {p} : run'[q].pc = run[q].pc
    BY <2>2, <2>7, <1>1, <1>2 DEF KinAs, s
  <2>19. UNCHANGED <<host, others>> /\ NoFault
    BY <1>1
  <2> QED
    BY <2>6, <2>8, <2>9, <2>12, <2>13, <2>14, <2>16, <2>17, <2>18, <2>19, WriteStepKeeps
<1> QED BY <1>4, <1>5

-----------------------------------------------------------------------------
(* Commands begin and end, and the host publishes.                         *)

LEMMA IdleFits ==
    /\ Idle \in Run /\ RunFits(Idle) /\ Idle.pc = "idle" /\ Idle.owed = "nothing"
    /\ PlacedFor(Idle) /\ CachedFor(Idle) /\ HostedFor(Idle)
<1>1. /\ Idle \in Run /\ Idle.pc = "idle" /\ Idle.owed = "nothing" /\ Idle.index = None
      /\ Idle.todo = <<>> /\ Idle.file = "closed"
  BY IdleIs DEF Is
<1> QED BY <1>1 DEF RunFits, PlacedFor, PlacedIn, CachedFor, HostedFor

(* What a command that starts is owed.                                     *)
LEMMA StartedFits ==
    ASSUME PicInv, NEW white \in BOOLEAN, NEW refresh \in BOOLEAN, NEW offline \in BOOLEAN
    PROVE  LET s == Started(white, refresh, offline)
           IN  /\ s \in Run /\ RunFits(s) /\ s.pc = "index"
               /\ PlacedFor(s) /\ CachedFor(s) /\ HostedFor(s)
<1> DEFINE s == Started(white, refresh, offline)
           owed == Owed(white, refresh, offline)
<1>1. owed \in Due
  BY DEF Owed, Due
<1>2. /\ owed = "cached" => Available(white) /\ ~refresh
      /\ owed = "download" => ~offline /\ Settled
                              /\ (refresh \/ path[Index] \in {None, host.index})
  BY DEF Owed
<1>3. s = [Idle EXCEPT !.pc = "index", !.white = white, !.refresh = refresh,
                       !.offline = offline, !.owed = owed]
  BY DEF Started
<1>4. /\ Idle \in Run /\ Idle.index = None /\ Idle.todo = <<>> /\ Idle.data = None
      /\ Idle.file = "closed"
  BY IdleIs DEF Is
<1> HIDE DEF s, owed
<1>5. Is(s, "index", white, refresh, offline, Idle.index, Idle.todo, Idle.data, Idle.file, owed)
  <2>1. "index" \in Pc
    BY Words
  <2> QED BY <2>1, <1>1, <1>3, <1>4, StartedIs, Zenon
<1>6. /\ s \in Run /\ s.pc = "index" /\ s.white = white /\ s.refresh = refresh
      /\ s.offline = offline /\ s.index = None /\ s.todo = <<>> /\ s.file = "closed"
      /\ s.owed = owed
  BY <1>4, <1>5 DEF Is
<1>7. RunFits(s) /\ PlacedFor(s)
  BY <1>6 DEF RunFits, PlacedFor, PlacedIn
<1>8. CachedFor(s) /\ HostedFor(s)
  BY <1>2, <1>6 DEF CachedFor, HostedFor
<1>9. /\ s \in Run /\ RunFits(s) /\ s.pc = "index"
      /\ PlacedFor(s) /\ CachedFor(s) /\ HostedFor(s)
  BY <1>6, <1>7, <1>8
<1> QED BY <1>9, Zenon DEF s

LEMMA StartsKeeps ==
    ASSUME PicInv, NEW p \in Caller, NEW white \in BOOLEAN, NEW refresh \in BOOLEAN,
           NEW offline \in BOOLEAN, Go(p, Started(white, refresh, offline)),
           UNCHANGED <<host, cache, picture>>, NoFault, mouseColor' \in Colour,
           commands' \in 0..MaxCommands, p = "overlay" \/ UNCHANGED mouseColor
    PROVE  PicInv'
<1> DEFINE s == Started(white, refresh, offline)
<1>1. /\ s \in Run /\ RunFits(s) /\ s.pc = "index"
      /\ PlacedFor(s) /\ CachedFor(s) /\ HostedFor(s)
  BY StartedFits
<1>2. run' = [run EXCEPT ![p] = s]
  BY DEF Go
<1> HIDE DEF s
<1>3. /\ run \in [Caller -> Run] /\ picture \in [index : Revision \cup {None}, white : BOOLEAN]
      /\ faults \in 0..MaxFaults
  BY PicTyped DEF PicInv, PicturesTypeOK
<1>4. ColorShown'
  <2>1. CASE p = "overlay"
    BY <2>1, <1>1, <1>2, <1>3 DEF ColorShown, Running
  <2>2. CASE p # "overlay"
    BY <2>2, <1>1, <1>2, ColorKept
  <2> QED BY <2>1, <2>2
<1>5. /\ UNCHANGED <<host, path, tmp, clashed>> /\ faults' \in 0..MaxFaults
      /\ picture' \in [index : Revision \cup {None}, white : BOOLEAN]
  BY <1>3 DEF cache, NoFault
<1> QED BY <1>1, <1>2, <1>4, <1>5, RunStepKeeps

(* Only what the overlay shows changes.                                    *)
LEMMA ShownKeeps ==
    ASSUME PicInv, UNCHANGED <<host, path, tmp, run, clashed, faults, commands>>,
           mouseColor' \in Colour, picture' \in [index : Revision \cup {None}, white : BOOLEAN],
           ColorShown'
    PROVE  PicInv'
<1>1. PicturesTypeOK'
  BY DEF PicInv, PicturesTypeOK
<1>2. ASSUME NEW q \in Caller
      PROVE  /\ OwnBytes(q)' /\ RunFits(run'[q])
             /\ PlacedFor(run[q])' /\ CachedFor(run[q])' /\ HostedFor(run[q])'
  BY DEF PicInv, OwnBytes, Undisturbed, Name, PlacedFor, PlacedIn, Wanted, Left, CachedFor,
         Available, HostedFor, Settled
<1>3. Met' /\ IndexReadable' /\ IndexFits'
  BY DEF PicInv, Met, Writing, Name, IndexReadable, IndexFits
<1> QED BY <1>1, <1>2, <1>3 DEF PicInv

LEMMA PicStutterKeeps == ASSUME PicInv, UNCHANGED pictureVars PROVE PicInv'
<1>1. /\ UNCHANGED <<host, path, tmp, run, clashed, faults, commands>>
      /\ UNCHANGED <<mouseColor, picture>>
  BY DEF pictureVars
<1>2. mouseColor \in Colour /\ picture \in [index : Revision \cup {None}, white : BOOLEAN]
  BY DEF PicInv, PicturesTypeOK
<1>3. ColorShown'
  BY <1>1 DEF PicInv, ColorShown, Running
<1> QED BY <1>1, <1>2, <1>3, ShownKeeps

LEMMA OverlayOpensKeeps == ASSUME PicInv, OverlayOpens PROVE PicInv'
<1>1. /\ Go("overlay", Started(mouseColor = "white", FALSE, FALSE))
      /\ UNCHANGED <<host, cache, picture, mouseColor, commands>> /\ NoFault
  BY DEF OverlayOpens, LoadPicture, others
<1>2. mouseColor \in Colour /\ commands \in 0..MaxCommands /\ "overlay" \in Caller
  BY PicTyped DEF PicInv, PicturesTypeOK
<1> QED BY <1>1, <1>2, StartsKeeps

LEMMA SetPictureColorKeeps == ASSUME PicInv, SetPictureColor PROVE PicInv'
<1>1. PICK c \in Colour :
         /\ mouseColor' = c
         /\ IF Running("overlay") THEN UNCHANGED run ELSE LoadPicture(c)
  BY DEF SetPictureColor
<1>2. NoFault /\ UNCHANGED <<host, cache, picture, commands>>
  BY DEF SetPictureColor
<1>3. /\ commands \in 0..MaxCommands /\ "overlay" \in Caller
      /\ picture \in [index : Revision \cup {None}, white : BOOLEAN]
  BY PicTyped DEF PicInv, PicturesTypeOK
<1>4. CASE Running("overlay")
  <2>1. ColorShown'
    BY <1>1, <1>4 DEF ColorShown, Running
  <2>2. UNCHANGED <<host, path, tmp, run, clashed, faults, commands>>
    BY <1>1, <1>2, <1>4 DEF cache, NoFault
  <2> QED BY <2>1, <2>2, <1>1, <1>2, <1>3, ShownKeeps
<1>5. CASE ~Running("overlay")
  <2>1. Go("overlay", Started(c = "white", FALSE, FALSE))
    BY <1>1, <1>5 DEF LoadPicture
  <2> QED BY <2>1, <1>1, <1>2, <1>3, StartsKeeps
<1> QED BY <1>4, <1>5

LEMMA PictureFinishedKeeps == ASSUME PicInv, PictureFinished PROVE PicInv'
<1> DEFINE r == run["overlay"]
<1>1. /\ r.pc \in {"done", "failed"} /\ NoFault /\ UNCHANGED <<host, cache, commands>>
      /\ r \in Run /\ "overlay" \in Caller /\ RunFits(r)
  BY PicTyped DEF PictureFinished, PicInv
<1>2. /\ commands \in 0..MaxCommands /\ mouseColor \in Colour /\ faults \in 0..MaxFaults
      /\ run \in [Caller -> Run]
      /\ picture \in [index : Revision \cup {None}, white : BOOLEAN]
  BY PicTyped DEF PicInv, PicturesTypeOK
<1>3. CASE r.white # (mouseColor = "white")
  <2>1. /\ Go("overlay", Started(mouseColor = "white", FALSE, FALSE))
        /\ UNCHANGED <<mouseColor, picture>>
    BY <1>3 DEF PictureFinished, LoadPicture
  <2> QED BY <2>1, <1>1, <1>2, StartsKeeps
<1>4. CASE r.white = (mouseColor = "white") /\ r.pc = "failed" /\ r.white
  <2>1. /\ Go("overlay", Started("black" = "white", FALSE, FALSE))
        /\ mouseColor' = "black" /\ UNCHANGED picture
    BY <1>4 DEF PictureFinished, LoadPicture
  <2>2. mouseColor' \in Colour
    BY <2>1 DEF Colour
  <2> QED BY <2>1, <2>2, <1>1, <1>2, StartsKeeps
<1>5. CASE r.white = (mouseColor = "white") /\ ~(r.pc = "failed" /\ r.white)
  <2> DEFINE shown == IF r.pc = "done"
                      THEN [index |-> r.index, white |-> r.white /\ HasWhite(r.index)]
                      ELSE NoPicture
  <2>1. picture' = shown /\ Go("overlay", Idle) /\ UNCHANGED mouseColor
    BY <1>5 DEF PictureFinished
  <2>2. /\ shown \in [index : Revision \cup {None}, white : BOOLEAN]
        /\ shown # NoPicture => /\ shown.index = r.index
                                /\ shown.white = (r.white /\ HasWhite(r.index))
    <3>1. CASE r.pc = "done"
      <4>1. r.index \in Revision \cup {None} /\ (r.white /\ HasWhite(r.index)) \in BOOLEAN
        BY <1>1, RunFields DEF HasWhite
      <4> QED BY <3>1, <4>1
    <3>2. CASE r.pc # "done"
      BY <3>2 DEF NoPicture
    <3> QED BY <3>1, <3>2
  <2>3. run' = [run EXCEPT !["overlay"] = Idle]
    BY <2>1 DEF Go
  <2> HIDE DEF shown, r
  <2>4. ColorShown'
    BY <2>1, <2>2, <1>5 DEF ColorShown
  <2>5. UNCHANGED <<host, path, tmp, clashed>> /\ faults' \in 0..MaxFaults
    BY <1>1, <1>2 DEF cache, NoFault
  <2> QED BY <2>1, <2>2, <2>3, <2>4, <2>5, <1>1, <1>2, IdleFits, RunStepKeeps
<1> QED BY <1>3, <1>4, <1>5

LEMMA TerminalCommandKeeps == ASSUME PicInv, TerminalCommand PROVE PicInv'
<1>1. PICK white, refresh, offline \in BOOLEAN : Go("terminal", Started(white, refresh, offline))
  BY DEF TerminalCommand
<1>2. NoFault /\ UNCHANGED <<host, cache, mouseColor, picture>>
  BY DEF TerminalCommand
<1>3. commands' \in 0..MaxCommands
  BY LimitsAssumption DEF TerminalCommand, PicInv, PicturesTypeOK
<1>4. mouseColor \in Colour /\ "terminal" \in Caller
  BY PicTyped DEF PicInv, PicturesTypeOK
<1> QED BY <1>1, <1>2, <1>3, <1>4, StartsKeeps

LEMMA CommandFinishedKeeps == ASSUME PicInv, CommandFinished PROVE PicInv'
<1>1. Go("terminal", Idle) /\ NoFault /\ UNCHANGED <<host, cache, others>>
  BY DEF CommandFinished
<1>2. /\ run \in [Caller -> Run] /\ "terminal" \in Caller /\ mouseColor \in Colour
      /\ "overlay" \in Caller
      /\ picture \in [index : Revision \cup {None}, white : BOOLEAN]
      /\ faults \in 0..MaxFaults /\ commands \in 0..MaxCommands
  BY PicTyped DEF PicInv, PicturesTypeOK
<1>3. run' = [run EXCEPT !["terminal"] = Idle] /\ UNCHANGED <<host, path, tmp, clashed>>
  BY <1>1 DEF Go, cache
<1>4. ColorShown'
  <2>1. run'["overlay"] = run["overlay"]
    BY <1>2, <1>3
  <2> QED BY <2>1, <1>1 DEF PicInv, ColorShown, Running, others
<1> QED BY <1>1, <1>2, <1>3, <1>4, IdleFits, RunStepKeeps DEF NoFault, others

LEMMA PublishKeeps == ASSUME PicInv, Publish PROVE PicInv'
<1>1. /\ NoFault /\ UNCHANGED <<cache, others>>
      /\ UNCHANGED <<path, tmp, clashed, mouseColor, picture, commands, faults>>
  BY DEF Publish, NoFault, cache, others
<1>2. run \in [Caller -> Run]
  BY PicTyped DEF PicInv
<1>3. ASSUME NEW q \in Caller
      PROVE  KinAs(run'[q], run[q], run[q].pc, run[q].file,
                   IF run[q].owed = "download" THEN "whole" ELSE run[q].owed)
  <2> DEFINE s == [run[q] EXCEPT !.owed = "whole"]
  <2>1. run'[q] = IF run[q].owed = "download" THEN s ELSE run[q]
    BY DEF Publish
  <2>2. run[q] \in Run
    BY <1>2
  <2>3. Is(s, run[q].pc, run[q].white, run[q].refresh, run[q].offline, run[q].index,
           run[q].todo, run[q].data, run[q].file, "whole")
    <3>1. "whole" \in Due
      BY Words
    <3> QED BY <2>2, <3>1, OwedIs, Zenon
  <2> HIDE DEF s
  <2>4. CASE run[q].owed = "download"
    BY <2>1, <2>3, <2>4 DEF KinAs, Kin, Is
  <2>5. CASE run[q].owed # "download"
    BY <2>1, <2>2, <2>5 DEF KinAs, Kin
  <2> QED BY <2>4, <2>5
<1>4. /\ \A q \in Caller : run'[q].pc = run[q].pc /\ run'[q].file = run[q].file
                           /\ run'[q].data = run[q].data
      /\ \A q \in Caller : run'[q].owed \in {run[q].owed, "whole"}
      /\ \A q \in Caller : run'[q].owed = "nothing" <=> run[q].owed = "nothing"
  BY <1>3 DEF KinAs, Kin
<1>5. run' \in [Caller -> Run]
  <2>1. run' = [q \in Caller |-> run'[q]]
    BY DEF Publish
  <2> QED BY <2>1, <1>3 DEF KinAs, Kin
<1>6. host' \in [index : Revision, files : Revision]
  <2>1. host \in [index : Revision, files : Revision]
    BY DEF PicInv, PicturesTypeOK
  <2>2. CASE host.files + 1 \in Revision /\ host' = [host EXCEPT !.files = @ + 1]
    BY <2>1, <2>2
  <2>3. CASE host.index + 1 \in Revision /\ host' = [host EXCEPT !.index = @ + 1]
    BY <2>1, <2>3
  <2> QED BY <2>2, <2>3 DEF Publish
<1>7. PicturesTypeOK'
  BY <1>1, <1>5, <1>6 DEF PicInv, PicturesTypeOK
<1>8. \A q \in Caller : Name(q)' = Name(q)
  <2>1. \A q \in Caller : At(run'[q]) = At(run[q])
    BY <1>3, KinAt DEF KinAs
  <2> QED BY <2>1 DEF Name, At
<1>9. \A q \in Caller, n \in Names : Writing(q, n)' <=> Writing(q, n)
  BY <1>4, <1>8 DEF Writing
<1>10. Met'
  BY <1>1, <1>4, <1>9 DEF PicInv, Met
<1>11. ASSUME NEW q \in Caller PROVE RunFits(run'[q])
  <2>1. /\ run[q] \in Run /\ RunFits(run[q]) /\ Kin(run'[q], run[q])
    BY <1>2, <1>3 DEF PicInv, KinAs
  <2>2. run'[q].pc = "write" <=> run'[q].file # "closed"
    BY <2>1, <1>4 DEF RunFits
  <2> QED BY <2>1, <2>2, <1>4, KinFits
<1>12. ASSUME NEW q \in Caller PROVE OwnBytes(q)'
  <2>1. OwnBytes(q) /\ (Undisturbed(q)' <=> Undisturbed(q))
    BY <1>1, <1>4 DEF PicInv, Undisturbed
  <2> QED BY <2>1, <1>1, <1>4, <1>8 DEF OwnBytes
<1>13. ASSUME NEW q \in Caller
       PROVE  PlacedFor(run[q])' /\ CachedFor(run[q])' /\ HostedFor(run[q])'
  <2>1. /\ Wanted(run'[q]) = Wanted(run[q]) /\ Left(run'[q]) = Left(run[q])
        /\ Kin(run'[q], run[q])
        /\ PlacedFor(run[q]) /\ CachedFor(run[q])
        /\ run'[q].owed = "cached" => run[q].owed = "cached"
        /\ run'[q].owed # "download"
    BY <1>3, KinAt DEF PicInv, KinAs
  <2>2. PlacedFor(run[q])'
    <3>1. PlacedIn(path, run'[q])
      BY <2>1, <1>4 DEF PlacedFor, PlacedIn, Kin
    <3> QED BY <3>1, <1>1 DEF PlacedFor, PlacedIn, Wanted, Left
  <2>3. CachedFor(run[q])'
    BY <2>1, <1>1, <1>4 DEF CachedFor, Kin, Available
  <2>4. HostedFor(run[q])'
    BY <2>1 DEF HostedFor
  <2> QED BY <2>2, <2>3, <2>4
<1>14. IndexFits' /\ IndexReadable' /\ ColorShown'
  <2>1. run'["overlay"].pc = run["overlay"].pc
    BY <1>4 DEF Caller
  <2> QED BY <2>1, <1>1 DEF PicInv, IndexFits, IndexReadable, ColorShown, Running
<1> QED BY <1>7, <1>10, <1>11, <1>12, <1>13, <1>14 DEF PicInv

LEMMA PicInitHolds == ASSUME PicturesInit PROVE PicInv
<1>1. /\ path = [n \in Names |-> None] /\ tmp = [n \in Names |-> None]
      /\ run = [p \in Caller |-> Idle] /\ picture = NoPicture /\ clashed = FALSE
      /\ mouseColor \in Colour /\ faults = 0 /\ commands = 0
      /\ host \in [index : Revision, files : Revision]
  BY DEF PicturesInit, Names
<1>2. None \in Version /\ None # Broken
  BY MarksAre
<1>3. NoPicture \in [index : Revision \cup {None}, white : BOOLEAN]
  BY DEF NoPicture
<1>4. faults \in 0..MaxFaults /\ commands \in 0..MaxCommands
  BY <1>1, LimitsAssumption
<1>5. PicturesTypeOK
  BY <1>1, <1>2, <1>3, <1>4, IdleFits DEF PicturesTypeOK, Names
<1>6. ASSUME NEW p \in Caller
      PROVE  /\ RunFits(run[p]) /\ OwnBytes(p)
             /\ PlacedFor(run[p]) /\ CachedFor(run[p]) /\ HostedFor(run[p])
  <2>1. run[p] = Idle
    BY <1>1
  <2> QED BY <2>1, IdleFits DEF OwnBytes
<1>7. Met
  <2>1. \A p \in Caller, n \in Names : ~Writing(p, n)
    BY <1>1, IdleFits DEF Writing
  <2> QED BY <2>1 DEF Met
<1>8. IndexFits /\ IndexReadable
  BY <1>1, <1>2 DEF IndexFits, IndexReadable, Names
<1>9. ColorShown
  BY <1>1 DEF ColorShown
<1> QED BY <1>5, <1>6, <1>7, <1>8, <1>9 DEF PicInv

LEMMA PicNextKeeps == PicInv /\ [PicturesNext]_pictureVars => PicInv'
<1> SUFFICES ASSUME PicInv, [PicturesNext]_pictureVars PROVE PicInv'
  OBVIOUS
<1>1. ASSUME NEW p \in Caller, RunStep(p) PROVE PicInv'
  BY <1>1, ReadIndexKeeps, CheckFileKeeps, FetchKeeps, CreateTmpKeeps, WriteKeeps, RenameKeeps,
     ReadMetadataKeeps DEF RunStep
<1>2. ASSUME NEW p \in Caller, Die(p) PROVE PicInv'
  BY <1>2, DieKeeps
<1>3. CASE OverlayOpens
  BY <1>3, OverlayOpensKeeps
<1>4. CASE SetPictureColor
  BY <1>4, SetPictureColorKeeps
<1>5. CASE PictureFinished
  BY <1>5, PictureFinishedKeeps
<1>6. CASE TerminalCommand
  BY <1>6, TerminalCommandKeeps
<1>7. CASE CommandFinished
  BY <1>7, CommandFinishedKeeps
<1>8. CASE Publish
  BY <1>8, PublishKeeps
<1>9. CASE UNCHANGED pictureVars
  BY <1>9, PicStutterKeeps
<1> QED BY <1>1, <1>2, <1>3, <1>4, <1>5, <1>6, <1>7, <1>8, <1>9 DEF PicturesNext

-----------------------------------------------------------------------------
(* Whatever fails, is killed or runs at the same time, the cached index    *)
(* can be read unless two runs wrote it at once, and a picture that a run  *)
(* returns is made of what its index lists, unless another run wrote       *)
(* meanwhile (assets.rs, load and write_atomically).                       *)
THEOREM CacheStaysSound == PicturesSpec => []CacheSound
<1>1. ASSUME PicInv PROVE ServedAsListed
  <2>1. ASSUME NEW p \in Caller, run[p].pc = "done", run[p].owed # "nothing"
        PROVE  /\ path[Metadata] = Listed[run[p].index][Metadata]
               /\ \A i \in DOMAIN Views :
                     LET n == Renders(run[p].index, run[p].white)[i]
                     IN  path[n] = Listed[run[p].index][n]
    <3>1. run[p].index # None /\ run[p].todo = <<>> /\ PlacedFor(run[p])
      BY <1>1, <2>1 DEF PicInv, RunFits
    <3>2. Left(run[p]) = {} /\ run[p].todo # <<Metadata>>
      BY <3>1, Words DEF Left
    <3> QED BY <2>1, <3>1, <3>2 DEF PlacedFor, PlacedIn, Wanted
  <2> QED BY <2>1 DEF ServedAsListed
<1>2. PicInv => CacheSound
  BY <1>1 DEF PicInv, CacheSound
<1> QED BY <1>2, PicInitHolds, PicNextKeeps, PTL DEF PicturesSpec

(* A complete cache is served without a download, also while the host      *)
(* publishes and files beside it change; a refresh, and a first run, from  *)
(* a host that holds still end with a picture unless an access fails       *)
(* (assets.rs, Options; README.md on pictures).                            *)
THEOREM CacheIsEnough == PicturesSpec => []CacheServes
<1>1. PicInv => WorksOffline
  BY DEF PicInv, CachedFor, WorksOffline
<1>2. PicInv => RefreshRepairs
  BY DEF PicInv, HostedFor, RefreshRepairs
<1>3. PicInv => CacheServes
  BY <1>1, <1>2 DEF CacheServes
<1> QED BY <1>3, PicInitHolds, PicNextKeeps, PTL DEF PicturesSpec

(* What the overlay shows between commands is in the colour of its switch, *)
(* however often that was clicked while one was running (Omalogi.qml,      *)
(* setPictureColor and pictureCommand).                                    *)
THEOREM ColorIsTheSwitch == PicturesSpec => []ColorShown
<1>1. PicInv => ColorShown
  BY DEF PicInv
<1> QED BY <1>1, PicInitHolds, PicNextKeeps, PTL DEF PicturesSpec

=============================================================================
