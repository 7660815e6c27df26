------------------------ MODULE EditingSessionProofs ------------------------
(***************************************************************************)
(* Machine-checked proofs about EditingSession, for any profiles and       *)
(* contents, and any number of edits, faults, writes of other processes    *)
(* and requests that wait: one write is in flight, no edit is lost, and    *)
(* the steps kept for undo lead back to the backup.                        *)
(***************************************************************************)
EXTENDS EditingSession, SequenceTheorems, WellFoundedInduction, TLAPS

-----------------------------------------------------------------------------
(* Sequences: what joins at the end, and what is left without the first or *)
(* the last element.                                                       *)

LEMMA Joined ==
    ASSUME NEW S, NEW s \in Seq(S), NEW e \in S
    PROVE  /\ Append(s, e) \in Seq(S) /\ Append(s, e) # <<>>
           /\ Len(s) \in Nat /\ Len(Append(s, e)) = Len(s) + 1
           /\ DOMAIN s = 1..Len(s) /\ DOMAIN Append(s, e) = 1..(Len(s) + 1)
           /\ \A i \in DOMAIN s : Append(s, e)[i] = s[i]
           /\ Append(s, e)[Len(s) + 1] = e
<1>1. DOMAIN s = 1..Len(s) /\ Len(s) \in Nat
  BY LenProperties
<1>2. Append(s, e) \in Seq(S)
  BY AppendProperties
<1>3. DOMAIN Append(s, e) = 1..Len(Append(s, e))
  BY <1>2, LenProperties
<1> QED BY <1>1, <1>3, AppendProperties

LEMMA Read ==
    ASSUME NEW S, NEW s \in Seq(S), s # <<>>
    PROVE  /\ Tail(s) \in Seq(S) /\ Head(s) \in S /\ Head(s) = s[1]
           /\ Len(s) \in Nat \ {0} /\ Len(Tail(s)) = Len(s) - 1
           /\ DOMAIN s = 1..Len(s) /\ DOMAIN Tail(s) = 1..(Len(s) - 1)
           /\ \A i \in DOMAIN Tail(s) : Tail(s)[i] = s[i + 1]
<1>1. DOMAIN s = 1..Len(s) /\ Len(s) \in Nat \ {0}
  BY LenProperties, EmptySeq
<1>2. Tail(s) \in Seq(S) /\ Len(Tail(s)) = Len(s) - 1 /\ Head(s) \in S
  BY HeadTailProperties
<1>3. DOMAIN Tail(s) = 1..Len(Tail(s))
  BY <1>2, LenProperties
<1>4. \A i \in 1..Len(Tail(s)) : Tail(s)[i] = s[i + 1]
  BY HeadTailProperties
<1> QED BY <1>1, <1>2, <1>3, <1>4

LEMMA Popped ==
    ASSUME NEW S, NEW s \in Seq(S), s # <<>>
    PROVE  /\ Front(s) \in Seq(S) /\ Last(s) \in S /\ Last(s) = s[Len(s)]
           /\ Len(s) \in Nat \ {0} /\ Len(Front(s)) = Len(s) - 1
           /\ \A i \in 1..(Len(s) - 1) : Front(s)[i] = s[i]
<1>1. Len(s) \in Nat \ {0} /\ \A i \in 1..Len(s) : s[i] \in S
  BY LenProperties, EmptySeq, ElementOfSeq
<1>2. \A i \in 1..(Len(s) - 1) : s[i] \in S
  BY <1>1
<1>3. Front(s) = SubSeq(s, 1, Len(s) - 1) /\ 1 \in Int /\ Len(s) - 1 \in Int
  BY <1>1 DEF Front
<1>4. /\ Front(s) \in Seq(S)
      /\ Len(Front(s)) = IF 1 <= Len(s) - 1 THEN (Len(s) - 1) - 1 + 1 ELSE 0
      /\ \A i \in 1..((Len(s) - 1) - 1 + 1) : Front(s)[i] = s[1 + i - 1]
  BY <1>2, <1>3, SubSeqProperties
<1>5. \A i \in 1..(Len(s) - 1) : Front(s)[i] = s[i]
  BY <1>1, <1>4
<1>6. Len(Front(s)) = Len(s) - 1
  <2>1. \A n \in Nat \ {0} : (IF 1 <= n - 1 THEN (n - 1) - 1 + 1 ELSE 0) = n - 1
    OBVIOUS
  <2> QED BY <1>1, <1>4, <2>1, Zenon
<1>7. Last(s) = s[Len(s)] /\ Last(s) \in S
  BY <1>1 DEF Last
<1> QED BY <1>1, <1>4, <1>5, <1>6, <1>7

-----------------------------------------------------------------------------
(* The inductive invariant.                                                *)

(* The types, one variable at a time. *)
MouseTypes ==
    /\ mem \in [Profile -> Version] /\ shown \in [Profile -> Version]
    /\ wanted \in [Profile -> Version] /\ told \subseteq Profile
ServerTypes ==
    /\ server \in {"off", "on", "stopping"}
    /\ backup \in {<<>>} \cup [Profile -> Version]
    /\ stack \in Seq(UndoStep) /\ requests \in Seq(Request) /\ replies \in Seq(Reply)
FlagTypes ==
    /\ opened \in BOOLEAN /\ mounted \in BOOLEAN /\ loading \in BOOLEAN /\ timer \in BOOLEAN
    /\ saving \in BOOLEAN /\ undoing \in BOOLEAN
    /\ raced \in BOOLEAN /\ stale \in BOOLEAN /\ foreign \in BOOLEAN
ViewTypes ==
    /\ cursor \in Profile /\ pendingCursor \in Profile \cup {NoProfile}
    /\ original \in Version /\ draft \in Version /\ undoDepth \in Nat
    /\ unchanged \in {NoSave} \cup (Profile \X Version)
CountTypes == edits \in 0..MaxEdits /\ faults \in 0..MaxFaults /\ others \in 0..MaxOthers

Types == MouseTypes /\ ServerTypes /\ FlagTypes /\ ViewTypes /\ CountTypes

(* A write waits to be answered, or its answer to be read. *)
Sent(c)     == \E i \in DOMAIN requests : requests[i].cmd = c
Answered(c) == \E i \in DOMAIN replies : replies[i].to = c

(* OneWriteInFlight, request by request; and a save in flight is of the    *)
(* profile shown.                                                          *)
PipeInv ==
    /\ \A i, j \in DOMAIN requests :
          IsWrite(requests[i].cmd) /\ IsWrite(requests[j].cmd) => i = j
    /\ \A i, j \in DOMAIN replies : IsWrite(replies[i].to) /\ IsWrite(replies[j].to) => i = j
    /\ \A i \in DOMAIN requests, j \in DOMAIN replies :
          ~(IsWrite(requests[i].cmd) /\ IsWrite(replies[j].to))
    /\ saving  <=> Sent("apply") \/ Answered("apply")
    /\ undoing <=> Sent("undo") \/ Answered("undo")
    /\ \A i \in DOMAIN requests : requests[i].cmd = "apply" => requests[i].profile = cursor
    /\ \A i \in DOMAIN replies : replies[i].to = "apply" => replies[i].profile = cursor

(* A step kept for undo was made after the backup; the oldest step of a    *)
(* profile holds what the backup does.                                     *)
Oldest(p, i) == /\ i \in DOMAIN stack /\ stack[i].profile = p
                /\ \A j \in DOMAIN stack : stack[j].profile = p => i <= j
StackInv ==
    /\ backup = <<>> => stack = <<>>
    /\ backup # <<>> /\ ~foreign =>
         \A p \in Profile :
            /\ \A i \in DOMAIN stack : Oldest(p, i) => stack[i].previous = backup[p]
            /\ (\A i \in DOMAIN stack : stack[i].profile # p) => mem[p] = backup[p]

(* The answer to a write of profile p is among the replies from i on. *)
Awaited(p, i) ==
    \E j \in DOMAIN replies : j > i /\ IsWrite(replies[j].to) /\ replies[j].profile = p

(* An undo in flight takes back, or took back, a step of profile p. *)
Undone(p) ==
    \/ Sent("undo") /\ stack # <<>> /\ Last(stack).profile = p
    \/ \E i \in DOMAIN replies : replies[i].to = "undo" /\ replies[i].profile = p

(* What NothingLost does not except. *)
Clean == others = 0 /\ ~raced /\ ~stale

(* What replies say is so, or a later one says otherwise. *)
RepliesInv ==
    /\ \A i \in DOMAIN replies :
          IsWrite(replies[i].to) /\ replies[i].ok =>
              /\ replies[i].value = mem[replies[i].profile]
              /\ replies[i].to = "undo" => wanted[replies[i].profile] = replies[i].value
    /\ \A i \in DOMAIN replies :
          replies[i].to = "state" /\ replies[i].ok =>
              \A p \in Profile : replies[i].profiles[p] = mem[p] \/ Awaited(p, i)

(* What the overlay read last, and what it edits, is what the mouse holds  *)
(* unless the answer to a write is still to be read or an error was shown. *)
ShownInv ==
    /\ \A p \in Profile : p \in told \/ shown[p] = mem[p] \/ Awaited(p, 0)
    /\ cursor \in told \/ original = mem[cursor] \/ Awaited(cursor, 0)

(* What the user asked for is in the mouse, in the draft, or what an undo  *)
(* will bring.                                                             *)
WantedInv ==
    /\ Sent("undo") /\ stack # <<>> => wanted[Last(stack).profile] = Last(stack).previous
    /\ \A p \in Profile \ {cursor} : p \in told \/ Undone(p) \/ wanted[p] = mem[p]
    /\ cursor \in told \/ Undone(cursor) \/ wanted[cursor] = draft
    /\ dirty \/ saving => wanted[cursor] = draft
    /\ dirty => ~undoing

(* An edited draft will be saved, or need not be. *)
DraftInv ==
    /\ unchanged # NoSave =>
          /\ unchanged[1] = cursor
          /\ cursor \in told \/ unchanged[2] = mem[cursor] \/ Awaited(cursor, 0)
    /\ busy \/ cursor \in told \/ ~dirty \/ timer \/ unchanged = <<cursor, draft>>

LostInv == Clean => RepliesInv /\ ShownInv /\ WantedInv /\ DraftInv

(* A process that is not there has nothing to undo. *)
OffInv == server = "off" => stack = <<>>

IInv == Types /\ PipeInv /\ StackInv /\ OffInv /\ LostInv

-----------------------------------------------------------------------------
(* Types.                                                                  *)

LEMMA RequestFacts ==
    /\ \A r \in Request : /\ r.cmd \in {"apply", "undo", "state", "activate"}
                          /\ r.cmd = "apply" => r.profile \in Profile /\ r.value \in Version
    /\ \A p \in Profile, v \in Version :
          [cmd |-> "apply", profile |-> p, value |-> v] \in Request
    /\ \A c \in {"undo", "state", "activate"} : [cmd |-> c] \in Request
  BY DEF Request

LEMMA ReplyFacts ==
    \A r \in Reply :
        /\ r.to \in {"apply", "undo", "state", "activate"} /\ r.ok \in BOOLEAN
        /\ ~r.ok => r.profile \in Profile \cup {NoProfile}
        /\ r.ok /\ IsWrite(r.to) => /\ r.profile \in Profile /\ r.value \in Version
                                    /\ r.effect \in BOOLEAN /\ r.undo \in Nat
        /\ r.ok /\ r.to = "state" => r.profiles \in [Profile -> Version]
  BY DEF Reply, IsWrite

LEMMA Replied ==
    /\ \A c \in {"apply", "undo", "state", "activate"}, p \in Profile \cup {NoProfile} :
          [to |-> c, ok |-> FALSE, profile |-> p] \in Reply
    /\ \A c \in {"apply", "undo"}, p \in Profile, v \in Version, e \in BOOLEAN, n \in Nat :
          [to |-> c, ok |-> TRUE, profile |-> p, value |-> v, effect |-> e, undo |-> n] \in Reply
    /\ \A m \in [Profile -> Version] : [to |-> "state", ok |-> TRUE, profiles |-> m] \in Reply
    /\ [to |-> "activate", ok |-> TRUE] \in Reply
  BY DEF Reply

LEMMA TypesAreTypeOK == Types <=> TypeOK
  BY DEF Types, MouseTypes, ServerTypes, FlagTypes, ViewTypes, CountTypes, TypeOK

(* A request leaves the server typed.                                      *)
LEMMA SendTypes ==
    ASSUME ServerTypes, NEW r \in Request, Send(r), replies' \in Seq(Reply)
    PROVE  ServerTypes' /\ requests' = Append(requests, r)
<1>1. requests' \in Seq(Request)
  BY Joined DEF ServerTypes, Send
<1>2. <<>> \in Seq(UndoStep)
  BY EmptySeq
<1> QED BY <1>1, <1>2 DEF ServerTypes, Send

(* Stopping or starting the server, or leaving it alone, leaves it typed.  *)
LEMMA StopTypes ==
    ASSUME ServerTypes, StopWhenIdle, replies' \in Seq(Reply) PROVE ServerTypes'
  BY DEF ServerTypes, StopWhenIdle

LEMMA SaveTypes ==
    ASSUME ServerTypes, NEW p \in Profile, NEW v \in Version, SendApply(p, v),
           replies' \in Seq(Reply)
    PROVE  ServerTypes' /\ saving' = TRUE
  BY RequestFacts, SendTypes DEF SendApply

(* Loading a draft. *)
LEMMA LoadTypes ==
    ASSUME Types, NEW p \in Profile, LoadDraft(p), shown' \in [Profile -> Version],
           pendingCursor' \in Profile \cup {NoProfile}, undoDepth' \in Nat
    PROVE  ViewTypes'
  BY DEF LoadDraft, ViewTypes, Types

(* Saving. *)
LEMMA SavingTypes ==
    ASSUME Types, Save PROVE ServerTypes' /\ timer' \in BOOLEAN /\ saving' \in BOOLEAN
<1> USE DEF Types, serverVars, history, bounds
<1>1. CASE ~busy /\ Unsaved
  BY <1>1, SaveTypes DEF Save, ViewTypes, ServerTypes
<1>2. CASE ~(~busy /\ Unsaved)
  BY <1>2 DEF Save, ServerTypes, FlagTypes
<1>3. timer' \in BOOLEAN
  BY DEF Save, dirty, busy, FlagTypes
<1> QED BY <1>1, <1>2, <1>3

(* The steps of the user. *)
LEMMA UserTypes == ASSUME Types, User PROVE Types'
<1> USE ProfileAssumption, VersionAssumption, BoundsAssumption
        DEF Types, serverVars, overlayVars, history, bounds
<1>1. ASSUME NEW v \in Version, Edit(v) PROVE Types'
  BY <1>1 DEF Edit, MouseTypes, ServerTypes, FlagTypes, ViewTypes, CountTypes
<1>2. ASSUME NEW p \in Profile, SelectProfile(p) PROVE Types'
  <2>1. ServerTypes' /\ saving' \in BOOLEAN
    <3>1. CASE busy \/ ~Unsaved
      BY <1>2, <3>1 DEF SelectProfile, ServerTypes, FlagTypes
    <3>2. CASE ~busy /\ Unsaved
      BY <1>2, <3>2, SaveTypes DEF SelectProfile, ViewTypes, ServerTypes
    <3> QED BY <3>1, <3>2
  <2>2. MouseTypes' /\ CountTypes'
    BY <1>2 DEF SelectProfile, MouseTypes, CountTypes
  <2>3. FlagTypes'
    BY <1>2, <2>1 DEF SelectProfile, FlagTypes
  <2>4. ViewTypes'
    <3>1. CASE busy \/ Unsaved
      BY <1>2, <3>1 DEF SelectProfile, ViewTypes
    <3>2. CASE ~(busy \/ Unsaved)
      <4>1. LoadDraft(p) /\ UNCHANGED <<shown, pendingCursor, undoDepth>>
        BY <1>2, <3>2 DEF SelectProfile
      <4> QED BY <4>1, LoadTypes DEF MouseTypes, ViewTypes
    <3> QED BY <3>1, <3>2
  <2> QED BY <2>1, <2>2, <2>3, <2>4
<1>3. ASSUME Undo PROVE Types'
  <2>1. CASE dirty
    <3>1. MouseTypes'
      BY <1>3, <2>1 DEF Undo, MouseTypes, ViewTypes
    <3>2. ServerTypes' /\ CountTypes'
      BY <1>3, <2>1 DEF Undo, ServerTypes, CountTypes
    <3>3. FlagTypes'
      BY <1>3, <2>1 DEF Undo, FlagTypes
    <3>4. ViewTypes'
      BY <1>3, <2>1 DEF Undo, ViewTypes
    <3> QED BY <3>1, <3>2, <3>3, <3>4
  <2>2. CASE ~dirty
    <3>1. Send([cmd |-> "undo"]) /\ UNCHANGED replies
      BY <1>3, <2>2 DEF Undo
    <3>2. ServerTypes'
      BY <3>1, SendTypes, RequestFacts DEF ServerTypes
    <3>3. wanted' \in [Profile -> Version]
      <4>1. CASE stack' = <<>>
        BY <1>3, <2>2, <4>1 DEF Undo, MouseTypes
      <4>2. CASE stack' # <<>>
        <5>1. stack = stack'
          BY <3>1, <4>2 DEF Send
        <5>2. Last(stack) \in UndoStep
          BY <4>2, <5>1, Popped DEF ServerTypes
        <5> QED BY <1>3, <2>2, <4>2, <5>2 DEF Undo, MouseTypes, UndoStep
      <4> QED BY <4>1, <4>2
    <3> QED BY <1>3, <2>2, <3>2, <3>3 DEF Undo, MouseTypes, FlagTypes, ViewTypes, CountTypes
  <2> QED BY <2>1, <2>2
<1>4. ASSUME Activate PROVE Types'
  <2>1. ServerTypes'
    BY <1>4, SendTypes, RequestFacts DEF Activate, ServerTypes
  <2> QED BY <1>4, <2>1 DEF Activate, MouseTypes, FlagTypes, ViewTypes, CountTypes
<1>6. ASSUME SaveKey PROVE Types'
  BY SavingTypes, <1>6 DEF SaveKey, Save, MouseTypes, FlagTypes, ViewTypes, CountTypes
<1>7. ASSUME Close PROVE Types'
  <2>1. CASE Save
    BY SavingTypes, <1>7, <2>1 DEF Close, Save, MouseTypes, FlagTypes, ViewTypes, CountTypes
  <2>2. CASE ~Save
    BY <1>7, <2>2 DEF Close, MouseTypes, ServerTypes, FlagTypes, ViewTypes, CountTypes
  <2> QED BY <2>1, <2>2
<1>8. ASSUME Refresh, opened' \in BOOLEAN, mounted' \in BOOLEAN PROVE Types'
  <2>1. ServerTypes'
    <3>1. CASE loading
      BY <1>8, <3>1 DEF Refresh, ServerTypes
    <3>2. CASE ~loading
      BY <1>8, <3>2, SendTypes, RequestFacts DEF Refresh, ServerTypes
    <3> QED BY <3>1, <3>2
  <2> QED BY <1>8, <2>1 DEF Refresh, MouseTypes, FlagTypes, ViewTypes, CountTypes
<1>9. ASSUME HandOver PROVE Types'
  <2>1. ServerTypes' /\ saving' \in BOOLEAN
    <3>1. CASE timer /\ ~busy /\ Unsaved
      <4>1. [cmd |-> "apply", profile |-> cursor, value |-> draft] \in Request
        BY RequestFacts DEF ViewTypes
      <4>2. requests' = Append(requests, [cmd |-> "apply", profile |-> cursor, value |-> draft])
        BY <1>9, <3>1 DEF HandOver
      <4>3. requests \in Seq(Request)
        BY DEF ServerTypes
      <4>4. requests' \in Seq(Request)
        BY <4>1, <4>2, <4>3, Joined
      <4> QED BY <1>9, <3>1, <4>4 DEF HandOver, ServerTypes
    <3>2. CASE ~(timer /\ ~busy /\ Unsaved)
      BY <1>9, <3>2 DEF HandOver, ServerTypes, FlagTypes
    <3> QED BY <3>1, <3>2
  <2>2. timer' \in BOOLEAN
    BY <1>9 DEF HandOver
  <2>3. faults' \in 0..MaxFaults
    BY <1>9 DEF HandOver, Fault, CountTypes
  <2> QED BY <1>9, <2>1, <2>2, <2>3
          DEF HandOver, MouseTypes, FlagTypes, ViewTypes, CountTypes
<1>10. ASSUME Open \/ RefreshKey PROVE Types'
  BY <1>8, <1>10 DEF Open, RefreshKey, FlagTypes
<1> QED BY <1>1, <1>2, <1>3, <1>4, <1>6, <1>7, <1>9, <1>10 DEF User

(* What the overlay does after a write.                                    *)
LEMMA AfterTypes ==
    ASSUME Types, NEW ok, NEW was \in Version, NEW now \in Version,
           NEW key \in {NoSave} \cup (Profile \X Version), AfterWrite(ok, was, now, key),
           shown' \in [Profile -> Version], replies' \in Seq(Reply), undoDepth' \in Nat
    PROVE  ServerTypes' /\ ViewTypes' /\ timer' \in BOOLEAN /\ saving' \in BOOLEAN
<1> DEFINE more == ok /\ now # was
           pending == pendingCursor # NoProfile
<1> USE DEF Types, serverVars
<1>1. CASE more /\ opened /\ ~pending
  BY <1>1 DEF AfterWrite, ServerTypes, ViewTypes
<1>2. CASE more /\ ~(opened /\ ~pending) /\ <<cursor, now>> # key
  <2>1. /\ original' = was /\ draft' = now /\ unchanged' = key
        /\ SendApply(cursor, now) /\ UNCHANGED <<cursor, pendingCursor, timer>>
    BY <1>2 DEF AfterWrite
  <2> QED BY <2>1, SaveTypes DEF ViewTypes, FlagTypes
<1>3. CASE /\ ~(more /\ opened /\ ~pending)
           /\ ~(more /\ ~(opened /\ ~pending) /\ <<cursor, now>> # key)
  <2>1. /\ saving' = FALSE
        /\ IF pending
           THEN LoadDraft(pendingCursor)
           ELSE original' = was /\ draft' = now /\ unchanged' = key /\ UNCHANGED cursor
        /\ pendingCursor' = NoProfile
        /\ UNCHANGED timer
        /\ StopWhenIdle
    BY <1>3, Zenon DEF AfterWrite
  <2>2. ViewTypes'
    <3>1. CASE pending
      <4>1. pendingCursor \in Profile
        BY <3>1 DEF ViewTypes
      <4> QED BY <2>1, <3>1, <4>1, LoadTypes
    <3>2. CASE ~pending
      BY <2>1, <3>2 DEF ViewTypes
    <3> QED BY <3>1, <3>2
  <2> QED BY <2>1, <2>2, StopTypes DEF FlagTypes
<1> QED BY <1>1, <1>2, <1>3

(* The replies. *)
LEMMA ReadTypes == ASSUME Types, ReadReply PROVE Types'
<1> DEFINE r == Head(replies)
<1> USE DEF Types, serverVars, bounds
<1>1. r \in Reply /\ replies' \in Seq(Reply)
  BY Read DEF ReadReply, ServerTypes
<1>2. UNCHANGED <<mem, opened, mounted, wanted, raced, foreign, edits, faults, others>>
  BY DEF ReadReply
<1> HIDE DEF r
<1>3. ASSUME ApplyReply(r) PROVE Types'
  <2>1. /\ r.profile \in Profile /\ r.value \in Version /\ r.effect \in BOOLEAN /\ r.undo \in Nat
    BY <1>1, <1>3, ReplyFacts DEF ApplyReply, IsWrite
  <2>2. shown' \in [Profile -> Version] /\ told' \subseteq Profile /\ undoDepth' \in Nat
    BY <1>3, <2>1 DEF ApplyReply, MouseTypes
  <2>3. stale' \in BOOLEAN
    BY <1>3 DEF ApplyReply
  <2>4. PICK was \in Version, key \in {NoSave} \cup (Profile \X Version) :
            AfterWrite(TRUE, was, draft, key)
    BY <1>3, <2>1 DEF ApplyReply, ViewTypes
  <2>5. ServerTypes' /\ ViewTypes' /\ timer' \in BOOLEAN /\ saving' \in BOOLEAN
    BY <1>1, <2>2, <2>4, AfterTypes DEF ViewTypes
  <2> QED BY <1>2, <1>3, <2>2, <2>3, <2>5 DEF ApplyReply, MouseTypes, FlagTypes, CountTypes
<1>4. ASSUME UndoReply(r) PROVE Types'
  <2>1. /\ r.profile \in Profile /\ r.value \in Version /\ r.effect \in BOOLEAN /\ r.undo \in Nat
    BY <1>1, <1>4, ReplyFacts DEF UndoReply, IsWrite
  <2>2. shown' \in [Profile -> Version] /\ told' \subseteq Profile /\ undoDepth' \in Nat
    BY <1>4, <2>1 DEF UndoReply, MouseTypes
  <2>4. PICK was \in Version, now \in Version : AfterWrite(TRUE, was, now, NoSave)
    BY <1>4, <2>1 DEF UndoReply, ViewTypes
  <2>5. ServerTypes' /\ ViewTypes' /\ timer' \in BOOLEAN /\ saving' \in BOOLEAN
    BY <1>1, <2>2, <2>4, AfterTypes
  <2> QED BY <1>2, <1>4, <2>2, <2>5 DEF UndoReply, MouseTypes, FlagTypes, CountTypes
<1>5. ASSUME WriteError(r) PROVE Types'
  <2>1. r.profile \in Profile \cup {NoProfile}
    BY <1>1, <1>5, ReplyFacts DEF WriteError
  <2>2. shown' \in [Profile -> Version] /\ told' \subseteq Profile /\ undoDepth' \in Nat
    BY <1>5, <2>1 DEF WriteError, MouseTypes, ViewTypes
  <2>3. undoing' \in BOOLEAN
    BY <1>5 DEF WriteError
  <2>4. AfterWrite(FALSE, original, draft, unchanged)
    BY <1>5 DEF WriteError
  <2>5. ServerTypes' /\ ViewTypes' /\ timer' \in BOOLEAN /\ saving' \in BOOLEAN
    BY <1>1, <2>2, <2>4, AfterTypes DEF ViewTypes
  <2> QED BY <1>2, <1>5, <2>2, <2>3, <2>5 DEF WriteError, MouseTypes, FlagTypes, CountTypes
<1>6. ASSUME StateReply(r) PROVE Types'
  <2>1. /\ loading' = FALSE
        /\ UNCHANGED <<saving, undoing, undoDepth, pendingCursor, timer, told, stale>>
    BY <1>6 DEF StateReply
  <2>2. shown' \in [Profile -> Version]
    BY <1>1, <1>6, ReplyFacts DEF StateReply, MouseTypes
  <2>3. ServerTypes'
    BY <1>1, <1>6, StopTypes DEF StateReply, ServerTypes
  <2>4. ViewTypes'
    <3>1. CASE r.ok /\ ~(dirty \/ busy)
      BY <1>6, <2>1, <2>2, <3>1, LoadTypes DEF StateReply, ViewTypes
    <3>2. CASE ~(r.ok /\ ~(dirty \/ busy))
      BY <1>6, <2>1, <3>2 DEF StateReply, ViewTypes
    <3> QED BY <3>1, <3>2
  <2> QED BY <1>2, <2>1, <2>2, <2>3, <2>4 DEF MouseTypes, FlagTypes, CountTypes
<1>7. ASSUME ActivateReply(r) PROVE Types'
  BY <1>1, <1>2, <1>7
     DEF ActivateReply, MouseTypes, ServerTypes, FlagTypes, ViewTypes, CountTypes
<1> QED BY <1>3, <1>4, <1>5, <1>6, <1>7 DEF ReadReply, r

(* The process's end. *)
LEMMA ExitTypes == ASSUME Types, ServerExits, faults' \in 0..MaxFaults PROVE Types'
<1> USE DEF Types
<1>1. <<>> \in Seq(UndoStep) /\ <<>> \in Seq(Request) /\ <<>> \in Seq(Reply)
  BY EmptySeq
<1>2. ServerTypes'
  BY <1>1 DEF ServerExits, ServerTypes
<1>3. MouseTypes'
  BY DEF ServerExits, MouseTypes, ViewTypes
<1>4. ViewTypes'
  <2>1. CASE busy /\ pendingCursor # NoProfile
    <3>1. pendingCursor \in Profile /\ LoadDraft(pendingCursor) /\ pendingCursor' = NoProfile
      BY <2>1 DEF ServerExits, ViewTypes
    <3> QED BY <1>3, <3>1, LoadTypes DEF ServerExits, ViewTypes, MouseTypes
  <2>2. CASE ~(busy /\ pendingCursor # NoProfile)
    BY <2>2 DEF ServerExits, ViewTypes
  <2> QED BY <2>1, <2>2
<1> QED BY <1>2, <1>3, <1>4 DEF ServerExits, FlagTypes, CountTypes

(* A reply joins the replies, and the request it answers is gone.          *)
LEMMA AnswerTypes ==
    ASSUME ServerTypes, requests # <<>>, NEW r \in Reply, Answer(r)
    PROVE  requests' \in Seq(Request) /\ replies' \in Seq(Reply)
<1>1. requests' = Tail(requests) /\ replies' = Append(replies, r)
  BY DEF Answer
<1>2. requests \in Seq(Request) /\ replies \in Seq(Reply)
  BY DEF ServerTypes
<1> QED BY <1>1, <1>2, Joined, Read

LEMMA RefuseTypes ==
    ASSUME ServerTypes, requests # <<>>,
           NEW c \in {"apply", "undo", "state", "activate"}, NEW p \in Profile \cup {NoProfile},
           Refuse(c, p)
    PROVE  requests' \in Seq(Request) /\ replies' \in Seq(Reply)
  BY Replied, AnswerTypes DEF Refuse

LEMMA ReportTypes ==
    ASSUME ServerTypes, requests # <<>>, stack' \in Seq(UndoStep),
           NEW c \in {"apply", "undo"}, NEW p \in Profile, NEW v \in Version, NEW e \in BOOLEAN,
           Report(c, p, v, e)
    PROVE  requests' \in Seq(Request) /\ replies' \in Seq(Reply)
<1>1. Len(stack') \in Nat
  BY LenProperties
<1> QED BY <1>1, Replied, AnswerTypes DEF Report

(* What handling a request changes, and that it leaves the server typed.   *)
LEMMA ApplyTypes ==
    ASSUME Types, requests # <<>>, NEW p \in Profile, NEW v \in Version, Apply(p, v)
    PROVE  /\ mem' \in [Profile -> Version] /\ backup' \in {<<>>} \cup [Profile -> Version]
           /\ stack' \in Seq(UndoStep) /\ foreign' \in BOOLEAN /\ faults' \in 0..MaxFaults
           /\ requests' \in Seq(Request) /\ replies' \in Seq(Reply)
<1> USE BoundsAssumption DEF Types
<1>1. [profile |-> p, previous |-> mem[p]] \in UndoStep
  BY DEF UndoStep, MouseTypes
<1>2. Append(stack, [profile |-> p, previous |-> mem[p]]) \in Seq(UndoStep)
  BY <1>1, Joined DEF ServerTypes
<1>3. faults' \in 0..MaxFaults
  <2>1. faults' = faults \/ Fault
    BY Zenon DEF Apply
  <2> QED BY <2>1 DEF Fault, CountTypes
<1>4. mem' \in [Profile -> Version]
  BY DEF Apply, Put, MouseTypes
<1>5. backup' \in {<<>>} \cup [Profile -> Version]
  BY DEF Apply, EnsureBackup, ServerTypes, MouseTypes
<1>6. stack' \in Seq(UndoStep) /\ foreign' \in BOOLEAN
  BY <1>2 DEF Apply, ServerTypes, FlagTypes
<1>7. Refuse("apply", p) \/ Report("apply", p, v, TRUE) \/ Report("apply", p, v, FALSE)
  BY Zenon DEF Apply
<1>8. requests' \in Seq(Request) /\ replies' \in Seq(Reply)
  BY <1>6, <1>7, RefuseTypes, ReportTypes
<1> QED BY <1>3, <1>4, <1>5, <1>6, <1>8

LEMMA UndoTypes ==
    ASSUME Types, requests # <<>>, UndoLast
    PROVE  /\ mem' \in [Profile -> Version] /\ backup' \in {<<>>} \cup [Profile -> Version]
           /\ stack' \in Seq(UndoStep) /\ foreign' \in BOOLEAN /\ faults' \in 0..MaxFaults
           /\ requests' \in Seq(Request) /\ replies' \in Seq(Reply)
<1> USE BoundsAssumption DEF Types
<1>0. backup' \in {<<>>} \cup [Profile -> Version] /\ foreign' \in BOOLEAN
  BY DEF UndoLast, ServerTypes, FlagTypes
<1>1. CASE stack = <<>>
  <2>1. Refuse("undo", NoProfile) /\ UNCHANGED <<mem, stack, faults>>
    BY <1>1 DEF UndoLast
  <2>2. requests' \in Seq(Request) /\ replies' \in Seq(Reply)
    BY <2>1, RefuseTypes
  <2> QED BY <1>0, <2>1, <2>2 DEF MouseTypes, ServerTypes, CountTypes
<1>2. CASE stack # <<>>
  <2> DEFINE step == Last(stack)
  <2>1. /\ step.profile \in Profile /\ step.previous \in Version
        /\ Front(stack) \in Seq(UndoStep) /\ stack \in Seq(UndoStep)
    <3>1. stack \in Seq(UndoStep)
      BY DEF ServerTypes
    <3>2. Last(stack) \in UndoStep /\ Front(stack) \in Seq(UndoStep)
      BY <1>2, <3>1, Popped
    <3> QED BY <3>1, <3>2 DEF UndoStep
  <2>2. /\ mem' = [mem EXCEPT ![step.profile] = step.previous] \/ mem' = mem
        /\ stack' = stack \/ stack' = Front(stack)
        /\ faults' = faults \/ Fault
        /\ Refuse("undo", step.profile)
           \/ Report("undo", step.profile, step.previous, mem[step.profile] # step.previous)
    BY <1>2, Zenon DEF UndoLast, Put
  <2> HIDE DEF step
  <2>3. requests' \in Seq(Request) /\ replies' \in Seq(Reply)
    BY <2>1, <2>2, RefuseTypes, ReportTypes
  <2>4. faults' \in 0..MaxFaults
    BY <2>2 DEF Fault, CountTypes
  <2> QED BY <1>0, <2>1, <2>2, <2>3, <2>4 DEF MouseTypes
<1> QED BY <1>1, <1>2

LEMMA HandleTypes == ASSUME Types, Handle PROVE Types'
<1> DEFINE r == Head(requests)
<1> USE BoundsAssumption DEF Types, overlayVars
<1>1. r \in Request /\ requests # <<>>
  BY Read DEF Handle, ServerTypes
<1>2. UNCHANGED <<server, overlayVars, wanted, told, raced, stale, edits, others>>
  BY DEF Handle
<1>3. ASSUME ReadState \/ ActivateProfile
      PROVE  /\ UNCHANGED <<mem, backup, stack, foreign>> /\ faults' \in 0..MaxFaults
             /\ requests' \in Seq(Request) /\ replies' \in Seq(Reply)
  <2>1. UNCHANGED <<mem, backup, stack, foreign>>
    BY <1>3 DEF ReadState, ActivateProfile
  <2>2. faults' \in 0..MaxFaults
    BY <1>3 DEF ReadState, ActivateProfile, Fault, CountTypes
  <2>3. PICK a \in Reply : Answer(a)
    BY <1>3, Replied DEF ReadState, ActivateProfile, Refuse, MouseTypes
  <2> QED BY <1>1, <2>1, <2>2, <2>3, AnswerTypes
<1>4. /\ mem' \in [Profile -> Version] /\ backup' \in {<<>>} \cup [Profile -> Version]
      /\ stack' \in Seq(UndoStep) /\ foreign' \in BOOLEAN /\ faults' \in 0..MaxFaults
      /\ requests' \in Seq(Request) /\ replies' \in Seq(Reply)
  <2>1. CASE r.cmd = "apply" /\ Apply(r.profile, r.value)
    BY <1>1, <2>1, RequestFacts, ApplyTypes
  <2>2. CASE UndoLast
    BY <1>1, <2>2, UndoTypes
  <2>3. CASE ReadState \/ ActivateProfile
    BY <1>3, <2>3 DEF MouseTypes, ServerTypes, FlagTypes
  <2> QED BY <2>1, <2>2, <2>3 DEF Handle
<1> HIDE DEF r
<1> QED BY <1>2, <1>4 DEF MouseTypes, ServerTypes, FlagTypes, ViewTypes, CountTypes

(* Every step keeps the types. *)
LEMMA TypesKeep == ASSUME Types, [Next]_vars PROVE Types'
<1> USE ProfileAssumption, BoundsAssumption DEF Types, serverVars, overlayVars, history, bounds
<1>1. CASE FinishClose
  <2>1. ServerTypes'
    BY <1>1, StopTypes DEF FinishClose, ServerTypes
  <2> QED BY <1>1, <2>1 DEF FinishClose, MouseTypes, FlagTypes, ViewTypes, CountTypes
<1>2. CASE TimerFires
  BY <1>2, SavingTypes DEF TimerFires, Save, MouseTypes, FlagTypes, ViewTypes, CountTypes
<1>3. CASE ServerStops
  BY <1>3, ExitTypes DEF ServerStops, CountTypes
<1>4. CASE ServerDies
  <2>1. faults' \in 0..MaxFaults
    BY <1>4 DEF ServerDies, Fault, CountTypes
  <2> QED BY <1>4, <2>1, ExitTypes DEF ServerDies
<1>5. ASSUME NEW p \in Profile, NEW v \in Version, OtherWrites(p, v) PROVE Types'
  <2>1. others' \in 0..MaxOthers
    BY <1>5 DEF OtherWrites, CountTypes
  <2>2. mem' \in [Profile -> Version]
    BY <1>5 DEF OtherWrites, Put, MouseTypes
  <2> QED BY <1>5, <2>1, <2>2
          DEF OtherWrites, MouseTypes, ServerTypes, FlagTypes, ViewTypes, CountTypes
<1>6. CASE UNCHANGED vars
  BY <1>6 DEF vars, MouseTypes, ServerTypes, FlagTypes, ViewTypes, CountTypes
<1> QED BY <1>1, <1>2, <1>3, <1>4, <1>5, <1>6, UserTypes, ReadTypes, HandleTypes DEF Next

-----------------------------------------------------------------------------
(* The steps kept for undo. *)

(* A memory is not an empty sequence, since there are profiles.            *)
LEMMA MemoryIsNotEmpty == \A m \in [Profile -> Version] : m # <<>>
<1> SUFFICES ASSUME <<>> \in [Profile -> Version] PROVE FALSE
  OBVIOUS
<1>1. DOMAIN <<>> = {}
  BY EmptySeq, LenProperties
<1> QED BY <1>1, ProfileAssumption

LEMMA StackRests ==
    ASSUME StackInv, UNCHANGED <<mem, backup, stack, foreign>> PROVE StackInv'
  BY DEF StackInv, Oldest

LEMMA StackEmptied == ASSUME backup' = <<>> /\ stack' = <<>> PROVE StackInv'
  BY DEF StackInv

(* Sending starts a process, with nothing to undo, or leaves the one there *)
(* is.                                                                     *)
LEMMA SendKeepsStack ==
    ASSUME StackInv, NEW r, Send(r), UNCHANGED <<mem, foreign>> PROVE StackInv'
  BY StackRests, StackEmptied DEF Send

(* A step of a profile is put on what led to the backup.                   *)
LEMMA StepKept ==
    ASSUME Types, StackInv, NEW p \in Profile, NEW v \in Version, EnsureBackup, Put(p, v),
           stack' = Append(stack, [profile |-> p, previous |-> mem[p]]), UNCHANGED foreign
    PROVE  StackInv'
<1> DEFINE step == [profile |-> p, previous |-> mem[p]]
           n == Len(stack) + 1
<1>1. mem \in [Profile -> Version] /\ stack \in Seq(UndoStep) /\ step \in UndoStep
      /\ backup \in {<<>>} \cup [Profile -> Version]
  BY DEF Types, MouseTypes, ServerTypes, UndoStep
<1>2. /\ n \in Nat \ {0} /\ DOMAIN stack = 1..(n - 1) /\ DOMAIN stack' = 1..n
      /\ (\A i \in DOMAIN stack : stack'[i] = stack[i]) /\ stack'[n] = step
  BY <1>1, Joined
<1>3. backup' # <<>>
  BY <1>1, MemoryIsNotEmpty DEF EnsureBackup
<1>4. ASSUME ~foreign', NEW q \in Profile
      PROVE  /\ \A i \in DOMAIN stack' : Oldest(q, i)' => stack'[i].previous = backup'[q]
             /\ (\A i \in DOMAIN stack' : stack'[i].profile # q) => mem'[q] = backup'[q]
  <2>1. /\ \A i \in DOMAIN stack : Oldest(q, i) => stack[i].previous = backup'[q]
        /\ (\A i \in DOMAIN stack : stack[i].profile # q) => mem[q] = backup'[q]
    <3>1. CASE backup = <<>>
      <4>1. DOMAIN stack = {}
        BY <3>1, EmptySeq, LenProperties DEF StackInv
      <4> QED BY <3>1, <4>1 DEF EnsureBackup
    <3>2. CASE backup # <<>>
      BY <1>4, <3>2 DEF StackInv, EnsureBackup
    <3> QED BY <3>1, <3>2
  <2>2. ASSUME NEW i \in DOMAIN stack', Oldest(q, i)' PROVE stack'[i].previous = backup'[q]
    <3>1. stack'[i].profile = q /\ \A j \in DOMAIN stack' : stack'[j].profile = q => i <= j
      BY <2>2 DEF Oldest
    <3>2. CASE i = n
      <4>1. p = q
        BY <1>2, <3>1, <3>2
      <4>2. \A j \in DOMAIN stack : stack[j].profile # q
        BY <1>2, <3>1, <3>2
      <4> QED BY <1>2, <2>1, <3>2, <4>1, <4>2
    <3>3. CASE i # n
      <4>1. i \in DOMAIN stack
        BY <1>2, <3>3
      <4>2. Oldest(q, i)
        BY <1>2, <3>1, <4>1 DEF Oldest
      <4> QED BY <1>2, <2>1, <4>1, <4>2
    <3> QED BY <3>2, <3>3
  <2>3. ASSUME \A i \in DOMAIN stack' : stack'[i].profile # q PROVE mem'[q] = backup'[q]
    <3>1. p # q
      BY <1>2, <2>3
    <3>2. \A i \in DOMAIN stack : stack[i].profile # q
      BY <1>2, <2>3
    <3> QED BY <1>1, <2>1, <3>1, <3>2 DEF Put
  <2> QED BY <2>2, <2>3
<1> QED BY <1>3, <1>4 DEF StackInv

(* The last step is taken back, and kept or not.                           *)
LEMMA StepTaken ==
    ASSUME Types, StackInv, stack # <<>>,
           Put(Last(stack).profile, Last(stack).previous),
           stack' = Front(stack) \/ stack' = stack, UNCHANGED <<backup, foreign>>
    PROVE  StackInv'
<1> DEFINE n == Len(stack)
           p == stack[n].profile
<1>1. mem \in [Profile -> Version] /\ stack \in Seq(UndoStep)
  BY DEF Types, MouseTypes, ServerTypes
<1>2. /\ n \in Nat \ {0} /\ DOMAIN stack = 1..n /\ Last(stack) = stack[n]
      /\ \A i \in 1..(n - 1) : Front(stack)[i] = stack[i]
      /\ DOMAIN Front(stack) = 1..(n - 1)
  BY <1>1, Popped, LenProperties
<1>3. mem' = [mem EXCEPT ![p] = stack[n].previous]
  BY <1>2 DEF Put
<1>4. DOMAIN stack' \in {1..n, 1..(n - 1)} /\ \A i \in DOMAIN stack' : stack'[i] = stack[i]
  BY <1>2
<1>5. backup # <<>>
  BY DEF StackInv
<1> HIDE DEF p
<1>6. ASSUME ~foreign', NEW q \in Profile
      PROVE  /\ \A i \in DOMAIN stack' : Oldest(q, i)' => stack'[i].previous = backup'[q]
             /\ (\A i \in DOMAIN stack' : stack'[i].profile # q) => mem'[q] = backup'[q]
  <2>1. /\ \A i \in DOMAIN stack : Oldest(q, i) => stack[i].previous = backup[q]
        /\ (\A i \in DOMAIN stack : stack[i].profile # q) => mem[q] = backup[q]
    BY <1>5, <1>6 DEF StackInv
  <2>2. ASSUME NEW i \in DOMAIN stack', Oldest(q, i)' PROVE stack'[i].previous = backup'[q]
    <3>1. stack'[i].profile = q /\ \A j \in DOMAIN stack' : stack'[j].profile = q => i <= j
      BY <2>2 DEF Oldest
    <3>2. i \in DOMAIN stack /\ \A j \in DOMAIN stack : stack[j].profile = q => i <= j
      BY <1>2, <1>4, <3>1
    <3>3. Oldest(q, i)
      BY <1>4, <3>1, <3>2 DEF Oldest
    <3> QED BY <1>4, <2>1, <3>2, <3>3
  <2>3. ASSUME \A i \in DOMAIN stack' : stack'[i].profile # q PROVE mem'[q] = backup'[q]
    <3>1. CASE p = q
      <4>1. n \notin DOMAIN stack' /\ \A i \in 1..(n - 1) : stack[i].profile # q
        BY <1>2, <1>4, <2>3, <3>1 DEF p
      <4>2. Oldest(q, n)
        BY <1>2, <3>1, <4>1 DEF Oldest, p
      <4> QED BY <1>1, <1>2, <1>3, <2>1, <3>1, <4>2
    <3>2. CASE p # q
      <4>1. \A i \in DOMAIN stack : stack[i].profile # q
        BY <1>2, <1>4, <2>3, <3>2 DEF p
      <4> QED BY <1>1, <1>3, <2>1, <3>2, <4>1
    <3> QED BY <3>1, <3>2
  <2> QED BY <2>2, <2>3
<1> QED BY <1>5, <1>6 DEF StackInv

(* The backup is made when there is none, and nothing else changes.        *)
LEMMA BackupMade ==
    ASSUME StackInv, EnsureBackup, UNCHANGED <<mem, stack, foreign>> PROVE StackInv'
<1>1. CASE backup # <<>>
  BY <1>1, StackRests DEF EnsureBackup
<1>2. CASE backup = <<>>
  <2>1. backup' = mem /\ stack' = <<>>
    BY <1>2 DEF EnsureBackup, StackInv
  <2>2. DOMAIN stack' = {}
    BY <2>1, EmptySeq, LenProperties
  <2> QED BY <2>1, <2>2 DEF StackInv
<1> QED BY <1>1, <1>2

(* Memory that changed without a step makes the stack lead nowhere.        *)
LEMMA ForeignWrite ==
    ASSUME StackInv, foreign' = TRUE, UNCHANGED stack, backup' = <<>> => backup = <<>>
    PROVE  StackInv'
  BY DEF StackInv

LEMMA ApplyKeepsStack ==
    ASSUME Types, StackInv, NEW p \in Profile, NEW v \in Version, Apply(p, v) PROVE StackInv'
<1>1. CASE UNCHANGED <<mem, backup, stack, foreign>>
  BY <1>1, StackRests
<1>2. CASE /\ EnsureBackup /\ Put(p, v) /\ UNCHANGED foreign
           /\ stack' = Append(stack, [profile |-> p, previous |-> mem[p]])
  BY <1>2, StepKept
<1>3. CASE EnsureBackup /\ UNCHANGED <<mem, stack, foreign>>
  BY <1>3, BackupMade
<1>4. CASE backup' # <<>> /\ foreign' = TRUE /\ UNCHANGED stack
  BY <1>4, ForeignWrite
<1> QED BY <1>1, <1>2, <1>3, <1>4, Zenon DEF Apply

LEMMA UndoKeepsStack == ASSUME Types, StackInv, UndoLast PROVE StackInv'
<1>1. CASE stack = <<>>
  BY <1>1, StackRests DEF UndoLast
<1>2. CASE stack # <<>>
  <2>1. /\ Put(Last(stack).profile, Last(stack).previous) \/ UNCHANGED <<mem, stack>>
        /\ stack' = Front(stack) \/ stack' = stack
        /\ UNCHANGED <<backup, foreign>>
    BY <1>2, Zenon DEF UndoLast
  <2> QED BY <1>2, <2>1, StepTaken, StackRests
<1> QED BY <1>1, <1>2

(* What the overlay does, sends a request or tells the server to stop.     *)
LEMMA UserKeepsStack == ASSUME StackInv, User PROVE StackInv'
<1>1. ASSUME NEW v \in Version, Edit(v) PROVE StackInv'
  BY <1>1, StackRests DEF Edit, serverVars
<1>2. ASSUME NEW p \in Profile, SelectProfile(p) PROVE StackInv'
  <2>1. UNCHANGED <<mem, foreign>>
        /\ (UNCHANGED serverVars \/ SendApply(cursor, draft))
    BY <1>2 DEF SelectProfile, history
  <2> QED BY <2>1, StackRests, SendKeepsStack DEF SendApply, serverVars
<1>3. ASSUME Undo PROVE StackInv'
  <2>1. UNCHANGED <<mem, foreign>> /\ (UNCHANGED serverVars \/ Send([cmd |-> "undo"]))
    BY <1>3 DEF Undo
  <2> QED BY <2>1, StackRests, SendKeepsStack DEF serverVars
<1>4. ASSUME Activate PROVE StackInv'
  BY <1>4, SendKeepsStack DEF Activate, history
<1>5. ASSUME Save PROVE StackInv'
  <2>1. UNCHANGED <<mem, foreign>> /\ (UNCHANGED serverVars \/ SendApply(cursor, draft))
    BY <1>5 DEF Save, history
  <2> QED BY <2>1, StackRests, SendKeepsStack DEF SendApply, serverVars
<1>6. ASSUME Close PROVE StackInv'
  BY <1>5, <1>6, StackRests DEF Close, serverVars, history
<1>7. ASSUME Refresh PROVE StackInv'
  <2>1. UNCHANGED <<mem, foreign>> /\ (UNCHANGED serverVars \/ Send([cmd |-> "state"]))
    BY <1>7 DEF Refresh, history
  <2> QED BY <2>1, StackRests, SendKeepsStack DEF serverVars
<1>8. ASSUME HandOver PROVE StackInv'
  BY <1>8, StackRests DEF HandOver, history
<1> QED BY <1>1, <1>2, <1>3, <1>4, <1>5, <1>6, <1>7, <1>8
        DEF User, SaveKey, Open, RefreshKey

LEMMA ReadKeepsStack == ASSUME StackInv, ReadReply PROVE StackInv'
<1> DEFINE r == Head(replies)
<1>1. UNCHANGED <<mem, foreign>>
  BY DEF ReadReply
<1>2. ASSUME NEW ok, NEW was, NEW now, NEW key, AfterWrite(ok, was, now, key) PROVE StackInv'
  <2>1. UNCHANGED serverVars \/ SendApply(cursor, now) \/ StopWhenIdle
    BY <1>2, Zenon DEF AfterWrite
  <2> QED BY <1>1, <2>1, StackRests, SendKeepsStack DEF SendApply, StopWhenIdle, serverVars
<1>3. ASSUME ApplyReply(r) PROVE StackInv'
  BY <1>2, <1>3, Zenon DEF ApplyReply
<1>4. ASSUME UndoReply(r) PROVE StackInv'
  BY <1>2, <1>4, Zenon DEF UndoReply
<1>5. ASSUME WriteError(r) PROVE StackInv'
  BY <1>2, <1>5, Zenon DEF WriteError
<1>6. ASSUME StateReply(r) \/ ActivateReply(r) PROVE StackInv'
  <2>1. UNCHANGED <<backup, stack>>
    BY <1>6, Zenon DEF StateReply, ActivateReply, StopWhenIdle, serverVars
  <2> QED BY <1>1, <2>1, StackRests
<1> QED BY <1>3, <1>4, <1>5, <1>6 DEF ReadReply

LEMMA StackKeeps == ASSUME Types, StackInv, [Next]_vars PROVE StackInv'
<1>1. CASE FinishClose
  BY <1>1, StackRests DEF FinishClose, StopWhenIdle, history
<1>2. CASE TimerFires
  <2>1. UNCHANGED <<mem, foreign>> /\ (UNCHANGED serverVars \/ SendApply(cursor, draft))
    BY <1>2 DEF TimerFires, Save, history
  <2> QED BY <2>1, StackRests, SendKeepsStack DEF SendApply, serverVars
<1>3. CASE Handle
  <2>1. CASE \E r \in Request : r.cmd = "apply" /\ Apply(r.profile, r.value)
    BY <2>1, RequestFacts, ApplyKeepsStack
  <2>2. CASE UndoLast
    BY <2>2, UndoKeepsStack
  <2>3. CASE ReadState \/ ActivateProfile
    BY <2>3, StackRests DEF ReadState, ActivateProfile
  <2>4. requests # <<>> => Head(requests) \in Request
    BY Read DEF Types, ServerTypes
  <2> QED BY <1>3, <2>1, <2>2, <2>3, <2>4 DEF Handle
<1>4. CASE ServerStops \/ ServerDies
  BY <1>4, StackEmptied DEF ServerStops, ServerDies, ServerExits
<1>5. ASSUME NEW p \in Profile, NEW v \in Version, OtherWrites(p, v) PROVE StackInv'
  BY <1>5, ForeignWrite DEF OtherWrites, serverVars
<1>6. CASE UNCHANGED vars
  BY <1>6, StackRests DEF vars, serverVars, history
<1> QED BY <1>1, <1>2, <1>3, <1>4, <1>5, <1>6, UserKeepsStack, ReadKeepsStack DEF Next

(* Some natural numbers have a least one.                                  *)
LEMMA LeastExists == ASSUME NEW S \in SUBSET Nat, S # {} PROVE \E x \in S : \A y \in S : x <= y
<1>1. PICK R : R = OpToRel(<, Nat)
  OBVIOUS
<1>2. IsWellFoundedOn(R, Nat)
  BY <1>1, NatLessThanWellFounded
<1>3. \A x, y \in Nat : <<y, x>> \in R <=> y < x
  BY <1>1 DEF OpToRel
<1>4. PICK x \in S : \A y \in S : ~(<<y, x>> \in R)
  BY <1>2, WFMin
<1>5. ASSUME NEW y \in S PROVE x <= y
  <2>1. x \in Nat /\ y \in Nat /\ ~(<<y, x>> \in R)
    BY <1>4
  <2>2. ~(y < x)
    BY <2>1, <1>3, Zenon
  <2> QED BY <2>1, <2>2
<1> QED BY <1>5

(* Taking back the last n steps leaves each profile what the oldest of     *)
(* them on it kept, or what the mouse holds.                               *)
Among(p, n) == { i \in DOMAIN stack : i > Len(stack) - n /\ stack[i].profile = p }
Least(S)    == CHOOSE i \in S : \A j \in S : i <= j
TakenBack   == [n \in 0..Len(stack) |->
                  [p \in Profile |-> IF Among(p, n) = {} THEN mem[p]
                                     ELSE stack[Least(Among(p, n))].previous]]

LEMMA OneMoreBack ==
    ASSUME Types, NEW n \in 1..Len(stack)
    PROVE  TakenBack[n] = LET step == stack[Len(stack) - n + 1]
                          IN  [TakenBack[n - 1] EXCEPT ![step.profile] = step.previous]
<1> DEFINE N == Len(stack)
           k == N - n + 1
<1>1. /\ N \in Nat /\ DOMAIN stack = 1..N /\ k \in DOMAIN stack /\ n \in 0..N /\ n - 1 \in 0..N
      /\ stack[k].profile \in Profile
  <2>1. stack \in Seq(UndoStep)
    BY DEF Types, ServerTypes
  <2>2. N \in Nat /\ DOMAIN stack = 1..N
    BY <2>1, LenProperties
  <2>3. k \in DOMAIN stack
    BY <2>2
  <2>4. stack[k] \in UndoStep
    BY <2>1, <2>2, <2>3, ElementOfSeq
  <2> QED BY <2>2, <2>3, <2>4 DEF UndoStep
<1>2. ASSUME NEW p \in Profile, p # stack[k].profile PROVE TakenBack[n][p] = TakenBack[n - 1][p]
  <2>1. Among(p, n) = Among(p, n - 1)
    <3>1. \A i \in DOMAIN stack : i > N - n <=> i > N - (n - 1) \/ i = k
      BY <1>1
    <3> QED BY <1>2, <3>1 DEF Among
  <2> QED BY <1>1, <2>1 DEF TakenBack
<1>3. TakenBack[n][stack[k].profile] = stack[k].previous
  <2> DEFINE S == Among(stack[k].profile, n)
  <2>1. k \in S /\ \A i \in S : k <= i /\ i \in Nat
    BY <1>1 DEF Among
  <2>2. Least(S) \in S /\ \A j \in S : Least(S) <= j
    BY <2>1, Zenon DEF Least
  <2>3. Least(S) = k
    <3> HIDE DEF S, k
    <3>1. Least(S) <= k /\ k <= Least(S) /\ Least(S) \in Nat /\ k \in Nat
      BY <2>1, <2>2
    <3> QED BY <3>1
  <2> QED BY <1>1, <2>1, <2>3 DEF TakenBack
<1>4. TakenBack[n] = [TakenBack[n - 1] EXCEPT ![stack[k].profile] = stack[k].previous]
  <2>1. /\ TakenBack[n] = [p \in Profile |-> TakenBack[n][p]]
        /\ TakenBack[n - 1] = [p \in Profile |-> TakenBack[n - 1][p]]
    BY <1>1 DEF TakenBack
  <2> HIDE DEF k
  <2> QED BY <1>1, <1>2, <1>3, <2>1
<1> QED BY <1>4

LEMMA NoneBack == ASSUME Types PROVE TakenBack[0] = mem
<1>1. Len(stack) \in Nat /\ DOMAIN stack = 1..Len(stack) /\ mem \in [Profile -> Version]
  BY LenProperties DEF Types, ServerTypes, MouseTypes
<1>2. \A p : Among(p, 0) = {}
  BY <1>1 DEF Among
<1> QED BY <1>1, <1>2 DEF TakenBack

(* Unwind takes the steps back one after another, and so is that.          *)
LEMMA UnwindIsTakenBack ==
    ASSUME Types PROVE \A n \in 0..Len(stack) : Unwind[n] = TakenBack[n]
<1> DEFINE N == Len(stack)
           Body(f) == [n \in 0..N |->
                         IF n = 0 THEN mem
                         ELSE LET step == stack[N - n + 1]
                              IN  [f[n - 1] EXCEPT ![step.profile] = step.previous]]
<1>0. N \in Nat
  BY LenProperties DEF Types, ServerTypes
<1>1. TakenBack = Body(TakenBack)
  <2>1. \A n \in 0..N : TakenBack[n] = Body(TakenBack)[n]
    BY <1>0, OneMoreBack, NoneBack
  <2>2. DOMAIN TakenBack = 0..N /\ TakenBack = [n \in 0..N |-> TakenBack[n]]
    BY DEF TakenBack
  <2>3. DOMAIN Body(TakenBack) = 0..N /\ Body(TakenBack) = [n \in 0..N |-> Body(TakenBack)[n]]
    OBVIOUS
  <2> QED BY <2>1, <2>2, <2>3
<1>2. Unwind = CHOOSE f : f = Body(f)
  BY DEF Unwind
<1>3. Unwind = Body(Unwind)
  BY <1>1, <1>2
<1>4. Unwind[0] = mem
      /\ \A n \in 1..N : Unwind[n] = LET step == stack[N - n + 1]
                                     IN  [Unwind[n - 1] EXCEPT ![step.profile] = step.previous]
  <2>1. ASSUME NEW f
        PROVE  /\ Body(f)[0] = mem
               /\ \A n \in 1..N :
                    Body(f)[n] = LET step == stack[N - n + 1]
                                 IN  [f[n - 1] EXCEPT ![step.profile] = step.previous]
    BY <1>0
  <2> HIDE DEF Body
  <2>2. \A n : Unwind[n] = Body(Unwind)[n]
    BY <1>3
  <2> QED BY <2>1, <2>2
<1> HIDE DEF Body
<1> DEFINE Bad == {n \in 0..N : Unwind[n] # TakenBack[n]}
<1>5. ASSUME Bad # {} PROVE FALSE
  <2>1. Bad \in SUBSET Nat
    BY <1>0
  <2>2. PICK n \in Bad : \A m \in Bad : n <= m
    BY <1>5, <2>1, LeastExists
  <2>3. n # 0
    BY <1>4, <2>2, NoneBack
  <2>4. n \in 1..N /\ n - 1 \in 0..N /\ n - 1 \notin Bad
    BY <1>0, <2>2, <2>3
  <2>5. Unwind[n - 1] = TakenBack[n - 1]
    BY <2>4
  <2> QED BY <1>4, <2>2, <2>4, <2>5, OneMoreBack
<1> QED BY <1>5

(* What StackInv says of the oldest steps is what undoing them all brings. *)
LEMMA StackLeadsBack == ASSUME Types, StackInv PROVE UndoReachesBackup
<1> SUFFICES ASSUME backup # <<>>, ~foreign PROVE Unwind[Len(stack)] = backup
  BY DEF UndoReachesBackup
<1> DEFINE N == Len(stack)
<1>1. /\ N \in Nat /\ DOMAIN stack = 1..N /\ N \in 0..N
      /\ backup \in [Profile -> Version]
  <2>1. N \in Nat /\ DOMAIN stack = 1..N
    BY LenProperties DEF Types, ServerTypes
  <2> QED BY <2>1 DEF Types, ServerTypes
<1>2. ASSUME NEW p \in Profile PROVE TakenBack[N][p] = backup[p]
  <2>1. Among(p, N) = { i \in DOMAIN stack : stack[i].profile = p }
    BY <1>1 DEF Among
  <2>2. CASE Among(p, N) = {}
    BY <1>1, <2>1, <2>2 DEF TakenBack, StackInv
  <2>3. CASE Among(p, N) # {}
    <3> DEFINE S == Among(p, N)
    <3>1. S \in SUBSET Nat
      BY <1>1, <2>1
    <3>2. \E i \in S : \A j \in S : i <= j
      BY <2>3, <3>1, LeastExists
    <3>3. Least(S) \in S /\ \A j \in S : Least(S) <= j
      BY <3>2, Zenon DEF Least
    <3>4. Oldest(p, Least(S))
      BY <2>1, <3>3 DEF Oldest
    <3>5. stack[Least(S)].previous = backup[p]
      BY <2>1, <3>3, <3>4 DEF StackInv
    <3> QED BY <1>1, <2>3, <3>5 DEF TakenBack
  <2> QED BY <2>2, <2>3
<1>3. TakenBack[N] = [p \in Profile |-> TakenBack[N][p]]
  BY <1>1 DEF TakenBack
<1>4. TakenBack[N] = backup
  BY <1>1, <1>2, <1>3
<1> QED BY <1>1, <1>4, UnwindIsTakenBack

-----------------------------------------------------------------------------
(* One write in flight. *)

NoneSent     == \A i \in DOMAIN requests : ~IsWrite(requests[i].cmd)
NoneAnswered == \A i \in DOMAIN replies : ~IsWrite(replies[i].to)

(* While the overlay waits for no write, none is in flight.                *)
LEMMA Idle == ASSUME PipeInv, ~busy PROVE NoneSent /\ NoneAnswered
  BY DEF PipeInv, busy, NoneSent, NoneAnswered, IsWrite, Sent, Answered

LEMMA PipeRests ==
    ASSUME PipeInv, UNCHANGED <<requests, replies, saving, undoing>>,
           UNCHANGED cursor \/ ~busy
    PROVE  PipeInv'
<1>1. CASE UNCHANGED cursor
  BY <1>1 DEF PipeInv, Sent, Answered
<1>2. CASE ~busy
  <2>1. NoneSent /\ NoneAnswered
    BY <1>2, Idle
  <2> QED BY <2>1 DEF PipeInv, Sent, Answered, NoneSent, NoneAnswered, IsWrite
<1> QED BY <1>1, <1>2

LEMMA PipeIdle ==
    ASSUME NoneSent', NoneAnswered', saving' = FALSE, undoing' = FALSE PROVE PipeInv'
  BY DEF PipeInv, Sent, Answered, NoneSent, NoneAnswered, IsWrite

(* A write is sent while none is in flight.                                *)
LEMMA WriteSent ==
    ASSUME Types, NoneSent, NoneAnswered', NEW r \in Request, requests' = Append(requests, r),
           \/ r.cmd = "apply" /\ r.profile = cursor' /\ saving' = TRUE /\ undoing' = FALSE
           \/ r.cmd = "undo" /\ saving' = FALSE /\ undoing' = TRUE
    PROVE  PipeInv'
<1> DEFINE n == Len(requests) + 1
<1>1. requests \in Seq(Request)
  BY DEF Types, ServerTypes
<1>2. /\ n \in Nat /\ DOMAIN requests = 1..(n - 1) /\ DOMAIN requests' = 1..n
      /\ \A i \in DOMAIN requests : requests'[i] = requests[i]
      /\ requests'[n] = r
  BY <1>1, Joined
<1>3. n \in DOMAIN requests' /\ \A i \in DOMAIN requests' : i = n \/ i \in DOMAIN requests
  BY <1>2
<1>4. \A i \in DOMAIN requests' : IsWrite(requests'[i].cmd) => i = n
  BY <1>2, <1>3 DEF NoneSent
<1>5. \A i \in DOMAIN replies' : ~IsWrite(replies'[i].to)
  BY DEF NoneAnswered
<1> HIDE DEF n
<1> QED BY <1>2, <1>3, <1>4, <1>5 DEF PipeInv, Sent, Answered, IsWrite

(* Another request is sent.                                                *)
LEMMA OtherSent ==
    ASSUME Types, PipeInv, NEW r \in Request, requests' = Append(requests, r), ~IsWrite(r.cmd),
           UNCHANGED <<replies, saving, undoing, cursor>>
    PROVE  PipeInv'
<1> DEFINE n == Len(requests) + 1
<1>1. requests \in Seq(Request)
  BY DEF Types, ServerTypes
<1>2. /\ n \in Nat /\ DOMAIN requests = 1..(n - 1) /\ DOMAIN requests' = 1..n
      /\ \A i \in DOMAIN requests : requests'[i] = requests[i]
      /\ requests'[n] = r
  BY <1>1, Joined
<1>3. \A i \in DOMAIN requests' : IsWrite(requests'[i].cmd) => i \in DOMAIN requests
  BY <1>2
<1>4. \A i \in DOMAIN requests : i \in DOMAIN requests'
  BY <1>2
<1>5. \A c \in {"apply", "undo"} : Sent(c)' <=> Sent(c)
  BY <1>2, <1>3, <1>4 DEF Sent, IsWrite
<1>6. \A i \in DOMAIN requests' : requests'[i].cmd = "apply" => i \in DOMAIN requests
  BY <1>3 DEF IsWrite
<1> HIDE DEF n
<1> QED BY <1>2, <1>3, <1>4, <1>5, <1>6 DEF PipeInv, Answered

(* A request is answered: the oldest one leaves the requests, and its      *)
(* answer joins the replies.                                               *)
LEMMA RequestAnswered ==
    ASSUME Types, PipeInv, requests # <<>>, NEW a \in Reply, Answer(a),
           a.to = Head(requests).cmd, a.to = "apply" => a.profile = Head(requests).profile,
           UNCHANGED <<saving, undoing, cursor>>
    PROVE  PipeInv'
<1> DEFINE n == Len(replies) + 1
<1>1. requests \in Seq(Request) /\ replies \in Seq(Reply)
  BY DEF Types, ServerTypes
<1>2. /\ n \in Nat /\ DOMAIN replies = 1..(n - 1) /\ DOMAIN replies' = 1..n
      /\ \A i \in DOMAIN replies : replies'[i] = replies[i]
      /\ replies'[n] = a
  BY <1>1, Joined DEF Answer
<1>3. /\ Len(requests) \in Nat \ {0} /\ DOMAIN requests = 1..Len(requests)
      /\ DOMAIN requests' = 1..(Len(requests) - 1)
      /\ \A i \in DOMAIN requests' : requests'[i] = requests[i + 1]
      /\ Head(requests) = requests[1]
  BY <1>1, Read DEF Answer
<1>4. /\ n \in DOMAIN replies' /\ \A i \in DOMAIN replies' : i = n \/ i \in DOMAIN replies
      /\ \A i \in DOMAIN replies : i \in DOMAIN replies'
      /\ n \notin DOMAIN replies
  BY <1>2
<1>5. /\ 1 \in DOMAIN requests
      /\ \A i \in DOMAIN requests' : i + 1 \in DOMAIN requests /\ i + 1 # 1
      /\ \A i \in DOMAIN requests : i = 1 \/ (i - 1 \in DOMAIN requests' /\ i = (i - 1) + 1)
      /\ \A i, j \in DOMAIN requests' : i + 1 = j + 1 => i = j
  BY <1>3
<1>6. \A c : Sent(c) \/ Answered(c) <=> Sent(c)' \/ Answered(c)'
  <2>1. ASSUME NEW c, Sent(c) PROVE Sent(c)' \/ Answered(c)'
    <3>1. PICK i \in DOMAIN requests : requests[i].cmd = c
      BY <2>1 DEF Sent
    <3>2. CASE i = 1
      BY <1>2, <1>3, <1>4, <3>1, <3>2 DEF Answered
    <3>3. CASE i # 1
      <4>1. i - 1 \in DOMAIN requests' /\ requests'[i - 1] = requests[i]
        BY <1>3, <1>5, <3>3
      <4> QED BY <3>1, <4>1 DEF Sent
    <3> QED BY <3>2, <3>3
  <2>2. ASSUME NEW c, Answered(c) PROVE Answered(c)'
    BY <1>2, <1>4, <2>2 DEF Answered
  <2>3. ASSUME NEW c, Sent(c)' PROVE Sent(c)
    BY <1>3, <1>5, <2>3 DEF Sent
  <2>4. ASSUME NEW c, Answered(c)' PROVE Sent(c) \/ Answered(c)
    <3>1. PICK i \in DOMAIN replies' : replies'[i].to = c
      BY <2>4 DEF Answered
    <3>2. CASE i = n
      <4>1. requests[1].cmd = c
        BY <1>2, <1>3, <3>1, <3>2
      <4> QED BY <1>5, <4>1 DEF Sent
    <3>3. CASE i \in DOMAIN replies
      BY <1>2, <3>1, <3>3 DEF Answered
    <3> QED BY <1>4, <3>2, <3>3
  <2> QED BY <2>1, <2>2, <2>3, <2>4
<1> HIDE DEF n
<1>7. \A i, j \in DOMAIN requests' :
         IsWrite(requests'[i].cmd) /\ IsWrite(requests'[j].cmd) => i = j
  BY <1>3, <1>5 DEF PipeInv
<1>8. \A i, j \in DOMAIN replies' : IsWrite(replies'[i].to) /\ IsWrite(replies'[j].to) => i = j
  BY <1>2, <1>3, <1>4, <1>5 DEF PipeInv
<1>9. \A i \in DOMAIN requests', j \in DOMAIN replies' :
         ~(IsWrite(requests'[i].cmd) /\ IsWrite(replies'[j].to))
  <2>1. ASSUME NEW i \in DOMAIN requests', NEW j \in DOMAIN replies',
               IsWrite(requests'[i].cmd), IsWrite(replies'[j].to)
        PROVE  FALSE
    <3>1. i + 1 \in DOMAIN requests /\ i + 1 # 1 /\ IsWrite(requests[i + 1].cmd)
      BY <1>3, <1>5, <2>1
    <3>2. CASE j = n
      <4>1. IsWrite(requests[1].cmd)
        BY <1>2, <1>3, <2>1, <3>2
      <4> QED BY <1>5, <3>1, <4>1 DEF PipeInv
    <3>3. CASE j \in DOMAIN replies
      BY <1>2, <2>1, <3>1, <3>3 DEF PipeInv
    <3> QED BY <1>4, <3>2, <3>3
  <2> QED BY <2>1
<1>10. /\ \A i \in DOMAIN requests' : requests'[i].cmd = "apply" => requests'[i].profile = cursor
       /\ \A i \in DOMAIN replies' : replies'[i].to = "apply" => replies'[i].profile = cursor
  BY <1>2, <1>3, <1>4, <1>5 DEF PipeInv
<1> QED BY <1>6, <1>7, <1>8, <1>9, <1>10 DEF PipeInv

(* A reply is read that is not of a write.                                 *)
LEMMA OtherRead ==
    ASSUME Types, PipeInv, replies # <<>>, replies' = Tail(replies), UNCHANGED requests,
           ~IsWrite(Head(replies).to), UNCHANGED <<saving, undoing>>,
           UNCHANGED cursor \/ ~busy
    PROVE  PipeInv'
<1>1. replies \in Seq(Reply)
  BY DEF Types, ServerTypes
<1>2. /\ Len(replies) \in Nat \ {0} /\ DOMAIN replies = 1..Len(replies)
      /\ DOMAIN replies' = 1..(Len(replies) - 1)
      /\ \A i \in DOMAIN replies' : replies'[i] = replies[i + 1]
      /\ Head(replies) = replies[1]
  BY <1>1, Read
<1>3. /\ \A i \in DOMAIN replies' : i + 1 \in DOMAIN replies
      /\ \A i \in DOMAIN replies : i = 1 \/ (i - 1 \in DOMAIN replies' /\ i = (i - 1) + 1)
      /\ \A i, j \in DOMAIN replies' : i + 1 = j + 1 => i = j
  BY <1>2
<1>4. \A c \in {"apply", "undo"} : Answered(c) <=> Answered(c)'
  <2>1. ASSUME NEW c \in {"apply", "undo"}, Answered(c) PROVE Answered(c)'
    <3>1. PICK i \in DOMAIN replies : replies[i].to = c
      BY <2>1 DEF Answered
    <3>2. i # 1
      BY <1>2, <3>1 DEF IsWrite
    <3>3. i - 1 \in DOMAIN replies' /\ replies'[i - 1] = replies[i]
      BY <1>2, <1>3, <3>2
    <3> QED BY <3>1, <3>3 DEF Answered
  <2>2. ASSUME NEW c, Answered(c)' PROVE Answered(c)
    BY <1>2, <1>3, <2>2 DEF Answered
  <2> QED BY <2>1, <2>2
<1>5. UNCHANGED cursor \/ (NoneSent /\ NoneAnswered)
  BY Idle
<1>6. \A c : Sent(c) <=> Sent(c)'
  BY DEF Sent
<1>7. \A i, j \in DOMAIN replies' : IsWrite(replies'[i].to) /\ IsWrite(replies'[j].to) => i = j
  BY <1>2, <1>3 DEF PipeInv
<1>8. \A i \in DOMAIN requests, j \in DOMAIN replies' :
         ~(IsWrite(requests[i].cmd) /\ IsWrite(replies'[j].to))
  BY <1>2, <1>3 DEF PipeInv
<1>9. /\ \A i \in DOMAIN requests : requests[i].cmd = "apply" => requests[i].profile = cursor'
      /\ \A i \in DOMAIN replies' : replies'[i].to = "apply" => replies'[i].profile = cursor'
  BY <1>2, <1>3, <1>5 DEF PipeInv, NoneSent, NoneAnswered, IsWrite
<1> QED BY <1>4, <1>6, <1>7, <1>8, <1>9 DEF PipeInv

(* The reply to a write is read: nothing is in flight any more.            *)
LEMMA WriteRead ==
    ASSUME Types, PipeInv, replies # <<>>, replies' = Tail(replies), IsWrite(Head(replies).to)
    PROVE  NoneSent /\ NoneAnswered'
<1>1. replies \in Seq(Reply)
  BY DEF Types, ServerTypes
<1>2. /\ Len(replies) \in Nat \ {0} /\ DOMAIN replies = 1..Len(replies)
      /\ DOMAIN replies' = 1..(Len(replies) - 1)
      /\ \A i \in DOMAIN replies' : replies'[i] = replies[i + 1]
      /\ Head(replies) = replies[1]
  BY <1>1, Read
<1>3. /\ 1 \in DOMAIN replies
      /\ \A i \in DOMAIN replies' : i + 1 \in DOMAIN replies /\ i + 1 # 1
  BY <1>2
<1> QED BY <1>2, <1>3 DEF PipeInv, NoneSent, NoneAnswered

(* A save is sent while no write is in flight.                             *)
LEMMA SaveSent ==
    ASSUME Types, NoneSent, NoneAnswered', SendApply(cursor, draft'), draft' \in Version,
           undoing' = FALSE, UNCHANGED cursor
    PROVE  PipeInv'
<1> DEFINE r == [cmd |-> "apply", profile |-> cursor, value |-> draft']
<1>1. r \in Request
  BY RequestFacts DEF Types, ViewTypes
<1>2. requests' = Append(requests, r) /\ saving' = TRUE
  BY DEF SendApply, Send
<1> QED BY <1>1, <1>2, WriteSent

LEMMA UserKeepsPipe == ASSUME Types, PipeInv, User PROVE PipeInv'
<1> USE DEF serverVars, history, bounds
<1>0. draft \in Version /\ undoing \in BOOLEAN /\ saving \in BOOLEAN
  BY DEF Types, ViewTypes, FlagTypes
<1>1. ASSUME NEW v \in Version, Edit(v) PROVE PipeInv'
  BY <1>1, PipeRests DEF Edit
<1>2. ASSUME NEW p \in Profile, SelectProfile(p) PROVE PipeInv'
  <2>1. CASE busy
    BY <1>2, <2>1, PipeRests DEF SelectProfile
  <2>2. CASE ~busy /\ Unsaved
    <3>1. SendApply(cursor, draft) /\ UNCHANGED <<cursor, draft, replies, undoing>>
      BY <1>2, <2>2 DEF SelectProfile
    <3>2. NoneSent /\ NoneAnswered' /\ undoing' = FALSE
      BY <2>2, <3>1, Idle, <1>0 DEF NoneAnswered, busy
    <3> QED BY <1>0, <3>1, <3>2, SaveSent
  <2>3. CASE ~busy /\ ~Unsaved
    BY <1>2, <2>3, PipeRests DEF SelectProfile
  <2> QED BY <2>1, <2>2, <2>3
<1>3. ASSUME Undo PROVE PipeInv'
  <2>1. CASE dirty
    BY <1>3, <2>1, PipeRests DEF Undo
  <2>2. CASE ~dirty
    <3>1. /\ requests' = Append(requests, [cmd |-> "undo"]) /\ undoing' = TRUE
          /\ UNCHANGED <<cursor, replies, saving>> /\ ~busy
      BY <1>3, <2>2 DEF Undo, Send
    <3>2. NoneSent /\ NoneAnswered' /\ saving' = FALSE
      BY <3>1, Idle, <1>0 DEF NoneAnswered, busy
    <3>3. [cmd |-> "undo"] \in Request
      BY RequestFacts
    <3> QED BY <3>1, <3>2, <3>3, WriteSent
  <2> QED BY <2>1, <2>2
<1>4. ASSUME Activate PROVE PipeInv'
  <2>1. requests' = Append(requests, [cmd |-> "activate"])
        /\ UNCHANGED <<cursor, replies, saving, undoing>>
    BY <1>4 DEF Activate, Send, overlayVars
  <2> QED BY <2>1, RequestFacts, OtherSent DEF IsWrite
<1>5. ASSUME Refresh PROVE PipeInv'
  <2>1. CASE loading
    BY <1>5, <2>1, PipeRests DEF Refresh
  <2>2. CASE ~loading
    <3>1. requests' = Append(requests, [cmd |-> "state"])
          /\ UNCHANGED <<cursor, replies, saving, undoing>>
      BY <1>5, <2>2 DEF Refresh, Send
    <3> QED BY <3>1, RequestFacts, OtherSent DEF IsWrite
  <2> QED BY <2>1, <2>2
<1>6. ASSUME HandOver PROVE PipeInv'
  <2>1. CASE timer /\ ~busy /\ Unsaved
    <3> DEFINE r == [cmd |-> "apply", profile |-> cursor, value |-> draft]
    <3>1. /\ requests' = Append(requests, r) /\ saving' = TRUE
          /\ UNCHANGED <<cursor, replies, undoing>>
      BY <1>6, <2>1 DEF HandOver
    <3>2. NoneSent /\ NoneAnswered' /\ undoing' = FALSE
      BY <2>1, <3>1, Idle, <1>0 DEF NoneAnswered, busy
    <3>3. r \in Request
      BY RequestFacts DEF Types, ViewTypes
    <3> QED BY <3>1, <3>2, <3>3, WriteSent
  <2>2. CASE ~(timer /\ ~busy /\ Unsaved)
    BY <1>6, <2>2, PipeRests DEF HandOver
  <2> QED BY <2>1, <2>2
<1>7. ASSUME Save PROVE PipeInv'
  <2>1. CASE ~busy /\ Unsaved
    <3>1. SendApply(cursor, draft) /\ UNCHANGED <<cursor, draft, replies, undoing>>
      BY <1>7, <2>1 DEF Save
    <3>2. NoneSent /\ NoneAnswered' /\ undoing' = FALSE
      BY <2>1, <3>1, Idle, <1>0 DEF NoneAnswered, busy
    <3> QED BY <1>0, <3>1, <3>2, SaveSent
  <2>2. CASE ~(~busy /\ Unsaved)
    BY <1>7, <2>2, PipeRests DEF Save
  <2> QED BY <2>1, <2>2
<1>8. ASSUME Close PROVE PipeInv'
  BY <1>7, <1>8, PipeRests DEF Close
<1> QED BY <1>1, <1>2, <1>3, <1>4, <1>5, <1>6, <1>7, <1>8 DEF User, SaveKey, Open, RefreshKey

(* After a write nothing is in flight, or the next save is.                *)
LEMMA AfterKeepsPipe ==
    ASSUME Types, NoneSent, NoneAnswered', undoing' = FALSE,
           NEW ok, NEW was, NEW now \in Version, NEW key, AfterWrite(ok, was, now, key)
    PROVE  PipeInv'
<1>1. CASE SendApply(cursor, now) /\ draft' = now /\ UNCHANGED cursor
  BY <1>1, SaveSent
<1>2. CASE saving' = FALSE /\ UNCHANGED requests
  BY <1>2, PipeIdle DEF NoneSent
<1>3. \/ SendApply(cursor, now) /\ draft' = now /\ UNCHANGED cursor
      \/ saving' = FALSE /\ UNCHANGED serverVars
      \/ saving' = FALSE /\ StopWhenIdle
  BY Zenon DEF AfterWrite
<1> QED BY <1>1, <1>2, <1>3 DEF StopWhenIdle, serverVars

LEMMA ReadKeepsPipe == ASSUME Types, PipeInv, ReadReply PROVE PipeInv'
<1> DEFINE r == Head(replies)
<1> USE DEF serverVars
<1>0. /\ r \in Reply /\ replies # <<>> /\ replies' = Tail(replies)
      /\ draft \in Version /\ undoing \in BOOLEAN /\ saving \in BOOLEAN
  BY Read DEF ReadReply, Types, ServerTypes, ViewTypes, FlagTypes
<1> HIDE DEF r
<1>1. ASSUME IsWrite(r.to) PROVE NoneSent /\ NoneAnswered'
  BY <1>0, <1>1, WriteRead DEF r
<1>2. IsWrite(r.to) => (r.to = "apply" => ~undoing) /\ (r.to = "undo" => ~saving)
  <2>1. /\ Len(replies) \in Nat \ {0} /\ DOMAIN replies = 1..Len(replies) /\ r = replies[1]
    BY <1>0, Read DEF r, Types, ServerTypes
  <2>2. 1 \in DOMAIN replies
    BY <2>1
  <2> QED BY <2>1, <2>2 DEF PipeInv, Sent, Answered, IsWrite
<1>3. ASSUME ApplyReply(r) PROVE PipeInv'
  <2>1. undoing' = FALSE /\ IsWrite(r.to)
    BY <1>0, <1>2, <1>3 DEF ApplyReply, IsWrite
  <2>2. PICK was, key : AfterWrite(TRUE, was, draft, key)
    BY <1>3, Zenon DEF ApplyReply
  <2> QED BY <1>0, <1>1, <2>1, <2>2, AfterKeepsPipe
<1>4. ASSUME UndoReply(r) PROVE PipeInv'
  <2>1. undoing' = FALSE /\ IsWrite(r.to) /\ r.value \in Version
    BY <1>0, <1>4, ReplyFacts DEF UndoReply, IsWrite
  <2>2. AfterWrite(TRUE, r.value, r.value, NoSave) \/ AfterWrite(TRUE, original, draft, NoSave)
    BY <1>4, Zenon DEF UndoReply
  <2> QED BY <1>0, <1>1, <2>1, <2>2, AfterKeepsPipe
<1>5. ASSUME WriteError(r) PROVE PipeInv'
  <2>1. undoing' = FALSE /\ IsWrite(r.to) /\ AfterWrite(FALSE, original, draft, unchanged)
    BY <1>0, <1>2, <1>5 DEF WriteError, IsWrite
  <2> QED BY <1>0, <1>1, <2>1, AfterKeepsPipe
<1>6. ASSUME StateReply(r) \/ ActivateReply(r) PROVE PipeInv'
  <2>1. /\ UNCHANGED <<saving, undoing, requests>> /\ ~IsWrite(r.to)
        /\ UNCHANGED cursor \/ ~busy
    BY <1>6 DEF StateReply, ActivateReply, StopWhenIdle, IsWrite, LoadDraft
  <2> QED BY <1>0, <2>1, OtherRead DEF r
<1> QED BY <1>3, <1>4, <1>5, <1>6 DEF ReadReply, r

(* The server answers what it was asked.                                   *)
LEMMA HandleAnswers ==
    ASSUME Types, Handle
    PROVE  \E a \in Reply : /\ Answer(a) /\ a.to = Head(requests).cmd
                            /\ a.to = "apply" => a.profile = Head(requests).profile
<1> DEFINE r == Head(requests)
<1>0. r \in Request /\ requests # <<>>
  BY Read DEF Handle, Types, ServerTypes
<1>1. ASSUME NEW c \in {"apply", "undo", "state", "activate"},
             NEW p \in Profile \cup {NoProfile}, Refuse(c, p)
      PROVE  \E a \in Reply : Answer(a) /\ a.to = c /\ a.profile = p
  BY <1>1, Replied DEF Refuse
<1>2. ASSUME NEW c \in {"apply", "undo"}, NEW p \in Profile, NEW v \in Version,
             NEW e \in BOOLEAN, Report(c, p, v, e), stack' \in Seq(UndoStep)
      PROVE  \E a \in Reply : Answer(a) /\ a.to = c /\ a.profile = p
  <2>1. Len(stack') \in Nat
    BY <1>2, LenProperties
  <2> QED BY <1>2, <2>1, Replied DEF Report
<1>3. CASE r.cmd = "apply" /\ Apply(r.profile, r.value)
  <2>1. r.profile \in Profile /\ r.value \in Version
    BY <1>0, <1>3, RequestFacts
  <2>2. stack' \in Seq(UndoStep)
    BY <1>0, <1>3, <2>1, ApplyTypes
  <2>3. Refuse("apply", r.profile) \/ Report("apply", r.profile, r.value, TRUE)
                                   \/ Report("apply", r.profile, r.value, FALSE)
    BY <1>3, Zenon DEF Apply
  <2> HIDE DEF r
  <2>4. \E a \in Reply : Answer(a) /\ a.to = "apply" /\ a.profile = r.profile
    BY <1>1, <1>2, <2>1, <2>2, <2>3
  <2> QED BY <1>3, <2>4 DEF r
<1>4. CASE r.cmd = "undo" /\ UndoLast
  <2>1. stack' \in Seq(UndoStep)
    BY <1>0, <1>4, UndoTypes
  <2>2. CASE stack = <<>>
    <3>1. Refuse("undo", NoProfile)
      BY <1>4, <2>2 DEF UndoLast
    <3> DEFINE a == [to |-> "undo", ok |-> FALSE, profile |-> NoProfile]
    <3>2. a \in Reply
      BY Replied
    <3>3. Answer(a)
      BY <3>1 DEF Refuse
    <3> QED BY <1>4, <3>2, <3>3
  <2>3. CASE stack # <<>>
    <3> DEFINE step == Last(stack)
    <3>1. step.profile \in Profile /\ step.previous \in Version
      <4>1. step \in UndoStep
        BY <2>3, Popped DEF Types, ServerTypes
      <4> QED BY <4>1 DEF UndoStep
    <3>2. Refuse("undo", step.profile)
          \/ Report("undo", step.profile, step.previous, mem[step.profile] # step.previous)
      BY <1>4, <2>3, Zenon DEF UndoLast
    <3> HIDE DEF step
    <3>3. \E a \in Reply : Answer(a) /\ a.to = "undo"
      <4>1. CASE Refuse("undo", step.profile)
        BY <1>1, <3>1, <4>1
      <4>2. CASE Report("undo", step.profile, step.previous, mem[step.profile] # step.previous)
        <5> DEFINE e == mem[step.profile] # step.previous
        <5>1. e \in BOOLEAN
          OBVIOUS
        <5>2. Report("undo", step.profile, step.previous, e)
          BY <4>2
        <5> HIDE DEF e
        <5> QED BY <1>2, <2>1, <3>1, <5>1, <5>2
      <4> QED BY <3>2, <4>1, <4>2
    <3> QED BY <1>4, <3>3
  <2> QED BY <2>2, <2>3
<1>5. CASE r.cmd = "state" /\ ReadState
  BY <1>1, <1>5, Replied DEF ReadState, Types, MouseTypes
<1>6. CASE r.cmd = "activate" /\ ActivateProfile
  BY <1>1, <1>6, Replied DEF ActivateProfile
<1> QED BY <1>3, <1>4, <1>5, <1>6 DEF Handle

LEMMA PipeKeeps == ASSUME Types, PipeInv, [Next]_vars PROVE PipeInv'
<1> USE DEF serverVars, overlayVars, history, bounds
<1>0. draft \in Version /\ undoing \in BOOLEAN /\ saving \in BOOLEAN
  BY DEF Types, ViewTypes, FlagTypes
<1>1. CASE FinishClose
  BY <1>1, PipeRests DEF FinishClose, StopWhenIdle
<1>2. CASE TimerFires
  <2>1. CASE ~busy /\ Unsaved
    <3>1. SendApply(cursor, draft) /\ UNCHANGED <<cursor, draft, replies, undoing>>
      BY <1>2, <2>1 DEF TimerFires, Save
    <3>2. NoneSent /\ NoneAnswered' /\ undoing' = FALSE
      BY <2>1, <3>1, Idle, <1>0 DEF NoneAnswered, busy
    <3> QED BY <1>0, <3>1, <3>2, SaveSent
  <2>2. CASE ~(~busy /\ Unsaved)
    BY <1>2, <2>2, PipeRests DEF TimerFires, Save
  <2> QED BY <2>1, <2>2
<1>3. CASE Handle
  <2>1. PICK a \in Reply : /\ Answer(a) /\ a.to = Head(requests).cmd
                           /\ a.to = "apply" => a.profile = Head(requests).profile
    BY <1>3, HandleAnswers
  <2>2. requests # <<>> /\ UNCHANGED <<saving, undoing, cursor>>
    BY <1>3 DEF Handle
  <2> QED BY <2>1, <2>2, RequestAnswered
<1>4. CASE ServerStops \/ ServerDies
  <2>1. requests' = <<>> /\ replies' = <<>> /\ saving' = FALSE /\ undoing' = FALSE
    BY <1>4 DEF ServerStops, ServerDies, ServerExits
  <2>2. NoneSent' /\ NoneAnswered'
    BY <2>1, EmptySeq, LenProperties DEF NoneSent, NoneAnswered
  <2> QED BY <2>1, <2>2, PipeIdle
<1>5. ASSUME NEW p \in Profile, NEW v \in Version, OtherWrites(p, v) PROVE PipeInv'
  BY <1>5, PipeRests DEF OtherWrites
<1>6. CASE UNCHANGED vars
  BY <1>6, PipeRests DEF vars
<1> QED BY <1>1, <1>2, <1>3, <1>4, <1>5, <1>6, UserKeepsPipe, ReadKeepsPipe DEF Next

-----------------------------------------------------------------------------
(* No edit is lost. *)

LEMMA SendKeepsSteps ==
    ASSUME OffInv, NEW r, Send(r) PROVE UNCHANGED stack /\ OffInv'
  BY DEF Send, OffInv

LEMMA OffKeeps == ASSUME OffInv, [Next]_vars PROVE OffInv'
<1> USE DEF serverVars
<1>1. ASSUME StopWhenIdle PROVE OffInv'
  BY <1>1 DEF StopWhenIdle, OffInv
<1>2. ASSUME UNCHANGED <<server, stack>> PROVE OffInv'
  BY <1>2 DEF OffInv
<1>3. ASSUME NEW p, NEW v, SendApply(p, v) PROVE OffInv'
  BY <1>3, SendKeepsSteps DEF SendApply
<1>4. ASSUME Save PROVE OffInv'
  BY <1>2, <1>3, <1>4, Zenon DEF Save
<1>5. ASSUME Refresh PROVE OffInv'
  BY <1>2, <1>5, SendKeepsSteps DEF Refresh
<1>6. ASSUME NEW ok, NEW was, NEW now, NEW key, AfterWrite(ok, was, now, key) PROVE OffInv'
  BY <1>1, <1>2, <1>3, <1>6, Zenon DEF AfterWrite
<1>7. CASE User
  <2>1. ASSUME NEW v \in Version, Edit(v) PROVE OffInv'
    BY <1>2, <2>1 DEF Edit
  <2>2. ASSUME NEW p \in Profile, SelectProfile(p) PROVE OffInv'
    BY <1>2, <1>3, <2>2 DEF SelectProfile
  <2>3. ASSUME Undo PROVE OffInv'
    BY <1>2, <2>3, SendKeepsSteps DEF Undo
  <2>4. ASSUME Activate PROVE OffInv'
    BY <2>4, SendKeepsSteps DEF Activate
  <2>5. ASSUME Close PROVE OffInv'
    BY <1>2, <1>4, <2>5 DEF Close
  <2>6. ASSUME HandOver PROVE OffInv'
    BY <2>6 DEF HandOver, OffInv
  <2> QED BY <1>4, <1>5, <1>7, <2>1, <2>2, <2>3, <2>4, <2>5, <2>6
          DEF User, SaveKey, Open, RefreshKey
<1>8. CASE ReadReply
  <2> DEFINE r == Head(replies)
  <2>1. ASSUME ApplyReply(r) PROVE OffInv'
    BY <1>6, <2>1, Zenon DEF ApplyReply
  <2>2. ASSUME UndoReply(r) PROVE OffInv'
    BY <1>6, <2>2, Zenon DEF UndoReply
  <2>3. ASSUME WriteError(r) PROVE OffInv'
    BY <1>6, <2>3, Zenon DEF WriteError
  <2>4. ASSUME StateReply(r) \/ ActivateReply(r) PROVE OffInv'
    BY <1>1, <1>2, <2>4, Zenon DEF StateReply, ActivateReply
  <2> QED BY <1>8, <2>1, <2>2, <2>3, <2>4 DEF ReadReply
<1>9. CASE FinishClose \/ TimerFires
  BY <1>1, <1>4, <1>9 DEF FinishClose, TimerFires
<1>10. CASE Handle
  BY <1>10 DEF Handle, OffInv
<1>11. CASE ServerStops \/ ServerDies
  BY <1>11 DEF ServerStops, ServerDies, ServerExits, OffInv
<1>12. ASSUME NEW p \in Profile, NEW v \in Version, OtherWrites(p, v) PROVE OffInv'
  BY <1>2, <1>12 DEF OtherWrites
<1>13. CASE UNCHANGED vars
  BY <1>2, <1>13 DEF vars
<1> QED BY <1>7, <1>8, <1>9, <1>10, <1>11, <1>12, <1>13 DEF Next

(* A pair is not the empty sequence. *)
LEMMA PairIsSomething == \A p, v : <<p, v>> # NoSave
<1>1. \A p, v : Len(<<p, v>>) = 2 /\ Len(<<>>) = 0
  OBVIOUS
<1> QED BY <1>1 DEF NoSave

(* With no reply to a write to be read, the mouse is as the overlay thinks, *)
(* and with no undo sent either, nothing is being undone.                  *)
LEMMA NothingAwaited == ASSUME NoneAnswered PROVE \A p, i : ~Awaited(p, i)
  BY DEF NoneAnswered, Awaited

LEMMA NothingUndone ==
    ASSUME PipeInv, ~undoing PROVE ~Sent("undo") /\ \A p : ~Undone(p)
  BY DEF PipeInv, Undone, Sent, Answered

(* What LostInv says when no write is in flight, of profiles t reported as *)
(* failed, last read as s, with profile c shown, last read as o, edited to *)
(* d, and k found to be there already.                                     *)
Settled(t, s, c, o, d, k) ==
    /\ \A p \in Profile : p \in t \/ s[p] = mem[p]
    /\ c \in t \/ o = mem[c]
    /\ \A p \in Profile \ {c} : p \in t \/ wanted[p] = mem[p]
    /\ c \in t \/ wanted[c] = d
    /\ d # o => wanted[c] = d
    /\ k # NoSave => k[1] = c /\ (c \in t \/ k[2] = mem[c])

SettledNow == Settled(told, shown, cursor, original, draft, unchanged)

(* Replies about the whole mouse tell what it holds. *)
StatesTrue ==
    \A i \in DOMAIN replies : replies[i].to = "state" /\ replies[i].ok =>
        \A p \in Profile : replies[i].profiles[p] = mem[p]

LEMMA IdleSettled ==
    ASSUME PipeInv, LostInv, Clean, ~busy PROVE SettledNow /\ StatesTrue
<1>1. (\A p, i : ~Awaited(p, i)) /\ (\A p : ~Undone(p))
  BY Idle, NothingAwaited, NothingUndone DEF busy
<1>2. RepliesInv /\ ShownInv /\ WantedInv /\ DraftInv
  BY DEF LostInv
<1>3. StatesTrue
  BY <1>1, <1>2 DEF RepliesInv, StatesTrue
<1> HIDE DEF Clean
<1>4. SettledNow
  BY <1>1, <1>2 DEF ShownInv, WantedInv, DraftInv, Settled, SettledNow, dirty
<1> QED BY <1>3, <1>4

LEMMA SettledKeeps ==
    ASSUME PipeInv', NoneAnswered', undoing' = FALSE, SettledNow', StatesTrue',
           saving' => wanted'[cursor'] = draft',
           \/ saving' \/ cursor' \in told' \/ draft' = original' \/ timer'
           \/ unchanged' = <<cursor', draft'>>
    PROVE  LostInv'
<1>1. \A p, i : ~Awaited(p, i)'
  BY DEF NoneAnswered, Awaited
<1>2. ~Sent("undo")' /\ \A p : ~Undone(p)'
  BY DEF PipeInv, Undone, Sent, Answered
<1>3. RepliesInv'
  BY DEF RepliesInv, NoneAnswered, StatesTrue
<1>4. ShownInv'
  BY DEF ShownInv, SettledNow, Settled
<1>5. WantedInv'
  BY <1>2 DEF WantedInv, SettledNow, Settled, dirty
<1>6. DraftInv'
  BY DEF DraftInv, SettledNow, Settled, dirty, busy
<1> QED BY <1>3, <1>4, <1>5, <1>6 DEF LostInv

(* Another profile is shown, when the one shown needs no save.             *)
LEMMA LoadSettled ==
    ASSUME NEW t, NEW s, NEW c \in Profile, NEW o, NEW d, NEW k, Settled(t, s, c, o, d, k),
           c \in t \/ d = mem[c], NEW p \in Profile
    PROVE  Settled(t, s, p, s[p], s[p], NoSave)
  BY DEF Settled

(* A draft that is not sent is what the mouse holds.                       *)
LEMMA NotSentIsThere ==
    ASSUME NEW t, NEW s, NEW c \in Profile, NEW o, NEW d, NEW k, Settled(t, s, c, o, d, k),
           d = o \/ k = <<c, d>>
    PROVE  c \in t \/ d = mem[c]
<1>1. k = <<c, d>> => k # NoSave /\ k[2] = d
  BY PairIsSomething
<1> QED BY <1>1 DEF Settled

(* Nothing of what LostInv looks at changes.                               *)
LEMMA LostRests ==
    ASSUME LostInv, Clean, UNCHANGED <<mem, stack, replies, cursor, shown, original, draft, wanted,
                                told, saving, undoing, unchanged, timer>>,
           Sent("undo")' <=> Sent("undo")
    PROVE  LostInv'
<1>1. RepliesInv /\ ShownInv /\ WantedInv /\ DraftInv
  BY DEF LostInv
<1>2. (\A p, i : Awaited(p, i)' <=> Awaited(p, i)) /\ (\A p : Undone(p)' <=> Undone(p))
  BY DEF Awaited, Undone
<1>3. RepliesInv'
  BY <1>1, <1>2 DEF RepliesInv
<1>4. ShownInv'
  BY <1>1, <1>2 DEF ShownInv
<1>5. WantedInv'
  BY <1>1, <1>2 DEF WantedInv, dirty
<1>6. DraftInv'
  BY <1>1, <1>2 DEF DraftInv, dirty, busy
<1> QED BY <1>3, <1>4, <1>5, <1>6 DEF LostInv

(* Another request is sent.                                                *)
LEMMA OtherSentKeepsLost ==
    ASSUME Types, LostInv, Clean, OffInv, NEW r \in Request, Send(r), r.cmd # "undo",
           UNCHANGED <<mem, replies, cursor, shown, original, draft, wanted, told, saving,
                       undoing, unchanged, timer>>
    PROVE  LostInv'
<1>1. requests \in Seq(Request) /\ requests' = Append(requests, r) /\ UNCHANGED stack
  BY SendKeepsSteps DEF Send, Types, ServerTypes
<1>2. /\ DOMAIN requests = 1..Len(requests) /\ DOMAIN requests' = 1..(Len(requests) + 1)
      /\ Len(requests) \in Nat
      /\ \A i \in DOMAIN requests : requests'[i] = requests[i]
      /\ requests'[Len(requests) + 1] = r
  BY <1>1, Joined
<1>3. Sent("undo")' <=> Sent("undo")
  BY <1>2 DEF Sent
<1> QED BY <1>1, <1>3, LostRests

(* The timer is stopped, or the save it stood for is sent.                 *)
LEMMA SaveKeepsLost ==
    ASSUME Types, PipeInv, PipeInv', LostInv, Clean,
           UNCHANGED <<mem, replies, cursor, shown, original, draft, wanted, told,
                       undoing, unchanged>>,
           \/ ~busy /\ Unsaved /\ saving' = TRUE
           \/ UNCHANGED <<requests, stack, saving>> /\ (busy \/ ~Unsaved)
    PROVE  LostInv'
<1>0. undoing \in BOOLEAN /\ saving \in BOOLEAN
  BY DEF Types, FlagTypes
<1>1. CASE ~busy
  <2>1. SettledNow' /\ StatesTrue'
    BY <1>1, IdleSettled DEF SettledNow, Settled, StatesTrue
  <2>2. NoneAnswered' /\ undoing' = FALSE
    BY <1>0, <1>1, Idle DEF NoneAnswered, busy
  <2>3. dirty => wanted[cursor] = draft
    BY DEF LostInv, WantedInv
  <2>4. CASE Unsaved /\ saving' = TRUE
    BY <2>1, <2>2, <2>3, <2>4, SettledKeeps DEF Unsaved
  <2>5. CASE ~Unsaved /\ UNCHANGED saving
    BY <1>0, <1>1, <2>1, <2>2, <2>5, SettledKeeps DEF Unsaved, dirty, busy
  <2> QED BY <1>1, <2>4, <2>5
<1>2. CASE busy
  <2>1. UNCHANGED <<requests, stack, saving>>
    BY <1>2
  <2>2. RepliesInv /\ ShownInv /\ WantedInv /\ DraftInv
    BY DEF LostInv
  <2>3. (\A p, i : Awaited(p, i)' <=> Awaited(p, i)) /\ (\A p : Undone(p)' <=> Undone(p))
        /\ (Sent("undo")' <=> Sent("undo"))
    BY <2>1 DEF Awaited, Undone, Sent
  <2>4. RepliesInv'
    BY <2>2, <2>3 DEF RepliesInv
  <2>5. ShownInv'
    BY <2>2, <2>3 DEF ShownInv
  <2>6. WantedInv'
    BY <2>1, <2>2, <2>3 DEF WantedInv, dirty
  <2>7. DraftInv'
    BY <1>2, <2>1, <2>2, <2>3 DEF DraftInv, dirty, busy
  <2> QED BY <2>4, <2>5, <2>6, <2>7 DEF LostInv
<1> QED BY <1>1, <1>2

LEMMA EditKeepsLost ==
    ASSUME Types, PipeInv, PipeInv', LostInv, Clean, Clean', NEW v \in Version, Edit(v)
    PROVE  LostInv'
<1> USE DEF serverVars
<1>0. /\ undoing = FALSE /\ saving \in BOOLEAN /\ cursor \in Profile
      /\ wanted \in [Profile -> Version]
  BY DEF Edit, Clean, Types, FlagTypes, ViewTypes, MouseTypes
<1>1. RepliesInv /\ ShownInv /\ WantedInv /\ DraftInv
  BY DEF LostInv
<1>2. ~Sent("undo") /\ (\A p : ~Undone(p))
  BY <1>0, NothingUndone
<1>3. /\ \A p, i : Awaited(p, i)' <=> Awaited(p, i)
      /\ (\A p : ~Undone(p)') /\ ~Sent("undo")'
  BY <1>2 DEF Edit, Awaited, Undone, Sent
<1>4. \A p \in Profile \ {cursor} : wanted'[p] = wanted[p]
  BY <1>0 DEF Edit
<1>5. wanted'[cursor] = v /\ draft' = v /\ undoing' = FALSE
  BY <1>0 DEF Edit
<1>6. RepliesInv'
  <2>1. \A i \in DOMAIN replies : replies[i].to # "undo"
    BY <1>0 DEF PipeInv, Answered
  <2> QED BY <1>1, <1>3, <2>1 DEF Edit, RepliesInv
<1>7. ShownInv'
  BY <1>1, <1>3 DEF ShownInv, Edit
<1>8. WantedInv'
  BY <1>1, <1>2, <1>3, <1>4, <1>5 DEF WantedInv, Edit, dirty
<1>9. DraftInv'
  BY <1>1, <1>3 DEF DraftInv, dirty, busy, Edit
<1> QED BY <1>6, <1>7, <1>8, <1>9 DEF LostInv

LEMMA SelectKeepsLost ==
    ASSUME Types, PipeInv, PipeInv', LostInv, Clean, NEW p \in Profile, SelectProfile(p)
    PROVE  LostInv'
<1> USE DEF serverVars, history
<1>0. undoing \in BOOLEAN /\ saving \in BOOLEAN /\ cursor \in Profile
  BY DEF Types, FlagTypes, ViewTypes
<1>1. CASE busy \/ Unsaved
  <2>1. \/ ~busy /\ Unsaved /\ saving' = TRUE
        \/ UNCHANGED <<requests, stack, saving>> /\ (busy \/ ~Unsaved)
    BY <1>1, Zenon DEF SelectProfile, SendApply
  <2>2. UNCHANGED <<mem, replies, cursor, shown, original, draft, wanted, told,
                    undoing, unchanged>>
    BY <1>1 DEF SelectProfile
  <2> QED BY <2>1, <2>2, SaveKeepsLost
<1>2. CASE ~busy /\ ~Unsaved
  <2>1. SettledNow /\ StatesTrue /\ NoneAnswered
    BY <1>2, IdleSettled, Idle
  <2>2. /\ UNCHANGED <<mem, replies, shown, wanted, told, saving, undoing>>
        /\ cursor' = p /\ original' = shown[p] /\ draft' = shown[p] /\ unchanged' = NoSave
    BY <1>2 DEF SelectProfile, LoadDraft
  <2>3. Settled(told, shown, p, shown[p], shown[p], NoSave)
    <3>1. Settled(told, shown, cursor, original, draft, unchanged)
      BY <2>1 DEF SettledNow
    <3>2. cursor \in told \/ draft = mem[cursor]
      BY <1>0, <1>2, <3>1, NotSentIsThere DEF Unsaved, dirty
    <3> QED BY <1>0, <3>1, <3>2, LoadSettled
  <2>4. SettledNow' /\ StatesTrue' /\ NoneAnswered'
    BY <2>1, <2>2, <2>3 DEF SettledNow, Settled, StatesTrue, NoneAnswered
  <2> QED BY <1>0, <1>2, <2>2, <2>4, SettledKeeps DEF busy
<1> QED BY <1>1, <1>2

LEMMA UndoKeepsLost ==
    ASSUME Types, PipeInv, PipeInv', LostInv, Clean, OffInv, Undo PROVE LostInv'
<1> USE DEF serverVars
<1>0. /\ undoing = FALSE /\ saving = FALSE /\ cursor \in Profile
      /\ wanted \in [Profile -> Version] /\ ~busy
  BY DEF Undo, busy, Types, FlagTypes, ViewTypes, MouseTypes
<1>1. SettledNow /\ StatesTrue /\ NoneAnswered
  BY <1>0, IdleSettled, Idle
<1>2. CASE dirty
  <2>1. /\ UNCHANGED <<mem, replies, shown, cursor, original, told, saving, undoing, unchanged>>
        /\ draft' = original /\ wanted' = [wanted EXCEPT ![cursor] = original]
    BY <1>2 DEF Undo
  <2>2. /\ \A p \in Profile \ {cursor} : wanted'[p] = wanted[p]
        /\ wanted'[cursor] = original
    BY <1>0, <2>1
  <2>3. SettledNow'
    BY <1>1, <2>1, <2>2 DEF SettledNow, Settled
  <2>4. StatesTrue' /\ NoneAnswered'
    BY <1>1, <2>1 DEF StatesTrue, NoneAnswered
  <2> QED BY <1>0, <2>1, <2>3, <2>4, SettledKeeps
<1>3. CASE ~dirty
  <2>1. /\ UNCHANGED <<mem, replies, shown, cursor, original, draft, told, saving, unchanged>>
        /\ undoing' = TRUE /\ Send([cmd |-> "undo"])
        /\ wanted' = IF stack' = <<>> THEN wanted
                     ELSE [wanted EXCEPT ![Last(stack).profile] = Last(stack).previous]
    BY <1>3 DEF Undo
  <2>2. UNCHANGED stack
    BY <2>1, SendKeepsSteps
  <2>3. \A p, i : ~Awaited(p, i) /\ ~Awaited(p, i)'
    BY <1>1, <2>1 DEF NoneAnswered, Awaited
  <2>4. Sent("undo")'
    <3>1. Answered("undo")' => FALSE
      BY <1>1, <2>1 DEF NoneAnswered, Answered, IsWrite
    <3> QED BY <2>1, <3>1 DEF PipeInv
  <2>5. stack # <<>> => Last(stack).profile \in Profile
    <3>1. ASSUME stack # <<>> PROVE Last(stack) \in UndoStep
      BY <3>1, Popped DEF Types, ServerTypes
    <3> QED BY <3>1 DEF UndoStep
  <2>6. stack # <<>> => /\ Undone(Last(stack).profile)'
                        /\ wanted'[Last(stack).profile] = Last(stack).previous
    BY <1>0, <2>1, <2>2, <2>4, <2>5 DEF Undone
  <2>7. \A p : p \in Profile /\ wanted'[p] # wanted[p]
                 => stack # <<>> /\ p = Last(stack).profile
    BY <1>0, <2>1, <2>2
  <2>8. RepliesInv'
    BY <1>1, <2>1, <2>3 DEF RepliesInv, NoneAnswered, StatesTrue
  <2>9. ShownInv'
    BY <1>1, <2>1 DEF ShownInv, SettledNow, Settled
  <2>10. WantedInv'
    <3>1. Sent("undo")' /\ stack' # <<>> => wanted'[Last(stack').profile] = Last(stack').previous
      BY <2>2, <2>6
    <3>0. \A p \in Profile : Undone(p)' \/ wanted'[p] = wanted[p]
      BY <2>2, <2>4, <2>7 DEF Undone
    <3>2. \A p \in Profile \ {cursor} : p \in told \/ Undone(p)' \/ wanted'[p] = mem[p]
      BY <1>1, <3>0 DEF SettledNow, Settled
    <3>3. cursor \in told \/ Undone(cursor)' \/ wanted'[cursor] = draft
      BY <1>0, <1>1, <2>1, <3>0 DEF SettledNow, Settled, Undone
    <3> QED BY <1>0, <1>3, <2>1, <3>1, <3>2, <3>3 DEF WantedInv, dirty
  <2>11. DraftInv'
    BY <1>1, <2>1 DEF DraftInv, SettledNow, Settled, busy
  <2> QED BY <2>8, <2>9, <2>10, <2>11 DEF LostInv
<1> QED BY <1>2, <1>3

LEMMA UserKeepsLost ==
    ASSUME Types, PipeInv, PipeInv', OffInv, LostInv, User PROVE LostInv'
<1> SUFFICES ASSUME Clean' PROVE LostInv'
  BY DEF LostInv
<1> USE DEF serverVars, overlayVars, history, bounds
<1>1. ASSUME NEW v \in Version, Edit(v) PROVE LostInv'
  <2>1. Clean
    BY <1>1 DEF Edit, Clean
  <2> QED BY <1>1, <2>1, EditKeepsLost
<1>2. ASSUME NEW p \in Profile, SelectProfile(p) PROVE LostInv'
  <2>1. Clean
    BY <1>2 DEF SelectProfile, Clean
  <2> QED BY <1>2, <2>1, SelectKeepsLost
<1>3. ASSUME Undo PROVE LostInv'
  <2>1. Clean
    BY <1>3 DEF Undo, Clean
  <2> QED BY <1>3, <2>1, UndoKeepsLost
<1>4. ASSUME Activate PROVE LostInv'
  <2>1. [cmd |-> "activate"] \in Request /\ Clean /\ Send([cmd |-> "activate"])
    BY <1>4, RequestFacts DEF Activate, Clean
  <2>2. UNCHANGED <<mem, replies, cursor, shown, original, draft, wanted, told, saving,
                    undoing, unchanged, timer>>
    BY <1>4 DEF Activate
  <2> QED BY <2>1, <2>2, OtherSentKeepsLost
<1>5. ASSUME Save PROVE LostInv'
  <2>1. \/ ~busy /\ Unsaved /\ saving' = TRUE
        \/ UNCHANGED <<requests, stack, saving>> /\ (busy \/ ~Unsaved)
    BY <1>5, Zenon DEF Save, SendApply
  <2>2. UNCHANGED <<mem, replies, cursor, shown, original, draft, wanted, told,
                    undoing, unchanged>> /\ Clean
    BY <1>5 DEF Save, Clean
  <2> QED BY <2>1, <2>2, SaveKeepsLost
<1>6. ASSUME Close PROVE LostInv'
  <2>1. CASE Save
    BY <1>5, <2>1
  <2>2. CASE ~Save
    <3>1. UNCHANGED <<mem, stack, requests, replies, cursor, shown, original, draft, wanted,
                      told, saving, undoing, unchanged, timer>> /\ Clean
      BY <1>6, <2>2 DEF Close, Clean
    <3> QED BY <3>1, LostRests DEF Sent
  <2> QED BY <2>1, <2>2
<1>7. ASSUME Refresh PROVE LostInv'
  <2>1. Clean /\ UNCHANGED <<mem, replies, cursor, shown, original, draft, wanted, told, saving,
                             undoing, unchanged, timer>>
    BY <1>7 DEF Refresh, Clean
  <2>2. CASE loading
    <3>1. UNCHANGED <<stack, requests>>
      BY <1>7, <2>2 DEF Refresh
    <3> QED BY <2>1, <3>1, LostRests DEF Sent
  <2>3. CASE ~loading
    <3>1. [cmd |-> "state"] \in Request /\ Send([cmd |-> "state"])
      BY <1>7, <2>3, RequestFacts DEF Refresh
    <3> QED BY <2>1, <3>1, OtherSentKeepsLost
  <2> QED BY <2>2, <2>3
<1>8. ASSUME HandOver PROVE LostInv'
  <2>1. UNCHANGED <<mem, stack, replies, cursor, shown, original, draft, wanted, told,
                    undoing, unchanged>> /\ Clean
    BY <1>8 DEF HandOver, Clean
  <2>2. CASE timer /\ ~busy /\ Unsaved
    <3>1. saving' = TRUE
      BY <1>8, <2>2 DEF HandOver
    <3> QED BY <2>1, <2>2, <3>1, SaveKeepsLost
  <2>3. CASE ~(timer /\ ~busy /\ Unsaved)
    <3>1. UNCHANGED <<requests, saving>> /\ timer' = (timer /\ dirty /\ busy)
      BY <1>8, <2>3 DEF HandOver
    <3>2. CASE busy \/ ~Unsaved
      BY <2>1, <3>1, <3>2, SaveKeepsLost
    <3>3. CASE ~busy /\ Unsaved
      <4>1. timer = FALSE /\ timer' = FALSE
        BY <2>3, <3>1, <3>3 DEF Types, FlagTypes
      <4> QED BY <2>1, <3>1, <4>1, LostRests DEF Sent
    <3> QED BY <3>2, <3>3
  <2> QED BY <2>2, <2>3
<1> QED BY <1>1, <1>2, <1>3, <1>4, <1>5, <1>6, <1>7, <1>8 DEF User, SaveKey, Open, RefreshKey

(* The next profile, another save, or none, once a write is answered.      *)
LEMMA AfterKeepsLost ==
    ASSUME Types, PipeInv', NoneAnswered', StatesTrue', undoing' = FALSE, UNCHANGED <<mem, wanted>>,
           NEW ok, NEW was, NEW now, NEW key, AfterWrite(ok, was, now, key),
           NEW t, t = told', NEW s, s = shown', Settled(t, s, cursor, was, now, key),
           ok \/ cursor \in t \/ now = was
    PROVE  LostInv'
<1> DEFINE more    == ok /\ now # was
           pending == pendingCursor # NoProfile
<1>0. cursor \in Profile /\ pendingCursor \in Profile \cup {NoProfile}
  BY DEF Types, ViewTypes
<1>1. ASSUME UNCHANGED cursor, original' = was, draft' = now, unchanged' = key PROVE SettledNow'
  BY <1>1 DEF SettledNow, Settled
<1>2. CASE more /\ opened /\ ~pending
  <2>1. timer' = TRUE /\ saving' = FALSE /\ UNCHANGED cursor
        /\ original' = was /\ draft' = now /\ unchanged' = key
    BY <1>2, Zenon DEF AfterWrite
  <2> QED BY <1>1, <2>1, SettledKeeps
<1>3. CASE more /\ ~(opened /\ ~pending) /\ <<cursor, now>> # key
  <2>1. saving' = TRUE /\ UNCHANGED cursor
        /\ original' = was /\ draft' = now /\ unchanged' = key
    BY <1>3, Zenon DEF AfterWrite, SendApply
  <2>2. wanted'[cursor'] = draft'
    BY <1>3, <2>1 DEF Settled
  <2> QED BY <1>1, <2>1, <2>2, SettledKeeps
<1>4. CASE /\ ~(more /\ opened /\ ~pending)
           /\ ~(more /\ ~(opened /\ ~pending) /\ <<cursor, now>> # key)
  <2>1. saving' = FALSE
        /\ IF pending THEN LoadDraft(pendingCursor)
           ELSE original' = was /\ draft' = now /\ unchanged' = key /\ UNCHANGED cursor
    BY <1>4, Zenon DEF AfterWrite
  <2>2. cursor \in t \/ now = was \/ key = <<cursor, now>>
    BY <1>4
  <2>3. CASE pending
    <3>1. pendingCursor \in Profile
      BY <1>0, <2>3
    <3>2. cursor \in t \/ now = mem[cursor]
      BY <1>0, <2>2, NotSentIsThere
    <3>3. Settled(t, s, pendingCursor, s[pendingCursor], s[pendingCursor], NoSave)
      BY <1>0, <3>1, <3>2, LoadSettled
    <3>4. cursor' = pendingCursor /\ original' = s[pendingCursor] /\ draft' = s[pendingCursor]
          /\ unchanged' = NoSave
      BY <2>1, <2>3 DEF LoadDraft
    <3>5. SettledNow'
      BY <3>3, <3>4 DEF SettledNow, Settled
    <3> QED BY <2>1, <3>4, <3>5, SettledKeeps
  <2>4. CASE ~pending
    <3>1. original' = was /\ draft' = now /\ unchanged' = key /\ UNCHANGED cursor
      BY <2>1, <2>4
    <3> HIDE DEF more, pending
    <3> QED BY <1>1, <2>1, <2>2, <3>1, SettledKeeps
  <2> QED BY <2>3, <2>4
<1> QED BY <1>2, <1>3, <1>4

(* The reply to the one write in flight: nothing else is awaited, and      *)
(* nothing is undone but what it is about.                                 *)
LEMMA OneReply ==
    ASSUME Types, PipeInv, LostInv, Clean, replies # <<>>, replies' = Tail(replies),
           UNCHANGED mem, NEW r, r = Head(replies), IsWrite(r.to)
    PROVE  /\ NoneSent /\ NoneAnswered' /\ StatesTrue'
           /\ \A p : Awaited(p, 0) => p = r.profile
           /\ \A p : Undone(p) => r.to = "undo" /\ p = r.profile
           /\ r.to = "apply" => saving /\ ~undoing /\ r.profile = cursor
           /\ r.to = "undo" => undoing /\ ~saving /\ ~dirty
           /\ r.ok => r.value = mem[r.profile] /\ (r.to = "undo" => wanted[r.profile] = r.value)
<1>0. replies \in Seq(Reply)
  BY DEF Types, ServerTypes
<1>1. /\ Len(replies) \in Nat \ {0} /\ DOMAIN replies = 1..Len(replies)
      /\ DOMAIN replies' = 1..(Len(replies) - 1)
      /\ \A i \in DOMAIN replies' : replies'[i] = replies[i + 1]
      /\ r = replies[1]
  BY <1>0, Read
<1>2. /\ 1 \in DOMAIN replies
      /\ \A i \in DOMAIN replies' : i + 1 \in DOMAIN replies /\ i + 1 # 1
      /\ \A j \in DOMAIN replies : \A i \in DOMAIN replies' : j > i + 1 => j # 1
  BY <1>1
<1>3. NoneSent /\ NoneAnswered'
  BY WriteRead
<1>4. \A j \in DOMAIN replies : IsWrite(replies[j].to) => j = 1
  BY <1>1, <1>2 DEF PipeInv
<1>5. RepliesInv /\ WantedInv
  BY DEF LostInv
<1>6. StatesTrue'
  <2>1. \A i \in DOMAIN replies' : \A p : ~Awaited(p, i + 1)
    BY <1>2, <1>4 DEF Awaited
  <2>2. ASSUME NEW i \in DOMAIN replies', replies'[i].to = "state", replies'[i].ok,
               NEW p \in Profile
        PROVE  replies'[i].profiles[p] = mem[p]
    BY <1>1, <1>2, <1>5, <2>1, <2>2 DEF RepliesInv
  <2> QED BY <2>2 DEF StatesTrue
<1>7. \A p : Awaited(p, 0) => p = r.profile
  BY <1>1, <1>4 DEF Awaited
<1>8. \A p : Undone(p) => r.to = "undo" /\ p = r.profile
  BY <1>1, <1>3, <1>4 DEF Undone, Sent, NoneSent, IsWrite
<1>9. /\ r.to = "apply" => saving /\ ~undoing /\ r.profile = cursor
      /\ r.to = "undo" => undoing /\ ~saving
  BY <1>1, <1>2, <1>3, <1>4 DEF PipeInv, Sent, Answered, NoneSent, IsWrite
<1>10. r.to = "undo" => ~dirty
  BY <1>5, <1>9 DEF WantedInv
<1>11. r.ok => r.value = mem[r.profile] /\ (r.to = "undo" => wanted[r.profile] = r.value)
  BY <1>1, <1>2, <1>5 DEF RepliesInv
<1> QED BY <1>3, <1>6, <1>7, <1>8, <1>9, <1>10, <1>11

LEMMA ApplyReplyKeepsLost ==
    ASSUME Types, PipeInv, PipeInv', LostInv, Clean, Clean', ReadReply,
           NEW r, r = Head(replies), ApplyReply(r)
    PROVE  LostInv'
<1>1. r \in Reply /\ replies # <<>> /\ replies' = Tail(replies) /\ UNCHANGED <<mem, wanted>>
  BY Read DEF ReadReply, Types, ServerTypes
<1>2. r.to = "apply" /\ r.ok /\ IsWrite(r.to) /\ r.effect \in BOOLEAN
  BY <1>1, ReplyFacts DEF ApplyReply, IsWrite
<1>3. /\ NoneAnswered' /\ StatesTrue' /\ \A p : Awaited(p, 0) => p = cursor
      /\ \A p : ~Undone(p)
      /\ saving /\ ~undoing /\ r.profile = cursor /\ r.value = mem[cursor]
  BY <1>1, <1>2, OneReply
<1>4. /\ cursor \in Profile /\ shown \in [Profile -> Version] /\ undoing' = FALSE
      /\ stale \in BOOLEAN
  BY <1>3 DEF ApplyReply, Types, ViewTypes, MouseTypes, FlagTypes
<1>5. RepliesInv /\ ShownInv /\ WantedInv /\ DraftInv
  BY DEF LostInv
<1> DEFINE key == IF r.effect THEN unchanged ELSE <<cursor, mem[cursor]>>
<1>6. /\ shown' = [shown EXCEPT ![cursor] = mem[cursor]]
      /\ AfterWrite(TRUE, mem[cursor], draft, key)
      /\ told' = told \ {cursor}
      /\ stale' = (stale \/ (r.effect /\ unchanged # NoSave))
  <2>1. /\ shown' = [shown EXCEPT ![r.profile] = r.value]
        /\ AfterWrite(TRUE, IF cursor = r.profile THEN r.value ELSE original, draft,
                      IF r.effect THEN unchanged ELSE <<r.profile, r.value>>)
        /\ told' = told \ {r.profile}
        /\ stale' = (stale \/ (r.effect /\ unchanged # NoSave))
    BY Zenon DEF ApplyReply
  <2>2. (IF cursor = r.profile THEN r.value ELSE original) = mem[cursor]
        /\ (IF r.effect THEN unchanged ELSE <<r.profile, r.value>>) = key
    BY <1>3
  <2> HIDE DEF key
  <2>3. AfterWrite(TRUE, mem[cursor], draft, key)
    BY <2>1, <2>2, Zenon
  <2> QED BY <1>3, <2>1, <2>3
<1>7. key # NoSave => key = <<cursor, mem[cursor]>>
  BY <1>2, <1>6 DEF Clean
<1>8. PICK s, t : s = shown' /\ t = told'
  OBVIOUS
<1>9. Settled(t, s, cursor, mem[cursor], draft, key)
  <2> HIDE DEF key
  <2>1. \A p \in Profile \ {cursor} : (p \in t <=> p \in told) /\ s[p] = shown[p]
    BY <1>4, <1>6, <1>8
  <2>2. s[cursor] = mem[cursor]
    BY <1>4, <1>6, <1>8
  <2>3. \A p \in Profile \ {cursor} : p \in told \/ shown[p] = mem[p]
    BY <1>3, <1>5 DEF ShownInv
  <2>4. \A p \in Profile \ {cursor} : p \in told \/ wanted[p] = mem[p]
    BY <1>3, <1>5 DEF WantedInv
  <2>5. wanted[cursor] = draft
    BY <1>3, <1>5 DEF WantedInv
  <2> QED BY <1>4, <1>7, <2>1, <2>2, <2>3, <2>4, <2>5 DEF Settled
<1> HIDE DEF key
<1> QED BY <1>1, <1>3, <1>4, <1>6, <1>8, <1>9, AfterKeepsLost

LEMMA UndoReplyKeepsLost ==
    ASSUME Types, PipeInv, PipeInv', LostInv, Clean, ReadReply,
           NEW r, r = Head(replies), UndoReply(r)
    PROVE  LostInv'
<1>1. r \in Reply /\ replies # <<>> /\ replies' = Tail(replies) /\ UNCHANGED <<mem, wanted>>
  BY Read DEF ReadReply, Types, ServerTypes
<1>2. r.to = "undo" /\ r.ok /\ IsWrite(r.to)
  BY <1>1 DEF UndoReply, IsWrite
<1>3. /\ NoneAnswered' /\ StatesTrue' /\ \A p : Awaited(p, 0) \/ Undone(p) => p = r.profile
      /\ ~dirty /\ r.value = mem[r.profile] /\ wanted[r.profile] = mem[r.profile]
  BY <1>1, <1>2, OneReply
<1>4. /\ cursor \in Profile /\ shown \in [Profile -> Version] /\ undoing' = FALSE
      /\ r.profile \in Profile
  BY <1>1, <1>2, ReplyFacts DEF UndoReply, Types, ViewTypes, MouseTypes, IsWrite
<1>5. RepliesInv /\ ShownInv /\ WantedInv /\ DraftInv
  BY DEF LostInv
<1>6. /\ shown' = [shown EXCEPT ![r.profile] = mem[r.profile]] /\ told' = told \ {r.profile}
  BY <1>3 DEF UndoReply
<1>7. PICK s, t : s = shown' /\ t = told'
  OBVIOUS
<1>8. /\ s[r.profile] = mem[r.profile]
      /\ \A p \in Profile \ {r.profile} : /\ p \in t <=> p \in told
                                          /\ p \in told \/ s[p] = mem[p]
  BY <1>3, <1>4, <1>5, <1>6, <1>7 DEF ShownInv
<1>9. CASE cursor = r.profile
  <2>1. AfterWrite(TRUE, r.value, r.value, NoSave)
    BY <1>9, Zenon DEF UndoReply
  <2>2. Settled(t, s, cursor, r.value, r.value, NoSave)
    <3>1. \A p \in Profile \ {cursor} : p \in told \/ wanted[p] = mem[p]
      BY <1>3, <1>5, <1>9 DEF WantedInv
    <3> QED BY <1>3, <1>8, <1>9, <3>1 DEF Settled
  <2> QED BY <1>1, <1>3, <1>4, <1>7, <2>1, <2>2, AfterKeepsLost
<1>10. CASE cursor # r.profile
  <2>1. AfterWrite(TRUE, original, draft, NoSave)
    BY <1>10, Zenon DEF UndoReply
  <2>2. Settled(t, s, cursor, original, draft, NoSave)
    <3>1. \A p \in Profile \ {cursor} : p = r.profile \/ p \in told \/ wanted[p] = mem[p]
      BY <1>3, <1>5 DEF WantedInv
    <3>2. cursor \in told \/ (original = mem[cursor] /\ wanted[cursor] = draft)
      BY <1>3, <1>5, <1>10 DEF ShownInv, WantedInv
    <3> QED BY <1>3, <1>4, <1>8, <1>10, <3>1, <3>2 DEF Settled, dirty
  <2> QED BY <1>1, <1>3, <1>4, <1>7, <2>1, <2>2, AfterKeepsLost
<1> QED BY <1>9, <1>10

LEMMA ErrorKeepsLost ==
    ASSUME Types, PipeInv, PipeInv', LostInv, Clean, ReadReply,
           NEW r, r = Head(replies), WriteError(r)
    PROVE  LostInv'
<1>1. r \in Reply /\ replies # <<>> /\ replies' = Tail(replies) /\ UNCHANGED <<mem, wanted>>
  BY Read DEF ReadReply, Types, ServerTypes
<1>2. r.to \in {"apply", "undo"} /\ IsWrite(r.to) /\ undoing \in BOOLEAN
      /\ r.profile \in Profile \cup {NoProfile} /\ cursor \in Profile
  BY <1>1, ReplyFacts DEF WriteError, IsWrite, Types, FlagTypes, ViewTypes
<1>3. /\ NoneAnswered' /\ StatesTrue' /\ \A p : Awaited(p, 0) \/ Undone(p) => p = r.profile
      /\ r.to = "apply" => ~undoing /\ r.profile = cursor
      /\ r.to = "undo" => ~dirty
  BY <1>1, <1>2, OneReply
<1>4. RepliesInv /\ ShownInv /\ WantedInv /\ DraftInv
  BY DEF LostInv
<1>5. /\ told' = told \cup ({r.profile} \ {NoProfile}) /\ UNCHANGED shown
      /\ undoing' = FALSE
  BY <1>2, <1>3 DEF WriteError
<1>6. PICK s, t : s = shown' /\ t = told'
  OBVIOUS
<1>7. /\ told \subseteq t /\ s = shown
      /\ \A p \in Profile : Awaited(p, 0) \/ Undone(p) => p \in t
      /\ r.to = "apply" => cursor \in t
  BY <1>2, <1>3, <1>5, <1>6, ProfileAssumption
<1>8. Settled(t, s, cursor, original, draft, unchanged)
  BY <1>2, <1>4, <1>7 DEF Settled, ShownInv, WantedInv, DraftInv, dirty
<1>9. AfterWrite(FALSE, original, draft, unchanged)
  BY Zenon DEF WriteError
<1>10. cursor \in t \/ draft = original
  BY <1>2, <1>3, <1>7 DEF dirty
<1> QED BY <1>1, <1>3, <1>5, <1>6, <1>8, <1>9, <1>10, AfterKeepsLost

(* A reply that is not of a write is read.                                 *)
LEMMA OtherReplyAwaits ==
    ASSUME Types, replies # <<>>, replies' = Tail(replies), ~IsWrite(Head(replies).to),
           UNCHANGED <<requests, stack>>
    PROVE  /\ \A p : \A i \in Nat : Awaited(p, i + 1) => Awaited(p, i)'
           /\ \A p : Awaited(p, 0) => Awaited(p, 1)
           /\ \A p : Undone(p)' <=> Undone(p)
           /\ Sent("undo")' <=> Sent("undo")
           /\ \A i \in DOMAIN replies' : i + 1 \in DOMAIN replies /\ replies'[i] = replies[i + 1]
           /\ 1 \in DOMAIN replies /\ replies[1] = Head(replies)
           /\ DOMAIN replies' \subseteq Nat
<1>0. replies \in Seq(Reply)
  BY DEF Types, ServerTypes
<1>1. /\ Len(replies) \in Nat \ {0} /\ DOMAIN replies = 1..Len(replies)
      /\ DOMAIN replies' = 1..(Len(replies) - 1)
      /\ \A i \in DOMAIN replies' : replies'[i] = replies[i + 1]
      /\ Head(replies) = replies[1]
  BY <1>0, Read
<1>2. /\ \A i \in DOMAIN replies' : i + 1 \in DOMAIN replies
      /\ 1 \in DOMAIN replies /\ DOMAIN replies' \subseteq Nat
      /\ \A i \in DOMAIN replies : i = 1 \/ (i - 1 \in DOMAIN replies' /\ i = (i - 1) + 1)
      /\ \A j \in DOMAIN replies : \A i \in Nat : j > i + 1 => j # 1 /\ j - 1 > i
      /\ \A j \in DOMAIN replies : j > 0 /\ (j # 1 => j > 1)
  BY <1>1
<1>3. ASSUME NEW p, NEW i \in Nat, Awaited(p, i + 1) PROVE Awaited(p, i)'
  <2>1. PICK j \in DOMAIN replies : j > i + 1 /\ IsWrite(replies[j].to) /\ replies[j].profile = p
    BY <1>3 DEF Awaited
  <2>2. j # 1 /\ j - 1 > i /\ j - 1 \in DOMAIN replies' /\ replies'[j - 1] = replies[j]
    BY <1>1, <1>2, <2>1
  <2> QED BY <2>1, <2>2 DEF Awaited
<1>4. \A p : Awaited(p, 0) => Awaited(p, 1)
  BY <1>1, <1>2 DEF Awaited
<1>5. Sent("undo")' <=> Sent("undo")
  BY DEF Sent
<1>6. \A p : (\E i \in DOMAIN replies' : replies'[i].to = "undo" /\ replies'[i].profile = p)
           <=> (\E i \in DOMAIN replies : replies[i].to = "undo" /\ replies[i].profile = p)
  <2>1. ASSUME NEW p, NEW i \in DOMAIN replies, replies[i].to = "undo", replies[i].profile = p
        PROVE  \E j \in DOMAIN replies' : replies'[j].to = "undo" /\ replies'[j].profile = p
    <3>1. i # 1
      BY <1>1, <2>1 DEF IsWrite
    <3>2. i - 1 \in DOMAIN replies' /\ replies'[i - 1] = replies[i]
      BY <1>1, <1>2, <3>1
    <3> QED BY <2>1, <3>2
  <2> QED BY <1>1, <1>2, <2>1
<1>7. \A p : Undone(p)' <=> Undone(p)
  BY <1>5, <1>6 DEF Undone
<1> QED BY <1>1, <1>2, <1>3, <1>4, <1>5, <1>7

LEMMA OtherReplyKeepsLost ==
    ASSUME Types, PipeInv, PipeInv', LostInv, Clean, ReadReply,
           NEW r, r = Head(replies), StateReply(r) \/ ActivateReply(r)
    PROVE  LostInv'
<1> USE DEF serverVars
<1>1. r \in Reply /\ replies # <<>> /\ replies' = Tail(replies) /\ UNCHANGED <<mem, wanted>>
  BY Read DEF ReadReply, Types, ServerTypes
<1>2. ~IsWrite(r.to) /\ r.ok \in BOOLEAN
  BY <1>1, ReplyFacts DEF StateReply, ActivateReply, IsWrite
<1>3. UNCHANGED <<requests, stack, saving, undoing, timer, told>>
  BY DEF StateReply, ActivateReply, StopWhenIdle
<1>4. /\ \A p : \A i \in Nat : Awaited(p, i + 1) => Awaited(p, i)'
      /\ \A p : Awaited(p, 0) => Awaited(p, 1)
      /\ \A p : Undone(p)' <=> Undone(p)
      /\ Sent("undo")' <=> Sent("undo")
      /\ \A i \in DOMAIN replies' : i + 1 \in DOMAIN replies /\ replies'[i] = replies[i + 1]
      /\ 1 \in DOMAIN replies /\ replies[1] = r
      /\ DOMAIN replies' \subseteq Nat
  BY <1>1, <1>2, <1>3, OtherReplyAwaits
<1>5. RepliesInv /\ ShownInv /\ WantedInv /\ DraftInv
  BY DEF LostInv
<1>6. \A p : Awaited(p, 0) => Awaited(p, 0)'
  <2>1. \A p : Awaited(p, 0 + 1) => Awaited(p, 0)'
    BY <1>4
  <2> QED BY <1>4, <2>1
<1>7. RepliesInv'
  <2>1. ASSUME NEW i \in DOMAIN replies', replies'[i].to = "state", replies'[i].ok,
               NEW p \in Profile
        PROVE  replies'[i].profiles[p] = mem[p] \/ Awaited(p, i)'
    <3>1. i + 1 \in DOMAIN replies /\ replies'[i] = replies[i + 1] /\ i \in Nat
      BY <1>4
    <3>2. replies[i + 1].profiles[p] = mem[p] \/ Awaited(p, i + 1)
      BY <1>5, <2>1, <3>1 DEF RepliesInv
    <3> QED BY <1>4, <3>1, <3>2
  <2>2. \A i \in DOMAIN replies' : IsWrite(replies'[i].to) /\ replies'[i].ok =>
              /\ replies'[i].value = mem[replies'[i].profile]
              /\ replies'[i].to = "undo" => wanted[replies'[i].profile] = replies'[i].value
    BY <1>4, <1>5 DEF RepliesInv
  <2> QED BY <1>1, <2>1, <2>2 DEF RepliesInv
<1>8. ASSUME UNCHANGED <<cursor, original, draft, unchanged>>,
             \A p \in Profile : p \in told \/ shown'[p] = mem[p] \/ Awaited(p, 0)'
      PROVE  LostInv'
  <2>1. ShownInv'
    BY <1>1, <1>3, <1>5, <1>6, <1>8 DEF ShownInv
  <2>2. WantedInv'
    BY <1>1, <1>3, <1>4, <1>5, <1>8 DEF WantedInv, dirty
  <2>3. DraftInv'
    BY <1>1, <1>3, <1>5, <1>6, <1>8 DEF DraftInv, dirty, busy
  <2> QED BY <1>7, <2>1, <2>2, <2>3 DEF LostInv
<1>9. ASSUME UNCHANGED <<cursor, original, draft, unchanged, shown>> PROVE LostInv'
  <2>1. \A p \in Profile : p \in told \/ shown'[p] = mem[p] \/ Awaited(p, 0)'
    BY <1>5, <1>6, <1>9 DEF ShownInv
  <2> QED BY <1>8, <1>9, <2>1
<1>10. CASE StateReply(r) /\ r.ok
  <2>1. shown' = r.profiles /\ r.to = "state"
    BY <1>10 DEF StateReply
  <2>2. CASE dirty \/ busy
    <3>1. UNCHANGED <<cursor, original, draft, unchanged>>
      BY <1>10, <2>2 DEF StateReply
    <3>2. ASSUME NEW p \in Profile PROVE shown'[p] = mem[p] \/ Awaited(p, 0)'
      <4>1. shown'[p] = mem[p] \/ Awaited(p, 1)
        BY <1>4, <1>5, <1>10, <2>1 DEF RepliesInv
      <4>2. Awaited(p, 0 + 1) => Awaited(p, 0)'
        BY <1>4
      <4> QED BY <4>1, <4>2
    <3> QED BY <1>8, <3>1, <3>2
  <2>3. CASE ~(dirty \/ busy)
    <3>1. LoadDraft(cursor)
      BY <1>10, <2>3, Zenon DEF StateReply
    <3>2. SettledNow /\ StatesTrue /\ NoneAnswered
      BY <2>3, IdleSettled, Idle
    <3>3. \A p \in Profile : shown'[p] = mem[p]
      BY <1>4, <1>10, <2>1, <3>2 DEF StatesTrue
    <3>4. cursor \in Profile /\ undoing' = FALSE
      BY <1>3, <2>3 DEF Types, ViewTypes, FlagTypes, busy
    <3>5. SettledNow'
      BY <1>1, <1>3, <2>3, <3>1, <3>2, <3>3, <3>4 DEF SettledNow, Settled, LoadDraft, dirty
    <3>6. NoneAnswered' /\ StatesTrue'
      BY <1>1, <1>4, <3>2 DEF NoneAnswered, StatesTrue
    <3>7. draft' = original' /\ ~saving'
      BY <1>3, <2>3, <3>1 DEF LoadDraft, busy
    <3> QED BY <3>4, <3>5, <3>6, <3>7, SettledKeeps
  <2> QED BY <2>2, <2>3
<1>11. CASE ~(StateReply(r) /\ r.ok)
  <2>1. UNCHANGED <<cursor, original, draft, unchanged, shown>>
    BY <1>2, <1>11 DEF StateReply, ActivateReply
  <2> QED BY <1>9, <2>1
<1> QED BY <1>10, <1>11

LEMMA ReadKeepsLost ==
    ASSUME Types, PipeInv, PipeInv', LostInv, ReadReply PROVE LostInv'
<1> SUFFICES ASSUME Clean' PROVE LostInv'
  BY DEF LostInv
<1> DEFINE r == Head(replies)
<1>1. ApplyReply(r) \/ UndoReply(r) \/ WriteError(r) \/ StateReply(r) \/ ActivateReply(r)
  BY Zenon DEF ReadReply
<1>2. Clean
  BY <1>1 DEF ReadReply, Clean, bounds, Types, FlagTypes, ApplyReply, UndoReply, WriteError,
              StateReply, ActivateReply
<1> QED BY <1>1, <1>2, ApplyReplyKeepsLost, UndoReplyKeepsLost, ErrorKeepsLost,
           OtherReplyKeepsLost

(* The process is gone, and what was in flight is reported as failed.      *)
LEMMA ExitKeepsLost ==
    ASSUME Types, PipeInv, PipeInv', LostInv, ServerExits PROVE LostInv'
<1> SUFFICES ASSUME Clean' PROVE LostInv'
  BY DEF LostInv
<1>0. /\ cursor \in Profile /\ pendingCursor \in Profile \cup {NoProfile} /\ told \subseteq Profile
      /\ undoing \in BOOLEAN /\ saving \in BOOLEAN
  BY DEF Types, ViewTypes, FlagTypes, MouseTypes
<1>1. /\ replies' = <<>> /\ saving' = FALSE /\ undoing' = FALSE
      /\ told' = IF undoing THEN Profile ELSE IF saving THEN told \cup {cursor} ELSE told
      /\ UNCHANGED <<mem, shown, wanted, timer>>
      /\ IF busy /\ pendingCursor # NoProfile THEN LoadDraft(pendingCursor)
         ELSE UNCHANGED <<cursor, original, draft, unchanged>>
  BY Zenon DEF ServerExits
<1>2. RepliesInv /\ ShownInv /\ WantedInv /\ DraftInv /\ Clean
  BY DEF LostInv, ServerExits, Clean
<1>3. NoneAnswered' /\ StatesTrue'
  BY <1>1, EmptySeq, LenProperties DEF NoneAnswered, StatesTrue
<1>4. PICK t, s : t = told' /\ s = shown'
  OBVIOUS
<1>5. Settled(t, s, cursor, original, draft, unchanged) /\ (busy => cursor \in t)
      /\ told \subseteq t
  <2>1. CASE undoing
    <3>1. t = Profile /\ s = shown
      BY <1>1, <1>4, <2>1
    <3> QED BY <1>0, <1>2, <3>1 DEF Settled, WantedInv, DraftInv, dirty
  <2>2. CASE ~undoing /\ saving
    <3>1. t = told \cup {cursor} /\ s = shown
      BY <1>1, <1>4, <2>2
    <3>2. \A p : ~Undone(p)
      BY <2>2, NothingUndone
    <3>3. \A p : Awaited(p, 0) => p = cursor
      BY <2>2 DEF Awaited, PipeInv, IsWrite, Answered
    <3> QED BY <1>0, <1>2, <3>1, <3>2, <3>3 DEF Settled, ShownInv, WantedInv, DraftInv, dirty
  <2>3. CASE ~busy
    <3>1. t = told /\ s = shown
      BY <1>1, <1>4, <2>3 DEF busy
    <3>2. Settled(told, shown, cursor, original, draft, unchanged)
      BY <1>2, <2>3, IdleSettled DEF SettledNow
    <3> QED BY <2>3, <3>1, <3>2
  <2> QED BY <1>0, <2>1, <2>2, <2>3 DEF busy
<1>6. CASE busy /\ pendingCursor # NoProfile
  <2>1. /\ cursor' = pendingCursor /\ unchanged' = NoSave
        /\ original' = s[pendingCursor] /\ draft' = s[pendingCursor]
    BY <1>1, <1>4, <1>6 DEF LoadDraft
  <2>2. Settled(t, s, pendingCursor, s[pendingCursor], s[pendingCursor], NoSave)
    BY <1>0, <1>5, <1>6, LoadSettled
  <2>3. SettledNow'
    BY <1>1, <1>4, <2>1, <2>2 DEF SettledNow, Settled
  <2> QED BY <1>1, <1>3, <2>1, <2>3, SettledKeeps
<1>7. CASE ~(busy /\ pendingCursor # NoProfile)
  <2>1. UNCHANGED <<cursor, original, draft, unchanged>>
    BY <1>1, <1>7
  <2>2. SettledNow'
    BY <1>1, <1>4, <1>5, <2>1 DEF SettledNow, Settled
  <2>3. cursor \in t \/ draft = original \/ timer \/ unchanged = <<cursor, draft>>
    BY <1>2, <1>5 DEF DraftInv, dirty
  <2> QED BY <1>1, <1>3, <1>4, <2>1, <2>2, <2>3, SettledKeeps
<1> QED BY <1>6, <1>7

(* The oldest request is answered.                                         *)
LEMMA AnswerAwaits ==
    ASSUME Types, requests # <<>>, NEW a \in Reply, Answer(a)
    PROVE  /\ \A i \in DOMAIN replies : i \in DOMAIN replies' /\ replies'[i] = replies[i]
           /\ \A i \in DOMAIN replies' : i \in DOMAIN replies \/ replies'[i] = a
           /\ \E i \in DOMAIN replies' : /\ replies'[i] = a
                                         /\ \A j \in DOMAIN replies \cup {0} : i > j
           /\ \A i \in DOMAIN requests' : /\ i + 1 \in DOMAIN requests /\ i + 1 # 1
                                          /\ requests'[i] = requests[i + 1]
           /\ \A i \in DOMAIN requests :
                 i = 1 \/ (i - 1 \in DOMAIN requests' /\ requests'[i - 1] = requests[i])
           /\ 1 \in DOMAIN requests /\ requests[1] = Head(requests)
<1>0. replies \in Seq(Reply) /\ requests \in Seq(Request)
  BY DEF Types, ServerTypes
<1> DEFINE n == Len(replies) + 1
<1>1. /\ n \in Nat /\ DOMAIN replies = 1..(n - 1) /\ DOMAIN replies' = 1..n
      /\ \A i \in DOMAIN replies : replies'[i] = replies[i]
      /\ replies'[n] = a
  BY <1>0, Joined DEF Answer
<1>2. /\ Len(requests) \in Nat \ {0} /\ DOMAIN requests = 1..Len(requests)
      /\ DOMAIN requests' = 1..(Len(requests) - 1)
      /\ \A i \in DOMAIN requests' : requests'[i] = requests[i + 1]
      /\ Head(requests) = requests[1]
  BY <1>0, Read DEF Answer
<1>3. /\ \A i \in DOMAIN replies : i \in DOMAIN replies'
      /\ \A i \in DOMAIN replies' : i \in DOMAIN replies \/ i = n
      /\ n \in DOMAIN replies' /\ \A j \in DOMAIN replies \cup {0} : n > j
  BY <1>1
<1>4. /\ \A i \in DOMAIN requests' : i + 1 \in DOMAIN requests /\ i + 1 # 1
      /\ \A i \in DOMAIN requests : i = 1 \/ (i - 1 \in DOMAIN requests' /\ i = (i - 1) + 1)
      /\ 1 \in DOMAIN requests
  BY <1>2
<1> HIDE DEF n
<1> QED BY <1>1, <1>2, <1>3, <1>4

(* The one write that waits is handled, of profile q or of none.           *)
LEMMA WriteHandled ==
    ASSUME Types, PipeInv, LostInv, Clean, requests # <<>>, NEW a \in Reply, Answer(a),
           IsWrite(a.to), a.to = Head(requests).cmd, NEW q, a.profile = q,
           \A p \in Profile : p # q => mem'[p] = mem[p],
           a.ok => /\ a.value = mem'[q]
                   /\ a.to = "undo" => wanted[q] = a.value,
           a.to = "apply" => q = cursor,
           a.to = "undo" /\ stack # <<>> => Last(stack).profile = q,
           UNCHANGED <<cursor, shown, original, draft, timer, saving, undoing, unchanged,
                       wanted, told>>
    PROVE  LostInv'
<1>0. cursor \in Profile
  BY DEF Types, ViewTypes
<1>1. RepliesInv /\ ShownInv /\ WantedInv /\ DraftInv
  BY DEF LostInv
<1>2. /\ \A i \in DOMAIN replies : i \in DOMAIN replies' /\ replies'[i] = replies[i]
      /\ \A i \in DOMAIN replies' : i \in DOMAIN replies \/ replies'[i] = a
      /\ \E i \in DOMAIN replies' : /\ replies'[i] = a
                                    /\ \A j \in DOMAIN replies \cup {0} : i > j
      /\ \A i \in DOMAIN requests' : /\ i + 1 \in DOMAIN requests /\ i + 1 # 1
                                     /\ requests'[i] = requests[i + 1]
      /\ 1 \in DOMAIN requests /\ requests[1] = Head(requests)
  BY AnswerAwaits
<1>3. NoneAnswered /\ ~Sent("undo")'
  BY <1>2 DEF PipeInv, NoneAnswered, Sent, IsWrite
<1>4. /\ \A p, i : ~Awaited(p, i)
      /\ \A i \in DOMAIN replies \cup {0} : Awaited(q, i)'
      /\ cursor = q => Awaited(cursor, 0)'
      /\ a.to = "undo" => Undone(q)'
      /\ \A p : Undone(p) => a.to = "undo" /\ p = q
  <2>1. \A p, i : ~Awaited(p, i)
    BY <1>3, NothingAwaited
  <2>2. \A i \in DOMAIN replies \cup {0} : Awaited(q, i)'
    BY <1>2 DEF Awaited
  <2>3. a.to = "undo" => Undone(q)'
    BY <1>2 DEF Undone
  <2>4. Sent("undo") => a.to = "undo"
    BY <1>2 DEF PipeInv, Sent, IsWrite
  <2>5. \A p : Undone(p) => a.to = "undo" /\ p = q
    BY <1>3, <2>4 DEF Undone, NoneAnswered, IsWrite
  <2>6. cursor = q => Awaited(cursor, 0)'
    BY <1>2 DEF Awaited
  <2> QED BY <2>1, <2>2, <2>3, <2>5, <2>6
<1>5. saving \/ undoing
  BY <1>2 DEF PipeInv, Sent, IsWrite
<1>6. RepliesInv'
  <2>1. \A i \in DOMAIN replies : ~IsWrite(replies'[i].to)
    BY <1>2, <1>3 DEF NoneAnswered
  <2>2. ASSUME NEW i \in DOMAIN replies', IsWrite(replies'[i].to), replies'[i].ok
        PROVE  /\ replies'[i].value = mem'[replies'[i].profile]
               /\ replies'[i].to = "undo" => wanted[replies'[i].profile] = replies'[i].value
    <3>1. replies'[i] = a
      BY <1>2, <2>1, <2>2
    <3> QED BY <2>2, <3>1
  <2>3. ASSUME NEW i \in DOMAIN replies', replies'[i].to = "state", replies'[i].ok,
               NEW p \in Profile
        PROVE  replies'[i].profiles[p] = mem'[p] \/ Awaited(p, i)'
    <3>1. i \in DOMAIN replies /\ replies[i].profiles[p] = mem[p]
      BY <1>1, <1>2, <1>4, <2>3 DEF RepliesInv, IsWrite
    <3> QED BY <1>2, <1>4, <2>3, <3>1
  <2> QED BY <2>2, <2>3 DEF RepliesInv
<1>7. ShownInv'
  <2>1. \A p \in Profile : p \in told \/ shown[p] = mem'[p] \/ Awaited(p, 0)'
    BY <1>1, <1>4 DEF ShownInv
  <2>2. cursor \in told \/ original = mem'[cursor] \/ Awaited(cursor, 0)'
    BY <1>0, <1>1, <1>4 DEF ShownInv
  <2> QED BY <2>1, <2>2 DEF ShownInv
<1>8. WantedInv'
  <2>1. \A p \in Profile \ {cursor} : p \in told \/ Undone(p)' \/ wanted[p] = mem'[p]
    BY <1>1, <1>4 DEF WantedInv, IsWrite
  <2>2. cursor \in told \/ Undone(cursor)' \/ wanted[cursor] = draft
    BY <1>1, <1>4 DEF WantedInv, Undone
  <2> QED BY <1>1, <1>3, <2>1, <2>2 DEF WantedInv, dirty
<1>9. DraftInv'
  <2>1. ASSUME unchanged # NoSave
        PROVE  /\ unchanged[1] = cursor
               /\ cursor \in told \/ unchanged[2] = mem'[cursor] \/ Awaited(cursor, 0)'
    BY <1>0, <1>1, <1>4, <2>1 DEF DraftInv
  <2> QED BY <1>5, <2>1 DEF DraftInv, busy
<1> QED BY <1>6, <1>7, <1>8, <1>9 DEF LostInv

(* A request that is not a write is handled.                               *)
LEMMA OtherHandled ==
    ASSUME Types, PipeInv, LostInv, Clean, requests # <<>>, NEW a \in Reply, Answer(a),
           ~IsWrite(a.to), a.to = Head(requests).cmd,
           a.to = "state" /\ a.ok => a.profiles = mem,
           UNCHANGED <<mem, stack, cursor, shown, original, draft, timer, saving, undoing,
                       unchanged, wanted, told>>
    PROVE  LostInv'
<1>1. RepliesInv /\ ShownInv /\ WantedInv /\ DraftInv
  BY DEF LostInv
<1>2. /\ \A i \in DOMAIN replies : i \in DOMAIN replies' /\ replies'[i] = replies[i]
      /\ \A i \in DOMAIN replies' : i \in DOMAIN replies \/ replies'[i] = a
      /\ \A i \in DOMAIN requests' : /\ i + 1 \in DOMAIN requests /\ i + 1 # 1
                                     /\ requests'[i] = requests[i + 1]
      /\ \A i \in DOMAIN requests :
            i = 1 \/ (i - 1 \in DOMAIN requests' /\ requests'[i - 1] = requests[i])
      /\ 1 \in DOMAIN requests /\ requests[1] = Head(requests)
  BY AnswerAwaits
<1>3. \A p, i : Awaited(p, i) => Awaited(p, i)'
  BY <1>2 DEF Awaited
<1>4. Sent("undo")' <=> Sent("undo")
  BY <1>2 DEF Sent, IsWrite
<1>5. \A p : Undone(p) => Undone(p)'
  BY <1>2, <1>4 DEF Undone
<1>6. RepliesInv'
  <2>1. ASSUME NEW i \in DOMAIN replies', IsWrite(replies'[i].to), replies'[i].ok
        PROVE  /\ replies'[i].value = mem'[replies'[i].profile]
               /\ replies'[i].to = "undo" => wanted[replies'[i].profile] = replies'[i].value
    <3>1. i \in DOMAIN replies /\ replies'[i] = replies[i]
      BY <1>2, <2>1
    <3> QED BY <1>1, <2>1, <3>1 DEF RepliesInv
  <2>2. ASSUME NEW i \in DOMAIN replies', replies'[i].to = "state", replies'[i].ok,
               NEW p \in Profile
        PROVE  replies'[i].profiles[p] = mem'[p] \/ Awaited(p, i)'
    <3>1. CASE i \in DOMAIN replies
      BY <1>1, <1>2, <1>3, <2>2, <3>1 DEF RepliesInv
    <3>2. CASE replies'[i] = a
      BY <2>2, <3>2
    <3> QED BY <1>2, <3>1, <3>2
  <2> QED BY <2>1, <2>2 DEF RepliesInv
<1>7. ShownInv'
  BY <1>1, <1>3 DEF ShownInv
<1>8. WantedInv'
  BY <1>1, <1>4, <1>5 DEF WantedInv, dirty
<1>9. DraftInv'
  BY <1>1, <1>3 DEF DraftInv, dirty, busy
<1> QED BY <1>6, <1>7, <1>8, <1>9 DEF LostInv

(* What is answered to each request, and what it did.                      *)
LEMMA ApplyAnswers ==
    ASSUME Types, NEW p \in Profile, NEW v \in Version, requests # <<>>, Apply(p, v)
    PROVE  /\ \A q \in Profile : q # p => mem'[q] = mem[q]
           /\ \E a \in Reply : /\ Answer(a) /\ a.to = "apply" /\ a.profile = p
                               /\ a.ok => a.value = mem'[p]
<1>0. mem \in [Profile -> Version] /\ stack' \in Seq(UndoStep)
  BY ApplyTypes DEF Types, MouseTypes
<1>1. mem' = [mem EXCEPT ![p] = v] \/ mem' = mem
  BY Zenon DEF Apply, Put
<1>2. CASE Refuse("apply", p)
  <2> DEFINE a == [to |-> "apply", ok |-> FALSE, profile |-> p]
  <2>1. a \in Reply /\ Answer(a)
    BY <1>2, Replied DEF Refuse
  <2> QED BY <1>0, <1>1, <2>1
<1>3. ASSUME NEW e \in BOOLEAN, Report("apply", p, v, e), mem'[p] = v
      PROVE  \E a \in Reply : /\ Answer(a) /\ a.to = "apply" /\ a.profile = p
                              /\ a.ok => a.value = mem'[p]
  <2> DEFINE a == [to |-> "apply", ok |-> TRUE, profile |-> p, value |-> v, effect |-> e,
                   undo |-> Len(stack')]
  <2>1. a \in Reply /\ Answer(a)
    BY <1>0, <1>3, Replied, LenProperties DEF Report
  <2> QED BY <1>3, <2>1
<1>4. \/ Refuse("apply", p)
      \/ Report("apply", p, v, FALSE) /\ mem[p] = v /\ mem' = mem
      \/ Report("apply", p, v, TRUE) /\ Put(p, v)
  BY Zenon DEF Apply
<1>5. Put(p, v) => mem'[p] = v
  BY <1>0 DEF Put
<1> QED BY <1>0, <1>1, <1>2, <1>3, <1>4, <1>5

LEMMA UndoAnswers ==
    ASSUME Types, requests # <<>>, stack # <<>>, UndoLast, NEW step, step = Last(stack)
    PROVE  /\ step \in UndoStep
           /\ \A q \in Profile : q # step.profile => mem'[q] = mem[q]
           /\ \E a \in Reply : /\ Answer(a) /\ a.to = "undo" /\ a.profile = step.profile
                               /\ a.ok => /\ a.value = mem'[step.profile]
                                          /\ a.value = step.previous
<1>0. mem \in [Profile -> Version] /\ stack' \in Seq(UndoStep) /\ step \in UndoStep
  BY UndoTypes, Popped DEF Types, MouseTypes, ServerTypes
<1> DEFINE p == step.profile
           v == step.previous
           e == mem[p] # v
<1>1. p \in Profile /\ v \in Version /\ e \in BOOLEAN
  BY <1>0 DEF UndoStep
<1>2. /\ mem' = [mem EXCEPT ![p] = v] \/ mem' = mem
      /\ Refuse("undo", p) \/ (Report("undo", p, v, e) /\ mem' = [mem EXCEPT ![p] = v])
  BY Zenon DEF UndoLast, Put
<1> HIDE DEF p, v, e
<1>3. CASE Refuse("undo", p)
  <2> DEFINE a == [to |-> "undo", ok |-> FALSE, profile |-> p]
  <2>1. a \in Reply /\ Answer(a)
    BY <1>1, <1>3, Replied DEF Refuse
  <2> QED BY <1>0, <1>2, <2>1 DEF p
<1>4. CASE Report("undo", p, v, e) /\ mem' = [mem EXCEPT ![p] = v]
  <2> DEFINE a == [to |-> "undo", ok |-> TRUE, profile |-> p, value |-> v, effect |-> e,
                   undo |-> Len(stack')]
  <2>1. a \in Reply /\ Answer(a)
    BY <1>0, <1>1, <1>4, Replied, LenProperties DEF Report
  <2>2. mem'[p] = v
    BY <1>0, <1>1, <1>4
  <2>3. a.to = "undo" /\ a.profile = p /\ a.value = v
    OBVIOUS
  <2> HIDE DEF a
  <2> QED BY <1>0, <1>2, <2>1, <2>2, <2>3 DEF p, v
<1> QED BY <1>2, <1>3, <1>4

LEMMA HandleKeepsLost == ASSUME Types, PipeInv, LostInv, Handle PROVE LostInv'
<1> SUFFICES ASSUME Clean' PROVE LostInv'
  BY DEF LostInv
<1> DEFINE r == Head(requests)
<1>0. r \in Request /\ requests # <<>>
  BY Read DEF Handle, Types, ServerTypes
<1>1. /\ Clean /\ UNCHANGED <<cursor, shown, original, draft, timer, saving, undoing, unchanged,
                              wanted, told>>
  BY DEF Handle, Clean, overlayVars
<1>2. RepliesInv /\ ShownInv /\ WantedInv /\ DraftInv
  BY <1>1 DEF LostInv
<1>3. 1 \in DOMAIN requests /\ r = requests[1]
  <2>1. Len(requests) \in Nat \ {0} /\ DOMAIN requests = 1..Len(requests) /\ r = requests[1]
    BY <1>0, Read DEF Types, ServerTypes
  <2> QED BY <2>1
<1> HIDE DEF r
<1>4. CASE r.cmd = "apply" /\ Apply(r.profile, r.value)
  <2>1. r.profile \in Profile /\ r.value \in Version /\ r.profile = cursor
    BY <1>0, <1>3, <1>4, RequestFacts DEF PipeInv
  <2>2. /\ \A p \in Profile : p # r.profile => mem'[p] = mem[p]
        /\ \E a \in Reply : /\ Answer(a) /\ a.to = "apply" /\ a.profile = r.profile
                            /\ a.ok => a.value = mem'[r.profile]
    BY <1>0, <1>4, <2>1, ApplyAnswers
  <2>3. PICK q : q = r.profile
    OBVIOUS
  <2>4. PICK a \in Reply : /\ Answer(a) /\ a.to = "apply" /\ a.profile = q
                           /\ a.ok => a.value = mem'[q]
    BY <2>2, <2>3
  <2>5. \A p \in Profile : p # q => mem'[p] = mem[p]
    BY <2>2, <2>3
  <2>6. IsWrite(a.to) /\ a.to = Head(requests).cmd /\ a.to # "undo" /\ q = cursor
    BY <1>4, <2>1, <2>3, <2>4 DEF IsWrite, r
  <2> QED BY <1>0, <1>1, <2>4, <2>5, <2>6, WriteHandled
<1>5. CASE r.cmd = "undo" /\ UndoLast /\ stack = <<>>
  <2>1. Refuse("undo", NoProfile) /\ UNCHANGED mem
    BY <1>5 DEF UndoLast
  <2> DEFINE a == [to |-> "undo", ok |-> FALSE, profile |-> NoProfile]
  <2>2. a \in Reply /\ Answer(a)
    BY <2>1, Replied DEF Refuse
  <2>3. a.to = "undo" /\ ~a.ok /\ a.profile = NoProfile
    OBVIOUS
  <2> HIDE DEF a
  <2>4. IsWrite(a.to) /\ a.to = Head(requests).cmd /\ a.to # "apply"
    BY <1>5, <2>3 DEF IsWrite, r
  <2> QED BY <1>0, <1>1, <1>5, <2>1, <2>2, <2>3, <2>4, WriteHandled
<1>6. CASE r.cmd = "undo" /\ UndoLast /\ stack # <<>>
  <2>1. PICK step, q : step = Last(stack) /\ q = step.profile
    OBVIOUS
  <2>2. /\ \A p \in Profile : p # step.profile => mem'[p] = mem[p]
        /\ \E a \in Reply : /\ Answer(a) /\ a.to = "undo" /\ a.profile = step.profile
                            /\ a.ok => /\ a.value = mem'[step.profile]
                                       /\ a.value = step.previous
    BY <1>0, <1>6, <2>1, UndoAnswers
  <2>3. PICK a \in Reply : /\ Answer(a) /\ a.to = "undo" /\ a.profile = q
                           /\ a.ok => a.value = mem'[q] /\ a.value = step.previous
    BY <2>1, <2>2
  <2>4. wanted[q] = step.previous
    <3>1. Sent("undo")
      BY <1>3, <1>6 DEF Sent
    <3> QED BY <1>2, <1>6, <2>1, <3>1 DEF WantedInv
  <2>5. IsWrite(a.to) /\ a.to = Head(requests).cmd /\ a.to # "apply"
    BY <1>6, <2>3 DEF IsWrite, r
  <2>6. \A p \in Profile : p # q => mem'[p] = mem[p]
    BY <2>1, <2>2
  <2>7. a.ok => /\ a.value = mem'[q]
                /\ a.to = "undo" => wanted[q] = a.value
    BY <2>3, <2>4
  <2>8. Last(stack).profile = q
    BY <2>1
  <2> QED BY <1>0, <1>1, <2>3, <2>5, <2>6, <2>7, <2>8, WriteHandled
<1>7. ASSUME NEW a \in Reply, Answer(a), ~IsWrite(a.to), a.to = r.cmd, UNCHANGED <<mem, stack>>,
             a.to = "state" /\ a.ok => a.profiles = mem
      PROVE  LostInv'
  <2>1. a.to = Head(requests).cmd
    BY <1>7 DEF r
  <2> QED BY <1>0, <1>1, <1>7, <2>1, OtherHandled
<1>8. ASSUME NEW c \in {"state", "activate"}, c = r.cmd, Refuse(c, NoProfile),
             UNCHANGED <<mem, stack>>
      PROVE  LostInv'
  <2> DEFINE a == [to |-> c, ok |-> FALSE, profile |-> NoProfile]
  <2>1. a \in Reply /\ Answer(a)
    BY <1>8, Replied DEF Refuse
  <2>2. ~IsWrite(a.to) /\ a.to = r.cmd /\ ~a.ok
    BY <1>8 DEF IsWrite
  <2> HIDE DEF a
  <2> QED BY <1>7, <1>8, <2>1, <2>2
<1>9. CASE r.cmd = "state" /\ ReadState
  <2>1. CASE Answer([to |-> "state", ok |-> TRUE, profiles |-> mem])
    <3> DEFINE a == [to |-> "state", ok |-> TRUE, profiles |-> mem]
    <3>1. a \in Reply
      BY Replied DEF Types, MouseTypes
    <3>2. Answer(a) /\ ~IsWrite(a.to) /\ a.to = r.cmd /\ a.profiles = mem
      BY <1>9, <2>1 DEF IsWrite
    <3>3. UNCHANGED <<mem, stack>>
      BY <1>9 DEF ReadState
    <3> HIDE DEF a
    <3> QED BY <1>7, <3>1, <3>2, <3>3
  <2>2. CASE Refuse("state", NoProfile)
    BY <1>8, <1>9, <2>2 DEF ReadState
  <2> QED BY <1>9, <2>1, <2>2, Zenon DEF ReadState
<1>10. CASE r.cmd = "activate" /\ ActivateProfile
  <2>1. CASE Answer([to |-> "activate", ok |-> TRUE])
    <3> DEFINE a == [to |-> "activate", ok |-> TRUE]
    <3>1. a \in Reply
      BY Replied
    <3>2. Answer(a) /\ ~IsWrite(a.to) /\ a.to = r.cmd /\ a.to # "state"
      BY <1>10, <2>1 DEF IsWrite
    <3>3. UNCHANGED <<mem, stack>>
      BY <1>10 DEF ActivateProfile
    <3> HIDE DEF a
    <3> QED BY <1>7, <3>1, <3>2, <3>3
  <2>2. CASE Refuse("activate", NoProfile)
    BY <1>8, <1>10, <2>2 DEF ActivateProfile
  <2> QED BY <1>10, <2>1, <2>2, Zenon DEF ActivateProfile
<1> QED BY <1>4, <1>5, <1>6, <1>9, <1>10, Zenon DEF Handle, r

LEMMA LostKeeps ==
    ASSUME Types, PipeInv, PipeInv', OffInv, LostInv, [Next]_vars PROVE LostInv'
<1> USE DEF serverVars, overlayVars, history, bounds
<1>1. ASSUME UNCHANGED <<mem, stack, requests, replies, cursor, shown, original, draft, wanted,
                         told, saving, undoing, unchanged, timer, others, raced, stale>>
      PROVE  LostInv'
  <2>1. CASE Clean
    BY <1>1, <2>1, LostRests DEF Sent
  <2>2. CASE ~Clean
    BY <1>1, <2>2 DEF LostInv, Clean
  <2> QED BY <2>1, <2>2
<1>2. CASE FinishClose
  BY <1>1, <1>2 DEF FinishClose, StopWhenIdle
<1>3. CASE TimerFires
  <2>1. UNCHANGED <<mem, replies, cursor, shown, original, draft, wanted, told, undoing,
                    unchanged, others, raced, stale>>
    BY <1>3 DEF TimerFires, Save
  <2>2. CASE ~Clean
    BY <2>1, <2>2 DEF LostInv, Clean
  <2>3. CASE Clean
    <3>1. \/ ~busy /\ Unsaved /\ saving' = TRUE
          \/ UNCHANGED <<requests, stack, saving>> /\ (busy \/ ~Unsaved)
      BY <1>3, Zenon DEF TimerFires, Save, SendApply
    <3> QED BY <2>1, <2>3, <3>1, SaveKeepsLost
  <2> QED BY <2>2, <2>3
<1>4. CASE ServerStops \/ ServerDies
  BY <1>4, ExitKeepsLost DEF ServerStops, ServerDies
<1>5. ASSUME NEW p \in Profile, NEW v \in Version, OtherWrites(p, v) PROVE LostInv'
  <2>1. others' = others + 1 /\ others \in 0..MaxOthers /\ MaxOthers \in Nat
    BY <1>5, BoundsAssumption DEF OtherWrites, Types, CountTypes
  <2>2. others' # 0
    BY <2>1
  <2> QED BY <2>2 DEF LostInv, Clean
<1>6. CASE UNCHANGED vars
  BY <1>1, <1>6 DEF vars
<1> QED BY <1>2, <1>3, <1>4, <1>5, <1>6, UserKeepsLost, ReadKeepsLost, HandleKeepsLost DEF Next

-----------------------------------------------------------------------------
LEMMA InitHolds == Init => IInv
<1> SUFFICES ASSUME Init PROVE IInv
  OBVIOUS
<1>1. /\ <<>> \in Seq(UndoStep) /\ <<>> \in Seq(Request) /\ <<>> \in Seq(Reply)
      /\ DOMAIN <<>> = {}
  BY EmptySeq, LenProperties
<1>2. Types
  <2>1. mem \in [Profile -> Version] /\ shown = mem /\ wanted = mem /\ told = {}
        /\ cursor \in Profile /\ original = mem[cursor] /\ draft = original
    BY DEF Init
  <2>2. original \in Version
    BY <2>1
  <2>3. MouseTypes
    BY <2>1 DEF MouseTypes
  <2>4. ServerTypes
    BY <1>1 DEF Init, ServerTypes
  <2>5. FlagTypes
    BY DEF Init, FlagTypes
  <2>6. ViewTypes
    BY <2>1, <2>2 DEF Init, ViewTypes
  <2>7. CountTypes
    BY BoundsAssumption DEF Init, CountTypes
  <2> QED BY <2>3, <2>4, <2>5, <2>6, <2>7 DEF Types
<1>3. PipeInv
  BY <1>1 DEF Init, PipeInv, Sent, Answered
<1>4. StackInv /\ OffInv
  BY DEF Init, StackInv, OffInv
<1>5. RepliesInv /\ ~Sent("undo")
  BY <1>1 DEF Init, RepliesInv, Sent
<1>6. ShownInv /\ WantedInv /\ DraftInv
  BY <1>5 DEF Init, ShownInv, WantedInv, DraftInv, dirty
<1> QED BY <1>2, <1>3, <1>4, <1>5, <1>6 DEF IInv, LostInv

LEMMA NextKeeps == IInv /\ [Next]_vars => IInv'
  BY TypesKeep, PipeKeeps, StackKeeps, OffKeeps, LostKeeps DEF IInv

(* The pipe holds the replies, then the requests.                          *)
LEMMA PipeHolds ==
    ASSUME Types
    PROVE  /\ Len(replies) \in Nat /\ DOMAIN replies = 1..Len(replies)
           /\ Len(requests) \in Nat /\ DOMAIN requests = 1..Len(requests)
           /\ DOMAIN Pipe = 1..(Len(replies) + Len(requests))
           /\ \A i \in DOMAIN replies : Pipe[i] = replies[i].to
           /\ \A i \in DOMAIN requests : Pipe[Len(replies) + i] = requests[i].cmd
<1> DEFINE S == {"apply", "undo", "state", "activate"}
           A == [i \in DOMAIN replies |-> replies[i].to]
           B == [i \in DOMAIN requests |-> requests[i].cmd]
<1>1. replies \in Seq(Reply) /\ requests \in Seq(Request)
  BY DEF Types, ServerTypes
<1>2. /\ Len(replies) \in Nat /\ DOMAIN replies = 1..Len(replies)
      /\ Len(requests) \in Nat /\ DOMAIN requests = 1..Len(requests)
  BY <1>1, LenProperties
<1>3. (\A i \in DOMAIN replies : replies[i].to \in S)
      /\ (\A i \in DOMAIN requests : requests[i].cmd \in S)
  BY <1>1, <1>2, ElementOfSeq, ReplyFacts, RequestFacts
<1>4. A \in [1..Len(replies) -> S] /\ B \in [1..Len(requests) -> S]
  BY <1>2, <1>3
<1>5. A \in Seq(S) /\ B \in Seq(S)
  BY <1>2, <1>4, SeqDef
<1>6. Len(A) = Len(replies) /\ Len(B) = Len(requests)
  BY <1>2, <1>4, <1>5, LenProperties
<1>7. Pipe = A \o B
  BY DEF Pipe
<1>8. \A i \in DOMAIN replies : A[i] = replies[i].to
  OBVIOUS
<1>9. \A i \in DOMAIN requests : B[i] = requests[i].cmd
  OBVIOUS
<1> HIDE DEF A, B, S
<1>10. /\ Pipe \in Seq(S) /\ Len(Pipe) = Len(replies) + Len(requests)
       /\ \A i \in 1..(Len(replies) + Len(requests)) :
             Pipe[i] = IF i <= Len(replies) THEN A[i] ELSE B[i - Len(replies)]
  <2>1. /\ A \o B \in Seq(S) /\ Len(A \o B) = Len(A) + Len(B)
        /\ \A i \in 1..(Len(A) + Len(B)) :
              (A \o B)[i] = IF i <= Len(A) THEN A[i] ELSE B[i - Len(A)]
    BY <1>5, ConcatProperties
  <2> QED BY <1>6, <1>7, <2>1
<1>11. DOMAIN Pipe = 1..(Len(replies) + Len(requests))
  BY <1>10, LenProperties
<1>12. \A i \in DOMAIN replies : Pipe[i] = replies[i].to
  BY <1>2, <1>8, <1>10
<1>13. ASSUME NEW i \in DOMAIN requests PROVE Pipe[Len(replies) + i] = requests[i].cmd
  <2>1. /\ Len(replies) + i \in 1..(Len(replies) + Len(requests))
        /\ ~(Len(replies) + i <= Len(replies)) /\ (Len(replies) + i) - Len(replies) = i
    BY <1>2
  <2> QED BY <1>9, <1>10, <2>1
<1> QED BY <1>2, <1>11, <1>12, <1>13

LEMMA OneInPipe == ASSUME Types, PipeInv PROVE OneWriteInFlight
<1> DEFINE m == Len(replies)
<1>1. /\ m \in Nat /\ DOMAIN replies = 1..m
      /\ Len(requests) \in Nat /\ DOMAIN requests = 1..Len(requests)
      /\ DOMAIN Pipe = 1..(m + Len(requests))
      /\ \A i \in DOMAIN replies : Pipe[i] = replies[i].to
      /\ \A i \in DOMAIN requests : Pipe[m + i] = requests[i].cmd
  BY PipeHolds
<1> HIDE DEF m
<1>2. \A i \in DOMAIN Pipe : \/ i \in DOMAIN replies /\ Pipe[i] = replies[i].to
                             \/ /\ i - m \in DOMAIN requests /\ i = m + (i - m)
                                /\ Pipe[i] = requests[i - m].cmd
  <2>1. \A i \in DOMAIN Pipe : i \in DOMAIN replies
                               \/ (i - m \in DOMAIN requests /\ i = m + (i - m))
    BY <1>1
  <2> QED BY <1>1, <2>1
<1>3. /\ \A i \in DOMAIN replies : i \in DOMAIN Pipe
      /\ \A i \in DOMAIN requests : m + i \in DOMAIN Pipe
  BY <1>1
<1>4. ASSUME NEW i \in DOMAIN Pipe, NEW j \in DOMAIN Pipe, IsWrite(Pipe[i]), IsWrite(Pipe[j])
      PROVE  i = j
  BY <1>2, <1>4 DEF PipeInv
<1>5. ASSUME NEW c PROVE (\E i \in DOMAIN Pipe : Pipe[i] = c) <=> Sent(c) \/ Answered(c)
  <2>1. ASSUME NEW i \in DOMAIN Pipe, Pipe[i] = c PROVE Sent(c) \/ Answered(c)
    BY <1>2, <2>1 DEF Sent, Answered
  <2>2. ASSUME Answered(c) PROVE \E i \in DOMAIN Pipe : Pipe[i] = c
    BY <1>1, <1>3, <2>2 DEF Answered
  <2>3. ASSUME Sent(c) PROVE \E i \in DOMAIN Pipe : Pipe[i] = c
    BY <1>1, <1>3, <2>3 DEF Sent
  <2> QED BY <2>1, <2>2, <2>3
<1> QED BY <1>4, <1>5 DEF OneWriteInFlight, PipeInv

-----------------------------------------------------------------------------
(* The overlay never has a second write on the way, and knows of the one   *)
(* it has, whatever the user, the server and other processes do.           *)
THEOREM OneWriteAtATime == Spec => []Consistent
<1>1. IInv => Consistent
  BY TypesAreTypeOK, OneInPipe DEF IInv, Consistent
<1> QED
  BY <1>1, InitHolds, NextKeeps, PTL DEF Spec

(* Once nothing is in flight, every profile holds what the user last asked *)
(* it to, or its last write was reported as failed.                        *)
THEOREM NoEditIsLost == Spec => []NothingLost
<1>1. ASSUME IInv, Quiet, Clean PROVE Saved
  <2>1. ~busy
    <3>1. DOMAIN requests = {} /\ DOMAIN replies = {}
      BY <1>1, EmptySeq, LenProperties DEF Quiet
    <3> QED BY <1>1, <3>1 DEF IInv, PipeInv, Sent, Answered, busy
  <2>2. SettledNow /\ DraftInv /\ cursor \in Profile
    BY <1>1, <2>1, IdleSettled DEF IInv, LostInv, Types, ViewTypes
  <2>3. cursor \in told \/ draft = original \/ unchanged = <<cursor, draft>>
    BY <1>1, <2>1, <2>2 DEF DraftInv, dirty, Quiet
  <2>4. cursor \in told \/ draft = mem[cursor]
    BY <2>2, <2>3, NotSentIsThere DEF SettledNow
  <2> QED BY <2>2, <2>4 DEF SettledNow, Settled, Saved
<1>2. IInv => NothingLost
  BY <1>1 DEF NothingLost, Clean
<1> QED
  BY <1>2, InitHolds, NextKeeps, PTL DEF Spec

(* Whatever was saved and undone in a session, the steps that are left     *)
(* lead back to its backup, unless another process wrote in between.       *)
THEOREM UndoLeadsBack == Spec => []UndoReachesBackup
<1>1. IInv => UndoReachesBackup
  BY StackLeadsBack DEF IInv
<1> QED
  BY <1>1, InitHolds, NextKeeps, PTL DEF Spec
=============================================================================
