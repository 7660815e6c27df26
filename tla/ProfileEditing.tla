--------------------------- MODULE ProfileEditing ---------------------------
(***************************************************************************)
(* What a profile is while it is edited.  The overlay reads a profile slot *)
(* into a draft (src/plugin/Model.js), the sensitivity page and the picker *)
(* change the draft, a save sends what differs from the slot last read,    *)
(* the server plans those changes against the sector the mouse holds now   *)
(* (src/src/editing.rs, onboard/edit.rs), and its answer is read back into *)
(* the slot the next difference is taken from.  EditingSession has the     *)
(* queue, the timer and the switches between profiles around this, with    *)
(* drafts as opaque values; here is one profile and what its drafts hold.  *)
(***************************************************************************)
EXTENDS Integers, Sequences, SequencesExt

CONSTANTS
    MaxLevels,              \* DPI_STAGE_COUNT
    Lowest, Highest, Step,  \* the sensor's range
    Intervals,              \* report intervals in ms the mouse offers
    Slot, Button,           \* binding slots of both tables; the physical buttons
    Action,                 \* actions the picker offers
    Disabled, NoText,       \* the unbound action; a binding no text spells
    Bytes, Plain,            \* bytes of a binding its text does not carry; those of a new one
    Stored,                 \* sectors another process may write, and the first one
    None,
    MaxEdits, MaxSurprises  \* bounds: edits of the draft; writes the overlay is not told of

Supported == {dpi \in Lowest..Highest : dpi % Step = 0}
Unset     == {0, 65535}
Binding   == [action : Action \cup {NoText}, tail : Bytes]
Sector    == [rate : 0..8, default : 0..255, shift : 0..255,
              stages : [1..MaxLevels -> Supported \cup Unset], slot : [Slot -> Binding]]

(* Hz of an interval: interval_to_hz drops the fraction, the overlay's     *)
(* draftFromSlot rounds it.                                                *)
IntervalToHz(ms) == 1000 \div ms
RoundedHz(ms)    == (2000 + ms) \div (2 * ms)

(* One DPI range that starts at a multiple of its step: the mouse in       *)
(* tests/fixtures reports 100 to 25600 in steps of 50.                     *)
ASSUME SensorAssumption == /\ Step \in Nat \ {0} /\ MaxLevels \in 1..256
                           /\ Lowest \in Nat \ {0} /\ Highest \in Nat /\ Lowest < Highest
                           /\ Lowest % Step = 0 /\ Highest % Step = 0 /\ Highest < 65535
(* Holds for the intervals 1, 2, 4 and 8 of that mouse; 6 and 7 ms would   *)
(* read as 167 and 143 Hz in a draft and be offered as 166 and 142.        *)
ASSUME RateAssumption == /\ Intervals \subseteq 1..8
                         /\ \A ms \in Intervals : RoundedHz(ms) = IntervalToHz(ms)
ASSUME BindingAssumption == /\ Button \subseteq Slot /\ Disabled \in Action
                            /\ NoText \notin Action /\ Plain \in Bytes
(* Another process, too, can only set a rate the mouse offers, or none.    *)
ASSUME StoredAssumption == /\ Stored \subseteq Sector
                           /\ \A s \in Stored : s.rate \in Intervals \cup {0}
ASSUME BoundsAssumption == MaxEdits \in Nat /\ MaxSurprises \in Nat
(* None is no number and no list of levels. *)
ASSUME NoneAssumption == None \notin Int /\ None \notin Seq(Int)

VARIABLES
    sector,     \* the profile's bytes on the mouse
    original,   \* the slot as last read, as a draft
    draft,
    stage,      \* the level selected on the sensitivity page
    sent,       \* the draft whose changes are in flight, or None
    undoing,
    steps,      \* the server's undo stack: the bytes each write replaced
    unchanged,  \* unchangedChanges: changes the mouse had already, or None
    edits, surprises
vars == <<sector, original, draft, stage, sent, undoing, steps, unchanged, edits, surprises>>

-----------------------------------------------------------------------------
(* Drafts. *)

(* The members that come before m. *)
Before(members, before, m) == {n \in members : <<n, m>> \in before}

(* The members of a set in the order of before: k - 1 before the k-th. *)
InOrder(members, before) ==
    [k \in 1..Cardinality(members) |->
        CHOOSE m \in members : Cardinality(Before(members, before, m)) = k - 1]

(* The stages in use, in their order. *)
Levels(stages) ==
    LET used == {i \in 1..MaxLevels : stages[i] \notin Unset}
        at   == InOrder(used, {p \in used \X used : p[1] < p[2]})
    IN  [k \in DOMAIN at |-> stages[at[k]]]

(* The DPI a stage index points at; null past the end and at an unused     *)
(* stage.  Indices count from 0.                                           *)
StageAt(stages, index) ==
    IF index < MaxLevels /\ stages[index + 1] \notin Unset THEN stages[index + 1] ELSE None

DraftFromSlot(s) ==
    [levels  |-> Levels(s.stages),
     default |-> StageAt(s.stages, s.default),
     shift   |-> StageAt(s.stages, s.shift),
     rate    |-> IF s.rate > 0 THEN RoundedHz(s.rate) ELSE None,
     action  |-> [n \in Slot |-> s.slot[n].action]]

Drafts == {d \in [levels : Seq(Supported),
                  default : Supported \cup {None}, shift : Supported \cup {None},
                  rate : {RoundedHz(ms) : ms \in 1..8} \cup {None},
                  action : [Slot -> Action \cup {NoText}]] : Len(d.levels) <= MaxLevels}

(* Where a value first is in a list; 0 when it is nowhere. *)
Position(list, dpi) == SelectInSeq(list, LAMBDA value : value = dpi)

(* Faulty variant: a default that is still to be chosen is no problem. *)
HasRoles_AnyDefault(d) == d.levels # <<>> /\ d.shift \in ToSet(d.levels)

(* draftProblem is "". *)
HasRoles(d) == /\ d.levels # <<>>
               /\ d.default \in ToSet(d.levels)
               /\ d.shift \in ToSet(d.levels)

(* Faulty variant: the value is not kept within the sensor's range. *)
Snap_Unbounded(raw) == ((2 * raw + Step) \div (2 * Step)) * Step

(* The supported DPI nearest a value, halves up. *)
Snap(raw) ==
    LET rounded == ((2 * raw + Step) \div (2 * Step)) * Step IN
    IF rounded < Lowest THEN Lowest ELSE IF rounded > Highest THEN Highest ELSE rounded

(* From low to high; those that are equal stay as they are. *)
SortStages(d) ==
    LET levels == d.levels
        places == DOMAIN levels
        before == {p \in places \X places :
                     \/ levels[p[1]] < levels[p[2]]
                     \/ levels[p[1]] = levels[p[2]] /\ p[1] < p[2]}
        at     == InOrder(places, before)
    IN  [d EXCEPT !.levels = [k \in DOMAIN at |-> levels[at[k]]]]

(* Faulty variant: the roles stay at the value the level had. *)
SetStage_RolesStay(d, i, dpi) == [d EXCEPT !.levels[i] = dpi]

(* Changes level i; a role that had its value follows it. *)
SetStage(d, i, dpi) ==
    LET follow(role) == IF role = d.levels[i] THEN dpi ELSE role IN
    [d EXCEPT !.levels[i] = dpi, !.default = follow(@), !.shift = follow(@)]

InsertStage(d, dpi) == SortStages([d EXCEPT !.levels = Append(@, dpi)])

(* Faulty variant: removeStage, which leaves a role to be chosen again. *)
RemoveStageKeepingRoles_Drops(d, i) ==
    LET rest == RemoveAt(d.levels, i)
        keep(role) == IF role = d.levels[i] /\ role \notin ToSet(rest) THEN None ELSE role
    IN  [d EXCEPT !.levels = rest, !.default = keep(@), !.shift = keep(@)]

(* Removes level i; the nearest remaining level, the first of two as near, *)
(* takes a role that has no level left.                                    *)
RemoveStageKeepingRoles(d, i) ==
    LET gone == d.levels[i]
        rest == RemoveAt(d.levels, i)
        distance(k) == IF rest[k] < gone THEN gone - rest[k] ELSE rest[k] - gone
        nearest == CHOOSE k \in DOMAIN rest :
                       /\ \A j \in DOMAIN rest : distance(k) <= distance(j)
                       /\ \A j \in 1..k - 1 : distance(k) < distance(j)
        keep(role) == IF role = None \/ (role = gone /\ gone \notin ToSet(rest))
                      THEN rest[nearest] ELSE role
    IN  [d EXCEPT !.levels = rest, !.default = keep(@), !.shift = keep(@)]

(* Physical buttons, and the slots the profile already binds. *)
EditableSlots(d) == {n \in Slot : n \in Button \/ d.action[n] \notin {NoText, Disabled}}

(* Faulty variant: every slot is sent, changed or not. *)
ServeChanges_AllSlots(d, o) ==
    LET moved == d.levels # o.levels
        changed(new, old) == IF moved \/ new # old THEN new ELSE None
    IN  [levels  |-> IF moved THEN d.levels ELSE None,
         default |-> changed(d.default, o.default),
         shift   |-> changed(d.shift, o.shift),
         rate    |-> IF d.rate # o.rate THEN d.rate ELSE None,
         bind    |-> [n \in {k \in Slot : d.action[k] # NoText} |-> d.action[n]]]

(* What a save sends: the fields that differ, both roles with any change   *)
(* of the levels, and no slot whose draft has no text.                     *)
ServeChanges(d, o) ==
    LET moved == d.levels # o.levels
        changed(new, old) == IF moved \/ new # old THEN new ELSE None
    IN  [levels  |-> IF moved THEN d.levels ELSE None,
         default |-> changed(d.default, o.default),
         shift   |-> changed(d.shift, o.shift),
         rate    |-> IF d.rate # o.rate THEN d.rate ELSE None,
         bind    |-> [n \in {k \in Slot : d.action[k] \notin {NoText, o.action[k]}} |-> d.action[n]]]

-----------------------------------------------------------------------------
(* The server's plan: changes c against sector s. *)

(* Faulty variant: a role keeps its index whatever DPI was asked for. *)
StageIndex_Kept(stages, requested, index, before) == index

(* stage_index: where a role points after the edit, or None. *)
StageIndex(stages, requested, index, before) ==
    LET dpi == IF requested # None THEN requested ELSE before
        at  == Position(stages, dpi)
    IN  CASE dpi # None -> IF at = 0 THEN None ELSE at - 1
          [] OTHER      -> IF StageAt(stages, index) # None THEN index ELSE None

(* Faulty variant: every stage not given is written as 0. *)
NewStages_Cleared(s, c) ==
    IF c.levels = None THEN s.stages
    ELSE [i \in 1..MaxLevels |-> IF i <= Len(c.levels) THEN c.levels[i] ELSE 0]

(* set_dpi_stages: an unused stage keeps its bytes while it stays unused. *)
NewStages(s, c) ==
    IF c.levels = None THEN s.stages
    ELSE [i \in 1..MaxLevels |-> IF i <= Len(c.levels) THEN c.levels[i]
                                 ELSE IF s.stages[i] \in Unset THEN s.stages[i] ELSE 0]

NewRole(s, c, requested, index) ==
    IF c.levels = None /\ requested = None THEN index
    ELSE StageIndex(NewStages(s, c), requested, index, StageAt(s.stages, index))

IntervalsFor(c) == {ms \in Intervals : IntervalToHz(ms) = c.rate}

(* set_binding: bytes are written only when the action changes. *)
NewBinding(s, c, n) ==
    IF n \notin DOMAIN c.bind \/ c.bind[n] = s.slot[n].action THEN s.slot[n]
    ELSE [action |-> c.bind[n], tail |-> Plain]

NotEditable(s, c) == {n \in DOMAIN c.bind : n \notin Button /\ s.slot[n].action = Disabled}

(* The profile itself can be written: its levels, roles and rate. *)
ProfileAccepted(s, c) ==
    /\ c.levels # None => Len(c.levels) \in 1..MaxLevels /\ ToSet(c.levels) \subseteq Supported
    /\ NewRole(s, c, c.default, s.default) # None
    /\ NewRole(s, c, c.shift, s.shift) # None
    /\ c.rate # None => IntervalsFor(c) # {}

(* plan_profile_changes finds nothing to refuse. *)
Accepted(s, c) == ProfileAccepted(s, c) /\ NotEditable(s, c) = {}

Edited(s, c) ==
    [rate    |-> IF c.rate = None THEN s.rate
                 ELSE CHOOSE ms \in IntervalsFor(c) : \A other \in IntervalsFor(c) : ms <= other,
     default |-> NewRole(s, c, c.default, s.default),
     shift   |-> NewRole(s, c, c.shift, s.shift),
     stages  |-> NewStages(s, c),
     slot    |-> [n \in Slot |-> NewBinding(s, c, n)]]

-----------------------------------------------------------------------------
Init == /\ sector \in Stored
        /\ original = DraftFromSlot(sector) /\ draft = original
        /\ stage = 1
        /\ sent = None /\ undoing = FALSE /\ steps = <<>> /\ unchanged = None
        /\ edits = 0 /\ surprises = 0

dirty   == draft # original
busy    == sent # None \/ undoing
Current == IF stage > Len(draft.levels) THEN Len(draft.levels) ELSE stage
CurrentDpi == draft.levels[Current]

(* updateDraft *)
UpdateDraft(next) ==
    /\ edits < MaxEdits /\ edits' = edits + 1
    /\ draft' = next
    /\ UNCHANGED <<sector, original, sent, undoing, steps, unchanged, surprises>>

(* The selection goes to a level with this value. *)
Select(dpi, next) == stage' = Position(next.levels, dpi)

(* A level pressed on the bar and let go where it was. *)
SelectLevel ==
    /\ stage' \in DOMAIN draft.levels
    /\ UNCHANGED <<sector, original, draft, sent, undoing, steps, unchanged, edits, surprises>>

MoveLevel(i, dpi) ==
    LET next == SortStages(SetStage(draft, i, dpi)) IN
    /\ dpi # draft.levels[i]
    /\ UpdateDraft(next)
    /\ Select(dpi, next)

(* setCurrent, with a value typed or stepped to. *)
SetCurrent(raw) == draft.levels # <<>> /\ MoveLevel(Current, Snap(raw))

(* A level dragged along the bar and let go. *)
DragLevel(i, raw) == MoveLevel(i, Snap(raw))

(* A level dragged away from the bar, which the last one cannot be. *)
DragAway(i) ==
    /\ Len(draft.levels) > 1
    /\ UpdateDraft(RemoveStageKeepingRoles(draft, i))
    /\ stage' = IF i > 1 THEN i - 1 ELSE 1

(* The Remove button. *)
RemoveLevel == DragAway(Current)

ClickBar(raw) ==
    LET dpi == Snap(raw) IN
    /\ Len(draft.levels) < MaxLevels /\ dpi \notin ToSet(draft.levels)
    /\ UpdateDraft(InsertStage(draft, dpi))
    /\ Select(dpi, InsertStage(draft, dpi))

(* The Add level button: nextStageDpi, or a step below when that is taken. *)
AddLevel ==
    LET values  == ToSet(draft.levels)
        highest == CHOOSE dpi \in values : \A other \in values : other <= dpi
        double  == Snap(2 * highest)
        dpi     == CASE double \notin values      -> double
                     [] double - Step < Lowest    -> Lowest
                     [] OTHER                     -> double - Step
    IN  /\ Len(draft.levels) \in 1..MaxLevels - 1
        /\ UpdateDraft(InsertStage(draft, dpi))
        /\ Select(dpi, InsertStage(draft, dpi))

SetDefault == /\ draft.levels # <<>> /\ CurrentDpi # draft.default
              /\ UpdateDraft([draft EXCEPT !.default = CurrentDpi])
              /\ UNCHANGED stage

SetShift == /\ draft.levels # <<>> /\ CurrentDpi # draft.shift
            /\ UpdateDraft([draft EXCEPT !.shift = CurrentDpi])
            /\ UNCHANGED stage

SetRate(ms) == /\ UpdateDraft([draft EXCEPT !.rate = IntervalToHz(ms)])
               /\ UNCHANGED stage

(* A slot the overlay shows, given an action. *)
Assign(n, action) == /\ n \in EditableSlots(original)
                     /\ UpdateDraft([draft EXCEPT !.action[n] = action])
                     /\ UNCHANGED stage

(* A slot put back as last read. *)
RevertSlot(n) == /\ n \in EditableSlots(original)
                 /\ UpdateDraft([draft EXCEPT !.action[n] = original.action[n]])
                 /\ UNCHANGED stage

-----------------------------------------------------------------------------
(* The slot read back becomes what the next changes are taken from. *)
ReadBack(s) == original' = DraftFromSlot(s)

(* save.  original changes only with a reply, so the changes of the draft  *)
(* sent are the same until it is answered.                                 *)
Save == /\ dirty /\ HasRoles(draft) /\ ~busy
        /\ ServeChanges(draft, original) # unchanged
        /\ sent' = draft
        /\ UNCHANGED <<sector, original, draft, stage, undoing, steps, unchanged, edits, surprises>>

InFlight == ServeChanges(sent, original)

(* The server applies the change and its answer is read. *)
ApplyReply ==
    /\ sent # None /\ Accepted(sector, InFlight)
    /\ LET new == Edited(sector, InFlight) IN
        /\ sector' = new
        /\ IF new = sector THEN steps' = steps /\ unchanged' = InFlight
           ELSE steps' = Append(steps, sector) /\ unchanged' = unchanged
        /\ ReadBack(new)
    /\ sent' = None
    /\ UNCHANGED <<draft, stage, undoing, edits, surprises>>

(* The server refuses the change, or a request fails before the write. *)
ApplyFails ==
    /\ sent # None
    /\ sent' = None
    /\ UNCHANGED <<sector, original, draft, stage, undoing, steps, unchanged, edits, surprises>>

(* The write takes effect and the answer is an error: the reload failed. *)
ReloadFails ==
    /\ sent # None /\ Accepted(sector, InFlight) /\ surprises < MaxSurprises
    /\ sector' = Edited(sector, InFlight)
    /\ sent' = None /\ surprises' = surprises + 1
    /\ UNCHANGED <<original, draft, stage, undoing, steps, unchanged, edits>>

(* undo of changes that were not sent.  Leaving a profile whose draft has  *)
(* a problem, and coming back to it, drops them too.                       *)
UndoUnsaved ==
    /\ dirty /\ ~busy
    /\ draft' = original
    /\ UNCHANGED <<sector, original, stage, sent, undoing, steps, unchanged, edits, surprises>>

Undo ==
    /\ ~dirty /\ ~busy /\ steps # <<>>
    /\ undoing' = TRUE
    /\ UNCHANGED <<sector, original, draft, stage, sent, steps, unchanged, edits, surprises>>

(* The reply to an undo replaces the draft. *)
UndoReply ==
    /\ undoing
    /\ sector' = Last(steps) /\ steps' = Front(steps)
    /\ ReadBack(sector') /\ draft' = original'
    /\ unchanged' = None /\ undoing' = FALSE
    /\ UNCHANGED <<stage, sent, edits, surprises>>

(* The server keeps the step, also when the bytes were written and only    *)
(* their reload failed.                                                    *)
UndoFails ==
    /\ undoing /\ undoing' = FALSE
    /\ \/ UNCHANGED <<sector, surprises>>
       \/ /\ surprises < MaxSurprises /\ surprises' = surprises + 1
          /\ sector' = Last(steps)
    /\ UNCHANGED <<original, draft, stage, sent, steps, unchanged, edits>>

(* refresh, or the profile selected again: loadDraft. *)
Reload ==
    /\ ~dirty /\ ~busy
    /\ ReadBack(sector) /\ draft' = original'
    /\ unchanged' = None
    /\ UNCHANGED <<sector, stage, sent, undoing, steps, edits, surprises>>

(* Another process writes the profile between two requests of the server. *)
OtherWrites ==
    /\ surprises < MaxSurprises /\ surprises' = surprises + 1
    /\ sector' \in Stored \ {sector}
    /\ UNCHANGED <<original, draft, stage, sent, undoing, steps, unchanged, edits>>

Next ==
    \/ SelectLevel
    \/ \E raw \in Lowest..Highest : SetCurrent(raw) \/ ClickBar(raw)
    \/ \E raw \in Supported, i \in DOMAIN draft.levels : DragLevel(i, raw)
    \/ \E i \in DOMAIN draft.levels : DragAway(i)
    \/ RemoveLevel \/ AddLevel \/ SetDefault \/ SetShift
    \/ \E ms \in Intervals : SetRate(ms)
    \/ \E n \in Slot : RevertSlot(n) \/ \E action \in Action : Assign(n, action)
    \/ Save \/ ApplyReply \/ ApplyFails \/ ReloadFails
    \/ UndoUnsaved \/ Undo \/ UndoReply \/ UndoFails
    \/ Reload \/ OtherWrites

Spec == Init /\ [][Next]_vars

-----------------------------------------------------------------------------
(* The profile, the drafts and what is in flight have their types; a       *)
(* selected level exists whenever there is a level.                        *)
TypeOK ==
    /\ sector \in Sector /\ original \in Drafts /\ draft \in Drafts
    /\ stage \in 1..MaxLevels
    /\ sent \in Drafts \cup {None} /\ undoing \in BOOLEAN /\ ~(sent # None /\ undoing)
    /\ steps \in Seq(Sector)
    /\ edits \in 0..MaxEdits /\ surprises \in 0..MaxSurprises

(* "A profile is never left without one" (Model.js): as long as the slot   *)
(* last read has a default and a shift level, and while a draft is saved,  *)
(* no edit, in any order, leaves the draft without, so the footer never    *)
(* asks for a choice the user did not make.                                *)
RolesKept == (HasRoles(original) \/ sent # None) => HasRoles(draft)

(* The changes sent are planned against the sector the mouse holds, not    *)
(* the one the draft was made from.  When nobody else wrote between, the   *)
(* levels, roles and rate of a draft without a problem are never refused:  *)
(* what the sensitivity page can make, plan_profile_changes takes.         *)
SensitivityAccepted ==
    sent # None /\ original = DraftFromSlot(sector) => ProfileAccepted(sector, InFlight)

(* A save that is answered reads back as the draft that was sent: levels,  *)
(* roles by value whatever their index became, and the rate and every slot *)
(* the draft has text for (serveChanges sends no rate that is null).       *)
(* Otherwise the draft stays dirty and is sent again.                      *)
SavedAsDrafted ==
    [][ApplyReply /\ original = DraftFromSlot(sector) =>
        /\ original'.levels = sent.levels
        /\ original'.default = sent.default /\ original'.shift = sent.shift
        /\ sent.rate # None => original'.rate = sent.rate
        /\ \A n \in Slot : sent.action[n] # NoText => original'.action[n] = sent.action[n]]_vars

(* A save changes nothing of the sector the user did not change: bytes a   *)
(* draft cannot spell stay, and so does what another process wrote to      *)
(* fields the draft has as they were read.  Unused stages keep their bytes *)
(* whatever the levels become.                                             *)
OthersKept ==
    [][ApplyReply =>
        /\ sent.rate = original.rate => sector'.rate = sector.rate
        /\ \A n \in Slot : sent.action[n] = original.action[n] => sector'.slot[n] = sector.slot[n]
        /\ \A i \in 1..MaxLevels :
            sector.stages[i] \in Unset /\ sector'.stages[i] \in Unset =>
                sector'.stages[i] = sector.stages[i]
        /\ sent.levels = original.levels =>
            /\ sector'.stages = sector.stages
            /\ sent.default = original.default => sector'.default = sector.default
            /\ sent.shift = original.shift => sector'.shift = sector.shift]_vars

(* Any draft the sensitivity page can make is one the server takes         *)
(* (plan_profile_changes).                                                 *)
Consistent == TypeOK /\ SensitivityAccepted
=============================================================================
