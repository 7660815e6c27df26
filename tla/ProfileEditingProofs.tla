------------------------ MODULE ProfileEditingProofs ------------------------
(***************************************************************************)
(* For every sensor, profile, draft and write of another process: drafts   *)
(* keep their default and shift levels, the server takes what the          *)
(* sensitivity page makes, a save reads back as it was drafted, and it     *)
(* keeps what it was not asked to change.                                  *)
(*                                                                         *)
(* The second part is about ProfileDirectory, the other sector that these  *)
(* edits write: it lists distinct profiles, one of them on, and a repair   *)
(* invents nothing.                                                        *)
(***************************************************************************)
EXTENDS ProfileEditing, ProfileDirectory,
        FiniteSetTheorems, FunctionTheorems, WellFoundedInduction, TLAPS

(* A slot whose action the draft has as it was read is not written,        *)
(* whatever the mouse holds there by now (serveChanges, set_binding).      *)
LEMMA SlotsKept ==
    ASSUME NEW s, NEW d, NEW o, NEW n \in Slot, d.action[n] = o.action[n]
    PROVE  Edited(s, ServeChanges(d, o)).slot[n] = s.slot[n]
<1> DEFINE c == ServeChanges(d, o)
<1>1. DOMAIN c.bind = {k \in Slot : d.action[k] \notin {NoText, o.action[k]}}
      BY DEF ServeChanges
<1>2. n \notin DOMAIN c.bind
      BY <1>1
<1>3. NewBinding(s, c, n) = s.slot[n]
      BY <1>2 DEF NewBinding
<1> QED BY <1>3 DEF Edited

(* A rate that was not changed is not written. *)
LEMMA RateKept ==
    ASSUME NEW s, NEW d, NEW o, d.rate = o.rate
    PROVE  Edited(s, ServeChanges(d, o)).rate = s.rate
<1>1. ServeChanges(d, o).rate = None
      BY DEF ServeChanges
<1> QED BY <1>1 DEF Edited

(* Levels that were not changed keep every byte, and a role that was not   *)
(* changed either keeps its index (serveChanges, plan_profile_changes).    *)
LEMMA LevelsKept ==
    ASSUME NEW s, NEW d, NEW o, d.levels = o.levels
    PROVE  LET written == Edited(s, ServeChanges(d, o)) IN
           /\ written.stages = s.stages
           /\ d.default = o.default => written.default = s.default
           /\ d.shift = o.shift => written.shift = s.shift
<1> DEFINE c == ServeChanges(d, o)
<1>1. c.levels = None
      BY DEF ServeChanges
<1>2. NewStages(s, c) = s.stages
      BY <1>1 DEF NewStages
<1>3. d.default = o.default => c.default = None
      BY DEF ServeChanges
<1>4. d.shift = o.shift => c.shift = None
      BY DEF ServeChanges
<1>5. d.default = o.default => NewRole(s, c, c.default, s.default) = s.default
      BY <1>1, <1>3 DEF NewRole
<1>6. d.shift = o.shift => NewRole(s, c, c.shift, s.shift) = s.shift
      BY <1>1, <1>4 DEF NewRole
<1> QED BY <1>2, <1>5, <1>6 DEF Edited

(* No DPI value is spelled like an unused stage. *)
LEMMA SupportedIsSet == Supported \cap Unset = {}
BY SensorAssumption DEF Supported, Unset

(* A stage that stays unused keeps the bytes it is unused by               *)
(* (set_dpi_stages).                                                       *)
LEMMA UnusedKept ==
    ASSUME NEW s, NEW c, NEW i \in 1..MaxLevels, Accepted(s, c),
           s.stages[i] \in Unset, Edited(s, c).stages[i] \in Unset
    PROVE  Edited(s, c).stages[i] = s.stages[i]
<1>1. Edited(s, c).stages = NewStages(s, c)
      BY DEF Edited
<1>2. CASE c.levels = None
      BY <1>1, <1>2 DEF NewStages
<1>3. CASE c.levels # None
  <2>1. /\ Len(c.levels) \in 1..MaxLevels
        /\ {c.levels[k] : k \in DOMAIN c.levels} \subseteq Supported
        BY <1>3 DEF Accepted, ProfileAccepted, ToSet
  <2>2. NewStages(s, c)[i] = IF i <= Len(c.levels) THEN c.levels[i] ELSE s.stages[i]
        BY <1>3 DEF NewStages
  <2>3. CASE i <= Len(c.levels)
        BY <1>1, <2>1, <2>2, <2>3, SupportedIsSet
  <2>4. CASE ~(i <= Len(c.levels))
        BY <1>1, <2>2, <2>4
  <2> QED BY <2>3, <2>4
<1> QED BY <1>2, <1>3

-----------------------------------------------------------------------------
(* OthersKept: what a save writes to a profile is what the user changed,   *)
(* also when another process wrote the profile after the draft was read.   *)
THEOREM SavesKeepTheRest == Spec => OthersKept
<1> DEFINE c == ServeChanges(sent, original)
           Kept == /\ sent.rate = original.rate => sector'.rate = sector.rate
                   /\ \A n \in Slot : sent.action[n] = original.action[n] =>
                                          sector'.slot[n] = sector.slot[n]
                   /\ \A i \in 1..MaxLevels :
                       sector.stages[i] \in Unset /\ sector'.stages[i] \in Unset =>
                           sector'.stages[i] = sector.stages[i]
                   /\ sent.levels = original.levels =>
                       /\ sector'.stages = sector.stages
                       /\ sent.default = original.default => sector'.default = sector.default
                       /\ sent.shift = original.shift => sector'.shift = sector.shift
<1>1. ApplyReply => Kept
  <2> SUFFICES ASSUME ApplyReply PROVE Kept
      OBVIOUS
  <2>1. sector' = Edited(sector, c) /\ Accepted(sector, c)
        BY DEF ApplyReply, InFlight
  <2>2. sent.rate = original.rate => sector'.rate = sector.rate
        BY <2>1, RateKept
  <2>3. \A n \in Slot : sent.action[n] = original.action[n] => sector'.slot[n] = sector.slot[n]
        BY <2>1, SlotsKept
  <2>4. ASSUME NEW i \in 1..MaxLevels, sector.stages[i] \in Unset, sector'.stages[i] \in Unset
        PROVE  sector'.stages[i] = sector.stages[i]
        BY <2>1, <2>4, UnusedKept
  <2>5. sent.levels = original.levels =>
            /\ sector'.stages = sector.stages
            /\ sent.default = original.default => sector'.default = sector.default
            /\ sent.shift = original.shift => sector'.shift = sector.shift
        BY <2>1, LevelsKept
  <2> QED BY <2>2, <2>3, <2>4, <2>5
<1>2. [ApplyReply => Kept]_vars
      BY <1>1
<1> QED BY <1>2, PTL DEF OthersKept

-----------------------------------------------------------------------------
(* Members in their order.                                                 *)

(* A set of natural numbers that is not empty has a least member. *)
LEMMA LeastExists ==
    ASSUME NEW S \in SUBSET Nat, S # {}
    PROVE  \E n \in S : \A m \in S : n <= m
<1>1. PICK R : R = OpToRel(<, Nat)
      OBVIOUS
<1>2. IsWellFoundedOn(R, Nat)
      BY <1>1, NatLessThanWellFounded
<1>3. \A n, m \in Nat : <<m, n>> \in R <=> m < n
      BY <1>1 DEF OpToRel
<1>4. PICK n \in S : \A m \in S : ~(<<m, n>> \in R)
      BY <1>2, WFMin
<1>5. ASSUME NEW m \in S PROVE n <= m
  <2>1. n \in Nat /\ m \in Nat /\ ~(<<m, n>> \in R)
        BY <1>4
  <2>2. ~(m < n)
        BY <2>1, <1>3, Zenon
  <2> QED BY <2>1, <2>2
<1> QED BY <1>5

(* Where before orders the members strictly and wholly, InOrder takes each *)
(* of them once, and the one with r of them before it at r + 1.            *)
LEMMA InOrderIs ==
    ASSUME NEW I, IsFiniteSet(I), NEW R,
           \A a \in I : <<a, a>> \notin R,
           \A a, b, c \in I : <<a, b>> \in R /\ <<b, c>> \in R => <<a, c>> \in R,
           \A a, b \in I : a # b => <<a, b>> \in R \/ <<b, a>> \in R
    PROVE  /\ Cardinality(I) \in Nat
           /\ InOrder(I, R) \in [1..Cardinality(I) -> I]
           /\ \A m \in I : Cardinality(Before(I, R, m)) + 1 \in 1..Cardinality(I)
           /\ \A m \in I : InOrder(I, R)[Cardinality(Before(I, R, m)) + 1] = m
<1> DEFINE n == Cardinality(I)
           B(m) == Before(I, R, m)
           g == [m \in I |-> Cardinality(B(m)) + 1]
<1>1. n \in Nat
      BY FS_CardinalityType
<1>2. ASSUME NEW m \in I
      PROVE  IsFiniteSet(B(m)) /\ Cardinality(B(m)) \in Nat /\ Cardinality(B(m)) < n
  <2>1. B(m) \in SUBSET I /\ B(m) # I
        BY DEF Before
  <2>2. /\ IsFiniteSet(B(m)) /\ Cardinality(B(m)) <= n
        /\ Cardinality(I) = Cardinality(B(m)) => I = B(m)
        BY <2>1, FS_Subset
  <2> QED BY <1>1, <2>1, <2>2, FS_CardinalityType
<1>3. ASSUME NEW a \in I, NEW b \in I, <<a, b>> \in R
      PROVE  Cardinality(B(a)) < Cardinality(B(b))
  <2>1. B(a) \in SUBSET B(b) /\ a \in B(b) /\ a \notin B(a)
        BY <1>3 DEF Before
  <2>2. /\ Cardinality(B(a)) <= Cardinality(B(b))
        /\ Cardinality(B(b)) = Cardinality(B(a)) => B(b) = B(a)
        BY <1>2, <2>1, FS_Subset
  <2> QED BY <1>2, <2>1, <2>2
<1>4. g \in [I -> 1..n]
  <2> QED BY <1>1, <1>2
<1>5. \A a, b \in I : g[a] = g[b] => a = b
  <2>1. SUFFICES ASSUME NEW a \in I, NEW b \in I, g[a] = g[b], a # b PROVE FALSE
        OBVIOUS
  <2>2. <<a, b>> \in R \/ <<b, a>> \in R
        BY <2>1
  <2>3. /\ Cardinality(B(a)) = Cardinality(B(b))
        /\ Cardinality(B(a)) \in Nat /\ Cardinality(B(b)) \in Nat
        BY <1>2, <2>1
  <2>4. CASE <<a, b>> \in R
        BY <1>3, <2>3, <2>4
  <2>5. CASE <<b, a>> \in R
        BY <1>3, <2>3, <2>5
  <2> QED BY <2>2, <2>4, <2>5
<1>6. g \in Injection(I, 1..n)
      BY <1>4, <1>5, Fun_IsInj
<1>7. IsFiniteSet(1..n) /\ Cardinality(1..n) = n
      BY <1>1, FS_Interval
<1>8. g \in Surjection(I, 1..n)
      BY <1>6, <1>7, FS_Injection
<1>9. \A k \in 1..n : \E m \in I : g[m] = k
  <2> HIDE DEF g, n
  <2> QED BY <1>8, Fun_SurjectionProperties
<1> DEFINE at == InOrder(I, R)
<1>10. \A k \in 1..n : \E m \in I : Cardinality(B(m)) = k - 1
  <2> QED BY <1>1, <1>2, <1>9
<1>11. at = [k \in 1..n |-> CHOOSE m \in I : Cardinality(B(m)) = k - 1]
       BY DEF InOrder
<1>12. \A k \in 1..n : at[k] \in I /\ Cardinality(B(at[k])) = k - 1
  <2> HIDE DEF at
  <2> QED BY <1>10, <1>11
<1>13. at \in [1..n -> I]
  <2> HIDE DEF at
  <2> QED BY <1>11, <1>12
<1>14. \A m \in I : Cardinality(B(m)) + 1 \in 1..n /\ at[Cardinality(B(m)) + 1] = m
  <2>1. TAKE m \in I
  <2> HIDE DEF at
  <2>2. Cardinality(B(m)) + 1 \in 1..n
        BY <1>1, <1>2
  <2>3. g[at[Cardinality(B(m)) + 1]] = g[m]
        BY <1>2, <1>12, <2>2
  <2> QED BY <1>5, <1>12, <2>2, <2>3
<1> QED BY <1>1, <1>12, <1>13, <1>14

(* The places of a set of natural numbers, from low to high. *)
LEMMA LowToHigh ==
    ASSUME NEW m \in Nat, NEW I \in SUBSET (1..m), NEW R,
           \A a, b \in I : <<a, b>> \in R <=> a < b
    PROVE  /\ Cardinality(I) \in 0..m
           /\ InOrder(I, R) \in [1..Cardinality(I) -> I]
           /\ \A i \in I : \E k \in 1..Cardinality(I) : InOrder(I, R)[k] = i
           /\ I = 1..Cardinality(I) => \A k \in I : InOrder(I, R)[k] = k
<1>1. IsFiniteSet(1..m) /\ Cardinality(1..m) = m
      BY FS_Interval
<1>2. IsFiniteSet(I) /\ Cardinality(I) <= m /\ Cardinality(I) \in Nat
      BY <1>1, FS_Subset, FS_CardinalityType
<1>3. I \subseteq Nat
      OBVIOUS
<1>4. /\ \A a \in I : <<a, a>> \notin R
      /\ \A a, b, c \in I : <<a, b>> \in R /\ <<b, c>> \in R => <<a, c>> \in R
      /\ \A a, b \in I : a # b => <<a, b>> \in R \/ <<b, a>> \in R
      BY <1>3
<1>5. /\ InOrder(I, R) \in [1..Cardinality(I) -> I]
      /\ \A i \in I : Cardinality(Before(I, R, i)) + 1 \in 1..Cardinality(I)
      /\ \A i \in I : InOrder(I, R)[Cardinality(Before(I, R, i)) + 1] = i
      BY <1>2, <1>4, InOrderIs
<1>6. ASSUME I = 1..Cardinality(I), NEW k \in I PROVE InOrder(I, R)[k] = k
  <2>1. PICK n \in Nat : n = Cardinality(I)
        BY <1>2
  <2>2. k \in 1..n
        BY <1>6, <2>1
  <2>3. Before(I, R, k) = {a \in 1..n : a < k}
        BY <1>6, <2>1, <2>2 DEF Before
  <2>4. {a \in 1..n : a < k} = 1..(k - 1)
        BY <2>2
  <2>5. Cardinality(1..(k - 1)) = k - 1
        BY <2>2, FS_Interval
  <2>6. Cardinality(Before(I, R, k)) = k - 1
        BY <2>3, <2>4, <2>5
  <2>7. Cardinality(Before(I, R, k)) + 1 = k
        BY <2>2, <2>6
  <2> QED BY <1>5, <2>7
<1>7. \A i \in I : \E k \in 1..Cardinality(I) : InOrder(I, R)[k] = i
      BY <1>5
<1> QED BY <1>2, <1>5, <1>6, <1>7

(* The first place of a value in a list that has it. *)
LEMMA PositionIs ==
    ASSUME NEW n \in Nat, NEW list, DOMAIN list = 1..n, Len(list) = n, NEW dpi
    PROVE  /\ Position(list, dpi) \in 0..n
           /\ (\E i \in 1..n : list[i] = dpi) =>
                  Position(list, dpi) \in 1..n /\ list[Position(list, dpi)] = dpi
           /\ ~(\E i \in 1..n : list[i] = dpi) => Position(list, dpi) = 0
<1> DEFINE I == {i \in 1..n : list[i] = dpi}
<1>1. Position(list, dpi) = IF I # {} THEN Min(I) ELSE 0
      BY DEF Position, SelectInSeq
<1>2. ASSUME I # {} PROVE Min(I) \in I
  <2>1. I \in SUBSET Nat
        OBVIOUS
  <2> HIDE DEF I
  <2>2. PICK i \in I : \A m \in I : i <= m
        BY <1>2, <2>1, LeastExists
  <2> QED BY <2>2 DEF Min
<1> QED BY <1>1, <1>2


-----------------------------------------------------------------------------
(* What the operators on drafts make.                                      *)

(* How many numbers there are up to n. *)
LEMMA UpToCardinality == \A n \in Nat : Cardinality(1..n) = n
BY FS_Interval

(* Levels: the stages in use, all of them and nothing else; as they stand  *)
(* when they come first.                                                   *)
LEMMA LevelsAre ==
    ASSUME NEW stages \in [1..MaxLevels -> Supported \cup Unset]
    PROVE  /\ Levels(stages) \in Seq(Supported)
           /\ Len(Levels(stages)) <= MaxLevels
           /\ \A i \in 1..MaxLevels : stages[i] \notin Unset =>
                \E k \in 1..Len(Levels(stages)) : Levels(stages)[k] = stages[i]
           /\ \A k \in 1..Len(Levels(stages)) :
                \E i \in 1..MaxLevels : stages[i] = Levels(stages)[k]
<1> DEFINE used == {i \in 1..MaxLevels : stages[i] \notin Unset}
           R == {p \in used \X used : p[1] < p[2]}
           n == Cardinality(used)
<1>1. MaxLevels \in Nat
      BY SensorAssumption
<1>2. used \in SUBSET (1..MaxLevels) /\ \A a, b \in used : <<a, b>> \in R <=> a < b
      OBVIOUS
<1> HIDE DEF R
<1>3. Levels(stages) = [k \in DOMAIN InOrder(used, R) |-> stages[InOrder(used, R)[k]]]
      BY DEF Levels, R
<1>4. \A i \in used : i \in 1..MaxLevels /\ stages[i] \in Supported
      OBVIOUS
<1> HIDE DEF used
<1>5. /\ n \in 0..MaxLevels
      /\ InOrder(used, R) \in [1..n -> used]
      /\ \A i \in used : \E k \in 1..n : InOrder(used, R)[k] = i
      BY <1>1, <1>2, LowToHigh
<1> HIDE DEF n
<1>6. Levels(stages) = [k \in 1..n |-> stages[InOrder(used, R)[k]]]
      BY <1>3, <1>5
<1>7. Levels(stages) \in Seq(Supported) /\ Len(Levels(stages)) = n
      BY <1>4, <1>5, <1>6
<1>8. ASSUME NEW i \in 1..MaxLevels, stages[i] \notin Unset
      PROVE  \E k \in 1..n : Levels(stages)[k] = stages[i]
  <2>1. i \in used
        BY <1>8 DEF used
  <2> QED BY <1>5, <1>6, <2>1
<1>9. \A k \in 1..n : \E i \in 1..MaxLevels : stages[i] = Levels(stages)[k]
      BY <1>4, <1>5, <1>6
<1> QED BY <1>5, <1>7, <1>8, <1>9

(* Levels of stages of which the first n are in use. *)
LEMMA LevelsOfFirst ==
    ASSUME NEW stages \in [1..MaxLevels -> Supported \cup Unset],
           NEW levels \in Seq(Supported), Len(levels) <= MaxLevels,
           \A i \in 1..MaxLevels :
               IF i <= Len(levels) THEN stages[i] = levels[i] ELSE stages[i] \in Unset
    PROVE  Levels(stages) = levels
<1> DEFINE used == {i \in 1..MaxLevels : stages[i] \notin Unset}
           R == {p \in used \X used : p[1] < p[2]}
<1>1. MaxLevels \in Nat /\ Len(levels) \in Nat
      BY SensorAssumption
<1>2. used \in SUBSET (1..MaxLevels) /\ \A a, b \in used : <<a, b>> \in R <=> a < b
      OBVIOUS
<1> HIDE DEF R
<1>3. Levels(stages) = [k \in DOMAIN InOrder(used, R) |-> stages[InOrder(used, R)[k]]]
      BY DEF Levels, R
<1>4. used = 1..Len(levels)
      BY <1>1, SupportedIsSet
<1> HIDE DEF used
<1>5. Cardinality(used) = Len(levels)
  <2>1. Len(levels) \in Nat => Cardinality(1..Len(levels)) = Len(levels)
        BY UpToCardinality
  <2> QED BY <1>1, <1>4, <2>1
<1>6. /\ InOrder(used, R) \in [1..Len(levels) -> used]
      /\ used = 1..Cardinality(used) => \A k \in used : InOrder(used, R)[k] = k
      BY <1>1, <1>2, <1>5, LowToHigh
<1>7. \A k \in 1..Len(levels) : InOrder(used, R)[k] = k /\ k <= MaxLevels
      BY <1>1, <1>4, <1>5, <1>6
<1>8. Levels(stages) = [k \in 1..Len(levels) |-> levels[k]]
      BY <1>1, <1>3, <1>6, <1>7
<1> QED BY <1>8

(* sortStages keeps how many levels there are and which. *)
LEMMA SortIs ==
    ASSUME NEW d \in Drafts
    PROVE  /\ SortStages(d) \in Drafts
           /\ Len(SortStages(d).levels) = Len(d.levels)
           /\ ToSet(SortStages(d).levels) = ToSet(d.levels)
           /\ SortStages(d).default = d.default /\ SortStages(d).shift = d.shift
           /\ SortStages(d).rate = d.rate
<1> DEFINE levels == d.levels
           places == DOMAIN levels
           R == {p \in places \X places :
                     \/ levels[p[1]] < levels[p[2]]
                     \/ levels[p[1]] = levels[p[2]] /\ p[1] < p[2]}
           at == InOrder(places, R)
           n == Len(levels)
<1>1. /\ levels \in Seq(Supported) /\ n \in Nat /\ places = 1..n
      /\ \A i \in places : levels[i] \in Int
      BY DEF Drafts, Supported
<1>2. \A a, b \in places : <<a, b>> \in R <=>
          levels[a] < levels[b] \/ (levels[a] = levels[b] /\ a < b)
      OBVIOUS
<1>3. SortStages(d) = [d EXCEPT !.levels = [k \in DOMAIN at |-> levels[at[k]]]]
      BY DEF SortStages
<1> HIDE DEF R, at
<1>4. IsFiniteSet(places) /\ Cardinality(places) = n
      BY <1>1, FS_Interval
<1> HIDE DEF levels, n
<1>5. /\ \A a \in 1..n : <<a, a>> \notin R
      /\ \A a, b, c \in 1..n : <<a, b>> \in R /\ <<b, c>> \in R => <<a, c>> \in R
      /\ \A a, b \in 1..n : a # b => <<a, b>> \in R \/ <<b, a>> \in R
  <2> HIDE DEF places
  <2>1. \A a, b \in 1..n : <<a, b>> \in R <=>
            levels[a] < levels[b] \/ (levels[a] = levels[b] /\ a < b)
        BY <1>1, <1>2
  <2>2. \A a \in 1..n : a \in Int /\ levels[a] \in Int
        BY <1>1
  <2>3. ASSUME NEW a \in 1..n PROVE <<a, a>> \notin R
        BY <2>1, <2>2
  <2>4. ASSUME NEW a \in 1..n, NEW b \in 1..n, NEW c \in 1..n,
               <<a, b>> \in R, <<b, c>> \in R
        PROVE  <<a, c>> \in R
    <3>1. /\ levels[a] < levels[b] \/ (levels[a] = levels[b] /\ a < b)
          /\ levels[b] < levels[c] \/ (levels[b] = levels[c] /\ b < c)
          BY <2>1, <2>4
    <3>2. levels[a] < levels[c] \/ (levels[a] = levels[c] /\ a < c)
          BY <2>2, <3>1
    <3> QED BY <2>1, <3>2
  <2>5. ASSUME NEW a \in 1..n, NEW b \in 1..n, a # b
        PROVE  <<a, b>> \in R \/ <<b, a>> \in R
        BY <2>1, <2>2, <2>5
  <2> QED BY <2>3, <2>4, <2>5
<1>6. /\ at \in [1..n -> 1..n]
      /\ \A i \in 1..n : \E k \in 1..n : at[k] = i
  <2> HIDE DEF places
  <2>1. /\ InOrder(places, R) \in [1..Cardinality(places) -> places]
        /\ \A m \in places : Cardinality(Before(places, R, m)) + 1 \in 1..Cardinality(places)
        /\ \A m \in places : InOrder(places, R)[Cardinality(Before(places, R, m)) + 1] = m
        BY <1>1, <1>4, <1>5, InOrderIs
  <2> QED BY <1>1, <1>4, <2>1 DEF at
<1> DEFINE sorted == [k \in 1..n |-> levels[at[k]]]
<1>7. sorted \in Seq(Supported) /\ Len(sorted) = n
      BY <1>1, <1>6
<1>8. SortStages(d) = [d EXCEPT !.levels = sorted]
      BY <1>3, <1>6
<1>9. {sorted[k] : k \in 1..n} = {levels[i] : i \in 1..n}
      BY <1>6
<1> HIDE DEF sorted
<1>10. ToSet(SortStages(d).levels) = ToSet(d.levels)
  <2>1. SortStages(d).levels = sorted
        BY <1>8 DEF Drafts
  <2>2. DOMAIN sorted = 1..n
        BY <1>7
  <2> QED BY <1>1, <1>9, <2>1, <2>2 DEF ToSet, levels
<1> QED BY <1>7, <1>8, <1>10 DEF Drafts, levels, n

(* The fields of a draft. *)
LEMMA DraftFields ==
    ASSUME NEW d \in Drafts
    PROVE  d = [levels |-> d.levels, default |-> d.default, shift |-> d.shift,
                rate |-> d.rate, action |-> d.action]
BY DEF Drafts

(* A slot read into a draft. *)
LEMMA SlotReads ==
    ASSUME NEW s \in Sector
    PROVE  /\ DraftFromSlot(s) \in Drafts
           /\ DraftFromSlot(s).rate = IF s.rate > 0 THEN RoundedHz(s.rate) ELSE None
<1>1. s.stages \in [1..MaxLevels -> Supported \cup Unset] /\ s.rate \in 0..8
      BY DEF Sector
<1>2. Levels(s.stages) \in Seq(Supported) /\ Len(Levels(s.stages)) <= MaxLevels
      BY <1>1, LevelsAre
<1>3. \A index \in 0..255 : StageAt(s.stages, index) \in Supported \cup {None}
      BY <1>1, SensorAssumption DEF StageAt
<1>4. s.default \in 0..255 /\ s.shift \in 0..255
      BY DEF Sector
<1>5. (IF s.rate > 0 THEN RoundedHz(s.rate) ELSE None) \in
          {RoundedHz(ms) : ms \in 1..8} \cup {None}
      BY <1>1
<1>6. [n \in Slot |-> s.slot[n].action] \in [Slot -> Action \cup {NoText}]
      BY DEF Sector, Binding
<1>7. DraftFromSlot(s) \in Drafts
      BY <1>2, <1>3, <1>4, <1>5, <1>6 DEF DraftFromSlot, Drafts
<1> QED BY <1>7 DEF DraftFromSlot

(* The nearest supported DPI is one the sensor supports. *)
LEMMA SnapSupported ==
    ASSUME NEW raw \in Nat
    PROVE  Snap(raw) \in Supported
<1> DEFINE q == (2 * raw + Step) \div (2 * Step)
<1>1. Step \in Nat /\ Step > 0
      BY SensorAssumption
<1>2. q \in Nat
      BY <1>1
<1> HIDE DEF q
<1>3. q * Step \in Nat /\ (q * Step) % Step = 0
      BY <1>1, <1>2
<1>4. Snap(raw) = IF q * Step < Lowest THEN Lowest
                  ELSE IF q * Step > Highest THEN Highest ELSE q * Step
      BY DEF Snap, q
<1> QED BY <1>3, <1>4, SensorAssumption DEF Supported

(* setStage: a role that had the value of the level follows it. *)
LEMMA SetStageIs ==
    ASSUME NEW d \in Drafts, NEW i \in DOMAIN d.levels, NEW dpi \in Supported
    PROVE  /\ SetStage(d, i, dpi) \in Drafts
           /\ dpi \in ToSet(SetStage(d, i, dpi).levels)
           /\ SetStage(d, i, dpi).rate = d.rate
           /\ HasRoles(d) => HasRoles(SetStage(d, i, dpi))
<1> DEFINE Follow(role) == IF role = d.levels[i] THEN dpi ELSE role
           set == [d.levels EXCEPT ![i] = dpi]
           e == SetStage(d, i, dpi)
<1>1. /\ d.levels \in Seq(Supported) /\ Len(d.levels) <= MaxLevels
      /\ d.default \in Supported \cup {None} /\ d.shift \in Supported \cup {None}
      BY DEF Drafts
<1>2. e = [d EXCEPT !.levels = set, !.default = Follow(d.default), !.shift = Follow(d.shift)]
      BY DEF SetStage, Drafts
<1>3. /\ set \in Seq(Supported) /\ Len(set) = Len(d.levels) /\ DOMAIN set = DOMAIN d.levels
      /\ set[i] = dpi /\ \A j \in DOMAIN d.levels : j # i => set[j] = d.levels[j]
      BY <1>1
<1>4. \A role \in ToSet(d.levels) : Follow(role) \in ToSet(set)
      BY <1>3 DEF ToSet
<1>5. set # <<>>
      BY <1>3
<1> HIDE DEF set
<1>6. Follow(d.default) \in Supported \cup {None} /\ Follow(d.shift) \in Supported \cup {None}
      BY <1>1
<1> HIDE DEF Follow, e
<1>7. /\ e.levels = set /\ e.default = Follow(d.default) /\ e.shift = Follow(d.shift)
      /\ e.rate = d.rate
      BY <1>2 DEF Drafts
<1>8. e \in Drafts
      BY <1>1, <1>2, <1>3, <1>6 DEF Drafts
<1>9. dpi \in ToSet(set)
      BY <1>3 DEF ToSet
<1>10. HasRoles(d) => HasRoles(e)
      BY <1>4, <1>5, <1>7 DEF HasRoles
<1> QED BY <1>7, <1>8, <1>9, <1>10 DEF e

(* insertStage *)
LEMMA InsertIs ==
    ASSUME NEW d \in Drafts, Len(d.levels) < MaxLevels, NEW dpi \in Supported
    PROVE  /\ InsertStage(d, dpi) \in Drafts
           /\ dpi \in ToSet(InsertStage(d, dpi).levels)
           /\ InsertStage(d, dpi).rate = d.rate
           /\ HasRoles(d) => HasRoles(InsertStage(d, dpi))
<1> DEFINE e == [d EXCEPT !.levels = Append(@, dpi)]
<1>1. /\ d.levels \in Seq(Supported) /\ Len(d.levels) \in Nat
      BY DEF Drafts
<1>2. /\ Append(d.levels, dpi) \in Seq(Supported)
      /\ Len(Append(d.levels, dpi)) = Len(d.levels) + 1
      /\ DOMAIN Append(d.levels, dpi) = 1..Len(d.levels) + 1
      /\ DOMAIN d.levels = 1..Len(d.levels)
      /\ \A k \in DOMAIN d.levels : Append(d.levels, dpi)[k] = d.levels[k]
      /\ Append(d.levels, dpi)[Len(d.levels) + 1] = dpi
      BY <1>1
<1>3. /\ e.levels = Append(d.levels, dpi) /\ e.default = d.default /\ e.shift = d.shift
      /\ e.rate = d.rate
      BY DEF Drafts
<1>4. e \in Drafts
  <2>1. Append(d.levels, dpi) \in {l \in Seq(Supported) : Len(l) <= MaxLevels}
        BY <1>1, <1>2, SensorAssumption
  <2>2. e = [levels |-> Append(d.levels, dpi), default |-> d.default, shift |-> d.shift,
             rate |-> d.rate, action |-> d.action]
        BY DraftFields
  <2> QED BY <2>1, <2>2 DEF Drafts
<1>5. ToSet(d.levels) \subseteq ToSet(e.levels) /\ dpi \in ToSet(e.levels)
      BY <1>1, <1>2, <1>3 DEF ToSet
<1> HIDE DEF e
<1>6. /\ SortStages(e) \in Drafts
      /\ Len(SortStages(e).levels) = Len(e.levels)
      /\ ToSet(SortStages(e).levels) = ToSet(e.levels)
      /\ SortStages(e).default = e.default /\ SortStages(e).shift = e.shift
      /\ SortStages(e).rate = e.rate
      BY <1>4, SortIs
<1>7. InsertStage(d, dpi) = SortStages(e)
      BY DEF InsertStage, e
<1>8. SortStages(e).levels # <<>>
      BY <1>1, <1>2, <1>3, <1>6
<1> QED BY <1>3, <1>5, <1>6, <1>7, <1>8 DEF HasRoles

(* MoveLevel's draft: a level set and the levels put in order again. *)
LEMMA MoveIs ==
    ASSUME NEW d \in Drafts, NEW i \in DOMAIN d.levels, NEW dpi \in Supported
    PROVE  LET next == SortStages(SetStage(d, i, dpi)) IN
           /\ next \in Drafts
           /\ dpi \in ToSet(next.levels)
           /\ next.rate = d.rate
           /\ HasRoles(d) => HasRoles(next)
<1> DEFINE e == SetStage(d, i, dpi)
<1>1. /\ e \in Drafts /\ dpi \in ToSet(e.levels) /\ e.rate = d.rate
      /\ HasRoles(d) => HasRoles(e)
      BY SetStageIs
<1> HIDE DEF e
<1>2. /\ SortStages(e) \in Drafts
      /\ ToSet(SortStages(e).levels) = ToSet(e.levels)
      /\ SortStages(e).default = e.default /\ SortStages(e).shift = e.shift
      /\ SortStages(e).rate = e.rate
      BY <1>1, SortIs
<1>3. SortStages(e).levels # <<>>
      BY <1>1, <1>2 DEF ToSet
<1>4. HasRoles(d) => HasRoles(SortStages(e))
      BY <1>1, <1>2, <1>3 DEF HasRoles
<1> QED BY <1>1, <1>2, <1>4 DEF e

(* The places of two lists in the one made of both. *)
LEMMA ConcatIs ==
    ASSUME NEW S, NEW low \in Seq(S), NEW high \in Seq(S)
    PROVE  /\ low \o high \in Seq(S) /\ Len(low \o high) = Len(low) + Len(high)
           /\ \A k \in 1..Len(low) : (low \o high)[k] = low[k]
           /\ \A k \in 1..Len(high) : (low \o high)[Len(low) + k] = high[k]
OBVIOUS

(* A list without one of its levels has the others. *)
LEMMA RemoveAtIs ==
    ASSUME NEW list \in Seq(Supported), NEW i \in DOMAIN list
    PROVE  /\ RemoveAt(list, i) \in Seq(Supported)
           /\ Len(RemoveAt(list, i)) = Len(list) - 1
           /\ \A j \in DOMAIN list : j # i =>
                \E k \in DOMAIN RemoveAt(list, i) : RemoveAt(list, i)[k] = list[j]
<1> DEFINE n == Len(list)
           rest == RemoveAt(list, i)
<1>1. n \in Nat /\ i \in 1..n /\ DOMAIN list = 1..n
      BY DEF RemoveAt
<1>2. /\ SubSeq(list, 1, i - 1) \in Seq(Supported) /\ Len(SubSeq(list, 1, i - 1)) = i - 1
      /\ \A k \in 1..i - 1 : SubSeq(list, 1, i - 1)[k] = list[k]
      BY <1>1
<1>3. /\ SubSeq(list, i + 1, n) \in Seq(Supported) /\ Len(SubSeq(list, i + 1, n)) = n - i
      /\ \A k \in 1..n - i : SubSeq(list, i + 1, n)[k] = list[i + k]
      BY <1>1
<1>4. rest = SubSeq(list, 1, i - 1) \o SubSeq(list, i + 1, n)
      BY DEF RemoveAt
<1> DEFINE low == SubSeq(list, 1, i - 1)
           high == SubSeq(list, i + 1, n)
<1> HIDE DEF rest, n, low, high
<1>5. /\ rest \in Seq(Supported) /\ Len(rest) = n - 1 /\ DOMAIN rest = 1..n - 1
      /\ \A k \in 1..i - 1 : rest[k] = list[k]
      /\ \A k \in 1..n - i : rest[i - 1 + k] = list[i + k]
  <2>1. low \in Seq(Supported) /\ Len(low) = i - 1 /\ \A k \in 1..i - 1 : low[k] = list[k]
        BY <1>2 DEF low
  <2>2. high \in Seq(Supported) /\ Len(high) = n - i /\ \A k \in 1..n - i : high[k] = list[i + k]
        BY <1>3 DEF high
  <2>3. rest = low \o high
        BY <1>4 DEF low, high
  <2>4. /\ rest \in Seq(Supported) /\ Len(rest) = Len(low) + Len(high)
        /\ \A k \in 1..Len(low) : rest[k] = low[k]
        /\ \A k \in 1..Len(high) : rest[Len(low) + k] = high[k]
    <3>1. low \in Seq(Supported) /\ high \in Seq(Supported)
          BY <2>1, <2>2
    <3>2. /\ low \o high \in Seq(Supported) /\ Len(low \o high) = Len(low) + Len(high)
          /\ \A k \in 1..Len(low) : (low \o high)[k] = low[k]
          /\ \A k \in 1..Len(high) : (low \o high)[Len(low) + k] = high[k]
          BY <3>1, ConcatIs
    <3> QED BY <3>2, <2>3
  <2>5. Len(rest) = n - 1 /\ DOMAIN rest = 1..n - 1
        BY <1>1, <2>1, <2>2, <2>4
  <2>6. \A k \in 1..i - 1 : rest[k] = list[k]
        BY <2>1, <2>4
  <2>7. \A k \in 1..n - i : rest[i - 1 + k] = list[i + k]
        BY <2>1, <2>2, <2>4
  <2> QED BY <2>4, <2>5, <2>6, <2>7
<1>6. ASSUME NEW j \in DOMAIN list, j # i
      PROVE  \E k \in DOMAIN rest : rest[k] = list[j]
  <2>1. CASE j < i
        BY <1>1, <1>5, <2>1
  <2>2. CASE j > i
    <3>1. j - i \in 1..n - i /\ j - 1 \in 1..n - 1
          BY <1>1, <2>2
    <3>2. rest[i - 1 + (j - i)] = list[i + (j - i)]
          BY <1>5, <3>1
    <3>3. i - 1 + (j - i) = j - 1 /\ i + (j - i) = j
          BY <1>1
    <3> QED BY <1>5, <3>1, <3>2, <3>3
  <2> QED BY <1>1, <1>6, <2>1, <2>2
<1> QED BY <1>5, <1>6 DEF rest, n

(* Of a list that is not empty, a place where a measure is least, the      *)
(* first of those.                                                         *)
LEMMA FirstLeast ==
    ASSUME NEW n \in Nat, n > 0, NEW f \in [1..n -> Nat]
    PROVE  \E k \in 1..n : /\ \A j \in 1..n : f[k] <= f[j]
                           /\ \A j \in 1..k - 1 : f[k] < f[j]
<1> DEFINE values == {f[k] : k \in 1..n}
<1>1. values \in SUBSET Nat /\ values # {}
      BY Z3
<1> HIDE DEF values
<1>2. PICK least \in values : \A v \in values : least <= v
      BY <1>1, LeastExists
<1> DEFINE places == {k \in 1..n : f[k] = least}
<1>3. places \in SUBSET Nat /\ places # {}
      BY <1>2 DEF values
<1> HIDE DEF places
<1>4. PICK k \in places : \A j \in places : k <= j
      BY <1>3, LeastExists
<1>5. k \in 1..n /\ f[k] = least
      BY DEF places
<1>6. \A j \in 1..n : f[j] \in Nat /\ least <= f[j]
      BY <1>2 DEF values
<1>7. ASSUME NEW j \in 1..k - 1 PROVE f[k] < f[j]
  <2>1. j \in 1..n /\ ~(k <= j)
        BY <1>5
  <2>2. f[j] # least
        BY <1>4, <2>1 DEF places
  <2> QED BY <1>5, <1>6, <2>1, <2>2
<1> QED BY <1>5, <1>6, <1>7

(* removeStageKeepingRoles: what is left has both roles. *)
LEMMA RemoveIs ==
    ASSUME NEW d \in Drafts, NEW i \in DOMAIN d.levels, Len(d.levels) > 1
    PROVE  /\ RemoveStageKeepingRoles(d, i) \in Drafts
           /\ RemoveStageKeepingRoles(d, i).rate = d.rate
           /\ HasRoles(d) => HasRoles(RemoveStageKeepingRoles(d, i))
<1> DEFINE gone == d.levels[i]
           rest == RemoveAt(d.levels, i)
           Distance(k) == IF rest[k] < gone THEN gone - rest[k] ELSE rest[k] - gone
           nearest == CHOOSE k \in DOMAIN rest :
                          /\ \A j \in DOMAIN rest : Distance(k) <= Distance(j)
                          /\ \A j \in 1..k - 1 : Distance(k) < Distance(j)
           Keep(role) == IF role = None \/ (role = gone /\ gone \notin ToSet(rest))
                         THEN rest[nearest] ELSE role
           e == RemoveStageKeepingRoles(d, i)
           n == Len(d.levels) - 1
<1>1. /\ d.levels \in Seq(Supported) /\ Len(d.levels) <= MaxLevels /\ Len(d.levels) \in Nat
      /\ d.default \in Supported \cup {None} /\ d.shift \in Supported \cup {None}
      /\ gone \in Supported
      BY DEF Drafts
<1>2. e = [d EXCEPT !.levels = rest, !.default = Keep(d.default), !.shift = Keep(d.shift)]
      BY DEF RemoveStageKeepingRoles, Drafts
<1> HIDE DEF rest, gone, nearest, e, Distance
<1>3. /\ rest \in Seq(Supported) /\ Len(rest) = n
      /\ \A j \in DOMAIN d.levels : j # i => \E k \in DOMAIN rest : rest[k] = d.levels[j]
      BY <1>1, RemoveAtIs DEF rest
<1>4. n \in Nat /\ n > 0 /\ DOMAIN rest = 1..n
      BY <1>1, <1>3
<1> HIDE DEF n
<1>5. nearest \in DOMAIN rest
  <2> DEFINE f == [k \in 1..n |-> Distance(k)]
  <2>1. \A k \in 1..n : Distance(k) \in Nat
    <3>1. \A k \in 1..n : rest[k] \in Int
          BY <1>3, <1>4 DEF Supported
    <3>2. gone \in Int
          BY <1>1 DEF Supported
    <3> QED BY <3>1, <3>2 DEF Distance
  <2>2. f \in [1..n -> Nat]
        BY <2>1
  <2> HIDE DEF f
  <2>3. PICK k \in 1..n : /\ \A j \in 1..n : f[k] <= f[j]
                          /\ \A j \in 1..k - 1 : f[k] < f[j]
        BY <1>4, <2>2, FirstLeast
  <2>4. /\ \A j \in DOMAIN rest : Distance(k) <= Distance(j)
        /\ \A j \in 1..k - 1 : Distance(k) < Distance(j)
    <3>1. \A j \in 1..n : f[j] = Distance(j)
          BY DEF f
    <3>2. \A j \in 1..k - 1 : j \in 1..n
          BY <1>4
    <3> QED BY <1>4, <2>3, <3>1, <3>2
  <2> QED BY <1>4, <2>4 DEF nearest
<1>6. rest[nearest] \in Supported /\ rest[nearest] \in ToSet(rest)
      BY <1>3, <1>5 DEF ToSet
<1>7. \A role \in Supported \cup {None} : Keep(role) \in Supported \cup {None}
      BY <1>6
<1>8. \A role \in ToSet(d.levels) : Keep(role) \in ToSet(rest)
  <2>1. TAKE role \in ToSet(d.levels)
  <2>2. role = gone \/ role \in ToSet(rest)
        BY <1>3 DEF ToSet, gone
  <2> QED BY <1>6, <2>2
<1> HIDE DEF Keep
<1>9. e = [levels |-> rest, default |-> Keep(d.default), shift |-> Keep(d.shift),
           rate |-> d.rate, action |-> d.action]
      BY <1>2 DEF Drafts
<1>10. rest \in {l \in Seq(Supported) : Len(l) <= MaxLevels}
       BY <1>1, <1>3, SensorAssumption DEF n
<1>11. e \in Drafts
       BY <1>1, <1>7, <1>9, <1>10 DEF Drafts
<1>12. HasRoles(d) => HasRoles(e)
       BY <1>3, <1>4, <1>8, <1>9 DEF HasRoles
<1> QED BY <1>9, <1>11, <1>12 DEF e

-----------------------------------------------------------------------------
(* The changes a draft with both roles sends, and the server's plan.       *)

(* The rates a draft may have: one the mouse offers, or none. *)
RateOffered(d) == d.rate \in {IntervalToHz(ms) : ms \in Intervals} \cup {None}

(* What is no DPI and no list of them. *)
LEMMA NoneIsNeither ==
    /\ None \notin Supported
    /\ \A levels \in Seq(Supported) : levels # None
<1>1. Supported \subseteq Int
      BY DEF Supported
<1>2. \A levels \in Seq(Supported) : levels \in Seq(Int)
  <2>1. TAKE levels \in Seq(Supported)
  <2>2. levels \in [1..Len(levels) -> Supported] /\ Len(levels) \in Nat
        OBVIOUS
  <2>3. levels \in [1..Len(levels) -> Int]
        BY <1>1, <2>2
  <2> QED BY <2>2, <2>3
<1> QED BY <1>1, <1>2, NoneAssumption

(* serveChanges: the levels and both roles with any change of the levels. *)
LEMMA ChangesAre ==
    ASSUME NEW d \in Drafts, NEW o \in Drafts, HasRoles(d)
    PROVE  LET c == ServeChanges(d, o) IN
           /\ d.levels # o.levels => /\ c.levels = d.levels
                                     /\ c.default = d.default /\ c.shift = d.shift
           /\ d.levels = o.levels => c.levels = None
           /\ c.levels # None => c.levels = d.levels
           /\ c.default \in {None, d.default} /\ c.shift \in {None, d.shift}
           /\ c.default = None => d.levels = o.levels /\ d.default = o.default
           /\ c.shift = None => d.levels = o.levels /\ d.shift = o.shift
           /\ c.rate = IF d.rate # o.rate THEN d.rate ELSE None
           /\ DOMAIN c.bind = {n \in Slot : d.action[n] \notin {NoText, o.action[n]}}
           /\ \A n \in DOMAIN c.bind : c.bind[n] = d.action[n]
           /\ d.levels \in Seq(Supported) /\ Len(d.levels) \in 1..MaxLevels
           /\ d.default \in ToSet(d.levels) /\ d.shift \in ToSet(d.levels)
           /\ ToSet(d.levels) \subseteq Supported
<1>1. d.levels \in Seq(Supported) /\ Len(d.levels) \in 1..MaxLevels
      BY SensorAssumption DEF Drafts, HasRoles
<1>2. ToSet(d.levels) \subseteq Supported
      BY <1>1 DEF ToSet
<1>3. d.default \in ToSet(d.levels) /\ d.shift \in ToSet(d.levels)
      BY DEF HasRoles
<1>4. d.default # None /\ d.shift # None /\ d.levels # None
      BY <1>1, <1>2, <1>3, NoneIsNeither
<1> QED BY <1>1, <1>2, <1>3, <1>4 DEF ServeChanges

(* set_dpi_stages writes supported levels first and nothing in use after   *)
(* them.                                                                   *)
LEMMA StagesAre ==
    ASSUME NEW s \in Sector, NEW c,
           c.levels # None => /\ c.levels \in Seq(Supported)
                              /\ Len(c.levels) \in 1..MaxLevels
    PROVE  /\ NewStages(s, c) \in [1..MaxLevels -> Supported \cup Unset]
           /\ c.levels = None => NewStages(s, c) = s.stages
           /\ c.levels # None =>
                \A i \in 1..MaxLevels :
                    IF i <= Len(c.levels) THEN NewStages(s, c)[i] = c.levels[i]
                                          ELSE NewStages(s, c)[i] \in Unset
<1>1. s.stages \in [1..MaxLevels -> Supported \cup Unset]
      BY DEF Sector
<1>2. CASE c.levels = None
      BY <1>1, <1>2 DEF NewStages
<1>3. CASE c.levels # None
  <2>1. c.levels \in Seq(Supported) /\ Len(c.levels) \in 1..MaxLevels
        BY <1>3
  <2>2. \A k \in 1..Len(c.levels) : c.levels[k] \in Supported
        BY <2>1
  <2>3. NewStages(s, c) = [i \in 1..MaxLevels |->
            IF i <= Len(c.levels) THEN c.levels[i]
            ELSE IF s.stages[i] \in Unset THEN s.stages[i] ELSE 0]
        BY <1>3 DEF NewStages
  <2>4. \A i \in 1..MaxLevels :
            IF i <= Len(c.levels) THEN NewStages(s, c)[i] = c.levels[i]
                                  ELSE NewStages(s, c)[i] \in Unset
        BY <2>3 DEF Unset
  <2>5. \A i \in 1..MaxLevels : NewStages(s, c)[i] \in Supported \cup Unset
        BY <2>1, <2>2, <2>4
  <2> QED BY <1>3, <2>3, <2>4, <2>5
<1> QED BY <1>2, <1>3

(* stage_index: a DPI asked for is found when some stage has it, and the   *)
(* index points at it.                                                     *)
LEMMA IndexIs ==
    ASSUME NEW stages \in [1..MaxLevels -> Supported \cup Unset], NEW requested \in Supported,
           NEW index, NEW before
    PROVE  /\ (\E i \in 1..MaxLevels : stages[i] = requested) =>
                  StageIndex(stages, requested, index, before) # None
           /\ StageIndex(stages, requested, index, before) # None =>
                /\ StageIndex(stages, requested, index, before) \in 0..255
                /\ StageAt(stages, StageIndex(stages, requested, index, before)) = requested
<1>1. MaxLevels \in 1..256
      BY SensorAssumption
<1>2. requested # None
      BY NoneIsNeither
<1>3. DOMAIN stages = 1..MaxLevels /\ Len(stages) = MaxLevels
  <2>1. stages \in Seq(Supported \cup Unset) /\ DOMAIN stages = 1..MaxLevels
        BY <1>1
  <2> QED BY <1>1, <2>1
<1> DEFINE at == Position(stages, requested)
<1>4. /\ at \in 0..MaxLevels
      /\ (\E i \in 1..MaxLevels : stages[i] = requested) =>
              at \in 1..MaxLevels /\ stages[at] = requested
      /\ ~(\E i \in 1..MaxLevels : stages[i] = requested) => at = 0
      BY <1>1, <1>3, PositionIs
<1>5. StageIndex(stages, requested, index, before) = IF at = 0 THEN None ELSE at - 1
      BY <1>2 DEF StageIndex
<1> HIDE DEF at
<1>6. requested \notin Unset
      BY SupportedIsSet
<1>7. at # 0 => /\ at - 1 \in 0..255 /\ at - 1 # None
                /\ StageAt(stages, at - 1) = requested
      BY <1>1, <1>4, <1>6, NoneAssumption DEF StageAt
<1> QED BY <1>1, <1>4, <1>5, <1>7

(* A role of the plan is an index a sector can hold, unless it is refused. *)
LEMMA RoleTyped ==
    ASSUME NEW s \in Sector, NEW c, NEW requested \in Supported \cup {None}, NEW index \in 0..255,
           c.levels # None => /\ c.levels \in Seq(Supported)
                              /\ Len(c.levels) \in 1..MaxLevels
                              /\ requested # None,
           NewRole(s, c, requested, index) # None
    PROVE  NewRole(s, c, requested, index) \in 0..255
<1>1. NewStages(s, c) \in [1..MaxLevels -> Supported \cup Unset]
      BY StagesAre
<1>2. CASE requested = None
      BY <1>2 DEF NewRole
<1>3. CASE requested # None
  <2>1. NewRole(s, c, requested, index) =
            StageIndex(NewStages(s, c), requested, index, StageAt(s.stages, index))
        BY <1>3 DEF NewRole
  <2>2. requested \in Supported
        BY <1>3
  <2> DEFINE stages == NewStages(s, c)
             there == StageAt(s.stages, index)
  <2>3. stages \in [1..MaxLevels -> Supported \cup Unset]
        BY <1>1
  <2> HIDE DEF stages, there
  <2>4. StageIndex(stages, requested, index, there) # None =>
            StageIndex(stages, requested, index, there) \in 0..255
        BY <2>2, <2>3, IndexIs
  <2> QED BY <2>1, <2>4 DEF stages, there
<1> QED BY <1>2, <1>3

(* The changes of a draft that was made from this sector. *)
OwnChanges(d, s) == ServeChanges(d, DraftFromSlot(s))

(* A role of a draft made from this sector, or changed since, is found and *)
(* points at the same DPI afterwards.                                      *)
LEMMA RolePlanned ==
    ASSUME NEW s \in Sector, NEW d \in Drafts, HasRoles(d),
           NEW role \in ToSet(d.levels), NEW index \in 0..255,
           NEW requested, requested = None \/ requested = role,
           d.levels # Levels(s.stages) => requested = role,
           requested = None => role = StageAt(s.stages, index)
    PROVE  /\ NewRole(s, OwnChanges(d, s), requested, index) # None
           /\ StageAt(NewStages(s, OwnChanges(d, s)),
                      NewRole(s, OwnChanges(d, s), requested, index)) = role
<1> DEFINE o == DraftFromSlot(s)
           c == OwnChanges(d, s)
<1>1. o \in Drafts /\ o.levels = Levels(s.stages)
      BY SlotReads DEF DraftFromSlot
<1>2. /\ d.levels # o.levels => c.levels = d.levels
      /\ d.levels = o.levels => c.levels = None
      /\ d.levels \in Seq(Supported) /\ Len(d.levels) \in 1..MaxLevels
      /\ role \in Supported
      BY <1>1, ChangesAre DEF OwnChanges
<1> HIDE DEF c
<1>3. s.stages \in [1..MaxLevels -> Supported \cup Unset]
      BY DEF Sector
<1>4. /\ NewStages(s, c) \in [1..MaxLevels -> Supported \cup Unset]
      /\ c.levels = None => NewStages(s, c) = s.stages
      /\ c.levels # None =>
            \A i \in 1..MaxLevels : i <= Len(c.levels) => NewStages(s, c)[i] = c.levels[i]
      BY <1>2, StagesAre
<1>5. CASE requested = None
  <2>1. c.levels = None
        BY <1>1, <1>2, <1>5, NoneIsNeither
  <2>2. NewRole(s, c, requested, index) = index
        BY <1>5, <2>1 DEF NewRole
  <2> QED BY <1>4, <1>5, <2>1, <2>2, NoneAssumption DEF c
<1>6. CASE requested = role
  <2>1. requested \in Supported /\ requested # None
        BY <1>2, <1>6, NoneIsNeither
  <2>2. \E i \in 1..MaxLevels : NewStages(s, c)[i] = requested
    <3>1. PICK k \in 1..Len(d.levels) : d.levels[k] = role
          BY <1>2 DEF ToSet
    <3>2. CASE d.levels = o.levels
      <4>1. k \in 1..Len(Levels(s.stages)) /\ Levels(s.stages)[k] = role
            BY <1>1, <3>1, <3>2
      <4>2. \E i \in 1..MaxLevels : s.stages[i] = role
            BY <1>3, <4>1, LevelsAre
      <4> QED BY <1>2, <1>4, <1>6, <3>2, <4>2
    <3>3. CASE d.levels # o.levels
      <4>1. c.levels = d.levels /\ c.levels # None
            BY <1>2, <3>3, NoneIsNeither
      <4>2. k \in 1..MaxLevels /\ NewStages(s, c)[k] = d.levels[k]
        <5>1. MaxLevels \in Nat
              BY SensorAssumption
        <5>2. k \in 1..MaxLevels /\ k <= Len(d.levels)
              BY <1>2, <3>1, <5>1
        <5> QED BY <1>4, <4>1, <5>2
      <4> QED BY <1>6, <3>1, <4>2
    <3> QED BY <3>2, <3>3
  <2>3. NewRole(s, c, requested, index) =
            StageIndex(NewStages(s, c), requested, index, StageAt(s.stages, index))
        BY <2>1 DEF NewRole
  <2>4. /\ StageIndex(NewStages(s, c), requested, index, StageAt(s.stages, index)) # None
        /\ StageAt(NewStages(s, c), NewRole(s, c, requested, index)) = requested
    <3> DEFINE stages == NewStages(s, c)
               there == StageAt(s.stages, index)
    <3>1. /\ stages \in [1..MaxLevels -> Supported \cup Unset]
          /\ \E i \in 1..MaxLevels : stages[i] = requested
          BY <1>4, <2>2
    <3> HIDE DEF stages, there
    <3>2. StageIndex(stages, requested, index, there) # None
          BY <2>1, <3>1, IndexIs
    <3>3. StageAt(stages, StageIndex(stages, requested, index, there)) = requested
          BY <2>1, <3>1, <3>2, IndexIs
    <3> QED BY <2>3, <3>2, <3>3 DEF stages, there
  <2> QED BY <1>6, <2>3, <2>4 DEF c
<1> QED BY <1>5, <1>6

(* The rate of the plan is the lowest interval that has the rate asked for. *)
LEMMA RatePlanned ==
    ASSUME NEW c, c.rate # None, IntervalsFor(c) # {}, NEW s
    PROVE  /\ Edited(s, c).rate \in Intervals
           /\ RoundedHz(Edited(s, c).rate) = c.rate
<1>1. IntervalsFor(c) \in SUBSET Intervals /\ Intervals \subseteq Nat
      BY RateAssumption DEF IntervalsFor
<1>2. PICK least \in IntervalsFor(c) : \A other \in IntervalsFor(c) : least <= other
      BY <1>1, LeastExists
<1>3. Edited(s, c).rate = CHOOSE ms \in IntervalsFor(c) :
                              \A other \in IntervalsFor(c) : ms <= other
      BY DEF Edited
<1>4. Edited(s, c).rate \in IntervalsFor(c)
      BY <1>2, <1>3
<1> QED BY <1>4, RateAssumption DEF IntervalsFor

(* A rate the mouse offers has an interval. *)
LEMMA OfferedHasInterval ==
    ASSUME NEW c, c.rate \in {IntervalToHz(ms) : ms \in Intervals}
    PROVE  IntervalsFor(c) # {}
BY DEF IntervalsFor

(* What the plan writes is a sector. *)
LEMMA EditedTyped ==
    ASSUME NEW s \in Sector, NEW d \in Drafts, NEW o \in Drafts, HasRoles(d),
           Accepted(s, ServeChanges(d, o))
    PROVE  /\ Edited(s, ServeChanges(d, o)) \in Sector
           /\ s.rate \in Intervals \cup {0} =>
                  Edited(s, ServeChanges(d, o)).rate \in Intervals \cup {0}
<1> DEFINE c == ServeChanges(d, o)
           e == Edited(s, c)
<1>1. /\ c.levels # None => c.levels = d.levels /\ d.levels # o.levels
      /\ c.default \in {None, d.default} /\ c.shift \in {None, d.shift}
      /\ c.default = None => d.levels = o.levels
      /\ c.shift = None => d.levels = o.levels
      /\ DOMAIN c.bind = {n \in Slot : d.action[n] \notin {NoText, o.action[n]}}
      /\ \A n \in DOMAIN c.bind : c.bind[n] = d.action[n]
      /\ d.levels \in Seq(Supported) /\ Len(d.levels) \in 1..MaxLevels
      BY ChangesAre
<1>2. /\ d.default \in Supported \cup {None} /\ d.shift \in Supported \cup {None}
      /\ d.action \in [Slot -> Action \cup {NoText}]
      BY DEF Drafts
<1>3. /\ NewRole(s, c, c.default, s.default) # None
      /\ NewRole(s, c, c.shift, s.shift) # None
      /\ c.rate # None => IntervalsFor(c) # {}
      BY DEF Accepted, ProfileAccepted
<1> HIDE DEF c
<1>4. NewStages(s, c) \in [1..MaxLevels -> Supported \cup Unset]
      BY <1>1, StagesAre
<1>5. s.default \in 0..255 /\ s.shift \in 0..255 /\ s.rate \in 0..8 /\ s.slot \in [Slot -> Binding]
      BY DEF Sector
<1>6. NewRole(s, c, c.default, s.default) \in 0..255
      BY <1>1, <1>2, <1>3, <1>5, RoleTyped
<1>7. NewRole(s, c, c.shift, s.shift) \in 0..255
      BY <1>1, <1>2, <1>3, <1>5, RoleTyped
<1>8. \A n \in Slot : NewBinding(s, c, n) \in Binding
  <2>1. TAKE n \in Slot
  <2>2. s.slot[n] \in Binding
        BY <1>5
  <2>3. n \in DOMAIN c.bind => c.bind[n] \in Action \cup {NoText}
        BY <1>1, <1>2
  <2> QED BY <2>2, <2>3, BindingAssumption DEF NewBinding, Binding
<1>9. c.rate = None => e.rate = s.rate
      BY DEF Edited
<1>10. c.rate # None => e.rate \in Intervals
       BY <1>3, RatePlanned
<1>11. e.rate \in 0..8
  <2>1. Intervals \subseteq 0..8
        BY RateAssumption
  <2> HIDE DEF e
  <2> QED BY <1>5, <1>9, <1>10, <2>1
<1>12. e = [rate |-> e.rate, default |-> NewRole(s, c, c.default, s.default),
            shift |-> NewRole(s, c, c.shift, s.shift), stages |-> NewStages(s, c),
            slot |-> [n \in Slot |-> NewBinding(s, c, n)]]
       BY DEF Edited
<1> HIDE DEF e
<1>13. e \in Sector
       BY <1>4, <1>6, <1>7, <1>8, <1>11, <1>12 DEF Sector
<1> QED BY <1>9, <1>10, <1>13 DEF e, c

(* Both roles of such a draft, as RolePlanned has one of them. *)
LEMMA RolesPlanned ==
    ASSUME NEW s \in Sector, NEW d \in Drafts, HasRoles(d), NEW c, c = OwnChanges(d, s)
    PROVE  /\ NewRole(s, c, c.default, s.default) # None
           /\ NewRole(s, c, c.shift, s.shift) # None
           /\ StageAt(NewStages(s, c), NewRole(s, c, c.default, s.default)) = d.default
           /\ StageAt(NewStages(s, c), NewRole(s, c, c.shift, s.shift)) = d.shift
<1> DEFINE o == DraftFromSlot(s)
<1>1. /\ o \in Drafts /\ o.levels = Levels(s.stages)
      /\ o.default = StageAt(s.stages, s.default) /\ o.shift = StageAt(s.stages, s.shift)
      BY SlotReads DEF DraftFromSlot
<1> HIDE DEF o
<1>2. c = ServeChanges(d, o)
      BY DEF o, OwnChanges
<1>3. /\ d.levels # o.levels => c.default = d.default /\ c.shift = d.shift
      /\ c.default \in {None, d.default} /\ c.shift \in {None, d.shift}
      /\ c.default = None => d.default = o.default
      /\ c.shift = None => d.shift = o.shift
      /\ d.default \in ToSet(d.levels) /\ d.shift \in ToSet(d.levels)
      BY <1>1, <1>2, ChangesAre
<1>4. s.default \in 0..255 /\ s.shift \in 0..255
      BY DEF Sector
<1>5. /\ NewRole(s, c, c.default, s.default) # None
      /\ StageAt(NewStages(s, c), NewRole(s, c, c.default, s.default)) = d.default
  <2>1. PICK requested, role, index : requested = c.default /\ role = d.default /\ index = s.default
        OBVIOUS
  <2>2. /\ role \in ToSet(d.levels) /\ (requested = None \/ requested = role)
        /\ d.levels # Levels(s.stages) => requested = role
        /\ requested = None => role = StageAt(s.stages, index)
        /\ index \in 0..255
        BY <1>1, <1>3, <1>4, <2>1
  <2>3. /\ NewRole(s, c, requested, index) # None
        /\ StageAt(NewStages(s, c), NewRole(s, c, requested, index)) = role
        BY <2>2, RolePlanned
  <2> QED BY <2>1, <2>3
<1>6. /\ NewRole(s, c, c.shift, s.shift) # None
      /\ StageAt(NewStages(s, c), NewRole(s, c, c.shift, s.shift)) = d.shift
  <2>1. PICK requested, role, index : requested = c.shift /\ role = d.shift /\ index = s.shift
        OBVIOUS
  <2>2. /\ role \in ToSet(d.levels) /\ (requested = None \/ requested = role)
        /\ d.levels # Levels(s.stages) => requested = role
        /\ requested = None => role = StageAt(s.stages, index)
        /\ index \in 0..255
        BY <1>1, <1>3, <1>4, <2>1
  <2>3. /\ NewRole(s, c, requested, index) # None
        /\ StageAt(NewStages(s, c), NewRole(s, c, requested, index)) = role
        BY <2>2, RolePlanned
  <2> QED BY <2>1, <2>3
<1> QED BY <1>5, <1>6

(* What the sensitivity page can make of this sector is not refused. *)
LEMMA DraftAccepted ==
    ASSUME NEW s \in Sector, NEW d \in Drafts, HasRoles(d), RateOffered(d)
    PROVE  ProfileAccepted(s, OwnChanges(d, s))
<1> DEFINE o == DraftFromSlot(s)
           c == OwnChanges(d, s)
<1>1. o \in Drafts
      BY SlotReads
<1>2. /\ NewRole(s, c, c.default, s.default) # None
      /\ NewRole(s, c, c.shift, s.shift) # None
      BY RolesPlanned
<1>3. /\ c.levels # None => c.levels = d.levels
      /\ Len(d.levels) \in 1..MaxLevels /\ ToSet(d.levels) \subseteq Supported
      /\ c.rate = IF d.rate # o.rate THEN d.rate ELSE None
      BY <1>1, ChangesAre DEF OwnChanges, o
<1> HIDE DEF c
<1>4. c.rate # None => IntervalsFor(c) # {}
  <2>1. c.rate # None => c.rate \in {IntervalToHz(ms) : ms \in Intervals}
        BY <1>3 DEF RateOffered
  <2> QED BY <2>1, OfferedHasInterval
<1>5. ProfileAccepted(s, c)
      BY <1>2, <1>3, <1>4 DEF ProfileAccepted
<1> QED BY <1>5 DEF c

(* A draft of this sector, written, reads back as it was. *)
LEMMA ReadsBackAsDrafted ==
    ASSUME NEW s \in Sector, NEW d \in Drafts, HasRoles(d), NEW c,
           c = OwnChanges(d, s), Accepted(s, c)
    PROVE  LET back == DraftFromSlot(Edited(s, c)) IN
           /\ back \in Drafts
           /\ back.levels = d.levels /\ back.default = d.default /\ back.shift = d.shift
           /\ d.rate # None => back.rate = d.rate
           /\ \A n \in Slot : d.action[n] # NoText => back.action[n] = d.action[n]
<1> DEFINE o == DraftFromSlot(s)
           e == Edited(s, c)
           back == DraftFromSlot(e)
<1>1. /\ o \in Drafts /\ o.levels = Levels(s.stages)
      /\ o.rate = IF s.rate > 0 THEN RoundedHz(s.rate) ELSE None
      /\ o.action = [n \in Slot |-> s.slot[n].action]
      BY SlotReads DEF DraftFromSlot
<1> HIDE DEF o
<1>2. c = ServeChanges(d, o)
      BY DEF o, OwnChanges
<1>3. /\ d.levels # o.levels => c.levels = d.levels
      /\ d.levels = o.levels => c.levels = None
      /\ c.rate = IF d.rate # o.rate THEN d.rate ELSE None
      /\ DOMAIN c.bind = {n \in Slot : d.action[n] \notin {NoText, o.action[n]}}
      /\ \A n \in DOMAIN c.bind : c.bind[n] = d.action[n]
      /\ d.levels \in Seq(Supported) /\ Len(d.levels) \in 1..MaxLevels
      BY <1>1, <1>2, ChangesAre
<1>4. e \in Sector
      BY <1>1, <1>2, EditedTyped
<1>5. /\ e.default = NewRole(s, c, c.default, s.default)
      /\ e.shift = NewRole(s, c, c.shift, s.shift)
      /\ e.stages = NewStages(s, c)
      /\ e.slot = [n \in Slot |-> NewBinding(s, c, n)]
      /\ c.rate = None => e.rate = s.rate
      BY DEF Edited
<1>6. StageAt(e.stages, e.default) = d.default /\ StageAt(e.stages, e.shift) = d.shift
      BY <1>5, RolesPlanned
<1> HIDE DEF e
<1>7. Levels(e.stages) = d.levels
  <2>1. CASE d.levels = o.levels
    <3>1. NewStages(s, c) = s.stages
          BY <1>3, <2>1 DEF NewStages
    <3> QED BY <1>1, <1>5, <2>1, <3>1
  <2>2. CASE d.levels # o.levels
    <3>1. c.levels # None /\ c.levels = d.levels
          BY <1>3, <2>2, NoneIsNeither
    <3>2. /\ e.stages \in [1..MaxLevels -> Supported \cup Unset]
          /\ \A i \in 1..MaxLevels : IF i <= Len(d.levels) THEN e.stages[i] = d.levels[i]
                                     ELSE e.stages[i] \in Unset
          BY <1>3, <1>5, <3>1, StagesAre
    <3>3. Len(d.levels) <= MaxLevels
          BY <1>3, SensorAssumption
    <3> QED BY <1>3, <3>2, <3>3, LevelsOfFirst
  <2> QED BY <2>1, <2>2
<1>8. /\ back \in Drafts
      /\ back.rate = IF e.rate > 0 THEN RoundedHz(e.rate) ELSE None
      BY <1>4, SlotReads
<1>9. /\ back.levels = d.levels /\ back.default = d.default /\ back.shift = d.shift
      BY <1>6, <1>7 DEF DraftFromSlot
<1>10. ASSUME d.rate # None PROVE back.rate = d.rate
  <2>1. CASE d.rate = o.rate
    <3>1. e.rate = s.rate
          BY <1>3, <1>5, <2>1
    <3> QED BY <1>1, <1>8, <2>1, <3>1
  <2>2. CASE d.rate # o.rate
    <3>1. c.rate = d.rate
          BY <1>3, <2>2
    <3>2. IntervalsFor(c) # {}
          BY <1>10, <3>1 DEF Accepted, ProfileAccepted
    <3>3. e.rate \in Intervals /\ RoundedHz(e.rate) = d.rate
          BY <1>10, <3>1, <3>2, RatePlanned DEF e
    <3>4. e.rate > 0
      <4>1. Intervals \subseteq 1..8
            BY RateAssumption
      <4>2. e.rate \in 1..8
            BY <3>3, <4>1
      <4> QED BY <4>2
    <3> QED BY <1>8, <3>3, <3>4
  <2> QED BY <2>1, <2>2
<1>11. ASSUME NEW n \in Slot, d.action[n] # NoText PROVE back.action[n] = d.action[n]
  <2>1. back.action[n] = NewBinding(s, c, n).action
        BY <1>5 DEF DraftFromSlot
  <2>2. CASE d.action[n] = o.action[n]
    <3>1. n \notin DOMAIN c.bind /\ o.action[n] = s.slot[n].action
          BY <1>1, <1>3, <2>2
    <3> QED BY <2>1, <2>2, <3>1 DEF NewBinding
  <2>3. CASE d.action[n] # o.action[n]
    <3>1. n \in DOMAIN c.bind /\ c.bind[n] = d.action[n]
          BY <1>3, <1>11, <2>3
    <3> QED BY <2>1, <3>1 DEF NewBinding
  <2> QED BY <2>2, <2>3
<1> QED BY <1>8, <1>9, <1>10, <1>11 DEF e

-----------------------------------------------------------------------------
(* The inductive invariant.                                                *)

(* Every rate there is, in bytes or in a draft, is one the mouse offers.   *)
RatesOffered ==
    /\ sector.rate \in Intervals \cup {0}
    /\ \A k \in DOMAIN steps : steps[k].rate \in Intervals \cup {0}
    /\ RateOffered(original) /\ RateOffered(draft)
    /\ sent # None => RateOffered(sent)

(* What is in flight was complete when it was sent, and an undo has a step *)
(* to go back to.                                                          *)
InFlightIsWhole == /\ sent # None => HasRoles(sent)
                   /\ undoing => steps # <<>>

IInv == TypeOK /\ RolesKept /\ RatesOffered /\ InFlightIsWhole

(* A rate of the mouse's is offered when it is read back. *)
LEMMA SlotRateOffered ==
    ASSUME NEW s \in Sector, s.rate \in Intervals \cup {0}
    PROVE  RateOffered(DraftFromSlot(s))
<1>1. DraftFromSlot(s).rate = IF s.rate > 0 THEN RoundedHz(s.rate) ELSE None
      BY SlotReads
<1>2. s.rate > 0 => s.rate \in Intervals
      OBVIOUS
<1> QED BY <1>1, <1>2, RateAssumption DEF RateOffered

(* A profile just read. *)
LEMMA InitIInv == Init => IInv
<1> SUFFICES ASSUME Init PROVE IInv
    OBVIOUS
<1>1. sector \in Sector /\ sector.rate \in Intervals \cup {0}
      BY StoredAssumption DEF Init
<1>2. original = DraftFromSlot(sector) /\ draft = original /\ sent = None
      BY DEF Init
<1>3. original \in Drafts /\ RateOffered(original)
      BY <1>1, <1>2, SlotReads, SlotRateOffered
<1>4. TypeOK
  <2>1. stage \in 1..MaxLevels
        BY SensorAssumption DEF Init
  <2>2. edits \in 0..MaxEdits /\ surprises \in 0..MaxSurprises
        BY BoundsAssumption DEF Init
  <2>3. undoing = FALSE /\ steps \in Seq(Sector)
        BY DEF Init
  <2> QED BY <1>1, <1>2, <1>3, <2>1, <2>2, <2>3 DEF TypeOK
<1>5. RatesOffered /\ InFlightIsWhole /\ RolesKept
      BY <1>1, <1>2, <1>3 DEF Init, RatesOffered, InFlightIsWhole, RolesKept
<1> QED BY <1>4, <1>5 DEF IInv

(* An edit keeps it when what it makes is a draft with an offered rate     *)
(* that has both roles if the draft had them.                              *)
LEMMA EditKeeps ==
    ASSUME IInv, edits < MaxEdits, edits' = edits + 1, stage' \in 1..MaxLevels,
           draft' \in Drafts, RateOffered(draft'), HasRoles(draft) => HasRoles(draft'),
           UNCHANGED <<sector, original, sent, undoing, steps, unchanged, surprises>>
    PROVE  IInv'
<1>1. TypeOK'
      BY BoundsAssumption DEF IInv, TypeOK
<1>2. RolesKept'
      BY DEF IInv, RolesKept, HasRoles
<1>3. RatesOffered'
      BY DEF IInv, RatesOffered, RateOffered
<1>4. InFlightIsWhole'
      BY DEF IInv, InFlightIsWhole, HasRoles
<1> QED BY <1>1, <1>2, <1>3, <1>4 DEF IInv

(* The level the selection goes to is there. *)
LEMMA SelectIs ==
    ASSUME NEW d \in Drafts, NEW dpi \in ToSet(d.levels)
    PROVE  Position(d.levels, dpi) \in 1..MaxLevels
<1>1. d.levels \in Seq(Supported) /\ Len(d.levels) \in Nat /\ Len(d.levels) <= MaxLevels
      BY DEF Drafts
<1>2. DOMAIN d.levels = 1..Len(d.levels)
      BY <1>1
<1>3. \E i \in 1..Len(d.levels) : d.levels[i] = dpi
      BY <1>2 DEF ToSet
<1>4. Position(d.levels, dpi) \in 1..Len(d.levels)
      BY <1>1, <1>2, <1>3, PositionIs
<1> QED BY <1>1, <1>4, SensorAssumption

(* A level moved, by value or along the bar. *)
LEMMA MoveKeeps ==
    ASSUME IInv, NEW i \in DOMAIN draft.levels, NEW raw \in Nat, MoveLevel(i, Snap(raw))
    PROVE  IInv'
<1> DEFINE next == SortStages(SetStage(draft, i, Snap(raw)))
<1>1. draft \in Drafts /\ RateOffered(draft)
      BY DEF IInv, TypeOK, RatesOffered
<1>2. Snap(raw) \in Supported
      BY SnapSupported
<1>3. /\ next \in Drafts /\ Snap(raw) \in ToSet(next.levels) /\ next.rate = draft.rate
      /\ HasRoles(draft) => HasRoles(next)
      BY <1>1, <1>2, MoveIs
<1>4. UpdateDraft(next) /\ stage' = Position(next.levels, Snap(raw))
      BY DEF MoveLevel, Select
<1> HIDE DEF next
<1>5. stage' \in 1..MaxLevels
      BY <1>3, <1>4, SelectIs
<1>6. RateOffered(next)
      BY <1>1, <1>3 DEF RateOffered
<1>7. /\ edits < MaxEdits /\ edits' = edits + 1 /\ draft' = next
      /\ UNCHANGED <<sector, original, sent, undoing, steps, unchanged, surprises>>
      BY <1>4 DEF UpdateDraft
<1> QED BY <1>3, <1>5, <1>6, <1>7, EditKeeps

(* A level put in. *)
LEMMA InsertKeeps ==
    ASSUME IInv, Len(draft.levels) < MaxLevels, NEW dpi \in Supported,
           UpdateDraft(InsertStage(draft, dpi)), Select(dpi, InsertStage(draft, dpi))
    PROVE  IInv'
<1> DEFINE next == InsertStage(draft, dpi)
<1>1. draft \in Drafts /\ RateOffered(draft)
      BY DEF IInv, TypeOK, RatesOffered
<1>2. /\ next \in Drafts /\ dpi \in ToSet(next.levels) /\ next.rate = draft.rate
      /\ HasRoles(draft) => HasRoles(next)
      BY <1>1, InsertIs
<1>3. UpdateDraft(next) /\ stage' = Position(next.levels, dpi)
      BY DEF Select
<1> HIDE DEF next
<1>4. stage' \in 1..MaxLevels
      BY <1>2, <1>3, SelectIs
<1>5. RateOffered(next)
      BY <1>1, <1>2 DEF RateOffered
<1>6. /\ edits < MaxEdits /\ edits' = edits + 1 /\ draft' = next
      /\ UNCHANGED <<sector, original, sent, undoing, steps, unchanged, surprises>>
      BY <1>3 DEF UpdateDraft
<1> QED BY <1>2, <1>4, <1>5, <1>6, EditKeeps

(* A level taken out. *)
LEMMA DragAwayKeeps ==
    ASSUME IInv, NEW i \in DOMAIN draft.levels, DragAway(i)
    PROVE  IInv'
<1> DEFINE next == RemoveStageKeepingRoles(draft, i)
<1>1. draft \in Drafts /\ RateOffered(draft) /\ Len(draft.levels) > 1
      BY DEF IInv, TypeOK, RatesOffered, DragAway
<1>2. /\ next \in Drafts /\ next.rate = draft.rate
      /\ HasRoles(draft) => HasRoles(next)
      BY <1>1, RemoveIs
<1>3. UpdateDraft(next) /\ stage' = IF i > 1 THEN i - 1 ELSE 1
      BY DEF DragAway
<1> HIDE DEF next
<1>4. stage' \in 1..MaxLevels
  <2>1. i \in 1..Len(draft.levels) /\ Len(draft.levels) <= MaxLevels /\ Len(draft.levels) \in Nat
        BY <1>1 DEF Drafts
  <2> QED BY <1>3, <2>1, SensorAssumption
<1>5. RateOffered(next)
      BY <1>1, <1>2 DEF RateOffered
<1>6. /\ edits < MaxEdits /\ edits' = edits + 1 /\ draft' = next
      /\ UNCHANGED <<sector, original, sent, undoing, steps, unchanged, surprises>>
      BY <1>3 DEF UpdateDraft
<1> QED BY <1>2, <1>4, <1>5, <1>6, EditKeeps

(* The level selected is there when there is any. *)
LEMMA CurrentIs ==
    ASSUME TypeOK, draft.levels # <<>>
    PROVE  Current \in DOMAIN draft.levels
<1>1. draft.levels \in Seq(Supported) /\ stage \in Nat /\ stage > 0
      BY SensorAssumption DEF TypeOK, Drafts
<1>2. Len(draft.levels) \in Nat /\ Len(draft.levels) > 0
      BY <1>1
<1> QED BY <1>1, <1>2 DEF Current

(* nextStageDpi is a DPI the sensor supports. *)
LEMMA AddKeeps ==
    ASSUME IInv, AddLevel
    PROVE  IInv'
<1> DEFINE values == ToSet(draft.levels)
           highest == CHOOSE dpi \in values : \A other \in values : other <= dpi
           double == Snap(2 * highest)
           dpi == CASE double \notin values -> double
                    [] double - Step < Lowest -> Lowest
                    [] OTHER -> double - Step
<1>1. /\ Len(draft.levels) \in 1..MaxLevels - 1
      /\ UpdateDraft(InsertStage(draft, dpi))
      /\ Select(dpi, InsertStage(draft, dpi))
      BY DEF AddLevel
<1>2. draft.levels \in Seq(Supported)
      BY DEF IInv, TypeOK, Drafts
<1>3. values \subseteq Supported /\ values # {}
  <2>1. Len(draft.levels) \in Nat /\ Len(draft.levels) > 0
        BY <1>1, <1>2, SensorAssumption
  <2>2. DOMAIN draft.levels = 1..Len(draft.levels) /\ 1 \in 1..Len(draft.levels)
        BY <1>2, <2>1
  <2>3. \A k \in 1..Len(draft.levels) : draft.levels[k] \in Supported
        BY <1>2
  <2> QED BY <2>2, <2>3 DEF ToSet
<1> HIDE DEF values
<1>4. highest \in Nat
  <2>1. \A v \in values : v \in Nat /\ v <= Highest
        BY <1>3, SensorAssumption DEF Supported
  <2> DEFINE below == {Highest - v : v \in values}
  <2>2. below \in SUBSET Nat /\ below # {}
        BY <1>3, <2>1, SensorAssumption
  <2>3. PICK least \in below : \A b \in below : least <= b
        BY <2>2, LeastExists
  <2>4. PICK v \in values : least = Highest - v
        BY <2>3
  <2>5. \A other \in values : other <= v
    <3>1. TAKE other \in values
    <3>2. Highest - other \in below
          OBVIOUS
    <3>3. Highest - v <= Highest - other
          BY <2>3, <2>4, <3>2
    <3> QED BY <2>1, <3>3, SensorAssumption
  <2> QED BY <2>1, <2>5
<1> HIDE DEF highest
<1>5. double \in Supported
      BY <1>4, SnapSupported
<1> HIDE DEF double
<1>6. double - Step >= Lowest => double - Step \in Supported
  <2>1. Step \in Nat /\ Step > 0 /\ double \in Int /\ double % Step = 0 /\ double <= Highest
        BY <1>5, SensorAssumption DEF Supported
  <2>2. PICK q \in Int : double = q * Step
        BY <2>1
  <2>3. double - Step = (q - 1) * Step
        BY <2>1, <2>2
  <2>4. ((q - 1) * Step) % Step = 0
        BY <2>1, <2>2
  <2> QED BY <2>1, <2>3, <2>4, SensorAssumption DEF Supported
<1>7. Lowest \in Supported
      BY SensorAssumption DEF Supported
<1>8. dpi \in Supported
  <2>1. double \in Int /\ Step \in Int /\ Lowest \in Int
        BY <1>5, SensorAssumption DEF Supported
  <2> QED BY <1>5, <1>6, <1>7, <2>1
<1>9. Len(draft.levels) < MaxLevels
  <2>1. Len(draft.levels) \in 1..MaxLevels - 1
        BY DEF AddLevel
  <2>2. MaxLevels \in Nat
        BY SensorAssumption
  <2> QED BY <2>1, <2>2
<1> HIDE DEF dpi
<1> QED BY <1>1, <1>8, <1>9, InsertKeeps

(* Edits of one field of the draft other than its levels. *)
LEMMA FieldKeeps ==
    ASSUME IInv, SetDefault \/ SetShift \/ (\E ms \in Intervals : SetRate(ms))
                 \/ (\E n \in Slot : RevertSlot(n) \/ \E action \in Action : Assign(n, action))
    PROVE  IInv'
<1>1. /\ draft \in Drafts /\ original \in Drafts /\ RateOffered(draft) /\ stage \in 1..MaxLevels
      BY DEF IInv, TypeOK, RatesOffered
<1>2. draft = [levels |-> draft.levels, default |-> draft.default, shift |-> draft.shift,
               rate |-> draft.rate, action |-> draft.action]
      BY <1>1, DraftFields
<1>3. draft.levels # <<>> => CurrentDpi \in Supported /\ CurrentDpi \in ToSet(draft.levels)
  <2>1. draft.levels # <<>> => Current \in DOMAIN draft.levels
        BY CurrentIs DEF IInv
  <2>2. draft.levels \in Seq(Supported)
        BY <1>1 DEF Drafts
  <2> QED BY <2>1, <2>2 DEF CurrentDpi, ToSet
<1>4. CASE SetDefault
  <2>1. /\ draft' = [draft EXCEPT !.default = CurrentDpi] /\ draft.levels # <<>>
        /\ edits < MaxEdits /\ edits' = edits + 1 /\ stage' = stage
        /\ UNCHANGED <<sector, original, sent, undoing, steps, unchanged, surprises>>
        BY <1>4 DEF SetDefault, UpdateDraft
  <2>2. /\ draft'.levels = draft.levels /\ draft'.default = CurrentDpi
        /\ draft'.shift = draft.shift /\ draft'.rate = draft.rate
        BY <1>2, <2>1
  <2>3. draft' \in Drafts
        BY <1>1, <1>3, <2>1 DEF Drafts
  <2> QED BY <1>1, <1>3, <2>1, <2>2, <2>3, EditKeeps DEF HasRoles, RateOffered
<1>5. CASE SetShift
  <2>1. /\ draft' = [draft EXCEPT !.shift = CurrentDpi] /\ draft.levels # <<>>
        /\ edits < MaxEdits /\ edits' = edits + 1 /\ stage' = stage
        /\ UNCHANGED <<sector, original, sent, undoing, steps, unchanged, surprises>>
        BY <1>5 DEF SetShift, UpdateDraft
  <2>2. /\ draft'.levels = draft.levels /\ draft'.shift = CurrentDpi
        /\ draft'.default = draft.default /\ draft'.rate = draft.rate
        BY <1>2, <2>1
  <2>3. draft' \in Drafts
        BY <1>1, <1>3, <2>1 DEF Drafts
  <2> QED BY <1>1, <1>3, <2>1, <2>2, <2>3, EditKeeps DEF HasRoles, RateOffered
<1>6. CASE \E ms \in Intervals : SetRate(ms)
  <2>1. PICK ms \in Intervals : SetRate(ms)
        BY <1>6
  <2>2. /\ draft' = [draft EXCEPT !.rate = IntervalToHz(ms)]
        /\ edits < MaxEdits /\ edits' = edits + 1 /\ stage' = stage
        /\ UNCHANGED <<sector, original, sent, undoing, steps, unchanged, surprises>>
        BY <2>1 DEF SetRate, UpdateDraft
  <2>3. /\ draft'.levels = draft.levels /\ draft'.shift = draft.shift
        /\ draft'.default = draft.default /\ draft'.rate = IntervalToHz(ms)
        BY <1>2, <2>2
  <2>4. IntervalToHz(ms) \in {RoundedHz(m) : m \in 1..8}
        BY RateAssumption
  <2>5. draft' \in Drafts
        BY <1>1, <2>2, <2>4 DEF Drafts
  <2>6. RateOffered(draft')
        BY <2>3 DEF RateOffered
  <2> QED BY <1>1, <2>2, <2>3, <2>5, <2>6, EditKeeps DEF HasRoles
<1>7. CASE \E n \in Slot : RevertSlot(n) \/ \E action \in Action : Assign(n, action)
  <2>1. PICK n \in Slot : RevertSlot(n) \/ \E action \in Action : Assign(n, action)
        BY <1>7
  <2>2. PICK action \in Action \cup {NoText} :
            /\ UpdateDraft([draft EXCEPT !.action[n] = action])
            /\ stage' = stage
    <3>1. original.action[n] \in Action \cup {NoText}
          BY <1>1 DEF Drafts
    <3> QED BY <2>1, <3>1 DEF RevertSlot, Assign
  <2>3. /\ draft' = [draft EXCEPT !.action[n] = action]
        /\ edits < MaxEdits /\ edits' = edits + 1 /\ stage' = stage
        /\ UNCHANGED <<sector, original, sent, undoing, steps, unchanged, surprises>>
        BY <2>2 DEF UpdateDraft
  <2>4. /\ draft'.levels = draft.levels /\ draft'.shift = draft.shift
        /\ draft'.default = draft.default /\ draft'.rate = draft.rate
        BY <1>2, <2>3
  <2>5. draft' \in Drafts
        BY <1>1, <2>3 DEF Drafts
  <2> QED BY <1>1, <2>3, <2>4, <2>5, EditKeeps DEF HasRoles, RateOffered
<1> QED BY <1>4, <1>5, <1>6, <1>7

(* The answer to a save: the profile read back keeps its roles or not, but *)
(* the draft that was being saved has them.                                *)
LEMMA ApplyKeeps ==
    ASSUME IInv, ApplyReply
    PROVE  IInv'
<1> DEFINE written == Edited(sector, InFlight)
<1>1. /\ sent # None /\ Accepted(sector, InFlight) /\ sector' = written
      /\ steps' = steps \/ steps' = Append(steps, sector)
      /\ original' = DraftFromSlot(written) /\ sent' = None
      /\ UNCHANGED <<draft, stage, undoing, edits, surprises>>
      BY DEF ApplyReply, ReadBack
<1>2. /\ sector \in Sector /\ original \in Drafts /\ sent \in Drafts /\ HasRoles(sent) /\ ~undoing
      /\ HasRoles(draft) /\ steps \in Seq(Sector)
      /\ sector.rate \in Intervals \cup {0}
      /\ \A k \in DOMAIN steps : steps[k].rate \in Intervals \cup {0}
      BY <1>1 DEF IInv, TypeOK, RolesKept, InFlightIsWhole, RatesOffered
<1>3. written \in Sector /\ written.rate \in Intervals \cup {0}
      BY <1>1, <1>2, EditedTyped DEF InFlight
<1> HIDE DEF written
<1>4. original' \in Drafts /\ RateOffered(original')
      BY <1>1, <1>3, SlotReads, SlotRateOffered
<1>5. steps' \in Seq(Sector)
      BY <1>1, <1>2
<1>6. \A k \in DOMAIN steps' : steps'[k].rate \in Intervals \cup {0}
  <2>1. CASE steps' = steps
        BY <1>2, <2>1
  <2>2. CASE steps' = Append(steps, sector)
    <3>1. \A k \in DOMAIN steps' :
            (k \in DOMAIN steps /\ steps'[k] = steps[k]) \/ steps'[k] = sector
          BY <1>2, <2>2
    <3> QED BY <1>2, <3>1
  <2> QED BY <1>1, <2>1, <2>2
<1>7. TypeOK'
      BY <1>1, <1>3, <1>4, <1>5 DEF IInv, TypeOK
<1>8. RatesOffered'
      BY <1>1, <1>3, <1>4, <1>6 DEF IInv, RatesOffered, RateOffered
<1>9. RolesKept' /\ InFlightIsWhole'
      BY <1>1, <1>2 DEF RolesKept, InFlightIsWhole, HasRoles
<1> QED BY <1>7, <1>8, <1>9 DEF IInv

(* A write that took effect and was answered by an error. *)
LEMMA ReloadFailsKeeps ==
    ASSUME IInv, ReloadFails
    PROVE  IInv'
<1> DEFINE written == Edited(sector, InFlight)
<1>1. /\ sent # None /\ Accepted(sector, InFlight) /\ sector' = written
      /\ sent' = None /\ surprises < MaxSurprises /\ surprises' = surprises + 1
      /\ UNCHANGED <<original, draft, stage, undoing, steps, edits>>
      BY DEF ReloadFails
<1>2. /\ sector \in Sector /\ original \in Drafts /\ sent \in Drafts /\ HasRoles(sent) /\ ~undoing
      /\ HasRoles(draft) /\ sector.rate \in Intervals \cup {0}
      BY <1>1 DEF IInv, TypeOK, RolesKept, InFlightIsWhole, RatesOffered
<1>3. written \in Sector /\ written.rate \in Intervals \cup {0}
      BY <1>1, <1>2, EditedTyped DEF InFlight
<1> HIDE DEF written
<1>4. TypeOK'
      BY <1>1, <1>3, BoundsAssumption DEF IInv, TypeOK
<1>5. RatesOffered'
      BY <1>1, <1>3 DEF IInv, RatesOffered, RateOffered
<1>6. RolesKept' /\ InFlightIsWhole'
      BY <1>1, <1>2 DEF RolesKept, InFlightIsWhole, HasRoles
<1> QED BY <1>4, <1>5, <1>6 DEF IInv

(* An undo goes to the bytes of a step. *)
LEMMA UndoReplyKeeps ==
    ASSUME IInv, UndoReply
    PROVE  IInv'
<1>1. /\ undoing /\ sector' = Last(steps) /\ steps' = Front(steps)
      /\ original' = DraftFromSlot(sector') /\ draft' = original' /\ undoing' = FALSE
      /\ UNCHANGED <<stage, sent, edits, surprises>>
      BY DEF UndoReply, ReadBack
<1>2. /\ steps \in Seq(Sector) /\ steps # <<>> /\ sent = None
      /\ \A k \in DOMAIN steps : steps[k].rate \in Intervals \cup {0}
      BY <1>1 DEF IInv, TypeOK, InFlightIsWhole, RatesOffered
<1>3. Len(steps) \in Nat /\ Len(steps) > 0 /\ DOMAIN steps = 1..Len(steps)
      BY <1>2
<1>4. sector' \in Sector /\ sector'.rate \in Intervals \cup {0}
      BY <1>1, <1>2, <1>3 DEF Last
<1>5. /\ steps' \in Seq(Sector)
      /\ \A k \in DOMAIN steps' : k \in DOMAIN steps /\ steps'[k] = steps[k]
      BY <1>1, <1>2, <1>3 DEF Front
<1>6. original' \in Drafts /\ RateOffered(original')
      BY <1>1, <1>4, SlotReads, SlotRateOffered
<1>7. TypeOK'
      BY <1>1, <1>2, <1>4, <1>5, <1>6 DEF IInv, TypeOK
<1>8. RatesOffered'
      BY <1>1, <1>2, <1>4, <1>5, <1>6 DEF RatesOffered, RateOffered
<1>9. RolesKept' /\ InFlightIsWhole'
      BY <1>1, <1>2 DEF RolesKept, InFlightIsWhole, HasRoles
<1> QED BY <1>7, <1>8, <1>9 DEF IInv

(* So does one that is answered by an error, if it wrote. *)
LEMMA UndoFailsKeeps ==
    ASSUME IInv, UndoFails
    PROVE  IInv'
<1>1. /\ undoing /\ undoing' = FALSE
      /\ \/ UNCHANGED <<sector, surprises>>
         \/ surprises < MaxSurprises /\ surprises' = surprises + 1 /\ sector' = Last(steps)
      /\ UNCHANGED <<original, draft, stage, sent, steps, edits>>
      BY DEF UndoFails
<1>2. /\ steps \in Seq(Sector) /\ steps # <<>> /\ sent = None
      /\ sector \in Sector /\ sector.rate \in Intervals \cup {0}
      /\ \A k \in DOMAIN steps : steps[k].rate \in Intervals \cup {0}
      /\ surprises \in 0..MaxSurprises
      BY <1>1 DEF IInv, TypeOK, InFlightIsWhole, RatesOffered
<1>3. Len(steps) \in Nat /\ Len(steps) > 0 /\ DOMAIN steps = 1..Len(steps)
      BY <1>2
<1>4. sector' \in Sector /\ sector'.rate \in Intervals \cup {0}
  <2>1. Last(steps) \in Sector /\ Last(steps).rate \in Intervals \cup {0}
        BY <1>2, <1>3 DEF Last
  <2> QED BY <1>1, <1>2, <2>1
<1>5. surprises' \in 0..MaxSurprises
      BY <1>1, <1>2, BoundsAssumption
<1>6. TypeOK'
      BY <1>1, <1>4, <1>5 DEF IInv, TypeOK
<1>7. RatesOffered'
      BY <1>1, <1>4 DEF IInv, RatesOffered, RateOffered
<1>8. RolesKept' /\ InFlightIsWhole'
      BY <1>1, <1>2 DEF IInv, RolesKept, InFlightIsWhole, HasRoles
<1> QED BY <1>6, <1>7, <1>8 DEF IInv

(* The profile read again. *)
LEMMA ReloadKeeps ==
    ASSUME IInv, Reload
    PROVE  IInv'
<1>1. /\ original' = DraftFromSlot(sector) /\ draft' = original' /\ sent = None
      /\ UNCHANGED <<sector, stage, sent, undoing, steps, edits, surprises>>
      BY DEF Reload, ReadBack, busy
<1>2. sector \in Sector /\ sector.rate \in Intervals \cup {0}
      BY DEF IInv, TypeOK, RatesOffered
<1>3. original' \in Drafts /\ RateOffered(original')
      BY <1>1, <1>2, SlotReads, SlotRateOffered
<1>4. TypeOK'
      BY <1>1, <1>3 DEF IInv, TypeOK
<1>5. RatesOffered'
      BY <1>1, <1>3 DEF IInv, RatesOffered, RateOffered
<1>6. RolesKept' /\ InFlightIsWhole'
      BY <1>1 DEF IInv, RolesKept, InFlightIsWhole, HasRoles
<1> QED BY <1>4, <1>5, <1>6 DEF IInv

(* Save, a request that fails, an undo begun, unsaved changes dropped, and *)
(* another process's write.                                                *)
LEMMA RestKeeps ==
    ASSUME IInv, Save \/ ApplyFails \/ UndoUnsaved \/ Undo \/ OtherWrites \/ SelectLevel
                 \/ UNCHANGED vars
    PROVE  IInv'
<1>1. CASE Save
  <2>1. /\ HasRoles(draft) /\ sent' = draft /\ ~undoing
        /\ UNCHANGED <<sector, original, draft, stage, undoing, steps, edits, surprises>>
        BY <1>1 DEF Save, busy
  <2> QED BY <2>1 DEF IInv, TypeOK, RolesKept, RatesOffered, InFlightIsWhole, HasRoles, RateOffered
<1>2. CASE ApplyFails
  <2>1. /\ sent # None /\ sent' = None
        /\ UNCHANGED <<sector, original, draft, stage, undoing, steps, edits, surprises>>
        BY <1>2 DEF ApplyFails
  <2> QED BY <2>1 DEF IInv, TypeOK, RolesKept, RatesOffered, InFlightIsWhole, HasRoles, RateOffered
<1>3. CASE UndoUnsaved
  <2>1. /\ sent = None /\ draft' = original
        /\ UNCHANGED <<sector, original, stage, sent, undoing, steps, edits, surprises>>
        BY <1>3 DEF UndoUnsaved, busy
  <2> QED BY <2>1 DEF IInv, TypeOK, RolesKept, RatesOffered, InFlightIsWhole, HasRoles, RateOffered
<1>4. CASE Undo
  <2>1. /\ sent = None /\ steps # <<>> /\ undoing' = TRUE
        /\ UNCHANGED <<sector, original, draft, stage, sent, steps, edits, surprises>>
        BY <1>4 DEF Undo, busy
  <2> QED BY <2>1 DEF IInv, TypeOK, RolesKept, RatesOffered, InFlightIsWhole, HasRoles, RateOffered
<1>5. CASE OtherWrites
  <2>1. /\ surprises < MaxSurprises /\ surprises' = surprises + 1 /\ sector' \in Stored
        /\ UNCHANGED <<original, draft, stage, sent, undoing, steps, edits>>
        BY <1>5 DEF OtherWrites
  <2>2. sector' \in Sector /\ sector'.rate \in Intervals \cup {0}
        BY <2>1, StoredAssumption
  <2>3. TypeOK'
        BY <2>1, <2>2, BoundsAssumption DEF IInv, TypeOK
  <2>4. RolesKept' /\ RatesOffered' /\ InFlightIsWhole'
        BY <2>1, <2>2 DEF IInv, RolesKept, RatesOffered, InFlightIsWhole, HasRoles, RateOffered
  <2> QED BY <2>3, <2>4 DEF IInv
<1>6. CASE SelectLevel
  <2>1. /\ stage' \in DOMAIN draft.levels
        /\ UNCHANGED <<sector, original, draft, sent, undoing, steps, edits, surprises>>
        BY <1>6 DEF SelectLevel
  <2>2. draft.levels \in Seq(Supported) /\ Len(draft.levels) <= MaxLevels
        BY DEF IInv, TypeOK, Drafts
  <2>3. DOMAIN draft.levels = 1..Len(draft.levels) /\ Len(draft.levels) \in Nat
        BY <2>2
  <2>4. stage' \in 1..MaxLevels
    <3>1. MaxLevels \in Nat
          BY SensorAssumption
    <3>2. stage' \in 1..Len(draft.levels)
          BY <2>1, <2>3
    <3> QED BY <2>2, <2>3, <3>1, <3>2
  <2>5. TypeOK'
        BY <2>1, <2>4 DEF IInv, TypeOK
  <2>6. RolesKept' /\ RatesOffered' /\ InFlightIsWhole'
        BY <2>1 DEF IInv, RolesKept, RatesOffered, InFlightIsWhole, HasRoles, RateOffered
  <2> QED BY <2>5, <2>6 DEF IInv
<1>7. CASE UNCHANGED vars
      BY <1>7 DEF vars, IInv, TypeOK, RolesKept, RatesOffered, InFlightIsWhole, HasRoles,
                  RateOffered
<1> QED BY <1>1, <1>2, <1>3, <1>4, <1>5, <1>6, <1>7

(* Every step keeps it. *)
LEMMA StepIInv == IInv /\ [Next]_vars => IInv'
<1> SUFFICES ASSUME IInv, [Next]_vars PROVE IInv'
    OBVIOUS
<1>1. Supported \subseteq Nat
      BY SensorAssumption DEF Supported
<1>2. ASSUME NEW raw \in Lowest..Highest, SetCurrent(raw) PROVE IInv'
  <2>1. Current \in DOMAIN draft.levels /\ MoveLevel(Current, Snap(raw))
        BY <1>2, CurrentIs DEF SetCurrent, IInv
  <2>2. raw \in Nat
        BY SensorAssumption
  <2> QED BY <2>1, <2>2, MoveKeeps
<1>3. ASSUME NEW raw \in Lowest..Highest, ClickBar(raw) PROVE IInv'
  <2>1. raw \in Nat
        BY SensorAssumption
  <2>2. Snap(raw) \in Supported
        BY <2>1, SnapSupported
  <2>3. /\ Len(draft.levels) < MaxLevels
        /\ UpdateDraft(InsertStage(draft, Snap(raw)))
        /\ Select(Snap(raw), InsertStage(draft, Snap(raw)))
        BY <1>3 DEF ClickBar
  <2> QED BY <2>2, <2>3, InsertKeeps
<1>4. ASSUME NEW raw \in Supported, NEW i \in DOMAIN draft.levels, DragLevel(i, raw) PROVE IInv'
      BY <1>1, <1>4, MoveKeeps DEF DragLevel
<1>5. ASSUME NEW i \in DOMAIN draft.levels, DragAway(i) PROVE IInv'
      BY <1>5, DragAwayKeeps
<1>6. CASE RemoveLevel
  <2>1. draft.levels # <<>> /\ DragAway(Current)
        BY <1>6 DEF RemoveLevel, DragAway
  <2>2. Current \in DOMAIN draft.levels
        BY <2>1, CurrentIs DEF IInv
  <2> QED BY <2>1, <2>2, DragAwayKeeps
<1>7. Next \/ UNCHANGED vars
      OBVIOUS
<1> QED BY <1>2, <1>3, <1>4, <1>5, <1>6, <1>7, AddKeeps, FieldKeeps, ApplyKeeps, ReloadFailsKeeps,
           UndoReplyKeeps, UndoFailsKeeps, ReloadKeeps, RestKeeps DEF Next

LEMMA Reachable == Spec => []IInv
BY InitIInv, StepIInv, PTL DEF Spec

-----------------------------------------------------------------------------
(* RolesKept: whatever edits are made, in whatever order, a draft of a     *)
(* slot that had a default and a shift level has both, and so has one that *)
(* is being saved.                                                         *)
THEOREM RolesStay == Spec => []RolesKept
BY Reachable, PTL DEF IInv

(* Consistent: types, and the server never refuses the levels, roles or    *)
(* rate of a draft of the profile it holds.                                *)
THEOREM EditsAreTaken == Spec => []Consistent
<1>1. IInv => Consistent
  <2> SUFFICES ASSUME IInv PROVE Consistent
      OBVIOUS
  <2>1. ASSUME sent # None, original = DraftFromSlot(sector)
        PROVE  ProfileAccepted(sector, InFlight)
    <3>1. sector \in Sector /\ sent \in Drafts /\ HasRoles(sent) /\ RateOffered(sent)
          BY <2>1 DEF IInv, TypeOK, InFlightIsWhole, RatesOffered
    <3>2. InFlight = OwnChanges(sent, sector)
          BY <2>1 DEF InFlight, OwnChanges
    <3> QED BY <3>1, <3>2, DraftAccepted
  <2> QED BY <2>1 DEF Consistent, SensitivityAccepted, IInv
<1> QED BY <1>1, Reachable, PTL

(* SavedAsDrafted: what is read back after a save is the draft sent, for   *)
(* every draft and every profile it was made from.                         *)
THEOREM SavesReadBack == Spec => SavedAsDrafted
<1> DEFINE ReadBackAsSent ==
        /\ original'.levels = sent.levels
        /\ original'.default = sent.default /\ original'.shift = sent.shift
        /\ sent.rate # None => original'.rate = sent.rate
        /\ \A n \in Slot : sent.action[n] # NoText => original'.action[n] = sent.action[n]
<1>1. ASSUME IInv, ApplyReply, original = DraftFromSlot(sector) PROVE ReadBackAsSent
  <2>1. /\ sent # None /\ Accepted(sector, InFlight)
        /\ original' = DraftFromSlot(Edited(sector, InFlight))
        BY <1>1 DEF ApplyReply, ReadBack
  <2>2. sector \in Sector /\ sent \in Drafts /\ HasRoles(sent)
        BY <1>1, <2>1 DEF IInv, TypeOK, InFlightIsWhole
  <2>3. InFlight = OwnChanges(sent, sector)
        BY <1>1 DEF InFlight, OwnChanges
  <2>4. /\ original' \in Drafts
        /\ original'.levels = sent.levels /\ original'.default = sent.default
        /\ original'.shift = sent.shift
        /\ sent.rate # None => original'.rate = sent.rate
        /\ \A n \in Slot : sent.action[n] # NoText => original'.action[n] = sent.action[n]
        BY <2>1, <2>2, <2>3, ReadsBackAsDrafted
  <2> QED BY <2>4
<1>2. IInv => [ApplyReply /\ original = DraftFromSlot(sector) => ReadBackAsSent]_vars
      BY <1>1
<1> QED BY <1>2, Reachable, PTL DEF SavedAsDrafted

-----------------------------------------------------------------------------
(***************************************************************************)
(* The profile directory, for any number of profiles and of entries, any   *)
(* damage and any factory directory.                                       *)
(***************************************************************************)

(* Some natural numbers have a least one. *)
LEMMA LeastMember ==
    ASSUME NEW S \in SUBSET Nat, S # {}
    PROVE  \E n \in S : \A m \in S : n <= m
<1>1. PICK R : R = OpToRel(<, Nat)
  OBVIOUS
<1>2. IsWellFoundedOn(R, Nat)
  BY <1>1, NatLessThanWellFounded
<1>3. \A n, m \in Nat : <<m, n>> \in R <=> m < n
  BY <1>1 DEF OpToRel
<1>4. PICK n \in S : \A m \in S : ~(<<m, n>> \in R)
  BY <1>2, WFMin
<1>5. ASSUME NEW m \in S PROVE n <= m
  <2>1. n \in Nat /\ m \in Nat /\ ~(<<m, n>> \in R)
    BY <1>4
  <2>2. ~(m < n)
    BY <2>1, <1>3, Zenon
  <2> QED BY <2>1, <2>2
<1> QED BY <1>5

(* The entries of a directory sector, whatever they hold. *)
Slots == [1..Room -> DirectoryEntry]
END == DIRECTORY_END

(* k entries stand before the end marker. *)
EndsAt(slots, k) ==
    /\ k \in 0..Room
    /\ \A i \in 1..k : slots[i].sector # END
    /\ k = Room \/ slots[k + 1].sector = END

LEMMA DirectoryNumbers ==
    /\ ProfileCount \in Nat /\ 1 <= ProfileCount /\ ProfileCount < 256
    /\ RomProfileCount \in Nat
    /\ Room \in Nat /\ ProfileCount < Room
    /\ END = 65535 /\ USER_DIRECTORY_SECTOR = 0 /\ ROM_DIRECTORY_SECTOR = 256
  BY CountAssumption, RoomAssumption DEF END, DIRECTORY_END,
         USER_DIRECTORY_SECTOR, ROM_DIRECTORY_SECTOR

(* A slot's fields, and the erased slot among them. *)
LEMMA SlotFields ==
    ASSUME NEW slot \in DirectoryEntry
    PROVE  /\ slot.sector \in Nat
           /\ slot.flag \in {0, 1, 2, 255} /\ slot.reserved \in {0, 7, 255}
  BY DirectoryNumbers DEF DirectoryEntry, DIRECTORY_END, ROM_DIRECTORY_SECTOR

LEMMA ErasedSlot ==
    Erased \in DirectoryEntry /\ Erased.sector = END
  BY DEF Erased, DirectoryEntry, END

(* Every directory ends somewhere, and only there. *)
LEMMA EndIsUnique ==
    ASSUME NEW slots, NEW k, NEW l,
           EndsAt(slots, k), EndsAt(slots, l)
    PROVE  k = l
<1>1. k \in Nat /\ l \in Nat /\ Room \in Nat
  BY DirectoryNumbers DEF EndsAt
<1>2. ASSUME NEW a \in Nat, NEW b \in Nat, EndsAt(slots, a), EndsAt(slots, b), a < b PROVE FALSE
  <2>1. a + 1 \in 1..b /\ a # Room
    BY <1>1, <1>2 DEF EndsAt
  <2> QED BY <2>1, <1>2 DEF EndsAt
<1> QED BY <1>1, <1>2

LEMMA EndExists ==
    ASSUME NEW slots
    PROVE  \E k : EndsAt(slots, k)
<1> DEFINE E == {k \in 0..Room : k = Room \/ slots[k + 1].sector = END}
<1>1. Room \in Nat
  BY DirectoryNumbers
<1>2. E \subseteq Nat /\ Room \in E
  BY <1>1
<1>3. PICK n \in E : \A m \in E : n <= m
  BY <1>2, LeastMember
<1>4. ASSUME NEW i \in 1..n PROVE slots[i].sector # END
  <2>1. n \in 0..Room /\ i - 1 \in 0..Room /\ ~(n <= i - 1) /\ (i - 1) + 1 = i
    BY <1>1
  <2>2. i - 1 \notin E
    BY <2>1, <1>3
  <2> QED BY <2>1, <2>2
<1> QED BY <1>3, <1>4 DEF EndsAt

LEMMA CountIs ==
    ASSUME NEW slots
    PROVE  /\ EndsAt(slots, Count(slots))
           /\ Count(slots) \in 0..Room
           /\ \A k : EndsAt(slots, k) => Count(slots) = k
<1> DEFINE Q(k) == /\ \A i \in 1..k : slots[i].sector # END
                   /\ k = Room \/ slots[k + 1].sector = END
<1>1. Count(slots) = CHOOSE k \in 0..Room : Q(k)
  BY DEF Count, END
<1>2. \E k \in 0..Room : Q(k)
  BY EndExists DEF EndsAt
<1>3. Count(slots) \in 0..Room /\ Q(Count(slots))
  <2> HIDE DEF Q
  <2> QED BY <1>1, <1>2
<1>4. EndsAt(slots, Count(slots))
  BY <1>3 DEF EndsAt
<1> QED BY <1>3, <1>4, EndIsUnique

(* A list of n things, and an empty one.                                   *)
LEMMA ListIsSeq ==
    ASSUME NEW S, NEW n \in Nat, NEW f \in [1..n -> S]
    PROVE  f \in Seq(S)
  OBVIOUS

LEMMA NothingListed ==
    ASSUME NEW S, NEW s \in Seq(S), DOMAIN s = {}
    PROVE  s = <<>>
<1>1. Len(s) \in Nat /\ DOMAIN s = 1..Len(s)
  OBVIOUS
<1>2. Len(s) = 0
  <2>1. 1 \notin 1..Len(s)
    BY <1>1
  <2> QED BY <2>1, <1>1
<1> QED BY <1>2

(* The list read from a directory. *)
LEMMA ListedIs ==
    ASSUME NEW slots \in Slots
    PROVE  /\ Listed(slots) \in Seq([sector : Nat, enabled : BOOLEAN])
           /\ DOMAIN Listed(slots) \subseteq 1..Count(slots)
           /\ \A i \in 1..Count(slots) : i <= ProfileCount => i \in DOMAIN Listed(slots)
           /\ \A i \in DOMAIN Listed(slots) :
                 /\ i \in 1..ProfileCount /\ i \in 1..Room
                 /\ Listed(slots)[i].sector = slots[i].sector
                 /\ Listed(slots)[i].enabled = (slots[i].flag # 0)
<1> DEFINE n == AtMost(Count(slots), ProfileCount)
<1>1. /\ Count(slots) \in 0..Room /\ Room \in Nat /\ ProfileCount \in Nat
      /\ n \in Nat /\ n <= Count(slots) /\ n <= ProfileCount
      /\ n = Count(slots) \/ n = ProfileCount
  BY CountIs, DirectoryNumbers DEF AtMost
<1>2. Listed(slots) = [i \in 1..n |->
                            [sector |-> slots[i].sector, enabled |-> slots[i].flag # 0]]
  BY DEF Listed, Parse
<1> HIDE DEF n
<1>3. \A i \in 1..n : i \in 1..ProfileCount /\ i \in 1..Room /\ i \in 1..Count(slots)
  BY <1>1
<1>4. \A i \in 1..n : slots[i].sector \in Nat
  BY <1>3, SlotFields DEF Slots
<1>5. Listed(slots) \in Seq([sector : Nat, enabled : BOOLEAN])
  <2>1. ASSUME NEW i \in 1..n PROVE Listed(slots)[i] \in [sector : Nat, enabled : BOOLEAN]
    <3>1. Listed(slots)[i] = [sector |-> slots[i].sector, enabled |-> slots[i].flag # 0]
      BY <1>2
    <3> QED BY <3>1, <1>4
  <2>2. Listed(slots) \in [1..n -> [sector : Nat, enabled : BOOLEAN]]
    BY <1>2, <2>1
  <2> QED BY <1>1, <2>2, ListIsSeq
<1>6. \A i \in 1..Count(slots) : i <= ProfileCount => i \in 1..n
  BY <1>1
<1> QED BY <1>2, <1>3, <1>5, <1>6

(* A directory as it is written: between one and ProfileCount entries that *)
(* every command can rely on, and erased flash behind them.                *)
Laid(slots) ==
    /\ Count(slots) \in 1..ProfileCount
    /\ SoundList(Listed(slots))
    /\ \A i \in 1..Room : i > Count(slots) => slots[i] = Erased

(* What the directory holds at every moment: laid out when its checksum    *)
(* matches, and after a write cut short no list that neither the old nor   *)
(* the new directory had.                                                  *)
DirInv ==
    /\ DirectoryTypeOK
    /\ dir.crc => Laid(dir.slots)
    /\ ~dir.crc /\ intact => NeverWritten(dir) \/ FromEither(Listed(dir.slots))

(* SoundList of a laid-out directory, said of its slots.                   *)
LEMMA SoundSlots ==
    ASSUME NEW slots \in Slots,
           Count(slots) \in 1..ProfileCount
    PROVE  /\ DOMAIN Listed(slots) = 1..Count(slots)
           /\ SoundList(Listed(slots)) <=>
                 /\ \A i \in 1..Count(slots) :
                       /\ slots[i].sector \in 1..255
                       /\ \A j \in 1..i - 1 : slots[j].sector # slots[i].sector
                 /\ \E i \in 1..Count(slots) : slots[i].flag # 0
<1> DEFINE list == Listed(slots)
           k == Count(slots)
<1>1. k \in Nat /\ k <= ProfileCount /\ 1 <= k /\ ProfileCount \in Nat
  BY DirectoryNumbers
<1>2. DOMAIN list = 1..k
  <2>1. \A i \in 1..k : i <= ProfileCount
    BY <1>1
  <2> QED BY <2>1, ListedIs
<1>3. \A i \in 1..k : list[i].sector = slots[i].sector /\ list[i].enabled = (slots[i].flag # 0)
  BY <1>2, ListedIs
<1>4. list # <<>>
  BY <1>1, <1>2
<1>5. ROM_DIRECTORY_SECTOR - 1 = 255
  BY DirectoryNumbers
<1>6. \A i \in 1..k : \A j \in 1..i - 1 : j \in 1..k
  BY <1>1
<1> HIDE DEF list, k
<1>7. SoundList(list) <=>
        /\ \A i \in 1..k : /\ list[i].sector \in 1..255
                           /\ \A j \in 1..i - 1 : list[j].sector # list[i].sector
        /\ \E i \in 1..k : list[i].enabled
  <2>1. SoundList(list) <=>
          /\ list # <<>>
          /\ \A i \in DOMAIN list :
                /\ list[i].sector \in 1..ROM_DIRECTORY_SECTOR - 1
                /\ \A j \in 1..i - 1 : list[j].sector # list[i].sector
          /\ \E i \in DOMAIN list : list[i].enabled
    BY Zenon DEF SoundList
  <2>2. (\E i \in DOMAIN list : list[i].enabled) <=> (\E i \in 1..k : list[i].enabled)
    BY <1>2, Zenon
  <2> DEFINE Apart(i) == \A j \in 1..i - 1 : list[j].sector # list[i].sector
  <2>3. (\A i \in DOMAIN list :
            list[i].sector \in 1..ROM_DIRECTORY_SECTOR - 1 /\ Apart(i))
        <=> (\A i \in 1..k : list[i].sector \in 1..255 /\ Apart(i))
    <3> HIDE DEF Apart
    <3> QED BY <1>2 DEF ROM_DIRECTORY_SECTOR
  <2> QED BY <2>1, <2>2, <2>3, <1>4, Zenon
<1>8. (\A i \in 1..k : /\ list[i].sector \in 1..255
                         /\ \A j \in 1..i - 1 : list[j].sector # list[i].sector)
      <=> (\A i \in 1..k : /\ slots[i].sector \in 1..255
                           /\ \A j \in 1..i - 1 : slots[j].sector # slots[i].sector)
  <2>1. \A i \in 1..k : list[i].sector = slots[i].sector
    BY <1>3
  <2>2. \A i \in 1..k : (\A j \in 1..i - 1 : list[j].sector # list[i].sector)
                         <=> (\A j \in 1..i - 1 : slots[j].sector # slots[i].sector)
    BY <2>1, <1>6
  <2> QED BY <2>1, <2>2
<1>9. (\E i \in 1..k : list[i].enabled) <=> (\E i \in 1..k : slots[i].flag # 0)
  <2>1. \A i \in 1..k : list[i].enabled <=> slots[i].flag # 0
    BY <1>3
  <2> QED BY <2>1, Zenon
<1>10. SoundList(list) <=>
        /\ \A i \in 1..k : /\ slots[i].sector \in 1..255
                           /\ \A j \in 1..i - 1 : slots[j].sector # slots[i].sector
        /\ \E i \in 1..k : slots[i].flag # 0
  BY <1>7, <1>8, <1>9, Zenon
<1> QED BY <1>2, <1>10, Zenon DEF list, k

(* An erased entry behind k entries ends a directory there.                *)
LEMMA EndsWhereErased ==
    ASSUME NEW slots, NEW k \in 1..ProfileCount,
           \A i \in 1..k : slots[i].sector # END,
           \A i \in 1..Room : i > k => slots[i] = Erased
    PROVE  Count(slots) = k
<1>1. k \in 0..Room /\ k + 1 \in 1..Room /\ k + 1 > k
  BY DirectoryNumbers
<1>2. EndsAt(slots, k)
  BY <1>1, ErasedSlot DEF EndsAt
<1> QED BY <1>2, CountIs

(* directory_with_enabled keeps a directory laid out while a profile stays *)
(* on.                                                                     *)
LEMMA WithEnabledLaid ==
    ASSUME NEW slots \in Slots, Laid(slots),
           NEW n \in DOMAIN Listed(slots), NEW enabled \in BOOLEAN,
           enabled \/ \E i \in DOMAIN Listed(slots) \ {n} : Listed(slots)[i].enabled
    PROVE  WithEnabled(slots, n, enabled) \in Slots /\ Laid(WithEnabled(slots, n, enabled))
<1> DEFINE k == Count(slots)
           result == WithEnabled(slots, n, enabled)
           flag == IF enabled THEN 1 ELSE 0
<1>1. /\ k \in 1..ProfileCount /\ k \in Nat /\ ProfileCount \in Nat /\ Room \in Nat
      /\ ProfileCount < Room
  BY DirectoryNumbers DEF Laid
<1>2. DOMAIN Listed(slots) = 1..k
  BY SoundSlots DEF Laid
<1>3. n \in 1..k /\ n \in 1..Room /\ flag \in {0, 1}
  BY <1>1, <1>2
<1>4. result = [slots EXCEPT ![n].flag = flag]
  BY DEF WithEnabled
<1>40. enabled => flag = 1
  OBVIOUS
<1> HIDE DEF flag
<1>5. /\ result \in [1..Room -> DirectoryEntry]
      /\ \A i \in 1..Room \ {n} : result[i] = slots[i]
      /\ result[n] = [slots[n] EXCEPT !.flag = flag]
      /\ result[n].sector = slots[n].sector /\ result[n].flag = flag
  BY <1>3, <1>4 DEF Slots, DirectoryEntry
<1>6. \A i \in 1..k : i \in 1..Room
  BY <1>1
<1>7. \A i \in 1..k : result[i].sector = slots[i].sector
  BY <1>5, <1>6
<1>8. /\ \A i \in 1..k : slots[i].sector # END
      /\ \A i \in 1..Room : i > k => slots[i] = Erased
  BY CountIs DEF EndsAt, Laid
<1>9. \A i \in 1..Room : i > k => result[i] = Erased
  <2>1. \A i \in 1..Room : i > k => i # n
    BY <1>1, <1>3
  <2> QED BY <2>1, <1>5, <1>8
<1>10. Count(result) = k
  <2> HIDE DEF result
  <2> QED BY <1>1, <1>7, <1>8, <1>9, EndsWhereErased
<1>11. /\ \A i \in 1..k :
             /\ slots[i].sector \in 1..255
             /\ \A j \in 1..i - 1 : slots[j].sector # slots[i].sector
       /\ \E i \in 1..k : slots[i].flag # 0
  BY SoundSlots DEF Laid
<1>12. \A i \in 1..k :
             /\ result[i].sector \in 1..255
             /\ \A j \in 1..i - 1 : result[j].sector # result[i].sector
  <2> HIDE DEF result, k
  <2>1. \A i \in 1..k : \A j \in 1..i - 1 : j \in 1..k
    BY <1>1
  <2> QED BY <2>1, <1>7, <1>11
<1>13. \E i \in 1..k : result[i].flag # 0
  <2>1. CASE enabled
    <3> HIDE DEF result
    <3>1. result[n].flag # 0
      BY <2>1, <1>40, <1>5
    <3> QED BY <3>1, <1>3
  <2>2. CASE ~enabled
    <3>1. PICK i \in 1..k : i # n /\ Listed(slots)[i].enabled
      BY <2>2, <1>2
    <3>2. slots[i].flag # 0
      BY <3>1, <1>2, ListedIs
    <3>3. result[i] = slots[i]
      BY <3>1, <1>5, <1>6
    <3> QED BY <3>2, <3>3
  <2> QED BY <2>1, <2>2
<1>14. result \in Slots
  BY <1>5 DEF Slots
<1>15. SoundList(Listed(result))
  <2> HIDE DEF result, k
  <2> QED BY <1>1, <1>10, <1>12, <1>13, <1>14, SoundSlots
<1> QED BY <1>1, <1>9, <1>10, <1>14, <1>15 DEF Laid

(* rebuilt_directory lays out a directory that can be repaired, and keeps  *)
(* its list.                                                               *)
LEMMA RebuiltLaid ==
    ASSUME NEW slots \in Slots, IsRepairable(slots)
    PROVE  LET result == Rebuilt(slots, Count(slots))
           IN  /\ result \in Slots /\ Laid(result)
               /\ Listed(result) = Listed(slots)
<1> DEFINE k == Count(slots)
           result == Rebuilt(slots, k)
<1>1. /\ k \in 1..ProfileCount /\ k \in Nat /\ ProfileCount \in Nat /\ Room \in Nat
      /\ ProfileCount < Room
  BY DirectoryNumbers DEF IsRepairable
<1>2. result = [i \in 1..Room |-> IF i <= k THEN slots[i] ELSE Erased]
  BY DEF Rebuilt
<1>3. /\ \A i \in 1..k : i \in 1..Room
      /\ \A i \in 1..k : i <= k
  BY <1>1
<1> HIDE DEF result
<1>4. /\ \A i \in 1..k : result[i] = slots[i]
      /\ \A i \in 1..Room : i > k => result[i] = Erased
  BY <1>1, <1>2, <1>3
<1>5. result \in Slots
  BY <1>2, ErasedSlot DEF Slots
<1>6. \A i \in 1..k : slots[i].sector # END
  BY CountIs DEF EndsAt
<1>7. Count(result) = k
  BY <1>1, <1>4, <1>6, EndsWhereErased
<1>8. /\ \A i \in 1..k :
            /\ slots[i].sector # 0 /\ slots[i].sector < 256
            /\ \A j \in 1..i - 1 : slots[j].sector # slots[i].sector
      /\ \E i \in 1..k : slots[i].flag = 1
  BY DirectoryNumbers DEF IsRepairable
<1>9. \A i \in 1..k : slots[i].sector \in Nat
  BY <1>3, SlotFields DEF Slots
<1>10. \A i \in 1..k :
            /\ result[i].sector \in 1..255
            /\ \A j \in 1..i - 1 : result[j].sector # result[i].sector
  <2> HIDE DEF k
  <2>1. \A i \in 1..k : \A j \in 1..i - 1 : j \in 1..k
    BY <1>1
  <2>2. ASSUME NEW i \in 1..k PROVE slots[i].sector \in 1..255
    <3>1. slots[i].sector # 0 /\ slots[i].sector < 256 /\ slots[i].sector \in Nat
      BY <1>8, <1>9
    <3> QED BY <3>1
  <2> QED BY <2>1, <2>2, <1>4, <1>8
<1>11. \E i \in 1..k : result[i].flag # 0
  BY <1>4, <1>8
<1>12. SoundList(Listed(result))
  <2> HIDE DEF k
  <2> QED BY <1>1, <1>5, <1>7, <1>10, <1>11, SoundSlots
<1>13. Listed(result) = Listed(slots)
  <2>1. /\ Listed(result) = [i \in 1..AtMost(k, ProfileCount) |->
                [sector |-> result[i].sector, enabled |-> result[i].flag # 0]]
        /\ Listed(slots) = [i \in 1..AtMost(k, ProfileCount) |->
                [sector |-> slots[i].sector, enabled |-> slots[i].flag # 0]]
    BY <1>7 DEF Listed, Parse
  <2> HIDE DEF k
  <2>2. AtMost(k, ProfileCount) = k
    BY <1>1 DEF AtMost
  <2> QED BY <2>1, <2>2, <1>4
<1>14. Laid(result)
  BY <1>1, <1>4, <1>7, <1>12 DEF Laid
<1> QED BY <1>5, <1>13, <1>14 DEF result

(* initial_entries: user profile N in entry N, at least one of them on.    *)
LEMMA InitialEntriesAre ==
    ASSUME NEW slots
    PROVE  /\ DOMAIN InitialEntries(slots) = 1..ProfileCount
           /\ \A i \in 1..ProfileCount : InitialEntries(slots)[i].sector = i
           /\ \E i \in 1..ProfileCount : InitialEntries(slots)[i].enabled
<1> DEFINE factory == Parse(slots, RomProfileCount)
           on(i) == i \in DOMAIN factory /\ factory[i].enabled
           enabled(i) == on(i) \/ (i = 1 /\ \A j \in 1..ProfileCount : ~on(j))
           source(i) == IF i \in DOMAIN factory THEN factory[i].sector ELSE factory[1].sector
<1>1. InitialEntries(slots) =
         [i \in 1..ProfileCount |-> [sector |-> i, enabled |-> enabled(i), factory |-> source(i)]]
  BY DEF InitialEntries
<1>2. \E i \in 1..ProfileCount : enabled(i)
  <2>1. 1 \in 1..ProfileCount
    BY DirectoryNumbers
  <2> HIDE DEF on
  <2>2. CASE \E j \in 1..ProfileCount : on(j)
    BY <2>2
  <2>3. CASE ~ \E j \in 1..ProfileCount : on(j)
    BY <2>1, <2>3
  <2> QED BY <2>2, <2>3
<1> HIDE DEF enabled, source
<1>3. \A i \in 1..ProfileCount : InitialEntries(slots)[i] =
                                 [sector |-> i, enabled |-> enabled(i), factory |-> source(i)]
  BY <1>1
<1>4. ASSUME NEW i \in 1..ProfileCount
      PROVE  /\ InitialEntries(slots)[i].sector = i
             /\ InitialEntries(slots)[i].enabled = enabled(i)
  <2>1. InitialEntries(slots)[i] =
           [sector |-> i, enabled |-> enabled(i), factory |-> source(i)]
    BY <1>3
  <2> QED BY <2>1
<1>5. DOMAIN InitialEntries(slots) = 1..ProfileCount
  BY <1>1
<1>6. \A i \in 1..ProfileCount : InitialEntries(slots)[i].sector = i
  BY <1>4
<1>7. PICK i \in 1..ProfileCount : enabled(i)
  BY <1>2
<1>8. InitialEntries(slots)[i].enabled
  BY <1>4, <1>7, Zenon
<1> QED BY <1>5, <1>6, <1>7, <1>8, Zenon

(* A directory of all the profiles, each at a sector of its own, one on.   *)
LEMMA WholeIsLaid ==
    ASSUME NEW slots \in Slots,
           Count(slots) = ProfileCount,
           \A i \in 1..ProfileCount :
              /\ slots[i].sector \in 1..255
              /\ \A j \in 1..i - 1 : slots[j].sector # slots[i].sector,
           \E i \in 1..ProfileCount : slots[i].flag # 0,
           \A i \in 1..Room : i > ProfileCount => slots[i] = Erased
    PROVE  Laid(slots)
<1>1. Count(slots) \in 1..ProfileCount
  BY DirectoryNumbers
<1>2. SoundList(Listed(slots))
  BY <1>1, SoundSlots
<1> QED BY <1>1, <1>2 DEF Laid

(* initial_directory lays out a directory.                                 *)
LEMMA InitialLaid ==
    ASSUME NEW slots \in Slots
    PROVE  InitialDirectory(slots) \in Slots /\ Laid(InitialDirectory(slots))
<1> DEFINE entries == InitialEntries(slots)
           result == InitialDirectory(slots)
           flag(i) == IF entries[i].enabled THEN 1 ELSE 0
<1>1. /\ ProfileCount \in Nat /\ Room \in Nat /\ ProfileCount < Room /\ 1 <= ProfileCount
      /\ ProfileCount < 256 /\ END = 65535
      /\ ProfileCount \in 1..ProfileCount
  BY DirectoryNumbers
<1>2. result = [i \in 1..Room |->
                   IF i \in DOMAIN entries
                   THEN [sector |-> entries[i].sector, flag |-> flag(i),
                         reserved |-> slots[1].reserved]
                   ELSE Erased]
  BY DEF InitialDirectory
<1>3. DOMAIN entries = 1..ProfileCount /\ \A i \in 1..ProfileCount : entries[i].sector = i
  BY InitialEntriesAre
<1>4. \A i : flag(i) \in {0, 1}
  OBVIOUS
<1>5. PICK one \in 1..ProfileCount : flag(one) = 1
  <2>1. PICK i \in 1..ProfileCount : entries[i].enabled
    BY InitialEntriesAre
  <2>2. flag(i) = 1
    BY <2>1
  <2> QED BY <2>2
<1>6. slots[1].reserved \in {0, 7, 255}
  <2>1. 1 \in 1..Room
    BY <1>1
  <2> QED BY <2>1, SlotFields DEF Slots
<1> HIDE DEF entries, result, flag
<1>7. \A i \in 1..ProfileCount :
         /\ i \in 1..Room
         /\ result[i] = [sector |-> i, flag |-> flag(i), reserved |-> slots[1].reserved]
  BY <1>1, <1>2, <1>3
<1>8. \A i \in 1..Room : i > ProfileCount => result[i] = Erased
  <2>1. \A i \in 1..Room : i > ProfileCount => i \notin DOMAIN entries
    BY <1>1, <1>3
  <2> QED BY <2>1, <1>2
<1>9. \A i \in 1..ProfileCount : result[i].sector = i /\ result[i].flag = flag(i) /\ i # END
  <2>1. ASSUME NEW i \in 1..ProfileCount
    PROVE  result[i].sector = i /\ result[i].flag = flag(i)
    <3>1. result[i] = [sector |-> i, flag |-> flag(i), reserved |-> slots[1].reserved]
      BY <1>7
    <3> QED BY <3>1
  <2>2. \A i \in 1..ProfileCount : i # END
    BY <1>1
  <2> QED BY <2>1, <2>2
<1>10. result \in Slots
  <2>1. \A i \in 1..ProfileCount : result[i] \in DirectoryEntry
    <3>1. TAKE i \in 1..ProfileCount
    <3>2. i \in 0..ProfileCount + 1
      BY <1>1
    <3>3. flag(i) \in {0, 1, 2, 255}
      BY <1>4
    <3>4. result[i] = [sector |-> i, flag |-> flag(i), reserved |-> slots[1].reserved]
      BY <1>7
    <3> QED BY <3>2, <3>3, <3>4, <1>6 DEF DirectoryEntry
  <2>2. \A i \in 1..Room : i \in 1..ProfileCount \/ i > ProfileCount
    BY <1>1
  <2>3. \A i \in 1..Room : result[i] \in DirectoryEntry
    BY <2>1, <2>2, <1>8, ErasedSlot
  <2>4. result = [i \in 1..Room |-> result[i]]
    BY <1>2
  <2> QED BY <2>3, <2>4 DEF Slots
<1>11. Count(result) = ProfileCount
  BY <1>1, <1>8, <1>9, EndsWhereErased
<1>12. \A i \in 1..ProfileCount :
            /\ result[i].sector \in 1..255
            /\ \A j \in 1..i - 1 : result[j].sector # result[i].sector
  <2>1. TAKE i \in 1..ProfileCount
  <2>2. result[i].sector = i /\ i \in 1..255
    BY <1>1, <1>9
  <2>3. ASSUME NEW j \in 1..i - 1 PROVE result[j].sector # result[i].sector
    <3>1. j \in 1..ProfileCount /\ j # i
      BY <1>1
    <3> QED BY <3>1, <2>2, <1>9
  <2> QED BY <2>2, <2>3
<1>13. \E i \in 1..ProfileCount : result[i].flag # 0
  BY <1>5, <1>9
<1>14. Laid(result)
  BY <1>8, <1>10, <1>11, <1>12, <1>13, WholeIsLaid, Zenon
<1> QED BY <1>10, <1>14, Zenon DEF result

-----------------------------------------------------------------------------
(* A write that is cut short between two laid-out directories leaves no    *)
(* entry that neither of them lists.                                       *)
LEMMA MixIsEither ==
    ASSUME NEW a \in Slots, NEW b \in Slots, NEW c \in Slots, Laid(a), Laid(b),
           \A i \in 1..Room : c[i] \in {a[i], b[i], Erased},
           NEW i \in DOMAIN Listed(c)
    PROVE  \/ i \in DOMAIN Listed(a) /\ Listed(c)[i] = Listed(a)[i]
           \/ i \in DOMAIN Listed(b) /\ Listed(c)[i] = Listed(b)[i]
<1>1. /\ i \in 1..Count(c) /\ i \in 1..Room
      /\ Listed(c)[i] = [sector |-> c[i].sector, enabled |-> c[i].flag # 0]
  BY ListedIs DEF Listed, Parse
<1>2. c[i].sector # END
  BY <1>1, CountIs DEF EndsAt
<1>3. c[i] \in {a[i], b[i]}
  BY <1>1, <1>2, ErasedSlot
<1>4. ASSUME NEW d \in {a, b}, c[i] = d[i]
      PROVE  i \in DOMAIN Listed(d) /\ Listed(c)[i] = Listed(d)[i]
  <2>1. d \in Slots /\ Laid(d)
    OBVIOUS
  <2>2. Count(d) \in 1..ProfileCount /\ DOMAIN Listed(d) = 1..Count(d)
    BY <2>1, SoundSlots DEF Laid
  <2>3. ~(i > Count(d))
    BY <2>1, <1>1, <1>2, <1>4, ErasedSlot DEF Laid
  <2>4. i \in DOMAIN Listed(d)
    BY <2>2, <2>3, <1>1
  <2>5. Listed(d)[i] = [sector |-> d[i].sector, enabled |-> d[i].flag # 0]
    BY <2>4 DEF Listed, Parse
  <2> QED BY <2>4, <2>5, <1>1, <1>4
<1> QED BY <1>3, <1>4

-----------------------------------------------------------------------------
(* The invariant and the steps.                                            *)

(* What the type invariant says, field by field.                           *)
LEMMA DirectoryFields ==
    ASSUME DirectoryTypeOK
    PROVE  /\ dir = [slots |-> dir.slots, crc |-> dir.crc]
           /\ dir.slots \in Slots /\ dir.crc \in BOOLEAN
           /\ rom \in RomDirectories /\ intact \in BOOLEAN
           /\ damage \in 0..MaxDamage
  BY DEF DirectoryTypeOK, DirectorySector, Slots

(* A state is typed when its parts are.                                    *)
LEMMA DirectoryTyped ==
    ASSUME NEW slots \in Slots, NEW crc \in BOOLEAN,
           dir = [slots |-> slots, crc |-> crc],
           rom \in RomDirectories, intact \in BOOLEAN, damage \in 0..MaxDamage,
           old \in Seq([sector : Nat, enabled : BOOLEAN]),
           new \in Seq([sector : Nat, enabled : BOOLEAN])
    PROVE  DirectoryTypeOK /\ dir.slots = slots /\ dir.crc = crc
  BY DEF DirectoryTypeOK, DirectorySector, Slots

LEMMA DirectoryTypedNext ==
    ASSUME NEW slots \in Slots, NEW crc \in BOOLEAN,
           dir' = [slots |-> slots, crc |-> crc],
           rom' \in RomDirectories, intact' \in BOOLEAN, damage' \in 0..MaxDamage,
           old' \in Seq([sector : Nat, enabled : BOOLEAN]),
           new' \in Seq([sector : Nat, enabled : BOOLEAN])
    PROVE  DirectoryTypeOK' /\ dir'.slots = slots /\ dir'.crc = crc
  BY DEF DirectoryTypeOK, DirectorySector, Slots

(* write_verified of a directory that is laid out, whole or cut short.     *)
LEMMA WriteKeeps ==
    ASSUME DirInv, NEW slots \in Slots, Laid(slots),
           WriteDirectory(slots), UNCHANGED rom
    PROVE  DirInv'
<1>1. MaxDamage \in Nat
  BY CountAssumption
<1>2. /\ dir.slots \in Slots /\ dir.crc \in BOOLEAN
      /\ rom \in RomDirectories /\ intact \in BOOLEAN /\ damage \in 0..MaxDamage
      /\ old \in Seq([sector : Nat, enabled : BOOLEAN])
      /\ new \in Seq([sector : Nat, enabled : BOOLEAN])
  BY DirectoryFields DEF DirInv, DirectoryTypeOK
<1>3. CASE /\ dir' = [slots |-> slots, crc |-> TRUE]
           /\ intact' = TRUE
           /\ UNCHANGED <<old, new, damage>>
  <2>1. DirectoryTypeOK' /\ dir'.slots = slots /\ dir'.crc = TRUE
    BY <1>2, <1>3, DirectoryTypedNext
  <2> QED BY <2>1 DEF DirInv, Laid
<1>4. ASSUME damage < MaxDamage, damage' = damage + 1,
             NEW mix \in [1..Room -> {"old", "new", "erased"}],
             dir' = [slots |-> [i \in 1..Room |-> CASE mix[i] = "old" -> dir.slots[i]
                                                    [] mix[i] = "new" -> slots[i]
                                                    [] OTHER -> Erased],
                     crc |-> FALSE],
             old' = Listed(dir.slots), new' = Listed(slots),
             intact' = dir.crc
      PROVE  DirInv'
  <2> DEFINE c == [i \in 1..Room |-> CASE mix[i] = "old" -> dir.slots[i]
                                       [] mix[i] = "new" -> slots[i]
                                       [] OTHER -> Erased]
  <2>1. \A i \in 1..Room : c[i] \in {dir.slots[i], slots[i], Erased}
    BY <1>4
  <2>2. c \in [1..Room -> DirectoryEntry]
    <3>1. \A i \in 1..Room : dir.slots[i] \in DirectoryEntry /\ slots[i] \in DirectoryEntry
      BY <1>2 DEF Slots
    <3>2. \A i \in 1..Room : c[i] \in DirectoryEntry
      <4> HIDE DEF c
      <4> QED BY <2>1, <3>1, ErasedSlot
    <3>3. c = [i \in 1..Room |-> c[i]]
      OBVIOUS
    <3> HIDE DEF c
    <3> QED BY <3>2, <3>3
  <2>3. dir' = [slots |-> c, crc |-> FALSE]
    BY <1>4
  <2> HIDE DEF c
  <2>4. c \in Slots
    BY <2>2 DEF Slots
  <2>5. damage' \in 0..MaxDamage
    BY <1>1, <1>2, <1>4
  <2>6. DirectoryTypeOK' /\ dir'.slots = c /\ dir'.crc = FALSE
    <3>1. /\ old' \in Seq([sector : Nat, enabled : BOOLEAN])
          /\ new' \in Seq([sector : Nat, enabled : BOOLEAN])
      BY <1>1, <1>2, <1>4, ListedIs
    <3>2. rom' \in RomDirectories /\ intact' \in BOOLEAN
      BY <1>2, <1>4
    <3> QED BY <2>3, <2>4, <2>5, <3>1, <3>2, DirectoryTypedNext
  <2>7. ASSUME intact' PROVE FromEither(Listed(dir.slots))'
    <3>1. Laid(dir.slots)
      BY <2>7, <1>4 DEF DirInv
    <3>2. \A i \in DOMAIN Listed(c) :
             \/ i \in DOMAIN old' /\ Listed(c)[i] = old'[i]
             \/ i \in DOMAIN new' /\ Listed(c)[i] = new'[i]
      BY <3>1, <2>1, <2>4, <1>1, <1>2, <1>4, MixIsEither
    <3> QED BY <3>2, <2>6 DEF FromEither
  <2> QED BY <2>6, <2>7 DEF DirInv
<1> QED BY <1>3, <1>4 DEF WriteDirectory

LEMMA SetEnabledKeeps ==
    ASSUME DirInv, NEW n \in 1..ProfileCount, NEW enabled \in BOOLEAN,
           SetEnabled(n, enabled)
    PROVE  DirInv'
<1>1. dir.slots \in Slots /\ Laid(dir.slots)
  BY DirectoryFields DEF DirInv, SetEnabled
<1>2. /\ n \in DOMAIN Listed(dir.slots)
      /\ ~enabled => \E i \in DOMAIN Listed(dir.slots) \ {n} : Listed(dir.slots)[i].enabled
      /\ WriteDirectory(WithEnabled(dir.slots, n, enabled))
      /\ UNCHANGED rom
  BY DEF SetEnabled
<1>3. /\ WithEnabled(dir.slots, n, enabled) \in Slots
      /\ Laid(WithEnabled(dir.slots, n, enabled))
  BY <1>1, <1>2, WithEnabledLaid
<1> QED BY <1>2, <1>3, WriteKeeps

LEMMA RepairKeeps == ASSUME DirInv, Repair PROVE DirInv'
<1>1. dir.slots \in Slots
  BY DirectoryFields DEF DirInv
<1>2. /\ Rebuilt(dir.slots, Count(dir.slots)) \in Slots
      /\ Laid(Rebuilt(dir.slots, Count(dir.slots)))
  BY <1>1, RebuiltLaid DEF Repair
<1> QED BY <1>2, WriteKeeps DEF Repair

LEMMA SetUpKeeps == ASSUME DirInv, SetUp PROVE DirInv'
<1>1. rom \in Slots
  BY DirectoryFields, RomAssumption DEF DirInv, Slots
<1>2. InitialDirectory(rom) \in Slots /\ Laid(InitialDirectory(rom))
  BY <1>1, InitialLaid
<1> QED BY <1>2, WriteKeeps DEF SetUp

LEMMA DecayKeeps ==
    ASSUME DirInv, NEW i \in 1..Room, NEW slot \in DirectoryEntry, Decay(i, slot)
    PROVE  DirInv'
<1> DEFINE slots == [dir.slots EXCEPT ![i] = slot]
<1>1. dir.slots \in Slots /\ rom \in RomDirectories /\ damage \in 0..MaxDamage
  BY DirectoryFields DEF DirInv
<1>2. slots \in Slots
  BY <1>1 DEF Slots
<1>3. dir' = [slots |-> slots, crc |-> FALSE]
  BY DEF Decay
<1>4. damage' \in 0..MaxDamage
  BY <1>1, CountAssumption DEF Decay
<1> HIDE DEF slots
<1>5. DirectoryTypeOK' /\ dir'.crc = FALSE
  <2>1. /\ old \in Seq([sector : Nat, enabled : BOOLEAN])
        /\ new \in Seq([sector : Nat, enabled : BOOLEAN])
    BY DEF DirInv, DirectoryTypeOK
  <2>2. old' = old /\ new' = new /\ rom' = rom /\ intact' = FALSE
    BY DEF Decay
  <2> QED BY <1>1, <1>2, <1>3, <1>4, <2>1, <2>2, DirectoryTypedNext
<1>6. intact' = FALSE
  BY DEF Decay
<1> QED BY <1>5, <1>6 DEF DirInv

LEMMA DirInitHolds == ASSUME DirectoryInit PROVE DirInv
<1>1. MaxDamage \in Nat
  BY CountAssumption
<1>2. /\ rom \in RomDirectories /\ intact = TRUE /\ damage = 0
      /\ old = <<>> /\ new = <<>>
      /\ <<>> \in Seq([sector : Nat, enabled : BOOLEAN]) /\ 0 \in 0..MaxDamage
  BY <1>1 DEF DirectoryInit
<1>3. ASSUME NEW slots \in Written, dir = [slots |-> slots, crc |-> TRUE] PROVE DirInv
  <2>1. /\ slots \in [1..Room -> {Erased} \cup
                         [sector : 1..ProfileCount, flag : {0, 1}, reserved : {0, 255}]]
        /\ Count(slots) <= ProfileCount /\ SoundList(Listed(slots))
        /\ \A i \in 1..Room : i > Count(slots) => slots[i] = Erased
    BY DEF Written
  <2>2. {Erased} \cup [sector : 1..ProfileCount, flag : {0, 1}, reserved : {0, 255}]
           \subseteq DirectoryEntry
    BY <1>1, DirectoryNumbers, ErasedSlot DEF DirectoryEntry
  <2>3. slots \in Slots
    BY <2>1, <2>2 DEF Slots
  <2>4. Count(slots) \in 1..ProfileCount
    <3>1. Listed(slots) # <<>>
      BY <2>1 DEF SoundList
    <3>2. Count(slots) \in Nat /\ ProfileCount \in Nat
      BY <1>1, CountIs, DirectoryNumbers
    <3>3. Count(slots) # 0
      <4>1. SUFFICES ASSUME Count(slots) = 0 PROVE FALSE
        OBVIOUS
      <4>2. DOMAIN Listed(slots) = {}
        <5>1. DOMAIN Listed(slots) \subseteq 1..0
          BY <1>1, <2>3, <4>1, ListedIs
        <5>2. 1..0 = {}
          OBVIOUS
        <5> QED BY <5>1, <5>2, Zenon
      <4>3. Listed(slots) \in Seq([sector : Nat, enabled : BOOLEAN])
        BY <1>1, <2>3, ListedIs
      <4>4. Listed(slots) = <<>>
        BY <4>2, <4>3, NothingListed, Zenon
      <4> QED BY <3>1, <4>4
    <3> QED BY <2>1, <3>2, <3>3
  <2>5. Laid(slots)
    BY <2>1, <2>4 DEF Laid
  <2>6. DirectoryTypeOK /\ dir.slots = slots /\ dir.crc = TRUE
    BY <1>1, <1>2, <1>3, <2>3, DirectoryTyped
  <2> QED BY <2>5, <2>6 DEF DirInv
<1>4. ASSUME dir = [slots |-> [i \in 1..Room |-> Erased], crc |-> FALSE] PROVE DirInv
  <2> DEFINE slots == [i \in 1..Room |-> Erased]
  <2>1. slots \in Slots
    BY ErasedSlot DEF Slots
  <2>2. dir = [slots |-> slots, crc |-> FALSE] /\ \A i \in 1..Room : slots[i] = Erased
    BY <1>4
  <2> HIDE DEF slots
  <2>3. DirectoryTypeOK /\ dir.slots = slots /\ dir.crc = FALSE
    BY <1>1, <1>2, <2>1, <2>2, DirectoryTyped
  <2>4. NeverWritten(dir)
    BY <2>2, <2>3 DEF NeverWritten
  <2> QED BY <2>3, <2>4 DEF DirInv
<1> QED BY <1>3, <1>4 DEF DirectoryInit

LEMMA DirStutterKeeps == ASSUME DirInv, UNCHANGED directoryVars PROVE DirInv'
  BY DEF DirInv, directoryVars, DirectoryTypeOK, Laid, NeverWritten, FromEither

LEMMA DirNextKeeps == DirInv /\ [DirectoryNext]_directoryVars => DirInv'
<1> SUFFICES ASSUME DirInv, [DirectoryNext]_directoryVars PROVE DirInv'
  OBVIOUS
<1>1. ASSUME NEW n \in 1..ProfileCount, NEW enabled \in BOOLEAN, SetEnabled(n, enabled)
      PROVE  DirInv'
  BY <1>1, SetEnabledKeeps
<1>2. CASE Repair
  BY <1>2, RepairKeeps
<1>3. CASE SetUp
  BY <1>3, SetUpKeeps
<1>4. ASSUME NEW i \in 1..Room, NEW slot \in DirectoryEntry, Decay(i, slot) PROVE DirInv'
  BY <1>4, DecayKeeps
<1>5. CASE UNCHANGED directoryVars
  BY <1>5, DirStutterKeeps
<1> QED BY <1>1, <1>2, <1>3, <1>4, <1>5 DEF DirectoryNext

(* A directory whose checksum matches lists distinct profiles, one of them *)
(* on, whatever was written, cut short, damaged and repaired before: what  *)
(* every command of editing.rs takes for granted.  the list of         *)
(* ProfileDirectory, for every number of profiles and every factory        *)
(* directory.                                                              *)
THEOREM DirectoryStaysSound == DirectorySpec => []DirectorySound
<1>1. DirectoryInit => DirInv
  BY DirInitHolds
<1>2. DirInv /\ [DirectoryNext]_directoryVars => DirInv'
  BY DirNextKeeps
<1>3. DirInv => DirectorySound
  BY DEF DirInv, Laid, DirectorySound, ListIsSound
<1> QED BY <1>1, <1>2, <1>3, PTL DEF DirectorySpec

(* plan_directory_repair after a write cut short: the list it brings back  *)
(* has every profile where the old or the new directory had it.            *)
LEMMA RepairBringsBack ==
    DirInv /\ [DirectoryNext]_directoryVars
              => [~dir.crc /\ dir'.crc /\ ~NeverWritten(dir) /\ intact
                     => FromEither(Listed(dir'.slots))]_directoryVars
<1> SUFFICES ASSUME DirInv, DirectoryNext, ~dir.crc, dir'.crc, ~NeverWritten(dir), intact
             PROVE  FromEither(Listed(dir'.slots))
  OBVIOUS
<1>1. Repair
  <2>1. ASSUME NEW i \in 1..Room, NEW slot \in DirectoryEntry, Decay(i, slot) PROVE FALSE
    BY <2>1 DEF Decay
  <2> QED BY <2>1 DEF DirectoryNext, SetEnabled, SetUp
<1>2. dir.slots \in Slots
  BY DirectoryFields DEF DirInv
<1> DEFINE slots == Rebuilt(dir.slots, Count(dir.slots))
<1>3. dir' = [slots |-> slots, crc |-> TRUE]
  BY <1>1 DEF Repair, WriteDirectory
<1>4. Listed(slots) = Listed(dir.slots)
  BY <1>1, <1>2, RebuiltLaid DEF Repair
<1>5. FromEither(Listed(dir.slots))
  BY DEF DirInv
<1> HIDE DEF slots
<1> QED BY <1>3, <1>4, <1>5

(* RepairIsOldOrNew of ProfileDirectory: no repair after a torn write      *)
(* moves a profile, invents one, or turns one on that was off before and   *)
(* after that write.                                                       *)
THEOREM RepairsInventNothing == DirectorySpec => RepairIsOldOrNew
<1>1. DirectoryInit => DirInv
  BY DirInitHolds
<1>2. DirInv /\ [DirectoryNext]_directoryVars => DirInv'
  BY DirNextKeeps
<1>3. DirInv /\ [DirectoryNext]_directoryVars
         => [~dir.crc /\ dir'.crc /\ ~NeverWritten(dir) /\ intact
                => FromEither(Listed(dir'.slots))]_directoryVars
  BY RepairBringsBack
<1> QED BY <1>1, <1>2, <1>3, PTL DEF DirectorySpec, RepairIsOldOrNew
=============================================================================
