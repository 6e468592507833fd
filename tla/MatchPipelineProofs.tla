------------------------- MODULE MatchPipelineProofs -------------------------
(***************************************************************************)
(* What MatchPipeline promises, for any number of matches, players, items, *)
(* retries and failures.                                                   *)
(*                                                                         *)
(* The actions are first reduced to a few kinds of steps (Step): what each *)
(* makes of one row, and of the process that takes it.  The invariants are *)
(* then shown for these kinds.                                             *)
(*                                                                         *)
(* For any number of processes: Types, Stored (a row that is marked done)  *)
(* and Written (what the statements of a process have left so far), which  *)
(* hold although processes overlap, because no step takes away what is in  *)
(* a row.  For one process at a time: Ordered (the stages and counters of  *)
(* a row) and Minds (the rows on its page are as the query selected them), *)
(* and, as long as only the API fails, Once and Undoubled.                 *)
(***************************************************************************)
EXTENDS MatchPipeline, SequenceTheorems, FiniteSetTheorems, TLAPS

-----------------------------------------------------------------------------
(* Item slots *)

SlotCount(copies) == IF copies * Builds < MaxSlots THEN copies * Builds ELSE MaxSlots

LEMMA ConstantTypes ==
  /\ Builds \in Nat /\ MaxSlots \in Nat /\ MaxFaults \in Nat
  /\ MaxRetries \in Nat /\ MaxRetries > 0 /\ PageSize \in Nat /\ PageSize > 0
  /\ IsFiniteSet(Match) /\ IsFiniteSet(Player)
  /\ None \notin Proc /\ None \notin Match /\ None \notin Player /\ None \notin Nat
BY PipelineAssumption DEF PipelineAssumption

LEMMA SeqOf ==
  ASSUME NEW S, NEW n \in Nat, NEW f \in [1..n -> S]
  PROVE  f \in Seq(S) /\ Len(f) = n
<1>1. f \in Seq(S)
  BY SeqDef
<1>2. DOMAIN f = 1..n /\ DOMAIN f = 1..Len(f) /\ Len(f) \in Nat
  BY <1>1, LenProperties
<1> QED
  BY <1>1, <1>2

\* The n-th slot holds one of the items there are.
LEMMA Quotient ==
  ASSUME NEW copies \in Nat \ {0}, NEW n \in Nat, n >= 1, n <= copies * Builds
  PROVE  ((n - 1) \div copies) + 1 \in 1..Builds
<1>1. Builds \in Nat /\ copies \in Nat /\ copies > 0 /\ copies * Builds \in Nat
  BY ConstantTypes
<1> DEFINE a == n - 1
           d == a \div copies
<1>2. a \in Nat /\ a < copies * Builds
  BY <1>1
<1>3. d \in Nat /\ copies * d <= a
  BY <1>1, <1>2
<1>4. ASSUME d >= Builds
      PROVE  FALSE
  <2>1. copies * d >= copies * Builds
    <3> HIDE DEF d, a
    <3> QED
      BY <1>1, <1>3, <1>4
  <2> QED
    BY <1>1, <1>2, <1>3, <2>1
<1> HIDE DEF d, a
<1>5. d + 1 \in 1..Builds
  BY <1>1, <1>3, <1>4
<1> QED
  BY <1>5 DEF d, a

LEMMA InSlotsFacts ==
  ASSUME NEW copies \in Nat \ {0}
  PROVE  /\ SlotCount(copies) \in Nat /\ SlotCount(copies) <= MaxSlots
         /\ Builds > 0 /\ MaxSlots > 0 => SlotCount(copies) > 0
         /\ InSlots(copies) \in [1..SlotCount(copies) -> 1..Builds]
         /\ Len(InSlots(copies)) = SlotCount(copies)
<1>1. Builds \in Nat /\ MaxSlots \in Nat /\ copies \in Nat /\ copies > 0 /\ copies * Builds \in Nat
  BY ConstantTypes
<1>2. SlotCount(copies) \in Nat /\ SlotCount(copies) <= MaxSlots /\ SlotCount(copies) <= copies * Builds
  BY <1>1 DEF SlotCount
<1>3. Builds > 0 => copies * Builds > 0
  BY <1>1
<1>4. \A n \in 1..SlotCount(copies) : ((n - 1) \div copies) + 1 \in 1..Builds
  BY <1>1, <1>2, Quotient
<1>5. InSlots(copies) \in [1..SlotCount(copies) -> 1..Builds]
  BY <1>4 DEF InSlots, SlotCount
<1>6. Len(InSlots(copies)) = SlotCount(copies)
  BY <1>2, <1>5, SeqOf
<1> QED
  BY <1>1, <1>2, <1>3, <1>5, <1>6 DEF SlotCount

LEMMA SlottedFacts ==
  ASSUME NEW slots \in Seq(1..Builds), Len(slots) <= MaxSlots, NEW copies \in Nat
  PROVE  /\ Slotted(slots, copies) \in Seq(1..Builds) /\ Len(Slotted(slots, copies)) <= MaxSlots
         /\ slots # <<>> => Slotted(slots, copies) # <<>>
         /\ copies > 0 /\ Builds > 0 /\ MaxSlots > 0 => Slotted(slots, copies) # <<>>
<1>1. /\ Len(slots) \in Nat /\ slots \in [1..Len(slots) -> 1..Builds]
      /\ slots # <<>> => Len(slots) > 0
  <2>1. Len(slots) \in Nat /\ slots \in [1..Len(slots) -> 1..Builds]
    BY LenProperties
  <2>2. slots # <<>> => Len(slots) \in Nat \ {0}
    BY EmptySeq
  <2> QED
    BY <2>1, <2>2
<1>2. CASE copies = 0
  BY <1>2 DEF Slotted
<1>3. CASE copies # 0
  <2> DEFINE new == InSlots(copies)
             count == IF Len(new) > Len(slots) THEN Len(new) ELSE Len(slots)
  <2>1. /\ Len(new) \in Nat /\ Len(new) <= MaxSlots /\ new \in [1..Len(new) -> 1..Builds]
        /\ Builds > 0 /\ MaxSlots > 0 => Len(new) > 0
    BY <1>3, InSlotsFacts
  <2>2. count \in Nat /\ count <= MaxSlots /\ count >= Len(slots) /\ count >= Len(new)
    BY <1>1, <2>1, ConstantTypes
  <2>3. \A n \in 1..count : n \in 1..Len(slots) \/ n \in 1..Len(new)
    BY <1>1, <2>1
  <2>4. Slotted(slots, copies) = [n \in 1..count |-> IF n <= Len(slots) THEN slots[n] ELSE new[n]]
    BY <1>3 DEF Slotted
  <2> HIDE DEF new
  <2>5. ASSUME NEW n \in 1..count
        PROVE  (IF n <= Len(slots) THEN slots[n] ELSE new[n]) \in 1..Builds
    <3>1. CASE n <= Len(slots)
      BY <1>1, <3>1
    <3>2. CASE ~(n <= Len(slots))
      <4>1. n \in 1..Len(new)
        BY <1>1, <2>3, <3>2
      <4> QED
        BY <2>1, <3>2, <4>1
    <3> QED
      BY <3>1, <3>2
  <2> HIDE DEF count
  <2>6. Slotted(slots, copies) \in [1..count -> 1..Builds]
    BY <2>4, <2>5
  <2>7. Slotted(slots, copies) \in Seq(1..Builds) /\ Len(Slotted(slots, copies)) = count
    BY <2>2, <2>6, SeqOf
  <2>8. count > 0 => Slotted(slots, copies) # <<>>
    BY <2>7, EmptySeq
  <2> QED
    BY <1>1, <2>1, <2>2, <2>7, <2>8, ConstantTypes
<1> QED
  BY <1>2, <1>3

\* One copy of every event: the items come in the order they were bought.
LEMMA SlottedOnce ==
  ASSUME NEW copies \in 0..1
  PROVE  InOrder(Slotted(<<>>, copies))
<1>1. CASE copies = 0
  BY <1>1 DEF Slotted, InOrder
<1>2. CASE copies = 1
  <2>1. /\ Len(InSlots(1)) = SlotCount(1) /\ SlotCount(1) \in Nat
        /\ InSlots(1) \in [1..SlotCount(1) -> 1..Builds]
    BY InSlotsFacts
  <2>2. Slotted(<<>>, 1) = [n \in 1..SlotCount(1) |-> InSlots(1)[n]]
    BY <2>1 DEF Slotted
  <2>3. ASSUME NEW n \in 1..SlotCount(1)
        PROVE  InSlots(1)[n] = n
    <3>1. InSlots(1)[n] = ((n - 1) \div 1) + 1
      BY DEF InSlots, SlotCount
    <3> QED
      BY <2>1, <3>1
  <2>4. Len(Slotted(<<>>, 1)) = SlotCount(1)
    <3>1. Slotted(<<>>, 1) \in [1..SlotCount(1) -> 1..Builds]
      BY <2>1, <2>2
    <3> QED
      BY <2>1, <3>1, SeqOf
  <2> QED
    BY <1>2, <2>2, <2>3, <2>4 DEF InOrder
<1> QED
  BY <1>1, <1>2

-----------------------------------------------------------------------------
(* Rows *)

Row == {row \in RowType : Len(row.slots) <= MaxSlots}

SameFetch(row, new) == new.fetch = row.fetch /\ new.fetchRetry = row.fetchRetry
SameTimeline(row, new) ==
  /\ new.timeline = row.timeline /\ new.timelineRetry = row.timelineRetry
  /\ new.itemEvents = row.itemEvents /\ new.skillEvents = row.skillEvents /\ new.frames = row.frames
SameItems(row, new) ==
  /\ new.items = row.items /\ new.itemsRetry = row.itemsRetry
  /\ new.slots = row.slots /\ new.starters = row.starters /\ new.boots = row.boots

\* What the n-th statement of a phase makes of a row.
DetailStep(row, new, n) ==
  /\ SameTimeline(row, new) /\ SameItems(row, new) /\ new.fetchRetry = row.fetchRetry
  /\ new.fetch = IF n = 1 THEN "done" ELSE row.fetch
  /\ new.participants = IF n = 2 THEN Append(row.participants, ParticipantRows) ELSE row.participants

TimelineStep(row, new, n) ==
  /\ SameFetch(row, new) /\ SameItems(row, new) /\ new.participants = row.participants
  /\ new.timelineRetry = row.timelineRetry
  /\ new.timeline = IF n = 4 THEN "done" ELSE row.timeline
  /\ new.itemEvents = IF n = 1 THEN row.itemEvents + 1 ELSE row.itemEvents
  /\ new.skillEvents = IF n = 2 THEN row.skillEvents + 1 ELSE row.skillEvents
  /\ row.frames \/ n = 3 => new.frames

ItemStep(row, new, n, seen) ==
  /\ SameFetch(row, new) /\ SameTimeline(row, new) /\ new.participants = row.participants
  /\ new.itemsRetry = row.itemsRetry
  /\ new.items = IF n = 4 THEN "done" ELSE row.items
  /\ new.slots = IF n = 1 THEN Slotted(row.slots, seen) ELSE row.slots
  /\ new.starters = IF n = 2 THEN row.starters + seen ELSE row.starters
  /\ new.boots = IF n = 3 THEN row.boots \/ seen > 0 ELSE row.boots

StatementStep(row, new, k, n, seen) ==
  /\ k = 3 => DetailStep(row, new, n)
  /\ k = 5 => TimelineStep(row, new, n)
  /\ k = 55 => ItemStep(row, new, n, seen)

\* What one more failure makes of it.
RetryStep(row, new, k) ==
  /\ new.participants = row.participants
  /\ new.itemEvents = row.itemEvents /\ new.skillEvents = row.skillEvents /\ new.frames = row.frames
  /\ new.slots = row.slots /\ new.starters = row.starters /\ new.boots = row.boots
  /\ IF k = 3 THEN new.fetchRetry = row.fetchRetry + 1 /\ new.fetch = AfterFailure(row.fetchRetry)
     ELSE SameFetch(row, new)
  /\ IF k = 5 THEN new.timelineRetry = row.timelineRetry + 1 /\ new.timeline = AfterFailure(row.timelineRetry)
     ELSE new.timelineRetry = row.timelineRetry /\ new.timeline = row.timeline
  /\ IF k = 55 THEN new.itemsRetry = row.itemsRetry + 1 /\ new.items = AfterFailure(row.itemsRetry)
     ELSE new.itemsRetry = row.itemsRetry /\ new.items = row.items

LEMMA ParticipantRowsType == ParticipantRows \in [Player -> Tier]
BY DEF ParticipantRows, Inferred, Tier, Tiers

LEMMA DetailRow ==
  ASSUME NEW row \in Row, NEW n \in 1..4, NEW seen \in Nat,
         NEW new, new = WithStatement(row, 3, n, seen)
  PROVE  new \in Row /\ DetailStep(row, new, n)
<1>1. row \in RowType /\ row.participants \in Seq([Player -> Tier])
  BY DEF Row, RowType
<1>2. Append(row.participants, ParticipantRows) \in Seq([Player -> Tier])
  BY <1>1, ParticipantRowsType
<1>3. new = WithDetail(row, DetailStatements[n])
  BY DEF WithStatement
<1>4. CASE n = 1
  <2>1. new = [row EXCEPT !.fetch = "done"]
    BY <1>3, <1>4 DEF WithDetail, DetailStatements
  <2>3. new \in RowType
    BY <1>1, <1>4, <2>1 DEF RowType, Status
  <2>4. DetailStep(row, new, n)
    BY <1>1, <1>4, <2>1 DEF RowType, DetailStep, SameTimeline, SameItems
  <2> QED
    BY <1>1, <2>3, <2>4 DEF Row, DetailStep, SameTimeline, SameItems
<1>5. CASE n = 2
  <2>1. new = [row EXCEPT !.participants = Append(@, ParticipantRows)]
    BY <1>3, <1>5 DEF WithDetail, DetailStatements
  <2>3. new \in RowType
    BY <1>1, <1>2, <1>5, <2>1 DEF RowType
  <2>4. /\ SameTimeline(row, new) /\ SameItems(row, new)
        /\ new.fetch = row.fetch /\ new.fetchRetry = row.fetchRetry
    BY <1>1, <2>1 DEF RowType, SameTimeline, SameItems
  <2>5. new.participants = Append(row.participants, ParticipantRows)
    BY <1>1, <2>1 DEF RowType
  <2>6. DetailStep(row, new, n)
    BY <1>5, <2>4, <2>5 DEF DetailStep
  <2> QED
    BY <1>1, <2>3, <2>4, <2>6 DEF Row, SameTimeline, SameItems
<1>6. CASE n = 3
  <2>1. new = [row EXCEPT !.perks = TRUE]
    BY <1>3, <1>6 DEF WithDetail, DetailStatements
  <2>3. new \in RowType
    BY <1>1, <1>6, <2>1 DEF RowType
  <2>4. DetailStep(row, new, n)
    BY <1>1, <1>6, <2>1 DEF RowType, DetailStep, SameTimeline, SameItems
  <2> QED
    BY <1>1, <2>3, <2>4 DEF Row, DetailStep, SameTimeline, SameItems
<1>7. CASE n = 4
  <2>1. new = [row EXCEPT !.teams = TRUE]
    BY <1>3, <1>7 DEF WithDetail, DetailStatements
  <2>3. new \in RowType
    BY <1>1, <1>7, <2>1 DEF RowType
  <2>4. DetailStep(row, new, n)
    BY <1>1, <1>7, <2>1 DEF RowType, DetailStep, SameTimeline, SameItems
  <2> QED
    BY <1>1, <2>3, <2>4 DEF Row, DetailStep, SameTimeline, SameItems
<1> QED
  BY <1>4, <1>5, <1>6, <1>7

LEMMA TimelineRow ==
  ASSUME NEW row \in Row, NEW n \in 1..4, NEW seen \in Nat,
         NEW new, new = WithStatement(row, 5, n, seen)
  PROVE  new \in Row /\ TimelineStep(row, new, n)
<1>1. row \in RowType /\ row.itemEvents \in Nat /\ row.skillEvents \in Nat
  BY DEF Row, RowType
<1>2. row.itemEvents + 1 \in Nat /\ row.skillEvents + 1 \in Nat
  BY <1>1
<1>3. new = WithTimeline(row, TimelineStatements[n])
  BY DEF WithStatement
<1>4. CASE n = 1
  <2>1. new = [row EXCEPT !.itemEvents = @ + 1]
    BY <1>3, <1>4 DEF WithTimeline, TimelineStatements
  <2>3. new \in RowType
    BY <1>1, <1>2, <1>4, <2>1 DEF RowType
  <2>2. /\ SameFetch(row, new) /\ SameItems(row, new) /\ new.participants = row.participants
        /\ new.timeline = row.timeline /\ new.timelineRetry = row.timelineRetry
        /\ new.skillEvents = row.skillEvents /\ new.frames = row.frames
    BY <1>1, <2>1 DEF RowType, SameFetch, SameItems
  <2>5. new.itemEvents = row.itemEvents + 1
    BY <1>1, <2>1 DEF RowType
  <2>4. TimelineStep(row, new, n)
    BY <1>4, <2>2, <2>5 DEF TimelineStep
  <2> QED
    BY <1>1, <2>3, <2>4 DEF Row, TimelineStep, SameFetch, SameItems
<1>5. CASE n = 2
  <2>1. new = [row EXCEPT !.skillEvents = @ + 1]
    BY <1>3, <1>5 DEF WithTimeline, TimelineStatements
  <2>3. new \in RowType
    BY <1>1, <1>2, <1>5, <2>1 DEF RowType
  <2>2. /\ SameFetch(row, new) /\ SameItems(row, new) /\ new.participants = row.participants
        /\ new.timeline = row.timeline /\ new.timelineRetry = row.timelineRetry
        /\ new.itemEvents = row.itemEvents /\ new.frames = row.frames
    BY <1>1, <2>1 DEF RowType, SameFetch, SameItems
  <2>5. new.skillEvents = row.skillEvents + 1
    BY <1>1, <2>1 DEF RowType
  <2>4. TimelineStep(row, new, n)
    BY <1>5, <2>2, <2>5 DEF TimelineStep
  <2> QED
    BY <1>1, <2>3, <2>4 DEF Row, TimelineStep, SameFetch, SameItems
<1>6. CASE n = 3
  <2>1. new = [row EXCEPT !.frames = TRUE]
    BY <1>3, <1>6 DEF WithTimeline, TimelineStatements
  <2>3. new \in RowType
    BY <1>1, <1>6, <2>1 DEF RowType
  <2>4. /\ SameFetch(row, new) /\ SameItems(row, new) /\ new.participants = row.participants
        /\ new.timelineRetry = row.timelineRetry /\ new.timeline = row.timeline /\ new.frames = TRUE
        /\ new.itemEvents = row.itemEvents /\ new.skillEvents = row.skillEvents
    BY <1>1, <2>1 DEF RowType, SameFetch, SameItems
  <2> QED
    BY <1>1, <1>6, <2>3, <2>4 DEF Row, TimelineStep, SameItems
<1>7. CASE n = 4
  <2>1. new = [row EXCEPT !.timeline = "done"]
    BY <1>3, <1>7 DEF WithTimeline, TimelineStatements
  <2>3. new \in RowType
    BY <1>1, <1>7, <2>1 DEF RowType, Status
  <2>4. TimelineStep(row, new, n)
    BY <1>1, <1>7, <2>1 DEF RowType, TimelineStep, SameFetch, SameItems
  <2> QED
    BY <1>1, <2>3, <2>4 DEF Row, TimelineStep, SameFetch, SameItems
<1> QED
  BY <1>4, <1>5, <1>6, <1>7

LEMMA ItemRow ==
  ASSUME NEW row \in Row, NEW n \in 1..4, NEW seen \in Nat,
         NEW new, new = WithStatement(row, 55, n, seen)
  PROVE  new \in Row /\ ItemStep(row, new, n, seen)
<1>1. row \in RowType /\ row.starters \in Nat /\ row.boots \in BOOLEAN /\ row.slots \in Seq(1..Builds)
      /\ Len(row.slots) <= MaxSlots
  BY DEF Row, RowType
<1>2. row.starters + seen \in Nat /\ (row.boots \/ seen > 0) \in BOOLEAN
  BY <1>1
<1>3. new = WithItems(row, ItemStatements[n], seen)
  BY DEF WithStatement
<1>4. CASE n = 1
  <2>1. new = [row EXCEPT !.slots = Slotted(row.slots, seen)]
    BY <1>3, <1>4 DEF WithItems, ItemStatements
  <2>2. Slotted(row.slots, seen) \in Seq(1..Builds) /\ Len(Slotted(row.slots, seen)) <= MaxSlots
    BY <1>1, SlottedFacts
  <2>3. new \in RowType
    BY <1>1, <1>4, <2>1, <2>2 DEF RowType
  <2>4. ItemStep(row, new, n, seen)
    BY <1>1, <1>4, <2>1, <2>2 DEF RowType, ItemStep, SameFetch, SameTimeline
  <2> QED
    BY <1>1, <2>2, <2>3, <2>4 DEF Row, ItemStep, SameFetch, SameTimeline
<1>5. CASE n = 2
  <2>1. new = [row EXCEPT !.starters = @ + seen]
    BY <1>3, <1>5 DEF WithItems, ItemStatements
  <2>3. new \in RowType
    BY <1>1, <1>2, <1>5, <2>1 DEF RowType
  <2>4. ItemStep(row, new, n, seen)
    BY <1>1, <1>2, <1>5, <2>1 DEF RowType, ItemStep, SameFetch, SameTimeline
  <2>5. new.slots = row.slots
    BY <1>5, <2>4 DEF ItemStep
  <2> QED
    BY <1>1, <2>3, <2>4, <2>5 DEF Row
<1>6. CASE n = 3
  <2>1. new = [row EXCEPT !.boots = @ \/ seen > 0]
    BY <1>3, <1>6 DEF WithItems, ItemStatements
  <2>3. new \in RowType
    BY <1>1, <1>2, <1>6, <2>1 DEF RowType
  <2>4. ItemStep(row, new, n, seen)
    BY <1>1, <1>2, <1>6, <2>1 DEF RowType, ItemStep, SameFetch, SameTimeline
  <2>5. new.slots = row.slots
    BY <1>6, <2>4 DEF ItemStep
  <2> QED
    BY <1>1, <2>3, <2>4, <2>5 DEF Row
<1>7. CASE n = 4
  <2>1. new = [row EXCEPT !.items = "done"]
    BY <1>3, <1>7 DEF WithItems, ItemStatements
  <2>3. new \in RowType
    BY <1>1, <1>7, <2>1 DEF RowType, Status
  <2>4. ItemStep(row, new, n, seen)
    BY <1>1, <1>7, <2>1 DEF RowType, ItemStep, SameFetch, SameTimeline
  <2>5. new.slots = row.slots
    BY <1>7, <2>4 DEF ItemStep
  <2> QED
    BY <1>1, <2>3, <2>4, <2>5 DEF Row
<1> QED
  BY <1>4, <1>5, <1>6, <1>7

LEMMA StatementRow ==
  ASSUME NEW row \in Row, NEW k \in {3, 5, 55}, NEW n \in 1..4, NEW seen \in Nat
  PROVE  /\ WithStatement(row, k, n, seen) \in Row
         /\ StatementStep(row, WithStatement(row, k, n, seen), k, n, seen)
<1> DEFINE new == WithStatement(row, k, n, seen)
<1> SUFFICES new \in Row /\ StatementStep(row, new, k, n, seen)
  OBVIOUS
<1>1. CASE k = 3
  <2>1. new = WithStatement(row, 3, n, seen)
    BY <1>1
  <2> HIDE DEF new
  <2>2. new \in Row /\ DetailStep(row, new, n)
    BY <2>1, DetailRow
  <2> QED
    BY <1>1, <2>2 DEF StatementStep
<1>2. CASE k = 5
  <2>1. new = WithStatement(row, 5, n, seen)
    BY <1>2
  <2> HIDE DEF new
  <2>2. new \in Row /\ TimelineStep(row, new, n)
    BY <2>1, TimelineRow
  <2> QED
    BY <1>2, <2>2 DEF StatementStep
<1>3. CASE k = 55
  <2>1. new = WithStatement(row, 55, n, seen)
    BY <1>3
  <2> HIDE DEF new
  <2>2. new \in Row /\ ItemStep(row, new, n, seen)
    BY <2>1, ItemRow
  <2> QED
    BY <1>3, <2>2 DEF StatementStep
<1> QED
  BY <1>1, <1>2, <1>3

LEMMA RetryRow ==
  ASSUME NEW row \in Row, NEW k \in {3, 5, 55}, NEW new, new = Retried(row, k)
  PROVE  new \in Row /\ RetryStep(row, new, k)
<1>1. /\ row \in RowType /\ row.fetchRetry \in Nat /\ row.timelineRetry \in Nat /\ row.itemsRetry \in Nat
      /\ \A count : AfterFailure(count) \in Status
  BY DEF Row, RowType, AfterFailure, Status
<1>2. row.fetchRetry + 1 \in Nat /\ row.timelineRetry + 1 \in Nat /\ row.itemsRetry + 1 \in Nat
  BY <1>1
<1>3. CASE k = 3
  <2>1. new = [row EXCEPT !.fetchRetry = @ + 1, !.fetch = AfterFailure(row.fetchRetry)]
    BY <1>3 DEF Retried, IncrementMatchRetry
  <2>2. ASSUME NEW count \in Nat, NEW status \in Status, new = [row EXCEPT !.fetchRetry = count, !.fetch = status]
        PROVE  new \in RowType
    BY <1>1, <2>2 DEF RowType, Status
  <2>3. ASSUME NEW count \in Nat, NEW status \in Status, new = [row EXCEPT !.fetchRetry = count, !.fetch = status],
               count = row.fetchRetry + 1, status = AfterFailure(row.fetchRetry)
        PROVE  RetryStep(row, new, k)
    <3>1. /\ new.participants = row.participants
          /\ new.itemEvents = row.itemEvents /\ new.skillEvents = row.skillEvents /\ new.frames = row.frames
          /\ new.slots = row.slots /\ new.starters = row.starters /\ new.boots = row.boots
      BY <1>1, <2>3 DEF RowType
    <3>2. /\ new.fetchRetry = count /\ new.fetch = status
          /\ new.timelineRetry = row.timelineRetry /\ new.timeline = row.timeline
          /\ new.itemsRetry = row.itemsRetry /\ new.items = row.items
      BY <1>1, <2>3 DEF RowType
    <3> QED
      BY <1>3, <2>3, <3>1, <3>2 DEF RetryStep, SameFetch
  <2>4. new \in RowType /\ RetryStep(row, new, k)
    BY <1>1, <1>2, <2>1, <2>2, <2>3
  <2> QED
    BY <1>1, <2>4 DEF Row, RetryStep
<1>4. CASE k = 5
  <2>1. new = [row EXCEPT !.timelineRetry = @ + 1, !.timeline = AfterFailure(row.timelineRetry)]
    BY <1>4 DEF Retried, MarkTimelineError
  <2>2. ASSUME NEW count \in Nat, NEW status \in Status, new = [row EXCEPT !.timelineRetry = count, !.timeline = status]
        PROVE  new \in RowType
    BY <1>1, <2>2 DEF RowType, Status
  <2>3. ASSUME NEW count \in Nat, NEW status \in Status, new = [row EXCEPT !.timelineRetry = count, !.timeline = status],
               count = row.timelineRetry + 1, status = AfterFailure(row.timelineRetry)
        PROVE  RetryStep(row, new, k)
    <3>1. /\ new.participants = row.participants
          /\ new.itemEvents = row.itemEvents /\ new.skillEvents = row.skillEvents /\ new.frames = row.frames
          /\ new.slots = row.slots /\ new.starters = row.starters /\ new.boots = row.boots
      BY <1>1, <2>3 DEF RowType
    <3>2. /\ new.timelineRetry = count /\ new.timeline = status
          /\ new.fetchRetry = row.fetchRetry /\ new.fetch = row.fetch
          /\ new.itemsRetry = row.itemsRetry /\ new.items = row.items
      BY <1>1, <2>3 DEF RowType
    <3> QED
      BY <1>4, <2>3, <3>1, <3>2 DEF RetryStep, SameFetch
  <2>4. new \in RowType /\ RetryStep(row, new, k)
    BY <1>1, <1>2, <2>1, <2>2, <2>3
  <2> QED
    BY <1>1, <2>4 DEF Row, RetryStep
<1>5. CASE k = 55
  <2>1. new = [row EXCEPT !.itemsRetry = @ + 1, !.items = AfterFailure(row.itemsRetry)]
    BY <1>5 DEF Retried, MarkItemsError
  <2>2. ASSUME NEW count \in Nat, NEW status \in Status, new = [row EXCEPT !.itemsRetry = count, !.items = status]
        PROVE  new \in RowType
    BY <1>1, <2>2 DEF RowType, Status
  <2>3. ASSUME NEW count \in Nat, NEW status \in Status, new = [row EXCEPT !.itemsRetry = count, !.items = status],
               count = row.itemsRetry + 1, status = AfterFailure(row.itemsRetry)
        PROVE  RetryStep(row, new, k)
    <3>1. /\ new.participants = row.participants
          /\ new.itemEvents = row.itemEvents /\ new.skillEvents = row.skillEvents /\ new.frames = row.frames
          /\ new.slots = row.slots /\ new.starters = row.starters /\ new.boots = row.boots
      BY <1>1, <2>3 DEF RowType
    <3>2. /\ new.itemsRetry = count /\ new.items = status
          /\ new.fetchRetry = row.fetchRetry /\ new.fetch = row.fetch
          /\ new.timelineRetry = row.timelineRetry /\ new.timeline = row.timeline
      BY <1>1, <2>3 DEF RowType
    <3> QED
      BY <1>5, <2>3, <3>1, <3>2 DEF RetryStep, SameFetch
  <2>4. new \in RowType /\ RetryStep(row, new, k)
    BY <1>1, <1>2, <2>1, <2>2, <2>3
  <2> QED
    BY <1>1, <2>4 DEF Row, RetryStep
<1> QED
  BY <1>3, <1>4, <1>5

\* Every stage of a row but the tiers of its participants.
SameStages(row, new) ==
  /\ SameFetch(row, new) /\ SameTimeline(row, new) /\ SameItems(row, new)
  /\ Len(new.participants) = Len(row.participants)

\* A tier that is there stays.
TiersLast(row, new) ==
  \A n \in 1..Len(row.participants) : \A q \in Player :
    row.participants[n][q] # None => new.participants[n][q] = row.participants[n][q]

LEMMA FillTierRows ==
  ASSUME matches \in [Match -> Row], NEW q \in Player, NEW tier \in Tier
  PROVE  /\ FillTier(q, tier) \in [Match -> Row]
         /\ \A m \in Match : /\ SameStages(matches[m], FillTier(q, tier)[m])
                             /\ TiersLast(matches[m], FillTier(q, tier)[m])
<1> SUFFICES ASSUME NEW m \in Match
             PROVE  /\ FillTier(q, tier)[m] \in Row
                    /\ SameStages(matches[m], FillTier(q, tier)[m])
                    /\ TiersLast(matches[m], FillTier(q, tier)[m])
  BY DEF FillTier
<1> DEFINE row == matches[m]
           filled == [n \in 1..Len(row.participants) |-> FilledIn(row.participants[n], q, tier)]
<1>1. row \in Row /\ row \in RowType /\ row.participants \in Seq([Player -> Tier])
  BY DEF Row, RowType
<1>2. FillTier(q, tier)[m] = [row EXCEPT !.participants = filled]
  BY DEF FillTier
<1> HIDE DEF row
<1>3. Len(row.participants) \in Nat /\ row.participants \in [1..Len(row.participants) -> [Player -> Tier]]
  BY <1>1, LenProperties
<1>4. ASSUME NEW n \in 1..Len(row.participants)
      PROVE  /\ FilledIn(row.participants[n], q, tier) \in [Player -> Tier]
             /\ \A o \in Player : row.participants[n][o] # None =>
                  FilledIn(row.participants[n], q, tier)[o] = row.participants[n][o]
  BY <1>3, <1>4 DEF FilledIn
<1>5. filled \in [1..Len(row.participants) -> [Player -> Tier]]
  BY <1>4
<1>6. filled \in Seq([Player -> Tier]) /\ Len(filled) = Len(row.participants)
  BY <1>3, <1>5, SeqOf
<1>7. \A n \in 1..Len(row.participants) : \A o \in Player :
        row.participants[n][o] # None => filled[n][o] = row.participants[n][o]
  BY <1>4
<1> HIDE DEF filled
<1>8. FillTier(q, tier)[m] \in Row /\ SameStages(row, FillTier(q, tier)[m])
  <2>1. ASSUME NEW new, new = [row EXCEPT !.participants = filled]
        PROVE  new \in RowType /\ SameStages(row, new)
    <3>1. new \in RowType
      BY <1>1, <1>6, <2>1 DEF RowType
    <3>2. SameFetch(row, new) /\ SameTimeline(row, new) /\ SameItems(row, new) /\ new.participants = filled
      BY <1>1, <2>1 DEF RowType, SameFetch, SameTimeline, SameItems
    <3> QED
      BY <1>6, <3>1, <3>2 DEF SameStages
  <2>2. FillTier(q, tier)[m] \in RowType /\ SameStages(row, FillTier(q, tier)[m])
    BY <1>2, <2>1
  <2> QED
    BY <1>1, <2>2 DEF Row, SameStages, SameItems
<1>9. TiersLast(row, FillTier(q, tier)[m])
  <2>1. FillTier(q, tier)[m].participants = filled
    BY <1>1, <1>2 DEF RowType
  <2> QED
    BY <1>7, <2>1 DEF TiersLast
<1> QED
  BY <1>8, <1>9 DEF row

-----------------------------------------------------------------------------
(* What a process can do next *)

\* A process between two matches has none in hand, and what it has in hand suits
\* its phase.
Fits(w) ==
  /\ w.pc \in {"idle", "gate", "load", "each"} => w.on = None
  /\ w.pc \in {"write", "retry"} => w.on \in Match /\ w.phase \in {3, 5, 55}
  /\ w.pc = "write" => w.stmt \in 1..4
  /\ w.pc = "backfill" => w.on \in Player /\ w.phase = 35
  /\ w.pc = "store" => w.on \in Match /\ w.phase = 4

Types == TypeOK /\ \A p \in Proc : Fits(work[p])

\* Process p becomes w, the others stay as they are.
Becomes(p, w) ==
  /\ w \in WorkType /\ work' \in [Proc -> WorkType] /\ work'[p] = w
  /\ \A o \in Proc \ {p} : work'[o] = work[o]

\* The row of m becomes new, the others stay as they are.
Changes(m, new) ==
  /\ new \in Row /\ matches' \in [Match -> Row] /\ matches'[m] = new
  /\ \A o \in Match \ {m} : matches'[o] = matches[o]

\* From here on v is what process p is doing and w is what it does next.
Dropped(v, w, x) ==
  /\ w.pc \in {"load", "each"} /\ w.phase = v.phase /\ w.page = v.page \ {x} /\ w.on = None

CollectsStep(v, m) ==
  /\ v.phase = 2
  /\ \E new : /\ Changes(m, new) /\ matches[m].fetch = "absent" /\ new.fetch = "pending"
              /\ new.fetchRetry = matches[m].fetchRetry /\ new.participants = matches[m].participants
              /\ SameTimeline(matches[m], new) /\ SameItems(matches[m], new)

RestsStep(v, w) ==
  /\ matches' = matches /\ w.pc \in {"idle", "gate", "load"} /\ w.on = None
  /\ w.page = {} \/ (w.page = v.page /\ w.phase = v.phase /\ v.on = None)
  /\ v.pc \in {"write", "retry"} => faults' > 0

LoadsStep(v, w) ==
  /\ matches' = matches /\ v.on = None /\ w.on = None /\ v.pc = "load" /\ w.pc = "each"
  /\ w.phase = v.phase /\ w.page \subseteq Todo(v.phase)

TakesStep(v, w) ==
  /\ matches' = matches /\ v.on = None /\ v.pc = "each" /\ w.pc \in {"write", "retry"}
  /\ w.phase = v.phase /\ w.phase \in {3, 5, 55} /\ w.page = v.page /\ w.on \in Match /\ w.on \in v.page
  /\ w.pc = "write" => w.stmt = 1 /\ w.seen = matches[w.on].itemEvents

WritesStep(v, w) ==
  /\ v.pc = "write"
  /\ \E new : Changes(v.on, new) /\ StatementStep(matches[v.on], new, v.phase, v.stmt, v.seen)
  /\ \/ v.stmt < 4 /\ w = [v EXCEPT !.stmt = @ + 1]
     \/ v.stmt = 4 /\ Dropped(v, w, v.on)

FailsStep(v, w) ==
  /\ v.pc = "write" /\ faults' > 0
  /\ \/ matches' = matches
     \/ \E new : Changes(v.on, new) /\ StatementStep(matches[v.on], new, v.phase, v.stmt, v.seen)
  /\ w = [v EXCEPT !.pc = "retry"]

CountsStep(v, w) ==
  /\ v.pc = "retry"
  /\ \E new : Changes(v.on, new) /\ RetryStep(matches[v.on], new, v.phase)
  /\ Dropped(v, w, v.on)

TiersStep(v, w) ==
  /\ v.phase \in {35, 4} /\ w.phase = v.phase /\ w.pc \notin {"write", "retry"}
  /\ matches' \in [Match -> Row]
  /\ \A m \in Match : SameStages(matches[m], matches'[m]) /\ TiersLast(matches[m], matches'[m])

Step(p, w) ==
  /\ Becomes(p, w)
  /\ \/ \E m \in Match : CollectsStep(work[p], m) /\ w = work[p]
     \/ RestsStep(work[p], w) \/ LoadsStep(work[p], w) \/ TakesStep(work[p], w)
     \/ WritesStep(work[p], w) \/ FailsStep(work[p], w) \/ CountsStep(work[p], w)
     \/ TiersStep(work[p], w)

\* The step of p leaves everything well typed.
GoodStep(p, w) ==
  /\ Step(p, w) /\ Fits(w) /\ matches' \in [Match -> Row] /\ ranked' \subseteq Player
  /\ checkpoint' \in {2, 3, 35, 4, 5, 55} /\ faults' \in 0..MaxFaults /\ faults <= faults'

LEMMA TypeFacts ==
  ASSUME Types, NEW p \in Proc
  PROVE  /\ matches \in [Match -> Row] /\ work \in [Proc -> WorkType] /\ work[p] \in WorkType
         /\ Fits(work[p]) /\ ranked \subseteq Player /\ checkpoint \in {2, 3, 35, 4, 5, 55}
         /\ faults \in 0..MaxFaults /\ faults <= faults
<1>1. TypeOK /\ Fits(work[p])
  BY DEF Types
<1>2. matches \in [Match -> Row]
  BY <1>1 DEF TypeOK, Row
<1>3. work \in [Proc -> WorkType] /\ work[p] \in WorkType
  BY <1>1 DEF TypeOK
<1>4. Fits(work[p])
  BY <1>1
<1>5. faults \in 0..MaxFaults /\ faults <= faults
  BY <1>1 DEF TypeOK
<1> QED
  BY <1>1, <1>2, <1>3, <1>4, <1>5 DEF TypeOK

LEMMA BecomesFrom ==
  ASSUME work \in [Proc -> WorkType], NEW p \in Proc, NEW w \in WorkType, work' = [work EXCEPT ![p] = w]
  PROVE  Becomes(p, w)
BY DEF Becomes

LEMMA ChangesFrom ==
  ASSUME matches \in [Match -> Row], NEW m \in Match, NEW new \in Row, matches' = [matches EXCEPT ![m] = new]
  PROVE  Changes(m, new)
BY DEF Changes

LEMMA FaultFacts ==
  ASSUME faults \in 0..MaxFaults, Fault
  PROVE  faults' \in 0..MaxFaults /\ faults <= faults' /\ faults' > 0
BY ConstantTypes DEF Fault

LEMMA NextPhases == \A k \in {2, 3, 35, 4, 5} : NextPhase(k) \in {3, 35, 4, 5, 55}
<1> TAKE k \in {2, 3, 35, 4, 5}
<1>1. \E n \in 1..5 : Order[n] = k
  BY DEF Order
<1>2. ASSUME NEW n \in 1..5
      PROVE  Order[1 + n] \in {3, 35, 4, 5, 55}
  BY DEF Order
<1> QED
  BY <1>1, <1>2 DEF NextPhase

LEMMA IdleType == Idle \in WorkType /\ Idle.on = None /\ Idle.page = {} /\ Idle.pc = "idle"
BY DEF Idle, WorkType

LEMMA DropFacts ==
  ASSUME work \in [Proc -> WorkType], NEW p \in Proc, NEW x
  PROVE  \E w \in WorkType : /\ Drop(p, x) = [work EXCEPT ![p] = w] /\ Dropped(work[p], w, x)
                             /\ w.asked = work[p].asked
<1>1. PICK v \in WorkType : v = work[p]
  OBVIOUS
<1>2. PICK pc \in {"load", "each"} : pc = IF v.page = {x} THEN "load" ELSE "each"
  OBVIOUS
<1>3. PICK page \in SUBSET (Match \cup Player) : page = v.page \ {x}
  BY DEF WorkType
<1>4. PICK w : w = [v EXCEPT !.page = page, !.pc = pc, !.on = None, !.stmt = 0, !.seen = 0]
  OBVIOUS
<1>5. Drop(p, x) = [work EXCEPT ![p] = w]
  BY <1>1, <1>2, <1>3, <1>4 DEF Drop
<1>6. /\ v.phase \in {2, 3, 35, 4, 5, 55} /\ v.asked \in SUBSET Player /\ 0 \in 0..4 /\ 0 \in Nat
  BY DEF WorkType
<1>7. w = [pc |-> pc, phase |-> v.phase, page |-> page, asked |-> v.asked, on |-> None,
           stmt |-> 0, seen |-> 0]
  BY <1>4 DEF WorkType
<1>8. w \in WorkType
  BY <1>6, <1>7 DEF WorkType
<1>9. /\ w.pc = pc /\ w.phase = v.phase /\ w.page = page /\ w.on = None /\ w.asked = v.asked
  BY <1>7
<1>10. Dropped(work[p], w, x)
  BY <1>1, <1>3, <1>9 DEF Dropped
<1> QED
  BY <1>1, <1>5, <1>8, <1>9, <1>10

LEMMA DropIsOk ==
  ASSUME NEW v, NEW w, NEW x, Dropped(v, w, x)
  PROVE  Fits(w)
BY DEF Dropped, Fits

\* Steps that end a phase, a run or an execution.
LEMMA RestIsGood ==
  ASSUME Types, NEW p \in Proc, NEW w \in WorkType, work' = [work EXCEPT ![p] = w], RestsStep(work[p], w),
         ranked' = ranked, checkpoint' \in {2, 3, 35, 4, 5, 55}, faults' \in 0..MaxFaults, faults <= faults'
  PROVE  GoodStep(p, w)
<1>1. /\ matches \in [Match -> Row] /\ work \in [Proc -> WorkType] /\ ranked \subseteq Player
  BY TypeFacts
<1>2. Step(p, w)
  BY <1>1, BecomesFrom DEF Step
<1>3. Fits(w) /\ matches' = matches
  BY DEF RestsStep, Fits
<1> QED
  BY <1>1, <1>2, <1>3 DEF GoodStep

LEMMA EndPhaseStep ==
  ASSUME Types, NEW p \in Proc, work[p].pc \in {"gate", "load"}, EndPhase(p),
         UNCHANGED <<matches, ranked, faults>>
  PROVE  \E w : GoodStep(p, w)
<1>1. /\ work \in [Proc -> WorkType] /\ work[p] \in WorkType /\ checkpoint \in {2, 3, 35, 4, 5, 55}
      /\ faults \in 0..MaxFaults /\ faults <= faults
  BY TypeFacts
<1>2. checkpoint' \in {2, 3, 35, 4, 5, 55}
  BY <1>1 DEF EndPhase
<1>3. CASE work[p].phase = 55
  <2>1. work' = [work EXCEPT ![p] = Idle]
    BY <1>3 DEF EndPhase
  <2>2. RestsStep(work[p], Idle)
    BY DEF RestsStep, Idle
  <2> QED
    BY <1>1, <1>2, <2>1, <2>2, IdleType, RestIsGood
<1>4. CASE work[p].phase # 55
  <2> DEFINE w == [Idle EXCEPT !.pc = "gate", !.phase = NextPhase(work[p].phase)]
  <2>1. work' = [work EXCEPT ![p] = w]
    BY <1>4 DEF EndPhase
  <2>2. NextPhase(work[p].phase) \in {3, 35, 4, 5, 55}
    BY <1>1, <1>4, NextPhases DEF WorkType
  <2>3. w \in WorkType /\ w.pc = "gate" /\ w.on = None /\ w.page = {}
    BY <2>2, IdleType DEF WorkType
  <2> HIDE DEF w
  <2>4. RestsStep(work[p], w)
    BY <2>3 DEF RestsStep
  <2> QED
    BY <1>1, <1>2, <2>1, <2>3, <2>4, RestIsGood
<1> QED
  BY <1>3, <1>4

LEMMA StartStep ==
  ASSUME Types, NEW p \in Proc, Start(p)
  PROVE  \E w : GoodStep(p, w)
<1> DEFINE pc == IF checkpoint = 2 THEN "load" ELSE "gate"
           w == [Idle EXCEPT !.pc = pc, !.phase = checkpoint]
<1>1. /\ checkpoint \in {2, 3, 35, 4, 5, 55} /\ faults \in 0..MaxFaults /\ faults <= faults
      /\ pc \in {"gate", "load"}
  BY TypeFacts
<1> HIDE DEF pc
<1>2. w \in WorkType /\ w.pc \in {"gate", "load"} /\ w.on = None /\ w.page = {}
  BY <1>1, IdleType DEF WorkType
<1>3. /\ work' = [work EXCEPT ![p] = w] /\ work[p].pc = "idle"
      /\ UNCHANGED <<matches, ranked, checkpoint, faults>>
  BY DEF Start, Active, pc
<1> HIDE DEF w
<1>4. RestsStep(work[p], w)
  BY <1>2, <1>3 DEF RestsStep
<1> QED
  BY <1>1, <1>2, <1>3, <1>4, RestIsGood

LEMMA BreakOffStep ==
  ASSUME Types, NEW p \in Proc, BreakOff(p)
  PROVE  \E w : GoodStep(p, w)
<1>1. checkpoint \in {2, 3, 35, 4, 5, 55} /\ faults' \in 0..MaxFaults /\ faults <= faults' /\ faults' > 0
  BY TypeFacts, FaultFacts DEF BreakOff
<1>2. /\ work' = [work EXCEPT ![p] = Idle] /\ UNCHANGED <<matches, ranked, checkpoint>>
  BY DEF BreakOff
<1>3. RestsStep(work[p], Idle)
  BY <1>1, <1>2 DEF RestsStep, Idle
<1> QED
  BY <1>1, <1>2, <1>3, IdleType, RestIsGood

LEMMA GateStep ==
  ASSUME Types, NEW p \in Proc, Gate(p)
  PROVE  \E w : GoodStep(p, w)
<1>1. /\ work[p] \in WorkType /\ Fits(work[p]) /\ faults \in 0..MaxFaults /\ faults <= faults
      /\ work[p].pc = "gate" /\ work[p].on = None /\ UNCHANGED <<matches, ranked, faults>>
  BY TypeFacts DEF Gate, Fits
<1>2. CASE EndPhase(p)
  BY <1>1, <1>2, EndPhaseStep
<1>3. CASE checkpoint' = work[p].phase /\ work' = [work EXCEPT ![p].pc = "load"]
  <2> DEFINE w == [work[p] EXCEPT !.pc = "load"]
  <2>1. /\ w \in WorkType /\ w.pc = "load" /\ w.on = None /\ w.page = work[p].page /\ w.phase = work[p].phase
        /\ work[p].phase \in {2, 3, 35, 4, 5, 55}
    BY <1>1 DEF WorkType
  <2>2. work' = [work EXCEPT ![p] = w]
    BY <1>3
  <2> HIDE DEF w
  <2>3. RestsStep(work[p], w)
    BY <1>1, <2>1 DEF RestsStep
  <2> QED
    BY <1>1, <1>3, <2>1, <2>2, <2>3, RestIsGood
<1> QED
  BY <1>2, <1>3 DEF Gate

LEMMA StayFacts ==
  ASSUME NEW m \in Match
  PROVE  SameStages(matches[m], matches[m]) /\ TiersLast(matches[m], matches[m])
BY DEF SameStages, SameFetch, SameTimeline, SameItems, TiersLast

LEMMA TodoFacts ==
  ASSUME NEW k
  PROVE  /\ Todo(k) \in SUBSET (Match \cup Player)
         /\ k # 35 => Todo(k) = Needs(k)
BY DEF Todo, Needs, MissingTier

LEMMA CollectStep ==
  ASSUME Types, NEW p \in Proc, NEW m \in Match, Collect(p, m)
  PROVE  \E w : GoodStep(p, w)
<1>1. /\ matches \in [Match -> Row] /\ work \in [Proc -> WorkType] /\ work[p] \in WorkType
      /\ Fits(work[p]) /\ ranked \subseteq Player /\ checkpoint \in {2, 3, 35, 4, 5, 55}
      /\ faults \in 0..MaxFaults /\ faults <= faults
  BY TypeFacts
<1>2. /\ matches' = [matches EXCEPT ![m].fetch = "pending"] /\ matches[m].fetch = "absent"
      /\ work[p].phase = 2 /\ UNCHANGED <<ranked, work, checkpoint, faults>>
  BY DEF Collect, At
<1>3. PICK row \in Row : row = matches[m]
  BY <1>1
<1>4. PICK new : new = [row EXCEPT !.fetch = "pending"]
  OBVIOUS
<1>5. row \in RowType /\ Len(row.slots) <= MaxSlots
  BY DEF Row
<1>6. new \in RowType
  BY <1>4, <1>5 DEF RowType, Status
<1>7. /\ new.fetch = "pending" /\ new.fetchRetry = row.fetchRetry /\ new.participants = row.participants
      /\ SameTimeline(row, new) /\ SameItems(row, new)
  BY <1>4, <1>5 DEF RowType, SameTimeline, SameItems
<1>8. new \in Row
  BY <1>5, <1>6, <1>7 DEF Row, SameItems
<1>9. Changes(m, new)
  BY <1>1, <1>2, <1>3, <1>4, <1>8, ChangesFrom
<1>10. CollectsStep(work[p], m)
  BY <1>2, <1>3, <1>7, <1>9 DEF CollectsStep
<1>11. Becomes(p, work[p])
  BY <1>1, <1>2 DEF Becomes
<1>12. Step(p, work[p])
  BY <1>10, <1>11 DEF Step
<1> QED
  BY <1>1, <1>2, <1>9, <1>12 DEF GoodStep, Changes

LEMMA LoadStep ==
  ASSUME Types, NEW p \in Proc, Load(p)
  PROVE  \E w : GoodStep(p, w)
<1>1. /\ matches \in [Match -> Row] /\ work \in [Proc -> WorkType] /\ work[p] \in WorkType
      /\ Fits(work[p]) /\ ranked \subseteq Player /\ checkpoint \in {2, 3, 35, 4, 5, 55}
      /\ faults \in 0..MaxFaults /\ faults <= faults
  BY TypeFacts
<1>2. work[p].pc = "load" /\ work[p].on = None /\ UNCHANGED <<matches, ranked, faults>>
  BY <1>1 DEF Load, Fits
<1>3. CASE EndPhase(p)
  BY <1>2, <1>3, EndPhaseStep
<1>4. CASE ~EndPhase(p)
  <2>1. PICK page \in Pages(Todo(work[p].phase)) :
          /\ work' = [work EXCEPT ![p].pc = "each", ![p].page = page \ work[p].asked]
          /\ UNCHANGED checkpoint
    BY <1>4 DEF Load
  <2>2. PICK v \in WorkType : v = work[p]
    BY <1>1
  <2>3. PICK rest \in SUBSET (Match \cup Player) : rest = page \ v.asked /\ rest \subseteq Todo(v.phase)
    BY <2>2, TodoFacts DEF Pages
  <2>4. PICK w : w = [v EXCEPT !.pc = "each", !.page = rest]
    OBVIOUS
  <2>5. work' = [work EXCEPT ![p] = w]
    BY <2>1, <2>2, <2>3, <2>4
  <2>6. w \in WorkType
    BY <2>4 DEF WorkType
  <2>7. w.pc = "each" /\ w.page = rest /\ w.phase = v.phase /\ w.on = v.on
    BY <2>4 DEF WorkType
  <2>8. LoadsStep(work[p], w) /\ Fits(w)
    BY <1>2, <2>2, <2>3, <2>7 DEF LoadsStep, Fits
  <2>9. Step(p, w)
    BY <1>1, <2>5, <2>6, <2>8, BecomesFrom DEF Step
  <2> QED
    BY <1>1, <1>2, <2>1, <2>8, <2>9 DEF GoodStep
<1> QED
  BY <1>3, <1>4

LEMMA FetchStep ==
  ASSUME Types, NEW p \in Proc, NEW m \in Match, Fetch(p, m) \/ FetchFails(p, m)
  PROVE  \E w : GoodStep(p, w)
<1>1. /\ matches \in [Match -> Row] /\ work \in [Proc -> WorkType] /\ work[p] \in WorkType
      /\ Fits(work[p]) /\ ranked \subseteq Player /\ checkpoint \in {2, 3, 35, 4, 5, 55}
      /\ faults \in 0..MaxFaults /\ faults <= faults
  BY TypeFacts
<1>2. /\ UNCHANGED <<matches, ranked, checkpoint, faults>> /\ work[p].pc = "each" /\ work[p].phase \in {3, 5, 55}
      /\ m \in work[p].page /\ work[p].on = None
  BY <1>1 DEF Fetch, FetchFails, At, Fits
<1>3. PICK v \in WorkType : v = work[p]
  BY <1>1
<1>4. CASE Fetch(p, m)
  <2>1. PICK seen \in Nat : seen = matches[m].itemEvents
    BY <1>1 DEF Row, RowType
  <2>2. PICK w : w = [v EXCEPT !.pc = "write", !.on = m, !.stmt = 1, !.seen = seen]
    OBVIOUS
  <2>3. work' = [work EXCEPT ![p] = w]
    BY <1>3, <1>4, <2>1, <2>2 DEF Fetch
  <2>4. w \in WorkType
    <3>1. w = [pc |-> "write", phase |-> v.phase, page |-> v.page, asked |-> v.asked, on |-> m,
               stmt |-> 1, seen |-> seen]
      BY <2>2 DEF WorkType
    <3>2. /\ v.phase \in {2, 3, 35, 4, 5, 55} /\ v.page \in SUBSET (Match \cup Player)
          /\ v.asked \in SUBSET Player /\ 1 \in 0..4
      BY DEF WorkType
    <3> QED
      BY <3>1, <3>2 DEF WorkType
  <2>5. w.pc = "write" /\ w.on = m /\ w.stmt = 1 /\ w.seen = seen /\ w.phase = v.phase /\ w.page = v.page
    BY <2>2 DEF WorkType
  <2>6. TakesStep(work[p], w) /\ Fits(w)
    <3>1. w.stmt \in 1..4
      BY <2>5
    <3> QED
      BY <1>2, <1>3, <2>1, <2>5, <3>1, ConstantTypes DEF TakesStep, Fits
  <2>7. Step(p, w)
    BY <1>1, <2>3, <2>4, <2>6, BecomesFrom DEF Step
  <2> QED
    BY <1>1, <1>2, <2>6, <2>7 DEF GoodStep
<1>5. CASE FetchFails(p, m)
  <2>1. PICK w : w = [v EXCEPT !.pc = "retry", !.on = m]
    OBVIOUS
  <2>2. work' = [work EXCEPT ![p] = w]
    BY <1>3, <1>5, <2>1 DEF FetchFails
  <2>3. w \in WorkType
    BY <2>1 DEF WorkType
  <2>4. w.pc = "retry" /\ w.on = m /\ w.phase = v.phase /\ w.page = v.page
    BY <2>1 DEF WorkType
  <2>5. TakesStep(work[p], w) /\ Fits(w)
    BY <1>2, <1>3, <2>4, ConstantTypes DEF TakesStep, Fits
  <2>6. Step(p, w)
    BY <1>1, <2>2, <2>3, <2>5, BecomesFrom DEF Step
  <2> QED
    BY <1>1, <1>2, <2>5, <2>6 DEF GoodStep
<1> QED
  BY <1>4, <1>5

\* What a statement does, whether its answer arrives or not.
LEMMA AppliedFacts ==
  ASSUME Types, NEW p \in Proc, work[p].pc = "write", matches' = Applied(p)
  PROVE  \E new : /\ Changes(work[p].on, new)
                  /\ StatementStep(matches[work[p].on], new, work[p].phase, work[p].stmt, work[p].seen)
<1>1. /\ matches \in [Match -> Row] /\ work[p] \in WorkType /\ Fits(work[p])
  BY TypeFacts
<1>2. PICK m \in Match : m = work[p].on
  BY <1>1 DEF Fits
<1>3. PICK k \in {3, 5, 55} : k = work[p].phase
  BY <1>1 DEF Fits
<1>4. PICK n \in 1..4 : n = work[p].stmt
  BY <1>1 DEF Fits
<1>5. PICK seen \in Nat : seen = work[p].seen
  BY <1>1 DEF WorkType
<1>6. PICK row \in Row : row = matches[m]
  BY <1>1
<1>7. PICK new : new = WithStatement(row, k, n, seen)
  OBVIOUS
<1>8. new \in Row /\ StatementStep(row, new, k, n, seen)
  BY <1>7, StatementRow
<1>9. matches' = [matches EXCEPT ![m] = new]
  BY <1>2, <1>3, <1>4, <1>5, <1>6, <1>7 DEF Applied
<1>10. Changes(m, new)
  BY <1>1, <1>8, <1>9, ChangesFrom
<1> QED
  BY <1>2, <1>3, <1>4, <1>5, <1>6, <1>8, <1>10

LEMMA StatementCount == \A k \in {3, 5, 55} : Len(Statements(k)) = 4
BY DEF Statements, DetailStatements, TimelineStatements, ItemStatements

LEMMA WriteStep ==
  ASSUME Types, NEW p \in Proc, Write(p)
  PROVE  \E w : GoodStep(p, w)
<1>1. /\ matches \in [Match -> Row] /\ work \in [Proc -> WorkType] /\ work[p] \in WorkType
      /\ Fits(work[p]) /\ ranked \subseteq Player /\ checkpoint \in {2, 3, 35, 4, 5, 55}
      /\ faults \in 0..MaxFaults /\ faults <= faults
  BY TypeFacts
<1>2. /\ work[p].pc = "write" /\ matches' = Applied(p) /\ UNCHANGED <<ranked, checkpoint, faults>>
      /\ work[p].stmt \in 1..4 /\ work[p].phase \in {3, 5, 55} /\ work[p].on \in Match
  BY <1>1 DEF Write, Fits
<1>3. PICK new : /\ Changes(work[p].on, new)
                 /\ StatementStep(matches[work[p].on], new, work[p].phase, work[p].stmt, work[p].seen)
  BY <1>2, AppliedFacts
<1>4. matches' \in [Match -> Row]
  BY <1>3 DEF Changes
<1>5. CASE work[p].stmt = 4
  <2>1. work' = Drop(p, work[p].on)
    BY <1>2, <1>5, StatementCount DEF Write
  <2>2. PICK w \in WorkType : work' = [work EXCEPT ![p] = w] /\ Dropped(work[p], w, work[p].on)
    BY <1>1, <2>1, DropFacts
  <2>3. WritesStep(work[p], w) /\ Fits(w)
    BY <1>2, <1>3, <1>5, <2>2, DropIsOk DEF WritesStep
  <2>4. Step(p, w)
    BY <1>1, <2>2, <2>3, BecomesFrom DEF Step
  <2> QED
    BY <1>1, <1>2, <1>4, <2>3, <2>4 DEF GoodStep
<1>6. CASE work[p].stmt # 4
  <2>1. PICK v \in WorkType : v = work[p]
    BY <1>1
  <2>2. work' = [work EXCEPT ![p].stmt = @ + 1]
    BY <1>2, <1>6, StatementCount DEF Write
  <2>3. v.stmt < 4 /\ v.stmt + 1 \in 1..4 /\ v.stmt + 1 \in 0..4
    BY <1>2, <1>6, <2>1
  <2>4. PICK w : w = [v EXCEPT !.stmt = @ + 1]
    OBVIOUS
  <2>5. work' = [work EXCEPT ![p] = w]
    BY <2>1, <2>2, <2>4
  <2>6. w \in WorkType
    BY <2>3, <2>4 DEF WorkType
  <2>7. w.pc = v.pc /\ w.on = v.on /\ w.phase = v.phase /\ w.stmt = v.stmt + 1
    BY <2>4 DEF WorkType
  <2>8. WritesStep(work[p], w)
    BY <1>2, <1>3, <2>1, <2>3, <2>4 DEF WritesStep
  <2>9. Fits(w)
    BY <1>2, <2>1, <2>3, <2>7 DEF Fits
  <2>10. Step(p, w)
    BY <1>1, <2>5, <2>6, <2>8, BecomesFrom DEF Step
  <2> QED
    BY <1>1, <1>2, <1>4, <2>9, <2>10 DEF GoodStep
<1> QED
  BY <1>5, <1>6

LEMMA WriteFailsStep ==
  ASSUME Types, NEW p \in Proc, WriteFails(p)
  PROVE  \E w : GoodStep(p, w)
<1>1. /\ matches \in [Match -> Row] /\ work \in [Proc -> WorkType] /\ work[p] \in WorkType
      /\ Fits(work[p]) /\ ranked \subseteq Player /\ checkpoint \in {2, 3, 35, 4, 5, 55}
      /\ faults' \in 0..MaxFaults /\ faults <= faults' /\ faults' > 0
  BY TypeFacts, FaultFacts DEF WriteFails
<1>2. /\ work[p].pc = "write" /\ UNCHANGED <<ranked, checkpoint>> /\ work' = [work EXCEPT ![p].pc = "retry"]
      /\ matches' = matches \/ matches' = Applied(p)
      /\ work[p].phase \in {3, 5, 55} /\ work[p].on \in Match
  BY <1>1 DEF WriteFails, Fits
<1>3. \/ matches' = matches
      \/ \E new : /\ Changes(work[p].on, new)
                  /\ StatementStep(matches[work[p].on], new, work[p].phase, work[p].stmt, work[p].seen)
  BY <1>2, AppliedFacts
<1>4. matches' \in [Match -> Row]
  BY <1>1, <1>3 DEF Changes
<1>5. PICK v \in WorkType : v = work[p]
  BY <1>1
<1>6. PICK w : w = [v EXCEPT !.pc = "retry"]
  OBVIOUS
<1>7. work' = [work EXCEPT ![p] = w]
  BY <1>2, <1>5, <1>6
<1>8. w \in WorkType
  BY <1>6 DEF WorkType
<1>9. w.pc = "retry" /\ w.on = v.on /\ w.phase = v.phase
  BY <1>6 DEF WorkType
<1>10. FailsStep(work[p], w)
  BY <1>1, <1>2, <1>3, <1>5, <1>6 DEF FailsStep
<1>11. Fits(w)
  BY <1>2, <1>5, <1>9 DEF Fits
<1>12. Step(p, w)
  BY <1>1, <1>7, <1>8, <1>10, BecomesFrom DEF Step
<1> QED
  BY <1>1, <1>2, <1>4, <1>11, <1>12 DEF GoodStep

LEMMA CountRetryStep ==
  ASSUME Types, NEW p \in Proc, CountRetry(p)
  PROVE  \E w : GoodStep(p, w)
<1>1. /\ matches \in [Match -> Row] /\ work \in [Proc -> WorkType] /\ work[p] \in WorkType
      /\ Fits(work[p]) /\ ranked \subseteq Player /\ checkpoint \in {2, 3, 35, 4, 5, 55}
      /\ faults \in 0..MaxFaults /\ faults <= faults
  BY TypeFacts
<1>2. /\ work[p].pc = "retry" /\ UNCHANGED <<ranked, checkpoint, faults>> /\ work' = Drop(p, work[p].on)
      /\ work[p].phase \in {3, 5, 55} /\ work[p].on \in Match
  BY <1>1 DEF CountRetry, Fits
<1>3. PICK m \in Match : m = work[p].on
  BY <1>2
<1>4. PICK row \in Row : row = matches[m]
  BY <1>1
<1>5. PICK k \in {3, 5, 55} : k = work[p].phase
  BY <1>2
<1>6. PICK new : new = Retried(row, k)
  OBVIOUS
<1>7. new \in Row /\ RetryStep(row, new, k)
  BY <1>6, RetryRow
<1>8. matches' = [matches EXCEPT ![m] = new]
  BY <1>3, <1>4, <1>5, <1>6 DEF CountRetry
<1>9. Changes(m, new)
  BY <1>1, <1>7, <1>8, ChangesFrom
<1>10. PICK w \in WorkType : work' = [work EXCEPT ![p] = w] /\ Dropped(work[p], w, m)
  BY <1>1, <1>2, <1>3, DropFacts
<1>11. CountsStep(work[p], w)
  BY <1>2, <1>3, <1>4, <1>5, <1>7, <1>9, <1>10 DEF CountsStep
<1>12. Step(p, w) /\ Fits(w)
  BY <1>1, <1>10, <1>11, BecomesFrom, DropIsOk DEF Step
<1> QED
  BY <1>1, <1>2, <1>9, <1>12 DEF GoodStep, Changes

\* Phases 35 and 4 touch nothing of the stages.
LEMMA TiersAreGood ==
  ASSUME Types, NEW p \in Proc, NEW w \in WorkType, work' = [work EXCEPT ![p] = w], Fits(w),
         TiersStep(work[p], w), ranked' \subseteq Player, checkpoint' = checkpoint,
         faults' \in 0..MaxFaults, faults <= faults'
  PROVE  GoodStep(p, w)
<1>1. /\ work \in [Proc -> WorkType] /\ checkpoint \in {2, 3, 35, 4, 5, 55}
  BY TypeFacts
<1>2. Step(p, w)
  BY <1>1, BecomesFrom DEF Step
<1> QED
  BY <1>1, <1>2 DEF GoodStep, TiersStep

LEMMA NoRowChanges ==
  ASSUME Types, NEW p \in Proc, NEW w, matches' = matches, work[p].phase \in {35, 4},
         w.phase = work[p].phase, w.pc \notin {"write", "retry"}
  PROVE  TiersStep(work[p], w)
BY TypeFacts, StayFacts DEF TiersStep

LEMMA AskFailsStep ==
  ASSUME Types, NEW p \in Proc, NEW q \in Player, AskFails(p, q) \/ AskUnranked(p, q)
  PROVE  \E w : GoodStep(p, w)
<1>1. /\ matches \in [Match -> Row] /\ work \in [Proc -> WorkType] /\ work[p] \in WorkType
      /\ ranked \subseteq Player /\ faults \in 0..MaxFaults /\ faults <= faults
  BY TypeFacts
<1>2. /\ work' = [Drop(p, q) EXCEPT ![p].asked = @ \cup {q}] /\ work[p].phase = 35
      /\ UNCHANGED <<ranked, checkpoint, faults>>
  BY DEF AskFails, AskUnranked, At
<1>3. PICK v \in WorkType : Drop(p, q) = [work EXCEPT ![p] = v] /\ Dropped(work[p], v, q)
  BY <1>1, DropFacts
<1>4. PICK asked \in SUBSET Player : asked = v.asked \cup {q}
  BY DEF WorkType
<1>5. PICK w : w = [v EXCEPT !.asked = asked]
  OBVIOUS
<1>6. work' = [work EXCEPT ![p] = w]
  BY <1>1, <1>2, <1>3, <1>4, <1>5
<1>7. w \in WorkType
  BY <1>5 DEF WorkType
<1>8. w.pc = v.pc /\ w.phase = v.phase /\ w.on = v.on /\ w.page = v.page
  BY <1>5 DEF WorkType
<1>9. w.pc \in {"load", "each"} /\ w.phase = work[p].phase /\ w.on = None
  BY <1>3, <1>8 DEF Dropped
<1>10. Fits(w)
  BY <1>9 DEF Fits
<1>11. CASE matches' = matches
  <2>1. TiersStep(work[p], w)
    BY <1>2, <1>9, <1>11, NoRowChanges
  <2> QED
    BY <1>1, <1>2, <1>6, <1>7, <1>10, <2>1, TiersAreGood
<1>12. CASE matches' = FillTier(q, "UNRANKED")
  <2>1. "UNRANKED" \in Tier
    BY DEF Tier
  <2>2. TiersStep(work[p], w)
    BY <1>1, <1>2, <1>9, <1>12, <2>1, FillTierRows DEF TiersStep
  <2> QED
    BY <1>1, <1>2, <1>6, <1>7, <1>10, <2>2, TiersAreGood
<1> QED
  BY <1>11, <1>12 DEF AskFails, AskUnranked

LEMMA AskRankedStep ==
  ASSUME Types, NEW p \in Proc, NEW q \in Player, AskRanked(p, q)
  PROVE  \E w : GoodStep(p, w)
<1>1. /\ matches \in [Match -> Row] /\ work \in [Proc -> WorkType] /\ work[p] \in WorkType
      /\ ranked \subseteq Player /\ faults \in 0..MaxFaults /\ faults <= faults
  BY TypeFacts
<1>2. /\ work' = [work EXCEPT ![p].pc = "backfill", ![p].on = q, ![p].asked = @ \cup {q}]
      /\ work[p].phase = 35 /\ UNCHANGED <<matches, checkpoint, faults>> /\ ranked' = ranked \cup {q}
  BY DEF AskRanked, InsertSnapshot, At
<1>3. PICK v \in WorkType : v = work[p]
  BY <1>1
<1>4. PICK asked \in SUBSET Player : asked = v.asked \cup {q}
  BY DEF WorkType
<1>5. PICK w : w = [v EXCEPT !.pc = "backfill", !.on = q, !.asked = asked]
  OBVIOUS
<1>6. work' = [work EXCEPT ![p] = w]
  BY <1>2, <1>3, <1>4, <1>5
<1>7. w \in WorkType
  BY <1>5 DEF WorkType
<1>8. w.pc = "backfill" /\ w.phase = v.phase /\ w.on = q
  BY <1>5 DEF WorkType
<1>9. TiersStep(work[p], w) /\ Fits(w)
  BY <1>2, <1>3, <1>8, NoRowChanges DEF Fits
<1> QED
  BY <1>1, <1>2, <1>6, <1>7, <1>9, TiersAreGood

LEMMA BackfillStep ==
  ASSUME Types, NEW p \in Proc, Backfill(p)
  PROVE  \E w : GoodStep(p, w)
<1>1. /\ matches \in [Match -> Row] /\ work \in [Proc -> WorkType] /\ Fits(work[p])
      /\ ranked \subseteq Player /\ faults \in 0..MaxFaults /\ faults <= faults
  BY TypeFacts
<1>2. /\ work' = Drop(p, work[p].on) /\ work[p].on \in Player /\ work[p].phase = 35
      /\ matches' = FillTier(work[p].on, "on_demand") /\ UNCHANGED <<ranked, checkpoint, faults>>
  BY <1>1 DEF Backfill, Fits
<1>3. PICK w \in WorkType : work' = [work EXCEPT ![p] = w] /\ Dropped(work[p], w, work[p].on)
  BY <1>1, <1>2, DropFacts
<1>4. "on_demand" \in Tier
  BY DEF Tier, Tiers
<1>5. TiersStep(work[p], w) /\ Fits(w)
  BY <1>1, <1>2, <1>3, <1>4, FillTierRows, DropIsOk DEF TiersStep, Dropped
<1> QED
  BY <1>1, <1>2, <1>3, <1>5, TiersAreGood

LEMMA CoverageIsNumber ==
  ASSUME NEW row \in Row
  PROVE  Coverage(row) \in Nat
<1> DEFINE all == (1..Len(row.participants)) \X Player
<1>1. row.participants \in Seq([Player -> Tier])
  BY DEF Row, RowType
<1>2. Len(row.participants) \in Nat
  BY <1>1, LenProperties
<1>3. IsFiniteSet(1..Len(row.participants)) /\ IsFiniteSet(Player)
  BY <1>2, FS_Interval, ConstantTypes
<1>4. IsFiniteSet(all)
  BY <1>3, FS_Product
<1>5. IsFiniteSet({c \in all : row.participants[c[1]][c[2]] \in Tiers})
  BY <1>4, FS_Subset
<1> QED
  BY <1>5, FS_CardinalityType DEF Coverage

LEMMA ComputeStep ==
  ASSUME Types, NEW p \in Proc, NEW m \in Match, Compute(p, m)
  PROVE  \E w : GoodStep(p, w)
<1>1. /\ matches \in [Match -> Row] /\ work \in [Proc -> WorkType] /\ work[p] \in WorkType
      /\ ranked \subseteq Player /\ faults \in 0..MaxFaults /\ faults <= faults
  BY TypeFacts
<1>2. work[p].phase = 4 /\ UNCHANGED <<matches, ranked, checkpoint, faults>>
  BY DEF Compute, At
<1>3. PICK seen \in Nat : seen = Coverage(matches[m])
  BY <1>1, CoverageIsNumber
<1>4. PICK v \in WorkType : v = work[p]
  BY <1>1
<1>5. PICK w : w = [v EXCEPT !.pc = "store", !.on = m, !.seen = seen]
  OBVIOUS
<1>6. work' = [work EXCEPT ![p] = w]
  BY <1>3, <1>4, <1>5 DEF Compute
<1>7. w \in WorkType
  BY <1>5 DEF WorkType
<1>8. w.pc = "store" /\ w.phase = v.phase /\ w.on = m
  BY <1>5 DEF WorkType
<1>9. TiersStep(work[p], w) /\ Fits(w)
  BY <1>2, <1>4, <1>8, NoRowChanges DEF Fits
<1> QED
  BY <1>1, <1>2, <1>6, <1>7, <1>9, TiersAreGood

LEMMA StoreStep ==
  ASSUME Types, NEW p \in Proc, Store(p) \/ StoreFails(p)
  PROVE  \E w : GoodStep(p, w)
<1>1. /\ matches \in [Match -> Row] /\ work \in [Proc -> WorkType] /\ work[p] \in WorkType
      /\ Fits(work[p]) /\ ranked \subseteq Player
  BY TypeFacts
<1>2. faults' \in 0..MaxFaults /\ faults <= faults'
  BY TypeFacts, FaultFacts DEF Store, StoreFails
<1>3. /\ work' = Drop(p, work[p].on) /\ work[p].pc = "store" /\ UNCHANGED <<ranked, checkpoint>>
      /\ work[p].on \in Match /\ work[p].phase = 4
  BY <1>1 DEF Store, StoreFails, Fits
<1>4. PICK w \in WorkType : work' = [work EXCEPT ![p] = w] /\ Dropped(work[p], w, work[p].on)
  BY <1>1, <1>3, DropFacts
<1>5. Fits(w) /\ w.phase = work[p].phase /\ w.pc \notin {"write", "retry"}
  BY <1>4, DropIsOk DEF Dropped
<1>6. CASE StoreFails(p)
  <2>1. TiersStep(work[p], w)
    BY <1>3, <1>5, <1>6, NoRowChanges DEF StoreFails
  <2> QED
    BY <1>1, <1>2, <1>3, <1>4, <1>5, <2>1, TiersAreGood
<1>7. CASE Store(p)
  <2>1. PICK m \in Match : m = work[p].on
    BY <1>3
  <2>2. PICK avg \in Nat : avg = work[p].seen
    BY <1>1 DEF WorkType
  <2>3. PICK row \in Row : row = matches[m]
    BY <1>1
  <2>4. PICK new : new = [row EXCEPT !.avg = avg]
    OBVIOUS
  <2>5. row \in RowType /\ Len(row.slots) <= MaxSlots
    BY DEF Row
  <2>6. new \in RowType
    BY <2>4, <2>5 DEF RowType
  <2>7. SameFetch(row, new) /\ SameTimeline(row, new) /\ SameItems(row, new) /\ new.participants = row.participants
    BY <2>4, <2>5 DEF RowType, SameFetch, SameTimeline, SameItems
  <2>8. new \in Row /\ SameStages(row, new) /\ TiersLast(row, new)
    BY <2>5, <2>6, <2>7 DEF Row, SameStages, SameItems, TiersLast
  <2>9. matches' = [matches EXCEPT ![m] = new]
    BY <1>7, <2>1, <2>2, <2>3, <2>4 DEF Store
  <2>10. Changes(m, new)
    BY <1>1, <2>8, <2>9, ChangesFrom
  <2>11. TiersStep(work[p], w)
    BY <1>3, <1>5, <2>3, <2>8, <2>10, StayFacts DEF TiersStep, Changes
  <2> QED
    BY <1>1, <1>2, <1>3, <1>4, <1>5, <2>11, TiersAreGood
<1> QED
  BY <1>6, <1>7

LEMMA EndCollectStep ==
  ASSUME Types, NEW p \in Proc, EndCollect(p)
  PROVE  \E w : GoodStep(p, w)
BY EndPhaseStep DEF EndCollect, At

\* Every action of a process is one of these steps.
LEMMA NextStep ==
  ASSUME Types, NEW p \in Proc, Start(p) \/ Work(p) \/ WriteFails(p) \/ StoreFails(p) \/ BreakOff(p)
  PROVE  \E w : GoodStep(p, w)
<1>1. CASE Work(p)
  <2>1. CASE EachMatch(p)
    BY <2>1, FetchStep, ComputeStep DEF EachMatch
  <2>2. CASE EachPlayer(p)
    BY <2>2, AskFailsStep, AskRankedStep DEF EachPlayer
  <2> QED
    BY <1>1, <2>1, <2>2, GateStep, LoadStep, WriteStep, CountRetryStep, BackfillStep, StoreStep,
       EndCollectStep, CollectStep DEF Work
<1> QED
  BY <1>1, StartStep, WriteFailsStep, StoreStep, BreakOffStep

LEMMA GoodStepKeepsTypes ==
  ASSUME Types, NEW p \in Proc, NEW w, GoodStep(p, w)
  PROVE  Types'
<1>1. /\ Becomes(p, w) /\ Fits(w) /\ matches' \in [Match -> Row] /\ ranked' \subseteq Player
      /\ checkpoint' \in {2, 3, 35, 4, 5, 55} /\ faults' \in 0..MaxFaults
  BY DEF GoodStep, Step
<1>2. TypeOK'
  BY <1>1 DEF TypeOK, Row, Becomes
<1>3. \A o \in Proc : Fits(work'[o])
  BY <1>1 DEF Types, Becomes
<1> QED
  BY <1>2, <1>3 DEF Types, Fits

-----------------------------------------------------------------------------
(* Types, tiers, and what is marked done, for any number of processes *)

\* What a row has it keeps.
KeepsWhatItHas(row, new) ==
  /\ row.itemEvents > 0 => new.itemEvents > 0
  /\ row.skillEvents > 0 => new.skillEvents > 0
  /\ row.frames => new.frames
  /\ row.starters > 0 => new.starters > 0
  /\ row.boots => new.boots
  /\ row.slots # <<>> => new.slots # <<>>

HasSlots(row) == Builds > 0 /\ MaxSlots > 0 => row.slots # <<>>

\* A row that is marked done in phases 5 and 5.5 is complete.
Stored(row) ==
  /\ row.timeline = "done" => row.itemEvents > 0 /\ row.skillEvents > 0 /\ row.frames
  /\ row.items = "done" => row.starters > 0 /\ row.boots /\ HasSlots(row)

\* Where a process is in its statements, these are in the row.  A page of phase
\* 5.5 has matches with timelines only.
Written(w) ==
  /\ w.phase = 55 => \A m \in w.page \cap Match : matches[m].itemEvents > 0
  /\ w.pc = "write" /\ w.phase = 5 =>
       /\ w.stmt > 1 => matches[w.on].itemEvents > 0
       /\ w.stmt > 2 => matches[w.on].skillEvents > 0
       /\ w.stmt > 3 => matches[w.on].frames
  /\ w.pc = "write" /\ w.phase = 55 =>
       /\ w.seen > 0
       /\ w.stmt > 1 => HasSlots(matches[w.on])
       /\ w.stmt > 2 => matches[w.on].starters > 0
       /\ w.stmt > 3 => matches[w.on].boots

SInv ==
  /\ Types
  /\ \A m \in Match : Stored(matches[m])
  /\ \A p \in Proc : Written(work[p])

LEMMA SameKeeps ==
  ASSUME NEW row \in Row, NEW new \in Row, SameTimeline(row, new), SameItems(row, new)
  PROVE  KeepsWhatItHas(row, new) /\ (Stored(row) => Stored(new))
BY DEF SameTimeline, SameItems, KeepsWhatItHas, Stored, HasSlots

LEMMA RowNumbers ==
  ASSUME NEW row \in Row
  PROVE  /\ row.itemEvents \in Nat /\ row.skillEvents \in Nat /\ row.starters \in Nat
         /\ row.fetchRetry \in Nat /\ row.timelineRetry \in Nat /\ row.itemsRetry \in Nat
         /\ row.slots \in Seq(1..Builds) /\ Len(row.slots) <= MaxSlots
         /\ row.fetch \in {"absent", "pending", "done", "error"}
         /\ row.timeline \in Status /\ row.items \in Status
         /\ Len(row.participants) \in Nat /\ row.participants \in Seq([Player -> Tier])
<1>1. row.participants \in Seq([Player -> Tier])
  BY DEF Row, RowType
<1>2. Len(row.participants) \in Nat
  BY <1>1, LenProperties
<1> QED
  BY <1>1, <1>2 DEF Row, RowType, Status

LEMMA StatementKeeps ==
  ASSUME NEW row \in Row, NEW new \in Row, NEW k \in {3, 5, 55}, NEW n \in 1..4, NEW seen \in Nat,
         StatementStep(row, new, k, n, seen)
  PROVE  KeepsWhatItHas(row, new)
<1>1. /\ row.itemEvents \in Nat /\ row.skillEvents \in Nat /\ row.starters \in Nat
      /\ row.slots \in Seq(1..Builds) /\ Len(row.slots) <= MaxSlots
  BY RowNumbers
<1>2. CASE k = 3
  BY <1>2, SameKeeps DEF StatementStep, DetailStep
<1>3. CASE k = 5
  <2>1. /\ row.itemEvents > 0 => new.itemEvents > 0
        /\ row.skillEvents > 0 => new.skillEvents > 0
    BY <1>1, <1>3 DEF StatementStep, TimelineStep
  <2>2. row.frames => new.frames
    BY <1>3 DEF StatementStep, TimelineStep
  <2>3. SameItems(row, new)
    BY <1>3 DEF StatementStep, TimelineStep
  <2> QED
    BY <2>1, <2>2, <2>3 DEF KeepsWhatItHas, SameItems
<1>4. CASE k = 55
  <2>1. SameTimeline(row, new) /\ ItemStep(row, new, n, seen)
    BY <1>4 DEF StatementStep, ItemStep
  <2>2. row.starters > 0 => new.starters > 0
    BY <1>1, <2>1 DEF ItemStep
  <2>3. row.boots => new.boots
    BY <2>1 DEF ItemStep
  <2>4. row.slots # <<>> => new.slots # <<>>
    <3>1. row.slots # <<>> => Slotted(row.slots, seen) # <<>>
      BY <1>1, SlottedFacts
    <3>2. new.slots = row.slots \/ new.slots = Slotted(row.slots, seen)
      BY <2>1 DEF ItemStep
    <3> QED
      BY <3>1, <3>2
  <2> QED
    BY <2>1, <2>2, <2>3, <2>4 DEF KeepsWhatItHas, SameTimeline
<1> QED
  BY <1>2, <1>3, <1>4

LEMMA StepKeeps ==
  ASSUME Types, NEW p \in Proc, NEW w, GoodStep(p, w), NEW m \in Match
  PROVE  KeepsWhatItHas(matches[m], matches'[m])
<1>1. /\ matches \in [Match -> Row] /\ work[p] \in WorkType /\ Fits(work[p]) /\ matches' \in [Match -> Row]
  BY TypeFacts DEF GoodStep
<1>2. CASE matches' = matches
  BY <1>2 DEF KeepsWhatItHas
<1>3. ASSUME NEW o \in Match, NEW new, Changes(o, new), KeepsWhatItHas(matches[o], new)
      PROVE  KeepsWhatItHas(matches[m], matches'[m])
  <2>1. CASE m = o
    BY <1>3, <2>1 DEF Changes
  <2>2. CASE m # o
    <3>1. matches'[m] = matches[m]
      BY <1>3, <2>2 DEF Changes
    <3> QED
      BY <3>1 DEF KeepsWhatItHas
  <2> QED
    BY <2>1, <2>2
<1>4. ASSUME NEW o \in Match, CollectsStep(work[p], o)
      PROVE  KeepsWhatItHas(matches[m], matches'[m])
  <2>1. PICK new : Changes(o, new) /\ SameTimeline(matches[o], new) /\ SameItems(matches[o], new)
    BY <1>4 DEF CollectsStep
  <2>2. KeepsWhatItHas(matches[o], new)
    BY <1>1, <2>1, SameKeeps DEF Changes
  <2> QED
    BY <1>3, <2>1, <2>2
<1>5. ASSUME work[p].pc = "write",
             NEW new, Changes(work[p].on, new),
             StatementStep(matches[work[p].on], new, work[p].phase, work[p].stmt, work[p].seen)
      PROVE  KeepsWhatItHas(matches[m], matches'[m])
  <2>1. /\ work[p].on \in Match /\ work[p].phase \in {3, 5, 55} /\ work[p].stmt \in 1..4 /\ work[p].seen \in Nat
    BY <1>1, <1>5 DEF Fits, WorkType
  <2>2. KeepsWhatItHas(matches[work[p].on], new)
    BY <1>1, <1>5, <2>1, StatementKeeps DEF Changes
  <2> QED
    BY <1>3, <1>5, <2>1, <2>2
<1>6. CASE CountsStep(work[p], w)
  <2>1. PICK new : Changes(work[p].on, new) /\ RetryStep(matches[work[p].on], new, work[p].phase)
    BY <1>6 DEF CountsStep
  <2>2. work[p].on \in Match
    BY <1>1, <1>6 DEF Fits, CountsStep
  <2>3. KeepsWhatItHas(matches[work[p].on], new)
    BY <2>1 DEF RetryStep, KeepsWhatItHas
  <2> QED
    BY <1>3, <2>1, <2>2, <2>3
<1>7. CASE TiersStep(work[p], w)
  BY <1>1, <1>7, SameKeeps DEF TiersStep, SameStages
<1> QED
  BY <1>2, <1>4, <1>5, <1>6, <1>7
     DEF GoodStep, Step, RestsStep, LoadsStep, TakesStep, WritesStep, FailsStep

\* Only the last statement of phase 5 or 5.5 marks a row done.
LEMMA StatementStored ==
  ASSUME NEW row \in Row, NEW new \in Row, NEW k \in {3, 5, 55}, NEW n \in 1..4, NEW seen \in Nat,
         StatementStep(row, new, k, n, seen), Stored(row),
         k = 5 /\ n = 4 => row.itemEvents > 0 /\ row.skillEvents > 0 /\ row.frames,
         k = 55 /\ n = 4 => row.starters > 0 /\ row.boots /\ HasSlots(row)
  PROVE  Stored(new)
<1>1. KeepsWhatItHas(row, new)
  BY StatementKeeps
<1>2. CASE k = 3
  BY <1>2, SameKeeps DEF StatementStep, DetailStep
<1>3. CASE k = 5
  <2>1. new.timeline = "done" => row.timeline = "done" \/ n = 4
    BY <1>3 DEF StatementStep, TimelineStep
  <2>2. new.items = row.items
    BY <1>3 DEF StatementStep, TimelineStep, SameItems
  <2>3. new.timeline = "done" => row.itemEvents > 0 /\ row.skillEvents > 0 /\ row.frames
    BY <1>3, <2>1 DEF Stored
  <2> QED
    BY <1>1, <2>2, <2>3 DEF Stored, KeepsWhatItHas, HasSlots
<1>4. CASE k = 55
  <2>1. new.items = "done" => row.items = "done" \/ n = 4
    BY <1>4 DEF StatementStep, ItemStep
  <2>2. new.timeline = row.timeline
    BY <1>4 DEF StatementStep, ItemStep, SameTimeline
  <2>3. new.items = "done" => row.starters > 0 /\ row.boots /\ HasSlots(row)
    BY <1>4, <2>1 DEF Stored
  <2> QED
    BY <1>1, <2>2, <2>3 DEF Stored, KeepsWhatItHas, HasSlots
<1> QED
  BY <1>2, <1>3, <1>4

LEMMA StepKeepsTiers ==
  ASSUME Types, NEW p \in Proc, NEW w, GoodStep(p, w), NEW m \in Match
  PROVE  TiersLast(matches[m], matches'[m])
<1>1. /\ matches \in [Match -> Row] /\ work[p] \in WorkType /\ Fits(work[p]) /\ matches' \in [Match -> Row]
  BY TypeFacts DEF GoodStep
<1>2. CASE matches' = matches
  BY <1>2 DEF TiersLast
<1>3. ASSUME NEW o \in Match, NEW new, Changes(o, new), TiersLast(matches[o], new)
      PROVE  TiersLast(matches[m], matches'[m])
  <2>1. CASE m = o
    BY <1>3, <2>1 DEF Changes
  <2>2. CASE m # o
    <3>1. matches'[m] = matches[m]
      BY <1>3, <2>2 DEF Changes
    <3> QED
      BY <3>1 DEF TiersLast
  <2> QED
    BY <2>1, <2>2
<1>4. ASSUME NEW o \in Match, CollectsStep(work[p], o)
      PROVE  TiersLast(matches[m], matches'[m])
  <2>1. PICK new : Changes(o, new) /\ new.participants = matches[o].participants
    BY <1>4 DEF CollectsStep
  <2> QED
    BY <1>3, <2>1 DEF TiersLast
<1>5. ASSUME work[p].pc = "write",
             NEW new, Changes(work[p].on, new),
             StatementStep(matches[work[p].on], new, work[p].phase, work[p].stmt, work[p].seen)
      PROVE  TiersLast(matches[m], matches'[m])
  <2>1. work[p].on \in Match /\ work[p].phase \in {3, 5, 55}
    BY <1>1, <1>5 DEF Fits
  <2>2. PICK row \in Row : row = matches[work[p].on]
    BY <1>1, <2>1
  <2>3. new.participants = row.participants \/ new.participants = Append(row.participants, ParticipantRows)
    BY <1>5, <2>1, <2>2 DEF StatementStep, DetailStep, TimelineStep, ItemStep
  <2>4. row.participants \in Seq([Player -> Tier])
    BY RowNumbers
  <2>5. \A n \in 1..Len(row.participants) : Append(row.participants, ParticipantRows)[n] = row.participants[n]
    BY <2>4, ParticipantRowsType
  <2>6. TiersLast(row, new)
    BY <2>3, <2>5 DEF TiersLast
  <2> QED
    BY <1>3, <1>5, <2>1, <2>2, <2>6
<1>6. CASE CountsStep(work[p], w)
  <2>1. PICK new : Changes(work[p].on, new) /\ RetryStep(matches[work[p].on], new, work[p].phase)
    BY <1>6 DEF CountsStep
  <2>2. work[p].on \in Match
    BY <1>1, <1>6 DEF Fits, CountsStep
  <2> QED
    BY <1>3, <2>1, <2>2 DEF RetryStep, TiersLast
<1>7. CASE TiersStep(work[p], w)
  BY <1>7 DEF TiersStep
<1> QED
  BY <1>2, <1>4, <1>5, <1>6, <1>7
     DEF GoodStep, Step, RestsStep, LoadsStep, TakesStep, WritesStep, FailsStep

LEMMA StoredNext ==
  ASSUME SInv, NEW p \in Proc, NEW w, GoodStep(p, w), NEW m \in Match
  PROVE  Stored(matches'[m])
<1>1. /\ matches \in [Match -> Row] /\ work[p] \in WorkType /\ Fits(work[p]) /\ matches' \in [Match -> Row]
      /\ Stored(matches[m]) /\ Written(work[p])
  BY TypeFacts DEF GoodStep, SInv
<1>2. CASE matches' = matches
  BY <1>1, <1>2
<1>3. ASSUME NEW o \in Match, NEW new, Changes(o, new), m = o => Stored(new)
      PROVE  Stored(matches'[m])
  <2>1. CASE m = o
    BY <1>3, <2>1 DEF Changes
  <2>2. CASE m # o
    <3>1. matches'[m] = matches[m]
      BY <1>3, <2>2 DEF Changes
    <3> QED
      BY <1>1, <3>1
  <2> QED
    BY <2>1, <2>2
<1>4. ASSUME NEW o \in Match, CollectsStep(work[p], o)
      PROVE  Stored(matches'[m])
  <2>1. PICK new : Changes(o, new) /\ SameTimeline(matches[o], new) /\ SameItems(matches[o], new)
    BY <1>4 DEF CollectsStep
  <2>2. m = o => Stored(new)
    BY <1>1, <2>1, SameKeeps DEF Changes
  <2> QED
    BY <1>3, <2>1, <2>2
<1>5. ASSUME work[p].pc = "write",
             NEW new, Changes(work[p].on, new),
             StatementStep(matches[work[p].on], new, work[p].phase, work[p].stmt, work[p].seen)
      PROVE  Stored(matches'[m])
  <2>1. /\ work[p].on \in Match /\ work[p].phase \in {3, 5, 55} /\ work[p].stmt \in 1..4 /\ work[p].seen \in Nat
    BY <1>1, <1>5 DEF Fits, WorkType
  <2>2. /\ work[p].phase = 5 /\ work[p].stmt = 4 =>
             matches[work[p].on].itemEvents > 0 /\ matches[work[p].on].skillEvents > 0 /\ matches[work[p].on].frames
        /\ work[p].phase = 55 /\ work[p].stmt = 4 =>
             matches[work[p].on].starters > 0 /\ matches[work[p].on].boots /\ HasSlots(matches[work[p].on])
    BY <1>1, <1>5 DEF Written
  <2>3. m = work[p].on => Stored(new)
    BY <1>1, <1>5, <2>1, <2>2, StatementStored DEF Changes
  <2> QED
    BY <1>3, <1>5, <2>1, <2>3
<1>6. CASE CountsStep(work[p], w)
  <2>1. PICK new : Changes(work[p].on, new) /\ RetryStep(matches[work[p].on], new, work[p].phase)
    BY <1>6 DEF CountsStep
  <2>2. work[p].on \in Match
    BY <1>1, <1>6 DEF Fits, CountsStep
  <2>3. m = work[p].on => Stored(new)
    <3>1. /\ new.timeline = matches[work[p].on].timeline \/ new.timeline # "done"
          /\ new.items = matches[work[p].on].items \/ new.items # "done"
      BY <2>1 DEF RetryStep, AfterFailure
    <3> QED
      BY <1>1, <2>1, <3>1 DEF RetryStep, Stored, HasSlots
  <2> QED
    BY <1>3, <2>1, <2>2, <2>3
<1>7. CASE TiersStep(work[p], w)
  BY <1>1, <1>7, SameKeeps DEF TiersStep, SameStages
<1> QED
  BY <1>2, <1>4, <1>5, <1>6, <1>7
     DEF GoodStep, Step, RestsStep, LoadsStep, TakesStep, WritesStep, FailsStep

\* A process that goes on where it was.
LEMMA WrittenLasts ==
  ASSUME SInv, NEW w \in WorkType, Fits(w), Written(w),
         \A m \in Match : KeepsWhatItHas(matches[m], matches'[m])
  PROVE  Written(w)'
BY DEF Written, KeepsWhatItHas, HasSlots, Fits

LEMMA WrittenNext ==
  ASSUME SInv, NEW p \in Proc, NEW w, GoodStep(p, w)
  PROVE  Written(w)'
<1> DEFINE v == work[p]
<1>1. /\ matches \in [Match -> Row] /\ v \in WorkType /\ Fits(v) /\ matches' \in [Match -> Row]
      /\ \A m \in Match : Stored(matches[m])
      /\ Written(v) /\ w \in WorkType /\ Fits(w)
  BY TypeFacts DEF GoodStep, SInv, Step, Becomes
<1>2. \A m \in Match : KeepsWhatItHas(matches[m], matches'[m])
  BY StepKeeps DEF SInv
<1>3. \A m \in v.page \cap Match : v.phase = 55 => matches[m].itemEvents > 0 /\ matches'[m].itemEvents > 0
  BY <1>1, <1>2 DEF Written, KeepsWhatItHas
<1> HIDE DEF v
<1>4. CASE w = v
  BY <1>1, <1>2, <1>4, WrittenLasts
<1>5. ASSUME w.pc # "write", w.page \subseteq v.page, w.phase = v.phase \/ w.page = {}
      PROVE  Written(w)'
  BY <1>3, <1>5 DEF Written
<1>6. CASE RestsStep(v, w)
  BY <1>5, <1>6 DEF RestsStep
<1>7. CASE LoadsStep(v, w)
  <2>1. ASSUME w.phase = 55, NEW m \in w.page \cap Match
        PROVE  matches'[m].itemEvents > 0
    <3>1. m \in Needs(55)
      BY <1>7, <2>1, TodoFacts DEF LoadsStep
    <3>2. matches[m].timeline = "done"
      BY <3>1 DEF Needs, NeedsItems
    <3> QED
      BY <1>1, <1>2, <3>2 DEF Stored, KeepsWhatItHas
  <2> QED
    BY <1>7, <2>1 DEF LoadsStep, Written
<1>8. CASE TakesStep(v, w)
  <2>1. w.page = v.page /\ w.phase = v.phase /\ w.on \in Match /\ w.on \in v.page /\ matches' = matches
        /\ (w.pc = "write" => w.stmt = 1 /\ w.seen = matches[w.on].itemEvents)
    BY <1>8 DEF TakesStep
  <2> QED
    BY <1>3, <2>1 DEF Written
<1>9. CASE WritesStep(v, w)
  <2>1. PICK new : /\ Changes(v.on, new) /\ StatementStep(matches[v.on], new, v.phase, v.stmt, v.seen)
                   /\ v.pc = "write"
    BY <1>9 DEF WritesStep
  <2>2. CASE Dropped(v, w, v.on)
    BY <1>5, <2>2 DEF Dropped
  <2>3. CASE v.stmt < 4 /\ w = [v EXCEPT !.stmt = @ + 1]
    <3>1. w.pc = "write" /\ w.phase = v.phase /\ w.on = v.on /\ w.page = v.page /\ w.seen = v.seen
          /\ w.stmt = v.stmt + 1
      BY <1>1, <2>1, <2>3 DEF WorkType
    <3>2. /\ v.on \in Match /\ matches[v.on] \in Row /\ matches'[v.on] = new /\ v.stmt \in 1..4 /\ v.seen \in Nat
          /\ KeepsWhatItHas(matches[v.on], new)
      BY <1>1, <1>2, <2>1 DEF Fits, Changes, WorkType
    <3>3. /\ matches[v.on].itemEvents \in Nat /\ matches[v.on].skillEvents \in Nat
          /\ matches[v.on].starters \in Nat /\ matches[v.on].slots \in Seq(1..Builds)
          /\ Len(matches[v.on].slots) <= MaxSlots
      BY <3>2, RowNumbers
    <3>4. CASE v.phase = 5
      <4>1. TimelineStep(matches[v.on], new, v.stmt)
        BY <2>1, <3>4 DEF StatementStep
      <4>2. v.stmt = 1 => new.itemEvents > 0
        BY <3>3, <4>1 DEF TimelineStep
      <4>3. v.stmt = 2 => new.skillEvents > 0
        BY <3>3, <4>1 DEF TimelineStep
      <4>4. v.stmt = 3 => new.frames
        BY <4>1 DEF TimelineStep
      <4>5. /\ v.stmt > 1 => new.itemEvents > 0
            /\ v.stmt > 2 => new.skillEvents > 0
            /\ v.stmt > 3 => new.frames
        BY <1>1, <2>1, <3>2, <3>4 DEF Written, KeepsWhatItHas
      <4>6. /\ w.stmt > 1 => new.itemEvents > 0
            /\ w.stmt > 2 => new.skillEvents > 0
            /\ w.stmt > 3 => new.frames
        BY <2>3, <3>1, <3>2, <4>2, <4>3, <4>4, <4>5
      <4> QED
        BY <3>1, <3>2, <3>4, <4>6 DEF Written
    <3>5. CASE v.phase = 55
      <4>1. ItemStep(matches[v.on], new, v.stmt, v.seen) /\ v.seen > 0
        BY <1>1, <2>1, <3>5 DEF StatementStep, Written
      <4>2. v.stmt = 1 => HasSlots(new)
        BY <3>2, <3>3, <4>1, SlottedFacts DEF ItemStep, HasSlots
      <4>3. v.stmt = 2 => new.starters > 0
        BY <3>2, <3>3, <4>1 DEF ItemStep
      <4>4. v.stmt = 3 => new.boots
        BY <4>1 DEF ItemStep
      <4>5. /\ v.stmt > 1 => HasSlots(new)
            /\ v.stmt > 2 => new.starters > 0
            /\ v.stmt > 3 => new.boots
        BY <1>1, <2>1, <3>2, <3>5 DEF Written, KeepsWhatItHas, HasSlots
      <4>6. /\ w.stmt > 1 => HasSlots(new)
            /\ w.stmt > 2 => new.starters > 0
            /\ w.stmt > 3 => new.boots
        BY <2>3, <3>1, <3>2, <4>2, <4>3, <4>4, <4>5
      <4> QED
        BY <1>3, <3>1, <3>2, <3>5, <4>1, <4>6 DEF Written, HasSlots
    <3>6. CASE v.phase \notin {5, 55}
      BY <3>1, <3>6 DEF Written
    <3> QED
      BY <3>4, <3>5, <3>6
  <2> QED
    BY <1>9, <2>2, <2>3 DEF WritesStep
<1>10. CASE FailsStep(v, w)
  <2>1. w.pc = "retry" /\ w.phase = v.phase /\ w.page = v.page
    BY <1>1, <1>10 DEF FailsStep, WorkType
  <2> QED
    BY <1>5, <2>1
<1>11. CASE CountsStep(v, w)
  BY <1>5, <1>11 DEF CountsStep, Dropped
<1>12. CASE TiersStep(v, w)
  BY <1>12 DEF TiersStep, Written
<1> QED
  BY <1>4, <1>6, <1>7, <1>8, <1>9, <1>10, <1>11, <1>12 DEF GoodStep, Step, v

LEMMA SInvStep ==
  ASSUME SInv, NEW p \in Proc, NEW w, GoodStep(p, w)
  PROVE  SInv'
<1>1. Types' /\ \A m \in Match : Stored(matches'[m])
  BY StoredNext, GoodStepKeepsTypes DEF SInv
<1>2. ASSUME NEW o \in Proc
      PROVE  Written(work[o])'
  <2>1. CASE o = p
    <3>1. work'[o] = w /\ Written(w)'
      BY <2>1, WrittenNext DEF GoodStep, Step, Becomes
    <3> QED
      BY <3>1 DEF Written, HasSlots
  <2>2. CASE o # p
    <3>1. work'[o] = work[o] /\ work[o] \in WorkType /\ Fits(work[o]) /\ Written(work[o])
      BY <2>2, TypeFacts DEF GoodStep, Step, Becomes, SInv
    <3>2. \A m \in Match : KeepsWhatItHas(matches[m], matches'[m])
      BY StepKeeps DEF SInv
    <3>3. ASSUME NEW x \in WorkType, x = work[o]
          PROVE  Written(x)'
      BY <3>1, <3>2, <3>3, WrittenLasts
    <3> QED
      BY <3>1, <3>3 DEF Written, HasSlots
  <2> QED
    BY <2>1, <2>2
<1> QED
  BY <1>1, <1>2 DEF SInv, Stored, HasSlots

LEMMA NoRowFacts ==
  /\ NoRow \in Row /\ NoRow.fetch = "absent" /\ NoRow.fetchRetry = 0
  /\ NoRow.timeline = "pending" /\ NoRow.timelineRetry = 0 /\ NoRow.items = "pending" /\ NoRow.itemsRetry = 0
  /\ NoRow.participants = <<>> /\ NoRow.itemEvents = 0 /\ NoRow.skillEvents = 0 /\ NoRow.starters = 0
  /\ NoRow.slots = <<>>
<1>1. <<>> \in Seq([Player -> Tier]) /\ <<>> \in Seq(1..Builds) /\ Len(<<>>) <= MaxSlots
  BY EmptySeq, ConstantTypes
<1>2. NoRow \in RowType
  BY <1>1 DEF NoRow, RowType, Status
<1>3. /\ NoRow.fetch = "absent" /\ NoRow.fetchRetry = 0
      /\ NoRow.timeline = "pending" /\ NoRow.timelineRetry = 0 /\ NoRow.items = "pending" /\ NoRow.itemsRetry = 0
      /\ NoRow.participants = <<>> /\ NoRow.itemEvents = 0 /\ NoRow.skillEvents = 0 /\ NoRow.starters = 0
      /\ NoRow.slots = <<>>
  BY DEF NoRow
<1> QED
  BY <1>1, <1>2, <1>3 DEF Row

LEMMA InitFacts ==
  ASSUME Init
  PROVE  /\ \A m \in Match : matches[m] = NoRow
         /\ \A p \in Proc : work[p] = Idle
         /\ Types
<1>1. /\ matches = [m \in Match |-> NoRow] /\ work = [p \in Proc |-> Idle] /\ ranked \subseteq Player
      /\ checkpoint = 2 /\ faults = 0
  BY DEF Init
<1>2. \A m \in Match : matches[m] = NoRow
  BY <1>1
<1>3. \A p \in Proc : work[p] = Idle
  BY <1>1
<1>4. matches \in [Match -> Row] /\ work \in [Proc -> WorkType] /\ faults \in 0..MaxFaults
  BY <1>1, NoRowFacts, IdleType, ConstantTypes
<1>5. Fits(Idle)
  BY IdleType DEF Fits
<1>6. TypeOK
  BY <1>1, <1>4 DEF TypeOK, Row
<1> QED
  BY <1>2, <1>3, <1>5, <1>6 DEF Types

LEMMA SInvInit == Init => SInv
<1> SUFFICES ASSUME Init
             PROVE  SInv
  OBVIOUS
<1>1. \A m \in Match : Stored(matches[m])
  BY InitFacts, NoRowFacts DEF Stored
<1>2. \A p \in Proc : Written(work[p])
  BY InitFacts, IdleType DEF Written
<1> QED
  BY <1>1, <1>2, InitFacts DEF SInv

LEMMA SInvNext == SInv /\ [Next]_vars => SInv'
<1> SUFFICES ASSUME SInv, [Next]_vars
             PROVE  SInv'
  OBVIOUS
<1>1. ASSUME NEW p \in Proc, Start(p) \/ Work(p) \/ WriteFails(p) \/ StoreFails(p) \/ BreakOff(p)
      PROVE  SInv'
  <2>1. PICK w : GoodStep(p, w)
    BY <1>1, NextStep DEF SInv
  <2> QED
    BY <2>1, SInvStep
<1>2. CASE UNCHANGED vars
  BY <1>2 DEF vars, SInv, Types, TypeOK, Fits, Stored, Written, HasSlots
<1> QED
  BY <1>1, <1>2 DEF Next

LEMMA SInvariance == Spec => []SInv
BY SInvInit, SInvNext, PTL DEF Spec

\* Every variable has its type; a row has at most MaxSlots items per player.
THEOREM TypeCorrect == Spec => []TypeOK
<1>1. SInv => TypeOK
  BY DEF SInv, Types
<1> QED
  BY <1>1, SInvariance, PTL

\* A timeline or an item build that is marked done is there completely, for any
\* number of executions that overlap, fail and are taken up again: the statement
\* that marks it comes last (phase5/phase.go:82, phase55/phase.go:84), and phase
\* 5.5 only sees matches whose timeline is marked done.
THEOREM DoneIsStored == Spec => []DoneMeansStored
<1>1. SInv => DoneMeansStored
  BY DEF SInv, DoneMeansStored, Stored, HasSlots
<1> QED
  BY <1>1, SInvariance, PTL

\* A tier that was written once is not overwritten, by any number of executions
\* (WHERE tier_at_match IS NULL, participants.go:229-257).
THEOREM TiersAreKept == Spec => TierIsKept
<1> DEFINE Kept == \A m \in Match : \A n \in 1..Len(matches[m].participants), q \in Player :
                     LET tier == matches[m].participants[n][q]
                     IN  tier # None => matches'[m].participants[n][q] = tier
<1>1. SInv /\ [Next]_vars => [Kept]_vars
  <2> SUFFICES ASSUME SInv, Next
               PROVE  Kept
    OBVIOUS
  <2>1. PICK p \in Proc : Start(p) \/ Work(p) \/ WriteFails(p) \/ StoreFails(p) \/ BreakOff(p)
    BY DEF Next
  <2>2. PICK w : GoodStep(p, w)
    BY <2>1, NextStep DEF SInv
  <2>3. \A m \in Match : TiersLast(matches[m], matches'[m])
    BY <2>2, StepKeepsTiers DEF SInv
  <2> QED
    BY <2>3 DEF TiersLast
<1> QED
  BY <1>1, SInvariance, PTL DEF Spec, TierIsKept

-----------------------------------------------------------------------------
(* One process: the stages of a match follow each other *)

\* The region lock lets one execution at a time work on a region, which is what
\* OneExecutorPerRegion of CrawlRun says of the legacy crawler.
OneProcess == \A p, q \in Proc : p = q

\* StagesInOrder and RetryBudget for one row; an error is a spent budget.
Ordered(row) ==
  /\ row.timeline # "pending" \/ row.timelineRetry > 0 => row.fetch = "done"
  /\ row.items # "pending" \/ row.itemsRetry > 0 => row.timeline = "done"
  /\ row.fetchRetry <= MaxRetries
  /\ row.fetch = "error" <=> row.fetchRetry = MaxRetries
  /\ row.timelineRetry <= MaxRetries
  /\ row.timeline = "error" => row.timelineRetry = MaxRetries
  /\ row.timeline = "pending" => row.timelineRetry < MaxRetries
  /\ row.itemsRetry <= MaxRetries
  /\ row.items = "error" => row.itemsRetry = MaxRetries
  /\ row.items = "pending" => row.itemsRetry < MaxRetries

\* A row that waits on the page of phase k is as the query of k selected it.
Waits(row, k) ==
  /\ k = 3 => row.fetch = "pending"
  /\ k = 5 => row.fetch = "done" /\ row.timeline = "pending"
  /\ k = 55 => row.fetch = "done" /\ row.timeline = "done" /\ row.items = "pending"

\* The row phase k is working on, before its n-th statement, or before the
\* failure is counted: the later stages have not begun.
Handled(row, k, pc, n) ==
  /\ k = 3 => /\ row.fetch \in {"pending", "done"} /\ row.fetchRetry < MaxRetries
              /\ row.timeline = "pending" /\ row.timelineRetry = 0
              /\ row.items = "pending" /\ row.itemsRetry = 0
              /\ pc = "write" /\ n > 1 => row.fetch = "done"
  /\ k = 5 => /\ row.fetch = "done"
              /\ row.timeline \in {"pending", "done"} /\ row.timelineRetry < MaxRetries
              /\ row.items = "pending" /\ row.itemsRetry = 0
              /\ pc = "write" => row.timeline = "pending"
  /\ k = 55 => /\ row.fetch = "done" /\ row.timeline = "done"
               /\ row.items \in {"pending", "done"} /\ row.itemsRetry < MaxRetries
               /\ pc = "write" => row.items = "pending"

Minds(w) ==
  /\ \A m \in Match : m \in w.page /\ m # w.on => Waits(matches[m], w.phase)
  /\ w.pc \in {"write", "retry"} => Handled(matches[w.on], w.phase, w.pc, w.stmt)

OInv ==
  /\ Types
  /\ \A m \in Match : Ordered(matches[m])
  /\ \A p \in Proc : Minds(work[p])

LEMMA TakenIsHandled ==
  ASSUME NEW row \in Row, NEW k \in {3, 5, 55}, Ordered(row), Waits(row, k), NEW pc
  PROVE  Handled(row, k, pc, 1)
<1>1. /\ row.fetchRetry \in Nat /\ row.timelineRetry \in Nat /\ row.itemsRetry \in Nat
      /\ MaxRetries \in Nat /\ MaxRetries > 0
  BY RowNumbers, ConstantTypes
<1>2. CASE k = 3
  BY <1>1, <1>2 DEF Ordered, Waits, Handled
<1>3. CASE k = 5
  BY <1>1, <1>3 DEF Ordered, Waits, Handled
<1>4. CASE k = 55
  BY <1>1, <1>4 DEF Ordered, Waits, Handled
<1> QED
  BY <1>2, <1>3, <1>4

LEMMA StatementOrdered ==
  ASSUME NEW row \in Row, NEW new \in Row, NEW k \in {3, 5, 55}, NEW n \in 1..4, NEW seen \in Nat,
         Ordered(row), Handled(row, k, "write", n), StatementStep(row, new, k, n, seen)
  PROVE  /\ Ordered(new) /\ \A l \in 0..4 : Handled(new, k, "retry", l)
         /\ n < 4 => Handled(new, k, "write", n + 1)
<1>1. /\ row.fetchRetry \in Nat /\ row.timelineRetry \in Nat /\ row.itemsRetry \in Nat
      /\ MaxRetries \in Nat /\ MaxRetries > 0
  BY RowNumbers, ConstantTypes
<1>2. CASE k = 3
  <2>1. /\ new.timeline = row.timeline /\ new.timelineRetry = row.timelineRetry
        /\ new.items = row.items /\ new.itemsRetry = row.itemsRetry /\ new.fetchRetry = row.fetchRetry
        /\ new.fetch = IF n = 1 THEN "done" ELSE row.fetch
    BY <1>2 DEF StatementStep, DetailStep, SameTimeline, SameItems
  <2>2. new.fetch = "done"
    BY <1>2, <2>1 DEF Handled
  <2> QED
    BY <1>1, <1>2, <2>1, <2>2 DEF Ordered, Handled
<1>3. CASE k = 5
  <2>1. /\ new.fetch = row.fetch /\ new.fetchRetry = row.fetchRetry
        /\ new.items = row.items /\ new.itemsRetry = row.itemsRetry /\ new.timelineRetry = row.timelineRetry
        /\ new.timeline = IF n = 4 THEN "done" ELSE row.timeline
    BY <1>3 DEF StatementStep, TimelineStep, SameFetch, SameItems
  <2> QED
    BY <1>1, <1>3, <2>1 DEF Ordered, Handled
<1>4. CASE k = 55
  <2>1. /\ new.fetch = row.fetch /\ new.fetchRetry = row.fetchRetry
        /\ new.timeline = row.timeline /\ new.timelineRetry = row.timelineRetry /\ new.itemsRetry = row.itemsRetry
        /\ new.items = IF n = 4 THEN "done" ELSE row.items
    BY <1>4 DEF StatementStep, ItemStep, SameFetch, SameTimeline
  <2> QED
    BY <1>1, <1>4, <2>1 DEF Ordered, Handled
<1> QED
  BY <1>2, <1>3, <1>4

LEMMA RetryOrdered ==
  ASSUME NEW row \in Row, NEW new \in Row, NEW k \in {3, 5, 55}, NEW n, Ordered(row),
         Handled(row, k, "retry", n), RetryStep(row, new, k)
  PROVE  Ordered(new)
<1>1. /\ row.fetchRetry \in Nat /\ row.timelineRetry \in Nat /\ row.itemsRetry \in Nat
      /\ MaxRetries \in Nat /\ MaxRetries > 0
  BY RowNumbers, ConstantTypes
<1>2. CASE k = 3
  <2>1. /\ new.timeline = row.timeline /\ new.timelineRetry = row.timelineRetry
        /\ new.items = row.items /\ new.itemsRetry = row.itemsRetry /\ new.fetchRetry = row.fetchRetry + 1
        /\ new.fetch = AfterFailure(row.fetchRetry)
    BY <1>2 DEF RetryStep
  <2> QED
    BY <1>1, <1>2, <2>1 DEF Ordered, Handled, AfterFailure
<1>3. CASE k = 5
  <2>1. /\ new.fetch = row.fetch /\ new.fetchRetry = row.fetchRetry
        /\ new.items = row.items /\ new.itemsRetry = row.itemsRetry /\ new.timelineRetry = row.timelineRetry + 1
        /\ new.timeline = AfterFailure(row.timelineRetry)
    BY <1>3 DEF RetryStep, SameFetch
  <2> QED
    BY <1>1, <1>3, <2>1 DEF Ordered, Handled, AfterFailure
<1>4. CASE k = 55
  <2>1. /\ new.fetch = row.fetch /\ new.fetchRetry = row.fetchRetry
        /\ new.timeline = row.timeline /\ new.timelineRetry = row.timelineRetry
        /\ new.itemsRetry = row.itemsRetry + 1 /\ new.items = AfterFailure(row.itemsRetry)
    BY <1>4 DEF RetryStep, SameFetch
  <2> QED
    BY <1>1, <1>4, <2>1 DEF Ordered, Handled, AfterFailure
<1> QED
  BY <1>2, <1>3, <1>4

\* A match and its row before and after a step that changes the row of o.
LEMMA OtherRows ==
  ASSUME NEW o \in Match, NEW new, Changes(o, new), NEW m \in Match
  PROVE  /\ m = o => matches'[m] = new
         /\ m # o => matches'[m] = matches[m]
BY DEF Changes

LEMMA OrderedNext ==
  ASSUME OInv, NEW p \in Proc, NEW w, GoodStep(p, w), NEW m \in Match
  PROVE  Ordered(matches'[m])
<1>1. /\ matches \in [Match -> Row] /\ work[p] \in WorkType /\ Fits(work[p]) /\ matches' \in [Match -> Row]
      /\ Ordered(matches[m]) /\ Minds(work[p])
  BY TypeFacts DEF GoodStep, OInv
<1>2. CASE matches' = matches
  BY <1>1, <1>2
<1>3. ASSUME NEW o \in Match, NEW new, Changes(o, new), Ordered(new)
      PROVE  Ordered(matches'[m])
  BY <1>1, <1>3, OtherRows
<1>4. ASSUME NEW o \in Match, CollectsStep(work[p], o)
      PROVE  Ordered(matches'[m])
  <2>1. PICK new : /\ Changes(o, new) /\ matches[o].fetch = "absent" /\ new.fetch = "pending"
                   /\ new.fetchRetry = matches[o].fetchRetry
                   /\ SameTimeline(matches[o], new) /\ SameItems(matches[o], new)
    BY <1>4 DEF CollectsStep
  <2>2. PICK row : row = matches[o] /\ Ordered(row)
    BY DEF OInv
  <2>3. Ordered(new)
    <3>1. /\ new.fetch = "pending" /\ row.fetch = "absent" /\ new.fetchRetry = row.fetchRetry
          /\ new.timeline = row.timeline /\ new.timelineRetry = row.timelineRetry
          /\ new.items = row.items /\ new.itemsRetry = row.itemsRetry
      BY <2>1, <2>2 DEF SameTimeline, SameItems
    <3> QED
      BY <2>2, <3>1 DEF Ordered
  <2> QED
    BY <1>3, <2>1, <2>3
<1>5. ASSUME work[p].pc = "write",
             NEW new, Changes(work[p].on, new),
             StatementStep(matches[work[p].on], new, work[p].phase, work[p].stmt, work[p].seen)
      PROVE  Ordered(matches'[m])
  <2>1. /\ work[p].on \in Match /\ work[p].phase \in {3, 5, 55} /\ work[p].stmt \in 1..4 /\ work[p].seen \in Nat
    BY <1>1, <1>5 DEF Fits, WorkType
  <2>2. /\ matches[work[p].on] \in Row /\ new \in Row /\ Ordered(matches[work[p].on])
        /\ Handled(matches[work[p].on], work[p].phase, "write", work[p].stmt)
    BY <1>1, <1>5, <2>1 DEF OInv, Minds, Changes
  <2>3. Ordered(new)
    BY <1>5, <2>1, <2>2, StatementOrdered
  <2> QED
    BY <1>3, <1>5, <2>1, <2>3
<1>6. CASE CountsStep(work[p], w)
  <2>1. PICK new : Changes(work[p].on, new) /\ RetryStep(matches[work[p].on], new, work[p].phase)
    BY <1>6 DEF CountsStep
  <2>2. work[p].on \in Match /\ work[p].phase \in {3, 5, 55} /\ work[p].pc = "retry"
    BY <1>1, <1>6 DEF Fits, CountsStep
  <2>3. /\ matches[work[p].on] \in Row /\ new \in Row /\ Ordered(matches[work[p].on])
        /\ Handled(matches[work[p].on], work[p].phase, "retry", work[p].stmt)
    BY <1>1, <2>1, <2>2 DEF OInv, Minds, Changes
  <2>4. Ordered(new)
    BY <2>1, <2>2, <2>3, RetryOrdered
  <2> QED
    BY <1>3, <2>1, <2>2, <2>4
<1>7. CASE TiersStep(work[p], w)
  <2>1. SameStages(matches[m], matches'[m])
    BY <1>7 DEF TiersStep
  <2> QED
    BY <1>1, <2>1 DEF SameStages, SameFetch, SameTimeline, SameItems, Ordered
<1> QED
  BY <1>2, <1>4, <1>5, <1>6, <1>7
     DEF GoodStep, Step, RestsStep, LoadsStep, TakesStep, WritesStep, FailsStep

\* The rows on the page that the process has not turned to are not touched.
LEMMA MindsNext ==
  ASSUME OInv, NEW p \in Proc, NEW w, GoodStep(p, w)
  PROVE  Minds(w)'
<1> DEFINE v == work[p]
<1>1. /\ matches \in [Match -> Row] /\ v \in WorkType /\ Fits(v) /\ matches' \in [Match -> Row]
      /\ \A m \in Match : Ordered(matches[m])
      /\ Minds(v) /\ w \in WorkType /\ Fits(w) /\ None \notin Match
  BY TypeFacts, ConstantTypes DEF GoodStep, OInv, Step, Becomes
<1> HIDE DEF v
<1>2. CASE v.phase \notin {3, 5, 55} /\ w.phase = v.phase
  BY <1>1, <1>2 DEF Minds, Waits, Fits
<1>3. ASSUME NEW o \in Match, NEW new, Changes(o, new), NEW m \in Match, m # o, m \in v.page, v.on \in {o, None}
      PROVE  Waits(matches'[m], v.phase)
  <2>1. matches'[m] = matches[m] /\ m # v.on
    BY <1>1, <1>3, OtherRows
  <2> QED
    BY <1>1, <1>3, <2>1 DEF Minds
<1>4. ASSUME NEW o \in Match, CollectsStep(v, o), w = v
      PROVE  Minds(w)'
  BY <1>2, <1>4 DEF CollectsStep
<1>5. CASE RestsStep(v, w)
  BY <1>1, <1>5 DEF RestsStep, Minds
<1>6. CASE LoadsStep(v, w)
  <2>1. ASSUME w.phase \in {3, 5, 55}, NEW m \in Match, m \in w.page
        PROVE  Waits(matches'[m], w.phase)
    <3>1. m \in Needs(w.phase) /\ matches' = matches
      BY <1>6, <2>1, TodoFacts DEF LoadsStep
    <3>2. CASE w.phase = 3
      BY <3>1, <3>2 DEF Needs, PendingMatch, Waits
    <3>3. CASE w.phase = 5
      BY <3>1, <3>3 DEF Needs, NeedsTimeline, Waits
    <3>4. CASE w.phase = 55
      BY <3>1, <3>4 DEF Needs, NeedsItems, Waits
    <3> QED
      BY <2>1, <3>2, <3>3, <3>4
  <2> QED
    BY <1>2, <1>6, <2>1 DEF LoadsStep, Minds
<1>7. CASE TakesStep(v, w)
  <2>1. /\ w.page = v.page /\ w.phase = v.phase /\ w.phase \in {3, 5, 55} /\ w.on \in Match /\ w.on \in v.page
        /\ matches' = matches /\ v.on = None /\ w.pc \in {"write", "retry"} /\ (w.pc = "write" => w.stmt = 1)
    BY <1>7 DEF TakesStep
  <2>2. \A m \in Match : m \in w.page => Waits(matches[m], w.phase)
    BY <1>1, <2>1 DEF Minds
  <2>3. Handled(matches[w.on], w.phase, w.pc, 1)
    BY <1>1, <2>1, <2>2, TakenIsHandled
  <2>4. Handled(matches[w.on], w.phase, w.pc, w.stmt)
    BY <2>1, <2>3 DEF Handled
  <2> QED
    BY <2>1, <2>2, <2>4 DEF Minds
<1>8. ASSUME v.pc = "write",
             NEW new, Changes(v.on, new), StatementStep(matches[v.on], new, v.phase, v.stmt, v.seen)
      PROVE  /\ v.on \in Match /\ v.phase \in {3, 5, 55} /\ v.stmt \in 1..4 /\ matches'[v.on] = new
             /\ \A l \in 0..4 : Handled(new, v.phase, "retry", l)
             /\ v.stmt < 4 => Handled(new, v.phase, "write", v.stmt + 1)
  <2>1. v.on \in Match /\ v.phase \in {3, 5, 55} /\ v.stmt \in 1..4 /\ v.seen \in Nat
    BY <1>1, <1>8 DEF Fits, WorkType
  <2>2. /\ matches[v.on] \in Row /\ new \in Row /\ matches'[v.on] = new /\ Ordered(matches[v.on])
        /\ Handled(matches[v.on], v.phase, "write", v.stmt)
    BY <1>1, <1>8, <2>1 DEF Minds, Changes
  <2>3. /\ \A l \in 0..4 : Handled(new, v.phase, "retry", l)
        /\ v.stmt < 4 => Handled(new, v.phase, "write", v.stmt + 1)
    BY <1>8, <2>1, <2>2, StatementOrdered
  <2> QED
    BY <2>1, <2>2, <2>3
<1>9. CASE WritesStep(v, w)
  <2>1. PICK new : /\ Changes(v.on, new) /\ StatementStep(matches[v.on], new, v.phase, v.stmt, v.seen)
                   /\ v.pc = "write"
    BY <1>9 DEF WritesStep
  <2>2. \A m \in Match : m \in v.page /\ m # v.on => Waits(matches'[m], v.phase)
    BY <1>3, <1>8, <2>1
  <2>3. CASE Dropped(v, w, v.on)
    BY <2>2, <2>3 DEF Dropped, Minds
  <2>4. CASE v.stmt < 4 /\ w = [v EXCEPT !.stmt = @ + 1]
    <3>1. w.pc = "write" /\ w.phase = v.phase /\ w.on = v.on /\ w.page = v.page /\ w.stmt = v.stmt + 1
      BY <1>1, <2>1, <2>4 DEF WorkType
    <3>2. Handled(matches'[w.on], w.phase, "write", w.stmt)
      BY <1>8, <2>1, <2>4, <3>1
    <3> QED
      BY <2>2, <3>1, <3>2 DEF Minds
  <2> QED
    BY <1>9, <2>3, <2>4 DEF WritesStep
<1>10. CASE FailsStep(v, w)
  <2>1. /\ w.pc = "retry" /\ w.phase = v.phase /\ w.page = v.page /\ w.on = v.on /\ w.stmt \in 0..4
        /\ v.pc = "write"
    BY <1>1, <1>10 DEF FailsStep, WorkType
  <2>2. CASE matches' = matches
    <3>1. Handled(matches[v.on], v.phase, "retry", w.stmt)
      BY <1>1, <2>1 DEF Minds, Handled
    <3> QED
      BY <1>1, <2>1, <2>2, <3>1 DEF Minds
  <2>3. CASE matches' # matches
    <3>1. PICK new : Changes(v.on, new) /\ StatementStep(matches[v.on], new, v.phase, v.stmt, v.seen)
      BY <1>10, <2>3 DEF FailsStep
    <3>2. \A m \in Match : m \in v.page /\ m # v.on => Waits(matches'[m], v.phase)
      BY <1>3, <1>8, <2>1, <3>1
    <3>3. Handled(matches'[w.on], w.phase, "retry", w.stmt)
      BY <1>8, <2>1, <3>1
    <3> QED
      BY <2>1, <3>2, <3>3 DEF Minds
  <2> QED
    BY <2>2, <2>3
<1>11. CASE CountsStep(v, w)
  <2>1. PICK new : Changes(v.on, new)
    BY <1>11 DEF CountsStep
  <2>2. v.on \in Match
    BY <1>1, <1>11 DEF CountsStep, Fits
  <2>3. \A m \in Match : m \in v.page /\ m # v.on => Waits(matches'[m], v.phase)
    BY <1>3, <2>1, <2>2
  <2> QED
    BY <1>11, <2>3 DEF CountsStep, Dropped, Minds
<1>12. CASE TiersStep(v, w)
  BY <1>2, <1>12 DEF TiersStep
<1> QED
  BY <1>4, <1>5, <1>6, <1>7, <1>9, <1>10, <1>11, <1>12 DEF GoodStep, Step, v

LEMMA OInvStep ==
  ASSUME OneProcess, OInv, NEW p \in Proc, NEW w, GoodStep(p, w)
  PROVE  OInv'
<1>1. Types' /\ \A m \in Match : Ordered(matches'[m])
  BY OrderedNext, GoodStepKeepsTypes DEF OInv
<1>2. ASSUME NEW o \in Proc
      PROVE  Minds(work[o])'
  <2>1. o = p
    BY DEF OneProcess
  <2>2. work'[o] = w /\ Minds(w)'
    BY <2>1, MindsNext DEF GoodStep, Step, Becomes
  <2> QED
    BY <2>2 DEF Minds
<1> QED
  BY <1>1, <1>2 DEF OInv, Ordered

LEMMA OInvInit == Init => OInv
<1> SUFFICES ASSUME Init
             PROVE  OInv
  OBVIOUS
<1>1. \A m \in Match : Ordered(matches[m])
  BY InitFacts, NoRowFacts, ConstantTypes DEF Ordered
<1>2. \A p \in Proc : Minds(work[p])
  BY InitFacts, IdleType DEF Minds
<1> QED
  BY <1>1, <1>2, InitFacts DEF OInv

LEMMA OInvNext ==
  ASSUME OneProcess
  PROVE  OInv /\ [Next]_vars => OInv'
<1> SUFFICES ASSUME OInv, [Next]_vars
             PROVE  OInv'
  OBVIOUS
<1>1. ASSUME NEW p \in Proc, Start(p) \/ Work(p) \/ WriteFails(p) \/ StoreFails(p) \/ BreakOff(p)
      PROVE  OInv'
  <2>1. PICK w : GoodStep(p, w)
    BY <1>1, NextStep DEF OInv
  <2> QED
    BY <2>1, OInvStep
<1>2. CASE UNCHANGED vars
  BY <1>2 DEF vars, OInv, Types, TypeOK, Fits, Ordered, Minds
<1> QED
  BY <1>1, <1>2 DEF Next

LEMMA OInvariance ==
  ASSUME OneProcess
  PROVE  Spec => []OInv
BY OInvInit, OInvNext, PTL DEF Spec

\* With one execution at a time the stages of a match follow each other, whatever
\* fails and wherever the run is taken up: the queries of phases 5 and 5.5 ask for
\* the stage before (timeline.go:49, items.go:128), and nobody changes a row
\* between the query and the statements (two activities of the Temporal worker
\* would: one counts a failure of a match the other has just finished).
THEOREM StagesFollowEachOther ==
  ASSUME OneProcess
  PROVE  Spec => []StagesInOrder
<1>1. OInv => StagesInOrder
  BY DEF OInv, StagesInOrder, Ordered
<1> QED
  BY <1>1, OInvariance, PTL

\* With one execution at a time a match is given up after exactly MaxRetries
\* failures of a stage, over all executions (the retry table of
\* docs/crawler-usage.md).
THEOREM RetriesAreBounded ==
  ASSUME OneProcess
  PROVE  Spec => []RetryBudget
<1>1. OInv => RetryBudget
  <2> SUFFICES ASSUME OInv, NEW row \in Row, Ordered(row)
               PROVE  /\ {row.fetchRetry, row.timelineRetry, row.itemsRetry} \subseteq 0..MaxRetries
                      /\ row.fetch = "error" <=> row.fetchRetry = MaxRetries /\ row.fetch # "done"
                      /\ row.timeline = "error" => row.timelineRetry = MaxRetries
                      /\ row.items = "error" => row.itemsRetry = MaxRetries
                      /\ row.timeline = "pending" => row.timelineRetry < MaxRetries
                      /\ row.items = "pending" => row.itemsRetry < MaxRetries
    BY DEF OInv, Types, TypeOK, Row, RetryBudget
  <2>1. /\ row.fetchRetry \in Nat /\ row.timelineRetry \in Nat /\ row.itemsRetry \in Nat /\ MaxRetries \in Nat
    BY RowNumbers, ConstantTypes
  <2>2. {row.fetchRetry, row.timelineRetry, row.itemsRetry} \subseteq 0..MaxRetries
    BY <2>1 DEF Ordered
  <2> QED
    BY <2>2 DEF Ordered
<1> QED
  BY <1>1, OInvariance, PTL

-----------------------------------------------------------------------------
(* One process: as long as nothing but the API fails, rows are written once *)

\* The rows that belong to a match are there at most once.
Once(row) ==
  /\ Len(row.participants) <= 1 /\ row.itemEvents <= 1 /\ row.skillEvents <= 1
  /\ row.starters <= 1 /\ InOrder(row.slots)

\* Before a stage is done, and unless its phase (k) is at it, it has left nothing.
Untouched(row, k) ==
  /\ row.fetch \in {"absent", "pending", "error"} /\ k # 3 => Len(row.participants) = 0
  /\ row.timeline # "done" /\ k # 5 => row.itemEvents = 0 /\ row.skillEvents = 0
  /\ row.items # "done" /\ k # 55 => row.slots = <<>> /\ row.starters = 0

\* The phase that has the match m in hand.
HandOf(w, m) == IF w.pc \in {"write", "retry"} /\ w.on = m THEN w.phase ELSE 2

\* The row in hand before the n-th statement: the statements to come have left
\* nothing yet; a failed call (without a fault, of the API) leaves nothing at all.
Fresh(row, k, pc, n, seen) ==
  /\ k = 3 /\ (pc = "retry" \/ n <= 2) => Len(row.participants) = 0
  /\ k = 5 /\ (pc = "retry" \/ n <= 1) => row.itemEvents = 0
  /\ k = 5 /\ (pc = "retry" \/ n <= 2) => row.skillEvents = 0
  /\ k = 55 /\ pc = "write" => seen = 1
  /\ k = 55 /\ (pc = "retry" \/ n <= 1) => row.slots = <<>>
  /\ k = 55 /\ (pc = "retry" \/ n <= 2) => row.starters = 0

Undoubled(w) ==
  /\ \A m \in Match : Untouched(matches[m], HandOf(w, m))
  /\ w.pc \in {"write", "retry"} => Fresh(matches[w.on], w.phase, w.pc, w.stmt, w.seen)

HInv ==
  /\ SInv /\ OInv
  /\ faults = 0 => /\ \A m \in Match : Once(matches[m])
                   /\ \A p \in Proc : Undoubled(work[p])

LEMMA StatementOnce ==
  ASSUME NEW row \in Row, NEW new \in Row, NEW k \in {3, 5, 55}, NEW n \in 1..4, NEW seen \in Nat,
         Once(row), Untouched(row, k), Fresh(row, k, "write", n, seen), Handled(row, k, "write", n),
         StatementStep(row, new, k, n, seen)
  PROVE  /\ Once(new) /\ Untouched(new, k)
         /\ n < 4 => Fresh(new, k, "write", n + 1, seen)
         /\ n = 4 => Untouched(new, 2)
<1>1. /\ row.itemEvents \in Nat /\ row.skillEvents \in Nat /\ row.starters \in Nat
      /\ row.participants \in Seq([Player -> Tier]) /\ Len(row.participants) \in Nat
  BY RowNumbers
<1>2. CASE k = 3
  <2>1. /\ SameTimeline(row, new) /\ SameItems(row, new)
        /\ new.fetch = IF n = 1 THEN "done" ELSE row.fetch
        /\ new.participants = IF n = 2 THEN Append(row.participants, ParticipantRows) ELSE row.participants
    BY <1>2 DEF StatementStep, DetailStep
  <2>2. new.fetch = "done"
    BY <1>2, <2>1 DEF Handled
  <2>3. n <= 2 => Len(row.participants) = 0
    BY <1>2 DEF Fresh
  <2>4. Len(Append(row.participants, ParticipantRows)) = Len(row.participants) + 1
    BY <1>1, ParticipantRowsType
  <2>5. Len(new.participants) <= 1 /\ (n = 1 => Len(new.participants) = 0)
    <3>1. CASE n = 2
      BY <1>1, <2>1, <2>3, <2>4, <3>1
    <3>2. CASE n # 2
      BY <1>1, <2>1, <2>3, <3>2 DEF Once
    <3> QED
      BY <3>1, <3>2
  <2>6. Once(new)
    BY <2>1, <2>5 DEF Once, SameTimeline, SameItems
  <2>7. Untouched(new, 3) /\ Untouched(new, 2)
    BY <1>2, <2>1, <2>2 DEF Untouched, SameTimeline, SameItems
  <2>8. n < 4 => Fresh(new, k, "write", n + 1, seen)
    BY <1>2, <2>5 DEF Fresh
  <2> QED
    BY <1>2, <2>6, <2>7, <2>8
<1>3. CASE k = 5
  <2>1. /\ SameFetch(row, new) /\ SameItems(row, new) /\ new.participants = row.participants
        /\ new.timeline = IF n = 4 THEN "done" ELSE row.timeline
        /\ new.itemEvents = IF n = 1 THEN row.itemEvents + 1 ELSE row.itemEvents
        /\ new.skillEvents = IF n = 2 THEN row.skillEvents + 1 ELSE row.skillEvents
    BY <1>3 DEF StatementStep, TimelineStep
  <2>2. (n <= 1 => row.itemEvents = 0) /\ (n <= 2 => row.skillEvents = 0)
    BY <1>3 DEF Fresh
  <2>3. new.itemEvents <= 1 /\ new.skillEvents <= 1 /\ (n <= 1 => new.skillEvents = 0)
    BY <1>1, <2>1, <2>2 DEF Once
  <2>4. Once(new)
    BY <2>1, <2>3 DEF Once, SameItems
  <2>5. Untouched(new, 5) /\ (n = 4 => Untouched(new, 2))
    BY <1>3, <2>1 DEF Untouched, SameFetch, SameItems
  <2>6. n < 4 => Fresh(new, k, "write", n + 1, seen)
    BY <1>3, <2>3 DEF Fresh
  <2> QED
    BY <1>3, <2>4, <2>5, <2>6
<1>4. CASE k = 55
  <2>1. /\ SameFetch(row, new) /\ SameTimeline(row, new) /\ new.participants = row.participants
        /\ new.items = IF n = 4 THEN "done" ELSE row.items
        /\ new.slots = IF n = 1 THEN Slotted(row.slots, seen) ELSE row.slots
        /\ new.starters = IF n = 2 THEN row.starters + seen ELSE row.starters
    BY <1>4 DEF StatementStep, ItemStep
  <2>2. seen = 1 /\ (n <= 1 => row.slots = <<>>) /\ (n <= 2 => row.starters = 0)
    BY <1>4 DEF Fresh
  <2>3. new.starters <= 1 /\ (n <= 1 => new.starters = 0)
    BY <1>1, <2>1, <2>2 DEF Once
  <2>4. InOrder(new.slots)
    <3>1. CASE n = 1
      BY <2>1, <2>2, <3>1, SlottedOnce
    <3>2. CASE n # 1
      BY <2>1, <3>2 DEF Once
    <3> QED
      BY <3>1, <3>2
  <2>5. Once(new)
    BY <2>1, <2>3, <2>4 DEF Once, SameTimeline
  <2>6. Untouched(new, 55) /\ (n = 4 => Untouched(new, 2))
    BY <1>4, <2>1 DEF Untouched, SameFetch, SameTimeline
  <2>7. n < 4 => Fresh(new, k, "write", n + 1, seen)
    BY <1>4, <2>2, <2>3 DEF Fresh
  <2> QED
    BY <1>4, <2>5, <2>6, <2>7
<1> QED
  BY <1>2, <1>3, <1>4

LEMMA RetryOnce ==
  ASSUME NEW row \in Row, NEW new \in Row, NEW k \in {3, 5, 55}, NEW n, NEW seen,
         Once(row), Untouched(row, k), Fresh(row, k, "retry", n, seen), RetryStep(row, new, k)
  PROVE  Once(new) /\ Untouched(new, 2)
<1>1. /\ new.participants = row.participants
      /\ new.itemEvents = row.itemEvents /\ new.skillEvents = row.skillEvents
      /\ new.slots = row.slots /\ new.starters = row.starters
      /\ k # 3 => new.fetch = row.fetch
      /\ k # 5 => new.timeline = row.timeline
      /\ k # 55 => new.items = row.items
  BY DEF RetryStep, SameFetch
<1>2. Once(new)
  BY <1>1 DEF Once
<1>3. /\ k = 3 => Len(new.participants) = 0
      /\ k = 5 => new.itemEvents = 0 /\ new.skillEvents = 0
      /\ k = 55 => new.slots = <<>> /\ new.starters = 0
  BY <1>1 DEF Fresh
<1>4. /\ k # 3 /\ row.fetch \in {"absent", "pending", "error"} => Len(new.participants) = 0
      /\ k # 5 /\ row.timeline # "done" => new.itemEvents = 0 /\ new.skillEvents = 0
      /\ k # 55 /\ row.items # "done" => new.slots = <<>> /\ new.starters = 0
  BY <1>1 DEF Untouched
<1> QED
  BY <1>1, <1>2, <1>3, <1>4 DEF Untouched

LEMMA TakenIsFresh ==
  ASSUME NEW row \in Row, NEW k \in {3, 5, 55}, NEW pc, NEW seen, Waits(row, k), Untouched(row, 2), Once(row),
         pc = "write" => seen = row.itemEvents, k = 55 => row.itemEvents > 0
  PROVE  Fresh(row, k, pc, 1, seen) /\ Untouched(row, k)
<1>1. row.itemEvents \in Nat
  BY RowNumbers
<1>2. CASE k = 3
  BY <1>2 DEF Waits, Untouched, Fresh
<1>3. CASE k = 5
  BY <1>3 DEF Waits, Untouched, Fresh
<1>4. CASE k = 55
  BY <1>1, <1>4 DEF Waits, Untouched, Fresh, Once
<1> QED
  BY <1>2, <1>3, <1>4

LEMMA SameOnce ==
  ASSUME NEW row, NEW new, SameStages(row, new), Once(row), NEW k, Untouched(row, k)
  PROVE  Once(new) /\ Untouched(new, k)
BY DEF SameStages, SameFetch, SameTimeline, SameItems, Once, Untouched

LEMMA UndoubledNext ==
  ASSUME HInv, NEW p \in Proc, NEW w, GoodStep(p, w), faults' = 0
  PROVE  /\ \A m \in Match : Once(matches'[m])
         /\ Undoubled(w)'
<1> DEFINE v == work[p]
           Good == /\ \A m \in Match : Once(matches'[m]) /\ Untouched(matches'[m], HandOf(w, m))
                   /\ w.pc \in {"write", "retry"} =>
                        Fresh(matches'[w.on], w.phase, w.pc, w.stmt, w.seen)
<1>1. /\ matches \in [Match -> Row] /\ v \in WorkType /\ Fits(v) /\ matches' \in [Match -> Row]
      /\ w \in WorkType /\ Fits(w) /\ None \notin Match /\ faults = 0
  BY TypeFacts, ConstantTypes DEF GoodStep, HInv, OInv, Step, Becomes
<1>2. /\ \A m \in Match : Once(matches[m]) /\ Ordered(matches[m])
      /\ Undoubled(v) /\ Minds(v) /\ Written(v)
  BY <1>1 DEF HInv, SInv, OInv
<1>3. SUFFICES Good
  BY DEF Undoubled, HandOf
<1> HIDE DEF v
<1>4. ASSUME v.pc \notin {"write", "retry"}, NEW m \in Match
      PROVE  Once(matches[m]) /\ Untouched(matches[m], 2)
  BY <1>2, <1>4 DEF Undoubled, HandOf
<1>5. ASSUME v.on \in Match, w.on \in {v.on, None}, NEW new, Changes(v.on, new),
             Once(new), Untouched(new, HandOf(w, v.on)),
             w.pc \in {"write", "retry"} => w.on = v.on /\ Fresh(new, w.phase, w.pc, w.stmt, w.seen)
      PROVE  Good
  <2>1. ASSUME NEW m \in Match, m # v.on
        PROVE  Once(matches'[m]) /\ Untouched(matches'[m], HandOf(w, m))
    <3>1. matches'[m] = matches[m]
      BY <1>5, <2>1, OtherRows
    <3>2. HandOf(v, m) = 2 /\ HandOf(w, m) = 2
      BY <1>1, <1>5, <2>1 DEF HandOf
    <3> QED
      BY <1>2, <3>1, <3>2 DEF Undoubled
  <2>2. matches'[v.on] = new
    BY <1>5, OtherRows
  <2> QED
    BY <1>5, <2>1, <2>2
<1>6. ASSUME v.pc \notin {"write", "retry"}, w.pc \notin {"write", "retry"},
             \A m \in Match : SameStages(matches[m], matches'[m])
      PROVE  Good
  BY <1>4, <1>6, SameOnce DEF HandOf
<1>7. ASSUME NEW o \in Match, CollectsStep(v, o), w = v
      PROVE  Good
  <2>1. PICK new : /\ Changes(o, new) /\ matches[o].fetch = "absent" /\ new.fetch = "pending"
                   /\ new.participants = matches[o].participants
                   /\ SameTimeline(matches[o], new) /\ SameItems(matches[o], new)
    BY <1>7 DEF CollectsStep
  <2>2. v.pc \notin {"write", "retry"} /\ w.pc \notin {"write", "retry"}
    BY <1>1, <1>7 DEF CollectsStep, Fits
  <2>3. PICK row : row = matches[o]
    OBVIOUS
  <2>4. Once(row) /\ Untouched(row, 2)
    BY <1>4, <2>2, <2>3
  <2>5. Once(new) /\ Untouched(new, 2)
    <3>1. /\ row.fetch = "absent" /\ new.fetch = "pending" /\ new.participants = row.participants
          /\ new.timeline = row.timeline /\ new.itemEvents = row.itemEvents /\ new.skillEvents = row.skillEvents
          /\ new.items = row.items /\ new.slots = row.slots /\ new.starters = row.starters
      BY <2>1, <2>3 DEF SameTimeline, SameItems
    <3> QED
      BY <2>4, <3>1 DEF Once, Untouched
  <2>6. \A m \in Match : Once(matches'[m]) /\ Untouched(matches'[m], 2)
    BY <1>4, <2>1, <2>2, <2>5, OtherRows
  <2> QED
    BY <2>2, <2>6 DEF HandOf
<1>8. CASE matches' = matches /\ v.pc \notin {"write", "retry"} /\ w.pc \notin {"write", "retry"}
  BY <1>6, <1>8, StayFacts
<1>9. CASE RestsStep(v, w)
  BY <1>8, <1>9 DEF RestsStep
<1>10. CASE LoadsStep(v, w)
  BY <1>8, <1>10 DEF LoadsStep
<1>11. CASE TakesStep(v, w)
  <2>1. /\ w.page = v.page /\ w.phase = v.phase /\ w.phase \in {3, 5, 55} /\ w.on \in Match /\ w.on \in v.page
        /\ matches' = matches /\ v.on = None /\ v.pc = "each" /\ w.pc \in {"write", "retry"}
        /\ (w.pc = "write" => w.stmt = 1 /\ w.seen = matches[w.on].itemEvents)
    BY <1>11 DEF TakesStep
  <2>2. PICK row \in Row : row = matches[w.on]
    BY <1>1, <2>1
  <2>3. Once(row) /\ Untouched(row, 2)
    BY <1>4, <2>1, <2>2
  <2>4. Waits(row, w.phase)
    BY <1>1, <1>2, <2>1, <2>2 DEF Minds
  <2>5. w.phase = 55 => row.itemEvents > 0
    BY <1>2, <2>1, <2>2 DEF Written
  <2>6. Fresh(row, w.phase, w.pc, 1, w.seen) /\ Untouched(row, w.phase)
    BY <2>1, <2>2, <2>3, <2>4, <2>5, TakenIsFresh
  <2>7. Fresh(row, w.phase, w.pc, w.stmt, w.seen)
    BY <2>1, <2>6 DEF Fresh
  <2>8. ASSUME NEW m \in Match
        PROVE  Untouched(matches[m], HandOf(w, m))
    <3>1. CASE m = w.on
      BY <2>1, <2>2, <2>6, <3>1 DEF HandOf
    <3>2. CASE m # w.on
      BY <1>4, <2>1, <3>2 DEF HandOf
    <3> QED
      BY <3>1, <3>2
  <2> QED
    BY <1>2, <2>1, <2>2, <2>7, <2>8
<1>12. CASE WritesStep(v, w)
  <2>1. PICK new : /\ Changes(v.on, new) /\ StatementStep(matches[v.on], new, v.phase, v.stmt, v.seen)
                   /\ v.pc = "write"
    BY <1>12 DEF WritesStep
  <2>2. v.on \in Match /\ v.phase \in {3, 5, 55} /\ v.stmt \in 1..4 /\ v.seen \in Nat /\ HandOf(v, v.on) = v.phase
    BY <1>1, <2>1 DEF Fits, WorkType, HandOf
  <2>3. PICK row \in Row : row = matches[v.on]
    BY <1>1, <2>2
  <2>4. /\ new \in Row /\ Once(row) /\ Untouched(row, v.phase) /\ Handled(row, v.phase, "write", v.stmt)
        /\ Fresh(row, v.phase, "write", v.stmt, v.seen)
    BY <1>2, <2>1, <2>2, <2>3 DEF Undoubled, Minds, Changes
  <2>5. /\ Once(new) /\ Untouched(new, v.phase)
        /\ v.stmt < 4 => Fresh(new, v.phase, "write", v.stmt + 1, v.seen)
        /\ v.stmt = 4 => Untouched(new, 2)
    BY <2>1, <2>2, <2>3, <2>4, StatementOnce
  <2>6. CASE v.stmt = 4 /\ Dropped(v, w, v.on)
    <3>1. w.on = None /\ w.pc \notin {"write", "retry"} /\ HandOf(w, v.on) = 2
      BY <2>6 DEF Dropped, HandOf
    <3> QED
      BY <1>5, <2>1, <2>2, <2>5, <2>6, <3>1
  <2>7. CASE v.stmt < 4 /\ w = [v EXCEPT !.stmt = @ + 1]
    <3>1. w.pc = "write" /\ w.phase = v.phase /\ w.on = v.on /\ w.stmt = v.stmt + 1 /\ w.seen = v.seen
      BY <1>1, <2>1, <2>7 DEF WorkType
    <3>2. HandOf(w, v.on) = v.phase
      BY <3>1 DEF HandOf
    <3> QED
      BY <1>5, <2>1, <2>2, <2>5, <2>7, <3>1, <3>2
  <2> QED
    BY <1>12, <2>6, <2>7 DEF WritesStep
<1>13. CASE FailsStep(v, w)
  BY <1>13 DEF FailsStep
<1>14. CASE CountsStep(v, w)
  <2>1. PICK new : Changes(v.on, new) /\ RetryStep(matches[v.on], new, v.phase)
    BY <1>14 DEF CountsStep
  <2>2. /\ v.on \in Match /\ v.phase \in {3, 5, 55} /\ HandOf(v, v.on) = v.phase /\ v.pc = "retry"
        /\ w.on = None /\ w.pc \notin {"write", "retry"} /\ HandOf(w, v.on) = 2
    BY <1>1, <1>14 DEF Fits, HandOf, CountsStep, Dropped
  <2>3. PICK row \in Row : row = matches[v.on]
    BY <1>1, <2>2
  <2>4. /\ new \in Row /\ Once(row) /\ Untouched(row, v.phase) /\ Fresh(row, v.phase, "retry", v.stmt, v.seen)
    BY <1>2, <2>1, <2>2, <2>3 DEF Undoubled, Changes
  <2>5. Once(new) /\ Untouched(new, 2)
    BY <2>1, <2>2, <2>3, <2>4, RetryOnce
  <2> QED
    BY <1>5, <2>1, <2>2, <2>5
<1>15. CASE TiersStep(v, w)
  <2>1. v.pc \notin {"write", "retry"}
    BY <1>1, <1>15 DEF TiersStep, Fits
  <2> QED
    BY <1>6, <1>15, <2>1 DEF TiersStep
<1> HIDE DEF Good
<1> QED
  BY <1>7, <1>9, <1>10, <1>11, <1>12, <1>13, <1>14, <1>15, <1>1 DEF GoodStep, Step, v

LEMMA HInvStep ==
  ASSUME OneProcess, HInv, NEW p \in Proc, NEW w, GoodStep(p, w)
  PROVE  HInv'
<1>1. SInv' /\ OInv'
  BY SInvStep, OInvStep DEF HInv
<1>2. ASSUME faults' = 0, NEW o \in Proc
      PROVE  Undoubled(work[o])'
  <2>1. o = p
    BY DEF OneProcess
  <2>2. work'[o] = w /\ Undoubled(w)'
    BY <1>2, <2>1, UndoubledNext DEF GoodStep, Step, Becomes
  <2> QED
    BY <2>2 DEF Undoubled, HandOf
<1>3. faults' = 0 => \A m \in Match : Once(matches'[m])
  BY UndoubledNext
<1> QED
  BY <1>1, <1>2, <1>3 DEF HInv, Once, InOrder

LEMMA HInvInit == Init => HInv
<1> SUFFICES ASSUME Init
             PROVE  HInv
  OBVIOUS
<1>1. Len(<<>>) = 0 /\ InOrder(<<>>)
  BY DEF InOrder
<1>2. \A m \in Match : Once(matches[m])
  BY <1>1, InitFacts, NoRowFacts DEF Once
<1>3. \A p \in Proc : Undoubled(work[p])
  BY <1>1, InitFacts, NoRowFacts, IdleType DEF Undoubled, Untouched
<1> QED
  BY <1>2, <1>3, SInvInit, OInvInit DEF HInv

LEMMA HInvNext ==
  ASSUME OneProcess
  PROVE  HInv /\ [Next]_vars => HInv'
<1> SUFFICES ASSUME HInv, [Next]_vars
             PROVE  HInv'
  OBVIOUS
<1>1. ASSUME NEW p \in Proc, Start(p) \/ Work(p) \/ WriteFails(p) \/ StoreFails(p) \/ BreakOff(p)
      PROVE  HInv'
  <2>1. PICK w : GoodStep(p, w)
    BY <1>1, NextStep DEF HInv, SInv
  <2> QED
    BY <2>1, HInvStep
<1>2. CASE UNCHANGED vars
  <2>1. SInv' /\ OInv'
    BY <1>2, SInvNext, OInvNext DEF HInv
  <2> QED
    BY <1>2, <2>1 DEF vars, HInv, Undoubled, HandOf, Once, InOrder
<1> QED
  BY <1>1, <1>2 DEF Next

\* The API alone does no harm: with one execution at a time, and as long as no
\* statement fails and no execution breaks off, every row of a match is written
\* once and the slots hold the items in the order they were bought, however often
\* calls fail and are retried.
THEOREM ApiFailuresDoNoHarm ==
  ASSUME OneProcess
  PROVE  Spec => []ApiFailuresAreHarmless
<1>1. Spec => []HInv
  BY HInvInit, HInvNext, PTL DEF Spec
<1>2. HInv => ApiFailuresAreHarmless
  <2> SUFFICES ASSUME HInv, faults = 0, NEW m \in Match
               PROVE  /\ Len(matches[m].participants) <= 1
                      /\ {matches[m].itemEvents, matches[m].skillEvents, matches[m].starters} \subseteq 0..1
                      /\ InOrder(matches[m].slots)
    BY DEF ApiFailuresAreHarmless
  <2>1. Once(matches[m]) /\ matches[m] \in Row
    BY DEF HInv, SInv, Types, TypeOK, Row
  <2>2. /\ matches[m].itemEvents \in Nat /\ matches[m].skillEvents \in Nat /\ matches[m].starters \in Nat
    BY <2>1, RowNumbers
  <2> QED
    BY <2>1, <2>2 DEF Once
<1> QED
  BY <1>1, <1>2, PTL
=============================================================================
