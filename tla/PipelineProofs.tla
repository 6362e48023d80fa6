--------------------------- MODULE PipelineProofs ---------------------------
(***************************************************************************)
(* Proofs about the pipeline, for every size of its two buffers:            *)
(*   - the slots of st_block_buffer: the segment in execution runs on the   *)
(*     counters of its own motion (CountersMatch), by SlotsAgree;           *)
(*   - the types, for which the planner's passes are shown to be functions; *)
(*   - planner, generator and interrupt together implement a queue of       *)
(*     motions (MotionsInOrder), by QueueAgrees;                            *)
(*   - what planner_recalculate makes of the entry speeds, and where        *)
(*     block_buffer_planned points (PlannedInQueue).                        *)
(***************************************************************************)
EXTENDS Pipeline, SumProofs, SequenceTheorems, FiniteSetTheorems

\* What the argument needs to know of the types.  The records are not typed
\* further: what block speeds are does not matter to the slots.
PrepFields == {"loaded", "recalculate", "decel_override", "index", "speed",
               "exit", "complete", "decelerate"}

PrepTyped(p) ==
  /\ DOMAIN p = PrepFields
  /\ p = [field \in DOMAIN p |-> p[field]]
  /\ p.loaded \in BOOLEAN /\ p.recalculate \in BOOLEAN
  /\ p.index \in Slots

SlotTypes ==
  /\ segs \in Seq([slot : Slots, steps : Int])
  /\ Len(segs) < SEGMENT_BUFFER_SIZE
  /\ exec_block_index \in Slots
  /\ PrepTyped(prep)
  /\ DOMAIN st_block_buffer = Slots
  /\ st_block_buffer = [slot \in DOMAIN st_block_buffer |-> st_block_buffer[slot]]

SlotInv == SlotTypes /\ SlotsAgree

-----------------------------------------------------------------------------
\* Slots.

\* The next slot, without the remainder.
LEMMA NextSlot ==
  ASSUME NEW j \in Slots
  PROVE  /\ st_next_block_index(j) \in Slots
         /\ st_next_block_index(j)
              = IF j = SEGMENT_BUFFER_SIZE - 2 THEN 0 ELSE j + 1
  BY SegmentAssumption DEF Slots, st_next_block_index

\* The slots between two slots, at most all but one.
LEMMA SlotsBetween ==
  ASSUME NEW i \in Slots, NEW j \in Slots
  PROVE  /\ SlotsFrom(i, j) \in Nat
         /\ SlotsFrom(i, j) <= SEGMENT_BUFFER_SIZE - 2
         /\ SlotsFrom(i, j) = 0 <=> i = j
  BY SegmentAssumption DEF Slots, SlotsFrom

\* Giving out the next slot adds one to the slots between, and takes slot i
\* again only after all the others.
LEMMA SlotsAdvance ==
  ASSUME NEW i \in Slots, NEW j \in Slots
  PROVE  /\ SlotsFrom(i, st_next_block_index(j)) <= SlotsFrom(i, j) + 1
         /\ SlotsFrom(i, j) < SEGMENT_BUFFER_SIZE - 2
              => st_next_block_index(j) # i
  BY NextSlot, SegmentAssumption DEF Slots, SlotsFrom

-----------------------------------------------------------------------------
\* Steps that leave slots and segments alone, or empty both.

\* A generator that is only told to load its block again keeps its slot.
LEMMA UnloadedSlot ==
  ASSUME PrepTyped(prep), prep' = Unloaded
  PROVE  /\ PrepTyped(prep)'
         /\ prep'.index = prep.index
         /\ InProgress' <=> InProgress
  BY DEF PrepTyped, PrepFields, Unloaded, InProgress

\* Planning, overrides, holds, starts and stops.
LEMMA SlotsUntouched ==
  ASSUME SlotInv, prep' = prep \/ prep' = Unloaded,
         UNCHANGED <<segs, st_block_buffer, executing, exec_block_index, counters>>
  PROVE  SlotInv'
PROOF
  <1>1. /\ PrepTyped(prep)'
        /\ prep'.index = prep.index
        /\ InProgress' <=> InProgress
    <2>1. CASE prep' = prep
      BY <2>1 DEF SlotInv, SlotTypes, InProgress, PrepTyped
    <2>2. CASE prep' = Unloaded
      BY <2>2, UnloadedSlot DEF SlotInv, SlotTypes
    <2> QED
      BY <2>1, <2>2
  <1>2. SlotTypes'
    BY <1>1 DEF SlotInv, SlotTypes
  <1>3. SlotsAgree'
    BY <1>1 DEF SlotInv, SlotsAgree, SlotsInTurn, SlotsDrained, SlotKept,
                SlotExecuted, SlotsFrom
  <1> QED
    BY <1>2, <1>3 DEF SlotInv

\* A reset of the stepper subsystem, and the initial state.
LEMMA SlotsCleared ==
  ASSUME SlotTypes, StReset, UNCHANGED st_block_buffer
  PROVE  SlotInv'
PROOF
  <1>1. SlotTypes'
    BY SegmentAssumption
    DEF SlotTypes, StReset, PrepReset, PrepTyped, PrepFields, Slots
  <1>2. SlotsAgree'
    BY SegmentAssumption
    DEF StReset, PrepReset, SlotsAgree, SlotsInTurn, SlotsDrained, SlotKept,
        SlotExecuted, SlotsFrom, InProgress
  <1> QED
    BY <1>1, <1>2 DEF SlotInv

LEMMA SlotsInit == Init => SlotInv
PROOF
  <1> SUFFICES ASSUME Init PROVE SlotInv
    OBVIOUS
  <1>1. SlotTypes
    BY SegmentAssumption
    DEF Init, SlotTypes, PrepReset, PrepTyped, PrepFields, Slots
  <1>2. SlotsAgree
    BY SegmentAssumption
    DEF Init, PrepReset, SlotsAgree, SlotsInTurn, SlotsDrained, SlotKept,
        SlotExecuted, SlotsFrom, InProgress
  <1> QED
    BY <1>1, <1>2 DEF SlotInv

-----------------------------------------------------------------------------
\* The interrupt.

\* Every queued segment has a slot.
LEMMA SegmentSlot ==
  ASSUME SlotTypes
  PROVE  /\ \A i \in 1 .. Len(segs) : segs[i].slot \in Slots
         /\ segs # <<>> => Head(segs) = segs[1] /\ 1 \in 1 .. Len(segs)
PROOF
  <1> DEFINE S == [slot : Slots, steps : Int]
  <1>1. segs \in Seq(S)
    BY DEF SlotTypes
  <1>2. \A i \in 1 .. Len(segs) : segs[i] \in S
    BY <1>1, ElementOfSeq
  <1>3. \A segment \in S : segment.slot \in Slots
    OBVIOUS
  <1> QED
    BY <1>1, <1>2, <1>3

LEMMA SlotsLoad == SlotInv /\ IsrLoad => SlotInv'
PROOF
  <1> SUFFICES ASSUME SlotInv, IsrLoad PROVE SlotInv'
    OBVIOUS
  <1>1. /\ segs # <<>> /\ segs' = segs /\ prep' = prep
        /\ st_block_buffer' = st_block_buffer
        /\ exec_block_index' = Head(segs).slot
        /\ counters' = IF Head(segs).slot # exec_block_index
                       THEN st_block_buffer[Head(segs).slot] ELSE counters
        /\ executing' = TRUE
    BY DEF IsrLoad
  <1>2. Head(segs).slot \in Slots
    BY <1>1, SegmentSlot DEF SlotInv
  <1>3. SlotTypes'
    BY <1>1, <1>2 DEF SlotInv, SlotTypes, PrepTyped
  <1>4. SlotsInTurn' /\ SlotsDrained'
    BY <1>1 DEF SlotInv, SlotsAgree, SlotsInTurn, SlotsDrained, SlotsFrom, InProgress
  <1>5. SlotKept' /\ SlotExecuted'
    BY <1>1 DEF SlotInv, SlotsAgree, SlotKept, SlotExecuted
  <1> QED
    BY <1>3, <1>4, <1>5 DEF SlotInv, SlotsAgree

\* A segment is done with: those behind it move up.
LEMMA SlotsDone == SlotInv /\ IsrDone => SlotInv'
PROOF
  <1> SUFFICES ASSUME SlotInv, IsrDone PROVE SlotInv'
    OBVIOUS
  <1>1. /\ executing /\ executing' = FALSE
        /\ segs' = Tail(segs)
        /\ UNCHANGED <<prep, st_block_buffer, exec_block_index, counters>>
    BY DEF IsrDone
  <1>2. /\ segs # <<>> /\ segs \in Seq([slot : Slots, steps : Int])
        /\ exec_block_index = Head(segs).slot
        /\ counters = st_block_buffer[exec_block_index]
    BY <1>1 DEF SlotInv, SlotTypes, SlotsAgree, SlotExecuted, SlotKept
  <1>3. /\ segs' \in Seq([slot : Slots, steps : Int])
        /\ Len(segs) \in Nat \ {0} /\ Len(segs') = Len(segs) - 1
        /\ \A i \in 1 .. Len(segs') : segs'[i] = segs[i + 1]
    BY <1>1, <1>2
  <1>4. SlotTypes'
    BY <1>1, <1>3, SegmentAssumption DEF SlotInv, SlotTypes, PrepTyped
  <1>5. SlotsInTurn'
    <2> SUFFICES ASSUME NEW i \in 1 .. Len(segs')
                 PROVE  SlotsFrom(segs'[i].slot, prep.index)
                          <= Len(segs') - i + (IF InProgress THEN 1 ELSE 0)
      BY <1>1 DEF SlotsInTurn, SlotsFrom, InProgress
    <2>1. i + 1 \in 1 .. Len(segs) /\ segs'[i] = segs[i + 1]
      BY <1>3
    <2>2. SlotsFrom(segs[i + 1].slot, prep.index)
            <= Len(segs) - (i + 1) + (IF InProgress THEN 1 ELSE 0)
      BY <2>1 DEF SlotInv, SlotsAgree, SlotsInTurn
    <2>3. SlotsFrom(segs[i + 1].slot, prep.index) \in Nat
      BY <2>1, SegmentSlot, SlotsBetween DEF SlotInv, SlotTypes, PrepTyped
    <2> QED
      BY <1>3, <2>1, <2>2, <2>3
  <1>6. SlotsDrained'
    <2> SUFFICES ASSUME segs' = <<>>
                 PROVE  SlotsFrom(exec_block_index, prep.index)
                          <= (IF InProgress THEN 1 ELSE 0)
      BY <1>1 DEF SlotsDrained, SlotsFrom, InProgress
    <2>1. Len(segs) = 1 /\ segs[1] = Head(segs)
      BY <1>2, <1>3
    <2>2. SlotsFrom(segs[1].slot, prep.index)
            <= Len(segs) - 1 + (IF InProgress THEN 1 ELSE 0)
      BY <2>1 DEF SlotInv, SlotsAgree, SlotsInTurn
    <2> QED
      BY <1>2, <2>1, <2>2
  <1>7. SlotKept' /\ SlotExecuted'
    BY <1>1, <1>2 DEF SlotKept, SlotExecuted
  <1> QED
    BY <1>4, <1>5, <1>6, <1>7 DEF SlotInv, SlotsAgree

-----------------------------------------------------------------------------
\* The generator.

\* What one pass of its loop does to slots: a block in progress keeps its slot,
\* a new one takes the next, and only that is overwritten.
LEMMA PassSlot ==
  ASSUME SlotInv, LoadSlot
  PROVE  /\ PrepTyped(Current)
         /\ Current.loaded
         /\ InProgress => Current.index = prep.index
                          /\ st_block_buffer' = st_block_buffer
         /\ ~InProgress =>
              /\ Current.index = st_next_block_index(prep.index)
              /\ \A slot \in Slots \ {Current.index} :
                   st_block_buffer'[slot] = st_block_buffer[slot]
         /\ DOMAIN st_block_buffer' = Slots
         /\ st_block_buffer' =
              [slot \in DOMAIN st_block_buffer' |-> st_block_buffer'[slot]]
PROOF
  <1>1. PrepTyped(prep)
    BY DEF SlotInv, SlotTypes
  <1>2. CASE prep.loaded
    BY <1>1, <1>2 DEF Current, LoadSlot, InProgress, SlotInv, SlotTypes
  <1>3. CASE ~prep.loaded
    <2> DEFINE loaded == Loaded(block_buffer[tail])
    <2>1. Current = loaded
      BY <1>3 DEF Current
    <2>2. /\ DOMAIN loaded = PrepFields
          /\ loaded = [field \in DOMAIN loaded |-> loaded[field]]
          /\ loaded.loaded = TRUE /\ loaded.recalculate = FALSE
          /\ loaded.index = IF ~prep.recalculate
                            THEN st_next_block_index(prep.index) ELSE prep.index
      BY DEF Loaded, PrepFields
    <2>3. st_next_block_index(prep.index) \in Slots
      BY <1>1, NextSlot DEF PrepTyped
    <2>4. PrepTyped(Current)
      BY <1>1, <2>1, <2>2, <2>3 DEF PrepTyped
    <2> HIDE DEF loaded
    <2> QED
      BY <1>1, <1>3, <2>1, <2>2, <2>4 DEF LoadSlot, InProgress, SlotInv, SlotTypes, PrepTyped
  <1> QED
    BY <1>1, <1>2, <1>3 DEF PrepTyped

\* A new block's slot is that of no queued segment, nor of the interrupt when
\* nothing is queued, as long as the segment buffer is not full.
LEMMA NewSlotFree ==
  ASSUME SlotInv, ~SegmentsFull, ~InProgress
  PROVE  /\ \A i \in 1 .. Len(segs) :
              segs[i].slot # st_next_block_index(prep.index)
         /\ segs = <<>> => exec_block_index # st_next_block_index(prep.index)
PROOF
  <1>1. /\ prep.index \in Slots /\ exec_block_index \in Slots
        /\ Len(segs) \in Nat /\ Len(segs) < SEGMENT_BUFFER_SIZE - 1
    BY SegmentAssumption DEF SlotInv, SlotTypes, PrepTyped, SegmentsFull
  <1>2. ASSUME NEW i \in 1 .. Len(segs)
        PROVE  segs[i].slot # st_next_block_index(prep.index)
    <2>1. segs[i].slot \in Slots
      BY <1>2, SegmentSlot DEF SlotInv
    <2>2. SlotsFrom(segs[i].slot, prep.index) <= Len(segs) - i
      BY <1>1 DEF SlotInv, SlotsAgree, SlotsInTurn
    <2> QED
      BY <1>1, <2>1, <2>2, SlotsBetween, SlotsAdvance, SegmentAssumption
  <1>3. ASSUME segs = <<>>
        PROVE  exec_block_index # st_next_block_index(prep.index)
    <2>1. SlotsFrom(exec_block_index, prep.index) <= 0
      BY <1>3 DEF SlotInv, SlotsAgree, SlotsDrained
    <2> QED
      BY <1>1, <2>1, SlotsBetween, SlotsAdvance, SegmentAssumption
  <1> QED
    BY <1>2, <1>3

\* Whether or not the pass takes a new slot, the slots of the queued segments
\* keep their contents, and one more at most separates them from the newest.
LEMMA PassKeepsQueue ==
  ASSUME SlotInv, LoadSlot, ~SegmentsFull
  PROVE  /\ \A i \in 1 .. Len(segs) :
              /\ st_block_buffer'[segs[i].slot] = st_block_buffer[segs[i].slot]
              /\ SlotsFrom(segs[i].slot, Current.index) <= Len(segs) - i + 1
         /\ segs = <<>> => SlotsFrom(exec_block_index, Current.index) <= 1
         /\ segs = <<>> /\ Current.index = exec_block_index
              => counters = st_block_buffer'[exec_block_index]
PROOF
  <1>1. /\ prep.index \in Slots /\ exec_block_index \in Slots
        /\ Len(segs) \in Nat
    BY DEF SlotInv, SlotTypes, PrepTyped
  <1>2. \A i \in 1 .. Len(segs) :
          /\ segs[i].slot \in Slots
          /\ SlotsFrom(segs[i].slot, prep.index)
               <= Len(segs) - i + (IF InProgress THEN 1 ELSE 0)
    BY SegmentSlot DEF SlotInv, SlotsAgree, SlotsInTurn
  <1>3. segs = <<>> =>
          SlotsFrom(exec_block_index, prep.index) <= (IF InProgress THEN 1 ELSE 0)
    BY DEF SlotInv, SlotsAgree, SlotsDrained
  <1>4. CASE InProgress
    <2>1. Current.index = prep.index /\ st_block_buffer' = st_block_buffer
      BY <1>4, PassSlot
    <2>2. segs = <<>> /\ prep.index = exec_block_index
            => counters = st_block_buffer[exec_block_index]
      BY <1>4 DEF SlotInv, SlotsAgree, SlotKept
    <2> QED
      BY <1>2, <1>3, <1>4, <2>1, <2>2
  <1>5. CASE ~InProgress
    <2>1. /\ Current.index = st_next_block_index(prep.index)
          /\ \A slot \in Slots \ {Current.index} :
               st_block_buffer'[slot] = st_block_buffer[slot]
      BY <1>5, PassSlot
    <2>2. ASSUME NEW i \in 1 .. Len(segs)
          PROVE  SlotsFrom(segs[i].slot, Current.index) <= Len(segs) - i + 1
      <3>1. /\ SlotsFrom(segs[i].slot, prep.index) <= Len(segs) - i
            /\ segs[i].slot \in Slots
        BY <1>2, <1>5, <1>1
      <3>2. SlotsFrom(segs[i].slot, Current.index)
              <= SlotsFrom(segs[i].slot, prep.index) + 1
        BY <1>1, <2>1, <3>1, SlotsAdvance
      <3>3. /\ SlotsFrom(segs[i].slot, Current.index) \in Nat
            /\ SlotsFrom(segs[i].slot, prep.index) \in Nat
        BY <1>1, <2>1, <3>1, NextSlot, SlotsBetween
      <3> QED
        BY <1>1, <3>1, <3>2, <3>3
    <2>3. ASSUME segs = <<>>
          PROVE  SlotsFrom(exec_block_index, Current.index) <= 1
      <3>1. SlotsFrom(exec_block_index, prep.index) <= 0
        BY <1>3, <1>5, <2>3
      <3>2. SlotsFrom(exec_block_index, Current.index)
              <= SlotsFrom(exec_block_index, prep.index) + 1
        BY <1>1, <2>1, SlotsAdvance
      <3>3. /\ SlotsFrom(exec_block_index, Current.index) \in Nat
            /\ SlotsFrom(exec_block_index, prep.index) \in Nat
        BY <1>1, <2>1, NextSlot, SlotsBetween
      <3> QED
        BY <3>1, <3>2, <3>3
    <2> QED
      BY <1>2, <1>5, <2>1, <2>2, <2>3, NewSlotFree
  <1> QED
    BY <1>4, <1>5

\* A segment is appended, in the slot of the pass.
LEMMA SlotsPrepSegment == SlotInv /\ PrepSegment => SlotInv'
PROOF
  <1> SUFFICES ASSUME SlotInv, PrepSegment PROVE SlotInv'
    OBVIOUS
  <1>1. /\ LoadSlot /\ ~SegmentsFull
        /\ UNCHANGED <<executing, exec_block_index, counters>>
    BY DEF PrepSegment, CanPrep
  <1>2. PICK d \in 1 .. (block_buffer[tail].gain - Current.complete) :
          LET left == block_buffer[tail].gain - d
              speed == SpeedAfter(Current, d, left,
                                  Nominal(block_buffer[tail], override))
          IN  /\ segs' = Append(segs, [slot |-> Current.index, steps |-> d])
              /\ prep' = [Current EXCEPT !.speed = speed, !.loaded = (left > 0)]
    BY DEF PrepSegment
  <1>3. /\ PrepTyped(Current)
        /\ DOMAIN st_block_buffer' = Slots
        /\ st_block_buffer' =
             [slot \in DOMAIN st_block_buffer' |-> st_block_buffer'[slot]]
    BY <1>1, PassSlot
  <1>4. PrepTyped(prep)' /\ prep'.index = Current.index
    <2> DEFINE left == block_buffer[tail].gain - d
    <2>1. (left > 0) \in BOOLEAN
      OBVIOUS
    <2>2. PICK speed \in {SpeedAfter(Current, d, left,
                                     Nominal(block_buffer[tail], override))},
               more \in BOOLEAN :
            prep' = [Current EXCEPT !.speed = speed, !.loaded = more]
      BY <1>2, <2>1
    <2> QED
      BY <1>3, <2>2 DEF PrepTyped, PrepFields
  <1> DEFINE segment == [slot |-> Current.index, steps |-> d]
  <1>5. /\ segs \in Seq([slot : Slots, steps : Int])
        /\ segment \in [slot : Slots, steps : Int]
        /\ Len(segs) \in Nat /\ Len(segs) < SEGMENT_BUFFER_SIZE - 1
    BY <1>1, <1>3, SegmentAssumption
    DEF SlotInv, SlotTypes, PrepTyped, SegmentsFull
  <1>6. /\ segs' \in Seq([slot : Slots, steps : Int])
        /\ Len(segs') = Len(segs) + 1
        /\ \A i \in 1 .. Len(segs) : segs'[i] = segs[i]
        /\ segs'[Len(segs) + 1] = segment
    BY <1>2, <1>5, AppendProperties
  <1>7. SlotTypes'
    BY <1>1, <1>3, <1>4, <1>5, <1>6, SegmentAssumption DEF SlotInv, SlotTypes
  <1>8. SlotsInTurn'
    <2> SUFFICES ASSUME NEW i \in 1 .. Len(segs')
                 PROVE  /\ SlotsFrom(segs'[i].slot, Current.index) \in Nat
                        /\ SlotsFrom(segs'[i].slot, Current.index) <= Len(segs') - i
      BY <1>4, <1>5, <1>6 DEF SlotsInTurn, SlotsFrom
    <2>1. CASE i \in 1 .. Len(segs)
      <3>1. segs'[i].slot \in Slots /\ segs'[i] = segs[i]
        BY <1>6, <2>1, SegmentSlot DEF SlotInv
      <3>2. SlotsFrom(segs[i].slot, Current.index) <= Len(segs) - i + 1
        BY <1>1, <2>1, PassKeepsQueue
      <3>3. SlotsFrom(segs[i].slot, Current.index) \in Nat
        BY <1>3, <3>1, SlotsBetween DEF PrepTyped
      <3>4. Len(segs) - i + 1 = Len(segs') - i
        BY <1>5, <1>6
      <3> QED
        BY <3>1, <3>2, <3>3, <3>4
    <2>2. CASE i = Len(segs) + 1
      BY <1>3, <1>5, <1>6, <2>2, SlotsBetween DEF PrepTyped
    <2> QED
      BY <1>5, <1>6, <2>1, <2>2
  <1>9. segs' # <<>> /\ Head(segs') = segs'[1]
    BY <1>5, <1>6
  <1>10. SlotKept' /\ SlotExecuted'
    <2>1. CASE segs = <<>>
      <3>1. Head(segs').slot = Current.index
        BY <1>6, <1>9, <2>1
      <3>2. ~executing
        BY <2>1 DEF SlotInv, SlotsAgree, SlotExecuted
      <3>3. Current.index = exec_block_index
              => counters = st_block_buffer'[exec_block_index]
        BY <1>1, <2>1, PassKeepsQueue
      <3> QED
        BY <1>1, <1>9, <3>1, <3>2, <3>3 DEF SlotKept, SlotExecuted
    <2>2. CASE segs # <<>>
      <3>1. Head(segs') = Head(segs) /\ Head(segs) = segs[1] /\ 1 \in 1 .. Len(segs)
        BY <1>6, <1>9, <2>2, SegmentSlot DEF SlotInv
      <3>2. st_block_buffer'[segs[1].slot] = st_block_buffer[segs[1].slot]
        BY <1>1, <3>1, PassKeepsQueue
      <3>3. Head(segs).slot = exec_block_index
              => counters = st_block_buffer[exec_block_index]
        BY <2>2 DEF SlotInv, SlotsAgree, SlotKept
      <3> QED
        BY <1>1, <1>9, <2>2, <3>1, <3>2, <3>3
        DEF SlotKept, SlotExecuted, SlotInv, SlotsAgree
    <2> QED
      BY <2>1, <2>2
  <1>11. SlotsDrained'
    BY <1>9 DEF SlotsDrained
  <1> QED
    BY <1>7, <1>8, <1>10, <1>11 DEF SlotInv, SlotsAgree

\* A hold ends before the first segment of the block: the slot is taken, and
\* no segment names it.
LEMMA SlotsPrepStandstill == SlotInv /\ PrepStandstill => SlotInv'
PROOF
  <1> SUFFICES ASSUME SlotInv, PrepStandstill PROVE SlotInv'
    OBVIOUS
  <1>1. /\ LoadSlot /\ ~SegmentsFull
        /\ UNCHANGED <<segs, executing, exec_block_index, counters>>
        /\ prep' = [Current EXCEPT !.speed = 0]
    BY DEF PrepStandstill, CanPrep
  <1>2. /\ PrepTyped(Current) /\ Current.loaded
        /\ DOMAIN st_block_buffer' = Slots
        /\ st_block_buffer' =
             [slot \in DOMAIN st_block_buffer' |-> st_block_buffer'[slot]]
    BY <1>1, PassSlot
  <1>3. /\ PrepTyped(prep)' /\ prep'.index = Current.index
        /\ InProgress'
    BY <1>1, <1>2 DEF PrepTyped, PrepFields, InProgress
  <1>4. SlotTypes'
    BY <1>1, <1>2, <1>3 DEF SlotInv, SlotTypes
  <1>5. \A i \in 1 .. Len(segs) :
          /\ st_block_buffer'[segs[i].slot] = st_block_buffer[segs[i].slot]
          /\ SlotsFrom(segs[i].slot, Current.index) <= Len(segs) - i + 1
    BY <1>1, PassKeepsQueue
  <1>6. SlotsInTurn' /\ SlotsDrained'
    BY <1>1, <1>3, <1>5, PassKeepsQueue DEF SlotsInTurn, SlotsDrained, SlotsFrom
  <1>7. SlotKept' /\ SlotExecuted'
    <2>1. CASE segs = <<>>
      BY <1>1, <1>3, <2>1, PassKeepsQueue
      DEF SlotKept, SlotExecuted, SlotInv, SlotsAgree
    <2>2. CASE segs # <<>>
      <3>1. Head(segs) = segs[1] /\ 1 \in 1 .. Len(segs)
        BY <2>2, SegmentSlot DEF SlotInv
      <3>2. st_block_buffer'[Head(segs).slot] = st_block_buffer[Head(segs).slot]
        BY <1>5, <3>1
      <3> QED
        BY <1>1, <2>2, <3>2 DEF SlotKept, SlotExecuted, SlotInv, SlotsAgree
    <2> QED
      BY <2>1, <2>2
  <1> QED
    BY <1>4, <1>6, <1>7 DEF SlotInv, SlotsAgree

-----------------------------------------------------------------------------
\* Every step.

LEMMA SlotsStep == SlotInv /\ [Next]_vars => SlotInv'
PROOF
  <1> SUFFICES ASSUME SlotInv, [Next]_vars PROVE SlotInv'
    OBVIOUS
  <1>1. CASE Generator
    BY <1>1, SlotsPrepSegment, SlotsPrepStandstill DEF Generator
  <1>2. CASE Interrupt
    <2>1. CASE IsrEmpty
      BY <2>1, SlotsUntouched DEF IsrEmpty
    <2> QED
      BY <1>2, <2>1, SlotsLoad, SlotsDone DEF Interrupt
  <1>3. CASE BufferLine
    BY <1>3, SlotsUntouched DEF BufferLine, planner_recalculate, isrVars
  <1>4. CASE BufferNothing
    BY <1>4, SlotsUntouched DEF BufferNothing, isrVars
  <1>5. CASE ChangeOverride
    BY <1>5, SlotsUntouched DEF ChangeOverride, plan_cycle_reinitialize, isrVars
  <1>6. CASE Hold
    BY <1>6, SlotsUntouched DEF Hold, isrVars
  <1>7. CASE Start
    BY <1>7, SlotsUntouched DEF Start
  <1>8. CASE CycleStop
    BY <1>8, SlotsUntouched DEF CycleStop, plan_cycle_reinitialize
  <1>9. CASE Flush
    BY <1>9, SlotsCleared DEF Flush, SlotInv
  <1>10. CASE UNCHANGED vars
    BY <1>10, SlotsUntouched DEF vars, isrVars
  <1> QED
    BY <1>1, <1>2, <1>3, <1>4, <1>5, <1>6, <1>7, <1>8, <1>9, <1>10
    DEF Next, Main

\* The slots are in order, whatever the sizes of the buffers, the motions and
\* the overrides.
THEOREM SlotInvariance == Spec => []SlotsAgree
PROOF
  <1>1. SlotInv => SlotsAgree
    BY DEF SlotInv
  <1> QED
    BY <1>1, SlotsInit, SlotsStep, PTL DEF Spec

\* The stepper interrupt never executes a segment on the counters of another
\* motion, nor over a slot overwritten since (TIMER1_COMPA_vect and the slots
\* st_prep_buffer gives out).
THEOREM CountersSafety == Spec => []CountersMatch
PROOF
  <1>1. SlotsAgree => CountersMatch
    BY DEF SlotsAgree, SlotExecuted, SlotKept, CountersMatch
  <1> QED
    BY <1>1, SlotInvariance, PTL
-----------------------------------------------------------------------------
\* The ring of blocks, and the passes over it.

\* Every index of the ring is a natural number below the size.
LEMMA RingIndex ==
  ASSUME NEW i \in Indices
  PROVE  /\ plan_next_block_index(i) \in Indices
         /\ plan_next_block_index(i) = IF i = BLOCK_BUFFER_SIZE - 1 THEN 0 ELSE i + 1
         /\ plan_prev_block_index(i) \in Indices
         /\ plan_prev_block_index(i) = IF i = 0 THEN BLOCK_BUFFER_SIZE - 1 ELSE i - 1
<1> USE RingAssumption DEF Indices
<1>1. i + 1 \in 1 .. BLOCK_BUFFER_SIZE
  OBVIOUS
<1>2. CASE i = BLOCK_BUFFER_SIZE - 1
  <2>1. (i + 1) % BLOCK_BUFFER_SIZE = 0
    BY <1>2
  <2>2. (i - 1) % BLOCK_BUFFER_SIZE = i - 1
    BY <1>2
  <2> QED
    BY <1>2, <2>1, <2>2 DEF plan_next_block_index, plan_prev_block_index
<1>3. CASE i = 0
  <2>1. (i - 1) % BLOCK_BUFFER_SIZE = BLOCK_BUFFER_SIZE - 1
    BY <1>3
  <2>2. (i + 1) % BLOCK_BUFFER_SIZE = i + 1
    BY <1>3
  <2> QED
    BY <1>3, <2>1, <2>2 DEF plan_next_block_index, plan_prev_block_index
<1>4. CASE i # 0 /\ i # BLOCK_BUFFER_SIZE - 1
  <2>1. (i - 1) % BLOCK_BUFFER_SIZE = i - 1 /\ (i + 1) % BLOCK_BUFFER_SIZE = i + 1
    BY <1>4
  <2> QED
    BY <1>4, <2>1 DEF plan_next_block_index, plan_prev_block_index
<1> QED
  BY <1>2, <1>3, <1>4

\* The steps from one index forward to another, without the modulus.
LEMMA RingDistance ==
  ASSUME NEW i \in Indices, NEW j \in Indices
  PROVE  Distance(i, j) = IF i <= j THEN j - i ELSE j - i + BLOCK_BUFFER_SIZE
  BY RingAssumption DEF Indices, Distance

\* The index some steps ahead, without the modulus.
LEMMA RingAt ==
  ASSUME NEW i \in Indices, NEW k \in Indices
  PROVE  At(i, k) = IF i + k < BLOCK_BUFFER_SIZE THEN i + k ELSE i + k - BLOCK_BUFFER_SIZE
  BY RingAssumption DEF Indices, At

\* At and Distance undo each other.
LEMMA RingInverse ==
  ASSUME NEW i \in Indices, NEW j \in Indices
  PROVE  /\ At(i, j) \in Indices /\ Distance(i, j) \in Indices
         /\ At(i, Distance(i, j)) = j /\ Distance(i, At(i, j)) = j
         /\ At(i, 0) = i
         /\ Distance(i, j) = 0 <=> i = j
<1>1. i \in Nat /\ j \in Nat /\ BLOCK_BUFFER_SIZE \in Nat
      /\ i < BLOCK_BUFFER_SIZE /\ j < BLOCK_BUFFER_SIZE /\ 0 < BLOCK_BUFFER_SIZE
  BY RingAssumption DEF Indices
<1>2. \A n \in Nat : n < BLOCK_BUFFER_SIZE => n \in Indices
  BY <1>1 DEF Indices
<1>3. /\ Distance(i, j) = IF i <= j THEN j - i ELSE j - i + BLOCK_BUFFER_SIZE
      /\ At(i, j) = IF i + j < BLOCK_BUFFER_SIZE THEN i + j ELSE i + j - BLOCK_BUFFER_SIZE
      /\ At(i, 0) = IF i + 0 < BLOCK_BUFFER_SIZE THEN i + 0 ELSE i + 0 - BLOCK_BUFFER_SIZE
  BY <1>1, <1>2, RingDistance, RingAt
<1>4. Distance(i, j) \in Indices /\ At(i, j) \in Indices /\ 0 \in Indices
  BY <1>1, <1>2, <1>3
<1>5. At(i, Distance(i, j)) = IF i + Distance(i, j) < BLOCK_BUFFER_SIZE THEN i + Distance(i, j)
                              ELSE i + Distance(i, j) - BLOCK_BUFFER_SIZE
  BY <1>4, RingAt
<1>6. Distance(i, At(i, j)) = IF i <= At(i, j) THEN At(i, j) - i
                              ELSE At(i, j) - i + BLOCK_BUFFER_SIZE
  BY <1>4, RingDistance
<1> QED
  BY <1>1, <1>3, <1>4, <1>5, <1>6

\* What plan_next_block_index does to the distances.
LEMMA RingNext ==
  ASSUME NEW i \in Indices, NEW j \in Indices
  PROVE  /\ i # plan_next_block_index(j)
              => Distance(i, plan_next_block_index(j)) = Distance(i, j) + 1
         /\ i # j => /\ Distance(plan_next_block_index(i), j) = Distance(i, j) - 1
                     /\ Distance(i, plan_prev_block_index(j)) = Distance(i, j) - 1
         /\ j + 1 \in Indices => At(plan_next_block_index(i), j) = At(i, j + 1)
<1> DEFINE B == BLOCK_BUFFER_SIZE
<1>1. i \in Nat /\ j \in Nat /\ B \in Nat /\ i < B /\ j < B /\ 1 < B
  BY RingAssumption DEF Indices
<1>2. /\ plan_next_block_index(i) \in Indices /\ plan_next_block_index(j) \in Indices
      /\ plan_prev_block_index(j) \in Indices
      /\ plan_next_block_index(i) = IF i = B - 1 THEN 0 ELSE i + 1
      /\ plan_next_block_index(j) = IF j = B - 1 THEN 0 ELSE j + 1
      /\ plan_prev_block_index(j) = IF j = 0 THEN B - 1 ELSE j - 1
  BY RingIndex
<1>3. /\ Distance(i, j) = IF i <= j THEN j - i ELSE j - i + B
      /\ Distance(i, plan_next_block_index(j))
           = IF i <= plan_next_block_index(j) THEN plan_next_block_index(j) - i
             ELSE plan_next_block_index(j) - i + B
      /\ Distance(i, plan_prev_block_index(j))
           = IF i <= plan_prev_block_index(j) THEN plan_prev_block_index(j) - i
             ELSE plan_prev_block_index(j) - i + B
      /\ Distance(plan_next_block_index(i), j)
           = IF plan_next_block_index(i) <= j THEN j - plan_next_block_index(i)
             ELSE j - plan_next_block_index(i) + B
  BY <1>2, RingDistance
<1>4. ASSUME j + 1 \in Indices
      PROVE  /\ At(i, j + 1) = IF i + (j + 1) < B THEN i + (j + 1) ELSE i + (j + 1) - B
             /\ At(plan_next_block_index(i), j)
                  = IF plan_next_block_index(i) + j < B THEN plan_next_block_index(i) + j
                    ELSE plan_next_block_index(i) + j - B
  BY <1>2, <1>4, RingAt
<1>5. j + 1 \in Indices => j + 1 < B
  BY <1>1 DEF Indices
<1> HIDE DEF B
<1> QED
  BY <1>1, <1>2, <1>3, <1>4, <1>5
-----------------------------------------------------------------------------
\* Lowest is one of its two numbers.
LEMMA LowestInt ==
  \A m, n \in Int : /\ Lowest(m, n) \in Int /\ Lowest(m, n) <= m /\ Lowest(m, n) <= n
                    /\ Lowest(m, n) \in {m, n}
  BY DEF Lowest

\* The blocks the passes number are blocks of the ring.
LEMMA PlannedBlocks ==
  ASSUME NEW buffer \in [Indices -> Block], NEW h \in Indices, NEW p \in Indices
  PROVE  /\ LastBlock(h, p) \in Indices
         /\ \A k \in 0 .. LastBlock(h, p) :
              /\ At(p, k) \in Indices /\ buffer[At(p, k)].entry \in Int
              /\ buffer[At(p, k)].max \in Nat /\ buffer[At(p, k)].gain \in Nat
<1>1. LastBlock(h, p) \in Indices
  BY RingIndex, RingInverse DEF LastBlock
<1>2. \A k \in 0 .. LastBlock(h, p) : At(p, k) \in Indices
  <2> SUFFICES ASSUME NEW k \in 0 .. LastBlock(h, p) PROVE At(p, k) \in Indices
    OBVIOUS
  <2>1. k \in Indices
    BY <1>1, RingAssumption DEF Indices
  <2> QED
    BY <2>1, RingInverse
<1>3. \A i \in Indices : buffer[i] \in Block
  OBVIOUS
<1>4. \A block \in Block : block.entry \in Int /\ block.max \in Nat /\ block.gain \in Nat
  BY DEF Block
<1> QED
  BY <1>1, <1>2, <1>3, <1>4

\* The reverse pass, computed from the last block to the first, is a function.
LEMMA ReverseDef ==
  ASSUME NEW buffer \in [Indices -> Block], NEW h \in Indices, NEW p \in Indices
  PROVE  /\ ReversePass(buffer, h, p) \in [0 .. LastBlock(h, p) -> Int]
         /\ \A k \in 0 .. LastBlock(h, p) :
              ReversePass(buffer, h, p)[k] =
                IF k = 0 THEN buffer[At(p, 0)].entry
                ELSE IF k = LastBlock(h, p)
                THEN Lowest(buffer[At(p, k)].max, buffer[At(p, k)].gain)
                ELSE IF buffer[At(p, k)].entry = buffer[At(p, k)].max THEN buffer[At(p, k)].entry
                ELSE Lowest(buffer[At(p, k)].max,
                            ReversePass(buffer, h, p)[k + 1] + buffer[At(p, k)].gain)
<1> DEFINE n == LastBlock(h, p)
           reverse == ReversePass(buffer, h, p)
           block(k) == buffer[At(p, k)]
           Value(k, next) ==
             IF k = 0 THEN block(0).entry
             ELSE IF k = n THEN Lowest(block(k).max, block(k).gain)
             ELSE IF block(k).entry = block(k).max THEN block(k).entry
             ELSE Lowest(block(k).max, next + block(k).gain)
           Def(g) == g = [k \in 0 .. n |-> Value(k, g[k + 1])]
<1>1. n \in Nat /\ \A k \in 0 .. n : /\ block(k).entry \in Int
                                     /\ block(k).max \in Nat /\ block(k).gain \in Nat
  <2>1. n \in Indices
    BY PlannedBlocks
  <2>2. \A k \in 0 .. n : /\ block(k).entry \in Int
                           /\ block(k).max \in Nat /\ block(k).gain \in Nat
    BY PlannedBlocks
  <2>3. n \in Nat
    BY <2>1, RingAssumption DEF Indices
  <2> QED
    BY <2>2, <2>3
<1> HIDE DEF block, n, reverse
<1>2. \A k \in 0 .. n : \A v \in Int : Value(k, v) \in Int
  <2> SUFFICES ASSUME NEW k \in 0 .. n, NEW v \in Int PROVE Value(k, v) \in Int
    OBVIOUS
  <2>1. v + block(k).gain \in Int /\ block(k).max \in Int /\ block(k).gain \in Int
        /\ block(k).entry \in Int
    BY <1>1
  <2>2. Lowest(block(k).max, v + block(k).gain) \in Int /\ Lowest(block(k).max, block(k).gain) \in Int
    BY <2>1, LowestInt
  <2>3. k = 0 => block(0).entry \in Int
    BY <2>1
  <2> QED
    BY <2>1, <2>2, <2>3
<1>3. reverse = CHOOSE g : Def(g)
  BY DEF ReversePass, block, n, reverse
<1> HIDE DEF Value
<1>4. \E g \in [0 .. n -> Int] : Def(g)
  <2> DEFINE F == [j \in Nat |-> [v \in Int |-> IF j \in 1 .. n THEN Value(n - j, v) ELSE 0]]
  <2>1. F \in [Nat -> [Int -> Int]]
    BY <1>1, <1>2
  <2>2. Value(n, 0) \in Int
    BY <1>1, <1>2
  <2>3. PICK g \in [0 .. n -> Int] : ComputedBy(g, Value(n, 0), F, n)
    <3> DEFINE a == Value(n, 0)
    <3>n. n \in Nat
      BY <1>1
    <3>1. a \in Int
      BY <2>2
    <3> HIDE DEF F, a
    <3>2. \E g \in [0 .. n -> Int] : ComputedBy(g, a, F, n)
      BY <2>1, <3>1, <3>n, RecursionExists
    <3> QED
      BY <3>2 DEF a
  <2>4. g[0] = Value(n, 0) /\ \A j \in 1 .. n : g[j] = Value(n - j, g[j - 1])
    <3>1. \A j \in 0 .. n : g[j] \in Int /\ g[j] = IF j = 0 THEN Value(n, 0) ELSE F[j][g[j - 1]]
      BY <2>3 DEF ComputedBy
    <3>2. \A j \in 1 .. n : j \in 0 .. n /\ j # 0 /\ j \in Nat /\ j - 1 \in 0 .. n
      BY <1>1
    <3>3. \A j \in 1 .. n : \A v \in Int : F[j][v] = Value(n - j, v)
      BY <3>2
    <3> HIDE DEF F
    <3>4. ASSUME NEW j \in 1 .. n PROVE g[j] = Value(n - j, g[j - 1])
      <4>1. g[j] = F[j][g[j - 1]] /\ g[j - 1] \in Int
        BY <3>1, <3>2
      <4> QED
        BY <3>3, <4>1
    <3>5. g[0] = Value(n, 0)
      BY <1>1, <3>1
    <3> QED
      BY <3>4, <3>5
  <2> DEFINE r == [k \in 0 .. n |-> g[n - k]]
  <2>5. r \in [0 .. n -> Int]
    BY <1>1
  <2>6. \A k \in 0 .. n : r[k] = Value(k, r[k + 1])
    <3> SUFFICES ASSUME NEW k \in 0 .. n PROVE r[k] = Value(k, r[k + 1])
      OBVIOUS
    <3>1. CASE k = n
      <4>1. r[k] = g[0]
        BY <1>1, <3>1
      <4>2. \A v : Value(n, v) = Value(n, 0)
        BY DEF Value
      <4> QED
        BY <2>4, <3>1, <4>1, <4>2
    <3>2. CASE k # n
      <4>1. n - k \in 1 .. n /\ n - (n - k) = k /\ k + 1 \in 0 .. n /\ n - (k + 1) = (n - k) - 1
        BY <1>1, <3>2
      <4>2. r[k] = g[n - k] /\ r[k + 1] = g[(n - k) - 1]
        BY <4>1
      <4> QED
        BY <2>4, <4>1, <4>2
    <3> QED
      BY <3>1, <3>2
  <2> HIDE DEF r
  <2>7. r = [k \in 0 .. n |-> Value(k, r[k + 1])]
    BY <2>5, <2>6
  <2> QED
    BY <2>5, <2>7
<1>5. Def(reverse)
  BY <1>3, <1>4
<1>6. \A k \in 0 .. n : reverse[k] = Value(k, reverse[k + 1])
  BY <1>5
<1>7. reverse \in [0 .. n -> Int]
  <2> DEFINE N == {j \in Nat : j <= n => reverse[n - j] \in Int}
  <2>1. 0 \in N
    <3>1. \A v : Value(n, v) = Value(n, 0)
      BY DEF Value
    <3>2. Value(n, 0) \in Int
      BY <1>1, <1>2
    <3> QED
      BY <1>1, <1>6, <3>1, <3>2
  <2>2. ASSUME NEW j \in Nat, j \in N
        PROVE  j + 1 \in N
    <3> SUFFICES ASSUME j + 1 <= n PROVE reverse[n - (j + 1)] \in Int
      OBVIOUS
    <3>1. n - (j + 1) \in 0 .. n /\ (n - (j + 1)) + 1 = n - j
      BY <1>1
    <3>2. reverse[n - j] \in Int
      BY <1>1, <2>2
    <3> QED
      BY <1>2, <1>6, <3>1, <3>2
  <2> HIDE DEF N
  <2>3. Nat \subseteq N
    BY <2>1, <2>2, Induction
  <2>4. \A k \in 0 .. n : n - k \in Nat /\ n - k <= n /\ n - (n - k) = k
    BY <1>1
  <2>5. \A k \in 0 .. n : reverse[k] \in Int
    BY <2>3, <2>4 DEF N
  <2> QED
    BY <1>5, <2>5
<1> QED
  BY <1>6, <1>7 DEF Value, block, n, reverse

\* The forward pass, computed from the first block to the last, is a function.
LEMMA ForwardDef ==
  ASSUME NEW buffer \in [Indices -> Block], NEW h \in Indices, NEW p \in Indices
  PROVE  /\ ForwardPass(buffer, h, p) \in [0 .. LastBlock(h, p) -> Int]
         /\ \A k \in 0 .. LastBlock(h, p) :
              ForwardPass(buffer, h, p)[k] =
                IF k = 0 THEN ReversePass(buffer, h, p)[0]
                ELSE Lowest(ReversePass(buffer, h, p)[k],
                            ForwardPass(buffer, h, p)[k - 1] + buffer[At(p, k - 1)].gain)
<1> DEFINE n == LastBlock(h, p)
           reverse == ReversePass(buffer, h, p)
           forward == ForwardPass(buffer, h, p)
           Value(k, previous) ==
             IF k = 0 THEN reverse[0]
             ELSE Lowest(reverse[k], previous + buffer[At(p, k - 1)].gain)
           Def(g) == g = [k \in 0 .. n |-> Value(k, g[k - 1])]
<1>1. n \in Nat /\ \A k \in 0 .. n : buffer[At(p, k)].gain \in Nat /\ reverse[k] \in Int
  <2>1. n \in Indices /\ \A k \in 0 .. n : buffer[At(p, k)].gain \in Nat
    BY PlannedBlocks
  <2>2. reverse \in [0 .. n -> Int]
    BY ReverseDef
  <2>3. n \in Nat
    BY <2>1, RingAssumption DEF Indices
  <2> HIDE DEF n, reverse
  <2> QED
    BY <2>1, <2>2, <2>3
<1> HIDE DEF n, reverse, forward
<1>2. \A k \in 0 .. n : \A v \in Int : Value(k, v) \in Int
  <2> SUFFICES ASSUME NEW k \in 0 .. n, NEW v \in Int, k # 0 PROVE Value(k, v) \in Int
    BY <1>1
  <2>1. k - 1 \in 0 .. n
    BY <1>1
  <2>2. reverse[k] \in Int /\ v + buffer[At(p, k - 1)].gain \in Int
    BY <1>1, <2>1
  <2>3. Lowest(reverse[k], v + buffer[At(p, k - 1)].gain) \in Int
    BY <2>2, LowestInt
  <2> QED
    BY <2>3
<1>3. forward = CHOOSE g : Def(g)
  BY DEF ForwardPass, n, reverse, forward
<1> HIDE DEF Value
<1>5. \E g \in [0 .. n -> Int] : Def(g)
  <2> DEFINE F == [k \in Nat |-> [v \in Int |-> IF k \in 1 .. n THEN Value(k, v) ELSE 0]]
  <2>1. F \in [Nat -> [Int -> Int]] /\ reverse[0] \in Int
    BY <1>1, <1>2
  <2>2. PICK g \in [0 .. n -> Int] : ComputedBy(g, reverse[0], F, n)
    <3> DEFINE a == reverse[0]
    <3>n. n \in Nat
      BY <1>1
    <3> HIDE DEF F, a
    <3>1. a \in Int
      BY <2>1 DEF a
    <3>2. \E g \in [0 .. n -> Int] : ComputedBy(g, a, F, n)
      BY <2>1, <3>1, <3>n, RecursionExists
    <3> QED
      BY <3>2 DEF a
  <2>3. \A k \in 0 .. n : g[k] = Value(k, g[k - 1])
    <3>1. \A k \in 0 .. n : g[k] \in Int /\ g[k] = IF k = 0 THEN reverse[0] ELSE F[k][g[k - 1]]
      BY <2>2 DEF ComputedBy
    <3>2. \A k \in 1 .. n : k \in 0 .. n /\ k # 0 /\ k \in Nat /\ k - 1 \in 0 .. n
      BY <1>1
    <3>3. \A k \in 1 .. n : \A v \in Int : F[k][v] = Value(k, v)
      BY <3>2
    <3>4. \A v : Value(0, v) = reverse[0]
      BY DEF Value
    <3> HIDE DEF F
    <3>5. \A k \in 1 .. n : g[k] = Value(k, g[k - 1])
      BY <3>1, <3>2, <3>3
    <3> QED
      BY <1>1, <3>1, <3>4, <3>5
  <2>4. g = [k \in 0 .. n |-> Value(k, g[k - 1])]
    BY <2>3
  <2> QED
    BY <2>4
<1>6. Def(forward)
  BY <1>3, <1>5
<1>7. \A k \in 0 .. n : forward[k] = Value(k, forward[k - 1])
  BY <1>6
<1>8. forward \in [0 .. n -> Int]
  <2> DEFINE N == {k \in Nat : k <= n => forward[k] \in Int}
  <2>1. 0 \in N
    <3>1. \A v : Value(0, v) = reverse[0]
      BY DEF Value
    <3> QED
      BY <1>1, <1>7, <3>1
  <2>2. ASSUME NEW k \in Nat, k \in N
        PROVE  k + 1 \in N
    <3> SUFFICES ASSUME k + 1 <= n PROVE forward[k + 1] \in Int
      OBVIOUS
    <3>1. k + 1 \in 0 .. n /\ (k + 1) - 1 = k /\ forward[k] \in Int
      BY <1>1, <2>2
    <3> QED
      BY <1>2, <1>7, <3>1
  <2> HIDE DEF N
  <2>3. Nat \subseteq N
    BY <2>1, <2>2, Induction
  <2>4. \A k \in 0 .. n : forward[k] \in Int
    BY <1>1, <2>3 DEF N
  <2> QED
    BY <1>6, <2>4
<1> QED
  BY <1>7, <1>8 DEF Value, n, reverse, forward

-----------------------------------------------------------------------------
\* Types.

\* The generator's state.
Preps ==
  [loaded : BOOLEAN, recalculate : BOOLEAN, decel_override : BOOLEAN, index : Slots,
   speed : Int, exit : Int, complete : Nat, decelerate : BOOLEAN]

\* A segment has at least one step.
Segment == [slot : Slots, steps : Nat \ {0}]

\* What a hold completes in is never behind it.
PipelineTypes ==
  /\ block_buffer \in [Indices -> Block]
  /\ tail \in Indices /\ head \in Indices /\ planned \in Indices
  /\ override \in Overrides /\ previous_nominal \in Nat
  /\ segs \in Seq(Segment) /\ Len(segs) < SEGMENT_BUFFER_SIZE
  /\ st_block_buffer \in [Slots -> 0 .. MaxMotions]
  /\ prep \in Preps
  /\ stepping \in BOOLEAN /\ executing \in BOOLEAN /\ cycle_stop \in BOOLEAN
  /\ execute_hold \in BOOLEAN /\ end_motion \in BOOLEAN /\ hold_complete \in BOOLEAN
  /\ exec_block_index \in Slots /\ counters \in 0 .. MaxMotions
  /\ mode \in {"IDLE", "CYCLE", "HOLD"}
  /\ prepping \in {"no", "refill", "start"}
  /\ sent \in 0 .. MaxMotions /\ starved \in BOOLEAN /\ reduced \in BOOLEAN

\* The types of this module imply the type invariant and those of the slots.
LEMMA TypesImply == PipelineTypes => TypeOK /\ SlotTypes
<1> SUFFICES ASSUME PipelineTypes PROVE TypeOK /\ SlotTypes
  OBVIOUS
<1> USE DEF PipelineTypes
<1>1. segs \in Seq([slot : Slots, steps : Nat]) /\ segs \in Seq([slot : Slots, steps : Int])
  <2>1. Segment \subseteq [slot : Slots, steps : Nat] /\ Segment \subseteq [slot : Slots, steps : Int]
    BY DEF Segment
  <2> QED
    BY <2>1, SeqMonotonic
<1>2. prep \in [loaded : BOOLEAN, recalculate : BOOLEAN, decel_override : BOOLEAN,
                index : Slots, speed : Int, exit : Int, complete : Int,
                decelerate : BOOLEAN]
  BY DEF Preps
<1>3. PrepTyped(prep)
  BY DEF Preps, PrepTyped, PrepFields
<1>4. TypeOK
  BY <1>1, <1>2 DEF TypeOK
<1>5. SlotTypes
  BY <1>1, <1>3 DEF SlotTypes
<1> QED
  BY <1>4, <1>5

\* Speeds are numbers.
LEMMA NominalNat ==
  \A o \in Nat : \A block : block.rate \in Nat => Nominal(block, o) \in Nat
<1>1. \A n \in Nat : Square(n) \in Nat
  BY DEF Square
<1>2. \A m, n \in Nat : m * n \in Nat
  OBVIOUS
<1> QED
  BY <1>1, <1>2 DEF Nominal

\* The highest entry speed is natural.
LEMMA MaxEntryNat == \A j, m, n \in Nat : MaxEntry(j, m, n) \in Nat
  BY DEF MaxEntry, Lowest

\* The greatest of some numbers up to a bound.
LEMMA MaxOf ==
  ASSUME NEW n \in Nat, NEW S \in SUBSET (0 .. n), S # {}
  PROVE  Max(S) \in S /\ \A i \in S : i <= Max(S)
<1> DEFINE N == {m \in Nat : (\E i \in S : i >= n - m) => \E i \in S : \A j \in S : i >= j}
<1>1. 0 \in N
  <2> SUFFICES ASSUME NEW i \in S, i >= n - 0 PROVE \E k \in S : \A j \in S : k >= j
    OBVIOUS
  <2> QED
    OBVIOUS
<1>2. ASSUME NEW m \in Nat, m \in N
      PROVE  m + 1 \in N
  <2> SUFFICES ASSUME NEW i \in S, i >= n - (m + 1), \A k \in S : ~(k >= n - m)
               PROVE  \E k \in S : \A j \in S : k >= j
    BY <1>2
  <2>1. \A j \in S : i >= j
    OBVIOUS
  <2> QED
    BY <2>1
<1> HIDE DEF N
<1>3. n \in N
  BY <1>1, <1>2, Induction
<1>4. \E i \in S : \A j \in S : i >= j
  <2>1. PICK i \in S : TRUE
    OBVIOUS
  <2>2. i >= n - n
    OBVIOUS
  <2>3. (\E k \in S : k >= n - n) => \E k \in S : \A j \in S : k >= j
    BY <1>3 DEF N
  <2> QED
    BY <2>2, <2>3
<1>5. Max(S) = CHOOSE i \in S : \A j \in S : i >= j
  BY DEF Max
<1>6. Max(S) \in S /\ \A j \in S : Max(S) >= j
  BY <1>4, <1>5
<1> QED
  BY <1>6

\* The new planned pointer is an index of the ring.
LEMMA NewPlannedIndex ==
  ASSUME NEW buffer \in [Indices -> Block], NEW h \in Indices, NEW p \in Indices
  PROVE  NewPlanned(buffer, h, p) \in Indices
<1> DEFINE S == Breakpoints(buffer, h, p)
<1>1. LastBlock(h, p) \in Nat /\ LastBlock(h, p) \in Indices
  BY PlannedBlocks, RingAssumption DEF Indices
<1>2. S \in SUBSET (0 .. LastBlock(h, p))
  BY <1>1 DEF Breakpoints
<1>3. S # {} => Max(S) \in S
  BY <1>1, <1>2, MaxOf
<1>4. S # {} => At(p, Max(S)) \in Indices
  BY <1>1, <1>2, <1>3, PlannedBlocks
<1> QED
  BY <1>4 DEF NewPlanned

\* Planning changes entry speeds only.
LEMMA RecalculatedKeeps ==
  ASSUME NEW buffer \in [Indices -> Block], NEW h \in Indices, NEW p \in Indices
  PROVE  /\ Recalculated(buffer, h, p) \in [Indices -> Block]
         /\ \A i \in Indices :
              /\ Recalculated(buffer, h, p)[i].id = buffer[i].id
              /\ Recalculated(buffer, h, p)[i].gain = buffer[i].gain
              /\ Recalculated(buffer, h, p)[i].max = buffer[i].max
              /\ Recalculated(buffer, h, p)[i].rate = buffer[i].rate
              /\ Recalculated(buffer, h, p)[i].junction = buffer[i].junction
              /\ Recalculated(buffer, h, p)[i].entry =
                   IF Distance(p, i) <= LastBlock(h, p)
                   THEN ForwardPass(buffer, h, p)[Distance(p, i)] ELSE buffer[i].entry
<1> DEFINE forward == ForwardPass(buffer, h, p)
           n == LastBlock(h, p)
<1>1. \A i \in Indices : buffer[i] \in Block /\ Distance(p, i) \in Nat
  BY RingInverse, RingAssumption DEF Indices
<1>2. \A i \in Indices : Distance(p, i) <= n => forward[Distance(p, i)] \in Int
  <2>1. n \in Nat
    BY PlannedBlocks, RingAssumption DEF Indices
  <2>2. forward \in [0 .. n -> Int]
    BY ForwardDef
  <2> HIDE DEF forward, n
  <2> QED
    BY <1>1, <2>1, <2>2
<1>3. Recalculated(buffer, h, p) =
        [i \in Indices |-> IF Distance(p, i) <= n
                           THEN [buffer[i] EXCEPT !.entry = forward[Distance(p, i)]]
                           ELSE buffer[i]]
  BY DEF Recalculated
<1> HIDE DEF forward, n
<1>4. \A block \in Block : \A e \in Int :
        /\ [block EXCEPT !.entry = e] \in Block
        /\ [block EXCEPT !.entry = e].id = block.id
        /\ [block EXCEPT !.entry = e].gain = block.gain
        /\ [block EXCEPT !.entry = e].max = block.max
        /\ [block EXCEPT !.entry = e].rate = block.rate
        /\ [block EXCEPT !.entry = e].junction = block.junction
        /\ [block EXCEPT !.entry = e].entry = e
  BY DEF Block
<1> HIDE DEF Block
<1>5. ASSUME NEW i \in Indices
      PROVE  /\ Recalculated(buffer, h, p)[i] \in Block
             /\ Recalculated(buffer, h, p)[i].id = buffer[i].id
             /\ Recalculated(buffer, h, p)[i].gain = buffer[i].gain
             /\ Recalculated(buffer, h, p)[i].max = buffer[i].max
             /\ Recalculated(buffer, h, p)[i].rate = buffer[i].rate
             /\ Recalculated(buffer, h, p)[i].junction = buffer[i].junction
             /\ Recalculated(buffer, h, p)[i].entry =
                  IF Distance(p, i) <= n THEN forward[Distance(p, i)] ELSE buffer[i].entry
  <2>1. CASE Distance(p, i) <= n
    <3>1. Recalculated(buffer, h, p)[i] = [buffer[i] EXCEPT !.entry = forward[Distance(p, i)]]
      BY <1>3, <2>1
    <3> QED
      BY <1>1, <1>2, <1>4, <2>1, <3>1
  <2>2. CASE ~(Distance(p, i) <= n)
    <3>1. Recalculated(buffer, h, p)[i] = buffer[i]
      BY <1>3, <2>2
    <3> QED
      BY <1>1, <2>2, <3>1
  <2> QED
    BY <2>1, <2>2
<1>6. Recalculated(buffer, h, p) \in [Indices -> Block]
  BY <1>3, <1>5
<1> QED
  BY <1>5, <1>6 DEF forward, n

\* An update of the block in execution changes its entry speed only.
LEMMA UpdatedKeeps ==
  ASSUME PipelineTypes, NEW buffer \in [Indices -> Block]
  PROVE  /\ Updated(buffer) \in [Indices -> Block]
         /\ \A i \in Indices :
              /\ Updated(buffer)[i].id = buffer[i].id
              /\ Updated(buffer)[i].gain = buffer[i].gain
              /\ Updated(buffer)[i].max = buffer[i].max
              /\ Updated(buffer)[i].rate = buffer[i].rate
              /\ Updated(buffer)[i].junction = buffer[i].junction
              /\ Updated(buffer)[i].entry =
                   IF prep.loaded /\ i = tail THEN prep.speed ELSE buffer[i].entry
<1>1. prep.speed \in Int /\ tail \in Indices /\ \A i \in Indices : buffer[i] \in Block
  BY DEF PipelineTypes, Preps
<1>2. \A block \in Block : \A e \in Int :
        /\ [block EXCEPT !.entry = e] \in Block
        /\ [block EXCEPT !.entry = e].id = block.id
        /\ [block EXCEPT !.entry = e].gain = block.gain
        /\ [block EXCEPT !.entry = e].max = block.max
        /\ [block EXCEPT !.entry = e].rate = block.rate
        /\ [block EXCEPT !.entry = e].junction = block.junction
        /\ [block EXCEPT !.entry = e].entry = e
  BY DEF Block
<1>3. CASE prep.loaded
  <2>1. Updated(buffer) = [buffer EXCEPT ![tail] = [buffer[tail] EXCEPT !.entry = prep.speed]]
    BY <1>3 DEF Updated
  <2> DEFINE new == [buffer[tail] EXCEPT !.entry = prep.speed]
  <2>2. /\ new \in Block /\ new.id = buffer[tail].id /\ new.gain = buffer[tail].gain
        /\ new.max = buffer[tail].max /\ new.rate = buffer[tail].rate
        /\ new.junction = buffer[tail].junction /\ new.entry = prep.speed
    BY <1>1, <1>2
  <2> HIDE DEF new
  <2>3. Updated(buffer) = [buffer EXCEPT ![tail] = new]
    BY <2>1 DEF new
  <2> QED
    BY <1>1, <1>3, <2>2, <2>3
<1>4. CASE ~prep.loaded
  BY <1>4 DEF Updated
<1> QED
  BY <1>3, <1>4
\* Loading gives a generator a typed profile.
LEMMA CurrentTyped == PipelineTypes => Current \in Preps /\ block_buffer[tail] \in Block
<1> SUFFICES ASSUME PipelineTypes PROVE Current \in Preps /\ block_buffer[tail] \in Block
  OBVIOUS
<1>1. prep \in Preps /\ block_buffer[tail] \in Block
  BY DEF PipelineTypes
<1>2. /\ prep.exit \in Int /\ prep.speed \in Int /\ prep.index \in Slots
      /\ prep.recalculate \in BOOLEAN /\ prep.decel_override \in BOOLEAN
      /\ execute_hold \in BOOLEAN
  BY <1>1 DEF Preps, PipelineTypes
<1>3. block_buffer[tail].entry \in Int /\ block_buffer[tail].gain \in Nat
  BY <1>1 DEF Block
<1>4. Nominal(block_buffer[tail], override) \in Int
  <2>1. override \in Nat /\ block_buffer[tail].rate \in Nat
    BY <1>1, MotionAssumption DEF PipelineTypes, Block
  <2> QED
    BY <2>1, NominalNat
<1>5. ExitSpeed(block_buffer) \in Int
  <2>1. plan_next_block_index(tail) \in Indices
    BY RingIndex DEF PipelineTypes
  <2>2. block_buffer[plan_next_block_index(tail)].entry \in Int
    BY <2>1 DEF PipelineTypes, Block
  <2> QED
    BY <2>2 DEF ExitSpeed
<1>6. st_next_block_index(prep.index) \in Slots
  BY <1>2, NextSlot
<1>7. Loaded(block_buffer[tail]) \in Preps
  <2> DEFINE block == block_buffer[tail]
             fresh == ~prep.recalculate
             forced == fresh /\ (execute_hold \/ prep.decel_override)
             entry == IF forced THEN prep.exit ELSE block.entry
             reach == block.gain
             nominal == Nominal(block, override)
             exit == ExitSpeed(block_buffer)
             slow == ~execute_hold /\ entry > nominal /\ entry - nominal >= reach
             beyond == execute_hold /\ entry > reach
  <2>1. entry \in Int /\ reach \in Nat /\ nominal \in Int /\ exit \in Int
    BY <1>2, <1>3, <1>4, <1>5
  <2>2. slow \in BOOLEAN /\ beyond \in BOOLEAN /\ fresh \in BOOLEAN
    OBVIOUS
  <2>3. (IF fresh THEN st_next_block_index(prep.index) ELSE prep.index) \in Slots
    BY <1>2, <1>6
  <2>4. (IF execute_hold /\ ~beyond THEN reach - entry ELSE 0) \in Nat
    <3> HIDE DEF entry, reach
    <3> QED
      BY <2>1
  <2>5. (IF slow \/ beyond THEN entry - reach ELSE IF execute_hold THEN 0 ELSE exit) \in Int
    <3> HIDE DEF entry, reach, exit, slow
    <3> QED
      BY <2>1
  <2>6. (IF fresh THEN entry ELSE prep.speed) \in Int
    BY <1>2, <2>1
  <2>7. (execute_hold \/ slow \/ (entry <= nominal /\ entry - exit >= reach)) \in BOOLEAN
    OBVIOUS
  <2>8. Loaded(block_buffer[tail]) =
          [loaded |-> TRUE, recalculate |-> FALSE, decel_override |-> slow,
           index |-> IF fresh THEN st_next_block_index(prep.index) ELSE prep.index,
           speed |-> IF fresh THEN entry ELSE prep.speed,
           exit |-> IF slow \/ beyond THEN entry - reach ELSE IF execute_hold THEN 0 ELSE exit,
           complete |-> IF execute_hold /\ ~beyond THEN reach - entry ELSE 0,
           decelerate |-> execute_hold \/ slow \/ (entry <= nominal /\ entry - exit >= reach)]
    BY DEF Loaded
  <2> HIDE DEF block, fresh, forced, entry, reach, nominal, exit, slow, beyond
  <2> QED
    BY <2>2, <2>3, <2>4, <2>5, <2>6, <2>7, <2>8 DEF Preps
<1> QED
  BY <1>1, <1>7 DEF Current

\* Unloading the block keeps the generator's types.
LEMMA UnloadedTyped == prep \in Preps => Unloaded \in Preps
<1> SUFFICES ASSUME prep \in Preps PROVE Unloaded \in Preps
  OBVIOUS
<1>1. (prep.recalculate \/ prep.loaded) \in BOOLEAN
  OBVIOUS
<1> QED
  BY <1>1 DEF Unloaded, Preps

\* A profile gives a number as speed.
LEMMA SpeedTyped ==
  ASSUME NEW p \in Preps, NEW d \in Int, NEW left \in Int, NEW nominal \in Int
  PROVE  SpeedAfter(p, d, left, nominal) \in Int
  BY DEF Preps, SpeedAfter, Lowest

\* plan_buffer_line makes a block.
LEMMA NewBlockTyped ==
  ASSUME PipelineTypes, NEW line \in Lines, NEW id \in 0 .. MaxMotions
  PROVE  /\ NewBlock(line, id) \in Block
         /\ NewBlock(line, id).id = id /\ NewBlock(line, id).gain = line.gain
         /\ Nominal(line, override) \in Nat
<1>1. /\ line.gain \in Nat /\ line.junction \in Nat /\ line.rate \in Nat
      /\ override \in Nat /\ previous_nominal \in Nat
  BY MotionAssumption DEF PipelineTypes
<1>2. Nominal(line, override) \in Nat
  BY <1>1, NominalNat
<1>3. MaxEntry(IF Empty THEN 0 ELSE line.junction, Nominal(line, override), previous_nominal) \in Nat
  BY <1>1, <1>2, MaxEntryNat
<1> QED
  BY <1>1, <1>2, <1>3 DEF NewBlock, Block

\* A new override changes the maxima only.
LEMMA ReprofiledKeeps ==
  ASSUME PipelineTypes, NEW o \in Overrides
  PROVE  /\ Reprofiled(o) \in [Indices -> Block]
         /\ \A i \in Indices : /\ Reprofiled(o)[i].id = block_buffer[i].id
                               /\ Reprofiled(o)[i].gain = block_buffer[i].gain
         /\ LastNominal(o) \in Nat
<1>1. /\ o \in Nat /\ SOME_LARGE_VALUE \in Nat
      /\ \A i \in Indices : block_buffer[i] \in Block
  BY MotionAssumption DEF PipelineTypes, SOME_LARGE_VALUE
<1>2. \A block \in Block : block.rate \in Nat /\ block.junction \in Nat
  BY DEF Block
<1>3. \A i \in Indices : Nominal(block_buffer[i], o) \in Nat
  BY <1>1, <1>2, NominalNat
<1>4. LastNominal(o) \in Nat
  BY <1>1, <1>3, RingIndex DEF LastNominal, PipelineTypes
<1> DEFINE max(i) == MaxEntry(block_buffer[i].junction, Nominal(block_buffer[i], o),
                       IF i = tail THEN SOME_LARGE_VALUE
                       ELSE Nominal(block_buffer[plan_prev_block_index(i)], o))
<1>6. \A i \in Indices : max(i) \in Nat
  <2> SUFFICES ASSUME NEW i \in Indices PROVE max(i) \in Nat
    OBVIOUS
  <2>1. plan_prev_block_index(i) \in Indices
    BY RingIndex
  <2>2. (IF i = tail THEN SOME_LARGE_VALUE
         ELSE Nominal(block_buffer[plan_prev_block_index(i)], o)) \in Nat
    BY <1>1, <1>3, <2>1
  <2>3. block_buffer[i].junction \in Nat /\ Nominal(block_buffer[i], o) \in Nat
    BY <1>1, <1>2, <1>3
  <2> HIDE DEF max
  <2>4. \A j, m, n \in Nat : MaxEntry(j, m, n) \in Nat
    BY MaxEntryNat
  <2> QED
    BY <2>2, <2>3, <2>4 DEF max
<1>7. Reprofiled(o) = [i \in Indices |->
        IF Distance(tail, i) < Distance(tail, head)
        THEN [block_buffer[i] EXCEPT !.max = max(i)] ELSE block_buffer[i]]
  BY DEF Reprofiled
<1> HIDE DEF max
<1>8. ASSUME NEW i \in Indices
      PROVE  /\ Reprofiled(o)[i] \in Block
             /\ Reprofiled(o)[i].id = block_buffer[i].id
             /\ Reprofiled(o)[i].gain = block_buffer[i].gain
  <2>1. Reprofiled(o)[i] = block_buffer[i]
        \/ Reprofiled(o)[i] = [block_buffer[i] EXCEPT !.max = max(i)]
    BY <1>7
  <2>2. PICK e \in Nat : e = max(i)
    BY <1>6
  <2>3. block_buffer[i] \in Block
    BY <1>1
  <2> DEFINE new == [block_buffer[i] EXCEPT !.max = e]
  <2>4. new \in Block /\ new.id = block_buffer[i].id /\ new.gain = block_buffer[i].gain
    BY <2>3 DEF Block
  <2>5. Reprofiled(o)[i] = block_buffer[i] \/ Reprofiled(o)[i] = new
    BY <2>1, <2>2
  <2> HIDE DEF new
  <2> QED
    BY <2>3, <2>4, <2>5
<1>9. Reprofiled(o) \in [Indices -> Block]
  BY <1>7, <1>8
<1> QED
  BY <1>4, <1>8, <1>9

\* A plan changes neither the motions nor their lengths.
LEMMA RecalculatedSame ==
  ASSUME NEW buffer \in [Indices -> Block], NEW h \in Indices, NEW p \in Indices
  PROVE  /\ Recalculated(buffer, h, p) \in [Indices -> Block]
         /\ \A i \in Indices : /\ Recalculated(buffer, h, p)[i].id = buffer[i].id
                               /\ Recalculated(buffer, h, p)[i].gain = buffer[i].gain
<1>1. Recalculated(buffer, h, p) \in [Indices -> Block]
  BY RecalculatedKeeps
<1>2. ASSUME NEW i \in Indices
      PROVE  /\ Recalculated(buffer, h, p)[i].id = buffer[i].id
             /\ Recalculated(buffer, h, p)[i].gain = buffer[i].gain
  BY RecalculatedKeeps
<1> QED
  BY <1>1, <1>2

\* The types of every step.
LEMMA TypesPlanned ==
  ASSUME PipelineTypes, NEW buffer \in [Indices -> Block], NEW h \in Indices,
         planner_recalculate(buffer, h) \/ (plan_cycle_reinitialize(buffer) /\ h = head)
  PROVE  /\ block_buffer' \in [Indices -> Block] /\ planned' \in Indices /\ prep' \in Preps
         /\ prep' = prep \/ prep' = Unloaded
         /\ \A i \in Indices : /\ block_buffer'[i].id = buffer[i].id
                               /\ block_buffer'[i].gain = buffer[i].gain
<1>1. prep \in Preps /\ Unloaded \in Preps /\ planned \in Indices /\ tail \in Indices
      /\ head \in Indices
  BY UnloadedTyped DEF PipelineTypes
<1>2. CASE planner_recalculate(buffer, h)
  <2>1. PICK current \in {Updated(buffer), buffer} :
          /\ block_buffer' = Recalculated(current, h, planned)
          /\ planned' = NewPlanned(current, h, planned)
          /\ prep' = prep \/ prep' = Unloaded
    BY <1>2 DEF planner_recalculate
  <2>2. /\ current \in [Indices -> Block]
        /\ \A i \in Indices : current[i].id = buffer[i].id /\ current[i].gain = buffer[i].gain
    BY <2>1, UpdatedKeeps
  <2>3. NewPlanned(current, h, planned) \in Indices
    BY <1>1, <2>2, NewPlannedIndex
  <2>4. /\ Recalculated(current, h, planned) \in [Indices -> Block]
        /\ \A i \in Indices :
             /\ Recalculated(current, h, planned)[i].id = current[i].id
             /\ Recalculated(current, h, planned)[i].gain = current[i].gain
    <3>1. planned \in Indices /\ h \in Indices /\ current \in [Indices -> Block]
      BY <1>1, <2>2
    <3> QED
      BY ONLY <3>1, RecalculatedSame
  <2>5. /\ block_buffer' \in [Indices -> Block] /\ planned' \in Indices
        /\ \A i \in Indices : /\ block_buffer'[i].id = current[i].id
                              /\ block_buffer'[i].gain = current[i].gain
    BY <2>1, <2>3, <2>4
  <2> HIDE DEF Preps, Block
  <2>6. prep' \in Preps
    BY <1>1, <2>1
  <2>7. \A i \in Indices : /\ block_buffer'[i].id = buffer[i].id
                           /\ block_buffer'[i].gain = buffer[i].gain
    BY <2>2, <2>5
  <2> QED
    BY <2>1, <2>5, <2>6, <2>7
<1>3. CASE plan_cycle_reinitialize(buffer)
  <2>1. /\ block_buffer' = Recalculated(Updated(buffer), head, tail)
        /\ planned' = NewPlanned(Updated(buffer), head, tail)
        /\ prep' = Unloaded
    BY <1>3 DEF plan_cycle_reinitialize
  <2>2. /\ Updated(buffer) \in [Indices -> Block]
        /\ \A i \in Indices : /\ Updated(buffer)[i].id = buffer[i].id
                              /\ Updated(buffer)[i].gain = buffer[i].gain
    BY UpdatedKeeps
  <2>3. PICK current \in [Indices -> Block] : current = Updated(buffer)
    BY <2>2
  <2>4. NewPlanned(current, head, tail) \in Indices
    BY ONLY <1>1, NewPlannedIndex
  <2>5. /\ Recalculated(current, head, tail) \in [Indices -> Block]
        /\ \A i \in Indices :
             /\ Recalculated(current, head, tail)[i].id = current[i].id
             /\ Recalculated(current, head, tail)[i].gain = current[i].gain
    <3>1. head \in Indices /\ tail \in Indices /\ current \in [Indices -> Block]
      BY <1>1, <2>3
    <3> QED
      BY ONLY <3>1, RecalculatedSame
  <2> HIDE DEF Block, Preps
  <2>6. block_buffer' \in [Indices -> Block] /\ planned' \in Indices /\ prep' \in Preps
    BY <1>1, <2>1, <2>3, <2>4, <2>5
  <2>7. \A i \in Indices : /\ block_buffer'[i].id = buffer[i].id
                           /\ block_buffer'[i].gain = buffer[i].gain
    BY <2>1, <2>2, <2>3, <2>5
  <2> QED
    BY <2>1, <2>6, <2>7
<1> QED
  BY <1>2, <1>3

\* The part of a segment of d steps in the state that follows.
SegmentMade(d) ==
  LET left == block_buffer[tail].gain - d
      speed == SpeedAfter(Current, d, left, Nominal(block_buffer[tail], override))
  IN  /\ d \in 1 .. (block_buffer[tail].gain - Current.complete)
      /\ segs' = Append(segs, [slot |-> Current.index, steps |-> d])
      /\ block_buffer' = [block_buffer EXCEPT ![tail].gain = left, ![tail].entry = LoadedEntry]
      /\ prep' = [Current EXCEPT !.speed = speed, !.loaded = (left > 0)]
      /\ end_motion' = (left > 0 /\ left = Current.complete)
      /\ IF left = 0 THEN Discard ELSE UNCHANGED <<tail, planned>>

\* What a segment of d steps leaves of the block at the tail.
LEMMA SegmentEffect ==
  ASSUME PipelineTypes, NEW d, SegmentMade(d)
  PROVE  /\ d \in Nat \ {0} /\ block_buffer[tail].gain - d \in Nat
         /\ Current.index \in Slots
         /\ block_buffer' \in [Indices -> Block]
         /\ \A i \in Indices :
              /\ block_buffer'[i].id = block_buffer[i].id
              /\ block_buffer'[i].gain =
                   IF i = tail THEN block_buffer[i].gain - d ELSE block_buffer[i].gain
              /\ i # tail => block_buffer'[i] = block_buffer[i]
         /\ prep' \in Preps /\ prep'.index = Current.index
         /\ prep'.recalculate = Current.recalculate
         /\ prep'.loaded <=> block_buffer[tail].gain - d > 0
<1> DEFINE block == block_buffer[tail]
           left == block.gain - d
           nominal == Nominal(block, override)
<1>1. Current \in Preps /\ block \in Block /\ tail \in Indices
  BY CurrentTyped DEF PipelineTypes
<1>2. Current.complete \in Nat /\ Current.index \in Slots /\ Current.speed \in Int
      /\ block.gain \in Nat /\ block.entry \in Int /\ block.rate \in Nat
  BY <1>1 DEF Preps, Block
<1>3. d \in 1 .. (block.gain - Current.complete)
  BY DEF SegmentMade
<1>4. d \in Nat \ {0} /\ left \in Nat
  BY <1>2, <1>3
<1>5. LoadedEntry \in Int
  BY <1>2 DEF LoadedEntry
<1>6. nominal \in Int
  <2>1. override \in Nat
    BY MotionAssumption DEF PipelineTypes
  <2> QED
    BY <1>2, <2>1, NominalNat
<1>7. SpeedAfter(Current, d, left, nominal) \in Int
  <2> HIDE DEF left, nominal
  <2> QED
    BY <1>1, <1>4, <1>6, SpeedTyped
<1> DEFINE new == [block EXCEPT !.gain = left, !.entry = LoadedEntry]
<1>9. new \in Block /\ new.id = block.id /\ new.gain = left
  <2> HIDE DEF block, left
  <2> QED
    BY <1>1, <1>4, <1>5 DEF Block
<1>10. block_buffer' = [block_buffer EXCEPT ![tail] = new]
  <2>1. block_buffer' = [block_buffer EXCEPT ![tail].gain = left, ![tail].entry = LoadedEntry]
    BY DEF SegmentMade
  <2>2. block_buffer \in [Indices -> Block]
    BY DEF PipelineTypes
  <2> QED
    BY <1>1, <2>1, <2>2 DEF Block
<1>11. /\ block_buffer' \in [Indices -> Block]
       /\ \A i \in Indices : block_buffer'[i] = IF i = tail THEN new ELSE block_buffer[i]
  <2> HIDE DEF new
  <2> QED
    BY <1>1, <1>9, <1>10 DEF PipelineTypes
<1>12. prep' = [Current EXCEPT !.speed = SpeedAfter(Current, d, left, nominal),
                               !.loaded = (left > 0)]
  BY DEF SegmentMade
<1>14. /\ prep' \in Preps /\ prep'.index = Current.index
       /\ prep'.recalculate = Current.recalculate /\ prep'.loaded = (left > 0)
  <2>1. PICK v \in Int : v = SpeedAfter(Current, d, left, nominal)
    BY <1>7
  <2>2. \E b \in BOOLEAN : b = (left > 0)
    <3>1. CASE left > 0
      <4>1. (left > 0) = TRUE
        BY <3>1
      <4> QED
        BY <4>1
    <3>2. CASE ~(left > 0)
      <4>1. (left > 0) = FALSE
        BY <3>2
      <4> QED
        BY <4>1
    <3> QED
      BY <3>1, <3>2
  <2>3. PICK b \in BOOLEAN : b = (left > 0)
    BY <2>2
  <2>4. prep' = [Current EXCEPT !.speed = v, !.loaded = b]
    BY <1>12, <2>1, <2>3
  <2> HIDE DEF left, nominal
  <2> QED
    BY <1>1, <2>3, <2>4 DEF Preps
<1> QED
  BY <1>2, <1>4, <1>9, <1>11, <1>14

\* A hold that ends before the first step.
LEMMA StandstillEffect ==
  ASSUME PipelineTypes,
         block_buffer' = [block_buffer EXCEPT ![tail].entry = LoadedEntry],
         prep' = [Current EXCEPT !.speed = 0]
  PROVE  /\ block_buffer' \in [Indices -> Block]
         /\ \A i \in Indices : /\ block_buffer'[i].id = block_buffer[i].id
                               /\ block_buffer'[i].gain = block_buffer[i].gain
         /\ prep' \in Preps /\ prep'.index = Current.index /\ prep'.loaded = Current.loaded
<1>1. Current \in Preps /\ block_buffer[tail] \in Block /\ tail \in Indices
  BY CurrentTyped DEF PipelineTypes
<1>2. Current.speed \in Int /\ block_buffer[tail].entry \in Int
  BY <1>1 DEF Preps, Block
<1>3. LoadedEntry \in Int
  BY <1>2 DEF LoadedEntry
<1> DEFINE new == [block_buffer[tail] EXCEPT !.entry = LoadedEntry]
<1>4. new \in Block /\ new.id = block_buffer[tail].id /\ new.gain = block_buffer[tail].gain
  BY <1>1, <1>3 DEF Block
<1>5. block_buffer' = [block_buffer EXCEPT ![tail] = new]
  BY DEF PipelineTypes
<1>6. /\ block_buffer' \in [Indices -> Block]
      /\ \A i \in Indices : block_buffer'[i] = IF i = tail THEN new ELSE block_buffer[i]
  <2> HIDE DEF new
  <2> QED
    BY <1>1, <1>4, <1>5 DEF PipelineTypes
<1>7. prep' \in Preps /\ prep'.index = Current.index /\ prep'.loaded = Current.loaded
  BY <1>1 DEF Preps
<1> QED
  BY <1>4, <1>6, <1>7

-----------------------------------------------------------------------------
\* What one pass of the generator's loop leaves typed.
LEMMA PassTyped ==
  ASSUME PipelineTypes, LoadSlot, Continue
  PROVE  /\ st_block_buffer' \in [Slots -> 0 .. MaxMotions]
         /\ prepping' \in {"no", "refill", "start"} /\ stepping' \in BOOLEAN
<1>1. Current \in Preps /\ block_buffer[tail] \in Block
  BY CurrentTyped
<1>2. Current.index \in Slots /\ block_buffer[tail].id \in 0 .. MaxMotions
  BY <1>1 DEF Preps, Block
<1>3. st_block_buffer' \in [Slots -> 0 .. MaxMotions]
  <2>1. st_block_buffer \in [Slots -> 0 .. MaxMotions]
    BY DEF PipelineTypes
  <2>2. st_block_buffer' = st_block_buffer \/ st_block_buffer' =
          [st_block_buffer EXCEPT ![Current.index] = block_buffer[tail].id]
    BY DEF LoadSlot
  <2> QED
    BY <1>2, <2>1, <2>2
<1>4. prepping' \in {"no", "refill", "start"}
  BY DEF Continue, PipelineTypes
<1>5. stepping' \in BOOLEAN
  BY DEF Continue
<1> QED
  BY <1>3, <1>4, <1>5

\* st_prep_buffer keeps the types when it makes a segment.
LEMMA TypesPrepSegment ==
  ASSUME PipelineTypes, PrepSegment
  PROVE  PipelineTypes'
<1>1. PICK d : SegmentMade(d)
  BY DEF PrepSegment, SegmentMade
<1>2. /\ LoadSlot /\ Continue /\ ~SegmentsFull /\ head' = head
      /\ UNCHANGED <<previous_nominal, override, executing, exec_block_index, counters,
                     cycle_stop, mode, execute_hold, hold_complete, sent, starved, reduced>>
  BY DEF PrepSegment, CanPrep, historyVars
<1>3. /\ d \in Nat \ {0} /\ Current.index \in Slots
      /\ block_buffer' \in [Indices -> Block] /\ prep' \in Preps
  BY <1>1, SegmentEffect
<1>4. segs' \in Seq(Segment) /\ Len(segs') < SEGMENT_BUFFER_SIZE
  <2>1. segs' = Append(segs, [slot |-> Current.index, steps |-> d])
    BY <1>1 DEF SegmentMade
  <2>2. [slot |-> Current.index, steps |-> d] \in Segment
    BY <1>3 DEF Segment
  <2>3. segs \in Seq(Segment) /\ Len(segs) < SEGMENT_BUFFER_SIZE
        /\ Len(segs) # SEGMENT_BUFFER_SIZE - 1
    BY <1>2 DEF PipelineTypes, SegmentsFull
  <2>4. segs' \in Seq(Segment) /\ Len(segs') = Len(segs) + 1 /\ Len(segs) \in Nat
    BY <2>1, <2>2, <2>3, AppendProperties
  <2> QED
    BY <2>3, <2>4, SegmentAssumption
<1>5. end_motion' \in BOOLEAN
  BY <1>1 DEF SegmentMade
<1>6. tail' \in Indices /\ planned' \in Indices
  <2>1. tail \in Indices /\ planned \in Indices /\ plan_next_block_index(tail) \in Indices
    BY RingIndex DEF PipelineTypes
  <2>2. Discard \/ UNCHANGED <<tail, planned>>
    BY <1>1 DEF SegmentMade
  <2> QED
    BY <2>1, <2>2 DEF Discard
<1>7. /\ st_block_buffer' \in [Slots -> 0 .. MaxMotions]
      /\ prepping' \in {"no", "refill", "start"} /\ stepping' \in BOOLEAN
  BY <1>2, PassTyped
<1> QED
  BY <1>2, <1>3, <1>4, <1>5, <1>6, <1>7 DEF PipelineTypes

\* So it does when a hold ends before the first step of the block.
LEMMA TypesPrepStandstill ==
  ASSUME PipelineTypes, PrepStandstill
  PROVE  PipelineTypes'
<1>1. /\ LoadSlot /\ Continue /\ end_motion' = TRUE
      /\ UNCHANGED <<tail, head, planned, segs>>
      /\ UNCHANGED <<previous_nominal, override, executing, exec_block_index, counters,
                     cycle_stop, mode, execute_hold, hold_complete, sent, starved, reduced>>
  BY DEF PrepStandstill, historyVars
<1>2. block_buffer' \in [Indices -> Block] /\ prep' \in Preps
  BY StandstillEffect DEF PrepStandstill
<1>3. /\ st_block_buffer' \in [Slots -> 0 .. MaxMotions]
      /\ prepping' \in {"no", "refill", "start"} /\ stepping' \in BOOLEAN
  BY <1>1, PassTyped
<1> QED
  BY <1>1, <1>2, <1>3 DEF PipelineTypes

\* The stepper interrupt keeps the types.
LEMMA TypesInterrupt ==
  ASSUME PipelineTypes, Interrupt
  PROVE  PipelineTypes'
<1>1. CASE IsrLoad
  <2>1. Head(segs).slot \in Slots
    BY <1>1, TypesImply, SegmentSlot DEF IsrLoad
  <2>2. exec_block_index' \in Slots /\ counters' \in 0 .. MaxMotions /\ executing' = TRUE
    BY <1>1, <2>1 DEF IsrLoad, PipelineTypes
  <2> QED
    BY <1>1, <2>2 DEF IsrLoad, PipelineTypes, plannerVars, modeVars, historyVars
<1>2. CASE IsrDone
  <2>1. segs \in Seq(Segment) /\ segs' = Tail(segs) /\ executing' = FALSE
    BY <1>2 DEF IsrDone, PipelineTypes
  <2>2. segs' \in Seq(Segment) /\ Len(segs') <= Len(segs) /\ Len(segs') \in Nat /\ Len(segs) \in Nat
    <3>1. CASE segs = <<>>
      <4>1. Tail(segs) = <<>>
        BY <3>1
      <4> QED
        BY <2>1, <3>1, <4>1
    <3>2. CASE segs # <<>>
      BY <2>1, <3>2
    <3> QED
      BY <3>1, <3>2
  <2>3. Len(segs') < SEGMENT_BUFFER_SIZE
    BY <2>2, SegmentAssumption DEF PipelineTypes
  <2> QED
    BY <1>2, <2>1, <2>2, <2>3 DEF IsrDone, PipelineTypes, plannerVars, modeVars, historyVars
<1>3. CASE IsrEmpty
  <2>1. starved' \in BOOLEAN /\ stepping' = FALSE /\ cycle_stop' = TRUE
    BY <1>3 DEF IsrEmpty
  <2> QED
    BY <1>3, <2>1 DEF IsrEmpty, PipelineTypes, plannerVars, modeVars, historyVars
<1> QED
  BY <1>1, <1>2, <1>3 DEF Interrupt

\* So does a line that is planned.
LEMMA TypesBufferLine ==
  ASSUME PipelineTypes, BufferLine
  PROVE  PipelineTypes'
<1>1. PICK line \in Lines :
        /\ planner_recalculate([block_buffer EXCEPT ![head] = NewBlock(line, sent + 1)],
                               plan_next_block_index(head))
        /\ previous_nominal' = Nominal(line, override)
  BY DEF BufferLine
<1>2. sent + 1 \in 0 .. MaxMotions /\ head \in Indices /\ plan_next_block_index(head) \in Indices
  BY RingIndex, SegmentAssumption DEF BufferLine, PipelineTypes
<1> DEFINE buffer == [block_buffer EXCEPT ![head] = NewBlock(line, sent + 1)]
<1>3. NewBlock(line, sent + 1) \in Block /\ previous_nominal' \in Nat
  BY <1>1, <1>2, NewBlockTyped
<1>4. buffer \in [Indices -> Block]
  <2> HIDE DEF Block
  <2> QED
    BY <1>3 DEF PipelineTypes
<1>5. block_buffer' \in [Indices -> Block] /\ planned' \in Indices /\ prep' \in Preps
  <2> HIDE DEF buffer
  <2>1. planner_recalculate(buffer, plan_next_block_index(head))
    BY <1>1 DEF buffer
  <2> QED
    BY <1>2, <1>4, <2>1, TypesPlanned
<1> QED
  BY <1>2, <1>3, <1>5 DEF BufferLine, PipelineTypes, isrVars, modeVars, historyVars

\* So does a line without length.
LEMMA TypesBufferNothing ==
  ASSUME PipelineTypes, BufferNothing
  PROVE  PipelineTypes'
<1>1. NoBlock \in Block
  BY SegmentAssumption DEF NoBlock, Block
<1>2. block_buffer' \in [Indices -> Block]
  <2> HIDE DEF Block, NoBlock
  <2> QED
    BY <1>1 DEF PipelineTypes, BufferNothing
<1> QED
  BY <1>2 DEF BufferNothing, PipelineTypes, isrVars, modeVars, historyVars

\* So does a change of the override.
LEMMA TypesChangeOverride ==
  ASSUME PipelineTypes, ChangeOverride
  PROVE  PipelineTypes'
<1>1. PICK o \in Overrides :
        /\ override' = o
        /\ previous_nominal' = LastNominal(o)
        /\ plan_cycle_reinitialize(Reprofiled(o))
        /\ reduced' = (reduced \/ (o < override /\ ~Empty))
  BY DEF ChangeOverride
<1>2. Reprofiled(o) \in [Indices -> Block] /\ LastNominal(o) \in Nat
  BY ReprofiledKeeps
<1>3. block_buffer' \in [Indices -> Block] /\ planned' \in Indices /\ prep' \in Preps
  <2>1. head \in Indices
    BY DEF PipelineTypes
  <2> QED
    BY <1>1, <1>2, <2>1, TypesPlanned
<1>4. reduced' \in BOOLEAN
  BY <1>1
<1> QED
  BY <1>1, <1>2, <1>3, <1>4 DEF ChangeOverride, PipelineTypes, isrVars, modeVars

\* So does a feed hold.
LEMMA TypesHold ==
  ASSUME PipelineTypes, Hold
  PROVE  PipelineTypes'
<1>1. block_buffer \in [Indices -> Block] /\ prep \in Preps
  BY DEF PipelineTypes
<1>2. Updated(block_buffer) \in [Indices -> Block] /\ Unloaded \in Preps
  BY <1>1, UpdatedKeeps, UnloadedTyped
<1>3. block_buffer' \in [Indices -> Block] /\ prep' \in Preps
  BY <1>1, <1>2 DEF Hold
<1>4. execute_hold' \in BOOLEAN /\ end_motion' \in BOOLEAN /\ hold_complete' \in BOOLEAN
      /\ mode' = "HOLD"
  BY DEF Hold, PipelineTypes
<1> QED
  BY <1>3, <1>4 DEF Hold, PipelineTypes, isrVars, historyVars

\* So does a cycle start.
LEMMA TypesStart ==
  ASSUME PipelineTypes, Start
  PROVE  PipelineTypes'
<1>1. stepping' \in BOOLEAN
  BY DEF Start
<1>2. mode' \in {"IDLE", "CYCLE", "HOLD"} /\ prepping' \in {"no", "refill", "start"}
  BY DEF Start
<1>3. execute_hold' = FALSE /\ end_motion' = FALSE /\ hold_complete' = FALSE
  BY DEF Start
<1> QED
  BY <1>1, <1>2, <1>3 DEF Start, PipelineTypes, plannerVars, historyVars

\* So does the end of a cycle.
LEMMA TypesCycleStop ==
  ASSUME PipelineTypes, CycleStop
  PROVE  PipelineTypes'
<1>1. block_buffer \in [Indices -> Block] /\ planned \in Indices /\ prep \in Preps
      /\ head \in Indices
  BY DEF PipelineTypes
<1>2. block_buffer' \in [Indices -> Block] /\ planned' \in Indices /\ prep' \in Preps
  <2>1. CASE mode = "HOLD"
    BY <1>1, <2>1, TypesPlanned DEF CycleStop
  <2>2. CASE mode # "HOLD"
    BY <1>1, <2>2 DEF CycleStop
  <2> QED
    BY <2>1, <2>2
<1>3. hold_complete' \in BOOLEAN /\ execute_hold' \in BOOLEAN /\ cycle_stop' = FALSE
      /\ mode' \in {"IDLE", "CYCLE", "HOLD"}
  <2>1. CASE mode = "HOLD"
    BY <2>1 DEF CycleStop, PipelineTypes
  <2>2. CASE mode # "HOLD"
    BY <2>2 DEF CycleStop, PipelineTypes
  <2> QED
    BY <2>1, <2>2
<1> QED
  BY <1>2, <1>3 DEF CycleStop, PipelineTypes, historyVars

\* st_reset makes a state of the generator.
LEMMA PrepResetTyped == PrepReset \in Preps
  BY SegmentAssumption DEF PrepReset, Preps, Slots

\* A flush keeps the types.
LEMMA TypesFlush ==
  ASSUME PipelineTypes, Flush
  PROVE  PipelineTypes'
<1>1. 0 \in Indices /\ 0 \in Slots /\ 0 \in 0 .. MaxMotions /\ <<>> \in Seq(Segment)
      /\ Len(<<>>) < SEGMENT_BUFFER_SIZE
  BY RingAssumption, SegmentAssumption DEF Indices, Slots
<1>2. tail' \in Indices /\ head' \in Indices /\ planned' \in Indices /\ previous_nominal' \in Nat
  BY <1>1 DEF Flush, PlanReset
<1>3. /\ segs' \in Seq(Segment) /\ Len(segs') < SEGMENT_BUFFER_SIZE
      /\ prep' \in Preps /\ stepping' = FALSE /\ executing' = FALSE
      /\ exec_block_index' \in Slots /\ counters' \in 0 .. MaxMotions
  BY <1>1, PrepResetTyped DEF Flush, StReset
<1>4. override' \in Overrides
  BY MotionAssumption DEF Flush, PipelineTypes
<1> QED
  BY <1>2, <1>3, <1>4 DEF Flush, PipelineTypes

\* The types hold at the start.
LEMMA TypesInit == Init => PipelineTypes
<1> SUFFICES ASSUME Init PROVE PipelineTypes
  OBVIOUS
<1>1. 0 \in Indices /\ 0 \in Slots /\ 0 \in 0 .. MaxMotions /\ <<>> \in Seq(Segment)
      /\ Len(<<>>) < SEGMENT_BUFFER_SIZE
  BY RingAssumption, SegmentAssumption DEF Indices, Slots
<1>2. NoBlock \in Block
  BY SegmentAssumption DEF NoBlock, Block
<1>3. block_buffer \in [Indices -> Block] /\ tail \in Indices /\ head \in Indices
      /\ planned \in Indices /\ previous_nominal \in Nat /\ override \in Overrides
  <2> HIDE DEF Block, NoBlock
  <2> QED
    BY <1>1, <1>2, MotionAssumption DEF Init, PlannerInit
<1>4. st_block_buffer \in [Slots -> 0 .. MaxMotions] /\ prep \in Preps
  BY <1>1, PrepResetTyped DEF Init
<1> QED
  BY <1>1, <1>3, <1>4 DEF Init, PipelineTypes

\* Every step keeps the types.
LEMMA TypesStep == PipelineTypes /\ [Next]_vars => PipelineTypes'
<1> SUFFICES ASSUME PipelineTypes, [Next]_vars PROVE PipelineTypes'
  OBVIOUS
<1>1. CASE Generator
  BY <1>1, TypesPrepSegment, TypesPrepStandstill DEF Generator
<1>2. CASE Interrupt
  BY <1>2, TypesInterrupt
<1>3. CASE Main
  BY <1>3, TypesBufferLine, TypesBufferNothing, TypesChangeOverride, TypesHold, TypesStart,
     TypesCycleStop, TypesFlush DEF Main
<1>4. CASE UNCHANGED vars
  BY <1>4 DEF PipelineTypes, vars, plannerVars, isrVars, modeVars, historyVars
<1> QED
  BY <1>1, <1>2, <1>3, <1>4 DEF Next

\* Every index stays in its ring, and the segment buffer keeps one place free.
THEOREM PipelineTypeSafety == Spec => []TypeOK
<1>1. PipelineTypes => TypeOK
  BY TypesImply
<1> QED
  BY <1>1, TypesInit, TypesStep, PTL DEF Spec

-----------------------------------------------------------------------------
\* The queue of motions.

\* The motion of the i-th segment, and the last motion whose block is done with.
MotionOf(i) == st_block_buffer[segs[i].slot]
\* The motions that have left the planner.
Done == sent - Queued

\* The two buffers hold a run of motions: the blocks the last ones sent, each
\* with something left to do, the segments those before them, in order, and
\* the first block's while it is in progress.
BlocksInOrder ==
  /\ Queued <= sent
  /\ \A k \in 1 .. Queued : QueuedBlock(k).id = Done + k /\ QueuedBlock(k).gain # 0

\* The segments are in the order of their motions, none of which is still to come.
SegmentsInOrder ==
  \A i \in 1 .. Len(segs) :
    /\ MotionOf(i) \in 1 .. (Done + (IF InProgress THEN 1 ELSE 0))
    /\ \A j \in i .. Len(segs) : MotionOf(i) <= MotionOf(j)

\* A block in progress has its motion in the newest slot.
BlockPrepared ==
  /\ InProgress => Queued # 0 /\ st_block_buffer[prep.index] = Done + 1
  /\ prep.loaded => ~prep.recalculate

\* Segments and blocks together hold the motions in the order they were sent.
QueueAgrees == BlocksInOrder /\ SegmentsInOrder /\ BlockPrepared

\* The inductive invariant of the refinement.
QueueInv == PipelineTypes /\ SlotInv /\ QueueAgrees

\* Where the queued blocks lie in the ring.
LEMMA QueueRing ==
  ASSUME PipelineTypes
  PROVE  /\ Queued \in Indices /\ Queued \in Nat /\ Queued < BLOCK_BUFFER_SIZE
         /\ Queued = 0 <=> head = tail
         /\ \A k \in 1 .. Queued :
              /\ k - 1 \in Indices /\ At(tail, k - 1) \in Indices /\ At(tail, k - 1) # head
              /\ Distance(tail, At(tail, k - 1)) = k - 1
         /\ QueuedBlock(1) = block_buffer[tail]
<1>1. tail \in Indices /\ head \in Indices
  BY DEF PipelineTypes
<1>2. Queued \in Indices /\ (Queued = 0 <=> head = tail)
  BY <1>1, RingInverse DEF Queued
<1>3. Queued \in Nat /\ Queued < BLOCK_BUFFER_SIZE
  BY <1>2, RingAssumption DEF Indices
<1>4. ASSUME NEW k \in 1 .. Queued
      PROVE  /\ k - 1 \in Indices /\ At(tail, k - 1) \in Indices /\ At(tail, k - 1) # head
             /\ Distance(tail, At(tail, k - 1)) = k - 1
  <2>1. k - 1 \in Indices
    BY <1>3, RingAssumption DEF Indices
  <2>2. At(tail, k - 1) \in Indices /\ Distance(tail, At(tail, k - 1)) = k - 1
    BY <1>1, <2>1, RingInverse
  <2>3. k - 1 # Queued
    BY <1>3
  <2> QED
    BY <2>1, <2>2, <2>3 DEF Queued
<1>5. QueuedBlock(1) = block_buffer[tail]
  BY <1>1, RingInverse DEF QueuedBlock
<1> QED
  BY <1>2, <1>3, <1>4, <1>5

-----------------------------------------------------------------------------
\* What is left of a motion, in parts.

\* What each segment and each block adds to what is left of motion m.
SegmentPart(m) ==
  [i \in 1 .. Len(segs) |-> IF st_block_buffer[segs[i].slot] = m THEN segs[i].steps ELSE 0]

BlockPart(m) ==
  [k \in 1 .. Queued |-> IF QueuedBlock(k).id = m THEN QueuedBlock(k).gain ELSE 0]

\* The segments' part of a motion, weight by weight.
LEMMA SegmentFacts ==
  ASSUME PipelineTypes
  PROVE  /\ Len(segs) \in Nat
         /\ \A i \in 1 .. Len(segs) : segs[i].slot \in Slots /\ segs[i].steps \in Nat \ {0}
         /\ \A m : \A i \in 1 .. Len(segs) : SegmentPart(m)[i] \in Nat
<1>1. segs \in Seq(Segment)
  BY DEF PipelineTypes
<1>2. \A i \in 1 .. Len(segs) : segs[i] \in Segment
  BY <1>1, ElementOfSeq
<1>3. \A s \in Segment : s.slot \in Slots /\ s.steps \in Nat \ {0}
  BY DEF Segment
<1>4. \A i \in 1 .. Len(segs) : segs[i].slot \in Slots /\ segs[i].steps \in Nat \ {0}
  BY <1>2, <1>3
<1> QED
  BY <1>1, <1>4 DEF SegmentPart

\* The blocks' part of a motion, weight by weight.
LEMMA BlockFacts ==
  ASSUME PipelineTypes
  PROVE  /\ \A k \in 1 .. Queued : QueuedBlock(k) \in Block /\ QueuedBlock(k).gain \in Nat
                                   /\ QueuedBlock(k).id \in Nat
         /\ \A m : \A k \in 1 .. Queued : BlockPart(m)[k] \in Nat
<1>1. \A k \in 1 .. Queued : QueuedBlock(k) \in Block
  BY QueueRing DEF QueuedBlock, PipelineTypes
<1>2. \A b \in Block : b.gain \in Nat /\ b.id \in Nat
  BY SegmentAssumption DEF Block
<1>3. \A k \in 1 .. Queued : QueuedBlock(k).gain \in Nat /\ QueuedBlock(k).id \in Nat
  BY <1>1, <1>2
<1> QED
  BY <1>1, <1>3 DEF BlockPart

\* Sums of natural numbers; nothing is left of a motion no part names.
LEMMA PartsNatural ==
  ASSUME PipelineTypes, NEW m
  PROVE  /\ SegmentsOf(m) \in Nat /\ BlocksOf(m) \in Nat
         /\ (\A i \in 1 .. Len(segs) : MotionOf(i) # m) => SegmentsOf(m) = 0
         /\ (\A k \in 1 .. Queued : QueuedBlock(k).id # m) => BlocksOf(m) = 0
<1>1. SegmentsOf(m) = Sum(SegmentPart(m), Len(segs)) /\ BlocksOf(m) = Sum(BlockPart(m), Queued)
  BY DEF SegmentsOf, BlocksOf, SegmentPart, BlockPart
<1>2. /\ Len(segs) \in Nat /\ Queued \in Nat
      /\ \A i \in 1 .. Len(segs) : SegmentPart(m)[i] \in Nat
      /\ \A k \in 1 .. Queued : BlockPart(m)[k] \in Nat
  BY SegmentFacts, BlockFacts, QueueRing
<1>3. /\ (\A i \in 1 .. Len(segs) : MotionOf(i) # m)
           => \A i \in 1 .. Len(segs) : SegmentPart(m)[i] = 0
      /\ (\A k \in 1 .. Queued : QueuedBlock(k).id # m)
           => \A k \in 1 .. Queued : BlockPart(m)[k] = 0
  BY DEF SegmentPart, BlockPart, MotionOf
<1> HIDE DEF SegmentPart, BlockPart
<1>4. SegmentsOf(m) \in Nat /\ ((\A i \in 1 .. Len(segs) : MotionOf(i) # m) => SegmentsOf(m) = 0)
  BY <1>1, <1>2, <1>3, SumNatural
<1>5. BlocksOf(m) \in Nat
      /\ ((\A k \in 1 .. Queued : QueuedBlock(k).id # m) => BlocksOf(m) = 0)
  BY <1>1, <1>2, <1>3, SumNatural
<1> QED
  BY <1>4, <1>5

\* Segments whose slots keep their contents.
LEMMA SegmentsSame ==
  ASSUME PipelineTypes, segs' = segs, NEW m,
         \A i \in 1 .. Len(segs) :
           st_block_buffer'[segs[i].slot] = st_block_buffer[segs[i].slot]
  PROVE  SegmentsOf(m)' = SegmentsOf(m)
<1>1. \A i \in 1 .. Len(segs) : SegmentPart(m)'[i] = SegmentPart(m)[i]
  BY DEF SegmentPart
<1>2. Sum(SegmentPart(m)', Len(segs)) = Sum(SegmentPart(m), Len(segs))
  <2>1. Len(segs) \in Nat
    BY SegmentFacts
  <2> HIDE DEF SegmentPart
  <2> QED
    BY <1>1, <2>1, SumSame
<1> QED
  BY <1>2 DEF SegmentsOf, SegmentPart

\* Blocks that keep their motions and lengths.
LEMMA BlocksSame ==
  ASSUME PipelineTypes, UNCHANGED <<tail, head>>, NEW m,
         \A i \in Indices \ {head} : /\ block_buffer'[i].id = block_buffer[i].id
                                     /\ block_buffer'[i].gain = block_buffer[i].gain
  PROVE  /\ BlocksOf(m)' = BlocksOf(m) /\ Queued' = Queued
         /\ \A k \in 1 .. Queued : /\ QueuedBlock(k)'.id = QueuedBlock(k).id
                                   /\ QueuedBlock(k)'.gain = QueuedBlock(k).gain
<1>1. Queued' = Queued /\ Queued \in Nat
  BY QueueRing DEF Queued
<1>2. \A k \in 1 .. Queued : /\ QueuedBlock(k)'.id = QueuedBlock(k).id
                             /\ QueuedBlock(k)'.gain = QueuedBlock(k).gain
  BY QueueRing DEF QueuedBlock
<1>3. \A k \in 1 .. Queued : BlockPart(m)'[k] = BlockPart(m)[k]
  BY <1>1, <1>2 DEF BlockPart
<1>4. Sum(BlockPart(m)', Queued) = Sum(BlockPart(m), Queued)
  <2> HIDE DEF BlockPart
  <2> QED
    BY <1>1, <1>3, SumSame
<1>5. BlocksOf(m)' = BlocksOf(m)
  BY <1>1, <1>4 DEF BlocksOf, BlockPart
<1> QED
  BY <1>1, <1>2, <1>5

-----------------------------------------------------------------------------
\* Steps that plan, hold, start and stop: nothing moves in either buffer.
LEMMA QueueUntouched ==
  ASSUME QueueInv, prep' = prep \/ prep' = Unloaded,
         UNCHANGED <<segs, st_block_buffer, tail, head, sent>>,
         \A i \in Indices \ {head} : /\ block_buffer'[i].id = block_buffer[i].id
                                     /\ block_buffer'[i].gain = block_buffer[i].gain
  PROVE  /\ QueueAgrees' /\ sent' = sent
         /\ \A m \in Motions : Remaining'[m] = Remaining[m]
<1>1. PipelineTypes
  BY DEF QueueInv
<1>2. /\ Queued' = Queued
      /\ \A k \in 1 .. Queued : /\ QueuedBlock(k)'.id = QueuedBlock(k).id
                                /\ QueuedBlock(k)'.gain = QueuedBlock(k).gain
  BY <1>1, BlocksSame
<1>3. \A m \in Motions : Remaining'[m] = Remaining[m]
  <2>1. \A m \in Motions : BlocksOf(m)' = BlocksOf(m)
    BY <1>1, BlocksSame
  <2>2. \A m \in Motions : SegmentsOf(m)' = SegmentsOf(m)
    BY <1>1, SegmentsSame
  <2> QED
    BY <2>1, <2>2 DEF Remaining
<1>4. /\ prep'.index = prep.index /\ (InProgress' <=> InProgress)
      /\ prep'.loaded => ~prep'.recalculate
  <2>1. PrepTyped(prep)
    BY DEF QueueInv, SlotInv, SlotTypes
  <2>2. CASE prep' = prep
    BY <2>2 DEF InProgress, QueueInv, QueueAgrees, BlockPrepared
  <2>3. CASE prep' = Unloaded
    <3>1. prep'.loaded = FALSE
      BY <2>1, <2>3 DEF Unloaded, PrepTyped, PrepFields
    <3> QED
      BY <2>1, <2>3, <3>1, UnloadedSlot
  <2> QED
    BY <2>2, <2>3
<1>5. BlocksInOrder' /\ Done' = Done
  BY <1>2 DEF QueueInv, QueueAgrees, BlocksInOrder, Done
<1>6. SegmentsInOrder'
  BY <1>4, <1>5 DEF QueueInv, QueueAgrees, SegmentsInOrder, MotionOf
<1>7. BlockPrepared'
  BY <1>2, <1>4, <1>5 DEF QueueInv, QueueAgrees, BlockPrepared
<1> QED
  BY <1>3, <1>5, <1>6, <1>7 DEF QueueAgrees

-----------------------------------------------------------------------------
\* The same in the next state.
LEMMA PartsNaturalNext ==
  PipelineTypes' => (\A m : SegmentsOf(m) \in Nat /\ BlocksOf(m) \in Nat)'
<1>1. PipelineTypes => \A m : SegmentsOf(m) \in Nat /\ BlocksOf(m) \in Nat
  BY PartsNatural
<1> QED
  BY <1>1, PTL

\* A line at the end of the queue.
LEMMA QueueBuffer ==
  ASSUME QueueInv, BufferLine
  PROVE  /\ QueueAgrees' /\ sent' = sent + 1
         /\ \E length \in {line.gain : line \in Lines} : \A m \in Motions :
              /\ Remaining'[m] = IF m = sent' THEN length ELSE Remaining[m]
              /\ m = sent' => Remaining[m] = 0
<1>1. PipelineTypes /\ PipelineTypes' /\ segs' = segs /\ st_block_buffer' = st_block_buffer
      /\ tail' = tail /\ sent' = sent + 1 /\ head' = plan_next_block_index(head)
      /\ tail # plan_next_block_index(head)
  BY TypesBufferLine DEF QueueInv, BufferLine, plan_check_full_buffer
<1>2. /\ tail \in Indices /\ head \in Indices /\ plan_next_block_index(head) \in Indices
      /\ sent \in Nat /\ sent + 1 \in 0 .. MaxMotions
  BY <1>1, RingIndex, SegmentAssumption DEF PipelineTypes
<1>3. PICK line \in Lines :
        planner_recalculate([block_buffer EXCEPT ![head] = NewBlock(line, sent + 1)],
                            plan_next_block_index(head))
  BY DEF BufferLine
<1> DEFINE buffer == [block_buffer EXCEPT ![head] = NewBlock(line, sent + 1)]
<1>4. /\ NewBlock(line, sent + 1) \in Block
      /\ NewBlock(line, sent + 1).id = sent + 1 /\ NewBlock(line, sent + 1).gain = line.gain
  BY <1>1, <1>2, NewBlockTyped
<1>5. /\ buffer \in [Indices -> Block]
      /\ \A i \in Indices \ {head} : buffer[i] = block_buffer[i]
      /\ buffer[head].id = sent + 1 /\ buffer[head].gain = line.gain
  <2> HIDE DEF Block
  <2> QED
    BY <1>1, <1>2, <1>4 DEF PipelineTypes
<1>6. /\ prep' = prep \/ prep' = Unloaded
      /\ \A i \in Indices : /\ block_buffer'[i].id = buffer[i].id
                            /\ block_buffer'[i].gain = buffer[i].gain
  <2> HIDE DEF buffer
  <2>1. planner_recalculate(buffer, plan_next_block_index(head))
    BY <1>3 DEF buffer
  <2> QED
    BY <1>1, <1>2, <1>5, <2>1, TypesPlanned
<1> HIDE DEF buffer
<1>7. Queued \in Nat /\ Queued' = Queued + 1 /\ Done' = Done
  <2>1. Queued \in Nat /\ Distance(tail, plan_next_block_index(head)) = Queued + 1
    BY <1>1, <1>2, RingNext, QueueRing DEF Queued
  <2> QED
    BY <1>1, <1>2, <2>1 DEF Queued, Done
<1>8. \A k \in 1 .. Queued : /\ QueuedBlock(k)'.id = QueuedBlock(k).id
                             /\ QueuedBlock(k)'.gain = QueuedBlock(k).gain
  BY <1>1, <1>5, <1>6, QueueRing DEF QueuedBlock
<1>9. PICK last \in Nat : last = Queued + 1
  BY <1>7
<1>10. QueuedBlock(last)'.id = sent + 1 /\ QueuedBlock(last)'.gain = line.gain
  <2>1. At(tail, last - 1) = head
    <3>1. At(tail, Queued) = head
      BY <1>2, RingInverse DEF Queued
    <3>2. last - 1 = Queued
      BY <1>7, <1>9
    <3> QED
      BY <3>1, <3>2
  <2>2. QueuedBlock(last)' = block_buffer'[head]
    BY <1>1, <2>1 DEF QueuedBlock
  <2> QED
    BY <1>2, <1>5, <1>6, <2>2
<1>11. line.gain \in Nat \ {0}
  BY MotionAssumption
<1>12. BlocksInOrder /\ Done = sent - Queued
  BY DEF QueueInv, QueueAgrees, Done
<1>13. BlocksInOrder'
  <2>1. Queued' <= sent'
    BY <1>1, <1>2, <1>7, <1>12 DEF BlocksInOrder
  <2>2. ASSUME NEW k \in 1 .. (Queued + 1)
        PROVE  QueuedBlock(k)'.id = Done + k /\ QueuedBlock(k)'.gain # 0
    <3>1. CASE k \in 1 .. Queued
      BY <1>8, <1>12, <3>1 DEF BlocksInOrder
    <3>2. CASE k = last
      BY <1>2, <1>7, <1>9, <1>10, <1>11, <1>12, <3>2
    <3> QED
      BY <1>7, <1>9, <3>1, <3>2
  <2> QED
    BY <1>7, <2>1, <2>2 DEF BlocksInOrder
<1>14. /\ prep'.index = prep.index /\ (InProgress' <=> InProgress)
       /\ prep'.loaded => ~prep'.recalculate
  <2>1. PrepTyped(prep)
    BY DEF QueueInv, SlotInv, SlotTypes
  <2>2. CASE prep' = prep
    BY <2>2 DEF InProgress, QueueInv, QueueAgrees, BlockPrepared
  <2>3. CASE prep' = Unloaded
    <3>1. prep'.loaded = FALSE
      BY <2>1, <2>3 DEF Unloaded, PrepTyped, PrepFields
    <3> QED
      BY <2>1, <2>3, <3>1, UnloadedSlot
  <2> QED
    BY <1>6, <2>2, <2>3
<1>15. SegmentsInOrder'
  BY <1>1, <1>7, <1>14 DEF QueueInv, QueueAgrees, SegmentsInOrder, MotionOf
<1>16. BlockPrepared'
  <2>1. Queued' # 0
    BY <1>7
  <2> QED
    BY <1>1, <1>7, <1>14, <2>1 DEF QueueInv, QueueAgrees, BlockPrepared
<1>17. ASSUME NEW m \in Motions
       PROVE  /\ Remaining'[m] = IF m = sent' THEN line.gain ELSE Remaining[m]
              /\ m = sent' => Remaining[m] = 0
  <2>1. SegmentsOf(m)' = SegmentsOf(m)
    BY <1>1, SegmentsSame
  <2>2. BlocksOf(m)' = BlocksOf(m) + (IF m = sent + 1 THEN line.gain ELSE 0)
    <3>1. BlocksOf(m)' = Sum(BlockPart(m)', last) /\ BlocksOf(m) = Sum(BlockPart(m), Queued)
      BY <1>7, <1>9 DEF BlocksOf, BlockPart
    <3>2. BlockPart(m)'[last] = IF m = sent + 1 THEN line.gain ELSE 0
      <4>1. last \in 1 .. Queued'
        BY <1>7, <1>9
      <4>2. BlockPart(m)'[last] = IF QueuedBlock(last)'.id = m
                                        THEN QueuedBlock(last)'.gain ELSE 0
        BY <4>1, <1>7 DEF BlockPart
      <4> QED
        BY <4>2, <1>9, <1>10
    <3>3. \A k \in 1 .. Queued : BlockPart(m)'[k] = BlockPart(m)[k]
      BY <1>7, <1>8 DEF BlockPart
    <3>4. Sum(BlockPart(m)', last) = Sum(BlockPart(m)', Queued) + BlockPart(m)'[last]
      BY <1>7, <1>9, SumUnfolds
    <3>5. Sum(BlockPart(m)', Queued) = Sum(BlockPart(m), Queued)
      <4> HIDE DEF BlockPart
      <4> QED
        BY <1>7, <3>3, SumSame
    <3> QED
      BY <3>1, <3>2, <3>4, <3>5
  <2>3. SegmentsOf(m) \in Nat /\ BlocksOf(m) \in Nat
    BY <1>1, PartsNatural
  <2>4. m = sent + 1 => SegmentsOf(m) = 0 /\ BlocksOf(m) = 0
    <3> SUFFICES ASSUME m = sent + 1 PROVE SegmentsOf(m) = 0 /\ BlocksOf(m) = 0
      OBVIOUS
    <3>1. \A k \in 1 .. Queued : QueuedBlock(k).id # m
      BY <1>2, <1>7, <1>12 DEF BlocksInOrder
    <3>2. \A i \in 1 .. Len(segs) : MotionOf(i) # m
      <4>1. Done + (IF InProgress THEN 1 ELSE 0) <= sent
        BY <1>2, <1>7, <1>12 DEF QueueInv, QueueAgrees, BlockPrepared
      <4>2. Done + (IF InProgress THEN 1 ELSE 0) \in Int
        BY <1>2, <1>7, <1>12
      <4> QED
        BY <1>2, <4>1, <4>2 DEF QueueInv, QueueAgrees, SegmentsInOrder
    <3> QED
      BY <1>1, <3>1, <3>2, PartsNatural
  <2>5. Remaining'[m] = SegmentsOf(m)' + BlocksOf(m)' /\ Remaining[m] = SegmentsOf(m) + BlocksOf(m)
    BY DEF Remaining
  <2> QED
    BY <1>1, <1>11, <2>1, <2>2, <2>3, <2>4, <2>5
<1> QED
  BY <1>1, <1>13, <1>15, <1>16, <1>17 DEF QueueAgrees

\* A reset.
LEMMA QueueFlush ==
  ASSUME QueueInv, Flush
  PROVE  /\ QueueAgrees' /\ sent' = sent
         /\ \A m \in Motions : Remaining'[m] = 0
<1>1. PipelineTypes /\ PipelineTypes' /\ sent' = sent /\ segs' = <<>> /\ tail' = 0 /\ head' = 0
      /\ prep' = PrepReset
  BY TypesFlush DEF QueueInv, Flush, StReset, PlanReset
<1>2. Queued' = 0 /\ Len(segs') = 0
  <2>1. 0 \in Indices
    BY RingAssumption DEF Indices
  <2>2. Distance(0, 0) = 0
    BY <2>1, RingInverse
  <2> QED
    BY <1>1, <2>2 DEF Queued
<1>3. ~InProgress' /\ ~prep'.loaded
  BY <1>1 DEF InProgress, PrepReset
<1>4. QueueAgrees'
  <2>1. sent' \in Nat
    BY <1>1, SegmentAssumption DEF PipelineTypes
  <2> QED
    BY <1>2, <1>3, <2>1 DEF QueueAgrees, BlocksInOrder, SegmentsInOrder, BlockPrepared
<1>5. ASSUME NEW m \in Motions PROVE Remaining'[m] = 0
  <2>1. SegmentsOf(m)' = Sum(SegmentPart(m)', 0) /\ BlocksOf(m)' = Sum(BlockPart(m)', 0)
    BY <1>2 DEF SegmentsOf, BlocksOf, SegmentPart, BlockPart
  <2>2. SegmentsOf(m)' = 0 /\ BlocksOf(m)' = 0
    BY <2>1, SumUnfolds
  <2> QED
    BY <2>2 DEF Remaining
<1> QED
  BY <1>1, <1>4, <1>5

\* The interrupt is done with a segment, of the first motion left.
LEMMA QueueDone ==
  ASSUME QueueInv, IsrDone
  PROVE  /\ QueueAgrees' /\ sent' = sent
         /\ \E m \in Motions, d \in Nat \ {0} :
              /\ \A n \in Motions : Remaining'[n] = IF n = m THEN Remaining[n] - d ELSE Remaining[n]
              /\ \A n \in Motions : n < m => Remaining[n] = 0
              /\ Remaining'[m] \in Nat /\ Remaining[m] \in Nat
<1>1. /\ PipelineTypes /\ segs' = Tail(segs)
      /\ UNCHANGED <<block_buffer, tail, head, sent, st_block_buffer, prep>>
  BY DEF QueueInv, IsrDone, plannerVars
<1>2. PipelineTypes'
  BY <1>1, TypesInterrupt DEF Interrupt
<1>3. segs # <<>> /\ segs \in Seq(Segment)
  BY <1>1 DEF QueueInv, SlotInv, SlotsAgree, SlotExecuted, IsrDone, PipelineTypes
<1>4. /\ Len(segs) \in Nat \ {0} /\ Len(segs') = Len(segs) - 1
      /\ \A i \in 1 .. Len(segs') : segs'[i] = segs[i + 1]
  BY <1>1, <1>3
<1>5. 1 \in 1 .. Len(segs) /\ segs[1].slot \in Slots /\ segs[1].steps \in Nat \ {0}
  BY <1>1, <1>4, SegmentFacts
<1>6. Queued' = Queued /\ Done' = Done /\ (InProgress' <=> InProgress) /\ BlocksInOrder'
      /\ BlockPrepared'
  BY <1>1 DEF QueueInv, QueueAgrees, Queued, Done, InProgress, BlocksInOrder, BlockPrepared,
              QueuedBlock
<1>7. SegmentsInOrder'
  <2>1. \A i \in 1 .. Len(segs') : i + 1 \in 1 .. Len(segs) /\ MotionOf(i)' = MotionOf(i + 1)
    BY <1>1, <1>4 DEF MotionOf
  <2>2. ASSUME NEW i \in 1 .. Len(segs')
        PROVE  /\ MotionOf(i)' \in 1 .. (Done + (IF InProgress THEN 1 ELSE 0))
               /\ \A j \in i .. Len(segs') : MotionOf(i)' <= MotionOf(j)'
    <3>1. MotionOf(i + 1) \in 1 .. (Done + (IF InProgress THEN 1 ELSE 0))
          /\ \A j \in (i + 1) .. Len(segs) : MotionOf(i + 1) <= MotionOf(j)
      BY <2>1 DEF QueueInv, QueueAgrees, SegmentsInOrder
    <3>2. \A j \in i .. Len(segs') : j \in 1 .. Len(segs') /\ j + 1 \in (i + 1) .. Len(segs)
      BY <1>4
    <3> QED
      BY <2>1, <3>1, <3>2
  <2> QED
    BY <1>6, <2>2 DEF SegmentsInOrder
<1> DEFINE m == MotionOf(1)
           d == segs[1].steps
<1>8. SegmentsInOrder /\ BlocksInOrder /\ Queued \in Nat /\ sent \in 0 .. MaxMotions
      /\ BlockPrepared
  BY <1>1, QueueRing DEF QueueInv, QueueAgrees, PipelineTypes
<1>9. /\ m \in 1 .. (Done + (IF InProgress THEN 1 ELSE 0))
      /\ \A j \in 1 .. Len(segs) : m <= MotionOf(j)
  BY <1>5, <1>8 DEF SegmentsInOrder
<1>10. Done \in Int /\ Done + (IF InProgress THEN 1 ELSE 0) <= sent
       /\ (Queued > 0 => Done + 1 <= sent)
  BY <1>8 DEF Done, BlocksInOrder, BlockPrepared
<1>11. m \in Motions
  BY <1>8, <1>9, <1>10, SegmentAssumption DEF Motions
<1>12. ASSUME NEW n \in Motions
       PROVE  /\ Remaining'[n] = IF n = m THEN Remaining[n] - d ELSE Remaining[n]
              /\ Remaining'[n] \in Nat /\ Remaining[n] \in Nat
  <2>1. BlocksOf(n)' = BlocksOf(n)
    BY <1>1, BlocksSame
  <2>2. SegmentsOf(n) = SegmentPart(n)[1] + SegmentsOf(n)'
    <3> DEFINE l == Len(segs) - 1
    <3>1. l \in Nat /\ Len(segs) = l + 1 /\ Len(segs') = l
      BY <1>4
    <3>2. SegmentsOf(n) = Sum(SegmentPart(n), l + 1) /\ SegmentsOf(n)' = Sum(SegmentPart(n)', l)
      BY <3>1 DEF SegmentsOf, SegmentPart
    <3>3. \A i \in 1 .. l : SegmentPart(n)'[i] = SegmentPart(n)[i + 1]
      BY <1>1, <1>4, <3>1 DEF SegmentPart
    <3>4. \A i \in 1 .. (l + 1) : SegmentPart(n)[i] \in Nat
      BY <1>1, <3>1, SegmentFacts
    <3> HIDE DEF SegmentPart, l
    <3> QED
      BY <3>1, <3>2, <3>3, <3>4, SumShift
  <2>3. SegmentPart(n)[1] = IF n = m THEN d ELSE 0
    BY <1>5 DEF SegmentPart, MotionOf
  <2>4. /\ SegmentsOf(n) \in Nat /\ BlocksOf(n) \in Nat
    BY <1>1, PartsNatural
  <2>5. SegmentsOf(n)' \in Nat /\ BlocksOf(n)' \in Nat
    BY <1>2, PartsNaturalNext
  <2>6. Remaining'[n] = SegmentsOf(n)' + BlocksOf(n)' /\ Remaining[n] = SegmentsOf(n) + BlocksOf(n)
    BY DEF Remaining
  <2> HIDE DEF m, d
  <2>7. d \in Nat
    BY <1>5 DEF d
  <2> QED
    BY <2>1, <2>2, <2>3, <2>4, <2>5, <2>6, <2>7
<1>13. ASSUME NEW n \in Motions, n < m
       PROVE  Remaining[n] = 0
  <2>1. \A i \in 1 .. Len(segs) : MotionOf(i) # n
    <3> SUFFICES ASSUME NEW i \in 1 .. Len(segs), MotionOf(i) = n PROVE FALSE
      OBVIOUS
    <3>1. m <= n
      BY <1>9
    <3> QED
      BY <1>11, <1>13, <3>1 DEF Motions
  <2>2. \A k \in 1 .. Queued : QueuedBlock(k).id # n
    <3> SUFFICES ASSUME NEW k \in 1 .. Queued, QueuedBlock(k).id = n PROVE FALSE
      OBVIOUS
    <3>1. n = Done + k
      BY <1>8 DEF BlocksInOrder
    <3>2. m <= Done + 1
      BY <1>9, <1>10
    <3> QED
      BY <1>8, <1>10, <1>11, <1>13, <3>1, <3>2 DEF Motions
  <2>3. SegmentsOf(n) = 0 /\ BlocksOf(n) = 0
    BY <1>1, <2>1, <2>2, PartsNatural
  <2> QED
    BY <2>3 DEF Remaining
<1> QED
  <2>1. d \in Nat \ {0}
    BY <1>5
  <2> HIDE DEF m, d
  <2> QED
    BY <1>1, <1>6, <1>7, <1>11, <1>12, <1>13, <2>1 DEF QueueAgrees

-----------------------------------------------------------------------------
\* A pass of the generator works on the first block, in the block's own slot.
LEMMA QueuePass ==
  ASSUME QueueInv, LoadSlot, CanPrep
  PROVE  /\ Queued \in Nat \ {0} /\ Done \in Nat /\ Done + 1 <= sent
         /\ block_buffer[tail].id = Done + 1 /\ block_buffer[tail].gain # 0
         /\ Current.index \in Slots /\ Current.loaded = TRUE /\ Current.recalculate = FALSE
         /\ st_block_buffer'[Current.index] = Done + 1
         /\ \A i \in 1 .. Len(segs) :
              /\ st_block_buffer'[segs[i].slot] = st_block_buffer[segs[i].slot]
              /\ MotionOf(i) \in 1 .. (Done + 1)
<1>1. /\ PipelineTypes /\ SlotInv /\ BlocksInOrder /\ SegmentsInOrder /\ BlockPrepared
      /\ ~SegmentsFull /\ (prep.loaded \/ ~Empty)
      /\ PrepTyped(prep)
  BY DEF QueueInv, QueueAgrees, CanPrep, SlotInv, SlotTypes
<1>2. Queued \in Nat /\ (Queued = 0 <=> head = tail) /\ QueuedBlock(1) = block_buffer[tail]
      /\ sent \in Nat
  BY <1>1, QueueRing, SegmentAssumption DEF PipelineTypes
<1>3. Queued # 0
  BY <1>1, <1>2 DEF BlockPrepared, InProgress, Empty
<1>4. Done \in Nat /\ Done + 1 <= sent
  BY <1>1, <1>2, <1>3 DEF Done, BlocksInOrder
<1>5. block_buffer[tail].id = Done + 1 /\ block_buffer[tail].gain # 0
  <2>1. 1 \in 1 .. Queued
    BY <1>2, <1>3
  <2> QED
    BY <1>1, <1>2, <2>1 DEF BlocksInOrder
<1>6. PrepTyped(Current) /\ Current.loaded
  BY <1>1, PassSlot
<1>7. Current.index \in Slots /\ Current.loaded = TRUE
  BY <1>6 DEF PrepTyped
<1>8. Current.recalculate = FALSE
  <2>1. CASE prep.loaded
    BY <1>1, <2>1 DEF Current, BlockPrepared, PrepTyped
  <2>2. CASE ~prep.loaded
    <3>1. Loaded(block_buffer[tail]).recalculate = FALSE
      BY DEF Loaded
    <3> QED
      BY <2>2, <3>1 DEF Current
  <2> QED
    BY <2>1, <2>2
<1>9. st_block_buffer'[Current.index] = Done + 1
  <2>1. CASE InProgress
    BY <1>1, <2>1, PassSlot DEF BlockPrepared
  <2>2. CASE ~InProgress
    <3>1. st_block_buffer' = [st_block_buffer EXCEPT ![Current.index] = block_buffer[tail].id]
      BY <2>2 DEF LoadSlot, InProgress
    <3>2. DOMAIN st_block_buffer = Slots
      BY <1>1 DEF PipelineTypes
    <3> QED
      BY <1>5, <1>7, <3>1, <3>2
  <2> QED
    BY <2>1, <2>2
<1>10. \A i \in 1 .. Len(segs) :
         /\ st_block_buffer'[segs[i].slot] = st_block_buffer[segs[i].slot]
         /\ MotionOf(i) \in 1 .. (Done + 1)
  <2>1. \A i \in 1 .. Len(segs) :
          st_block_buffer'[segs[i].slot] = st_block_buffer[segs[i].slot]
    BY <1>1, PassKeepsQueue
  <2>2. 1 .. (Done + (IF InProgress THEN 1 ELSE 0)) \subseteq 1 .. (Done + 1)
    BY <1>4
  <2> QED
    BY <1>1, <2>1, <2>2 DEF SegmentsInOrder
<1> QED
  BY <1>2, <1>3, <1>4, <1>5, <1>7, <1>8, <1>9, <1>10

\* What is left of the blocks, the first of them apart.
RestPart(m) ==
  [k \in 1 .. (Queued - 1) |->
     IF QueuedBlock(k + 1).id = m THEN QueuedBlock(k + 1).gain ELSE 0]

\* Different places of the queue hold different motions.
BlocksApart ==
  PipelineTypes /\ Queued # 0 =>
    \A m : BlocksOf(m) = (IF block_buffer[tail].id = m THEN block_buffer[tail].gain ELSE 0)
                           + Sum(RestPart(m), Queued - 1)

\* What the planner holds of a motion is the block at the tail and the rest.
LEMMA BlocksSplit ==
  ASSUME PipelineTypes, Queued # 0, NEW m
  PROVE  BlocksOf(m) = (IF block_buffer[tail].id = m THEN block_buffer[tail].gain ELSE 0)
                         + Sum(RestPart(m), Queued - 1)
<1> DEFINE n == Queued - 1
<1>1. n \in Nat /\ Queued = n + 1 /\ QueuedBlock(1) = block_buffer[tail]
  BY QueueRing
<1>2. BlocksOf(m) = Sum(BlockPart(m), n + 1)
  BY <1>1 DEF BlocksOf, BlockPart
<1>3. \A k \in 1 .. n : RestPart(m)[k] = BlockPart(m)[k + 1]
  BY <1>1 DEF RestPart, BlockPart
<1>4. \A k \in 1 .. (n + 1) : BlockPart(m)[k] \in Nat
  BY <1>1, BlockFacts
<1>5. BlockPart(m)[1] = IF block_buffer[tail].id = m THEN block_buffer[tail].gain ELSE 0
  BY <1>1 DEF BlockPart
<1>6. Sum(BlockPart(m), n + 1) = BlockPart(m)[1] + Sum(RestPart(m), n)
  <2> HIDE DEF BlockPart, RestPart, n
  <2> QED
    BY <1>1, <1>3, <1>4, SumShift
<1> QED
  BY <1>2, <1>5, <1>6

\* The same in the next state.
LEMMA BlocksSplitNext == BlocksApart'
<1>1. BlocksApart
  BY BlocksSplit DEF BlocksApart
<1> QED
  BY <1>1, PTL

\* A hold ends before the first segment of a block.
LEMMA QueuePrepStandstill ==
  ASSUME QueueInv, PrepStandstill
  PROVE  /\ QueueAgrees' /\ sent' = sent
         /\ \A m \in Motions : Remaining'[m] = Remaining[m]
<1>1. /\ PipelineTypes /\ LoadSlot /\ CanPrep
      /\ UNCHANGED <<tail, head, segs, sent>>
      /\ prep' = [Current EXCEPT !.speed = 0]
  BY DEF QueueInv, PrepStandstill
<1>2. /\ \A i \in Indices : /\ block_buffer'[i].id = block_buffer[i].id
                            /\ block_buffer'[i].gain = block_buffer[i].gain
      /\ prep' \in Preps
  BY <1>1, StandstillEffect DEF PrepStandstill
<1>3. /\ Queued \in Nat \ {0} /\ Done \in Nat
      /\ Current.index \in Slots /\ Current.loaded = TRUE /\ Current.recalculate = FALSE
      /\ st_block_buffer'[Current.index] = Done + 1
      /\ \A i \in 1 .. Len(segs) :
           /\ st_block_buffer'[segs[i].slot] = st_block_buffer[segs[i].slot]
           /\ MotionOf(i) \in 1 .. (Done + 1)
  BY <1>1, QueuePass
<1>4. prep'.index = Current.index /\ prep'.loaded = TRUE /\ prep'.recalculate = FALSE
  <2>1. Current \in Preps
    BY <1>1, CurrentTyped
  <2> QED
    BY <1>1, <1>3, <2>1 DEF Preps
<1>5. /\ Queued' = Queued /\ Done' = Done
      /\ \A k \in 1 .. Queued : /\ QueuedBlock(k)'.id = QueuedBlock(k).id
                                /\ QueuedBlock(k)'.gain = QueuedBlock(k).gain
  <2>1. /\ Queued' = Queued
        /\ \A k \in 1 .. Queued : /\ QueuedBlock(k)'.id = QueuedBlock(k).id
                                  /\ QueuedBlock(k)'.gain = QueuedBlock(k).gain
    BY <1>1, <1>2, BlocksSame
  <2> QED
    BY <1>1, <2>1 DEF Done
<1>6. \A m \in Motions : Remaining'[m] = Remaining[m]
  <2>1. \A m \in Motions : BlocksOf(m)' = BlocksOf(m)
    BY <1>1, <1>2, BlocksSame
  <2>2. \A m \in Motions : SegmentsOf(m)' = SegmentsOf(m)
    BY <1>1, <1>3, SegmentsSame
  <2> QED
    BY <2>1, <2>2 DEF Remaining
<1>7. BlocksInOrder'
  BY <1>1, <1>5 DEF QueueInv, QueueAgrees, BlocksInOrder
<1>8. BlockPrepared' /\ InProgress'
  BY <1>3, <1>4, <1>5 DEF BlockPrepared, InProgress
<1>9. SegmentsInOrder'
  <2>1. \A i \in 1 .. Len(segs) : MotionOf(i)' = MotionOf(i)
    BY <1>1, <1>3 DEF MotionOf
  <2> QED
    BY <1>1, <1>3, <1>5, <1>8, <2>1 DEF QueueInv, QueueAgrees, SegmentsInOrder
<1> QED
  BY <1>1, <1>6, <1>7, <1>8, <1>9 DEF QueueAgrees

\* A segment is cut off the first block: what the block loses the segments gain.
LEMMA QueuePrepSegment ==
  ASSUME QueueInv, PrepSegment
  PROVE  /\ QueueAgrees' /\ sent' = sent
         /\ \A m \in Motions : Remaining'[m] = Remaining[m]
<1>1. PICK d : SegmentMade(d)
  BY DEF PrepSegment, SegmentMade
<1>2. /\ PipelineTypes /\ PipelineTypes' /\ LoadSlot /\ CanPrep /\ head' = head /\ sent' = sent
  BY TypesPrepSegment DEF QueueInv, PrepSegment
<1>3. /\ Queued \in Nat \ {0} /\ Done \in Nat /\ Done + 1 <= sent
      /\ block_buffer[tail].id = Done + 1 /\ block_buffer[tail].gain # 0
      /\ Current.index \in Slots /\ Current.loaded = TRUE /\ Current.recalculate = FALSE
      /\ st_block_buffer'[Current.index] = Done + 1
      /\ \A i \in 1 .. Len(segs) :
           /\ st_block_buffer'[segs[i].slot] = st_block_buffer[segs[i].slot]
           /\ MotionOf(i) \in 1 .. (Done + 1)
  BY <1>2, QueuePass
<1> DEFINE left == block_buffer[tail].gain - d
<1>4. /\ d \in Nat \ {0} /\ left \in Nat
      /\ \A i \in Indices :
           /\ block_buffer'[i].id = block_buffer[i].id
           /\ block_buffer'[i].gain = IF i = tail THEN left ELSE block_buffer[i].gain
      /\ prep' \in Preps /\ prep'.index = Current.index
      /\ prep'.recalculate = Current.recalculate /\ (prep'.loaded <=> left > 0)
  BY <1>1, <1>2, SegmentEffect
<1>5. segs' = Append(segs, [slot |-> Current.index, steps |-> d])
      /\ (IF left = 0 THEN Discard ELSE UNCHANGED <<tail, planned>>)
  BY <1>1 DEF SegmentMade
<1>6. block_buffer[tail].gain \in Nat /\ block_buffer[tail].gain = left + d
  <2>1. block_buffer[tail] \in Block
    BY <1>2, CurrentTyped
  <2>2. block_buffer[tail].gain \in Nat
    BY <2>1 DEF Block
  <2> QED
    BY <1>4, <2>2
<1>7. tail \in Indices /\ head \in Indices /\ tail # head
  BY <1>2, <1>3, QueueRing DEF PipelineTypes
<1> HIDE DEF left
<1>8. PICK l \in Nat : l = Len(segs)
  BY <1>2, SegmentFacts
<1>9. /\ Len(segs') = l + 1
      /\ \A i \in 1 .. l : segs'[i] = segs[i]
      /\ segs'[l + 1].slot = Current.index /\ segs'[l + 1].steps = d
  <2>1. segs \in Seq(Segment) /\ [slot |-> Current.index, steps |-> d] \in Segment
    BY <1>2, <1>3, <1>4 DEF PipelineTypes, Segment
  <2>2. /\ Len(segs') = Len(segs) + 1
        /\ \A i \in 1 .. Len(segs) : segs'[i] = segs[i]
        /\ segs'[Len(segs) + 1] = [slot |-> Current.index, steps |-> d]
    BY <1>5, <2>1, AppendProperties
  <2> QED
    BY <1>8, <2>2
<1>10. PICK last \in Nat : last = l + 1
  BY <1>8
<1>11. /\ \A i \in 1 .. l : MotionOf(i)' = MotionOf(i)
       /\ MotionOf(last)' = Done + 1
  BY <1>3, <1>8, <1>9, <1>10 DEF MotionOf
\* The segments have gained d.
<1>12. ASSUME NEW m
       PROVE  SegmentsOf(m)' = SegmentsOf(m) + (IF m = Done + 1 THEN d ELSE 0)
  <2>1. SegmentsOf(m)' = Sum(SegmentPart(m)', l + 1) /\ SegmentsOf(m) = Sum(SegmentPart(m), l)
    BY <1>8, <1>9 DEF SegmentsOf, SegmentPart
  <2>2. \A i \in 1 .. l : SegmentPart(m)'[i] = SegmentPart(m)[i]
    BY <1>3, <1>8, <1>9 DEF SegmentPart
  <2>3. SegmentPart(m)'[l + 1] = IF m = Done + 1 THEN d ELSE 0
    <3>1. l + 1 \in 1 .. Len(segs')
      BY <1>8, <1>9
    <3>2. SegmentPart(m)'[l + 1] = IF st_block_buffer'[segs'[l + 1].slot] = m
                                   THEN segs'[l + 1].steps ELSE 0
      BY <3>1 DEF SegmentPart
    <3> QED
      BY <1>3, <1>9, <3>2
  <2>4. Sum(SegmentPart(m)', l) = Sum(SegmentPart(m), l)
    <3> HIDE DEF SegmentPart
    <3> QED
      BY <1>8, <2>2, SumSame
  <2>5. Sum(SegmentPart(m)', l + 1) = Sum(SegmentPart(m)', l) + SegmentPart(m)'[l + 1]
    BY <1>8, SumUnfolds
  <2> QED
    BY <2>1, <2>3, <2>4, <2>5
<1>13. /\ prep'.index = Current.index /\ prep'.recalculate = FALSE
       /\ (InProgress' <=> left > 0) /\ (prep'.loaded => ~prep'.recalculate)
  BY <1>3, <1>4 DEF InProgress
<1>14. ASSUME NEW m
       PROVE  SegmentsOf(m) \in Nat /\ BlocksOf(m) \in Nat
  BY <1>2, PartsNatural
<1>15. BlocksInOrder /\ Done = sent - Queued /\ SegmentsInOrder /\ sent \in Nat
  BY <1>2, SegmentAssumption DEF QueueInv, QueueAgrees, Done, PipelineTypes
\* The segments of the block are the last ones.
<1>16. ASSUME NEW i \in 1 .. last
       PROVE  /\ MotionOf(i)' \in 1 .. (Done + 1)
              /\ \A j \in i .. last : MotionOf(i)' <= MotionOf(j)'
  <2>1. CASE i = last
    BY <1>3, <1>11, <2>1
  <2>2. CASE i # last
    <3>1. i \in 1 .. l
      BY <1>10, <2>2
    <3>2. MotionOf(i)' \in 1 .. (Done + 1)
      BY <1>3, <1>8, <1>11, <3>1
    <3>3. ASSUME NEW j \in i .. last PROVE MotionOf(i)' <= MotionOf(j)'
      <4>1. CASE j = last
        BY <1>3, <1>11, <3>2, <4>1
      <4>2. CASE j # last
        <5>1. j \in i .. l /\ j \in 1 .. l
          BY <1>8, <1>10, <3>1, <4>2
        <5>2. MotionOf(i) <= MotionOf(j)
          BY <1>8, <1>15, <3>1, <5>1 DEF SegmentsInOrder
        <5> QED
          BY <1>11, <3>1, <5>1, <5>2
      <4> QED
        BY <4>1, <4>2
    <3> QED
      BY <3>2, <3>3
  <2> QED
    BY <2>1, <2>2
<1>17. ASSUME NEW m
       PROVE  Sum(RestPart(m), Queued - 1) \in Int
  <2>1. Queued - 1 \in Nat
    BY <1>3
  <2>2. \A k \in 1 .. (Queued - 1) : RestPart(m)[k] \in Nat
    <3>1. \A k \in 1 .. (Queued - 1) : k + 1 \in 1 .. Queued
      BY <1>3
    <3> QED
      BY <1>2, <3>1, BlockFacts DEF RestPart
  <2> HIDE DEF RestPart
  <2> QED
    BY <2>1, <2>2, SumNatural
\* Either the block stays at the tail, or it is used up and discarded.
<1>18. CASE left # 0
  <2>1. UNCHANGED <<tail, planned>> /\ left > 0
    BY <1>4, <1>5, <1>18
  <2>2. Queued' = Queued /\ Done' = Done
    BY <1>2, <2>1 DEF Queued, Done
  <2>3. \A k \in 1 .. Queued :
          /\ QueuedBlock(k)'.id = QueuedBlock(k).id
          /\ k # 1 => QueuedBlock(k)'.gain = QueuedBlock(k).gain
          /\ k = 1 => QueuedBlock(k)'.gain = left
    <3> SUFFICES ASSUME NEW k \in 1 .. Queued
                 PROVE  /\ QueuedBlock(k)'.id = QueuedBlock(k).id
                        /\ k # 1 => QueuedBlock(k)'.gain = QueuedBlock(k).gain
                        /\ k = 1 => QueuedBlock(k)'.gain = left
      OBVIOUS
    <3>1. /\ At(tail, k - 1) \in Indices /\ Distance(tail, At(tail, k - 1)) = k - 1
          /\ Distance(tail, tail) = 0 /\ At(tail, 0) = tail
      BY <1>2, <1>7, QueueRing, RingInverse
    <3>2. QueuedBlock(k)' = block_buffer'[At(tail, k - 1)]
      BY <2>1 DEF QueuedBlock
    <3>3. k # 1 => At(tail, k - 1) # tail
      BY <1>3, <3>1
    <3>4. k = 1 => At(tail, k - 1) = tail
      BY <3>1
    <3> QED
      BY <1>4, <3>1, <3>2, <3>3, <3>4 DEF QueuedBlock
  <2>4. BlocksInOrder'
    <3>1. \A k \in 1 .. Queued : QueuedBlock(k)'.id = Done + k /\ QueuedBlock(k)'.gain # 0
      BY <1>15, <1>18, <2>3 DEF BlocksInOrder
    <3> QED
      BY <1>2, <1>15, <2>2, <3>1 DEF BlocksInOrder
  <2>5. BlockPrepared'
    BY <1>3, <1>13, <2>2 DEF BlockPrepared
  <2>6. ASSUME NEW m \in Motions
        PROVE  BlocksOf(m)' = BlocksOf(m) - (IF m = Done + 1 THEN d ELSE 0)
    <3>1. BlocksOf(m) = (IF block_buffer[tail].id = m THEN block_buffer[tail].gain ELSE 0)
                          + Sum(RestPart(m), Queued - 1)
      BY <1>2, <1>3, BlocksSplit
    <3>2. BlocksOf(m)' = (IF block_buffer'[tail].id = m THEN block_buffer'[tail].gain ELSE 0)
                           + Sum(RestPart(m)', Queued - 1)
      BY <1>2, <1>3, <2>1, <2>2, BlocksSplitNext DEF BlocksApart
    <3>3. Sum(RestPart(m)', Queued - 1) = Sum(RestPart(m), Queued - 1)
      <4>1. \A k \in 1 .. (Queued - 1) : RestPart(m)'[k] = RestPart(m)[k]
        BY <1>3, <2>2, <2>3 DEF RestPart
      <4>2. Queued - 1 \in Nat
        BY <1>3
      <4> HIDE DEF RestPart
      <4> QED
        BY <4>1, <4>2, SumSame
    <3>4. block_buffer'[tail].id = block_buffer[tail].id /\ block_buffer'[tail].gain = left
      BY <1>4, <1>7
    <3> QED
      BY <1>3, <1>4, <1>6, <1>17, <3>1, <3>2, <3>3, <3>4
  <2> QED
    <3>1. ASSUME NEW m \in Motions PROVE Remaining'[m] = Remaining[m]
      <4>1. Remaining'[m] = SegmentsOf(m)' + BlocksOf(m)' /\ Remaining[m] = SegmentsOf(m) + BlocksOf(m)
        BY DEF Remaining
      <4> QED
        BY <1>4, <1>12, <1>14, <2>6, <4>1
    <3>2. SegmentsInOrder'
      <4>1. Done' + (IF InProgress' THEN 1 ELSE 0) = Done + 1
        BY <1>13, <2>1, <2>2
      <4> QED
        BY <1>9, <1>10, <1>16, <4>1 DEF SegmentsInOrder
    <3> QED
      BY <1>2, <2>4, <2>5, <3>1, <3>2 DEF QueueAgrees
<1>19. CASE left = 0
  <2>1. tail' = plan_next_block_index(tail) /\ plan_next_block_index(tail) \in Indices
        /\ ~InProgress' /\ ~prep'.loaded
    BY <1>4, <1>5, <1>7, <1>13, <1>19, RingIndex DEF Discard
  <2>2. Queued' = Queued - 1 /\ Done' = Done + 1
    <3>1. Distance(plan_next_block_index(tail), head) = Distance(tail, head) - 1
      BY <1>7, RingNext
    <3> QED
      BY <1>2, <1>3, <1>15, <2>1, <3>1 DEF Queued, Done
  <2>3. \A k \in 1 .. (Queued - 1) :
          /\ QueuedBlock(k)'.id = QueuedBlock(k + 1).id
          /\ QueuedBlock(k)'.gain = QueuedBlock(k + 1).gain
    <3> SUFFICES ASSUME NEW k \in 1 .. (Queued - 1)
                 PROVE  /\ QueuedBlock(k)'.id = QueuedBlock(k + 1).id
                        /\ QueuedBlock(k)'.gain = QueuedBlock(k + 1).gain
      OBVIOUS
    <3>1. k \in 1 .. Queued /\ k + 1 \in 1 .. Queued /\ (k + 1) - 1 = k /\ (k - 1) + 1 = k
      BY <1>3
    <3>2. /\ k - 1 \in Indices /\ k \in Indices
          /\ At(tail, k) \in Indices /\ Distance(tail, At(tail, k)) = k
      BY <1>2, <3>1, QueueRing
    <3>3. At(plan_next_block_index(tail), k - 1) = At(tail, k)
      <4>1. At(plan_next_block_index(tail), k - 1) = At(tail, (k - 1) + 1)
        BY <1>7, <3>1, <3>2, RingNext
      <4> QED
        BY <3>1, <4>1
    <3>4. At(tail, k) # tail
      <4>1. Distance(tail, tail) = 0
        BY <1>7, RingInverse
      <4> QED
        BY <3>2, <4>1
    <3>5. QueuedBlock(k)' = block_buffer'[At(tail, k)] /\ QueuedBlock(k + 1) = block_buffer[At(tail, k)]
      BY <2>1, <3>1, <3>3 DEF QueuedBlock
    <3> QED
      BY <1>4, <3>2, <3>4, <3>5
  <2>4. BlocksInOrder'
    <3>1. ASSUME NEW k \in 1 .. (Queued - 1)
          PROVE  QueuedBlock(k)'.id = (Done + 1) + k /\ QueuedBlock(k)'.gain # 0
      <4>1. k + 1 \in 1 .. Queued /\ Done + (k + 1) = (Done + 1) + k
        BY <1>3
      <4> QED
        BY <1>15, <2>3, <4>1 DEF BlocksInOrder
    <3> QED
      BY <1>2, <1>3, <1>15, <2>2, <3>1 DEF BlocksInOrder
  <2>5. BlockPrepared'
    BY <2>1 DEF BlockPrepared
  <2>6. ASSUME NEW m \in Motions
        PROVE  BlocksOf(m)' = BlocksOf(m) - (IF m = Done + 1 THEN d ELSE 0)
    <3>1. BlocksOf(m) = (IF block_buffer[tail].id = m THEN block_buffer[tail].gain ELSE 0)
                          + Sum(RestPart(m), Queued - 1)
      BY <1>2, <1>3, BlocksSplit
    <3>2. BlocksOf(m)' = Sum(BlockPart(m)', Queued - 1)
      BY <2>2 DEF BlocksOf, BlockPart
    <3>3. Sum(BlockPart(m)', Queued - 1) = Sum(RestPart(m), Queued - 1)
      <4>1. \A k \in 1 .. (Queued - 1) : BlockPart(m)'[k] = RestPart(m)[k]
        BY <1>3, <2>2, <2>3 DEF RestPart, BlockPart
      <4>2. Queued - 1 \in Nat
        BY <1>3
      <4> HIDE DEF RestPart, BlockPart
      <4> QED
        BY <4>1, <4>2, SumSame
    <3> QED
      BY <1>3, <1>4, <1>6, <1>17, <1>19, <3>1, <3>2, <3>3
  <2> QED
    <3>1. ASSUME NEW m \in Motions PROVE Remaining'[m] = Remaining[m]
      <4>1. Remaining'[m] = SegmentsOf(m)' + BlocksOf(m)' /\ Remaining[m] = SegmentsOf(m) + BlocksOf(m)
        BY DEF Remaining
      <4> QED
        BY <1>4, <1>12, <1>14, <2>6, <4>1
    <3>2. SegmentsInOrder'
      <4>1. Done' + (IF InProgress' THEN 1 ELSE 0) = Done + 1
        BY <1>3, <2>1, <2>2
      <4> QED
        BY <1>9, <1>10, <1>16, <4>1 DEF SegmentsInOrder
    <3> QED
      BY <1>2, <2>4, <2>5, <3>1, <3>2 DEF QueueAgrees
<1> QED
  BY <1>18, <1>19

-----------------------------------------------------------------------------
\* A planned ring keeps the motions of its blocks.
LEMMA QueuePlanned ==
  ASSUME PipelineTypes, NEW buffer \in [Indices -> Block],
         \A i \in Indices : buffer[i].id = block_buffer[i].id /\ buffer[i].gain = block_buffer[i].gain,
         plan_cycle_reinitialize(buffer)
  PROVE  /\ prep' = prep \/ prep' = Unloaded
         /\ \A i \in Indices : /\ block_buffer'[i].id = block_buffer[i].id
                               /\ block_buffer'[i].gain = block_buffer[i].gain
<1>1. head \in Indices
  BY DEF PipelineTypes
<1>2. /\ prep' = prep \/ prep' = Unloaded
      /\ \A i \in Indices : /\ block_buffer'[i].id = buffer[i].id
                            /\ block_buffer'[i].gain = buffer[i].gain
  BY <1>1, TypesPlanned
<1> QED
  BY <1>2

\* Every step but those of a line, a segment and a reset.
Quiet == \/ IsrLoad \/ IsrEmpty \/ BufferNothing \/ ChangeOverride \/ Hold \/ Start \/ CycleStop
         \/ UNCHANGED vars

\* A step that moves neither segments nor blocks keeps the invariant.
LEMMA QueueQuiet ==
  ASSUME QueueInv, Quiet
  PROVE  /\ QueueAgrees' /\ sent' = sent
         /\ \A m \in Motions : Remaining'[m] = Remaining[m]
<1>1. PipelineTypes /\ block_buffer \in [Indices -> Block]
  BY DEF QueueInv, PipelineTypes
<1> DEFINE Kept == \A i \in Indices \ {head} : /\ block_buffer'[i].id = block_buffer[i].id
                                               /\ block_buffer'[i].gain = block_buffer[i].gain
           Generated == prep' = prep \/ prep' = Unloaded
<1>2. UNCHANGED <<segs, st_block_buffer, tail, head, sent>>
  BY DEF Quiet, IsrLoad, IsrEmpty, BufferNothing, ChangeOverride, Hold, Start, CycleStop, vars,
         plannerVars
<1>3. CASE IsrLoad \/ IsrEmpty \/ Start \/ UNCHANGED vars
  <2>1. prep' = prep /\ block_buffer' = block_buffer
    BY <1>3 DEF IsrLoad, IsrEmpty, Start, vars, plannerVars
  <2> QED
    BY <1>2, <2>1, QueueUntouched
<1>4. CASE BufferNothing
  <2>1. prep' = prep
    BY <1>4 DEF BufferNothing
  <2>2. Kept
    BY <1>1, <1>4 DEF BufferNothing
  <2> QED
    BY <1>2, <2>1, <2>2, QueueUntouched
<1>5. CASE ChangeOverride
  <2>1. PICK o \in Overrides : plan_cycle_reinitialize(Reprofiled(o))
    BY <1>5 DEF ChangeOverride
  <2>2. Reprofiled(o) \in [Indices -> Block]
        /\ \A i \in Indices : /\ Reprofiled(o)[i].id = block_buffer[i].id
                              /\ Reprofiled(o)[i].gain = block_buffer[i].gain
    BY <1>1, ReprofiledKeeps
  <2>3. Generated /\ Kept
    BY <1>1, <2>1, <2>2, QueuePlanned
  <2> QED
    BY <1>2, <2>3, QueueUntouched
<1>6. CASE Hold
  <2>1. Generated /\ (block_buffer' = Updated(block_buffer) \/ block_buffer' = block_buffer)
    BY <1>6 DEF Hold
  <2>2. Kept
    BY <1>1, <2>1, UpdatedKeeps
  <2> QED
    BY <1>2, <2>1, <2>2, QueueUntouched
<1>7. CASE CycleStop
  <2>1. Generated /\ Kept
    <3>1. CASE mode = "HOLD"
      <4>1. plan_cycle_reinitialize(block_buffer)
        BY <1>7, <3>1 DEF CycleStop
      <4> QED
        BY <1>1, <4>1, QueuePlanned
    <3>2. CASE mode # "HOLD"
      BY <1>7, <3>2 DEF CycleStop
    <3> QED
      BY <3>1, <3>2
  <2> QED
    BY <1>2, <2>1, QueueUntouched
<1> QED
  BY <1>3, <1>4, <1>5, <1>6, <1>7 DEF Quiet

\* What a step may be, for the queue of motions.
LEMMA NextKinds ==
  [Next]_vars => Quiet \/ BufferLine \/ Flush \/ IsrDone \/ PrepSegment \/ PrepStandstill
  BY DEF Next, Generator, Interrupt, Main, Quiet

\* The invariant holds at the start.
LEMMA QueueInit == Init => QueueInv
<1> SUFFICES ASSUME Init PROVE QueueInv
  OBVIOUS
<1>1. PipelineTypes /\ SlotInv
  BY TypesInit, SlotsInit
<1>2. Queued = 0 /\ Len(segs) = 0 /\ sent = 0
  <2>1. 0 \in Indices
    BY RingAssumption DEF Indices
  <2>2. Distance(0, 0) = 0
    BY <2>1, RingInverse
  <2> QED
    BY <2>2 DEF Init, PlannerInit, Queued
<1>3. ~InProgress /\ ~prep.loaded
  BY DEF Init, PrepReset, InProgress
<1>4. QueueAgrees
  BY <1>2, <1>3 DEF QueueAgrees, BlocksInOrder, SegmentsInOrder, BlockPrepared
<1> QED
  BY <1>1, <1>4 DEF QueueInv

\* Every step keeps the invariant.
LEMMA QueueStep == QueueInv /\ [Next]_vars => QueueInv'
<1> SUFFICES ASSUME QueueInv, [Next]_vars PROVE QueueInv'
  OBVIOUS
<1>1. PipelineTypes' /\ SlotInv'
  BY TypesStep, SlotsStep DEF QueueInv
<1>2. QueueAgrees'
  BY NextKinds, QueueQuiet, QueueBuffer, QueueFlush, QueueDone, QueuePrepSegment,
     QueuePrepStandstill
<1> QED
  BY <1>1, <1>2 DEF QueueInv

-----------------------------------------------------------------------------
\* The steps of the queue.

\* A planned line is a motion added.
LEMMA AddsMotion ==
  ASSUME QueueInv, BufferLine
  PROVE  Queue!Add
<1>1. PICK length \in {line.gain : line \in Lines} : \A m \in Motions :
        /\ Remaining'[m] = IF m = sent' THEN length ELSE Remaining[m]
        /\ m = sent' => Remaining[m] = 0
  BY QueueBuffer
<1>2. sent' = sent + 1 /\ sent' \in Motions /\ length # 0
  <2>1. sent' = sent + 1 /\ sent < MaxMotions /\ sent \in 0 .. MaxMotions
    BY DEF BufferLine, QueueInv, PipelineTypes
  <2> QED
    BY <2>1, SegmentAssumption, MotionAssumption DEF Motions
<1>3. {m \in Motions : Remaining'[m] # Remaining[m]} = {sent'}
  BY <1>1, <1>2
<1>4. Remaining'[sent'] \in {line.gain : line \in Lines}
  BY <1>1, <1>2
<1> QED
  BY <1>2, <1>3, <1>4 DEF Queue!Add, Queue!Changed

\* A finished segment is a part of the first motion executed.
LEMMA ExecutesMotion ==
  ASSUME QueueInv, IsrDone
  PROVE  Queue!Execute
<1>1. PICK m \in Motions, d \in Nat \ {0} :
        /\ \A n \in Motions : Remaining'[n] = IF n = m THEN Remaining[n] - d ELSE Remaining[n]
        /\ \A n \in Motions : n < m => Remaining[n] = 0
        /\ Remaining'[m] \in Nat /\ Remaining[m] \in Nat
  BY QueueDone
<1>2. Remaining'[m] < Remaining[m] /\ Remaining'[m] >= 0 /\ Remaining'[m] # Remaining[m]
  BY <1>1
<1>3. {n \in Motions : Remaining'[n] # Remaining[n]} = {m}
  BY <1>1, <1>2
<1>4. sent' = sent
  BY DEF IsrDone
<1> QED
  BY <1>1, <1>2, <1>3, <1>4 DEF Queue!Execute, Queue!Changed

\* Every step is a step of the abstract queue, or leaves it as it is.
LEMMA QueueSimulated ==
  QueueInv /\ [Next]_vars => [Queue!Next]_<<[m \in Motions |-> Remaining[m]], sent>>
<1> SUFFICES ASSUME QueueInv, [Next]_vars
             PROVE  Queue!Next \/ UNCHANGED <<[m \in Motions |-> Remaining[m]], sent>>
  OBVIOUS
<1>1. CASE BufferLine
  BY <1>1, AddsMotion DEF Queue!Next
<1>2. CASE IsrDone
  BY <1>2, ExecutesMotion DEF Queue!Next
<1>3. CASE Flush
  BY <1>3, QueueFlush DEF Queue!Next, Queue!Flush
<1>4. CASE Quiet \/ PrepSegment \/ PrepStandstill
  <2>1. sent' = sent /\ \A m \in Motions : Remaining'[m] = Remaining[m]
    BY <1>4, QueueQuiet, QueuePrepSegment, QueuePrepStandstill
  <2> QED
    BY <2>1
<1> QED
  BY <1>1, <1>2, <1>3, <1>4, NextKinds

\* The pipeline starts as an empty queue.
LEMMA QueueStarts == Init => Queue!Init
<1> SUFFICES ASSUME Init PROVE Queue!Init
  OBVIOUS
<1>1. PipelineTypes /\ Queued = 0 /\ Len(segs) = 0 /\ sent = 0
  <2>1. 0 \in Indices
    BY RingAssumption DEF Indices
  <2>2. Distance(0, 0) = 0
    BY <2>1, RingInverse
  <2> QED
    BY <2>2, TypesInit DEF Init, PlannerInit, Queued
<1>2. \A m \in Motions : SegmentsOf(m) = 0 /\ BlocksOf(m) = 0
  BY <1>1, PartsNatural
<1>3. \A m \in Motions : Remaining[m] = 0
  BY <1>2 DEF Remaining
<1> QED
  BY <1>1, <1>3 DEF Queue!Init

\* Planner, segment generator and stepper interrupt together implement a queue
\* of motions, whatever the sizes of the two buffers: every motion is executed to
\* its last step, and in order (plan_buffer_line, st_prep_buffer,
\* plan_discard_current_block and TIMER1_COMPA_vect).
THEOREM QueueRefinement == Spec => MotionsInOrder
<1>1. QueueInv /\ [Next]_vars => [Queue!Next]_<<[m \in Motions |-> Remaining[m]], sent>>
  BY QueueSimulated
<1> QED
  BY <1>1, QueueInit, QueueStep, QueueStarts, PTL DEF Spec, MotionsInOrder, Queue!Spec

-----------------------------------------------------------------------------
\* The planned pointer.

\* An index is a natural number below the size of the ring.
LEMMA IndexNat == \A i \in Indices : i \in Nat /\ i < BLOCK_BUFFER_SIZE
  BY RingAssumption DEF Indices

\* The index before the one some steps ahead.
LEMMA RingBack ==
  ASSUME NEW i \in Indices
  PROVE  plan_prev_block_index(plan_next_block_index(i)) = i
<1>1. /\ plan_next_block_index(i) \in Indices
      /\ plan_next_block_index(i) = IF i = BLOCK_BUFFER_SIZE - 1 THEN 0 ELSE i + 1
  BY RingIndex
<1>2. plan_prev_block_index(plan_next_block_index(i))
        = IF plan_next_block_index(i) = 0 THEN BLOCK_BUFFER_SIZE - 1
          ELSE plan_next_block_index(i) - 1
  BY <1>1, RingIndex
<1> QED
  BY <1>1, <1>2, IndexNat

\* Distances add up along the ring.
LEMMA RingSum ==
  ASSUME NEW i \in Indices, NEW j \in Indices, NEW k \in Nat,
         Distance(i, j) + k < BLOCK_BUFFER_SIZE
  PROVE  k \in Indices /\ Distance(i, At(j, k)) = Distance(i, j) + k
<1> DEFINE B == BLOCK_BUFFER_SIZE
<1>1. i \in Nat /\ j \in Nat /\ B \in Nat /\ i < B /\ j < B /\ 1 < B
  BY RingAssumption DEF Indices
<1>2. Distance(i, j) = IF i <= j THEN j - i ELSE j - i + B
  BY RingDistance
<1>3. k \in Indices /\ k < B
  BY <1>1, <1>2 DEF Indices
<1>4. At(j, k) \in Indices /\ At(j, k) = IF j + k < B THEN j + k ELSE j + k - B
  BY <1>3, RingAt, RingInverse
<1>5. Distance(i, At(j, k)) = IF i <= At(j, k) THEN At(j, k) - i ELSE At(j, k) - i + B
  BY <1>4, RingDistance
<1>6. Distance(i, j) + k < B
  OBVIOUS
<1> HIDE DEF B
<1> QED
  BY <1>1, <1>2, <1>3, <1>4, <1>5, <1>6

\* Steps from a nearer index to a farther one.
LEMMA RingDifference ==
  ASSUME NEW i \in Indices, NEW p \in Indices, NEW h \in Indices,
         Distance(i, p) <= Distance(i, h)
  PROVE  Distance(p, h) = Distance(i, h) - Distance(i, p)
<1> DEFINE B == BLOCK_BUFFER_SIZE
<1>1. i \in Nat /\ p \in Nat /\ h \in Nat /\ B \in Nat /\ i < B /\ p < B /\ h < B /\ 1 < B
  BY RingAssumption DEF Indices
<1>2. /\ Distance(i, p) = IF i <= p THEN p - i ELSE p - i + B
      /\ Distance(i, h) = IF i <= h THEN h - i ELSE h - i + B
      /\ Distance(p, h) = IF p <= h THEN h - p ELSE h - p + B
  BY RingDistance
<1> HIDE DEF B
<1> QED
  BY <1>1, <1>2

\* Planning from a block of the queue, the planned pointer stays in the queue.
LEMMA NewPlannedWithin ==
  ASSUME NEW buffer \in [Indices -> Block], NEW i \in Indices, NEW h \in Indices, NEW p \in Indices,
         Distance(i, p) < Distance(i, h)
  PROVE  /\ Distance(i, NewPlanned(buffer, h, p)) < Distance(i, h)
         /\ Distance(i, p) <= Distance(i, NewPlanned(buffer, h, p))
         /\ LastBlock(h, p) = Distance(i, h) - 1 - Distance(i, p)
<1>1. Distance(i, p) \in Nat /\ Distance(i, h) \in Nat /\ Distance(i, h) < BLOCK_BUFFER_SIZE
      /\ BLOCK_BUFFER_SIZE \in Nat
  BY RingInverse, IndexNat, RingAssumption
<1>2. i # h
  <2>1. Distance(i, i) = 0
    BY RingInverse
  <2> QED
    BY <1>1, <2>1
<1>3. plan_prev_block_index(h) \in Indices
      /\ Distance(i, plan_prev_block_index(h)) = Distance(i, h) - 1
  BY <1>2, RingIndex, RingNext
<1>4. LastBlock(h, p) = Distance(i, h) - 1 - Distance(i, p)
  <2>1. Distance(i, p) <= Distance(i, plan_prev_block_index(h))
    BY <1>1, <1>3
  <2> QED
    BY <1>3, <2>1, RingDifference DEF LastBlock
<1> DEFINE S == Breakpoints(buffer, h, p)
<1>5. S \in SUBSET (0 .. LastBlock(h, p)) /\ LastBlock(h, p) \in Nat
  BY <1>1, <1>4 DEF Breakpoints
<1>6. CASE S = {}
  BY <1>1, <1>4, <1>6 DEF NewPlanned
<1>7. CASE S # {}
  <2>1. PICK k \in 0 .. LastBlock(h, p) : NewPlanned(buffer, h, p) = At(p, k)
    <3>1. Max(S) \in S
      BY <1>5, <1>7, MaxOf
    <3> QED
      BY <1>5, <1>7, <3>1 DEF NewPlanned
  <2>2. Distance(i, p) + k < BLOCK_BUFFER_SIZE
    BY <1>1, <1>4, <1>5
  <2>3. Distance(i, At(p, k)) = Distance(i, p) + k
    BY <1>5, <2>2, RingSum
  <2> QED
    BY <1>1, <1>4, <1>5, <2>1, <2>3
<1> QED
  BY <1>6, <1>7

\* A last block that must be entered at rest is planned at once, wherever the
\* pointer was.
LEMMA NewPlannedFirst ==
  ASSUME NEW buffer \in [Indices -> Block], NEW h \in Indices, NEW p \in Indices,
         buffer[plan_prev_block_index(h)].max = 0
  PROVE  NewPlanned(buffer, h, p) = plan_prev_block_index(h)
<1> DEFINE S == Breakpoints(buffer, h, p)
<1>1. /\ LastBlock(h, p) \in Indices /\ LastBlock(h, p) \in Nat
      /\ plan_prev_block_index(h) \in Indices
      /\ At(p, LastBlock(h, p)) = plan_prev_block_index(h)
  BY PlannedBlocks, RingIndex, RingInverse, IndexNat DEF LastBlock
<1>2. PICK n \in Nat : n = LastBlock(h, p)
  BY <1>1
<1>3. S \in SUBSET (0 .. n)
  BY <1>2 DEF Breakpoints
<1>4. CASE n = 0
  <2>1. S = {}
    BY <1>2, <1>4 DEF Breakpoints
  <2>2. At(p, 0) = p
    BY RingInverse
  <2> QED
    BY <1>1, <1>2, <1>4, <2>1, <2>2 DEF NewPlanned
<1>5. CASE n # 0
  <2> DEFINE reverse == ReversePass(buffer, h, p)
             forward == ForwardPass(buffer, h, p)
  <2>1. /\ buffer[At(p, n)].max = 0 /\ buffer[At(p, n)].gain \in Nat
        /\ buffer[At(p, n - 1)].gain \in Nat
    <3>1. \A k \in 0 .. n : buffer[At(p, k)].gain \in Nat
      BY <1>2, PlannedBlocks
    <3> QED
      BY <1>1, <1>2, <1>5, <3>1
  <2>2. reverse[n] = Lowest(buffer[At(p, n)].max, buffer[At(p, n)].gain)
    BY <1>2, <1>5, ReverseDef
  <2>3. reverse[n] = 0
    BY <2>1, <2>2 DEF Lowest
  <2>4. forward[n] = Lowest(reverse[n], forward[n - 1] + buffer[At(p, n - 1)].gain)
        /\ forward[n - 1] \in Int
    <3> HIDE DEF forward, reverse
    <3>1. n \in 0 .. n /\ n - 1 \in 0 .. n
      BY <1>2, <1>5
    <3>2. /\ forward \in [0 .. n -> Int]
          /\ \A k \in 0 .. n :
               forward[k] = IF k = 0 THEN reverse[0]
                            ELSE Lowest(reverse[k], forward[k - 1] + buffer[At(p, k - 1)].gain)
      BY <1>2, ForwardDef DEF forward, reverse
    <3> QED
      BY <1>5, <3>1, <3>2
  <2>5. forward[n] < reverse[n] \/ forward[n] = buffer[At(p, n)].max
    <3> HIDE DEF forward, reverse
    <3> QED
      BY <2>1, <2>3, <2>4 DEF Lowest
  <2>6. n \in S
    BY <1>2, <1>5, <2>5 DEF Breakpoints
  <2>7. Max(S) = n
    <3> HIDE DEF S
    <3>1. Max(S) \in S /\ n <= Max(S)
      BY <1>3, <2>6, MaxOf
    <3>2. Max(S) \in 0 .. n
      BY <1>3, <3>1
    <3> QED
      BY <3>1, <3>2
  <2> QED
    BY <1>1, <1>2, <2>6, <2>7 DEF NewPlanned
<1> QED
  BY <1>4, <1>5

-----------------------------------------------------------------------------
\* block_buffer_planned.

\* The inductive invariant of the planned pointer.
PlannedInv == QueueInv /\ PlannedInQueue

\* A planned line keeps the pointer within the queue.
LEMMA PlannedBuffer ==
  ASSUME PlannedInv, BufferLine
  PROVE  PlannedInQueue'
<1>1. PipelineTypes /\ tail' = tail /\ head' = plan_next_block_index(head)
      /\ tail # plan_next_block_index(head)
  BY DEF PlannedInv, QueueInv, BufferLine, plan_check_full_buffer
<1>2. /\ tail \in Indices /\ head \in Indices /\ plan_next_block_index(head) \in Indices
      /\ sent + 1 \in 0 .. MaxMotions /\ planned \in Indices
      /\ plan_prev_block_index(plan_next_block_index(head)) = head
  BY <1>1, RingIndex, RingBack, SegmentAssumption DEF PipelineTypes, BufferLine
<1>3. PICK line \in Lines :
        planner_recalculate([block_buffer EXCEPT ![head] = NewBlock(line, sent + 1)],
                            plan_next_block_index(head))
  BY DEF BufferLine
<1> DEFINE buffer == [block_buffer EXCEPT ![head] = NewBlock(line, sent + 1)]
<1>4. NewBlock(line, sent + 1) \in Block
  BY <1>1, <1>2, NewBlockTyped
<1>5. buffer \in [Indices -> Block] /\ buffer[head] = NewBlock(line, sent + 1)
  <2> HIDE DEF Block
  <2> QED
    BY <1>1, <1>2, <1>4 DEF PipelineTypes
<1> HIDE DEF buffer
<1>6. PICK current \in {Updated(buffer), buffer} :
        planned' = NewPlanned(current, plan_next_block_index(head), planned)
  BY <1>3 DEF planner_recalculate, buffer
<1>7. current \in [Indices -> Block] /\ current[head].max = buffer[head].max
  BY <1>1, <1>2, <1>5, <1>6, UpdatedKeeps
<1>8. Queued \in Nat /\ Queued' = Queued + 1
      /\ Distance(tail, plan_next_block_index(head)) = Queued + 1
  <2>1. Queued \in Nat /\ Distance(tail, plan_next_block_index(head)) = Queued + 1
    BY <1>1, <1>2, RingNext, QueueRing DEF Queued
  <2> QED
    BY <1>1, <2>1 DEF Queued
<1>9. CASE Queued = 0
  <2>1. head = tail
    BY <1>1, <1>9, QueueRing
  <2>2. current[head].max = 0
    <3>1. NewBlock(line, sent + 1).max
            = MaxEntry(0, Nominal(line, override), previous_nominal)
      BY <2>1 DEF NewBlock, Empty
    <3>2. Nominal(line, override) \in Nat /\ previous_nominal \in Nat
      BY <1>1, <1>2, NewBlockTyped DEF PipelineTypes
    <3> QED
      BY <1>5, <1>7, <3>1, <3>2 DEF MaxEntry, Lowest
  <2>3. planned' = head
    BY <1>2, <1>6, <1>7, <2>2, NewPlannedFirst
  <2>4. Distance(tail, tail) = 0
    BY <1>2, RingInverse
  <2> QED
    BY <1>1, <1>8, <1>9, <2>1, <2>3, <2>4 DEF PlannedInQueue
<1>10. CASE Queued # 0
  <2>1. Distance(tail, planned) < Queued /\ Distance(tail, planned) \in Nat
    BY <1>2, <1>8, <1>10, RingInverse, IndexNat DEF PlannedInv, PlannedInQueue
  <2>2. Distance(tail, planned') < Distance(tail, plan_next_block_index(head))
    BY <1>2, <1>6, <1>7, <1>8, <2>1, NewPlannedWithin
  <2> QED
    BY <1>1, <1>8, <2>2 DEF PlannedInQueue
<1> QED
  BY <1>9, <1>10

\* The queue is planned again from its tail.
LEMMA PlannedAgain ==
  ASSUME PipelineTypes, NEW buffer \in [Indices -> Block], plan_cycle_reinitialize(buffer),
         UNCHANGED <<tail, head>>
  PROVE  PlannedInQueue'
<1>1. tail \in Indices /\ head \in Indices /\ Queued' = Queued /\ Queued \in Nat
      /\ Distance(tail, tail) = 0
  BY RingInverse, QueueRing DEF PipelineTypes, Queued
<1>2. planned' = NewPlanned(Updated(buffer), head, tail) /\ Updated(buffer) \in [Indices -> Block]
  BY UpdatedKeeps DEF plan_cycle_reinitialize
<1>3. Queued > 0 => Distance(tail, planned') < Queued
  BY <1>1, <1>2, NewPlannedWithin DEF Queued
<1> QED
  BY <1>1, <1>3 DEF PlannedInQueue

\* A segment, which may finish the block pointed to, does too.
LEMMA PlannedSegment ==
  ASSUME PlannedInv, PrepSegment
  PROVE  PlannedInQueue'
<1>1. PICK d : SegmentMade(d)
  BY DEF PrepSegment, SegmentMade
<1>2. PipelineTypes /\ LoadSlot /\ CanPrep /\ head' = head
  BY DEF PlannedInv, QueueInv, PrepSegment
<1>3. Queued \in Nat \ {0}
  BY <1>2, QueuePass DEF PlannedInv
<1>4. tail \in Indices /\ head \in Indices /\ planned \in Indices
  BY <1>2 DEF PipelineTypes
<1>5. CASE UNCHANGED <<tail, planned>>
  BY <1>2, <1>5 DEF PlannedInv, PlannedInQueue, Queued
<1>6. CASE Discard
  <2>1. tail' = plan_next_block_index(tail) /\ plan_next_block_index(tail) \in Indices
        /\ planned' = IF planned = tail THEN plan_next_block_index(tail) ELSE planned
    BY <1>4, <1>6, RingIndex DEF Discard
  <2>2. Queued' = Queued - 1
    <3>1. tail # head
      BY <1>2, <1>3, QueueRing
    <3>2. Distance(plan_next_block_index(tail), head) = Distance(tail, head) - 1
      BY <1>4, <3>1, RingNext
    <3> QED
      BY <1>2, <2>1, <3>2 DEF Queued
  <2>3. CASE planned = tail
    <3>1. Distance(tail', planned') = 0
      BY <2>1, <2>3, RingInverse
    <3> QED
      BY <1>3, <2>2, <3>1 DEF PlannedInQueue
  <2>4. CASE planned # tail
    <3>1. Distance(tail', planned') = Distance(tail, planned) - 1
      BY <1>4, <2>1, <2>4, RingNext
    <3>2. Distance(tail, planned) < Queued /\ Distance(tail, planned) \in Nat
      BY <1>3, <1>4, RingInverse, IndexNat DEF PlannedInv, PlannedInQueue
    <3> QED
      BY <1>3, <2>2, <3>1, <3>2 DEF PlannedInQueue
  <2> QED
    BY <2>3, <2>4
<1> QED
  BY <1>1, <1>5, <1>6 DEF SegmentMade

\* Every step keeps the pointer within the queue.
LEMMA PlannedStep == PlannedInv /\ [Next]_vars => PlannedInv'
<1> SUFFICES ASSUME PlannedInv, [Next]_vars PROVE PlannedInv'
  OBVIOUS
<1>1. QueueInv' /\ PipelineTypes /\ block_buffer \in [Indices -> Block]
  BY QueueStep DEF PlannedInv, QueueInv, PipelineTypes
<1>2. CASE UNCHANGED <<tail, head, planned>>
  BY <1>1, <1>2 DEF PlannedInv, PlannedInQueue, Queued
<1>3. CASE Flush
  <2>1. 0 \in Indices
    BY RingAssumption DEF Indices
  <2>2. Distance(0, 0) = 0
    BY <2>1, RingInverse
  <2>3. Queued' = 0
    BY <1>3, <2>2 DEF Flush, PlanReset, Queued
  <2> QED
    BY <1>1, <2>3 DEF PlannedInv, PlannedInQueue
<1>4. CASE ChangeOverride
  <2>1. PICK o \in Overrides : plan_cycle_reinitialize(Reprofiled(o))
    BY <1>4 DEF ChangeOverride
  <2>2. UNCHANGED <<tail, head>>
    BY <1>4 DEF ChangeOverride
  <2>3. Reprofiled(o) \in [Indices -> Block]
    BY <1>1, ReprofiledKeeps
  <2> QED
    BY <1>1, <2>1, <2>2, <2>3, PlannedAgain DEF PlannedInv
<1>5. CASE CycleStop
  <2>1. UNCHANGED <<tail, head>>
        /\ (plan_cycle_reinitialize(block_buffer) \/ UNCHANGED planned)
    BY <1>5 DEF CycleStop
  <2> QED
    BY <1>1, <1>2, <2>1, PlannedAgain DEF PlannedInv
<1>6. CASE BufferLine
  BY <1>1, <1>6, PlannedBuffer DEF PlannedInv
<1>7. CASE PrepSegment
  BY <1>1, <1>7, PlannedSegment DEF PlannedInv
<1>8. CASE Interrupt \/ PrepStandstill \/ BufferNothing \/ Hold \/ Start \/ UNCHANGED vars
  BY <1>2, <1>8 DEF Interrupt, IsrLoad, IsrDone, IsrEmpty, PrepStandstill, BufferNothing, Hold,
                    Start, vars, plannerVars
<1> QED
  BY <1>3, <1>4, <1>5, <1>6, <1>7, <1>8 DEF Next, Generator, Main

\* The planned pointer is a block of the queue, whatever a re-planning of an
\* empty ring makes of it (planner_recalculate, plan_discard_current_block).
THEOREM PlannedSafety == Spec => []PlannedInQueue
<1>1. Init => PlannedInQueue
  <2> SUFFICES ASSUME Init PROVE PlannedInQueue
    OBVIOUS
  <2>1. 0 \in Indices
    BY RingAssumption DEF Indices
  <2>2. Distance(0, 0) = 0
    BY <2>1, RingInverse
  <2> QED
    BY <2>2 DEF Init, PlannerInit, Queued, PlannedInQueue
<1>2. Init => PlannedInv
  BY <1>1, QueueInit DEF PlannedInv
<1>3. PlannedInv => PlannedInQueue
  BY DEF PlannedInv
<1> QED
  BY <1>2, <1>3, PlannedStep, PTL DEF Spec

-----------------------------------------------------------------------------
\* The two passes.

\* Which number Lowest picks.
LEMMA LowestIs ==
  \A m, n \in Int : /\ m <= n => Lowest(m, n) = m
                    /\ n <= m => Lowest(m, n) = n
  BY DEF Lowest

\* What the passes need of the blocks from p to the last one, and what they
\* make of them: no speed is too high for the block before it, nor for the block
\* after it, and each is as high as one of the limits allows.
Brakable(buffer, h, p) ==
  LET n == LastBlock(h, p)
  IN  /\ \A k \in 1 .. n : buffer[At(p, k)].entry <= buffer[At(p, k)].max
      /\ \A k \in 0 .. n : k # n => buffer[At(p, k)].entry
                                      <= buffer[At(p, k + 1)].entry + buffer[At(p, k)].gain
      /\ buffer[At(p, n)].entry <= buffer[At(p, n)].gain

\* The reverse pass only raises speeds.
LEMMA ReverseRaises ==
  ASSUME NEW buffer \in [Indices -> Block], NEW h \in Indices, NEW p \in Indices,
         Brakable(buffer, h, p)
  PROVE  \A k \in 1 .. LastBlock(h, p) :
           /\ buffer[At(p, k)].entry <= ReversePass(buffer, h, p)[k]
           /\ ReversePass(buffer, h, p)[k] <= buffer[At(p, k)].max
           /\ k # LastBlock(h, p)
                => ReversePass(buffer, h, p)[k]
                     <= ReversePass(buffer, h, p)[k + 1] + buffer[At(p, k)].gain
           /\ k = LastBlock(h, p) => ReversePass(buffer, h, p)[k] <= buffer[At(p, k)].gain
           /\ \/ ReversePass(buffer, h, p)[k] = buffer[At(p, k)].max
              \/ k = LastBlock(h, p) /\ ReversePass(buffer, h, p)[k] = buffer[At(p, k)].gain
              \/ k # LastBlock(h, p) /\ ReversePass(buffer, h, p)[k]
                                = ReversePass(buffer, h, p)[k + 1] + buffer[At(p, k)].gain
<1>1. PICK n \in Nat : n = LastBlock(h, p)
  BY PlannedBlocks, IndexNat
<1>2. PICK r \in [0 .. n -> Int] : r = ReversePass(buffer, h, p)
  BY <1>1, ReverseDef
<1> DEFINE e(k) == buffer[At(p, k)].entry
           m(k) == buffer[At(p, k)].max
           g(k) == buffer[At(p, k)].gain
<1>3. \A k \in 0 .. n : e(k) \in Int /\ m(k) \in Nat /\ g(k) \in Nat
  BY <1>1, PlannedBlocks
<1>4. \A k \in 0 .. n : r[k] = IF k = 0 THEN e(0)
                               ELSE IF k = n THEN Lowest(m(k), g(k))
                               ELSE IF e(k) = m(k) THEN e(k)
                               ELSE Lowest(m(k), r[k + 1] + g(k))
  BY <1>1, <1>2, ReverseDef
<1>5. /\ \A k \in 1 .. n : e(k) <= m(k)
      /\ \A k \in 0 .. n : k # n => e(k) <= e(k + 1) + g(k)
      /\ e(n) <= g(n)
  BY <1>1 DEF Brakable
<1> HIDE DEF e, m, g
<1> DEFINE Good(k) == /\ e(k) <= r[k] /\ r[k] <= m(k)
                      /\ k # n => r[k] <= r[k + 1] + g(k)
                      /\ k = n => r[k] <= g(k)
                      /\ \/ r[k] = m(k)
                         \/ k = n /\ r[k] = g(k)
                         \/ k # n /\ r[k] = r[k + 1] + g(k)
           N == {j \in Nat : j < n => Good(n - j)}
<1>6. 0 \in N
  <2> SUFFICES ASSUME 0 < n PROVE Good(n)
    OBVIOUS
  <2>1. n \in 0 .. n /\ n \in 1 .. n /\ n # 0
    OBVIOUS
  <2>2. r[n] = Lowest(m(n), g(n)) /\ e(n) \in Int /\ m(n) \in Nat /\ g(n) \in Nat
        /\ e(n) <= m(n) /\ e(n) <= g(n)
    BY <1>3, <1>4, <1>5, <2>1
  <2> QED
    BY <2>2 DEF Lowest
<1>7. ASSUME NEW j \in Nat, j \in N
      PROVE  j + 1 \in N
  <2> SUFFICES ASSUME j + 1 < n PROVE Good(n - (j + 1))
    OBVIOUS
  <2>1. PICK k \in 1 .. n : k = n - (j + 1) /\ k + 1 = n - j /\ k # n /\ k + 1 \in 0 .. n /\ k \in 0 .. n
    OBVIOUS
  <2>2. Good(k + 1)
    BY <1>7, <2>1
  <2>3. e(k + 1) <= r[k + 1] /\ r[k + 1] \in Int /\ r[k] \in Int
    BY <2>1, <2>2
  <2>4. r[k] = IF e(k) = m(k) THEN e(k) ELSE Lowest(m(k), r[k + 1] + g(k))
    BY <1>4, <2>1
  <2>5. e(k) <= m(k) /\ e(k) <= e(k + 1) + g(k)
        /\ e(k) \in Int /\ e(k + 1) \in Int /\ m(k) \in Nat /\ g(k) \in Nat
    BY <1>3, <1>5, <2>1
  <2>6. Good(k)
    BY <2>1, <2>3, <2>4, <2>5 DEF Lowest
  <2> QED
    BY <2>1, <2>6
<1> HIDE DEF N, Good
<1>8. \A k \in 1 .. n : Good(k)
  <2>1. Nat \subseteq N
    BY <1>6, <1>7, Induction
  <2>2. ASSUME NEW k \in 1 .. n PROVE Good(k)
    <3>1. n - k \in Nat /\ n - k < n /\ n - (n - k) = k
      OBVIOUS
    <3>2. n - k \in N
      BY <2>1, <3>1
    <3> QED
      BY <3>1, <3>2 DEF N
  <2> QED
    BY <2>2
<1> QED
  BY <1>1, <1>2, <1>8 DEF Good, e, m, g

\* The forward pass keeps what the reverse pass made, as far as acceleration allows.
LEMMA ForwardPlans ==
  ASSUME NEW buffer \in [Indices -> Block], NEW h \in Indices, NEW p \in Indices,
         NEW n, n = LastBlock(h, p), NEW f, f = ForwardPass(buffer, h, p),
         Brakable(buffer, h, p)
  PROVE  /\ n \in Nat /\ f \in [0 .. n -> Int]
         /\ f[0] = buffer[At(p, 0)].entry
         /\ n = 0 => f[0] <= buffer[At(p, 0)].gain
         /\ n # 0 => f[0] <= f[1] + buffer[At(p, 0)].gain
         /\ \A k \in 1 .. n :
              /\ f[k] <= buffer[At(p, k)].max
              /\ f[k] <= f[k - 1] + buffer[At(p, k - 1)].gain
              /\ k # n => f[k] <= f[k + 1] + buffer[At(p, k)].gain
              /\ k = n => f[k] <= buffer[At(p, k)].gain
              /\ \/ f[k] = buffer[At(p, k)].max
                 \/ f[k] = f[k - 1] + buffer[At(p, k - 1)].gain
                 \/ k = n /\ f[k] = buffer[At(p, k)].gain
                 \/ k # n /\ f[k] = f[k + 1] + buffer[At(p, k)].gain
         /\ \A k \in 1 .. n : f[k] < ReversePass(buffer, h, p)[k]
                => f[k] = f[k - 1] + buffer[At(p, k - 1)].gain
<1>1. n \in Nat
  BY PlannedBlocks, IndexNat
<1>2. PICK r \in [0 .. n -> Int] : r = ReversePass(buffer, h, p)
  BY ReverseDef
<1> DEFINE e(k) == buffer[At(p, k)].entry
           m(k) == buffer[At(p, k)].max
           g(k) == buffer[At(p, k)].gain
<1>3. \A k \in 0 .. n : e(k) \in Int /\ m(k) \in Nat /\ g(k) \in Nat
  BY PlannedBlocks
<1>4. f \in [0 .. n -> Int]
      /\ \A k \in 0 .. n : f[k] = IF k = 0 THEN r[0] ELSE Lowest(r[k], f[k - 1] + g(k - 1))
  BY <1>2, ForwardDef
<1>5. f[0] = e(0)
  <2>1. 0 \in 0 .. n
    BY <1>1
  <2>2. r[0] = e(0)
    BY <1>2, <2>1, ReverseDef
  <2> QED
    BY <1>4, <2>1, <2>2
<1>6. /\ \A k \in 0 .. n : k # n => e(k) <= e(k + 1) + g(k)
      /\ e(n) <= g(n)
  BY DEF Brakable
<1>7. \A k \in 1 .. n :
        /\ e(k) <= r[k] /\ r[k] <= m(k)
        /\ k # n => r[k] <= r[k + 1] + g(k)
        /\ k = n => r[k] <= g(k)
        /\ \/ r[k] = m(k)
           \/ k = n /\ r[k] = g(k)
           \/ k # n /\ r[k] = r[k + 1] + g(k)
  BY <1>2, ReverseRaises
<1> HIDE DEF e, m, g
<1>8. \A k \in 1 .. n : /\ k \in 0 .. n /\ k # 0 /\ k - 1 \in 0 .. n /\ (k # n => k + 1 \in 1 .. n)
                        /\ (k + 1) - 1 = k
  BY <1>1
<1>9. ASSUME NEW k \in 1 .. n
      PROVE  /\ f[k] \in Int /\ r[k] \in Int /\ f[k - 1] \in Int /\ g(k - 1) \in Nat
             /\ f[k] <= r[k] /\ f[k] <= f[k - 1] + g(k - 1)
             /\ f[k] = r[k] \/ f[k] = f[k - 1] + g(k - 1)
  <2>1. f[k] = Lowest(r[k], f[k - 1] + g(k - 1))
    BY <1>4, <1>8
  <2>2. f[k] \in Int /\ r[k] \in Int /\ f[k - 1] \in Int /\ g(k - 1) \in Nat
    BY <1>3, <1>4, <1>8
  <2> QED
    BY <2>1, <2>2 DEF Lowest
<1>10. ASSUME NEW k \in 1 .. n, k # n
       PROVE  /\ f[k] <= f[k + 1] + g(k)
              /\ r[k] = r[k + 1] + g(k) /\ f[k] = r[k] => f[k] = f[k + 1] + g(k)
  <2>1. PICK j \in 1 .. n : j = k + 1 /\ j - 1 = k
    BY <1>8, <1>10
  <2>2. /\ f[j] \in Int /\ r[j] \in Int /\ g(k) \in Nat /\ f[j] <= r[j]
        /\ f[j] = r[j] \/ f[j] = f[k] + g(k)
    BY <1>9, <2>1
  <2>3. f[k] \in Int /\ r[k] \in Int /\ f[k] <= r[k] /\ r[k] <= r[j] + g(k)
    BY <1>7, <1>9, <1>10, <2>1
  <2> QED
    BY <2>1, <2>2, <2>3
<1>11. n # 0 => f[0] <= f[1] + g(0)
  <2> SUFFICES ASSUME n # 0 PROVE f[0] <= f[1] + g(0)
    OBVIOUS
  <2>1. 1 \in 1 .. n /\ 1 - 1 = 0 /\ 0 \in 0 .. n /\ 0 # n /\ 0 + 1 = 1 /\ 1 \in 0 .. n
    BY <1>1
  <2>2. f[1] \in Int /\ r[1] \in Int /\ g(0) \in Nat /\ e(0) \in Int /\ e(1) \in Int
        /\ (f[1] = r[1] \/ f[1] = f[0] + g(0))
    BY <1>3, <1>9, <2>1
  <2>3. e(0) <= e(1) + g(0) /\ e(1) <= r[1]
    BY <1>6, <1>7, <2>1
  <2> QED
    BY <1>5, <2>2, <2>3
<1>12. ASSUME NEW k \in 1 .. n
       PROVE  /\ f[k] <= m(k)
              /\ k = n => f[k] <= g(k)
              /\ \/ f[k] = m(k) \/ f[k] = f[k - 1] + g(k - 1)
                 \/ k = n /\ f[k] = g(k)
                 \/ k # n /\ f[k] = f[k + 1] + g(k)
              /\ f[k] < r[k] => f[k] = f[k - 1] + g(k - 1)
  <2>1. m(k) \in Nat /\ g(k) \in Nat
    BY <1>3, <1>8
  <2>2. /\ f[k] \in Int /\ r[k] \in Int /\ f[k] <= r[k]
        /\ f[k] = r[k] \/ f[k] = f[k - 1] + g(k - 1)
    BY <1>9
  <2>3. /\ r[k] <= m(k)
        /\ k = n => r[k] <= g(k)
        /\ \/ r[k] = m(k)
           \/ k = n /\ r[k] = g(k)
           \/ k # n /\ r[k] = r[k + 1] + g(k)
    BY <1>7
  <2> QED
    BY <1>10, <2>1, <2>2, <2>3
<1>13. n = 0 => f[0] <= g(0)
  BY <1>1, <1>5, <1>6
<1> QED
  BY <1>1, <1>2, <1>4, <1>5, <1>9, <1>10, <1>11, <1>12, <1>13 DEF e, m, g

-----------------------------------------------------------------------------
\* Speeds are never negative: neither pass makes one so.
LEMMA PassesNonNegative ==
  ASSUME NEW buffer \in [Indices -> Block], NEW h \in Indices, NEW p \in Indices,
         \A i \in Indices : buffer[i].entry >= 0
  PROVE  \A i \in Indices : Recalculated(buffer, h, p)[i].entry >= 0
<1>1. PICK n \in Nat : n = LastBlock(h, p)
  BY PlannedBlocks, IndexNat
<1>2. PICK r \in [0 .. n -> Int] : r = ReversePass(buffer, h, p)
  BY <1>1, ReverseDef
<1>3. PICK f \in [0 .. n -> Int] : f = ForwardPass(buffer, h, p)
  BY <1>1, ForwardDef
<1> DEFINE e(k) == buffer[At(p, k)].entry
           m(k) == buffer[At(p, k)].max
           g(k) == buffer[At(p, k)].gain
<1>4. \A k \in 0 .. n : e(k) \in Nat /\ m(k) \in Nat /\ g(k) \in Nat
  BY <1>1, PlannedBlocks
<1>5. \A k \in 0 .. n : r[k] = IF k = 0 THEN e(0)
                               ELSE IF k = n THEN Lowest(m(k), g(k))
                               ELSE IF e(k) = m(k) THEN e(k)
                               ELSE Lowest(m(k), r[k + 1] + g(k))
  BY <1>1, <1>2, ReverseDef
<1>6. \A k \in 0 .. n : f[k] = IF k = 0 THEN r[0] ELSE Lowest(r[k], f[k - 1] + g(k - 1))
  <2>1. \A k \in 0 .. LastBlock(h, p) :
          ForwardPass(buffer, h, p)[k] =
            IF k = 0 THEN ReversePass(buffer, h, p)[0]
            ELSE Lowest(ReversePass(buffer, h, p)[k],
                        ForwardPass(buffer, h, p)[k - 1] + buffer[At(p, k - 1)].gain)
    BY ForwardDef
  <2> QED
    BY ONLY <1>1, <1>2, <1>3, <2>1
<1> HIDE DEF e, m, g
<1> DEFINE N == {j \in Nat : j <= n => r[n - j] \in Nat}
           M == {j \in Nat : j <= n => f[j] \in Nat}
<1>7. 0 \in N
  <2>1. n \in 0 .. n /\ 0 \in 0 .. n /\ n - 0 = n
    OBVIOUS
  <2>2. r[n] \in Nat
    BY <1>4, <1>5, <2>1 DEF Lowest
  <2> QED
    BY <2>1, <2>2
<1>8. ASSUME NEW j \in Nat, j \in N
      PROVE  j + 1 \in N
  <2> SUFFICES ASSUME j + 1 <= n PROVE r[n - (j + 1)] \in Nat
    OBVIOUS
  <2>1. PICK k \in 0 .. n : k = n - (j + 1) /\ k + 1 = n - j /\ k # n /\ 0 \in 0 .. n
    OBVIOUS
  <2>2. r[k + 1] \in Nat
    BY <1>8, <2>1
  <2>3. r[k] = IF k = 0 THEN e(0)
               ELSE IF e(k) = m(k) THEN e(k) ELSE Lowest(m(k), r[k + 1] + g(k))
    BY <1>5, <2>1
  <2>4. e(0) \in Nat /\ e(k) \in Nat /\ m(k) \in Nat /\ g(k) \in Nat
    BY <1>4, <2>1
  <2>5. Lowest(m(k), r[k + 1] + g(k)) \in Nat
    BY <2>2, <2>4 DEF Lowest
  <2>6. r[k] \in Nat
    BY <2>3, <2>4, <2>5
  <2> QED
    BY <2>1, <2>6
<1>9. \A k \in 0 .. n : r[k] \in Nat
  <2> HIDE DEF N
  <2>1. Nat \subseteq N
    BY <1>7, <1>8, Induction
  <2>2. ASSUME NEW k \in 0 .. n PROVE r[k] \in Nat
    <3>1. n - k \in Nat /\ n - k <= n /\ n - (n - k) = k
      OBVIOUS
    <3> QED
      BY <2>1, <3>1 DEF N
  <2> QED
    BY <2>2
<1>10. 0 \in M
  BY <1>6, <1>9
<1>11. ASSUME NEW j \in Nat, j \in M
       PROVE  j + 1 \in M
  <2> SUFFICES ASSUME j + 1 <= n PROVE f[j + 1] \in Nat
    OBVIOUS
  <2>1. j + 1 \in 0 .. n /\ j \in 0 .. n /\ (j + 1) - 1 = j /\ j + 1 # 0 /\ f[j] \in Nat
    BY <1>11
  <2>2. f[j + 1] = Lowest(r[j + 1], f[j] + g(j))
    BY <1>6, <2>1
  <2>3. r[j + 1] \in Nat /\ g(j) \in Nat
    BY <1>4, <1>9, <2>1
  <2> QED
    BY <2>1, <2>2, <2>3 DEF Lowest
<1>12. \A k \in 0 .. n : f[k] \in Nat
  <2> HIDE DEF M
  <2>1. Nat \subseteq M
    BY <1>10, <1>11, Induction
  <2> QED
    BY <2>1 DEF M
<1>13. ASSUME NEW i \in Indices
       PROVE  Recalculated(buffer, h, p)[i].entry >= 0
  <2>1. Recalculated(buffer, h, p)[i].entry
          = IF Distance(p, i) <= n THEN f[Distance(p, i)] ELSE buffer[i].entry
    BY <1>1, <1>3, RecalculatedKeeps
  <2>2. Distance(p, i) \in Nat
    BY RingInverse, IndexNat
  <2> QED
    BY <1>12, <2>1, <2>2
<1> QED
  BY <1>13

\* The index of the block k places after i, seen from a block in between.
LEMMA RingBetween ==
  ASSUME NEW i \in Indices, NEW p \in Indices, NEW k \in Nat, k < BLOCK_BUFFER_SIZE
  PROVE  /\ At(i, k) \in Indices /\ Distance(i, p) \in Nat
         /\ Distance(i, p) <= k =>
              /\ Distance(p, At(i, k)) = k - Distance(i, p)
              /\ At(p, k - Distance(i, p)) = At(i, k)
         /\ k < Distance(i, p) => Distance(p, At(i, k)) = k - Distance(i, p) + BLOCK_BUFFER_SIZE
<1> DEFINE B == BLOCK_BUFFER_SIZE
<1>1. k \in Indices
  BY RingAssumption DEF Indices
<1>2. At(i, k) \in Indices /\ Distance(i, At(i, k)) = k /\ Distance(i, p) \in Indices
  BY <1>1, RingInverse
<1>3. Distance(i, p) <= k => Distance(p, At(i, k)) = k - Distance(i, p)
  BY <1>2, RingDifference
<1>4. At(p, Distance(p, At(i, k))) = At(i, k)
  BY <1>2, RingInverse
<1>5. ASSUME k < Distance(i, p)
      PROVE  Distance(p, At(i, k)) = k - Distance(i, p) + B
  <2>1. PICK j \in Indices : j = At(i, k)
    BY <1>2
  <2>2. /\ Distance(i, p) = IF i <= p THEN p - i ELSE p - i + B
        /\ Distance(i, j) = IF i <= j THEN j - i ELSE j - i + B
        /\ Distance(p, j) = IF p <= j THEN j - p ELSE j - p + B
    BY RingDistance
  <2>3. i \in Nat /\ j \in Nat /\ p \in Nat /\ i < B /\ j < B /\ p < B /\ B \in Nat
    BY IndexNat, RingAssumption
  <2>4. Distance(i, j) = k
    BY <1>2, <2>1
  <2>5. Distance(p, j) = k - Distance(i, p) + B
    <3> HIDE DEF B
    <3> QED
      BY <1>5, <2>2, <2>3, <2>4
  <2> QED
    BY <2>1, <2>5
<1> QED
  BY <1>2, <1>3, <1>4, <1>5, IndexNat

\* Entry speeds of a queue of q blocks from i on, which ends at rest.
EntryIn(buffer, i, q, k) == IF k = q THEN 0 ELSE buffer[At(i, k)].entry

\* Re-planning from a block of the queue on.
LEMMA Replanned ==
  ASSUME NEW buffer \in [Indices -> Block], NEW i \in Indices, NEW h \in Indices, NEW p \in Indices,
         NEW q, q = Distance(i, h), NEW a, a = Distance(i, p), a < q,
         NEW c, c = Distance(i, NewPlanned(buffer, h, p)),
         NEW new, new = Recalculated(buffer, h, p),
         \A k \in a .. (q - 1) :
           /\ buffer[At(i, k)].entry <= EntryIn(buffer, i, q, k + 1) + buffer[At(i, k)].gain
           /\ k # a => buffer[At(i, k)].entry <= buffer[At(i, k)].max
  PROVE  /\ q \in Nat /\ a \in Nat /\ c \in a .. (q - 1)
         /\ \A k \in 0 .. a : new[At(i, k)].entry = buffer[At(i, k)].entry
         /\ \A k \in a .. (q - 1) :
              /\ new[At(i, k)].entry <= EntryIn(new, i, q, k + 1) + buffer[At(i, k)].gain
              /\ k # a =>
                   /\ new[At(i, k)].entry <= buffer[At(i, k)].max
                   /\ new[At(i, k)].entry <= new[At(i, k - 1)].entry + buffer[At(i, k - 1)].gain
                   /\ \/ new[At(i, k)].entry = buffer[At(i, k)].max
                      \/ new[At(i, k)].entry
                           = new[At(i, k - 1)].entry + buffer[At(i, k - 1)].gain
                      \/ /\ k # c
                         /\ new[At(i, k)].entry
                              = EntryIn(new, i, q, k + 1) + buffer[At(i, k)].gain
<1>1. PICK n \in Nat : n = LastBlock(h, p)
  BY PlannedBlocks, IndexNat
<1>2. /\ q \in Nat /\ a \in Nat /\ q < BLOCK_BUFFER_SIZE /\ BLOCK_BUFFER_SIZE \in Nat
      /\ n = q - 1 - a /\ a <= c /\ c < q /\ c \in Nat
  <2>1. q \in Nat /\ a \in Nat /\ q < BLOCK_BUFFER_SIZE /\ BLOCK_BUFFER_SIZE \in Nat
    BY RingInverse, IndexNat, RingAssumption
  <2>2. c \in Nat
    BY NewPlannedIndex, RingInverse, IndexNat
  <2> QED
    BY <1>1, <2>1, <2>2, NewPlannedWithin
<1>3. PICK f : f = ForwardPass(buffer, h, p)
  OBVIOUS
\* The blocks, counted from p.
<1>4. \A j \in 0 .. n : /\ At(p, j) = At(i, a + j) /\ a + j \in a .. (q - 1)
                        /\ Distance(p, At(i, a + j)) = j
  <2> SUFFICES ASSUME NEW j \in 0 .. n
               PROVE  /\ At(p, j) = At(i, a + j) /\ a + j \in a .. (q - 1)
                      /\ Distance(p, At(i, a + j)) = j
    OBVIOUS
  <2>1. a + j \in Nat /\ a + j < BLOCK_BUFFER_SIZE /\ a <= a + j /\ (a + j) - a = j
        /\ a + j \in a .. (q - 1)
    BY <1>2
  <2> QED
    BY <2>1, RingBetween
<1>5. \A k \in a .. (q - 1) : /\ k - a \in 0 .. n /\ At(i, k) = At(p, k - a)
                              /\ Distance(p, At(i, k)) = k - a /\ At(i, k) \in Indices
  <2> SUFFICES ASSUME NEW k \in a .. (q - 1)
               PROVE  /\ k - a \in 0 .. n /\ At(i, k) = At(p, k - a)
                      /\ Distance(p, At(i, k)) = k - a /\ At(i, k) \in Indices
    OBVIOUS
  <2>1. k \in Nat /\ k < BLOCK_BUFFER_SIZE /\ a <= k /\ k - a \in 0 .. n
    BY <1>2
  <2> QED
    BY <2>1, RingBetween
<1>6. Brakable(buffer, h, p)
  <2>1. \A k \in 1 .. n : buffer[At(p, k)].entry <= buffer[At(p, k)].max
    <3> SUFFICES ASSUME NEW k \in 1 .. n PROVE buffer[At(p, k)].entry <= buffer[At(p, k)].max
      OBVIOUS
    <3>1. k \in 0 .. n /\ a + k # a
      BY <1>2
    <3> QED
      BY <1>4, <3>1
  <2>2. ASSUME NEW k \in 0 .. n, k # n
        PROVE  buffer[At(p, k)].entry <= buffer[At(p, k + 1)].entry + buffer[At(p, k)].gain
    <3>1. k + 1 \in 0 .. n /\ a + (k + 1) = (a + k) + 1 /\ (a + k) + 1 # q
      BY <1>2, <2>2
    <3>2. EntryIn(buffer, i, q, (a + k) + 1) = buffer[At(p, k + 1)].entry
      BY <1>4, <3>1 DEF EntryIn
    <3>3. buffer[At(i, a + k)].entry <= EntryIn(buffer, i, q, (a + k) + 1) + buffer[At(i, a + k)].gain
          /\ At(p, k) = At(i, a + k)
      BY <1>4
    <3> QED
      BY <3>2, <3>3
  <2>3. buffer[At(p, n)].entry <= buffer[At(p, n)].gain
    <3>1. n \in 0 .. n /\ (a + n) + 1 = q
      BY <1>2
    <3>2. EntryIn(buffer, i, q, (a + n) + 1) = 0
      BY <3>1 DEF EntryIn
    <3>3. buffer[At(i, a + n)].entry <= 0 + buffer[At(i, a + n)].gain /\ At(p, n) = At(i, a + n)
      BY <1>4, <3>1, <3>2
    <3>4. buffer[At(p, n)].gain \in Nat
      BY <1>1, <3>1, PlannedBlocks
    <3> QED
      BY <3>3, <3>4
  <2> QED
    BY <1>1, <2>1, <2>2, <2>3 DEF Brakable
<1>7. /\ f \in [0 .. n -> Int]
      /\ f[0] = buffer[At(p, 0)].entry
      /\ n = 0 => f[0] <= buffer[At(p, 0)].gain
      /\ n # 0 => f[0] <= f[1] + buffer[At(p, 0)].gain
      /\ \A k \in 1 .. n :
           /\ f[k] <= buffer[At(p, k)].max
           /\ f[k] <= f[k - 1] + buffer[At(p, k - 1)].gain
           /\ k # n => f[k] <= f[k + 1] + buffer[At(p, k)].gain
           /\ k = n => f[k] <= buffer[At(p, k)].gain
           /\ \/ f[k] = buffer[At(p, k)].max
              \/ f[k] = f[k - 1] + buffer[At(p, k - 1)].gain
              \/ k = n /\ f[k] = buffer[At(p, k)].gain
              \/ k # n /\ f[k] = f[k + 1] + buffer[At(p, k)].gain
      /\ \A k \in 1 .. n : f[k] < ReversePass(buffer, h, p)[k]
             => f[k] = f[k - 1] + buffer[At(p, k - 1)].gain
  BY <1>1, <1>3, <1>6, ForwardPlans
<1>8. \A k \in a .. (q - 1) : new[At(i, k)].entry = f[k - a]
  <2> SUFFICES ASSUME NEW k \in a .. (q - 1) PROVE new[At(i, k)].entry = f[k - a]
    OBVIOUS
  <2>1. new[At(i, k)].entry = IF Distance(p, At(i, k)) <= n THEN f[Distance(p, At(i, k))]
                              ELSE buffer[At(i, k)].entry
    BY <1>1, <1>3, <1>5, RecalculatedKeeps
  <2> QED
    BY <1>5, <2>1
<1>9. \A k \in 0 .. a : new[At(i, k)].entry = buffer[At(i, k)].entry
  <2> SUFFICES ASSUME NEW k \in 0 .. a PROVE new[At(i, k)].entry = buffer[At(i, k)].entry
    OBVIOUS
  <2>1. CASE k = a
    <3>1. k \in a .. (q - 1) /\ k - a = 0
      BY <1>2, <2>1
    <3> QED
      BY <1>5, <1>7, <1>8, <3>1
  <2>2. CASE k # a
    <3>1. k \in Nat /\ k < a /\ k < BLOCK_BUFFER_SIZE
      BY <1>2, <2>2
    <3>2. At(i, k) \in Indices /\ Distance(p, At(i, k)) = k - a + BLOCK_BUFFER_SIZE
      BY <3>1, RingBetween
    <3>3. ~(Distance(p, At(i, k)) <= n)
      BY <1>2, <3>1, <3>2
    <3>4. new[At(i, k)].entry = IF Distance(p, At(i, k)) <= n THEN f[Distance(p, At(i, k))]
                                ELSE buffer[At(i, k)].entry
      BY <1>1, <1>3, <3>2, RecalculatedKeeps
    <3> QED
      BY <3>3, <3>4
  <2> QED
    BY <2>1, <2>2
\* What the new pointer says of its block.
<1>10. ASSUME c # a
       PROVE  /\ c - a \in 1 .. n
              /\ f[c - a] = buffer[At(p, c - a)].max
                 \/ f[c - a] = f[(c - a) - 1] + buffer[At(p, (c - a) - 1)].gain
  <2> DEFINE S == Breakpoints(buffer, h, p)
  <2>1. S # {}
    BY <1>10 DEF NewPlanned
  <2>2. S \in SUBSET (1 .. n) /\ S \in SUBSET (0 .. n)
    BY <1>1, <1>2 DEF Breakpoints
  <2>3. PICK k \in S : NewPlanned(buffer, h, p) = At(p, k)
    <3>1. Max(S) \in S
      BY <1>2, <2>1, <2>2, MaxOf
    <3> QED
      BY <2>1, <3>1 DEF NewPlanned
  <2>4. k \in 1 .. n /\ k \in 0 .. n
    BY <2>2
  <2>5. c = a + k
    <3>1. Distance(i, p) + k < BLOCK_BUFFER_SIZE
      BY <1>2, <2>4
    <3> QED
      BY <2>3, <2>4, <3>1, RingSum
  <2>6. f[k] < ReversePass(buffer, h, p)[k] \/ f[k] = buffer[At(p, k)].max
    BY <1>3, <2>3 DEF Breakpoints
  <2>7. c - a = k
    BY <1>2, <2>4, <2>5
  <2> QED
    BY <1>7, <2>4, <2>6, <2>7
<1>11. ASSUME NEW k \in a .. (q - 1)
       PROVE  /\ new[At(i, k)].entry <= EntryIn(new, i, q, k + 1) + buffer[At(i, k)].gain
              /\ k # a =>
                   /\ new[At(i, k)].entry <= buffer[At(i, k)].max
                   /\ new[At(i, k)].entry <= new[At(i, k - 1)].entry + buffer[At(i, k - 1)].gain
                   /\ \/ new[At(i, k)].entry = buffer[At(i, k)].max
                      \/ new[At(i, k)].entry
                           = new[At(i, k - 1)].entry + buffer[At(i, k - 1)].gain
                      \/ /\ k # c
                         /\ new[At(i, k)].entry
                              = EntryIn(new, i, q, k + 1) + buffer[At(i, k)].gain
  <2>1. PICK j \in 0 .. n : j = k - a
    BY <1>5
  <2>2. At(i, k) = At(p, j) /\ new[At(i, k)].entry = f[j] /\ buffer[At(p, j)].gain \in Nat
    BY <1>1, <1>5, <1>8, <2>1, PlannedBlocks
  <2>3. EntryIn(new, i, q, k + 1) = IF j = n THEN 0 ELSE f[j + 1]
    <3>1. CASE j = n
      BY <1>2, <2>1, <3>1 DEF EntryIn
    <3>2. CASE j # n
      <4>1. k + 1 \in a .. (q - 1) /\ (k + 1) - a = j + 1 /\ k + 1 # q
        BY <1>2, <2>1, <3>2
      <4> QED
        BY <1>8, <3>2, <4>1 DEF EntryIn
    <3> QED
      BY <3>1, <3>2
  <2>4. f[j] <= (IF j = n THEN 0 ELSE f[j + 1]) + buffer[At(p, j)].gain
    <3>1. CASE j = 0
      <4>1. j = n => f[j] <= 0 + buffer[At(p, j)].gain
        BY <1>7, <2>2, <3>1
      <4>2. j # n => f[j] <= f[j + 1] + buffer[At(p, j)].gain
        <5>1. 0 + 1 = 1
          OBVIOUS
        <5> QED
          BY <1>7, <3>1, <5>1
      <4> QED
        BY <4>1, <4>2
    <3>2. CASE j # 0
      <4>1. j \in 1 .. n
        BY <3>2
      <4>2. j = n => f[j] <= 0 + buffer[At(p, j)].gain
        BY <1>7, <2>2, <4>1
      <4> QED
        BY <1>7, <4>1, <4>2
    <3> QED
      BY <3>1, <3>2
  <2>5. CASE k = a
    BY <2>2, <2>3, <2>4, <2>5
  <2>6. CASE k # a
    <3>1. j \in 1 .. n /\ k - 1 \in a .. (q - 1) /\ (k - 1) - a = j - 1
      BY <1>2, <2>1, <2>6
    <3>2. At(i, k - 1) = At(p, j - 1) /\ new[At(i, k - 1)].entry = f[j - 1]
      BY <1>5, <1>8, <3>1
    <3>3. f[j] <= buffer[At(p, j)].max /\ f[j] <= f[j - 1] + buffer[At(p, j - 1)].gain
      BY <1>7, <3>1
    <3>4. \/ f[j] = buffer[At(p, j)].max
          \/ f[j] = f[j - 1] + buffer[At(p, j - 1)].gain
          \/ f[j] = (IF j = n THEN 0 ELSE f[j + 1]) + buffer[At(p, j)].gain
      <4>1. j = n /\ f[j] = buffer[At(p, j)].gain => f[j] = 0 + buffer[At(p, j)].gain
        BY <2>2
      <4> QED
        BY <1>7, <3>1, <4>1
    <3>5. k = c => f[j] = buffer[At(p, j)].max \/ f[j] = f[j - 1] + buffer[At(p, j - 1)].gain
      BY <1>10, <2>1, <2>6
    <3> QED
      BY <2>2, <2>3, <2>4, <3>2, <3>3, <3>4, <3>5
  <2> QED
    BY <2>5, <2>6
<1> QED
  BY <1>2, <1>9, <1>11
=============================================================================
