------------------------------ MODULE Pipeline ------------------------------
(***************************************************************************)
(* From the planner to the motors: the main program that queues motions,   *)
(* changes overrides, holds, starts and flushes (motion_control.c,         *)
(* protocol.c), around the planner, the segment generator and the stepper  *)
(* interrupt.  The control core reduces the two buffers to sequences; here *)
(* they are rings with indices, slots, speeds and stale contents.          *)
(***************************************************************************)
EXTENDS Segments, Sums

\* The main program, between two calls of st_prep_buffer.

\* plan_buffer_line.  Lines are refused while suspended.
BufferLine ==
  /\ prepping = "no" /\ ~hold_complete
  /\ sent < MaxMotions /\ ~plan_check_full_buffer
  /\ \E line \in Lines :
       /\ planner_recalculate(
            [block_buffer EXCEPT ![head] = NewBlock(line, sent + 1)],
            plan_next_block_index(head))
       /\ previous_nominal' = Nominal(line, override)
  /\ head' = plan_next_block_index(head)
  /\ sent' = sent + 1
  /\ UNCHANGED <<tail, override, segs, st_block_buffer, isrVars,
                 modeVars, prepping, historyVars>>

\* A line without length has already wiped the slot at the head.
BufferNothing ==
  /\ prepping = "no" /\ ~hold_complete
  /\ ~plan_check_full_buffer
  /\ block_buffer' = [block_buffer EXCEPT ![head] = NoBlock]
  /\ UNCHANGED <<tail, head, planned, previous_nominal, override, segs,
                 st_block_buffer, prep, isrVars, modeVars, prepping, sent,
                 historyVars>>

\* A feed override is changed and the queue planned again.
ChangeOverride ==
  /\ prepping = "no"
  /\ \E o \in Overrides \ {override} :
       /\ override' = o
       /\ previous_nominal' = LastNominal(o)
       /\ plan_cycle_reinitialize(Reprofiled(o))
       /\ reduced' = (reduced \/ (o < override /\ ~Empty))
  /\ UNCHANGED <<tail, head, segs, st_block_buffer, isrVars, modeVars,
                 prepping, sent, starved>>

\* A feed hold: a motion decelerates, a machine at rest is held at once.
Hold ==
  /\ prepping = "no"
  /\ mode \in {"IDLE", "CYCLE"}
  /\ mode' = "HOLD"
  /\ IF mode = "CYCLE"
     THEN /\ block_buffer' = Updated(block_buffer)
          /\ prep' = Unloaded
          /\ execute_hold' = TRUE /\ end_motion' = FALSE
          /\ UNCHANGED hold_complete
     ELSE /\ hold_complete' = TRUE
          /\ UNCHANGED <<block_buffer, prep, execute_hold, end_motion>>
  /\ UNCHANGED <<tail, head, planned, previous_nominal, override, segs,
                 st_block_buffer, isrVars, prepping, sent, historyVars>>

\* A cycle start, from rest or from a completed hold.
Start ==
  /\ prepping = "no"
  /\ mode = "IDLE" \/ (mode = "HOLD" /\ hold_complete)
  /\ execute_hold' = FALSE /\ end_motion' = FALSE
  /\ hold_complete' = FALSE
  /\ mode' = IF Empty THEN "IDLE" ELSE "CYCLE"
  /\ prepping' = IF ~Empty /\ ~SegmentsFull THEN "start" ELSE "no"
  /\ stepping' = (stepping \/ (~Empty /\ SegmentsFull))
  /\ UNCHANGED <<plannerVars, segs, st_block_buffer, prep, executing,
                 exec_block_index, counters, cycle_stop, sent, historyVars>>

\* The report of the interrupt is handled.
CycleStop ==
  /\ prepping = "no"
  /\ cycle_stop /\ cycle_stop' = FALSE
  /\ IF mode = "HOLD"
     THEN /\ plan_cycle_reinitialize(block_buffer)
          /\ hold_complete' = (hold_complete \/ execute_hold)
          /\ execute_hold' = FALSE
          /\ UNCHANGED mode
     ELSE /\ mode' = "IDLE"
          /\ hold_complete' = FALSE
          /\ UNCHANGED <<block_buffer, planned, prep, execute_hold>>
  /\ UNCHANGED <<tail, head, previous_nominal, override, segs,
                 st_block_buffer, stepping, executing, exec_block_index,
                 counters, end_motion, prepping, sent, historyVars>>

\* plan_reset and st_reset: after a reset, which restores the override, or
\* when a jog is cancelled, which does not.
Flush ==
  /\ prepping = "no"
  /\ PlanReset
  /\ StReset
  /\ override' \in {override, DEFAULT_OVERRIDE}
  /\ mode' = "IDLE" /\ cycle_stop' = FALSE
  /\ execute_hold' = FALSE /\ end_motion' = FALSE /\ hold_complete' = FALSE
  /\ starved' = FALSE /\ reduced' = FALSE
  /\ UNCHANGED <<block_buffer, st_block_buffer, prepping, sent>>

Init ==
  /\ PlannerInit
  /\ segs = <<>>
  /\ st_block_buffer = [slot \in Slots |-> 0]
  /\ prep = PrepReset
  /\ stepping = FALSE /\ executing = FALSE
  /\ exec_block_index = 0 /\ counters = 0 /\ cycle_stop = FALSE
  /\ mode = "IDLE"
  /\ execute_hold = FALSE /\ end_motion = FALSE /\ hold_complete = FALSE
  /\ prepping = "no"
  /\ sent = 0 /\ starved = FALSE /\ reduced = FALSE

Generator == PrepSegment \/ PrepStandstill
Interrupt == IsrLoad \/ IsrDone \/ IsrEmpty
Main == \/ BufferLine \/ BufferNothing \/ ChangeOverride
        \/ Hold \/ Start \/ CycleStop \/ Flush

Next == Generator \/ Interrupt \/ Main

Spec == Init /\ [][Next]_vars

-----------------------------------------------------------------------------
\* Types and capacities.

Block == [id : 0 .. MaxMotions, gain : Nat, entry : Int, max : Nat,
          junction : Nat, rate : Nat]

\* Every index stays in its ring, and the segment buffer keeps one place free.
TypeOK ==
  /\ block_buffer \in [Indices -> Block]
  /\ {tail, head, planned} \subseteq Indices
  /\ override \in Overrides /\ previous_nominal \in Nat
  /\ segs \in Seq([slot : Slots, steps : Nat])
  /\ Len(segs) < SEGMENT_BUFFER_SIZE
  /\ st_block_buffer \in [Slots -> 0 .. MaxMotions]
  /\ prep \in [loaded : BOOLEAN, recalculate : BOOLEAN, decel_override : BOOLEAN,
               index : Slots, speed : Int, exit : Int, complete : Int,
               decelerate : BOOLEAN]
  /\ {stepping, executing, cycle_stop, execute_hold, end_motion, hold_complete}
       \subseteq BOOLEAN
  /\ exec_block_index \in Slots /\ counters \in 0 .. MaxMotions
  /\ mode \in {"IDLE", "CYCLE", "HOLD"}
  /\ prepping \in {"no", "refill", "start"}
  /\ sent \in 0 .. MaxMotions /\ {starved, reduced} \subseteq BOOLEAN

-----------------------------------------------------------------------------
\* The pipeline is a queue of motions.

\* What is left of motion m: in the segments whose slot names it, and in the
\* planner's blocks.
SegmentsOf(m) ==
  Sum([i \in 1 .. Len(segs) |->
         IF st_block_buffer[segs[i].slot] = m THEN segs[i].steps ELSE 0], Len(segs))

\* The number of queued blocks, and the k-th of them, counted from 1.
Queued == Distance(tail, head)
QueuedBlock(k) == block_buffer[At(tail, k - 1)]

BlocksOf(m) ==
  Sum([k \in 1 .. Queued |->
         IF QueuedBlock(k).id = m THEN QueuedBlock(k).gain ELSE 0], Queued)

Remaining == [m \in Motions |-> SegmentsOf(m) + BlocksOf(m)]

Queue == INSTANCE MotionQueue
           WITH left <- Remaining,
                Lengths <- {line.gain : line \in Lines}

\* Planner, segment generator and interrupt together implement a queue: every
\* motion is executed to its last step and in order, however holds, overrides
\* and re-planning cut it into segments.
MotionsInOrder == Queue!Spec

\* The segment in execution runs on the counters of its own motion: when it
\* began the interrupt saw that the slot was a new one, and nothing has
\* overwritten the slot since.
CountersMatch ==
  executing => counters = st_block_buffer[Head(segs).slot]

\* Why it does so for every size of the buffers.  Slots are given out in turn,
\* and not more of them than there are segments queued, plus one when the hold
\* of a block has ended before its first segment.

\* A block has its slot and is not finished.
InProgress == prep.loaded \/ prep.recalculate

\* How often the slot was advanced to get from i to j.
SlotsFrom(i, j) == IF i <= j THEN j - i ELSE j - i + SEGMENT_BUFFER_SIZE - 1

\* No more slots separate a queued segment from the newest one than there are
\* segments behind it.
SlotsInTurn ==
  \A i \in 1 .. Len(segs) :
    SlotsFrom(segs[i].slot, prep.index)
      <= Len(segs) - i + (IF InProgress THEN 1 ELSE 0)

\* The interrupt has got to the end of the slots given out.
SlotsDrained ==
  segs = <<>> =>
    SlotsFrom(exec_block_index, prep.index) <= (IF InProgress THEN 1 ELSE 0)

\* What comes next in the interrupt's slot is a part of the motion it counts.
SlotKept ==
  LET next == IF segs # <<>> THEN Head(segs).slot ELSE prep.index
  IN  (segs # <<>> \/ InProgress) /\ next = exec_block_index
        => counters = st_block_buffer[exec_block_index]

\* The slot in execution is that of the first segment.
SlotExecuted ==
  executing => segs # <<>> /\ exec_block_index = Head(segs).slot

SlotsAgree == SlotsInTurn /\ SlotsDrained /\ SlotKept /\ SlotExecuted

-----------------------------------------------------------------------------
\* The plan.

\* Junction k is the entry of the k-th block after the tail, junction 0 where
\* the machine is.
Entry(k) == IF k = Queued THEN 0 ELSE block_buffer[At(tail, k)].entry
Gain(k) == block_buffer[At(tail, k)].gain

\* The highest speed at junction k taken alone.
Limit(k) ==
  IF k = 0 THEN IF prep.loaded THEN prep.speed ELSE Entry(0)
  ELSE IF k = Queued THEN 0
  ELSE block_buffer[At(tail, k)].max

\* How far junction k is from the tail: the lengths of the blocks before it.
Place(k) == Sum([i \in 1 .. Queued |-> Gain(i - 1)], k)

\* The highest speed at junction k that the limits of all junctions allow.
Optimum(k) ==
  Min({Limit(j) + (IF j <= k THEN Place(k) - Place(j) ELSE Place(j) - Place(k)) :
         j \in 0 .. Queued})

\* The plan is optimal: what block_buffer_planned and the test against the
\* maximum spare planner_recalculate could not have been improved.  Not so
\* during a hold, nor once an override was reduced: then a block that stands at
\* its maximum is spared (planner.c:158) although the speed after it is lower.
PlanOptimal ==
  ~execute_hold /\ ~reduced =>
    \A k \in 1 .. (Queued - 1) : Entry(k) = Optimum(k)

\* block_buffer_planned is a block of the queue, whatever it was while the
\* queue was empty.
PlannedInQueue == Queued > 0 => Distance(tail, planned) < Queued

\* The exit speed the generator works towards is the plan's: the block in
\* execution is loaded again whenever the speed after it changes.
ExitMatchesPlan ==
  prep.loaded /\ ~execute_hold /\ ~prep.decel_override /\ ~end_motion
    => prep.exit = Entry(1)

\* The speed changes by no more than the steps made allow, across blocks,
\* re-planning, holds and resumes, as long as the main program keeps the
\* segment buffer from running empty.
MotionContinuous ==
  [][LET change == prep'.speed - prep.speed
         steps == IF Len(segs') > Len(segs) THEN segs'[Len(segs')].steps ELSE 0
     IN  Flush \/ starved \/ reduced \/ (change <= steps /\ -change <= steps)]_vars
=============================================================================
