------------------------------ MODULE Segments ------------------------------
(***************************************************************************)
(* The stepper subsystem of stepper.c in detail: st_prep_buffer checks     *)
(* segments out of the block at the planner's tail along a velocity        *)
(* profile, the stepper interrupt executes them.  What a segment needs of  *)
(* its block is copied to a slot of st_block_buffer when the block is      *)
(* loaded; the interrupt sees a new block by a new slot index.             *)
(*                                                                         *)
(* One step of the generator is one segment: the interrupt may come        *)
(* between two of them, the main program may not, since the loop is part   *)
(* of one call.                                                            *)
(***************************************************************************)
EXTENDS Planner, Sequences

CONSTANTS
  SEGMENT_BUFFER_SIZE,
  MaxMotions        \* bound on the motions sent

ASSUME SegmentAssumption ==
  /\ SEGMENT_BUFFER_SIZE \in Nat /\ SEGMENT_BUFFER_SIZE > 2
  /\ MaxMotions \in Nat

VARIABLES
  segs,              \* the segments of segment_buffer: [slot, steps]
  st_block_buffer,   \* slot -> the motion its data were copied from
  prep,              \* the generator's state
  stepping,          \* the stepper interrupt is enabled
  executing,         \* st.exec_segment: Head(segs) is being executed
  exec_block_index,  \* the slot being executed
  counters,          \* the motion the Bresenham counters were set up for
  mode,              \* sys.state: "IDLE", "CYCLE" or "HOLD"
  execute_hold, end_motion,   \* sys.step_control
  hold_complete,     \* SUSPEND_HOLD_COMPLETE
  cycle_stop,        \* EXEC_CYCLE_STOP
  prepping,          \* inside st_prep_buffer: "no", "refill" or "start"
  sent,              \* motions sent so far
  starved,           \* history: the segments ran out while there was motion
  reduced            \* history: the override was reduced with blocks queued

isrVars == <<stepping, executing, exec_block_index, counters, cycle_stop>>
historyVars == <<starved, reduced>>
modeVars == <<mode, execute_hold, end_motion, hold_complete>>
vars == <<plannerVars, segs, st_block_buffer, prep, isrVars, modeVars,
          prepping, sent, historyVars>>

Slots == 0 .. (SEGMENT_BUFFER_SIZE - 2)
Motions == 1 .. MaxMotions

\* Mutant: one slot less than segments may be waiting.
st_next_block_index_Short(slot) == (slot + 1) % (SEGMENT_BUFFER_SIZE - 2)

st_next_block_index(slot) == (slot + 1) % (SEGMENT_BUFFER_SIZE - 1)

\* Mutant: the last place of the ring is filled as well.
SegmentsFull_Late == Len(segs) = SEGMENT_BUFFER_SIZE

\* One place of the ring is always left empty.
SegmentsFull == Len(segs) = SEGMENT_BUFFER_SIZE - 1

\* The generator before its first block.  `loaded' is pl_block # NULL, `index'
\* prep.st_block_index, `decelerate' the ramp type RAMP_DECEL.
PrepReset ==
  [loaded |-> FALSE, recalculate |-> FALSE, decel_override |-> FALSE,
   index |-> 0, speed |-> 0, exit |-> 0, complete |-> 0, decelerate |-> FALSE]

\* Mutant: the slot in execution is remembered.
StReset_KeepsSlot ==
  /\ segs' = <<>>
  /\ prep' = PrepReset
  /\ stepping' = FALSE /\ executing' = FALSE
  /\ UNCHANGED exec_block_index
  /\ counters' = 0

\* st_reset
StReset ==
  /\ segs' = <<>>
  /\ prep' = PrepReset
  /\ stepping' = FALSE /\ executing' = FALSE
  /\ exec_block_index' = 0
  /\ counters' = 0

\* Mutant: the block does not learn the speed it has reached.
Updated_KeepsEntry(buffer) == buffer

\* st_update_plan_block_parameters: the effect on the ring and on the generator.
Updated(buffer) ==
  IF prep.loaded THEN [buffer EXCEPT ![tail].entry = prep.speed] ELSE buffer

\* Mutant: the block is taken for a new one when it is loaded again.
Unloaded_Forgotten == [prep EXCEPT !.loaded = FALSE]

Unloaded ==
  [prep EXCEPT !.loaded = FALSE, !.recalculate = @ \/ prep.loaded]

\* planner_recalculate together with its call of the stepper subsystem.
planner_recalculate(buffer, h) ==
  LET notify == ReachesTail(h, planned)
      current == IF notify THEN Updated(buffer) ELSE buffer
  IN  /\ block_buffer' = Recalculated(current, h, planned)
      /\ planned' = NewPlanned(current, h, planned)
      /\ prep' = IF notify THEN Unloaded ELSE prep

\* plan_cycle_reinitialize
plan_cycle_reinitialize(buffer) ==
  LET current == Updated(buffer)
  IN  /\ block_buffer' = Recalculated(current, head, tail)
      /\ planned' = NewPlanned(current, head, tail)
      /\ prep' = Unloaded

-----------------------------------------------------------------------------
\* The segment generator.

\* A block is loaded, or a partly executed one again after an update.
Loaded(block) ==
  LET fresh == ~prep.recalculate
      forced == fresh /\ (execute_hold \/ prep.decel_override)
      entry == IF forced THEN prep.exit ELSE block.entry
      reach == block.gain
      nominal == Nominal(block, override)
      exit == ExitSpeed(block_buffer)
      slow == ~execute_hold /\ entry > nominal /\ entry - nominal >= reach
      beyond == execute_hold /\ entry > reach
  IN  [loaded         |-> TRUE,
       recalculate    |-> FALSE,
       decel_override |-> slow,
       index          |-> IF fresh THEN st_next_block_index(prep.index)
                                   ELSE prep.index,
       speed          |-> IF fresh THEN entry ELSE prep.speed,
       exit           |-> IF slow \/ beyond THEN entry - reach
                          ELSE IF execute_hold THEN 0 ELSE exit,
       complete       |-> IF execute_hold /\ ~beyond THEN reach - entry ELSE 0,
       decelerate     |-> execute_hold \/ slow
                            \/ (entry <= nominal /\ entry - exit >= reach)]

\* The speed after d more, with `left' to go: the end of the profile, its
\* deceleration, or the rest of it: towards the nominal speed as long as the
\* exit speed can still be reached.  A profile whose exit is out of reach, which
\* only a reduced override makes, drops to the curve of the exit in one segment.
SpeedAfter(p, d, left, nominal) ==
  IF left = p.complete THEN p.exit
  ELSE IF p.decelerate THEN p.speed - d
  ELSE LET cruise == IF p.speed > nominal
                     THEN IF p.speed - d > nominal THEN p.speed - d ELSE nominal
                     ELSE Lowest(p.speed + d, nominal)
       IN  Lowest(cruise, p.exit + left)

Current == IF prep.loaded THEN prep ELSE Loaded(block_buffer[tail])

\* The loop of st_prep_buffer goes on.
CanPrep == ~SegmentsFull /\ ~end_motion /\ (prep.loaded \/ ~Empty)

\* What one pass of the loop does to the slots and to the block's entry speed.
LoadSlot ==
  st_block_buffer' =
    IF prep.loaded \/ prep.recalculate THEN st_block_buffer
    ELSE [st_block_buffer EXCEPT ![Current.index] = block_buffer[tail].id]

LoadedEntry == IF prep.loaded \/ prep.recalculate THEN block_buffer[tail].entry
               ELSE Current.speed

\* The call ends when the loop can do no more; a start then wakes the steppers.
Continue ==
  LET more == ~SegmentsFull' /\ ~end_motion' /\ (prep'.loaded \/ head' # tail')
      call == IF prepping = "no" THEN "refill" ELSE prepping
  IN  /\ prepping' = IF more THEN call ELSE "no"
      /\ stepping' = (stepping \/ (~more /\ prepping = "start"))

Calls == prepping # "no" \/ mode \in {"CYCLE", "HOLD"}

\* A segment of d steps of the current block.
PrepSegment ==
  /\ Calls /\ CanPrep
  /\ \E d \in 1 .. (block_buffer[tail].gain - Current.complete) :
       LET p == Current
           block == block_buffer[tail]
           left == block.gain - d
           speed == SpeedAfter(p, d, left, Nominal(block, override))
       IN  /\ segs' = Append(segs, [slot |-> p.index, steps |-> d])
           /\ block_buffer' = [block_buffer EXCEPT ![tail].gain = left,
                                                   ![tail].entry = LoadedEntry]
           /\ prep' = [p EXCEPT !.speed = speed, !.loaded = (left > 0)]
           /\ end_motion' = (left > 0 /\ left = p.complete)
           /\ IF left = 0 THEN Discard ELSE UNCHANGED <<tail, planned>>
  /\ UNCHANGED head
  /\ LoadSlot
  /\ UNCHANGED <<previous_nominal, override, executing, exec_block_index,
                 counters, cycle_stop, mode, execute_hold, hold_complete, sent,
                 historyVars>>
  /\ Continue

\* A hold ends before the first step of the current block.
PrepStandstill ==
  /\ Calls /\ CanPrep
  /\ Current.complete = block_buffer[tail].gain
  /\ block_buffer' = [block_buffer EXCEPT ![tail].entry = LoadedEntry]
  /\ prep' = [Current EXCEPT !.speed = 0]
  /\ end_motion' = TRUE
  /\ UNCHANGED <<tail, head, planned, segs>>
  /\ LoadSlot
  /\ UNCHANGED <<previous_nominal, override, executing, exec_block_index,
                 counters, cycle_stop, mode, execute_hold, hold_complete, sent,
                 historyVars>>
  /\ Continue

-----------------------------------------------------------------------------
\* The stepper interrupt.

\* A segment is loaded; a new slot sets up the counters again.
IsrLoad ==
  /\ stepping /\ ~executing /\ segs # <<>>
  /\ LET slot == Head(segs).slot
     IN  /\ exec_block_index' = slot
         /\ counters' = IF slot # exec_block_index THEN st_block_buffer[slot]
                                                   ELSE counters
  /\ executing' = TRUE
  /\ UNCHANGED <<plannerVars, segs, st_block_buffer, prep, stepping,
                 cycle_stop, modeVars, prepping, sent, historyVars>>

\* Its last step is done.
IsrDone ==
  /\ stepping /\ executing
  /\ executing' = FALSE
  /\ segs' = Tail(segs)
  /\ UNCHANGED <<plannerVars, st_block_buffer, prep,
                 stepping, exec_block_index, counters, cycle_stop, modeVars,
                 prepping, sent, historyVars>>

\* Nothing is left: shut down and report.  Were there segments to prepare, the
\* main program has not kept pace.
IsrEmpty ==
  /\ stepping /\ ~executing /\ segs = <<>>
  /\ stepping' = FALSE
  /\ cycle_stop' = TRUE
  /\ starved' = (starved \/ (Calls /\ CanPrep))
  /\ UNCHANGED <<plannerVars, segs, st_block_buffer, prep, executing,
                 exec_block_index, counters, modeVars, prepping, sent, reduced>>
=============================================================================
