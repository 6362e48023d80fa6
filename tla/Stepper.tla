------------------------------ MODULE Stepper ------------------------------
(***************************************************************************)
(* The stepper subsystem of stepper.c as the realtime protocol sees it:   *)
(* the segment generator st_prep_buffer run by the main program, and the  *)
(* stepper interrupt that drains the segment buffer, monitors the probe   *)
(* and reports the end of the motion.                                      *)
(***************************************************************************)
EXTENDS SystemState

Lesser(m, n) == IF m < n THEN m ELSE n

\* Mutant: one segment too many fits.
Room_OffByOne == SegmentBuffer - Len(segs) + 1

Room == SegmentBuffer - Len(segs)

\* Blocks in the planner; a partly prepared block still occupies its place.
Blocks == (Len(plan) + SegsPerBlock - 1) \div SegsPerBlock

plan_check_full_buffer == Blocks >= BlockBuffer

\* plan_buffer_line: one more block at the head of the ring.
NewBlock(kind) ==
  [i \in 1 .. SegsPerBlock |-> [kind |-> kind, spindle |-> modal.spindle]]

\* The generator moves the first n segments of the plan to the segment
\* buffer, and the start of the next one too when `partial' is 1.
Prepare(n, partial) ==
  /\ segs' = segs \o SubSeq(plan, 1, n + partial)
  /\ plan' = SubSeq(plan, n + 1, Len(plan))

\* st_prep_buffer, with the value sys.step_control has when it is called.
\* Normally it runs until the segment buffer is full or the plan is used up.
\* While a hold is executed it may instead reach zero speed inside a block,
\* with or without a last piece of a segment, and raises END_MOTION.
st_prep_buffer(control) ==
  \/ /\ "END_MOTION" \in control
     /\ step_control' = control
     /\ UNCHANGED <<plan, segs>>
  \/ /\ "END_MOTION" \notin control
     /\ Prepare(Lesser(Room, Len(plan)), 0)
     /\ step_control' = control
  \/ /\ "END_MOTION" \notin control
     /\ "EXECUTE_HOLD" \in control
     /\ \E n \in 0 .. (Len(plan) - 1), partial \in {0, 1} :
          /\ n < Room
          /\ Prepare(n, partial)
     /\ step_control' = control \cup {"END_MOTION"}

\* st_reset followed by, or following, plan_reset.
ResetBuffers ==
  /\ plan' = <<>>
  /\ segs' = <<>>
  /\ stepping' = FALSE

-----------------------------------------------------------------------------
\* The stepper interrupt.  It re-enables interrupts, so the serial interrupt
\* may nest inside it; the main program may not.

\* The next segment is loaded, which sets the spindle PWM, executed and
\* dropped from the buffer.
IsrSegment ==
  /\ stepping /\ isr_copy = NoCopy
  /\ segs # <<>>
  /\ spindle' = Head(segs).spindle
  /\ segs' = Tail(segs)
  /\ UNCHANGED <<sysVars, flagVars, plan, stepping, probe_state, isr_copy,
                 coolant, modal, restore, controlVars, boundVars, historyVars>>

\* The buffer is empty: shut down and report the end of the cycle.
IsrEmpty ==
  /\ stepping /\ isr_copy = NoCopy
  /\ segs = <<>>
  /\ stepping' = FALSE
  /\ exec_state' = exec_state \cup {"CYCLE_STOP"}
  /\ UNCHANGED <<sysVars, exec_alarm, exec_accessory, rt_exec, plan, segs,
                 probe_state, isr_copy, outputVars, controlVars, boundVars,
                 historyVars>>

\* probe_state_monitor sees the probe triggered and reads the flags byte ...
IsrProbeRead ==
  /\ stepping /\ isr_copy = NoCopy
  /\ segs # <<>>
  /\ probe_state = "ACTIVE"
  /\ probe_state' = "OFF"
  /\ isr_copy' = exec_state
  /\ UNCHANGED <<sysVars, flagVars, plan, segs, stepping, outputVars,
                 controlVars, boundVars, historyVars>>

\* ... and writes it back with EXEC_MOTION_CANCEL set.
IsrProbeWrite ==
  /\ isr_copy # NoCopy
  /\ exec_state' = isr_copy \cup {"MOTION_CANCEL"}
  /\ isr_copy' = NoCopy
  /\ user_start' = (user_start /\ "CYCLE_START" \in isr_copy)
  /\ UNCHANGED <<sysVars, exec_alarm, exec_accessory, rt_exec, plan, segs,
                 stepping, probe_state, outputVars, controlVars, boundVars,
                 rt_user_start, past>>

StepperIsr == IsrSegment \/ IsrEmpty \/ IsrProbeRead \/ IsrProbeWrite
=============================================================================
