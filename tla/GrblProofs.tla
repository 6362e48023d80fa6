----------------------------- MODULE GrblProofs -----------------------------
(***************************************************************************)
(* Theorems about the control core, for every size of the buffers and every *)
(* number of lines and realtime commands: the safety of holds, cycle stops, *)
(* resets and alarms.  They assume that the machine is sent no probing line *)
(* (the failed probe's alarm breaks two of them, see Claims).               *)
(*                                                                         *)
(* IInv is shown inductive group by group: that a machine which is sent no  *)
(* probing line never probes, that an abort lasts until the machine starts  *)
(* up again, and that what is not aborted stays Safe.                       *)
(***************************************************************************)
EXTENDS Grbl, SequenceTheorems, TLAPS

-----------------------------------------------------------------------------
\* Types.

\* Preparing n segments, and a piece of one more, that the plan has and the
\* segment buffer has room for: both buffers keep their types and the segment
\* buffer its bound.
LEMMA PrepareType ==
  ASSUME TypeOK, NEW n \in Nat, NEW k \in {0, 1},
         n + k <= Len(plan), n + k <= Room, Prepare(n, k)
  PROVE  /\ plan' \in Seq(Segment)
         /\ segs' \in Seq(Segment)
         /\ Len(segs') <= SegmentBuffer
PROOF
  <1> DEFINE moved == SubSeq(plan, 1, n + k)
  <1>1. /\ plan \in Seq(Segment) /\ segs \in Seq(Segment)
        /\ Len(plan) \in Nat /\ Len(segs) \in Nat
    BY LenProperties DEF TypeOK, BooleansOK, ValuesOK
  <1>2. moved \in Seq(Segment) /\ Len(moved) = n + k
    BY <1>1, SubSeqProperties
  <1>3. SubSeq(plan, n + 1, Len(plan)) \in Seq(Segment)
    BY <1>1, SubSeqProperties
  <1>4. segs \o moved \in Seq(Segment) /\ Len(segs \o moved) = Len(segs) + Len(moved)
    BY <1>1, <1>2, ConcatProperties
  <1>5. Len(segs \o moved) <= SegmentBuffer
    BY <1>1, <1>2, <1>4, BuffersAssumption DEF Room
  <1> QED
    BY <1>3, <1>4, <1>5 DEF Prepare

\* The segment generator keeps the types of what it changes.
LEMMA PrepBufferType ==
  ASSUME TypeOK, NEW control \in SUBSET StepControlFlags, st_prep_buffer(control)
  PROVE  /\ plan' \in Seq(Segment)
         /\ segs' \in Seq(Segment)
         /\ Len(segs') <= SegmentBuffer
         /\ step_control' \in SUBSET StepControlFlags
PROOF
  <1> DEFINE most == Lesser(Room, Len(plan))
  <1>1. Len(plan) \in Nat /\ Room \in Nat /\ Len(segs) <= SegmentBuffer
    BY LenProperties, BuffersAssumption DEF TypeOK, BooleansOK, ValuesOK, Room
  <1>2. CASE step_control' = control /\ UNCHANGED <<plan, segs>>
    BY <1>2 DEF TypeOK, BooleansOK, ValuesOK
  <1>3. CASE Prepare(most, 0) /\ step_control' = control
    <2>1. most \in Nat /\ most <= Len(plan) /\ most <= Room
      BY <1>1 DEF Lesser
    <2> QED
      BY <1>3, <2>1, PrepareType
  <1>4. CASE /\ \E n \in 0 .. (Len(plan) - 1), k \in {0, 1} : n < Room /\ Prepare(n, k)
             /\ step_control' = control \cup {"END_MOTION"}
    <2>1. PICK n \in 0 .. (Len(plan) - 1), k \in {0, 1} : n < Room /\ Prepare(n, k)
      BY <1>4
    <2>2. n \in Nat /\ n + k <= Len(plan) /\ n + k <= Room
      BY <1>1, <2>1
    <2> QED
      BY <1>4, <2>1, <2>2, PrepareType DEF StepControlFlags
  <1> QED
    BY <1>2, <1>3, <1>4 DEF st_prep_buffer

\* What a finished protocol_exec_rt_system goes to is a place.
LEMMA AfterRealtimeType ==
  ASSUME TypeOK, NEW flags
  PROVE  AfterRealtime(flags) \in Places
BY DEF TypeOK, BooleansOK, ValuesOK, AfterRealtime, Places, CallerPlaces, NestedCallers

\* Stuttering keeps the types.
LEMMA StutterType ==
  ASSUME TypeOK, UNCHANGED vars
  PROVE  TypeOK'
BY DEF TypeOK, BooleansOK, ValuesOK, vars, sysVars, flagVars, motionVars, outputVars, controlVars,
       boundVars, historyVars

\* The initial state is well typed.
LEMMA InitType ==
  ASSUME Init
  PROVE  TypeOK
PROOF
  <1>1. <<>> \in Seq(Segment) /\ Len(<<>>) = 0
    BY EmptySeq
  <1>2. Off \in Accessories
    BY DEF Off, Accessories
  <1>3. /\ {"IDLE", "ALARM"} \subseteq States
        /\ "NONE" \in Alarms
        /\ "init" \in Places /\ "loop" \in CallerPlaces /\ "motion" \in AllLines
    BY DEF States, Alarms, Places, CallerPlaces, AllLines, GcodeLines
  <1>4. MaxLines \in 0 .. MaxLines /\ MaxInputs \in 0 .. MaxInputs /\ 0 <= SegmentBuffer
    BY BuffersAssumption, InputsAssumption
  <1>5. BooleansOK
    BY <1>2, Zenon DEF Init, BooleansOK
  <1>6. ValuesOK
    BY <1>1, <1>3, <1>4 DEF Init, ValuesOK
  <1> QED
    BY <1>5, <1>6 DEF TypeOK

\* The rest of the segment buffer is a segment buffer, and what is in it says
\* yes or no to the spindle.
LEMMA TailType ==
  ASSUME ValuesOK, segs # <<>>
  PROVE  /\ Tail(segs) \in Seq(Segment)
         /\ Len(Tail(segs)) <= SegmentBuffer
PROOF
  <1>1. /\ segs \in Seq(Segment) /\ Len(segs) \in Nat
        /\ Tail(segs) \in Seq(Segment) /\ Len(Tail(segs)) = Len(segs) - 1
    BY HeadTailProperties, LenProperties DEF ValuesOK
  <1>2. SegmentBuffer \in Nat /\ Len(segs) <= SegmentBuffer
    BY BuffersAssumption DEF ValuesOK
  <1> QED
    BY <1>1, <1>2

\* The first segment of a non-empty buffer is a segment: what the stepper
\* interrupt loads and the suspend loop restores (stepper.c:406).
LEMMA HeadType ==
  ASSUME NEW buffer \in Seq(Segment), buffer # <<>>
  PROVE  Head(buffer).spindle \in BOOLEAN
PROOF
  <1>1. Head(buffer) \in Segment
    BY HeadTailProperties
  <1>2. \A r \in Segment : r.spindle \in BOOLEAN
    BY Zenon DEF Segment
  <1> QED
    BY <1>1, <1>2, Zenon

\* A new block keeps the type of the plan.
LEMMA NewBlockType ==
  ASSUME TypeOK, NEW kind \in AllLines
  PROVE  plan \o NewBlock(kind) \in Seq(Segment)
PROOF
  <1>1. modal.spindle \in BOOLEAN
    BY Zenon DEF TypeOK, BooleansOK, Accessories
  <1>2. [kind |-> kind, spindle |-> modal.spindle] \in Segment
    BY <1>1, Zenon DEF Segment
  <1>3. NewBlock(kind) \in [1 .. SegsPerBlock -> Segment]
    BY <1>2, Zenon DEF NewBlock
  <1>4. NewBlock(kind) \in Seq(Segment)
    BY <1>3, BuffersAssumption
  <1> QED
    BY <1>4, ConcatProperties DEF TypeOK, ValuesOK

\* mc_reset sets flags and alarms that exist.
LEMMA McResetType ==
  ASSUME ValuesOK, mc_reset
  PROVE  exec_state' \in SUBSET ExecFlags /\ exec_alarm' \in Alarms
PROOF
  <1>1. CASE UNCHANGED <<exec_state, exec_alarm>>
    BY <1>1 DEF ValuesOK
  <1>2. CASE /\ exec_state' = exec_state \cup {"RESET"}
             /\ exec_alarm' = IF McResetKills THEN AbortAlarm ELSE exec_alarm
    BY <1>2 DEF ValuesOK, AbortAlarm, ExecFlags, Alarms
  <1> QED
    BY <1>1, <1>2 DEF mc_reset

\* The stepper interrupt keeps what is yes or no so.
LEMMA StepperIsrBooleans ==
  ASSUME TypeOK, StepperIsr
  PROVE  BooleansOK'
PROOF
  <1> USE Zenon DEF TypeOK, BooleansOK, Accessories, Off, vars, sysVars, flagVars,
                    motionVars, outputVars, controlVars, boundVars, historyVars
  <1>1. CASE IsrSegment
    <2>1. Head(segs).spindle \in BOOLEAN
      BY <1>1, HeadType DEF IsrSegment, ValuesOK
    <2> QED
      BY <1>1, <2>1 DEF IsrSegment
  <1>2. CASE IsrEmpty
    BY <1>2 DEF IsrEmpty
  <1>3. CASE IsrProbeRead
    BY <1>3 DEF IsrProbeRead
  <1>4. CASE IsrProbeWrite
    BY <1>4 DEF IsrProbeWrite
  <1> QED
    BY <1>1, <1>2, <1>3, <1>4 DEF StepperIsr

\* The stepper interrupt keeps the other types.
LEMMA StepperIsrValues ==
  ASSUME TypeOK, StepperIsr
  PROVE  ValuesOK'
PROOF
  <1> USE DEF TypeOK, ValuesOK, States, SuspendFlags, StepControlFlags,
              SpindleStopFlags, ExecFlags, PastFlags, AccessoryFlags, Alarms, NoCopy, Places,
              CallerPlaces, NestedCallers, At, Goto, vars, sysVars, flagVars,
              motionVars, outputVars, controlVars, boundVars, historyVars
  <1>1. CASE IsrSegment
    BY <1>1, TailType DEF IsrSegment
  <1>2. CASE IsrEmpty
    BY <1>2 DEF IsrEmpty
  <1>3. CASE IsrProbeRead
    BY <1>3 DEF IsrProbeRead
  <1>4. CASE IsrProbeWrite
    BY <1>4 DEF IsrProbeWrite
  <1> QED
    BY <1>1, <1>2, <1>3, <1>4 DEF StepperIsr

\* Protocol_exec_rt_system keeps what is yes or no so.
LEMMA ExecRtSystemBooleans ==
  ASSUME TypeOK, ExecRtSystem
  PROVE  BooleansOK'
PROOF
  <1> USE Zenon DEF TypeOK, BooleansOK, Accessories, Off, vars, sysVars, flagVars,
                    motionVars, outputVars, controlVars, boundVars, historyVars
  <1>1. CASE RtNoAlarm
    BY <1>1 DEF RtNoAlarm
  <1>2. CASE RtAlarm
    BY <1>2 DEF RtAlarm
  <1>3. CASE RtCritical
    BY <1>3 DEF RtCritical
  <1>4. CASE RtCriticalWait
    BY <1>4 DEF RtCriticalWait
  <1>5. CASE RtSnap
    BY <1>5 DEF RtSnap
  <1>6. CASE RtHold
    BY <1>6 DEF RtHold, ClearExec
  <1>7. CASE RtStartIgnored
    BY <1>7 DEF RtStartIgnored, Carry, ClearExec
  <1>8. CASE RtStartSpindleRestore
    BY <1>8 DEF RtStartSpindleRestore, Carry, ClearExec
  <1>9. CASE RtStartCycle
    BY <1>9 DEF RtStartCycle
  <1>10. CASE RtWake
    BY <1>10 DEF RtWake, ClearExec
  <1>11. CASE RtStartIdle
    BY <1>11 DEF RtStartIdle, ClearExec
  <1>12. CASE RtStopHold
    BY <1>12 DEF RtStopHold, ClearExec
  <1>13. CASE RtStopMotion
    BY <1>13 DEF RtStopMotion, ClearExec, JogFlush, ResetBuffers
  <1>14. CASE RtOver
    BY <1>14 DEF RtOver, CoolantOverride
  <1> QED
    BY <1>1, <1>2, <1>3, <1>4, <1>5, <1>6, <1>7, <1>8, <1>9, <1>10, <1>11, <1>12,
       <1>13, <1>14 DEF ExecRtSystem

\* Protocol_exec_rt_system keeps the other types.
LEMMA ExecRtSystemValues ==
  ASSUME TypeOK, ExecRtSystem
  PROVE  ValuesOK'
PROOF
  <1> USE DEF TypeOK, ValuesOK, States, SuspendFlags, StepControlFlags,
              SpindleStopFlags, ExecFlags, PastFlags, AccessoryFlags, Alarms, NoCopy, Places,
              CallerPlaces, NestedCallers, At, Goto, vars, sysVars, flagVars,
              motionVars, outputVars, controlVars, boundVars, historyVars
  <1>1. CASE RtNoAlarm
    BY <1>1 DEF RtNoAlarm
  <1>2. CASE RtAlarm
    BY <1>2, ZenonT(60) DEF RtAlarm
  <1>3. CASE RtCritical
    BY <1>3 DEF RtCritical
  <1>4. CASE RtCriticalWait
    BY <1>4 DEF RtCriticalWait
  <1>5. CASE RtSnap
    BY <1>5, AfterRealtimeType DEF RtSnap, StageAfterSnapshot, StageAfterHold,
       StageAfterStart, HoldFlags
  <1>6. CASE RtHold
    BY <1>6 DEF RtHold, DoorSuspend, DoorState, HoldSuspend, HoldState,
       HoldFlags, ClearExec, StageAfterHold, StageAfterStart
  <1>7. CASE RtStartIgnored
    <2>1. past' \in SUBSET PastFlags
      BY <1>7 DEF RtStartIgnored, Carry
    <2>2. suspend' \in SUBSET SuspendFlags
      BY <1>7 DEF RtStartIgnored
    <2> QED
      BY <1>7, <2>1, <2>2 DEF RtStartIgnored, ClearExec, StageAfterStart
  <1>8. CASE RtStartSpindleRestore
    BY <1>8 DEF RtStartSpindleRestore, Carry, ClearExec, StageAfterStart
  <1>9. CASE RtStartCycle
    BY <1>9 DEF RtStartCycle
  <1>10. CASE RtWake
    BY <1>10, PrepBufferType DEF RtWake, ClearExec, StageAfterStart
  <1>11. CASE RtStartIdle
    BY <1>11 DEF RtStartIdle, ClearExec, StageAfterStart
  <1>12. CASE RtStopHold
    BY <1>12 DEF RtStopHold, ClearExec
  <1>13. CASE RtStopMotion
    <2>1. plan' \in Seq(Segment) /\ segs' \in Seq(Segment) /\ Len(segs') <= SegmentBuffer
      <3>1. CASE ResetBuffers
        BY <3>1, EmptySeq, BuffersAssumption DEF ResetBuffers
      <3>2. CASE UNCHANGED <<step_control, plan, segs, stepping>>
        BY <3>2
      <3> QED
        BY <1>13, <3>1, <3>2 DEF RtStopMotion, JogFlush
    <2>2. step_control' \in SUBSET StepControlFlags
      BY <1>13 DEF RtStopMotion, JogFlush
    <2>3. CASE suspend' = {} /\ state' = "IDLE"
      BY <1>13, <2>1, <2>2, <2>3 DEF RtStopMotion, ClearExec
    <2>4. CASE /\ suspend' = (suspend \ {"JOG_CANCEL"}) \cup {"HOLD_COMPLETE"}
               /\ state' = "SAFETY_DOOR"
      BY <1>13, <2>1, <2>2, <2>4 DEF RtStopMotion, ClearExec
    <2> QED
      BY <1>13, <2>3, <2>4 DEF RtStopMotion
  <1>14. CASE RtOver
    BY <1>14, AfterRealtimeType, PrepBufferType DEF RtOver, SpindleStopOverride
  <1> QED
    BY <1>1, <1>2, <1>3, <1>4, <1>5, <1>6, <1>7, <1>8, <1>9, <1>10, <1>11, <1>12,
       <1>13, <1>14 DEF ExecRtSystem

\* Protocol_exec_rt_suspend keeps what is yes or no so.
LEMMA ExecRtSuspendBooleans ==
  ASSUME TypeOK, ExecRtSuspend
  PROVE  BooleansOK'
PROOF
  <1> USE Zenon DEF TypeOK, BooleansOK, Accessories, Off, vars, sysVars, flagVars,
                    motionVars, outputVars, controlVars, boundVars, historyVars
  <1>1. CASE SuspendEnter
    <2>1. plan # <<>> => Head(plan).spindle \in BOOLEAN
      BY HeadType DEF ValuesOK
    <2>2. CASE plan = <<>>
      BY <1>1, <2>2 DEF SuspendEnter
    <2>3. CASE plan # <<>>
      BY <1>1, <2>1, <2>3 DEF SuspendEnter
    <2> QED
      BY <2>2, <2>3
  <1>2. CASE SuspendExit
    BY <1>2 DEF SuspendExit
  <1>3. CASE SuspendWait
    BY <1>3 DEF SuspendWait
  <1>4. CASE SuspendRetract
    BY <1>4 DEF SuspendRetract
  <1>5. CASE SuspendSleep
    BY <1>5 DEF SuspendSleep
  <1>6. CASE SleepLoop
    BY <1>6 DEF SleepLoop
  <1>7. CASE SuspendDoor
    BY <1>7 DEF SuspendDoor
  <1>8. CASE RestoreSpindle
    BY <1>8 DEF RestoreSpindle, SetOutput
  <1>9. CASE RestoreCoolant
    BY <1>9 DEF RestoreCoolant, SetOutput
  <1>10. CASE DelayStep
    BY <1>10 DEF DelayStep
  <1>11. CASE DelayEnd
    BY <1>11 DEF DelayEnd
  <1>12. CASE RestoreDone
    BY <1>12 DEF RestoreDone, Relay
  <1>13. CASE SpindleStopInitiate
    BY <1>13 DEF SpindleStopInitiate
  <1>14. CASE SpindleStopRestore
    BY <1>14 DEF SpindleStopRestore, Relay
  <1>15. CASE SuspendIdle
    BY <1>15 DEF SuspendIdle
  <1> QED
    BY <1>1, <1>2, <1>3, <1>4, <1>5, <1>6, <1>7, <1>8, <1>9, <1>10, <1>11, <1>12,
       <1>13, <1>14, <1>15 DEF ExecRtSuspend

\* Protocol_exec_rt_suspend keeps the other types.
LEMMA ExecRtSuspendValues ==
  ASSUME TypeOK, ExecRtSuspend
  PROVE  ValuesOK'
PROOF
  <1> USE DEF TypeOK, ValuesOK, States, SuspendFlags, StepControlFlags,
              SpindleStopFlags, ExecFlags, PastFlags, AccessoryFlags, Alarms, NoCopy, Places,
              CallerPlaces, NestedCallers, At, Goto, vars, sysVars, flagVars,
              motionVars, outputVars, controlVars, boundVars, historyVars
  <1>1. CASE SuspendEnter
    BY <1>1 DEF SuspendEnter
  <1>2. CASE SuspendExit
    BY <1>2 DEF SuspendExit
  <1>3. CASE SuspendWait
    BY <1>3 DEF SuspendWait, NextPass, CallRealtime
  <1>4. CASE SuspendRetract
    BY <1>4 DEF SuspendRetract, NextPass, CallRealtime
  <1>5. CASE SuspendSleep
    BY <1>5 DEF SuspendSleep, CallRealtime
  <1>6. CASE SleepLoop
    BY <1>6 DEF SleepLoop, CallRealtime
  <1>7. CASE SuspendDoor
    <2>1. past' \in SUBSET PastFlags
      BY <1>7 DEF SuspendDoor
    <2>2. pc' \in Places /\ UNCHANGED <<ret, cmd>> /\ via' \in {via, "suspend"}
      BY <1>7 DEF SuspendDoor, NextPass, CallRealtime
    <2> QED
      BY <1>7, <2>1, <2>2 DEF SuspendDoor
  <1>8. CASE RestoreSpindle
    BY <1>8 DEF RestoreSpindle
  <1>9. CASE RestoreCoolant
    BY <1>9 DEF RestoreCoolant
  <1>10. CASE DelayStep
    BY <1>10 DEF DelayStep, CallRealtime
  <1>11. CASE DelayEnd
    BY <1>11 DEF DelayEnd
  <1>12. CASE RestoreDone
    <2>1. CASE /\ suspend' = suspend \cup {"RESTORE_COMPLETE"}
               /\ Relay("INITIATE_RESTORE")
      <3>1. past' \in SUBSET PastFlags
        BY <2>1 DEF Relay
      <3> QED
        BY <1>12, <2>1, <3>1 DEF RestoreDone, Relay, SetExec, NextPass, CallRealtime
    <2>2. CASE UNCHANGED <<suspend, flagVars, user_start, past>>
      BY <1>12, <2>2 DEF RestoreDone, Relay, NextPass, CallRealtime
    <2> QED
      BY <1>12, <2>1, <2>2 DEF RestoreDone, Relay
  <1>13. CASE SpindleStopInitiate
    BY <1>13 DEF SpindleStopInitiate, NextPass, CallRealtime
  <1>14. CASE SpindleStopRestore
    <2>1. CASE Relay("RESTORE_CYCLE")
      <3>1. past' \in SUBSET PastFlags
        BY <2>1 DEF Relay
      <3>2. spindle_stop_ovr' = {}
        BY <1>14 DEF SpindleStopRestore
      <3> QED
        BY <1>14, <2>1, <3>1, <3>2 DEF SpindleStopRestore, Relay, SetExec, NextPass, CallRealtime
    <2>2. CASE UNCHANGED <<flagVars, user_start, past>>
      BY <1>14, <2>2 DEF SpindleStopRestore, NextPass, CallRealtime
    <2> QED
      BY <1>14, <2>1, <2>2 DEF SpindleStopRestore, Relay
  <1>15. CASE SuspendIdle
    BY <1>15 DEF SuspendIdle, NextPass, CallRealtime
  <1> QED
    BY <1>1, <1>2, <1>3, <1>4, <1>5, <1>6, <1>7, <1>8, <1>9, <1>10, <1>11, <1>12,
       <1>13, <1>14, <1>15 DEF ExecRtSuspend

\* Executing a line keeps what is yes or no so.
LEMMA ExecuteLineBooleans ==
  ASSUME TypeOK, ExecuteLine
  PROVE  BooleansOK'
PROOF
  <1> USE Zenon DEF TypeOK, BooleansOK, Accessories, Off, vars, sysVars, flagVars,
                    motionVars, outputVars, controlVars, boundVars, historyVars
  <1>1. CASE LineAbort
    BY <1>1 DEF LineAbort, OnlyControl
  <1>2. CASE LineRefused
    BY <1>2 DEF LineRefused, OnlyControl
  <1>3. CASE LineMotion
    BY <1>3 DEF LineMotion, OnlyControl
  <1>4. CASE LineSync
    BY <1>4 DEF LineSync, OnlyControl
  <1>5. CASE LineUnsynced
    BY <1>5 DEF LineUnsynced
  <1>6. CASE LinePinAsync
    BY <1>6 DEF LinePinAsync, OnlyControl
  <1>7. CASE LineUnlock
    BY <1>7 DEF LineUnlock
  <1>8. CASE LineSleep
    BY <1>8 DEF LineSleep
  <1>9. CASE LineCheckOn
    BY <1>9 DEF LineCheckOn
  <1>10. CASE LineCheckOff
    BY <1>10 DEF LineCheckOff, mc_reset
  <1> QED
    BY <1>1, <1>2, <1>3, <1>4, <1>5, <1>6, <1>7, <1>8, <1>9, <1>10 DEF ExecuteLine

\* Executing a line keeps the other types.
LEMMA ExecuteLineValues ==
  ASSUME TypeOK, ExecuteLine
  PROVE  ValuesOK'
PROOF
  <1> USE DEF TypeOK, ValuesOK, States, SuspendFlags, StepControlFlags,
              SpindleStopFlags, ExecFlags, PastFlags, AccessoryFlags, Alarms, NoCopy, Places,
              CallerPlaces, NestedCallers, At, Goto, vars, sysVars, flagVars,
              motionVars, outputVars, controlVars, boundVars, historyVars
  <1>1. CASE LineAbort
    BY <1>1 DEF LineAbort, OnlyControl
  <1>2. CASE LineRefused
    BY <1>2 DEF LineRefused, OnlyControl
  <1>3. CASE LineMotion
    BY <1>3 DEF LineMotion, OnlyControl
  <1>4. CASE LineSync
    BY <1>4 DEF LineSync, OnlyControl
  <1>5. CASE LineUnsynced
    BY <1>5 DEF LineUnsynced
  <1>6. CASE LinePinAsync
    BY <1>6 DEF LinePinAsync, OnlyControl, Realtime, CallRealtime
  <1>7. CASE LineUnlock
    BY <1>7 DEF LineUnlock
  <1>8. CASE LineSleep
    BY <1>8 DEF LineSleep, SetExec
  <1>9. CASE LineCheckOn
    BY <1>9 DEF LineCheckOn
  <1>10. CASE LineCheckOff
    BY <1>10, McResetType DEF LineCheckOff
  <1> QED
    BY <1>1, <1>2, <1>3, <1>4, <1>5, <1>6, <1>7, <1>8, <1>9, <1>10 DEF ExecuteLine

\* Mc_line keeps what is yes or no so.
LEMMA ExecuteMcLineBooleans ==
  ASSUME TypeOK, ExecuteMcLine
  PROVE  BooleansOK'
PROOF
  <1> USE Zenon DEF TypeOK, BooleansOK, Accessories, Off, vars, sysVars, flagVars,
                    motionVars, outputVars, controlVars, boundVars, historyVars
  <1>1. CASE SoftCheck
    BY <1>1 DEF SoftCheck
  <1>2. CASE SoftWait
    BY <1>2 DEF SoftWait, OnlyControl
  <1>3. CASE SoftReset
    BY <1>3 DEF SoftReset, mc_reset
  <1>4. CASE SoftAlarm
    BY <1>4 DEF SoftAlarm
  <1>5. CASE McLine
    BY <1>5 DEF McLine, OnlyControl
  <1>6. CASE McLineAbort
    BY <1>6 DEF McLineAbort, OnlyControl
  <1>7. CASE McLineFull
    BY <1>7 DEF McLineFull
  <1>8. CASE McLinePlan
    BY <1>8 DEF McLinePlan
  <1> QED
    BY <1>1, <1>2, <1>3, <1>4, <1>5, <1>6, <1>7, <1>8 DEF ExecuteMcLine

\* Mc_line keeps the other types.
LEMMA ExecuteMcLineValues ==
  ASSUME TypeOK, ExecuteMcLine
  PROVE  ValuesOK'
PROOF
  <1> USE DEF TypeOK, ValuesOK, States, SuspendFlags, StepControlFlags,
              SpindleStopFlags, ExecFlags, PastFlags, AccessoryFlags, Alarms, NoCopy, Places,
              CallerPlaces, NestedCallers, At, Goto, vars, sysVars, flagVars,
              motionVars, outputVars, controlVars, boundVars, historyVars
  <1>1. CASE SoftCheck
    <2>1. CASE SetExec({"FEED_HOLD"}) /\ Realtime("soft_wait")
      BY <1>1, <2>1 DEF SoftCheck, SetExec, Realtime, CallRealtime
    <2>2. CASE Goto("soft_reset") /\ UNCHANGED flagVars
      BY <1>1, <2>2 DEF SoftCheck
    <2> QED
      BY <1>1, <2>1, <2>2 DEF SoftCheck
  <1>2. CASE SoftWait
    BY <1>2 DEF SoftWait, OnlyControl, Realtime, CallRealtime
  <1>3. CASE SoftReset
    BY <1>3, McResetType DEF SoftReset
  <1>4. CASE SoftAlarm
    BY <1>4 DEF SoftAlarm, Realtime, CallRealtime
  <1>5. CASE McLine
    BY <1>5 DEF McLine, OnlyControl, McLineReturn, Realtime, CallRealtime
  <1>6. CASE McLineAbort
    BY <1>6 DEF McLineAbort, OnlyControl, McLineReturn
  <1>7. CASE McLineFull
    BY <1>7 DEF McLineFull, AutoCycleStart, SetExec, Realtime, CallRealtime
  <1>8. CASE McLinePlan
    <2>1. plan' \in Seq(Segment)
      BY <1>8, NewBlockType DEF McLinePlan
    <2> QED
      BY <1>8, <2>1 DEF McLinePlan, McLineReturn
  <1> QED
    BY <1>1, <1>2, <1>3, <1>4, <1>5, <1>6, <1>7, <1>8 DEF ExecuteMcLine

\* A buffer synchronisation and what follows it keep what is yes or no so.
LEMMA ExecuteSyncBooleans ==
  ASSUME TypeOK, ExecuteSync
  PROVE  BooleansOK'
PROOF
  <1> USE Zenon DEF TypeOK, BooleansOK, Accessories, Off, vars, sysVars, flagVars,
                    motionVars, outputVars, controlVars, boundVars, historyVars
  <1>1. CASE Sync
    BY <1>1 DEF Sync
  <1>2. CASE SyncTest
    BY <1>2 DEF SyncTest, OnlyControl
  <1>3. CASE SyncedSpindle
    BY <1>3 DEF SyncedSpindle, SetOutput
  <1>4. CASE SyncedCoolant
    BY <1>4 DEF SyncedCoolant, SetOutput
  <1>5. CASE DwellStep
    BY <1>5 DEF DwellStep, OnlyControl
  <1>6. CASE DwellEnd
    BY <1>6 DEF DwellEnd, OnlyControl
  <1>7. CASE SyncedPause
    BY <1>7 DEF SyncedPause
  <1>8. CASE SyncedEnd
    BY <1>8 DEF SyncedEnd, SetOutput
  <1>9. CASE SyncedPin
    BY <1>9 DEF SyncedPin, OnlyControl
  <1>10. CASE PinWait
    BY <1>10 DEF PinWait
  <1> QED
    BY <1>1, <1>2, <1>3, <1>4, <1>5, <1>6, <1>7, <1>8, <1>9, <1>10 DEF ExecuteSync

\* A buffer synchronisation and what follows it keep the other types.
LEMMA ExecuteSyncValues ==
  ASSUME TypeOK, ExecuteSync
  PROVE  ValuesOK'
PROOF
  <1> USE DEF TypeOK, ValuesOK, States, SuspendFlags, StepControlFlags,
              SpindleStopFlags, ExecFlags, PastFlags, AccessoryFlags, Alarms, NoCopy, Places,
              CallerPlaces, NestedCallers, At, Goto, vars, sysVars, flagVars,
              motionVars, outputVars, controlVars, boundVars, historyVars
  <1>1. CASE Sync
    BY <1>1 DEF Sync, AutoCycleStart, SetExec, Realtime, CallRealtime
  <1>2. CASE SyncTest
    BY <1>2 DEF SyncTest, OnlyControl, Realtime, CallRealtime
  <1>3. CASE SyncedSpindle
    BY <1>3 DEF SyncedSpindle, Synced
  <1>4. CASE SyncedCoolant
    BY <1>4 DEF SyncedCoolant, Synced
  <1>5. CASE DwellStep
    BY <1>5 DEF DwellStep, OnlyControl, Realtime, CallRealtime
  <1>6. CASE DwellEnd
    BY <1>6 DEF DwellEnd, OnlyControl
  <1>7. CASE SyncedPause
    <2>1. CASE Goto("loop") /\ UNCHANGED flagVars
      BY <1>7, <2>1 DEF SyncedPause
    <2>2. CASE Realtime("loop") /\ SetExec({"FEED_HOLD"})
      BY <1>7, <2>2 DEF SyncedPause, SetExec, Realtime, CallRealtime
    <2> QED
      BY <1>7, <2>1, <2>2 DEF SyncedPause
  <1>8. CASE SyncedEnd
    BY <1>8 DEF SyncedEnd
  <1>9. CASE SyncedPin
    BY <1>9 DEF SyncedPin, OnlyControl, Realtime, CallRealtime
  <1>10. CASE PinWait
    BY <1>10 DEF PinWait
  <1> QED
    BY <1>1, <1>2, <1>3, <1>4, <1>5, <1>6, <1>7, <1>8, <1>9, <1>10 DEF ExecuteSync

\* The probing cycle keeps what is yes or no so.
LEMMA ExecuteProbeBooleans ==
  ASSUME TypeOK, ExecuteProbe
  PROVE  BooleansOK'
PROOF
  <1> USE Zenon DEF TypeOK, BooleansOK, Accessories, Off, vars, sysVars, flagVars,
                    motionVars, outputVars, controlVars, boundVars, historyVars
  <1>1. CASE ProbeAbort
    BY <1>1 DEF ProbeAbort, OnlyControl
  <1>2. CASE ProbeFailInitial
    BY <1>2 DEF ProbeFailInitial
  <1>3. CASE ProbeLine
    BY <1>3 DEF ProbeLine, OnlyControl
  <1>4. CASE ProbeStart
    BY <1>4 DEF ProbeStart
  <1>5. CASE ProbeWait
    BY <1>5 DEF ProbeWait, OnlyControl
  <1>6. CASE ProbeDone
    BY <1>6 DEF ProbeDone
  <1>7. CASE ProbeEnd
    BY <1>7 DEF ProbeEnd, ResetBuffers
  <1> QED
    BY <1>1, <1>2, <1>3, <1>4, <1>5, <1>6, <1>7 DEF ExecuteProbe

\* The probing cycle keeps the other types.
LEMMA ExecuteProbeValues ==
  ASSUME TypeOK, ExecuteProbe
  PROVE  ValuesOK'
PROOF
  <1> USE DEF TypeOK, ValuesOK, States, SuspendFlags, StepControlFlags,
              SpindleStopFlags, ExecFlags, PastFlags, AccessoryFlags, Alarms, NoCopy, Places,
              CallerPlaces, NestedCallers, At, Goto, vars, sysVars, flagVars,
              motionVars, outputVars, controlVars, boundVars, historyVars
  <1>1. CASE ProbeAbort
    BY <1>1 DEF ProbeAbort, OnlyControl
  <1>2. CASE ProbeFailInitial
    BY <1>2 DEF ProbeFailInitial, Realtime, CallRealtime
  <1>3. CASE ProbeLine
    BY <1>3 DEF ProbeLine, OnlyControl
  <1>4. CASE ProbeStart
    BY <1>4 DEF ProbeStart, SetExec, Realtime, CallRealtime
  <1>5. CASE ProbeWait
    BY <1>5 DEF ProbeWait, OnlyControl, Realtime, CallRealtime
  <1>6. CASE ProbeDone
    BY <1>6 DEF ProbeDone, Realtime, CallRealtime
  <1>7. CASE ProbeEnd
    BY <1>7, EmptySeq, BuffersAssumption DEF ProbeEnd, ResetBuffers
  <1> QED
    BY <1>1, <1>2, <1>3, <1>4, <1>5, <1>6, <1>7 DEF ExecuteProbe

\* The main program keeps what is yes or no so.
LEMMA MainBooleans ==
  ASSUME TypeOK, Main
  PROVE  BooleansOK'
PROOF
  <1> USE Zenon DEF TypeOK, BooleansOK, Accessories, Off, vars, sysVars, flagVars,
                    motionVars, outputVars, controlVars, boundVars, historyVars
  <1>1. CASE Boot
    BY <1>1 DEF Boot, ResetBuffers
  <1>2. CASE LoopIdle
    BY <1>2 DEF LoopIdle
  <1>3. CASE LoopEnd
    BY <1>3 DEF LoopEnd, OnlyControl
  <1>4. CASE JogStart
    BY <1>4 DEF JogStart
  <1>5. CASE JogWake
    BY <1>5 DEF JogWake
  <1> QED
    BY <1>1, <1>2, <1>3, <1>4, <1>5, ExecRtSystemBooleans, ExecRtSuspendBooleans,
       ExecuteLineBooleans, ExecuteMcLineBooleans, ExecuteSyncBooleans,
       ExecuteProbeBooleans DEF Main

\* The main program keeps the other types.
LEMMA MainValues ==
  ASSUME TypeOK, Main
  PROVE  ValuesOK'
PROOF
  <1> USE DEF TypeOK, ValuesOK, States, SuspendFlags, StepControlFlags,
              SpindleStopFlags, ExecFlags, PastFlags, AccessoryFlags, Alarms, NoCopy, Places,
              CallerPlaces, NestedCallers, At, Goto, vars, sysVars, flagVars,
              motionVars, outputVars, controlVars, boundVars, historyVars
  <1>1. CASE Boot
    BY <1>1, EmptySeq, BuffersAssumption DEF Boot, ResetBuffers
  <1>2. CASE LoopIdle
    BY <1>2 DEF LoopIdle, AutoCycleStart, SetExec, Realtime, CallRealtime
  <1>3. CASE LoopEnd
    BY <1>3 DEF LoopEnd, OnlyControl
  <1>4. CASE JogStart
    BY <1>4 DEF JogStart
  <1>5. CASE JogWake
    BY <1>5, PrepBufferType DEF JogWake
  <1> QED
    BY <1>1, <1>2, <1>3, <1>4, <1>5, ExecRtSystemValues, ExecRtSuspendValues,
       ExecuteLineValues, ExecuteMcLineValues, ExecuteSyncValues,
       ExecuteProbeValues DEF Main

\* Whatever the environment does keeps the types.
LEMMA EnvironmentBooleans ==
  ASSUME TypeOK, Environment
  PROVE  BooleansOK'
PROOF
  <1> USE Zenon DEF TypeOK, BooleansOK, Accessories, Off, vars, sysVars, flagVars,
                    motionVars, outputVars, controlVars, boundVars, historyVars
  <1>1. ASSUME NEW k \in LineKinds, ReadLine(k) PROVE BooleansOK'
    BY <1>1 DEF ReadLine
  <1>2. CASE PinReached
    BY <1>2 DEF PinReached, OnlyControl
  <1>3. ASSUME NEW c \in RtInputs, RtCommand(c) PROVE BooleansOK'
    <2>1. UNCHANGED <<soft_limit, abort, modal, restore, rt_user_start>>
      BY <1>3 DEF RtCommand
    <2>2. CASE CmdReset
      <3>1. CASE UNCHANGED <<exec_state, exec_alarm, spindle, coolant, stepping>>
        BY <2>1, <2>2, <3>1 DEF CmdReset
      <3>2. CASE /\ spindle' = FALSE /\ coolant' = FALSE
                 /\ stepping' = (stepping /\ ~McResetKills)
        BY <2>1, <2>2, <3>2 DEF CmdReset
      <3> QED
        BY <2>2, <3>1, <3>2 DEF CmdReset, mc_reset
    <2>3. CASE CmdCycleStart
      BY <2>1, <2>3 DEF CmdCycleStart
    <2>4. CASE UNCHANGED <<spindle, coolant, stepping, user_start>>
      BY <2>1, <2>4
    <2> QED
      BY <1>3, <2>2, <2>3, <2>4
      DEF RtCommand, CmdFeedHold, CmdSafetyDoor, CmdJogCancel, CmdAccessory, Raise
  <1> QED
    BY <1>1, <1>2, <1>3 DEF Environment

\* The environment's steps, a line read, a pin reached, a realtime command,
\* keep the part of the type invariant that is not yes-or-no state.
LEMMA EnvironmentValues ==
  ASSUME TypeOK, Environment
  PROVE  ValuesOK'
PROOF
  <1> USE DEF TypeOK, ValuesOK, States, SuspendFlags, StepControlFlags,
              SpindleStopFlags, ExecFlags, PastFlags, AccessoryFlags, Alarms, NoCopy, Places,
              CallerPlaces, NestedCallers, At, Goto, vars, sysVars, flagVars,
              motionVars, outputVars, controlVars, boundVars, historyVars
  <1>1. ASSUME NEW k \in LineKinds, ReadLine(k) PROVE ValuesOK'
    BY <1>1, LinesAssumption, InputsAssumption DEF ReadLine
  <1>2. CASE PinReached
    BY <1>2 DEF PinReached, CallRealtime, OnlyControl
  <1>3. ASSUME NEW c \in RtInputs, RtCommand(c) PROVE ValuesOK'
    <2>1. CASE CmdReset
      BY <1>3, <2>1, McResetType, InputsAssumption DEF RtCommand, CmdReset
    <2>2. CASE CmdCycleStart
      BY <1>3, <2>2, InputsAssumption DEF RtCommand, CmdCycleStart
    <2>3. ASSUME NEW flags \in SUBSET ExecFlags, Raise(flags) PROVE ValuesOK'
      BY <1>3, <2>3, InputsAssumption DEF RtCommand, Raise
    <2>4. ASSUME NEW flag \in AccessoryFlags, CmdAccessory(flag) PROVE ValuesOK'
      BY <1>3, <2>4, InputsAssumption DEF RtCommand, CmdAccessory
    <2> QED
      BY <1>3, <2>1, <2>2, <2>3, <2>4
      DEF RtCommand, CmdFeedHold, CmdSafetyDoor, CmdJogCancel
  <1> QED
    BY <1>1, <1>2, <1>3 DEF Environment

\* Every step keeps the types.
LEMMA StepType ==
  ASSUME TypeOK, [Next]_vars
  PROVE  TypeOK'
PROOF
  <1>1. CASE Main
    BY <1>1, MainBooleans, MainValues DEF TypeOK
  <1>2. CASE StepperIsr
    BY <1>2, StepperIsrBooleans, StepperIsrValues DEF TypeOK
  <1>3. CASE Environment
    BY <1>3, EnvironmentBooleans, EnvironmentValues DEF TypeOK
  <1>4. CASE UNCHANGED vars
    BY <1>4, StutterType
  <1> QED
    BY <1>1, <1>2, <1>3, <1>4 DEF Next

\* The types are an invariant of the control core.
THEOREM TypeCorrect == Spec => []TypeOK
PROOF
  <1>1. Init => TypeOK
    BY InitType
  <1>2. TypeOK /\ [Next]_vars => TypeOK'
    BY StepType
  <1> QED
    BY <1>1, <1>2, PTL DEF Spec

-----------------------------------------------------------------------------
\* Safety of the motion, for a machine that is sent no probing line.

\* The segment generator neither begins nor ends a hold.
LEMMA PrepBufferHold ==
  ASSUME NEW control, st_prep_buffer(control)
  PROVE  "EXECUTE_HOLD" \in step_control' <=> "EXECUTE_HOLD" \in control
PROOF
  <1>1. step_control' = control \/ step_control' = control \cup {"END_MOTION"}
    BY DEF st_prep_buffer
  <1>2. CASE step_control' = control
    BY <1>2
  <1>3. CASE step_control' = control \cup {"END_MOTION"}
    BY <1>3
  <1> QED
    BY <1>1, <1>2, <1>3

\* mc_reset leaves the steppers stopped unless a reset was already pending: it
\* recognises every state that owns a motion.
LEMMA McResetSafe ==
  ASSUME Safe, mc_reset
  PROVE  /\ "RESET" \in exec_state'
         /\ "CYCLE_STOP" \in exec_state' <=> "CYCLE_STOP" \in exec_state
         /\ stepping' => stepping
         /\ "RESET" \notin exec_state => ~stepping'
         /\ exec_alarm' # exec_alarm => exec_alarm' \in {"ABORT_CYCLE", "HOMING_FAIL_RESET"}
PROOF
  <1>1. CASE /\ "RESET" \in exec_state
             /\ UNCHANGED <<exec_state, exec_alarm, spindle, coolant, stepping>>
    BY <1>1
  <1>2. CASE /\ "RESET" \notin exec_state
             /\ exec_state' = exec_state \cup {"RESET"}
             /\ exec_alarm' = IF McResetKills THEN AbortAlarm ELSE exec_alarm
             /\ stepping' = (stepping /\ ~McResetKills)
    <2>1. stepping => McResetKills
      BY <1>2 DEF Safe, MotionOwned, Moving, Running, Doomed, AlarmAgrees, McResetKills
    <2> QED
      BY <1>2, <2>1 DEF AbortAlarm
  <1> QED
    BY <1>1, <1>2 DEF mc_reset

\* The stepper interrupt keeps the motion safe.
LEMMA StepperIsrSafe ==
  ASSUME TypeOK, ProbeFree, ControlAgrees, Safe, StepperIsr
  PROVE  abort' \/ Safe'
PROOF
  <1> USE DEF Safe, MotionOwned, StartsFromRest, SuspendAgrees, SnapshotAgrees,
              AlarmAgrees, ResetAgrees, ControlAgrees, Moving, Running, Doomed, At,
              Goto, vars, sysVars, flagVars, motionVars, outputVars, controlVars,
              boundVars, historyVars
  <1>1. CASE IsrSegment
    BY <1>1 DEF IsrSegment
  <1>2. CASE IsrEmpty
    BY <1>2 DEF IsrEmpty
  <1>3. CASE IsrProbeRead
    BY <1>3 DEF IsrProbeRead
  <1>4. CASE IsrProbeWrite
    BY <1>4 DEF IsrProbeWrite, ProbeFree
  <1> QED
    BY <1>1, <1>2, <1>3, <1>4 DEF StepperIsr

\* Protocol_exec_rt_system keeps the motion safe.
LEMMA ExecRtSystemSafe ==
  ASSUME TypeOK, ProbeFree, ControlAgrees, Safe, ExecRtSystem
  PROVE  abort' \/ Safe'
PROOF
  <1> USE DEF Safe, MotionOwned, StartsFromRest, SuspendAgrees, SnapshotAgrees,
              AlarmAgrees, ResetAgrees, ControlAgrees, Moving, Running, Doomed, At,
              Goto, vars, sysVars, flagVars, motionVars, outputVars, controlVars,
              boundVars, historyVars
  <1>1. CASE RtNoAlarm
    BY <1>1 DEF RtNoAlarm
  <1>2. CASE RtAlarm
    <2>1. CASE exec_alarm = "SOFT_LIMIT"
      BY <1>2, <2>1 DEF RtAlarm
    <2>2. CASE exec_alarm # "SOFT_LIMIT"
      BY <1>2, <2>2 DEF RtAlarm, TypeOK, ValuesOK, Alarms, ProbeFree
    <2> QED
      BY <1>2, <2>1, <2>2 DEF RtAlarm
  <1>3. CASE RtCritical
    BY <1>3 DEF RtCritical
  <1>4. CASE RtCriticalWait
    BY <1>4 DEF RtCriticalWait
  <1>5. CASE RtSnap
    BY <1>5 DEF RtSnap, StageAfterSnapshot, StageAfterHold, StageAfterStart,
       HoldFlags, HoldFlags, AfterRealtime
  <1>6. CASE RtHold
    BY <1>6 DEF RtHold, DoorSuspend, DoorState, HoldSuspend, HoldState,
       HoldFlags, ClearExec, StageAfterHold, StageAfterStart, HoldAllowed,
       HoldBegins
  <1>7. CASE RtStartIgnored
    BY <1>7 DEF RtStartIgnored, Carry, ClearExec, StageAfterStart
  <1>8. CASE RtStartSpindleRestore
    BY <1>8 DEF RtStartSpindleRestore, Carry, ClearExec, StageAfterStart
  <1>9. CASE RtStartCycle
    BY <1>9 DEF RtStartCycle, StartAllowed, DoorRestored, DoorClosed, StartBlocked
  <1>10. CASE RtWake
    <2>1. "EXECUTE_HOLD" \notin step_control'
      BY <1>10, PrepBufferHold DEF RtWake
    <2> QED
      BY <1>10, <2>1 DEF RtWake, ClearExec, StageAfterStart
  <1>11. CASE RtStartIdle
    BY <1>11 DEF RtStartIdle, ClearExec, StageAfterStart, StartAllowed,
       DoorRestored, DoorClosed, StartBlocked
  <1>12. CASE RtStopHold
    BY <1>12 DEF RtStopHold, ClearExec, StopHolds
  <1>13. CASE RtStopMotion
    BY <1>13 DEF RtStopMotion, ClearExec, JogFlush, ResetBuffers, StopHolds
  <1>14. CASE RtOver
    <2>1. "EXECUTE_HOLD" \in step_control' <=> "EXECUTE_HOLD" \in step_control
      BY <1>14, PrepBufferHold DEF RtOver
    <2> QED
      BY <1>14, <2>1 DEF RtOver, AfterRealtime, TypeOK, ValuesOK, CallerPlaces, NestedCallers
  <1> QED
    BY <1>1, <1>2, <1>3, <1>4, <1>5, <1>6, <1>7, <1>8, <1>9, <1>10, <1>11, <1>12,
       <1>13, <1>14 DEF ExecRtSystem

\* Protocol_exec_rt_suspend keeps the motion safe.
LEMMA ExecRtSuspendSafe ==
  ASSUME TypeOK, ProbeFree, ControlAgrees, Safe, ExecRtSuspend
  PROVE  abort' \/ Safe'
PROOF
  <1> USE DEF Safe, MotionOwned, StartsFromRest, SuspendAgrees, SnapshotAgrees,
              AlarmAgrees, ResetAgrees, ControlAgrees, Moving, Running, Doomed, At,
              Goto, vars, sysVars, flagVars, motionVars, outputVars, controlVars,
              boundVars, historyVars
  <1>1. CASE SuspendEnter
    BY <1>1 DEF SuspendEnter
  <1>2. CASE SuspendExit
    BY <1>2 DEF SuspendExit, TypeOK, ValuesOK, CallerPlaces
  <1>3. CASE SuspendWait
    BY <1>3 DEF SuspendWait, NextPass, CallRealtime, Suspended
  <1>4. CASE SuspendRetract
    BY <1>4 DEF SuspendRetract, NextPass, CallRealtime, Held, Suspended
  <1>5. CASE SuspendSleep
    BY <1>5 DEF SuspendSleep, CallRealtime, Held, Suspended
  <1>6. CASE SleepLoop
    BY <1>6 DEF SleepLoop, CallRealtime, TypeOK, ValuesOK, CallerPlaces
  <1>7. CASE SuspendDoor
    BY <1>7 DEF SuspendDoor, NextPass, CallRealtime, Held, Suspended
  <1>8. CASE RestoreSpindle
    BY <1>8 DEF RestoreSpindle
  <1>9. CASE RestoreCoolant
    BY <1>9 DEF RestoreCoolant
  <1>10. CASE DelayStep
    BY <1>10 DEF DelayStep, CallRealtime
  <1>11. CASE DelayEnd
    BY <1>11 DEF DelayEnd
  <1>12. CASE RestoreDone
    BY <1>12 DEF RestoreDone, Relay, SetExec, NextPass, CallRealtime
  <1>13. CASE SpindleStopInitiate
    BY <1>13 DEF SpindleStopInitiate, NextPass, CallRealtime, FeedHeld, Held,
       Suspended
  <1>14. CASE SpindleStopRestore
    <2>1. CASE SetExec({"CYCLE_START"})
      BY <1>14, <2>1 DEF SpindleStopRestore, Relay, FeedHeld, Held, Suspended, NextPass,
         CallRealtime, SetExec
    <2>2. CASE UNCHANGED <<flagVars, user_start, past>>
      BY <1>14, <2>2 DEF SpindleStopRestore, Relay, FeedHeld, Held, Suspended, NextPass,
         CallRealtime
    <2> QED
      BY <1>14, <2>1, <2>2 DEF SpindleStopRestore, Relay
  <1>15. CASE SuspendIdle
    BY <1>15 DEF SuspendIdle, NextPass, CallRealtime, FeedHeld, Held, Suspended
  <1> QED
    BY <1>1, <1>2, <1>3, <1>4, <1>5, <1>6, <1>7, <1>8, <1>9, <1>10, <1>11, <1>12,
       <1>13, <1>14, <1>15 DEF ExecRtSuspend

\* Executing a line keeps the motion safe.
LEMMA ExecuteLineSafe ==
  ASSUME TypeOK, ProbeFree, ControlAgrees, Safe, ExecuteLine
  PROVE  abort' \/ Safe'
PROOF
  <1> USE DEF Safe, MotionOwned, StartsFromRest, SuspendAgrees, SnapshotAgrees,
              AlarmAgrees, ResetAgrees, ControlAgrees, Moving, Running, Doomed, At,
              Goto, vars, sysVars, flagVars, motionVars, outputVars, controlVars,
              boundVars, historyVars
  <1>1. CASE LineAbort
    BY <1>1 DEF LineAbort, OnlyControl
  <1>2. CASE LineRefused
    BY <1>2 DEF LineRefused, OnlyControl, Line
  <1>3. CASE LineMotion
    BY <1>3 DEF LineMotion, OnlyControl, Gcode, Line
  <1>4. CASE LineSync
    BY <1>4 DEF LineSync, OnlyControl, Gcode, Line
  <1>5. CASE LineUnsynced
    BY <1>5 DEF LineUnsynced, Gcode, Line
  <1>6. CASE LinePinAsync
    BY <1>6 DEF LinePinAsync, OnlyControl, Realtime, CallRealtime, Gcode, Line
  <1>7. CASE LineUnlock
    BY <1>7 DEF LineUnlock, Line
  <1>8. CASE LineSleep
    BY <1>8 DEF LineSleep, SetExec, Line
  <1>9. CASE LineCheckOn
    BY <1>9 DEF LineCheckOn, Line
  <1>10. CASE LineCheckOff
    BY <1>10, McResetSafe DEF LineCheckOff, Line
  <1> QED
    BY <1>1, <1>2, <1>3, <1>4, <1>5, <1>6, <1>7, <1>8, <1>9, <1>10 DEF ExecuteLine

\* Mc_line keeps the motion safe.
LEMMA ExecuteMcLineSafe ==
  ASSUME TypeOK, ProbeFree, ControlAgrees, Safe, ExecuteMcLine
  PROVE  abort' \/ Safe'
PROOF
  <1> USE DEF Safe, MotionOwned, StartsFromRest, SuspendAgrees, SnapshotAgrees,
              AlarmAgrees, ResetAgrees, ControlAgrees, Moving, Running, Doomed, At,
              Goto, vars, sysVars, flagVars, motionVars, outputVars, controlVars,
              boundVars, historyVars
  <1>1. CASE SoftCheck
    BY <1>1 DEF SoftCheck, SetExec, Realtime, CallRealtime
  <1>2. CASE SoftWait
    BY <1>2 DEF SoftWait, OnlyControl, Realtime, CallRealtime
  <1>3. CASE SoftReset
    BY <1>3, McResetSafe DEF SoftReset
  <1>4. CASE SoftAlarm
    BY <1>4 DEF SoftAlarm, Realtime, CallRealtime
  <1>5. CASE McLine
    <2>1. CASE state = "CHECK_MODE"
      BY <1>5, <2>1 DEF McLine, McLineReturn, OnlyControl, ProbeFree
    <2>2. CASE state # "CHECK_MODE"
      BY <1>5, <2>2 DEF McLine, OnlyControl, Realtime, CallRealtime
    <2> QED
      BY <1>5, <2>1, <2>2 DEF McLine
  <1>6. CASE McLineAbort
    BY <1>6 DEF McLineAbort, OnlyControl, McLineReturn
  <1>7. CASE McLineFull
    BY <1>7 DEF McLineFull, AutoCycleStart, SetExec, Realtime, CallRealtime
  <1>8. CASE McLinePlan
    BY <1>8 DEF McLinePlan, McLineReturn
  <1> QED
    BY <1>1, <1>2, <1>3, <1>4, <1>5, <1>6, <1>7, <1>8 DEF ExecuteMcLine

\* A buffer synchronisation and what follows it keep the motion safe.
LEMMA ExecuteSyncSafe ==
  ASSUME TypeOK, ProbeFree, ControlAgrees, Safe, ExecuteSync
  PROVE  abort' \/ Safe'
PROOF
  <1> USE DEF Safe, MotionOwned, StartsFromRest, SuspendAgrees, SnapshotAgrees,
              AlarmAgrees, ResetAgrees, ControlAgrees, Moving, Running, Doomed, At,
              Goto, vars, sysVars, flagVars, motionVars, outputVars, controlVars,
              boundVars, historyVars
  <1>1. CASE Sync
    BY <1>1 DEF Sync, AutoCycleStart, SetExec, Realtime, CallRealtime
  <1>2. CASE SyncTest
    BY <1>2 DEF SyncTest, OnlyControl, Realtime, CallRealtime
  <1>3. CASE SyncedSpindle
    BY <1>3 DEF SyncedSpindle, Synced, Synced
  <1>4. CASE SyncedCoolant
    BY <1>4 DEF SyncedCoolant, Synced, Synced
  <1>5. CASE DwellStep
    BY <1>5 DEF DwellStep, OnlyControl, Realtime, CallRealtime, Synced
  <1>6. CASE DwellEnd
    BY <1>6 DEF DwellEnd, OnlyControl, Synced
  <1>7. CASE SyncedPause
    <2>1. CASE Goto("loop") /\ UNCHANGED flagVars
      BY <1>7, <2>1 DEF SyncedPause, Synced
    <2>2. CASE Realtime("loop") /\ SetExec({"FEED_HOLD"})
      BY <1>7, <2>2 DEF SyncedPause, Synced, SetExec, Realtime, CallRealtime
    <2> QED
      BY <1>7, <2>1, <2>2 DEF SyncedPause
  <1>8. CASE SyncedEnd
    BY <1>8 DEF SyncedEnd, Synced
  <1>9. CASE SyncedPin
    BY <1>9 DEF SyncedPin, OnlyControl, Realtime, CallRealtime, Synced
  <1>10. CASE PinWait
    BY <1>10 DEF PinWait
  <1> QED
    BY <1>1, <1>2, <1>3, <1>4, <1>5, <1>6, <1>7, <1>8, <1>9, <1>10 DEF ExecuteSync

\* The probing cycle keeps the motion safe.
LEMMA ExecuteProbeSafe ==
  ASSUME TypeOK, ProbeFree, ControlAgrees, Safe, ExecuteProbe
  PROVE  abort' \/ Safe'
PROOF
  <1> USE DEF Safe, MotionOwned, StartsFromRest, SuspendAgrees, SnapshotAgrees,
              AlarmAgrees, ResetAgrees, ControlAgrees, Moving, Running, Doomed, At,
              Goto, vars, sysVars, flagVars, motionVars, outputVars, controlVars,
              boundVars, historyVars
  <1>1. CASE ProbeAbort
    BY <1>1 DEF ProbeAbort, OnlyControl, Synced, ProbeFree
  <1>2. CASE ProbeFailInitial
    BY <1>2 DEF ProbeFailInitial, Realtime, CallRealtime, Synced, ProbeFree
  <1>3. CASE ProbeLine
    BY <1>3 DEF ProbeLine, OnlyControl, Synced, ProbeFree
  <1>4. CASE ProbeStart
    BY <1>4 DEF ProbeStart, SetExec, Realtime, CallRealtime
  <1>5. CASE ProbeWait
    BY <1>5 DEF ProbeWait, OnlyControl, Realtime, CallRealtime
  <1>6. CASE ProbeDone
    BY <1>6 DEF ProbeDone, Realtime, CallRealtime
  <1>7. CASE ProbeEnd
    BY <1>7 DEF ProbeEnd, ResetBuffers
  <1> QED
    BY <1>1, <1>2, <1>3, <1>4, <1>5, <1>6, <1>7 DEF ExecuteProbe

-----------------------------------------------------------------------------
\* A machine that is sent no probing line never probes.

\* The stepper interrupt starts no probing.
LEMMA StepperIsrProbeFree ==
  ASSUME TypeOK, ProbeFree, ControlAgrees, StepperIsr
  PROVE  ProbeFree' /\ ControlAgrees'
PROOF
  <1> USE DEF ProbeFree, ControlAgrees, At, Goto, vars, flagVars, motionVars,
              controlVars
  <1>1. CASE IsrSegment
    BY <1>1 DEF IsrSegment
  <1>2. CASE IsrEmpty
    BY <1>2 DEF IsrEmpty
  <1>3. CASE IsrProbeRead
    BY <1>3 DEF IsrProbeRead
  <1>4. CASE IsrProbeWrite
    BY <1>4 DEF IsrProbeWrite
  <1> QED
    BY <1>1, <1>2, <1>3, <1>4 DEF StepperIsr

\* Protocol_exec_rt_system starts no probing.
LEMMA ExecRtSystemProbeFree ==
  ASSUME TypeOK, ProbeFree, ControlAgrees, ExecRtSystem
  PROVE  ProbeFree' /\ ControlAgrees'
PROOF
  <1> USE DEF ProbeFree, ControlAgrees, At, Goto, vars, flagVars, motionVars,
              controlVars
  <1>1. CASE RtNoAlarm
    BY <1>1 DEF RtNoAlarm
  <1>2. CASE RtAlarm
    BY <1>2 DEF RtAlarm
  <1>3. CASE RtCritical
    BY <1>3 DEF RtCritical
  <1>4. CASE RtCriticalWait
    BY <1>4 DEF RtCriticalWait
  <1>5. CASE RtSnap
    BY <1>5 DEF RtSnap, StageAfterSnapshot, StageAfterHold, StageAfterStart,
       HoldFlags, AfterRealtime, TypeOK, ValuesOK, NestedCallers, CallerPlaces
  <1>6. CASE RtHold
    BY <1>6 DEF RtHold, DoorSuspend, DoorState, HoldSuspend, HoldState,
       HoldFlags, ClearExec, StageAfterHold, StageAfterStart
  <1>7. CASE RtStartIgnored
    BY <1>7 DEF RtStartIgnored, Carry, ClearExec, StageAfterStart
  <1>8. CASE RtStartSpindleRestore
    BY <1>8 DEF RtStartSpindleRestore, Carry, ClearExec, StageAfterStart
  <1>9. CASE RtStartCycle
    BY <1>9 DEF RtStartCycle
  <1>10. CASE RtWake
    BY <1>10 DEF RtWake, ClearExec, StageAfterStart
  <1>11. CASE RtStartIdle
    BY <1>11 DEF RtStartIdle, ClearExec, StageAfterStart
  <1>12. CASE RtStopHold
    BY <1>12 DEF RtStopHold, ClearExec
  <1>13. CASE RtStopMotion
    BY <1>13 DEF RtStopMotion, ClearExec, JogFlush, ResetBuffers
  <1>14. CASE RtOver
    BY <1>14 DEF RtOver, SpindleStopOverride, AfterRealtime, TypeOK, ValuesOK,
       NestedCallers, CallerPlaces
  <1> QED
    BY <1>1, <1>2, <1>3, <1>4, <1>5, <1>6, <1>7, <1>8, <1>9, <1>10, <1>11, <1>12,
       <1>13, <1>14 DEF ExecRtSystem

\* Protocol_exec_rt_suspend starts no probing.
LEMMA ExecRtSuspendProbeFree ==
  ASSUME TypeOK, ProbeFree, ControlAgrees, ExecRtSuspend
  PROVE  ProbeFree' /\ ControlAgrees'
PROOF
  <1> USE DEF ProbeFree, ControlAgrees, At, Goto, vars, flagVars, motionVars,
              controlVars
  <1>1. CASE SuspendEnter
    BY <1>1 DEF SuspendEnter
  <1>2. CASE SuspendExit
    BY <1>2 DEF SuspendExit, TypeOK, ValuesOK, CallerPlaces
  <1>3. CASE SuspendWait
    BY <1>3 DEF SuspendWait, NextPass, CallRealtime
  <1>4. CASE SuspendRetract
    BY <1>4 DEF SuspendRetract, NextPass, CallRealtime
  <1>5. CASE SuspendSleep
    BY <1>5 DEF SuspendSleep, CallRealtime
  <1>6. CASE SleepLoop
    BY <1>6 DEF SleepLoop, CallRealtime, TypeOK, ValuesOK, CallerPlaces
  <1>7. CASE SuspendDoor
    BY <1>7 DEF SuspendDoor, NextPass, CallRealtime
  <1>8. CASE RestoreSpindle
    BY <1>8 DEF RestoreSpindle
  <1>9. CASE RestoreCoolant
    BY <1>9 DEF RestoreCoolant
  <1>10. CASE DelayStep
    BY <1>10 DEF DelayStep, CallRealtime
  <1>11. CASE DelayEnd
    BY <1>11 DEF DelayEnd
  <1>12. CASE RestoreDone
    BY <1>12 DEF RestoreDone, Relay, SetExec, NextPass, CallRealtime
  <1>13. CASE SpindleStopInitiate
    BY <1>13 DEF SpindleStopInitiate, NextPass, CallRealtime
  <1>14. CASE SpindleStopRestore
    BY <1>14 DEF SpindleStopRestore, Relay, SetExec, NextPass, CallRealtime
  <1>15. CASE SuspendIdle
    BY <1>15 DEF SuspendIdle, NextPass, CallRealtime
  <1> QED
    BY <1>1, <1>2, <1>3, <1>4, <1>5, <1>6, <1>7, <1>8, <1>9, <1>10, <1>11, <1>12,
       <1>13, <1>14, <1>15 DEF ExecRtSuspend

\* Executing a line starts no probing.
LEMMA ExecuteLineProbeFree ==
  ASSUME TypeOK, ProbeFree, ControlAgrees, ExecuteLine
  PROVE  ProbeFree' /\ ControlAgrees'
PROOF
  <1> USE DEF ProbeFree, ControlAgrees, At, Goto, vars, flagVars, motionVars,
              controlVars
  <1>1. CASE LineAbort
    BY <1>1 DEF LineAbort, OnlyControl
  <1>2. CASE LineRefused
    BY <1>2 DEF LineRefused, OnlyControl
  <1>3. CASE LineMotion
    BY <1>3 DEF LineMotion, OnlyControl
  <1>4. CASE LineSync
    BY <1>4 DEF LineSync, OnlyControl
  <1>5. CASE LineUnsynced
    BY <1>5 DEF LineUnsynced
  <1>6. CASE LinePinAsync
    BY <1>6 DEF LinePinAsync, OnlyControl, Realtime, CallRealtime
  <1>7. CASE LineUnlock
    BY <1>7 DEF LineUnlock
  <1>8. CASE LineSleep
    BY <1>8 DEF LineSleep, SetExec
  <1>9. CASE LineCheckOn
    BY <1>9 DEF LineCheckOn
  <1>10. CASE LineCheckOff
    BY <1>10 DEF LineCheckOff, mc_reset, AbortAlarm
  <1> QED
    BY <1>1, <1>2, <1>3, <1>4, <1>5, <1>6, <1>7, <1>8, <1>9, <1>10 DEF ExecuteLine

\* Mc_line starts no probing.
LEMMA ExecuteMcLineProbeFree ==
  ASSUME TypeOK, ProbeFree, ControlAgrees, ExecuteMcLine
  PROVE  ProbeFree' /\ ControlAgrees'
PROOF
  <1> USE DEF ProbeFree, ControlAgrees, At, Goto, vars, flagVars, motionVars,
              controlVars
  <1>1. CASE SoftCheck
    BY <1>1 DEF SoftCheck, SetExec, Realtime, CallRealtime
  <1>2. CASE SoftWait
    BY <1>2 DEF SoftWait, OnlyControl, Realtime, CallRealtime
  <1>3. CASE SoftReset
    BY <1>3 DEF SoftReset, mc_reset, AbortAlarm
  <1>4. CASE SoftAlarm
    BY <1>4 DEF SoftAlarm, Realtime, CallRealtime
  <1>5. CASE McLine
    BY <1>5 DEF McLine, OnlyControl, McLineReturn, Realtime, CallRealtime
  <1>6. CASE McLineAbort
    BY <1>6 DEF McLineAbort, OnlyControl, McLineReturn
  <1>7. CASE McLineFull
    BY <1>7 DEF McLineFull, AutoCycleStart, SetExec, Realtime, CallRealtime
  <1>8. CASE McLinePlan
    BY <1>8 DEF McLinePlan, McLineReturn
  <1> QED
    BY <1>1, <1>2, <1>3, <1>4, <1>5, <1>6, <1>7, <1>8 DEF ExecuteMcLine

\* A buffer synchronisation and what follows it start no probing.
LEMMA ExecuteSyncProbeFree ==
  ASSUME TypeOK, ProbeFree, ControlAgrees, ExecuteSync
  PROVE  ProbeFree' /\ ControlAgrees'
PROOF
  <1> USE DEF ProbeFree, ControlAgrees, At, Goto, vars, flagVars, motionVars,
              controlVars
  <1>1. CASE Sync
    BY <1>1 DEF Sync, AutoCycleStart, SetExec, Realtime, CallRealtime
  <1>2. CASE SyncTest
    BY <1>2 DEF SyncTest, OnlyControl, Realtime, CallRealtime
  <1>3. CASE SyncedSpindle
    BY <1>3 DEF SyncedSpindle, Synced
  <1>4. CASE SyncedCoolant
    BY <1>4 DEF SyncedCoolant, Synced
  <1>5. CASE DwellStep
    BY <1>5 DEF DwellStep, OnlyControl, Realtime, CallRealtime, Synced
  <1>6. CASE DwellEnd
    BY <1>6 DEF DwellEnd, OnlyControl, Synced
  <1>7. CASE SyncedPause
    BY <1>7 DEF SyncedPause, SetExec, Realtime, CallRealtime, Synced
  <1>8. CASE SyncedEnd
    BY <1>8 DEF SyncedEnd, Synced
  <1>9. CASE SyncedPin
    BY <1>9 DEF SyncedPin, OnlyControl, Realtime, CallRealtime, Synced
  <1>10. CASE PinWait
    BY <1>10 DEF PinWait
  <1> QED
    BY <1>1, <1>2, <1>3, <1>4, <1>5, <1>6, <1>7, <1>8, <1>9, <1>10 DEF ExecuteSync

\* The probing cycle starts no probing.
LEMMA ExecuteProbeProbeFree ==
  ASSUME TypeOK, ProbeFree, ControlAgrees, ExecuteProbe
  PROVE  ProbeFree' /\ ControlAgrees'
PROOF
  <1> USE DEF ProbeFree, ControlAgrees, At, Goto, vars, flagVars, motionVars,
              controlVars
  <1>1. CASE ProbeAbort
    BY <1>1 DEF ProbeAbort, OnlyControl, Synced
  <1>2. CASE ProbeFailInitial
    BY <1>2 DEF ProbeFailInitial, Realtime, CallRealtime, Synced
  <1>3. CASE ProbeLine
    BY <1>3 DEF ProbeLine, OnlyControl, Synced
  <1>4. CASE ProbeStart
    BY <1>4 DEF ProbeStart, SetExec, Realtime, CallRealtime
  <1>5. CASE ProbeWait
    BY <1>5 DEF ProbeWait, OnlyControl, Realtime, CallRealtime
  <1>6. CASE ProbeDone
    BY <1>6 DEF ProbeDone, Realtime, CallRealtime
  <1>7. CASE ProbeEnd
    BY <1>7 DEF ProbeEnd, ResetBuffers
  <1> QED
    BY <1>1, <1>2, <1>3, <1>4, <1>5, <1>6, <1>7 DEF ExecuteProbe

\* Every step of a machine that is sent no probing line keeps it from probing.
LEMMA StepProbeFree ==
  ASSUME "probe" \notin LineKinds, TypeOK, ProbeFree, ControlAgrees, [Next]_vars
  PROVE  ProbeFree' /\ ControlAgrees'
PROOF
  <1> USE DEF ProbeFree, ControlAgrees, At, Goto, vars, flagVars, motionVars,
              controlVars
  <1>1. CASE Boot \/ LoopIdle \/ LoopEnd \/ JogStart \/ JogWake
    BY <1>1 DEF Boot, LoopIdle, LoopEnd, JogStart, JogWake, OnlyControl, AutoCycleStart, SetExec,
                Realtime, CallRealtime
  <1>2. CASE Main
    BY <1>1, <1>2, ExecRtSystemProbeFree, ExecRtSuspendProbeFree, ExecuteLineProbeFree,
       ExecuteMcLineProbeFree, ExecuteSyncProbeFree, ExecuteProbeProbeFree DEF Main
  <1>3. ASSUME NEW k \in LineKinds, ReadLine(k) PROVE ProbeFree' /\ ControlAgrees'
    BY <1>3 DEF ReadLine
  <1>4. CASE PinReached
    BY <1>4 DEF PinReached, CallRealtime, OnlyControl
  <1>5. ASSUME NEW c \in RtInputs, RtCommand(c) PROVE ProbeFree' /\ ControlAgrees'
    <2>1. exec_alarm' = exec_alarm \/ exec_alarm' \in {"ABORT_CYCLE", "HOMING_FAIL_RESET"}
      BY <1>5 DEF RtCommand, CmdReset, mc_reset, AbortAlarm, CmdCycleStart, CmdFeedHold,
                  CmdSafetyDoor, CmdJogCancel, CmdAccessory, Raise
    <2> QED
      BY <1>5, <2>1 DEF RtCommand
  <1>6. CASE UNCHANGED vars
    BY <1>6
  <1> QED
    BY <1>2, <1>3, <1>4, <1>5, <1>6, StepperIsrProbeFree DEF Next, Environment

-----------------------------------------------------------------------------
\* A reset that has been served lasts until the machine starts up again.

\* The stepper interrupt keeps an abort.
LEMMA StepperIsrAbort ==
  ASSUME TypeOK, ProbeFree, AbortAgrees, abort \/ Safe, StepperIsr
  PROVE  AbortAgrees' /\ (abort => abort')
PROOF
  <1> USE DEF AbortAgrees, At, Goto, vars, sysVars, flagVars, controlVars
  <1>1. CASE IsrSegment
    BY <1>1 DEF IsrSegment
  <1>2. CASE IsrEmpty
    BY <1>2 DEF IsrEmpty
  <1>3. CASE IsrProbeRead
    BY <1>3 DEF IsrProbeRead
  <1>4. CASE IsrProbeWrite
    BY <1>4 DEF IsrProbeWrite, ProbeFree
  <1> QED
    BY <1>1, <1>2, <1>3, <1>4 DEF StepperIsr

\* Protocol_exec_rt_system keeps an abort.
LEMMA ExecRtSystemAbort ==
  ASSUME TypeOK, ProbeFree, AbortAgrees, abort \/ Safe, ExecRtSystem
  PROVE  AbortAgrees' /\ (abort => abort')
PROOF
  <1> USE DEF AbortAgrees, At, Goto, vars, sysVars, flagVars, controlVars
  <1>1. CASE RtNoAlarm
    BY <1>1 DEF RtNoAlarm
  <1>2. CASE RtAlarm
    BY <1>2 DEF RtAlarm
  <1>3. CASE RtCritical
    BY <1>3 DEF RtCritical
  <1>4. CASE RtCriticalWait
    BY <1>4 DEF RtCriticalWait
  <1>5. CASE RtSnap
    BY <1>5 DEF RtSnap, StageAfterSnapshot, StageAfterHold, StageAfterStart,
       AfterRealtime, TypeOK, ValuesOK, CallerPlaces, NestedCallers, Safe,
       AlarmAgrees
  <1>6. CASE RtHold
    BY <1>6 DEF RtHold, ClearExec, StageAfterHold
  <1>7. CASE RtStartIgnored
    BY <1>7 DEF RtStartIgnored, Carry
  <1>8. CASE RtStartSpindleRestore
    BY <1>8 DEF RtStartSpindleRestore, Carry
  <1>9. CASE RtStartCycle
    BY <1>9 DEF RtStartCycle
  <1>10. CASE RtWake
    BY <1>10 DEF RtWake
  <1>11. CASE RtStartIdle
    BY <1>11 DEF RtStartIdle
  <1>12. CASE RtStopHold
    BY <1>12 DEF RtStopHold
  <1>13. CASE RtStopMotion
    BY <1>13 DEF RtStopMotion
  <1>14. CASE RtOver
    BY <1>14 DEF RtOver
  <1> QED
    BY <1>1, <1>2, <1>3, <1>4, <1>5, <1>6, <1>7, <1>8, <1>9, <1>10, <1>11, <1>12,
       <1>13, <1>14 DEF ExecRtSystem

\* Protocol_exec_rt_suspend keeps an abort.
LEMMA ExecRtSuspendAbort ==
  ASSUME TypeOK, ProbeFree, AbortAgrees, abort \/ Safe, ExecRtSuspend
  PROVE  AbortAgrees' /\ (abort => abort')
PROOF
  <1> USE DEF AbortAgrees, At, Goto, vars, sysVars, flagVars, controlVars
  <1>1. CASE SuspendEnter
    BY <1>1 DEF SuspendEnter
  <1>2. CASE SuspendExit
    BY <1>2 DEF SuspendExit, TypeOK, ValuesOK, CallerPlaces
  <1>3. CASE SuspendWait
    BY <1>3 DEF SuspendWait, Suspended
  <1>4. CASE SuspendRetract
    BY <1>4 DEF SuspendRetract, NextPass, CallRealtime, Held, Suspended
  <1>5. CASE SuspendSleep
    BY <1>5 DEF SuspendSleep, CallRealtime, Held, Suspended
  <1>6. CASE SleepLoop
    BY <1>6 DEF SleepLoop, CallRealtime, TypeOK, ValuesOK, CallerPlaces
  <1>7. CASE SuspendDoor
    BY <1>7 DEF SuspendDoor, NextPass, CallRealtime, Held, Suspended
  <1>8. CASE RestoreSpindle
    BY <1>8 DEF RestoreSpindle
  <1>9. CASE RestoreCoolant
    BY <1>9 DEF RestoreCoolant
  <1>10. CASE DelayStep
    BY <1>10 DEF DelayStep, CallRealtime
  <1>11. CASE DelayEnd
    BY <1>11 DEF DelayEnd
  <1>12. CASE RestoreDone
    BY <1>12 DEF RestoreDone, Relay, SetExec, NextPass, CallRealtime
  <1>13. CASE SpindleStopInitiate
    BY <1>13 DEF SpindleStopInitiate, FeedHeld, Held, Suspended
  <1>14. CASE SpindleStopRestore
    BY <1>14 DEF SpindleStopRestore, Relay, FeedHeld, Held, Suspended
  <1>15. CASE SuspendIdle
    BY <1>15 DEF SuspendIdle, FeedHeld, Held, Suspended
  <1> QED
    BY <1>1, <1>2, <1>3, <1>4, <1>5, <1>6, <1>7, <1>8, <1>9, <1>10, <1>11, <1>12,
       <1>13, <1>14, <1>15 DEF ExecRtSuspend

\* Executing a line keeps an abort.
LEMMA ExecuteLineAbort ==
  ASSUME TypeOK, ProbeFree, AbortAgrees, abort \/ Safe, ExecuteLine
  PROVE  AbortAgrees' /\ (abort => abort')
PROOF
  <1> USE DEF AbortAgrees, At, Goto, vars, sysVars, flagVars, controlVars
  <1>1. CASE LineAbort
    BY <1>1 DEF LineAbort, OnlyControl
  <1>2. CASE LineRefused
    BY <1>2 DEF LineRefused, OnlyControl, Line
  <1>3. CASE LineMotion
    BY <1>3 DEF LineMotion, OnlyControl, Line, Gcode
  <1>4. CASE LineSync
    BY <1>4 DEF LineSync, OnlyControl, Line, Gcode
  <1>5. CASE LineUnsynced
    BY <1>5 DEF LineUnsynced, Line, Gcode
  <1>6. CASE LinePinAsync
    BY <1>6 DEF LinePinAsync, OnlyControl, Realtime, CallRealtime, Line, Gcode
  <1>7. CASE LineUnlock
    BY <1>7 DEF LineUnlock, Line
  <1>8. CASE LineSleep
    BY <1>8 DEF LineSleep, SetExec, Line
  <1>9. CASE LineCheckOn
    BY <1>9 DEF LineCheckOn, Line
  <1>10. CASE LineCheckOff
    BY <1>10 DEF LineCheckOff, Line
  <1> QED
    BY <1>1, <1>2, <1>3, <1>4, <1>5, <1>6, <1>7, <1>8, <1>9, <1>10 DEF ExecuteLine

\* Mc_line keeps an abort.
LEMMA ExecuteMcLineAbort ==
  ASSUME TypeOK, ProbeFree, AbortAgrees, abort \/ Safe, ExecuteMcLine
  PROVE  AbortAgrees' /\ (abort => abort')
PROOF
  <1> USE DEF AbortAgrees, At, Goto, vars, sysVars, flagVars, controlVars
  <1>1. CASE SoftCheck
    BY <1>1 DEF SoftCheck, SetExec, Realtime, CallRealtime
  <1>2. CASE SoftWait
    BY <1>2 DEF SoftWait, OnlyControl, Realtime, CallRealtime
  <1>3. CASE SoftReset
    BY <1>3 DEF SoftReset
  <1>4. CASE SoftAlarm
    BY <1>4 DEF SoftAlarm, Realtime, CallRealtime
  <1>5. CASE McLine
    BY <1>5 DEF McLine, OnlyControl, McLineReturn, Realtime, CallRealtime
  <1>6. CASE McLineAbort
    BY <1>6 DEF McLineAbort, OnlyControl, McLineReturn
  <1>7. CASE McLineFull
    BY <1>7 DEF McLineFull, AutoCycleStart, SetExec, Realtime, CallRealtime
  <1>8. CASE McLinePlan
    BY <1>8 DEF McLinePlan, McLineReturn
  <1> QED
    BY <1>1, <1>2, <1>3, <1>4, <1>5, <1>6, <1>7, <1>8 DEF ExecuteMcLine

\* A buffer synchronisation and what follows it keep an abort.
LEMMA ExecuteSyncAbort ==
  ASSUME TypeOK, ProbeFree, AbortAgrees, abort \/ Safe, ExecuteSync
  PROVE  AbortAgrees' /\ (abort => abort')
PROOF
  <1> USE DEF AbortAgrees, At, Goto, vars, sysVars, flagVars, controlVars
  <1>1. CASE Sync
    BY <1>1 DEF Sync, AutoCycleStart, SetExec, Realtime, CallRealtime
  <1>2. CASE SyncTest
    BY <1>2 DEF SyncTest, OnlyControl, Realtime, CallRealtime
  <1>3. CASE SyncedSpindle
    BY <1>3 DEF SyncedSpindle, Synced
  <1>4. CASE SyncedCoolant
    BY <1>4 DEF SyncedCoolant, Synced
  <1>5. CASE DwellStep
    BY <1>5 DEF DwellStep, OnlyControl, Realtime, CallRealtime, Synced
  <1>6. CASE DwellEnd
    BY <1>6 DEF DwellEnd, OnlyControl, Synced
  <1>7. CASE SyncedPause
    BY <1>7 DEF SyncedPause, SetExec, Realtime, CallRealtime, Synced
  <1>8. CASE SyncedEnd
    BY <1>8 DEF SyncedEnd, Synced
  <1>9. CASE SyncedPin
    BY <1>9 DEF SyncedPin, OnlyControl, Realtime, CallRealtime, Synced
  <1>10. CASE PinWait
    BY <1>10 DEF PinWait
  <1> QED
    BY <1>1, <1>2, <1>3, <1>4, <1>5, <1>6, <1>7, <1>8, <1>9, <1>10 DEF ExecuteSync

\* The probing cycle keeps an abort.
LEMMA ExecuteProbeAbort ==
  ASSUME TypeOK, ProbeFree, AbortAgrees, abort \/ Safe, ExecuteProbe
  PROVE  AbortAgrees' /\ (abort => abort')
PROOF
  <1> USE DEF AbortAgrees, At, Goto, vars, sysVars, flagVars, controlVars
  <1>1. CASE ProbeAbort
    BY <1>1 DEF ProbeAbort, OnlyControl, Synced
  <1>2. CASE ProbeFailInitial
    BY <1>2 DEF ProbeFailInitial, Realtime, CallRealtime, Synced
  <1>3. CASE ProbeLine
    BY <1>3 DEF ProbeLine, OnlyControl, Synced
  <1>4. CASE ProbeStart
    BY <1>4 DEF ProbeStart, SetExec, Realtime, CallRealtime
  <1>5. CASE ProbeWait
    BY <1>5 DEF ProbeWait, OnlyControl, Realtime, CallRealtime
  <1>6. CASE ProbeDone
    BY <1>6 DEF ProbeDone, Realtime, CallRealtime
  <1>7. CASE ProbeEnd
    BY <1>7 DEF ProbeEnd, ResetBuffers
  <1> QED
    BY <1>1, <1>2, <1>3, <1>4, <1>5, <1>6, <1>7 DEF ExecuteProbe

\* Only starting up ends an abort.
LEMMA StepAbort ==
  ASSUME TypeOK, ProbeFree, AbortAgrees, abort \/ Safe, [Next]_vars
  PROVE  AbortAgrees' /\ (abort /\ ~Boot => abort')
PROOF
  <1> USE DEF AbortAgrees, At, Goto, vars, sysVars, flagVars, controlVars
  <1>1. CASE Boot
    BY <1>1 DEF Boot
  <1>2. CASE LoopIdle \/ LoopEnd \/ JogStart \/ JogWake
    BY <1>2 DEF LoopIdle, LoopEnd, JogStart, JogWake, OnlyControl, AutoCycleStart, SetExec,
                Realtime, CallRealtime
  <1>3. CASE Main
    BY <1>1, <1>2, <1>3, ExecRtSystemAbort, ExecRtSuspendAbort, ExecuteLineAbort,
       ExecuteMcLineAbort, ExecuteSyncAbort, ExecuteProbeAbort DEF Main
  <1>4. ASSUME NEW k \in LineKinds, ReadLine(k) PROVE AbortAgrees' /\ (abort => abort')
    BY <1>4 DEF ReadLine
  <1>5. CASE PinReached
    BY <1>5 DEF PinReached, CallRealtime, OnlyControl
  <1>6. ASSUME NEW c \in RtInputs, RtCommand(c) PROVE AbortAgrees' /\ (abort => abort')
    <2>1. UNCHANGED <<abort, pc>>
      BY <1>6 DEF RtCommand
    <2>2. CASE mc_reset
      BY <2>1, <2>2 DEF mc_reset
    <2>3. CASE UNCHANGED exec_alarm /\ ("RESET" \in exec_state => "RESET" \in exec_state')
      BY <2>1, <2>3
    <2> QED
      BY <1>6, <2>2, <2>3
      DEF RtCommand, CmdReset, CmdCycleStart, CmdFeedHold, CmdSafetyDoor, CmdJogCancel,
          CmdAccessory, Raise
  <1>7. CASE UNCHANGED vars
    BY <1>7
  <1> QED
    BY <1>3, <1>4, <1>5, <1>6, <1>7, StepperIsrAbort DEF Next, Environment

\* Starting up leaves the machine safe.
LEMMA BootSafe ==
  ASSUME Boot
  PROVE  Safe'
BY DEF Boot, ResetBuffers, Goto, Safe, MotionOwned, StartsFromRest, SuspendAgrees,
       SnapshotAgrees, AlarmAgrees, ResetAgrees, Moving, Running, Doomed

\* The main program keeps the motion safe.
LEMMA MainSafe ==
  ASSUME TypeOK, ProbeFree, ControlAgrees, Safe, Main
  PROVE  abort' \/ Safe'
PROOF
  <1> USE DEF Safe, MotionOwned, StartsFromRest, SuspendAgrees, SnapshotAgrees,
              AlarmAgrees, ResetAgrees, ControlAgrees, Moving, Running, Doomed, At,
              Goto, vars, sysVars, flagVars, motionVars, outputVars, controlVars,
              boundVars, historyVars
  <1>1. CASE LoopIdle
    BY <1>1 DEF LoopIdle, AutoCycleStart, SetExec, Realtime, CallRealtime
  <1>2. CASE LoopEnd
    BY <1>2 DEF LoopEnd, OnlyControl
  <1>3. CASE JogStart
    BY <1>3 DEF JogStart
  <1>4. CASE JogWake
    <2>1. "EXECUTE_HOLD" \in step_control' <=> "EXECUTE_HOLD" \in step_control
      BY <1>4, PrepBufferHold DEF JogWake
    <2> QED
      BY <1>4, <2>1 DEF JogWake
  <1> QED
    BY <1>1, <1>2, <1>3, <1>4, BootSafe, ExecRtSystemSafe, ExecRtSuspendSafe, ExecuteLineSafe,
       ExecuteMcLineSafe, ExecuteSyncSafe, ExecuteProbeSafe DEF Main

\* The environment keeps the motion safe.
LEMMA EnvironmentSafe ==
  ASSUME TypeOK, ProbeFree, ControlAgrees, Safe, Environment
  PROVE  Safe'
PROOF
  <1> USE DEF Safe, MotionOwned, StartsFromRest, SuspendAgrees, SnapshotAgrees,
              AlarmAgrees, ResetAgrees, ControlAgrees, Moving, Running, Doomed, At,
              Goto, vars, sysVars, flagVars, motionVars, outputVars, controlVars,
              boundVars, historyVars
  <1>1. ASSUME NEW k \in LineKinds, ReadLine(k) PROVE Safe'
    BY <1>1 DEF ReadLine
  <1>2. CASE PinReached
    BY <1>2 DEF PinReached, CallRealtime, OnlyControl
  <1>3. ASSUME NEW c \in RtInputs, RtCommand(c) PROVE Safe'
    <2>1. UNCHANGED <<state, suspend, step_control, rt_exec, pc, via, ret, cmd>>
      BY <1>3 DEF RtCommand
    <2>2. CASE mc_reset
      BY <2>1, <2>2, McResetSafe
    <2>3. ASSUME NEW flags \in SUBSET (ExecFlags \ {"CYCLE_STOP", "RESET"}),
                 exec_state' = exec_state \cup flags, UNCHANGED <<exec_alarm, stepping>>
          PROVE Safe'
      BY <2>1, <2>3
    <2> QED
      <3>1. CASE CmdReset
        BY <2>2, <3>1 DEF CmdReset
      <3>2. CASE CmdCycleStart
        BY <2>3, <3>2 DEF CmdCycleStart, ExecFlags
      <3>3. CASE CmdFeedHold \/ CmdSafetyDoor
        BY <2>3, <3>3 DEF CmdFeedHold, CmdSafetyDoor, Raise, ExecFlags
      <3>4. CASE CmdJogCancel
        BY <2>3, <3>4 DEF CmdJogCancel, Raise, ExecFlags
      <3>5. ASSUME NEW flag, CmdAccessory(flag) PROVE Safe'
        BY <2>1, <3>5 DEF CmdAccessory
      <3> QED
        BY <1>3, <3>1, <3>2, <3>3, <3>4, <3>5 DEF RtCommand
  <1> QED
    BY <1>1, <1>2, <1>3 DEF Environment

\* IInv is inductive for a machine that is sent no probing line.
LEMMA StepInv ==
  ASSUME "probe" \notin LineKinds, IInv, [Next]_vars
  PROVE  IInv'
PROOF
  <1>1. TypeOK' /\ ProbeFree' /\ ControlAgrees' /\ AbortAgrees'
    BY StepType, StepProbeFree, StepAbort DEF IInv
  <1>2. CASE UNCHANGED vars
    BY <1>1, <1>2
    DEF IInv, Safe, MotionOwned, StartsFromRest, SuspendAgrees, SnapshotAgrees, AlarmAgrees,
        ResetAgrees, Moving, Running, Doomed, vars, sysVars, flagVars, motionVars, controlVars
  <1>3. CASE abort /\ Next
    BY <1>1, <1>3, StepAbort, BootSafe DEF IInv
  <1>4. CASE ~abort /\ Next
    BY <1>1, <1>4, MainSafe, StepperIsrSafe, EnvironmentSafe DEF IInv, Next
  <1> QED
    BY <1>2, <1>3, <1>4

\* It holds initially.
LEMMA InitInv ==
  ASSUME Init
  PROVE  IInv
PROOF
  <1>1. ProbeFree /\ ControlAgrees
    BY DEF Init, ProbeFree, ControlAgrees
  <1>2. Safe
    BY DEF Init, Safe, MotionOwned, StartsFromRest, SuspendAgrees, SnapshotAgrees, AlarmAgrees,
           ResetAgrees, Moving, Running, Doomed
  <1> QED
    BY <1>1, <1>2, InitType DEF IInv, Init, AbortAgrees

\* The inductive invariant holds throughout.
THEOREM Invariance ==
  ASSUME "probe" \notin LineKinds
  PROVE  Spec => []IInv
PROOF
  <1>1. Init => IInv
    BY InitInv
  <1>2. IInv /\ [Next]_vars => IInv'
    BY StepInv
  <1> QED
    BY <1>1, <1>2, PTL DEF Spec

\* A hold that is reported complete has stopped the stepper interrupt: no order
\* of a hold, the end of the motion, a jog's cancel, a door, an abort, an unlock
\* and the next start ever reports it earlier.
THEOREM HoldSafety ==
  ASSUME "probe" \notin LineKinds
  PROVE  Spec => []HoldCompleteMeansStopped
PROOF
  <1>1. IInv => HoldCompleteMeansStopped
    BY DEF IInv, Safe, MotionOwned, Moving, HoldCompleteMeansStopped
  <1> QED
    BY <1>1, Invariance, PTL

\* No cycle is ever started over a stop that is not yet handled.
THEOREM StopSafety ==
  ASSUME "probe" \notin LineKinds
  PROVE  Spec => []CycleStopMeansStopped
PROOF
  <1>1. IInv => CycleStopMeansStopped
    BY DEF IInv, Safe, MotionOwned, CycleStopMeansStopped
  <1> QED
    BY <1>1, Invariance, PTL

\* Where a reset comes from.
LEMMA ResetSource ==
  ASSUME TypeOK, ProbeFree, [Next]_vars, "RESET" \notin exec_state, "RESET" \in exec_state'
  PROVE  mc_reset
PROOF
  <1> USE DEF vars, sysVars, flagVars
  <1>1. CASE StepperIsr
    BY <1>1 DEF StepperIsr, IsrSegment, IsrEmpty, IsrProbeRead, IsrProbeWrite, ProbeFree
  <1>2. CASE ExecRtSystem
    BY <1>2
    DEF ExecRtSystem, RtNoAlarm, RtAlarm, RtCritical, RtCriticalWait, RtSnap, RtHold,
        RtStartIgnored, RtStartSpindleRestore, RtStartCycle, RtWake, RtStartIdle, RtStopHold,
        RtStopMotion, RtOver, ClearExec
  <1>3. CASE ExecRtSuspend
    BY <1>3
    DEF ExecRtSuspend, SuspendEnter, SuspendExit, SuspendWait, SuspendRetract, SuspendSleep,
        SleepLoop, SuspendDoor, RestoreSpindle, RestoreCoolant, DelayStep, DelayEnd, RestoreDone,
        SpindleStopInitiate, SpindleStopRestore, SuspendIdle, Relay, SetExec
  <1>4. CASE ExecuteLine
    BY <1>4
    DEF ExecuteLine, LineAbort, LineRefused, LineMotion, LineSync, LineUnsynced, LinePinAsync,
        LineUnlock, LineSleep, LineCheckOn, LineCheckOff, OnlyControl, SetExec
  <1>5. CASE ExecuteMcLine
    BY <1>5
    DEF ExecuteMcLine, SoftCheck, SoftWait, SoftReset, SoftAlarm, McLine, McLineAbort,
        McLineFull, McLinePlan, OnlyControl, AutoCycleStart, SetExec
  <1>6. CASE ExecuteSync
    <2>1. CASE SyncedPause
      <3>1. CASE UNCHANGED flagVars
        BY <3>1
      <3>2. CASE SetExec({"FEED_HOLD"})
        BY <3>2 DEF SetExec
      <3> QED
        BY <2>1, <3>1, <3>2 DEF SyncedPause
    <2>2. CASE Sync
      BY <2>2 DEF Sync, AutoCycleStart, SetExec
    <2>3. CASE PinWait
      BY <2>3 DEF PinWait
    <2> QED
      BY <1>6, <2>1, <2>2, <2>3
      DEF ExecuteSync, SyncTest, SyncedSpindle, SyncedCoolant, DwellStep, DwellEnd,
          SyncedEnd, SyncedPin, OnlyControl
  <1>7. CASE ExecuteProbe
    BY <1>7
    DEF ExecuteProbe, ProbeAbort, ProbeFailInitial, ProbeLine, ProbeStart, ProbeWait, ProbeDone,
        ProbeEnd, OnlyControl, SetExec
  <1>8. CASE Boot \/ LoopIdle \/ LoopEnd \/ JogStart \/ JogWake
    BY <1>8 DEF Boot, LoopIdle, LoopEnd, JogStart, JogWake, OnlyControl, AutoCycleStart, SetExec
  <1>9. CASE Environment
    BY <1>9
    DEF Environment, ReadLine, PinReached, OnlyControl, RtCommand, CmdReset, CmdCycleStart,
        CmdFeedHold, CmdSafetyDoor, CmdJogCancel, CmdAccessory, Raise
  <1> QED
    BY <1>1, <1>2, <1>3, <1>4, <1>5, <1>6, <1>7, <1>8, <1>9 DEF Next, Main

\* Whichever of the host, a pin, $C or a soft limit raises a reset, and whatever
\* the machine is in the middle of, the steppers are stopped when it is pending.
THEOREM ResetSafety ==
  ASSUME "probe" \notin LineKinds
  PROVE  Spec => ResetStopsMotion
PROOF
  <1> DEFINE Stops == "RESET" \notin exec_state /\ "RESET" \in exec_state'
                       => ~stepping' \/ abort
  <1>1. IInv /\ [Next]_vars => Stops
    BY ResetSource, McResetSafe DEF IInv
  <1>2. IInv /\ [Next]_vars => [Stops]_vars
    BY <1>1
  <1> QED
    BY <1>2, Invariance, PTL DEF Spec, ResetStopsMotion

\* What leaves the alarm state.
LEMMA AlarmStep ==
  ASSUME IInv, [Next]_vars, state = "ALARM", state' # "ALARM"
  PROVE  state' = "SLEEP" \/ (pc = "line" /\ cmd = "unlock")
PROOF
  <1> USE DEF vars, sysVars, At
  <1>1. CASE StepperIsr
    BY <1>1 DEF StepperIsr, IsrSegment, IsrEmpty, IsrProbeRead, IsrProbeWrite
  <1>2. pc = "rt_stop" => FALSE
    BY DEF IInv, AbortAgrees, Safe, SnapshotAgrees, MotionOwned, Moving, Running, Doomed
  <1>3. CASE ExecRtSystem
    BY <1>2, <1>3
    DEF ExecRtSystem, RtNoAlarm, RtAlarm, RtCritical, RtCriticalWait, RtSnap, RtHold,
        RtStartIgnored, RtStartSpindleRestore, RtStartCycle, RtWake, RtStartIdle, RtStopHold,
        RtStopMotion, RtOver, HoldAllowed, StartAllowed, DoorRestored, DoorClosed
  <1>4. CASE ExecRtSuspend
    BY <1>4
    DEF ExecRtSuspend, SuspendEnter, SuspendExit, SuspendWait, SuspendRetract, SuspendSleep,
        SleepLoop, SuspendDoor, RestoreSpindle, RestoreCoolant, DelayStep, DelayEnd, RestoreDone,
        SpindleStopInitiate, SpindleStopRestore, SuspendIdle
  <1>5. CASE ExecuteLine
    BY <1>5
    DEF ExecuteLine, LineAbort, LineRefused, LineMotion, LineSync, LineUnsynced, LinePinAsync,
        LineUnlock, LineSleep, LineCheckOn, LineCheckOff, Line, OnlyControl
  <1>6. CASE ExecuteMcLine
    BY <1>6
    DEF ExecuteMcLine, SoftCheck, SoftWait, SoftReset, SoftAlarm, McLine, McLineAbort,
        McLineFull, McLinePlan, OnlyControl
  <1>7. CASE ExecuteSync
    BY <1>7
    DEF ExecuteSync, Sync, SyncTest, SyncedSpindle, SyncedCoolant, DwellStep, DwellEnd,
        SyncedPause, SyncedEnd, SyncedPin, PinWait, OnlyControl
  <1>8. CASE ExecuteProbe
    BY <1>8
    DEF ExecuteProbe, ProbeAbort, ProbeFailInitial, ProbeLine, ProbeStart, ProbeWait, ProbeDone,
        ProbeEnd, OnlyControl
  <1>9. CASE Boot \/ LoopIdle \/ LoopEnd \/ JogStart \/ JogWake
    BY <1>9 DEF Boot, LoopIdle, LoopEnd, JogStart, JogWake, OnlyControl
  <1>10. CASE Environment
    BY <1>10 DEF Environment, ReadLine, PinReached, OnlyControl, RtCommand
  <1> QED
    BY <1>1, <1>3, <1>4, <1>5, <1>6, <1>7, <1>8, <1>9, <1>10 DEF Next, Main

\* A machine that is sent no probing line leaves the alarm state by $X alone, or
\* for sleep: no late cycle stop, cancel or re-initialisation unlocks it.
THEOREM AlarmSafety ==
  ASSUME "probe" \notin LineKinds
  PROVE  Spec => AlarmLatched
PROOF
  <1> DEFINE Latch == state = "ALARM" /\ state' # "ALARM"
                       => state' = "SLEEP" \/ (pc = "line" /\ cmd = "unlock")
  <1>1. IInv /\ [Next]_vars => [Latch]_vars
    BY AlarmStep
  <1> QED
    BY <1>1, Invariance, PTL DEF Spec, AlarmLatched

-----------------------------------------------------------------------------
\* A probing motion stays with its probing line.

\* Buffers that are left alone stay free of probing motion.
LEMMA PlainKept ==
  ASSUME NoProbeBuffered, UNCHANGED <<plan, segs>>
  PROVE  NoProbeBuffered'
BY DEF NoProbeBuffered

\* So are empty ones.
LEMMA PlainEmpty ==
  ASSUME plan' = <<>>, segs' = <<>>
  PROVE  NoProbeBuffered'
BY EmptySeq DEF NoProbeBuffered

\* Segments that are moved to the segment buffer are those the plan had.
LEMMA PrepareOf ==
  ASSUME NEW S, plan \in Seq(S), segs \in Seq(S),
         NEW n \in Nat, NEW k \in {0, 1}, n + k <= Len(plan), Prepare(n, k)
  PROVE  plan' \in Seq(S) /\ segs' \in Seq(S)
PROOF
  <1>1. Len(plan) \in Nat
    BY LenProperties
  <1>2. SubSeq(plan, 1, n + k) \in Seq(S)
    BY <1>1, SubSeqProperties
  <1>3. SubSeq(plan, n + 1, Len(plan)) \in Seq(S)
    BY <1>1, SubSeqProperties
  <1>4. segs \o SubSeq(plan, 1, n + k) \in Seq(S)
    BY <1>2, ConcatProperties
  <1> QED
    BY <1>3, <1>4 DEF Prepare

\* The segment generator brings no new kind of motion in.
LEMMA PrepOf ==
  ASSUME TypeOK, NEW S, plan \in Seq(S), segs \in Seq(S), NEW control,
         st_prep_buffer(control)
  PROVE  plan' \in Seq(S) /\ segs' \in Seq(S)
PROOF
  <1> DEFINE most == Lesser(Room, Len(plan))
  <1>1. Len(plan) \in Nat /\ Room \in Nat
    BY LenProperties, BuffersAssumption DEF TypeOK, ValuesOK, Room
  <1>2. CASE UNCHANGED <<plan, segs>>
    BY <1>2
  <1>3. CASE Prepare(most, 0)
    <2>1. most \in Nat /\ most + 0 <= Len(plan)
      BY <1>1 DEF Lesser
    <2> QED
      BY <1>3, <2>1, PrepareOf
  <1>4. CASE \E n \in 0 .. (Len(plan) - 1), k \in {0, 1} : n < Room /\ Prepare(n, k)
    <2>1. PICK n \in 0 .. (Len(plan) - 1), k \in {0, 1} : Prepare(n, k)
      BY <1>4
    <2>2. n \in Nat /\ n + k <= Len(plan)
      BY <1>1, <2>1
    <2> QED
      BY <2>1, <2>2, PrepareOf
  <1> QED
    BY <1>2, <1>3, <1>4 DEF st_prep_buffer

\* It brings no probing motion in.
LEMMA PrepPlain ==
  ASSUME TypeOK, NoProbeBuffered, NEW control, st_prep_buffer(control)
  PROVE  NoProbeBuffered'
BY PrepOf DEF NoProbeBuffered

\* A new block of a line that is no probing line brings none in either.
LEMMA NewBlockPlain ==
  ASSUME TypeOK, cmd # "probe", NoProbeBuffered
  PROVE  plan \o NewBlock(cmd) \in Seq(PlainSegment)
PROOF
  <1>1. modal.spindle \in BOOLEAN /\ cmd \in AllLines \ {"probe"}
    BY Zenon DEF TypeOK, BooleansOK, ValuesOK, Accessories
  <1>2. [kind |-> cmd, spindle |-> modal.spindle] \in PlainSegment
    BY <1>1, Zenon DEF PlainSegment
  <1>3. NewBlock(cmd) \in [1 .. SegsPerBlock -> PlainSegment]
    BY <1>2, Zenon DEF NewBlock
  <1>4. NewBlock(cmd) \in Seq(PlainSegment)
    BY <1>3, BuffersAssumption
  <1> QED
    BY <1>4, ConcatProperties DEF NoProbeBuffered

\* The stepper interrupt moves no probing motion into another line's.
LEMMA StepperIsrPlain ==
  ASSUME TypeOK, ProbeBuffered, StepperIsr
  PROVE  ProbeBuffered'
PROOF
  <1> USE DEF ProbeBuffered, Probing, ServingPlaces, NestedCallers, At, Goto, CallRealtime, vars,
              sysVars, flagVars, motionVars, outputVars, controlVars, boundVars, historyVars
  <1>1. CASE IsrSegment
    <2>1. NoProbeBuffered => NoProbeBuffered'
      BY <1>1, HeadTailProperties DEF IsrSegment, NoProbeBuffered
    <2> QED
      BY <1>1, <2>1 DEF IsrSegment
  <1>2. CASE IsrEmpty
    BY <1>2, PlainKept DEF IsrEmpty
  <1>3. CASE IsrProbeRead
    BY <1>3, PlainKept DEF IsrProbeRead
  <1>4. CASE IsrProbeWrite
    BY <1>4, PlainKept DEF IsrProbeWrite
  <1> QED
    BY <1>1, <1>2, <1>3, <1>4 DEF StepperIsr

\* Protocol_exec_rt_system moves no probing motion into another line's.
LEMMA ExecRtSystemPlain ==
  ASSUME TypeOK, ProbeBuffered, ExecRtSystem
  PROVE  ProbeBuffered'
PROOF
  <1> USE DEF ProbeBuffered, Probing, ServingPlaces, NestedCallers, At, Goto, CallRealtime, vars,
              sysVars, flagVars, motionVars, outputVars, controlVars, boundVars, historyVars
  <1>1. CASE RtNoAlarm
    BY <1>1, PlainKept DEF RtNoAlarm
  <1>2. CASE RtAlarm
    BY <1>2, PlainKept DEF RtAlarm
  <1>3. CASE RtCritical
    BY <1>3, PlainKept DEF RtCritical
  <1>4. CASE RtCriticalWait
    BY <1>4, PlainKept DEF RtCriticalWait
  <1>5. CASE RtSnap
    BY <1>5, PlainKept DEF RtSnap, StageAfterSnapshot, StageAfterHold, StageAfterStart,
       AfterRealtime, HoldFlags, TypeOK, ValuesOK, CallerPlaces
  <1>6. CASE RtHold
    BY <1>6, PlainKept DEF RtHold, ClearExec, StageAfterHold, StageAfterStart
  <1>7. CASE RtStartIgnored
    BY <1>7, PlainKept DEF RtStartIgnored, Carry, ClearExec, StageAfterStart
  <1>8. CASE RtStartSpindleRestore
    BY <1>8, PlainKept DEF RtStartSpindleRestore, Carry, ClearExec, StageAfterStart
  <1>9. CASE RtStartCycle
    BY <1>9, PlainKept DEF RtStartCycle
  <1>10. CASE RtWake
    <2>1. NoProbeBuffered => NoProbeBuffered'
      BY <1>10, PrepPlain DEF RtWake
    <2> QED
      BY <1>10, <2>1 DEF RtWake, StageAfterStart
  <1>11. CASE RtStartIdle
    BY <1>11, PlainKept DEF RtStartIdle, ClearExec, StageAfterStart
  <1>12. CASE RtStopHold
    BY <1>12, PlainKept DEF RtStopHold, ClearExec
  <1>13. CASE RtStopMotion
    <2>1. NoProbeBuffered => NoProbeBuffered'
      BY <1>13, PlainEmpty, PlainKept DEF RtStopMotion, JogFlush, ResetBuffers
    <2> QED
      BY <1>13, <2>1 DEF RtStopMotion
  <1>14. CASE RtOver
    <2>1. NoProbeBuffered => NoProbeBuffered'
      BY <1>14, PrepPlain, PlainKept DEF RtOver
    <2> QED
      BY <1>14, <2>1 DEF RtOver, AfterRealtime, TypeOK, ValuesOK, CallerPlaces
  <1> QED
    BY <1>1, <1>2, <1>3, <1>4, <1>5, <1>6, <1>7, <1>8, <1>9, <1>10, <1>11, <1>12, <1>13, <1>14 DEF ExecRtSystem

\* Protocol_exec_rt_suspend moves no probing motion into another line's.
LEMMA ExecRtSuspendPlain ==
  ASSUME TypeOK, ProbeBuffered, ExecRtSuspend
  PROVE  ProbeBuffered'
PROOF
  <1> USE DEF ProbeBuffered, Probing, ServingPlaces, NestedCallers, At, Goto, CallRealtime, vars,
              sysVars, flagVars, motionVars, outputVars, controlVars, boundVars, historyVars
  <1>1. CASE SuspendEnter
    BY <1>1, PlainKept DEF SuspendEnter
  <1>2. CASE SuspendExit
    BY <1>2, PlainKept DEF SuspendExit, TypeOK, ValuesOK, CallerPlaces
  <1>3. CASE SuspendWait
    BY <1>3, PlainKept DEF SuspendWait, NextPass, Suspended
  <1>4. CASE SuspendRetract
    BY <1>4, PlainKept DEF SuspendRetract, NextPass, Held, Suspended
  <1>5. CASE SuspendSleep
    BY <1>5, PlainKept DEF SuspendSleep, Held, Suspended
  <1>6. CASE SleepLoop
    BY <1>6, PlainKept DEF SleepLoop, TypeOK, ValuesOK, CallerPlaces
  <1>7. CASE SuspendDoor
    BY <1>7, PlainKept DEF SuspendDoor, NextPass, Held, Suspended
  <1>8. CASE RestoreSpindle
    BY <1>8, PlainKept DEF RestoreSpindle
  <1>9. CASE RestoreCoolant
    BY <1>9, PlainKept DEF RestoreCoolant
  <1>10. CASE DelayStep
    BY <1>10, PlainKept DEF DelayStep
  <1>11. CASE DelayEnd
    BY <1>11, PlainKept DEF DelayEnd
  <1>12. CASE RestoreDone
    BY <1>12, PlainKept DEF RestoreDone, Relay, NextPass, SetExec
  <1>13. CASE SpindleStopInitiate
    BY <1>13, PlainKept DEF SpindleStopInitiate, NextPass, FeedHeld, Held, Suspended
  <1>14. CASE SpindleStopRestore
    BY <1>14, PlainKept DEF SpindleStopRestore, Relay, NextPass, SetExec, FeedHeld, Held, Suspended
  <1>15. CASE SuspendIdle
    BY <1>15, PlainKept DEF SuspendIdle, NextPass, FeedHeld, Held, Suspended
  <1> QED
    BY <1>1, <1>2, <1>3, <1>4, <1>5, <1>6, <1>7, <1>8, <1>9, <1>10, <1>11, <1>12, <1>13, <1>14,
       <1>15 DEF ExecRtSuspend

\* The line dispatcher moves no probing motion into another line's.
LEMMA ExecuteLinePlain ==
  ASSUME TypeOK, ProbeBuffered, ExecuteLine
  PROVE  ProbeBuffered'
PROOF
  <1> USE DEF ProbeBuffered, Probing, ServingPlaces, NestedCallers, At, Goto, CallRealtime, vars,
              sysVars, flagVars, motionVars, outputVars, controlVars, boundVars, historyVars
  <1>1. CASE LineAbort
    BY <1>1, PlainKept DEF LineAbort, OnlyControl
  <1>2. CASE LineRefused
    BY <1>2, PlainKept DEF LineRefused, Line, OnlyControl
  <1>3. CASE LineMotion
    BY <1>3, PlainKept DEF LineMotion, Line, Gcode, OnlyControl
  <1>4. CASE LineSync
    BY <1>4, PlainKept DEF LineSync, Line, Gcode, OnlyControl
  <1>5. CASE LineUnsynced
    BY <1>5, PlainKept DEF LineUnsynced, Line, Gcode
  <1>6. CASE LinePinAsync
    BY <1>6, PlainKept DEF LinePinAsync, Line, Gcode, Realtime, OnlyControl
  <1>7. CASE LineUnlock
    BY <1>7, PlainKept DEF LineUnlock, Line
  <1>8. CASE LineSleep
    BY <1>8, PlainKept DEF LineSleep, Line, SetExec
  <1>9. CASE LineCheckOn
    BY <1>9, PlainKept DEF LineCheckOn, Line
  <1>10. CASE LineCheckOff
    BY <1>10, PlainKept DEF LineCheckOff, Line, mc_reset
  <1> QED
    BY <1>1, <1>2, <1>3, <1>4, <1>5, <1>6, <1>7, <1>8, <1>9, <1>10 DEF ExecuteLine

\* mc_line moves no probing motion into another line's.
LEMMA ExecuteMcLinePlain ==
  ASSUME TypeOK, ProbeBuffered, ExecuteMcLine
  PROVE  ProbeBuffered'
PROOF
  <1> USE DEF ProbeBuffered, Probing, ServingPlaces, NestedCallers, At, Goto, CallRealtime, vars,
              sysVars, flagVars, motionVars, outputVars, controlVars, boundVars, historyVars
  <1>1. CASE SoftCheck
    BY <1>1, PlainKept DEF SoftCheck, SetExec, Realtime
  <1>2. CASE SoftWait
    BY <1>2, PlainKept DEF SoftWait, Realtime, OnlyControl
  <1>3. CASE SoftReset
    BY <1>3, PlainKept DEF SoftReset, mc_reset
  <1>4. CASE SoftAlarm
    BY <1>4, PlainKept DEF SoftAlarm, Realtime
  <1>5. CASE McLine
    BY <1>5, PlainKept DEF McLine, Realtime, OnlyControl, McLineReturn
  <1>6. CASE McLineAbort
    BY <1>6, PlainKept DEF McLineAbort, OnlyControl, McLineReturn
  <1>7. CASE McLineFull
    BY <1>7, PlainKept DEF McLineFull, AutoCycleStart, SetExec, Realtime
  <1>8. CASE McLinePlan
    <2>1. CASE cmd = "probe"
      BY <1>8, <2>1 DEF McLinePlan, McLineReturn
    <2>2. CASE cmd # "probe"
      <3>1. NoProbeBuffered
        BY <1>8, <2>2 DEF McLinePlan
      <3>2. NoProbeBuffered'
        <4>1. CASE plan' = plan \o NewBlock(cmd) /\ UNCHANGED segs
          BY <2>2, <3>1, <4>1, NewBlockPlain DEF NoProbeBuffered
        <4>2. CASE UNCHANGED <<plan, segs>>
          BY <3>1, <4>2, PlainKept
        <4> QED
          BY <1>8, <4>1, <4>2 DEF McLinePlan
      <3> QED
        BY <3>2
    <2> QED
      BY <2>1, <2>2
  <1> QED
    BY <1>1, <1>2, <1>3, <1>4, <1>5, <1>6, <1>7, <1>8 DEF ExecuteMcLine

\* The buffer synchronisation moves no probing motion into another line's.
LEMMA ExecuteSyncPlain ==
  ASSUME TypeOK, ProbeBuffered, ExecuteSync
  PROVE  ProbeBuffered'
PROOF
  <1> USE DEF ProbeBuffered, Probing, ServingPlaces, NestedCallers, At, Goto, CallRealtime, vars,
              sysVars, flagVars, motionVars, outputVars, controlVars, boundVars, historyVars
  <1>1. CASE Sync
    BY <1>1, PlainKept DEF Sync, AutoCycleStart, SetExec, Realtime
  <1>2. CASE SyncTest
    BY <1>2, PlainKept DEF SyncTest, Realtime, OnlyControl
  <1>3. CASE SyncedSpindle
    BY <1>3, PlainKept DEF SyncedSpindle, Synced
  <1>4. CASE SyncedCoolant
    BY <1>4, PlainKept DEF SyncedCoolant, Synced
  <1>5. CASE DwellStep
    BY <1>5, PlainKept DEF DwellStep, Synced, Realtime, OnlyControl
  <1>6. CASE DwellEnd
    BY <1>6, PlainKept DEF DwellEnd, Synced, OnlyControl
  <1>7. CASE SyncedPause
    BY <1>7, PlainKept DEF SyncedPause, Synced, Realtime, SetExec
  <1>8. CASE SyncedEnd
    BY <1>8, PlainKept DEF SyncedEnd, Synced
  <1>9. CASE SyncedPin
    BY <1>9, PlainKept DEF SyncedPin, Synced, Realtime, OnlyControl
  <1>10. CASE PinWait
    BY <1>10, PlainKept DEF PinWait
  <1> QED
    BY <1>1, <1>2, <1>3, <1>4, <1>5, <1>6, <1>7, <1>8, <1>9, <1>10 DEF ExecuteSync

\* The probing cycle moves no probing motion into another line's.
LEMMA ExecuteProbePlain ==
  ASSUME TypeOK, ProbeBuffered, ExecuteProbe
  PROVE  ProbeBuffered'
PROOF
  <1> USE DEF ProbeBuffered, Probing, ServingPlaces, NestedCallers, At, Goto, CallRealtime, vars,
              sysVars, flagVars, motionVars, outputVars, controlVars, boundVars, historyVars
  <1>1. CASE ProbeAbort
    BY <1>1, PlainKept DEF ProbeAbort, Synced, OnlyControl
  <1>2. CASE ProbeFailInitial
    BY <1>2, PlainKept DEF ProbeFailInitial, Synced, Realtime
  <1>3. CASE ProbeLine
    BY <1>3, PlainKept DEF ProbeLine, Synced, OnlyControl
  <1>4. CASE ProbeStart
    BY <1>4, PlainKept DEF ProbeStart, SetExec, Realtime
  <1>5. CASE ProbeWait
    <2>1. CASE abort
      BY <1>5, <2>1 DEF ProbeWait, OnlyControl
    <2>2. CASE ~abort
      BY <1>5, <2>2, PlainKept DEF ProbeWait, Realtime, OnlyControl
    <2> QED
      BY <2>1, <2>2
  <1>6. CASE ProbeDone
    BY <1>6, PlainKept DEF ProbeDone, Realtime
  <1>7. CASE ProbeEnd
    BY <1>7, PlainEmpty DEF ProbeEnd, ResetBuffers
  <1> QED
    BY <1>1, <1>2, <1>3, <1>4, <1>5, <1>6, <1>7 DEF ExecuteProbe
\* Every step keeps a probing motion with its line.
LEMMA StepPlain ==
  ASSUME TypeOK, ProbeBuffered, [Next]_vars
  PROVE  ProbeBuffered'
PROOF
  <1> USE DEF ProbeBuffered, Probing, ServingPlaces, NestedCallers, At, Goto,
              vars, sysVars, motionVars, controlVars
  <1>1. CASE Boot
    BY <1>1, PlainEmpty DEF Boot, ResetBuffers
  <1>2. CASE LoopIdle \/ LoopEnd \/ JogStart
    BY <1>2, PlainKept DEF LoopIdle, LoopEnd, JogStart, OnlyControl, Realtime, CallRealtime
  <1>3. CASE JogWake
    BY <1>3, PrepPlain DEF JogWake
  <1>4. CASE Main
    BY <1>1, <1>2, <1>3, <1>4, ExecRtSystemPlain, ExecRtSuspendPlain, ExecuteLinePlain,
       ExecuteMcLinePlain, ExecuteSyncPlain, ExecuteProbePlain DEF Main
  <1>5. ASSUME NEW k \in LineKinds, ReadLine(k) PROVE ProbeBuffered'
    BY <1>5, PlainKept DEF ReadLine
  <1>6. CASE PinReached
    BY <1>6, PlainKept DEF PinReached, CallRealtime, OnlyControl
  <1>7. ASSUME NEW c \in RtInputs, RtCommand(c) PROVE ProbeBuffered'
    BY <1>7, PlainKept DEF RtCommand
  <1>8. CASE UNCHANGED vars
    BY <1>8, PlainKept
  <1> QED
    BY <1>4, <1>5, <1>6, <1>7, <1>8, StepperIsrPlain DEF Next, Environment

\* Whatever interrupts a probing cycle, a failed probe, a hold, a door, a reset,
\* no other line ever executes what is left of its motion.
THEOREM ProbeSafety == Spec => []ProbeMotionContained
PROOF
  <1>1. Init => ProbeBuffered
    BY EmptySeq DEF Init, ProbeBuffered, NoProbeBuffered
  <1>2. TypeOK /\ ProbeBuffered /\ [Next]_vars => ProbeBuffered'
    BY StepPlain
  <1>3. ProbeBuffered => ProbeMotionContained
    <2>1. ASSUME segs \in Seq(PlainSegment), segs # <<>> PROVE Head(segs).kind # "probe"
      <3>1. Head(segs) \in PlainSegment
        BY <2>1, HeadTailProperties
      <3>2. \A r \in PlainSegment : r.kind # "probe"
        BY Zenon DEF PlainSegment
      <3> QED
        BY <3>1, <3>2
    <2> QED
      BY <2>1 DEF ProbeBuffered, Probing, NoProbeBuffered, ProbeMotionContained
  <1> QED
    BY <1>1, <1>2, <1>3, TypeCorrect, PTL DEF Spec

-----------------------------------------------------------------------------
\* A buffer that is kept holds no jog motion either.
LEMMA JogKept ==
  ASSUME UNCHANGED <<plan, segs>>
  PROVE  NoJogBuffered' = NoJogBuffered
BY DEF NoJogBuffered

\* Empty buffers hold none.
LEMMA JogEmpty ==
  ASSUME plan' = <<>>, segs' = <<>>
  PROVE  NoJogBuffered'
BY EmptySeq DEF NoJogBuffered

\* The segment generator brings none in.
LEMMA PrepJog ==
  ASSUME TypeOK, NoJogBuffered, NEW control, st_prep_buffer(control)
  PROVE  NoJogBuffered'
BY PrepOf DEF NoJogBuffered

\* Nor does a new block of a line that is no jog.
LEMMA NewBlockJog ==
  ASSUME TypeOK, cmd # "jog", NoJogBuffered
  PROVE  plan \o NewBlock(cmd) \in Seq(NonJogSegment)
PROOF
  <1>1. modal.spindle \in BOOLEAN /\ cmd \in AllLines \ {"jog"}
    BY Zenon DEF TypeOK, BooleansOK, ValuesOK, Accessories
  <1>2. [kind |-> cmd, spindle |-> modal.spindle] \in NonJogSegment
    BY <1>1, Zenon DEF NonJogSegment
  <1>3. NewBlock(cmd) \in [1 .. SegsPerBlock -> NonJogSegment]
    BY <1>2, Zenon DEF NewBlock
  <1>4. NewBlock(cmd) \in Seq(NonJogSegment)
    BY <1>3, BuffersAssumption
  <1> QED
    BY <1>4, ConcatProperties DEF NoJogBuffered

\* The stepper interrupt brings no jog motion back.
LEMMA StepperIsrJog ==
  ASSUME TypeOK, JogInv, StepperIsr
  PROVE  JogInv'
PROOF
  <1> USE DEF JogInv, CancelAgrees, SuspendServed, ServingPlaces, NestedCallers, At, Goto,
              CallRealtime, vars, sysVars, flagVars, motionVars, outputVars, controlVars,
              boundVars, historyVars
  <1>1. CASE IsrSegment
    <2>1. NoJogBuffered => NoJogBuffered'
      BY <1>1, HeadTailProperties DEF IsrSegment, NoJogBuffered
    <2> QED
      BY <1>1, <2>1 DEF IsrSegment
  <1>2. CASE IsrEmpty
    BY <1>2, JogKept DEF IsrEmpty
  <1>3. CASE IsrProbeRead
    BY <1>3, JogKept DEF IsrProbeRead
  <1>4. CASE IsrProbeWrite
    BY <1>4, JogKept DEF IsrProbeWrite
  <1> QED
    BY <1>1, <1>2, <1>3, <1>4 DEF StepperIsr

\* Protocol_exec_rt_system ends a cancel only by flushing the jog.
LEMMA ExecRtSystemJog ==
  ASSUME TypeOK, JogInv, ExecRtSystem
  PROVE  JogInv'
PROOF
  <1> USE DEF JogInv, CancelAgrees, SuspendServed, ServingPlaces, NestedCallers, At, Goto,
              CallRealtime, vars, sysVars, flagVars, motionVars, outputVars, controlVars,
              boundVars, historyVars
  <1>1. CASE RtNoAlarm
    BY <1>1, JogKept DEF RtNoAlarm
  <1>2. CASE RtAlarm
    BY <1>2, JogKept DEF RtAlarm
  <1>3. CASE RtCritical
    BY <1>3, JogKept DEF RtCritical
  <1>4. CASE RtCriticalWait
    BY <1>4, JogKept DEF RtCriticalWait
  <1>5. CASE RtSnap
    BY <1>5, JogKept
    DEF RtSnap, StageAfterSnapshot, StageAfterHold, StageAfterStart, AfterRealtime, TypeOK, ValuesOK, CallerPlaces
  <1>6. CASE RtHold
    <2>1. /\ UNCHANGED <<plan, segs, via, ret, abort>>
          /\ pc' \in {"rt_start", "rt_stop", "rt_over"}
          /\ past' = IF "JOG_CANCEL" \in suspend' THEN past \cup {"CANCELLED"} ELSE past
      BY <1>6 DEF RtHold, StageAfterHold, StageAfterStart
    <2>2. ~abort => CancelAgrees'
      BY <1>6 DEF RtHold, HoldAllowed, HoldBegins, DoorSuspend, DoorState, HoldSuspend, HoldState,
         TypeOK, ValuesOK, States
    <2>3. ~abort /\ "JOG_CANCEL" \in suspend => "JOG_CANCEL" \in suspend'
      BY <1>6 DEF RtHold, HoldAllowed, HoldBegins, DoorSuspend, HoldSuspend
    <2> QED
      BY <2>1, <2>2, <2>3, JogKept, Zenon
  <1>7. CASE RtStartIgnored
    BY <1>7, JogKept DEF RtStartIgnored, Carry, StageAfterStart
  <1>8. CASE RtStartSpindleRestore
    BY <1>8, JogKept DEF RtStartSpindleRestore, Carry, StageAfterStart
  <1>9. CASE RtStartCycle
    BY <1>9, JogKept DEF RtStartCycle, StartAllowed, DoorRestored, DoorClosed
  <1>10. CASE RtWake
    BY <1>10, PrepJog DEF RtWake, StageAfterStart
  <1>11. CASE RtStartIdle
    BY <1>11, JogKept DEF RtStartIdle, StartAllowed, DoorRestored, DoorClosed, StageAfterStart
  <1>12. CASE RtStopHold
    BY <1>12, JogKept DEF RtStopHold, StopHolds
  <1>13. CASE RtStopMotion
    BY <1>13, JogKept, JogEmpty DEF RtStopMotion, JogFlush, ResetBuffers
  <1>14. CASE RtOver
    <2>1. NoJogBuffered => NoJogBuffered'
      BY <1>14, PrepJog, JogKept DEF RtOver
    <2> QED
      BY <1>14, <2>1 DEF RtOver, AfterRealtime, TypeOK, ValuesOK, CallerPlaces
  <1> QED
    BY <1>1, <1>2, <1>3, <1>4, <1>5, <1>6, <1>7, <1>8, <1>9, <1>10, <1>11, <1>12, <1>13, <1>14
    DEF ExecRtSystem

\* Protocol_exec_rt_suspend keeps a cancel, and what it flushed stays out.
LEMMA ExecRtSuspendJog ==
  ASSUME TypeOK, JogInv, ExecRtSuspend
  PROVE  JogInv'
PROOF
  <1> USE DEF JogInv, CancelAgrees, SuspendServed, ServingPlaces, NestedCallers, At, Goto,
              CallRealtime, vars, sysVars, flagVars, motionVars, outputVars, controlVars,
              boundVars, historyVars
  <1>1. CASE SuspendEnter
    BY <1>1, JogKept DEF SuspendEnter, TypeOK, ValuesOK, CallerPlaces
  <1>2. CASE SuspendExit
    BY <1>2, JogKept DEF SuspendExit, TypeOK, ValuesOK, CallerPlaces
  <1>3. CASE SuspendWait
    BY <1>3, JogKept DEF SuspendWait, NextPass, FeedHeld, Held, Suspended
  <1>4. CASE SuspendRetract
    BY <1>4, JogKept DEF SuspendRetract, NextPass, FeedHeld, Held, Suspended
  <1>5. CASE SuspendSleep
    BY <1>5, JogKept DEF SuspendSleep, NextPass, FeedHeld, Held, Suspended
  <1>6. CASE SleepLoop
    BY <1>6, JogKept DEF SleepLoop, TypeOK, ValuesOK, CallerPlaces
  <1>7. CASE SuspendDoor
    BY <1>7, JogKept DEF SuspendDoor, NextPass, FeedHeld, Held, Suspended
  <1>8. CASE RestoreSpindle
    BY <1>8, JogKept DEF RestoreSpindle, TypeOK, ValuesOK, CallerPlaces
  <1>9. CASE RestoreCoolant
    BY <1>9, JogKept DEF RestoreCoolant, TypeOK, ValuesOK, CallerPlaces
  <1>10. CASE DelayStep
    BY <1>10, JogKept DEF DelayStep, TypeOK, ValuesOK, CallerPlaces
  <1>11. CASE DelayEnd
    BY <1>11, JogKept DEF DelayEnd, TypeOK, ValuesOK, CallerPlaces
  <1>12. CASE RestoreDone
    BY <1>12, JogKept DEF RestoreDone, Relay, NextPass, FeedHeld, Held, Suspended
  <1>13. CASE SpindleStopInitiate
    BY <1>13, JogKept DEF SpindleStopInitiate, NextPass, FeedHeld, Held, Suspended
  <1>14. CASE SpindleStopRestore
    BY <1>14, JogKept DEF SpindleStopRestore, Relay, NextPass, FeedHeld, Held, Suspended
  <1>15. CASE SuspendIdle
    BY <1>15, JogKept DEF SuspendIdle, NextPass, FeedHeld, Held, Suspended
  <1> QED
    BY <1>1, <1>2, <1>3, <1>4, <1>5, <1>6, <1>7, <1>8, <1>9, <1>10, <1>11, <1>12, <1>13, <1>14, <1>15
    DEF ExecRtSuspend

\* A line finds no cancel pending.
LEMMA ExecuteLineJog ==
  ASSUME TypeOK, JogInv, ExecuteLine
  PROVE  JogInv'
PROOF
  <1> USE DEF JogInv, CancelAgrees, SuspendServed, ServingPlaces, NestedCallers, At, Goto,
              CallRealtime, vars, sysVars, flagVars, motionVars, outputVars, controlVars,
              boundVars, historyVars
  <1>1. CASE LineAbort
    BY <1>1, JogKept DEF LineAbort, OnlyControl
  <1>2. CASE LineRefused
    BY <1>2, JogKept DEF LineRefused, Line, OnlyControl
  <1>3. CASE LineMotion
    BY <1>3, JogKept DEF LineMotion, Line, Gcode, OnlyControl
  <1>4. CASE LineSync
    BY <1>4, JogKept DEF LineSync, Line, Gcode, OnlyControl
  <1>5. CASE LineUnsynced
    BY <1>5, JogKept DEF LineUnsynced, Line, Gcode
  <1>6. CASE LinePinAsync
    BY <1>6, JogKept DEF LinePinAsync, Line, Gcode, Realtime, OnlyControl
  <1>7. CASE LineUnlock
    BY <1>7, JogKept DEF LineUnlock, Line
  <1>8. CASE LineSleep
    BY <1>8, JogKept DEF LineSleep, Line
  <1>9. CASE LineCheckOn
    BY <1>9, JogKept DEF LineCheckOn, Line
  <1>10. CASE LineCheckOff
    BY <1>10, JogKept DEF LineCheckOff, Line
  <1> QED
    BY <1>1, <1>2, <1>3, <1>4, <1>5, <1>6, <1>7, <1>8, <1>9, <1>10
    DEF ExecuteLine

\* mc_line plans a jog motion only for a new jog.
LEMMA ExecuteMcLineJog ==
  ASSUME TypeOK, JogInv, ExecuteMcLine
  PROVE  JogInv'
PROOF
  <1> USE DEF JogInv, CancelAgrees, SuspendServed, ServingPlaces, NestedCallers, At, Goto,
              CallRealtime, vars, sysVars, flagVars, motionVars, outputVars, controlVars,
              boundVars, historyVars
  <1>1. CASE SoftCheck
    BY <1>1, JogKept DEF SoftCheck, Realtime
  <1>2. CASE SoftWait
    BY <1>2, JogKept DEF SoftWait, Realtime, OnlyControl
  <1>3. CASE SoftReset
    BY <1>3, JogKept DEF SoftReset, Realtime
  <1>4. CASE SoftAlarm
    BY <1>4, JogKept DEF SoftAlarm, Realtime
  <1>5. CASE McLine
    BY <1>5, JogKept DEF McLine, Realtime, McLineReturn, OnlyControl
  <1>6. CASE McLineAbort
    BY <1>6, JogKept DEF McLineAbort, McLineReturn, OnlyControl
  <1>7. CASE McLineFull
    BY <1>7, JogKept DEF McLineFull, Realtime
  <1>8. CASE McLinePlan
    <2>1. ("CANCELLED" \in past' /\ NoJogBuffered) => NoJogBuffered'
      BY <1>8, NewBlockJog DEF McLinePlan, NoJogBuffered
    <2>2. "CANCELLED" \in past' => "CANCELLED" \in past
      BY <1>8 DEF McLinePlan
    <2> QED
      BY <1>8, <2>1, <2>2 DEF McLinePlan, McLineReturn
  <1> QED
    BY <1>1, <1>2, <1>3, <1>4, <1>5, <1>6, <1>7, <1>8
    DEF ExecuteMcLine

\* The buffer synchronisation brings no jog motion back.
LEMMA ExecuteSyncJog ==
  ASSUME TypeOK, JogInv, ExecuteSync
  PROVE  JogInv'
PROOF
  <1> USE DEF JogInv, CancelAgrees, SuspendServed, ServingPlaces, NestedCallers, At, Goto,
              CallRealtime, vars, sysVars, flagVars, motionVars, outputVars, controlVars,
              boundVars, historyVars
  <1>1. CASE Sync
    BY <1>1, JogKept DEF Sync, Realtime
  <1>2. CASE SyncTest
    BY <1>2, JogKept DEF SyncTest, Realtime, OnlyControl
  <1>3. CASE SyncedSpindle
    BY <1>3, JogKept DEF SyncedSpindle, Synced
  <1>4. CASE SyncedCoolant
    BY <1>4, JogKept DEF SyncedCoolant, Synced
  <1>5. CASE DwellStep
    BY <1>5, JogKept DEF DwellStep, Synced, Realtime, OnlyControl
  <1>6. CASE DwellEnd
    BY <1>6, JogKept DEF DwellEnd, Synced, OnlyControl
  <1>7. CASE SyncedPause
    BY <1>7, JogKept DEF SyncedPause, Synced, Realtime
  <1>8. CASE SyncedEnd
    BY <1>8, JogKept DEF SyncedEnd, Synced
  <1>9. CASE SyncedPin
    BY <1>9, JogKept DEF SyncedPin, Synced, Realtime, OnlyControl
  <1>10. CASE PinWait
    BY <1>10, JogKept DEF PinWait, Synced
  <1> QED
    BY <1>1, <1>2, <1>3, <1>4, <1>5, <1>6, <1>7, <1>8, <1>9, <1>10
    DEF ExecuteSync

\* Nor does the probing cycle.
LEMMA ExecuteProbeJog ==
  ASSUME TypeOK, JogInv, ExecuteProbe
  PROVE  JogInv'
PROOF
  <1> USE DEF JogInv, CancelAgrees, SuspendServed, ServingPlaces, NestedCallers, At, Goto,
              CallRealtime, vars, sysVars, flagVars, motionVars, outputVars, controlVars,
              boundVars, historyVars
  <1>1. CASE ProbeAbort
    BY <1>1, JogKept DEF ProbeAbort, Synced, OnlyControl
  <1>2. CASE ProbeFailInitial
    BY <1>2, JogKept DEF ProbeFailInitial, Synced, Realtime
  <1>3. CASE ProbeLine
    BY <1>3, JogKept DEF ProbeLine, Synced, OnlyControl
  <1>4. CASE ProbeStart
    BY <1>4, JogKept DEF ProbeStart, Realtime
  <1>5. CASE ProbeWait
    BY <1>5, JogKept DEF ProbeWait, Realtime, OnlyControl
  <1>6. CASE ProbeDone
    BY <1>6, JogKept DEF ProbeDone, Realtime
  <1>7. CASE ProbeEnd
    BY <1>7, JogEmpty DEF ProbeEnd, ResetBuffers
  <1> QED
    BY <1>1, <1>2, <1>3, <1>4, <1>5, <1>6, <1>7
    DEF ExecuteProbe

\* Every step keeps what is left of a cancelled jog out of the buffers.
LEMMA StepJog ==
  ASSUME TypeOK, JogInv, [Next]_vars
  PROVE  JogInv'
PROOF
  <1> USE DEF JogInv, CancelAgrees, SuspendServed, ServingPlaces, NestedCallers, At, Goto,
              CallRealtime, vars, sysVars, flagVars, motionVars, outputVars, controlVars,
              boundVars, historyVars
  <1>1. CASE Boot
    BY <1>1 DEF Boot
  <1>2. CASE LoopIdle \/ LoopEnd \/ JogStart
    BY <1>2, JogKept DEF LoopIdle, LoopEnd, JogStart, Realtime, OnlyControl
  <1>3. CASE JogWake
    BY <1>3, PrepJog DEF JogWake
  <1>4. CASE Main
    BY <1>1, <1>2, <1>3, <1>4, ExecRtSystemJog, ExecRtSuspendJog, ExecuteLineJog,
       ExecuteMcLineJog, ExecuteSyncJog, ExecuteProbeJog DEF Main
  <1>5. ASSUME NEW k \in LineKinds, ReadLine(k) PROVE JogInv'
    BY <1>5, JogKept DEF ReadLine
  <1>6. CASE PinReached
    BY <1>6, JogKept DEF PinReached, OnlyControl
  <1>7. ASSUME NEW c \in RtInputs, RtCommand(c) PROVE JogInv'
    BY <1>7, JogKept DEF RtCommand
  <1>8. CASE UNCHANGED vars
    BY <1>8, JogKept
  <1> QED
    BY <1>4, <1>5, <1>6, <1>7, <1>8, StepperIsrJog DEF Next, Environment

\* However a jog cancel comes to its end, by the stop of its deceleration, under a
\* door, a second hold, an alarm or a sleep, nothing of the jog is left in the
\* planner or the segment buffer to run with a later motion.
THEOREM JogCancelSafety == Spec => []JogContained
PROOF
  <1>1. Init => JogInv
    BY DEF Init, JogInv, SuspendServed, CancelAgrees
  <1>2. TypeOK /\ JogInv /\ [Next]_vars => JogInv'
    BY StepJog
  <1>3. JogInv => JogContained
    <2>1. ASSUME NEW s, s \in Seq(NonJogSegment), NEW i \in 1 .. Len(s)
          PROVE  s[i].kind # "jog"
      <3>1. s[i] \in NonJogSegment
        BY <2>1, ElementOfSeq
      <3>2. \A r \in NonJogSegment : r.kind # "jog"
        BY Zenon DEF NonJogSegment
      <3> QED
        BY <3>1, <3>2
    <2> QED
      BY <2>1, Zenon DEF JogInv, NoJogBuffered, JogContained
  <1> QED
    BY <1>1, <1>2, <1>3, TypeCorrect, PTL DEF Spec

-----------------------------------------------------------------------------
\* What an automatic cycle start may start.

\* mc_reset raises a reset at most, and never the soft limit's alarm.
LEMMA McResetFlags ==
  ASSUME mc_reset
  PROVE  /\ exec_alarm' = "SOFT_LIMIT" => exec_alarm = "SOFT_LIMIT"
         /\ exec_state' = exec_state \/ exec_state' = exec_state \cup {"RESET"}
BY DEF mc_reset, AbortAlarm

\* The stepper interrupt keeps an automatic start from what is suspended.
LEMMA StepperIsrUser ==
  ASSUME TypeOK, UserInv, StepperIsr
  PROVE  UserInv'
PROOF
  <1> USE DEF NoCopy, StartBlocked, HoldFlags, UserInv, PinFree, CopyAgrees, AbortLasts,
              AutoStart, StartsAutomatically, StartTaken, Relayed, FindsNothing, Repeated, UnderRestore,
              RestorePlaces, ServingPlaces, NestedCallers, At,
              Goto, CallRealtime, vars, sysVars, flagVars, motionVars, outputVars, controlVars,
              boundVars, historyVars
  <1>1. CASE IsrSegment
    BY <1>1 DEF IsrSegment
  <1>2. CASE IsrEmpty
    BY <1>2 DEF IsrEmpty
  <1>3. CASE IsrProbeRead
    BY <1>3 DEF IsrProbeRead, NoCopy
  <1>4. CASE IsrProbeWrite
    BY <1>4 DEF IsrProbeWrite, NoCopy, StartBlocked, HoldFlags
  <1> QED
    BY <1>1, <1>2, <1>3, <1>4 DEF StepperIsr

\* Protocol_exec_rt_system keeps an automatic start from what is suspended.
LEMMA ExecRtSystemUser ==
  ASSUME TypeOK, UserInv, ExecRtSystem
  PROVE  UserInv'
PROOF
  <1> USE DEF NoCopy, StartBlocked, HoldFlags, UserInv, PinFree, CopyAgrees, AbortLasts,
              AutoStart, StartsAutomatically, StartTaken, Relayed, FindsNothing, Repeated, UnderRestore,
              RestorePlaces, ServingPlaces, NestedCallers, At,
              Goto, CallRealtime, vars, sysVars, flagVars, motionVars, outputVars, controlVars,
              boundVars, historyVars
  <1>1. CASE RtNoAlarm
    BY <1>1 DEF RtNoAlarm
  <1>2. CASE RtAlarm
    BY <1>2 DEF RtAlarm, StartBlocked
  <1>3. CASE RtCritical
    BY <1>3 DEF RtCritical
  <1>4. CASE RtCriticalWait
    BY <1>4 DEF RtCriticalWait
  <1>5. CASE RtSnap
    BY <1>5 DEF RtSnap, StageAfterSnapshot, StageAfterHold, StageAfterStart, AfterRealtime,
       HoldFlags, StartBlocked, TypeOK, ValuesOK, CallerPlaces
  <1>6. CASE RtHold
    <2>1. ~abort /\ pc = "rt_hold" /\ isr_copy = NoCopy
      BY <1>6 DEF RtHold
    <2> HIDE DEF Relayed, Repeated
    <2>4. /\ past' = past \/ past' = past \cup {"CANCELLED"}
          /\ UNCHANGED <<spindle_stop_ovr, via>>
          /\ pc' \in {"rt_start", "rt_stop", "rt_over"}
      BY <1>6 DEF RtHold, StageAfterHold, StageAfterStart
    <2>5. "INITIATE_RESTORE" \in suspend' =>
            /\ "INITIATE_RESTORE" \in suspend
            /\ "RESTORE_COMPLETE" \in suspend => "RESTORE_COMPLETE" \in suspend'
      BY <1>6 DEF RtHold, DoorSuspend, HoldSuspend
    <2>6. Relayed => Relayed'
      BY <2>1, <2>4, <2>5 DEF Relayed, Repeated
    <2>7. Repeated' = Repeated
      BY <2>4 DEF Repeated
    <2>2. CASE StartBlocked
      BY <1>6, <2>1, <2>2, <2>6, <2>7 DEF RtHold, ClearExec, StageAfterHold, StageAfterStart
    <2>3. CASE "SLEEP" \in rt_exec
      <3>1. /\ state' = "SLEEP"
            /\ UNCHANGED <<abort, exec_alarm, rt_exec, rt_user_start, isr_copy, via, ret, cmd>>
            /\ pc' = StageAfterHold(rt_exec)
        BY <1>6, <2>3 DEF RtHold, ClearExec
      <3>2. AutoStart' => AutoStart /\ "CYCLE_START" \in rt_exec
        BY <1>6, <2>1 DEF RtHold, ClearExec
      <3>3. "RESET" \in exec_state' <=> "RESET" \in exec_state
        BY <1>6 DEF RtHold, ClearExec
      <3> QED
        BY <2>1, <2>6, <2>7, <3>1, <3>2, <3>3 DEF StageAfterHold, StageAfterStart
    <2> QED
      BY <2>1, <2>2, <2>3
  <1>7. CASE RtStartIgnored
    <2> HIDE DEF Relayed, Repeated
    <2>1. /\ pc = "rt_start" /\ ~abort /\ UNCHANGED <<spindle_stop_ovr, via>>
          /\ pc' \in {"rt_stop", "rt_over"}
      BY <1>7 DEF RtStartIgnored, StageAfterStart
    <2>2. Repeated' = Repeated
      BY <1>7 DEF RtStartIgnored, Carry, Repeated
    <2>3. ASSUME UNCHANGED <<suspend, past>> PROVE Relayed'
      BY <2>1, <2>2, <2>3 DEF Relayed
    <2>4. ASSUME ~StartBlocked, DoorClosed, "RETRACT_COMPLETE" \in suspend,
                 suspend' = suspend \cup {"INITIATE_RESTORE"},
                 Carry("INITIATE_RESTORE")
          PROVE  Relayed'
      <3>1. rt_user_start \/ Repeated
        BY <2>1, <2>4 DEF DoorClosed, TypeOK, BooleansOK
      <3>2. "INITIATE_RESTORE" \in past' \/ Repeated
        BY <2>4, <3>1 DEF Carry
      <3>3. "RESTORE_CYCLE" \in past => "RESTORE_CYCLE" \in past'
        BY <2>4 DEF Carry
      <3> QED
        BY <2>1, <2>2, <3>2, <3>3 DEF Relayed
    <2>5. Relayed'
      BY <1>7, <2>3, <2>4 DEF RtStartIgnored
    <2>6. suspend = {} => suspend' = {}
      BY <1>7 DEF RtStartIgnored
    <2> QED
      BY <1>7, <2>1, <2>2, <2>5, <2>6 DEF RtStartIgnored, ClearExec
  <1>8. CASE RtStartSpindleRestore
    <2> HIDE DEF Relayed, Repeated
    <2>1. /\ pc = "rt_start" /\ ~abort /\ UNCHANGED <<suspend, via>>
          /\ pc' \in {"rt_stop", "rt_over"}
          /\ Carry("RESTORE_CYCLE")
      BY <1>8 DEF RtStartSpindleRestore, StageAfterStart
    <2>2. Repeated' = Repeated
      BY <2>1 DEF Carry, Repeated
    <2>3. rt_user_start \/ Repeated
      BY <1>8, <2>1 DEF RtStartSpindleRestore, SpindleStopped, StartAllowed, DoorRestored,
         DoorClosed, TypeOK, BooleansOK
    <2>4. "RESTORE_CYCLE" \in past' \/ Repeated
      BY <2>1, <2>3 DEF Carry
    <2>5. "INITIATE_RESTORE" \in past => "INITIATE_RESTORE" \in past'
      BY <2>1 DEF Carry
    <2>6. Relayed => Relayed'
      BY <2>1, <2>2, <2>4, <2>5 DEF Relayed
    <2> QED
      BY <1>8, <2>1, <2>2, <2>6 DEF RtStartSpindleRestore, ClearExec
  <1>9. CASE RtStartCycle
    BY <1>9 DEF RtStartCycle, StartAllowed
  <1>10. CASE RtWake
    BY <1>10 DEF RtWake, ClearExec, StageAfterStart
  <1>11. CASE RtStartIdle
    BY <1>11 DEF RtStartIdle, ClearExec, StageAfterStart
  <1>12. CASE RtStopHold
    BY <1>12 DEF RtStopHold, ClearExec
  <1>13. CASE RtStopMotion
    BY <1>13 DEF RtStopMotion, ClearExec, JogFlush, ResetBuffers
  <1>14. CASE RtOver
    <2> HIDE DEF Relayed, Repeated
    <2>1. /\ past' = past /\ UNCHANGED <<suspend, via>>
          /\ "RESTORE_CYCLE" \in spindle_stop_ovr' => "RESTORE_CYCLE" \in spindle_stop_ovr
      BY <1>14 DEF RtOver, SpindleStopOverride
    <2>2. UnderRestore' => UnderRestore
      BY <1>14 DEF RtOver, AfterRealtime, TypeOK, ValuesOK, CallerPlaces
    <2>3. Repeated' = Repeated
      BY <2>1 DEF Repeated
    <2>4. Relayed => Relayed'
      BY <2>1, <2>2, <2>3 DEF Relayed
    <2> QED
      BY <1>14, <2>3, <2>4 DEF RtOver, AfterRealtime, TypeOK, ValuesOK, CallerPlaces
  <1> QED
    BY <1>1, <1>2, <1>3, <1>4, <1>5, <1>6, <1>7, <1>8, <1>9, <1>10, <1>11, <1>12, <1>13, <1>14 DEF ExecRtSystem

\* Protocol_exec_rt_suspend keeps an automatic start from what is suspended.
LEMMA ExecRtSuspendUser ==
  ASSUME TypeOK, UserInv, ExecRtSuspend
  PROVE  UserInv'
PROOF
  <1> USE DEF NoCopy, StartBlocked, HoldFlags, UserInv, PinFree, CopyAgrees, AbortLasts,
              AutoStart, StartsAutomatically, StartTaken, Relayed, FindsNothing, Repeated, UnderRestore,
              RestorePlaces, ServingPlaces, NestedCallers, At,
              Goto, CallRealtime, vars, sysVars, flagVars, motionVars, outputVars, controlVars,
              boundVars, historyVars
  <1>1. CASE SuspendEnter
    BY <1>1 DEF SuspendEnter
  <1>2. CASE SuspendExit
    BY <1>2 DEF SuspendExit, TypeOK, ValuesOK, CallerPlaces
  <1>3. CASE SuspendWait
    BY <1>3 DEF SuspendWait, NextPass, Suspended
  <1>4. CASE SuspendRetract
    BY <1>4 DEF SuspendRetract, NextPass, Held, Suspended
  <1>5. CASE SuspendSleep
    BY <1>5 DEF SuspendSleep, Held, Suspended
  <1>6. CASE SleepLoop
    BY <1>6 DEF SleepLoop, TypeOK, ValuesOK, CallerPlaces
  <1>7. CASE SuspendDoor
    BY <1>7 DEF SuspendDoor, NextPass, Held, Suspended
  <1>8. CASE RestoreSpindle
    BY <1>8 DEF RestoreSpindle
  <1>9. CASE RestoreCoolant
    BY <1>9 DEF RestoreCoolant
  <1>10. CASE DelayStep
    BY <1>10 DEF DelayStep
  <1>11. CASE DelayEnd
    BY <1>11 DEF DelayEnd
  <1>12. CASE RestoreDone
    BY <1>12 DEF RestoreDone, Relay, NextPass, SetExec
  <1>13. CASE SpindleStopInitiate
    BY <1>13 DEF SpindleStopInitiate, NextPass, FeedHeld, Held, Suspended
  <1>14. CASE SpindleStopRestore
    <2> HIDE DEF Relayed, Repeated
    <2>1. /\ pc = "suspend" /\ pc' = "rt_alarm" /\ via' = "suspend" /\ ~abort
          /\ UNCHANGED suspend /\ spindle_stop_ovr' = {}
          /\ past' = past \/ past' = past \ {"RESTORE_CYCLE"}
      BY <1>14 DEF SpindleStopRestore, Relay, NextPass, FeedHeld, Held, Suspended
    <2>2. Repeated' = Repeated
      BY <2>1 DEF Repeated
    <2>3. Relayed => Relayed'
      BY <2>1, <2>2 DEF Relayed
    <2>4. CASE UNCHANGED <<flagVars, user_start, past>>
      BY <1>14, <2>1, <2>2, <2>3, <2>4 DEF SpindleStopRestore, NextPass
    <2>5. CASE "RESTORE_CYCLE" \in spindle_stop_ovr /\ Relay("RESTORE_CYCLE")
      <3>1. CASE "RESTORE_CYCLE" \in past
        BY <1>14, <2>1, <2>2, <2>3, <2>5, <3>1 DEF SpindleStopRestore, NextPass, Relay, SetExec
      <3>2. CASE Repeated
        BY <1>14, <2>1, <2>2, <2>3, <2>5, <3>2 DEF SpindleStopRestore, NextPass, Relay, SetExec
      <3> QED
        BY <2>1, <2>5, <3>1, <3>2 DEF Relayed
    <2> QED
      BY <1>14, <2>4, <2>5 DEF SpindleStopRestore
  <1>15. CASE SuspendIdle
    BY <1>15 DEF SuspendIdle, NextPass, FeedHeld, Held, Suspended
  <1> QED
    BY <1>1, <1>2, <1>3, <1>4, <1>5, <1>6, <1>7, <1>8, <1>9, <1>10, <1>11, <1>12, <1>13, <1>14,
       <1>15 DEF ExecRtSuspend

\* The line dispatcher keeps an automatic start from what is suspended.
LEMMA ExecuteLineUser ==
  ASSUME TypeOK, UserInv, ExecuteLine
  PROVE  UserInv'
PROOF
  <1> USE DEF NoCopy, StartBlocked, HoldFlags, UserInv, PinFree, CopyAgrees, AbortLasts,
              AutoStart, StartsAutomatically, StartTaken, Relayed, FindsNothing, Repeated, UnderRestore,
              RestorePlaces, ServingPlaces, NestedCallers, At,
              Goto, CallRealtime, vars, sysVars, flagVars, motionVars, outputVars, controlVars,
              boundVars, historyVars
  <1>1. CASE LineAbort
    BY <1>1 DEF LineAbort, OnlyControl
  <1>2. CASE LineRefused
    BY <1>2 DEF LineRefused, Line, OnlyControl
  <1>3. CASE LineMotion
    BY <1>3 DEF LineMotion, Line, Gcode, OnlyControl
  <1>4. CASE LineSync
    BY <1>4 DEF LineSync, Line, Gcode, OnlyControl
  <1>5. CASE LineUnsynced
    BY <1>5 DEF LineUnsynced, Line, Gcode
  <1>6. CASE LinePinAsync
    BY <1>6 DEF LinePinAsync, Line, Gcode, Realtime, OnlyControl
  <1>7. CASE LineUnlock
    BY <1>7 DEF LineUnlock, Line
  <1>8. CASE LineSleep
    BY <1>8 DEF LineSleep, Line, SetExec
  <1>9. CASE LineCheckOn
    BY <1>9 DEF LineCheckOn, Line
  <1>10. CASE LineCheckOff
    BY <1>10, McResetFlags DEF LineCheckOff, Line
  <1> QED
    BY <1>1, <1>2, <1>3, <1>4, <1>5, <1>6, <1>7, <1>8, <1>9, <1>10 DEF ExecuteLine

\* mc_line keeps an automatic start from what is suspended.
LEMMA ExecuteMcLineUser ==
  ASSUME TypeOK, UserInv, ExecuteMcLine
  PROVE  UserInv'
PROOF
  <1> USE DEF NoCopy, StartBlocked, HoldFlags, UserInv, PinFree, CopyAgrees, AbortLasts,
              AutoStart, StartsAutomatically, StartTaken, Relayed, FindsNothing, Repeated, UnderRestore,
              RestorePlaces, ServingPlaces, NestedCallers, At,
              Goto, CallRealtime, vars, sysVars, flagVars, motionVars, outputVars, controlVars,
              boundVars, historyVars
  <1>1. CASE SoftCheck
    BY <1>1 DEF SoftCheck, SetExec, Realtime
  <1>2. CASE SoftWait
    BY <1>2 DEF SoftWait, Realtime, OnlyControl
  <1>3. CASE SoftReset
    BY <1>3, McResetFlags DEF SoftReset
  <1>4. CASE SoftAlarm
    BY <1>4 DEF SoftAlarm, Realtime
  <1>5. CASE McLine
    BY <1>5 DEF McLine, Realtime, OnlyControl, McLineReturn
  <1>6. CASE McLineAbort
    BY <1>6 DEF McLineAbort, OnlyControl, McLineReturn
  <1>7. CASE McLineFull
    BY <1>7 DEF McLineFull, AutoCycleStart, SetExec, Realtime
  <1>8. CASE McLinePlan
    BY <1>8 DEF McLinePlan, McLineReturn
  <1> QED
    BY <1>1, <1>2, <1>3, <1>4, <1>5, <1>6, <1>7, <1>8 DEF ExecuteMcLine

\* The buffer synchronisation keeps an automatic start from what is suspended.
LEMMA ExecuteSyncUser ==
  ASSUME TypeOK, UserInv, ExecuteSync
  PROVE  UserInv'
PROOF
  <1> USE DEF NoCopy, StartBlocked, HoldFlags, UserInv, PinFree, CopyAgrees, AbortLasts,
              AutoStart, StartsAutomatically, StartTaken, Relayed, FindsNothing, Repeated, UnderRestore,
              RestorePlaces, ServingPlaces, NestedCallers, At,
              Goto, CallRealtime, vars, sysVars, flagVars, motionVars, outputVars, controlVars,
              boundVars, historyVars
  <1>1. CASE Sync
    BY <1>1 DEF Sync, AutoCycleStart, SetExec, Realtime
  <1>2. CASE SyncTest
    BY <1>2 DEF SyncTest, Realtime, OnlyControl
  <1>3. CASE SyncedSpindle
    BY <1>3 DEF SyncedSpindle, Synced
  <1>4. CASE SyncedCoolant
    BY <1>4 DEF SyncedCoolant, Synced
  <1>5. CASE DwellStep
    BY <1>5 DEF DwellStep, Synced, Realtime, OnlyControl
  <1>6. CASE DwellEnd
    BY <1>6 DEF DwellEnd, Synced, OnlyControl
  <1>7. CASE SyncedPause
    BY <1>7 DEF SyncedPause, Synced, Realtime, SetExec
  <1>8. CASE SyncedEnd
    BY <1>8 DEF SyncedEnd, Synced
  <1>9. CASE SyncedPin
    BY <1>9 DEF SyncedPin, Synced, Realtime, OnlyControl
  <1>10. CASE PinWait
    BY <1>10 DEF PinWait
  <1> QED
    BY <1>1, <1>2, <1>3, <1>4, <1>5, <1>6, <1>7, <1>8, <1>9, <1>10 DEF ExecuteSync

\* The probing cycle keeps an automatic start from what is suspended.
LEMMA ExecuteProbeUser ==
  ASSUME TypeOK, UserInv, ExecuteProbe
  PROVE  UserInv'
PROOF
  <1> USE DEF NoCopy, StartBlocked, HoldFlags, UserInv, PinFree, CopyAgrees, AbortLasts,
              AutoStart, StartsAutomatically, StartTaken, Relayed, FindsNothing, Repeated, UnderRestore,
              RestorePlaces, ServingPlaces, NestedCallers, At,
              Goto, CallRealtime, vars, sysVars, flagVars, motionVars, outputVars, controlVars,
              boundVars, historyVars
  <1>1. CASE ProbeAbort
    BY <1>1 DEF ProbeAbort, Synced, OnlyControl
  <1>2. CASE ProbeFailInitial
    BY <1>2 DEF ProbeFailInitial, Synced, Realtime
  <1>3. CASE ProbeLine
    BY <1>3 DEF ProbeLine, Synced, OnlyControl
  <1>4. CASE ProbeStart
    BY <1>4 DEF ProbeStart, SetExec, Realtime
  <1>5. CASE ProbeWait
    BY <1>5 DEF ProbeWait, Realtime, OnlyControl
  <1>6. CASE ProbeDone
    BY <1>6 DEF ProbeDone, Realtime
  <1>7. CASE ProbeEnd
    BY <1>7 DEF ProbeEnd, ResetBuffers, OnlyControl
  <1> QED
    BY <1>1, <1>2, <1>3, <1>4, <1>5, <1>6, <1>7 DEF ExecuteProbe
\* Every step of a machine that is sent no pin wait keeps it so.
LEMMA StepUser ==
  ASSUME LineKinds \cap {"pin_async", "pin_sync"} = {}, TypeOK, UserInv, [Next]_vars
  PROVE  UserInv'
PROOF
  <1> USE DEF UserInv, PinFree, CopyAgrees, AbortLasts, AutoStart, StartsAutomatically,
              StartTaken, Relayed, FindsNothing, Repeated, UnderRestore,
              RestorePlaces, StartBlocked, HoldFlags, ServingPlaces, NestedCallers, At, Goto,
              vars, sysVars, flagVars, motionVars, controlVars, historyVars
  <1>1. CASE Boot
    BY <1>1 DEF Boot
  <1>2. CASE LoopIdle
    BY <1>2 DEF LoopIdle, AutoCycleStart, SetExec, Realtime, CallRealtime
  <1>3. CASE LoopEnd \/ JogStart \/ JogWake
    BY <1>3 DEF LoopEnd, JogStart, JogWake, OnlyControl
  <1>4. CASE Main
    BY <1>1, <1>2, <1>3, <1>4, ExecRtSystemUser, ExecRtSuspendUser, ExecuteLineUser,
       ExecuteMcLineUser, ExecuteSyncUser, ExecuteProbeUser DEF Main
  <1>5. ASSUME NEW k \in LineKinds, ReadLine(k) PROVE UserInv'
    BY <1>5 DEF ReadLine
  <1>6. CASE PinReached
    BY <1>6 DEF PinReached
  <1>7. ASSUME NEW c \in RtInputs, RtCommand(c) PROVE UserInv'
    <2>1. UNCHANGED <<state, suspend, spindle_stop_ovr, abort, rt_exec, rt_user_start, past, pc,
                      via, ret, cmd, isr_copy>>
      BY <1>7 DEF RtCommand
    <2>2. CASE CmdReset
      BY <2>1, <2>2, McResetFlags DEF CmdReset
    <2>3. CASE CmdCycleStart
      BY <2>1, <2>3 DEF CmdCycleStart
    <2>4. ASSUME NEW flags \in SUBSET (ExecFlags \ {"CYCLE_START"}), Raise(flags) PROVE UserInv'
      BY <2>1, <2>4 DEF Raise
    <2>5. ASSUME NEW flag, CmdAccessory(flag) PROVE UserInv'
      BY <2>1, <2>5 DEF CmdAccessory
    <2>6. CASE CmdFeedHold \/ CmdSafetyDoor \/ CmdJogCancel
      BY <2>4, <2>6 DEF CmdFeedHold, CmdSafetyDoor, CmdJogCancel, ExecFlags
    <2> QED
      BY <1>7, <2>2, <2>3, <2>5, <2>6 DEF RtCommand
  <1>8. CASE UNCHANGED vars
    BY <1>8
  <1> QED
    BY <1>4, <1>5, <1>6, <1>7, <1>8, StepperIsrUser DEF Next, Environment

\* What resumes a program.
LEMMA ResumeStep ==
  ASSUME TypeOK, UserInv, [Next]_vars, state \in {"HOLD", "SAFETY_DOOR"}, state' = "CYCLE"
  PROVE  rt_user_start \/ Repeated
PROOF
  <1> USE DEF vars, sysVars, At
  <1>1. CASE StepperIsr
    BY <1>1 DEF StepperIsr, IsrSegment, IsrEmpty, IsrProbeRead, IsrProbeWrite
  <1>2. CASE ExecRtSystem
    <2>1. CASE RtStartCycle
      <3>1. suspend # {} /\ ~StartBlocked /\ pc = "rt_start"
        BY <2>1 DEF RtStartCycle, StartAllowed, DoorRestored, DoorClosed
      <3> QED
        BY <3>1 DEF UserInv, AbortLasts, StartTaken, FindsNothing, TypeOK, BooleansOK
    <2>2. CASE RtHold
      BY <2>2 DEF RtHold, DoorState, HoldState
    <2> QED
      BY <1>2, <2>1, <2>2
      DEF ExecRtSystem, RtNoAlarm, RtAlarm, RtCritical, RtCriticalWait, RtSnap,
          RtStartIgnored, RtStartSpindleRestore, RtWake, RtStartIdle, RtStopHold,
          RtStopMotion, RtOver
  <1>3. CASE ExecRtSuspend
    BY <1>3
    DEF ExecRtSuspend, SuspendEnter, SuspendExit, SuspendWait, SuspendRetract, SuspendSleep,
        SleepLoop, SuspendDoor, RestoreSpindle, RestoreCoolant, DelayStep, DelayEnd, RestoreDone,
        SpindleStopInitiate, SpindleStopRestore, SuspendIdle
  <1>4. CASE ExecuteLine
    BY <1>4
    DEF ExecuteLine, LineAbort, LineRefused, LineMotion, LineSync, LineUnsynced, LinePinAsync,
        LineUnlock, LineSleep, LineCheckOn, LineCheckOff, Line, OnlyControl
  <1>5. CASE ExecuteMcLine
    BY <1>5
    DEF ExecuteMcLine, SoftCheck, SoftWait, SoftReset, SoftAlarm, McLine, McLineAbort,
        McLineFull, McLinePlan, OnlyControl
  <1>6. CASE ExecuteSync
    BY <1>6
    DEF ExecuteSync, Sync, SyncTest, SyncedSpindle, SyncedCoolant, DwellStep, DwellEnd,
        SyncedPause, SyncedEnd, SyncedPin, PinWait, OnlyControl
  <1>7. CASE ExecuteProbe
    BY <1>7
    DEF ExecuteProbe, ProbeAbort, ProbeFailInitial, ProbeLine, ProbeStart, ProbeWait, ProbeDone,
        ProbeEnd, OnlyControl
  <1>8. CASE Boot \/ LoopIdle \/ LoopEnd \/ JogStart \/ JogWake
    BY <1>8 DEF Boot, LoopIdle, LoopEnd, JogStart, JogWake, OnlyControl
  <1>9. CASE Environment
    BY <1>9 DEF Environment, ReadLine, PinReached, OnlyControl, RtCommand
  <1> QED
    BY <1>1, <1>2, <1>3, <1>4, <1>5, <1>6, <1>7, <1>8, <1>9 DEF Next, Main

\* An automatic cycle start never resumes a program that a hold or a door has
\* stopped, in whatever order they, the end of a motion, a restore, a reset and
\* the next line come, on a machine that is sent no pin wait.
THEOREM ResumeSafety ==
  ASSUME LineKinds \cap {"pin_async", "pin_sync"} = {}
  PROVE  Spec => ResumedByUser
PROOF
  <1> DEFINE Resumes == state \in {"HOLD", "SAFETY_DOOR"} /\ state' = "CYCLE"
                        => rt_user_start \/ Repeated
  <1>1. Init => UserInv
    BY DEF Init, UserInv, PinFree, CopyAgrees, AbortLasts, AutoStart, StartsAutomatically,
           StartTaken, HoldFlags, Relayed, FindsNothing, UnderRestore, RestorePlaces,
           ServingPlaces, NestedCallers
  <1>2. TypeOK /\ UserInv /\ [Next]_vars => UserInv'
    BY StepUser
  <1>3. TypeOK /\ UserInv /\ [Next]_vars => [Resumes]_vars
    BY ResumeStep
  <1> QED
    BY <1>1, <1>2, <1>3, TypeCorrect, PTL DEF Spec, ResumedByUser

-----------------------------------------------------------------------------
\* What stays off while stopped.

\* A completed hold is at rest, and no stage that starts or stops a motion is
\* under way; an alarm is a soft limit's or comes with a reset.
LEMMA RestFacts ==
  ASSUME IInv
  PROVE  /\ ~abort /\ "HOLD_COMPLETE" \in suspend
              => ~stepping /\ pc \notin {"rt_stop", "rt_wake", "jog_wake"}
         /\ ~abort /\ exec_alarm \notin {"NONE", "SOFT_LIMIT"} => "RESET" \in exec_state
         /\ ~abort /\ exec_alarm = "SOFT_LIMIT" => pc \in {"rt_alarm", "rt_critical"}
         /\ isr_copy = NoCopy
         /\ TypeOK
PROOF
  <1>1. exec_alarm \in {"NONE", "SOFT_LIMIT", "ABORT_CYCLE", "HOMING_FAIL_RESET"}
    BY DEF IInv, TypeOK, ValuesOK, Alarms, ProbeFree
  <1>2. CASE abort
    BY <1>2 DEF IInv, ProbeFree
  <1>3. CASE ~abort
    BY <1>1, <1>3
    DEF IInv, ProbeFree, Safe, MotionOwned, StartsFromRest, SnapshotAgrees, AlarmAgrees, Moving
  <1> QED
    BY <1>2, <1>3

\* mc_reset drops no reset and energises nothing.
LEMMA McResetOff ==
  ASSUME TypeOK, mc_reset
  PROVE  /\ "RESET" \in exec_state'
         /\ exec_alarm' = "SOFT_LIMIT" => exec_alarm = "SOFT_LIMIT"
         /\ spindle' => spindle
         /\ coolant' => coolant
         /\ stepping' => stepping
PROOF
  <1>1. CASE UNCHANGED <<exec_state, exec_alarm, spindle, coolant, stepping>> /\ "RESET" \in exec_state
    BY <1>1
  <1>2. CASE /\ exec_state' = exec_state \cup {"RESET"}
             /\ spindle' = FALSE /\ coolant' = FALSE
             /\ exec_alarm' = IF McResetKills THEN AbortAlarm ELSE exec_alarm
             /\ stepping' = (stepping /\ ~McResetKills)
    <2>1. exec_alarm' = "SOFT_LIMIT" => exec_alarm = "SOFT_LIMIT"
      BY <1>2 DEF AbortAlarm
    <2>2. stepping' => stepping
      BY <1>2, Zenon
    <2> QED
      BY <1>2, <2>1, <2>2
  <1> QED
    BY <1>1, <1>2 DEF mc_reset

\* The stepper interrupt energises nothing that a hold has de-energised.
LEMMA StepperIsrEnergy ==
  ASSUME IInv, EnergyInv, StepperIsr
  PROVE  EnergyInv'
PROOF
  <1> USE DEF EnergyInv, SuspendServed, RetractAgrees, SleepAgrees, UnderRestore, RestorePlaces,
              ServingPlaces, NestedCallers, At, Goto, CallRealtime, vars, sysVars, flagVars,
              motionVars, outputVars, controlVars, boundVars, historyVars
  <1>1. CASE IsrSegment
    BY <1>1, RestFacts DEF IsrSegment
  <1>2. CASE IsrEmpty
    BY <1>2, RestFacts DEF IsrEmpty
  <1>3. CASE IsrProbeRead
    BY <1>3, RestFacts DEF IsrProbeRead
  <1>4. CASE IsrProbeWrite
    BY <1>4, RestFacts DEF IsrProbeWrite
  <1> QED
    BY <1>1, <1>2, <1>3, <1>4 DEF StepperIsr

\* Protocol_exec_rt_system energises nothing that a hold has de-energised.
LEMMA ExecRtSystemEnergy ==
  ASSUME IInv, EnergyInv, ExecRtSystem
  PROVE  EnergyInv'
PROOF
  <1> USE DEF EnergyInv, SuspendServed, RetractAgrees, SleepAgrees, UnderRestore, RestorePlaces,
              ServingPlaces, NestedCallers, At, Goto, CallRealtime, vars, sysVars, flagVars,
              motionVars, outputVars, controlVars, boundVars, historyVars
  <1>1. CASE RtNoAlarm
    BY <1>1, RestFacts DEF RtNoAlarm
  <1>2. CASE RtAlarm
    BY <1>2, RestFacts DEF RtAlarm
  <1>3. CASE RtCritical
    BY <1>3, RestFacts DEF RtCritical
  <1>4. CASE RtCriticalWait
    BY <1>4, RestFacts DEF RtCriticalWait
  <1>5. CASE RtSnap
    BY <1>5, RestFacts DEF RtSnap, StageAfterSnapshot, StageAfterHold, StageAfterStart,
       AfterRealtime, HoldFlags, TypeOK, ValuesOK, CallerPlaces
  <1>6. CASE RtHold
    BY <1>6, RestFacts DEF RtHold, ClearExec, StageAfterHold, StageAfterStart, HoldAllowed,
       HoldBegins, DoorSuspend, DoorState, HoldSuspend, HoldState
  <1>7. CASE RtStartIgnored
    BY <1>7, RestFacts DEF RtStartIgnored, Carry, ClearExec, StageAfterStart, DoorClosed
  <1>8. CASE RtStartSpindleRestore
    BY <1>8, RestFacts DEF RtStartSpindleRestore, Carry, ClearExec, StageAfterStart
  <1>9. CASE RtStartCycle
    BY <1>9, RestFacts DEF RtStartCycle, StartAllowed, DoorRestored, DoorClosed
  <1>10. CASE RtWake
    BY <1>10, RestFacts DEF RtWake, ClearExec, StageAfterStart
  <1>11. CASE RtStartIdle
    BY <1>11, RestFacts DEF RtStartIdle, ClearExec, StageAfterStart, StartAllowed, DoorRestored,
       DoorClosed
  <1>12. CASE RtStopHold
    BY <1>12, RestFacts DEF RtStopHold, ClearExec
  <1>13. CASE RtStopMotion
    BY <1>13, RestFacts DEF RtStopMotion, ClearExec, JogFlush, ResetBuffers
  <1>14. CASE RtOver
    <2>1. /\ coolant' => coolant \/ state \in {"IDLE", "CYCLE", "HOLD", "JOG"}
          /\ UNCHANGED <<state, suspend, exec_alarm, stepping, spindle, via, abort>>
          /\ pc' = AfterRealtime(suspend)
          /\ pc = "rt_over"
      BY <1>14 DEF RtOver, CoolantOverride, CoolantStates
    <2>2. \/ via = "realtime" /\ suspend # {} /\ pc' = "suspend_enter"
          \/ via = "realtime" /\ suspend = {} /\ pc' \in CallerPlaces
          \/ via = "direct" /\ pc' = ret
          \/ via \in NestedCallers /\ pc' = via
      BY <2>1, RestFacts DEF AfterRealtime, TypeOK, ValuesOK
    <2>3. via = "direct" => ret = "loop"
      BY DEF IInv, ControlAgrees
    <2> QED
      BY <2>1, <2>2, <2>3 DEF CallerPlaces
  <1> QED
    BY <1>1, <1>2, <1>3, <1>4, <1>5, <1>6, <1>7, <1>8, <1>9, <1>10, <1>11, <1>12, <1>13, <1>14 DEF ExecRtSystem

\* Protocol_exec_rt_suspend energises nothing that a hold has de-energised.
LEMMA ExecRtSuspendEnergy ==
  ASSUME IInv, EnergyInv, ExecRtSuspend
  PROVE  EnergyInv'
PROOF
  <1> USE DEF EnergyInv, SuspendServed, RetractAgrees, SleepAgrees, UnderRestore, RestorePlaces,
              ServingPlaces, NestedCallers, At, Goto, CallRealtime, vars, sysVars, flagVars,
              motionVars, outputVars, controlVars, boundVars, historyVars
  <1>1. CASE SuspendEnter
    BY <1>1, RestFacts DEF SuspendEnter
  <1>2. CASE SuspendExit
    BY <1>2, RestFacts DEF SuspendExit, TypeOK, ValuesOK, CallerPlaces
  <1>3. CASE SuspendWait
    BY <1>3, RestFacts DEF SuspendWait, NextPass, Suspended
  <1>4. CASE SuspendRetract
    BY <1>4, RestFacts DEF SuspendRetract, NextPass, Held, Suspended
  <1>5. CASE SuspendSleep
    BY <1>5, RestFacts DEF SuspendSleep, Held, Suspended
  <1>6. CASE SleepLoop
    BY <1>6, RestFacts DEF SleepLoop, TypeOK, ValuesOK, CallerPlaces
  <1>7. CASE SuspendDoor
    BY <1>7, RestFacts DEF SuspendDoor, NextPass, Held, Suspended
  <1>8. CASE RestoreSpindle
    BY <1>8, RestFacts DEF RestoreSpindle, SetOutput
  <1>9. CASE RestoreCoolant
    BY <1>9, RestFacts DEF RestoreCoolant, SetOutput
  <1>10. CASE DelayStep
    BY <1>10, RestFacts DEF DelayStep
  <1>11. CASE DelayEnd
    BY <1>11, RestFacts DEF DelayEnd
  <1>12. CASE RestoreDone
    BY <1>12, RestFacts DEF RestoreDone, Relay, NextPass, SetExec
  <1>13. CASE SpindleStopInitiate
    BY <1>13, RestFacts DEF SpindleStopInitiate, NextPass, FeedHeld, Held, Suspended,
       BooleansOK, TypeOK
  <1>14. CASE SpindleStopRestore
    BY <1>14, RestFacts DEF SpindleStopRestore, Relay, NextPass, SetExec, FeedHeld, Held, Suspended
  <1>15. CASE SuspendIdle
    BY <1>15, RestFacts DEF SuspendIdle, NextPass, FeedHeld, Held, Suspended
  <1> QED
    BY <1>1, <1>2, <1>3, <1>4, <1>5, <1>6, <1>7, <1>8, <1>9, <1>10, <1>11, <1>12, <1>13, <1>14,
       <1>15 DEF ExecRtSuspend

\* The line dispatcher energises nothing that a hold has de-energised.
LEMMA ExecuteLineEnergy ==
  ASSUME IInv, EnergyInv, ExecuteLine
  PROVE  EnergyInv'
PROOF
  <1> USE DEF EnergyInv, SuspendServed, RetractAgrees, SleepAgrees, UnderRestore, RestorePlaces,
              ServingPlaces, NestedCallers, At, Goto, CallRealtime, vars, sysVars, flagVars,
              motionVars, outputVars, controlVars, boundVars, historyVars
  <1>1. CASE LineAbort
    BY <1>1, RestFacts DEF LineAbort, OnlyControl
  <1>2. CASE LineRefused
    BY <1>2, RestFacts DEF LineRefused, Line, OnlyControl, TypeOK, ValuesOK, CallerPlaces
  <1>3. CASE LineMotion
    BY <1>3, RestFacts DEF LineMotion, Line, Gcode, OnlyControl
  <1>4. CASE LineSync
    BY <1>4, RestFacts DEF LineSync, Line, Gcode, OnlyControl
  <1>5. CASE LineUnsynced
    BY <1>5, RestFacts DEF LineUnsynced, Line, Gcode
  <1>6. CASE LinePinAsync
    BY <1>6, RestFacts DEF LinePinAsync, Line, Gcode, Realtime, OnlyControl
  <1>7. CASE LineUnlock
    BY <1>7, RestFacts DEF LineUnlock, Line, TypeOK, ValuesOK, CallerPlaces
  <1>8. CASE LineSleep
    BY <1>8, RestFacts DEF LineSleep, Line, SetExec
  <1>9. CASE LineCheckOn
    BY <1>9, RestFacts DEF LineCheckOn, Line
  <1>10. CASE LineCheckOff
    BY <1>10, RestFacts, McResetOff DEF LineCheckOff, Line
  <1> QED
    BY <1>1, <1>2, <1>3, <1>4, <1>5, <1>6, <1>7, <1>8, <1>9, <1>10 DEF ExecuteLine

\* mc_line energises nothing that a hold has de-energised.
LEMMA ExecuteMcLineEnergy ==
  ASSUME IInv, EnergyInv, ExecuteMcLine
  PROVE  EnergyInv'
PROOF
  <1> USE DEF EnergyInv, SuspendServed, RetractAgrees, SleepAgrees, UnderRestore, RestorePlaces,
              ServingPlaces, NestedCallers, At, Goto, CallRealtime, vars, sysVars, flagVars,
              motionVars, outputVars, controlVars, boundVars, historyVars
  <1>1. CASE SoftCheck
    BY <1>1, RestFacts DEF SoftCheck, SetExec, Realtime
  <1>2. CASE SoftWait
    BY <1>2, RestFacts DEF SoftWait, Realtime, OnlyControl, TypeOK, ValuesOK, CallerPlaces
  <1>3. CASE SoftReset
    BY <1>3, RestFacts, McResetOff DEF SoftReset
  <1>4. CASE SoftAlarm
    BY <1>4, RestFacts DEF SoftAlarm, Realtime
  <1>5. CASE McLine
    BY <1>5, RestFacts DEF McLine, Realtime, OnlyControl, McLineReturn
  <1>6. CASE McLineAbort
    BY <1>6, RestFacts DEF McLineAbort, OnlyControl, McLineReturn
  <1>7. CASE McLineFull
    BY <1>7, RestFacts DEF McLineFull, AutoCycleStart, SetExec, Realtime
  <1>8. CASE McLinePlan
    BY <1>8, RestFacts DEF McLinePlan, McLineReturn
  <1> QED
    BY <1>1, <1>2, <1>3, <1>4, <1>5, <1>6, <1>7, <1>8 DEF ExecuteMcLine

\* The buffer synchronisation energises nothing that a hold has de-energised.
LEMMA ExecuteSyncEnergy ==
  ASSUME IInv, EnergyInv, ExecuteSync
  PROVE  EnergyInv'
PROOF
  <1> USE DEF EnergyInv, SuspendServed, RetractAgrees, SleepAgrees, UnderRestore, RestorePlaces,
              ServingPlaces, NestedCallers, At, Goto, CallRealtime, vars, sysVars, flagVars,
              motionVars, outputVars, controlVars, boundVars, historyVars
  <1>1. CASE Sync
    BY <1>1, RestFacts DEF Sync, AutoCycleStart, SetExec, Realtime
  <1>2. CASE SyncTest
    BY <1>2, RestFacts DEF SyncTest, Realtime, OnlyControl
  <1>3. CASE SyncedSpindle
    BY <1>3, RestFacts DEF SyncedSpindle, Synced, SetOutput
  <1>4. CASE SyncedCoolant
    BY <1>4, RestFacts DEF SyncedCoolant, Synced, SetOutput
  <1>5. CASE DwellStep
    BY <1>5, RestFacts DEF DwellStep, Synced, Realtime, OnlyControl
  <1>6. CASE DwellEnd
    BY <1>6, RestFacts DEF DwellEnd, Synced, OnlyControl
  <1>7. CASE SyncedPause
    BY <1>7, RestFacts DEF SyncedPause, Synced, Realtime, SetExec
  <1>8. CASE SyncedEnd
    BY <1>8, RestFacts DEF SyncedEnd, Synced, SetOutput
  <1>9. CASE SyncedPin
    BY <1>9, RestFacts DEF SyncedPin, Synced, Realtime, OnlyControl
  <1>10. CASE PinWait
    BY <1>10, RestFacts DEF PinWait
  <1> QED
    BY <1>1, <1>2, <1>3, <1>4, <1>5, <1>6, <1>7, <1>8, <1>9, <1>10 DEF ExecuteSync

\* The probing cycle energises nothing that a hold has de-energised.
LEMMA ExecuteProbeEnergy ==
  ASSUME IInv, EnergyInv, ExecuteProbe
  PROVE  EnergyInv'
PROOF
  <1> USE DEF EnergyInv, SuspendServed, RetractAgrees, SleepAgrees, UnderRestore, RestorePlaces,
              ServingPlaces, NestedCallers, At, Goto, CallRealtime, vars, sysVars, flagVars,
              motionVars, outputVars, controlVars, boundVars, historyVars
  <1>1. CASE ProbeAbort
    BY <1>1, RestFacts DEF ProbeAbort, Synced, OnlyControl
  <1>2. CASE ProbeFailInitial
    BY <1>2, RestFacts DEF ProbeFailInitial, Synced, Realtime
  <1>3. CASE ProbeLine
    BY <1>3, RestFacts DEF ProbeLine, Synced, OnlyControl
  <1>4. CASE ProbeStart
    BY <1>4, RestFacts DEF ProbeStart, SetExec, Realtime
  <1>5. CASE ProbeWait
    BY <1>5, RestFacts DEF ProbeWait, Realtime, OnlyControl
  <1>6. CASE ProbeDone
    BY <1>6, RestFacts DEF ProbeDone, Realtime
  <1>7. CASE ProbeEnd
    BY <1>7, RestFacts DEF ProbeEnd, ResetBuffers, OnlyControl
  <1> QED
    BY <1>1, <1>2, <1>3, <1>4, <1>5, <1>6, <1>7 DEF ExecuteProbe
\* Every step of a machine that is sent no probing line keeps it so.
LEMMA StepEnergy ==
  ASSUME IInv, EnergyInv, [Next]_vars
  PROVE  EnergyInv'
PROOF
  <1> USE DEF EnergyInv, SuspendServed, RetractAgrees, SleepAgrees, UnderRestore,
              RestorePlaces, ServingPlaces, NestedCallers, At, Goto, vars, sysVars,
              flagVars, motionVars, outputVars, controlVars
  <1>1. CASE Boot
    BY <1>1 DEF Boot, ResetBuffers
  <1>2. CASE LoopIdle
    BY <1>2, RestFacts DEF LoopIdle, AutoCycleStart, SetExec, Realtime, CallRealtime
  <1>3. CASE LoopEnd \/ JogStart \/ JogWake
    BY <1>3, RestFacts DEF LoopEnd, JogStart, JogWake, OnlyControl
  <1>4. CASE Main
    BY <1>1, <1>2, <1>3, <1>4, ExecRtSystemEnergy, ExecRtSuspendEnergy, ExecuteLineEnergy,
       ExecuteMcLineEnergy, ExecuteSyncEnergy, ExecuteProbeEnergy DEF Main
  <1>5. ASSUME NEW k \in LineKinds, ReadLine(k) PROVE EnergyInv'
    BY <1>5 DEF ReadLine
  <1>6. CASE PinReached
    BY <1>6 DEF PinReached, CallRealtime, OnlyControl
  <1>7. ASSUME NEW c \in RtInputs, RtCommand(c) PROVE EnergyInv'
    <2>1. UNCHANGED <<state, suspend, abort, pc, via>>
      BY <1>7 DEF RtCommand
    <2>2. CASE CmdReset
      BY <2>1, <2>2, RestFacts, McResetOff DEF CmdReset
    <2>3. CASE /\ UNCHANGED <<exec_alarm, spindle, coolant, stepping>>
               /\ "RESET" \in exec_state => "RESET" \in exec_state'
      BY <2>1, <2>3
    <2> QED
      BY <1>7, <2>2, <2>3
      DEF RtCommand, CmdCycleStart, CmdFeedHold, CmdSafetyDoor, CmdJogCancel, CmdAccessory, Raise
  <1>8. CASE UNCHANGED vars
    BY <1>8
  <1> QED
    BY <1>4, <1>5, <1>6, <1>7, <1>8, StepperIsrEnergy DEF Next, Environment

\* Behind a door whose retract is complete, and asleep, spindle and coolant stay
\* off until the restore begins or the reset comes: no segment still buffered,
\* override, hold, re-opened door or alarm switches them on.
THEOREM DeenergisedSafety ==
  ASSUME "probe" \notin LineKinds
  PROVE  Spec => []DeenergisedWhileStopped
PROOF
  <1>1. Init => EnergyInv
    BY DEF Init, EnergyInv, SuspendServed, RetractAgrees, SleepAgrees
  <1>2. IInv /\ EnergyInv /\ [Next]_vars => EnergyInv'
    BY StepEnergy
  <1>3. EnergyInv => DeenergisedWhileStopped
    BY DEF EnergyInv, RetractAgrees, SleepAgrees, DeenergisedWhileStopped
  <1> QED
    BY <1>1, <1>2, <1>3, Invariance, PTL DEF Spec

-----------------------------------------------------------------------------
\* What a start that waits for the spindle's restore may meet.

\* Where the realtime system goes on behind a completed hold, an abort, or in
\* sleep.
LEMMA RestoreFacts ==
  ASSUME IInv, EnergyInv, UserInv, RestoreInv
  PROVE  /\ abort => pc \notin {"rt_hold", "rt_start", "rt_stop", "rt_over"}
         /\ ~abort /\ via = "sleep" /\ pc = "rt_over" => state = "SLEEP"
         /\ via # "direct"
         /\ isr_copy = NoCopy
         /\ TypeOK
PROOF
  <1>1. TypeOK /\ isr_copy = NoCopy /\ via # "direct"
    BY RestFacts DEF UserInv, PinFree
  <1>2. CASE abort
    BY <1>1, <1>2 DEF IInv, AbortAgrees
  <1>3. CASE ~abort
    <2>1. via = "sleep" /\ pc = "rt_over" => state = "SLEEP"
      BY <1>3 DEF EnergyInv, SleepAgrees
    <2> QED
      BY <1>1, <1>3, <2>1
  <1> QED
    BY <1>2, <1>3

\* The stepper interrupt lets no start meet the initiation of a spindle stop.
LEMMA StepperIsrRestore ==
  ASSUME IInv, EnergyInv, UserInv, RestoreInv, StepperIsr
  PROVE  RestoreInv'
PROOF
  <1> USE DEF RestoreInv, NoLostRestore, DoorFree, StopInitiated, RestorePlaces, At, Goto,
              CallRealtime, vars, sysVars, flagVars, motionVars, outputVars, controlVars,
              boundVars, historyVars
  <1>1. CASE IsrSegment
    BY <1>1, RestoreFacts DEF IsrSegment, StartBlocked
  <1>2. CASE IsrEmpty
    BY <1>2, RestoreFacts DEF IsrEmpty, StartBlocked
  <1>3. CASE IsrProbeRead
    BY <1>3, RestoreFacts DEF IsrProbeRead, NoCopy, StartBlocked
  <1>4. CASE IsrProbeWrite
    BY <1>4, RestoreFacts DEF IsrProbeWrite, NoCopy, StartBlocked, HoldFlags
  <1> QED
    BY <1>1, <1>2, <1>3, <1>4 DEF StepperIsr

\* Protocol_exec_rt_system lets no start meet the initiation of a spindle stop.
LEMMA ExecRtSystemRestore ==
  ASSUME IInv, EnergyInv, UserInv, RestoreInv, ExecRtSystem
  PROVE  RestoreInv'
PROOF
  <1> USE DEF RestoreInv, NoLostRestore, DoorFree, StopInitiated, RestorePlaces, At, Goto,
              CallRealtime, vars, sysVars, flagVars, motionVars, outputVars, controlVars,
              boundVars, historyVars
  <1>1. CASE RtNoAlarm
    BY <1>1, RestoreFacts DEF RtNoAlarm
  <1>2. CASE RtAlarm
    BY <1>2, RestoreFacts DEF RtAlarm, StartBlocked
  <1>3. CASE RtCritical
    BY <1>3, RestoreFacts DEF RtCritical
  <1>4. CASE RtCriticalWait
    BY <1>4, RestoreFacts DEF RtCriticalWait
  <1>5. CASE RtSnap
    BY <1>5, RestoreFacts DEF RtSnap, StageAfterSnapshot, StageAfterHold, StageAfterStart, AfterRealtime,
       HoldFlags, StartBlocked, TypeOK, ValuesOK, CallerPlaces
  <1>6. CASE RtHold
    <2>1. /\ pc = "rt_hold" /\ ~abort /\ "SAFETY_DOOR" \notin rt_exec
          /\ UNCHANGED <<spindle_stop_ovr, abort, rt_exec, via>>
          /\ exec_state' \subseteq exec_state
          /\ pc' \in {"rt_start", "rt_stop", "rt_over"}
      BY <1>6, RestoreFacts DEF RtHold, ClearExec, StageAfterHold, StageAfterStart
    <2>2. state' # "SAFETY_DOOR" /\ "SAFETY_DOOR_AJAR" \notin suspend'
      <3>1. state' # "SAFETY_DOOR"
        BY <1>6, <2>1 DEF RtHold, DoorState, HoldState
      <3>2. DoorSuspend = HoldSuspend
        BY <2>1 DEF DoorSuspend
      <3>3. "SAFETY_DOOR_AJAR" \notin HoldSuspend
        BY DEF HoldSuspend
      <3> QED
        BY <1>6, <3>1, <3>2, <3>3 DEF RtHold
    <2>3. state' = "HOLD" /\ state # "HOLD" => "FEED_HOLD" \in rt_exec
      BY <1>6, <2>1 DEF RtHold, DoorState, HoldState
    <2>4. state' = "HOLD" /\ state = "HOLD" /\ "HOLD_COMPLETE" \in suspend'
            => "HOLD_COMPLETE" \in suspend
      BY <1>6, <2>1 DEF RtHold, HoldAllowed, DoorSuspend, HoldSuspend, HoldBegins
    <2> QED
      BY <2>1, <2>2, <2>3, <2>4 DEF StartBlocked
  <1>7. CASE RtStartIgnored
    BY <1>7, RestoreFacts DEF RtStartIgnored, Carry, ClearExec, StageAfterStart, DoorClosed
  <1>8. CASE RtStartSpindleRestore
    BY <1>8, RestoreFacts DEF RtStartSpindleRestore, Carry, ClearExec, StageAfterStart, SpindleStopped,
       StartAllowed, DoorRestored, DoorClosed
  <1>9. CASE RtStartCycle
    BY <1>9, RestoreFacts DEF RtStartCycle, StartAllowed
  <1>10. CASE RtWake
    BY <1>10, RestoreFacts DEF RtWake, ClearExec, StageAfterStart
  <1>11. CASE RtStartIdle
    BY <1>11, RestoreFacts DEF RtStartIdle, ClearExec, StageAfterStart
  <1>12. CASE RtStopHold
    BY <1>12, RestoreFacts DEF RtStopHold, ClearExec
  <1>13. CASE RtStopMotion
    BY <1>13, RestoreFacts DEF RtStopMotion, ClearExec, JogFlush, ResetBuffers
  <1>14. CASE RtOver
    <2>1. /\ pc = "rt_over" /\ ~abort
          /\ UNCHANGED <<state, suspend, abort, exec_state, rt_exec, via>>
          /\ pc' = AfterRealtime(suspend)
          /\ \/ spindle_stop_ovr' = spindle_stop_ovr
             \/ spindle_stop_ovr' = {"INITIATE"}
             \/ spindle_stop_ovr' = spindle_stop_ovr \cup {"RESTORE"}
      BY <1>14, RestoreFacts DEF RtOver, SpindleStopOverride
    <2>2. \/ via = "realtime" /\ suspend # {} /\ pc' = "suspend_enter"
          \/ via = "realtime" /\ suspend = {} /\ pc' \in CallerPlaces
          \/ via = "suspend" /\ pc' = "suspend"
          \/ via = "sleep" /\ state # "HOLD" /\ pc' = "sleep"
      BY <2>1, RestoreFacts DEF AfterRealtime, TypeOK, ValuesOK, NestedCallers
    <2> QED
      BY <2>1, <2>2 DEF CallerPlaces
  <1> QED
    BY <1>1, <1>2, <1>3, <1>4, <1>5, <1>6, <1>7, <1>8, <1>9, <1>10, <1>11, <1>12, <1>13, <1>14 DEF ExecRtSystem

\* Protocol_exec_rt_suspend lets no start meet the initiation of a spindle stop.
LEMMA ExecRtSuspendRestore ==
  ASSUME IInv, EnergyInv, UserInv, RestoreInv, ExecRtSuspend
  PROVE  RestoreInv'
PROOF
  <1> USE DEF RestoreInv, NoLostRestore, DoorFree, StopInitiated, RestorePlaces, At, Goto,
              CallRealtime, vars, sysVars, flagVars, motionVars, outputVars, controlVars,
              boundVars, historyVars
  <1>1. CASE SuspendEnter
    BY <1>1, RestoreFacts DEF SuspendEnter
  <1>2. CASE SuspendExit
    BY <1>2, RestoreFacts DEF SuspendExit, TypeOK, ValuesOK, CallerPlaces
  <1>3. CASE SuspendWait
    BY <1>3, RestoreFacts DEF SuspendWait, NextPass, Suspended
  <1>4. CASE SuspendRetract
    BY <1>4, RestoreFacts DEF SuspendRetract, NextPass, Held, Suspended
  <1>5. CASE SuspendSleep
    BY <1>5, RestoreFacts DEF SuspendSleep, Held, Suspended
  <1>6. CASE SleepLoop
    BY <1>6, RestoreFacts DEF SleepLoop, TypeOK, ValuesOK, CallerPlaces
  <1>7. CASE SuspendDoor
    BY <1>7, RestoreFacts DEF SuspendDoor, NextPass, Held, Suspended
  <1>8. CASE RestoreSpindle
    BY <1>8, RestoreFacts DEF RestoreSpindle
  <1>9. CASE RestoreCoolant
    BY <1>9, RestoreFacts DEF RestoreCoolant
  <1>10. CASE DelayStep
    BY <1>10, RestoreFacts DEF DelayStep
  <1>11. CASE DelayEnd
    BY <1>11, RestoreFacts DEF DelayEnd
  <1>12. CASE RestoreDone
    BY <1>12, RestoreFacts DEF RestoreDone, Relay, NextPass, SetExec
  <1>13. CASE SpindleStopInitiate
    BY <1>13, RestoreFacts DEF SpindleStopInitiate, NextPass, FeedHeld, Held, Suspended
  <1>14. CASE SpindleStopRestore
    BY <1>14, RestoreFacts DEF SpindleStopRestore, Relay, NextPass, SetExec, FeedHeld, Held, Suspended
  <1>15. CASE SuspendIdle
    BY <1>15, RestoreFacts DEF SuspendIdle, NextPass, FeedHeld, Held, Suspended
  <1> QED
    BY <1>1, <1>2, <1>3, <1>4, <1>5, <1>6, <1>7, <1>8, <1>9, <1>10, <1>11, <1>12, <1>13, <1>14,
       <1>15 DEF ExecRtSuspend

\* The line dispatcher lets no start meet the initiation of a spindle stop.
LEMMA ExecuteLineRestore ==
  ASSUME IInv, EnergyInv, UserInv, RestoreInv, ExecuteLine
  PROVE  RestoreInv'
PROOF
  <1> USE DEF RestoreInv, NoLostRestore, DoorFree, StopInitiated, RestorePlaces, At, Goto,
              CallRealtime, vars, sysVars, flagVars, motionVars, outputVars, controlVars,
              boundVars, historyVars
  <1>1. CASE LineAbort
    BY <1>1, RestoreFacts DEF LineAbort, OnlyControl
  <1>2. CASE LineRefused
    BY <1>2, RestoreFacts DEF LineRefused, Line, OnlyControl
  <1>3. CASE LineMotion
    BY <1>3, RestoreFacts DEF LineMotion, Line, Gcode, OnlyControl
  <1>4. CASE LineSync
    BY <1>4, RestoreFacts DEF LineSync, Line, Gcode, OnlyControl
  <1>5. CASE LineUnsynced
    BY <1>5, RestoreFacts DEF LineUnsynced, Line, Gcode
  <1>6. CASE LinePinAsync
    BY <1>6, RestoreFacts DEF LinePinAsync, Line, Gcode, Realtime, OnlyControl
  <1>7. CASE LineUnlock
    BY <1>7, RestoreFacts DEF LineUnlock, Line
  <1>8. CASE LineSleep
    BY <1>8, RestoreFacts DEF LineSleep, Line, SetExec
  <1>9. CASE LineCheckOn
    BY <1>9, RestoreFacts DEF LineCheckOn, Line
  <1>10. CASE LineCheckOff
    BY <1>10, RestoreFacts, McResetFlags DEF LineCheckOff, Line
  <1> QED
    BY <1>1, <1>2, <1>3, <1>4, <1>5, <1>6, <1>7, <1>8, <1>9, <1>10 DEF ExecuteLine

\* mc_line lets no start meet the initiation of a spindle stop.
LEMMA ExecuteMcLineRestore ==
  ASSUME IInv, EnergyInv, UserInv, RestoreInv, ExecuteMcLine
  PROVE  RestoreInv'
PROOF
  <1> USE DEF RestoreInv, NoLostRestore, DoorFree, StopInitiated, RestorePlaces, At, Goto,
              CallRealtime, vars, sysVars, flagVars, motionVars, outputVars, controlVars,
              boundVars, historyVars
  <1>1. CASE SoftCheck
    BY <1>1, RestoreFacts DEF SoftCheck, SetExec, Realtime
  <1>2. CASE SoftWait
    BY <1>2, RestoreFacts DEF SoftWait, Realtime, OnlyControl
  <1>3. CASE SoftReset
    BY <1>3, RestoreFacts, McResetFlags DEF SoftReset
  <1>4. CASE SoftAlarm
    BY <1>4, RestoreFacts DEF SoftAlarm, Realtime
  <1>5. CASE McLine
    BY <1>5, RestoreFacts DEF McLine, Realtime, OnlyControl, McLineReturn
  <1>6. CASE McLineAbort
    BY <1>6, RestoreFacts DEF McLineAbort, OnlyControl, McLineReturn
  <1>7. CASE McLineFull
    BY <1>7, RestoreFacts DEF McLineFull, AutoCycleStart, SetExec, Realtime
  <1>8. CASE McLinePlan
    BY <1>8, RestoreFacts DEF McLinePlan, McLineReturn
  <1> QED
    BY <1>1, <1>2, <1>3, <1>4, <1>5, <1>6, <1>7, <1>8 DEF ExecuteMcLine

\* The buffer synchronisation lets no start meet the initiation of a spindle stop.
LEMMA ExecuteSyncRestore ==
  ASSUME IInv, EnergyInv, UserInv, RestoreInv, ExecuteSync
  PROVE  RestoreInv'
PROOF
  <1> USE DEF RestoreInv, NoLostRestore, DoorFree, StopInitiated, RestorePlaces, At, Goto,
              CallRealtime, vars, sysVars, flagVars, motionVars, outputVars, controlVars,
              boundVars, historyVars
  <1>1. CASE Sync
    BY <1>1, RestoreFacts DEF Sync, AutoCycleStart, SetExec, Realtime
  <1>2. CASE SyncTest
    BY <1>2, RestoreFacts DEF SyncTest, Realtime, OnlyControl
  <1>3. CASE SyncedSpindle
    BY <1>3, RestoreFacts DEF SyncedSpindle, Synced
  <1>4. CASE SyncedCoolant
    BY <1>4, RestoreFacts DEF SyncedCoolant, Synced
  <1>5. CASE DwellStep
    BY <1>5, RestoreFacts DEF DwellStep, Synced, Realtime, OnlyControl
  <1>6. CASE DwellEnd
    BY <1>6, RestoreFacts DEF DwellEnd, Synced, OnlyControl
  <1>7. CASE SyncedPause
    BY <1>7, RestoreFacts DEF SyncedPause, Synced, Realtime, SetExec
  <1>8. CASE SyncedEnd
    BY <1>8, RestoreFacts DEF SyncedEnd, Synced
  <1>9. CASE SyncedPin
    BY <1>9, RestoreFacts DEF SyncedPin, Synced, Realtime, OnlyControl
  <1>10. CASE PinWait
    BY <1>10, RestoreFacts DEF PinWait
  <1> QED
    BY <1>1, <1>2, <1>3, <1>4, <1>5, <1>6, <1>7, <1>8, <1>9, <1>10 DEF ExecuteSync

\* The probing cycle lets no start meet the initiation of a spindle stop.
LEMMA ExecuteProbeRestore ==
  ASSUME IInv, EnergyInv, UserInv, RestoreInv, ExecuteProbe
  PROVE  RestoreInv'
PROOF
  <1> USE DEF RestoreInv, NoLostRestore, DoorFree, StopInitiated, RestorePlaces, At, Goto,
              CallRealtime, vars, sysVars, flagVars, motionVars, outputVars, controlVars,
              boundVars, historyVars
  <1>1. CASE ProbeAbort
    BY <1>1, RestoreFacts DEF ProbeAbort, Synced, OnlyControl
  <1>2. CASE ProbeFailInitial
    BY <1>2, RestoreFacts DEF ProbeFailInitial, Synced, Realtime
  <1>3. CASE ProbeLine
    BY <1>3, RestoreFacts DEF ProbeLine, Synced, OnlyControl
  <1>4. CASE ProbeStart
    BY <1>4, RestoreFacts DEF ProbeStart, SetExec, Realtime
  <1>5. CASE ProbeWait
    BY <1>5, RestoreFacts DEF ProbeWait, Realtime, OnlyControl
  <1>6. CASE ProbeDone
    BY <1>6, RestoreFacts DEF ProbeDone, Realtime
  <1>7. CASE ProbeEnd
    BY <1>7, RestoreFacts DEF ProbeEnd, ResetBuffers, OnlyControl
  <1> QED
    BY <1>1, <1>2, <1>3, <1>4, <1>5, <1>6, <1>7 DEF ExecuteProbe

\* Every step of a machine that has no door and is sent no pin wait and no
\* probing line keeps them apart.
LEMMA StepRestore ==
  ASSUME "door" \notin RtInputs, IInv, EnergyInv, UserInv, RestoreInv, [Next]_vars
  PROVE  RestoreInv'
PROOF
  <1> USE DEF RestoreInv, NoLostRestore, DoorFree, StopInitiated, RestorePlaces, At, Goto,
              CallRealtime, vars, sysVars, flagVars, motionVars, outputVars, controlVars
  <1>1. CASE Boot
    BY <1>1, RestoreFacts DEF Boot
  <1>2. CASE LoopIdle
    BY <1>2, RestoreFacts DEF LoopIdle, AutoCycleStart, SetExec, Realtime
  <1>3. CASE LoopEnd \/ JogStart \/ JogWake
    BY <1>3, RestoreFacts DEF LoopEnd, JogStart, JogWake, OnlyControl
  <1>4. CASE Main
    BY <1>1, <1>2, <1>3, <1>4, ExecRtSystemRestore, ExecRtSuspendRestore, ExecuteLineRestore,
       ExecuteMcLineRestore, ExecuteSyncRestore, ExecuteProbeRestore DEF Main
  <1>5. ASSUME NEW k \in LineKinds, ReadLine(k) PROVE RestoreInv'
    BY <1>5 DEF ReadLine
  <1>6. CASE PinReached
    BY <1>6 DEF PinReached, OnlyControl
  <1>7. ASSUME NEW c \in RtInputs, RtCommand(c) PROVE RestoreInv'
    <2>1. UNCHANGED <<state, suspend, spindle_stop_ovr, abort, rt_exec, pc, via>>
      BY <1>7 DEF RtCommand
    <2>2. "SAFETY_DOOR" \notin exec_state'
      BY <1>7, McResetFlags
      DEF RtCommand, CmdReset, CmdCycleStart, CmdFeedHold, CmdJogCancel, CmdAccessory, Raise
    <2> QED
      BY <2>1, <2>2 DEF StartBlocked
  <1>8. CASE UNCHANGED vars
    BY <1>8 DEF StartBlocked
  <1> QED
    BY <1>4, <1>5, <1>6, <1>7, <1>8, StepperIsrRestore DEF Next, Environment

\* A cycle start that waits for the spindle's restore never meets the initiation
\* of a spindle stop, which would drop it: whatever the override and the start
\* meet first, a deceleration, an idle machine, an alarm or the next line.
THEOREM RestoreSafety ==
  ASSUME LineKinds \cap {"probe", "pin_async", "pin_sync"} = {}, "door" \notin RtInputs
  PROVE  Spec => []NoLostRestore
PROOF
  <1>1. "probe" \notin LineKinds /\ LineKinds \cap {"pin_async", "pin_sync"} = {}
    OBVIOUS
  <1>2. Init => EnergyInv
    BY DEF Init, EnergyInv, SuspendServed, RetractAgrees, SleepAgrees
  <1>3. Init => UserInv
    BY DEF Init, UserInv, PinFree, CopyAgrees, AbortLasts, AutoStart, StartsAutomatically,
           StartTaken, HoldFlags, Relayed, FindsNothing, UnderRestore, RestorePlaces,
           ServingPlaces, NestedCallers
  <1>4. Init => RestoreInv
    BY DEF Init, RestoreInv, NoLostRestore, DoorFree, RestorePlaces, StopInitiated
  <1>5. IInv /\ EnergyInv /\ [Next]_vars => EnergyInv'
    BY StepEnergy
  <1>6. TypeOK /\ UserInv /\ [Next]_vars => UserInv'
    BY <1>1, StepUser
  <1>7. IInv /\ EnergyInv /\ UserInv /\ RestoreInv /\ [Next]_vars => RestoreInv'
    BY StepRestore
  <1>8. RestoreInv => NoLostRestore
    BY DEF RestoreInv
  <1>9. Spec => []IInv
    BY <1>1, Invariance
  <1> QED
    BY <1>2, <1>3, <1>4, <1>5, <1>6, <1>7, <1>8, <1>9, TypeCorrect, PTL DEF Spec
=============================================================================
