---------------------------- MODULE HomingProofs ----------------------------
(***************************************************************************)
(* A homing cycle that fails leaves the machine locked, for any number of   *)
(* axes, any travel and any course of switches, resets and doors.           *)
(***************************************************************************)
EXTENDS Homing, TLAPS

\* What the main loop may find: a locked machine, a homed one, or one that
\* the user has unlocked.
Accounted == state = "ALARM" \/ homed = Axes \/ unlocked

\* Where the main program is within one homing cycle that was not aborted.
Working == {"pass", "wake", "poll", "check", "fail", "fail_rt", "fail_snap", "stop",
            "delay", "set"}

Places == Working \cup {"loop", "loop_snap", "suspended", "main", "home", "end",
                        "end_snap", "finish"}

\* Each cycle behind the current one has homed its axis.
HomedSoFar == \A i \in DOMAIN Cycles : i < cycle => Cycles[i] \in homed

Shape ==
  /\ pc \in Places /\ cycle \in DOMAIN Cycles /\ homed \subseteq Axes

\* An abort and an alarm always come with a reset that waits to be served.
Pending ==
  /\ abort => "RESET" \in exec_state
  /\ exec_alarm # "none" => "RESET" \in exec_state \/ pc = "fail"

\* A failure is in the alarm state before it aborts.
Failing ==
  /\ pc = "fail" => exec_alarm # "none"
  /\ pc = "fail_rt" => exec_alarm # "none" /\ "RESET" \in exec_state
  /\ pc = "fail_snap" => state = "ALARM" /\ "RESET" \in exec_state

Progressing ==
  /\ pc \in Working => ~abort /\ HomedSoFar
  /\ pc = "home" => IF abort THEN state = "ALARM" ELSE HomedSoFar
  /\ pc \in {"end", "end_snap"} => IF abort THEN state = "ALARM" ELSE homed = Axes
  /\ pc = "finish" => IF abort THEN Accounted ELSE homed = Axes
  /\ pc \in {"loop", "loop_snap", "suspended", "main"} => Accounted
  /\ pc = "loop" => ~abort

IInv == Shape /\ Pending /\ Failing /\ Progressing
-----------------------------------------------------------------------------
\* A rejected `$HX' leaves the state at homing (system.c:187), where g-code is
\* taken: for the rest of the proof no such line is sent.
NoRejectedHoming == "$HX" \notin Commands

\* The first cycle is one of the cycles, and no axis is homed by two of them.
LEMMA CycleFacts ==
  /\ 1 \in DOMAIN Cycles /\ Len(Cycles) \in DOMAIN Cycles
  /\ DOMAIN Cycles = 1 .. Len(Cycles) /\ Len(Cycles) \in Nat
  /\ \A i \in DOMAIN Cycles : Cycles[i] \in Axes
  /\ \A i, j \in DOMAIN Cycles : Cycles[i] = Cycles[j] => i = j
<1>1. Cycles \in Seq(Axes) /\ Cycles # <<>>
  BY HomingAssumption
<1>2. DOMAIN Cycles = 1 .. Len(Cycles) /\ Len(Cycles) \in Nat
  BY <1>1
<1>3. Len(Cycles) # 0
  BY <1>1
<1>4. \A i \in DOMAIN Cycles : Cycles[i] \in Axes
  BY DEF Axes
<1> QED
  BY <1>2, <1>3, <1>4, HomingAssumption

\* The machine comes up locked.
LEMMA InitIInv == Init => IInv
<1> SUFFICES ASSUME Init PROVE IInv
  OBVIOUS
<1>1. Shape
  BY CycleFacts DEF Init, Shape, Places
<1>2. Pending /\ Failing
  BY DEF Init, Pending, Failing
<1>3. Progressing
  BY DEF Init, Progressing, Working, Accounted
<1> QED
  BY <1>1, <1>2, <1>3 DEF IInv

\* A reset leaves an alarm, once raised, with a reset beside it.
LEMMA ResetPends ==
  ASSUME Pending, mc_reset, UNCHANGED abort
  PROVE  /\ abort' => "RESET" \in exec_state'
         /\ "RESET" \in exec_state'
         /\ exec_alarm # "none" => exec_alarm' # "none"
<1>1. CASE "RESET" \in exec_state
  BY <1>1 DEF Pending, mc_reset, flagVars
<1>2. CASE "RESET" \notin exec_state
  <2>1. exec_state' = exec_state \cup {"RESET"}
    BY <1>2 DEF mc_reset
  <2>2. exec_alarm # "none" => ResetAlarm(exec_alarm) # "none"
    BY DEF ResetAlarm
  <2> QED
    BY <1>2, <2>1, <2>2 DEF mc_reset
<1> QED
  BY <1>1, <1>2

LEMMA NextIInv ==
  ASSUME NoRejectedHoming, IInv, [Next]_vars
  PROVE  IInv'
<1> USE DEF IInv, Shape, Pending, Failing, Progressing, Accounted, Working, Places, HomedSoFar
<1>1. CASE Step
  BY <1>1 DEF Step, Frame, machineVars, motionVars, flagVars, passVars, countVars
<1>2. CASE StepperStops
  BY <1>2 DEF StepperStops, Frame, machineVars, motionVars, flagVars, passVars, countVars
<1>3. CASE EnterCycle
  BY <1>3 DEF EnterCycle, Frame, machineVars, motionVars, flagVars, passVars, countVars
<1>4. CASE BeginPass
  BY CycleFacts, <1>4 DEF BeginPass, Axis, Frame, machineVars, motionVars, flagVars, passVars, countVars
<1>5. CASE WakeUp
  BY <1>5 DEF WakeUp, Frame, machineVars, motionVars, flagVars, passVars, countVars
<1>6. CASE PollLimits
  BY <1>6 DEF PollLimits, Frame, machineVars, motionVars, flagVars, passVars, countVars
<1>7. CASE CheckFlags
  BY <1>7 DEF CheckFlags, Frame, machineVars, motionVars, flagVars, passVars, countVars
<1>8. CASE Fail
  BY ResetPends, <1>8 DEF Fail, Frame, machineVars, motionVars, flagVars, passVars, countVars
<1>9. CASE StopPass
  BY <1>9 DEF StopPass, Frame, machineVars, motionVars, flagVars, passVars, countVars
<1>10. CASE EndDelay
  BY <1>10 DEF EndDelay, Frame, machineVars, motionVars, flagVars, passVars, countVars
<1>11. CASE SetAxis
  <2>1. pc = "set" /\ ~abort /\ HomedSoFar /\ homed' = homed \cup {Cycles[cycle]}
    BY <1>11 DEF SetAxis, Axis
  <2>2. UNCHANGED <<state, abort, exec_state, exec_alarm, unlocked>>
    BY <1>11 DEF SetAxis, flagVars, Frame
  <2>3. \A i \in DOMAIN Cycles : i <= cycle => Cycles[i] \in homed'
    BY <2>1, CycleFacts
  <2>4. homed' \subseteq Axes
    BY <2>1, CycleFacts
  <2>5. CASE cycle < Len(Cycles)
    <3>1. cycle' = cycle + 1 /\ pc' = "home"
      BY <1>11, <2>5 DEF SetAxis
    <3>2. cycle' \in DOMAIN Cycles /\ HomedSoFar'
      BY <2>3, <2>5, <3>1, CycleFacts
    <3> QED
      BY <2>1, <2>2, <2>4, <3>1, <3>2
  <2>6. CASE ~(cycle < Len(Cycles))
    <3>1. UNCHANGED cycle /\ pc' = "end"
      BY <1>11, <2>6 DEF SetAxis
    <3>2. \A i \in DOMAIN Cycles : Cycles[i] \in homed'
      BY <2>3, <2>6, CycleFacts
    <3>3. homed' = Axes
      BY <2>4, <3>2 DEF Axes
    <3> QED
      BY <2>1, <2>2, <3>1, <3>3
  <2> QED
    BY <2>5, <2>6
<1>12. CASE RtAlarm
  BY <1>12 DEF RtAlarm, Frame, machineVars, motionVars, flagVars, passVars, countVars
<1>13. CASE RtAbort
  BY <1>13 DEF RtAbort, Frame, machineVars, motionVars, flagVars, passVars, countVars
<1>14. CASE RtHold
  BY <1>14 DEF RtHold, Frame, machineVars, motionVars, flagVars, passVars, countVars
<1>15. CASE Finish
  BY <1>15 DEF Finish, Completed, Frame, machineVars, motionVars, flagVars, passVars, countVars
<1>16. CASE Initialise
  BY <1>16 DEF Initialise, Frame, machineVars, motionVars, flagVars, passVars, countVars
<1>17. CASE RunQueued
  BY <1>17 DEF RunQueued, Frame, machineVars, motionVars, flagVars, passVars, countVars
<1>18. CASE \E input \in Inputs : Receive(input)
  <2>1. PICK input \in Inputs : Receive(input)
    BY <1>18
  <2>2. UNCHANGED <<state, abort, pc, cycle, homed, unlocked>>
    BY <2>1 DEF Receive, passVars
  <2>3. CASE mc_reset
    BY <2>2, <2>3, ResetPends
  <2>4. CASE ~mc_reset
    <3>1. UNCHANGED exec_alarm /\ exec_state \subseteq exec_state'
      BY <2>1, <2>4 DEF Receive
    <3> QED
      BY <2>2, <3>1
  <2> QED
    BY <2>3, <2>4
<1>19. CASE HostLine
  <2>1. PICK command \in Commands :
           HomeLine(command) \/ UnlockLine(command) \/ MotionLine(command)
    BY <1>19 DEF HostLine
  <2>2. pc = "loop" /\ ~abort /\ UNCHANGED <<abort, exec_state, exec_alarm, homed>>
    BY <2>1 DEF HomeLine, UnlockLine, MotionLine, Line, flagVars
  <2>3. CASE HomeLine(command)
    <3>1. command = "$H"
      BY <2>3 DEF HomeLine, NoRejectedHoming
    <3>2. pc' = "home" /\ cycle' = 1
      BY <2>3, <3>1 DEF HomeLine
    <3> QED
      BY <2>2, <3>2, CycleFacts
  <2>4. CASE UnlockLine(command)
    BY <2>2, <2>4 DEF UnlockLine
  <2>5. CASE MotionLine(command)
    BY <2>2, <2>5 DEF MotionLine
  <2> QED
    BY <2>1, <2>3, <2>4, <2>5
<1>20. CASE UNCHANGED vars
  BY <1>20 DEF vars, machineVars, motionVars, flagVars, passVars, countVars
<1> QED
  BY <1>1, <1>2, <1>3, <1>4, <1>5, <1>6, <1>7, <1>8, <1>9, <1>10, <1>11, <1>12, <1>13, <1>14, <1>15, <1>16, <1>17, <1>18, <1>19, <1>20 DEF Next, MainStep, Interrupt

\* A machine that takes g-code has homed every axis or was unlocked by the user,
\* whatever stopped the homing cycle and whenever it did (motion_control.c:208-238,
\* system.c:188-205, main.c:73-75).
THEOREM FailedHomingSafety ==
  ASSUME NoRejectedHoming
  PROVE  Spec => []FailedHomingLocks
<1>1. Init => IInv
  BY InitIInv
<1>2. IInv /\ [Next]_vars => IInv'
  BY NextIInv
<1>3. IInv => FailedHomingLocks
  BY DEF IInv, Progressing, Accounted, FailedHomingLocks
<1> QED
  BY <1>1, <1>2, <1>3, PTL DEF Spec

-----------------------------------------------------------------------------
\* What homing reports is true.  The argument follows one axis through its
\* passes: the first approach may overrun the switch by any distance, but the
\* pull-off behind it is checked to have released the switch; the next approach
\* comes from less than a pull-off away and stops on the very step, in time
\* before its motion ends; so the last pull-off is made from the switch itself
\* and to its end.

PositionTypes ==
  /\ distance \in [Axes -> Int] /\ sys_position \in [Axes -> Int]
  /\ switches \in [Axes -> {"works", "broken", "stuck"}]
  /\ homing_axis_lock \in [Axes -> BOOLEAN]
  /\ steps_left \in Nat /\ n_cycle \in 0 .. (2 * N_HOMING_LOCATE_CYCLE + 1)
  /\ approach \in BOOLEAN /\ stepping \in BOOLEAN /\ polled \in BOOLEAN

Passing == {"pass", "wake", "poll", "check", "stop", "delay"}

\* The passes of an axis alternate, and none is begun after an abort.
PassControl ==
  /\ abort => "RESET" \in exec_state
  /\ pc \in Working \cup {"loop"} => ~abort
  /\ pc \in Passing \cup {"set"} \/ (pc = "home" /\ ~abort) => state = "HOMING"
  /\ pc \in Passing => (approach <=> n_cycle % 2 = 1)

\* The first approach is the only one at the seek rate; the pull-off behind it
\* is the only one that begins past the switch.
Seeking == n_cycle = 2 * N_HOMING_LOCATE_CYCLE + 1
FromOverrun == n_cycle = 2 * N_HOMING_LOCATE_CYCLE

\* The switch works and is not engaged, less than a pull-off away.
Near(d) == switches[Axis] = "works" /\ d >= 1 /\ d <= Pulloff

\* The axis stands where its switch engages, and no stop is pending.
AtSwitch ==
  /\ switches[Axis] = "works" /\ distance[Axis] = 0
  /\ "CYCLE_STOP" \notin exec_state

PassBegins ==
  /\ pc \in {"pass", "wake"} /\ ~Seeking =>
       IF approach THEN Near(distance[Axis])
       ELSE Engaged(Axis) /\ (~FromOverrun => AtSwitch)
  /\ pc = "wake" => homing_axis_lock[Axis] /\ steps_left = PassTravel

Approaches ==
  pc \in {"poll", "check", "stop"} /\ approach =>
    /\ pc = "poll" => homing_axis_lock[Axis]
    /\ ~homing_axis_lock[Axis] => Engaged(Axis)
    /\ pc = "stop" => ~homing_axis_lock[Axis]
    /\ ~Seeking =>
         /\ switches[Axis] = "works"
         /\ distance[Axis] >= 0 /\ distance[Axis] <= Pulloff
         /\ IF homing_axis_lock[Axis]
            THEN /\ steps_left >= LOCATE_SCALAR * Pulloff - Pulloff + distance[Axis]
                 /\ polled => distance[Axis] >= 1
            ELSE /\ distance[Axis] = 0
                 /\ steps_left >= LOCATE_SCALAR * Pulloff - Pulloff
                                    - (IF polled THEN 0 ELSE 1)
         /\ pc = "stop" => "CYCLE_STOP" \notin exec_state

PullsOff ==
  pc \in {"poll", "check", "stop"} /\ ~approach =>
    /\ homing_axis_lock[Axis]
    /\ switches[Axis] # "broken"
    /\ switches[Axis] = "works" => distance[Axis] + steps_left <= Pulloff
    /\ pc = "stop" => switches[Axis] = "works" /\ distance[Axis] >= 1
    /\ ~FromOverrun =>
         /\ switches[Axis] = "works" /\ distance[Axis] + steps_left = Pulloff
         /\ "CYCLE_STOP" \in exec_state \/ pc = "stop" => steps_left = 0

PassEnds ==
  /\ pc = "delay" =>
       IF approach THEN Engaged(Axis) /\ (~Seeking => AtSwitch)
       ELSE Near(distance[Axis]) /\ (~FromOverrun => distance[Axis] = Pulloff)
  /\ pc = "set" => switches[Axis] = "works" /\ distance[Axis] = Pulloff

\* Nothing that moves is homed.
Unhomed ==
  /\ pc \in Passing \ {"pass"} => Axis \notin homed
  /\ stepping => /\ Axis \notin homed
                 /\ \/ pc \in {"poll", "check", "stop", "fail", "fail_rt", "fail_snap"}
                    \/ abort

PositionInv ==
  /\ Shape /\ PositionTypes /\ PassControl
  /\ PassBegins /\ Approaches /\ PullsOff /\ PassEnds
  /\ Unhomed /\ HomedPosition
\* What the proof uses of the constants, and of the axis being homed.
LEMMA AxisFacts ==
  ASSUME Shape
  PROVE  /\ Axis \in Axes /\ Sign(Axis) \in Int
         /\ Pulloff \in Nat /\ Travel \in Nat /\ SEARCH_TRAVEL \in Nat /\ HardStop \in Nat
         /\ N_HOMING_LOCATE_CYCLE \in Nat \ {0}
         /\ LOCATE_SCALAR * Pulloff \in Nat /\ LOCATE_SCALAR * Pulloff > Pulloff + 1
<1>1. cycle \in DOMAIN Cycles
  BY DEF Shape
<1>2. LOCATE_SCALAR * Pulloff \in Nat
  BY HomingAssumption
<1> QED
  BY <1>1, <1>2, CycleFacts, HomingAssumption, LocateAssumption DEF Axis, Sign

\* The machine comes up with no axis homed and nothing moving.
LEMMA InitPosition == Init => PositionInv
<1> SUFFICES ASSUME Init PROVE PositionInv
  OBVIOUS
<1>1. Shape
  BY CycleFacts DEF Init, Shape, Places
<1>2. PositionTypes
  <2>1. distance \in [Axes -> Int]
    BY HomingAssumption DEF Init
  <2>2. n_cycle \in 0 .. (2 * N_HOMING_LOCATE_CYCLE + 1) /\ steps_left \in Nat
    BY HomingAssumption DEF Init
  <2>3. sys_position \in [Axes -> Int] /\ homing_axis_lock \in [Axes -> BOOLEAN]
    BY DEF Init
  <2>4. stepping \in BOOLEAN /\ approach \in BOOLEAN /\ polled \in BOOLEAN
    BY DEF Init
  <2> QED
    BY <2>1, <2>2, <2>3, <2>4 DEF Init, PositionTypes
<1>3. PassControl /\ PassBegins /\ Approaches /\ PullsOff /\ PassEnds /\ Unhomed
  BY DEF Init, PassControl, Working, Passing, PassBegins, Approaches, PullsOff, PassEnds, Unhomed
<1>4. HomedPosition
  BY DEF Init, HomedPosition
<1> QED
  BY <1>1, <1>2, <1>3, <1>4 DEF PositionInv

\* A reset, wherever it comes from, only stops what moves and raises flags.
LEMMA ResetStops ==
  ASSUME mc_reset, stepping \in BOOLEAN
  PROVE  /\ exec_state' = exec_state \cup {"RESET"}
         /\ stepping' \in BOOLEAN /\ (stepping' => stepping)
<1>1. CASE "RESET" \in exec_state
  BY <1>1 DEF mc_reset, flagVars
<1>2. CASE "RESET" \notin exec_state
  BY <1>2 DEF mc_reset
<1> QED
  BY <1>1, <1>2

\* A pulse that goes out moves the axis being homed only, and keeps what each
\* pass relies on.
LEMMA StepPosition ==
  ASSUME PositionInv, Step
  PROVE  PositionInv'
<1> DEFINE a == Axis
           forward == IF approach THEN 1 ELSE -1
           free == forward = 1 => distance[a] > -HardStop
<1>1. /\ stepping /\ steps_left > 0 /\ steps_left' = steps_left - 1 /\ polled' = FALSE
      /\ (Slow /\ pc \in {"poll", "check", "stop"} => polled)
      /\ UNCHANGED <<switches, stepping, state, abort, exec_state, exec_alarm, homing_axis_lock,
                     pc, cycle, n_cycle, approach, homed>>
  BY DEF Step, flagVars, passVars
<1>2. sys_position' = [sys_position EXCEPT ![a] = @ + forward * Sign(a)]
  BY DEF Step
<1>3. distance' = [distance EXCEPT ![a] =
                     IF (state # "HOMING" \/ homing_axis_lock[a]) /\ free
                     THEN @ - forward ELSE @]
  BY DEF Step
<1>4. a \in Axes /\ a' = a /\ forward \in {-1, 1} /\ forward * Sign(a) \in Int
  BY <1>1, AxisFacts DEF PositionInv, Axis, Sign
<1>5. a \notin homed /\ (pc \in Passing => pc \in {"poll", "check", "stop"})
  BY <1>1 DEF PositionInv, Unhomed, PassControl, Passing, Working
<1> HIDE DEF a, forward
<1>6. Shape' /\ PassControl'
  BY <1>1 DEF PositionInv, Shape, PassControl
<1>7. PositionTypes'
  <2> USE DEF PositionInv, PositionTypes
  <2>1. sys_position' \in [Axes -> Int]
    BY <1>2, <1>4
  <2>2. distance' \in [Axes -> Int]
    BY <1>3, <1>4
  <2>3. steps_left' \in Nat
    BY <1>1
  <2> QED
    BY <1>1, <2>1, <2>2, <2>3
<1>8. HomedPosition'
  BY <1>1, <1>2, <1>3, <1>4, <1>5 DEF PositionInv, HomedPosition, PositionTypes, Shape
<1>9. Unhomed' /\ PassBegins' /\ PassEnds'
  <2>1. Unhomed'
    BY <1>1, <1>4 DEF PositionInv, Unhomed, a
  <2>2. pc' \notin {"pass", "wake", "delay", "set"}
    BY <1>1 DEF PositionInv, Unhomed, PassControl, Working
  <2> QED
    BY <2>1, <2>2 DEF PassBegins, PassEnds
<1>10. ASSUME pc \in {"poll", "check", "stop"}
       PROVE  /\ state = "HOMING"
              /\ distance'[a] = IF homing_axis_lock[a] /\ free
                                THEN distance[a] - forward ELSE distance[a]
              /\ distance[a] \in Int /\ steps_left \in Nat /\ HardStop \in Nat
              /\ Pulloff \in Nat /\ LOCATE_SCALAR * Pulloff \in Nat
  BY <1>3, <1>4, <1>10, AxisFacts DEF PositionInv, PositionTypes, PassControl, Passing
<1>11. Approaches'
  <2> SUFFICES ASSUME pc \in {"poll", "check", "stop"}, approach
               PROVE  Approaches'
    BY <1>1 DEF Approaches
  <2>1. forward = 1
    BY DEF forward
  <2>2. n_cycle \in Nat /\ N_HOMING_LOCATE_CYCLE \in Nat /\ n_cycle <= 2 * N_HOMING_LOCATE_CYCLE + 1
    BY AxisFacts DEF PositionInv, PositionTypes
  <2>3. ~Seeking => polled
    BY <1>1, <2>2 DEF Seeking, Slow
  <2>4. Approaches
    BY DEF PositionInv
  <2>5. Engaged(a) => Engaged(a)'
    BY <1>1, <1>10, <1>4, <2>1 DEF Engaged
  <2> QED
    BY <1>1, <1>4, <1>10, <2>1, <2>3, <2>4, <2>5 DEF Approaches, Seeking, a
<1>12. PullsOff'
  <2> SUFFICES ASSUME pc \in {"poll", "check", "stop"}, ~approach
               PROVE  PullsOff'
    BY <1>1 DEF PullsOff
  <2>1. forward = -1 /\ free
    BY DEF forward
  <2> QED
    BY <1>1, <1>4, <1>10, <2>1 DEF PositionInv, PullsOff, FromOverrun, a
<1> QED
  BY <1>6, <1>7, <1>8, <1>9, <1>11, <1>12 DEF PositionInv

\* A pass goes on past its check only when nothing went wrong.
LEMMA PassFails ==
  ASSUME Failure = "none"
  PROVE  /\ ~NotFound /\ ~PulloffFailed
         /\ "SAFETY_DOOR" \notin exec_state /\ "RESET" \notin exec_state
<1>1. ~(NotFound /\ PulloffFailed)
  BY DEF NotFound, PulloffFailed
<1>2. NotFound => Failure = "HOMING_FAIL_APPROACH"
  BY <1>1 DEF Failure
<1>3. ~NotFound /\ PulloffFailed => Failure = "HOMING_FAIL_PULLOFF"
  BY DEF Failure
<1>4. ~NotFound /\ ~PulloffFailed /\ "SAFETY_DOOR" \in exec_state => Failure = "HOMING_FAIL_DOOR"
  BY DEF Failure
<1>5. ~NotFound /\ ~PulloffFailed /\ exec_state \cap {"SAFETY_DOOR", "RESET"} = {"RESET"}
        => Failure = "HOMING_FAIL_RESET"
  BY DEF Failure
<1>6. "SAFETY_DOOR" \notin exec_state /\ "RESET" \in exec_state
        => exec_state \cap {"SAFETY_DOOR", "RESET"} = {"RESET"}
  OBVIOUS
<1> QED
  BY <1>2, <1>3, <1>4, <1>5, <1>6

\* Every step keeps the invariant.
LEMMA NextPosition ==
  ASSUME PositionInv, [Next]_vars
  PROVE  PositionInv'
<1>a. /\ Axis \in Axes /\ cycle \in DOMAIN Cycles
      /\ Pulloff \in Nat /\ Travel \in Nat /\ SEARCH_TRAVEL \in Nat /\ HardStop \in Nat
      /\ N_HOMING_LOCATE_CYCLE \in Nat \ {0}
      /\ LOCATE_SCALAR * Pulloff \in Nat /\ LOCATE_SCALAR * Pulloff > Pulloff + 1
  BY AxisFacts DEF PositionInv, Shape
<1> USE DEF PositionInv
<1>1. CASE Step
  BY <1>1, StepPosition
<1>2. CASE StepperStops
  <2>1. /\ stepping /\ steps_left = 0 /\ ~stepping' /\ stepping' \in BOOLEAN
        /\ exec_state' = exec_state \cup {"CYCLE_STOP"}
        /\ UNCHANGED <<distance, switches, steps_left, state, abort, homing_axis_lock,
                       sys_position, pc, cycle, n_cycle, approach, polled, homed>>
    BY <1>2 DEF StepperStops, machineVars, passVars
  <2>2. pc \notin {"pass", "wake", "delay", "set"} \/ abort
    BY <2>1 DEF Unhomed
  <2>3. Shape' /\ PositionTypes' /\ PassControl' /\ Unhomed' /\ HomedPosition'
    BY <2>1 DEF Shape, PositionTypes, PassControl, Unhomed, HomedPosition, Axis
  <2>4. pc \notin {"pass", "wake", "delay", "set"}
    BY <2>2 DEF PassControl, Working
  <2>5. PassBegins' /\ PassEnds'
    BY <2>1, <2>4 DEF PassBegins, PassEnds
  <2>6. Approaches'
    BY <2>1, <2>4, <1>a DEF Approaches, Engaged, Axis, Seeking, PositionTypes
  <2>7. PullsOff'
    BY <2>1, <2>4 DEF PullsOff, Axis, FromOverrun
  <2> QED
    BY <2>3, <2>5, <2>6, <2>7
<1>3. CASE EnterCycle
  <2>1. /\ pc = "home"
        /\ UNCHANGED <<distance, switches, stepping, steps_left, state, abort, exec_state,
                       homing_axis_lock, sys_position, cycle, polled, homed>>
    BY <1>3 DEF EnterCycle, Frame, motionVars, flagVars
  <2>2. CASE abort
    <3>1. pc' = "end" /\ UNCHANGED <<n_cycle, approach>>
      BY <1>3, <2>2 DEF EnterCycle
    <3> QED
      BY <2>1, <2>2, <3>1 DEF Shape, Places, PositionTypes, PassControl, Working, Passing,
         PassBegins, Approaches, PullsOff, PassEnds, Unhomed, HomedPosition, Axis
  <2>3. CASE ~abort
    <3>1. n_cycle' = 2 * N_HOMING_LOCATE_CYCLE + 1 /\ approach' = TRUE /\ pc' = "pass"
      BY <1>3, <2>3 DEF EnterCycle
    <3>2. n_cycle' \in 0 .. (2 * N_HOMING_LOCATE_CYCLE + 1) /\ n_cycle' % 2 = 1
      BY <3>1, <1>a
    <3>3. Seeking'
      BY <3>1 DEF Seeking
    <3>4. Shape' /\ PositionTypes' /\ HomedPosition'
      BY <2>1, <3>1, <3>2 DEF Shape, Places, Working, PositionTypes, HomedPosition
    <3>5. PassControl' /\ Unhomed'
      BY <2>1, <2>3, <3>1, <3>2 DEF PassControl, Working, Passing, Unhomed, Axis
    <3> QED
      BY <3>1, <3>3, <3>4, <3>5 DEF PassBegins, Approaches, PullsOff, PassEnds
  <2> QED
    BY <2>2, <2>3
<1>4. CASE BeginPass
  <2>1. /\ pc = "pass" /\ pc' = "wake"
        /\ sys_position' = [sys_position EXCEPT ![Axis] = 0]
        /\ homed' = homed \ {Axis}
        /\ homing_axis_lock' = [homing_axis_lock EXCEPT ![Axis] = TRUE]
        /\ steps_left' = PassTravel
        /\ UNCHANGED <<distance, switches, stepping, state, abort, exec_state,
                       cycle, n_cycle, approach, polled>>
    BY <1>4 DEF BeginPass, Frame, flagVars, passVars
  <2>2. Axis' = Axis /\ PassTravel' = PassTravel /\ PassTravel \in Nat
    BY <2>1, <1>a DEF Axis, PassTravel, Slow
  <2>3. Shape' /\ PositionTypes' /\ PassControl'
    BY <2>1, <2>2, <1>a DEF Shape, Places, Working, Passing, PositionTypes, PassControl
  <2>4. PassBegins'
    BY <2>1, <2>2, <1>a DEF PassBegins, PositionTypes, Seeking, FromOverrun, Near, AtSwitch, Engaged
  <2>5. Unhomed' /\ HomedPosition'
    BY <2>1, <2>2 DEF Unhomed, HomedPosition, Shape, PositionTypes
  <2> QED
    BY <2>1, <2>3, <2>4, <2>5 DEF Approaches, PullsOff, PassEnds
<1>5. CASE WakeUp
  <2>1. /\ pc = "wake" /\ pc' = "poll" /\ stepping' = TRUE /\ polled' = FALSE
        /\ UNCHANGED <<distance, switches, steps_left, state, abort, exec_state,
                       homing_axis_lock, sys_position, cycle, n_cycle, approach, homed>>
    BY <1>5 DEF WakeUp, Frame, flagVars, passVars
  <2>2. Axis' = Axis
    BY <2>1 DEF Axis
  <2>3. Shape' /\ PositionTypes' /\ PassControl' /\ HomedPosition' /\ Unhomed'
    BY <2>1, <2>2 DEF Shape, Places, Working, Passing, PositionTypes, PassControl, HomedPosition, Unhomed
  <2>4. homing_axis_lock[Axis] /\ steps_left = PassTravel
    BY <2>1 DEF PassBegins
  <2>5. ASSUME approach, ~Seeking
        PROVE  Near(distance[Axis]) /\ steps_left = LOCATE_SCALAR * Pulloff
    BY <2>1, <2>4, <2>5, <1>a DEF PassBegins, PassTravel, Slow, Seeking, PositionTypes
  <2>6. ASSUME ~approach
        PROVE  Engaged(Axis) /\ steps_left = Pulloff /\ (~FromOverrun => AtSwitch)
    <3>1. ~Seeking
      BY <2>1, <2>6, <1>a DEF PassControl, Passing, Seeking
    <3> QED
      BY <2>1, <2>4, <2>6, <3>1 DEF PassBegins, PassTravel
  <2>7. Approaches'
    BY <2>1, <2>2, <2>4, <2>5, <1>a DEF Approaches, Near, Seeking, PositionTypes
  <2>8. PullsOff'
    BY <2>1, <2>2, <2>4, <2>6, <1>a DEF PullsOff, AtSwitch, Engaged, FromOverrun, PositionTypes
  <2> QED
    BY <2>1, <2>3, <2>7, <2>8 DEF PassBegins, PassEnds
<1>6. CASE PollLimits
  <2>1. /\ pc = "poll" /\ pc' = "check" /\ polled' = TRUE
        /\ homing_axis_lock' =
             IF approach /\ Engaged(Axis)
             THEN [homing_axis_lock EXCEPT ![Axis] = FALSE] ELSE homing_axis_lock
        /\ UNCHANGED <<distance, switches, stepping, steps_left, state, abort, exec_state,
                       sys_position, cycle, n_cycle, approach, homed>>
    BY <1>6 DEF PollLimits, Frame, flagVars, motionVars, passVars
  <2>2. Axis' = Axis /\ (Engaged(Axis)' <=> Engaged(Axis)) /\ (Seeking' <=> Seeking)
    BY <2>1 DEF Axis, Engaged, Seeking
  <2>3. Shape' /\ PositionTypes' /\ PassControl' /\ HomedPosition' /\ Unhomed'
    BY <2>1, <2>2 DEF Shape, Places, Working, Passing, PositionTypes, PassControl, HomedPosition, Unhomed
  <2>4. Approaches'
    <3> SUFFICES ASSUME approach PROVE Approaches'
      BY <2>1 DEF Approaches
    <3>1. homing_axis_lock'[Axis] <=> ~Engaged(Axis)
      BY <2>1, <1>a DEF Approaches, PositionTypes
    <3>2. Engaged(Axis) /\ switches[Axis] = "works" => distance[Axis] <= 0
      BY DEF Engaged
    <3>3. ~Engaged(Axis) /\ switches[Axis] = "works" => ~(distance[Axis] <= 0)
      BY DEF Engaged
    <3>4. distance[Axis] \in Int /\ steps_left \in Nat
      BY <1>a DEF PositionTypes
    <3> QED
      BY <2>1, <2>2, <3>1, <3>2, <3>3, <3>4, <1>a DEF Approaches
  <2>5. PullsOff'
    BY <2>1, <2>2 DEF PullsOff, FromOverrun
  <2> QED
    BY <2>1, <2>3, <2>4, <2>5 DEF PassBegins, PassEnds
<1>7. CASE CheckFlags
  <2>1. /\ pc = "check" /\ pc' \in {"poll", "stop", "fail"}
        /\ UNCHANGED <<distance, switches, stepping, steps_left, state, abort,
                       homing_axis_lock, sys_position, cycle, n_cycle, approach, polled, homed>>
    BY <1>7 DEF CheckFlags, Frame, motionVars, passVars
  <2>2. Axis' = Axis /\ (Engaged(Axis)' <=> Engaged(Axis)) /\ (Seeking' <=> Seeking)
        /\ (FromOverrun' <=> FromOverrun)
    BY <2>1 DEF Axis, Engaged, Seeking, FromOverrun
  <2>3. abort => "RESET" \in exec_state'
    BY <2>1 DEF PassControl, Working
  <2>4. Shape' /\ PositionTypes' /\ PassControl' /\ HomedPosition' /\ Unhomed'
    BY <2>1, <2>2, <2>3 DEF Shape, Places, Working, Passing, PositionTypes, PassControl, HomedPosition, Unhomed
  <2>5. PassBegins' /\ PassEnds'
    BY <2>1 DEF PassBegins, PassEnds
  <2>6. CASE exec_state \cap ExitFlags = {}
    <3>1. /\ pc' = IF Located THEN "stop" ELSE "poll"
          /\ exec_state' = exec_state /\ "CYCLE_STOP" \notin exec_state
      BY <1>7, <2>6 DEF CheckFlags, flagVars, ExitFlags
    <3>2. Approaches'
      BY <2>1, <2>2, <3>1, <1>a DEF Approaches, Located, PositionTypes
    <3>3. PullsOff'
      BY <2>1, <2>2, <3>1, <1>a DEF PullsOff, Located, PositionTypes
    <3> QED
      BY <2>4, <2>5, <3>2, <3>3
  <2>7. CASE exec_state \cap ExitFlags # {} /\ Failure # "none"
    <3>1. pc' = "fail"
      BY <1>7, <2>7 DEF CheckFlags
    <3> QED
      BY <2>4, <2>5, <3>1 DEF Approaches, PullsOff
  <2>8. CASE exec_state \cap ExitFlags # {} /\ Failure = "none"
    <3>1. pc' = "stop" /\ exec_state' = exec_state \ {"CYCLE_STOP"}
      BY <1>7, <2>8 DEF CheckFlags
    <3>2. ~approach /\ ~Engaged(Axis) /\ "CYCLE_STOP" \in exec_state
      BY <2>8, PassFails DEF NotFound, PulloffFailed, ExitFlags
    <3>3. switches[Axis] = "works" /\ distance[Axis] >= 1
      BY <2>1, <3>2, <1>a DEF PullsOff, Engaged, PositionTypes
    <3>4. PullsOff'
      BY <2>1, <2>2, <3>1, <3>2, <3>3 DEF PullsOff
    <3> QED
      BY <2>1, <2>4, <2>5, <3>2, <3>4 DEF Approaches
  <2> QED
    BY <2>6, <2>7, <2>8
<1>8. CASE Fail
  <2>1. /\ pc = "fail" /\ pc' = "fail_rt" /\ mc_reset
        /\ UNCHANGED <<distance, switches, steps_left, state, abort, homing_axis_lock,
                       sys_position, cycle, n_cycle, approach, polled, homed>>
    BY <1>8 DEF Fail, Frame, passVars
  <2>2. exec_state' = exec_state \cup {"RESET"} /\ stepping' \in BOOLEAN /\ (stepping' => stepping)
    BY <2>1, ResetStops DEF PositionTypes
  <2> QED
    BY <2>1, <2>2 DEF Shape, Places, Working, Passing, PositionTypes, PassControl, HomedPosition,
       Unhomed, Axis, PassBegins, PassEnds, Approaches, PullsOff
<1>9. CASE StopPass
  <2>1. /\ pc = "stop" /\ pc' = "delay" /\ stepping' = FALSE /\ steps_left' = 0
        /\ UNCHANGED <<distance, switches, state, abort, exec_state, homing_axis_lock,
                       sys_position, cycle, n_cycle, approach, polled, homed>>
    BY <1>9 DEF StopPass, Frame, flagVars, passVars
  <2>2. Axis' = Axis /\ (Engaged(Axis)' <=> Engaged(Axis)) /\ (Seeking' <=> Seeking)
        /\ (FromOverrun' <=> FromOverrun)
    BY <2>1 DEF Axis, Engaged, Seeking, FromOverrun
  <2>3. Shape' /\ PositionTypes' /\ PassControl' /\ HomedPosition' /\ Unhomed'
    BY <2>1, <2>2 DEF Shape, Places, Working, Passing, PositionTypes, PassControl, HomedPosition, Unhomed
  <2>4. PassEnds'
    BY <2>1, <2>2, <1>a DEF PassEnds, Approaches, PullsOff, Near, AtSwitch, PositionTypes
  <2> QED
    BY <2>1, <2>3, <2>4 DEF PassBegins, Approaches, PullsOff
<1>10. CASE EndDelay
  <2>1. /\ pc = "delay" /\ approach' = ~approach
        /\ IF n_cycle > 0 THEN n_cycle' = n_cycle - 1 /\ pc' = "pass"
           ELSE pc' = "set" /\ UNCHANGED n_cycle
        /\ UNCHANGED <<distance, switches, stepping, steps_left, state, abort, exec_state,
                       homing_axis_lock, sys_position, cycle, polled, homed>>
    BY <1>10 DEF EndDelay, Frame, flagVars, motionVars
  <2>2. Axis' = Axis /\ (Engaged(Axis)' <=> Engaged(Axis)) /\ (AtSwitch' <=> AtSwitch)
    BY <2>1 DEF Axis, Engaged, AtSwitch
  <2>3. Shape' /\ PositionTypes' /\ HomedPosition' /\ Unhomed'
    BY <2>1, <2>2, <1>a DEF Shape, Places, Working, Passing, PositionTypes, PassControl,
       HomedPosition, Unhomed
  <2>4. n_cycle \in Nat /\ approach \in BOOLEAN /\ (approach <=> n_cycle % 2 = 1)
    BY <2>1 DEF PassControl, Passing, PositionTypes
  <2>5. pc' = "pass" => (approach' <=> n_cycle' % 2 = 1)
    <3>1. \A n \in Nat : n > 0 => (((n - 1) % 2 = 1) <=> ~(n % 2 = 1))
      OBVIOUS
    <3> QED
      BY <2>1, <2>4, <3>1
  <2>6. PassControl'
    BY <2>1, <2>5 DEF PassControl, Working, Passing
  <2>7. PassBegins'
    <3> SUFFICES ASSUME pc' = "pass", ~Seeking'
                 PROVE  IF approach' THEN Near(distance[Axis])' ELSE (Engaged(Axis) /\ (~FromOverrun => AtSwitch))'
      BY <2>1 DEF PassBegins
    <3>1. n_cycle' = n_cycle - 1
      BY <2>1
    <3>2. FromOverrun' <=> Seeking
      BY <2>4, <3>1, <1>a DEF FromOverrun, Seeking
    <3>3. approach => Engaged(Axis) /\ (~Seeking => AtSwitch)
      BY <2>1 DEF PassEnds
    <3>4. ~approach => Near(distance[Axis])
      BY <2>1 DEF PassEnds
    <3>5. Near(distance[Axis]) => Near(distance[Axis])'
      BY <2>1, <2>2 DEF Near
    <3> QED
      BY <2>1, <2>2, <3>2, <3>3, <3>4, <3>5
  <2>8. PassEnds'
    BY <2>1, <2>2, <2>4, <1>a DEF PassEnds, FromOverrun, Near
  <2> QED
    BY <2>1, <2>3, <2>6, <2>7, <2>8 DEF Approaches, PullsOff
<1>11. CASE SetAxis
  <2>1. /\ pc = "set" /\ sys_position' = [sys_position EXCEPT ![Axis] = SetPosition(Axis)]
        /\ homed' = homed \cup {Axis}
        /\ IF cycle < Len(Cycles) THEN cycle' = cycle + 1 /\ pc' = "home"
           ELSE pc' = "end" /\ UNCHANGED cycle
        /\ UNCHANGED <<distance, switches, stepping, steps_left, state, abort, exec_state,
                       homing_axis_lock, n_cycle, approach, polled>>
    BY <1>11 DEF SetAxis, Frame, flagVars, motionVars
  <2>2. switches[Axis] = "works" /\ distance[Axis] = Pulloff /\ ~stepping /\ ~abort
    BY <2>1 DEF PassEnds, Unhomed, PassControl, Working
  <2>3. Shape'
    BY <2>1, <1>a, CycleFacts DEF Shape, Places, Working
  <2>4. SetPosition(Axis) \in Int
    BY <1>a DEF SetPosition
  <2>5. PositionTypes'
    BY <2>1, <2>4, <1>a DEF PositionTypes
  <2>6. HomedPosition'
    BY <2>1, <2>2, <1>a DEF HomedPosition, SetPosition, PositionTypes, Shape
  <2>7. PassControl' /\ Unhomed'
    BY <2>1, <2>2 DEF PassControl, Unhomed, Passing, Working
  <2> QED
    BY <2>1, <2>3, <2>5, <2>6, <2>7 DEF PassBegins, Approaches, PullsOff, PassEnds
<1>12. CASE RtAlarm
  <2>1. /\ UNCHANGED <<distance, switches, stepping, steps_left, abort, exec_state,
                       homing_axis_lock, sys_position, cycle, n_cycle, approach, polled, homed>>
        /\ \/ pc = "fail_rt" /\ pc' = "fail_snap"
           \/ pc = "end" /\ pc' = "end_snap"
           \/ pc = "loop" /\ pc' = "loop_snap"
    <3>1. pc = "fail_rt" => pc' = "fail_snap"
      BY <1>12 DEF RtAlarm
    <3>2. pc = "end" => pc' = "end_snap"
      BY <1>12 DEF RtAlarm
    <3>3. pc = "loop" => pc' = "loop_snap"
      BY <1>12 DEF RtAlarm
    <3> QED
      BY <1>12, <3>1, <3>2, <3>3 DEF RtAlarm, Frame, motionVars, passVars
  <2> QED
    BY <2>1 DEF Shape, Places, Working, Passing, PositionTypes, PassControl, HomedPosition,
       Unhomed, Axis, PassBegins, PassEnds, Approaches, PullsOff
<1>13. CASE RtAbort
  <2>1. /\ UNCHANGED <<distance, switches, stepping, steps_left, exec_state, state,
                       homing_axis_lock, sys_position, cycle, n_cycle, approach, polled, homed>>
        /\ "RESET" \in exec_state /\ abort' = TRUE /\ pc' \in {"home", "finish"}
    BY <1>13 DEF RtAbort, Frame, motionVars, flagVars, passVars
  <2> QED
    BY <2>1 DEF Shape, Places, Working, Passing, PositionTypes, PassControl, HomedPosition,
       Unhomed, Axis, PassBegins, PassEnds, Approaches, PullsOff
<1>14. CASE RtHold
  <2>1. /\ UNCHANGED <<distance, switches, stepping, steps_left, abort,
                       homing_axis_lock, sys_position, cycle, n_cycle, approach, polled, homed>>
        /\ pc = "end_snap" /\ "RESET" \notin exec_state /\ pc' \in {"suspended", "finish"}
    BY <1>14 DEF RtHold, Frame, motionVars, passVars
  <2> QED
    BY <2>1 DEF Shape, Places, Working, Passing, PositionTypes, PassControl, HomedPosition,
       Unhomed, Axis, PassBegins, PassEnds, Approaches, PullsOff
<1>15. CASE Finish
  <2>1. /\ UNCHANGED <<distance, switches, stepping, steps_left, abort, exec_state,
                       homing_axis_lock, sys_position, cycle, n_cycle, approach, polled, homed>>
        /\ pc = "finish" /\ pc' = IF abort THEN "main" ELSE "loop"
    BY <1>15 DEF Finish, Frame, flagVars, motionVars, passVars
  <2> QED
    BY <2>1 DEF Shape, Places, Working, Passing, PositionTypes, PassControl, HomedPosition,
       Unhomed, Axis, PassBegins, PassEnds, Approaches, PullsOff
<1>16. CASE Initialise
  <2>1. /\ UNCHANGED <<distance, switches, sys_position, cycle, n_cycle, approach, polled, homed>>
        /\ stepping' = FALSE /\ steps_left' = 0 /\ abort' = FALSE /\ pc' = "loop"
        /\ homing_axis_lock' = [x \in Axes |-> FALSE]
    BY <1>16 DEF Initialise, machineVars, passVars
  <2> QED
    BY <2>1 DEF Shape, Places, Working, Passing, PositionTypes, PassControl, HomedPosition,
       Unhomed, Axis, PassBegins, PassEnds, Approaches, PullsOff
<1>17. CASE RunQueued
  <2>1. /\ UNCHANGED <<switches, stepping, steps_left, state, abort, exec_state, pc,
                       homing_axis_lock, cycle, n_cycle, approach, polled, homed>>
        /\ pc = "loop"
    BY <1>17 DEF RunQueued, flagVars, motionVars, passVars
  <2>2. PICK x \in Axes :
          /\ distance' = [distance EXCEPT ![x] = @ + 1]
          /\ sys_position' = [sys_position EXCEPT ![x] = @ - Sign(x)]
    BY <1>17 DEF RunQueued
  <2>3. PositionTypes'
    BY <2>1, <2>2 DEF PositionTypes, Sign
  <2>4. HomedPosition'
    BY <2>1, <2>2, <1>a DEF HomedPosition, PositionTypes, Shape, Sign
  <2> QED
    BY <2>1, <2>3, <2>4 DEF Shape, Passing, PassControl, Unhomed, Axis, PassBegins, PassEnds,
       Approaches, PullsOff
<1>18. CASE \E input \in Inputs : Receive(input)
  <2>1. PICK input \in Inputs : Receive(input)
    BY <1>18
  <2>2. UNCHANGED <<distance, switches, steps_left, state, abort, homing_axis_lock,
                    sys_position, pc, cycle, n_cycle, approach, polled, homed>>
    BY <2>1 DEF Receive, machineVars, passVars
  <2>3. /\ exec_state \subseteq exec_state' /\ stepping' \in BOOLEAN /\ (stepping' => stepping)
        /\ "CYCLE_STOP" \in exec_state' => "CYCLE_STOP" \in exec_state
    <3>1. CASE mc_reset
      BY <3>1, ResetStops DEF PositionTypes
    <3>2. CASE ~mc_reset
      BY <2>1, <3>2 DEF Receive, PositionTypes
    <3> QED
      BY <3>1, <3>2
  <2>4. Axis' = Axis /\ (Engaged(Axis)' <=> Engaged(Axis)) /\ (Seeking' <=> Seeking)
        /\ (FromOverrun' <=> FromOverrun) /\ (AtSwitch => AtSwitch') /\ PassTravel' = PassTravel
    BY <2>2, <2>3 DEF Axis, Engaged, Seeking, FromOverrun, AtSwitch, PassTravel, Slow
  <2>5. Shape' /\ PositionTypes' /\ PassControl' /\ HomedPosition' /\ Unhomed'
    BY <2>2, <2>3, <2>4 DEF Shape, PositionTypes, PassControl, HomedPosition, Unhomed
  <2>6. PassBegins' /\ PassEnds'
    BY <2>2, <2>4 DEF PassBegins, PassEnds, Near
  <2>7. Approaches' /\ PullsOff'
    BY <2>2, <2>3, <2>4 DEF Approaches, PullsOff
  <2> QED
    BY <2>5, <2>6, <2>7
<1>19. CASE HostLine
  <2>1. PICK command \in Commands :
           HomeLine(command) \/ UnlockLine(command) \/ MotionLine(command)
    BY <1>19 DEF HostLine
  <2>2. /\ pc = "loop" /\ ~abort
        /\ UNCHANGED <<distance, switches, stepping, steps_left, abort, exec_state,
                       homing_axis_lock, sys_position, n_cycle, approach, polled, homed>>
    BY <2>1 DEF HomeLine, UnlockLine, MotionLine, Line, machineVars, motionVars, flagVars
  <2>3. \/ pc' \in {"home", "loop"} /\ cycle' = 1 /\ state' = "HOMING"
        \/ pc' = "loop" /\ cycle' = cycle
    BY <2>1, <2>2 DEF HomeLine, UnlockLine, MotionLine
  <2>4. Shape'
    BY <2>2, <2>3, CycleFacts DEF Shape, Places
  <2> QED
    BY <2>2, <2>3, <2>4 DEF Passing, PositionTypes, PassControl, HomedPosition,
       Unhomed, Axis, PassBegins, PassEnds, Approaches, PullsOff, Working
<1>20. CASE UNCHANGED vars
  BY <1>20 DEF vars, machineVars, motionVars, flagVars, passVars, countVars, Shape, PositionTypes,
     PassControl, PassBegins, Approaches, PullsOff, PassEnds, Unhomed, HomedPosition, Axis, Seeking,
     FromOverrun, AtSwitch, Near, Engaged, PassTravel, Slow
<1> QED
  BY <1>1, <1>2, <1>3, <1>4, <1>5, <1>6, <1>7, <1>8, <1>9, <1>10, <1>11, <1>12, <1>13, <1>14,
     <1>15, <1>16, <1>17, <1>18, <1>19, <1>20 DEF Next, MainStep, Interrupt

\* What homing says of an axis is true, for any switch that works, breaks or
\* sticks, any overrun and whatever stops, doors and resets arrive
\* (limits.c:282-390, 503-541).
THEOREM HomedSafety == Spec => []HomedPosition
<1>1. Init => PositionInv
  BY InitPosition
<1>2. PositionInv /\ [Next]_vars => PositionInv'
  BY NextPosition
<1>3. PositionInv => HomedPosition
  BY DEF PositionInv
<1> QED
  BY <1>1, <1>2, <1>3, PTL DEF Spec
=============================================================================
