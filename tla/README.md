# Verification of Grbl-Mega-Plasma

TLA+ specifications of Grbl-Mega-Plasma, the CNC firmware in `src/` - its
control core, its motion pipeline, its parser, homing, stored settings and the link
to the host - the TLC configurations that check them on small instances, and
theorems proved with TLAPS for every instance. Line numbers refer to the
sources in `src/`.

The build that is modelled is the one `config.h` selects: RAMPS board
(`DEFAULTS_RAMPS_BOARD`, `CPU_MAP_2560_RAMPS_BOARD`), hence `DISABLE_HW_LIMITS`;
`HOMING_INIT_LOCK`, `CHECK_LIMITS_AT_INIT`, `DISABLE_LASER_DURING_HOLD`,
`FORCE_BUFFER_SYNC_DURING_WCO_CHANGE` and AMASS on;
`ENABLE_SAFETY_DOOR_INPUT_PIN`, `PARKING_ENABLE`, `SLEEP_ENABLE` and
`HOMING_SINGLE_AXIS_COMMANDS` off; `BLOCK_BUFFER_SIZE` 36 (35 usable),
`SEGMENT_BUFFER_SIZE` 10 (9 usable), serial buffers of 255 bytes, `LINE_BUFFER_SIZE` 256,
`N_HOMING_LOCATE_CYCLE` 1, homing cycles X, Y and Z one after the other.

## 1. The system

One main program and a handful of interrupts share memory; there is no
operating system. Everything hard about the firmware follows from that.

| Part | State it keeps | Operations | Talks to |
|---|---|---|---|
| main program (`main.c`, `protocol.c`) | the call stack; the line being assembled | boot and re-initialisation after a reset, main loop, line dispatch, buffer synchronisation | everything, by calls |
| realtime command system (`protocol_exec_rt_system`) | `sys.state`, `sys.suspend`, `sys.step_control`, `sys.spindle_stop_ovr`, overrides | alarm, snapshot, hold, cycle start, cycle stop, override stages; refills the segment buffer | reads the flags that interrupts set, starts and resets the stepper subsystem |
| suspend loop (`protocol_exec_rt_suspend`) | the condition to restore | wait for the hold, retract and restore for a door, sleep, spindle stop override | calls the realtime system on each pass |
| serial interface (`serial.c`) | two ring buffers | receive interrupt (picks off realtime commands), transmit interrupt, blocking write | sets the realtime flags, may call `mc_reset` |
| control pins (`system.c`) | none | pin change interrupt: reset, hold, start | sets the flags, may call `mc_reset` |
| planner (`planner.c`) | ring of blocks with tail, head and `block_buffer_planned` | add, look-ahead, get, discard, reset | main program at one end, segment generator at the other |
| stepper subsystem (`stepper.c`) | segment ring, ring of block data, prep state | segment generator (main), stepper interrupt (drains, raises the cycle stop, polls the probe), wake, idle, reset | planner, realtime flags, probe, spindle PWM |
| motion control (`motion_control.c`, `limits.c`, `jog.c`, `probe.c`) | probe state, soft limit flag | lines, dwell, probing cycle, jog, soft limit, homing, `mc_reset` | planner, realtime system |
| g-code parser, system commands (`gcode.c`, `system.c`) | modal state, coordinate systems | execute a line or `$` command | motion control, outputs, settings |
| spindle, coolant (`spindle_control.c`, `coolant_control.c`) | output registers | set, stop | called by main and by interrupts |
| ports (`ports.c`) | pin and alarm latches | pin waits M226/M227, servo and power alarms from a pin change interrupt | realtime system, serial port |
| torch height control (`thc.c`, `timer.c`, `adc.c`) | voltage reading, requests | a timer interrupt that counts; the correction is never switched on in this version | `sys_position` |
| settings, EEPROM (`settings.c`, `eeprom.c`) | records with checksums | load, store, restore | parser, `$` commands |
| reports, printing, configuration | none | formatting | serial interface |

What is hard: interrupts between any two steps of the main program; flags
handled from a snapshot and cleared later; flags set twice, or cleared unseen;
a stepper interrupt that itself can be interrupted; waits nested in waits, each
of which must notice a reset; two buffers between a line and its motion, so
that "no motion" has several meanings. `PROJECT.json` lists the hazards at
their lines.

What makes each part correct:

* realtime system and suspend loop: a hold is complete only at standstill, only
  a user resumes, outputs are off behind an open door and as planned on resume,
  an alarm stays, a reset stops the motion and is served;
* stepper subsystem and planner: nothing executed is overwritten, every motion
  ends with exactly one stop, a cancelled motion leaves nothing behind, the plan
  is the best the limits allow and the motion follows it;
* parser: after every line its state agrees with EEPROM, pins and planner, and
  an axis reads what the line said;
* homing: what it reports as homed is homed, a cycle that failed leaves the
  machine locked, and every cycle ends;
* serial interface and line assembly: lines arrive whole, each has one answer,
  messages stay in one piece, the host is always served;
* overrides: a command to slow down never makes the machine faster;
* settings: after any power loss what was stored is recalled, and what is in use
  is what is stored.

## 2. The modules

Six models, each of one way to look at the firmware. The *control core* has the
states, flags and waits of the whole machine and reduces motion to sequences of
segments. The *pipeline* has what motion is made of - planner ring, look-ahead,
velocity profile, slots, interrupt - and reduces the machine to idle, cycle and
hold. The *parser* has the words of a line and what they do to modes, offsets, records
and outputs. *Homing* has one axis after the other with its switch. The *settings* have the
EEPROM byte by byte. The *link* has the characters between host and main loop.

### 2.1 The control core

    SystemState    sys, realtime flags, buffers, outputs, control place; Init
      Stepper      segment generator; stepper interrupt and probe monitor
        Interrupts mc_reset; realtime commands and control pins
          RtSystem protocol_exec_rt_system
            RtSuspend   protocol_exec_rt_suspend
              MainProgram   boot, main loop, lines and what they wait in
                Grbl        composition, properties, fairness, invariant
                  MCGrbl           sets of lines and inputs for TLC
                  GrblProofs       proofs

**State.** The variables keep the source's names: `state` is `sys.state`,
`suspend`, `step_control`, `spindle_stop_ovr`, `soft_limit`, `abort` the other
fields of `sys`; the flag bytes are sets of flag names (`exec_state` is
`sys_rt_exec_state`, `rt_exec` the local copy of it). A planner block is its run of
segments: `plan` is what the generator has not yet prepared, `segs` the segment
buffer. `SegsPerBlock` segments make a block, and a partly prepared block still
occupies its place (`Blocks`). A segment remembers the line it comes from and the
spindle condition of its block. `pc` is the place of the main program between two steps;
`via` and `ret` say who called the realtime system and where it returns to (the
nesting never goes deeper: the suspend loop calls `protocol_exec_rt_system`
alone).

`user_start`, `rt_user_start` and `past` are history. The first two say whether a cycle start among the pending, or the
copied, flags is a user's. Where a start cannot be acted upon before something is restored, the code leaves
a flag (`INITIATE_RESTORE`, `RESTORE_CYCLE`) and raises a start of its own later
(`protocol.c:355`, `362`, `713-714`, `745-746`): `past` keeps whether the start that raised the flag was a user's (`Carry`), the
start raised later is as much a user's as that one, and only once (`Relay`). `past` also keeps that a
complete restore is being run again (`REPEATED`), until the suspend routine is left, and that a jog was cancelled and none
planned since (`CANCELLED`).

**Steps.** `protocol_exec_rt_system` is cut where an interrupt can make a
difference: alarm check (`rt_alarm`), critical alarm loop, snapshot (`rt_snap`),
hold (`rt_hold`), start (`rt_start`, and `rt_wake` for `st_prep_buffer` and
`st_wake_up`), stop (`rt_stop`), overrides and refill (`rt_over`). Each stage
includes the clearing of the flags it handled, so a flag set after the snapshot
and before the clearing is lost as in the code. The stepper interrupt is one
step per segment, one for the empty buffer, and two for the probe monitor, whose
`sys_rt_exec_state |= EXEC_MOTION_CANCEL` is a read, a modification and a write
with interrupts enabled: the serial interrupt may come between
(`IsrProbeRead`, `IsrProbeWrite`), the main program may not.
`st_prep_buffer` fills the segment buffer or uses up the plan; while a hold is executed it
may reach zero speed at any segment, ending on a whole or a partial one, and
raises `END_MOTION`. Where the velocity profile decides, the model allows
every outcome.

**Environment.** The host sends any line of `LineKinds` at any time, at most
`MaxLines` of them, and realtime commands of `RtInputs`, at most `MaxInputs`
(`MaxLines` and `MaxInputs` are the only bounds on behaviours). A kind of line stands for
what the main program does with it: `motion` any feed move, `soft` a move out of the
work space, `spindle` and `coolant` a toggle of the modal state (M3/M5, M8/M9),
`pause` M0, `end` M2/M30, `pin_async` and `pin_sync` M226/M227, then `probe`, `dwell` and the
system commands `$J`, `$X`, `$SLP`, `$C`.

**Simplifications.** `Boot` is one step: interrupts during the initialisation
are not modelled. `spindle` is the PWM output; writing spindle or coolant is one
step. Loading a segment, executing it and dropping it is one step. Startup
lines, laser mode, feed and spindle speed overrides and status reports are left
out.

### 2.2 The motion pipeline

    Planner        planner.c: ring, look-ahead passes, overrides, discard
      Segments     stepper.c: segment generator, slots, stepper interrupt
        Pipeline   the main program around them; properties
          MCPipeline      motions and overrides for TLC
          PipelineProofs  proofs: slots, types, refinement of MotionQueue, planned pointer
            PlannerProofs proofs: the plan, the generator's profile, the speed
    MotionQueue    abstract: motions executed in order, each to its end
    Sums           sums over what is buffered
      SumProofs    induction over the natural numbers, lemmas about sums

**Data.** The code compares squared speeds, so the model keeps speeds squared, and
gives a block its length as `gain` = 2 * acceleration * millimeters, the
squared speed gained or lost over it. One unit of `gain` is one unit of length and of steps;
a line is a record of its gain, its junction limit and its rate, which stands
for any geometry. `Nominal` squares rate times override; a factor 1 or 2
stands for the percentages.

**Planner.** `block_buffer`, `tail`, `head` and `planned` are the ring as it is,
stale slots included: `plan_reset` clears no slot, a line without length wipes the head's
slot (`BufferNothing`), and `planned` may walk over stale slots while the ring is empty. The reverse
and forward passes are functions over the distance from `planned`
(`ReversePass`, `ForwardPass`), with the code's shortcuts: a block at its maximum
is not recomputed, blocks before `planned` are not visited, the stepper subsystem is
told (`ReachesTail`) when the pass comes by the tail. `NewPlanned` is where the
forward pass leaves `block_buffer_planned`.

**Generator.** `prep` is `st_prep_t` with `pl_block` (`loaded`) and its flags. `Loaded`
computes the profile of a block as `st_prep_buffer` does: new or again, forced
deceleration of a hold, deceleration of an override that does not fit in the
block. A segment is any number of units (`PrepSegment`), since its length depends on time;
`SpeedAfter` is the speed there on the profile. One segment is one step: the interrupt comes between
any two, the main program does not (`prepping` is the loop of one call).
`PrepStandstill` is the hold that ends with no step left to make. Where a
reduced override has made the exit speed unreachable, `SpeedAfter` drops to it in the
first segment, while the code distributes the drop over its ramps; no property is claimed of the speed then
(`reduced`).

**Interrupt.** `IsrLoad`, `IsrDone` and `IsrEmpty` are the beginning and end of a segment and the
shutdown. `counters` names the motion whose Bresenham counters are set up. The segment ring is a
sequence; the ring of slots is modelled by its indices, since the interrupt
recognises a block by them.

**Main program.** One action per call that reaches planner or stepper subsystem:
`BufferLine`, `ChangeOverride`, `Hold`, `Start`, `CycleStop`, `Flush` (`plan_reset` with
`st_reset`, after a reset or a cancelled jog). `starved` and `reduced` are history: the interrupt
found the buffer empty while there was motion to prepare, and the override was reduced while blocks were queued.

### 2.3 The parser

    Gcode          gcode.c: words, checks, execution of a line
      MCGcode      words for TLC
      GcodeProofs  proofs

A line is begun with the modes of the state (`NewBlock`), takes words one at a time
(`TakeWord`: modal groups, the claim on the axis words, repeated words) and may end
after any of them. It is then either refused whole (`Refuse`; a record it found
unreadable has been zeroed) or executed (`Execute`, in the order of step 4 of
`gc_execute_line`); a jog takes the same way with its own restrictions. Modes are
named by the number of their command, distances are whole millimetres, and of a feed rate only its
unit is kept. The port's M commands act while the line is parsed and have no modal group: the source
tests and sets the bit of the word before them, or an uninitialised one (`PortWord`,
`UninitialisedBits`: undefined behaviour, a choice among the bits). Each
probing cycle has all its outcomes. `coord_data` and `intact` are the records of the EEPROM
and whether their checksums agree; `planned` is where the planner has been
told to go, and a reset comes after that motion.

### 2.4 Homing

    Homing         $H, mc_homing_cycle, limits_go_home
      MCHoming     two axes for TLC
      HomingProofs proofs

`distance` is how far an axis is from where its switch engages; a switch works, never engages or
never releases. The main program is at one of the places of `limits_go_home`: a pass
begins (`BeginPass` plans it and fills the segment buffer), steppers wake, switches are polled
(`PollLimits`), flags looked at (`CheckFlags`), the pass stopped and debounced. The stepper
interrupt comes between any two; it may overrun the switch by any number of steps between two polls, up to
`HardStop`. Resets, doors and holds arrive at any time and meet the cycle's own
handling of the flags, then `protocol_execute_realtime` at its end. Timing assumption: the last
segment of a pull-off does not end between the last look at the flags and `st_reset`.

### 2.5 Settings and EEPROM

    Eeprom         eeprom.c: bytes, checksum, copies
      Settings     settings.c and the commands that use it
        MCSettings       commands and layouts for TLC
        SettingsProofs   proofs

`todo` is what the main program has left to do: one job per byte written or record read, so that
power fails between any two (`PowerLoss`). A byte being programmed (`busy`) is
afterwards old, new or erased. `Checksum` is the source's, with its logical `||`. The number of a startup
line is any natural number, as `$Nn=` does not check it, and an address is cut to the chip's width (`Cell`);
`strayed` is history: such a line has been stored outside of the startup lines.
The layout is a set of constants; whether records overlap is not assumed. `promised` is history: what the
last command that ended stored in a record.

### 2.6 The link

    Serial         serial.c: the two rings
    Overrides      protocol.c:414-480 in the width of its variables
      Link         lines, answers, reports, resets between host and main loop
        MCLink     lines for TLC
        LinkProofs proofs

The rings have their heads, tails and empty slot; `Receive` and `Transmit` are the
interrupts. The main program reads a character, gives the slot back, assembles the line (`LineAfter`,
`FlagsAfter`), executes and answers it; `serial_write` waits for room character by
character, unless a reset is pending, then stores, advances the head and enables the transmit
interrupt, each a step of its own (`tx_step`; the stores of the code are taken in program order). `overrun` is
history: the transmit interrupt has run with the ring empty. Overrides are read, and their flags
cleared, in two steps. The host follows the character counting protocol
that `config.h` describes, and after a reset it sends nothing until it is welcomed.

### 2.7 How the models meet

The parser's lines are the kinds of lines of the core; its `planned` is what the pipeline
executes; the core's `reset`, `hold` and `start` are the characters `Link` picks off; the EEPROM
of `Gcode`, a record intact or not, is the abstraction of `Settings` that its checksums
justify. The models are checked one by one: composed, not one of them could be explored.

## 3. What TLC checks

Passing runs (sizes: distinct states, two workers):

| Run | Question | Bounds | Size |
|---|---|---|---|
| `program` | Do outputs follow the machine's states, does only a user resume, is probing contained? | 2 lines, 3 inputs, 1 segment buffer place for blocks of 2 segments, so that a held motion always has a part of its block left in the planner | 2.8 M |
| `modes` | Is motion safe among cycles, jogs, soft limits, sleep, check mode, door and reset? Is `IInv` an invariant? | 2 lines of every kind but probe, 3 inputs of every kind but coolant toggles | 1.4 M |
| `progress` | Are resets served, do holds complete and cycles end? | 2 lines, 3 of reset, start and hold | 0.1 M |
| `pipeline` | Do the planner's shortcuts keep the plan optimal, does the generator follow it, is the motion continuous, is the whole a queue of motions? | rings of 4 blocks and 4 segments (3 of each usable), 3 motions: after a corner, too short to brake in, slow; 2 overrides | 0.3 M |
| `gcode` | Does the parser's state agree with EEPROM, pins and planner? | 18 words (one a line number too large), 5 sent in any number of lines, 2 coordinate systems, the second one torn at power-up | 1.0 M |
| `homing` | Is what is homed homed, a failure locked, every cycle ended? | 2 axes with 3 steps of travel, 2 lines, 2 inputs | 1.0 M |
| `settings` | Is what was stored recalled, and what is in use stored? | 2-bit bytes, 2 coordinate records, 2 lines and 2 stray ones, 3 commands, 2 power failures | 0.8 M |
| `link` | Do lines arrive whole, is each answered, is the host served? | receive ring of 5, transmit ring of 2, line buffer of 3, 2 lines, a reset, a realtime command; overruns as told below | 0.6 M |

`BlockBuffer = 1`, `SegmentBuffer` 1 or 2 and `SegsPerBlock = 2` are the smallest values at which
a line waits for room in the planner, a block is split between the two buffers,
and a hold may end inside or between blocks. Two lines
are a motion and what waits for it; three inputs are a hold, what happens
in it and the start.

* `HoldCompleteMeansStopped`: a hold is reported complete only with the stepper
  interrupt shut down.
* `CycleStopMeansStopped`: no cycle is started over an unhandled stop.
* `ResetStopsMotion`: the step that raises a reset leaves the steppers stopped;
  `mc_reset` recognises every state that owns a motion.
* `JogContained`, `ProbeMotionContained`: nothing of a cancelled jog or of a
  probing motion is left for the next one, however the cancel or the probing cycle came to its end. A jog line that
  waited for room in the planner when the cancel came is planned after it, and is a new jog.
* `AlarmLatched`: an alarm ends by `$X` or in sleep.
* `ResumedByUser`: an automatic cycle start never resumes a hold or a door, unless a restore raises it for a user's
  start. The repeated restore of section 4 is the exception that the property names; TLC finds the property violated
  without it, by a door, a start and a hold.
* `DeenergisedWhileStopped`: spindle and coolant stay off behind an open door
  and in sleep.
* `NoLostRestore`: a start that waits for the spindle's restore is never
  overwritten. Checked of a machine without doors and pin waits (the `progress` run). TLC
  finds it violated with either: a hold that meets the start a restored door relays has the restore run again,
  and the delay of that one serves a start, a hold, a spindle stop and a start, so that the stop's
  initiation overwrites what the last one waits for (`protocol.c:678`, `362`, `730`; seven inputs); or a pin wait resumes the hold.
* `ResetServed`, `HoldCompletes`, `CycleEnds`: the liveness of `FairSpec`.

Some of these hold only of a part of the lines, because of what section 4 tells of the others:
`ResumedByUser` and `NoLostRestore` hold without M226/M227, `DeenergisedWhileStopped` and
the hold, reset and alarm properties without probing lines. That the spindle turns again
whenever a held program resumes is not a property of this code: section 4, `door_restore`.

* `PlanOptimal`: every junction speed is the highest that all limits allow, computed
  from their definition and not by passes; so what `block_buffer_planned` spares could not
  have been improved. Not claimed during a hold (the plan is renewed at its end) nor once an
  override was reduced.
* `PlannedInQueue`: `block_buffer_planned` is a block of the queue whenever there is one, in spite of
  its walks over the empty ring.
* `ExitMatchesPlan`: the exit speed the generator works towards is that of the present
  plan.
* `MotionContinuous`: the speed changes by no more than the steps made allow,
  across blocks, re-planning, holds and resumes. Excluded are a flush (an abrupt stop), a starved
  buffer (`stepper.c:763-769` sizes the buffer so that the main program keeps pace)
  and reduced overrides.
* `CountersMatch`: the segment in execution runs on the counters of its own motion.
* `SlotsAgree`: its inductive invariant.
* `MotionsInOrder`: `MotionQueue` is implemented, with what is left of a motion
  (`Remaining`: its segments and its blocks) as the refinement mapping. Nothing is executed
  twice, skipped or out of order, except by a flush.

Three motions in a ring of four blocks (three usable) are what planning needs:
one in execution, one planned, one new; five or more blocks repeat the middle
one. `MixedLines` has each of the three limits of a junction: the corner, the rate and the length
ahead. With three slots and segments of any length a slot is used again while
the segments of two other blocks are queued.

* `OffsetsStored`: the coordinate system in use is the record of the selected number,
  whatever G10, selection in the same line, program end, reset and torn records do.
* `OutputsFollowModes`, `PositionPlanned`: pins and planner are where the parser's
  modes and position say.
* `WorkPositionAsProgrammed`: a line that sets an axis or moves it to a work position
  leaves it reading what the line said, with its units, coordinate system, tool
  length and G92 applied in the order of the source.

The words are those that share state; five are a selection, an offset and a motion, each with
an argument, or a change in one line and its use in the next.

* `HomedPosition`: machine zero lies at the switch (or the far end of the travel), exactly, in
  spite of overruns in either direction.
* `FailedHomingLocks`: a machine that is idle was homed on every axis or unlocked by the user.
* `HomingEnds`: every cycle ends, unless a door that opened during its last delay holds it.

* `SoftLimitsNeedHoming`: soft limits are never on with homing off, in RAM or in the EEPROM.
* `InUseIsStored`: a machine that takes commands would find the same settings and
  work offset after a restart.
* `NumbersRecalled`: a setting or an offset, once stored, is read ever after, through power
  failures, until a command or a restore writes that record. The startup lines and the build info
  overlap (section 4), so they are left out here.

These three say "until a startup line is stored under a number out of range": `$N254=` writes over the
coordinates and `$N13=` over the flags. The run sends lines that do both (numbers 4 and 14 of its layout), and TLC
finds each of the three violated when the condition is dropped. `TypeOK` has no such condition.

Two-bit bytes suffice since checksums of 3 bytes and of 2 behave differently under the logical
`||`, as in the code; two power failures are one in a write and one in the repair of it.

* `LinesIntact`: the lines executed are those sent, in order and cleaned, whatever arrives
  within them.
* `LinesAccounted`: every line without an answer is being sent, in the ring, in execution, or has its
  answer under way: none lost, none answered twice.
* `MessagesWhole`: reports and answers are not mixed in the transmit ring.
* `HostServed`: the host gets every answer, and its welcome after every reset.
* `NoneStranded`: the transmit ring holds characters only with its interrupt on, or about to be turned on.

All but the last are stated up to the first overrun of the transmit ring (`overrun`), and every one of those
is false without that condition: the interrupt can drain the ring and turn itself off between the new head
(`serial.c:99`) and the enabling (`serial.c:102`), which then turns it on over an empty ring; the
interrupt has no test for that (`serial.c:107-118`), its tail passes the head, and it sends the whole ring once more. What the
host takes for answers then is stale, its count of free characters is wrong and the receive ring drops characters. With the
condition taken out, and two kinds of lines, four of them for `HostServed`, TLC finds the four violated within seconds.
`NoneStranded` has no condition. The constraint `Followed` of the run follows an overrun only when
it comes after everything the host has to send, since the properties end there; every way to the overrun is in the run.

**Fairness.** `FairSpec` assumes that the main program takes steps (nothing
blocks it but its own loops), that the stepper interrupt does while
it is enabled (the timer runs), and that a delay that is entered again and again
eventually runs out (`DelayEnd` and `DwellEnd`: `delay_sec` counts down, strongly fair since
each pass of it goes through the realtime system). Nothing is assumed of the host. The pin
waits are busy loops that serve no command, so no liveness holds with `pin`
lines, and the `progress` run has none.

`Homing` assumes main program and interrupts run, the timer of a motion included. `Link` assumes weak
fairness of the main program and both serial interrupts, and that a line in execution ends
(`SF_vars(ExecuteLine)`): it may call the realtime system any number of times before, as it does while it waits for
room in the planner. The host owes nothing.

## 4. Where the code and its comments differ

Each of these is a run that TLC finds violated; the property is the comment's.

* `texts` (`TextsRecalled`, `config.h:450-451`). Startup lines and build info are stored with
  `LINE_BUFFER_SIZE` (256) bytes and a checksum at addresses laid out for shorter lines: line 0 at
  768-1024, line 1 at 1025-1281, the build info at 942-1198. `$I=` destroys line 0's checksum and part of line 1; `$N0=`
  and `$N1=` destroy the build info; the next read of a damaged record empties it.
* `override_wraps` (`SlowerIsSlower`, `config.h:242-243`). The new override is computed in 8 bits and
  limited afterwards (`protocol.c:425-429`): a coarse and a fine decrement served together at 10 % give
  255, then 200 %.
* `homing_queue` (`HomingFromEmptyBuffer`, `motion_control.c:204-205`). `$H` right behind a motion line is accepted,
  the state being IDLE until somebody calls the realtime system. The motion stays in the planner through
  the cycle and runs afterwards, from a position it was not planned from.
* `door_restore` (`RestartedOnResume`, `protocol.c:713`). A feed hold that arrives together with the end of
  a door's restore blocks the start the restore has relayed and leaves RESTORE_COMPLETE set; the suspend loop
  restores once more, a start of the user within that delay resumes the cycle, and the loop sets
  RESTORE_COMPLETE again with the cycle running (`protocol.c:713`). At the next door the
  program resumes at once, with the spindle off.

Observations made while modelling, true of the models and not stated as runs:

* Core. A feed hold that comes as a door's restore ends blocks the start relayed for the user, but INITIATE_RESTORE stays up:
  the restore is run again, relays a second start and resumes the machine, which no user asked for, against
  `protocol.c:341-342` ("doesn't resume a hold without an explicit user-input"). A start and a hold served in the delay of the
  second restore even have that start resume the hold. `protocol_buffer_synchronize` may return while a hold decelerates, the last block being in the segment buffer
  (`protocol.c:181`), or wait for a block nobody starts, its one automatic start having met the
  previous cycle's stop (`protocol.c:177`). A probing line that gets through the former raises its alarm, and the stop of
  the deceleration replaces ALARM by IDLE (`protocol.c:410`). M226 calls `protocol_exec_rt_system` past
  the suspend loop (`ports.c:96`), and the next automatic start resumes a hold taken there. A
  reset between the alarm check (`protocol.c:223`) and the snapshot (246) leaves the alarm unread;
  `main.c:97` clears it and the machine is idle with its position lost.
  A hold or door raised between the snapshot and the clearing of the handled flags
  (`protocol.c:246`, 336) is cleared unseen.
* Pipeline. After an override reduction the reverse pass spares blocks at their maximum
  (`planner.c:158`) although the next block's entry speed has dropped out of reach.
* Homing. A door that opens in the last debounce enters the suspend loop, which waits for a
  hold nobody completes, until a reset. A rejected `$HX` leaves the state at HOMING (`system.c:187`).
* Parser. The feed rate of an inverse time block is kept (`gcode.c:980`): `M2` returns to G94 by itself, so after
  `G93 F.. M2` the next G1 takes 1/min for mm/min. A jog without axis words moves to machine zero (`gcode.c:924`: the target was never
  computed). "`word_bit` is always assigned" (`gcode.c:356`) is not true of the port's commands:
  the bit of the word before is used, or an uninitialised one. They act before the rest of
  the line is checked. `M226 P.. S..` is waited for and then refused, 226 missing from the list at `gcode.c:118`. G10 L2 without
  P is taken for P0.
* Settings. A chip that was erased but for the version byte passes for a valid one. The number of
  `$Nn=` is not checked against `N_STARTUP_LINE`, and what is stored under a number out of range lies over other records (section 3). `eeprom_put_char` waits for the last write with interrupts
  off.
* Link. The transmit interrupt may be enabled over an empty ring, and repeats what the ring held before (section 3).
* Ports. The alarm interrupt prints (`ports.c:330`): with the transmit ring full `serial_write`
  never returns, since the interrupts that would empty it, or set the reset it looks for, are off.

## 5. What TLAPS proves

Every safety property of section 3, invariants and action properties alike, is a theorem of the
specification, for every value of the constants the assumptions allow; what is left to TLC alone is
listed at the end of this section.

### 5.1 The control core (`GrblProofs`)

For every buffer size, every `SegsPerBlock`, every set of lines and inputs and every bound
(assumptions `BuffersAssumption`, `InputsAssumption`, `LinesAssumption`):

* `TypeCorrect`: `Spec => []TypeOK`, which contains the capacity of the segment
  buffer. One lemma per group of actions.
* `ProbeSafety` (`ProbeMotionContained`) and `JogCancelSafety` (`JogContained`).

Assuming that no probing line is sent (`"probe" \notin LineKinds`,
needed because a probing line can lose the alarm, section 4):

* `Invariance`: `Spec => []IInv`, and from it `HoldSafety`, `StopSafety`,
  `ResetSafety`, `AlarmSafety` and `DeenergisedSafety`, the theorems of `HoldCompleteMeansStopped`,
  `CycleStopMeansStopped`, `ResetStopsMotion`, `AlarmLatched` and `DeenergisedWhileStopped`.

Assuming that no pin wait is sent (section 4: one resumes a hold by itself):

* `ResumeSafety`, the theorem of `ResumedByUser`.

Assuming both, and that no door is opened (section 3 tells what a door does to it):

* `RestoreSafety`, the theorem of `NoLostRestore`.

None of these properties is inductive. `HoldCompleteMeansStopped` needs to know that
a motion is always owned: while the stepper interrupt runs, or its stop is
unhandled, the state is CYCLE, JOG, or one of the stopped states with
EXECUTE_HOLD set (`MotionOwned`). That in turn needs that a start finds nothing
moving (`StartsFromRest`), that the flags of the snapshot remain true of the stages
still to come (`SnapshotAgrees`), how suspend flags, alarms and pending resets relate to
the state (`SuspendAgrees`, `AlarmAgrees`, `ResetAgrees`), and what is left once a
reset has set `sys.abort`, when all of this may be broken until the next initialisation
(`AbortAgrees`; hence `abort \/ Safe`). `Doomed` names the short stretch in
which an alarm has been entered but its reset not yet served. The proof
takes the groups apart action by action: `ProbeFree` and `ControlAgrees`, then
`AbortAgrees`, then `Safe`.

Five more invariants carry the others. `ProbeBuffered`: a probing motion is in the buffers only while its line is in
the probing cycle. `JogInv`: a cancel finds the machine in JOG, or in an alarm or asleep from there, where no start is allowed
(`CancelAgrees`), and stays up until the stop that flushes; no line is executed under it, since the suspend routine is left only
without suspend flags (`SuspendServed`). `UserInv`: the main program stays in the suspend routine while a suspend flag is up
(`StartsAutomatically`), so an automatic start finds nothing suspended, and the pass of the realtime system that takes it up
drops it again; what suspends the program in between blocks it (`StartTaken`). Each flag that asks for a restore was raised by a
user's start not yet relayed, unless its restore is complete or runs again (`Relayed`): so the start of a
first restore is a user's, and the exception stays within one stay in the suspend routine. `EnergyInv`: a completed retract stays with
a completed hold, and nothing leaves it but a restore that was initiated (`RetractAgrees`); what sleep may still be on its
way out to (`SleepAgrees`). `RestoreInv`: in a completed hold, a spindle stop that was initiated is carried out
by the suspend loop before a start is looked at again (`StopInitiated`). The override stage comes behind the start stage, so
`INITIATE` appears only on the way to that loop, and a hold completes at once only in an idle machine, whose snapshot
blocks its own start; a door's delays would serve starts from inside of the loop (`DoorFree`).

### 5.2 The motion pipeline (`PipelineProofs`, `PlannerProofs`, `SumProofs`)

For every size of the two buffers, every set of motions and
overrides (`RingAssumption`, `MotionAssumption`, `SegmentAssumption`):

* `SlotInvariance` (`SlotsAgree`) and `CountersSafety` (`CountersMatch`);
* `PipelineTypeSafety` (`TypeOK`) and `PlannedSafety` (`PlannedInQueue`);
* `QueueRefinement`: `Spec => MotionsInOrder`, the refinement of `MotionQueue`.

`CountersMatch` is not inductive: that a slot is not taken again too early depends on
how many slots lie between a queued segment and the newest one. The invariant bounds
them by the number of segments behind it, plus one while a block is in progress, for
the slot of a block that a hold stopped before its first segment (`SlotsInTurn`); it says
where the interrupt is once all is executed (`SlotsDrained`) and that what comes next
in its slot belongs to the motion it counts (`SlotKept`). The generator only takes a slot while the
segment buffer has room (`SegmentsFull`), and `st_block_buffer` is one shorter than
the ring and as long as its usable part; so a new slot is free (`NewSlotFree`).

The refinement needs that the two buffers hold one run of motions: the blocks are the last ones
sent, the segments those before them in order, the first block's included while it is
in progress (`QueueAgrees`). Its mapping sums over both buffers. `Sum` is a recursive function,
and `SumProofs` proves that it unfolds: the existence of a recursive function by an induction over
a set of numbers (`Induction`, from the library's well-foundedness of `<`), since the library's induction theorem
takes an operator. Then each step adds, moves or removes one summand.

`PlannedInQueue` needs, of the passes, only where the breakpoints lie. The values of the plan are the matter of
`PlannerProofs`:

* `PlanOptimalSafety` (`PlanOptimal`), `ExitSafety` (`ExitMatchesPlan`) and `ContinuousSafety` (`MotionContinuous`).

*Optimality.* `PlanOptimal` defines the best plan by distances over the whole queue, and no step preserves that by itself.
The invariant sees the queue as three sequences, of speeds at the junctions, of limits and of lengths, and says it locally: the
plan can be driven (`Drivable`: no speed above its limit, nor above what the block behind it can brake from) and it cannot be
improved (`Unimprovable`: each speed is at its limit, or at what the block before accelerates to, or, except at the planned
block, at what the block behind brakes from). The two together are the optimum: `PlanBounded` follows a speed to any junction
whose limit bounds it, and `PlanAttained` to the junction that does. The exception at the planned block is why
`planner_recalculate` may begin there; the first block counts with the speed the machine has now, not with its stored entry
speed (`Here`). The passes are then taken apart as recursive functions over the distance from `planned`: they are unfolded
with `Induction`, the reverse pass gives a plan that can be driven, and the forward pass makes it one that cannot be improved
(`PassesFrom`), whichever blocks at their maximum are skipped. The limits of the blocks are those of the override in
force (`MaximaInv`), since a change of the override computes all of them again.

*The profile.* While a block is being executed, the profile must be that of the plan, whatever is planned
behind it: it brakes to the entry speed of the next block, what is left of the block suffices for it (`SpeedInv`),
and a hold, and nothing but a hold, ends within a block (`HoldInv`). `PlanInv` is the inductive invariant that joins these
parts, with the plan itself claimed only as long as no override was reduced, and the optimum only outside of a hold.

*The speed.* Where one block has ended and the next is not loaded, the two agree on the speed; a machine that stopped in a hold
stands still or has all its segments queued (`Continuous`). This is claimed as long as the buffer did not starve, and needs
to know which modes the generator and the interrupt can be in together (`RunInv`). `DriveInv` is `PlanInv` with these two;
`MotionContinuous` follows from it for each action of the generator.

### 5.3 The parser (`GcodeProofs`)

For every set of words, every number of coordinate systems,
every content of the EEPROM at power-up and runs of every length (`GcodeAssumption`):

* `OffsetsSafety`, `OutputsSafety`, `PositionSafety` and `TypeCorrect`, the theorems of
  `OffsetsStored`, `OutputsFollowModes`, `PositionPlanned` and `TypeOK`.
* `WorkPositionSafety`, the theorem of the action property `WorkPositionAsProgrammed`, jogs included.

`OffsetsStored` is not inductive. That a line loads the coordinate system it selects is decided by the word of
group 9, not by the mode, so the invariant says that a block whose system differs has such a word
(`BlockAgrees`, which survives the stray bits of the port commands); that a refused line zeroes a
record does no harm because the active record, and the first, to which program end and reset return, can be read
(`Readable`). `PositionPlanned` needs that a block that goes to a predefined position
moves in no other way, because it has claimed its axis words. The same claim is what
`WorkPositionAsProgrammed` rests on: the axis words of a line are the motion's or those of one G10 or G92 and never
the tool length's, so the tool length that the conversion used is the one the line leaves (`PositionSetBy`); the
system that it used is the one the line leaves active because the selection is seen by its word, and the loading by the mode,
which `BlockAgrees` makes one (`ExecuteReads`, one case for each of G92, G10 L20 and a motion; `JogReads`).

### 5.4 Homing (`HomingProofs`)

For any number of axes, any travel and any course of switches, overruns, resets and doors:

* `HomedSafety`, the theorem of `HomedPosition`, for at least one locating cycle whose search is longer than the
  pull-off it has to undo (`LocateAssumption`; `config.h` has 1 and a factor of 5). The invariant
  follows the axis through the passes: where it may be at the beginning and during each of them (`PassBegins`, `Approaches`,
  `PullsOff`), and that a pass that is stopped without an alarm has found its switch (`PassEnds`);
* `FailedHomingSafety`, the theorem of `FailedHomingLocks`, provided that no rejected `$HX` is sent
  (`NoRejectedHoming`, section 4). The
  invariant says what each place of the main program knows: how far the cycles have come (`HomedSoFar`),
  that a failure is in the alarm state before it aborts (`Failing`), and that an abort or an alarm always comes with a
  pending reset (`Pending`).

### 5.5 The settings (`SettingsProofs`)

For every width of a byte, every set of commands, any number of power failures, and every layout in which the other
records lie behind the global settings, and the coordinates before startup lines and
build info (`LayoutAssumption`; `settings.h:67-71`); the texts may overlap each other, as they do:

* `SettingsTypeSafety` (`TypeOK`);
* `SoftLimitsSafety` (`SoftLimitsNeedHoming`), `InUseSafety` (`InUseIsStored`) and `RecallSafety`
  (`NumbersRecalled`), until a startup line is stored under a number out of range, as the properties say.

The types are an invariant of their own (`TypesInv`), which stray lines keep; the rest (`StoredInv`) is carried from
state to state as long as `strayed` is false, and `strayed` never becomes false again.

`SoftLimitsNeedHoming`: the flags reach RAM from the EEPROM and the EEPROM from RAM, so the
invariant follows the flags byte through the settings in use, the cell, what it falls back to
while it is programmed, and every write still to be made (`FlagsInv`).

The other two relate RAM, promises and EEPROM through `todo`, the writes that are still to be made. A
record is *held* when its cells have it and nothing queued writes there; it is *under way* when
the front of the queue is the rest of its write over cells that already agree; or its write is queued as a whole.
Every promise is held (`PromisesHeld`); the settings in use are held, under way, or about to be read
(`SettingsDue`); what a command will have kept when it ends is due before its end (`KeptDue`), and so is the offset in use
(`OffsetDue`). A power failure empties `todo` and withdraws what was under way, so nothing needs to
be known of what a checksum detects: the argument holds with the source's logical `||`, which detects little.

### 5.6 The link (`LinkProofs`)

For every size of the two rings and of the line buffer, every set of lines and every number of resets and realtime
commands:

* `LinkTypeSafety` (`TypeOK`), `StrandedSafety` (`NoneStranded`);
* `WholeMessages` (`MessagesWhole`) and `AccountsSafety` (`LinesAccounted`), until the transmit interrupt overruns its ring,
  as the properties say;
* `IntactSafety` (`LinesIntact`), for lines whose `text` and `overflow` are what the program's cleaning makes of
  their characters (`LinesDescribed`: a line of the model carries its expected result beside its characters; the lines of the
  `link` run are of this kind).

An overrun leaves no more than types (`LinkTypes`), and never ends (`OverrunStays`); the other invariants are implied by its
absence. `MessagesWhole` follows the stream of words from what is still to be written through the ring to the host
(`WordsInOrder`), over every step of `serial_write` (`TxWritten`): the character in its hand is the one in the slot at
the head before it counts as sent. For the accounts, what is sent and not yet read is one sequence, whether in the ring or
on the wire (`Unread`), and every step starts a line, takes a character, executes, answers, or leaves the
tally alone (`SessionStep`). The counts are sums, unfolded with `SumProofs`. That the receive ring never overflows is part of
it: the host counts what it has outstanding.

### 5.7 Only model-checked

Liveness (`ResetServed`, `HoldCompletes`, `CycleEnds`, `HomingEnds`, `HostServed`): it needs ENABLED, which the
prover does not handle. The runs that expect a violation are counterexamples and have no theorem.

## 6. What could follow

Servo alarms printing from their interrupt beside `Link`; spindle and coolant writes interrupted by
`mc_reset`; resets in the middle of a line composed with `Gcode`.

## 7. Not modelled, and why

* Torch height control (`thc.c`, `timer.c`, `adc.c`): unreachable. `thc_update` does nothing unless
  `thcWorking` is set, nothing sets it, and `thc_initialize` is never called; `$T` only stores a voltage.
* Servo and power alarms (`ports.c`): the feed hold they raise is an input of the core; their
  printing from an interrupt is described in section 4.
* Parking, sleep timer, hard limits, single-axis homing, CoreXY, dual-axis: compiled out.
* Laser mode, spindle speed in PWM units, AMASS, Bresenham and timer prescalers: arithmetic
  on floats and registers with no control of their own.
* Junction geometry (`planner.c:400-440`), arcs (`mc_arc`) and the comparison of a target with the
  travel: floating point geometry. The junction limit and the kind of line `soft` are inputs; an
  arc is a series of `mc_line`, and the parser model ends where it would compute one.
* Wording of reports, `$` commands that only print, reading and writing of pins (M42, M62-M65), pulse widths
  (`pwm.c`): I/O without protocol.
* Execution of startup lines, which take the path of any other line; interrupts during the
  initialisation, which is one step; resets in the middle of a line of `Gcode` (the core has them, by kind of line).
* `serial_write` re-entered from an interrupt. The setting of a bit of `UCSR0B` takes several instructions, which
  the model takes for the last of them, the write: an interrupt between them only clears the bit that is then set.
* System motions in the planner's head slot are part of `Homing`, as one motion at a time.
