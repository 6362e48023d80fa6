------------------------------ MODULE Planner ------------------------------
(***************************************************************************)
(* The look-ahead planner of planner.c: a ring of blocks of which the main *)
(* program fills the head and the segment generator eats the tail, and     *)
(* planner_recalculate, which keeps the junction speeds optimal and        *)
(* remembers in block_buffer_planned up to where nothing can improve.      *)
(*                                                                         *)
(* Speeds are kept squared, as in the code, and a length is the square of  *)
(* the speed that can be gained over it: `gain' is                         *)
(* 2*acceleration*millimeters.  The change of the squared speed is then    *)
(* bounded by the length travelled.                                        *)
(***************************************************************************)
EXTENDS Integers, FiniteSetsExt

CONSTANTS
  BLOCK_BUFFER_SIZE,
  Lines,             \* motions the parser asks for: [gain, junction, rate]
  Overrides,         \* factors of the programmed rate
  DEFAULT_OVERRIDE

ASSUME RingAssumption == BLOCK_BUFFER_SIZE \in Nat /\ BLOCK_BUFFER_SIZE > 1

ASSUME MotionAssumption ==
  /\ Lines \subseteq [gain : Nat \ {0}, junction : Nat, rate : Nat \ {0}]
  /\ Overrides \subseteq Nat \ {0}
  /\ DEFAULT_OVERRIDE \in Overrides

VARIABLES
  block_buffer,      \* index -> block; slots outside of the ring are stale
  tail, head,        \* block_buffer_tail, block_buffer_head
  planned,           \* block_buffer_planned
  previous_nominal,  \* pl.previous_nominal_speed, squared
  override           \* sys.f_override

plannerVars == <<block_buffer, tail, head, planned, previous_nominal, override>>

Lowest(m, n) == IF m < n THEN m ELSE n
Square(n) == n * n

SOME_LARGE_VALUE == 1000000

Indices == 0 .. (BLOCK_BUFFER_SIZE - 1)

plan_next_block_index(i) == (i + 1) % BLOCK_BUFFER_SIZE
plan_prev_block_index(i) == (i - 1) % BLOCK_BUFFER_SIZE

\* Steps from index i forward to index j, and the index k steps from i.
Distance(i, j) == (j - i) % BLOCK_BUFFER_SIZE
At(i, k) == (i + k) % BLOCK_BUFFER_SIZE

Empty == head = tail
plan_check_full_buffer == tail = plan_next_block_index(head)

\* A slot as memset leaves it.
NoBlock ==
  [id |-> 0, gain |-> 0, entry |-> 0, max |-> 0, junction |-> 0, rate |-> 0]

\* plan_compute_profile_nominal_speed, squared, under override o.
Nominal(block, o) == Square(block.rate * o)

\* plan_compute_profile_parameters: the highest speed a block may be entered
\* at, given the nominal speeds (squared) of the previous block and its own.
MaxEntry(junction, nominal, previous) ==
  Lowest(junction, Lowest(nominal, previous))

\* plan_get_exec_block_exit_speed_sqr
ExitSpeed(buffer) ==
  LET next == plan_next_block_index(tail)
  IN  IF next = head THEN 0 ELSE buffer[next].entry

-----------------------------------------------------------------------------
\* planner_recalculate, for a ring that ends before h and is planned up to p.
\* The passes number the blocks from p (0) to the last one (LastBlock).

LastBlock(h, p) == Distance(p, plan_prev_block_index(h))

\* Mutant: a plan of two blocks is taken not to concern the tail.
ReachesTail_Pair(h, p) ==
  \E k \in 0 .. (LastBlock(h, p) - 2) :
    LastBlock(h, p) > 0 /\ At(p, k) = tail

\* The pass comes by the tail and notifies the stepper subsystem.
ReachesTail(h, p) ==
  \E k \in 0 .. (IF LastBlock(h, p) = 1 THEN 0 ELSE LastBlock(h, p) - 2) :
    LastBlock(h, p) > 0 /\ At(p, k) = tail

\* Reverse pass: the entry speed from which the exit speed can be reached.
ReversePass(buffer, h, p) ==
  LET n == LastBlock(h, p)
      block(k) == buffer[At(p, k)]
      reverse[k \in 0 .. n] ==
        IF k = 0 THEN block(0).entry
        ELSE IF k = n THEN Lowest(block(k).max, block(k).gain)
        ELSE IF block(k).entry = block(k).max THEN block(k).entry
        ELSE Lowest(block(k).max, reverse[k + 1] + block(k).gain)
  IN  reverse

\* Forward pass: no more than what acceleration reaches.
ForwardPass(buffer, h, p) ==
  LET n == LastBlock(h, p)
      reverse == ReversePass(buffer, h, p)
      forward[k \in 0 .. n] ==
        IF k = 0 THEN reverse[0]
        ELSE Lowest(reverse[k], forward[k - 1] + buffer[At(p, k - 1)].gain)
  IN  forward

\* The ring with its new entry speeds.
Recalculated(buffer, h, p) ==
  LET forward == ForwardPass(buffer, h, p)
  IN  [i \in Indices |->
        IF Distance(p, i) <= LastBlock(h, p)
        THEN [buffer[i] EXCEPT !.entry = forward[Distance(p, i)]]
        ELSE buffer[i]]

\* Mutant: a block whose entry the forward pass confirms counts as optimal.
Breakpoints_Confirmed(buffer, h, p) ==
  LET reverse == ReversePass(buffer, h, p)
      forward == ForwardPass(buffer, h, p)
  IN  {k \in 1 .. LastBlock(h, p) :
         \/ forward[k] <= reverse[k]
         \/ forward[k] = buffer[At(p, k)].max}

\* Blocks before which nothing can improve: entered as fast as allowed, or as
\* fast as the blocks before them can accelerate to.
Breakpoints(buffer, h, p) ==
  LET reverse == ReversePass(buffer, h, p)
      forward == ForwardPass(buffer, h, p)
  IN  {k \in 1 .. LastBlock(h, p) :
         \/ forward[k] < reverse[k]
         \/ forward[k] = buffer[At(p, k)].max}

NewPlanned(buffer, h, p) ==
  LET points == Breakpoints(buffer, h, p)
  IN  IF points = {} THEN p
      ELSE At(p, Max(points))

\* plan_buffer_line: the block at the head.  The first of a queue starts from
\* rest.
NewBlock(line, id) ==
  LET junction == IF Empty THEN 0 ELSE line.junction
  IN  [id       |-> id,
       gain     |-> line.gain,
       entry    |-> 0,
       max      |-> MaxEntry(junction, Nominal(line, override), previous_nominal),
       junction |-> junction,
       rate     |-> line.rate]

\* plan_update_velocity_profile_parameters for override o.
Reprofiled(o) ==
  [i \in Indices |->
     IF Distance(tail, i) < Distance(tail, head)
     THEN [block_buffer[i] EXCEPT !.max =
             MaxEntry(block_buffer[i].junction, Nominal(block_buffer[i], o),
                      IF i = tail THEN SOME_LARGE_VALUE
                      ELSE Nominal(block_buffer[plan_prev_block_index(i)], o))]
     ELSE block_buffer[i]]

LastNominal(o) ==
  IF Empty THEN SOME_LARGE_VALUE
  ELSE Nominal(block_buffer[plan_prev_block_index(head)], o)

\* Mutant: the planned pointer is not pushed along.
Discard_Behind ==
  /\ tail' = plan_next_block_index(tail)
  /\ planned' = planned

\* plan_discard_current_block
Discard ==
  /\ tail' = plan_next_block_index(tail)
  /\ planned' = IF planned = tail THEN plan_next_block_index(tail) ELSE planned

\* plan_reset
PlanReset ==
  /\ tail' = 0
  /\ head' = 0
  /\ planned' = 0
  /\ previous_nominal' = 0

PlannerInit ==
  /\ block_buffer = [i \in Indices |-> NoBlock]
  /\ tail = 0 /\ head = 0 /\ planned = 0
  /\ previous_nominal = 0
  /\ override = DEFAULT_OVERRIDE
=============================================================================
