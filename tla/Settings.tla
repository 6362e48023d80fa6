------------------------------ MODULE Settings ------------------------------
(***************************************************************************)
(* Stored settings, coordinate systems, startup lines and build info        *)
(* (settings.c, the commands of system.c and gcode.c that use them, and the *)
(* start of main.c), with power failures at any point.                      *)
(*                                                                         *)
(* What the main program has left to do is the sequence `todo': a job is    *)
(* one write of a byte, one read of a record, or the end of a command.  A   *)
(* written byte is being programmed for a while after the call returns      *)
(* (`busy'); the next access to the EEPROM waits for that, but the answer   *)
(* to the host does not.                                                    *)
(***************************************************************************)
EXTENDS Eeprom

CONSTANTS
  SETTINGS_VERSION,
  PULSE_MIN,                   \* least step pulse accepted
  defaults,                    \* settings as compiled in
  BIT_HOMING_ENABLE, BIT_SOFT_LIMIT_ENABLE,
  N_AXIS,                      \* bytes of a coordinate record
  SETTING_INDEX_NCOORD,        \* highest coordinate record
  N_STARTUP_LINE,
  LINE_BUFFER_SIZE,
  EEPROM_ADDR_GLOBAL, EEPROM_ADDR_PARAMETERS,
  EEPROM_ADDR_STARTUP_BLOCK, EEPROM_ADDR_BUILD_INFO,
  Commands,                    \* what the host may send
  MaxCommands, MaxLosses       \* bounds of a run

VARIABLES
  busy,          \* the byte being programmed: at most one [at, old]
  settings,      \* [pulse_microseconds, flags, homing_pulloff]
  coord_select,  \* gc_state.modal.coord_select
  coord_system,  \* gc_state.coord_system
  locked,        \* sys.state is ALARM, not IDLE
  power,
  todo,
  sent, losses,  \* commands sent, power failures so far
  promised,      \* region -> what its last command stored, if it got so far
  strayed        \* a line has been stored outside of the startup lines

vars == <<eeprom, busy, settings, coord_select, coord_system, locked, power,
          todo, sent, losses, promised, strayed>>

Flags == {f \in Bytes : BIT_SOFT_LIMIT_ENABLE \in f => BIT_HOMING_ENABLE \in f}

GLOBAL_SIZE == 3
CoordIndices == 0 .. SETTING_INDEX_NCOORD
LineIndices  == 0 .. (N_STARTUP_LINE - 1)

SettingsRecords ==
  [pulse_microseconds : Bytes, flags : Bytes, homing_pulloff : Bytes]
ZeroVector == [i \in 1 .. N_AXIS |-> Zero]

coord_addr(n) == n * (N_AXIS + 1) + EEPROM_ADDR_PARAMETERS
line_addr(n)  == n * (LINE_BUFFER_SIZE + 1) + EEPROM_ADDR_STARTUP_BLOCK

\* All records lie on the chip, behind that of the global settings, and the
\* coordinates before the texts (settings.h:68-71).  That the texts keep clear of
\* each other cannot be assumed.
Behind == (EEPROM_ADDR_GLOBAL + GLOBAL_SIZE + 1) .. (EepromSize - 1)

ASSUME LayoutAssumption ==
  /\ EEPROM_ADDR_GLOBAL \in Nat \ {0}
  /\ EEPROM_ADDR_GLOBAL + GLOBAL_SIZE < EepromSize
  /\ N_AXIS \in Nat \ {0} /\ SETTING_INDEX_NCOORD \in Nat
  /\ N_STARTUP_LINE \in Nat /\ LINE_BUFFER_SIZE \in Nat \ {0}
  /\ EEPROM_ADDR_PARAMETERS \in Nat /\ EEPROM_ADDR_STARTUP_BLOCK \in Nat
  /\ EEPROM_ADDR_BUILD_INFO \in Nat
  /\ \A n \in CoordIndices, i \in 0 .. N_AXIS : coord_addr(n) + i \in Behind
  /\ \A n \in CoordIndices, i \in 0 .. N_AXIS :
       /\ coord_addr(n) + i < EEPROM_ADDR_STARTUP_BLOCK
       /\ coord_addr(n) + i < EEPROM_ADDR_BUILD_INFO
  /\ \A n \in LineIndices, i \in 0 .. LINE_BUFFER_SIZE : line_addr(n) + i \in Behind
  /\ \A i \in 0 .. LINE_BUFFER_SIZE : EEPROM_ADDR_BUILD_INFO + i \in Behind

ASSUME SettingsAssumption ==
  /\ SETTINGS_VERSION \in Bytes /\ PULSE_MIN \in Nat
  /\ BIT_HOMING_ENABLE \in Bits /\ BIT_SOFT_LIMIT_ENABLE \in Bits
  /\ BIT_HOMING_ENABLE # BIT_SOFT_LIMIT_ENABLE
  /\ defaults \in SettingsRecords /\ defaults.flags \in Flags

\* The text of a line fills the line buffer, whatever the buffer held before
\* behind the end of the string.  The number of a startup line is any that fits
\* its byte: it is not checked (system.c:288-289).
ASSUME CommandAssumption ==
  Commands \subseteq
       [op : {"setting"}, value : Bytes,
        parameter : {"pulse", "soft_limits", "homing", "pulloff", "none"}]
  \cup [op : {"restore"}, which : {"$", "#", "*"}]
  \cup [op : {"coord_data"}, n : CoordIndices, value : [1 .. N_AXIS -> Bytes]]
  \cup [op : {"coord_select"}, n : CoordIndices]
  \cup [op : {"startup_line"}, n : Nat, text : [1 .. LINE_BUFFER_SIZE -> Bytes]]
  \cup [op : {"build_info"}, text : [1 .. LINE_BUFFER_SIZE -> Bytes]]
  \cup [op : {"view_startup", "view_build", "unlock", "reset"}]

\* A startup line that is stored somewhere else.
Stray(cmd) == cmd.op = "startup_line" /\ cmd.n \notin LineIndices

ASSUME BoundAssumption == MaxCommands \in Nat /\ MaxLosses \in Nat

-----------------------------------------------------------------------------
\* Records and the writes that store them.

GlobalBytes(s) == <<s.pulse_microseconds, s.flags, s.homing_pulloff>>
GlobalRecord(b) ==
  [pulse_microseconds |-> b[1], flags |-> b[2], homing_pulloff |-> b[3]]

\* A string ends at its first zero.
Text(line) ==
  LET ends == {i \in 1 .. Len(line) : line[i] = Zero}
  IN  IF ends = {} THEN line ELSE SubSeq(line, 1, Min(ends) - 1)

EmptyLine(line) == [line EXCEPT ![1] = Zero]

write_global_settings(s) ==
  <<Put(0, SETTINGS_VERSION)>>
    \o memcpy_to_eeprom_with_checksum(EEPROM_ADDR_GLOBAL, GlobalBytes(s))

\* Mutant: the step from record to record forgets the checksum.
settings_write_coord_data_Packed(n, data) ==
  memcpy_to_eeprom_with_checksum(n * N_AXIS + EEPROM_ADDR_PARAMETERS, data)

settings_write_coord_data(n, data) ==
  memcpy_to_eeprom_with_checksum(coord_addr(n), data)

settings_store_startup_line(n, line) ==
  memcpy_to_eeprom_with_checksum(line_addr(n), line)
settings_store_build_info(line) ==
  memcpy_to_eeprom_with_checksum(EEPROM_ADDR_BUILD_INFO, line)

\* settings_restore, part by part.  The "checksum" of an emptied line is
\* written behind its first byte.
ZeroCoords ==
  [i \in 1 .. (SETTING_INDEX_NCOORD + 1) |->
    [op |-> "write_coord", n |-> i - 1]]
EmptyLines ==
  [i \in 1 .. (2 * N_STARTUP_LINE) |->
    Put(line_addr((i - 1) \div 2) + ((i - 1) % 2), Zero)]
EmptyBuildInfo ==
  <<Put(EEPROM_ADDR_BUILD_INFO, Zero), Put(EEPROM_ADDR_BUILD_INFO + 1, Zero)>>

settings_restore(which) ==
  CASE which = "$" -> write_global_settings(defaults)
    [] which = "#" -> ZeroCoords
    [] which = "*" -> write_global_settings(defaults) \o ZeroCoords
                        \o EmptyLines \o EmptyBuildInfo

-----------------------------------------------------------------------------
\* Regions of the EEPROM, and what the host was told of them.

Globals == <<"globals", 0>>
CoordRegion(n) == <<"coord", n>>
LineRegion(n)  == <<"line", n>>
BuildInfo == <<"build", 0>>

Regions ==
  {Globals, BuildInfo} \cup {CoordRegion(n) : n \in CoordIndices}
    \cup {LineRegion(n) : n \in LineIndices}

Start(r) ==
  CASE r = Globals -> 0
    [] r = BuildInfo -> EEPROM_ADDR_BUILD_INFO
    [] r[1] = "coord" -> coord_addr(r[2])
    [] r[1] = "line" -> line_addr(r[2])

Size(r) ==
  CASE r = Globals -> EEPROM_ADDR_GLOBAL + GLOBAL_SIZE + 1
    [] r[1] = "coord" -> N_AXIS + 1
    [] OTHER -> LINE_BUFFER_SIZE + 1

\* The regions a command stores to.
Stores(cmd) ==
  CASE cmd.op = "setting" -> {Globals}
    [] cmd.op = "coord_data" -> {CoordRegion(cmd.n)}
    [] cmd.op = "startup_line" -> {LineRegion(cmd.n)} \cap Regions
    [] cmd.op = "build_info" -> {BuildInfo}
    [] cmd.op = "restore" ->
         {r \in Regions : \/ cmd.which = "*"
                          \/ cmd.which = "$" /\ r = Globals
                          \/ cmd.which = "#" /\ r[1] = "coord"}
    [] OTHER -> {}

\* What is to be read from region r once the command has ended.
Result(cmd, r) ==
  CASE r = Globals -> GlobalBytes(settings)
    [] r[1] = "coord" -> IF cmd.op = "restore" THEN ZeroVector ELSE cmd.value
    [] OTHER -> IF cmd.op = "restore" THEN <<>> ELSE Text(cmd.text)

Withdrawn(regions) == [r \in Regions |-> IF r \in regions THEN {} ELSE promised[r]]

-----------------------------------------------------------------------------
Job(op) == [op |-> op]
Kept(cmd) == [op |-> "kept", cmd |-> cmd]
RestoreAll == [op |-> "restore", which |-> "*"]

\* What the main program does when it is powered up, and at every later start
\* of its initialisation loop.
Boot  == <<Job("read_global"), Job("state"), Job("init")>>
Reset == <<Job("init")>>

Init ==
  /\ eeprom = [a \in Addresses |-> Erased]
  /\ busy = {}
  /\ settings = [pulse_microseconds |-> Zero, flags |-> Zero, homing_pulloff |-> Zero]
  /\ coord_select = 0 /\ coord_system = ZeroVector
  /\ locked = FALSE
  /\ power = TRUE
  /\ todo = Boot
  /\ sent = 0 /\ losses = 0
  /\ promised = [r \in Regions |-> {}]
  /\ strayed = FALSE

At(op) == power /\ todo # <<>> /\ Head(todo).op = op

\* Mutant: the EEPROM is used while a byte is being programmed.
Accesses_Busy(op) == At(op)

\* Every access waits for the byte before (EEPE).
Accesses(op) == At(op) /\ busy = {}

\* eeprom_put_char: waits for the byte before, starts the next.
PutChar ==
  /\ Accesses("put")
  /\ LET put == Head(todo)
         at == Cell(put.at)
         old == eeprom[at]
     IN  /\ eeprom' = [eeprom EXCEPT ![at] = put.byte]
         /\ busy' = busy \cup
              IF old = put.byte THEN {} ELSE {[at |-> at, old |-> old]}
  /\ todo' = Tail(todo)
  /\ UNCHANGED <<settings, coord_select, coord_system, locked, power, sent, losses,
                 promised, strayed>>

\* The hardware has programmed the byte.
Programmed ==
  /\ busy # {} /\ busy' = {}
  /\ UNCHANGED <<eeprom, settings, coord_select, coord_system, locked, power, todo,
                 sent, losses, promised, strayed>>

\* settings_init: the record goes straight into `settings', valid or not; what
\* is not valid is replaced, with everything else that is stored.
ReadGlobal ==
  /\ Accesses("read_global")
  /\ LET versioned == eeprom[0] = SETTINGS_VERSION
         read == GlobalRecord(Data(EEPROM_ADDR_GLOBAL, GLOBAL_SIZE))
     IN  IF versioned /\ Valid(EEPROM_ADDR_GLOBAL, GLOBAL_SIZE)
         THEN /\ settings' = read
              /\ todo' = Tail(todo)
              /\ UNCHANGED promised
         ELSE /\ settings' = defaults
              /\ todo' = settings_restore("*") \o <<Kept(RestoreAll)>> \o Tail(todo)
              /\ promised' = Withdrawn(Regions)
  /\ UNCHANGED <<eeprom, busy, coord_select, coord_system, locked, power, sent, losses,
                 strayed>>

\* main: with homing enabled the machine comes up locked.
InitialState ==
  /\ At("state")
  /\ locked' = (BIT_HOMING_ENABLE \in settings.flags)
  /\ todo' = Tail(todo)
  /\ UNCHANGED <<eeprom, busy, settings, coord_select, coord_system, power, sent,
                 losses, promised, strayed>>

\* gc_init, and the startup lines of an unlocked machine.
ReadInit ==
  /\ Accesses("init")
  /\ LET valid == Valid(coord_addr(0), N_AXIS)
         data == IF valid THEN Data(coord_addr(0), N_AXIS) ELSE ZeroVector
         repair == IF valid THEN <<>> ELSE settings_write_coord_data(0, data)
         startup == IF locked THEN <<>> ELSE <<Job("view_startup")>>
     IN  /\ coord_select' = 0
         /\ coord_system' = data
         /\ todo' = repair \o startup \o Tail(todo)
  /\ UNCHANGED <<eeprom, busy, settings, locked, power, sent, losses, promised, strayed>>

\* Reading a line that is not valid stores it again as an empty one.
ReadLine ==
  /\ Accesses("read_line")
  /\ LET at == Head(todo).at
         line == EmptyLine(Data(at, LINE_BUFFER_SIZE))
     IN  todo' = IF Valid(at, LINE_BUFFER_SIZE) THEN Tail(todo)
                 ELSE memcpy_to_eeprom_with_checksum(at, line) \o Tail(todo)
  /\ UNCHANGED <<eeprom, busy, settings, coord_select, coord_system, locked, power,
                 sent, losses, promised, strayed>>

\* system_execute_startup and `$N' read every startup line.  The lines run by
\* the former are taken to store nothing themselves.
ViewStartup ==
  /\ At("view_startup")
  /\ todo' = [i \in 1 .. N_STARTUP_LINE |->
               [op |-> "read_line", at |-> line_addr(i - 1)]] \o Tail(todo)
  /\ UNCHANGED <<eeprom, busy, settings, coord_select, coord_system, locked, power,
                 sent, losses, promised, strayed>>

\* A record of zeros, one of those that settings_restore writes.
WriteCoord ==
  /\ At("write_coord")
  /\ todo' = settings_write_coord_data(Head(todo).n, ZeroVector) \o Tail(todo)
  /\ UNCHANGED <<eeprom, busy, settings, coord_select, coord_system, locked, power,
                 sent, losses, promised, strayed>>

\* Mutant: the system in use keeps its old offsets.
Adopted_Never(cmd) == FALSE

\* The coordinate data just stored belong to the system in use.
Adopted(cmd) == cmd.op = "coord_data" /\ cmd.n = coord_select

\* A command that stores something has made its last write: gc_execute_line
\* brings the system in use up to date, and the host is answered.
EndCommand ==
  /\ At("kept")
  /\ LET cmd == Head(todo).cmd
     IN  /\ coord_system' = IF Adopted(cmd) THEN cmd.value ELSE coord_system
         /\ promised' = [r \in Regions |->
              IF r \in Stores(cmd) THEN {Result(cmd, r)} ELSE promised[r]]
  /\ todo' = Tail(todo)
  /\ UNCHANGED <<eeprom, busy, settings, coord_select, locked, power, sent, losses,
                 strayed>>

-----------------------------------------------------------------------------
\* Commands, taken when the one before has been answered.

Ready == power /\ todo = <<>>

Send(cmd) ==
  /\ Ready /\ sent < MaxCommands /\ cmd \in Commands
  /\ sent' = sent + 1
  /\ strayed' = (strayed \/ Stray(cmd))
  /\ UNCHANGED <<eeprom, busy, coord_system, power, losses>>

\* settings_store_global_setting refuses before it changes anything.
Refused(cmd) ==
  \/ cmd.parameter = "pulse" /\ Value(cmd.value) < PULSE_MIN
  \/ /\ cmd.parameter = "soft_limits" /\ cmd.value # Zero
     /\ BIT_HOMING_ENABLE \notin settings.flags
  \/ cmd.parameter = "none"

\* Mutant: switching homing off leaves the soft limits on.
FlagsAfter_HomingOnly(cmd) ==
  CASE cmd.parameter = "homing" /\ cmd.value = Zero ->
         settings.flags \ {BIT_HOMING_ENABLE}
    [] cmd.parameter = "homing" /\ cmd.value # Zero ->
         settings.flags \cup {BIT_HOMING_ENABLE}
    [] cmd.parameter = "soft_limits" /\ cmd.value = Zero ->
         settings.flags \ {BIT_SOFT_LIMIT_ENABLE}
    [] cmd.parameter = "soft_limits" /\ cmd.value # Zero ->
         settings.flags \cup {BIT_SOFT_LIMIT_ENABLE}
    [] OTHER -> settings.flags

FlagsAfter(cmd) ==
  CASE cmd.parameter = "homing" /\ cmd.value = Zero ->
         settings.flags \ {BIT_HOMING_ENABLE, BIT_SOFT_LIMIT_ENABLE}
    [] cmd.parameter = "homing" /\ cmd.value # Zero ->
         settings.flags \cup {BIT_HOMING_ENABLE}
    [] cmd.parameter = "soft_limits" /\ cmd.value = Zero ->
         settings.flags \ {BIT_SOFT_LIMIT_ENABLE}
    [] cmd.parameter = "soft_limits" /\ cmd.value # Zero ->
         settings.flags \cup {BIT_SOFT_LIMIT_ENABLE}
    [] OTHER -> settings.flags

SettingsAfter(cmd) ==
  [pulse_microseconds |->
     IF cmd.parameter = "pulse" THEN cmd.value ELSE settings.pulse_microseconds,
   flags |-> FlagsAfter(cmd),
   homing_pulloff |->
     IF cmd.parameter = "pulloff" THEN cmd.value ELSE settings.homing_pulloff]

\* $x=value
StoreSetting(cmd) ==
  /\ cmd.op = "setting" /\ Send(cmd)
  /\ IF Refused(cmd)
     THEN UNCHANGED <<settings, todo, promised>>
     ELSE /\ settings' = SettingsAfter(cmd)
          /\ todo' = write_global_settings(SettingsAfter(cmd)) \o <<Kept(cmd)>>
          /\ promised' = Withdrawn(Stores(cmd))
  /\ UNCHANGED <<coord_select, locked>>

\* $RST=, with the reset that follows.
Restore(cmd) ==
  /\ cmd.op = "restore" /\ Send(cmd)
  /\ settings' = IF cmd.which = "#" THEN settings ELSE defaults
  /\ todo' = settings_restore(cmd.which) \o <<Kept(cmd)>> \o Reset
  /\ promised' = Withdrawn(Stores(cmd))
  /\ UNCHANGED <<coord_select, locked>>

\* G10 L2 and G28.1 read the record first; one that is not valid is zeroed and
\* the line refused.
StoreCoord(cmd) ==
  /\ cmd.op = "coord_data" /\ Send(cmd) /\ ~locked /\ busy = {}
  /\ IF Valid(coord_addr(cmd.n), N_AXIS)
     THEN /\ todo' = settings_write_coord_data(cmd.n, cmd.value) \o <<Kept(cmd)>>
          /\ promised' = Withdrawn(Stores(cmd))
     ELSE /\ todo' = settings_write_coord_data(cmd.n, ZeroVector)
          /\ UNCHANGED promised
  /\ UNCHANGED <<settings, coord_select, locked>>

\* G54..G59: as above, but nothing is stored.
SelectCoord(cmd) ==
  /\ cmd.op = "coord_select" /\ Ready /\ sent < MaxCommands /\ cmd \in Commands
  /\ ~locked /\ busy = {} /\ cmd.n # coord_select
  /\ IF Valid(coord_addr(cmd.n), N_AXIS)
     THEN /\ coord_select' = cmd.n
          /\ coord_system' = Data(coord_addr(cmd.n), N_AXIS)
          /\ UNCHANGED todo
     ELSE /\ todo' = settings_write_coord_data(cmd.n, ZeroVector)
          /\ UNCHANGED <<coord_select, coord_system>>
  /\ sent' = sent + 1
  /\ UNCHANGED <<eeprom, busy, settings, locked, power, losses, promised, strayed>>

\* $Nn=, only when idle, and $I=.  The line of the former is run before it is
\* stored, and taken to store nothing itself.
StoreText(cmd) ==
  /\ \/ cmd.op = "startup_line" /\ ~locked
     \/ cmd.op = "build_info"
  /\ Send(cmd)
  /\ todo' = (IF cmd.op = "build_info" THEN settings_store_build_info(cmd.text)
              ELSE settings_store_startup_line(cmd.n, cmd.text)) \o <<Kept(cmd)>>
  /\ promised' = Withdrawn(Stores(cmd))
  /\ UNCHANGED <<settings, coord_select, locked>>

\* $N and $I
View(cmd) ==
  /\ cmd.op \in {"view_startup", "view_build"} /\ Send(cmd)
  /\ todo' = CASE cmd.op = "view_startup" -> <<Job("view_startup")>>
               [] cmd.op = "view_build" ->
                    <<[op |-> "read_line", at |-> EEPROM_ADDR_BUILD_INFO]>>
  /\ UNCHANGED <<settings, coord_select, locked, promised>>

\* $X
Unlock(cmd) ==
  /\ cmd.op = "unlock" /\ Send(cmd)
  /\ locked' = FALSE
  /\ UNCHANGED <<settings, coord_select, todo, promised>>

\* A soft reset of a machine at rest.
SoftReset(cmd) ==
  /\ cmd.op = "reset" /\ Send(cmd)
  /\ todo' = Reset
  /\ UNCHANGED <<settings, coord_select, locked, promised>>

-----------------------------------------------------------------------------
\* Power

\* Nothing may be relied on any more of what is stored around the byte that
\* was being programmed.
Disturbed == {r \in Regions : \E b \in busy : b.at \in Start(r) .. (Start(r) + Size(r) - 1)}

PowerLoss ==
  /\ power /\ losses < MaxLosses
  /\ power' = FALSE /\ losses' = losses + 1
  /\ IF busy = {} THEN UNCHANGED eeprom
     ELSE \E b \in busy, left \in Bytes :
            /\ left \in PutOutcomes(b.old, eeprom[b.at])
            /\ eeprom' = [eeprom EXCEPT ![b.at] = left]
  /\ busy' = {} /\ todo' = <<>>
  /\ promised' = Withdrawn(Disturbed)
  /\ UNCHANGED <<settings, coord_select, coord_system, locked, sent, strayed>>

PowerUp ==
  /\ ~power /\ power' = TRUE
  /\ settings' = [pulse_microseconds |-> Zero, flags |-> Zero, homing_pulloff |-> Zero]
  /\ coord_select' = 0 /\ coord_system' = ZeroVector
  /\ locked' = FALSE
  /\ todo' = Boot
  /\ UNCHANGED <<eeprom, busy, sent, losses, promised, strayed>>

MainStep ==
  \/ PutChar \/ ReadGlobal \/ InitialState \/ ReadInit \/ ReadLine \/ ViewStartup
  \/ WriteCoord \/ EndCommand

Command(cmd) ==
  \/ StoreSetting(cmd) \/ Restore(cmd) \/ StoreCoord(cmd) \/ SelectCoord(cmd)
  \/ StoreText(cmd) \/ View(cmd) \/ Unlock(cmd) \/ SoftReset(cmd)

Next ==
  \/ MainStep \/ Programmed
  \/ \E cmd \in Commands : Command(cmd)
  \/ PowerLoss \/ PowerUp

Spec == Init /\ [][Next]_vars

-----------------------------------------------------------------------------
\* Properties

TypeOK ==
  /\ eeprom \in [Addresses -> Bytes]
  /\ busy \subseteq [at : Addresses, old : Bytes]
  /\ \A b, c \in busy : b = c
  /\ settings \in SettingsRecords
  /\ coord_select \in CoordIndices
  /\ coord_system \in [1 .. N_AXIS -> Bytes]
  /\ locked \in BOOLEAN /\ power \in BOOLEAN /\ strayed \in BOOLEAN
  /\ sent \in 0 .. MaxCommands /\ losses \in 0 .. MaxLosses

\* `$Nn=' with an n that is no startup line's writes wherever settings.c:69 leads,
\* over any record.  The three properties below hold until that has happened, and
\* may be false after it.

\* Soft limits are never on with homing off, whatever order the settings come
\* in and wherever the power fails: neither in the settings in use nor in the
\* cell a later start would read them from (settings.c:260, 274-277), as long as
\* no startup line was stored under a number out of range.
SoftLimitsNeedHoming ==
  ~strayed => settings.flags \in Flags /\ eeprom[EEPROM_ADDR_GLOBAL + 1] \in Flags

\* The machine that takes commands works with what is stored: a restart would
\* neither change its settings or work offset nor find them damaged, as long as
\* no startup line was stored under a number out of range.
InUseIsStored ==
  Ready /\ ~strayed =>
    /\ eeprom[0] = SETTINGS_VERSION
    /\ Valid(EEPROM_ADDR_GLOBAL, GLOBAL_SIZE)
    /\ settings = GlobalRecord(Data(EEPROM_ADDR_GLOBAL, GLOBAL_SIZE))
    /\ Valid(coord_addr(coord_select), N_AXIS)
    /\ coord_system = Data(coord_addr(coord_select), N_AXIS)

\* What a region reads as.
Stored(r) ==
  CASE r = Globals -> GlobalBytes(settings)
    [] r[1] = "coord" ->
         IF Valid(Start(r), N_AXIS) THEN Data(Start(r), N_AXIS) ELSE <<>>
    [] OTHER ->
         IF Valid(Start(r), LINE_BUFFER_SIZE) THEN Text(Data(Start(r), LINE_BUFFER_SIZE))
         ELSE <<>>

Recalled(regions) ==
  Ready => \A r \in regions : \A value \in promised[r] : Stored(r) = value

\* A setting or an offset whose command has ended, and whose last byte has been
\* programmed, is what the machine reads ever after, through any number of
\* power failures, until a command or a restore writes that very record, or a
\* startup line is stored under a number out of range.
NumbersRecalled == ~strayed => Recalled({r \in Regions : r[1] \in {"globals", "coord"}})

\* "Be very careful when changing this value. Check EEPROM address locations to
\* make sure these string storage locations won't corrupt one another."
\* (config.h:450-451): a startup line or build info is what was stored last.
TextsRecalled == Recalled({r \in Regions : r[1] \in {"line", "build"}})
=============================================================================
