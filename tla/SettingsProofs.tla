--------------------------- MODULE SettingsProofs ---------------------------
(***************************************************************************)
(* Theorems about the stored settings, for every width of a byte, every     *)
(* layout in which the records of the numbers keep apart, every set of      *)
(* commands and any number of power failures: soft limits are never on with *)
(* homing off; a machine that takes commands works with what is stored; and *)
(* what a command stored is read ever after.                                *)
(*                                                                         *)
(* For the first the invariant follows the flags byte through all of its    *)
(* places: the settings in use, the cell, what the cell falls back to while *)
(* it is programmed, and every write still to be made.                      *)
(*                                                                         *)
(* For the others it follows the records: one is held (stored, with nothing *)
(* left to do that touches it) or under way (some of its writes made, the   *)
(* rest next on the agenda, nothing behind them that touches it), or its    *)
(* zeroing is queued by a restore.                                          *)
(***************************************************************************)
EXTENDS Settings, TLAPS

FLAGS == EEPROM_ADDR_GLOBAL + 1

\* The writes and jobs the program can have before it.
Puts == {put \in [op : {"put"}, at : Addresses, byte : Bytes] :
          put.at = FLAGS => put.byte \in Flags}
Jobs ==
  Puts
    \cup [op : {"read_global", "state", "init", "view_startup"}]
    \cup [op : {"read_line"}, at : {EEPROM_ADDR_BUILD_INFO} \cup {line_addr(n) : n \in LineIndices}]
    \cup [op : {"write_coord"}, n : CoordIndices]
    \cup [op : {"kept"}, cmd : Commands \cup {RestoreAll}]

FlagsInv ==
  /\ eeprom \in [Addresses -> Bytes]
  /\ eeprom[FLAGS] \in Flags
  /\ busy \subseteq [at : Addresses, old : Bytes]
  /\ \A b \in busy : b.at = FLAGS => b.old \in Flags
  /\ settings \in SettingsRecords /\ settings.flags \in Flags
  /\ todo \in Seq(Jobs)

LEMMA ErasedFlags == Erased \in Flags /\ Zero \in Flags /\ Erased \in Bytes /\ Zero \in Bytes
PROOF
  BY SettingsAssumption DEF Erased, Zero, Flags, Bytes

\* An address of the chip is a cell's, and any other one is taken for one.
LEMMA SmallRemainder ==
  ASSUME NEW n \in Nat \ {0}, NEW a \in Nat
  PROVE  /\ a \in 0 .. (n - 1) => a % n = a
         /\ a % n \in 0 .. (n - 1)
OBVIOUS

LEMMA CellFacts ==
  ASSUME NEW a \in Nat
  PROVE  /\ a \in Addresses => Cell(a) = a
         /\ Cell(a) \in Addresses
PROOF
  <1>1. PICK n \in Nat \ {0} : n = EepromSize
    BY SizeAssumption
  <1>2. /\ a \in 0 .. (n - 1) => a % n = a
        /\ a % n \in 0 .. (n - 1)
    BY SmallRemainder
  <1> QED
    BY <1>1, <1>2 DEF Cell, Addresses

\* Records of whole bytes are stored by legal writes, as long as they keep
\* clear of the flags cell.
LEMMA RecordWrites ==
  ASSUME NEW at \in Nat, NEW size \in Nat, NEW data \in [1 .. size -> Bytes],
         \A i \in 0 .. size : at + i \in Behind
  PROVE  memcpy_to_eeprom_with_checksum(at, data) \in Seq(Jobs)
PROOF
  <1>1. data \in Seq(Bytes) /\ Len(data) = size
    OBVIOUS
  <1>2. Checksum(data) \in Bytes
    BY DEF Checksum, Byte, Bytes
  <1>3. ASSUME NEW i \in 1 .. (size + 1)
        PROVE  Put(at + i - 1, IF i <= size THEN data[i] ELSE Checksum(data)) \in Puts
    <2>1. at + (i - 1) \in Behind
      OBVIOUS
    <2>2. at + i - 1 \in Addresses /\ at + i - 1 # FLAGS
      BY <2>1, LayoutAssumption DEF Behind, Addresses, FLAGS, GLOBAL_SIZE
    <2> QED
      BY <1>2, <2>2 DEF Put, Puts
  <1> QED
    BY <1>1, <1>3 DEF memcpy_to_eeprom_with_checksum, Jobs

LEMMA CoordWrites ==
  ASSUME NEW n \in CoordIndices, NEW data \in [1 .. N_AXIS -> Bytes]
  PROVE  settings_write_coord_data(n, data) \in Seq(Jobs)
PROOF
  <1>1. coord_addr(n) \in Nat
    <2>1. N_AXIS + 1 \in Nat /\ n \in Nat
      BY LayoutAssumption DEF CoordIndices
    <2>2. n * (N_AXIS + 1) \in Nat
      BY <2>1
    <2> QED
      BY <2>2, LayoutAssumption DEF coord_addr
  <1>2. \A i \in 0 .. N_AXIS : coord_addr(n) + i \in Behind
    BY LayoutAssumption
  <1> QED
    BY <1>1, <1>2, RecordWrites, LayoutAssumption DEF settings_write_coord_data

LEMMA LineWrites ==
  ASSUME NEW at \in {EEPROM_ADDR_BUILD_INFO} \cup {line_addr(n) : n \in LineIndices},
         NEW data \in [1 .. LINE_BUFFER_SIZE -> Bytes]
  PROVE  memcpy_to_eeprom_with_checksum(at, data) \in Seq(Jobs)
PROOF
  <1>1. \A i \in 0 .. LINE_BUFFER_SIZE : at + i \in Behind
    BY LayoutAssumption
  <1>2. \A n \in LineIndices : line_addr(n) \in Nat
    <2>1. ASSUME NEW n \in Nat, LINE_BUFFER_SIZE + 1 \in Nat
          PROVE  n * (LINE_BUFFER_SIZE + 1) \in Nat
      BY <2>1
    <2> QED
      BY <2>1, LayoutAssumption DEF line_addr, LineIndices
  <1> QED
    BY <1>1, <1>2, RecordWrites, LayoutAssumption

\* The settings record: its second byte goes to the flags cell.
LEMMA GlobalWrites ==
  ASSUME NEW s \in SettingsRecords, s.flags \in Flags
  PROVE  write_global_settings(s) \in Seq(Jobs)
PROOF
  <1> DEFINE data == GlobalBytes(s)
  <1>1. data \in Seq(Bytes) /\ Len(data) = 3 /\ data[2] \in Flags
        /\ data[1] \in Bytes /\ data[2] \in Bytes /\ data[3] \in Bytes
    BY DEF GlobalBytes, SettingsRecords
  <1>2. Checksum(data) \in Bytes
    BY DEF Checksum, Byte, Bytes
  <1>3. ASSUME NEW i \in 1 .. 4
        PROVE  Put(EEPROM_ADDR_GLOBAL + i - 1, IF i <= 3 THEN data[i] ELSE Checksum(data)) \in Puts
    <2>1. EEPROM_ADDR_GLOBAL + i - 1 \in Addresses
      BY LayoutAssumption, SizeAssumption DEF Addresses, GLOBAL_SIZE
    <2>2. EEPROM_ADDR_GLOBAL + i - 1 = FLAGS => i = 2
      BY LayoutAssumption DEF FLAGS
    <2>3. (IF i <= 3 THEN data[i] ELSE Checksum(data)) \in Bytes
      <3>1. CASE i <= 3
        BY <1>1, <3>1
      <3>2. CASE ~(i <= 3)
        BY <1>2, <3>2
      <3> QED
        BY <3>1, <3>2
    <2> QED
      BY <1>1, <2>1, <2>2, <2>3 DEF Put, Puts
  <1>4. memcpy_to_eeprom_with_checksum(EEPROM_ADDR_GLOBAL, data) \in Seq(Jobs)
    <2> HIDE DEF data
    <2> QED
      BY <1>1, <1>3 DEF memcpy_to_eeprom_with_checksum, Jobs
  <1>5. Put(0, SETTINGS_VERSION) \in Jobs
    BY SettingsAssumption, LayoutAssumption, SizeAssumption
    DEF Put, Puts, Jobs, Addresses, FLAGS
  <1> QED
    BY <1>4, <1>5 DEF write_global_settings

LEMMA RestoreWrites ==
  ASSUME NEW which \in {"$", "#", "*"}
  PROVE  settings_restore(which) \in Seq(Jobs)
PROOF
  <1>1. write_global_settings(defaults) \in Seq(Jobs)
    BY GlobalWrites, SettingsAssumption
  <1>2. ZeroCoords \in Seq(Jobs)
    <2>1. \A i \in 1 .. (SETTING_INDEX_NCOORD + 1) : [op |-> "write_coord", n |-> i - 1] \in Jobs
      BY LayoutAssumption DEF CoordIndices, Jobs
    <2> QED
      BY <2>1, LayoutAssumption DEF ZeroCoords
  <1>3. EmptyLines \in Seq(Jobs)
    <2>1. ASSUME NEW i \in 1 .. (2 * N_STARTUP_LINE)
          PROVE  Put(line_addr((i - 1) \div 2) + ((i - 1) % 2), Zero) \in Jobs
      <3> DEFINE n == (i - 1) \div 2
                 k == (i - 1) % 2
      <3>1. n \in LineIndices /\ k \in 0 .. LINE_BUFFER_SIZE
        BY LayoutAssumption DEF LineIndices
      <3>2. line_addr(n) + k \in Behind
        BY <3>1, LayoutAssumption
      <3>3. line_addr(n) + k \in Addresses /\ line_addr(n) + k # FLAGS
        BY <3>2, LayoutAssumption DEF Behind, Addresses, FLAGS, GLOBAL_SIZE
      <3> QED
        BY <3>3, ErasedFlags DEF Put, Puts, Jobs
    <2> QED
      BY <2>1, LayoutAssumption DEF EmptyLines
  <1>4. EmptyBuildInfo \in Seq(Jobs)
    <2>1. EEPROM_ADDR_BUILD_INFO + 0 \in Behind /\ EEPROM_ADDR_BUILD_INFO + 1 \in Behind
      BY LayoutAssumption
    <2>2. /\ EEPROM_ADDR_BUILD_INFO \in Addresses /\ EEPROM_ADDR_BUILD_INFO # FLAGS
          /\ EEPROM_ADDR_BUILD_INFO + 1 \in Addresses /\ EEPROM_ADDR_BUILD_INFO + 1 # FLAGS
      BY <2>1, LayoutAssumption DEF Behind, Addresses, FLAGS, GLOBAL_SIZE
    <2> QED
      BY <2>2, ErasedFlags DEF EmptyBuildInfo, Put, Puts, Jobs
  <1> QED
    BY <1>1, <1>2, <1>3, <1>4 DEF settings_restore

-----------------------------------------------------------------------------

LEMMA InitFlags == Init => FlagsInv
PROOF
  <1>1. FLAGS \in Addresses
    BY LayoutAssumption, SizeAssumption DEF FLAGS, Addresses, GLOBAL_SIZE
  <1>2. Boot \in Seq(Jobs)
    BY DEF Boot, Job, Jobs
  <1> QED
    BY <1>1, <1>2, ErasedFlags DEF Init, FlagsInv, SettingsRecords

\* What a step leaves on the agenda, when it drops the job at its head.
LEMMA Rest ==
  ASSUME todo \in Seq(Jobs), todo # <<>>
  PROVE  Tail(todo) \in Seq(Jobs) /\ Head(todo) \in Jobs
OBVIOUS

LEMMA StepMain ==
  ASSUME FlagsInv, MainStep
  PROVE  FlagsInv'
PROOF
  <1> USE DEF FlagsInv
  <1>1. CASE PutChar
    <2>1. Tail(todo) \in Seq(Jobs) /\ Head(todo) \in Puts
      BY <1>1, Rest DEF PutChar, Accesses, At, Jobs
    <2>2. /\ Head(todo).at \in Addresses /\ Head(todo).byte \in Bytes
          /\ Head(todo).at = FLAGS => Head(todo).byte \in Flags
          /\ Cell(Head(todo).at) = Head(todo).at
      BY <2>1, CellFacts DEF Puts, Addresses
    <2>3. eeprom' \in [Addresses -> Bytes] /\ eeprom'[FLAGS] \in Flags
      BY <1>1, <2>2 DEF PutChar
    <2>4. /\ busy' \subseteq [at : Addresses, old : Bytes]
          /\ \A b \in busy' : b.at = FLAGS => b.old \in Flags
      BY <1>1, <2>2 DEF PutChar, Accesses
    <2> QED
      BY <1>1, <2>1, <2>3, <2>4 DEF PutChar
  <1>2. CASE ReadGlobal
    <2>1. Tail(todo) \in Seq(Jobs)
      BY <1>2, Rest DEF ReadGlobal, Accesses, At
    <2>2. GlobalRecord(Data(EEPROM_ADDR_GLOBAL, GLOBAL_SIZE)) \in SettingsRecords
      <3>1. /\ EEPROM_ADDR_GLOBAL \in Addresses /\ EEPROM_ADDR_GLOBAL + 1 \in Addresses
            /\ EEPROM_ADDR_GLOBAL + 2 \in Addresses
        BY LayoutAssumption, SizeAssumption DEF Addresses, GLOBAL_SIZE
      <3> QED
        BY <3>1, LayoutAssumption DEF GlobalRecord, Data, GLOBAL_SIZE, SettingsRecords
    <2>3. GlobalRecord(Data(EEPROM_ADDR_GLOBAL, GLOBAL_SIZE)).flags \in Flags
      BY LayoutAssumption DEF GlobalRecord, Data, GLOBAL_SIZE, FLAGS
    <2>4. settings_restore("*") \o <<Kept(RestoreAll)>> \o Tail(todo) \in Seq(Jobs)
      <3>1. <<Kept(RestoreAll)>> \in Seq(Jobs)
        BY DEF Kept, Jobs
      <3>2. settings_restore("*") \in Seq(Jobs)
        BY RestoreWrites
      <3> HIDE DEF FlagsInv
      <3> QED
        BY <2>1, <3>1, <3>2
    <2> QED
      BY <1>2, <2>1, <2>2, <2>3, <2>4, SettingsAssumption DEF ReadGlobal
  <1>3. CASE InitialState
    BY <1>3, Rest DEF InitialState, At
  <1>4. CASE ReadInit
    <2>1. Tail(todo) \in Seq(Jobs) /\ <<>> \in Seq(Jobs)
      BY <1>4, Rest DEF ReadInit, Accesses, At
    <2>2. <<Job("view_startup")>> \in Seq(Jobs)
      BY DEF Job, Jobs
    <2>3. settings_write_coord_data(0, ZeroVector) \in Seq(Jobs)
      BY CoordWrites, ErasedFlags, LayoutAssumption DEF ZeroVector, CoordIndices
    <2>4. todo' \in Seq(Jobs)
      BY <1>4, <2>1, <2>2, <2>3 DEF ReadInit
    <2> QED
      BY <1>4, <2>4 DEF ReadInit
  <1>5. CASE ReadLine
    <2>1. Tail(todo) \in Seq(Jobs) /\ Head(todo) \in Jobs /\ Head(todo).op = "read_line"
      BY <1>5, Rest DEF ReadLine, Accesses, At
    <2> DEFINE at == Head(todo).at
               line == EmptyLine(Data(at, LINE_BUFFER_SIZE))
    <2>2. at \in {EEPROM_ADDR_BUILD_INFO} \cup {line_addr(n) : n \in LineIndices}
      BY <2>1 DEF Jobs, Puts
    <2>3. \A i \in 0 .. LINE_BUFFER_SIZE : at + i \in Addresses
      <3>1. \A i \in 0 .. LINE_BUFFER_SIZE : at + i \in Behind
        BY <2>2, LayoutAssumption
      <3> QED
        BY <3>1, LayoutAssumption DEF Behind, Addresses, GLOBAL_SIZE
    <2>4. Data(at, LINE_BUFFER_SIZE) \in [1 .. LINE_BUFFER_SIZE -> Bytes]
      <3>1. ASSUME NEW i \in 1 .. LINE_BUFFER_SIZE
            PROVE  eeprom[at + i - 1] \in Bytes
        <4>1. at + (i - 1) \in Addresses /\ at \in Int
          <5>1. at + 0 \in Addresses
            BY <2>3, LayoutAssumption
          <5>2. at \in Int
            <6>1. ASSUME NEW n \in Nat, LINE_BUFFER_SIZE + 1 \in Nat
                  PROVE  n * (LINE_BUFFER_SIZE + 1) \in Nat
              BY <6>1
            <6> QED
              BY <2>2, <6>1, LayoutAssumption DEF line_addr, LineIndices
          <5> QED
            BY <2>3, <5>2, LayoutAssumption
        <4>2. at + (i - 1) = at + i - 1
          BY <4>1
        <4> QED
          BY <4>1, <4>2
      <3> QED
        BY <3>1 DEF Data
    <2>5. line \in [1 .. LINE_BUFFER_SIZE -> Bytes]
      BY <2>4, ErasedFlags DEF EmptyLine
    <2>6. memcpy_to_eeprom_with_checksum(at, line) \in Seq(Jobs)
      <3> HIDE DEF at, line
      <3> QED
        BY <2>2, <2>5, LineWrites
    <2>7. todo' \in Seq(Jobs)
      BY <1>5, <2>1, <2>6 DEF ReadLine
    <2> QED
      BY <1>5, <2>7 DEF ReadLine
  <1>6. CASE ViewStartup
    <2>1. Tail(todo) \in Seq(Jobs)
      BY <1>6, Rest DEF ViewStartup, At
    <2>2. [i \in 1 .. N_STARTUP_LINE |-> [op |-> "read_line", at |-> line_addr(i - 1)]]
            \in Seq(Jobs)
      <3>1. \A i \in 1 .. N_STARTUP_LINE : [op |-> "read_line", at |-> line_addr(i - 1)] \in Jobs
        BY LayoutAssumption DEF LineIndices, Jobs
      <3> QED
        BY <3>1, LayoutAssumption
    <2> QED
      BY <1>6, <2>1, <2>2 DEF ViewStartup
  <1>7. CASE WriteCoord
    <2>1. Tail(todo) \in Seq(Jobs) /\ Head(todo) \in Jobs /\ Head(todo).op = "write_coord"
      BY <1>7, Rest DEF WriteCoord, At
    <2>2. Head(todo).n \in CoordIndices
      BY <2>1 DEF Jobs, Puts
    <2>3. settings_write_coord_data(Head(todo).n, ZeroVector) \in Seq(Jobs)
      BY <2>2, CoordWrites, ErasedFlags DEF ZeroVector
    <2> QED
      BY <1>7, <2>1, <2>3 DEF WriteCoord
  <1>8. CASE EndCommand
    BY <1>8, Rest DEF EndCommand, At
  <1> QED
    BY <1>1, <1>2, <1>3, <1>4, <1>5, <1>6, <1>7, <1>8 DEF MainStep

LEMMA StepCommand ==
  ASSUME FlagsInv, NEW cmd \in Commands, ~Stray(cmd), Command(cmd)
  PROVE  FlagsInv'
PROOF
  <1> USE DEF FlagsInv, Send
  <1>0. <<Kept(cmd)>> \in Seq(Jobs) /\ Reset \in Seq(Jobs)
    BY DEF Kept, Reset, Job, Jobs
  <1>1. CASE StoreSetting(cmd)
    <2>1. CASE Refused(cmd)
      BY <1>1, <2>1 DEF StoreSetting
    <2>2. CASE ~Refused(cmd)
      <3>1. cmd.value \in Bytes
        BY <1>1, CommandAssumption DEF StoreSetting
      <3>2. FlagsAfter(cmd) \in Flags
        <4>1. /\ settings.flags \in Bytes
              /\ BIT_SOFT_LIMIT_ENABLE \in settings.flags => BIT_HOMING_ENABLE \in settings.flags
          BY DEF Flags
        <4>2. cmd.parameter = "soft_limits" /\ cmd.value # Zero
                => BIT_HOMING_ENABLE \in settings.flags
          BY <2>2 DEF Refused
        <4>3. BIT_HOMING_ENABLE \in Bits /\ BIT_SOFT_LIMIT_ENABLE \in Bits
          BY SettingsAssumption
        <4> QED
          BY <4>1, <4>2, <4>3, SettingsAssumption DEF FlagsAfter, Flags, Bytes
      <3>3. SettingsAfter(cmd) \in SettingsRecords /\ SettingsAfter(cmd).flags \in Flags
        <4>1. FlagsAfter(cmd) \in Bytes
          BY <3>2 DEF Flags
        <4> QED
          BY <3>1, <3>2, <4>1 DEF SettingsAfter, SettingsRecords
      <3>4. write_global_settings(SettingsAfter(cmd)) \o <<Kept(cmd)>> \in Seq(Jobs)
        BY <1>0, <3>3, GlobalWrites
      <3> QED
        BY <1>1, <2>2, <3>3, <3>4 DEF StoreSetting
    <2> QED
      BY <2>1, <2>2
  <1>2. CASE Restore(cmd)
    <2>1. cmd.which \in {"$", "#", "*"}
      BY <1>2, CommandAssumption DEF Restore
    <2>2. settings_restore(cmd.which) \o <<Kept(cmd)>> \o Reset \in Seq(Jobs)
      <3>1. settings_restore(cmd.which) \in Seq(Jobs)
        BY <2>1, RestoreWrites
      <3> HIDE DEF FlagsInv
      <3> QED
        BY <1>0, <3>1
    <2> QED
      BY <1>2, <2>2, SettingsAssumption DEF Restore
  <1>3. CASE StoreCoord(cmd)
    <2>1. cmd.n \in CoordIndices /\ cmd.value \in [1 .. N_AXIS -> Bytes]
      BY <1>3, CommandAssumption DEF StoreCoord
    <2>2. settings_write_coord_data(cmd.n, cmd.value) \o <<Kept(cmd)>> \in Seq(Jobs)
      BY <1>0, <2>1, CoordWrites
    <2>3. settings_write_coord_data(cmd.n, ZeroVector) \in Seq(Jobs)
      BY <2>1, CoordWrites, ErasedFlags DEF ZeroVector
    <2> QED
      BY <1>3, <2>2, <2>3 DEF StoreCoord
  <1>4. CASE SelectCoord(cmd)
    <2>1. cmd.n \in CoordIndices
      BY <1>4, CommandAssumption DEF SelectCoord
    <2>2. settings_write_coord_data(cmd.n, ZeroVector) \in Seq(Jobs)
      BY <2>1, CoordWrites, ErasedFlags DEF ZeroVector
    <2> QED
      BY <1>4, <2>2 DEF SelectCoord
  <1>5. CASE StoreText(cmd)
    <2>1. cmd.text \in [1 .. LINE_BUFFER_SIZE -> Bytes]
      BY <1>5, CommandAssumption DEF StoreText
    <2>2. cmd.op = "startup_line" => cmd.n \in LineIndices
      BY DEF Stray
    <2>3. CASE cmd.op = "build_info"
      <3>1. settings_store_build_info(cmd.text) \in Seq(Jobs)
        BY <2>1, LineWrites DEF settings_store_build_info
      <3> QED
        BY <1>0, <1>5, <2>3, <3>1 DEF StoreText
    <2>4. CASE cmd.op = "startup_line"
      <3>1. settings_store_startup_line(cmd.n, cmd.text) \in Seq(Jobs)
        BY <2>1, <2>2, <2>4, LineWrites DEF settings_store_startup_line
      <3> QED
        BY <1>0, <1>5, <2>4, <3>1 DEF StoreText
    <2> QED
      BY <1>5, <2>3, <2>4 DEF StoreText
  <1>6. CASE View(cmd)
    <2>1. <<Job("view_startup")>> \in Seq(Jobs)
      BY DEF Job, Jobs
    <2>2. <<[op |-> "read_line", at |-> EEPROM_ADDR_BUILD_INFO]>> \in Seq(Jobs)
      BY DEF Jobs
    <2> QED
      BY <1>6, <2>1, <2>2 DEF View
  <1>7. CASE Unlock(cmd)
    BY <1>7 DEF Unlock
  <1>8. CASE SoftReset(cmd)
    BY <1>0, <1>8 DEF SoftReset
  <1> QED
    BY <1>1, <1>2, <1>3, <1>4, <1>5, <1>6, <1>7, <1>8 DEF Command

\* A failing supply leaves the cell being programmed with its old byte, its new
\* one, or erased: legal flags all three.
LEMMA StepPower ==
  ASSUME FlagsInv, PowerLoss \/ PowerUp \/ Programmed
  PROVE  FlagsInv'
PROOF
  <1> USE DEF FlagsInv
  <1>1. CASE PowerLoss
    <2>1. CASE busy = {}
      BY <1>1, <2>1 DEF PowerLoss
    <2>2. CASE busy # {}
      <3>1. PICK b \in busy, left \in Bytes :
              /\ left \in PutOutcomes(b.old, eeprom[b.at])
              /\ eeprom' = [eeprom EXCEPT ![b.at] = left]
        BY <1>1, <2>2 DEF PowerLoss
      <3>2. b.at = FLAGS => left \in Flags
        BY <3>1, ErasedFlags DEF PutOutcomes
      <3>3. eeprom' \in [Addresses -> Bytes] /\ eeprom'[FLAGS] \in Flags
        BY <3>1, <3>2
      <3> QED
        BY <1>1, <3>3 DEF PowerLoss
    <2> QED
      BY <2>1, <2>2
  <1>2. CASE PowerUp
    <2>1. Boot \in Seq(Jobs)
      BY DEF Boot, Job, Jobs
    <2> QED
      BY <1>2, <2>1, ErasedFlags DEF PowerUp, SettingsRecords
  <1>3. CASE Programmed
    BY <1>3 DEF Programmed
  <1> QED
    BY <1>1, <1>2, <1>3

-----------------------------------------------------------------------------
\* The records and what is left to do.

Coordinates == [1 .. N_AXIS -> Bytes]

CoordCells(n) == {coord_addr(n) + i : i \in 0 .. N_AXIS}

\* The cells that a job, or the writes of a sequence, store to at once.
Cells(job) ==
  IF job.op = "put" THEN {job.at}
  ELSE IF job.op = "write_coord" THEN CoordCells(job.n)
  ELSE {}

RecordCells(writes) == {writes[i].at : i \in DOMAIN writes}

Clear(jobs, cells) == \A i \in DOMAIN jobs : Cells(jobs[i]) \cap cells = {}

\* A record is stored, and will stay as it is.
Held(writes) ==
  /\ Clear(todo, RecordCells(writes))
  /\ \A i \in DOMAIN writes : eeprom[writes[i].at] = writes[i].byte

\* A record is being stored: its writes from number j on come next, and nothing
\* else that is left to do disturbs it.
From(j, writes) ==
  /\ j \in DOMAIN writes
  /\ Len(writes) - j < Len(todo)
  /\ \A i \in j .. Len(writes) : todo[i - j + 1] = writes[i]
  /\ \A k \in (Len(writes) - j + 2) .. Len(todo) :
       Cells(todo[k]) \cap RecordCells(writes) = {}
  /\ \A i \in 1 .. (j - 1) : eeprom[writes[i].at] = writes[i].byte

Underway(writes) == \E j \in DOMAIN writes : From(j, writes)

\* A coordinate record will be zeroed by a restore.
ZeroJob(n) == [op |-> "write_coord", n |-> n]
Queued(n) ==
  \E k \in DOMAIN todo :
    /\ todo[k] = ZeroJob(n)
    /\ \A i \in DOMAIN todo \ {k} : Cells(todo[i]) \cap CoordCells(n) = {}

CoordDue(n, data) ==
  \/ Held(settings_write_coord_data(n, data))
  \/ Underway(settings_write_coord_data(n, data))
  \/ data = ZeroVector /\ Queued(n)

Zeroed(cmd) == cmd.op = "restore" /\ cmd.which \in {"#", "*"}

AgendaInv ==
  /\ ~power => todo = <<>>
  /\ \A i \in DOMAIN todo :
       /\ todo[i].op = "init" => i = Len(todo)
       /\ todo[i].op = "read_global" => todo = Boot
       /\ todo[i].op = "kept" =>
            \A k \in (i + 1) .. Len(todo) : todo[k].op # "write_coord"

PromisesHeld ==
  /\ \A v \in promised[Globals] :
       \E s \in SettingsRecords :
         /\ s.flags \in Flags /\ v = GlobalBytes(s)
         /\ Held(write_global_settings(s))
  /\ \A n \in CoordIndices : \A v \in promised[CoordRegion(n)] :
       v \in Coordinates /\ Held(settings_write_coord_data(n, v))

SettingsDue ==
  power => \/ todo = Boot
           \/ Held(write_global_settings(settings))
           \/ Underway(write_global_settings(settings))

KeptDue ==
  \A i \in DOMAIN todo : todo[i].op = "kept" =>
    LET cmd == todo[i].cmd
    IN  /\ cmd.op = "coord_data" => CoordDue(cmd.n, cmd.value)
        /\ Zeroed(cmd) => \A n \in CoordIndices : CoordDue(n, ZeroVector)

OffsetDue ==
  power => \/ todo # <<>> /\ todo[Len(todo)].op = "init"
           \/ \E i \in DOMAIN todo : todo[i].op = "kept" /\ Adopted(todo[i].cmd)
           \/ CoordDue(coord_select, coord_system)

RecordsInv ==
  /\ AgendaInv
  /\ PromisesHeld
  /\ SettingsDue
  /\ KeptDue
  /\ OffsetDue

-----------------------------------------------------------------------------
\* Where the records lie, and what their writes are.

GlobalCells == {0} \cup {EEPROM_ADDR_GLOBAL + i : i \in 0 .. GLOBAL_SIZE}
TextAddresses == {EEPROM_ADDR_BUILD_INFO} \cup {line_addr(n) : n \in LineIndices}

\* The writes of a record go to cells of their own.
Record(writes) ==
  /\ writes \in Seq(Jobs) /\ writes # <<>>
  /\ \A i \in DOMAIN writes : writes[i].op = "put"
  /\ \A i, j \in DOMAIN writes : writes[i].at = writes[j].at => i = j

LEMMA Product ==
  ASSUME NEW n \in Nat, NEW k \in Nat
  PROVE  n * k \in Nat
OBVIOUS

LEMMA ConcatIndex ==
  ASSUME NEW S, NEW a \in Seq(S), NEW c \in Seq(S)
  PROVE  /\ a \o c \in Seq(S) /\ Len(a \o c) = Len(a) + Len(c)
         /\ \A i \in 1 .. Len(a) : (a \o c)[i] = a[i]
         /\ \A i \in 1 .. Len(c) : (a \o c)[Len(a) + i] = c[i]
OBVIOUS

LEMMA ProductGrows ==
  ASSUME NEW m \in Nat, NEW n \in Nat, m < n, NEW k \in Nat
  PROVE  m * k + k <= n * k
PROOF
  <1> DEFINE d == n - m - 1
  <1>1. d \in Nat /\ n = m + 1 + d
    OBVIOUS
  <1>2. d * k \in Nat /\ m * k \in Nat
    BY <1>1, Product
  <1>3. (m + 1 + d) * k = m * k + k + d * k
    BY <1>1
  <1> QED
    BY <1>1, <1>2, <1>3

LEMMA CoordAddress ==
  ASSUME NEW n \in CoordIndices
  PROVE  coord_addr(n) \in Nat
PROOF
  <1>1. N_AXIS + 1 \in Nat /\ n \in Nat
    BY LayoutAssumption DEF CoordIndices
  <1>2. n * (N_AXIS + 1) \in Nat
    BY <1>1, Product
  <1> QED
    BY <1>2, LayoutAssumption DEF coord_addr

LEMMA TextAddress ==
  ASSUME NEW at \in TextAddresses
  PROVE  /\ at \in Nat
         /\ at >= EEPROM_ADDR_STARTUP_BLOCK \/ at >= EEPROM_ADDR_BUILD_INFO
         /\ \A i \in 0 .. LINE_BUFFER_SIZE : at + i \in Behind
PROOF
  <1>1. CASE at = EEPROM_ADDR_BUILD_INFO
    BY <1>1, LayoutAssumption
  <1>2. ASSUME NEW n \in LineIndices, at = line_addr(n)
        PROVE  at \in Nat /\ at >= EEPROM_ADDR_STARTUP_BLOCK
    <2>1. n \in Nat /\ LINE_BUFFER_SIZE + 1 \in Nat
      BY LayoutAssumption DEF LineIndices
    <2>2. n * (LINE_BUFFER_SIZE + 1) \in Nat
      BY <2>1, Product
    <2> QED
      BY <1>2, <2>2, LayoutAssumption DEF line_addr
  <1> QED
    BY <1>1, <1>2, LayoutAssumption DEF TextAddresses

LEMMA CoordsApart ==
  ASSUME NEW m \in CoordIndices, NEW n \in CoordIndices, m # n
  PROVE  CoordCells(m) \cap CoordCells(n) = {}
PROOF
  <1>1. ASSUME NEW k \in CoordIndices, NEW l \in CoordIndices, k < l,
               NEW i \in 0 .. N_AXIS, NEW j \in 0 .. N_AXIS
        PROVE  coord_addr(k) + i # coord_addr(l) + j
    <2> DEFINE w == N_AXIS + 1
    <2>1. w \in Nat /\ k \in Nat /\ l \in Nat /\ N_AXIS \in Nat
      BY LayoutAssumption DEF CoordIndices
    <2>2. k * w + w <= l * w /\ k * w \in Nat /\ l * w \in Nat
      BY <2>1, <1>1, ProductGrows, Product
    <2>3. coord_addr(k) = k * w + EEPROM_ADDR_PARAMETERS
          /\ coord_addr(l) = l * w + EEPROM_ADDR_PARAMETERS
      BY DEF coord_addr
    <2>4. w = N_AXIS + 1
      OBVIOUS
    <2>5. EEPROM_ADDR_PARAMETERS \in Nat
      BY LayoutAssumption
    <2> HIDE DEF w
    <2> QED
      BY <2>1, <2>2, <2>3, <2>4, <2>5
  <1>2. m < n \/ n < m
    BY LayoutAssumption DEF CoordIndices
  <1> QED
    BY <1>1, <1>2 DEF CoordCells

LEMMA GlobalsApart ==
  ASSUME NEW n \in CoordIndices
  PROVE  CoordCells(n) \cap GlobalCells = {}
PROOF
  <1>1. ASSUME NEW i \in 0 .. N_AXIS
        PROVE  coord_addr(n) + i \notin GlobalCells
    <2>1. coord_addr(n) + i \in Behind
      BY LayoutAssumption
    <2> QED
      BY <2>1, LayoutAssumption DEF Behind, GlobalCells, GLOBAL_SIZE
  <1> QED
    BY <1>1 DEF CoordCells

LEMMA TextsApart ==
  ASSUME NEW at \in TextAddresses, NEW i \in 0 .. LINE_BUFFER_SIZE
  PROVE  at + i \notin GlobalCells /\ \A n \in CoordIndices : at + i \notin CoordCells(n)
PROOF
  <1>1. at + i \in Behind /\ at \in Nat
    BY TextAddress
  <1>2. at + i \notin GlobalCells
    BY <1>1, LayoutAssumption DEF Behind, GlobalCells, GLOBAL_SIZE
  <1>3. ASSUME NEW n \in CoordIndices, NEW k \in 0 .. N_AXIS
        PROVE  at + i # coord_addr(n) + k
    <2>1. coord_addr(n) + k < EEPROM_ADDR_STARTUP_BLOCK
          /\ coord_addr(n) + k < EEPROM_ADDR_BUILD_INFO
      BY LayoutAssumption
    <2>2. at >= EEPROM_ADDR_STARTUP_BLOCK \/ at >= EEPROM_ADDR_BUILD_INFO
      BY TextAddress
    <2>3. coord_addr(n) + k \in Nat
      BY CoordAddress, LayoutAssumption
    <2> QED
      BY <1>1, <2>1, <2>2, <2>3, LayoutAssumption
  <1> QED
    BY <1>2, <1>3 DEF CoordCells

LEMMA CoordRecord ==
  ASSUME NEW n \in CoordIndices, NEW data \in Coordinates
  PROVE  LET writes == settings_write_coord_data(n, data)
         IN  /\ Record(writes) /\ Len(writes) = N_AXIS + 1
             /\ \A i \in 1 .. (N_AXIS + 1) :
                  writes[i] = Put(coord_addr(n) + i - 1,
                                  IF i <= N_AXIS THEN data[i] ELSE Checksum(data))
             /\ RecordCells(writes) = CoordCells(n)
PROOF
  <1> DEFINE writes == settings_write_coord_data(n, data)
  <1>1. data \in Seq(Bytes) /\ Len(data) = N_AXIS /\ N_AXIS \in Nat \ {0}
    BY LayoutAssumption DEF Coordinates
  <1>2. writes \in Seq(Jobs)
    BY CoordWrites DEF Coordinates
  <1>3. writes = [i \in 1 .. (N_AXIS + 1) |->
                   Put(coord_addr(n) + i - 1, IF i <= N_AXIS THEN data[i] ELSE Checksum(data))]
    BY <1>1 DEF settings_write_coord_data, memcpy_to_eeprom_with_checksum
  <1>4. DOMAIN writes = 1 .. (N_AXIS + 1) /\ Len(writes) = N_AXIS + 1
    BY <1>1, <1>2, <1>3
  <1>5. \A i \in 1 .. (N_AXIS + 1) :
          writes[i] = Put(coord_addr(n) + i - 1, IF i <= N_AXIS THEN data[i] ELSE Checksum(data))
    BY <1>3
  <1> HIDE DEF writes
  <1>6. ASSUME NEW i \in 1 .. (N_AXIS + 1)
        PROVE  writes[i].op = "put" /\ writes[i].at = coord_addr(n) + i - 1
    <2>1. PICK byte : writes[i] = Put(coord_addr(n) + i - 1, byte)
      BY <1>5
    <2> QED
      BY <2>1 DEF Put
  <1>7. coord_addr(n) \in Nat
    BY CoordAddress
  <1>8. \A i, j \in 1 .. (N_AXIS + 1) : writes[i].at = writes[j].at => i = j
    BY <1>1, <1>6, <1>7
  <1>9. RecordCells(writes) = CoordCells(n)
    <2>1. ASSUME NEW i \in 1 .. (N_AXIS + 1)
          PROVE  writes[i].at \in CoordCells(n)
      <3>1. i - 1 \in 0 .. N_AXIS /\ coord_addr(n) + i - 1 = coord_addr(n) + (i - 1)
        BY <1>1, <1>7
      <3> QED
        BY <1>6, <3>1 DEF CoordCells
    <2>2. ASSUME NEW i \in 0 .. N_AXIS
          PROVE  coord_addr(n) + i \in RecordCells(writes)
      <3>1. i + 1 \in 1 .. (N_AXIS + 1) /\ coord_addr(n) + (i + 1) - 1 = coord_addr(n) + i
        BY <1>1, <1>7
      <3>2. writes[i + 1].at = coord_addr(n) + i
        BY <1>6, <3>1
      <3> QED
        BY <1>4, <3>1, <3>2 DEF RecordCells
    <2> QED
      BY <1>4, <2>1, <2>2 DEF RecordCells, CoordCells
  <1>10. Record(writes)
    BY <1>1, <1>2, <1>4, <1>6, <1>8 DEF Record
  <1>11. Len(writes) = N_AXIS + 1
    BY <1>4
  <1> QED
    BY <1>5, <1>9, <1>10, <1>11 DEF writes

LEMMA GlobalRecordWrites ==
  ASSUME NEW s \in SettingsRecords, s.flags \in Flags
  PROVE  LET writes == write_global_settings(s)
             bytes == GlobalBytes(s)
         IN  /\ Record(writes) /\ Len(writes) = GLOBAL_SIZE + 2
             /\ writes[1] = Put(0, SETTINGS_VERSION)
             /\ writes[2] = Put(EEPROM_ADDR_GLOBAL, s.pulse_microseconds)
             /\ writes[3] = Put(EEPROM_ADDR_GLOBAL + 1, s.flags)
             /\ writes[4] = Put(EEPROM_ADDR_GLOBAL + 2, s.homing_pulloff)
             /\ writes[5] = Put(EEPROM_ADDR_GLOBAL + 3, Checksum(bytes))
             /\ RecordCells(writes) = GlobalCells
PROOF
  <1> DEFINE writes == write_global_settings(s)
             bytes == GlobalBytes(s)
             copy == memcpy_to_eeprom_with_checksum(EEPROM_ADDR_GLOBAL, bytes)
  <1>1. Len(bytes) = 3 /\ bytes[1] = s.pulse_microseconds /\ bytes[2] = s.flags
        /\ bytes[3] = s.homing_pulloff
    BY DEF GlobalBytes
  <1>2. writes \in Seq(Jobs)
    BY GlobalWrites
  <1> HIDE DEF bytes
  <1>3. copy = [i \in 1 .. 4 |->
                 Put(EEPROM_ADDR_GLOBAL + i - 1, IF i <= 3 THEN bytes[i] ELSE Checksum(bytes))]
    BY <1>1 DEF memcpy_to_eeprom_with_checksum
  <1>4. copy \in Seq({copy[i] : i \in 1 .. 4} \cup {Put(0, SETTINGS_VERSION)}) /\ Len(copy) = 4
    BY <1>3
  <1>5. EEPROM_ADDR_GLOBAL \in Nat \ {0}
    BY LayoutAssumption
  <1>6. /\ copy[1] = Put(EEPROM_ADDR_GLOBAL, s.pulse_microseconds)
        /\ copy[2] = Put(EEPROM_ADDR_GLOBAL + 1, s.flags)
        /\ copy[3] = Put(EEPROM_ADDR_GLOBAL + 2, s.homing_pulloff)
        /\ copy[4] = Put(EEPROM_ADDR_GLOBAL + 3, Checksum(bytes))
    <2>1. /\ EEPROM_ADDR_GLOBAL + 1 - 1 = EEPROM_ADDR_GLOBAL
          /\ EEPROM_ADDR_GLOBAL + 2 - 1 = EEPROM_ADDR_GLOBAL + 1
          /\ EEPROM_ADDR_GLOBAL + 3 - 1 = EEPROM_ADDR_GLOBAL + 2
          /\ EEPROM_ADDR_GLOBAL + 4 - 1 = EEPROM_ADDR_GLOBAL + 3
      BY <1>5
    <2> QED
      BY <1>1, <1>3, <2>1
  <1>7. writes = <<Put(0, SETTINGS_VERSION)>> \o copy
    BY DEF write_global_settings, bytes
  <1> HIDE DEF copy, writes
  <1>8. /\ Len(writes) = 5
        /\ writes[1] = Put(0, SETTINGS_VERSION)
        /\ writes[2] = copy[1] /\ writes[3] = copy[2] /\ writes[4] = copy[3] /\ writes[5] = copy[4]
    <2> DEFINE first == <<Put(0, SETTINGS_VERSION)>>
               all == {copy[i] : i \in 1 .. 4} \cup {Put(0, SETTINGS_VERSION)}
    <2>1. first \in Seq(all) /\ Len(first) = 1 /\ first[1] = Put(0, SETTINGS_VERSION)
      OBVIOUS
    <2>2. writes = first \o copy /\ copy \in Seq(all) /\ Len(copy) = 4
      BY <1>4, <1>7
    <2> HIDE DEF first, all
    <2>5. first \in Seq(all) /\ copy \in Seq(all)
      BY <2>1, <2>2
    <2>6. /\ Len(first \o copy) = Len(first) + Len(copy)
          /\ \A i \in 1 .. Len(first) : (first \o copy)[i] = first[i]
          /\ \A i \in 1 .. Len(copy) : (first \o copy)[Len(first) + i] = copy[i]
      BY ONLY <2>5, ConcatIndex
    <2>7. writes = first \o copy /\ Len(first) = 1 /\ Len(copy) = 4
      BY <2>1, <2>2
    <2>3. /\ Len(writes) = 5 /\ \A i \in 1 .. 1 : writes[i] = first[i]
          /\ \A i \in 1 .. 4 : writes[1 + i] = copy[i]
      BY ONLY <2>6, <2>7
    <2>4. writes[1 + 1] = copy[1] /\ writes[1 + 2] = copy[2] /\ writes[1 + 3] = copy[3]
          /\ writes[1 + 4] = copy[4] /\ writes[1] = first[1]
      BY <2>3
    <2> QED
      BY <2>1, <2>3, <2>4
  <1>9. /\ writes[1].op = "put" /\ writes[1].at = 0
        /\ writes[2].op = "put" /\ writes[2].at = EEPROM_ADDR_GLOBAL
        /\ writes[3].op = "put" /\ writes[3].at = EEPROM_ADDR_GLOBAL + 1
        /\ writes[4].op = "put" /\ writes[4].at = EEPROM_ADDR_GLOBAL + 2
        /\ writes[5].op = "put" /\ writes[5].at = EEPROM_ADDR_GLOBAL + 3
    BY <1>6, <1>8 DEF Put
  <1>10. DOMAIN writes = 1 .. 5
    BY <1>2, <1>8
  <1>11. RecordCells(writes) = GlobalCells
    BY <1>5, <1>9, <1>10 DEF RecordCells, GlobalCells, GLOBAL_SIZE
  <1>12. Record(writes)
    <2>1. writes # <<>>
      <3>1. Len(writes) = 5
        BY <1>8
      <3>2. Len(<<>>) = 0
        OBVIOUS
      <3> QED
        BY <3>1, <3>2
    <2>2. \A i \in DOMAIN writes : writes[i].op = "put"
      <3>1. \A i \in 1 .. 5 : i = 1 \/ i = 2 \/ i = 3 \/ i = 4 \/ i = 5
        OBVIOUS
      <3> QED
        BY <1>9, <1>10, <3>1
    <2>3. \A i, j \in DOMAIN writes : writes[i].at = writes[j].at => i = j
      <3>1. \A i \in 1 .. 5 :
              writes[i].at = IF i = 1 THEN 0 ELSE EEPROM_ADDR_GLOBAL + i - 2
        <4>1. /\ EEPROM_ADDR_GLOBAL + 2 - 2 = EEPROM_ADDR_GLOBAL
              /\ EEPROM_ADDR_GLOBAL + 3 - 2 = EEPROM_ADDR_GLOBAL + 1
              /\ EEPROM_ADDR_GLOBAL + 4 - 2 = EEPROM_ADDR_GLOBAL + 2
              /\ EEPROM_ADDR_GLOBAL + 5 - 2 = EEPROM_ADDR_GLOBAL + 3
          BY <1>5
        <4>2. \A i \in 1 .. 5 : i = 1 \/ i = 2 \/ i = 3 \/ i = 4 \/ i = 5
          OBVIOUS
        <4> QED
          BY <1>9, <4>1, <4>2
      <3>2. \A i \in 1 .. 5 : EEPROM_ADDR_GLOBAL + i - 2 \in Int
                              /\ (i # 1 => EEPROM_ADDR_GLOBAL + i - 2 > 0)
        BY <1>5
      <3>3. \A i, j \in 1 .. 5 : EEPROM_ADDR_GLOBAL + i - 2 = EEPROM_ADDR_GLOBAL + j - 2 => i = j
        BY <1>5
      <3> QED
        BY <1>10, <3>1, <3>2, <3>3
    <2> QED
      BY <1>2, <2>1, <2>2, <2>3 DEF Record
  <1> QED
    BY <1>6, <1>8, <1>11, <1>12 DEF writes, bytes, GLOBAL_SIZE

-----------------------------------------------------------------------------
\* What a step leaves of a record that is stored, or being stored.

LEMMA PutPlace ==
  ASSUME NEW writes, Record(writes), NEW i \in DOMAIN writes
  PROVE  writes[i].at \in Addresses /\ Cells(writes[i]) = {writes[i].at}
PROOF
  <1>1. writes[i] \in Jobs /\ writes[i].op = "put"
    BY DEF Record
  <1>2. writes[i] \in Puts
    BY <1>1 DEF Jobs
  <1> QED
    BY <1>1, <1>2 DEF Puts, Cells

LEMMA TailIndex ==
  ASSUME NEW S, NEW s \in Seq(S), s # <<>>
  PROVE  /\ Tail(s) \in Seq(S) /\ Len(Tail(s)) = Len(s) - 1 /\ Head(s) = s[1]
         /\ Len(s) \in Nat \ {0}
         /\ \A i \in 1 .. (Len(s) - 1) : Tail(s)[i] = s[i + 1]
OBVIOUS

\* What is left to do, with jobs put in the place of the first.
LEMMA MovedIndex ==
  ASSUME NEW S, NEW a \in Seq(S), NEW s \in Seq(S), s # <<>>,
         NEW t, t = a \o Tail(s)
  PROVE  /\ t \in Seq(S) /\ Len(t) = Len(a) + Len(s) - 1
         /\ \A i \in 1 .. Len(a) : t[i] = a[i]
         /\ \A i \in 2 .. Len(s) : t[Len(a) + i - 1] = s[i]
         /\ \A i \in 1 .. Len(t) :
              \/ i \in 1 .. Len(a) /\ t[i] = a[i]
              \/ \E k \in 2 .. Len(s) : i = Len(a) + k - 1 /\ t[i] = s[k]
PROOF
  <1> DEFINE r == Tail(s)
  <1>1. /\ r \in Seq(S) /\ Len(r) = Len(s) - 1 /\ Len(s) \in Nat \ {0}
        /\ \A i \in 1 .. (Len(s) - 1) : r[i] = s[i + 1]
    BY TailIndex
  <1>2. t = a \o r
    OBVIOUS
  <1> HIDE DEF r
  <1>3. /\ t \in Seq(S) /\ Len(t) = Len(a) + Len(r)
        /\ \A i \in 1 .. Len(a) : t[i] = a[i]
        /\ \A i \in 1 .. Len(r) : t[Len(a) + i] = r[i]
    BY <1>1, <1>2, ConcatIndex
  <1>4. Len(a) \in Nat
    OBVIOUS
  <1>5. ASSUME NEW i \in 2 .. Len(s)
        PROVE  t[Len(a) + i - 1] = s[i]
    <2>1. i - 1 \in 1 .. Len(r) /\ Len(a) + (i - 1) = Len(a) + i - 1 /\ (i - 1) + 1 = i
          /\ i - 1 \in 1 .. (Len(s) - 1)
      BY <1>1, <1>4
    <2>2. t[Len(a) + (i - 1)] = r[i - 1] /\ r[i - 1] = s[(i - 1) + 1]
      BY <1>1, <1>3, <2>1
    <2> QED
      BY <2>1, <2>2
  <1>6. ASSUME NEW i \in 1 .. Len(t), i \notin 1 .. Len(a)
        PROVE  \E k \in 2 .. Len(s) : i = Len(a) + k - 1 /\ t[i] = s[k]
    <2>1. /\ i - Len(a) + 1 \in 2 .. Len(s)
          /\ i = Len(a) + (i - Len(a) + 1) - 1
      BY <1>1, <1>3, <1>4, <1>6
    <2> QED
      BY <1>5, <2>1
  <1> QED
    BY <1>1, <1>3, <1>4, <1>5, <1>6

LEMMA HeldMoved ==
  ASSUME todo \in Seq(Jobs), todo # <<>>, NEW writes, Record(writes), Held(writes),
         NEW a \in Seq(Jobs), Clear(a, RecordCells(writes)),
         todo' = a \o Tail(todo), eeprom' = eeprom
  PROVE  Held(writes)'
PROOF
  <1>1. /\ todo' \in Seq(Jobs)
        /\ \A i \in 1 .. Len(todo') :
              \/ i \in 1 .. Len(a) /\ todo'[i] = a[i]
              \/ \E k \in 2 .. Len(todo) : i = Len(a) + k - 1 /\ todo'[i] = todo[k]
    BY MovedIndex
  <1>2. \A i \in DOMAIN todo' : Cells(todo'[i]) \cap RecordCells(writes) = {}
    <2>1. \A i \in 1 .. Len(a) : Cells(a[i]) \cap RecordCells(writes) = {}
      BY DEF Clear
    <2>2. \A k \in 2 .. Len(todo) : Cells(todo[k]) \cap RecordCells(writes) = {}
      BY DEF Held, Clear
    <2>3. DOMAIN todo' = 1 .. Len(todo')
      BY <1>1
    <2> QED
      BY <1>1, <2>1, <2>2, <2>3
  <1>3. \A i \in DOMAIN writes : eeprom'[writes[i].at] = writes[i].byte
    BY DEF Held
  <1> QED
    BY <1>2, <1>3 DEF Held, Clear

\* The cell written is the one addressed.
LEMMA PutStep ==
  ASSUME FlagsInv, PutChar
  PROVE  /\ todo \in Seq(Jobs) /\ todo # <<>> /\ todo' = Tail(todo)
         /\ eeprom \in [Addresses -> Bytes] /\ Head(todo).op = "put"
         /\ eeprom' = [eeprom EXCEPT ![Head(todo).at] = Head(todo).byte]
PROOF
  <1>1. todo \in Seq(Jobs) /\ todo # <<>> /\ Head(todo).op = "put"
    BY DEF FlagsInv, PutChar, Accesses, At
  <1>2. Head(todo).at \in Addresses
    BY <1>1, Rest DEF Jobs, Puts
  <1>3. Cell(Head(todo).at) = Head(todo).at
    BY <1>2, CellFacts DEF Addresses
  <1> QED
    BY <1>1, <1>3 DEF FlagsInv, PutChar

LEMMA HeldPut ==
  ASSUME FlagsInv, PutChar, NEW writes, Record(writes), Held(writes)
  PROVE  Held(writes)'
PROOF
  <1>1. /\ todo \in Seq(Jobs) /\ todo # <<>> /\ todo' = Tail(todo)
        /\ eeprom \in [Addresses -> Bytes]
        /\ eeprom' = [eeprom EXCEPT ![Head(todo).at] = Head(todo).byte]
        /\ Head(todo).op = "put"
    BY PutStep
  <1>2. /\ Len(Tail(todo)) = Len(todo) - 1 /\ Head(todo) = todo[1]
        /\ Tail(todo) \in Seq(Jobs) /\ Len(todo) \in Nat \ {0}
        /\ \A i \in 1 .. (Len(todo) - 1) : Tail(todo)[i] = todo[i + 1]
    BY <1>1, TailIndex
  <1>3. \A i \in 1 .. Len(todo) : Cells(todo[i]) \cap RecordCells(writes) = {}
    BY <1>1 DEF Held, Clear
  <1>4. \A i \in DOMAIN todo' : Cells(todo'[i]) \cap RecordCells(writes) = {}
    BY <1>1, <1>2, <1>3
  <1>5. Head(todo).at \notin RecordCells(writes)
    BY <1>1, <1>2, <1>3 DEF Cells
  <1>6. ASSUME NEW i \in DOMAIN writes
        PROVE  eeprom'[writes[i].at] = writes[i].byte
    <2>1. writes[i].at \in Addresses
      BY PutPlace
    <2>2. writes[i].at # Head(todo).at
      BY <1>5 DEF RecordCells
    <2>3. eeprom[writes[i].at] = writes[i].byte
      BY DEF Held
    <2> QED
      BY <1>1, <2>1, <2>2, <2>3
  <1> QED
    BY <1>4, <1>6 DEF Held, Clear

LEMMA UnderwayHead ==
  ASSUME todo \in Seq(Jobs), NEW writes, Record(writes), Underway(writes)
  PROVE  todo # <<>> /\ Head(todo).op = "put"
PROOF
  <1>1. PICK j \in DOMAIN writes : From(j, writes)
    BY DEF Underway
  <1>2. writes \in Seq(Jobs) /\ DOMAIN writes = 1 .. Len(writes) /\ writes[j].op = "put"
    BY DEF Record
  <1>3. Len(writes) - j < Len(todo) /\ \A i \in j .. Len(writes) : todo[i - j + 1] = writes[i]
    BY <1>1 DEF From
  <1>4. Len(todo) > 0 /\ todo[j - j + 1] = writes[j] /\ j - j + 1 = 1
    BY <1>2, <1>3
  <1>5. todo # <<>>
    BY <1>4
  <1> QED
    BY <1>2, <1>4, <1>5

LEMMA UnderwayPut ==
  ASSUME FlagsInv, PutChar, NEW writes, Record(writes), Underway(writes)
  PROVE  Underway(writes)' \/ Held(writes)'
PROOF
  <1> DEFINE n == Len(writes)
             cells == RecordCells(writes)
  <1>1. /\ todo \in Seq(Jobs) /\ todo # <<>> /\ todo' = Tail(todo)
        /\ eeprom \in [Addresses -> Bytes]
        /\ eeprom' = [eeprom EXCEPT ![Head(todo).at] = Head(todo).byte]
    BY PutStep
  <1>2. /\ Len(Tail(todo)) = Len(todo) - 1 /\ Head(todo) = todo[1]
        /\ Tail(todo) \in Seq(Jobs) /\ Len(todo) \in Nat \ {0}
        /\ \A i \in 1 .. (Len(todo) - 1) : Tail(todo)[i] = todo[i + 1]
    BY <1>1, TailIndex
  <1>3. PICK j \in DOMAIN writes : From(j, writes)
    BY DEF Underway
  <1>4. writes \in Seq(Jobs) /\ DOMAIN writes = 1 .. n /\ n \in Nat /\ j \in 1 .. n
    BY DEF Record
  <1>5. /\ n - j < Len(todo)
        /\ \A i \in j .. n : todo[i - j + 1] = writes[i]
        /\ \A k \in (n - j + 2) .. Len(todo) : Cells(todo[k]) \cap cells = {}
        /\ \A i \in 1 .. (j - 1) : eeprom[writes[i].at] = writes[i].byte
    BY <1>3 DEF From
  <1>6. Head(todo) = writes[j]
    <2>1. j \in j .. n /\ j - j + 1 = 1
      BY <1>4
    <2>2. todo[j - j + 1] = writes[j]
      BY <1>5, <2>1
    <2>3. todo[1] = writes[j]
      BY <2>1, <2>2
    <2> QED
      BY <1>2, <2>3
  <1>7. ASSUME NEW i \in 1 .. j
        PROVE  eeprom'[writes[i].at] = writes[i].byte
    <2>1. i \in DOMAIN writes /\ writes[i].at \in Addresses
      BY <1>4, PutPlace
    <2>2. CASE i = j
      BY <1>1, <1>6, <2>1, <2>2
    <2>3. CASE i # j
      <3>1. writes[i].at # writes[j].at
        BY <1>4, <2>1, <2>3 DEF Record
      <3>2. eeprom[writes[i].at] = writes[i].byte
        BY <1>4, <1>5, <2>3
      <3> QED
        BY <1>1, <1>6, <2>1, <3>1, <3>2
    <2> QED
      BY <2>2, <2>3
  <1>8. ASSUME NEW k \in (n - j + 1) .. Len(todo'), k >= 1
        PROVE  Cells(todo'[k]) \cap cells = {}
    <2>1. k + 1 \in (n - j + 2) .. Len(todo) /\ k \in 1 .. (Len(todo) - 1)
      BY <1>1, <1>2, <1>4, <1>8
    <2>2. todo'[k] = todo[k + 1]
      BY <1>1, <1>2, <2>1
    <2> QED
      BY <1>5, <2>1, <2>2
  <1> HIDE DEF n, cells
  <1>9. CASE j = n
    <2>1. \A i \in DOMAIN todo' : Cells(todo'[i]) \cap cells = {}
      BY <1>1, <1>2, <1>4, <1>8, <1>9
    <2>2. \A i \in DOMAIN writes : eeprom'[writes[i].at] = writes[i].byte
      BY <1>4, <1>7, <1>9
    <2> QED
      BY <2>1, <2>2 DEF Held, Clear, cells
  <1>10. CASE j # n
    <2>1. j + 1 \in DOMAIN writes /\ j + 1 \in Int
      BY <1>4, <1>10
    <2>2. n - (j + 1) < Len(todo')
      BY <1>1, <1>2, <1>4, <1>5
    <2>3. ASSUME NEW i \in (j + 1) .. n
          PROVE  todo'[i - (j + 1) + 1] = writes[i]
      <3>1. /\ i \in j .. n /\ i - (j + 1) + 1 = i - j /\ i - j \in 1 .. (Len(todo) - 1)
            /\ (i - j) + 1 = i - j + 1
        BY <1>2, <1>4, <1>5
      <3> QED
        BY <1>1, <1>2, <1>5, <3>1
    <2>4. ASSUME NEW k \in (n - (j + 1) + 2) .. Len(todo')
          PROVE  Cells(todo'[k]) \cap cells = {}
      <3>1. k \in (n - j + 1) .. Len(todo') /\ k >= 1
        BY <1>1, <1>2, <1>4
      <3> QED
        BY <1>8, <3>1
    <2>5. \A i \in 1 .. ((j + 1) - 1) : eeprom'[writes[i].at] = writes[i].byte
      BY <1>4, <1>7
    <2>6. From(j + 1, writes)'
      BY <2>1, <2>2, <2>3, <2>4, <2>5 DEF From, n, cells
    <2> QED
      BY <2>1, <2>6 DEF Underway
  <1> QED
    BY <1>9, <1>10

LEMMA UnderwayFresh ==
  ASSUME NEW writes, Record(writes), NEW rest \in Seq(Jobs),
         Clear(rest, RecordCells(writes)), todo' = writes \o rest
  PROVE  Underway(writes)'
PROOF
  <1>1. writes \in Seq(Jobs) /\ writes # <<>>
    BY DEF Record
  <1>2. DOMAIN writes = 1 .. Len(writes) /\ Len(writes) \in Nat \ {0} /\ 1 \in DOMAIN writes
    BY <1>1
  <1>3. /\ todo' \in Seq(Jobs) /\ Len(todo') = Len(writes) + Len(rest)
        /\ \A i \in 1 .. Len(writes) : todo'[i] = writes[i]
        /\ \A i \in 1 .. Len(rest) : todo'[Len(writes) + i] = rest[i]
    BY <1>1, ConcatIndex
  <1>4. Len(rest) \in Nat /\ DOMAIN rest = 1 .. Len(rest)
    OBVIOUS
  <1>5. Len(writes) - 1 < Len(todo')
    BY <1>2, <1>3, <1>4
  <1>6. \A i \in 1 .. Len(writes) : i - 1 + 1 = i
    BY <1>2
  <1>7. ASSUME NEW k \in (Len(writes) - 1 + 2) .. Len(todo')
        PROVE  Cells(todo'[k]) \cap RecordCells(writes) = {}
    <2>1. k - Len(writes) \in 1 .. Len(rest) /\ k = Len(writes) + (k - Len(writes))
      BY <1>2, <1>3, <1>4
    <2>2. todo'[k] = rest[k - Len(writes)]
      BY <1>3, <2>1
    <2> QED
      BY <1>4, <2>1, <2>2 DEF Clear
  <1>8. From(1, writes)'
    BY <1>2, <1>3, <1>5, <1>6, <1>7 DEF From
  <1> QED
    BY <1>2, <1>8 DEF Underway

LEMMA QueuedMoved ==
  ASSUME todo \in Seq(Jobs), todo # <<>>, NEW n \in CoordIndices, Queued(n),
         Head(todo) # ZeroJob(n), NEW a \in Seq(Jobs), Clear(a, CoordCells(n)),
         todo' = a \o Tail(todo)
  PROVE  Queued(n)'
PROOF
  <1>1. PICK k \in DOMAIN todo :
          /\ todo[k] = ZeroJob(n)
          /\ \A i \in DOMAIN todo \ {k} : Cells(todo[i]) \cap CoordCells(n) = {}
    BY DEF Queued
  <1>2. /\ Head(todo) = todo[1] /\ Len(todo) \in Nat \ {0} /\ DOMAIN todo = 1 .. Len(todo)
        /\ Len(a) \in Nat /\ DOMAIN a = 1 .. Len(a)
    BY TailIndex
  <1>3. k \in 2 .. Len(todo)
    BY <1>1, <1>2
  <1>4. /\ todo' \in Seq(Jobs) /\ Len(todo') = Len(a) + Len(todo) - 1
        /\ \A i \in 2 .. Len(todo) : todo'[Len(a) + i - 1] = todo[i]
        /\ \A i \in 1 .. Len(todo') :
              \/ i \in 1 .. Len(a) /\ todo'[i] = a[i]
              \/ \E l \in 2 .. Len(todo) : i = Len(a) + l - 1 /\ todo'[i] = todo[l]
    BY MovedIndex
  <1>5. DOMAIN todo' = 1 .. Len(todo')
    BY <1>4
  <1> DEFINE m == Len(a) + k - 1
  <1>6. m \in DOMAIN todo' /\ todo'[m] = ZeroJob(n)
    BY <1>1, <1>2, <1>3, <1>4, <1>5
  <1>7. ASSUME NEW i \in DOMAIN todo', i # m
        PROVE  Cells(todo'[i]) \cap CoordCells(n) = {}
    <2>1. CASE i \in 1 .. Len(a) /\ todo'[i] = a[i]
      BY <1>2, <2>1 DEF Clear
    <2>2. ASSUME NEW l \in 2 .. Len(todo), i = Len(a) + l - 1, todo'[i] = todo[l]
          PROVE  Cells(todo'[i]) \cap CoordCells(n) = {}
      BY <1>1, <1>2, <1>7, <2>2, SMTT(30)
    <2> QED
      BY <1>4, <1>5, <2>1, <2>2
  <1> HIDE DEF m
  <1> QED
    BY <1>6, <1>7 DEF Queued, ZeroJob

LEMMA ZeroCoordinates == ZeroVector \in Coordinates
PROOF
  BY ErasedFlags DEF ZeroVector, Coordinates

LEMMA QueuedExpanded ==
  ASSUME todo \in Seq(Jobs), todo # <<>>, NEW n \in CoordIndices, Queued(n),
         Head(todo) = ZeroJob(n),
         todo' = settings_write_coord_data(n, ZeroVector) \o Tail(todo)
  PROVE  Underway(settings_write_coord_data(n, ZeroVector))'
PROOF
  <1> DEFINE writes == settings_write_coord_data(n, ZeroVector)
  <1>1. PICK k \in DOMAIN todo :
          /\ todo[k] = ZeroJob(n)
          /\ \A i \in DOMAIN todo \ {k} : Cells(todo[i]) \cap CoordCells(n) = {}
    BY DEF Queued
  <1>2. /\ Head(todo) = todo[1] /\ Len(todo) \in Nat \ {0} /\ DOMAIN todo = 1 .. Len(todo)
        /\ Tail(todo) \in Seq(Jobs) /\ Len(Tail(todo)) = Len(todo) - 1
        /\ \A i \in 1 .. (Len(todo) - 1) : Tail(todo)[i] = todo[i + 1]
    BY TailIndex
  <1>3. Cells(todo[1]) \cap CoordCells(n) # {}
    <2>1. coord_addr(n) + 0 \in CoordCells(n)
      BY LayoutAssumption DEF CoordCells
    <2>2. Cells(todo[1]) = CoordCells(n)
      BY <1>2 DEF Cells, ZeroJob
    <2> QED
      BY <2>1, <2>2
  <1>4. k = 1
    BY <1>1, <1>2, <1>3
  <1>5. Record(writes) /\ RecordCells(writes) = CoordCells(n)
    BY CoordRecord, ZeroCoordinates
  <1>6. Clear(Tail(todo), CoordCells(n))
    <2>1. \A i \in 1 .. (Len(todo) - 1) : i + 1 \in DOMAIN todo \ {1}
      BY <1>2
    <2>2. DOMAIN Tail(todo) = 1 .. (Len(todo) - 1)
      BY <1>2
    <2> QED
      BY <1>1, <1>2, <1>4, <2>1, <2>2 DEF Clear
  <1> HIDE DEF writes
  <1>7. todo' = writes \o Tail(todo)
    BY DEF writes
  <1>8. Underway(writes)'
    BY <1>2, <1>5, <1>6, <1>7, UnderwayFresh
  <1> QED
    BY <1>8 DEF writes

LEMMA CoordDuePut ==
  ASSUME FlagsInv, PutChar, NEW n \in CoordIndices, NEW data \in Coordinates,
         CoordDue(n, data)
  PROVE  CoordDue(n, data)'
PROOF
  <1> DEFINE writes == settings_write_coord_data(n, data)
  <1>1. Record(writes)
    BY CoordRecord
  <1>2. Held(writes) \/ Underway(writes) => (Held(writes) \/ Underway(writes))'
    <2> HIDE DEF writes
    <2>1. Held(writes) => Held(writes)'
      BY <1>1, HeldPut DEF writes
    <2>2. Underway(writes) => Underway(writes)' \/ Held(writes)'
      BY <1>1, UnderwayPut DEF writes
    <2> QED
      BY <2>1, <2>2
  <1>3. Queued(n) => Queued(n)'
    <2>1. /\ todo \in Seq(Jobs) /\ todo # <<>> /\ todo' = Tail(todo) /\ Head(todo).op = "put"
      BY DEF FlagsInv, PutChar, Accesses, At
    <2>2. Head(todo) # ZeroJob(n)
      BY <2>1 DEF ZeroJob
    <2>3. <<>> \in Seq(Jobs) /\ <<>> \o Tail(todo) = Tail(todo)
      BY <2>1, TailIndex
    <2>4. Clear(<<>>, CoordCells(n))
      BY DEF Clear
    <2> QED
      BY <2>1, <2>2, <2>3, <2>4, QueuedMoved
  <1> QED
    BY <1>2, <1>3 DEF CoordDue

LEMMA CoordDueMoved ==
  ASSUME FlagsInv, todo # <<>>, NEW n \in CoordIndices, NEW data \in Coordinates,
         CoordDue(n, data), Head(todo).op # "put", Head(todo) # ZeroJob(n),
         NEW a \in Seq(Jobs), Clear(a, CoordCells(n)),
         todo' = a \o Tail(todo), eeprom' = eeprom
  PROVE  CoordDue(n, data)'
PROOF
  <1> DEFINE writes == settings_write_coord_data(n, data)
  <1>1. Record(writes) /\ RecordCells(writes) = CoordCells(n)
    BY CoordRecord
  <1>2. todo \in Seq(Jobs)
    BY DEF FlagsInv
  <1>3. Held(writes) => Held(writes)'
    BY <1>1, <1>2, HeldMoved
  <1>4. ~Underway(writes)
    BY <1>1, <1>2, UnderwayHead
  <1>5. Queued(n) => Queued(n)'
    BY <1>2, QueuedMoved
  <1> QED
    BY <1>3, <1>4, <1>5 DEF CoordDue

LEMMA CoordDueExpanded ==
  ASSUME FlagsInv, todo # <<>>, NEW n \in CoordIndices, NEW data \in Coordinates,
         CoordDue(n, data), Head(todo) = ZeroJob(n),
         todo' = settings_write_coord_data(n, ZeroVector) \o Tail(todo)
  PROVE  CoordDue(n, data)'
PROOF
  <1> DEFINE writes == settings_write_coord_data(n, data)
  <1>1. Record(writes) /\ RecordCells(writes) = CoordCells(n)
    BY CoordRecord
  <1>2. todo \in Seq(Jobs) /\ Head(todo) = todo[1] /\ 1 \in DOMAIN todo
    BY TailIndex DEF FlagsInv
  <1>3. ~Held(writes)
    <2>1. coord_addr(n) + 0 \in CoordCells(n)
      BY LayoutAssumption DEF CoordCells
    <2>2. Cells(todo[1]) = CoordCells(n)
      BY <1>2 DEF Cells, ZeroJob
    <2> QED
      BY <1>1, <1>2, <2>1, <2>2 DEF Held, Clear
  <1>4. ~Underway(writes)
    <2>1. Head(todo).op # "put"
      BY DEF ZeroJob
    <2> QED
      BY <1>1, <1>2, <2>1, UnderwayHead
  <1>5. data = ZeroVector /\ Queued(n)
    BY <1>3, <1>4 DEF CoordDue
  <1>6. Underway(settings_write_coord_data(n, ZeroVector))'
    BY <1>2, <1>5, QueuedExpanded
  <1> QED
    BY <1>5, <1>6 DEF CoordDue

-----------------------------------------------------------------------------
\* Which writes keep clear of which records.

LEMMA ClearConcat ==
  ASSUME NEW a \in Seq(Jobs), NEW c \in Seq(Jobs), NEW cells,
         Clear(a, cells), Clear(c, cells)
  PROVE  Clear(a \o c, cells) /\ a \o c \in Seq(Jobs)
PROOF
  <1> DEFINE t == a \o c
  <1>1. /\ t \in Seq(Jobs) /\ Len(t) = Len(a) + Len(c)
        /\ \A i \in 1 .. Len(a) : t[i] = a[i]
        /\ \A i \in 1 .. Len(c) : t[Len(a) + i] = c[i]
    BY ConcatIndex
  <1>2. DOMAIN a = 1 .. Len(a) /\ DOMAIN c = 1 .. Len(c) /\ Len(a) \in Nat /\ Len(c) \in Nat
    OBVIOUS
  <1> HIDE DEF t
  <1>3. DOMAIN t = 1 .. Len(t)
    BY <1>1
  <1>4. ASSUME NEW i \in DOMAIN t
        PROVE  Cells(t[i]) \cap cells = {}
    <2>1. CASE i \in 1 .. Len(a)
      BY <1>1, <1>2, <2>1 DEF Clear
    <2>2. CASE i \notin 1 .. Len(a)
      <3>1. i - Len(a) \in 1 .. Len(c) /\ i = Len(a) + (i - Len(a))
        BY <1>1, <1>2, <1>3, <2>2
      <3>2. t[i] = c[i - Len(a)]
        BY <1>1, <3>1
      <3> QED
        BY <1>2, <3>1, <3>2 DEF Clear
    <2> QED
      BY <2>1, <2>2
  <1>5. Clear(t, cells)
    BY <1>4 DEF Clear
  <1> QED
    BY <1>1, <1>5 DEF t

LEMMA ClearOps ==
  ASSUME NEW a, \A i \in DOMAIN a : a[i].op \notin {"put", "write_coord"}, NEW cells
  PROVE  Clear(a, cells)
PROOF
  BY DEF Clear, Cells

LEMMA ClearEmpty ==
  ASSUME NEW cells
  PROVE  Clear(<<>>, cells) /\ <<>> \in Seq(Jobs)
PROOF
  BY DEF Clear

LEMMA ClearRecord ==
  ASSUME NEW writes, Record(writes), NEW cells, RecordCells(writes) \cap cells = {}
  PROVE  Clear(writes, cells) /\ writes \in Seq(Jobs)
PROOF
  <1>1. ASSUME NEW i \in DOMAIN writes
        PROVE  Cells(writes[i]) \cap cells = {}
    <2>1. Cells(writes[i]) = {writes[i].at}
      BY PutPlace
    <2>2. writes[i].at \in RecordCells(writes)
      BY DEF RecordCells
    <2> QED
      BY <2>1, <2>2
  <1> QED
    BY <1>1 DEF Clear, Record

LEMMA CoordClear ==
  ASSUME NEW n \in CoordIndices, NEW data \in Coordinates
  PROVE  /\ settings_write_coord_data(n, data) \in Seq(Jobs)
         /\ Clear(settings_write_coord_data(n, data), GlobalCells)
         /\ \A m \in CoordIndices \ {n} :
              Clear(settings_write_coord_data(n, data), CoordCells(m))
PROOF
  <1> DEFINE writes == settings_write_coord_data(n, data)
  <1>1. Record(writes) /\ RecordCells(writes) = CoordCells(n)
    BY CoordRecord
  <1> HIDE DEF writes
  <1>2. CoordCells(n) \cap GlobalCells = {}
    BY GlobalsApart
  <1>3. \A m \in CoordIndices \ {n} : CoordCells(n) \cap CoordCells(m) = {}
    BY CoordsApart
  <1>4. writes \in Seq(Jobs) /\ Clear(writes, GlobalCells)
    BY <1>1, <1>2, ClearRecord
  <1>5. \A m \in CoordIndices \ {n} : Clear(writes, CoordCells(m))
    BY <1>1, <1>3, ClearRecord
  <1> QED
    BY <1>4, <1>5 DEF writes

LEMMA GlobalClear ==
  ASSUME NEW s \in SettingsRecords, s.flags \in Flags, NEW n \in CoordIndices
  PROVE  Clear(write_global_settings(s), CoordCells(n))
PROOF
  <1>1. Record(write_global_settings(s)) /\ RecordCells(write_global_settings(s)) = GlobalCells
    BY GlobalRecordWrites
  <1>2. GlobalCells \cap CoordCells(n) = {}
    BY GlobalsApart
  <1> QED
    BY <1>1, <1>2, ClearRecord

LEMMA TextClear ==
  ASSUME NEW at \in TextAddresses, NEW data \in [1 .. LINE_BUFFER_SIZE -> Bytes]
  PROVE  LET writes == memcpy_to_eeprom_with_checksum(at, data)
         IN  /\ writes \in Seq(Jobs)
             /\ \A i \in DOMAIN writes : writes[i].op = "put"
             /\ Clear(writes, GlobalCells)
             /\ \A n \in CoordIndices : Clear(writes, CoordCells(n))
PROOF
  <1> DEFINE writes == memcpy_to_eeprom_with_checksum(at, data)
  <1>1. writes \in Seq(Jobs)
    BY LineWrites DEF TextAddresses
  <1>2. data \in Seq(Bytes) /\ Len(data) = LINE_BUFFER_SIZE /\ LINE_BUFFER_SIZE \in Nat \ {0}
    BY LayoutAssumption
  <1>3. writes = [i \in 1 .. (LINE_BUFFER_SIZE + 1) |->
                   Put(at + i - 1, IF i <= LINE_BUFFER_SIZE THEN data[i] ELSE Checksum(data))]
    BY <1>2 DEF memcpy_to_eeprom_with_checksum
  <1> HIDE DEF writes
  <1>4. DOMAIN writes = 1 .. (LINE_BUFFER_SIZE + 1)
    BY <1>3
  <1>5. ASSUME NEW i \in DOMAIN writes
        PROVE  /\ writes[i].op = "put"
               /\ \E k \in 0 .. LINE_BUFFER_SIZE : Cells(writes[i]) = {at + k}
    <2>1. PICK byte : writes[i] = Put(at + i - 1, byte)
      BY <1>3, <1>4
    <2>2. writes[i].op = "put" /\ writes[i].at = at + i - 1
      BY <2>1 DEF Put
    <2>3. i - 1 \in 0 .. LINE_BUFFER_SIZE /\ at + i - 1 = at + (i - 1)
      BY <1>2, <1>4, TextAddress
    <2>4. Cells(writes[i]) = {at + (i - 1)}
      BY <2>2, <2>3 DEF Cells
    <2> QED
      BY <2>2, <2>3, <2>4
  <1>6. Clear(writes, GlobalCells) /\ \A n \in CoordIndices : Clear(writes, CoordCells(n))
    BY <1>5, TextsApart DEF Clear
  <1> QED
    BY <1>1, <1>5, <1>6 DEF writes

LEMMA EmptyLinesClear ==
  /\ EmptyLines \in Seq(Jobs)
  /\ \A i \in DOMAIN EmptyLines : EmptyLines[i].op = "put"
  /\ Clear(EmptyLines, GlobalCells)
  /\ \A n \in CoordIndices : Clear(EmptyLines, CoordCells(n))
PROOF
  <1>1. ASSUME NEW i \in 1 .. (2 * N_STARTUP_LINE)
        PROVE  \E at \in TextAddresses, k \in 0 .. LINE_BUFFER_SIZE :
                 /\ EmptyLines[i] = Put(at + k, Zero)
                 /\ at + k \in Addresses /\ at + k # FLAGS
    <2> DEFINE n == (i - 1) \div 2
               k == (i - 1) % 2
    <2>1. n \in LineIndices /\ k \in 0 .. LINE_BUFFER_SIZE
      BY LayoutAssumption DEF LineIndices
    <2>2. EmptyLines[i] = Put(line_addr(n) + k, Zero)
      BY DEF EmptyLines
    <2> HIDE DEF n, k
    <2>3. line_addr(n) + k \in Behind
      BY <2>1, LayoutAssumption
    <2>4. line_addr(n) + k \in Addresses /\ line_addr(n) + k # FLAGS
      BY <2>3, LayoutAssumption DEF Behind, Addresses, FLAGS, GLOBAL_SIZE
    <2>5. line_addr(n) \in TextAddresses
      BY <2>1 DEF TextAddresses
    <2> QED
      BY <2>1, <2>2, <2>4, <2>5
  <1>2. ASSUME NEW i \in 1 .. (2 * N_STARTUP_LINE)
        PROVE  /\ EmptyLines[i] \in Jobs /\ EmptyLines[i].op = "put"
               /\ \E at \in TextAddresses, k \in 0 .. LINE_BUFFER_SIZE :
                    Cells(EmptyLines[i]) = {at + k}
    <2>1. PICK at \in TextAddresses, k \in 0 .. LINE_BUFFER_SIZE :
                 /\ EmptyLines[i] = Put(at + k, Zero)
                 /\ at + k \in Addresses /\ at + k # FLAGS
      BY <1>1
    <2>2. EmptyLines[i].op = "put" /\ EmptyLines[i].at = at + k /\ EmptyLines[i].byte = Zero
      BY <2>1 DEF Put
    <2>3. Cells(EmptyLines[i]) = {at + k}
      BY <2>2 DEF Cells
    <2>4. EmptyLines[i] \in Jobs
      BY <2>1, ErasedFlags DEF Jobs, Puts, Put
    <2> QED
      BY <2>2, <2>3, <2>4
  <1>3. N_STARTUP_LINE \in Nat
    BY LayoutAssumption
  <1>4. EmptyLines \in Seq(Jobs) /\ DOMAIN EmptyLines = 1 .. (2 * N_STARTUP_LINE)
    <2>1. DOMAIN EmptyLines = 1 .. (2 * N_STARTUP_LINE)
      BY DEF EmptyLines
    <2>2. EmptyLines = [i \in 1 .. (2 * N_STARTUP_LINE) |-> EmptyLines[i]]
      BY DEF EmptyLines
    <2>3. 2 * N_STARTUP_LINE \in Nat
      BY <1>3
    <2> QED
      BY <1>2, <2>1, <2>2, <2>3
  <1>5. \A i \in DOMAIN EmptyLines : EmptyLines[i].op = "put"
    BY <1>2, <1>4
  <1>6. Clear(EmptyLines, GlobalCells) /\ \A n \in CoordIndices : Clear(EmptyLines, CoordCells(n))
    BY <1>2, <1>4, TextsApart DEF Clear
  <1> QED
    BY <1>4, <1>5, <1>6

LEMMA EmptyBuildInfoClear ==
  /\ EmptyBuildInfo \in Seq(Jobs)
  /\ \A i \in DOMAIN EmptyBuildInfo : EmptyBuildInfo[i].op = "put"
  /\ Clear(EmptyBuildInfo, GlobalCells)
  /\ \A n \in CoordIndices : Clear(EmptyBuildInfo, CoordCells(n))
PROOF
  <1> DEFINE at == EEPROM_ADDR_BUILD_INFO
             e == EmptyBuildInfo
  <1>1. /\ at \in TextAddresses /\ at \in Nat
        /\ 1 \in 0 .. LINE_BUFFER_SIZE /\ 0 \in 0 .. LINE_BUFFER_SIZE
    BY LayoutAssumption DEF TextAddresses
  <1>2. at + 0 \in Behind /\ at + 1 \in Behind /\ at + 0 = at
    BY <1>1, LayoutAssumption
  <1>3. at \in Addresses /\ at # FLAGS /\ at + 1 \in Addresses /\ at + 1 # FLAGS
    BY <1>2, LayoutAssumption DEF Behind, Addresses, FLAGS, GLOBAL_SIZE
  <1>4. Put(at, Zero) \in Jobs /\ Put(at + 1, Zero) \in Jobs
    BY <1>3, ErasedFlags DEF Put, Puts, Jobs
  <1>5. e \in Seq(Jobs) /\ DOMAIN e = 1 .. 2 /\ e[1] = Put(at, Zero) /\ e[2] = Put(at + 1, Zero)
    BY <1>4 DEF EmptyBuildInfo
  <1>6. /\ e[1].op = "put" /\ Cells(e[1]) = {at + 0}
        /\ e[2].op = "put" /\ Cells(e[2]) = {at + 1}
    BY <1>2, <1>5 DEF Put, Cells
  <1>7. \A i \in 1 .. 2 : i = 1 \/ i = 2
    OBVIOUS
  <1> HIDE DEF e, at
  <1>8. \A i \in DOMAIN e :
          e[i].op = "put" /\ \E k \in 0 .. LINE_BUFFER_SIZE : Cells(e[i]) = {at + k}
    BY <1>1, <1>5, <1>6, <1>7
  <1>9. Clear(e, GlobalCells) /\ \A n \in CoordIndices : Clear(e, CoordCells(n))
    BY <1>1, <1>8, TextsApart DEF Clear
  <1> QED
    BY <1>5, <1>8, <1>9 DEF e

LEMMA ZeroCoordsJobs ==
  /\ ZeroCoords \in Seq(Jobs) /\ Len(ZeroCoords) = SETTING_INDEX_NCOORD + 1
  /\ DOMAIN ZeroCoords = 1 .. (SETTING_INDEX_NCOORD + 1)
  /\ \A i \in DOMAIN ZeroCoords : i - 1 \in CoordIndices /\ ZeroCoords[i] = ZeroJob(i - 1)
  /\ Clear(ZeroCoords, GlobalCells)
PROOF
  <1>1. SETTING_INDEX_NCOORD \in Nat
    BY LayoutAssumption
  <1>2. DOMAIN ZeroCoords = 1 .. (SETTING_INDEX_NCOORD + 1)
    BY DEF ZeroCoords
  <1>3. \A i \in DOMAIN ZeroCoords : i - 1 \in CoordIndices /\ ZeroCoords[i] = ZeroJob(i - 1)
    BY <1>1 DEF ZeroCoords, CoordIndices, ZeroJob
  <1>4. \A n \in CoordIndices : ZeroJob(n) \in Jobs /\ Cells(ZeroJob(n)) = CoordCells(n)
    BY DEF ZeroJob, Jobs, Cells
  <1>5. ZeroCoords \in Seq(Jobs) /\ Len(ZeroCoords) = SETTING_INDEX_NCOORD + 1
    <2>1. ZeroCoords = [i \in 1 .. (SETTING_INDEX_NCOORD + 1) |-> ZeroCoords[i]]
      BY DEF ZeroCoords
    <2> QED
      BY <1>1, <1>2, <1>3, <1>4, <2>1
  <1>6. Clear(ZeroCoords, GlobalCells)
    BY <1>3, <1>4, GlobalsApart DEF Clear
  <1> QED
    BY <1>2, <1>3, <1>5, <1>6

-----------------------------------------------------------------------------
\* A record that is stored is what is read, and the other way round.

LEMMA CoordHeldReads ==
  ASSUME NEW n \in CoordIndices, NEW data \in Coordinates,
         Held(settings_write_coord_data(n, data))
  PROVE  Data(coord_addr(n), N_AXIS) = data /\ Valid(coord_addr(n), N_AXIS)
PROOF
  <1> DEFINE writes == settings_write_coord_data(n, data)
  <1>1. /\ DOMAIN writes = 1 .. (N_AXIS + 1)
        /\ \A i \in 1 .. (N_AXIS + 1) :
             writes[i] = Put(coord_addr(n) + i - 1, IF i <= N_AXIS THEN data[i] ELSE Checksum(data))
    BY CoordRecord DEF Record
  <1>2. \A i \in DOMAIN writes : eeprom[writes[i].at] = writes[i].byte
    BY DEF Held
  <1> HIDE DEF writes
  <1>3. N_AXIS \in Nat \ {0} /\ coord_addr(n) \in Nat
    BY LayoutAssumption, CoordAddress
  <1>4. ASSUME NEW i \in 1 .. N_AXIS
        PROVE  eeprom[coord_addr(n) + i - 1] = data[i]
    <2>1. i \in 1 .. (N_AXIS + 1) /\ i <= N_AXIS
      BY <1>3
    <2>2. writes[i] = Put(coord_addr(n) + i - 1, data[i])
      BY <1>1, <2>1
    <2>3. writes[i].at = coord_addr(n) + i - 1 /\ writes[i].byte = data[i]
      BY <2>2 DEF Put
    <2> QED
      BY <1>1, <1>2, <2>1, <2>3
  <1>5. eeprom[coord_addr(n) + N_AXIS] = Checksum(data)
    <2>1. N_AXIS + 1 \in 1 .. (N_AXIS + 1) /\ ~(N_AXIS + 1 <= N_AXIS)
          /\ coord_addr(n) + (N_AXIS + 1) - 1 = coord_addr(n) + N_AXIS
      BY <1>3
    <2>2. writes[N_AXIS + 1] = Put(coord_addr(n) + N_AXIS, Checksum(data))
      BY <1>1, <2>1
    <2>3. writes[N_AXIS + 1].at = coord_addr(n) + N_AXIS
          /\ writes[N_AXIS + 1].byte = Checksum(data)
      BY <2>2 DEF Put
    <2> QED
      BY <1>1, <1>2, <2>1, <2>3
  <1>6. Data(coord_addr(n), N_AXIS) = data
    BY <1>4 DEF Data, Coordinates
  <1> QED
    BY <1>5, <1>6 DEF Valid

LEMMA CoordReadsHeld ==
  ASSUME FlagsInv, NEW n \in CoordIndices, Valid(coord_addr(n), N_AXIS),
         NEW data, data = Data(coord_addr(n), N_AXIS),
         Clear(todo', CoordCells(n)), eeprom' = eeprom
  PROVE  data \in Coordinates /\ Held(settings_write_coord_data(n, data))'
PROOF
  <1>1. N_AXIS \in Nat \ {0} /\ coord_addr(n) \in Nat
    BY LayoutAssumption, CoordAddress
  <1>2. data \in Coordinates
    <2>1. ASSUME NEW i \in 1 .. N_AXIS
          PROVE  eeprom[coord_addr(n) + i - 1] \in Bytes
      <3>1. i - 1 \in 0 .. N_AXIS /\ coord_addr(n) + i - 1 = coord_addr(n) + (i - 1)
        BY <1>1
      <3>2. coord_addr(n) + (i - 1) \in Behind
        BY <3>1, LayoutAssumption
      <3>3. coord_addr(n) + i - 1 \in Addresses
        BY <3>1, <3>2, LayoutAssumption DEF Behind, Addresses, GLOBAL_SIZE
      <3> QED
        BY <3>3 DEF FlagsInv
    <2> QED
      BY <2>1 DEF Data, Coordinates
  <1> DEFINE writes == settings_write_coord_data(n, data)
  <1>3. /\ DOMAIN writes = 1 .. (N_AXIS + 1)
        /\ RecordCells(writes) = CoordCells(n)
        /\ \A i \in 1 .. (N_AXIS + 1) :
             writes[i] = Put(coord_addr(n) + i - 1, IF i <= N_AXIS THEN data[i] ELSE Checksum(data))
    BY <1>2, CoordRecord DEF Record
  <1> HIDE DEF writes
  <1>4. ASSUME NEW i \in 1 .. (N_AXIS + 1)
        PROVE  eeprom[writes[i].at] = writes[i].byte
    <2>1. CASE i <= N_AXIS
      <3>1. writes[i] = Put(coord_addr(n) + i - 1, data[i])
        BY <1>3, <2>1
      <3>2. writes[i].at = coord_addr(n) + i - 1 /\ writes[i].byte = data[i]
        BY <3>1 DEF Put
      <3>3. i \in 1 .. N_AXIS
        BY <1>1, <2>1
      <3> QED
        BY <3>2, <3>3 DEF Data
    <2>2. CASE ~(i <= N_AXIS)
      <3>1. writes[i] = Put(coord_addr(n) + i - 1, Checksum(data))
        BY <1>3, <2>2
      <3>2. coord_addr(n) + i - 1 = coord_addr(n) + N_AXIS
        BY <1>1, <2>2
      <3>3. writes[i].at = coord_addr(n) + N_AXIS /\ writes[i].byte = Checksum(data)
        BY <3>1, <3>2 DEF Put
      <3> QED
        BY <3>3 DEF Valid
    <2> QED
      BY <2>1, <2>2
  <1>5. Held(writes)'
    BY <1>3, <1>4 DEF Held
  <1> QED
    BY <1>2, <1>5 DEF writes

LEMMA GlobalHeldReads ==
  ASSUME NEW s \in SettingsRecords, s.flags \in Flags, Held(write_global_settings(s))
  PROVE  /\ eeprom[0] = SETTINGS_VERSION
         /\ Valid(EEPROM_ADDR_GLOBAL, GLOBAL_SIZE)
         /\ Data(EEPROM_ADDR_GLOBAL, GLOBAL_SIZE) = GlobalBytes(s)
         /\ GlobalRecord(Data(EEPROM_ADDR_GLOBAL, GLOBAL_SIZE)) = s
PROOF
  <1> DEFINE writes == write_global_settings(s)
             bytes == GlobalBytes(s)
             g == EEPROM_ADDR_GLOBAL
  <1>1. /\ Record(writes) /\ Len(writes) = 5
        /\ writes[1] = Put(0, SETTINGS_VERSION)
        /\ writes[2] = Put(g, s.pulse_microseconds)
        /\ writes[3] = Put(g + 1, s.flags)
        /\ writes[4] = Put(g + 2, s.homing_pulloff)
        /\ writes[5] = Put(g + 3, Checksum(bytes))
    BY GlobalRecordWrites DEF GLOBAL_SIZE
  <1>2. \A i \in DOMAIN writes : eeprom[writes[i].at] = writes[i].byte
    BY DEF Held
  <1>3. bytes \in Seq(Bytes) /\ Len(bytes) = 3 /\ bytes[1] = s.pulse_microseconds
        /\ bytes[2] = s.flags /\ bytes[3] = s.homing_pulloff
    BY DEF GlobalBytes, SettingsRecords
  <1>4. s = [pulse_microseconds |-> bytes[1], flags |-> bytes[2], homing_pulloff |-> bytes[3]]
    BY <1>3 DEF SettingsRecords
  <1>5. DOMAIN writes = 1 .. 5
    BY <1>1 DEF Record
  <1>6. g \in Nat
    BY LayoutAssumption
  <1> HIDE DEF writes, bytes, g
  <1>7. /\ eeprom[0] = SETTINGS_VERSION /\ eeprom[g] = bytes[1] /\ eeprom[g + 1] = bytes[2]
        /\ eeprom[g + 2] = bytes[3] /\ eeprom[g + 3] = Checksum(bytes)
    <2>1. /\ writes[1].at = 0 /\ writes[1].byte = SETTINGS_VERSION
          /\ writes[2].at = g /\ writes[2].byte = bytes[1]
          /\ writes[3].at = g + 1 /\ writes[3].byte = bytes[2]
          /\ writes[4].at = g + 2 /\ writes[4].byte = bytes[3]
          /\ writes[5].at = g + 3 /\ writes[5].byte = Checksum(bytes)
      BY <1>1, <1>3 DEF Put
    <2>2. 1 \in 1 .. 5 /\ 2 \in 1 .. 5 /\ 3 \in 1 .. 5 /\ 4 \in 1 .. 5 /\ 5 \in 1 .. 5
      OBVIOUS
    <2> QED
      BY <1>2, <1>5, <2>1, <2>2
  <1>8. ASSUME NEW i \in 1 .. 3
        PROVE  eeprom[g + i - 1] = bytes[i]
    <2>1. g + 1 - 1 = g /\ g + 2 - 1 = g + 1 /\ g + 3 - 1 = g + 2
      BY <1>6
    <2>2. i = 1 \/ i = 2 \/ i = 3
      OBVIOUS
    <2> QED
      BY <1>7, <2>1, <2>2
  <1>9. Data(g, 3) = bytes
    <2>1. bytes = [i \in 1 .. 3 |-> bytes[i]]
      BY <1>3
    <2> QED
      BY <1>8, <2>1 DEF Data
  <1>10. Valid(g, 3)
    BY <1>7, <1>9 DEF Valid
  <1> QED
    BY <1>4, <1>7, <1>9, <1>10 DEF g, bytes, GlobalRecord, GLOBAL_SIZE

LEMMA GlobalReadsHeld ==
  ASSUME FlagsInv, eeprom[0] = SETTINGS_VERSION, Valid(EEPROM_ADDR_GLOBAL, GLOBAL_SIZE),
         NEW s, s = GlobalRecord(Data(EEPROM_ADDR_GLOBAL, GLOBAL_SIZE)),
         Clear(todo', GlobalCells), eeprom' = eeprom
  PROVE  s \in SettingsRecords /\ s.flags \in Flags /\ Held(write_global_settings(s))'
PROOF
  <1> DEFINE g == EEPROM_ADDR_GLOBAL
             data == Data(EEPROM_ADDR_GLOBAL, GLOBAL_SIZE)
  <1>1. g \in Nat \ {0} /\ g + 3 < EepromSize
    BY LayoutAssumption DEF GLOBAL_SIZE
  <1>2. /\ g + 1 - 1 = g /\ g + 2 - 1 = g + 1 /\ g + 3 - 1 = g + 2
        /\ 1 \in 1 .. 3 /\ 2 \in 1 .. 3 /\ 3 \in 1 .. 3
    BY <1>1
  <1>3. data = [i \in 1 .. 3 |-> eeprom[g + i - 1]]
    BY DEF Data, GLOBAL_SIZE
  <1>4. data[1] = eeprom[g] /\ data[2] = eeprom[g + 1] /\ data[3] = eeprom[g + 2]
    BY <1>2, <1>3
  <1>5. /\ g \in Addresses /\ g + 1 \in Addresses /\ g + 2 \in Addresses
    BY <1>1, SizeAssumption DEF Addresses
  <1>6. /\ s = [pulse_microseconds |-> data[1], flags |-> data[2], homing_pulloff |-> data[3]]
        /\ s \in SettingsRecords /\ s.flags \in Flags
    BY <1>4, <1>5 DEF GlobalRecord, SettingsRecords, FlagsInv, FLAGS
  <1>7. GlobalBytes(s) = data
    <2>1. GlobalBytes(s) = <<data[1], data[2], data[3]>>
      BY <1>6 DEF GlobalBytes
    <2> HIDE DEF data
    <2> QED
      BY <1>3, <2>1
  <1>8. eeprom[g + 3] = Checksum(data)
    BY DEF Valid, GLOBAL_SIZE
  <1> DEFINE writes == write_global_settings(s)
  <1>9. /\ Record(writes) /\ Len(writes) = 5
        /\ writes[1] = Put(0, SETTINGS_VERSION)
        /\ writes[2] = Put(g, s.pulse_microseconds)
        /\ writes[3] = Put(g + 1, s.flags)
        /\ writes[4] = Put(g + 2, s.homing_pulloff)
        /\ writes[5] = Put(g + 3, Checksum(data))
        /\ RecordCells(writes) = GlobalCells
    BY <1>6, <1>7, GlobalRecordWrites DEF GLOBAL_SIZE
  <1>10. DOMAIN writes = 1 .. 5
    BY <1>9 DEF Record
  <1>11. /\ s.pulse_microseconds = data[1] /\ s.flags = data[2] /\ s.homing_pulloff = data[3]
    BY <1>6
  <1> HIDE DEF writes, data, g
  <1>12. ASSUME NEW i \in 1 .. 5
         PROVE  eeprom[writes[i].at] = writes[i].byte
    <2>1. /\ writes[1].at = 0 /\ writes[1].byte = SETTINGS_VERSION
          /\ writes[2].at = g /\ writes[2].byte = data[1]
          /\ writes[3].at = g + 1 /\ writes[3].byte = data[2]
          /\ writes[4].at = g + 2 /\ writes[4].byte = data[3]
          /\ writes[5].at = g + 3 /\ writes[5].byte = Checksum(data)
      BY <1>9, <1>11 DEF Put
    <2>2. i = 1 \/ i = 2 \/ i = 3 \/ i = 4 \/ i = 5
      OBVIOUS
    <2> QED
      BY <1>4, <1>8, <2>1, <2>2
  <1>13. Held(writes)'
    BY <1>9, <1>10, <1>12 DEF Held
  <1> QED
    BY <1>6, <1>13 DEF writes

-----------------------------------------------------------------------------
\* The steps of the main program that write no byte and begin nothing.

Quiet == InitialState \/ ReadLine \/ ViewStartup \/ WriteCoord \/ EndCommand

QuietJobs(a) ==
  /\ a \in Seq(Jobs)
  /\ \A i \in DOMAIN a : a[i].op \in {"put", "read_line"}
  /\ Clear(a, GlobalCells)
  /\ \A n \in CoordIndices :
       /\ Head(todo) = ZeroJob(n) => a = settings_write_coord_data(n, ZeroVector)
       /\ Head(todo) # ZeroJob(n) => Clear(a, CoordCells(n))

LEMMA QuietShape ==
  ASSUME FlagsInv, Quiet
  PROVE  /\ power /\ todo # <<>> /\ Head(todo) \in Jobs
         /\ Head(todo).op \in {"state", "read_line", "view_startup", "write_coord", "kept"}
         /\ UNCHANGED <<eeprom, settings, coord_select, power>>
         /\ \E a : QuietJobs(a) /\ todo' = a \o Tail(todo)
PROOF
  <1>1. /\ power /\ todo # <<>> /\ todo \in Seq(Jobs)
        /\ Head(todo).op \in {"state", "read_line", "view_startup", "write_coord", "kept"}
        /\ UNCHANGED <<eeprom, settings, coord_select, power>>
    BY DEF Quiet, InitialState, ReadLine, ViewStartup, WriteCoord, EndCommand, Accesses, At,
           FlagsInv
  <1>2. Head(todo) \in Jobs /\ Tail(todo) \in Seq(Jobs)
    BY <1>1, Rest
  <1>3. <<>> \o Tail(todo) = Tail(todo)
    BY <1>2
  <1>4. (\A n \in CoordIndices : Head(todo) # ZeroJob(n)) => QuietJobs(<<>>)
    <2>1. DOMAIN <<>> = {}
      OBVIOUS
    <2> QED
      BY <2>1, ClearEmpty DEF QuietJobs
  <1>5. Head(todo).op # "write_coord" => \A n \in CoordIndices : Head(todo) # ZeroJob(n)
    BY DEF ZeroJob
  <1>6. CASE InitialState \/ EndCommand
    <2>1. todo' = Tail(todo) /\ Head(todo).op # "write_coord"
      BY <1>6 DEF InitialState, EndCommand, At
    <2> QED
      BY <1>1, <1>2, <1>3, <1>4, <1>5, <2>1
  <1>7. CASE ReadLine
    <2>1. Head(todo).op = "read_line"
      BY <1>7 DEF ReadLine, Accesses, At
    <2> DEFINE at == Head(todo).at
               line == EmptyLine(Data(at, LINE_BUFFER_SIZE))
               writes == memcpy_to_eeprom_with_checksum(at, line)
    <2>2. at \in TextAddresses
      BY <1>2, <2>1 DEF Jobs, Puts, TextAddresses
    <2>3. Data(at, LINE_BUFFER_SIZE) \in [1 .. LINE_BUFFER_SIZE -> Bytes]
      <3>1. ASSUME NEW i \in 1 .. LINE_BUFFER_SIZE
            PROVE  eeprom[at + i - 1] \in Bytes
        <4>1. i - 1 \in 0 .. LINE_BUFFER_SIZE /\ at + i - 1 = at + (i - 1)
          BY <2>2, TextAddress, LayoutAssumption
        <4>2. at + (i - 1) \in Behind
          BY <2>2, <4>1, TextAddress
        <4>3. at + i - 1 \in Addresses
          BY <4>1, <4>2, LayoutAssumption DEF Behind, Addresses, GLOBAL_SIZE
        <4> QED
          BY <4>3 DEF FlagsInv
      <3> QED
        BY <3>1 DEF Data
    <2>4. line \in [1 .. LINE_BUFFER_SIZE -> Bytes]
      BY <2>3, ErasedFlags DEF EmptyLine
    <2>5. /\ writes \in Seq(Jobs) /\ \A i \in DOMAIN writes : writes[i].op = "put"
          /\ Clear(writes, GlobalCells)
          /\ \A n \in CoordIndices : Clear(writes, CoordCells(n))
      <3> HIDE DEF at, line
      <3> QED
        BY <2>2, <2>4, TextClear
    <2>6. QuietJobs(writes)
      <3> HIDE DEF writes
      <3> QED
        BY <1>5, <2>1, <2>5 DEF QuietJobs
    <2>7. todo' = Tail(todo) \/ todo' = writes \o Tail(todo)
      BY <1>7 DEF ReadLine
    <2> QED
      BY <1>1, <1>2, <1>3, <1>4, <1>5, <2>1, <2>6, <2>7
  <1>8. CASE ViewStartup
    <2> DEFINE a == [i \in 1 .. N_STARTUP_LINE |->
                      [op |-> "read_line", at |-> line_addr(i - 1)]]
    <2>1. Head(todo).op = "view_startup" /\ todo' = a \o Tail(todo)
      BY <1>8 DEF ViewStartup, At
    <2>2. \A i \in 1 .. N_STARTUP_LINE : a[i] \in Jobs /\ a[i].op = "read_line"
      BY LayoutAssumption DEF LineIndices, Jobs
    <2>3. a \in Seq(Jobs) /\ DOMAIN a = 1 .. N_STARTUP_LINE
      BY <2>2, LayoutAssumption
    <2> HIDE DEF a
    <2>4. \A cells : Clear(a, cells)
      BY <2>2, <2>3, ClearOps
    <2>5. QuietJobs(a)
      BY <1>5, <2>1, <2>2, <2>3, <2>4 DEF QuietJobs
    <2> QED
      BY <1>1, <1>2, <2>1, <2>5
  <1>9. CASE WriteCoord
    <2>1. Head(todo).op = "write_coord"
      BY <1>9 DEF WriteCoord, At
    <2>2. Head(todo) \in [op : {"write_coord"}, n : CoordIndices]
      BY <1>2, <2>1 DEF Jobs, Puts
    <2>3. PICK m \in CoordIndices : Head(todo) = ZeroJob(m)
      BY <2>2 DEF ZeroJob
    <2> DEFINE writes == settings_write_coord_data(m, ZeroVector)
    <2>4. todo' = writes \o Tail(todo)
      <3>1. Head(todo).n = m
        BY <2>3 DEF ZeroJob
      <3> QED
        BY <1>9, <3>1 DEF WriteCoord
    <2>5. Record(writes)
      BY CoordRecord, ZeroCoordinates
    <2>6. /\ writes \in Seq(Jobs) /\ Clear(writes, GlobalCells)
          /\ \A n \in CoordIndices \ {m} : Clear(writes, CoordCells(n))
      BY CoordClear, ZeroCoordinates
    <2>7. \A i \in DOMAIN writes : writes[i].op \in {"put", "read_line"}
      <3> HIDE DEF writes
      <3> QED
        BY <2>5 DEF Record
    <2>8. \A n \in CoordIndices : Head(todo) = ZeroJob(n) => n = m
      BY <2>3 DEF ZeroJob
    <2>9. QuietJobs(writes)
      <3>1. \A n \in CoordIndices :
              /\ Head(todo) = ZeroJob(n) => writes = settings_write_coord_data(n, ZeroVector)
              /\ Head(todo) # ZeroJob(n) => Clear(writes, CoordCells(n))
        BY <2>3, <2>6, <2>8
      <3> HIDE DEF writes
      <3> QED
        BY <2>6, <2>7, <3>1 DEF QuietJobs
    <2> QED
      BY <1>1, <1>2, <2>4, <2>9
  <1> QED
    BY <1>6, <1>7, <1>8, <1>9 DEF Quiet

\* The forms in which a step takes jobs from the head of the agenda: writing a
\* byte, or putting others in place of the first.
LEMMA ForwardShape ==
  ASSUME FlagsInv, PutChar \/ Quiet
  PROVE  /\ power /\ todo \in Seq(Jobs) /\ todo # <<>>
         /\ Head(todo).op \in
              {"put", "state", "read_line", "view_startup", "write_coord", "kept"}
         /\ UNCHANGED <<settings, coord_select, power>>
         /\ \E a : /\ a \in Seq(Jobs) /\ todo' = a \o Tail(todo)
                   /\ \A i \in DOMAIN a : a[i].op \in {"put", "read_line"}
PROOF
  <1>1. CASE PutChar
    <2>1. /\ power /\ todo \in Seq(Jobs) /\ todo # <<>> /\ Head(todo).op = "put"
          /\ UNCHANGED <<settings, coord_select, power>> /\ todo' = Tail(todo)
      BY <1>1 DEF FlagsInv, PutChar, Accesses, At
    <2>2. Tail(todo) = <<>> \o Tail(todo) /\ <<>> \in Seq(Jobs) /\ DOMAIN <<>> = {}
      BY <2>1, TailIndex
    <2> QED
      BY <2>1, <2>2
  <1>2. CASE Quiet
    <2>1. todo \in Seq(Jobs)
      BY DEF FlagsInv
    <2> QED
      BY <1>2, <2>1, QuietShape DEF QuietJobs
  <1> QED
    BY <1>1, <1>2

LEMMA CoordDueStep ==
  ASSUME FlagsInv, PutChar \/ Quiet, NEW n \in CoordIndices, NEW data \in Coordinates,
         CoordDue(n, data)
  PROVE  CoordDue(n, data)'
PROOF
  <1>1. CASE PutChar
    BY <1>1, CoordDuePut
  <1>2. CASE Quiet
    <2>1. /\ todo # <<>> /\ eeprom' = eeprom /\ Head(todo).op # "put"
      BY <1>2, QuietShape
    <2>2. PICK a : QuietJobs(a) /\ todo' = a \o Tail(todo)
      BY <1>2, QuietShape
    <2>3. CASE Head(todo) = ZeroJob(n)
      <3>1. todo' = settings_write_coord_data(n, ZeroVector) \o Tail(todo)
        BY <2>2, <2>3 DEF QuietJobs
      <3> QED
        BY <2>1, <2>3, <3>1, CoordDueExpanded
    <2>4. CASE Head(todo) # ZeroJob(n)
      <3>1. a \in Seq(Jobs) /\ Clear(a, CoordCells(n))
        BY <2>2, <2>4 DEF QuietJobs
      <3> QED
        BY <2>1, <2>2, <2>4, <3>1, CoordDueMoved
    <2> QED
      BY <2>3, <2>4
  <1> QED
    BY <1>1, <1>2

LEMMA HeldStep ==
  ASSUME FlagsInv, PutChar \/ Quiet, NEW writes, Record(writes), Held(writes),
         \/ RecordCells(writes) = GlobalCells
         \/ \E n \in CoordIndices : RecordCells(writes) = CoordCells(n)
  PROVE  Held(writes)'
PROOF
  <1>1. CASE PutChar
    BY <1>1, HeldPut
  <1>2. CASE Quiet
    <2>1. /\ todo # <<>> /\ eeprom' = eeprom /\ todo \in Seq(Jobs)
      BY <1>2, QuietShape DEF FlagsInv
    <2>2. PICK a : QuietJobs(a) /\ todo' = a \o Tail(todo)
      BY <1>2, QuietShape
    <2>3. CASE RecordCells(writes) = GlobalCells
      BY <2>1, <2>2, <2>3, HeldMoved DEF QuietJobs
    <2>4. ASSUME NEW n \in CoordIndices, RecordCells(writes) = CoordCells(n)
          PROVE  Held(writes)'
      <3>1. Head(todo) # ZeroJob(n)
        <4>1. coord_addr(n) + 0 \in CoordCells(n)
          BY LayoutAssumption DEF CoordCells
        <4>2. Head(todo) = ZeroJob(n) => Cells(Head(todo)) = CoordCells(n)
          BY DEF Cells, ZeroJob
        <4>3. Head(todo) = todo[1] /\ 1 \in DOMAIN todo
          BY <2>1, TailIndex
        <4> QED
          BY <2>4, <4>1, <4>2, <4>3 DEF Held, Clear
      <3>2. Clear(a, CoordCells(n)) /\ a \in Seq(Jobs)
        BY <2>2, <3>1 DEF QuietJobs
      <3> QED
        BY <2>1, <2>2, <2>4, <3>2, HeldMoved
    <2> QED
      BY <2>3, <2>4
  <1> QED
    BY <1>1, <1>2

\* Of the settings record, whichever way it is due.
LEMMA GlobalStep ==
  ASSUME FlagsInv, PutChar \/ Quiet, NEW s \in SettingsRecords, s.flags \in Flags,
         Held(write_global_settings(s)) \/ Underway(write_global_settings(s))
  PROVE  (Held(write_global_settings(s)) \/ Underway(write_global_settings(s)))'
PROOF
  <1> DEFINE writes == write_global_settings(s)
  <1>1. Record(writes) /\ RecordCells(writes) = GlobalCells
    BY GlobalRecordWrites
  <1>2. todo \in Seq(Jobs)
    BY DEF FlagsInv
  <1> HIDE DEF writes
  <1>3. Held(writes) => Held(writes)'
    BY <1>1, HeldStep
  <1>4. Underway(writes) => (Held(writes) \/ Underway(writes))'
    <2>1. CASE PutChar
      BY <1>1, <2>1, UnderwayPut
    <2>2. CASE Quiet
      <3>1. Head(todo).op # "put"
        BY <2>2, QuietShape
      <3> QED
        BY <1>1, <1>2, <3>1, UnderwayHead
    <2> QED
      BY <2>1, <2>2
  <1>5. Held(writes) \/ Underway(writes)
    BY DEF writes
  <1>6. (Held(writes) \/ Underway(writes))'
    BY <1>3, <1>4, <1>5
  <1> QED
    BY <1>6 DEF writes

-----------------------------------------------------------------------------
\* The records, through a step that goes on with what is left to do.

LEMMA AgendaMoved ==
  ASSUME todo \in Seq(Jobs), todo # <<>>, AgendaInv, power' = power, power,
         NEW a \in Seq(Jobs), \A i \in DOMAIN a : a[i].op \in {"put", "read_line"},
         todo' = a \o Tail(todo)
  PROVE  AgendaInv'
PROOF
  <1>1. /\ todo' \in Seq(Jobs) /\ Len(todo') = Len(a) + Len(todo) - 1
        /\ \A i \in 1 .. Len(todo') :
              \/ i \in 1 .. Len(a) /\ todo'[i] = a[i]
              \/ \E k \in 2 .. Len(todo) : i = Len(a) + k - 1 /\ todo'[i] = todo[k]
    BY MovedIndex, SMTT(30)
  <1>2. /\ Len(todo) \in Nat \ {0} /\ DOMAIN todo = 1 .. Len(todo)
        /\ Len(a) \in Nat /\ DOMAIN a = 1 .. Len(a) /\ DOMAIN todo' = 1 .. Len(todo')
    BY <1>1, TailIndex
  <1>3. ASSUME NEW i \in DOMAIN todo', todo'[i].op \notin {"put", "read_line"}
        PROVE  \E k \in 2 .. Len(todo) : i = Len(a) + k - 1 /\ todo'[i] = todo[k]
    BY <1>1, <1>2, <1>3
  <1>4. ASSUME NEW i \in DOMAIN todo', todo'[i].op = "init"
        PROVE  i = Len(todo')
    <2>1. PICK k \in 2 .. Len(todo) : i = Len(a) + k - 1 /\ todo'[i] = todo[k]
      BY <1>3, <1>4
    <2>2. k = Len(todo)
      <3>1. \A j \in 1 .. Len(todo) : todo[j].op = "init" => j = Len(todo)
        BY <1>2 DEF AgendaInv
      <3>2. k \in 1 .. Len(todo) /\ todo[k].op = "init"
        BY <1>2, <1>4, <2>1
      <3> QED
        BY <3>1, <3>2
    <2> QED
      BY <1>1, <2>1, <2>2
  <1>5. ASSUME NEW i \in DOMAIN todo', todo'[i].op = "read_global"
        PROVE  FALSE
    <2>1. PICK k \in 2 .. Len(todo) : i = Len(a) + k - 1 /\ todo'[i] = todo[k]
      BY <1>3, <1>5
    <2>2. todo = Boot
      BY <1>2, <1>5, <2>1, SMTT(30) DEF AgendaInv
    <2>3. k \in 2 .. 3 /\ Boot[k].op = "read_global"
      BY <1>5, <2>1, <2>2 DEF Boot
    <2>4. k = 2 \/ k = 3
      BY <2>3
    <2> QED
      BY <2>3, <2>4 DEF Boot, Job
  <1>6. ASSUME NEW i \in DOMAIN todo', todo'[i].op = "kept",
               NEW l \in (i + 1) .. Len(todo'), todo'[l].op = "write_coord"
        PROVE  FALSE
    <2>1. PICK k \in 2 .. Len(todo) : i = Len(a) + k - 1 /\ todo'[i] = todo[k]
      BY <1>3, <1>6
    <2>2. l \in DOMAIN todo'
      BY <1>1, <1>2
    <2>3. PICK m \in 2 .. Len(todo) : l = Len(a) + m - 1 /\ todo'[l] = todo[m]
      BY <1>3, <1>6, <2>2
    <2>4. m \in (k + 1) .. Len(todo) /\ k \in DOMAIN todo
      BY <1>2, <2>1, <2>3
    <2> QED
      BY <1>6, <2>1, <2>3, <2>4 DEF AgendaInv
  <1> QED
    BY <1>4, <1>5, <1>6 DEF AgendaInv

LEMMA RegionFacts ==
  /\ Globals \in Regions /\ Globals[1] # "coord"
  /\ \A n \in CoordIndices :
       /\ CoordRegion(n) \in Regions /\ CoordRegion(n) # Globals
       /\ CoordRegion(n)[1] = "coord" /\ CoordRegion(n)[2] = n
PROOF
  BY DEF Regions, Globals, CoordRegion

LEMMA RestoreStores ==
  ASSUME NEW cmd, cmd.op = "restore", NEW r \in Stores(cmd)
  PROVE  \/ cmd.which = "*"
         \/ cmd.which = "$" /\ r = Globals
         \/ cmd.which = "#" /\ r[1] = "coord"
PROOF
  BY SMT DEF Stores

LEMMA KeptCommand ==
  ASSUME NEW job \in Jobs, job.op = "kept"
  PROVE  /\ job.cmd \in Commands \cup {RestoreAll}
         /\ job.cmd.op = "coord_data" =>
              job.cmd.n \in CoordIndices /\ job.cmd.value \in Coordinates
         /\ job.cmd.op = "coord_data" => job.cmd \in Commands
PROOF
  <1>1. job.cmd \in Commands \cup {RestoreAll}
    BY DEF Jobs, Puts
  <1>2. RestoreAll.op # "coord_data"
    BY DEF RestoreAll
  <1>3. ASSUME NEW cmd \in Commands, cmd.op = "coord_data"
        PROVE  cmd.n \in CoordIndices /\ cmd.value \in Coordinates
    BY <1>3, CommandAssumption DEF Coordinates
  <1> QED
    BY <1>1, <1>2, <1>3

\* The end of a command: what it was to store is stored.
LEMMA KeptHeld ==
  ASSUME FlagsInv, RecordsInv, EndCommand
  PROVE  LET cmd == Head(todo).cmd
         IN  /\ settings \in SettingsRecords /\ settings.flags \in Flags
             /\ Held(write_global_settings(settings))
             /\ cmd.op = "coord_data" =>
                  Held(settings_write_coord_data(cmd.n, cmd.value))
             /\ Zeroed(cmd) =>
                  \A n \in CoordIndices : Held(settings_write_coord_data(n, ZeroVector))
PROOF
  <1> DEFINE cmd == Head(todo).cmd
  <1>1. /\ power /\ todo \in Seq(Jobs) /\ todo # <<>> /\ Head(todo).op = "kept"
        /\ settings \in SettingsRecords /\ settings.flags \in Flags
    BY DEF FlagsInv, EndCommand, At
  <1>2. /\ Head(todo) = todo[1] /\ DOMAIN todo = 1 .. Len(todo) /\ Len(todo) \in Nat \ {0}
        /\ Head(todo) \in Jobs
    BY <1>1, TailIndex, Rest
  <1>3. todo # Boot
    <2>1. Boot[1].op = "read_global"
      BY DEF Boot, Job
    <2> QED
      BY <1>1, <1>2, <2>1
  <1>4. Held(write_global_settings(settings))
    <2>1. PICK s \in SettingsRecords : s = settings
      BY <1>1
    <2>2. Record(write_global_settings(s))
      BY <1>1, <2>1, GlobalRecordWrites
    <2>3. ~Underway(write_global_settings(s))
      BY <1>1, <2>2, UnderwayHead
    <2> QED
      BY <1>1, <1>3, <2>1, <2>3 DEF RecordsInv, SettingsDue
  <1>5. ASSUME NEW n \in CoordIndices, NEW data \in Coordinates, CoordDue(n, data)
        PROVE  Held(settings_write_coord_data(n, data))
    <2>1. Record(settings_write_coord_data(n, data))
      BY CoordRecord
    <2>2. ~Underway(settings_write_coord_data(n, data))
      BY <1>1, <2>1, UnderwayHead
    <2>3. ~Queued(n)
      <3>1. SUFFICES ASSUME NEW k \in DOMAIN todo, todo[k] = ZeroJob(n)
                     PROVE  FALSE
        BY DEF Queued
      <3>2. todo[k].op = "write_coord"
        BY <3>1 DEF ZeroJob
      <3>3. k # 1
        BY <1>1, <1>2, <3>2
      <3>4. k \in (1 + 1) .. Len(todo) /\ 1 \in DOMAIN todo
        BY <1>2, <3>3
      <3> QED
        BY <1>1, <1>2, <3>2, <3>4 DEF RecordsInv, AgendaInv
    <2> QED
      BY <1>5, <2>2, <2>3 DEF CoordDue
  <1>6. cmd.op = "coord_data" => Held(settings_write_coord_data(cmd.n, cmd.value))
    <2>1. SUFFICES ASSUME cmd.op = "coord_data"
                   PROVE  Held(settings_write_coord_data(cmd.n, cmd.value))
      OBVIOUS
    <2>2. PICK n \in CoordIndices, data \in Coordinates : cmd.n = n /\ cmd.value = data
      BY <1>1, <1>2, <2>1, KeptCommand
    <2>3. CoordDue(n, data)
      BY <1>1, <1>2, <2>1, <2>2 DEF RecordsInv, KeptDue
    <2>4. Held(settings_write_coord_data(n, data))
      BY <1>5, <2>3
    <2> QED
      BY <2>2, <2>4
  <1>7. Zeroed(cmd) => \A n \in CoordIndices : Held(settings_write_coord_data(n, ZeroVector))
    <2>1. Zeroed(cmd) => \A n \in CoordIndices : CoordDue(n, ZeroVector)
      BY <1>1, <1>2 DEF RecordsInv, KeptDue
    <2> QED
      BY <1>5, <2>1, ZeroCoordinates
  <1> QED
    BY <1>1, <1>4, <1>6, <1>7

LEMMA ForwardPromises ==
  ASSUME FlagsInv, RecordsInv, PutChar \/ Quiet
  PROVE  PromisesHeld'
PROOF
  <1>1. ASSUME NEW s \in SettingsRecords, s.flags \in Flags, Held(write_global_settings(s))
        PROVE  Held(write_global_settings(s))'
    BY <1>1, HeldStep, GlobalRecordWrites
  <1>2. ASSUME NEW n \in CoordIndices, NEW data \in Coordinates,
               Held(settings_write_coord_data(n, data))
        PROVE  Held(settings_write_coord_data(n, data))'
    BY <1>2, HeldStep, CoordRecord
  <1>3. ASSUME NEW v \in promised'[Globals], v \notin promised[Globals]
        PROVE  \E s \in SettingsRecords :
                 s.flags \in Flags /\ v = GlobalBytes(s) /\ Held(write_global_settings(s))
    <2>1. promised' # promised
      BY <1>3
    <2>2. EndCommand
      BY <2>1 DEF PutChar, Quiet, InitialState, ReadLine, ViewStartup, WriteCoord
    <2>3. v = Result(Head(todo).cmd, Globals)
      BY <1>3, <2>2, RegionFacts DEF EndCommand
    <2>4. v = GlobalBytes(settings)
      BY <2>3, RegionFacts DEF Result
    <2> QED
      BY <2>2, <2>4, KeptHeld
  <1>4. ASSUME NEW n \in CoordIndices, NEW v \in promised'[CoordRegion(n)],
               v \notin promised[CoordRegion(n)]
        PROVE  v \in Coordinates /\ Held(settings_write_coord_data(n, v))
    <2> DEFINE cmd == Head(todo).cmd
    <2>1. promised' # promised
      BY <1>4
    <2>2. EndCommand
      BY <2>1 DEF PutChar, Quiet, InitialState, ReadLine, ViewStartup, WriteCoord
    <2>3. v = Result(cmd, CoordRegion(n)) /\ CoordRegion(n) \in Stores(cmd)
      BY <1>4, <2>2, RegionFacts DEF EndCommand
    <2>4. v = IF cmd.op = "restore" THEN ZeroVector ELSE cmd.value
      BY <2>3, RegionFacts DEF Result
    <2>5. \/ cmd.op = "coord_data" /\ cmd.n = n
          \/ Zeroed(cmd)
      <3>1. Head(todo) \in Jobs /\ Head(todo).op = "kept"
        BY <2>2, Rest DEF FlagsInv, EndCommand, At
      <3>2. cmd.op \in {"setting", "restore", "coord_data", "coord_select", "startup_line",
                        "build_info", "view_startup", "view_build", "unlock", "reset"}
        <4>1. RestoreAll.op = "restore"
          BY DEF RestoreAll
        <4>2. \A c \in Commands :
                c.op \in {"setting", "restore", "coord_data", "coord_select", "startup_line",
                          "build_info", "view_startup", "view_build", "unlock", "reset"}
          BY CommandAssumption
        <4> QED
          BY <3>1, <4>1, <4>2, KeptCommand
      <3>4. CASE cmd.op = "restore"
        <4>1. \/ cmd.which = "*"
              \/ cmd.which = "$" /\ CoordRegion(n) = Globals
              \/ cmd.which = "#" /\ CoordRegion(n)[1] = "coord"
          BY <2>3, <3>4, RestoreStores
        <4> QED
          BY <3>4, <4>1, RegionFacts DEF Zeroed
      <3>5. CASE cmd.op = "coord_data"
        <4>1. CoordRegion(n) = CoordRegion(cmd.n)
          BY <2>3, <3>5 DEF Stores
        <4>2. n = cmd.n
          BY <4>1 DEF CoordRegion
        <4> QED
          BY <3>5, <4>2
      <3>6. CASE cmd.op = "setting"
        BY <2>3, <3>6, RegionFacts DEF Stores
      <3>7. CASE cmd.op \in {"startup_line", "build_info"}
        BY <2>3, <3>7 DEF Stores, LineRegion, BuildInfo, CoordRegion
      <3>8. CASE cmd.op \in {"coord_select", "view_startup", "view_build", "unlock", "reset"}
        <4>1. Stores(cmd) = {}
          BY <3>8 DEF Stores
        <4> QED
          BY <2>3, <4>1
      <3> QED
        BY <3>2, <3>4, <3>5, <3>6, <3>7, <3>8
    <2>6. CASE cmd.op = "coord_data" /\ cmd.n = n
      <3>1. Head(todo) \in Jobs /\ Head(todo).op = "kept"
        BY <2>2, Rest DEF FlagsInv, EndCommand, At
      <3>2. v = cmd.value /\ v \in Coordinates
        BY <2>4, <2>6, <3>1, KeptCommand
      <3>3. Held(settings_write_coord_data(cmd.n, cmd.value))
        BY <2>2, <2>6, KeptHeld
      <3> QED
        BY <2>6, <3>2, <3>3
    <2>7. CASE Zeroed(cmd)
      <3>1. v = ZeroVector
        BY <2>4, <2>7 DEF Zeroed
      <3>2. Held(settings_write_coord_data(n, ZeroVector))
        BY <2>2, <2>7, KeptHeld
      <3> QED
        BY <3>1, <3>2, ZeroCoordinates
    <2> QED
      BY <2>5, <2>6, <2>7
  <1> QED
    BY <1>1, <1>2, <1>3, <1>4 DEF RecordsInv, PromisesHeld

LEMMA ForwardRecords ==
  ASSUME FlagsInv, RecordsInv, coord_select \in CoordIndices, coord_system \in Coordinates,
         PutChar \/ Quiet
  PROVE  RecordsInv'
PROOF
  <1>1. /\ power /\ todo \in Seq(Jobs) /\ todo # <<>>
        /\ Head(todo).op \in
             {"put", "state", "read_line", "view_startup", "write_coord", "kept"}
        /\ settings' = settings /\ coord_select' = coord_select /\ power' = power
    BY ForwardShape
  <1>2. PICK a : /\ a \in Seq(Jobs) /\ todo' = a \o Tail(todo)
                 /\ \A i \in DOMAIN a : a[i].op \in {"put", "read_line"}
    BY ForwardShape
  <1>3. /\ todo' \in Seq(Jobs) /\ Len(todo') = Len(a) + Len(todo) - 1
        /\ \A i \in 2 .. Len(todo) : todo'[Len(a) + i - 1] = todo[i]
        /\ \A i \in 1 .. Len(todo') :
              \/ i \in 1 .. Len(a) /\ todo'[i] = a[i]
              \/ \E k \in 2 .. Len(todo) : i = Len(a) + k - 1 /\ todo'[i] = todo[k]
    <2>1. PICK t : t = todo'
      OBVIOUS
    <2>2. PICK r \in Seq(Jobs) : r = todo
      BY <1>1
    <2>3. t = a \o Tail(r) /\ r # <<>>
      BY <1>1, <1>2, <2>1, <2>2
    <2>4. /\ t \in Seq(Jobs) /\ Len(t) = Len(a) + Len(r) - 1
          /\ \A i \in 2 .. Len(r) : t[Len(a) + i - 1] = r[i]
          /\ \A i \in 1 .. Len(t) :
                \/ i \in 1 .. Len(a) /\ t[i] = a[i]
                \/ \E k \in 2 .. Len(r) : i = Len(a) + k - 1 /\ t[i] = r[k]
      BY <1>2, <2>2, <2>3, MovedIndex
    <2> QED
      BY <2>1, <2>2, <2>4
  <1>4. /\ Head(todo) = todo[1] /\ Len(todo) \in Nat \ {0} /\ DOMAIN todo = 1 .. Len(todo)
        /\ Len(a) \in Nat /\ DOMAIN a = 1 .. Len(a) /\ DOMAIN todo' = 1 .. Len(todo')
    BY <1>1, <1>2, <1>3, TailIndex
  <1>5. AgendaInv'
    BY <1>1, <1>2, AgendaMoved DEF RecordsInv
  <1>6. PromisesHeld'
    BY ForwardPromises
  <1>7. SettingsDue'
    <2>1. todo # Boot
      <3>1. Boot[1].op = "read_global"
        BY DEF Boot, Job
      <3> QED
        BY <1>1, <1>4, <3>1
    <2>2. PICK s \in SettingsRecords : s = settings
      BY DEF FlagsInv
    <2>3. s.flags \in Flags
      BY <2>2 DEF FlagsInv
    <2>4. Held(write_global_settings(s)) \/ Underway(write_global_settings(s))
      BY <1>1, <2>1, <2>2 DEF RecordsInv, SettingsDue
    <2>5. (Held(write_global_settings(s)) \/ Underway(write_global_settings(s)))'
      BY <2>3, <2>4, GlobalStep
    <2>6. settings' = s
      BY <1>1, <2>2
    <2> QED
      BY <2>5, <2>6 DEF SettingsDue
  <1>8. KeptDue'
    <2>1. ASSUME NEW i \in DOMAIN todo', todo'[i].op = "kept"
          PROVE  /\ todo'[i].cmd.op = "coord_data" =>
                      CoordDue(todo[i].cmd.n, todo[i].cmd.value)'
                 /\ Zeroed(todo'[i].cmd) =>
                      \A n \in CoordIndices : CoordDue(n, ZeroVector)'
      <3>1. PICK k \in 2 .. Len(todo) : todo'[i] = todo[k]
        BY <1>2, <1>3, <1>4, <2>1
      <3>2. PICK cmd : cmd = todo[k].cmd
        OBVIOUS
      <3>3. k \in DOMAIN todo /\ todo[k].op = "kept" /\ todo[k] \in Jobs
        BY <1>1, <1>4, <2>1, <3>1
      <3>4. /\ cmd.op = "coord_data" => CoordDue(cmd.n, cmd.value)
            /\ Zeroed(cmd) => \A n \in CoordIndices : CoordDue(n, ZeroVector)
        BY <3>2, <3>3 DEF RecordsInv, KeptDue
      <3>5. cmd.op = "coord_data" => cmd.n \in CoordIndices /\ cmd.value \in Coordinates
        BY <3>2, <3>3, KeptCommand
      <3>6. cmd.op = "coord_data" => CoordDue(cmd.n, cmd.value)'
        BY <3>4, <3>5, CoordDueStep
      <3>7. Zeroed(cmd) => \A n \in CoordIndices : CoordDue(n, ZeroVector)'
        BY <3>4, CoordDueStep, ZeroCoordinates
      <3>8. todo'[i].cmd = cmd
        BY <3>1, <3>2
      <3> QED
        BY <3>6, <3>7, <3>8
    <2> QED
      BY <2>1 DEF KeptDue
  <1>9. OffsetDue'
    <2>1. PICK n \in CoordIndices, data \in Coordinates : n = coord_select /\ data = coord_system
      OBVIOUS
    <2>2. CASE todo[Len(todo)].op = "init"
      <3>1. Len(todo) \in 2 .. Len(todo)
        BY <1>1, <1>4, <2>2
      <3>2. todo'[Len(todo')] = todo[Len(todo)] /\ Len(todo') > 0
        BY <1>3, <1>4, <3>1
      <3>3. todo' # <<>>
        BY <3>2
      <3> QED
        BY <2>2, <3>2, <3>3 DEF OffsetDue
    <2>3. ASSUME NEW i \in 2 .. Len(todo), todo[i].op = "kept", Adopted(todo[i].cmd)
          PROVE  OffsetDue'
      <3>1. Len(a) + i - 1 \in DOMAIN todo' /\ todo'[Len(a) + i - 1] = todo[i]
        BY <1>3, <1>4
      <3>2. PICK k \in DOMAIN todo' : todo'[k] = todo[i]
        BY <3>1
      <3>3. todo'[k].op = "kept" /\ todo'[k].cmd.op = "coord_data"
            /\ todo'[k].cmd.n = coord_select'
        BY <1>1, <2>3, <3>2 DEF Adopted
      <3> QED
        BY <3>2, <3>3 DEF OffsetDue, Adopted
    <2>4. CASE EndCommand /\ Adopted(Head(todo).cmd)
      <3>1. PICK cmd : cmd = Head(todo).cmd
        OBVIOUS
      <3>2. Head(todo).op = "kept" /\ Head(todo) \in Jobs
        BY <1>1, <2>4, Rest DEF EndCommand, At
      <3>3. cmd.op = "coord_data" /\ cmd.n = n /\ coord_system' = cmd.value
        BY <2>1, <2>4, <3>1 DEF EndCommand, Adopted
      <3>4. cmd.value \in Coordinates
        BY <3>1, <3>2, <3>3, KeptCommand
      <3>5. CoordDue(n, cmd.value)
        BY <1>4, <3>1, <3>2, <3>3 DEF RecordsInv, KeptDue
      <3>6. CoordDue(n, cmd.value)'
        BY <3>4, <3>5, CoordDueStep
      <3>7. coord_select' = n
        BY <1>1, <2>1
      <3> QED
        BY <3>3, <3>6, <3>7 DEF OffsetDue
    <2>5. CASE /\ CoordDue(coord_select, coord_system)
               /\ ~(EndCommand /\ Adopted(Head(todo).cmd))
      <3>1. coord_system' = coord_system
        BY <2>5 DEF PutChar, Quiet, InitialState, ReadLine, ViewStartup, WriteCoord, EndCommand
      <3>2. CoordDue(n, data)
        BY <2>1, <2>5
      <3>3. CoordDue(n, data)'
        BY <3>2, CoordDueStep
      <3>4. n = coord_select' /\ data = coord_system'
        BY <1>1, <2>1, <3>1
      <3> QED
        BY <3>3, <3>4 DEF OffsetDue
    <2>6. ASSUME todo[1].op = "kept", Adopted(todo[1].cmd)
          PROVE  EndCommand /\ Adopted(Head(todo).cmd)
      <3>1. Head(todo).op = "kept"
        BY <1>4, <2>6
      <3>2. EndCommand
        BY <3>1 DEF PutChar, Quiet, InitialState, ReadLine, ViewStartup, WriteCoord, Accesses, At
      <3> QED
        BY <1>4, <2>6, <3>2
    <2>7. \/ todo[Len(todo)].op = "init"
          \/ \E i \in DOMAIN todo : todo[i].op = "kept" /\ Adopted(todo[i].cmd)
          \/ CoordDue(coord_select, coord_system)
      BY <1>1 DEF RecordsInv, OffsetDue
    <2>8. \A i \in DOMAIN todo : i = 1 \/ i \in 2 .. Len(todo)
      BY <1>4
    <2> QED
      BY <2>2, <2>3, <2>4, <2>5, <2>6, <2>7, <2>8
  <1> QED
    BY <1>5, <1>6, <1>7, <1>8, <1>9 DEF RecordsInv

-----------------------------------------------------------------------------
\* The records, through a step that begins something.

LEMMA ConcatAssoc ==
  ASSUME NEW S, NEW a \in Seq(S), NEW c \in Seq(S), NEW d \in Seq(S)
  PROVE  (a \o c) \o d = a \o (c \o d)
OBVIOUS

LEMMA HeldFresh ==
  ASSUME NEW writes, Held(writes), eeprom' = eeprom, Clear(todo', RecordCells(writes))
  PROVE  Held(writes)'
PROOF
  BY DEF Held

LEMMA PromisesFresh ==
  ASSUME PromisesHeld, eeprom' = eeprom,
         promised'[Globals] # {} =>
           promised'[Globals] = promised[Globals] /\ Clear(todo', GlobalCells),
         \A n \in CoordIndices : promised'[CoordRegion(n)] # {} =>
           /\ promised'[CoordRegion(n)] = promised[CoordRegion(n)]
           /\ Clear(todo', CoordCells(n))
  PROVE  PromisesHeld'
PROOF
  <1>1. ASSUME NEW v \in promised'[Globals]
        PROVE  \E s \in SettingsRecords :
                 s.flags \in Flags /\ v = GlobalBytes(s) /\ Held(write_global_settings(s))'
    <2>1. v \in promised[Globals] /\ Clear(todo', GlobalCells)
      BY <1>1
    <2>2. PICK s \in SettingsRecords :
            s.flags \in Flags /\ v = GlobalBytes(s) /\ Held(write_global_settings(s))
      BY <2>1 DEF PromisesHeld
    <2>3. RecordCells(write_global_settings(s)) = GlobalCells
      BY <2>2, GlobalRecordWrites
    <2>4. Held(write_global_settings(s))'
      BY <2>1, <2>2, <2>3, HeldFresh
    <2> QED
      BY <2>2, <2>4
  <1>2. ASSUME NEW n \in CoordIndices, NEW v \in promised'[CoordRegion(n)]
        PROVE  v \in Coordinates /\ Held(settings_write_coord_data(n, v))'
    <2>1. v \in promised[CoordRegion(n)] /\ Clear(todo', CoordCells(n))
      BY <1>2
    <2>2. v \in Coordinates /\ Held(settings_write_coord_data(n, v))
      BY <2>1 DEF PromisesHeld
    <2>3. RecordCells(settings_write_coord_data(n, v)) = CoordCells(n)
      BY <2>2, CoordRecord
    <2> QED
      BY <2>1, <2>2, <2>3, HeldFresh
  <1> QED
    BY <1>1, <1>2 DEF PromisesHeld

\* An agenda of work and what closes it.
LEMMA AgendaFresh ==
  ASSUME power' = power, power,
         NEW h \in Seq(Jobs),
         \A i \in DOMAIN h : h[i].op \in {"put", "write_coord", "read_line", "view_startup"},
         NEW t \in Seq(Jobs), \A i \in DOMAIN t : t[i].op \in {"state", "init", "kept"},
         \A i \in DOMAIN t : t[i].op = "init" => i = Len(t),
         todo' = h \o t
  PROVE  /\ todo' \in Seq(Jobs)
         /\ AgendaInv'
         /\ \A i \in DOMAIN todo' : todo'[i].op = "kept" => \E k \in DOMAIN t : todo'[i] = t[k]
         /\ t # <<>> => todo' # <<>> /\ todo'[Len(todo')] = t[Len(t)]
PROOF
  <1>1. /\ todo' \in Seq(Jobs) /\ Len(todo') = Len(h) + Len(t)
        /\ \A i \in 1 .. Len(h) : todo'[i] = h[i]
        /\ \A i \in 1 .. Len(t) : todo'[Len(h) + i] = t[i]
    BY ConcatIndex
  <1>2. /\ DOMAIN h = 1 .. Len(h) /\ DOMAIN t = 1 .. Len(t) /\ Len(h) \in Nat /\ Len(t) \in Nat
        /\ DOMAIN todo' = 1 .. Len(todo')
    BY <1>1
  <1>3. ASSUME NEW i \in DOMAIN todo', i \notin 1 .. Len(h)
        PROVE  i - Len(h) \in DOMAIN t /\ todo'[i] = t[i - Len(h)]
    <2>1. i - Len(h) \in 1 .. Len(t) /\ i = Len(h) + (i - Len(h))
      BY <1>1, <1>2, <1>3
    <2> QED
      BY <1>1, <1>2, <2>1
  <1>4. \A i \in DOMAIN todo' :
          \/ todo'[i].op \in {"put", "write_coord", "read_line", "view_startup"}
          \/ i \notin 1 .. Len(h)
    BY <1>1, <1>2
  <1>5. \A i \in DOMAIN todo' : todo'[i].op = "init" => i = Len(todo')
    <2>1. SUFFICES ASSUME NEW i \in DOMAIN todo', todo'[i].op = "init"
                   PROVE  i = Len(todo')
      OBVIOUS
    <2>2. i - Len(h) \in DOMAIN t /\ todo'[i] = t[i - Len(h)]
      BY <1>3, <1>4, <2>1
    <2>3. i - Len(h) = Len(t)
      BY <2>1, <2>2
    <2> QED
      BY <1>1, <1>2, <2>3
  <1>6. \A i \in DOMAIN todo' : todo'[i].op # "read_global"
    BY <1>3, <1>4
  <1>7. ASSUME NEW i \in DOMAIN todo', todo'[i].op = "kept", NEW k \in (i + 1) .. Len(todo')
        PROVE  todo'[k].op # "write_coord"
    <2>1. i \notin 1 .. Len(h)
      BY <1>4, <1>7
    <2>2. k \in DOMAIN todo' /\ k \notin 1 .. Len(h)
      BY <1>1, <1>2, <2>1
    <2>3. k - Len(h) \in DOMAIN t /\ todo'[k] = t[k - Len(h)]
      BY <1>3, <2>2
    <2> QED
      BY <2>3
  <1>8. AgendaInv'
    BY <1>5, <1>6, <1>7 DEF AgendaInv
  <1>9. \A i \in DOMAIN todo' : todo'[i].op = "kept" => \E k \in DOMAIN t : todo'[i] = t[k]
    BY <1>3, <1>4
  <1>10. t # <<>> => todo' # <<>> /\ todo'[Len(todo')] = t[Len(t)]
    <2>1. SUFFICES ASSUME t # <<>>
                   PROVE  todo' # <<>> /\ todo'[Len(todo')] = t[Len(t)]
      OBVIOUS
    <2>2. Len(t) \in 1 .. Len(t)
      BY <2>1
    <2>3. todo'[Len(h) + Len(t)] = t[Len(t)] /\ Len(todo') > 0
      BY <1>1, <1>2, <2>2
    <2>4. todo' # <<>>
      BY <2>3
    <2> QED
      BY <1>1, <2>3, <2>4
  <1> QED
    BY <1>1, <1>8, <1>9, <1>10

LEMMA QueuedFresh ==
  ASSUME NEW n \in CoordIndices, NEW a \in Seq(Jobs), Clear(a, CoordCells(n)),
         NEW c \in Seq(Jobs), Clear(c, CoordCells(n)), todo' = a \o (ZeroCoords \o c)
  PROVE  Queued(n)'
PROOF
  <1>1. PICK z : z = ZeroCoords
    OBVIOUS
  <1>2. PICK q : q = Len(z)
    OBVIOUS
  <1>3. PICK r : r = z \o c
    OBVIOUS
  <1>4. PICK p : p = Len(a)
    OBVIOUS
  <1>5. PICK t : t = todo'
    OBVIOUS
  <1>6. /\ z \in Seq(Jobs) /\ q = SETTING_INDEX_NCOORD + 1 /\ DOMAIN z = 1 .. q
        /\ \A i \in 1 .. q : i - 1 \in CoordIndices /\ z[i] = ZeroJob(i - 1)
    BY <1>1, <1>2, ZeroCoordsJobs
  <1>7. /\ SETTING_INDEX_NCOORD \in Nat /\ p \in Nat /\ q \in Nat /\ Len(c) \in Nat
        /\ DOMAIN a = 1 .. p /\ DOMAIN c = 1 .. Len(c)
    BY <1>4, <1>6, LayoutAssumption
  <1>8. /\ r \in Seq(Jobs) /\ Len(r) = q + Len(c)
        /\ \A i \in 1 .. q : r[i] = z[i]
        /\ \A i \in 1 .. Len(c) : r[q + i] = c[i]
    <2>1. z \in Seq(Jobs)
      BY <1>6
    <2>2. /\ z \o c \in Seq(Jobs) /\ Len(z \o c) = Len(z) + Len(c)
          /\ \A i \in 1 .. Len(z) : (z \o c)[i] = z[i]
          /\ \A i \in 1 .. Len(c) : (z \o c)[Len(z) + i] = c[i]
      BY <2>1, ConcatIndex
    <2> QED
      BY <1>2, <1>3, <2>2
  <1>9. /\ t \in Seq(Jobs) /\ Len(t) = p + Len(r)
        /\ \A i \in 1 .. p : t[i] = a[i]
        /\ \A i \in 1 .. Len(r) : t[p + i] = r[i]
    BY <1>1, <1>3, <1>4, <1>5, <1>8, ConcatIndex
  <1>10. DOMAIN t = 1 .. Len(t)
    BY <1>9
  <1>11. n \in Nat /\ n + 1 \in 1 .. q /\ (n + 1) - 1 = n
    BY <1>6, <1>7 DEF CoordIndices
  <1>12. p + (n + 1) \in DOMAIN t /\ t[p + (n + 1)] = ZeroJob(n)
    <2>1. n + 1 \in 1 .. Len(r) /\ p + (n + 1) \in 1 .. Len(t)
      BY <1>7, <1>8, <1>9, <1>11
    <2>2. t[p + (n + 1)] = z[n + 1]
      BY <1>8, <1>9, <1>11, <2>1
    <2>3. z[n + 1] = ZeroJob((n + 1) - 1)
      BY <1>6, <1>11
    <2> QED
      BY <1>10, <1>11, <2>1, <2>2, <2>3
  <1>13. ASSUME NEW i \in DOMAIN t, i # p + (n + 1)
         PROVE  Cells(t[i]) \cap CoordCells(n) = {}
    <2>0. i \in 1 .. Len(t) /\ i \in Int /\ Len(t) = p + (q + Len(c))
      BY <1>7, <1>8, <1>9, <1>10
    <2>1. CASE i \in 1 .. p
      BY <1>7, <1>9, <2>1 DEF Clear
    <2>2. CASE i - p \in 1 .. q
      <3>1. PICK k : k = i - p
        OBVIOUS
      <3>2. k \in 1 .. q /\ k \in 1 .. Len(r) /\ i = p + k /\ k # n + 1
        BY <1>7, <1>8, <1>11, <1>13, <2>0, <2>2, <3>1
      <3>3. t[i] = z[k]
        BY <1>8, <1>9, <3>2
      <3>4. k - 1 \in CoordIndices /\ z[k] = ZeroJob(k - 1)
        BY <1>6, <3>2
      <3>5. k - 1 # n
        BY <1>11, <3>2
      <3>6. Cells(t[i]) = CoordCells(k - 1)
        BY <3>3, <3>4 DEF Cells, ZeroJob
      <3> QED
        BY <3>4, <3>5, <3>6, CoordsApart
    <2>3. CASE i \notin 1 .. p /\ i - p \notin 1 .. q
      <3>1. PICK k : k = i - p - q
        OBVIOUS
      <3>2. k \in 1 .. Len(c) /\ q + k \in 1 .. Len(r) /\ i = p + (q + k)
        BY <1>7, <1>8, <2>0, <2>3, <3>1
      <3>3. t[i] = c[k]
        BY <1>8, <1>9, <3>2
      <3> QED
        BY <1>7, <3>2, <3>3 DEF Clear
    <2> QED
      BY <2>1, <2>2, <2>3
  <1> QED
    BY <1>5, <1>12, <1>13 DEF Queued, ZeroJob

LEMMA RestoreAgenda ==
  ASSUME NEW which \in {"$", "#", "*"},
         NEW kept \in Seq(Jobs), \A i \in DOMAIN kept : kept[i].op \in {"state", "init", "kept"},
         todo' = settings_restore(which) \o kept
  PROVE  /\ \E h \in Seq(Jobs) :
              /\ \A i \in DOMAIN h : h[i].op \in {"put", "write_coord"}
              /\ todo' = h \o kept
         /\ which # "#" => Underway(write_global_settings(defaults))'
         /\ which = "#" => Clear(todo', GlobalCells)
         /\ which # "$" => \A n \in CoordIndices : Queued(n)'
         /\ which = "$" => \A n \in CoordIndices : Clear(todo', CoordCells(n))
PROOF
  <1> DEFINE w == write_global_settings(defaults)
             z == ZeroCoords
             l == EmptyLines
             f == EmptyBuildInfo
  <1>1. /\ w \in Seq(Jobs) /\ Record(w) /\ RecordCells(w) = GlobalCells
        /\ \A n \in CoordIndices : Clear(w, CoordCells(n))
    BY SettingsAssumption, GlobalRecordWrites, GlobalClear DEF Record
  <1>2. /\ z \in Seq(Jobs) /\ Clear(z, GlobalCells)
        /\ \A i \in DOMAIN z : z[i].op = "write_coord"
    BY ZeroCoordsJobs DEF ZeroJob
  <1>3. /\ l \in Seq(Jobs) /\ Clear(l, GlobalCells)
        /\ \A n \in CoordIndices : Clear(l, CoordCells(n))
        /\ \A i \in DOMAIN l : l[i].op = "put"
    BY EmptyLinesClear
  <1>4. /\ f \in Seq(Jobs) /\ Clear(f, GlobalCells)
        /\ \A n \in CoordIndices : Clear(f, CoordCells(n))
        /\ \A i \in DOMAIN f : f[i].op = "put"
    BY EmptyBuildInfoClear
  <1>5. \A cells : Clear(kept, cells)
    BY ClearOps
  <1>6. \A i \in DOMAIN w : w[i].op = "put"
    BY <1>1 DEF Record
  <1>7. CASE which = "$"
    <2>1. todo' = w \o kept
      BY <1>7 DEF settings_restore
    <2> HIDE DEF w
    <2>2. Underway(w)'
      BY <1>1, <1>5, <2>1, UnderwayFresh
    <2>3. \A n \in CoordIndices : Clear(todo', CoordCells(n))
      BY <1>1, <1>5, <2>1, ClearConcat
    <2>4. \E h \in Seq(Jobs) :
              /\ \A i \in DOMAIN h : h[i].op \in {"put", "write_coord"}
              /\ todo' = h \o kept
      BY <1>1, <1>6, <2>1
    <2> QED
      BY <1>7, <2>2, <2>3, <2>4 DEF w
  <1>8. CASE which = "#"
    <2>1. todo' = z \o kept
      BY <1>8 DEF settings_restore
    <2>2. \A n \in CoordIndices : Queued(n)'
      <3>1. todo' = <<>> \o (z \o kept)
        <4> HIDE DEF z
        <4>1. z \o kept \in Seq(Jobs)
          BY <1>2, ConcatIndex
        <4> QED
          BY <2>1, <4>1
      <3> QED
        BY <1>5, <3>1, QueuedFresh, ClearEmpty
    <2> HIDE DEF z
    <2>3. Clear(todo', GlobalCells)
      BY <1>2, <1>5, <2>1, ClearConcat
    <2>4. \E h \in Seq(Jobs) :
              /\ \A i \in DOMAIN h : h[i].op \in {"put", "write_coord"}
              /\ todo' = h \o kept
      BY <1>2, <2>1
    <2> QED
      BY <1>8, <2>2, <2>3, <2>4
  <1>9. CASE which = "*"
    <2>1. todo' = (((w \o z) \o l) \o f) \o kept
      BY <1>9 DEF settings_restore
    <2> DEFINE g == l \o (f \o kept)
               h == ((w \o z) \o l) \o f
    <2>2. /\ f \o kept \in Seq(Jobs) /\ g \in Seq(Jobs) /\ z \o g \in Seq(Jobs)
          /\ w \o z \in Seq(Jobs) /\ (w \o z) \o l \in Seq(Jobs) /\ h \in Seq(Jobs)
      <3> HIDE DEF w, z, l, f
      <3> QED
        BY <1>1, <1>2, <1>3, <1>4, ConcatIndex
    <2>3. todo' = w \o (z \o g)
      <3> HIDE DEF w, z, l, f
      <3>. DEFINE wz == w \o z
                  wzl == wz \o l
                  fk == f \o kept
                  lfk == l \o fk
      <3>0. \A a, c, d \in Seq(Jobs) : (a \o c) \o d = a \o (c \o d)
        BY ConcatAssoc, SMTT(30)
      <3>1. (wzl \o f) \o kept = wzl \o fk
        <4> HIDE DEF wzl
        <4>1. wzl \in Seq(Jobs)
          BY <2>2 DEF wzl
        <4> QED
          BY <1>4, <3>0, <4>1
      <3>2. wzl \o fk = wz \o lfk
        <4> HIDE DEF wz, fk
        <4>1. wz \in Seq(Jobs) /\ fk \in Seq(Jobs)
          BY <2>2 DEF wz, fk
        <4> QED
          BY <1>3, <3>0, <4>1
      <3>3. wz \o lfk = w \o (z \o lfk)
        <4> HIDE DEF lfk
        <4>1. lfk \in Seq(Jobs)
          BY <2>2 DEF lfk, fk
        <4> QED
          BY <1>1, <1>2, <3>0, <4>1
      <3> QED
        BY <2>1, <3>1, <3>2, <3>3
    <2>4. Clear(g, GlobalCells) /\ \A n \in CoordIndices : Clear(g, CoordCells(n))
      <3> HIDE DEF w, z, l, f
      <3>1. Clear(f \o kept, GlobalCells) /\ \A n \in CoordIndices : Clear(f \o kept, CoordCells(n))
        BY <1>4, <1>5, ClearConcat
      <3> QED
        BY <1>3, <2>2, <3>1, ClearConcat
    <2>5. Clear(z \o g, GlobalCells)
      <3> HIDE DEF w, z, g
      <3> QED
        BY <1>2, <2>2, <2>4, ClearConcat
    <2>6. Underway(w)'
      <3> HIDE DEF w, z, g
      <3> QED
        BY <1>1, <2>2, <2>3, <2>5, UnderwayFresh
    <2>7. \A n \in CoordIndices : Queued(n)'
      <3> HIDE DEF w, g
      <3> QED
        BY <1>1, <2>2, <2>3, <2>4, QueuedFresh
    <2>8. \A i \in DOMAIN h : h[i].op \in {"put", "write_coord"}
      <3> HIDE DEF w, z, l, f
      <3>1. ASSUME NEW a \in Seq(Jobs), NEW c \in Seq(Jobs),
                   \A i \in DOMAIN a : a[i].op \in {"put", "write_coord"},
                   \A i \in DOMAIN c : c[i].op \in {"put", "write_coord"}
            PROVE  \A i \in DOMAIN (a \o c) : (a \o c)[i].op \in {"put", "write_coord"}
        <4> DEFINE t == a \o c
        <4>1. /\ t \in Seq(Jobs) /\ Len(t) = Len(a) + Len(c)
              /\ \A i \in 1 .. Len(a) : t[i] = a[i]
              /\ \A i \in 1 .. Len(c) : t[Len(a) + i] = c[i]
          BY ConcatIndex
        <4>2. /\ DOMAIN a = 1 .. Len(a) /\ DOMAIN c = 1 .. Len(c)
              /\ Len(a) \in Nat /\ Len(c) \in Nat
          OBVIOUS
        <4> HIDE DEF t
        <4>3. DOMAIN t = 1 .. Len(t)
          BY <4>1
        <4>4. ASSUME NEW i \in DOMAIN t
              PROVE  t[i].op \in {"put", "write_coord"}
          <5>1. i \in 1 .. Len(a) \/ (i - Len(a) \in 1 .. Len(c) /\ i = Len(a) + (i - Len(a)))
            BY <4>1, <4>2, <4>3
          <5>2. CASE i \in 1 .. Len(a)
            BY <3>1, <4>1, <4>2, <5>2
          <5>3. CASE i - Len(a) \in 1 .. Len(c) /\ i = Len(a) + (i - Len(a))
            <6>1. t[i] = c[i - Len(a)]
              BY <4>1, <5>3
            <6> QED
              BY <3>1, <4>2, <5>3, <6>1
          <5> QED
            BY <5>1, <5>2, <5>3
        <4> QED
          BY <4>4 DEF t
      <3>2. \A i \in DOMAIN (w \o z) : (w \o z)[i].op \in {"put", "write_coord"}
        BY <1>1, <1>2, <1>6, <3>1
      <3>3. \A i \in DOMAIN ((w \o z) \o l) : ((w \o z) \o l)[i].op \in {"put", "write_coord"}
        BY <1>3, <2>2, <3>1, <3>2
      <3> QED
        BY <1>4, <2>2, <3>1, <3>3
    <2>9. \E s \in Seq(Jobs) :
              /\ \A i \in DOMAIN s : s[i].op \in {"put", "write_coord"}
              /\ todo' = s \o kept
      <3>1. todo' = h \o kept
        BY <2>1
      <3> HIDE DEF h
      <3> QED
        BY <2>2, <2>8, <3>1
    <2> QED
      BY <1>9, <2>6, <2>7, <2>9 DEF w
  <1> QED
    BY <1>7, <1>8, <1>9

-----------------------------------------------------------------------------
\* The agenda of the command that has just been taken, or of a start.

LEMMA FreshKept ==
  ASSUME NEW t,
         \A i \in DOMAIN todo' : todo'[i].op = "kept" => \E k \in DOMAIN t : todo'[i] = t[k],
         \A k \in DOMAIN t : t[k].op = "kept" =>
           /\ t[k].cmd.op = "coord_data" => CoordDue(t[k].cmd.n, t[k].cmd.value)'
           /\ Zeroed(t[k].cmd) => \A n \in CoordIndices : CoordDue(n, ZeroVector)'
  PROVE  KeptDue'
PROOF
  <1>1. ASSUME NEW i \in DOMAIN todo', todo'[i].op = "kept"
        PROVE  /\ todo'[i].cmd.op = "coord_data" =>
                    CoordDue(todo[i].cmd.n, todo[i].cmd.value)'
               /\ Zeroed(todo'[i].cmd) =>
                    \A n \in CoordIndices : CoordDue(n, ZeroVector)'
    <2>1. PICK k \in DOMAIN t : todo'[i] = t[k]
      BY <1>1
    <2>2. PICK cmd : cmd = t[k].cmd
      OBVIOUS
    <2>3. t[k].op = "kept" /\ todo'[i].cmd = cmd
      BY <1>1, <2>1, <2>2
    <2>4. cmd.op = "coord_data" => CoordDue(cmd.n, cmd.value)'
      BY <2>2, <2>3
    <2>5. Zeroed(cmd) => \A n \in CoordIndices : CoordDue(n, ZeroVector)'
      BY <2>2, <2>3
    <2> QED
      BY <2>3, <2>4, <2>5
  <1> QED
    BY <1>1 DEF KeptDue

LEMMA ReadyFacts ==
  ASSUME FlagsInv, RecordsInv, coord_select \in CoordIndices, coord_system \in Coordinates,
         Ready
  PROVE  /\ settings \in SettingsRecords /\ settings.flags \in Flags
         /\ Held(write_global_settings(settings))
         /\ Held(settings_write_coord_data(coord_select, coord_system))
PROOF
  <1>1. settings \in SettingsRecords /\ settings.flags \in Flags /\ todo \in Seq(Jobs)
        /\ power /\ todo = <<>>
    BY DEF FlagsInv, Ready
  <1>2. Held(write_global_settings(settings))
    <2>1. todo # Boot
      <3>1. Boot # <<>>
        BY DEF Boot
      <3> QED
        BY <1>1, <3>1
    <2>2. ~Underway(write_global_settings(settings))
      BY <1>1, GlobalRecordWrites, UnderwayHead
    <2> QED
      BY <1>1, <2>1, <2>2 DEF RecordsInv, SettingsDue
  <1>3. Held(settings_write_coord_data(coord_select, coord_system))
    <2>1. DOMAIN todo = {}
      BY <1>1
    <2>2. CoordDue(coord_select, coord_system)
      BY <1>1, <2>1 DEF RecordsInv, OffsetDue
    <2>3. ~Underway(settings_write_coord_data(coord_select, coord_system))
      BY <1>1, CoordRecord, UnderwayHead
    <2>4. ~Queued(coord_select)
      BY <2>1 DEF Queued
    <2> QED
      BY <2>2, <2>3, <2>4 DEF CoordDue
  <1> QED
    BY <1>1, <1>2, <1>3

\* Work h, closed by t, taken up by a machine that has nothing left to do.
LEMMA ReadyRecords ==
  ASSUME FlagsInv, RecordsInv, coord_select \in CoordIndices, coord_system \in Coordinates,
         Ready, power' = power, eeprom' = eeprom,
         NEW h \in Seq(Jobs),
         \A i \in DOMAIN h : h[i].op \in {"put", "write_coord", "read_line", "view_startup"},
         NEW t \in Seq(Jobs), \A i \in DOMAIN t : t[i].op \in {"state", "init", "kept"},
         \A i \in DOMAIN t : t[i].op = "init" => i = Len(t),
         todo' = h \o t,
         \A r \in Regions : promised'[r] # {} => promised'[r] = promised[r],
         Clear(h, GlobalCells) \/ promised'[Globals] = {},
         \A n \in CoordIndices : Clear(h, CoordCells(n)) \/ promised'[CoordRegion(n)] = {},
         \/ Clear(h, GlobalCells) /\ settings' = settings
         \/ Underway(write_global_settings(settings))',
         \A k \in DOMAIN t : t[k].op = "kept" =>
           /\ t[k].cmd.op = "coord_data" => CoordDue(t[k].cmd.n, t[k].cmd.value)'
           /\ Zeroed(t[k].cmd) => \A n \in CoordIndices : CoordDue(n, ZeroVector)',
         \/ /\ Clear(h, CoordCells(coord_select))
            /\ coord_select' = coord_select /\ coord_system' = coord_system
         \/ /\ t # <<>> /\ t[Len(t)].op = "kept"
            /\ t[Len(t)].cmd.op = "coord_data" /\ t[Len(t)].cmd.n = coord_select'
         \/ t # <<>> /\ t[Len(t)].op = "init"
         \/ CoordDue(coord_select, coord_system)'
  PROVE  RecordsInv'
PROOF
  <1>1. power /\ power'
    BY DEF Ready
  <1>2. \A cells : Clear(t, cells)
    BY ClearOps
  <1>3. \A cells : Clear(h, cells) => Clear(todo', cells)
    BY <1>2, ClearConcat
  <1>4. /\ todo' \in Seq(Jobs)
        /\ AgendaInv'
        /\ \A i \in DOMAIN todo' : todo'[i].op = "kept" => \E k \in DOMAIN t : todo'[i] = t[k]
        /\ t # <<>> => todo' # <<>> /\ todo'[Len(todo')] = t[Len(t)]
    BY <1>1, AgendaFresh
  <1>5. PromisesHeld'
    <2>1. promised'[Globals] # {} =>
            promised'[Globals] = promised[Globals] /\ Clear(todo', GlobalCells)
      BY <1>3, RegionFacts
    <2>2. \A n \in CoordIndices : promised'[CoordRegion(n)] # {} =>
            /\ promised'[CoordRegion(n)] = promised[CoordRegion(n)]
            /\ Clear(todo', CoordCells(n))
      BY <1>3, RegionFacts
    <2> QED
      BY <2>1, <2>2, PromisesFresh DEF RecordsInv
  <1>6. PICK s \in SettingsRecords : s = settings /\ s.flags \in Flags
    BY ReadyFacts
  <1>7. SettingsDue'
    <2>1. CASE Clear(h, GlobalCells) /\ settings' = settings
      <3>1. Held(write_global_settings(s))
        BY <1>6, ReadyFacts
      <3>2. RecordCells(write_global_settings(s)) = GlobalCells
        BY <1>6, GlobalRecordWrites
      <3>3. Clear(todo', RecordCells(write_global_settings(s)))
        BY <1>3, <2>1, <3>2
      <3>4. Held(write_global_settings(s))'
        BY <3>1, <3>3, HeldFresh
      <3>5. settings' = s
        BY <1>6, <2>1
      <3> QED
        BY <3>4, <3>5 DEF SettingsDue
    <2>2. CASE Underway(write_global_settings(settings))'
      BY <2>2 DEF SettingsDue
    <2> QED
      BY <2>1, <2>2
  <1>8. KeptDue'
    BY <1>4, FreshKept
  <1>9. OffsetDue'
    <2>1. CASE /\ Clear(h, CoordCells(coord_select))
               /\ coord_select' = coord_select /\ coord_system' = coord_system
      <3>1. PICK n \in CoordIndices, data \in Coordinates :
              n = coord_select /\ data = coord_system
        OBVIOUS
      <3>2. Held(settings_write_coord_data(n, data))
        BY <3>1, ReadyFacts
      <3>3. RecordCells(settings_write_coord_data(n, data)) = CoordCells(n)
        BY CoordRecord
      <3>4. Clear(todo', RecordCells(settings_write_coord_data(n, data)))
        BY <1>3, <2>1, <3>1, <3>3
      <3>5. Held(settings_write_coord_data(n, data))'
        BY <3>2, <3>4, HeldFresh
      <3>6. CoordDue(n, data)'
        BY <3>5 DEF CoordDue
      <3>7. n = coord_select' /\ data = coord_system'
        BY <2>1, <3>1
      <3> QED
        BY <3>6, <3>7 DEF OffsetDue
    <2>2. CASE /\ t # <<>> /\ t[Len(t)].op = "kept"
               /\ t[Len(t)].cmd.op = "coord_data" /\ t[Len(t)].cmd.n = coord_select'
      <3>1. PICK i \in DOMAIN todo' : todo'[i] = t[Len(t)]
        <4>1. todo' # <<>> /\ todo'[Len(todo')] = t[Len(t)]
          BY <1>4, <2>2
        <4>2. Len(todo') \in DOMAIN todo'
          BY <1>4, <4>1
        <4> QED
          BY <4>1, <4>2
      <3> QED
        BY <2>2, <3>1 DEF OffsetDue, Adopted
    <2>3. CASE t # <<>> /\ t[Len(t)].op = "init"
      BY <1>4, <2>3 DEF OffsetDue
    <2>4. CASE CoordDue(coord_select, coord_system)'
      BY <2>4 DEF OffsetDue
    <2> QED
      BY <2>1, <2>2, <2>3, <2>4
  <1> QED
    BY <1>4, <1>5, <1>7, <1>8, <1>9 DEF RecordsInv

\* Nothing that the records depend on has changed.
LEMMA SameRecords ==
  ASSUME RecordsInv,
         UNCHANGED <<eeprom, settings, coord_select, coord_system, power, todo, promised>>
  PROVE  RecordsInv'
PROOF
  <1>1. \A writes : Held(writes) => Held(writes)'
    BY DEF Held
  <1>2. \A writes : Underway(writes) => Underway(writes)'
    BY DEF Underway, From
  <1>3. \A n : Queued(n) => Queued(n)'
    BY DEF Queued
  <1>4. \A n, data : CoordDue(n, data) => CoordDue(n, data)'
    BY <1>1, <1>2, <1>3 DEF CoordDue
  <1>5. AgendaInv'
    BY DEF RecordsInv, AgendaInv
  <1>6. PromisesHeld'
    BY <1>1 DEF RecordsInv, PromisesHeld
  <1>7. SettingsDue'
    <2>1. PICK s : s = settings
      OBVIOUS
    <2>2. power' => \/ todo' = Boot
                    \/ Held(write_global_settings(s))'
                    \/ Underway(write_global_settings(s))'
      BY <1>1, <1>2, <2>1 DEF RecordsInv, SettingsDue
    <2>3. settings' = s
      BY <2>1
    <2> QED
      BY <2>2, <2>3 DEF SettingsDue
  <1>8. KeptDue'
    <2>1. PICK t : t = todo
      OBVIOUS
    <2>2. \A k \in DOMAIN t : t[k].op = "kept" =>
           /\ t[k].cmd.op = "coord_data" => CoordDue(t[k].cmd.n, t[k].cmd.value)'
           /\ Zeroed(t[k].cmd) => \A n \in CoordIndices : CoordDue(n, ZeroVector)'
      BY <1>4, <2>1 DEF RecordsInv, KeptDue
    <2>3. \A i \in DOMAIN todo' : todo'[i].op = "kept" => \E k \in DOMAIN t : todo'[i] = t[k]
      BY <2>1
    <2> QED
      BY <2>2, <2>3, FreshKept
  <1>9. OffsetDue'
    <2>1. PICK n, data : n = coord_select /\ data = coord_system
      OBVIOUS
    <2>2. power => \/ todo # <<>> /\ todo[Len(todo)].op = "init"
                   \/ \E i \in DOMAIN todo : todo[i].op = "kept" /\ Adopted(todo[i].cmd)
                   \/ CoordDue(n, data)'
      BY <1>4, <2>1 DEF RecordsInv, OffsetDue
    <2>3. n = coord_select' /\ data = coord_system'
      BY <2>1
    <2> QED
      BY <2>2, <2>3 DEF OffsetDue, Adopted
  <1> QED
    BY <1>5, <1>6, <1>7, <1>8, <1>9 DEF RecordsInv

-----------------------------------------------------------------------------
\* The commands.

LEMMA WithdrawnPromises ==
  ASSUME NEW regions, promised' = Withdrawn(regions)
  PROVE  \A r \in Regions :
           /\ promised'[r] # {} => promised'[r] = promised[r]
           /\ r \in regions => promised'[r] = {}
PROOF
  BY DEF Withdrawn

\* The forms of an agenda that closes with the end of a command.
LEMMA OneKept ==
  ASSUME NEW cmd \in Commands \cup {RestoreAll}
  PROVE  /\ <<Kept(cmd)>> \in Seq(Jobs) /\ DOMAIN <<Kept(cmd)>> = {1}
         /\ Len(<<Kept(cmd)>>) = 1 /\ <<Kept(cmd)>> # <<>>
         /\ <<Kept(cmd)>>[1].op = "kept" /\ <<Kept(cmd)>>[1].cmd = cmd
PROOF
  <1>1. Kept(cmd) \in Jobs /\ Kept(cmd).op = "kept" /\ Kept(cmd).cmd = cmd
    BY DEF Kept, Jobs
  <1> QED
    BY <1>1

\* The jobs of a start behind the reading of the settings.
StartJobs(r) ==
  /\ r \in Seq(Jobs) /\ r # <<>> /\ r[Len(r)].op = "init"
  /\ \A i \in DOMAIN r : r[i].op \in {"state", "init"}
  /\ \A i \in DOMAIN r : r[i].op = "init" => i = Len(r)

LEMMA KeptThenInit ==
  ASSUME NEW cmd, NEW k, k = <<Kept(cmd)>>, k \in Seq(Jobs), NEW r, StartJobs(r),
         NEW t, t = k \o r
  PROVE  /\ t \in Seq(Jobs) /\ t # <<>> /\ t[Len(t)].op = "init"
         /\ \A i \in DOMAIN t : t[i].op \in {"state", "init", "kept"}
         /\ \A i \in DOMAIN t : t[i].op = "init" => i = Len(t)
         /\ \A i \in DOMAIN t : t[i].op = "kept" => t[i].cmd = cmd
PROOF
  <1>0. /\ r \in Seq(Jobs) /\ r # <<>> /\ r[Len(r)].op = "init"
        /\ \A i \in DOMAIN r : r[i].op \in {"state", "init"}
        /\ \A i \in DOMAIN r : r[i].op = "init" => i = Len(r)
    BY DEF StartJobs
  <1>2. k \in Seq(Jobs) /\ Len(k) = 1 /\ k[1].op = "kept" /\ k[1].cmd = cmd
    BY DEF Kept
  <1>3. /\ k \o r \in Seq(Jobs) /\ Len(k \o r) = Len(k) + Len(r)
        /\ \A i \in 1 .. Len(k) : (k \o r)[i] = k[i]
        /\ \A i \in 1 .. Len(r) : (k \o r)[Len(k) + i] = r[i]
    <2>1. k \in Seq(Jobs)
      BY <1>2
    <2> QED
      BY <1>0, <2>1, ConcatIndex
  <1>4. /\ t \in Seq(Jobs) /\ Len(t) = 1 + Len(r) /\ DOMAIN t = 1 .. Len(t)
        /\ t[1] = k[1]
        /\ \A i \in 1 .. Len(r) : t[1 + i] = r[i]
        /\ Len(r) \in Nat \ {0} /\ DOMAIN r = 1 .. Len(r)
    <2>1. t = k \o r
      OBVIOUS
    <2>2. /\ t \in Seq(Jobs) /\ Len(t) = 1 + Len(r)
          /\ \A i \in 1 .. 1 : t[i] = k[i]
          /\ \A i \in 1 .. Len(r) : t[1 + i] = r[i]
      BY <1>2, <1>3, <2>1
    <2>3. Len(r) \in Nat \ {0} /\ DOMAIN r = 1 .. Len(r)
      BY <1>0
    <2>4. DOMAIN t = 1 .. Len(t) /\ t[1] = k[1]
      BY <2>2
    <2> QED
      BY <2>2, <2>3, <2>4
  <1>5. ASSUME NEW i \in DOMAIN t
        PROVE  i = 1 \/ \E j \in DOMAIN r : i = 1 + j /\ t[i] = r[j]
    <2>1. CASE i # 1
      <3>1. i - 1 \in 1 .. Len(r) /\ i = 1 + (i - 1)
        BY <1>4, <2>1
      <3>2. t[i] = r[i - 1]
        BY <1>4, <3>1
      <3> QED
        BY <1>4, <3>1, <3>2
    <2> QED
      BY <2>1
  <1>6. t[Len(t)].op = "init" /\ t # <<>>
    <2>1. t[1 + Len(r)] = r[Len(r)] /\ Len(t) = 1 + Len(r) /\ Len(t) > 0
      BY <1>0, <1>4
    <2>2. t # <<>>
      BY <2>1
    <2> QED
      BY <1>0, <2>1, <2>2
  <1>7. \A i \in DOMAIN t : t[i].op \in {"state", "init", "kept"}
    BY <1>0, <1>2, <1>4, <1>5
  <1>8. \A i \in DOMAIN t : t[i].op = "init" => i = Len(t)
    <2>1. ASSUME NEW i \in DOMAIN t, t[i].op = "init"
          PROVE  i = Len(t)
      <3>1. PICK j \in DOMAIN r : i = 1 + j /\ t[i] = r[j]
        BY <1>0, <1>2, <1>4, <1>5, <2>1
      <3>2. j = Len(r)
        BY <1>0, <2>1, <3>1
      <3> QED
        BY <1>4, <3>1, <3>2
    <2> QED
      BY <2>1
  <1>9. \A i \in DOMAIN t : t[i].op = "kept" => t[i].cmd = cmd
    BY <1>0, <1>2, <1>4, <1>5
  <1> QED
    BY <1>4, <1>6, <1>7, <1>8, <1>9

LEMMA SettingRecords ==
  ASSUME FlagsInv, RecordsInv, coord_select \in CoordIndices, coord_system \in Coordinates,
         NEW cmd \in Commands, StoreSetting(cmd)
  PROVE  RecordsInv'
PROOF
  <1>1. Ready /\ cmd.op = "setting" /\ UNCHANGED <<eeprom, coord_select, coord_system, power>>
    BY DEF StoreSetting, Send
  <1>2. CASE Refused(cmd)
    BY <1>1, <1>2, SameRecords DEF StoreSetting
  <1>3. CASE ~Refused(cmd)
    <2>1. FlagsInv'
      BY <1>1, StepCommand DEF Command, Stray
    <2>2. PICK s \in SettingsRecords : s = SettingsAfter(cmd) /\ s = settings' /\ s.flags \in Flags
      BY <1>3, <2>1 DEF FlagsInv, StoreSetting
    <2>3. PICK h : h = write_global_settings(s)
      OBVIOUS
    <2>4. /\ Record(h) /\ RecordCells(h) = GlobalCells
          /\ \A n \in CoordIndices : Clear(h, CoordCells(n))
      BY <2>2, <2>3, GlobalRecordWrites, GlobalClear
    <2>5. h \in Seq(Jobs) /\ \A i \in DOMAIN h : h[i].op = "put"
      BY <2>4 DEF Record
    <2>6. PICK t : t = <<Kept(cmd)>>
      OBVIOUS
    <2>7. /\ t \in Seq(Jobs) /\ DOMAIN t = {1} /\ Len(t) = 1 /\ t # <<>>
          /\ t[1].op = "kept" /\ t[1].cmd = cmd
      BY <2>6, OneKept
    <2>8. todo' = h \o t /\ promised' = Withdrawn({Globals})
      BY <1>1, <1>3, <2>2, <2>3, <2>6 DEF StoreSetting, Stores
    <2>9. Clear(t, RecordCells(h))
      BY <2>7, ClearOps
    <2>10. Underway(h)'
      BY <2>4, <2>7, <2>8, <2>9, UnderwayFresh
    <2>11. Underway(write_global_settings(settings))'
      BY <2>2, <2>3, <2>10
    <2>12. /\ \A r \in Regions : promised'[r] # {} => promised'[r] = promised[r]
           /\ promised'[Globals] = {}
      BY <2>8, RegionFacts, WithdrawnPromises
    <2>13. ~Zeroed(cmd) /\ cmd.op # "coord_data"
      BY <1>1 DEF Zeroed
    <2>14. /\ \A i \in DOMAIN h : h[i].op \in {"put", "write_coord", "read_line", "view_startup"}
           /\ \A i \in DOMAIN t : t[i].op \in {"state", "init", "kept"}
           /\ \A i \in DOMAIN t : t[i].op = "init" => i = Len(t)
           /\ \A k \in DOMAIN t : ~Zeroed(t[k].cmd) /\ t[k].cmd.op # "coord_data"
      BY <2>5, <2>7, <2>13
    <2>15. Clear(h, CoordCells(coord_select))
      BY <2>4
    <2> QED
      BY <1>1, <2>4, <2>5, <2>7, <2>8, <2>11, <2>12, <2>14, <2>15, ReadyRecords
  <1> QED
    BY <1>2, <1>3

LEMMA RestoreRecords ==
  ASSUME FlagsInv, RecordsInv, coord_select \in CoordIndices, coord_system \in Coordinates,
         NEW cmd \in Commands, Restore(cmd)
  PROVE  RecordsInv'
PROOF
  <1>1. /\ Ready /\ cmd.op = "restore" /\ UNCHANGED <<eeprom, coord_select, coord_system, power>>
        /\ cmd.which \in {"$", "#", "*"}
    BY CommandAssumption DEF Restore, Send
  <1>2. PICK k, r, t : k = <<Kept(cmd)>> /\ r = Reset /\ t = k \o r
    OBVIOUS
  <1>20. k \in Seq(Jobs)
    BY <1>2, OneKept
  <1>0. /\ r \in Seq(Jobs) /\ r # <<>> /\ r[Len(r)].op = "init"
         /\ \A i \in DOMAIN r : r[i].op \in {"state", "init"} /\ i = Len(r)
         /\ StartJobs(r)
    BY <1>2 DEF Reset, Job, Jobs, StartJobs
  <1>3. /\ t \in Seq(Jobs) /\ t # <<>> /\ t[Len(t)].op = "init"
        /\ \A i \in DOMAIN t : t[i].op \in {"state", "init", "kept"}
        /\ \A i \in DOMAIN t : t[i].op = "init" => i = Len(t)
        /\ \A i \in DOMAIN t : t[i].op = "kept" => t[i].cmd = cmd
    BY <1>2, <1>20, <1>0, KeptThenInit
  <1>4. PICK w : w = settings_restore(cmd.which)
    OBVIOUS
  <1>5. todo' = w \o t
    <2>1. w \in Seq(Jobs)
      BY <1>1, <1>4, RestoreWrites
    <2>2. todo' = (w \o k) \o r
      BY <1>2, <1>4 DEF Restore
    <2>3. r \in Seq(Jobs)
      BY <1>0
    <2>4. (w \o k) \o r = w \o (k \o r)
      BY <1>20, <2>1, <2>3, ConcatAssoc
    <2> QED
      BY <1>2, <2>2, <2>4
  <1>6. /\ \E h \in Seq(Jobs) :
              /\ \A i \in DOMAIN h : h[i].op \in {"put", "write_coord"}
              /\ todo' = h \o t
        /\ cmd.which # "#" => Underway(write_global_settings(defaults))'
        /\ cmd.which = "#" => Clear(todo', GlobalCells)
        /\ cmd.which # "$" => \A n \in CoordIndices : Queued(n)'
        /\ cmd.which = "$" => \A n \in CoordIndices : Clear(todo', CoordCells(n))
    BY <1>1, <1>3, <1>4, <1>5, RestoreAgenda
  <1>7. /\ \A region \in Regions : promised'[region] # {} => promised'[region] = promised[region]
        /\ cmd.which # "#" => promised'[Globals] = {}
        /\ cmd.which # "$" => \A n \in CoordIndices : promised'[CoordRegion(n)] = {}
    <2>1. promised' = Withdrawn(Stores(cmd))
      BY DEF Restore
    <2>2. cmd.which # "#" => Globals \in Stores(cmd)
      BY <1>1, RegionFacts DEF Stores
    <2>3. ASSUME NEW n \in CoordIndices, cmd.which # "$"
          PROVE  CoordRegion(n) \in Stores(cmd)
      BY <1>1, <2>3, RegionFacts DEF Stores
    <2> QED
      BY <2>1, <2>2, <2>3, RegionFacts, WithdrawnPromises
  <1>8. power /\ power'
    BY <1>1 DEF Ready
  <1>9. PICK h \in Seq(Jobs) :
          /\ \A i \in DOMAIN h : h[i].op \in {"put", "write_coord"}
          /\ todo' = h \o t
    BY <1>6
  <1>10. /\ todo' \in Seq(Jobs)
         /\ AgendaInv'
         /\ \A i \in DOMAIN todo' : todo'[i].op = "kept" => \E j \in DOMAIN t : todo'[i] = t[j]
         /\ todo' # <<>> /\ todo'[Len(todo')] = t[Len(t)]
    BY <1>3, <1>8, <1>9, AgendaFresh
  <1>11. PromisesHeld'
    <2>1. promised'[Globals] # {} =>
            promised'[Globals] = promised[Globals] /\ Clear(todo', GlobalCells)
      BY <1>6, <1>7, RegionFacts
    <2>2. \A n \in CoordIndices : promised'[CoordRegion(n)] # {} =>
            /\ promised'[CoordRegion(n)] = promised[CoordRegion(n)]
            /\ Clear(todo', CoordCells(n))
      BY <1>6, <1>7, RegionFacts
    <2> QED
      BY <1>1, <2>1, <2>2, PromisesFresh DEF RecordsInv
  <1>12. SettingsDue'
    <2>1. CASE cmd.which = "#"
      <3>1. PICK s \in SettingsRecords : s = settings /\ s.flags \in Flags
        BY <1>1, ReadyFacts
      <3>2. Held(write_global_settings(s))
        BY <1>1, <3>1, ReadyFacts
      <3>3. RecordCells(write_global_settings(s)) = GlobalCells
        BY <3>1, GlobalRecordWrites
      <3>4. Held(write_global_settings(s))'
        BY <1>1, <1>6, <2>1, <3>2, <3>3, HeldFresh
      <3>5. settings' = s
        BY <2>1, <3>1 DEF Restore
      <3> QED
        BY <3>4, <3>5 DEF SettingsDue
    <2>2. CASE cmd.which # "#"
      <3>1. settings' = defaults
        BY <2>2 DEF Restore
      <3>2. Underway(write_global_settings(defaults))'
        BY <1>6, <2>2
      <3> QED
        BY <3>1, <3>2 DEF SettingsDue
    <2> QED
      BY <2>1, <2>2
  <1>13. KeptDue'
    <2>1. \A n \in CoordIndices : Queued(n)' => CoordDue(n, ZeroVector)'
      BY DEF CoordDue
    <2>2. Zeroed(cmd) => \A n \in CoordIndices : CoordDue(n, ZeroVector)'
      BY <1>1, <1>6, <2>1 DEF Zeroed
    <2>3. \A j \in DOMAIN t : t[j].op = "kept" =>
           /\ t[j].cmd.op = "coord_data" => CoordDue(t[j].cmd.n, t[j].cmd.value)'
           /\ Zeroed(t[j].cmd) => \A n \in CoordIndices : CoordDue(n, ZeroVector)'
      BY <1>1, <1>3, <2>2
    <2> QED
      BY <1>10, <2>3, FreshKept
  <1>14. OffsetDue'
    BY <1>3, <1>10 DEF OffsetDue
  <1> QED
    BY <1>10, <1>11, <1>12, <1>13, <1>14 DEF RecordsInv

LEMMA EmptyClose ==
  ASSUME NEW w \in Seq(Jobs)
  PROVE  w = w \o <<>>
OBVIOUS

LEMMA NothingAfter ==
  ASSUME NEW t, t = <<>>
  PROVE  /\ t \in Seq(Jobs) /\ DOMAIN t = {}
         /\ \A i \in DOMAIN t : t[i].op \in {"state", "init", "kept"}
         /\ \A i \in DOMAIN t : t[i].op = "init" => i = Len(t)
OBVIOUS

\* A coordinate record that does not read cannot be promised, nor be in use.
LEMMA InvalidCoord ==
  ASSUME FlagsInv, RecordsInv, coord_select \in CoordIndices, coord_system \in Coordinates,
         NEW n \in CoordIndices, ~Valid(coord_addr(n), N_AXIS)
  PROVE  promised[CoordRegion(n)] = {} /\ (Ready => n # coord_select)
PROOF
  <1>1. ASSUME NEW v \in promised[CoordRegion(n)]
        PROVE  FALSE
    <2>1. v \in Coordinates /\ Held(settings_write_coord_data(n, v))
      BY DEF RecordsInv, PromisesHeld
    <2> QED
      BY <2>1, CoordHeldReads
  <1>2. ASSUME Ready, n = coord_select
        PROVE  FALSE
    <2>1. PICK data \in Coordinates : data = coord_system
      OBVIOUS
    <2>2. Held(settings_write_coord_data(n, data))
      BY <1>2, <2>1, ReadyFacts
    <2> QED
      BY <2>2, CoordHeldReads
  <1> QED
    BY <1>1, <1>2

LEMMA RepairRecords ==
  ASSUME FlagsInv, RecordsInv, coord_select \in CoordIndices, coord_system \in Coordinates,
         Ready, NEW n \in CoordIndices, ~Valid(coord_addr(n), N_AXIS),
         todo' = settings_write_coord_data(n, ZeroVector),
         UNCHANGED <<eeprom, settings, coord_select, coord_system, power, promised>>
  PROVE  RecordsInv'
PROOF
  <1>1. PICK h : h = settings_write_coord_data(n, ZeroVector)
    OBVIOUS
  <1>2. /\ h \in Seq(Jobs) /\ Record(h) /\ Clear(h, GlobalCells)
        /\ \A m \in CoordIndices \ {n} : Clear(h, CoordCells(m))
    BY <1>1, CoordRecord, CoordClear, ZeroCoordinates
  <1>3. \A i \in DOMAIN h : h[i].op \in {"put", "write_coord", "read_line", "view_startup"}
    BY <1>2 DEF Record
  <1>4. PICK t : t = <<>>
    OBVIOUS
  <1>5. /\ t \in Seq(Jobs) /\ DOMAIN t = {}
        /\ \A i \in DOMAIN t : t[i].op \in {"state", "init", "kept"}
        /\ \A i \in DOMAIN t : t[i].op = "init" => i = Len(t)
    BY <1>4, NothingAfter
  <1>6. todo' = h \o t
    BY <1>1, <1>2, <1>4, EmptyClose
  <1>7. promised'[CoordRegion(n)] = {} /\ n # coord_select
    BY InvalidCoord
  <1>8. \A m \in CoordIndices : Clear(h, CoordCells(m)) \/ promised'[CoordRegion(m)] = {}
    BY <1>2, <1>7
  <1>9. Clear(h, CoordCells(coord_select))
    BY <1>2, <1>7
  <1>10. \A r \in Regions : promised'[r] # {} => promised'[r] = promised[r]
    OBVIOUS
  <1> QED
    BY <1>2, <1>3, <1>5, <1>6, <1>8, <1>9, <1>10, ReadyRecords

LEMMA StoreCoordRecords ==
  ASSUME FlagsInv, RecordsInv, coord_select \in CoordIndices, coord_system \in Coordinates,
         NEW cmd \in Commands, StoreCoord(cmd)
  PROVE  RecordsInv'
PROOF
  <1>1. /\ Ready /\ cmd.op = "coord_data" /\ cmd.n \in CoordIndices /\ cmd.value \in Coordinates
        /\ UNCHANGED <<eeprom, settings, coord_select, coord_system, power>>
    BY CommandAssumption DEF StoreCoord, Send, Coordinates
  <1>2. CASE ~Valid(coord_addr(cmd.n), N_AXIS)
    <2>1. todo' = settings_write_coord_data(cmd.n, ZeroVector) /\ promised' = promised
      BY <1>2 DEF StoreCoord
    <2> QED
      BY <1>1, <1>2, <2>1, RepairRecords
  <1>3. CASE Valid(coord_addr(cmd.n), N_AXIS)
    <2>1. PICK n \in CoordIndices, data \in Coordinates : n = cmd.n /\ data = cmd.value
      BY <1>1
    <2>2. PICK h : h = settings_write_coord_data(n, data)
      OBVIOUS
    <2>3. /\ h \in Seq(Jobs) /\ Record(h) /\ Clear(h, GlobalCells)
          /\ \A m \in CoordIndices \ {n} : Clear(h, CoordCells(m))
      BY <2>2, CoordRecord, CoordClear
    <2>4. \A i \in DOMAIN h : h[i].op \in {"put", "write_coord", "read_line", "view_startup"}
      BY <2>3 DEF Record
    <2>5. PICK t : t = <<Kept(cmd)>>
      OBVIOUS
    <2>6. /\ t \in Seq(Jobs) /\ DOMAIN t = {1} /\ Len(t) = 1 /\ t # <<>>
          /\ t[1].op = "kept" /\ t[1].cmd = cmd
      BY <2>5, OneKept
    <2>7. todo' = h \o t /\ promised' = Withdrawn(Stores(cmd))
      BY <1>3, <2>1, <2>2, <2>5 DEF StoreCoord
    <2>8. CoordRegion(n) \in Stores(cmd)
      BY <1>1, <2>1 DEF Stores
    <2>9. /\ \A r \in Regions : promised'[r] # {} => promised'[r] = promised[r]
          /\ promised'[CoordRegion(n)] = {}
      BY <2>7, <2>8, RegionFacts, WithdrawnPromises
    <2>10. Underway(h)'
      BY <2>3, <2>6, <2>7, ClearOps, UnderwayFresh
    <2>11. CoordDue(n, data)'
      BY <2>2, <2>10 DEF CoordDue
    <2>12. /\ \A i \in DOMAIN t : t[i].op \in {"state", "init", "kept"}
           /\ \A i \in DOMAIN t : t[i].op = "init" => i = Len(t)
      BY <2>6
    <2>13. \A k \in DOMAIN t : t[k].op = "kept" =>
             /\ t[k].cmd.op = "coord_data" => CoordDue(t[k].cmd.n, t[k].cmd.value)'
             /\ Zeroed(t[k].cmd) => \A m \in CoordIndices : CoordDue(m, ZeroVector)'
      BY <1>1, <2>1, <2>6, <2>11 DEF Zeroed
    <2>14. \A m \in CoordIndices : Clear(h, CoordCells(m)) \/ promised'[CoordRegion(m)] = {}
      BY <2>3, <2>9
    <2>15. \/ /\ Clear(h, CoordCells(coord_select))
              /\ coord_select' = coord_select /\ coord_system' = coord_system
           \/ /\ t # <<>> /\ t[Len(t)].op = "kept"
              /\ t[Len(t)].cmd.op = "coord_data" /\ t[Len(t)].cmd.n = coord_select'
      BY <1>1, <2>1, <2>3, <2>6
    <2> QED
      BY <1>1, <2>3, <2>4, <2>6, <2>7, <2>9, <2>12, <2>13, <2>14, <2>15, ReadyRecords
  <1> QED
    BY <1>2, <1>3

LEMMA SelectCoordRecords ==
  ASSUME FlagsInv, RecordsInv, coord_select \in CoordIndices, coord_system \in Coordinates,
         NEW cmd \in Commands, SelectCoord(cmd)
  PROVE  RecordsInv'
PROOF
  <1>1. /\ Ready /\ cmd.op = "coord_select" /\ cmd.n \in CoordIndices
        /\ UNCHANGED <<eeprom, settings, power, promised>>
    BY CommandAssumption DEF SelectCoord
  <1>2. CASE ~Valid(coord_addr(cmd.n), N_AXIS)
    <2>1. /\ todo' = settings_write_coord_data(cmd.n, ZeroVector)
          /\ coord_select' = coord_select /\ coord_system' = coord_system
      BY <1>2 DEF SelectCoord
    <2> QED
      BY <1>1, <1>2, <2>1, RepairRecords
  <1>3. CASE Valid(coord_addr(cmd.n), N_AXIS)
    <2>1. PICK n, data : n \in CoordIndices /\ n = cmd.n /\ data = Data(coord_addr(n), N_AXIS)
      BY <1>1
    <2>2. todo' = <<>> /\ coord_select' = n /\ coord_system' = data
      BY <1>1, <1>3, <2>1 DEF SelectCoord, Ready
    <2>3. PICK h, t : h = <<>> /\ t = <<>>
      OBVIOUS
    <2>4. /\ h \in Seq(Jobs) /\ t \in Seq(Jobs) /\ DOMAIN h = {} /\ DOMAIN t = {}
          /\ todo' = h \o t /\ \A cells : Clear(h, cells)
          /\ \A i \in DOMAIN t : t[i].op = "init" => i = Len(t)
      BY <2>2, <2>3, ClearEmpty, EmptyClose
    <2>5. CoordDue(n, data)'
      <3>1. Clear(todo', CoordCells(n))
        BY <2>2, ClearEmpty
      <3>2. Held(settings_write_coord_data(n, data))'
        BY <1>1, <1>3, <2>1, <3>1, CoordReadsHeld
      <3> QED
        BY <3>2 DEF CoordDue
    <2>6. CoordDue(coord_select, coord_system)'
      BY <2>2, <2>5
    <2> QED
      BY <1>1, <2>4, <2>6, ReadyRecords
  <1> QED
    BY <1>2, <1>3

\* Jobs that touch neither the settings nor the coordinates.
LEMMA ApartRecords ==
  ASSUME FlagsInv, RecordsInv, coord_select \in CoordIndices, coord_system \in Coordinates,
         Ready, UNCHANGED <<eeprom, settings, coord_select, coord_system, power>>,
         NEW h \in Seq(Jobs),
         \A i \in DOMAIN h : h[i].op \in {"put", "read_line", "view_startup"},
         Clear(h, GlobalCells), \A n \in CoordIndices : Clear(h, CoordCells(n)),
         NEW t \in Seq(Jobs), \A i \in DOMAIN t : t[i].op \in {"init", "kept"} /\ i = Len(t),
         \A i \in DOMAIN t : t[i].op = "kept" =>
           ~Zeroed(t[i].cmd) /\ t[i].cmd.op # "coord_data",
         todo' = h \o t,
         \A r \in Regions : promised'[r] # {} => promised'[r] = promised[r]
  PROVE  RecordsInv'
PROOF
  <1>1. \A i \in DOMAIN h : h[i].op \in {"put", "write_coord", "read_line", "view_startup"}
    OBVIOUS
  <1>2. /\ \A i \in DOMAIN t : t[i].op \in {"state", "init", "kept"}
        /\ \A i \in DOMAIN t : t[i].op = "init" => i = Len(t)
    OBVIOUS
  <1>3. Clear(h, CoordCells(coord_select)) /\ coord_select' = coord_select
        /\ coord_system' = coord_system
    OBVIOUS
  <1> QED
    BY <1>1, <1>2, <1>3, ReadyRecords

LEMMA OtherRecords ==
  ASSUME FlagsInv, RecordsInv, coord_select \in CoordIndices, coord_system \in Coordinates,
         NEW cmd \in Commands, ~Stray(cmd),
         StoreText(cmd) \/ View(cmd) \/ Unlock(cmd) \/ SoftReset(cmd)
  PROVE  RecordsInv'
PROOF
  <1>1. Ready /\ UNCHANGED <<eeprom, settings, coord_select, coord_system, power>>
    BY DEF StoreText, View, Unlock, SoftReset, Send
  <1>2. CASE StoreText(cmd)
    <2>1. cmd.text \in [1 .. LINE_BUFFER_SIZE -> Bytes]
      BY <1>2, CommandAssumption DEF StoreText
    <2>2. cmd.op = "startup_line" => cmd.n \in LineIndices
      BY DEF Stray
    <2>3. PICK at \in TextAddresses :
            /\ cmd.op = "build_info" => at = EEPROM_ADDR_BUILD_INFO
            /\ cmd.op = "startup_line" => at = line_addr(cmd.n)
      BY <1>2, <2>2 DEF StoreText, TextAddresses
    <2>4. PICK h, t : h = memcpy_to_eeprom_with_checksum(at, cmd.text) /\ t = <<Kept(cmd)>>
      OBVIOUS
    <2>5. /\ h \in Seq(Jobs) /\ \A i \in DOMAIN h : h[i].op = "put"
          /\ Clear(h, GlobalCells) /\ \A n \in CoordIndices : Clear(h, CoordCells(n))
      BY <2>1, <2>4, TextClear
    <2>6. /\ t \in Seq(Jobs) /\ DOMAIN t = {1} /\ Len(t) = 1
          /\ t[1].op = "kept" /\ t[1].cmd = cmd
      BY <2>4, OneKept
    <2>7. todo' = h \o t
      <3>1. CASE cmd.op = "build_info"
        BY <1>2, <2>3, <2>4, <3>1 DEF StoreText, settings_store_build_info
      <3>2. CASE cmd.op = "startup_line"
        BY <1>2, <2>3, <2>4, <3>2 DEF StoreText, settings_store_startup_line
      <3> QED
        BY <1>2, <3>1, <3>2 DEF StoreText
    <2>8. \A r \in Regions : promised'[r] # {} => promised'[r] = promised[r]
      BY <1>2, WithdrawnPromises DEF StoreText
    <2>9. ~Zeroed(cmd) /\ cmd.op # "coord_data"
      BY <1>2 DEF StoreText, Zeroed
    <2>10. /\ \A i \in DOMAIN h : h[i].op \in {"put", "read_line", "view_startup"}
           /\ \A i \in DOMAIN t : t[i].op \in {"init", "kept"} /\ i = Len(t)
           /\ \A i \in DOMAIN t : t[i].op = "kept" =>
                ~Zeroed(t[i].cmd) /\ t[i].cmd.op # "coord_data"
      BY <2>5, <2>6, <2>9
    <2> QED
      BY <1>1, <2>5, <2>6, <2>7, <2>8, <2>10, ApartRecords
  <1>3. CASE View(cmd)
    <2>1. PICK job \in Jobs : job.op \in {"read_line", "view_startup"} /\ todo' = <<job>>
      <3>1. Job("view_startup") \in Jobs /\ Job("view_startup").op = "view_startup"
        BY DEF Job, Jobs
      <3>2. [op |-> "read_line", at |-> EEPROM_ADDR_BUILD_INFO] \in Jobs
        BY DEF Jobs
      <3>3. CASE cmd.op = "view_startup"
        <4>1. todo' = <<Job("view_startup")>>
          BY <1>3, <3>3 DEF View
        <4> QED
          BY <3>1, <4>1
      <3>4. CASE cmd.op = "view_build"
        <4>1. todo' = <<[op |-> "read_line", at |-> EEPROM_ADDR_BUILD_INFO]>>
          BY <1>3, <3>4 DEF View
        <4> QED
          BY <3>2, <4>1
      <3> QED
        BY <1>3, <3>3, <3>4 DEF View
    <2>2. PICK h, t : h = <<job>> /\ t = <<>>
      OBVIOUS
    <2>3. h \in Seq(Jobs) /\ DOMAIN h = {1} /\ h[1] = job
      BY <2>2
    <2>4. t \in Seq(Jobs) /\ DOMAIN t = {}
      BY <2>2, NothingAfter
    <2>5. todo' = h \o t
      BY <2>1, <2>2, <2>3, EmptyClose
    <2>6. \A cells : Clear(h, cells)
      BY <2>1, <2>3, ClearOps
    <2>7. promised' = promised
      BY <1>3 DEF View
    <2>8. /\ \A i \in DOMAIN h : h[i].op \in {"put", "read_line", "view_startup"}
          /\ \A i \in DOMAIN t : t[i].op \in {"init", "kept"} /\ i = Len(t)
          /\ \A i \in DOMAIN t : t[i].op = "kept" =>
               ~Zeroed(t[i].cmd) /\ t[i].cmd.op # "coord_data"
      BY <2>1, <2>3, <2>4
    <2> QED
      BY <1>1, <2>3, <2>4, <2>5, <2>6, <2>7, <2>8, ApartRecords
  <1>4. CASE Unlock(cmd)
    BY <1>1, <1>4, SameRecords DEF Unlock
  <1>5. CASE SoftReset(cmd)
    <2>1. PICK h, t : h = <<>> /\ t = Reset
      OBVIOUS
    <2>2. h \in Seq(Jobs) /\ DOMAIN h = {} /\ \A cells : Clear(h, cells)
      BY <2>1, ClearEmpty
    <2>3. t \in Seq(Jobs) /\ DOMAIN t = {1} /\ Len(t) = 1 /\ t[1].op = "init"
      BY <2>1 DEF Reset, Job, Jobs
    <2>4. h \o t = t
      BY <2>1, <2>3
    <2>5. todo' = h \o t /\ promised' = promised
      BY <1>5, <2>1, <2>4 DEF SoftReset
    <2>6. /\ \A i \in DOMAIN h : h[i].op \in {"put", "read_line", "view_startup"}
          /\ \A i \in DOMAIN t : t[i].op \in {"init", "kept"} /\ i = Len(t)
          /\ \A i \in DOMAIN t : t[i].op = "kept" =>
               ~Zeroed(t[i].cmd) /\ t[i].cmd.op # "coord_data"
      BY <2>2, <2>3
    <2> QED
      BY <1>1, <2>2, <2>3, <2>5, <2>6, ApartRecords
  <1> QED
    BY <1>2, <1>3, <1>4, <1>5

LEMMA CommandRecords ==
  ASSUME FlagsInv, RecordsInv, coord_select \in CoordIndices, coord_system \in Coordinates,
         NEW cmd \in Commands, ~Stray(cmd), Command(cmd)
  PROVE  RecordsInv'
PROOF
  BY SettingRecords, RestoreRecords, StoreCoordRecords, SelectCoordRecords, OtherRecords
  DEF Command

-----------------------------------------------------------------------------
\* Starts, and the supply.

LEMMA BootShape ==
  /\ Boot \in Seq(Jobs) /\ Len(Boot) = 3 /\ Boot # <<>> /\ DOMAIN Boot = 1 .. 3
  /\ Boot[1].op = "read_global" /\ Boot[2].op = "state" /\ Boot[3].op = "init"
  /\ \A i \in DOMAIN Boot : Boot[i].op \in {"read_global", "state", "init"}
  /\ \A i \in DOMAIN Boot : Boot[i].op = "init" => i = Len(Boot)
PROOF
  <1>1. PICK a, c, d : a = Job("read_global") /\ c = Job("state") /\ d = Job("init")
    OBVIOUS
  <1>2. /\ a \in Jobs /\ c \in Jobs /\ d \in Jobs
        /\ a.op = "read_global" /\ c.op = "state" /\ d.op = "init"
    BY <1>1 DEF Job, Jobs
  <1>3. Boot = <<a, c, d>>
    BY <1>1 DEF Boot
  <1>4. /\ Boot \in Seq(Jobs) /\ Len(Boot) = 3 /\ Boot # <<>> /\ DOMAIN Boot = 1 .. 3
        /\ Boot[1] = a /\ Boot[2] = c /\ Boot[3] = d
    BY <1>2, <1>3
  <1>5. \A i \in DOMAIN Boot : i = 1 \/ i = 2 \/ i = 3
    BY <1>4
  <1> QED
    BY <1>2, <1>4, <1>5

LEMMA ReadGlobalRecords ==
  ASSUME FlagsInv, RecordsInv, ReadGlobal
  PROVE  RecordsInv'
PROOF
  <1>1. /\ power /\ power' /\ todo \in Seq(Jobs) /\ todo # <<>>
        /\ Head(todo).op = "read_global" /\ eeprom' = eeprom
    BY DEF FlagsInv, ReadGlobal, Accesses, At
  <1>2. todo = Boot
    <2>1. Head(todo) = todo[1] /\ 1 \in DOMAIN todo
      BY <1>1
    <2> QED
      BY <1>1, <2>1 DEF RecordsInv, AgendaInv
  <1>3. PICK r : r = Tail(todo)
    OBVIOUS
  <1>4. /\ r \in Seq(Jobs) /\ Len(r) = 2 /\ DOMAIN r = 1 .. 2 /\ r # <<>>
        /\ r[1].op = "state" /\ r[2].op = "init"
    <2>1. PICK b : b = Boot
      OBVIOUS
    <2>2. /\ b \in Seq(Jobs) /\ Len(b) = 3 /\ b # <<>>
          /\ b[2].op = "state" /\ b[3].op = "init"
      BY <2>1, BootShape
    <2>3. /\ Tail(b) \in Seq(Jobs) /\ Len(Tail(b)) = Len(b) - 1
          /\ \A i \in 1 .. (Len(b) - 1) : Tail(b)[i] = b[i + 1]
      <3>1. b \in Seq(Jobs) /\ b # <<>>
        BY <2>2
      <3> QED
        BY <3>1, TailIndex
    <2>4. r = Tail(b)
      BY <1>2, <1>3, <2>1
    <2>5. r \in Seq(Jobs) /\ Len(r) = 2
      BY <2>2, <2>3, <2>4
    <2>6. r[1] = b[2] /\ r[2] = b[3]
      <3>1. 1 \in 1 .. (Len(b) - 1) /\ 2 \in 1 .. (Len(b) - 1)
        BY <2>2
      <3>2. Tail(b)[1] = b[2] /\ Tail(b)[2] = b[3]
        BY <2>3, <3>1
      <3> QED
        BY <2>4, <3>2
    <2>7. DOMAIN r = 1 .. 2
      BY <2>5
    <2>8. r # <<>>
      BY <2>5
    <2> QED
      BY <2>2, <2>5, <2>6, <2>7, <2>8
  <1>5. /\ r[Len(r)].op = "init" /\ StartJobs(r)
        /\ \A i \in DOMAIN r : r[i].op \in {"state", "init"}
        /\ \A i \in DOMAIN r : r[i].op = "init" => i = Len(r)
    <2>1. \A i \in DOMAIN r : i = 1 \/ i = 2
      BY <1>4
    <2>2. /\ r[Len(r)].op = "init"
          /\ \A i \in DOMAIN r : r[i].op \in {"state", "init"}
          /\ \A i \in DOMAIN r : r[i].op = "init" => i = Len(r)
      BY <1>4, <2>1
    <2> QED
      BY <1>4, <2>2 DEF StartJobs
  <1>6. CASE eeprom[0] = SETTINGS_VERSION /\ Valid(EEPROM_ADDR_GLOBAL, GLOBAL_SIZE)
    <2>1. PICK s : s = GlobalRecord(Data(EEPROM_ADDR_GLOBAL, GLOBAL_SIZE))
      OBVIOUS
    <2>2. settings' = s /\ todo' = r /\ promised' = promised
      BY <1>3, <1>6, <2>1 DEF ReadGlobal
    <2>3. \A cells : Clear(todo', cells)
      BY <1>5, <2>2, ClearOps
    <2>4. PICK h : h = <<>>
      OBVIOUS
    <2>5. h \in Seq(Jobs) /\ DOMAIN h = {} /\ todo' = h \o r
      BY <1>4, <2>2, <2>4
    <2>6. /\ AgendaInv' /\ todo' # <<>> /\ todo'[Len(todo')] = r[Len(r)]
      BY <1>1, <1>4, <1>5, <2>5, AgendaFresh
    <2>7. PromisesHeld'
      BY <1>1, <2>2, <2>3, PromisesFresh DEF RecordsInv
    <2>8. SettingsDue'
      <3>1. Held(write_global_settings(s))'
        BY <1>1, <1>6, <2>1, <2>3, GlobalReadsHeld
      <3> QED
        BY <2>2, <3>1 DEF SettingsDue
    <2>9. KeptDue'
      <3>1. \A i \in DOMAIN todo' : todo'[i].op # "kept"
        BY <1>5, <2>2
      <3> QED
        BY <3>1 DEF KeptDue
    <2>10. OffsetDue'
      BY <1>5, <2>6 DEF OffsetDue
    <2> QED
      BY <2>6, <2>7, <2>8, <2>9, <2>10 DEF RecordsInv
  <1>7. CASE ~(eeprom[0] = SETTINGS_VERSION /\ Valid(EEPROM_ADDR_GLOBAL, GLOBAL_SIZE))
    <2>1. PICK k, t, w : k = <<Kept(RestoreAll)>> /\ t = k \o r /\ w = settings_restore("*")
      OBVIOUS
    <2>2. /\ t \in Seq(Jobs) /\ t # <<>> /\ t[Len(t)].op = "init"
          /\ \A i \in DOMAIN t : t[i].op \in {"state", "init", "kept"}
          /\ \A i \in DOMAIN t : t[i].op = "init" => i = Len(t)
          /\ \A i \in DOMAIN t : t[i].op = "kept" => t[i].cmd = RestoreAll
      <3>1. k \in Seq(Jobs)
        BY <2>1, OneKept
      <3>2. StartJobs(r)
        BY <1>5
      <3>3. k = <<Kept(RestoreAll)>> /\ t = k \o r
        BY <2>1
      <3>4. /\ k \o r \in Seq(Jobs) /\ k \o r # <<>> /\ (k \o r)[Len(k \o r)].op = "init"
            /\ \A i \in DOMAIN (k \o r) : (k \o r)[i].op \in {"state", "init", "kept"}
            /\ \A i \in DOMAIN (k \o r) : (k \o r)[i].op = "init" => i = Len(k \o r)
            /\ \A i \in DOMAIN (k \o r) : (k \o r)[i].op = "kept" => (k \o r)[i].cmd = RestoreAll
        BY <3>1, <3>2, <3>3, KeptThenInit
      <3> QED
        BY <3>3, <3>4
    <2>3. todo' = w \o t /\ settings' = defaults /\ promised' = Withdrawn(Regions)
      <3>1. /\ todo' = (w \o k) \o r /\ settings' = defaults /\ promised' = Withdrawn(Regions)
        BY <1>3, <1>7, <2>1 DEF ReadGlobal
      <3>2. w \in Seq(Jobs) /\ k \in Seq(Jobs)
        BY <2>1, RestoreWrites, OneKept
      <3>3. (w \o k) \o r = w \o (k \o r)
        BY <1>4, <3>2, ConcatAssoc
      <3> QED
        BY <2>1, <3>1, <3>3
    <2>4. /\ \E h \in Seq(Jobs) :
                /\ \A i \in DOMAIN h : h[i].op \in {"put", "write_coord"}
                /\ todo' = h \o t
          /\ Underway(write_global_settings(defaults))'
          /\ \A n \in CoordIndices : Queued(n)'
      <3>1. PICK which \in {"$", "#", "*"} : which = "*"
        OBVIOUS
      <3>2. todo' = settings_restore(which) \o t
        BY <2>1, <2>3, <3>1
      <3>3. which # "#" /\ which # "$"
        BY <3>1
      <3> QED
        BY <2>2, <3>2, <3>3, RestoreAgenda
    <2>5. PICK h \in Seq(Jobs) :
            /\ \A i \in DOMAIN h : h[i].op \in {"put", "write_coord"}
            /\ todo' = h \o t
      BY <2>4
    <2>6. /\ AgendaInv'
          /\ \A i \in DOMAIN todo' : todo'[i].op = "kept" => \E j \in DOMAIN t : todo'[i] = t[j]
          /\ todo' # <<>> /\ todo'[Len(todo')] = t[Len(t)]
      BY <1>1, <2>2, <2>5, AgendaFresh
    <2>7. PromisesHeld'
      <3>1. \A q \in Regions : promised'[q] = {}
        BY <2>3, WithdrawnPromises
      <3> QED
        BY <3>1, RegionFacts DEF PromisesHeld
    <2>8. SettingsDue'
      BY <2>3, <2>4 DEF SettingsDue
    <2>9. KeptDue'
      <3>1. \A n \in CoordIndices : CoordDue(n, ZeroVector)'
        BY <2>4 DEF CoordDue
      <3>2. RestoreAll.op # "coord_data"
        BY DEF RestoreAll
      <3> QED
        BY <2>2, <2>6, <3>1, <3>2, FreshKept
    <2>10. OffsetDue'
      BY <2>2, <2>6 DEF OffsetDue
    <2> QED
      BY <2>6, <2>7, <2>8, <2>9, <2>10 DEF RecordsInv
  <1> QED
    BY <1>6, <1>7

LEMMA ReadInitRecords ==
  ASSUME FlagsInv, RecordsInv, coord_select \in CoordIndices, coord_system \in Coordinates,
         ReadInit
  PROVE  RecordsInv'
PROOF
  <1>1. /\ power /\ power' /\ todo \in Seq(Jobs) /\ todo # <<>> /\ Head(todo).op = "init"
        /\ UNCHANGED <<eeprom, settings, promised>>
    BY DEF FlagsInv, ReadInit, Accesses, At
  <1>2. Tail(todo) = <<>> /\ todo # Boot
    <2>1. Head(todo) = todo[1] /\ 1 \in DOMAIN todo
      BY <1>1
    <2>2. Len(todo) = 1
      BY <1>1, <2>1 DEF RecordsInv, AgendaInv
    <2>3. Tail(todo) \in Seq(Jobs) /\ Len(Tail(todo)) = 0
      BY <1>1, <2>2
    <2>4. Tail(todo) = <<>>
      <3>1. \A x \in Seq(Jobs) : Len(x) = 0 => x = <<>>
        OBVIOUS
      <3> QED
        BY <2>3, <3>1
    <2>5. Len(Boot) = 3
      BY BootShape
    <2> QED
      BY <2>2, <2>4, <2>5
  <1>3. PICK s \in SettingsRecords : s = settings /\ s.flags \in Flags
    BY DEF FlagsInv
  <1>4. Held(write_global_settings(s))
    <2>1. ~Underway(write_global_settings(s))
      BY <1>1, <1>3, GlobalRecordWrites, UnderwayHead
    <2> QED
      BY <1>1, <1>2, <1>3, <2>1 DEF RecordsInv, SettingsDue
  <1>5. PICK u \in Seq(Jobs) : /\ \A i \in DOMAIN u : u[i].op = "view_startup"
                               /\ u = IF locked THEN <<>> ELSE <<Job("view_startup")>>
    <2>1. <<>> \in Seq(Jobs) /\ DOMAIN <<>> = {}
      OBVIOUS
    <2>2. <<Job("view_startup")>> \in Seq(Jobs) /\ DOMAIN <<Job("view_startup")>> = {1}
          /\ <<Job("view_startup")>>[1].op = "view_startup"
      BY DEF Job, Jobs
    <2> QED
      BY <2>1, <2>2
  <1>6. \A cells : Clear(u, cells)
    BY <1>5, ClearOps
  <1>7. 0 \in CoordIndices
    BY LayoutAssumption DEF CoordIndices
  <1>8. PICK n \in CoordIndices : n = 0
    BY <1>7
  <1>9. PICK t : t = <<>>
    OBVIOUS
  <1>10. t \in Seq(Jobs) /\ DOMAIN t = {}
    BY <1>9, NothingAfter
  <1>11. ASSUME NEW h \in Seq(Jobs),
                \A i \in DOMAIN h : h[i].op \in {"put", "write_coord", "read_line", "view_startup"},
                todo' = h \o t, Clear(h, GlobalCells),
                \A m \in CoordIndices : Clear(h, CoordCells(m)) \/ promised'[CoordRegion(m)] = {},
                CoordDue(coord_select, coord_system)'
         PROVE  RecordsInv'
    <2>1. /\ todo' \in Seq(Jobs) /\ AgendaInv'
          /\ \A i \in DOMAIN todo' : todo'[i].op = "kept" => \E k \in DOMAIN t : todo'[i] = t[k]
      BY <1>1, <1>10, <1>11, AgendaFresh
    <2>2. todo' = h
      BY <1>9, <1>11, EmptyClose
    <2>3. PromisesHeld'
      BY <1>1, <1>11, <2>2, PromisesFresh DEF RecordsInv
    <2>4. SettingsDue'
      <3>1. RecordCells(write_global_settings(s)) = GlobalCells
        BY <1>3, GlobalRecordWrites
      <3>2. Held(write_global_settings(s))'
        BY <1>1, <1>4, <1>11, <2>2, <3>1, HeldFresh
      <3>3. settings' = s
        BY <1>1, <1>3
      <3> QED
        BY <3>2, <3>3 DEF SettingsDue
    <2>5. KeptDue'
      <3>1. \A i \in DOMAIN todo' : todo'[i].op # "kept"
        BY <1>10, <2>1
      <3> QED
        BY <3>1 DEF KeptDue
    <2>6. OffsetDue'
      BY <1>11 DEF OffsetDue
    <2> QED
      BY <2>1, <2>3, <2>4, <2>5, <2>6 DEF RecordsInv
  <1>12. CASE Valid(coord_addr(n), N_AXIS)
    <2>1. PICK data : data = Data(coord_addr(n), N_AXIS)
      OBVIOUS
    <2>2. coord_select' = n /\ coord_system' = data /\ todo' = <<>> \o u \o Tail(todo)
      BY <1>5, <1>8, <1>12, <2>1 DEF ReadInit
    <2>3. todo' = u \o t
      <3>1. <<>> \o u = u
        OBVIOUS
      <3> QED
        BY <1>2, <1>9, <2>2, <3>1
    <2>4. todo' = u
      BY <1>9, <2>3, EmptyClose
    <2>5. CoordDue(n, data)'
      <3>1. Clear(todo', CoordCells(n))
        BY <1>6, <2>4
      <3>2. Held(settings_write_coord_data(n, data))'
        BY <1>1, <1>12, <2>1, <3>1, CoordReadsHeld
      <3> QED
        BY <3>2 DEF CoordDue
    <2>6. CoordDue(coord_select, coord_system)'
      BY <2>2, <2>5
    <2>7. \A i \in DOMAIN u : u[i].op \in {"put", "write_coord", "read_line", "view_startup"}
      BY <1>5
    <2> QED
      BY <1>6, <1>11, <2>3, <2>6, <2>7
  <1>13. CASE ~Valid(coord_addr(n), N_AXIS)
    <2>1. PICK w : w = settings_write_coord_data(n, ZeroVector)
      OBVIOUS
    <2>2. /\ w \in Seq(Jobs) /\ Record(w) /\ RecordCells(w) = CoordCells(n)
          /\ Clear(w, GlobalCells)
          /\ \A m \in CoordIndices \ {n} : Clear(w, CoordCells(m))
      BY <2>1, CoordRecord, CoordClear, ZeroCoordinates
    <2>3. PICK h : h = w \o u
      OBVIOUS
    <2>4. /\ h \in Seq(Jobs) /\ Len(h) = Len(w) + Len(u)
          /\ \A i \in 1 .. Len(w) : h[i] = w[i]
          /\ \A i \in 1 .. Len(u) : h[Len(w) + i] = u[i]
      <3>1. w \in Seq(Jobs)
        BY <2>2
      <3> QED
        BY <2>3, <3>1, ConcatIndex
    <2>5. /\ coord_select' = n /\ coord_system' = ZeroVector /\ todo' = h \o t
      BY <1>2, <1>5, <1>8, <1>9, <1>13, <2>1, <2>3 DEF ReadInit
    <2>6. \A i \in DOMAIN h : h[i].op \in {"put", "write_coord", "read_line", "view_startup"}
      <3>1. /\ DOMAIN h = 1 .. Len(h) /\ DOMAIN w = 1 .. Len(w) /\ DOMAIN u = 1 .. Len(u)
            /\ Len(w) \in Nat /\ Len(u) \in Nat
        BY <2>2, <2>4
      <3>2. \A i \in DOMAIN w : w[i].op = "put"
        BY <2>2 DEF Record
      <3>3. ASSUME NEW i \in DOMAIN h, i \notin DOMAIN w
            PROVE  h[i].op = "view_startup"
        <4>1. i - Len(w) \in 1 .. Len(u) /\ i = Len(w) + (i - Len(w))
          BY <2>4, <3>1, <3>3
        <4>2. h[i] = u[i - Len(w)]
          BY <2>4, <4>1
        <4> QED
          BY <1>5, <3>1, <4>1, <4>2
      <3> QED
        BY <2>4, <3>1, <3>2, <3>3
    <2>7. Clear(h, GlobalCells) /\ \A m \in CoordIndices \ {n} : Clear(h, CoordCells(m))
      BY <1>6, <2>2, <2>3, ClearConcat
    <2>8. promised'[CoordRegion(n)] = {}
      BY <1>1, <1>13, InvalidCoord
    <2>9. CoordDue(coord_select, coord_system)'
      <3>1. todo' = w \o u
        BY <1>9, <2>3, <2>4, <2>5, EmptyClose
      <3>2. Underway(w)'
        BY <1>6, <2>2, <3>1, UnderwayFresh
      <3> QED
        BY <2>1, <2>5, <3>2 DEF CoordDue
    <2>10. \A m \in CoordIndices : Clear(h, CoordCells(m)) \/ promised'[CoordRegion(m)] = {}
      BY <2>7, <2>8
    <2> QED
      BY <1>11, <2>4, <2>5, <2>6, <2>7, <2>9, <2>10
  <1> QED
    BY <1>12, <1>13

LEMMA PowerRecords ==
  ASSUME FlagsInv, RecordsInv, PowerLoss \/ PowerUp \/ Programmed
  PROVE  RecordsInv'
PROOF
  <1>1. CASE PowerLoss
    <2>1. todo' = <<>> /\ ~power' /\ DOMAIN todo' = {} /\ promised' = Withdrawn(Disturbed)
      BY <1>1 DEF PowerLoss
    <2>2. ASSUME NEW writes, Held(writes),
                 NEW r \in Regions, promised'[r] # {},
                 RecordCells(writes) \subseteq Start(r) .. (Start(r) + Size(r) - 1)
          PROVE  Held(writes)'
      <3>1. r \notin Disturbed
        BY <2>1, <2>2, WithdrawnPromises
      <3>2. \A a \in RecordCells(writes) : eeprom'[a] = eeprom[a]
        <4>1. CASE busy = {}
          BY <1>1, <4>1 DEF PowerLoss
        <4>2. CASE busy # {}
          <5>1. PICK b \in busy, left \in Bytes : eeprom' = [eeprom EXCEPT ![b.at] = left]
            BY <1>1, <4>2 DEF PowerLoss
          <5>2. b.at \notin RecordCells(writes)
            BY <2>2, <3>1, <5>1 DEF Disturbed
          <5> QED
            BY <5>1, <5>2 DEF FlagsInv
        <4> QED
          BY <4>1, <4>2
      <3>3. \A i \in DOMAIN writes : eeprom'[writes[i].at] = writes[i].byte
        BY <2>2, <3>2 DEF Held, RecordCells
      <3>4. Clear(todo', RecordCells(writes))
        BY <2>1, ClearEmpty
      <3> QED
        BY <3>3, <3>4 DEF Held
    <2>3. GlobalCells \subseteq Start(Globals) .. (Start(Globals) + Size(Globals) - 1)
      <3>1. Start(Globals) = 0 /\ Size(Globals) = EEPROM_ADDR_GLOBAL + GLOBAL_SIZE + 1
        <4>1. Globals # BuildInfo /\ Globals[1] = "globals"
          BY DEF Globals, BuildInfo
        <4> QED
          BY <4>1 DEF Start, Size
      <3>2. /\ EEPROM_ADDR_GLOBAL \in Nat /\ GLOBAL_SIZE = 3
        BY LayoutAssumption DEF GLOBAL_SIZE
      <3>3. Start(Globals) + Size(Globals) - 1 = EEPROM_ADDR_GLOBAL + GLOBAL_SIZE
        BY <3>1, <3>2
      <3>4. GlobalCells \subseteq 0 .. (EEPROM_ADDR_GLOBAL + GLOBAL_SIZE)
        BY <3>2 DEF GlobalCells
      <3> QED
        BY <3>1, <3>3, <3>4
    <2>4. ASSUME NEW n \in CoordIndices
          PROVE  CoordCells(n) = Start(CoordRegion(n))
                                   .. (Start(CoordRegion(n)) + Size(CoordRegion(n)) - 1)
      <3>1. CoordRegion(n) # BuildInfo /\ CoordRegion(n) # Globals
        BY RegionFacts DEF CoordRegion, BuildInfo
      <3>2. Start(CoordRegion(n)) = coord_addr(n) /\ Size(CoordRegion(n)) = N_AXIS + 1
        BY <3>1, RegionFacts DEF Start, Size
      <3>3. coord_addr(n) \in Nat /\ N_AXIS \in Nat
        BY CoordAddress, LayoutAssumption
      <3>4. CoordCells(n) = coord_addr(n) .. (coord_addr(n) + N_AXIS)
        <4>1. ASSUME NEW a \in coord_addr(n) .. (coord_addr(n) + N_AXIS)
              PROVE  a \in CoordCells(n)
          <5>1. a - coord_addr(n) \in 0 .. N_AXIS /\ a = coord_addr(n) + (a - coord_addr(n))
            BY <3>3
          <5> QED
            BY <5>1 DEF CoordCells
        <4>2. ASSUME NEW a \in CoordCells(n)
              PROVE  a \in coord_addr(n) .. (coord_addr(n) + N_AXIS)
          BY <3>3 DEF CoordCells
        <4> QED
          BY <4>1, <4>2
      <3> QED
        BY <3>2, <3>3, <3>4
    <2>5. ASSUME NEW v \in promised'[Globals]
          PROVE  \E s \in SettingsRecords :
                   s.flags \in Flags /\ v = GlobalBytes(s) /\ Held(write_global_settings(s))'
      <3>1. v \in promised[Globals]
        BY <2>1, RegionFacts, WithdrawnPromises
      <3>2. PICK s \in SettingsRecords :
              s.flags \in Flags /\ v = GlobalBytes(s) /\ Held(write_global_settings(s))
        BY <3>1 DEF RecordsInv, PromisesHeld
      <3>3. RecordCells(write_global_settings(s)) = GlobalCells
        BY <3>2, GlobalRecordWrites
      <3>4. Held(write_global_settings(s))'
        BY <2>2, <2>3, <2>5, <3>2, <3>3, RegionFacts
      <3> QED
        BY <3>2, <3>4
    <2>6. ASSUME NEW n \in CoordIndices, NEW v \in promised'[CoordRegion(n)]
          PROVE  v \in Coordinates /\ Held(settings_write_coord_data(n, v))'
      <3>1. v \in promised[CoordRegion(n)]
        BY <2>1, RegionFacts, WithdrawnPromises
      <3>2. v \in Coordinates /\ Held(settings_write_coord_data(n, v))
        BY <3>1 DEF RecordsInv, PromisesHeld
      <3>3. RecordCells(settings_write_coord_data(n, v)) = CoordCells(n)
        BY <3>2, CoordRecord
      <3>4. CoordRegion(n) \in Regions /\ promised'[CoordRegion(n)] # {}
        BY <2>6, RegionFacts
      <3> QED
        BY <2>2, <2>4, <3>2, <3>3, <3>4
    <2>7. PromisesHeld'
      BY <2>5, <2>6 DEF PromisesHeld
    <2> QED
      BY <2>1, <2>7 DEF RecordsInv, AgendaInv, SettingsDue, KeptDue, OffsetDue
  <1>2. CASE PowerUp
    <2>1. /\ todo' = Boot /\ power' /\ eeprom' = eeprom /\ promised' = promised
      BY <1>2 DEF PowerUp
    <2>2. \A cells : Clear(todo', cells)
      BY <2>1, BootShape, ClearOps
    <2>3. AgendaInv'
      BY <2>1, BootShape DEF AgendaInv
    <2>4. PromisesHeld'
      BY <2>1, <2>2, PromisesFresh DEF RecordsInv
    <2>5. SettingsDue'
      BY <2>1 DEF SettingsDue
    <2>6. KeptDue'
      BY <2>1, BootShape DEF KeptDue
    <2>7. OffsetDue'
      BY <2>1, BootShape DEF OffsetDue
    <2> QED
      BY <2>3, <2>4, <2>5, <2>6, <2>7 DEF RecordsInv
  <1>3. CASE Programmed
    BY <1>3, SameRecords DEF Programmed
  <1> QED
    BY <1>1, <1>2, <1>3

LEMMA InitRecords ==
  ASSUME Init
  PROVE  RecordsInv
PROOF
  <1>1. todo = Boot /\ power /\ \A r \in Regions : promised[r] = {}
    BY DEF Init
  <1>2. AgendaInv
    BY <1>1, BootShape DEF AgendaInv
  <1>3. PromisesHeld
    BY <1>1, RegionFacts DEF PromisesHeld
  <1>4. SettingsDue
    BY <1>1 DEF SettingsDue
  <1>5. KeptDue
    BY <1>1, BootShape DEF KeptDue
  <1>6. OffsetDue
    BY <1>1, BootShape DEF OffsetDue
  <1> QED
    BY <1>2, <1>3, <1>4, <1>5, <1>6 DEF RecordsInv

LEMMA DataCoordinates ==
  ASSUME eeprom \in [Addresses -> Bytes], NEW n \in CoordIndices
  PROVE  Data(coord_addr(n), N_AXIS) \in Coordinates
PROOF
  <1>1. coord_addr(n) \in Nat /\ N_AXIS \in Nat
    BY CoordAddress, LayoutAssumption
  <1>2. ASSUME NEW i \in 1 .. N_AXIS
        PROVE  eeprom[coord_addr(n) + i - 1] \in Bytes
    <2>1. i - 1 \in 0 .. N_AXIS /\ coord_addr(n) + i - 1 = coord_addr(n) + (i - 1)
      BY <1>1
    <2>2. coord_addr(n) + (i - 1) \in Behind
      BY <2>1, LayoutAssumption
    <2>3. coord_addr(n) + i - 1 \in Addresses
      BY <2>1, <2>2, LayoutAssumption DEF Behind, Addresses, GLOBAL_SIZE
    <2> QED
      BY <2>3
  <1> QED
    BY <1>2 DEF Data, Coordinates

-----------------------------------------------------------------------------
\* Types, which last whatever is stored where.

AnyJobs == [op : {"put"}, at : Nat, byte : Bytes] \cup Jobs

StoredTypes ==
  /\ eeprom \in [Addresses -> Bytes]
  /\ busy \subseteq [at : Addresses, old : Bytes]
  /\ settings \in SettingsRecords
  /\ todo \in Seq(AnyJobs)

\* What TypeOK says beside that.
Scalars ==
  /\ \A b, c \in busy : b = c
  /\ coord_select \in CoordIndices /\ coord_system \in Coordinates
  /\ locked \in BOOLEAN /\ power \in BOOLEAN /\ strayed \in BOOLEAN
  /\ sent \in 0 .. MaxCommands /\ losses \in 0 .. MaxLosses

LEMMA JobsAny == ASSUME NEW s \in Seq(Jobs) PROVE s \in Seq(AnyJobs)
PROOF
  <1>1. \A i \in 1 .. Len(s) : s[i] \in AnyJobs
    BY DEF AnyJobs
  <1> QED
    BY <1>1

LEMMA ConcatAny ==
  ASSUME NEW s \in Seq(AnyJobs), NEW t \in Seq(AnyJobs)
  PROVE  s \o t \in Seq(AnyJobs)
OBVIOUS

LEMMA RestAny ==
  ASSUME todo \in Seq(AnyJobs), todo # <<>>
  PROVE  /\ Tail(todo) \in Seq(AnyJobs) /\ Head(todo) \in AnyJobs
         /\ Head(todo).op # "put" => Head(todo) \in Jobs
PROOF
  <1>1. Tail(todo) \in Seq(AnyJobs) /\ Head(todo) \in AnyJobs
    OBVIOUS
  <1> QED
    BY <1>1 DEF AnyJobs

\* Records of whole bytes, wherever they go.
LEMMA AnyWrites ==
  ASSUME NEW at \in Nat, NEW size \in Nat, NEW data \in [1 .. size -> Bytes]
  PROVE  memcpy_to_eeprom_with_checksum(at, data) \in Seq(AnyJobs)
PROOF
  <1>1. data \in Seq(Bytes) /\ Len(data) = size
    OBVIOUS
  <1>2. Checksum(data) \in Bytes
    BY DEF Checksum, Byte, Bytes
  <1>3. ASSUME NEW i \in 1 .. (size + 1)
        PROVE  Put(at + i - 1, IF i <= size THEN data[i] ELSE Checksum(data)) \in AnyJobs
    BY <1>2 DEF Put, AnyJobs
  <1> QED
    BY <1>1, <1>3 DEF memcpy_to_eeprom_with_checksum

LEMMA AnyGlobalWrites ==
  ASSUME NEW s \in SettingsRecords
  PROVE  write_global_settings(s) \in Seq(AnyJobs)
PROOF
  <1>1. GlobalBytes(s) \in [1 .. 3 -> Bytes]
    BY DEF GlobalBytes, SettingsRecords
  <1>2. memcpy_to_eeprom_with_checksum(EEPROM_ADDR_GLOBAL, GlobalBytes(s)) \in Seq(AnyJobs)
    BY <1>1, AnyWrites, LayoutAssumption
  <1>3. <<Put(0, SETTINGS_VERSION)>> \in Seq(AnyJobs)
    BY SettingsAssumption DEF Put, AnyJobs
  <1> QED
    BY <1>2, <1>3, ConcatAny DEF write_global_settings

\* The text of a startup line of any number.
LEMMA AnyLineWrites ==
  ASSUME NEW n \in Nat, NEW data \in [1 .. LINE_BUFFER_SIZE -> Bytes]
  PROVE  settings_store_startup_line(n, data) \in Seq(AnyJobs)
PROOF
  <1>1. n * (LINE_BUFFER_SIZE + 1) \in Nat
    BY Product, LayoutAssumption
  <1>2. line_addr(n) \in Nat
    BY <1>1, LayoutAssumption DEF line_addr
  <1> QED
    BY <1>2, AnyWrites, LayoutAssumption DEF settings_store_startup_line

LEMMA TypesMain ==
  ASSUME StoredTypes, MainStep
  PROVE  StoredTypes'
PROOF
  <1> USE DEF StoredTypes
  <1>1. /\ todo # <<>> /\ Tail(todo) \in Seq(AnyJobs) /\ Head(todo) \in AnyJobs
        /\ Head(todo).op # "put" => Head(todo) \in Jobs
    <2>1. todo # <<>>
      BY DEF MainStep, PutChar, ReadGlobal, InitialState, ReadInit, ReadLine, ViewStartup,
             WriteCoord, EndCommand, Accesses, At
    <2> QED
      BY <2>1, RestAny
  <1>2. CASE PutChar
    <2>1. Head(todo).op = "put"
      BY <1>2 DEF PutChar, Accesses, At
    <2>2. Head(todo).at \in Nat /\ Head(todo).byte \in Bytes
      <3>1. CASE Head(todo) \in Jobs
        <4>1. Head(todo) \in Puts
          BY <2>1, <3>1 DEF Jobs
        <4> QED
          BY <4>1 DEF Puts, Addresses
      <3>2. CASE Head(todo) \notin Jobs
        BY <1>1, <3>2 DEF AnyJobs
      <3> QED
        BY <3>1, <3>2
    <2>3. PICK a \in Addresses : a = Cell(Head(todo).at)
      BY <2>2, CellFacts
    <2>4. eeprom' \in [Addresses -> Bytes]
      BY <1>2, <2>2, <2>3 DEF PutChar
    <2>5. busy' \subseteq [at : Addresses, old : Bytes]
      BY <1>2, <2>2, <2>3 DEF PutChar, Accesses
    <2> QED
      BY <1>1, <1>2, <2>4, <2>5 DEF PutChar
  <1>3. CASE ReadGlobal
    <2>1. GlobalRecord(Data(EEPROM_ADDR_GLOBAL, GLOBAL_SIZE)) \in SettingsRecords
      <3>1. /\ EEPROM_ADDR_GLOBAL \in Addresses /\ EEPROM_ADDR_GLOBAL + 1 \in Addresses
            /\ EEPROM_ADDR_GLOBAL + 2 \in Addresses
        BY LayoutAssumption, SizeAssumption DEF Addresses, GLOBAL_SIZE
      <3> QED
        BY <3>1, LayoutAssumption DEF GlobalRecord, Data, GLOBAL_SIZE, SettingsRecords
    <2>2. settings_restore("*") \o <<Kept(RestoreAll)>> \o Tail(todo) \in Seq(AnyJobs)
      <3>1. <<Kept(RestoreAll)>> \in Seq(Jobs)
        BY DEF Kept, Jobs
      <3>2. settings_restore("*") \in Seq(Jobs)
        BY RestoreWrites
      <3> QED
        BY <1>1, <3>1, <3>2, JobsAny, ConcatAny
    <2> QED
      BY <1>1, <1>3, <2>1, <2>2, SettingsAssumption DEF ReadGlobal
  <1>4. CASE InitialState
    BY <1>1, <1>4 DEF InitialState
  <1>5. CASE ReadInit
    <2>1. <<>> \in Seq(AnyJobs) /\ <<Job("view_startup")>> \in Seq(Jobs)
      BY DEF Job, Jobs
    <2>2. PICK repair \in Seq(AnyJobs), startup \in Seq(AnyJobs) :
            todo' = repair \o startup \o Tail(todo)
      <3>1. 0 \in CoordIndices /\ ZeroVector \in Coordinates
        BY ZeroCoordinates, LayoutAssumption DEF CoordIndices
      <3>2. settings_write_coord_data(0, ZeroVector) \in Seq(Jobs)
        BY <3>1, CoordWrites DEF Coordinates
      <3>3. settings_write_coord_data(0, ZeroVector) \in Seq(AnyJobs)
            /\ <<Job("view_startup")>> \in Seq(AnyJobs)
        BY <2>1, <3>2, JobsAny
      <3>4. CASE Valid(coord_addr(0), N_AXIS)
        <4>1. todo' = <<>> \o (IF locked THEN <<>> ELSE <<Job("view_startup")>>) \o Tail(todo)
          BY <1>5, <3>4 DEF ReadInit
        <4> QED
          BY <2>1, <3>3, <4>1
      <3>5. CASE ~Valid(coord_addr(0), N_AXIS)
        <4>1. todo' = settings_write_coord_data(0, ZeroVector)
                        \o (IF locked THEN <<>> ELSE <<Job("view_startup")>>) \o Tail(todo)
          BY <1>5, <3>5 DEF ReadInit
        <4> QED
          BY <2>1, <3>3, <4>1
      <3> QED
        BY <3>4, <3>5
    <2>3. todo' \in Seq(AnyJobs)
      BY <1>1, <2>2, ConcatAny
    <2> QED
      BY <1>5, <2>3 DEF ReadInit
  <1>6. CASE ReadLine
    <2>1. Head(todo) \in Jobs /\ Head(todo).op = "read_line"
      BY <1>1, <1>6 DEF ReadLine, Accesses, At
    <2>2. PICK at \in TextAddresses : at = Head(todo).at
      BY <2>1 DEF Jobs, Puts, TextAddresses
    <2>3. at \in Nat /\ \A i \in 0 .. LINE_BUFFER_SIZE : at + i \in Addresses
      BY TextAddress, LayoutAssumption DEF Behind, Addresses, GLOBAL_SIZE
    <2>4. Data(at, LINE_BUFFER_SIZE) \in [1 .. LINE_BUFFER_SIZE -> Bytes]
      <3>1. ASSUME NEW i \in 1 .. LINE_BUFFER_SIZE
            PROVE  eeprom[at + i - 1] \in Bytes
        <4>1. i - 1 \in 0 .. LINE_BUFFER_SIZE /\ at + (i - 1) = at + i - 1
          BY <2>3, LayoutAssumption
        <4> QED
          BY <2>3, <4>1
      <3> QED
        BY <3>1 DEF Data
    <2>5. EmptyLine(Data(at, LINE_BUFFER_SIZE)) \in [1 .. LINE_BUFFER_SIZE -> Bytes]
      BY <2>4, ErasedFlags DEF EmptyLine
    <2>6. memcpy_to_eeprom_with_checksum(at, EmptyLine(Data(at, LINE_BUFFER_SIZE)))
            \in Seq(AnyJobs)
      BY <2>3, <2>5, AnyWrites, LayoutAssumption
    <2>7. todo' \in Seq(AnyJobs)
      <3>1. todo' = IF Valid(at, LINE_BUFFER_SIZE) THEN Tail(todo)
                    ELSE memcpy_to_eeprom_with_checksum(
                           at, EmptyLine(Data(at, LINE_BUFFER_SIZE))) \o Tail(todo)
        BY <1>6, <2>2 DEF ReadLine
      <3> QED
        BY <1>1, <2>6, <3>1, ConcatAny
    <2> QED
      BY <1>6, <2>7 DEF ReadLine
  <1>7. CASE ViewStartup
    <2>1. [i \in 1 .. N_STARTUP_LINE |-> [op |-> "read_line", at |-> line_addr(i - 1)]]
            \in Seq(AnyJobs)
      <3>1. \A i \in 1 .. N_STARTUP_LINE :
              [op |-> "read_line", at |-> line_addr(i - 1)] \in Jobs
        BY LayoutAssumption DEF LineIndices, Jobs
      <3> QED
        BY <3>1, LayoutAssumption DEF AnyJobs
    <2>2. todo' \in Seq(AnyJobs)
      BY <1>1, <1>7, <2>1, ConcatAny DEF ViewStartup
    <2> QED
      BY <1>7, <2>2 DEF ViewStartup
  <1>8. CASE WriteCoord
    <2>1. Head(todo) \in Jobs /\ Head(todo).op = "write_coord"
      BY <1>1, <1>8 DEF WriteCoord, At
    <2>2. Head(todo).n \in CoordIndices
      BY <2>1 DEF Jobs, Puts
    <2>3. settings_write_coord_data(Head(todo).n, ZeroVector) \in Seq(Jobs)
      BY <2>2, CoordWrites, ErasedFlags DEF ZeroVector
    <2>4. todo' \in Seq(AnyJobs)
      BY <1>1, <1>8, <2>3, JobsAny, ConcatAny DEF WriteCoord
    <2> QED
      BY <1>8, <2>4 DEF WriteCoord
  <1>9. CASE EndCommand
    BY <1>1, <1>9 DEF EndCommand
  <1> QED
    BY <1>2, <1>3, <1>4, <1>5, <1>6, <1>7, <1>8, <1>9 DEF MainStep

LEMMA TypesCommand ==
  ASSUME StoredTypes, NEW cmd \in Commands, Command(cmd)
  PROVE  StoredTypes'
PROOF
  <1> USE DEF StoredTypes
  <1>1. <<Kept(cmd)>> \in Seq(Jobs) /\ Reset \in Seq(Jobs)
    BY DEF Kept, Reset, Job, Jobs
  <1>2. <<Kept(cmd)>> \in Seq(AnyJobs) /\ Reset \in Seq(AnyJobs)
    BY <1>1, JobsAny
  <1>3. CASE StoreSetting(cmd)
    <2>1. CASE Refused(cmd)
      BY <1>3, <2>1 DEF StoreSetting, Send
    <2>2. CASE ~Refused(cmd)
      <3>1. cmd.value \in Bytes
        BY <1>3, CommandAssumption DEF StoreSetting
      <3>2. FlagsAfter(cmd) \in Bytes
        <4>1. settings.flags \in Bytes
          BY DEF SettingsRecords
        <4> QED
          BY <4>1, SettingsAssumption DEF FlagsAfter, Bytes
      <3>3. SettingsAfter(cmd) \in SettingsRecords
        BY <3>1, <3>2 DEF SettingsAfter, SettingsRecords
      <3>4. write_global_settings(SettingsAfter(cmd)) \o <<Kept(cmd)>> \in Seq(AnyJobs)
        BY <1>2, <3>3, AnyGlobalWrites, ConcatAny
      <3> QED
        BY <1>3, <2>2, <3>3, <3>4 DEF StoreSetting, Send
    <2> QED
      BY <2>1, <2>2
  <1>4. CASE Restore(cmd)
    <2>1. cmd.which \in {"$", "#", "*"}
      BY <1>4, CommandAssumption DEF Restore
    <2>2. settings_restore(cmd.which) \in Seq(AnyJobs)
      BY <2>1, RestoreWrites, JobsAny
    <2>3. settings_restore(cmd.which) \o <<Kept(cmd)>> \o Reset \in Seq(AnyJobs)
      BY <1>2, <2>2, ConcatAny
    <2> QED
      BY <1>4, <2>3, SettingsAssumption DEF Restore, Send
  <1>5. CASE StoreCoord(cmd)
    <2>1. cmd.n \in CoordIndices /\ cmd.value \in [1 .. N_AXIS -> Bytes]
      BY <1>5, CommandAssumption DEF StoreCoord
    <2>2. /\ settings_write_coord_data(cmd.n, cmd.value) \in Seq(AnyJobs)
          /\ settings_write_coord_data(cmd.n, ZeroVector) \in Seq(AnyJobs)
      BY <2>1, CoordWrites, JobsAny, ErasedFlags DEF ZeroVector
    <2>3. todo' \in Seq(AnyJobs)
      BY <1>2, <1>5, <2>2, ConcatAny DEF StoreCoord
    <2> QED
      BY <1>5, <2>3 DEF StoreCoord, Send
  <1>6. CASE SelectCoord(cmd)
    <2>1. cmd.n \in CoordIndices
      BY <1>6, CommandAssumption DEF SelectCoord
    <2>2. settings_write_coord_data(cmd.n, ZeroVector) \in Seq(AnyJobs)
      BY <2>1, CoordWrites, JobsAny, ErasedFlags DEF ZeroVector
    <2> QED
      BY <1>6, <2>2 DEF SelectCoord
  <1>7. CASE StoreText(cmd)
    <2>1. /\ cmd.text \in [1 .. LINE_BUFFER_SIZE -> Bytes]
          /\ cmd.op = "startup_line" => cmd.n \in Nat
      BY <1>7, CommandAssumption DEF StoreText
    <2>2. settings_store_build_info(cmd.text) \in Seq(AnyJobs)
      BY <2>1, AnyWrites, LayoutAssumption DEF settings_store_build_info
    <2>3. cmd.op = "startup_line" =>
            settings_store_startup_line(cmd.n, cmd.text) \in Seq(AnyJobs)
      BY <2>1, AnyLineWrites
    <2>4. todo' \in Seq(AnyJobs)
      <3>1. CASE cmd.op = "build_info"
        BY <1>2, <1>7, <2>2, <3>1, ConcatAny DEF StoreText
      <3>2. CASE cmd.op = "startup_line"
        BY <1>2, <1>7, <2>3, <3>2, ConcatAny DEF StoreText
      <3> QED
        BY <1>7, <3>1, <3>2 DEF StoreText
    <2> QED
      BY <1>7, <2>4 DEF StoreText, Send
  <1>8. CASE View(cmd)
    <2>1. <<Job("view_startup")>> \in Seq(Jobs)
      BY DEF Job, Jobs
    <2>2. <<[op |-> "read_line", at |-> EEPROM_ADDR_BUILD_INFO]>> \in Seq(Jobs)
      BY DEF Jobs
    <2>3. todo' \in Seq(AnyJobs)
      BY <1>8, <2>1, <2>2, JobsAny DEF View
    <2> QED
      BY <1>8, <2>3 DEF View, Send
  <1>9. CASE Unlock(cmd)
    BY <1>9 DEF Unlock, Send
  <1>10. CASE SoftReset(cmd)
    BY <1>2, <1>10 DEF SoftReset, Send
  <1> QED
    BY <1>3, <1>4, <1>5, <1>6, <1>7, <1>8, <1>9, <1>10 DEF Command

LEMMA TypesPower ==
  ASSUME StoredTypes, PowerLoss \/ PowerUp \/ Programmed
  PROVE  StoredTypes'
PROOF
  <1> USE DEF StoredTypes
  <1>1. <<>> \in Seq(AnyJobs) /\ Boot \in Seq(AnyJobs)
    BY BootShape, JobsAny
  <1>2. CASE PowerLoss
    <2>1. eeprom' \in [Addresses -> Bytes]
      BY <1>2 DEF PowerLoss
    <2> QED
      BY <1>1, <1>2, <2>1 DEF PowerLoss
  <1>3. CASE PowerUp
    BY <1>1, <1>3, ErasedFlags DEF PowerUp, SettingsRecords
  <1>4. CASE Programmed
    BY <1>4 DEF Programmed
  <1> QED
    BY <1>2, <1>3, <1>4

TypesInv == StoredTypes /\ Scalars

LEMMA TypesStep ==
  ASSUME TypesInv, [Next]_vars
  PROVE  TypesInv'
PROOF
  <1>1. StoredTypes /\ Scalars /\ MaxCommands \in Nat /\ MaxLosses \in Nat
    BY BoundAssumption DEF TypesInv
  <1>2. StoredTypes'
    <2>1. ASSUME UNCHANGED vars
          PROVE  StoredTypes'
      BY <1>1, <2>1 DEF StoredTypes, vars
    <2> QED
      BY <1>1, <2>1, TypesMain, TypesCommand, TypesPower DEF Next
  <1>3. ZeroVector \in Coordinates /\ 0 \in CoordIndices
    BY ZeroCoordinates, LayoutAssumption DEF CoordIndices
  <1>4. Scalars'
    <2>1. CASE UNCHANGED vars
      BY <1>1, <2>1 DEF vars, Scalars
    <2>2. CASE PutChar
      BY <1>1, <2>2 DEF PutChar, Accesses, Scalars
    <2>3. CASE ReadGlobal
      BY <1>1, <2>3 DEF ReadGlobal, Scalars
    <2>4. CASE InitialState
      BY <1>1, <2>4 DEF InitialState, Scalars
    <2>5. CASE ReadInit
      BY <1>1, <1>3, <2>5, DataCoordinates DEF ReadInit, Scalars, StoredTypes
    <2>6. CASE ReadLine
      BY <1>1, <2>6 DEF ReadLine, Scalars
    <2>7. CASE ViewStartup
      BY <1>1, <2>7 DEF ViewStartup, Scalars
    <2>8. CASE WriteCoord
      BY <1>1, <2>8 DEF WriteCoord, Scalars
    <2>9. CASE EndCommand
      <3>1. Head(todo) \in Jobs /\ Head(todo).op = "kept"
        BY <1>1, <2>9, RestAny DEF EndCommand, At, StoredTypes
      <3>2. Adopted(Head(todo).cmd) => Head(todo).cmd.value \in Coordinates
        BY <3>1, KeptCommand DEF Adopted
      <3>3. coord_system' \in Coordinates
        BY <1>1, <2>9, <3>2 DEF EndCommand, Scalars
      <3> QED
        BY <1>1, <2>9, <3>3 DEF EndCommand, Scalars
    <2>10. CASE Programmed
      BY <1>1, <2>10 DEF Programmed, Scalars
    <2>11. ASSUME NEW cmd \in Commands, Command(cmd)
           PROVE  Scalars'
      <3>1. CASE SelectCoord(cmd)
        <4>1. cmd.n \in CoordIndices
          BY <3>1, CommandAssumption DEF SelectCoord
        <4>2. Data(coord_addr(cmd.n), N_AXIS) \in Coordinates
          BY <1>1, <4>1, DataCoordinates DEF StoredTypes
        <4>3. coord_select' \in CoordIndices /\ coord_system' \in Coordinates
          <5>1. CASE Valid(coord_addr(cmd.n), N_AXIS)
            BY <3>1, <4>1, <4>2, <5>1 DEF SelectCoord
          <5>2. CASE ~Valid(coord_addr(cmd.n), N_AXIS)
            BY <1>1, <3>1, <5>2 DEF SelectCoord, Scalars
          <5> QED
            BY <5>1, <5>2
        <4>4. /\ busy' = busy /\ locked' = locked /\ power' = power /\ losses' = losses
              /\ strayed' = strayed
              /\ sent' = sent + 1 /\ sent < MaxCommands
          BY <3>1 DEF SelectCoord
        <4>5. sent' \in 0 .. MaxCommands
          BY <1>1, <4>4 DEF Scalars
        <4> QED
          BY <1>1, <4>3, <4>4, <4>5 DEF Scalars
      <3>2. CASE Unlock(cmd)
        <4>1. /\ busy' = busy /\ coord_select' = coord_select /\ coord_system' = coord_system
              /\ locked' = FALSE /\ power' = power /\ losses' = losses
              /\ strayed' \in BOOLEAN
              /\ sent' = sent + 1 /\ sent < MaxCommands
          BY <3>2 DEF Unlock, Send
        <4>2. sent' \in 0 .. MaxCommands
          BY <1>1, <4>1 DEF Scalars
        <4> QED
          BY <1>1, <4>1, <4>2 DEF Scalars
      <3>3. CASE StoreSetting(cmd) \/ Restore(cmd) \/ StoreCoord(cmd)
        <4>1. strayed' \in BOOLEAN
          BY <3>3 DEF StoreSetting, Restore, StoreCoord, Send
        <4> QED
          BY <1>1, <3>3, <4>1 DEF StoreSetting, Restore, StoreCoord, Send, Scalars
      <3>4. CASE StoreText(cmd) \/ View(cmd) \/ SoftReset(cmd)
        <4>1. strayed' \in BOOLEAN
          BY <3>4 DEF StoreText, View, SoftReset, Send
        <4> QED
          BY <1>1, <3>4, <4>1 DEF StoreText, View, SoftReset, Send, Scalars
      <3>5. \/ SelectCoord(cmd) \/ Unlock(cmd)
            \/ StoreSetting(cmd) \/ Restore(cmd) \/ StoreCoord(cmd)
            \/ StoreText(cmd) \/ View(cmd) \/ SoftReset(cmd)
        BY <2>11 DEF Command
      <3> QED
        BY <3>1, <3>2, <3>3, <3>4, <3>5
    <2>12. CASE PowerLoss
      <3>1. /\ busy' = {} /\ coord_select' = coord_select /\ coord_system' = coord_system
            /\ locked' = locked /\ power' = FALSE /\ sent' = sent
            /\ losses' = losses + 1 /\ losses < MaxLosses /\ strayed' = strayed
        BY <2>12 DEF PowerLoss
      <3>2. losses' \in 0 .. MaxLosses
        BY <1>1, <3>1 DEF Scalars
      <3> QED
        BY <1>1, <3>1, <3>2 DEF Scalars
    <2>13. CASE PowerUp
      BY <1>1, <1>3, <2>13 DEF PowerUp, Scalars
    <2> QED
      BY <2>1, <2>2, <2>3, <2>4, <2>5, <2>6, <2>7, <2>8, <2>9, <2>10, <2>11, <2>12, <2>13
      DEF Next, MainStep
  <1> QED
    BY <1>2, <1>4 DEF TypesInv

LEMMA TypesInit == Init => TypesInv
PROOF
  <1> SUFFICES ASSUME Init
               PROVE  TypesInv
    OBVIOUS
  <1>1. StoredTypes
    <2>1. Boot \in Seq(AnyJobs)
      BY BootShape, JobsAny
    <2> QED
      BY <2>1, ErasedFlags DEF Init, StoredTypes, SettingsRecords
  <1>2. ZeroVector \in Coordinates /\ 0 \in CoordIndices
    BY ZeroCoordinates, LayoutAssumption DEF CoordIndices
  <1>3. sent \in 0 .. MaxCommands /\ losses \in 0 .. MaxLosses
    <2>1. sent = 0 /\ losses = 0
      BY DEF Init
    <2> QED
      BY <2>1, BoundAssumption
  <1>4. Scalars
    BY <1>2, <1>3 DEF Init, Scalars
  <1> QED
    BY <1>1, <1>4 DEF TypesInv

-----------------------------------------------------------------------------
\* The whole invariant: what is said of the records holds until a startup line
\* has been stored outside of the startup lines.

StoredInv == FlagsInv /\ RecordsInv

FullInv == TypesInv /\ (~strayed => StoredInv)

LEMMA ProperCommand ==
  ASSUME NEW cmd \in Commands, Command(cmd), ~strayed'
  PROVE  ~strayed /\ ~Stray(cmd)
PROOF
  <1>1. CASE SelectCoord(cmd)
    BY <1>1 DEF SelectCoord, Stray
  <1>2. CASE ~SelectCoord(cmd)
    <2>1. Send(cmd)
      BY <1>2 DEF Command, StoreSetting, Restore, StoreCoord, StoreText, View, Unlock, SoftReset
    <2>2. strayed' = (strayed \/ Stray(cmd))
      BY <2>1 DEF Send
    <2> QED
      BY <2>2
  <1> QED
    BY <1>1, <1>2

LEMMA StrayedStays ==
  ASSUME [Next]_vars, ~strayed'
  PROVE  ~strayed
PROOF
  <1>1. ASSUME NEW cmd \in Commands, Command(cmd)
        PROVE  ~strayed
    BY <1>1, ProperCommand
  <1>2. CASE PutChar \/ ReadGlobal \/ InitialState \/ ReadInit
    BY <1>2 DEF PutChar, ReadGlobal, InitialState, ReadInit
  <1>3. CASE ReadLine \/ ViewStartup \/ WriteCoord \/ EndCommand
    BY <1>3 DEF ReadLine, ViewStartup, WriteCoord, EndCommand
  <1>4. CASE Programmed \/ PowerLoss \/ PowerUp \/ UNCHANGED vars
    BY <1>4 DEF Programmed, PowerLoss, PowerUp, vars
  <1> QED
    BY <1>1, <1>2, <1>3, <1>4 DEF Next, MainStep

LEMMA StoredStep ==
  ASSUME TypesInv, StoredInv, [Next]_vars, ~strayed'
  PROVE  StoredInv'
PROOF
  <1>1. /\ FlagsInv /\ RecordsInv /\ coord_select \in CoordIndices /\ coord_system \in Coordinates
    BY DEF StoredInv, TypesInv, Scalars
  <1>2. FlagsInv'
    <2>1. ASSUME UNCHANGED vars
          PROVE  FlagsInv'
      BY <1>1, <2>1 DEF FlagsInv, vars
    <2>2. ASSUME NEW cmd \in Commands, Command(cmd)
          PROVE  FlagsInv'
      BY <1>1, <2>2, ProperCommand, StepCommand
    <2> QED
      BY <1>1, <2>1, <2>2, StepMain, StepPower DEF Next
  <1>3. RecordsInv'
    <2>1. CASE UNCHANGED vars
      BY <1>1, <2>1, SameRecords DEF vars
    <2>2. CASE MainStep
      BY <1>1, <2>2, ForwardRecords, ReadGlobalRecords, ReadInitRecords DEF MainStep, Quiet
    <2>3. ASSUME NEW cmd \in Commands, Command(cmd)
          PROVE  RecordsInv'
      BY <1>1, <2>3, ProperCommand, CommandRecords
    <2>4. CASE PowerLoss \/ PowerUp \/ Programmed
      BY <1>1, <2>4, PowerRecords
    <2> QED
      BY <2>1, <2>2, <2>3, <2>4 DEF Next
  <1> QED
    BY <1>2, <1>3 DEF StoredInv

LEMMA FullAlways == Spec => []FullInv
PROOF
  <1>1. Init => FullInv
    BY TypesInit, InitFlags, InitRecords DEF FullInv, StoredInv
  <1>2. FullInv /\ [Next]_vars => FullInv'
    <2> SUFFICES ASSUME FullInv, [Next]_vars
                 PROVE  FullInv'
      OBVIOUS
    <2>1. TypesInv'
      BY TypesStep DEF FullInv
    <2>2. ASSUME ~strayed'
          PROVE  StoredInv'
      BY <2>2, StrayedStays, StoredStep DEF FullInv
    <2> QED
      BY <2>1, <2>2 DEF FullInv
  <1> QED
    BY <1>1, <1>2, PTL DEF Spec

\* Every variable of the stored settings keeps its type, whatever startup line
\* is stored where (settings.c, eeprom.c).
THEOREM SettingsTypeSafety == Spec => []TypeOK
PROOF
  <1>1. FullInv => TypeOK
    BY DEF FullInv, TypesInv, StoredTypes, Scalars, TypeOK, Coordinates
  <1> QED
    BY <1>1, FullAlways, PTL

\* Soft limits are never on with homing off, in RAM or in the EEPROM, through
\* every sequence of settings, restores and power failures (settings.c:260,
\* 274-277; eeprom_put_char), until a startup line is stored under a number that
\* is none's (system.c:288-289).
THEOREM SoftLimitsSafety == Spec => []SoftLimitsNeedHoming
PROOF
  <1>1. FullInv => SoftLimitsNeedHoming
    BY DEF FullInv, StoredInv, FlagsInv, SoftLimitsNeedHoming, FLAGS
  <1> QED
    BY <1>1, FullAlways, PTL

\* Whenever a command is taken, a restart would read back the settings and the
\* offset in use, through every sequence of commands, restores and power failures
\* (settings_init, settings_read_coord_data, gc_init, gc_execute_line), until a
\* startup line is stored under a number that is none's (system.c:288-289).
THEOREM InUseSafety == Spec => []InUseIsStored
PROOF
  <1>1. FullInv => InUseIsStored
    <2> SUFFICES ASSUME FullInv, Ready, ~strayed
                 PROVE  /\ eeprom[0] = SETTINGS_VERSION
                        /\ Valid(EEPROM_ADDR_GLOBAL, GLOBAL_SIZE)
                        /\ settings = GlobalRecord(Data(EEPROM_ADDR_GLOBAL, GLOBAL_SIZE))
                        /\ Valid(coord_addr(coord_select), N_AXIS)
                        /\ coord_system = Data(coord_addr(coord_select), N_AXIS)
      BY DEF InUseIsStored
    <2>1. /\ FlagsInv /\ RecordsInv /\ coord_select \in CoordIndices /\ coord_system \in Coordinates
      BY DEF FullInv, StoredInv, TypesInv, Scalars
    <2>2. /\ settings \in SettingsRecords /\ settings.flags \in Flags
          /\ Held(write_global_settings(settings))
          /\ Held(settings_write_coord_data(coord_select, coord_system))
      BY <2>1, ReadyFacts
    <2> QED
      BY <2>1, <2>2, GlobalHeldReads, CoordHeldReads
  <1> QED
    BY <1>1, FullAlways, PTL

\* What a command was told to store is what is read ever after, until that very
\* record is written again, or a startup line is stored under a number that is
\* none's (settings_store_global_setting, settings_restore,
\* settings_write_coord_data; system.c:288-289).
THEOREM RecallSafety == Spec => []NumbersRecalled
PROOF
  <1>1. FullInv => NumbersRecalled
    <2> SUFFICES ASSUME FullInv, Ready, ~strayed, NEW r \in Regions, r[1] \in {"globals", "coord"},
                        NEW value \in promised[r]
                 PROVE  Stored(r) = value
      BY DEF NumbersRecalled, Recalled
    <2>1. /\ FlagsInv /\ RecordsInv /\ coord_select \in CoordIndices /\ coord_system \in Coordinates
      BY DEF FullInv, StoredInv, TypesInv, Scalars
    <2>2. r = Globals \/ \E n \in CoordIndices : r = CoordRegion(n)
      BY DEF Regions, Globals, BuildInfo, CoordRegion, LineRegion
    <2>3. CASE r = Globals
      <3>1. PICK s \in SettingsRecords :
              s.flags \in Flags /\ value = GlobalBytes(s) /\ Held(write_global_settings(s))
        BY <2>1, <2>3 DEF RecordsInv, PromisesHeld
      <3>2. GlobalRecord(Data(EEPROM_ADDR_GLOBAL, GLOBAL_SIZE)) = s
        BY <3>1, GlobalHeldReads
      <3>3. GlobalRecord(Data(EEPROM_ADDR_GLOBAL, GLOBAL_SIZE)) = settings
        BY <2>1, ReadyFacts, GlobalHeldReads
      <3>4. Stored(r) = GlobalBytes(settings)
        BY <2>3, RegionFacts DEF Stored
      <3> QED
        BY <3>1, <3>2, <3>3, <3>4
    <2>4. ASSUME NEW n \in CoordIndices, r = CoordRegion(n)
          PROVE  Stored(r) = value
      <3>1. value \in Coordinates /\ Held(settings_write_coord_data(n, value))
        BY <2>1, <2>4 DEF RecordsInv, PromisesHeld
      <3>2. Data(coord_addr(n), N_AXIS) = value /\ Valid(coord_addr(n), N_AXIS)
        BY <3>1, CoordHeldReads
      <3>3. CoordRegion(n) # BuildInfo /\ CoordRegion(n) # Globals
        BY RegionFacts DEF CoordRegion, BuildInfo
      <3>4. Start(r) = coord_addr(n)
        BY <2>4, <3>3, RegionFacts DEF Start
      <3> QED
        BY <2>4, <3>2, <3>3, <3>4, RegionFacts DEF Stored
    <2> QED
      BY <2>2, <2>3, <2>4
  <1> QED
    BY <1>1, FullAlways, PTL
=============================================================================
