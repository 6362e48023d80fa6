------------------------------- MODULE Serial -------------------------------
(***************************************************************************)
(* The serial interface (serial.c): the two rings of characters between the *)
(* interrupts and the main program.  A ring of n slots holds n - 1          *)
(* characters, so that head = tail means empty.                             *)
(***************************************************************************)
EXTENDS Integers, Sequences

CONSTANTS RX_BUFFER_SIZE, TX_BUFFER_SIZE

ASSUME BufferAssumption ==
  RX_BUFFER_SIZE \in Nat \ {0} /\ TX_BUFFER_SIZE \in Nat \ {0}

VARIABLES
  serial_rx_buffer, rx_head, rx_tail,
  serial_tx_buffer, tx_head, tx_tail,
  udrie,            \* the data register empty interrupt is enabled
  tx_step,          \* how far the main program is in serial_write
  overrun           \* history: that interrupt has run with the ring empty

rxVars == <<serial_rx_buffer, rx_head, rx_tail>>
txVars == <<serial_tx_buffer, tx_head, tx_tail, udrie, tx_step, overrun>>
serialVars == <<rxVars, txVars>>

\* Mutant: the slot that stays empty is forgotten.
RX_RING_BUFFER_Short == RX_BUFFER_SIZE

RX_RING_BUFFER == RX_BUFFER_SIZE + 1
TX_RING_BUFFER == TX_BUFFER_SIZE + 1

NextIndex(i, ring) == IF i + 1 = ring THEN 0 ELSE i + 1

\* What a ring holds, oldest first.
Contents(buffer, head, tail, ring) ==
  [k \in 1 .. ((head - tail) % ring) |-> buffer[(tail + k - 1) % ring]]

RxContents == Contents(serial_rx_buffer, rx_head, rx_tail, RX_RING_BUFFER)
TxContents == Contents(serial_tx_buffer, tx_head, tx_tail, TX_RING_BUFFER)

SerialInit ==
  /\ serial_rx_buffer = [i \in 0 .. (RX_RING_BUFFER - 1) |-> "none"]
  /\ serial_tx_buffer = [i \in 0 .. (TX_RING_BUFFER - 1) |-> "none"]
  /\ rx_head = 0 /\ rx_tail = 0 /\ tx_head = 0 /\ tx_tail = 0
  /\ udrie = FALSE /\ tx_step = "room" /\ overrun = FALSE

\* ISR(SERIAL_RX), for what is not a realtime command: dropped when there is no
\* room.
RxStore(data) ==
  LET next_head == NextIndex(rx_head, RX_RING_BUFFER)
  IN  IF next_head # rx_tail
      THEN /\ serial_rx_buffer' = [serial_rx_buffer EXCEPT ![rx_head] = data]
           /\ rx_head' = next_head
           /\ UNCHANGED rx_tail
      ELSE UNCHANGED rxVars

\* serial_read: the character is taken, then its slot given back.
RxEmpty == rx_head = rx_tail
RxFirst == serial_rx_buffer[rx_tail]
RxRelease ==
  /\ rx_tail' = NextIndex(rx_tail, RX_RING_BUFFER)
  /\ UNCHANGED <<serial_rx_buffer, rx_head>>

serial_reset_read_buffer ==
  rx_tail' = rx_head /\ UNCHANGED <<serial_rx_buffer, rx_head>>

\* Mutant: the wait for room is left out.
TxFull_Ignored == FALSE

\* serial_write, in the steps between which the interrupt may run: wait for
\* room, store, advance the head, enable the interrupt.  UCSR0B is out of reach
\* of sbi, but an interrupt between the read and the write of its bit sets
\* nothing that the write does not, so that the write is the step.
TxFull == NextIndex(tx_head, TX_RING_BUFFER) = tx_tail

TxRoom ==
  /\ ~TxFull
  /\ tx_step' = "store"
  /\ UNCHANGED <<serial_tx_buffer, tx_head, tx_tail, udrie, overrun>>

TxStore(data) ==
  /\ serial_tx_buffer' = [serial_tx_buffer EXCEPT ![tx_head] = data]
  /\ tx_step' = "advance"
  /\ UNCHANGED <<tx_head, tx_tail, udrie, overrun>>

TxAdvance ==
  /\ tx_head' = NextIndex(tx_head, TX_RING_BUFFER)
  /\ tx_step' = "enable"
  /\ UNCHANGED <<serial_tx_buffer, tx_tail, udrie, overrun>>

TxEnable ==
  /\ udrie' = TRUE
  /\ tx_step' = "room"
  /\ UNCHANGED <<serial_tx_buffer, tx_head, tx_tail, overrun>>

TxFirst == serial_tx_buffer[tx_tail]

\* Mutant: the interrupt is turned off a character early.
TxSend_Early ==
  /\ udrie
  /\ tx_tail' = NextIndex(tx_tail, TX_RING_BUFFER)
  /\ udrie' = (tx_tail' # tx_head /\ NextIndex(tx_tail', TX_RING_BUFFER) # tx_head)
  /\ overrun' = (overrun \/ tx_head = tx_tail)
  /\ UNCHANGED <<serial_tx_buffer, tx_head, tx_step>>

\* ISR(SERIAL_UDRE): sends TxFirst, whether or not the ring holds anything.
TxSend ==
  /\ udrie
  /\ tx_tail' = NextIndex(tx_tail, TX_RING_BUFFER)
  /\ udrie' = (tx_tail' # tx_head)
  /\ overrun' = (overrun \/ tx_head = tx_tail)
  /\ UNCHANGED <<serial_tx_buffer, tx_head, tx_step>>
=============================================================================
