----------------------------- MODULE LinkProofs -----------------------------
(***************************************************************************)
(* Proofs about Link.  Its inductive invariant has three layers: the types; *)
(* the words under way to the host, which between welcome and reset are     *)
(* whole messages; and the session: the lines the host has begun, those it   *)
(* waits for, those executed and the characters between tally, and the main *)
(* program is at the place in the text of the lines that the tally gives.   *)
(***************************************************************************)
EXTENDS Link, SumProofs, SequenceTheorems

-----------------------------------------------------------------------------
\* Rings of characters and counts.

\* Counting.

\* Counts are natural numbers.
LEMMA CountNatural ==
  ASSUME NEW S, NEW s \in Seq(S), NEW T
  PROVE  Count(s, T) \in Nat
<1>1. Len(s) \in Nat
  OBVIOUS
<1> QED
  BY <1>1, SumNatural DEF Count

\* What two sequences count together.
LEMMA CountConcat ==
  ASSUME NEW S, NEW s \in Seq(S), NEW t \in Seq(S), NEW T
  PROVE  Count(s \o t, T) = Count(s, T) + Count(t, T)
<1> DEFINE f == [i \in 1 .. Len(s \o t) |-> IF (s \o t)[i] \in T THEN 1 ELSE 0]
           g == [i \in 1 .. Len(s) |-> IF s[i] \in T THEN 1 ELSE 0]
           h == [i \in 1 .. Len(t) |-> IF t[i] \in T THEN 1 ELSE 0]
<1>1. Len(s) \in Nat /\ Len(t) \in Nat /\ Len(s \o t) = Len(s) + Len(t)
  OBVIOUS
<1>2. \A i \in 1 .. (Len(s) + Len(t)) : f[i] \in Nat
  BY <1>1
<1>3. \A i \in 1 .. Len(t) : h[i] = f[Len(s) + i]
  BY <1>1
<1>4. \A i \in 1 .. Len(s) : g[i] = f[i]
  BY <1>1
<1>5. Count(s \o t, T) = Sum(f, Len(s) + Len(t)) /\ Count(s, T) = Sum(g, Len(s))
      /\ Count(t, T) = Sum(h, Len(t))
  BY <1>1 DEF Count
<1> HIDE DEF f, g, h
<1>6. Sum(f, Len(s) + Len(t)) = Sum(f, Len(s)) + Sum(h, Len(t))
  BY <1>1, <1>2, <1>3, SumSplit
<1>7. Sum(g, Len(s)) = Sum(f, Len(s))
  BY <1>1, <1>4, SumSame
<1> QED
  BY <1>5, <1>6, <1>7

\* What a sequence of one element, and of none, counts.
LEMMA CountOne ==
  ASSUME NEW c, NEW T
  PROVE  /\ Count(<<c>>, T) = IF c \in T THEN 1 ELSE 0
         /\ Count(<< >>, T) = 0
<1> DEFINE w == [i \in 1 .. Len(<<c>>) |-> IF <<c>>[i] \in T THEN 1 ELSE 0]
<1>1. Len(<<c>>) = 1 /\ w[1] = IF c \in T THEN 1 ELSE 0
  OBVIOUS
<1>2. Count(<<c>>, T) = Sum(w, 1)
  BY <1>1 DEF Count
<1> HIDE DEF w
<1>3. Sum(w, 0 + 1) = Sum(w, 0) + w[0 + 1] /\ Sum(w, 0) = 0
  BY SumUnfolds
<1>4. Sum(w, 1) = IF c \in T THEN 1 ELSE 0
  BY <1>1, <1>3
<1>5. Count(<< >>, T) = 0
  BY SumUnfolds DEF Count
<1> QED
  BY <1>2, <1>4, <1>5

\* What is read, and what is written.
LEMMA CountEnds ==
  ASSUME NEW S, NEW s \in Seq(S), NEW T
  PROVE  /\ \A c \in S : Count(Append(s, c), T) = Count(s, T) + (IF c \in T THEN 1 ELSE 0)
         /\ s # << >> => /\ Count(s, T) = Count(Tail(s), T) + (IF s[1] \in T THEN 1 ELSE 0)
                         /\ Count(Tail(s), T) \in Nat
<1>1. ASSUME NEW c \in S
      PROVE  Count(Append(s, c), T) = Count(s, T) + (IF c \in T THEN 1 ELSE 0)
  <2>1. Append(s, c) = s \o <<c>> /\ <<c>> \in Seq(S)
    OBVIOUS
  <2>2. Count(s \o <<c>>, T) = Count(s, T) + Count(<<c>>, T)
    BY <2>1, CountConcat
  <2> QED
    BY <2>1, <2>2, CountOne
<1>2. ASSUME s # << >>
      PROVE  /\ Count(s, T) = Count(Tail(s), T) + (IF s[1] \in T THEN 1 ELSE 0)
             /\ Count(Tail(s), T) \in Nat
  <2>1. s = <<s[1]>> \o Tail(s) /\ <<s[1]>> \in Seq(S) /\ Tail(s) \in Seq(S)
    BY <1>2
  <2>2. Count(<<s[1]>> \o Tail(s), T) = Count(<<s[1]>>, T) + Count(Tail(s), T)
    BY <2>1, CountConcat
  <2>3. Count(Tail(s), T) \in Nat
    BY <2>1, CountNatural
  <2>4. Count(<<s[1]>>, T) = IF s[1] \in T THEN 1 ELSE 0
    BY CountOne
  <2>5. Count(s, T) = Count(<<s[1]>> \o Tail(s), T)
    BY <2>1
  <2>6. Count(s, T) = Count(Tail(s), T) + Count(<<s[1]>>, T)
    BY <2>2, <2>3, <2>4, <2>5
  <2> QED
    BY <2>3, <2>4, <2>6
<1> QED
  BY <1>1, <1>2
-----------------------------------------------------------------------------
\* Rings of characters.

\* The indices of a ring, without the modulus.
LEMMA RingIndices ==
  ASSUME NEW n \in Nat, n > 1, NEW R, R = 0 .. (n - 1), NEW h \in R, NEW t \in R
  PROVE  /\ NextIndex(h, n) \in R
         /\ (h - t) % n = IF t <= h THEN h - t ELSE h - t + n
         /\ \A k \in 1 .. n : (t + k - 1) % n = IF t + k - 1 < n THEN t + k - 1 ELSE t + k - 1 - n
<1>1. (h - t) % n = IF t <= h THEN h - t ELSE h - t + n
  OBVIOUS
<1>2. ASSUME NEW k \in 1 .. n
      PROVE  (t + k - 1) % n = IF t + k - 1 < n THEN t + k - 1 ELSE t + k - 1 - n
  <2>1. PICK a \in Nat : a = t + k - 1 /\ a < 2 * n
    OBVIOUS
  <2>2. a % n = IF a < n THEN a ELSE a - n
    BY <2>1
  <2> QED
    BY <2>1, <2>2
<1>3. NextIndex(h, n) \in R
  BY DEF NextIndex
<1> QED
  BY <1>1, <1>2, <1>3

\* The sequence s is what a ring holds.
Holds(s, S, buffer, h, t, n) ==
  /\ s \in Seq(S)
  /\ Len(s) = IF t <= h THEN h - t ELSE h - t + n
  /\ \A k \in 1 .. Len(s) : s[k] = buffer[IF t + k - 1 < n THEN t + k - 1 ELSE t + k - 1 - n]

\* What Contents gives is what the ring holds.
LEMMA RingContents ==
  ASSUME NEW S, NEW n \in Nat, n > 1, NEW R, R = 0 .. (n - 1), NEW h \in R, NEW t \in R,
         NEW buffer \in [R -> S]
  PROVE  Holds(Contents(buffer, h, t, n), S, buffer, h, t, n)
<1> DEFINE m == IF t <= h THEN h - t ELSE h - t + n
           at(k) == IF t + k - 1 < n THEN t + k - 1 ELSE t + k - 1 - n
<1>1. (h - t) % n = m /\ m \in Nat /\ m < n
  BY RingIndices
<1>2. \A k \in 1 .. m : (t + k - 1) % n = at(k) /\ at(k) \in R
  <2> SUFFICES ASSUME NEW k \in 1 .. m PROVE (t + k - 1) % n = at(k) /\ at(k) \in R
    OBVIOUS
  <2>1. k \in 1 .. n /\ at(k) \in R
    BY <1>1
  <2> QED
    BY <2>1, RingIndices
<1> HIDE DEF m, at
<1>3. Contents(buffer, h, t, n) = [k \in 1 .. m |-> buffer[at(k)]]
  BY <1>1, <1>2 DEF Contents
<1>4. /\ [k \in 1 .. m |-> buffer[at(k)]] \in Seq(S)
      /\ Len([k \in 1 .. m |-> buffer[at(k)]]) = m
      /\ \A k \in 1 .. m : [j \in 1 .. m |-> buffer[at(j)]][k] = buffer[at(k)]
  BY <1>1, <1>2
<1> QED
  BY <1>3, <1>4 DEF Holds, m, at

\* A buffer with its two indices.
RingOf(S, buffer, h, t, n) ==
  /\ n \in Nat /\ n > 1
  /\ h \in 0 .. (n - 1) /\ t \in 0 .. (n - 1) /\ buffer \in [0 .. (n - 1) -> S]

\* A character is stored where there is room.
Stores(new, buffer, h, c) == new = [buffer EXCEPT ![h] = c]

\* serial_rx interrupt and serial_write: what is stored comes last.
LEMMA RingStored ==
  ASSUME NEW S, NEW n, NEW h, NEW t, NEW buffer, RingOf(S, buffer, h, t, n), NEW c \in S, NextIndex(h, n) # t,
         NEW new, Stores(new, buffer, h, c)
  PROVE  Contents(new, NextIndex(h, n), t, n) = Append(Contents(buffer, h, t, n), c)
<1>0. PICK R : /\ R = 0 .. (n - 1) /\ n \in Nat /\ n > 1 /\ h \in R /\ t \in R
                /\ buffer \in [R -> S] /\ new = [buffer EXCEPT ![h] = c]
  BY DEF RingOf, Stores
<1> DEFINE s == Contents(buffer, h, t, n)
           u == Contents(new, NextIndex(h, n), t, n)
<1>1. NextIndex(h, n) \in R /\ new = [buffer EXCEPT ![h] = c] /\ new \in [R -> S]
      /\ NextIndex(h, n) = IF h + 1 = n THEN 0 ELSE h + 1
  <2>1. NextIndex(h, n) \in R
    BY <1>0, RingIndices
  <2> QED
    BY <1>0, <2>1 DEF NextIndex
<1>2. Holds(s, S, buffer, h, t, n)
  BY <1>0, RingContents
<1>3. Holds(u, S, new, NextIndex(h, n), t, n)
  BY <1>0, <1>1, RingContents
<1> HIDE DEF s, u
<1> USE DEF Holds
<1>4. Len(u) = Len(s) + 1 /\ Len(s) \in Nat /\ Len(s) < n - 1
  <2>1. h \in Nat /\ t \in Nat /\ h < n /\ t < n /\ n \in Nat
    BY <1>0
  <2>2. NextIndex(h, n) = IF h + 1 = n THEN 0 ELSE h + 1
    BY <1>1
  <2>3. Len(s) = IF t <= h THEN h - t ELSE h - t + n
    BY <1>2
  <2>4. Len(u) = IF t <= NextIndex(h, n) THEN NextIndex(h, n) - t ELSE NextIndex(h, n) - t + n
    BY <1>3
  <2> QED
    BY <2>1, <2>2, <2>3, <2>4
<1>6. /\ Append(s, c) \in Seq(S) /\ Len(Append(s, c)) = Len(s) + 1
      /\ \A k \in 1 .. (Len(s) + 1) : Append(s, c)[k] = IF k = Len(s) + 1 THEN c ELSE s[k]
  <2>1. s \in Seq(S)
    BY <1>0, <1>2
  <2> QED
    BY <1>0, <2>1, AppendProperties
<1>5. ASSUME NEW k \in 1 .. Len(u)
      PROVE  u[k] = Append(s, c)[k]
  <2> DEFINE i == IF t + k - 1 < n THEN t + k - 1 ELSE t + k - 1 - n
  <2>1. i \in R /\ (i = h <=> k = Len(s) + 1)
    <3>1. h \in Nat /\ t \in Nat /\ h < n /\ t < n /\ n \in Nat
      BY <1>0
    <3>2. Len(s) = IF t <= h THEN h - t ELSE h - t + n
      BY <1>2
    <3>3. i \in Nat /\ i < n /\ (i = h <=> k = Len(s) + 1)
      BY <1>4, <3>1, <3>2
    <3> QED
      BY <1>0, <3>1, <3>3
  <2>2. new[i] = IF i = h THEN c ELSE buffer[i]
    BY <1>0, <1>1, <2>1
  <2>3. u[k] = new[i]
    BY <1>0, <1>3
  <2>5. ASSUME k # Len(s) + 1 PROVE s[k] = buffer[i]
    <3>1. k \in 1 .. Len(s)
      BY <1>0, <1>4, <2>5
    <3> QED
      BY <1>0, <1>2, <3>1
  <2> HIDE DEF i
  <2>4. Append(s, c)[k] = IF k = Len(s) + 1 THEN c ELSE s[k]
    BY <1>0, <1>4, <1>6
  <2> QED
    BY <1>0, <2>1, <2>2, <2>3, <2>4, <2>5
<1>7. u = Append(s, c)
  BY <1>0, <1>3, <1>4, <1>5, <1>6
<1> QED
  BY <1>0, <1>7 DEF s, u

\* serial_write, before the head moves: a character in the slot at the head is
\* not yet in the ring.
LEMMA RingPrepared ==
  ASSUME NEW S, NEW n, NEW h, NEW t, NEW buffer, RingOf(S, buffer, h, t, n), NEW c \in S,
         NEW new, Stores(new, buffer, h, c)
  PROVE  Contents(new, h, t, n) = Contents(buffer, h, t, n)
<1>0. PICK R : /\ R = 0 .. (n - 1) /\ n \in Nat /\ n > 1 /\ h \in R /\ t \in R
                /\ buffer \in [R -> S] /\ new = [buffer EXCEPT ![h] = c] /\ new \in [R -> S]
  BY DEF RingOf, Stores
<1> DEFINE s == Contents(buffer, h, t, n)
           u == Contents(new, h, t, n)
<1>1. Holds(s, S, buffer, h, t, n) /\ Holds(u, S, new, h, t, n)
  BY <1>0, RingContents
<1> HIDE DEF s, u
<1>2. Len(s) = (IF t <= h THEN h - t ELSE h - t + n) /\ Len(u) = Len(s)
      /\ s \in Seq(S) /\ u \in Seq(S)
  BY <1>1 DEF Holds
<1>3. ASSUME NEW k \in 1 .. Len(s)
      PROVE  u[k] = s[k]
  <2> DEFINE i == IF t + k - 1 < n THEN t + k - 1 ELSE t + k - 1 - n
  <2>1. i \in R /\ i # h
    <3>1. h \in Nat /\ t \in Nat /\ h < n /\ t < n /\ n \in Nat
      BY <1>0
    <3>2. i \in Nat /\ i < n /\ i # h
      BY <1>2, <3>1
    <3> QED
      BY <1>0, <3>1, <3>2
  <2>2. u[k] = new[i] /\ s[k] = buffer[i]
    BY <1>1, <1>2 DEF Holds
  <2> HIDE DEF i
  <2> QED
    BY <1>0, <2>1, <2>2
<1>4. u = s
  BY <1>2, <1>3
<1> QED
  BY <1>4 DEF s, u

\* The oldest character is given back.
LEMMA RingReleased ==
  ASSUME NEW S, NEW n, NEW h, NEW t, NEW buffer, RingOf(S, buffer, h, t, n), h # t
  PROVE  /\ Contents(buffer, h, t, n) # << >>
         /\ Contents(buffer, h, t, n)[1] = buffer[t]
         /\ Contents(buffer, h, NextIndex(t, n), n) = Tail(Contents(buffer, h, t, n))
<1>0. PICK R : /\ R = 0 .. (n - 1) /\ n \in Nat /\ n > 1 /\ h \in R /\ t \in R
                /\ buffer \in [R -> S]
  BY DEF RingOf
<1> DEFINE s == Contents(buffer, h, t, n)
           u == Contents(buffer, h, NextIndex(t, n), n)
<1>1. NextIndex(t, n) \in R /\ NextIndex(t, n) = IF t + 1 = n THEN 0 ELSE t + 1
  <2>1. NextIndex(t, n) \in R
    BY <1>0, RingIndices
  <2> QED
    BY <1>0, <2>1 DEF NextIndex
<1>2. Holds(s, S, buffer, h, t, n)
  BY <1>0, RingContents
<1>3. Holds(u, S, buffer, h, NextIndex(t, n), n)
  BY <1>0, <1>1, RingContents
<1> HIDE DEF s, u
<1> USE DEF Holds
<1>4. Len(s) = Len(u) + 1 /\ Len(u) \in Nat
  <2>1. h \in Nat /\ t \in Nat /\ h < n /\ t < n /\ n \in Nat /\ h # t
    BY <1>0
  <2>2. NextIndex(t, n) = IF t + 1 = n THEN 0 ELSE t + 1
    BY <1>1
  <2>3. Len(s) = IF t <= h THEN h - t ELSE h - t + n
    BY <1>2
  <2>4. Len(u) = IF NextIndex(t, n) <= h THEN h - NextIndex(t, n) ELSE h - NextIndex(t, n) + n
    BY <1>3
  <2> QED
    BY <2>1, <2>2, <2>3, <2>4
<1>5. s # << >> /\ s[1] = buffer[t]
  <2>1. 1 \in 1 .. Len(s) /\ t + 1 - 1 < n /\ t + 1 - 1 = t
    BY <1>0, <1>4
  <2> QED
    BY <1>0, <1>2, <2>1
<1>6. ASSUME NEW k \in 1 .. Len(u)
      PROVE  u[k] = s[k + 1]
  <2>1. k + 1 \in 1 .. Len(s)
    BY <1>0, <1>4
  <2>2. (IF NextIndex(t, n) + k - 1 < n THEN NextIndex(t, n) + k - 1
         ELSE NextIndex(t, n) + k - 1 - n)
          = (IF t + (k + 1) - 1 < n THEN t + (k + 1) - 1 ELSE t + (k + 1) - 1 - n)
    BY SMTT(30), <1>0, <1>1, <1>3, <1>4, <1>2
  <2> QED
    BY <1>0, <1>2, <1>3, <2>1, <2>2
<1>7. Tail(s) \in Seq(S) /\ Len(Tail(s)) = Len(u) /\ \A k \in 1 .. Len(u) : Tail(s)[k] = s[k + 1]
  BY <1>0, <1>2, <1>4, <1>5
<1>8. u = Tail(s)
  BY <1>0, <1>3, <1>6, <1>7
<1> QED
  BY <1>0, <1>5, <1>8 DEF s, u

-----------------------------------------------------------------------------
\* Types.

\* The characters of the rings, and the words the program sends.
Characters == STRING \cup {"none", "G", "X"}
RxSlots == 0 .. RX_BUFFER_SIZE
TxSlots == 0 .. TX_BUFFER_SIZE
Words == {"Grbl", "status", "ok", "error", "eol"}
TxTokens == Words \cup {"none"}

Labels == {"boot", "flush", "loop", "char", "line"} \cup Realtime
TxSteps == {"room", "store", "advance", "enable"}
Flags == {"OVERFLOW", "PARENTHESES", "SEMICOLON"}

HostTypes ==
  /\ sending \in Seq(Characters) /\ outstanding \in Seq(Lines) /\ begun \in Seq(Lines)
  /\ waiting \in BOOLEAN /\ word \in TxTokens \ {"eol"}

RingTypes ==
  /\ rx_head \in RxSlots /\ rx_tail \in RxSlots
  /\ tx_head \in TxSlots /\ tx_tail \in TxSlots
  /\ serial_rx_buffer \in [RxSlots -> Characters] /\ serial_tx_buffer \in [TxSlots -> TxTokens]
  /\ udrie \in BOOLEAN /\ overrun \in BOOLEAN /\ tx_step \in TxSteps
  /\ ~overrun => /\ TxContents \in Seq(Words)
                 /\ tx_step \in {"store", "advance"} => ~TxFull

\* What serial_write has in hand.
WriteTypes ==
  /\ tx_step \in {"store", "advance"} => out # << >>
  /\ tx_step = "advance" => serial_tx_buffer[tx_head] = Head(out)

MainTypes ==
  /\ pc \in Labels /\ ret \in {"none", "loop", "line"}
  /\ pc \in Realtime => ret # "none"
  /\ pc = "char" => ~RxEmpty
  /\ out \in Seq(Words)
  /\ abort \in BOOLEAN /\ exec \subseteq {"RESET", "STATUS_REPORT"}
  /\ line \in Seq(Characters) /\ Len(line) < LINE_BUFFER_SIZE /\ line_flags \subseteq Flags
  /\ executed \in Seq([text : Seq(Characters), overflow : BOOLEAN])

OverrideTypes ==
  /\ speed_exec \subseteq SpeedCommands /\ spindle_exec \subseteq SpeedCommands
  /\ rapid_exec \subseteq RapidCommands

LinkTypes == HostTypes /\ RingTypes /\ WriteTypes /\ MainTypes /\ OverrideTypes

\* The main program has welcomed the host, and no reset is pending.
Booted == "RESET" \notin exec /\ pc \notin {"boot", "flush"}

\* While the host waits it sends nothing, and after the flush nothing is left
\* of
\* what it sent before.
Modes ==
  /\ abort => "RESET" \in exec
  /\ ~waiting => Booted
  /\ waiting => sending = << >> /\ outstanding = << >> /\ begun = << >>
  /\ waiting /\ Booted =>
       /\ RxEmpty /\ line = << >> /\ line_flags = {} /\ executed = << >>
       /\ pc # "char" /\ ~Busy
-----------------------------------------------------------------------------
\* The types of this module imply the type invariant.
LEMMA TypesSuffice == LinkTypes => TypeOK
  BY DEF LinkTypes, HostTypes, RingTypes, MainTypes, OverrideTypes, TypeOK, RxSlots, TxSlots,
         Flags, TxSteps

\* The two rings.
LEMMA RingSizes ==
  /\ RX_RING_BUFFER \in Nat /\ RX_RING_BUFFER > 1 /\ RxSlots = 0 .. (RX_RING_BUFFER - 1)
  /\ TX_RING_BUFFER \in Nat /\ TX_RING_BUFFER > 1 /\ TxSlots = 0 .. (TX_RING_BUFFER - 1)
  /\ RX_RING_BUFFER = RX_BUFFER_SIZE + 1
<1>1. (RX_BUFFER_SIZE + 1) - 1 = RX_BUFFER_SIZE /\ (TX_BUFFER_SIZE + 1) - 1 = TX_BUFFER_SIZE
  BY BufferAssumption
<1> QED
  BY <1>1, BufferAssumption DEF RX_RING_BUFFER, TX_RING_BUFFER, RxSlots, TxSlots

\* Both are rings.
LEMMA RingsOf ==
  RingTypes => /\ RingOf(Characters, serial_rx_buffer, rx_head, rx_tail, RX_RING_BUFFER)
               /\ RingOf(TxTokens, serial_tx_buffer, tx_head, tx_tail, TX_RING_BUFFER)
  BY RingSizes DEF RingTypes, RingOf

\* What the receive ring holds, and when it is full or empty.
LEMMA RxRing ==
  ASSUME RingTypes
  PROVE  /\ RxContents \in Seq(Characters) /\ Len(RxContents) <= RX_BUFFER_SIZE
         /\ NextIndex(rx_head, RX_RING_BUFFER) \in RxSlots
         /\ NextIndex(rx_tail, RX_RING_BUFFER) \in RxSlots
         /\ RxEmpty <=> RxContents = << >>
         /\ Len(RxContents) < RX_BUFFER_SIZE => NextIndex(rx_head, RX_RING_BUFFER) # rx_tail
         /\ RxFirst \in Characters
         /\ ~RxEmpty => RxContents[1] = RxFirst
<1>1. /\ rx_head \in RxSlots /\ rx_tail \in RxSlots /\ serial_rx_buffer \in [RxSlots -> Characters]
  BY DEF RingTypes
<1>2. Holds(RxContents, Characters, serial_rx_buffer, rx_head, rx_tail, RX_RING_BUFFER)
  BY <1>1, RingSizes, RingContents DEF RxContents
<1>3. /\ NextIndex(rx_head, RX_RING_BUFFER) \in RxSlots
      /\ NextIndex(rx_tail, RX_RING_BUFFER) \in RxSlots
  BY <1>1, RingSizes, RingIndices
<1>4. /\ RxContents \in Seq(Characters)
      /\ Len(RxContents) = IF rx_tail <= rx_head THEN rx_head - rx_tail
                           ELSE rx_head - rx_tail + RX_RING_BUFFER
  BY <1>2 DEF Holds
<1>5. rx_head \in 0 .. RX_BUFFER_SIZE /\ rx_tail \in 0 .. RX_BUFFER_SIZE /\ RX_BUFFER_SIZE \in Nat
  BY <1>1, BufferAssumption DEF RxSlots
<1>6. Len(RxContents) <= RX_BUFFER_SIZE /\ (RxEmpty <=> Len(RxContents) = 0)
  BY <1>4, <1>5, RingSizes DEF RxEmpty
<1>7. Len(RxContents) < RX_BUFFER_SIZE => NextIndex(rx_head, RX_RING_BUFFER) # rx_tail
  BY <1>4, <1>5, RingSizes DEF NextIndex
<1>8. ~RxEmpty => RxContents[1] = RxFirst
  <2> SUFFICES ASSUME ~RxEmpty PROVE RxContents[1] = RxFirst
    OBVIOUS
  <2>1. rx_head # rx_tail
    BY DEF RxEmpty
  <2> QED
    BY <1>1, <2>1, RingsOf, RingReleased DEF RxContents, RxFirst
<1>9. RxEmpty <=> RxContents = << >>
  BY <1>4, <1>6
<1> QED
  BY <1>1, <1>3, <1>4, <1>6, <1>7, <1>8, <1>9 DEF RxFirst

\* What the transmit ring holds when it is not empty.
LEMMA TxRing ==
  ASSUME RingTypes
  PROVE  /\ NextIndex(tx_head, TX_RING_BUFFER) \in TxSlots
         /\ NextIndex(tx_tail, TX_RING_BUFFER) \in TxSlots
         /\ TxFirst \in TxTokens
         /\ ~overrun /\ tx_head # tx_tail =>
              /\ TxContents \in Seq(Words) /\ TxContents # << >>
              /\ TxContents[1] = TxFirst /\ TxFirst \in Words
<1>1. /\ tx_head \in TxSlots /\ tx_tail \in TxSlots /\ serial_tx_buffer \in [TxSlots -> TxTokens]
      /\ ~overrun => TxContents \in Seq(Words)
  BY DEF RingTypes
<1>2. /\ NextIndex(tx_head, TX_RING_BUFFER) \in TxSlots
      /\ NextIndex(tx_tail, TX_RING_BUFFER) \in TxSlots
      /\ TxFirst \in TxTokens
  BY <1>1, RingSizes, RingIndices DEF TxFirst
<1>3. ASSUME ~overrun, tx_head # tx_tail
      PROVE  TxContents # << >> /\ TxContents[1] = TxFirst /\ TxFirst \in Words
  <2>1. TxContents # << >> /\ TxContents[1] = TxFirst
    BY <1>1, <1>3, RingsOf, RingReleased DEF TxContents, TxFirst
  <2> QED
    BY <1>1, <1>3, <2>1
<1> QED
  BY <1>1, <1>2, <1>3

\* The ways the rings change.
LEMMA RxStored ==
  ASSUME RingTypes, NEW c \in Characters, RxStore(c), UNCHANGED txVars
  PROVE  /\ RingTypes'
         /\ Len(RxContents) < RX_BUFFER_SIZE => RxContents' = Append(RxContents, c)
         /\ RxEmpty' => RxEmpty
<1>1. /\ rx_head \in RxSlots /\ rx_tail \in RxSlots /\ serial_rx_buffer \in [RxSlots -> Characters]
  BY DEF RingTypes
<1>2. TxContents' = TxContents /\ TxFull' = TxFull
  BY DEF TxContents, TxFull, txVars, TX_RING_BUFFER
<1>3. CASE NextIndex(rx_head, RX_RING_BUFFER) # rx_tail
  <2>1. /\ serial_rx_buffer' = [serial_rx_buffer EXCEPT ![rx_head] = c]
        /\ rx_head' = NextIndex(rx_head, RX_RING_BUFFER)
        /\ rx_tail' = rx_tail
    BY <1>3 DEF RxStore
  <2>2. Contents(serial_rx_buffer', NextIndex(rx_head, RX_RING_BUFFER),
                 rx_tail, RX_RING_BUFFER)
          = Append(Contents(serial_rx_buffer, rx_head, rx_tail, RX_RING_BUFFER), c)
    <3>1. Stores(serial_rx_buffer', serial_rx_buffer, rx_head, c)
      BY <2>1 DEF Stores
    <3> QED
      BY <1>3, <3>1, RingsOf, RingStored
  <2>3. RxContents' = Append(RxContents, c)
    BY <2>1, <2>2 DEF RxContents, RX_RING_BUFFER
  <2>4. RingTypes'
    BY <1>1, <1>2, <2>1, RxRing DEF RingTypes, txVars
  <2>5. ~RxEmpty'
    BY <1>3, <2>1 DEF RxEmpty
  <2> QED
    BY <2>3, <2>4, <2>5
<1>4. CASE NextIndex(rx_head, RX_RING_BUFFER) = rx_tail
  <2>1. UNCHANGED rxVars
    BY <1>4 DEF RxStore
  <2>2. RingTypes' /\ RxEmpty' = RxEmpty
    BY <1>2, <2>1 DEF RingTypes, rxVars, txVars, RxEmpty
  <2> QED
    BY <1>4, <2>2, RxRing
<1> QED
  BY <1>3, <1>4

\* serial_read takes the oldest character.
LEMMA RxReleased ==
  ASSUME RingTypes, ~RxEmpty, RxRelease, UNCHANGED txVars
  PROVE  RingTypes' /\ RxContents # << >> /\ RxContents' = Tail(RxContents)
<1>1. /\ rx_head \in RxSlots /\ rx_tail \in RxSlots /\ serial_rx_buffer \in [RxSlots -> Characters]
      /\ rx_head # rx_tail
  BY DEF RingTypes, RxEmpty
<1>2. TxContents' = TxContents /\ TxFull' = TxFull
  BY DEF TxContents, TxFull, txVars, TX_RING_BUFFER
<1>3. /\ rx_tail' = NextIndex(rx_tail, RX_RING_BUFFER)
      /\ serial_rx_buffer' = serial_rx_buffer /\ rx_head' = rx_head
  BY DEF RxRelease
<1>4. Contents(serial_rx_buffer, rx_head, NextIndex(rx_tail, RX_RING_BUFFER), RX_RING_BUFFER)
        = Tail(Contents(serial_rx_buffer, rx_head, rx_tail, RX_RING_BUFFER))
      /\ Contents(serial_rx_buffer, rx_head, rx_tail, RX_RING_BUFFER) # << >>
  BY <1>1, RingsOf, RingReleased
<1>5. RxContents # << >> /\ RxContents' = Tail(RxContents)
  BY <1>3, <1>4 DEF RxContents, RX_RING_BUFFER
<1>6. RingTypes'
  BY <1>1, <1>2, <1>3, RxRing DEF RingTypes, txVars
<1> QED
  BY <1>5, <1>6

\* serial_write finds room, and at its end enables the interrupt.
LEMMA TxAround ==
  ASSUME RingTypes, TxRoom \/ TxEnable, UNCHANGED rxVars
  PROVE  RingTypes' /\ TxContents' = TxContents /\ overrun' = overrun
<1>1. /\ UNCHANGED <<serial_tx_buffer, tx_head, tx_tail, overrun>>
      /\ tx_step' \in TxSteps
      /\ tx_step' \in {"store", "advance"} => ~TxFull
  BY DEF TxRoom, TxEnable, TxSteps
<1>3. udrie \in BOOLEAN => udrie' \in BOOLEAN
  BY Zenon DEF TxRoom, TxEnable
<1>2. TxContents' = TxContents /\ TxFull' = TxFull
  BY <1>1 DEF TxContents, TxFull, TX_RING_BUFFER
<1> QED
  BY <1>1, <1>2, <1>3 DEF RingTypes, rxVars

\* It stores its character in the slot at the head.
LEMMA TxStored ==
  ASSUME RingTypes, NEW c \in Words, tx_step = "store", TxStore(c), UNCHANGED rxVars
  PROVE  /\ RingTypes' /\ TxContents' = TxContents /\ overrun' = overrun
         /\ serial_tx_buffer'[tx_head'] = c
<1>1. /\ tx_head \in TxSlots /\ tx_tail \in TxSlots /\ serial_tx_buffer \in [TxSlots -> TxTokens]
      /\ c \in TxTokens
  BY DEF RingTypes, TxTokens
<1>2. /\ serial_tx_buffer' = [serial_tx_buffer EXCEPT ![tx_head] = c]
      /\ UNCHANGED <<tx_head, tx_tail, udrie, overrun>> /\ tx_step' = "advance"
  BY DEF TxStore
<1>3. Contents(serial_tx_buffer', tx_head, tx_tail, TX_RING_BUFFER)
        = Contents(serial_tx_buffer, tx_head, tx_tail, TX_RING_BUFFER)
  <2>1. Stores(serial_tx_buffer', serial_tx_buffer, tx_head, c)
    BY <1>2 DEF Stores
  <2> QED
    BY <1>1, <2>1, RingsOf, RingPrepared
<1>4. TxContents' = TxContents /\ TxFull' = TxFull
  BY <1>2, <1>3 DEF TxContents, TxFull, TX_RING_BUFFER
<1>5. serial_tx_buffer' \in [TxSlots -> TxTokens] /\ serial_tx_buffer'[tx_head'] = c
  BY <1>1, <1>2
<1>6. RingTypes'
  BY <1>1, <1>2, <1>4, <1>5 DEF RingTypes, rxVars, TxSteps
<1> QED
  BY <1>2, <1>4, <1>5, <1>6

\* With the new head the character stands behind the others.
LEMMA TxAdvanced ==
  ASSUME RingTypes, NEW c \in Words, tx_step = "advance", serial_tx_buffer[tx_head] = c,
         TxAdvance, UNCHANGED rxVars
  PROVE  /\ RingTypes' /\ overrun' = overrun
         /\ ~overrun => TxContents' = Append(TxContents, c)
<1>1. /\ tx_head \in TxSlots /\ tx_tail \in TxSlots /\ serial_tx_buffer \in [TxSlots -> TxTokens]
      /\ c \in TxTokens
  BY DEF RingTypes, TxTokens
<1>2. /\ tx_head' = NextIndex(tx_head, TX_RING_BUFFER) /\ tx_step' = "enable"
      /\ UNCHANGED <<serial_tx_buffer, tx_tail, udrie, overrun>>
  BY DEF TxAdvance
<1>3. ASSUME ~overrun
      PROVE  TxContents' = Append(TxContents, c) /\ TxContents' \in Seq(Words)
  <2>1. NextIndex(tx_head, TX_RING_BUFFER) # tx_tail /\ TxContents \in Seq(Words)
    BY <1>3 DEF RingTypes, TxFull
  <2>2. Stores(serial_tx_buffer, serial_tx_buffer, tx_head, c)
    BY <1>1 DEF Stores
  <2>3. Contents(serial_tx_buffer, NextIndex(tx_head, TX_RING_BUFFER), tx_tail, TX_RING_BUFFER)
          = Append(Contents(serial_tx_buffer, tx_head, tx_tail, TX_RING_BUFFER), c)
    BY <1>1, <2>1, <2>2, RingsOf, RingStored
  <2>4. TxContents' = Append(TxContents, c)
    BY <1>2, <2>3 DEF TxContents, TX_RING_BUFFER
  <2> QED
    BY <2>1, <2>4, AppendProperties
<1>4. RingTypes'
  BY <1>1, <1>2, <1>3, TxRing DEF RingTypes, rxVars, TxSteps
<1> QED
  BY <1>2, <1>3, <1>4

\* The data register empty interrupt sends the oldest character, or overruns
\* the ring.
LEMMA TxSent ==
  ASSUME RingTypes, TxSend, UNCHANGED rxVars
  PROVE  /\ RingTypes' /\ TxFirst \in TxTokens
         /\ ~overrun' => /\ ~overrun /\ TxContents \in Seq(Words) /\ TxContents # << >>
                         /\ TxContents[1] = TxFirst /\ TxFirst \in Words
                         /\ TxContents' = Tail(TxContents)
<1>1. /\ tx_head \in TxSlots /\ tx_tail \in TxSlots /\ serial_tx_buffer \in [TxSlots -> TxTokens]
      /\ overrun \in BOOLEAN /\ tx_step \in TxSteps
  BY DEF RingTypes
<1>2. /\ tx_tail' = NextIndex(tx_tail, TX_RING_BUFFER)
      /\ serial_tx_buffer' = serial_tx_buffer /\ tx_head' = tx_head /\ tx_step' = tx_step
      /\ udrie' = (tx_tail' # tx_head)
      /\ overrun' = (overrun \/ tx_head = tx_tail)
  BY DEF TxSend
<1>3. ASSUME ~overrun'
      PROVE  /\ ~overrun /\ TxContents \in Seq(Words) /\ TxContents # << >>
             /\ TxContents[1] = TxFirst /\ TxFirst \in Words
             /\ TxContents' = Tail(TxContents) /\ TxContents' \in Seq(Words)
             /\ tx_step' \in {"store", "advance"} => ~TxFull'
  <2>1. ~overrun /\ tx_head # tx_tail
    BY Zenon, <1>2, <1>3
  <2>2. /\ TxContents \in Seq(Words) /\ TxContents # << >>
        /\ TxContents[1] = TxFirst /\ TxFirst \in Words
    BY <2>1, TxRing
  <2>3. Contents(serial_tx_buffer, tx_head, NextIndex(tx_tail, TX_RING_BUFFER), TX_RING_BUFFER)
          = Tail(Contents(serial_tx_buffer, tx_head, tx_tail, TX_RING_BUFFER))
    BY <1>1, <2>1, RingsOf, RingReleased
  <2>4. TxContents' = Tail(TxContents)
    BY <1>2, <2>3 DEF TxContents, TX_RING_BUFFER
  <2>5. NextIndex(tx_head, TX_RING_BUFFER) # NextIndex(tx_tail, TX_RING_BUFFER)
    <3>1. /\ TX_RING_BUFFER \in Nat /\ tx_head \in 0 .. (TX_RING_BUFFER - 1)
          /\ tx_tail \in 0 .. (TX_RING_BUFFER - 1)
      BY <1>1, RingSizes
    <3> QED
      BY <2>1, <3>1 DEF NextIndex
  <2>6. ~TxFull'
    BY <1>2, <2>5 DEF TxFull, TX_RING_BUFFER
  <2> QED
    BY <2>1, <2>2, <2>4, <2>6, HeadTailProperties
<1>4. TxFirst \in TxTokens
  BY TxRing
<1>5. RingTypes'
  BY <1>1, <1>2, <1>3, TxRing DEF RingTypes, rxVars
<1> QED
  BY <1>3, <1>4, <1>5

\* A step that leaves the serial variables alone leaves what the rings hold.
LEMMA RingsSame ==
  RingTypes /\ UNCHANGED serialVars
    => /\ RingTypes' /\ RxContents' = RxContents /\ TxContents' = TxContents
       /\ RxEmpty' = RxEmpty /\ tx_step' = tx_step /\ (UNCHANGED out => (WriteTypes' <=> WriteTypes))
  BY DEF RingTypes, serialVars, rxVars, txVars, RxContents, TxContents, RxEmpty, RX_RING_BUFFER,
         TX_RING_BUFFER, TxFull, WriteTypes

\* What serial_write has in hand outlasts the interrupts.
LEMMA WriteSame ==
  UNCHANGED <<serial_tx_buffer, tx_head, tx_step, out>> => (WriteTypes' <=> WriteTypes)
  BY DEF WriteTypes

\* Every step of serial_write: it goes on, or its character moves from hand to
\* ring, or a reset makes it drop the character.
LEMMA TxWritten ==
  ASSUME LinkTypes, Write
  PROVE  /\ RingTypes' /\ WriteTypes' /\ out' \in Seq(Words) /\ overrun' = overrun
         /\ ~overrun =>
              \/ TxContents' = TxContents /\ out' = out
              \/ /\ out # << >> /\ Head(out) \in Words /\ out' = Tail(out)
                 /\ TxContents' = Append(TxContents, Head(out))
              \/ /\ out # << >> /\ Head(out) \in Words /\ out' = Tail(out)
                 /\ TxContents' = TxContents /\ "RESET" \in exec
<1>1. RingTypes /\ WriteTypes /\ out \in Seq(Words)
  BY DEF LinkTypes, MainTypes
<1>2. out # << >> => Head(out) \in Words /\ Tail(out) \in Seq(Words)
  BY <1>1, HeadTailProperties
<1>3. UNCHANGED rxVars
  BY DEF Write, WriteRoom, WriteStore, WriteAdvance, WriteEnable, MainOnly
<1>4. CASE WriteRoom
  <2>1. CASE TxRoom /\ UNCHANGED out
    <3>1. RingTypes' /\ TxContents' = TxContents /\ overrun' = overrun
      BY <1>1, <1>3, <2>1, TxAround
    <3>2. WriteTypes'
      BY <1>4, <2>1 DEF WriteRoom, TxRoom, WriteTypes
    <3> QED
      BY <1>1, <2>1, <3>1, <3>2
  <2>2. CASE TxFull /\ "RESET" \in exec /\ out' = Tail(out) /\ UNCHANGED txVars
    <3>1. RingTypes' /\ TxContents' = TxContents /\ overrun' = overrun /\ tx_step' = "room"
      BY <1>1, <1>3, <1>4, <2>2, RingsSame DEF serialVars, txVars, WriteRoom
    <3>2. WriteTypes'
      BY <3>1 DEF WriteTypes
    <3> QED
      BY <1>2, <1>4, <2>2, <3>1, <3>2 DEF WriteRoom
  <2> QED
    BY <1>4, <2>1, <2>2 DEF WriteRoom
<1>5. CASE WriteStore
  <2>1. tx_step = "store" /\ TxStore(Head(out)) /\ out' = out /\ tx_step' = "advance"
    BY <1>5 DEF WriteStore, TxStore
  <2>2. out # << >> /\ Head(out) \in Words
    BY <1>1, <1>2, <2>1 DEF WriteTypes
  <2>3. /\ RingTypes' /\ TxContents' = TxContents /\ overrun' = overrun
        /\ serial_tx_buffer'[tx_head'] = Head(out)
    BY <1>1, <1>3, <2>1, <2>2, TxStored
  <2>4. WriteTypes'
    BY <2>1, <2>2, <2>3 DEF WriteTypes
  <2> QED
    BY <1>1, <2>1, <2>3, <2>4
<1>6. CASE WriteAdvance
  <2>1. tx_step = "advance" /\ TxAdvance /\ out' = Tail(out) /\ tx_step' = "enable"
    BY <1>6 DEF WriteAdvance, TxAdvance
  <2>2. out # << >> /\ Head(out) \in Words /\ serial_tx_buffer[tx_head] = Head(out)
    BY <1>1, <1>2, <2>1 DEF WriteTypes
  <2>3. /\ RingTypes' /\ overrun' = overrun
        /\ ~overrun => TxContents' = Append(TxContents, Head(out))
    BY <1>1, <1>3, <2>1, <2>2, TxAdvanced
  <2>4. WriteTypes'
    BY <2>1 DEF WriteTypes
  <2> QED
    BY <1>2, <2>1, <2>2, <2>3, <2>4
<1>7. CASE WriteEnable
  <2>1. TxEnable /\ out' = out /\ tx_step' = "room"
    BY <1>7 DEF WriteEnable, TxEnable
  <2>2. RingTypes' /\ TxContents' = TxContents /\ overrun' = overrun
    BY <1>1, <1>3, <2>1, TxAround
  <2>3. WriteTypes'
    BY <2>1 DEF WriteTypes
  <2> QED
    BY <1>1, <2>1, <2>2, <2>3
<1> QED
  BY <1>4, <1>5, <1>6, <1>7 DEF Write

\* The lines of the host.
LEMMA LineFacts ==
  ASSUME NEW l \in Lines
  PROVE  /\ l.chars \in Seq(Characters) /\ l.text \in Seq(Characters) /\ l.overflow \in BOOLEAN
         /\ Len(l.chars) \in 1 .. RX_BUFFER_SIZE
         /\ \A i \in 1 .. Len(l.chars) : l.chars[i] = "nl" <=> i = Len(l.chars)
<1>1. l \in [chars : Seq(STRING), text : Seq(STRING), overflow : BOOLEAN]
  BY LineAssumption
<1>2. l.chars \in Seq(STRING) /\ l.text \in Seq(STRING) /\ l.overflow \in BOOLEAN
  BY <1>1
<1>3. Seq(STRING) \subseteq Seq(Characters)
  BY DEF Characters
<1> QED
  BY <1>2, <1>3, LineAssumption

\* The character taken leaves a line that fits its buffer.
LEMMA LineTyped ==
  ASSUME NEW text \in Seq(Characters), Len(text) < LINE_BUFFER_SIZE,
         NEW flags \in SUBSET Flags, NEW c \in Characters
  PROVE  /\ LineAfter(text, flags, c) \in Seq(Characters)
         /\ Len(LineAfter(text, flags, c)) < LINE_BUFFER_SIZE
         /\ FlagsAfter(text, flags, c) \in SUBSET Flags
<1>1. Upper(c) \in Characters
  <2>1. "G" \in Characters /\ "X" \in Characters
    BY DEF Characters
  <2>2. Upper(c) = "G" \/ Upper(c) = "X" \/ Upper(c) = c
    BY DEF Upper
  <2> QED
    BY <2>1, <2>2
<1>2. LINE_BUFFER_SIZE \in Nat /\ Len(text) \in Nat
  BY LineAssumption
<1>3. LineAfter(text, flags, c) \in Seq(Characters) /\ Len(LineAfter(text, flags, c)) < LINE_BUFFER_SIZE
  <2>1. CASE \/ flags # {} \/ c \in Blanks \cup {"(", ";", "/"}
             \/ Len(text) >= LINE_BUFFER_SIZE - 1
    BY <2>1 DEF LineAfter
  <2>2. CASE ~(\/ flags # {} \/ c \in Blanks \cup {"(", ";", "/"}
               \/ Len(text) >= LINE_BUFFER_SIZE - 1)
    <3>1. LineAfter(text, flags, c) = Append(text, Upper(c))
      BY <2>2 DEF LineAfter
    <3>2. Append(text, Upper(c)) \in Seq(Characters) /\ Len(Append(text, Upper(c))) = Len(text) + 1
      BY <1>1, AppendProperties
    <3>3. ~(Len(text) >= LINE_BUFFER_SIZE - 1)
      BY <2>2
    <3>4. Len(text) + 1 < LINE_BUFFER_SIZE
      BY <1>2, <3>3
    <3> QED
      BY <3>1, <3>2, <3>4
  <2> QED
    BY <2>1, <2>2
<1>4. FlagsAfter(text, flags, c) \in SUBSET Flags
  BY DEF FlagsAfter, Flags
<1> QED
  BY <1>3, <1>4

\* Messages of the program.
LEMMA MessageTyped ==
  \A text \in Words : Message(text) = <<text, "eol">> /\ Message(text) \in Seq(Words)
  BY DEF Message, Words
-----------------------------------------------------------------------------
\* The types are kept, one group of actions after the other.

\* The steps of the host and of the hardware keep the types.
LEMMA TypesHost ==
  ASSUME LinkTypes, HostStep \/ Receive \/ Transmit
  PROVE  LinkTypes'
<1> USE DEF LinkTypes
<1>1. CASE BeginLine
  <2>1. PICK l \in Lines : /\ sending' = l.chars /\ outstanding' = Append(outstanding, l)
                           /\ begun' = Append(begun, l)
    BY <1>1 DEF BeginLine
  <2>2. sending' \in Seq(Characters) /\ outstanding' \in Seq(Lines) /\ begun' \in Seq(Lines)
    BY <2>1, LineFacts DEF HostTypes
  <2>3. HostTypes'
    BY <1>1, <2>2 DEF HostTypes, BeginLine
  <2>4. RingTypes' /\ WriteTypes' /\ RxEmpty' = RxEmpty
    BY <1>1, RingsSame DEF BeginLine, mainVars
  <2>5. MainTypes' /\ OverrideTypes'
    BY <1>1, <2>4 DEF MainTypes, OverrideTypes, BeginLine, mainVars, lineVars,
                    overrideVars, flagVars
  <2> QED
    BY <2>3, <2>4, <2>5
<1>2. CASE ReceiveReset
  <2>1. HostTypes'
    BY <1>2 DEF HostTypes, ReceiveReset
  <2>2. RingTypes' /\ WriteTypes' /\ RxEmpty' = RxEmpty
    BY <1>2, RingsSame DEF ReceiveReset, mainVars
  <2>3. MainTypes' /\ OverrideTypes'
    BY <1>2, <2>2 DEF MainTypes, OverrideTypes, ReceiveReset, mainVars, lineVars,
                    overrideVars, flagVars
  <2> QED
    BY <2>1, <2>2, <2>3
<1>3. CASE ReceiveStatus
  <2>1. HostTypes'
    BY <1>3 DEF HostTypes, ReceiveStatus
  <2>2. RingTypes' /\ WriteTypes' /\ RxEmpty' = RxEmpty
    BY <1>3, RingsSame DEF ReceiveStatus, mainVars
  <2>3. MainTypes' /\ OverrideTypes'
    BY <1>3, <2>2 DEF MainTypes, OverrideTypes, ReceiveStatus, mainVars, lineVars,
                    overrideVars, flagVars
  <2> QED
    BY <2>1, <2>2, <2>3
<1>4. CASE ReceiveOverride
  <2>1. HostTypes'
    BY <1>4 DEF HostTypes, ReceiveOverride
  <2>2. RingTypes' /\ WriteTypes' /\ RxEmpty' = RxEmpty
    BY <1>4, RingsSame DEF ReceiveOverride, mainVars
  <2>3. MainTypes'
    BY <1>4, <2>2 DEF MainTypes, ReceiveOverride, mainVars, lineVars
  <2>4. OverrideTypes'
    BY <1>4 DEF OverrideTypes, ReceiveOverride, SpeedCommands, RapidCommands
  <2> QED
    BY <2>1, <2>2, <2>3, <2>4
<1>5. CASE Receive
  <2>1. sending # << >> /\ sending' = Tail(sending) /\ RxStore(Head(sending))
        /\ UNCHANGED txVars /\ Head(sending) \in Characters /\ Tail(sending) \in Seq(Characters)
    BY <1>5, HeadTailProperties DEF Receive, HostTypes
  <2>2. RingTypes' /\ (RxEmpty' => RxEmpty)
    BY <2>1, RxStored
  <2>3. HostTypes'
    BY <1>5, <2>1 DEF HostTypes, Receive
  <2>4. MainTypes' /\ OverrideTypes'
    BY <1>5, <2>2 DEF MainTypes, OverrideTypes, Receive, mainVars, lineVars,
                    overrideVars, flagVars
  <2>5. WriteTypes'
    BY <1>5, <2>1, WriteSame DEF Receive, txVars, mainVars
  <2> QED
    BY <2>2, <2>3, <2>4, <2>5
<1>6. CASE Transmit
  <2>1. TxSend /\ UNCHANGED rxVars
    BY <1>6 DEF Transmit
  <2>2. RingTypes' /\ TxFirst \in TxTokens
    BY <2>1, TxSent
  <2>6. WriteTypes'
    BY <1>6, WriteSame DEF Transmit, TxSend, mainVars
  <2>3. HostTypes'
    <3>1. outstanding' \in Seq(Lines)
      BY <1>6, HeadTailProperties DEF HostTypes, Transmit
    <3>2. word' \in TxTokens \ {"eol"}
      BY <1>6, <2>2 DEF Transmit, TxTokens, Words
    <3>3. waiting' \in BOOLEAN /\ UNCHANGED <<sending, begun>>
      BY <1>6 DEF Transmit, HostTypes
    <3> QED
      BY <3>1, <3>2, <3>3 DEF HostTypes
  <2>4. RxEmpty' = RxEmpty
    BY <2>1 DEF rxVars, RxEmpty
  <2>5. MainTypes' /\ OverrideTypes'
    BY <1>6, <2>4 DEF MainTypes, OverrideTypes, Transmit, mainVars, lineVars,
                    overrideVars, flagVars
  <2> QED
    BY <2>2, <2>3, <2>5, <2>6
<1> QED
  BY <1>1, <1>2, <1>3, <1>4, <1>5, <1>6 DEF HostStep

\* Steps of the main program that leave the rings alone.
LEMMA TypesQuiet ==
  ASSUME LinkTypes, Quiet
  PROVE  HostTypes' /\ RingTypes' /\ RxEmpty' = RxEmpty /\ tx_step' = tx_step
<1>1. HostTypes'
  BY DEF Quiet, LinkTypes, HostTypes, hostVars
<1>2. RingTypes' /\ RxEmpty' = RxEmpty /\ tx_step' = tx_step
  BY RingsSame DEF Quiet, LinkTypes
<1> QED
  BY <1>1, <1>2

\* So do the realtime commands and the loop.
LEMMA TypesRealtime ==
  ASSUME LinkTypes,
         \/ Boot \/ RtReset \/ RtReport \/ RtClear \/ RtOverride
         \/ ReadChar \/ DuringLine \/ CutLine \/ Restart
  PROVE  LinkTypes'
<1> USE DEF RtOverride, RtMotion, RtMotionClear, RtAccessory, RtAccessoryClear
<1>1. /\ HostTypes' /\ RingTypes' /\ RxEmpty' = RxEmpty
      /\ tx_step = "room" /\ tx_step' = "room"
  BY TypesQuiet DEF Boot, RtReset, RtReport, RtClear, ReadChar, DuringLine, CutLine, Restart, At
<1>4. WriteTypes'
  BY <1>1 DEF WriteTypes
<1>2. OverrideTypes'
  BY DEF LinkTypes, OverrideTypes, Boot, RtReset, RtReport, RtClear, ReadChar,
         DuringLine, CutLine, Restart, overrideVars, flagVars, SpeedCommands, RapidCommands
<1>3. MainTypes'
  <2> USE <1>1 DEF LinkTypes, MainTypes, lineVars, Labels, Realtime, At
  <2>1. CASE Boot
    BY <2>1 DEF Boot
  <2>2. CASE RtReset
    BY <2>2 DEF RtReset
  <2>3. CASE RtReport
    <3>1. out' \in Seq(Words)
      BY <2>3, MessageTyped DEF RtReport, Words
    <3> QED
      BY <2>3, <3>1 DEF RtReport
  <2>4. CASE RtClear
    BY <2>4 DEF RtClear
  <2>5. CASE RtOverride
    BY <2>5
  <2>6. CASE ReadChar
    BY <2>6 DEF ReadChar, Call
  <2>7. CASE DuringLine
    BY <2>7 DEF DuringLine, Call
  <2>8. CASE CutLine
    <3>1. out' \in Seq(Words)
      BY <2>8, MessageTyped DEF CutLine, Words
    <3> QED
      BY <2>8, <3>1 DEF CutLine
  <2>9. CASE Restart
    BY <2>9 DEF Restart
  <2> QED
    BY <2>1, <2>2, <2>3, <2>4, <2>5, <2>6, <2>7, <2>8, <2>9
<1> QED
  BY <1>1, <1>2, <1>3, <1>4 DEF LinkTypes

\* So do the steps of the main program that read, write and execute.
LEMMA TypesMain ==
  ASSUME LinkTypes, Flush \/ Write \/ TakeChar \/ ExecuteLine
  PROVE  LinkTypes'
<1> USE DEF LinkTypes
<1>1. CASE Flush
  <2>1. HostTypes'
    BY <1>1 DEF Flush, HostTypes, hostVars
  <2>2. RingTypes'
    <3>1. TxContents' = TxContents
      BY <1>1 DEF Flush, txVars, TxContents, TX_RING_BUFFER
    <3>2. rx_tail' = rx_head /\ UNCHANGED <<serial_rx_buffer, rx_head>>
          /\ UNCHANGED <<serial_tx_buffer, tx_head, tx_tail, udrie, tx_step, overrun>>
      BY <1>1 DEF Flush, serial_reset_read_buffer, txVars
    <3>3. TxFull' = TxFull
      BY <3>2 DEF TxFull, TX_RING_BUFFER
    <3> QED
      BY <3>1, <3>2, <3>3 DEF RingTypes
  <2>6. WriteTypes'
    BY <1>1 DEF Flush, At, txVars, WriteTypes
  <2>3. OverrideTypes'
    BY <1>1 DEF Flush, OverrideTypes, overrideVars, flagVars
  <2>4. out' \in Seq(Words) /\ line' \in Seq(Characters) /\ Len(line') < LINE_BUFFER_SIZE
        /\ executed' \in Seq([text : Seq(Characters), overflow : BOOLEAN])
    <3>1. Len(<< >>) = 0 /\ line' = << >> /\ executed' = << >> /\ out' = Message("Grbl")
      BY <1>1 DEF Flush
    <3> QED
      BY <3>1, MessageTyped, LineAssumption DEF Words
  <2>5. MainTypes'
    BY <1>1, <2>4 DEF Flush, MainTypes, Labels, Realtime
  <2> QED
    BY <2>1, <2>2, <2>3, <2>5, <2>6
<1>2. CASE Write
  <2> USE DEF Write, WriteRoom, WriteStore, WriteAdvance, WriteEnable, MainOnly
  <2>1. HostTypes'
    BY <1>2 DEF HostTypes, hostVars
  <2>2. RingTypes' /\ WriteTypes' /\ out' \in Seq(Words)
    BY <1>2, TxWritten
  <2>3. RxEmpty' = RxEmpty
    BY <1>2 DEF rxVars, RxEmpty
  <2>4. MainTypes' /\ OverrideTypes'
    BY <1>2, <2>2, <2>3 DEF MainTypes, OverrideTypes, lineVars, overrideVars, flagVars
  <2> QED
    BY <2>1, <2>2, <2>4
<1>3. CASE TakeChar
  <2>1. HostTypes'
    BY <1>3 DEF TakeChar, HostTypes, hostVars
  <2>2. RingTypes' /\ RxFirst \in Characters
    BY <1>3, RxReleased, RxRing DEF TakeChar, At, MainTypes
  <2>3. /\ line' \in Seq(Characters) /\ Len(line') < LINE_BUFFER_SIZE /\ line_flags' \subseteq Flags
    <3>1. CASE RxFirst = "nl"
      BY <1>3, <3>1 DEF TakeChar, lineVars, MainTypes
    <3>2. CASE RxFirst # "nl"
      BY <1>3, <2>2, <3>2, LineTyped DEF TakeChar, MainTypes
    <3> QED
      BY <3>1, <3>2
  <2>4. MainTypes'
    BY <1>3, <2>3 DEF TakeChar, MainTypes, Labels, Realtime, Call
  <2>5. OverrideTypes'
    BY <1>3 DEF TakeChar, OverrideTypes, overrideVars, flagVars
  <2>6. WriteTypes'
    BY <1>3, WriteSame DEF TakeChar, txVars
  <2> QED
    BY <2>1, <2>2, <2>4, <2>5, <2>6
<1>4. CASE ExecuteLine
  <2>1. HostTypes' /\ RingTypes' /\ RxEmpty' = RxEmpty
    BY <1>4, TypesQuiet DEF ExecuteLine
  <2>2. out' \in Seq(Words)
    BY <1>4, MessageTyped DEF ExecuteLine, Words
  <2>3. executed' \in Seq([text : Seq(Characters), overflow : BOOLEAN])
    <3>1. [text |-> line, overflow |-> "OVERFLOW" \in line_flags]
            \in [text : Seq(Characters), overflow : BOOLEAN]
      BY DEF MainTypes
    <3> QED
      BY <1>4, <3>1 DEF ExecuteLine, MainTypes
  <2>4. line' \in Seq(Characters) /\ Len(line') < LINE_BUFFER_SIZE /\ line_flags' \subseteq Flags
    <3>1. Len(<< >>) = 0 /\ line' = << >> /\ line_flags' = {}
      BY <1>4 DEF ExecuteLine, NextLine
    <3> QED
      BY <3>1, LineAssumption
  <2>5. MainTypes'
    BY <1>4, <2>2, <2>3, <2>4 DEF ExecuteLine, MainTypes, Labels, Realtime
  <2>6. OverrideTypes'
    BY <1>4 DEF ExecuteLine, OverrideTypes, overrideVars, flagVars
  <2>7. WriteTypes'
    BY <1>4, <2>1, TypesQuiet DEF ExecuteLine, At, WriteTypes
  <2> QED
    BY <2>1, <2>5, <2>6, <2>7
<1> QED
  BY <1>1, <1>2, <1>3, <1>4

\* Every step keeps the types.
LEMMA TypesStep == LinkTypes /\ [Next]_vars => LinkTypes'
<1> SUFFICES ASSUME LinkTypes, [Next]_vars PROVE LinkTypes'
  OBVIOUS
<1>1. CASE UNCHANGED vars
  <2>1. RingTypes' /\ WriteTypes' /\ RxEmpty' = RxEmpty
    BY <1>1, RingsSame DEF vars, LinkTypes, mainVars
  <2> QED
    BY <1>1, <2>1 DEF vars, LinkTypes, HostTypes, MainTypes, OverrideTypes, hostVars, mainVars,
                      lineVars, overrideVars, flagVars
<1> QED
  BY <1>1, TypesHost, TypesRealtime, TypesMain DEF Next, MainStep

\* The types hold at the start.
LEMMA TypesInit == LinkInit => LinkTypes
<1> SUFFICES ASSUME LinkInit PROVE LinkTypes
  OBVIOUS
<1>1. /\ rx_head = 0 /\ rx_tail = 0 /\ tx_head = 0 /\ tx_tail = 0 /\ udrie = FALSE
      /\ tx_step = "room" /\ overrun = FALSE
      /\ serial_rx_buffer = [i \in 0 .. (RX_RING_BUFFER - 1) |-> "none"]
      /\ serial_tx_buffer = [i \in 0 .. (TX_RING_BUFFER - 1) |-> "none"]
  BY DEF LinkInit, SerialInit
<1>2. /\ serial_rx_buffer \in [RxSlots -> Characters] /\ serial_tx_buffer \in [TxSlots -> TxTokens]
      /\ 0 \in RxSlots /\ 0 \in TxSlots
  <2>1. "none" \in Characters /\ "none" \in TxTokens
    BY DEF Characters, TxTokens
  <2>2. serial_rx_buffer = [i \in RxSlots |-> "none"] /\ serial_tx_buffer = [i \in TxSlots |-> "none"]
    BY <1>1, RingSizes
  <2>3. 0 \in RxSlots /\ 0 \in TxSlots
    BY BufferAssumption DEF RxSlots, TxSlots
  <2> QED
    BY <2>1, <2>2, <2>3
<1>3. TxContents \in Seq(Words)
  <2>1. (0 - 0) % TX_RING_BUFFER = 0
    BY RingSizes
  <2>2. TxContents = [k \in 1 .. 0 |-> serial_tx_buffer[(0 + k - 1) % TX_RING_BUFFER]]
    BY <1>1, <2>1 DEF TxContents, Contents
  <2> QED
    BY <2>2
<1>4. RingTypes /\ WriteTypes
  BY <1>1, <1>2, <1>3 DEF RingTypes, WriteTypes, TxSteps
<1>5. HostTypes
  BY DEF LinkInit, HostTypes, TxTokens
<1>6. MainTypes
  <2>1. /\ pc = "boot" /\ ret = "none" /\ out = << >> /\ abort = FALSE /\ exec = {}
        /\ line = << >> /\ line_flags = {} /\ executed = << >>
    BY DEF LinkInit
  <2>2. Len(line) < LINE_BUFFER_SIZE
    <3>1. Len(<< >>) = 0
      OBVIOUS
    <3> QED
      BY <2>1, <3>1, LineAssumption
  <2>3. /\ line \in Seq(Characters) /\ out \in Seq(Words)
        /\ executed \in Seq([text : Seq(Characters), overflow : BOOLEAN])
    BY <2>1
  <2> QED
    BY <2>1, <2>2, <2>3 DEF MainTypes, Labels, Realtime
<1>7. OverrideTypes
  BY DEF LinkInit, OverrideTypes
<1> QED
  BY <1>4, <1>5, <1>6, <1>7 DEF LinkTypes

\* The types of the link: no index leaves its ring, no line outgrows its
\* buffer.
THEOREM LinkTypeSafety == Spec => []TypeOK
  BY TypesInit, TypesStep, TypesSuffice, PTL DEF Spec
-----------------------------------------------------------------------------
\* The steps of the overrides touch no more than their flags, and stay within
\* the realtime commands until they return.
LEMMA OverrideSteps ==
  ASSUME RtOverride
  PROVE  /\ Quiet /\ UNCHANGED <<exec, abort, lineVars, out, ret, executed>> /\ out = << >>
         /\ pc \in {"rt_override", "rt_motion", "rt_accessory", "rt_spindle"}
         /\ pc' \in {"rt_motion", "rt_accessory", "rt_spindle", ret}
  BY DEF RtOverride, RtMotion, RtMotionClear, RtAccessory, RtAccessoryClear, At

\* The modes of host and program.
LEMMA ModesStep == LinkTypes /\ Modes /\ [Next]_vars /\ (~waiting' => ~waiting \/ Booted) => Modes'
<1> SUFFICES ASSUME LinkTypes, Modes, [Next]_vars, ~waiting' => ~waiting \/ Booted PROVE Modes'
  OBVIOUS
<1> USE DEF Modes, Booted, Busy
<1>1. CASE HostStep
  <2>1. RxEmpty' = RxEmpty
    BY <1>1 DEF HostStep, BeginLine, ReceiveReset, ReceiveStatus, ReceiveOverride, serialVars,
                rxVars, RxEmpty
  <2> QED
    BY <1>1, <2>1 DEF HostStep, BeginLine, ReceiveReset, ReceiveStatus, ReceiveOverride, mainVars,
                      lineVars
<1>2. CASE Receive
  BY <1>2 DEF Receive, mainVars, lineVars
<1>3. CASE Transmit
  BY <1>3 DEF Transmit, mainVars, lineVars, rxVars, RxEmpty
<1>4. CASE Flush
  BY <1>4 DEF Flush, hostVars, serial_reset_read_buffer, RxEmpty, Realtime
<1>5. CASE Write
  <2>1. UNCHANGED <<rxVars, hostVars, exec, abort, lineVars, pc, ret, executed>>
    BY <1>5 DEF Write, WriteRoom, WriteStore, WriteAdvance, WriteEnable, MainOnly
  <2> QED
    BY <2>1 DEF hostVars, rxVars, RxEmpty, lineVars
<1>6. CASE TakeChar
  BY <1>6 DEF TakeChar, At, hostVars, Call, lineVars
<1>7. CASE Boot \/ RtReset \/ RtReport \/ RtClear \/ RtOverride \/ ReadChar \/ DuringLine
           \/ CutLine \/ Restart \/ ExecuteLine
  <2>1. RxEmpty' = RxEmpty /\ UNCHANGED <<waiting, sending, outstanding, begun>>
    BY <1>7, OverrideSteps DEF Boot, RtReset, RtReport, RtClear, ReadChar, DuringLine,
                CutLine, Restart, ExecuteLine, Quiet, serialVars, rxVars, hostVars, RxEmpty
  <2>2. CASE Boot \/ RtReset \/ RtReport \/ RtClear \/ RtOverride
    BY <2>1, <2>2, OverrideSteps DEF Boot, RtReset, RtReport, RtClear, At, lineVars, LinkTypes,
                      MainTypes, Realtime
  <2>3. CASE ReadChar \/ DuringLine \/ CutLine \/ Restart \/ ExecuteLine
    BY <2>1, <2>3 DEF ReadChar, DuringLine, CutLine, Restart, ExecuteLine, At, Call, lineVars
  <2> QED
    BY <1>7, <2>2, <2>3
<1>8. CASE UNCHANGED vars
  BY <1>8 DEF vars, serialVars, rxVars, hostVars, mainVars, lineVars, RxEmpty
<1> QED
  BY <1>1, <1>2, <1>3, <1>4, <1>5, <1>6, <1>7, <1>8 DEF Next, MainStep

-----------------------------------------------------------------------------
\* The stream of words to the host.

\* The word the host has begun to receive, as a sequence, and a stream.
Lead(w) == IF w = "none" THEN << >> ELSE <<w>>
StreamOf(w, t, o) == Lead(w) \o t \o o

\* The word the host holds when the first character of t has come.
WordAfter(t) == IF t[1] = "eol" THEN "none" ELSE t[1]

\* The stream is one.
LEMMA StreamIs == Stream = StreamOf(word, TxContents, out)
  BY DEF Stream, StreamOf, Lead

\* The word begun, as a sequence of words.
LEMMA LeadIs ==
  ASSUME NEW w \in TxTokens
  PROVE  /\ Lead(w) \in Seq(Words)
         /\ w = "none" => Lead(w) = << >>
         /\ w # "none" => Lead(w) = <<w>> /\ <<w>> \in Seq(Words)
<1>1. w # "none" => <<w>> \in Seq(Words)
  BY DEF TxTokens
<1> QED
  BY <1>1 DEF Lead

\* The stream is a sequence of words.
LEMMA StreamTyped ==
  ASSUME NEW w \in TxTokens, NEW t \in Seq(Words), NEW o \in Seq(Words)
  PROVE  StreamOf(w, t, o) \in Seq(Words)
  BY LeadIs, ConcatProperties DEF StreamOf

\* A sequence is its first element and the rest.
LEMMA FirstAndRest ==
  ASSUME NEW S, NEW s \in Seq(S), s # << >>
  PROVE  /\ Head(s) \in S /\ Tail(s) \in Seq(S) /\ <<Head(s)>> \in Seq(S) /\ Head(s) = s[1]
         /\ s = <<Head(s)>> \o Tail(s)
<1>1. /\ Head(s) \in S /\ Tail(s) \in Seq(S) /\ Len(Tail(s)) = Len(s) - 1
      /\ \A i \in 1 .. Len(Tail(s)) : Tail(s)[i] = s[i + 1]
  BY HeadTailProperties
<1>2. PICK a, b : a = Head(s) /\ b = Tail(s)
  OBVIOUS
<1>3. <<a>> \in Seq(S) /\ Head(s) = s[1]
  BY <1>1, <1>2
<1>4. PICK r \in Seq(S) : r = <<a>> \o b
  BY <1>1, <1>2, <1>3, ConcatProperties
<1>5. PICK n \in Nat : n = Len(s) /\ n > 0
  OBVIOUS
<1>6. /\ Len(r) = 1 + Len(b)
      /\ \A j \in 1 .. (1 + Len(b)) : r[j] = IF j <= 1 THEN <<a>>[j] ELSE b[j - 1]
  <2>1. Len(<<a>>) = 1
    OBVIOUS
  <2> QED
    BY <1>1, <1>2, <1>3, <1>4, <2>1, ConcatProperties
<1>7. Len(r) = n /\ Len(b) = n - 1
  BY <1>1, <1>2, <1>5, <1>6
<1>8. ASSUME NEW j \in 1 .. n
      PROVE  r[j] = s[j]
  <2>1. CASE j = 1
    <3>1. r[1] = <<a>>[1]
      BY <1>5, <1>6, <1>7
    <3> QED
      BY <1>2, <1>3, <2>1, <3>1
  <2>2. CASE j # 1
    <3>1. PICK i \in 1 .. (n - 1) : j = i + 1
      BY <2>2
    <3>2. r[j] = b[i]
      BY <1>6, <1>7, <3>1
    <3>3. b[i] = s[i + 1]
      BY <1>1, <1>2, <1>7
    <3> QED
      BY <3>1, <3>2, <3>3
  <2> QED
    BY <2>1, <2>2
<1>9. r = s
  BY <1>4, <1>5, <1>7, <1>8, SeqEqual
<1> QED
  BY <1>1, <1>2, <1>3, <1>4, <1>9

\* Words join as sequences do.
LEMMA JoinTyped == \A a \in Seq(Words), b \in Seq(Words) : a \o b \in Seq(Words)
  BY ConcatProperties

\* How words are joined does not matter.
LEMMA JoinAssociative ==
  \A a \in Seq(Words), b \in Seq(Words), c \in Seq(Words) : (a \o b) \o c = a \o (b \o c)
  BY ConcatAssociative

\* Where the words of a joined sequence come from.
LEMMA Joined ==
  ASSUME NEW a \in Seq(Words), NEW b \in Seq(Words)
  PROVE  /\ Len(a \o b) = Len(a) + Len(b) /\ Len(a) \in Nat /\ Len(b) \in Nat
         /\ \A i \in 1 .. Len(a) : (a \o b)[i] = a[i]
         /\ \A j \in 1 .. Len(b) : (a \o b)[Len(a) + j] = b[j]
<1>1. PICK m \in Nat, n \in Nat : m = Len(a) /\ n = Len(b)
  OBVIOUS
<1>2. /\ Len(a \o b) = m + n
      /\ \A i \in 1 .. (m + n) : (a \o b)[i] = IF i <= m THEN a[i] ELSE b[i - m]
  BY <1>1, ConcatProperties
<1>3. ASSUME NEW i \in 1 .. m
      PROVE  (a \o b)[i] = a[i]
  <2>1. i \in 1 .. (m + n) /\ i <= m
    OBVIOUS
  <2> QED
    BY <1>2, <2>1
<1>4. ASSUME NEW j \in 1 .. n
      PROVE  (a \o b)[m + j] = b[j]
  <2>1. m + j \in 1 .. (m + n) /\ ~(m + j <= m) /\ (m + j) - m = j
    OBVIOUS
  <2> QED
    BY <1>2, <2>1
<1> QED
  BY <1>1, <1>2, <1>3, <1>4

\* A message is two words joined.
LEMMA PairIs ==
  ASSUME NEW a \in Words, NEW b \in Words
  PROVE  <<a>> \o <<b>> = <<a, b>>
<1>0. <<a>> \in Seq(Words) /\ <<b>> \in Seq(Words) /\ <<a, b>> \in Seq(Words)
  OBVIOUS
<1>1. PICK s \in Seq(Words) : s = <<a>>
  BY <1>0
<1>2. PICK u \in Seq(Words) : u = <<b>>
  BY <1>0
<1>3. PICK v \in Seq(Words) : v = <<a, b>>
  BY <1>0
<1>4. Len(s) = 1 /\ s[1] = a /\ Len(u) = 1 /\ u[1] = b
  BY <1>1, <1>2
<1>5. Len(v) = 2 /\ v[1] = a /\ v[2] = b
  BY <1>3
<1>6. s \o u \in Seq(Words) /\ Len(s \o u) = 2 /\ (s \o u)[1] = a /\ (s \o u)[2] = b
  <2>1. /\ Len(s \o u) = Len(s) + Len(u)
        /\ \A i \in 1 .. Len(s) : (s \o u)[i] = s[i]
        /\ \A j \in 1 .. Len(u) : (s \o u)[Len(s) + j] = u[j]
    BY Joined
  <2> QED
    BY <1>4, <2>1, JoinTyped
<1>7. \A j \in 1 .. 2 : (s \o u)[j] = v[j]
  BY <1>5, <1>6
<1>8. s \o u = v
  BY <1>5, <1>6, <1>7, SeqEqual
<1> QED
  BY <1>1, <1>2, <1>3, <1>8

\* A word moves from the program to the transmit ring: the stream stays.
LEMMA StreamWritten ==
  ASSUME NEW w \in TxTokens, NEW t \in Seq(Words), NEW o \in Seq(Words), o # << >>
  PROVE  StreamOf(w, Append(t, Head(o)), Tail(o)) = StreamOf(w, t, o)
<1>1. PICK v \in Seq(Words) : v = Lead(w)
  BY LeadIs
<1>2. PICK c \in Seq(Words), b \in Seq(Words) : c = <<Head(o)>> /\ b = Tail(o) /\ o = c \o b
  BY FirstAndRest
<1>3. Append(t, Head(o)) = t \o c
  BY <1>2, FirstAndRest, AppendIsConcat
<1>4. /\ v \o t \in Seq(Words) /\ t \o c \in Seq(Words) /\ v \o (t \o c) = (v \o t) \o c
      /\ ((v \o t) \o c) \o b = (v \o t) \o (c \o b)
  <2>1. /\ v \o t \in Seq(Words) /\ t \o c \in Seq(Words)
    BY JoinTyped
  <2>2. (v \o t) \o c = v \o (t \o c)
    BY JoinAssociative
  <2>3. PICK d \in Seq(Words) : d = v \o t
    BY <2>1
  <2>4. (d \o c) \o b = d \o (c \o b)
    BY JoinAssociative
  <2> QED
    BY <2>1, <2>2, <2>3, <2>4
<1> QED
  BY <1>1, <1>2, <1>3, <1>4 DEF StreamOf

\* A message is written when nothing else is: it comes last.
LEMMA StreamAdded ==
  ASSUME NEW w \in TxTokens, NEW t \in Seq(Words), NEW c \in Words
  PROVE  /\ <<c, "eol">> \in Seq(Words)
         /\ StreamOf(w, t, Message(c)) = StreamOf(w, t, << >>) \o <<c, "eol">>
<1>1. Message(c) = <<c, "eol">> /\ Message(c) \in Seq(Words)
  BY MessageTyped
<1>2. StreamOf(w, t, << >>) = Lead(w) \o t
  BY LeadIs, ConcatProperties, ConcatEmptySeq DEF StreamOf
<1> QED
  BY <1>1, <1>2 DEF StreamOf

\* A word, or the end of a message, reaches the host: the message is gone with
\* its end, and a word that is not ended is replaced.
LEMMA StreamRead ==
  ASSUME NEW w \in TxTokens, NEW t \in Seq(Words), NEW o \in Seq(Words), t # << >>,
         NEW v, v = WordAfter(t),
         NEW u, u = StreamOf(v, Tail(t), o)
  PROVE  /\ u \in Seq(Words)
         /\ t[1] = "eol" /\ w = "none" => StreamOf(w, t, o) = <<"eol">> \o u
         /\ t[1] = "eol" /\ w # "none" => StreamOf(w, t, o) = <<w, "eol">> \o u
         /\ t[1] # "eol" /\ w = "none" => StreamOf(w, t, o) = u
         /\ t[1] # "eol" /\ w # "none" =>
              /\ StreamOf(w, t, o) = <<w>> \o u /\ StreamOf(w, t, o)[2] = t[1]
              /\ Len(StreamOf(w, t, o)) >= 2
<1>1. PICK c \in Seq(Words), b \in Seq(Words) : c = <<t[1]>> /\ b = Tail(t) /\ t = c \o b
  BY FirstAndRest
<1>2. t[1] \in Words /\ "none" \notin Words
  BY FirstAndRest DEF Words
<1>3. v \in TxTokens
  BY <1>2 DEF TxTokens, WordAfter
<1>4. u \in Seq(Words)
  BY <1>1, <1>3, StreamTyped
<1>5. PICK l \in Seq(Words) : l = Lead(w)
  BY LeadIs
<1>6. StreamOf(w, t, o) = (l \o c) \o (b \o o) /\ b \o o \in Seq(Words)
  <2>1. (l \o (c \o b)) \o o = ((l \o c) \o b) \o o /\ l \o c \in Seq(Words)
    BY SMTT(30), <1>1, <1>5, JoinTyped, JoinAssociative
  <2>2. ((l \o c) \o b) \o o = (l \o c) \o (b \o o)
    BY <2>1, JoinAssociative
  <2> QED
    BY <1>1, <1>5, <2>1, <2>2, ConcatProperties DEF StreamOf
<1>7. CASE t[1] = "eol"
  <2>1. u = b \o o
    BY <1>1, <1>7, ConcatEmptySeq DEF StreamOf, Lead, WordAfter
  <2>2. CASE w = "none"
    BY <1>1, <1>4, <1>5, <1>6, <1>7, <2>1, <2>2, LeadIs, ConcatEmptySeq
  <2>3. CASE w # "none"
    <3>1. l = <<w>> /\ c = <<"eol">> /\ <<w>> \o <<"eol">> = <<w, "eol">>
      <4>1. l = <<w>> /\ c = <<"eol">>
        BY <1>1, <1>5, <1>7, <2>3, LeadIs
      <4> QED
        BY <1>2, <1>7, <2>3, <4>1, PairIs DEF TxTokens
    <3> QED
      BY <1>4, <1>6, <1>7, <2>1, <2>3, <3>1
  <2> QED
    BY <1>7, <2>2, <2>3
<1>8. CASE t[1] # "eol"
  <2>1. u = c \o (b \o o)
    <3>1. v # "none" /\ Lead(v) = c
      BY <1>1, <1>2, <1>8 DEF Lead, WordAfter
    <3> QED
      <4>1. u = (c \o b) \o o
        BY <1>1, <3>1 DEF StreamOf
      <4>2. c \in Seq(Words) /\ b \in Seq(Words) /\ o \in Seq(Words)
        BY <1>1
      <4>3. (c \o b) \o o = c \o (b \o o)
        BY <4>2, JoinAssociative
      <4> QED
        BY <4>1, <4>3
  <2>2. StreamOf(w, t, o) = l \o u
    <3>1. (l \o c) \o (b \o o) = l \o (c \o (b \o o))
      BY <1>6, JoinAssociative
    <3> QED
      BY <1>6, <2>1, <3>1
  <2>3. CASE w = "none"
    BY <1>4, <1>5, <1>8, <2>2, <2>3, LeadIs, ConcatEmptySeq
  <2>4. CASE w # "none"
    <3>1. l = <<w>> /\ Len(l) = 1
      BY <1>5, <2>4, LeadIs
    <3>2. Len(u) = 1 + Len(b \o o) /\ u[1] = t[1]
      <4>1. Len(c) = 1 /\ c[1] = t[1] /\ 1 \in 1 .. Len(c)
        BY <1>1
      <4> QED
        <5>1. PICK z \in Seq(Words) : z = b \o o
          BY <1>6
        <5>2. /\ Len(c \o z) = Len(c) + Len(z)
              /\ (c \o z)[1] = c[1]
          BY <4>1, Joined
        <5> QED
          BY <2>1, <4>1, <5>1, <5>2
    <3>3. Len(b \o o) \in Nat
      BY <1>6
    <3>4. Len(l \o u) = 1 + Len(u) /\ (l \o u)[2] = u[1]
      <4>1. 2 \in 1 .. (Len(l) + Len(u)) /\ ~(2 <= Len(l)) /\ 2 - Len(l) = 1
        BY <3>1, <3>2, <3>3
      <4> QED
        BY <1>4, <1>5, <3>1, <4>1, ConcatProperties
    <3> QED
      BY <1>4, <1>8, <2>2, <2>4, <3>1, <3>2, <3>3, <3>4
  <2> QED
    BY <1>8, <2>3, <2>4
<1> QED
  BY <1>7, <1>8

\* No welcome is under way; from g on the words are whole messages; g is the
\* place of the one welcome, and no answer comes after it.
NoWelcome(s) == \A j \in 1 .. Len(s) : s[j] # "Grbl"
NoAnswers(s, g) == \A j \in g .. Len(s) : s[j] \notin Answers
Whole(s, g) ==
  /\ (Len(s) - g) % 2 = 1
  /\ \A j \in g .. Len(s) : s[j] = "eol" <=> (j - g) % 2 = 1
WelcomeAt(s, g) ==
  /\ g \in 1 .. Len(s)
  /\ \A j \in 1 .. Len(s) : s[j] = "Grbl" <=> j = g
  /\ NoAnswers(s, g) /\ Whole(s, g)

\* What is under way to the host, by its mode and the program's.
WordsOf(s, wait, booted) ==
  /\ wait /\ ~booted => NoWelcome(s)
  /\ wait /\ booted => \E g \in 1 .. Len(s) : WelcomeAt(s, g)
  /\ ~wait => Whole(s, 1) /\ NoWelcome(s)

WordsInOrder ==
  /\ WordsOf(Stream, waiting, Booted)
  /\ pc = "flush" => "RESET" \notin exec
-----------------------------------------------------------------------------
\* What is dropped from the front, and what is added behind.
LEMMA RestOf ==
  ASSUME NEW p \in Seq(Words), NEW u \in Seq(Words), NEW s, s = p \o u,
         NEW d, d = Len(p), NEW n, n = Len(u)
  PROVE  /\ d \in Nat /\ n \in Nat /\ s \in Seq(Words) /\ Len(s) = d + n
         /\ \A j \in 1 .. n : u[j] = s[j + d]
         /\ \A i \in 1 .. d : s[i] = p[i]
<1>1. /\ Len(s) = d + n /\ d \in Nat /\ n \in Nat
      /\ \A i \in 1 .. d : s[i] = p[i]
      /\ \A j \in 1 .. n : s[d + j] = u[j]
  BY Joined
<1>2. ASSUME NEW j \in 1 .. n
      PROVE  u[j] = s[j + d]
  <2>1. j + d = d + j
    BY <1>1
  <2> QED
    BY <1>1, <2>1
<1> QED
  BY <1>1, <1>2, JoinTyped

\* What follows has no welcome if the whole has none.
LEMMA NoWelcomeRest ==
  ASSUME NEW p \in Seq(Words), NEW u \in Seq(Words), NEW s, s = p \o u, NoWelcome(s)
  PROVE  NoWelcome(u)
<1>1. PICK d, n : d = Len(p) /\ n = Len(u)
  OBVIOUS
<1>2. /\ d \in Nat /\ n \in Nat /\ Len(s) = d + n
      /\ \A j \in 1 .. n : u[j] = s[j + d]
  BY <1>1, RestOf
<1>3. ASSUME NEW j \in 1 .. n
      PROVE  u[j] # "Grbl"
  <2>1. j + d \in 1 .. (d + n)
    BY <1>2
  <2> QED
    BY <1>2, <2>1 DEF NoWelcome
<1> QED
  BY <1>1, <1>3 DEF NoWelcome

\* An even distance does not change the parity.
LEMMA EvenShift == \A a \in Int, b \in Int : b % 2 = 0 => (a + b) % 2 = a % 2
  OBVIOUS

\* What follows whole messages is whole messages.
LEMMA WholeRest ==
  ASSUME NEW p \in Seq(Words), NEW u \in Seq(Words), NEW s, s = p \o u, NEW d, d = Len(p),
         NEW g \in Nat, NEW h \in Nat, h >= 1, g <= h + d, (h + d - g) % 2 = 0, Whole(s, g)
  PROVE  Whole(u, h)
<1>1. PICK n : n = Len(u)
  OBVIOUS
<1>2. /\ d \in Nat /\ n \in Nat /\ Len(s) = d + n
      /\ \A j \in 1 .. n : u[j] = s[j + d]
  BY <1>1, RestOf
<1>3. (n - h) % 2 = 1
  <2>1. (d + n - g) % 2 = 1
    BY <1>2 DEF Whole
  <2> QED
    BY <1>2, <2>1
<1>4. ASSUME NEW j \in h .. n
      PROVE  u[j] = "eol" <=> (j - h) % 2 = 1
  <2>1. PICK k \in g .. (d + n) : k = j + d /\ j \in 1 .. n
    <3>1. j + d \in g .. (d + n) /\ j \in 1 .. n
      BY <1>2
    <3> QED
      BY <3>1
  <2>2. s[k] = "eol" <=> (k - g) % 2 = 1
    BY <1>2 DEF Whole
  <2>3. (k - g) % 2 = (j - h) % 2
    <3>0. j - h \in Int /\ h + d - g \in Int /\ (h + d - g) % 2 = 0
      BY <1>2
    <3>1. PICK a \in Int, b \in Int : a = j - h /\ b = h + d - g /\ b % 2 = 0
      BY <3>0
    <3>2. k - g = a + b
      BY <1>2, <2>1, <3>1
    <3>3. (a + b) % 2 = a % 2
      BY <3>1, EvenShift
    <3> QED
      BY <3>1, <3>2, <3>3
  <2> QED
    BY <1>2, <2>1, <2>2, <2>3
<1> QED
  BY <1>1, <1>3, <1>4 DEF Whole

\* What follows has no answers if the whole has none.
LEMMA NoAnswersRest ==
  ASSUME NEW p \in Seq(Words), NEW u \in Seq(Words), NEW s, s = p \o u, NEW d, d = Len(p),
         NEW g \in Nat, NEW h \in Nat, h >= 1, g <= h + d, NoAnswers(s, g)
  PROVE  NoAnswers(u, h)
<1>1. PICK n : n = Len(u)
  OBVIOUS
<1>2. /\ d \in Nat /\ n \in Nat /\ Len(s) = d + n
      /\ \A j \in 1 .. n : u[j] = s[j + d]
  BY <1>1, RestOf
<1>4. ASSUME NEW j \in h .. n
      PROVE  u[j] \notin Answers
  <2>1. PICK k \in g .. (d + n) : k = j + d /\ j \in 1 .. n
    <3>1. j + d \in g .. (d + n) /\ j \in 1 .. n
      BY <1>2
    <3> QED
      BY <3>1
  <2>2. s[k] \notin Answers
    BY <1>2 DEF NoAnswers
  <2> QED
    BY <1>2, <2>1, <2>2
<1> QED
  BY <1>1, <1>4 DEF NoAnswers

\* The welcome comes nearer when the front is gone.
LEMMA WelcomeRest ==
  ASSUME NEW p \in Seq(Words), NEW u \in Seq(Words), NEW s, s = p \o u, NEW d, d = Len(p),
         NEW g \in Nat, g > d, WelcomeAt(s, g)
  PROVE  g - d \in 1 .. Len(u) /\ WelcomeAt(u, g - d)
<1>1. PICK n : n = Len(u)
  OBVIOUS
<1>2. /\ d \in Nat /\ n \in Nat /\ Len(s) = d + n
      /\ \A j \in 1 .. n : u[j] = s[j + d]
  BY <1>1, RestOf
<1>3. PICK h \in 1 .. n : h = g - d /\ h \in Nat /\ h >= 1 /\ g <= h + d /\ (h + d - g) % 2 = 0
  <2>1. g \in 1 .. (d + n)
    BY <1>2 DEF WelcomeAt
  <2>2. g - d \in 1 .. n /\ g <= (g - d) + d /\ ((g - d) + d - g) % 2 = 0
    BY <1>2, <2>1
  <2> QED
    BY <2>2
<1>4. Whole(u, h) /\ NoAnswers(u, h)
  BY <1>3, WholeRest, NoAnswersRest DEF WelcomeAt
<1>5. ASSUME NEW j \in 1 .. n
      PROVE  u[j] = "Grbl" <=> j = h
  <2>1. PICK k \in 1 .. (d + n) : k = j + d
    BY <1>2
  <2>2. s[k] = "Grbl" <=> k = g
    BY <1>2 DEF WelcomeAt
  <2>3. k = g <=> j = h
    BY <1>2, <1>3, <2>1
  <2> QED
    BY <1>2, <2>1, <2>2, <2>3
<1> QED
  BY <1>1, <1>3, <1>4, <1>5 DEF WelcomeAt

\* Leaving words out adds no welcome.
LEMMA NoWelcomeWithout ==
  ASSUME NEW p \in Seq(Words), NEW c \in Seq(Words), NEW b \in Seq(Words), NoWelcome(p \o (c \o b))
  PROVE  NoWelcome(p \o b)
<1>1. PICK r, s, u : r \in Seq(Words) /\ r = c \o b /\ s = p \o r /\ u = p \o b
  BY JoinTyped
<1>2. PICK n : n = Len(b)
  OBVIOUS
<1>3. NoWelcome(r) /\ NoWelcome(b)
  <2>1. NoWelcome(r)
    BY <1>1, NoWelcomeRest
  <2> QED
    BY <1>1, <2>1, NoWelcomeRest
<1>4. /\ Len(p) \in Nat /\ Len(r) \in Nat /\ Len(s) = Len(p) + Len(r)
      /\ \A i \in 1 .. Len(p) : s[i] = p[i]
  BY <1>1, Joined
<1>5. /\ Len(b) \in Nat /\ Len(u) = Len(p) + Len(b)
      /\ \A i \in 1 .. Len(p) : u[i] = p[i]
      /\ \A j \in 1 .. Len(b) : u[Len(p) + j] = b[j]
  BY <1>1, Joined
<1>6. ASSUME NEW j \in 1 .. Len(u)
      PROVE  u[j] # "Grbl"
  <2>1. CASE j \in 1 .. Len(p)
    <3>1. j \in 1 .. Len(s)
      BY <1>4, <2>1
    <3>2. NoWelcome(s)
      BY <1>1
    <3> QED
      BY <1>4, <1>5, <2>1, <3>1, <3>2 DEF NoWelcome
  <2>2. CASE j \notin 1 .. Len(p)
    <3>1. PICK k \in 1 .. Len(b) : j = Len(p) + k
      <4>1. j - Len(p) \in 1 .. Len(b) /\ j = Len(p) + (j - Len(p))
        BY <1>4, <1>5, <2>2
      <4> QED
        BY <4>1
    <3> QED
      BY <1>3, <1>5, <3>1 DEF NoWelcome
  <2> QED
    BY <2>1, <2>2
<1> QED
  BY <1>1, <1>6 DEF NoWelcome

\* A message added behind.
LEMMA AddedTo ==
  ASSUME NEW u \in Seq(Words), NEW c \in Words, NEW s, s = u \o <<c, "eol">>, NEW n, n = Len(u)
  PROVE  /\ n \in Nat /\ s \in Seq(Words) /\ Len(s) = n + 2
         /\ \A j \in 1 .. n : s[j] = u[j]
         /\ s[n + 1] = c /\ s[n + 2] = "eol"
<1>1. <<c, "eol">> \in Seq(Words)
  BY DEF Words
<1>2. PICK m \in Seq(Words) : m = <<c, "eol">>
  BY <1>1
<1>3. Len(m) = 2 /\ m[1] = c /\ m[2] = "eol"
  BY <1>2
<1>4. /\ Len(s) = n + Len(m) /\ n \in Nat
      /\ \A i \in 1 .. n : s[i] = u[i]
      /\ \A j \in 1 .. Len(m) : s[n + j] = m[j]
  BY <1>2, Joined
<1>5. 1 \in 1 .. Len(m) /\ 2 \in 1 .. Len(m)
  BY <1>3
<1> QED
  BY <1>2, <1>3, <1>4, <1>5, JoinTyped

\* A message behind whole messages leaves them whole.
LEMMA WholeMore ==
  ASSUME NEW u \in Seq(Words), NEW c \in Words, c # "eol", NEW s, s = u \o <<c, "eol">>,
         NEW g \in Nat, g >= 1, g <= Len(u) + 1, Whole(u, g)
  PROVE  Whole(s, g)
<1>1. PICK n : n = Len(u)
  OBVIOUS
<1>2. /\ n \in Nat /\ Len(s) = n + 2
      /\ \A j \in 1 .. n : s[j] = u[j]
      /\ s[n + 1] = c /\ s[n + 2] = "eol"
  BY <1>1, AddedTo
<1>3. (n - g) % 2 = 1 /\ \A j \in g .. n : u[j] = "eol" <=> (j - g) % 2 = 1
  BY <1>1 DEF Whole
<1>4. ((n + 2) - g) % 2 = 1 /\ ((n + 1) - g) % 2 = 0
  <2>1. PICK a \in Int : a = n - g /\ a % 2 = 1
    BY <1>2, <1>3
  <2>2. (a + 2) % 2 = 1 /\ (a + 1) % 2 = 0
    BY SMTT(30), <2>1
  <2>3. (n + 2) - g = a + 2 /\ (n + 1) - g = a + 1
    BY <1>2, <2>1
  <2> QED
    BY <2>2, <2>3
<1>5. ASSUME NEW j \in g .. (n + 2)
      PROVE  s[j] = "eol" <=> (j - g) % 2 = 1
  <2>1. CASE j <= n
    <3>1. j \in g .. n /\ j \in 1 .. n
      BY <1>2, <2>1
    <3> QED
      BY <1>2, <1>3, <3>1
  <2>2. CASE j = n + 1
    BY <1>2, <1>4, <2>2
  <2>3. CASE j = n + 2
    BY <1>2, <1>4, <2>3
  <2> QED
    BY <1>2, <2>1, <2>2, <2>3
<1> QED
  BY <1>2, <1>4, <1>5 DEF Whole

\* A message that is no welcome adds none.
LEMMA NoWelcomeMore ==
  ASSUME NEW u \in Seq(Words), NEW c \in Words, c # "Grbl", NEW s, s = u \o <<c, "eol">>,
         NoWelcome(u)
  PROVE  NoWelcome(s)
<1>1. PICK n : n = Len(u)
  OBVIOUS
<1>2. /\ n \in Nat /\ Len(s) = n + 2
      /\ \A j \in 1 .. n : s[j] = u[j]
      /\ s[n + 1] = c /\ s[n + 2] = "eol"
  BY <1>1, AddedTo
<1>3. ASSUME NEW j \in 1 .. (n + 2)
      PROVE  s[j] # "Grbl"
  <2>1. CASE j \in 1 .. n
    BY <1>1, <1>2, <2>1 DEF NoWelcome
  <2>2. CASE j = n + 1
    BY <1>2, <2>2
  <2>3. CASE j = n + 2
    BY <1>2, <2>3
  <2> QED
    BY <1>2, <2>1, <2>2, <2>3
<1> QED
  BY <1>2, <1>3 DEF NoWelcome

\* A report behind the welcome leaves it the only one.
LEMMA WelcomeMore ==
  ASSUME NEW u \in Seq(Words), NEW c \in Words, c \notin {"Grbl", "eol"}, c \notin Answers,
         NEW s, s = u \o <<c, "eol">>, NEW g \in Nat, WelcomeAt(u, g)
  PROVE  g \in 1 .. Len(s) /\ WelcomeAt(s, g)
<1>1. PICK n : n = Len(u)
  OBVIOUS
<1>2. /\ n \in Nat /\ Len(s) = n + 2
      /\ \A j \in 1 .. n : s[j] = u[j]
      /\ s[n + 1] = c /\ s[n + 2] = "eol"
  BY <1>1, AddedTo
<1>3. g \in 1 .. n /\ \A j \in 1 .. n : u[j] = "Grbl" <=> j = g
  BY <1>1 DEF WelcomeAt
<1>4. Whole(s, g)
  <2>1. g >= 1 /\ g <= Len(u) + 1
    BY <1>1, <1>2, <1>3
  <2> QED
    BY <2>1, WholeMore DEF WelcomeAt
<1>5. ASSUME NEW j \in 1 .. (n + 2)
      PROVE  /\ s[j] = "Grbl" <=> j = g
             /\ j >= g => s[j] \notin Answers
  <2>1. CASE j \in 1 .. n
    <3>1. s[j] = u[j]
      BY <1>2, <2>1
    <3>2. u[j] = "Grbl" <=> j = g
      BY <1>3, <2>1
    <3>3. j >= g => u[j] \notin Answers
      <4>1. j >= g => j \in g .. n
        BY <1>2, <1>3, <2>1
      <4> QED
        BY <1>1, <4>1 DEF WelcomeAt, NoAnswers
    <3> QED
      BY <3>1, <3>2, <3>3
  <2>2. CASE j = n + 1
    BY <1>2, <1>3, <2>2
  <2>3. CASE j = n + 2
    BY <1>2, <1>3, <2>3 DEF Answers
  <2> QED
    BY <1>2, <2>1, <2>2, <2>3
<1>6. NoAnswers(s, g)
  <2>1. \A j \in g .. (n + 2) : j \in 1 .. (n + 2) /\ j >= g
    BY <1>2, <1>3
  <2> QED
    BY <1>2, <1>5, <2>1 DEF NoAnswers
<1>7. g \in 1 .. (n + 2)
  BY <1>2, <1>3
<1> QED
  BY <1>2, <1>4, <1>5, <1>6, <1>7 DEF WelcomeAt

\* The welcome written after the flush is the only one.
LEMMA WelcomeNew ==
  ASSUME NEW u \in Seq(Words), NEW s, s = u \o <<"Grbl", "eol">>, NoWelcome(u)
  PROVE  \E g \in 1 .. Len(s) : WelcomeAt(s, g)
<1>1. PICK n : n = Len(u)
  OBVIOUS
<1>2. /\ n \in Nat /\ Len(s) = n + 2
      /\ \A j \in 1 .. n : s[j] = u[j]
      /\ s[n + 1] = "Grbl" /\ s[n + 2] = "eol"
  BY <1>1, AddedTo DEF Words
<1>3. PICK g \in Nat : g = n + 1
  BY <1>2
<1>4. ASSUME NEW j \in 1 .. (n + 2)
      PROVE  /\ s[j] = "Grbl" <=> j = g
             /\ j >= g => s[j] \notin Answers /\ (s[j] = "eol" <=> (j - g) % 2 = 1)
  <2>1. CASE j \in 1 .. n
    <3>1. j # g /\ ~(j >= g)
      BY <1>2, <1>3, <2>1
    <3> QED
      BY <1>1, <1>2, <2>1, <3>1 DEF NoWelcome
  <2>2. CASE j = n + 1
    <3>1. j = g /\ (j - g) % 2 = 0
      BY <1>2, <1>3, <2>2
    <3> QED
      BY <1>2, <2>2, <3>1 DEF Answers
  <2>3. CASE j = n + 2
    <3>1. j # g /\ (j - g) % 2 = 1
      BY <1>2, <1>3, <2>3
    <3> QED
      BY <1>2, <2>3, <3>1 DEF Answers
  <2> QED
    BY <1>2, <2>1, <2>2, <2>3
<1>5. /\ g \in 1 .. (n + 2) /\ ((n + 2) - g) % 2 = 1
      /\ \A j \in g .. (n + 2) : j \in 1 .. (n + 2) /\ j >= g
  BY <1>2, <1>3
<1>6. NoAnswers(s, g) /\ Whole(s, g)
  BY <1>2, <1>4, <1>5 DEF NoAnswers, Whole
<1> QED
  BY <1>2, <1>4, <1>5, <1>6 DEF WelcomeAt

\* A word, or an end, reaches the host.
LEMMA WordRead ==
  ASSUME NEW w \in TxTokens \ {"eol"}, NEW t \in Seq(Words), NEW o \in Seq(Words), t # << >>,
         NEW v, v = WordAfter(t),
         NEW s, s = StreamOf(w, t, o), NEW u, u = StreamOf(v, Tail(t), o),
         NEW wait \in BOOLEAN, NEW booted \in BOOLEAN, ~wait => booted,
         NEW next, next = (wait /\ ~(t[1] = "eol" /\ w = "Grbl")), WordsOf(s, wait, booted)
  PROVE  /\ WordsOf(u, next, booted) /\ next \in BOOLEAN
         /\ wait /\ ~next => booted /\ NoAnswers(u, 1)
<1>0. /\ u \in Seq(Words)
      /\ t[1] = "eol" /\ w = "none" => s = <<"eol">> \o u
      /\ t[1] = "eol" /\ w # "none" => s = <<w, "eol">> \o u
      /\ t[1] # "eol" /\ w = "none" => s = u
      /\ t[1] # "eol" /\ w # "none" => s = <<w>> \o u /\ s[2] = t[1] /\ Len(s) >= 2
  <2>1. w \in TxTokens
    OBVIOUS
  <2>2. v = WordAfter(t) /\ u = StreamOf(v, Tail(t), o)
    OBVIOUS
  <2>3. /\ u \in Seq(Words)
        /\ t[1] = "eol" /\ w = "none" => StreamOf(w, t, o) = <<"eol">> \o u
        /\ t[1] = "eol" /\ w # "none" => StreamOf(w, t, o) = <<w, "eol">> \o u
        /\ t[1] # "eol" /\ w = "none" => StreamOf(w, t, o) = u
        /\ t[1] # "eol" /\ w # "none" =>
             /\ StreamOf(w, t, o) = <<w>> \o u /\ StreamOf(w, t, o)[2] = t[1]
             /\ Len(StreamOf(w, t, o)) >= 2
    BY <2>1, <2>2, StreamRead
  <2> QED
    BY <2>3
<1>1. u \in Seq(Words) /\ s \in Seq(Words) /\ next \in BOOLEAN
  BY <1>0, StreamTyped
<1>2. ASSUME NEW p \in Seq(Words), NEW d, d = Len(p), s = p \o u, d \in {1, 2}, (next <=> wait),
             wait /\ booted => \A g \in 1 .. Len(s) : WelcomeAt(s, g) => g > d,
             ~wait => d = 2
      PROVE  WordsOf(u, next, booted)
  <2>1. CASE wait /\ ~booted
    <3>1. NoWelcome(s)
      BY <2>1 DEF WordsOf
    <3>2. NoWelcome(u)
      BY <1>1, <1>2, <3>1, NoWelcomeRest
    <3> QED
      <4>1. next /\ ~booted
        BY <1>2, <2>1
      <4> QED
        BY <3>2, <4>1, Zenon DEF WordsOf
  <2>2. CASE wait /\ booted
    <3>1. PICK g \in 1 .. Len(s) : WelcomeAt(s, g)
      BY <2>2 DEF WordsOf
    <3>2. g \in Nat /\ g > d
      BY <1>1, <1>2, <2>2, <3>1
    <3> QED
      <4>1. g - d \in 1 .. Len(u) /\ WelcomeAt(u, g - d)
        BY <1>1, <1>2, <3>1, <3>2, WelcomeRest
      <4> QED
        <5>1. next /\ booted
          BY <1>2, <2>2
        <5> QED
          BY <4>1, <5>1, Zenon DEF WordsOf
  <2>3. CASE ~wait
    <3>1. Whole(s, 1) /\ NoWelcome(s) /\ d = 2
      BY <1>2, <2>3 DEF WordsOf
    <3>2. 1 <= 1 + 2 /\ (1 + 2 - 1) % 2 = 0 /\ 1 >= 1 /\ 1 \in Nat
      OBVIOUS
    <3>3. Whole(u, 1)
      BY <1>1, <1>2, <3>1, <3>2, WholeRest
    <3>4. NoWelcome(u)
      BY <1>1, <1>2, <3>1, NoWelcomeRest
    <3> QED
      BY <1>2, <2>3, <3>3, <3>4 DEF WordsOf
  <2> QED
    BY <2>1, <2>2, <2>3
<1>3. PICK m \in Nat : m = Len(s)
  BY <1>1
<1>4. CASE t[1] = "eol" /\ w = "none"
  <2>1. PICK p \in Seq(Words) : p = <<"eol">> /\ s = p \o u
    <3>1. <<"eol">> \in Seq(Words)
      BY DEF Words
    <3> QED
      BY <1>0, <1>4, <3>1
  <2>2. Len(p) = 1 /\ p[1] = "eol"
    BY <2>1
  <2>3. /\ s[1] = "eol" /\ m >= 1
    <3>1. /\ Len(u) \in Nat /\ Len(s) = 1 + Len(u) /\ \A i \in 1 .. 1 : s[i] = p[i]
      BY <1>1, <2>1, <2>2, RestOf
    <3> QED
      BY <1>3, <2>2, <3>1
  <2>4. (next <=> wait)
    BY <1>4
  <2>5. wait /\ booted => \A g \in 1 .. Len(s) : WelcomeAt(s, g) => g > 1
    <3>1. ASSUME NEW g \in 1 .. m, WelcomeAt(s, g)
          PROVE  g # 1
      BY <1>3, <2>3, <3>1 DEF WelcomeAt
    <3> QED
      BY <1>3, <3>1
  <2>6. wait
    <3> SUFFICES ASSUME ~wait PROVE FALSE
      OBVIOUS
    <3>1. s[1] = "eol" <=> (1 - 1) % 2 = 1
      BY <1>3, <2>3 DEF WordsOf, Whole
    <3> QED
      BY <2>3, <3>1
  <2> QED
    BY <1>1, <1>2, <2>1, <2>2, <2>4, <2>5, <2>6
<1>5. CASE t[1] = "eol" /\ w # "none"
  <2>1. PICK p \in Seq(Words) : p = <<w, "eol">> /\ s = p \o u
    <3>1. <<w, "eol">> \in Seq(Words)
      BY <1>5 DEF Words, TxTokens
    <3> QED
      BY <1>0, <1>5, <3>1
  <2>2. Len(p) = 2 /\ p[1] = w /\ p[2] = "eol"
    BY <2>1
  <2>3. /\ s[1] = w /\ s[2] = "eol" /\ m >= 2
    <3>1. /\ Len(u) \in Nat /\ Len(s) = 2 + Len(u) /\ \A i \in 1 .. 2 : s[i] = p[i]
      BY <1>1, <2>1, <2>2, RestOf
    <3> QED
      BY <1>3, <2>2, <3>1
  <2>4. CASE wait /\ w = "Grbl"
    <3>1. booted
      BY <1>3, <2>3, <2>4 DEF WordsOf, NoWelcome
    <3>2. PICK g \in 1 .. m : WelcomeAt(s, g)
      BY <1>3, <2>4, <3>1 DEF WordsOf
    <3>3. g = 1
      BY <1>3, <2>3, <2>4, <3>2 DEF WelcomeAt
    <3>4. Whole(s, 1) /\ NoAnswers(s, 1) /\ \A j \in 1 .. m : s[j] = "Grbl" <=> j = 1
      BY <1>3, <3>2, <3>3 DEF WelcomeAt
    <3>5. 1 <= 1 + 2 /\ (1 + 2 - 1) % 2 = 0 /\ 1 >= 1 /\ 1 \in Nat
      OBVIOUS
    <3>6. Whole(u, 1) /\ NoAnswers(u, 1)
      <4>1. Whole(u, 1)
        BY <1>1, <2>1, <2>2, <3>4, <3>5, WholeRest
      <4>2. NoAnswers(u, 1)
        BY <1>1, <2>1, <2>2, <3>4, <3>5, NoAnswersRest
      <4> QED
        BY <4>1, <4>2
    <3>7. NoWelcome(u)
      <4>1. PICK n : n = Len(u)
        OBVIOUS
      <4>2. n \in Nat /\ m = 2 + n /\ \A j \in 1 .. n : u[j] = s[j + 2]
        BY <1>1, <1>3, <2>1, <2>2, <4>1, RestOf
      <4>3. ASSUME NEW j \in 1 .. n
            PROVE  u[j] # "Grbl"
        <5>1. j + 2 \in 1 .. m /\ j + 2 # 1
          BY <4>2
        <5> QED
          BY <3>4, <4>2, <5>1
      <4> QED
        BY <4>1, <4>3 DEF NoWelcome
    <3> QED
      BY <1>1, <1>5, <2>4, <3>1, <3>6, <3>7 DEF WordsOf
  <2>5. CASE ~(wait /\ w = "Grbl")
    <3>1. (next <=> wait)
      BY <1>5, <2>5
    <3>2. wait /\ booted => \A g \in 1 .. Len(s) : WelcomeAt(s, g) => g > 2
      <4>1. ASSUME NEW g \in 1 .. m, WelcomeAt(s, g), wait
            PROVE  g # 1 /\ g # 2
        <5>1. s[1] = "Grbl" <=> 1 = g
          BY <1>3, <2>3, <4>1 DEF WelcomeAt
        <5>2. s[2] = "Grbl" <=> 2 = g
          BY <1>3, <2>3, <4>1 DEF WelcomeAt
        <5> QED
          BY <2>3, <2>5, <4>1, <5>1, <5>2
      <4>2. ASSUME NEW g \in 1 .. m, g # 1, g # 2
            PROVE  g > 2
        BY <4>2
      <4> QED
        BY <1>3, <4>1, <4>2
    <3> QED
      <4>1. WordsOf(u, next, booted)
        BY <1>1, <1>2, <2>1, <2>2, <3>1, <3>2
      <4> QED
        BY <1>1, <3>1, <4>1
  <2> QED
    BY <2>4, <2>5
<1>6. CASE t[1] # "eol" /\ w = "none"
  <2>1. u = s /\ (next <=> wait)
    BY <1>0, <1>6
  <2> QED
    BY <1>1, <2>1
<1>7. CASE t[1] # "eol" /\ w # "none"
  <2>1. PICK p \in Seq(Words) : p = <<w>> /\ s = p \o u
    <3>1. <<w>> \in Seq(Words)
      BY <1>7, LeadIs
    <3> QED
      BY <1>0, <1>7, <3>1
  <2>2. Len(p) = 1
    BY <2>1
  <2>3. s[2] # "eol" /\ m >= 2
    BY <1>0, <1>3, <1>7
  <2>4. (next <=> wait)
    BY <1>7
  <2>5. wait /\ booted => \A g \in 1 .. Len(s) : WelcomeAt(s, g) => g > 1
    <3>1. ASSUME NEW g \in 1 .. m, WelcomeAt(s, g)
          PROVE  g # 1
      <4> SUFFICES ASSUME g = 1 PROVE FALSE
        OBVIOUS
      <4>1. 2 \in 1 .. m /\ (2 - 1) % 2 = 1
        BY <2>3
      <4>2. s[2] = "eol"
        BY <1>3, <3>1, <4>1 DEF WelcomeAt, Whole
      <4> QED
        BY <2>3, <4>2
    <3> QED
      BY <1>3, <3>1
  <2>6. wait
    <3> SUFFICES ASSUME ~wait PROVE FALSE
      OBVIOUS
    <3>1. s[2] = "eol" <=> (2 - 1) % 2 = 1
      BY <1>3, <2>3 DEF WordsOf, Whole
    <3> QED
      BY <2>3, <3>1
  <2> QED
    BY <1>1, <1>2, <2>1, <2>2, <2>4, <2>5, <2>6
<1> QED
  BY <1>4, <1>5, <1>6, <1>7
-----------------------------------------------------------------------------
\* Every step keeps the words in order.

\* What a step that leaves the stream keeps.
LEMMA WordsQuiet ==
  ASSUME WordsInOrder, Stream' = Stream, waiting' = waiting, Booted' = Booted,
         pc' = "flush" => "RESET" \notin exec'
  PROVE  WordsInOrder'
  BY DEF WordsInOrder, WordsOf

\* The stream of a step that leaves what it is made of.
LEMMA StreamSame ==
  UNCHANGED <<txVars, word, out>> => Stream' = Stream
  BY DEF Stream, txVars, TxContents, TX_RING_BUFFER

\* A message is written when the stream has no more to come.
LEMMA StreamMessage ==
  ASSUME LinkTypes, ~overrun, UNCHANGED <<txVars, word>>, out = << >>, NEW c \in Words,
         out' = Message(c)
  PROVE  Stream \in Seq(Words) /\ Stream' = Stream \o <<c, "eol">>
<1>1. TxContents' = TxContents
  BY DEF txVars, TxContents, TX_RING_BUFFER
<1>2. word \in TxTokens /\ TxContents \in Seq(Words) /\ out \in Seq(Words)
  BY DEF LinkTypes, HostTypes, RingTypes, MainTypes
<1>3. Stream' = StreamOf(word, TxContents, Message(c)) /\ Stream = StreamOf(word, TxContents, << >>)
  BY <1>1 DEF Stream, StreamOf, Lead
<1> QED
  BY <1>2, <1>3, StreamAdded, StreamTyped

\* The steps of the host keep the words in order.
LEMMA WordsHost ==
  ASSUME LinkTypes, Modes, WordsInOrder, HostStep \/ Receive
  PROVE  WordsInOrder' /\ (~waiting' => ~waiting)
<1>1. Stream' = Stream
  BY StreamSame DEF HostStep, BeginLine, Receive, ReceiveReset, ReceiveStatus, ReceiveOverride,
                    serialVars, mainVars
<1>2. CASE ReceiveReset
  <2>1. ~waiting /\ waiting' /\ "RESET" \in exec' /\ pc' = pc
    BY <1>2 DEF ReceiveReset, mainVars
  <2>2. NoWelcome(Stream) /\ Booted
    BY <2>1 DEF WordsInOrder, WordsOf, Modes
  <2>3. ~Booted' /\ pc' # "flush"
    BY <2>1, <2>2 DEF Booted
  <2> QED
    BY <1>1, <2>1, <2>2, <2>3 DEF WordsInOrder, WordsOf
<1>3. CASE BeginLine \/ Receive \/ ReceiveStatus \/ ReceiveOverride
  <2>1. /\ waiting' = waiting /\ pc' = pc /\ ("RESET" \in exec' <=> "RESET" \in exec)
    BY <1>3 DEF BeginLine, Receive, ReceiveStatus, ReceiveOverride, mainVars
  <2>2. Booted' = Booted
    BY <2>1 DEF Booted
  <2>3. pc' = "flush" => "RESET" \notin exec'
    BY <2>1 DEF WordsInOrder
  <2> QED
    BY <1>1, <2>1, <2>2, <2>3, WordsQuiet
<1> QED
  BY <1>2, <1>3 DEF HostStep

\* A character received keeps the words in order; the welcome ends the wait,
\* and no answer is under way then.
LEMMA WordsTransmit ==
  ASSUME LinkTypes, Modes, WordsInOrder, Transmit, ~overrun'
  PROVE  /\ WordsInOrder' /\ (~waiting' => ~waiting \/ Booted)
         /\ waiting /\ ~waiting' => NoAnswers(Stream', 1)
<1>1. /\ TxSend /\ UNCHANGED rxVars /\ out' = out /\ pc' = pc /\ exec' = exec
      /\ word' = (IF TxFirst = "eol" THEN "none" ELSE TxFirst)
  BY DEF Transmit, mainVars
<1>2. /\ word \in TxTokens \ {"eol"} /\ out \in Seq(Words) /\ waiting \in BOOLEAN
      /\ RingTypes /\ LinkTypes
  BY DEF LinkTypes, HostTypes, MainTypes
<1>3. TxContents # << >> /\ TxContents[1] = TxFirst /\ TxContents \in Seq(Words) /\ ~overrun
  BY <1>1, <1>2, TxSent
<1>4. TxContents' = Tail(TxContents)
  BY <1>1, <1>2, TxSent
<1>5. word' = WordAfter(TxContents)
  BY <1>1, <1>3 DEF WordAfter
<1>6. Stream' = StreamOf(word', Tail(TxContents), out)
  BY <1>1, <1>4 DEF Stream, StreamOf, Lead
<1>7. Stream = StreamOf(word, TxContents, out)
  BY StreamIs
<1>8. waiting' = (waiting /\ ~(TxContents[1] = "eol" /\ word = "Grbl"))
  <2>1. CASE TxFirst = "eol"
    BY <1>3, <2>1 DEF Transmit
  <2>2. CASE TxFirst # "eol"
    BY <1>2, <1>3, <2>2 DEF Transmit
  <2> QED
    BY <2>1, <2>2
<1>9. Booted \in BOOLEAN /\ (~waiting => Booted) /\ Booted' = Booted /\ WordsOf(Stream, waiting, Booted)
  BY <1>1 DEF Modes, WordsInOrder, Booted
<1>10. PICK t, v, s, u, w, b, n :
         /\ t = TxContents /\ v = word' /\ s = Stream /\ u = Stream' /\ w = word /\ b = Booted
         /\ n = waiting'
  OBVIOUS
<1>11. /\ WordsOf(u, n, b) /\ n \in BOOLEAN
       /\ waiting /\ ~n => b /\ NoAnswers(u, 1)
  <2>1. /\ w \in TxTokens \ {"eol"} /\ t \in Seq(Words) /\ t # << >> /\ v = WordAfter(t)
        /\ s = StreamOf(w, t, out) /\ u = StreamOf(v, Tail(t), out)
        /\ b \in BOOLEAN /\ (~waiting => b) /\ WordsOf(s, waiting, b)
        /\ n = (waiting /\ ~(t[1] = "eol" /\ w = "Grbl"))
    BY <1>2, <1>3, <1>5, <1>6, <1>7, <1>8, <1>9, <1>10
  <2> QED
    BY <1>2, <2>1, WordRead
<1>12. pc' = "flush" => "RESET" \notin exec'
  BY <1>1 DEF WordsInOrder
<1> QED
  BY <1>9, <1>10, <1>11, <1>12 DEF WordsInOrder

\* The main program keeps the words in order, resets or not.
LEMMA WordsMain ==
  ASSUME LinkTypes, Modes, WordsInOrder, MainStep \/ DuringLine, ~overrun
  PROVE  WordsInOrder' /\ waiting' = waiting
<1>1. CASE Boot
  <2>1. Stream' = Stream /\ waiting' = waiting /\ pc' = "flush" /\ exec' = {} /\ pc = "boot"
    BY <1>1, StreamSame DEF Boot, At, Quiet, serialVars, hostVars
  <2>2. ~Booted /\ ~Booted'
    BY <2>1 DEF Booted
  <2> QED
    BY <2>1, <2>2 DEF WordsInOrder, WordsOf
<1>2. CASE Flush
  <2>1. /\ UNCHANGED <<txVars, word>> /\ out = << >> /\ out' = Message("Grbl")
        /\ waiting' = waiting /\ pc = "flush" /\ pc' = "loop" /\ exec' = exec
    BY <1>2 DEF Flush, At, hostVars
  <2>2. "Grbl" \in Words
    BY DEF Words
  <2>3. Stream \in Seq(Words) /\ Stream' = Stream \o <<"Grbl", "eol">>
    BY <2>1, <2>2, StreamMessage
  <2>4. ~Booted /\ waiting /\ Booted' /\ waiting'
    BY <2>1 DEF Booted, Modes, WordsInOrder
  <2>5. NoWelcome(Stream)
    BY <2>4 DEF WordsInOrder, WordsOf
  <2>6. \E g \in 1 .. Len(Stream') : WelcomeAt(Stream', g)
    BY <2>3, <2>5, WelcomeNew
  <2> QED
    BY <2>1, <2>4, <2>6 DEF WordsInOrder, WordsOf
<1>3. CASE Write
  <2>1. UNCHANGED <<rxVars, word, waiting, exec, pc>>
    BY <1>3 DEF Write, WriteRoom, WriteStore, WriteAdvance, WriteEnable, MainOnly, hostVars
  <2>2. word \in TxTokens /\ TxContents \in Seq(Words) /\ out \in Seq(Words)
    BY DEF LinkTypes, HostTypes, RingTypes, MainTypes
  <2>3. Booted' = Booted /\ (pc' = "flush" => "RESET" \notin exec')
    BY <2>1 DEF Booted, WordsInOrder
  <2>4. CASE TxContents' = TxContents /\ out' = out
    <3>1. Stream' = Stream
      BY <2>1, <2>4 DEF Stream
    <3> QED
      BY <2>1, <2>3, <3>1, WordsQuiet
  <2>5. CASE /\ out # << >> /\ Head(out) \in Words /\ out' = Tail(out)
             /\ TxContents' = Append(TxContents, Head(out))
    <3>1. Stream' = StreamOf(word, Append(TxContents, Head(out)), Tail(out))
      BY <2>1, <2>5 DEF Stream, StreamOf, Lead
    <3>2. Stream' = Stream
      BY <2>2, <2>5, <3>1, StreamWritten, StreamIs
    <3> QED
      BY <2>1, <2>3, <3>2, WordsQuiet
  <2>6. CASE /\ out # << >> /\ Head(out) \in Words /\ out' = Tail(out)
             /\ TxContents' = TxContents /\ "RESET" \in exec
    <3>1. ~Booted /\ waiting
      BY <2>6 DEF Booted, Modes
    <3>2. NoWelcome(Stream)
      BY <3>1 DEF WordsInOrder, WordsOf
    <3>3. PICK p \in Seq(Words), c \in Seq(Words), b \in Seq(Words) :
            /\ p = Lead(word) \o TxContents /\ c = <<Head(out)>> /\ b = Tail(out) /\ out = c \o b
      <4>1. Lead(word) \in Seq(Words)
        BY <2>2, LeadIs
      <4>2. Lead(word) \o TxContents \in Seq(Words)
        BY <2>2, <4>1, JoinTyped
      <4> QED
        <5>1. /\ <<Head(out)>> \in Seq(Words) /\ Tail(out) \in Seq(Words)
              /\ out = <<Head(out)>> \o Tail(out)
          BY <2>2, <2>6, FirstAndRest
        <5> QED
          BY <4>2, <5>1
    <3>4. Stream = p \o (c \o b) /\ Stream' = p \o b
      BY <2>1, <2>6, <3>3 DEF Stream, StreamOf, Lead
    <3>5. NoWelcome(p \o b)
      BY <3>2, <3>4, NoWelcomeWithout
    <3> QED
      BY <2>1, <2>3, <3>1, <3>4, <3>5 DEF WordsInOrder, WordsOf
  <2> QED
    BY <1>3, <2>4, <2>5, <2>6, TxWritten
<1>4. CASE RtReset \/ RtClear \/ RtOverride \/ ReadChar \/ TakeChar \/ DuringLine \/ Restart
  <2>1. Stream' = Stream /\ waiting' = waiting
    BY <1>4, StreamSame, OverrideSteps DEF RtReset, RtClear, ReadChar, TakeChar, DuringLine, Restart,
                            Quiet, hostVars, serialVars
  <2>2. Booted' = Booted /\ pc' # "flush"
    BY <1>4, OverrideSteps DEF Booted, RtReset, RtClear, ReadChar, TakeChar, DuringLine, Restart, At,
                Call, LinkTypes, MainTypes, Realtime, Modes
  <2> QED
    BY <2>1, <2>2, WordsQuiet
<1>5. CASE RtReport
  <2>1. /\ UNCHANGED <<txVars, word>> /\ out = << >> /\ pc = "rt" /\ "RESET" \notin exec
        /\ pc' \in {"rt_clear", "rt_override"} /\ exec' = exec /\ waiting' = waiting
        /\ out' = << >> \/ out' = Message("status")
    BY <1>5 DEF RtReport, At, Quiet, hostVars, serialVars
  <2>2. Booted /\ Booted' /\ pc' # "flush"
    BY <2>1 DEF Booted
  <2>3. CASE out' = << >>
    BY <2>1, <2>2, <2>3, StreamSame, WordsQuiet
  <2>4. CASE out' = Message("status")
    <3>1. PICK c \in Words : c = "status" /\ c # "Grbl" /\ c # "eol" /\ c \notin Answers
      BY DEF Words, Answers
    <3>2. PICK s, u : s = Stream' /\ u = Stream
      OBVIOUS
    <3>3. u \in Seq(Words) /\ s = u \o <<c, "eol">>
      BY <2>1, <2>4, <3>1, <3>2, StreamMessage
    <3>4. CASE waiting
      <4>1. PICK g \in 1 .. Len(u) : WelcomeAt(u, g)
        BY <2>2, <3>2, <3>4 DEF WordsInOrder, WordsOf
      <4>2. g \in Nat
        BY <3>3, <4>1
      <4>3. g \in 1 .. Len(s) /\ WelcomeAt(s, g)
        <5>1. c \notin {"Grbl", "eol"}
          BY <3>1
        <5> QED
          BY <3>1, <3>3, <4>1, <4>2, <5>1, WelcomeMore
      <4> QED
        BY <2>1, <2>2, <3>2, <3>4, <4>3 DEF WordsInOrder, WordsOf
    <3>5. CASE ~waiting
      <4>1. Whole(u, 1) /\ NoWelcome(u)
        BY <3>2, <3>5 DEF WordsInOrder, WordsOf
      <4>2. Len(u) \in Nat /\ 1 \in Nat /\ 1 >= 1 /\ 1 <= Len(u) + 1
        BY <3>3
      <4>3. Whole(s, 1)
        BY <3>1, <3>3, <4>1, <4>2, WholeMore
      <4>4. NoWelcome(s)
        BY <3>1, <3>3, <4>1, NoWelcomeMore
      <4> QED
        BY <2>1, <2>2, <3>2, <3>5, <4>3, <4>4 DEF WordsInOrder, WordsOf
    <3> QED
      BY <2>1, <3>4, <3>5
  <2> QED
    BY <2>1, <2>3, <2>4
<1>6. CASE ExecuteLine
  <2>1. PICK c \in {"ok", "error"} :
          /\ UNCHANGED <<txVars, word>> /\ out = << >> /\ pc = "line"
          /\ pc' = "loop" /\ exec' = exec /\ waiting' = waiting /\ out' = Message(c)
    BY <1>6 DEF ExecuteLine, At, Quiet, hostVars, serialVars
  <2>2. c \in Words /\ c # "Grbl" /\ c # "eol"
    BY DEF Words
  <2>3. Booted' = Booted /\ (waiting => ~Booted)
    BY <2>1 DEF Booted, Modes, Busy
  <2>4. PICK s, u : s = Stream' /\ u = Stream
    OBVIOUS
  <2>5. u \in Seq(Words) /\ s = u \o <<c, "eol">>
    BY <2>1, <2>2, <2>4, StreamMessage
  <2>6. NoWelcome(u)
    BY <2>3, <2>4 DEF WordsInOrder, WordsOf
  <2>7. NoWelcome(s)
    BY <2>2, <2>5, <2>6, NoWelcomeMore
  <2>8. ~waiting => Whole(s, 1)
    <3>1. ~waiting => Whole(u, 1)
      BY <2>4 DEF WordsInOrder, WordsOf
    <3>2. Len(u) \in Nat /\ 1 \in Nat /\ 1 >= 1 /\ 1 <= Len(u) + 1
      BY <2>5
    <3> QED
      BY <2>2, <2>5, <3>1, <3>2, WholeMore
  <2> QED
    BY <2>1, <2>3, <2>4, <2>7, <2>8 DEF WordsInOrder, WordsOf
<1>7. CASE CutLine
  <2>1. /\ UNCHANGED <<txVars, word>> /\ out = << >> /\ abort
        /\ pc' = "boot" /\ exec' = exec /\ waiting' = waiting
        /\ out' = << >> \/ \E c \in {"ok", "error"} : out' = Message(c)
    BY <1>7 DEF CutLine, At, Quiet, hostVars, serialVars
  <2>2. ~Booted /\ ~Booted' /\ waiting
    BY <2>1 DEF Booted, Modes
  <2>3. CASE out' = << >>
    <3>1. Stream' = Stream
      BY <2>1, <2>3, StreamSame
    <3> QED
      BY <2>1, <2>2, <3>1 DEF WordsInOrder, WordsOf
  <2>4. CASE \E c \in {"ok", "error"} : out' = Message(c)
    <3>1. PICK c \in {"ok", "error"} : out' = Message(c)
      BY <2>4
    <3>2. c \in Words /\ c # "Grbl"
      BY DEF Words
    <3>3. PICK s, u : s = Stream' /\ u = Stream
      OBVIOUS
    <3>4. u \in Seq(Words) /\ s = u \o <<c, "eol">>
      BY <2>1, <3>1, <3>2, <3>3, StreamMessage
    <3>5. NoWelcome(u)
      BY <2>2, <3>3 DEF WordsInOrder, WordsOf
    <3>6. NoWelcome(s)
      BY <3>2, <3>4, <3>5, NoWelcomeMore
    <3> QED
      BY <2>1, <2>2, <3>3, <3>6 DEF WordsInOrder, WordsOf
  <2> QED
    BY <2>1, <2>3, <2>4
<1> QED
  BY <1>1, <1>2, <1>3, <1>4, <1>5, <1>6, <1>7 DEF MainStep

\* The modes and the words are in order at the start.
LEMMA WordsInit == LinkInit => Modes /\ WordsInOrder
<1> SUFFICES ASSUME LinkInit PROVE Modes /\ WordsInOrder
  OBVIOUS
<1>1. /\ waiting /\ pc = "boot" /\ exec = {} /\ abort = FALSE /\ word = "none" /\ out = << >>
      /\ sending = << >> /\ outstanding = << >> /\ begun = << >>
      /\ tx_head = 0 /\ tx_tail = 0
  BY DEF LinkInit, SerialInit
<1>2. ~Booted
  BY <1>1 DEF Booted
<1>3. TxContents = << >>
  <2>1. (0 - 0) % TX_RING_BUFFER = 0
    BY RingSizes
  <2>2. TxContents = [k \in 1 .. 0 |-> serial_tx_buffer[(0 + k - 1) % TX_RING_BUFFER]]
    BY <1>1, <2>1 DEF TxContents, Contents
  <2> QED
    BY <2>2
<1>4. Len(Stream) = 0
  <2>1. << >> \in Seq(Words)
    OBVIOUS
  <2>2. Lead("none") = << >>
    BY DEF Lead
  <2>3. << >> \o << >> \o << >> = << >>
    BY <2>1, ConcatEmptySeq
  <2>4. Stream = << >>
    BY <1>1, <1>3, <2>3 DEF Stream
  <2> QED
    BY <2>4
<1>5. NoWelcome(Stream)
  BY <1>4 DEF NoWelcome
<1> QED
  BY <1>1, <1>2, <1>5 DEF Modes, WordsInOrder, WordsOf

\* The words, the modes and the types are kept together.
InOrder == LinkTypes /\ (~overrun => Modes /\ WordsInOrder)

\* The transmit interrupt has overrun its ring for good.
LEMMA OverrunStays == LinkTypes /\ [Next]_vars /\ ~overrun' => ~overrun
<1> SUFFICES ASSUME LinkTypes, [Next]_vars, ~overrun' PROVE ~overrun
  OBVIOUS
<1>1. CASE Transmit
  <2>1. RingTypes /\ TxSend /\ UNCHANGED rxVars
    BY <1>1 DEF LinkTypes, Transmit
  <2> QED
    BY <2>1, TxSent
<1>2. CASE Write
  <2>1. overrun' = overrun
    BY <1>2, TxWritten
  <2> QED
    BY Zenon, <2>1
<1>3. CASE TakeChar \/ Flush \/ Receive
  <2>1. UNCHANGED txVars
    BY <1>3 DEF TakeChar, Flush, Receive
  <2> QED
    BY Zenon, <2>1 DEF txVars
<1>4. CASE RtOverride
  <2>1. UNCHANGED serialVars
    BY <1>4, OverrideSteps DEF Quiet
  <2> QED
    BY Zenon, <2>1 DEF serialVars, txVars
<1>5. CASE \/ HostStep \/ Boot \/ RtReset \/ RtReport \/ RtClear \/ ReadChar \/ DuringLine
           \/ CutLine \/ Restart \/ ExecuteLine \/ UNCHANGED vars
  <2>1. UNCHANGED serialVars
    BY <1>5 DEF HostStep, BeginLine, ReceiveReset, ReceiveStatus, ReceiveOverride, Boot, RtReset,
                RtReport, RtClear, ReadChar, DuringLine, CutLine, Restart, ExecuteLine, Quiet, vars
  <2> QED
    BY Zenon, <2>1 DEF serialVars, txVars
<1> QED
  BY <1>1, <1>2, <1>3, <1>4, <1>5 DEF Next, MainStep

\* Every step keeps types, modes and words.
LEMMA InOrderStep == InOrder /\ [Next]_vars => InOrder'
<1> SUFFICES ASSUME InOrder, [Next]_vars PROVE InOrder'
  OBVIOUS
<1>1. LinkTypes /\ LinkTypes'
  BY TypesStep DEF InOrder
<1>2. ASSUME ~overrun' PROVE Modes' /\ WordsInOrder'
  <2>1. ~overrun
    BY <1>1, <1>2, OverrunStays
  <2>2. Modes /\ WordsInOrder
    BY <2>1 DEF InOrder
  <2>3. WordsInOrder' /\ (~waiting' => ~waiting \/ Booted)
    <3>1. CASE UNCHANGED vars
      <4>1. /\ Stream' = Stream /\ waiting' = waiting /\ Booted' = Booted
            /\ pc' = "flush" => "RESET" \notin exec'
        BY <2>2, <3>1, StreamSame DEF vars, serialVars, hostVars, mainVars, Booted, WordsInOrder
      <4> QED
        BY <2>2, <4>1, WordsQuiet
    <3> QED
      BY <1>1, <1>2, <2>1, <2>2, <3>1, WordsHost, WordsTransmit, WordsMain DEF Next
  <2> QED
    BY <1>1, <2>2, <2>3, ModesStep
<1> QED
  BY <1>1, <1>2 DEF InOrder

\* They hold always.
LEMMA InOrderSafety == Spec => []InOrder
<1>1. LinkInit => InOrder
  BY TypesInit, WordsInit DEF InOrder
<1> QED
  BY <1>1, InOrderStep, PTL DEF Spec

\* Parity, counted from one.
LEMMA OddEven == \A i \in Nat : i >= 1 => ((i - 1) % 2 = 1 <=> i % 2 = 0)
  OBVIOUS

\* The theorem of MessagesWhole: whatever resets and reports come between, and
\* at every step of serial_write and its interrupt until that overruns the
\* ring, the host receives whole messages once it is welcomed (serial.c:87-124).
THEOREM WholeMessages == Spec => []MessagesWhole
<1>1. InOrder => MessagesWhole
  <2> SUFFICES ASSUME InOrder, ~waiting, ~overrun, NEW i \in 1 .. Len(Stream)
               PROVE  Stream[i] = "eol" <=> i % 2 = 0
    BY DEF MessagesWhole
  <2>1. Whole(Stream, 1)
    BY DEF InOrder, WordsInOrder, WordsOf
  <2>2. Stream[i] = "eol" <=> (i - 1) % 2 = 1
    BY <2>1 DEF Whole
  <2>3. i \in Nat /\ i >= 1
    <3>1. word \in TxTokens /\ TxContents \in Seq(Words) /\ out \in Seq(Words)
      BY DEF InOrder, LinkTypes, HostTypes, RingTypes, MainTypes
    <3>2. Stream \in Seq(Words)
      BY <3>1, StreamTyped, StreamIs
    <3> QED
      BY <3>2
  <2> QED
    BY <2>2, <2>3, OddEven
<1> QED
  BY <1>1, InOrderSafety, PTL

-----------------------------------------------------------------------------
\* The transmit interrupt is on, or about to be.

\* A step that leaves the transmit ring and its interrupt alone.
LEMMA StrandedSame ==
  ASSUME NoneStranded, UNCHANGED txVars
  PROVE  NoneStranded'
<1>1. UNCHANGED <<tx_head, tx_tail, udrie, tx_step>>
  BY DEF txVars
<1> QED
  BY Zenon, <1>1 DEF NoneStranded

\* serial_write and its interrupt.
LEMMA StrandedTx ==
  ASSUME NoneStranded, Write \/ Transmit
  PROVE  NoneStranded'
<1>1. CASE WriteRoom /\ UNCHANGED txVars
  BY <1>1, StrandedSame
<1>2. CASE (WriteRoom /\ TxRoom) \/ WriteStore
  <2>1. UNCHANGED <<tx_head, tx_tail, udrie>> /\ tx_step # "enable"
    BY <1>2 DEF WriteRoom, WriteStore, TxRoom, TxStore
  <2> QED
    BY Zenon, <2>1 DEF NoneStranded
<1>3. CASE WriteAdvance
  BY <1>3 DEF WriteAdvance, TxAdvance, NoneStranded
<1>4. CASE WriteEnable
  BY <1>4 DEF WriteEnable, TxEnable, NoneStranded
<1>5. CASE Transmit
  <2>1. udrie' = (tx_tail' # tx_head) /\ tx_head' = tx_head
    BY <1>5 DEF Transmit, TxSend
  <2> QED
    BY Zenon, <2>1 DEF NoneStranded
<1> QED
  BY <1>1, <1>2, <1>3, <1>4, <1>5 DEF Write, WriteRoom

\* The theorem of NoneStranded: whatever the order in which serial_write turns
\* the interrupt on and the interrupt itself off, what is in the ring is sent
\* (serial.c:98-123); overrun or not.
THEOREM StrandedSafety == Spec => []NoneStranded
<1>1. LinkInit => NoneStranded
  BY DEF LinkInit, SerialInit, NoneStranded
<1>2. NoneStranded /\ [Next]_vars => NoneStranded'
  <2> SUFFICES ASSUME NoneStranded, [Next]_vars PROVE NoneStranded'
    OBVIOUS
  <2>1. CASE Write \/ Transmit
    BY <2>1, StrandedTx
  <2>2. CASE \/ TakeChar \/ Flush \/ Receive \/ RtOverride \/ HostStep \/ Boot \/ RtReset
             \/ RtReport \/ RtClear \/ ReadChar \/ DuringLine \/ CutLine \/ Restart
             \/ ExecuteLine \/ UNCHANGED vars
    <3>1. UNCHANGED txVars
      BY <2>2, OverrideSteps
         DEF TakeChar, Flush, Receive, HostStep, BeginLine, ReceiveReset, ReceiveStatus,
             ReceiveOverride, Boot, RtReset, RtReport, RtClear, ReadChar, DuringLine, CutLine,
             Restart, ExecuteLine, Quiet, vars, serialVars
    <3> QED
      BY <3>1, StrandedSame
  <2> QED
    BY <2>1, <2>2 DEF Next, MainStep
<1> QED
  BY <1>1, <1>2, PTL DEF Spec

-----------------------------------------------------------------------------
\* Lines and their characters.

\* The characters of the first n lines of b.
Lengths(b) == [k \in 1 .. Len(b) |-> Len(b[k].chars)]
Off(b, n) == Sum(Lengths(b), n)

\* The last lines of b.
EndOf(o, b) ==
  /\ Len(o) <= Len(b)
  /\ \A k \in 1 .. Len(o) : o[k] = b[Len(b) - Len(o) + k]

\* What has been read is p characters: u is what follows.
Remaining(b, p, u) ==
  /\ p + Len(u) = Off(b, Len(b))
  /\ \A i \in 1 .. Len(b) : \A j \in 1 .. Len(b[i].chars) :
       Off(b, i - 1) + j > p => u[Off(b, i - 1) + j - p] = b[i].chars[j]

\* A line has at least one character.
LEMMA LengthsOf ==
  ASSUME NEW b \in Seq(Lines), NEW k \in 1 .. Len(b)
  PROVE  /\ b[k] \in Lines /\ Len(b[k].chars) \in Nat /\ Len(b[k].chars) >= 1
         /\ Lengths(b)[k] = Len(b[k].chars)
<1>1. b[k] \in Lines
  OBVIOUS
<1>2. Len(b[k].chars) \in 1 .. RX_BUFFER_SIZE
  BY <1>1, LineFacts
<1>3. Lengths(b)[k] = Len(b[k].chars)
  BY DEF Lengths
<1> QED
  BY <1>1, <1>2, <1>3, BufferAssumption

\* The number of characters is natural.
LEMMA OffNatural ==
  ASSUME NEW b \in Seq(Lines), NEW n \in 0 .. Len(b)
  PROVE  Off(b, n) \in Nat /\ Off(b, 0) = 0
<1>1. \A i \in 1 .. n : Lengths(b)[i] \in Nat
  <2>1. \A i \in 1 .. n : i \in 1 .. Len(b)
    OBVIOUS
  <2> QED
    BY <2>1, LengthsOf
<1> QED
  BY SMTT(30), <1>1, SumNatural, SumUnfolds DEF Off

\* What the next line adds.
LEMMA OffStep ==
  ASSUME NEW b \in Seq(Lines), NEW n \in Nat, n < Len(b)
  PROVE  /\ Off(b, n + 1) = Off(b, n) + Len(b[n + 1].chars)
         /\ Off(b, n) \in Nat /\ Off(b, n + 1) \in Nat
         /\ n + 1 \in 1 .. Len(b) /\ b[n + 1] \in Lines
         /\ Len(b[n + 1].chars) \in Nat /\ Len(b[n + 1].chars) >= 1
<1>1. n + 1 \in 1 .. Len(b) /\ n \in 0 .. Len(b) /\ n + 1 \in 0 .. Len(b)
  OBVIOUS
<1>2. Off(b, n) \in Nat /\ Off(b, n + 1) \in Nat
  BY <1>1, OffNatural
<1>3. Off(b, n + 1) = Off(b, n) + Lengths(b)[n + 1]
  BY SumUnfolds DEF Off
<1> QED
  BY <1>1, <1>2, <1>3, LengthsOf

\* The characters between two places.
LEMMA OffSplit ==
  ASSUME NEW b \in Seq(Lines), NEW o \in Seq(Lines), EndOf(o, b)
  PROVE  /\ Len(b) - Len(o) \in 0 .. Len(b)
         /\ Off(b, Len(b)) = Off(b, Len(b) - Len(o)) + Off(o, Len(o))
<1>1. PICK m \in Nat, n \in Nat : m = Len(b) - Len(o) /\ n = Len(o) /\ m + n = Len(b)
  <2>1. Len(b) - Len(o) \in Nat /\ Len(o) \in Nat /\ (Len(b) - Len(o)) + Len(o) = Len(b)
    BY DEF EndOf
  <2> QED
    BY <2>1
<1>2. \A i \in 1 .. (m + n) : Lengths(b)[i] \in Nat
  BY <1>1, LengthsOf
<1>3. ASSUME NEW i \in 1 .. n
      PROVE  Lengths(o)[i] = Lengths(b)[m + i]
  <2>1. m + i \in 1 .. Len(b) /\ i \in 1 .. Len(o)
    BY <1>1
  <2>2. o[i] = b[m + i]
    BY <1>1, <2>1 DEF EndOf
  <2> QED
    BY <2>1, <2>2, LengthsOf
<1>4. Sum(Lengths(b), m + n) = Sum(Lengths(b), m) + Sum(Lengths(o), n)
  BY <1>2, <1>3, SumSplit
<1> QED
  BY <1>1, <1>4 DEF Off

\* More lines have no fewer characters.
LEMMA OffMonotone ==
  ASSUME NEW b \in Seq(Lines), NEW m \in Nat, NEW n \in Nat, m <= n, n <= Len(b)
  PROVE  Off(b, m) <= Off(b, n)
<1> DEFINE N == {k \in Nat : m + k <= n => Off(b, m) <= Off(b, m + k)}
<1>1. 0 \in N
  <2>1. m \in 0 .. Len(b)
    OBVIOUS
  <2>2. Off(b, m) \in Nat
    BY <2>1, OffNatural
  <2> QED
    BY <2>2
<1>2. ASSUME NEW k \in Nat, k \in N
      PROVE  k + 1 \in N
  <2> SUFFICES ASSUME m + (k + 1) <= n PROVE Off(b, m) <= Off(b, m + (k + 1))
    OBVIOUS
  <2>1. PICK i \in Nat : i = m + k /\ i < Len(b) /\ m + (k + 1) = i + 1
    OBVIOUS
  <2>2. Off(b, m) <= Off(b, i)
    BY <1>2, <2>1
  <2>3. /\ Off(b, i + 1) = Off(b, i) + Len(b[i + 1].chars)
        /\ Off(b, i) \in Nat /\ Len(b[i + 1].chars) \in Nat
    BY <2>1, OffStep
  <2>4. Off(b, m) \in Nat
    <3>1. m \in 0 .. Len(b)
      OBVIOUS
    <3> QED
      BY <3>1, OffNatural
  <2> QED
    BY <2>1, <2>2, <2>3, <2>4
<1> HIDE DEF N
<1>3. Nat \subseteq N
  BY <1>1, <1>2, Induction
<1>4. PICK k \in Nat : n = m + k
  <2>1. n - m \in Nat /\ n = m + (n - m)
    OBVIOUS
  <2> QED
    BY <2>1
<1>5. k \in N
  BY <1>3
<1> QED
  BY <1>4, <1>5 DEF N

\* A line begun.
Longer(a, b, l) == a = Append(b, l)

\* The characters with a line begun.
LEMMA OffMore ==
  ASSUME NEW b \in Seq(Lines), NEW l \in Lines, NEW a, Longer(a, b, l)
  PROVE  /\ a \in Seq(Lines) /\ Len(a) = Len(b) + 1 /\ a[Len(b) + 1] = l
         /\ \A k \in 1 .. Len(b) : a[k] = b[k]
         /\ \A n \in 0 .. Len(b) : Off(a, n) = Off(b, n)
         /\ Off(a, Len(b) + 1) = Off(b, Len(b)) + Len(l.chars)
<1>1. /\ a \in Seq(Lines) /\ Len(a) = Len(b) + 1 /\ a[Len(b) + 1] = l
      /\ \A k \in 1 .. Len(b) : a[k] = b[k]
  BY AppendProperties DEF Longer
<1>2. ASSUME NEW n \in 0 .. Len(b)
      PROVE  Off(a, n) = Off(b, n)
  <2>1. \A i \in 1 .. n : Lengths(a)[i] = Lengths(b)[i]
    <3>1. ASSUME NEW i \in 1 .. n
          PROVE  Lengths(a)[i] = Lengths(b)[i]
      <4>1. i \in 1 .. Len(a) /\ i \in 1 .. Len(b)
        BY <1>1
      <4> QED
        BY <1>1, <4>1, LengthsOf
    <3> QED
      BY <3>1
  <2> QED
    BY <2>1, SumSame DEF Off
<1>3. Off(a, Len(b) + 1) = Off(a, Len(b)) + Len(a[Len(b) + 1].chars)
  <2>1. Len(b) \in Nat /\ Len(b) < Len(a)
    BY <1>1
  <2> QED
    BY <1>1, <2>1, OffStep
<1>4. Off(a, Len(b)) = Off(b, Len(b))
  BY <1>2
<1> QED
  BY <1>1, <1>2, <1>3, <1>4

\* A line answered.
LEMMA OffLess ==
  ASSUME NEW o \in Seq(Lines), o # << >>
  PROVE  Tail(o) \in Seq(Lines) /\ Off(Tail(o), Len(Tail(o))) <= Off(o, Len(o))
<1>1. Tail(o) \in Seq(Lines) /\ Len(o) >= 1 /\ Len(Tail(o)) = Len(o) - 1
      /\ \A k \in 1 .. Len(Tail(o)) : Tail(o)[k] = o[k + 1]
  BY HeadTailProperties
<1>2. EndOf(Tail(o), o)
  <2>1. \A k \in 1 .. Len(Tail(o)) : Len(o) - Len(Tail(o)) + k = k + 1
    BY <1>1
  <2> QED
    BY <1>1, <2>1 DEF EndOf
<1>3. Len(o) - Len(Tail(o)) \in 0 .. Len(o)
      /\ Off(o, Len(o)) = Off(o, Len(o) - Len(Tail(o))) + Off(Tail(o), Len(Tail(o)))
  BY <1>1, <1>2, OffSplit
<1>4. Off(o, Len(o) - Len(Tail(o))) \in Nat /\ Off(Tail(o), Len(Tail(o))) \in Nat
  <2>1. Len(Tail(o)) \in 0 .. Len(Tail(o))
    BY <1>1
  <2> QED
    BY <1>1, <1>3, <2>1, OffNatural
<1> QED
  BY <1>1, <1>3, <1>4
-----------------------------------------------------------------------------
\* Ends of lists of lines.
LEMMA EndMore ==
  ASSUME NEW o \in Seq(Lines), NEW b \in Seq(Lines), NEW l \in Lines, EndOf(o, b)
  PROVE  EndOf(Append(o, l), Append(b, l))
<1>1. PICK p, a : p = Append(o, l) /\ a = Append(b, l)
  OBVIOUS
<1>2. PICK m, n : m = Len(o) /\ n = Len(b) /\ m \in Nat /\ n \in Nat
  OBVIOUS
<1>3. /\ Len(p) = m + 1 /\ p[m + 1] = l /\ \A k \in 1 .. m : p[k] = o[k]
      /\ Len(a) = n + 1 /\ a[n + 1] = l /\ \A k \in 1 .. n : a[k] = b[k]
  BY <1>1, <1>2, AppendProperties
<1>4. m <= n /\ \A k \in 1 .. m : o[k] = b[n - m + k]
  BY <1>2 DEF EndOf
<1>5. ASSUME NEW k \in 1 .. (m + 1)
      PROVE  p[k] = a[(n + 1) - (m + 1) + k]
  <2>1. (n + 1) - (m + 1) + k = n - m + k
    BY <1>2
  <2>2. CASE k = m + 1
    <3>1. n - m + k = n + 1
      BY <1>2, <2>2
    <3> QED
      BY <1>3, <2>1, <2>2, <3>1
  <2>3. CASE k # m + 1
    <3>1. k \in 1 .. m /\ n - m + k \in 1 .. n
      BY <1>2, <1>4, <2>3
    <3> QED
      BY <1>3, <1>4, <2>1, <3>1
  <2> QED
    BY <2>2, <2>3
<1>6. m + 1 <= n + 1
  BY <1>2, <1>4
<1>7. EndOf(p, a)
  BY <1>3, <1>5, <1>6 DEF EndOf
<1> QED
  BY <1>1, <1>7

\* The last lines without their first are the last lines.
LEMMA EndLess ==
  ASSUME NEW o \in Seq(Lines), NEW b \in Seq(Lines), EndOf(o, b), o # << >>
  PROVE  EndOf(Tail(o), b) /\ Len(Tail(o)) = Len(o) - 1
<1>0. PICK t : t = Tail(o)
  OBVIOUS
<1>1. PICK m, n : m = Len(o) /\ n = Len(b) /\ m \in Nat /\ n \in Nat
  OBVIOUS
<1>2. m >= 1 /\ Len(t) = m - 1 /\ \A k \in 1 .. (m - 1) : t[k] = o[k + 1]
  BY <1>0, <1>1, HeadTailProperties
<1>3. m <= n /\ \A k \in 1 .. m : o[k] = b[n - m + k]
  BY <1>1 DEF EndOf
<1>4. ASSUME NEW k \in 1 .. (m - 1)
      PROVE  t[k] = b[n - (m - 1) + k]
  <2>1. k + 1 \in 1 .. m /\ n - m + (k + 1) = n - (m - 1) + k
    BY <1>1
  <2> QED
    BY <1>2, <1>3, <2>1
<1>5. m - 1 <= n
  BY <1>1, <1>3
<1> QED
  BY <1>0, <1>1, <1>2, <1>4, <1>5 DEF EndOf

\* The place of a character lies within its line, and the line within all.
LEMMA PlaceOf ==
  ASSUME NEW b \in Seq(Lines), NEW i \in 1 .. Len(b), NEW j \in 1 .. Len(b[i].chars)
  PROVE  /\ Off(b, i - 1) \in Nat /\ i - 1 \in 0 .. Len(b)
         /\ Off(b, i - 1) + j <= Off(b, i) /\ Off(b, i) <= Off(b, Len(b))
<1>1. PICK n \in Nat : n = i - 1 /\ n + 1 = i /\ n < Len(b) /\ n \in 0 .. Len(b)
  <2>1. i - 1 \in Nat /\ (i - 1) + 1 = i /\ i - 1 < Len(b)
    OBVIOUS
  <2> QED
    BY <2>1
<1>2. Off(b, n + 1) = Off(b, n) + Len(b[n + 1].chars) /\ Off(b, n) \in Nat
      /\ Len(b[n + 1].chars) \in Nat
  BY <1>1, OffStep
<1>3. Off(b, i) <= Off(b, Len(b))
  <2>1. i \in Nat /\ Len(b) \in Nat /\ i <= Len(b) /\ Len(b) <= Len(b)
    OBVIOUS
  <2> QED
    BY <2>1, OffMonotone
<1>4. Off(b, n) + j <= Off(b, n + 1)
  BY <1>1, <1>2
<1> QED
  BY <1>1, <1>2, <1>3, <1>4

\* A position behind the first m places.
LEMMA PastEnd ==
  \A m \in Nat, k \in Nat : \A j \in 1 .. k : \A x \in Nat :
    x = m + j => x \in 1 .. (m + k) /\ ~(x <= m) /\ x - m = j
  OBVIOUS

\* A line begun comes behind what is unread.
LEMMA RemainingMore ==
  ASSUME NEW b \in Seq(Lines), NEW l \in Lines, NEW u \in Seq(Characters), NEW p \in Nat,
         Remaining(b, p, u)
  PROVE  Remaining(Append(b, l), p, u \o l.chars) /\ u \o l.chars \in Seq(Characters)
<1>0. PICK a : a = Append(b, l) /\ Longer(a, b, l)
  BY DEF Longer
<1>a. PICK k : k = Len(l.chars)
  OBVIOUS
<1>1. PICK N, m : N = Len(b) /\ m = Len(u) /\ N \in Nat /\ m \in Nat
  OBVIOUS
<1>b. /\ a \in Seq(Lines) /\ Len(a) = Len(b) + 1 /\ a[Len(b) + 1] = l
      /\ \A i \in 1 .. Len(b) : a[i] = b[i]
      /\ \A n \in 0 .. Len(b) : Off(a, n) = Off(b, n)
      /\ Off(a, Len(b) + 1) = Off(b, Len(b)) + Len(l.chars)
  BY <1>0, OffMore
<1>2. /\ a \in Seq(Lines) /\ Len(a) = N + 1 /\ a[N + 1] = l
      /\ \A i \in 1 .. N : a[i] = b[i]
      /\ \A n \in 0 .. N : Off(a, n) = Off(b, n)
      /\ Off(a, N + 1) = Off(b, N) + k
  BY <1>a, <1>b, <1>1
<1>3. l.chars \in Seq(Characters) /\ k \in Nat
  BY <1>a, LineFacts
<1>4. PICK v : v = u \o l.chars
  OBVIOUS
<1>5. /\ v \in Seq(Characters) /\ Len(v) = m + k
      /\ \A j \in 1 .. (m + k) : v[j] = IF j <= m THEN u[j] ELSE l.chars[j - m]
  <2>1. PICK c \in Seq(Characters) : c = l.chars
    BY <1>3
  <2>2. /\ u \o c \in Seq(Characters) /\ Len(u \o c) = Len(u) + Len(c)
        /\ \A j \in 1 .. (Len(u) + Len(c)) : (u \o c)[j] = IF j <= Len(u) THEN u[j] ELSE c[j - Len(u)]
    BY ConcatProperties
  <2> QED
    BY <1>a, <1>1, <1>4, <2>1, <2>2
<1>6. /\ p + m = Off(b, N)
      /\ \A i \in 1 .. N : \A j \in 1 .. Len(b[i].chars) :
           Off(b, i - 1) + j > p => u[Off(b, i - 1) + j - p] = b[i].chars[j]
  BY <1>1 DEF Remaining
<1>7. ASSUME NEW i \in 1 .. (N + 1), NEW j \in 1 .. Len(a[i].chars), Off(a, i - 1) + j > p
      PROVE  v[Off(a, i - 1) + j - p] = a[i].chars[j]
  <2>1. CASE i = N + 1
    <3>1. a[i] = l /\ Off(a, i - 1) = Off(b, N) /\ j \in 1 .. k
      <4>1. i - 1 = N /\ N \in 0 .. N
        BY <1>1, <2>1
      <4> QED
        BY <1>a, <1>1, <1>2, <2>1, <4>1
    <3>2. PICK x \in Nat : x = Off(b, N) + j - p /\ x = m + j
      <4>1. m + j \in Nat /\ m + j = Off(b, N) + j - p
        BY <1>1, <1>3, <1>6, <3>1
      <4> QED
        BY <4>1
    <3>3. v[x] = l.chars[j]
      <4>0. x = m + j /\ m \in Nat /\ k \in Nat /\ j \in 1 .. k
        BY <1>1, <1>3, <3>1, <3>2
      <4>1. x \in 1 .. (m + k) /\ ~(x <= m) /\ x - m = j
        BY <4>0, PastEnd
      <4> QED
        BY <1>5, <4>1
    <3> QED
      BY <3>1, <3>2, <3>3
  <2>2. CASE i # N + 1
    <3>1. i \in 1 .. N /\ i - 1 \in 0 .. N
      BY <1>1, <2>2
    <3>2. a[i] = b[i] /\ Off(a, i - 1) = Off(b, i - 1) /\ j \in 1 .. Len(b[i].chars)
      BY <1>2, <3>1
    <3>3. Off(b, i - 1) \in Nat /\ Off(b, i - 1) + j <= Off(b, i) /\ Off(b, i) <= Off(b, N)
          /\ Off(b, i) \in Nat /\ Off(b, N) \in Nat
      <4>1. i \in 0 .. Len(b) /\ Len(b) \in 0 .. Len(b)
        BY <1>1, <3>1
      <4> QED
        BY <1>1, <3>1, <3>2, <4>1, PlaceOf, OffNatural
    <3>4. PICK x \in Nat : x = Off(b, i - 1) + j - p /\ x \in 1 .. m
      <4>1. Off(b, i - 1) + j > p
        BY <1>7, <3>2
      <4>2. Off(b, i - 1) + j - p \in 1 .. m
        BY SMTT(30), <1>1, <1>6, <3>2, <3>3, <4>1
      <4> QED
        BY <1>1, <4>2
    <3>5. v[x] = u[x]
      <4>1. x \in 1 .. (m + k) /\ x <= m
        BY <1>1, <1>3, <3>4
      <4> QED
        BY <1>5, <4>1
    <3>6. u[x] = b[i].chars[j]
      BY <1>6, <1>7, <3>1, <3>2, <3>4
    <3> QED
      BY <3>2, <3>4, <3>5, <3>6
  <2> QED
    BY <2>1, <2>2
<1>8. p + (m + k) = Off(a, N + 1)
  BY <1>a, <1>1, <1>2, <1>3, <1>6
<1>9. Remaining(a, p, v)
  BY <1>2, <1>5, <1>7, <1>8 DEF Remaining
<1> QED
  BY <1>0, <1>4, <1>5, <1>9

\* A character read leaves the rest in its place.
LEMMA RemainingLess ==
  ASSUME NEW b \in Seq(Lines), NEW u \in Seq(Characters), NEW p \in Nat,
         Remaining(b, p, u), u # << >>
  PROVE  Remaining(b, p + 1, Tail(u)) /\ Tail(u) \in Seq(Characters)
<1>0. PICK v : v = Tail(u)
  OBVIOUS
<1>a. Len(u) >= 1
  OBVIOUS
<1>b. PICK N \in Nat, m \in Nat : N = Len(b) /\ m = Len(u)
  <2>1. Len(b) \in Nat /\ Len(u) \in Nat
    OBVIOUS
  <2> QED
    BY <2>1
<1>1. N = Len(b) /\ m = Len(u) /\ N \in Nat /\ m \in Nat /\ m >= 1
  BY <1>a, <1>b
<1>2. v \in Seq(Characters) /\ Len(v) = m - 1 /\ \A k \in 1 .. (m - 1) : v[k] = u[k + 1]
  BY <1>0, <1>1, HeadTailProperties
<1>3. /\ p + m = Off(b, N)
      /\ \A i \in 1 .. N : \A j \in 1 .. Len(b[i].chars) :
           Off(b, i - 1) + j > p => u[Off(b, i - 1) + j - p] = b[i].chars[j]
  BY <1>1 DEF Remaining
<1>4. ASSUME NEW i \in 1 .. N, NEW j \in 1 .. Len(b[i].chars), Off(b, i - 1) + j > p + 1
      PROVE  v[Off(b, i - 1) + j - (p + 1)] = b[i].chars[j]
  <2>1. Off(b, i - 1) \in Nat /\ Off(b, i - 1) + j <= Off(b, i) /\ Off(b, i) <= Off(b, N)
        /\ Off(b, i) \in Nat /\ Off(b, N) \in Nat
    <3>1. i \in 0 .. Len(b) /\ Len(b) \in 0 .. Len(b)
      BY <1>1
    <3> QED
      BY <1>1, <3>1, PlaceOf, OffNatural
  <2>2. j \in Nat
    <3>1. Len(b[i].chars) \in Nat
      BY <1>1, LengthsOf
    <3> QED
      BY <3>1
  <2>3. PICK x \in 1 .. (m - 1) : x = Off(b, i - 1) + j - (p + 1) /\ x + 1 = Off(b, i - 1) + j - p
    <3>1. Off(b, i - 1) + j - (p + 1) \in 1 .. (m - 1)
          /\ Off(b, i - 1) + j - (p + 1) + 1 = Off(b, i - 1) + j - p
      BY SMTT(30), <1>1, <1>3, <1>4, <2>1, <2>2
    <3> QED
      BY <3>1
  <2>4. v[x] = u[x + 1]
    BY <1>2
  <2>5. Off(b, i - 1) + j > p
    BY <1>4, <2>1, <2>2
  <2>6. u[x + 1] = b[i].chars[j]
    BY <1>3, <2>3, <2>5
  <2> QED
    BY <2>3, <2>4, <2>6
<1>5. (p + 1) + (m - 1) = Off(b, N)
  BY <1>1, <1>3
<1>6. Remaining(b, p + 1, v)
  BY <1>1, <1>2, <1>4, <1>5 DEF Remaining
<1> QED
  BY <1>0, <1>2, <1>6
-----------------------------------------------------------------------------
\* Where the program is: e lines are executed, the next is being executed or
\* has been read in part.
Positions(b, e, busy, p, u) ==
  /\ e \in 0 .. Len(b) /\ p \in Nat
  /\ Remaining(b, p, u)
  /\ busy => e < Len(b) /\ p = Off(b, e + 1)
  /\ ~busy /\ e = Len(b) => p = Off(b, e)
  /\ ~busy /\ e < Len(b) => Off(b, e) <= p /\ p < Off(b, e + 1)

\* What is unread lies in lines that are not executed.
LEMMA PositionsRoom ==
  ASSUME NEW b \in Seq(Lines), NEW e, NEW busy \in BOOLEAN, NEW p, NEW u \in Seq(Characters),
         Positions(b, e, busy, p, u)
  PROVE  Off(b, e) <= p /\ Off(b, e) \in Nat /\ p + Len(u) = Off(b, Len(b))
<1>1. e \in 0 .. Len(b) /\ p \in Nat /\ p + Len(u) = Off(b, Len(b)) /\ e \in Nat
  BY DEF Positions, Remaining
<1>2. Off(b, e) \in Nat
  BY <1>1, OffNatural
<1>3. CASE busy
  <2>1. e < Len(b) /\ p = Off(b, e + 1)
    BY <1>3 DEF Positions
  <2>2. Off(b, e + 1) = Off(b, e) + Len(b[e + 1].chars) /\ Len(b[e + 1].chars) \in Nat
    BY <1>1, <2>1, OffStep
  <2> QED
    BY <1>1, <1>2, <2>1, <2>2
<1>4. CASE ~busy
  BY <1>1, <1>2, <1>4 DEF Positions
<1> QED
  BY <1>3, <1>4

\* A line begun keeps the program in its place.
LEMMA PositionsMore ==
  ASSUME NEW b \in Seq(Lines), NEW e, NEW busy \in BOOLEAN, NEW p, NEW u \in Seq(Characters),
         Positions(b, e, busy, p, u), NEW l \in Lines
  PROVE  Positions(Append(b, l), e, busy, p, u \o l.chars)
<1>0. PICK a : a = Append(b, l) /\ Longer(a, b, l)
  BY DEF Longer
<1>1. /\ e \in 0 .. Len(b) /\ p \in Nat /\ e \in Nat
      /\ busy => e < Len(b) /\ p = Off(b, e + 1)
      /\ ~busy /\ e = Len(b) => p = Off(b, e)
      /\ ~busy /\ e < Len(b) => Off(b, e) <= p /\ p < Off(b, e + 1)
  BY DEF Positions
<1>2. /\ Len(a) = Len(b) + 1 /\ \A n \in 0 .. Len(b) : Off(a, n) = Off(b, n)
      /\ Off(a, Len(b) + 1) = Off(b, Len(b)) + Len(l.chars)
  BY <1>0, OffMore
<1>3. Remaining(a, p, u \o l.chars)
  BY <1>0, <1>1, RemainingMore DEF Positions
<1>4. e < Len(b) => e + 1 \in 0 .. Len(b)
  BY <1>1
<1>5. busy => e < Len(a) /\ p = Off(a, e + 1)
  BY <1>1, <1>2, <1>4
<1>6. ~busy => Off(a, e) <= p /\ p < Off(a, e + 1)
  <2>1. CASE e = Len(b)
    <3>1. Len(l.chars) \in Nat /\ Len(l.chars) >= 1 /\ Off(b, e) \in Nat
      BY <1>1, LineFacts, OffNatural, BufferAssumption
    <3> QED
      BY <1>1, <1>2, <2>1, <3>1
  <2>2. CASE e # Len(b)
    <3>1. e < Len(b)
      BY <1>1, <2>2
    <3> QED
      BY <1>1, <1>2, <1>4, <3>1
  <2> QED
    BY <2>1, <2>2
<1>7. e \in 0 .. Len(a) /\ e # Len(a)
  BY <1>1, <1>2
<1>8. Positions(a, e, busy, p, u \o l.chars)
  BY <1>1, <1>3, <1>5, <1>6, <1>7 DEF Positions
<1> QED
  BY <1>0, <1>8

\* A character taken: it is the next one of the next line.
LEMMA PositionsTaken ==
  ASSUME NEW b \in Seq(Lines), NEW e, NEW p, NEW u \in Seq(Characters), u # << >>,
         Positions(b, e, FALSE, p, u)
  PROVE  /\ e \in Nat /\ e < Len(b) /\ p - Off(b, e) \in 0 .. (Len(b[e + 1].chars) - 1)
         /\ b[e + 1] \in Lines
         /\ u[1] = b[e + 1].chars[(p - Off(b, e)) + 1]
         /\ u[1] = "nl" <=> (p - Off(b, e)) + 1 = Len(b[e + 1].chars)
         /\ u[1] = "nl" => Positions(b, e, TRUE, p + 1, Tail(u))
         /\ u[1] # "nl" => Positions(b, e, FALSE, p + 1, Tail(u))
<1>1. /\ e \in 0 .. Len(b) /\ p \in Nat /\ e \in Nat /\ Remaining(b, p, u)
      /\ e = Len(b) => p = Off(b, e)
      /\ e < Len(b) => Off(b, e) <= p /\ p < Off(b, e + 1)
  BY DEF Positions
<1>2. p + Len(u) = Off(b, Len(b)) /\ Len(u) \in Nat /\ Len(u) >= 1
  BY <1>1 DEF Remaining
<1>3. e < Len(b)
  BY <1>1, <1>2
<1>4. /\ Off(b, e + 1) = Off(b, e) + Len(b[e + 1].chars)
      /\ Off(b, e) \in Nat /\ Off(b, e + 1) \in Nat
      /\ e + 1 \in 1 .. Len(b) /\ b[e + 1] \in Lines
      /\ Len(b[e + 1].chars) \in Nat
  BY <1>1, <1>3, OffStep
<1>5. PICK c \in Nat, n \in Nat : /\ c = p - Off(b, e) /\ n = Len(b[e + 1].chars) /\ c < n
                                  /\ p = Off(b, e) + c
                                  /\ Off(b, e + 1) = Off(b, e) + n
  <2>1. p - Off(b, e) \in Nat /\ p - Off(b, e) < Len(b[e + 1].chars)
        /\ p = Off(b, e) + (p - Off(b, e))
    BY <1>1, <1>3, <1>4
  <2> QED
    BY <1>4, <2>1
<1>6. u[1] = b[e + 1].chars[c + 1]
  <2>1. c + 1 \in 1 .. Len(b[e + 1].chars)
    BY <1>5
  <2>2. (e + 1) - 1 = e /\ Off(b, e) + (c + 1) > p /\ Off(b, e) + (c + 1) - p = 1
    <3>1. PICK o \in Nat : o = Off(b, e) /\ p = o + c
      BY <1>4, <1>5
    <3>2. o + (c + 1) > p /\ o + (c + 1) - p = 1
      BY <3>1
    <3>3. (e + 1) - 1 = e
      BY <1>1
    <3> QED
      BY <3>1, <3>2, <3>3
  <2>3. Off(b, (e + 1) - 1) + (c + 1) > p
          => u[Off(b, (e + 1) - 1) + (c + 1) - p] = b[e + 1].chars[c + 1]
    BY <1>1, <1>4, <2>1 DEF Remaining
  <2> QED
    BY <2>2, <2>3
<1>7. u[1] = "nl" <=> c + 1 = n
  <2>1. PICK l \in Lines : l = b[e + 1]
    BY <1>4
  <2>2. c + 1 \in 1 .. Len(l.chars)
    BY <1>5, <2>1
  <2>3. l.chars[c + 1] = "nl" <=> c + 1 = Len(l.chars)
    BY <2>2, LineFacts
  <2> QED
    BY <1>5, <1>6, <2>1, <2>3
<1>8. Remaining(b, p + 1, Tail(u)) /\ p + 1 \in Nat
  BY <1>1, RemainingLess
<1>a. PICK o \in Nat, f \in Nat : o = Off(b, e) /\ f = Off(b, e + 1) /\ p = o + c /\ f = o + n
  BY <1>4, <1>5
<1>9. u[1] = "nl" => p + 1 = Off(b, e + 1)
  <2>1. c + 1 = n => p + 1 = f
    BY <1>a
  <2> QED
    BY <1>7, <1>a, <2>1
<1>10. u[1] # "nl" => Off(b, e) <= p + 1 /\ p + 1 < Off(b, e + 1)
  <2>0. c < n
    BY <1>5
  <2>1. c + 1 # n => o <= p + 1 /\ p + 1 < f
    BY <1>a, <2>0
  <2> QED
    BY <1>7, <1>a, <2>1
<1>11. /\ u[1] = "nl" => Positions(b, e, TRUE, p + 1, Tail(u))
       /\ u[1] # "nl" => Positions(b, e, FALSE, p + 1, Tail(u))
  <2>1. e # Len(b)
    BY <1>1, <1>3
  <2> QED
    BY <1>1, <1>3, <1>8, <1>9, <1>10, <2>1 DEF Positions
<1>12. c \in 0 .. (n - 1)
  BY <1>5
<1>13. p - Off(b, e) = c /\ Len(b[e + 1].chars) = n
  BY <1>5
<1> QED
  BY <1>1, <1>3, <1>4, <1>6, <1>7, <1>11, <1>12, <1>13

\* A line executed.
LEMMA PositionsExecuted ==
  ASSUME NEW b \in Seq(Lines), NEW e, NEW p, NEW u \in Seq(Characters),
         Positions(b, e, TRUE, p, u)
  PROVE  Positions(b, e + 1, FALSE, p, u) /\ e \in Nat /\ e < Len(b) /\ p = Off(b, e + 1)
<1>1. /\ e \in 0 .. Len(b) /\ p \in Nat /\ e \in Nat /\ Remaining(b, p, u)
      /\ e < Len(b) /\ p = Off(b, e + 1)
  BY DEF Positions
<1>2. e + 1 \in 0 .. Len(b) /\ e + 1 \in Nat
  BY <1>1
<1>3. e + 1 < Len(b) => Off(b, e + 1) <= p /\ p < Off(b, (e + 1) + 1)
  <2> SUFFICES ASSUME e + 1 < Len(b) PROVE Off(b, e + 1) <= p /\ p < Off(b, (e + 1) + 1)
    OBVIOUS
  <2>1. /\ Off(b, (e + 1) + 1) = Off(b, e + 1) + Len(b[(e + 1) + 1].chars)
        /\ Off(b, e + 1) \in Nat
        /\ Len(b[(e + 1) + 1].chars) \in Nat /\ Len(b[(e + 1) + 1].chars) >= 1
    BY <1>2, OffStep
  <2> QED
    BY <1>1, <2>1
<1>4. Positions(b, e + 1, FALSE, p, u)
  BY <1>1, <1>2, <1>3 DEF Positions
<1> QED
  BY <1>1, <1>4

\* What protocol_main_loop makes of the characters of a line, one after the
\* other: f[k] is the text and the flags after k of them.
Start == [text |-> << >>, flags |-> {}]
After(r, c) == [text  |-> LineAfter(r.text, r.flags, c),
                flags |-> FlagsAfter(r.text, r.flags, c)]
Assembled(chars) ==
  LET f[k \in 0 .. Len(chars)] == IF k = 0 THEN Start ELSE After(f[k - 1], chars[k])
  IN  f

\* The lines of the host are described by what the program is to make of them.
LinesDescribed ==
  \A l \in Lines :
    LET end == Assembled(l.chars)[Len(l.chars) - 1]
    IN  l.text = end.text /\ (l.overflow <=> "OVERFLOW" \in end.flags)

\* What Assembled computes, character by character.
LEMMA AssembledUnfolds ==
  ASSUME NEW s \in Seq(Characters)
  PROVE  /\ Assembled(s)[0] = Start
         /\ \A k \in 1 .. Len(s) : Assembled(s)[k] = After(Assembled(s)[k - 1], s[k])
<1>1. PICK n \in Nat : n = Len(s)
  OBVIOUS
<1> DEFINE R == {r \in [text : Seq(Characters), flags : SUBSET Flags] : Len(r.text) < LINE_BUFFER_SIZE}
           F == [i \in Nat |-> [r \in R |-> After(r, IF i \in 1 .. n THEN s[i] ELSE "G")]]
           Def(g) == g = [k \in 0 .. n |-> IF k = 0 THEN Start ELSE After(g[k - 1], s[k])]
<1>2. \A r \in R, c \in Characters : After(r, c) \in R
  BY LineTyped DEF After
<1>3. Start \in R
  <2>1. << >> \in Seq(Characters) /\ Len(<< >>) = 0 /\ {} \in SUBSET Flags
    OBVIOUS
  <2> QED
    BY <2>1, LineAssumption DEF Start
<1>4. F \in [Nat -> [R -> R]]
  <2>1. \A i \in Nat : (IF i \in 1 .. n THEN s[i] ELSE "G") \in Characters
    BY <1>1 DEF Characters
  <2> HIDE DEF R
  <2> QED
    BY <1>2, <2>1
<1>5. \A i \in 1 .. n : \A r \in R : F[i][r] = After(r, s[i])
  <2> HIDE DEF R
  <2> QED
    OBVIOUS
<1> HIDE DEF R, F
<1>6. PICK g \in [0 .. n -> R] : ComputedBy(g, Start, F, n)
  BY <1>3, <1>4, RecursionExists
<1>7. Def(g)
  <2>1. \A i \in 0 .. n : g[i] = IF i = 0 THEN Start ELSE F[i][g[i - 1]]
    BY <1>6 DEF ComputedBy
  <2>2. \A i \in 0 .. n : i # 0 => i \in 1 .. n /\ i - 1 \in 0 .. n
    OBVIOUS
  <2>3. \A i \in 0 .. n : g[i] = IF i = 0 THEN Start ELSE After(g[i - 1], s[i])
    BY <1>5, <2>1, <2>2
  <2> QED
    BY <2>3
<1>8. \E f : Def(f)
  BY <1>7
<1>9. Assembled(s) = CHOOSE f : Def(f)
  BY <1>1 DEF Assembled
<1>10. Def(CHOOSE f : Def(f))
  BY <1>8
<1>11. PICK f : f = Assembled(s) /\ Def(f)
  BY <1>9, <1>10
<1>12. \A k \in 0 .. n : f[k] = IF k = 0 THEN Start ELSE After(f[k - 1], s[k])
  BY <1>11
<1>13. 0 \in 0 .. n /\ \A k \in 1 .. n : k \in 0 .. n /\ k # 0
  OBVIOUS
<1> HIDE DEF Def
<1>14. f[0] = Start /\ \A k \in 1 .. n : f[k] = After(f[k - 1], s[k])
  BY <1>12, <1>13
<1> QED
  BY <1>1, <1>11, <1>14
-----------------------------------------------------------------------------
Record(l) == [text |-> l.text, overflow |-> l.overflow]

\* The lines executed are the first of b, and the line being read, or
\* executed, is the next.
Texts(b, x, busy, p, text, flags) ==
  /\ \A i \in 1 .. Len(x) : x[i] = Record(b[i])
  /\ busy => /\ text = b[Len(x) + 1].text
             /\ b[Len(x) + 1].overflow <=> "OVERFLOW" \in flags
  /\ ~busy /\ Len(x) = Len(b) => text = << >> /\ flags = {}
  /\ ~busy /\ Len(x) < Len(b) =>
       Assembled(b[Len(x) + 1].chars)[p - Off(b, Len(x))] = [text |-> text, flags |-> flags]

Executed == Seq([text : Seq(Characters), overflow : BOOLEAN])

\* A line begun keeps what was read.
LEMMA TextsMore ==
  ASSUME NEW b \in Seq(Lines), NEW x \in Executed, NEW busy \in BOOLEAN, NEW p,
         NEW u \in Seq(Characters), NEW text, NEW flags,
         Positions(b, Len(x), busy, p, u), Texts(b, x, busy, p, text, flags), NEW l \in Lines
  PROVE  Texts(Append(b, l), x, busy, p, text, flags)
<1>0. PICK a : a = Append(b, l) /\ Longer(a, b, l)
  BY DEF Longer
<1>1. PICK e \in Nat : e = Len(x)
  BY DEF Executed
<1>2. /\ Len(a) = Len(b) + 1 /\ a[Len(b) + 1] = l
      /\ \A k \in 1 .. Len(b) : a[k] = b[k]
      /\ \A n \in 0 .. Len(b) : Off(a, n) = Off(b, n)
  BY <1>0, OffMore
<1>3. e \in 0 .. Len(b) /\ (busy => e < Len(b)) /\ (~busy /\ e = Len(b) => p = Off(b, e))
      /\ Len(b) \in Nat
  BY <1>1 DEF Positions
<1>4. /\ \A i \in 1 .. e : x[i] = Record(b[i])
      /\ busy => /\ text = b[e + 1].text
                 /\ b[e + 1].overflow <=> "OVERFLOW" \in flags
      /\ ~busy /\ e = Len(b) => text = << >> /\ flags = {}
      /\ ~busy /\ e < Len(b) =>
           Assembled(b[e + 1].chars)[p - Off(b, e)] = [text |-> text, flags |-> flags]
  BY <1>1 DEF Texts
<1>5. \A i \in 1 .. e : x[i] = Record(a[i])
  BY <1>2, <1>3, <1>4
<1>6. e < Len(b) => a[e + 1] = b[e + 1]
  <2>1. e < Len(b) => e + 1 \in 1 .. Len(b)
    BY <1>3
  <2> QED
    BY <1>2, <2>1
<1>7. Off(a, e) = Off(b, e)
  BY <1>2, <1>3
<1>8. ~busy => Assembled(a[e + 1].chars)[p - Off(a, e)] = [text |-> text, flags |-> flags]
  <2> SUFFICES ASSUME ~busy
               PROVE  Assembled(a[e + 1].chars)[p - Off(a, e)] = [text |-> text, flags |-> flags]
    OBVIOUS
  <2>1. CASE e = Len(b)
    <3>1. a[e + 1] = l /\ text = << >> /\ flags = {}
      BY <1>2, <1>4, <2>1
    <3>2. p - Off(a, e) = 0
      <4>1. Off(b, e) \in Nat
        BY <1>3, OffNatural
      <4> QED
        BY <1>3, <1>7, <2>1, <4>1
    <3>3. Assembled(l.chars)[0] = Start
      BY LineFacts, AssembledUnfolds
    <3> QED
      BY <3>1, <3>2, <3>3 DEF Start
  <2>2. CASE e # Len(b)
    <3>1. e < Len(b)
      BY <1>3, <2>2
    <3> QED
      BY <1>4, <1>6, <1>7, <3>1
  <2> QED
    BY <2>1, <2>2
<1>9. e # Len(a)
  BY <1>2, <1>3
<1>10. Texts(a, x, busy, p, text, flags)
  BY <1>1, <1>3, <1>4, <1>5, <1>6, <1>8, <1>9 DEF Texts
<1> QED
  BY <1>0, <1>10

\* A character that ends the line, and one that does not.
LEMMA TextsTaken ==
  ASSUME LinesDescribed,
         NEW b \in Seq(Lines), NEW x \in Executed, NEW p, NEW u \in Seq(Characters), u # << >>,
         NEW text, NEW flags,
         Positions(b, Len(x), FALSE, p, u), Texts(b, x, FALSE, p, text, flags)
  PROVE  /\ u[1] = "nl" => Texts(b, x, TRUE, p + 1, text, flags)
         /\ u[1] # "nl" => Texts(b, x, FALSE, p + 1, LineAfter(text, flags, u[1]),
                                 FlagsAfter(text, flags, u[1]))
<1>1. PICK e \in Nat : e = Len(x)
  BY DEF Executed
<1>2. /\ e < Len(b) /\ p - Off(b, e) \in 0 .. (Len(b[e + 1].chars) - 1)
      /\ b[e + 1] \in Lines
      /\ u[1] = b[e + 1].chars[(p - Off(b, e)) + 1]
      /\ u[1] = "nl" <=> (p - Off(b, e)) + 1 = Len(b[e + 1].chars)
  <2>1. Positions(b, e, FALSE, p, u)
    BY <1>1
  <2> QED
    BY <2>1, PositionsTaken
<1>3. PICK l \in Lines, c \in Nat : /\ l = b[e + 1] /\ c = p - Off(b, e) /\ c + 1 \in 1 .. Len(l.chars)
                                    /\ u[1] = l.chars[c + 1]
                                    /\ u[1] = "nl" <=> c + 1 = Len(l.chars)
  <2>1. Len(b[e + 1].chars) \in Nat
    BY <1>2, LineFacts, BufferAssumption
  <2>2. p - Off(b, e) \in Nat /\ (p - Off(b, e)) + 1 \in 1 .. Len(b[e + 1].chars)
    BY <1>2, <2>1
  <2> QED
    BY <1>2, <2>2
<1>4. /\ \A i \in 1 .. e : x[i] = Record(b[i])
      /\ Assembled(l.chars)[c] = [text |-> text, flags |-> flags]
  BY <1>1, <1>2, <1>3 DEF Texts
<1>5. CASE u[1] = "nl"
  <2>1. c = Len(l.chars) - 1
    <3>1. Len(l.chars) \in Nat /\ c + 1 = Len(l.chars)
      BY <1>3, <1>5, LineFacts, BufferAssumption
    <3> QED
      BY <3>1
  <2>2. l.text = text /\ (l.overflow <=> "OVERFLOW" \in flags)
    BY <1>4, <2>1 DEF LinesDescribed
  <2> QED
    BY <1>1, <1>3, <1>4, <1>5, <2>2 DEF Texts
<1>6. CASE u[1] # "nl"
  <2>1. Assembled(l.chars)[c + 1] = After(Assembled(l.chars)[c], l.chars[c + 1])
    <3>1. l.chars \in Seq(Characters) /\ (c + 1) - 1 = c
      BY LineFacts
    <3> QED
      BY <1>3, <3>1, AssembledUnfolds
  <2>2. Assembled(l.chars)[c + 1] = [text |-> LineAfter(text, flags, u[1]),
                                     flags |-> FlagsAfter(text, flags, u[1])]
    BY <1>3, <1>4, <2>1 DEF After
  <2>3. (p + 1) - Off(b, e) = c + 1
    <3>1. p \in Nat /\ Off(b, e) \in Nat
      BY <1>1, PositionsRoom DEF Positions
    <3> QED
      BY <1>3, <3>1
  <2>4. e # Len(b)
    BY <1>2
  <2> QED
    BY <1>1, <1>3, <1>4, <1>6, <2>2, <2>3, <2>4 DEF Texts
<1> QED
  BY <1>5, <1>6

\* A line executed.
LEMMA TextsExecuted ==
  ASSUME NEW b \in Seq(Lines), NEW x \in Executed, NEW p, NEW u \in Seq(Characters),
         NEW text, NEW flags, NEW r, r = [text |-> text, overflow |-> "OVERFLOW" \in flags],
         r \in [text : Seq(Characters), overflow : BOOLEAN],
         Positions(b, Len(x), TRUE, p, u), Texts(b, x, TRUE, p, text, flags)
  PROVE  Texts(b, Append(x, r), FALSE, p, << >>, {})
<1>1. PICK e \in Nat : e = Len(x)
  BY DEF Executed
<1>2. PICK y : y = Append(x, r)
  OBVIOUS
<1>3. Len(y) = e + 1 /\ y[e + 1] = r /\ \A i \in 1 .. e : y[i] = x[i]
  BY <1>1, <1>2, AppendProperties DEF Executed
<1>4. e < Len(b) /\ p = Off(b, e + 1)
  BY <1>1, PositionsExecuted
<1>5. /\ \A i \in 1 .. e : x[i] = Record(b[i])
      /\ text = b[e + 1].text /\ (b[e + 1].overflow <=> "OVERFLOW" \in flags)
  BY <1>1 DEF Texts
<1>6. r = Record(b[e + 1])
  <2>1. b[e + 1].overflow \in BOOLEAN
    <3>1. e + 1 \in 1 .. Len(b)
      BY <1>4
    <3>2. b[e + 1] \in Lines
      BY <3>1
    <3> QED
      BY <3>2, LineFacts
  <2>2. b[e + 1].overflow = ("OVERFLOW" \in flags)
    BY <1>5, <2>1
  <2> QED
    BY <1>5, <2>2 DEF Record
<1>7. \A i \in 1 .. (e + 1) : y[i] = Record(b[i])
  <2>1. \A i \in 1 .. (e + 1) : i = e + 1 \/ i \in 1 .. e
    OBVIOUS
  <2> QED
    BY <1>3, <1>5, <1>6, <2>1
<1>8. e + 1 < Len(b) => Assembled(b[(e + 1) + 1].chars)[p - Off(b, e + 1)] = Start
  <2> SUFFICES ASSUME e + 1 < Len(b)
               PROVE  Assembled(b[(e + 1) + 1].chars)[p - Off(b, e + 1)] = Start
    OBVIOUS
  <2>1. b[(e + 1) + 1] \in Lines /\ Off(b, e + 1) \in Nat
    BY OffStep
  <2>2. p - Off(b, e + 1) = 0
    BY <1>4, <2>1
  <2>3. b[(e + 1) + 1].chars \in Seq(Characters)
    BY <2>1, LineFacts
  <2> QED
    BY <2>2, <2>3, AssembledUnfolds
<1>9. Texts(b, y, FALSE, p, << >>, {})
  BY <1>3, <1>7, <1>8 DEF Texts, Start
<1> QED
  BY <1>2, <1>9

\* A character moved from the host to the ring, and one taken from the ring.
LEMMA Moved ==
  ASSUME NEW r \in Seq(Characters), NEW s \in Seq(Characters), s # << >>
  PROVE  Append(r, Head(s)) \o Tail(s) = r \o s
<1>1. PICK c \in Seq(Characters), t \in Seq(Characters) :
        c = <<Head(s)>> /\ t = Tail(s) /\ s = c \o t /\ Head(s) \in Characters
  BY FirstAndRest
<1>2. Append(r, Head(s)) = r \o c
  BY <1>1, AppendIsConcat
<1>3. (r \o c) \o t = r \o (c \o t)
  BY ConcatAssociative
<1> QED
  BY <1>1, <1>2, <1>3

\* A character taken from the front.
LEMMA FirstTaken ==
  ASSUME NEW r \in Seq(Characters), NEW s \in Seq(Characters), r # << >>
  PROVE  Tail(r) \o s = Tail(r \o s) /\ r \o s # << >> /\ (r \o s)[1] = r[1]
<1>1. PICK u \in Seq(Characters) : u = r \o s
  BY ConcatProperties
<1>2. PICK m \in Nat, n \in Nat : m = Len(r) /\ n = Len(s)
  <2>1. Len(r) \in Nat /\ Len(s) \in Nat
    OBVIOUS
  <2> QED
    BY <2>1
<1>3. m >= 1
  BY <1>2
<1>4. /\ Len(u) = m + n
      /\ \A j \in 1 .. (m + n) : u[j] = IF j <= m THEN r[j] ELSE s[j - m]
  BY <1>1, <1>2, ConcatProperties
<1>5. u # << >> /\ u[1] = r[1]
  <2>1. 1 \in 1 .. (m + n) /\ 1 <= m
    BY <1>3
  <2>2. Len(u) # 0
    BY <1>3, <1>4
  <2> QED
    BY <1>4, <2>1, <2>2
<1>6. PICK t \in Seq(Characters) : t = Tail(r) /\ Len(t) = m - 1 /\ \A j \in 1 .. (m - 1) : t[j] = r[j + 1]
  <2>1. /\ Tail(r) \in Seq(Characters) /\ Len(Tail(r)) = Len(r) - 1
        /\ \A j \in 1 .. (Len(r) - 1) : Tail(r)[j] = r[j + 1]
    BY HeadTailProperties
  <2> QED
    BY <1>2, <2>1
<1>7. PICK v \in Seq(Characters) : v = t \o s
  BY ConcatProperties
<1>8. /\ Len(v) = (m - 1) + n
      /\ \A j \in 1 .. ((m - 1) + n) : v[j] = IF j <= m - 1 THEN t[j] ELSE s[j - (m - 1)]
  BY <1>2, <1>6, <1>7, ConcatProperties
<1>9. PICK w \in Seq(Characters) : /\ w = Tail(u) /\ Len(w) = m + n - 1
                                   /\ \A j \in 1 .. (m + n - 1) : w[j] = u[j + 1]
  <2>1. /\ Tail(u) \in Seq(Characters) /\ Len(Tail(u)) = Len(u) - 1
        /\ \A j \in 1 .. (Len(u) - 1) : Tail(u)[j] = u[j + 1]
    BY <1>5, HeadTailProperties
  <2>2. Len(u) = m + n
    BY <1>4
  <2>3. Len(Tail(u)) = m + n - 1 /\ \A j \in 1 .. (m + n - 1) : Tail(u)[j] = u[j + 1]
    BY <2>1, <2>2
  <2> QED
    BY <2>1, <2>3
<1>10. ASSUME NEW j \in 1 .. (m + n - 1)
       PROVE  v[j] = w[j]
  <2>1. j + 1 \in 1 .. (m + n) /\ j \in 1 .. ((m - 1) + n) /\ (j + 1) - m = j - (m - 1)
    BY <1>3
  <2>2. w[j] = IF j + 1 <= m THEN r[j + 1] ELSE s[(j + 1) - m]
    BY <1>4, <1>9, <2>1
  <2>3. v[j] = IF j <= m - 1 THEN t[j] ELSE s[j - (m - 1)]
    BY <1>8, <2>1
  <2>4. CASE j + 1 <= m
    <3>1. j \in 1 .. (m - 1) /\ j <= m - 1
      BY <1>3, <2>4
    <3> QED
      BY <1>6, <2>2, <2>3, <2>4, <3>1
  <2>5. CASE ~(j + 1 <= m)
    <3>1. ~(j <= m - 1)
      BY <1>3, <2>5
    <3> QED
      BY <2>1, <2>2, <2>3, <2>5, <3>1
  <2> QED
    BY <2>4, <2>5
<1>11. v = w
  <2>1. Len(v) = m + n - 1
    BY <1>8
  <2> QED
    BY <1>9, <1>10, <2>1, SeqEqual
<1> QED
  BY <1>1, <1>5, <1>6, <1>7, <1>9, <1>11

\* A line ends once.
LEMMA LineCount ==
  ASSUME NEW l \in Lines
  PROVE  Count(l.chars, {"nl"}) = 1
<1>1. PICK s \in Seq(Characters), m \in Nat :
        /\ s = l.chars /\ Len(s) = m + 1
        /\ \A i \in 1 .. (m + 1) : s[i] = "nl" <=> i = m + 1
  <2>1. PICK n \in Nat : n = Len(l.chars) /\ n >= 1
    BY LineFacts, BufferAssumption
  <2>2. n - 1 \in Nat /\ (n - 1) + 1 = n
    BY <2>1
  <2> QED
    <3>1. PICK s : s = l.chars
      OBVIOUS
    <3>2. s \in Seq(Characters) /\ Len(s) = n /\ \A i \in 1 .. n : s[i] = "nl" <=> i = n
      BY <2>1, <3>1, LineFacts
    <3> QED
      BY <2>1, <2>2, <3>1, <3>2
<1> DEFINE w == [i \in 1 .. Len(s) |-> IF s[i] \in {"nl"} THEN 1 ELSE 0]
<1>2. \A i \in 1 .. (m + 1) : w[i] = IF i = m + 1 THEN 1 ELSE 0
  BY <1>1
<1>3. Count(l.chars, {"nl"}) = Sum(w, m + 1)
  BY <1>1 DEF Count
<1> HIDE DEF w
<1>4. \A i \in 1 .. m : w[i] \in Nat /\ w[i] = 0
  BY <1>2
<1>5. Sum(w, m) = 0
  BY <1>4, SumNatural
<1>6. w[m + 1] = 1
  <2>1. m + 1 \in 1 .. (m + 1)
    OBVIOUS
  <2> QED
    BY <1>2, <2>1
<1>7. Sum(w, m + 1) = Sum(w, m) + w[m + 1]
  BY SumUnfolds
<1> QED
  BY <1>3, <1>5, <1>6, <1>7

\* Answers in messages.
LEMMA CountMessage ==
  ASSUME NEW c \in Words
  PROVE  /\ <<c, "eol">> \in Seq(Words)
         /\ Count(<<c, "eol">>, Answers) = IF c \in Answers THEN 1 ELSE 0
<1>1. "eol" \in Words /\ "eol" \notin Answers
  BY DEF Words, Answers
<1>2. PICK a \in Seq(Words), b \in Seq(Words) : a = <<c>> /\ b = <<"eol">> /\ <<c, "eol">> = a \o b
  <2>1. <<c>> \in Seq(Words) /\ <<"eol">> \in Seq(Words)
    BY <1>1
  <2> QED
    BY <1>1, <2>1, PairIs
<1>3. Count(a \o b, Answers) = Count(a, Answers) + Count(b, Answers)
  BY CountConcat
<1>4. Count(b, Answers) = 0 /\ Count(a, Answers) = IF c \in Answers THEN 1 ELSE 0
  BY <1>1, <1>2, CountOne
<1>5. a \o b \in Seq(Words)
  BY JoinTyped
<1>6. Count(a \o b, Answers) = IF c \in Answers THEN 1 ELSE 0
  BY <1>3, <1>4
<1> QED
  BY <1>2, <1>5, <1>6

\* Answers counted with a message in front.
LEMMA CountBefore ==
  ASSUME NEW c \in Words, NEW u \in Seq(Words), NEW s, s = <<c, "eol">> \o u
  PROVE  /\ Count(s, Answers) = Count(u, Answers) + (IF c \in Answers THEN 1 ELSE 0)
         /\ Count(u, Answers) \in Nat
<1>1. PICK m \in Seq(Words) : m = <<c, "eol">>
  BY CountMessage
<1>2. Count(m \o u, Answers) = Count(m, Answers) + Count(u, Answers)
  BY CountConcat
<1>3. Count(u, Answers) \in Nat
  BY CountNatural
<1>4. Count(m, Answers) = IF c \in Answers THEN 1 ELSE 0
  BY <1>1, CountMessage
<1> QED
  BY <1>1, <1>2, <1>3, <1>4

\* Answers counted with a message behind.
LEMMA CountBehind ==
  ASSUME NEW c \in Words, NEW u \in Seq(Words), NEW s, s = u \o <<c, "eol">>
  PROVE  /\ Count(s, Answers) = Count(u, Answers) + (IF c \in Answers THEN 1 ELSE 0)
         /\ Count(u, Answers) \in Nat
<1>1. PICK m \in Seq(Words) : m = <<c, "eol">>
  BY CountMessage
<1>2. Count(u \o m, Answers) = Count(u, Answers) + Count(m, Answers)
  BY CountConcat
<1>3. Count(u, Answers) \in Nat
  BY CountNatural
<1>4. Count(m, Answers) = IF c \in Answers THEN 1 ELSE 0
  BY <1>1, CountMessage
<1> QED
  BY <1>1, <1>2, <1>3, <1>4

\* Without answers none are counted.
LEMMA CountNone ==
  ASSUME NEW s \in Seq(Words), NoAnswers(s, 1)
  PROVE  Count(s, Answers) = 0
<1> DEFINE w == [i \in 1 .. Len(s) |-> IF s[i] \in Answers THEN 1 ELSE 0]
<1>1. Len(s) \in Nat
  OBVIOUS
<1>2. \A i \in 1 .. Len(s) : w[i] \in Nat /\ w[i] = 0
  BY DEF NoAnswers
<1>3. Count(s, Answers) = Sum(w, Len(s))
  BY DEF Count
<1> HIDE DEF w
<1> QED
  BY <1>1, <1>2, <1>3, SumNatural

-----------------------------------------------------------------------------
\* Sessions: between a welcome and the next reset.

\* What the host has sent and the program has not read, and the answers under
\* way.
Unread == RxContents \o sending
Due == Count(Stream, Answers)

\* What a step does to the lines of a session.
Idle ==
  /\ UNCHANGED <<outstanding, begun, executed, line, line_flags>>
  /\ Unread' = Unread /\ (Busy' <=> Busy) /\ Due' = Due
Begins(l) ==
  /\ CharactersOut + Len(l.chars) <= RX_BUFFER_SIZE
  /\ outstanding' = Append(outstanding, l) /\ begun' = Append(begun, l)
  /\ Unread' = Unread \o l.chars
  /\ UNCHANGED <<executed, line, line_flags>> /\ (Busy' <=> Busy) /\ Due' = Due
Takes ==
  /\ ~Busy /\ Unread # << >> /\ Unread' = Tail(Unread)
  /\ UNCHANGED <<outstanding, begun, executed>> /\ Due' = Due
  /\ Unread[1] = "nl" => Busy' /\ UNCHANGED <<line, line_flags>>
  /\ Unread[1] # "nl" => /\ ~Busy' /\ line' = LineAfter(line, line_flags, Unread[1])
                         /\ line_flags' = FlagsAfter(line, line_flags, Unread[1])
Executes ==
  /\ Busy /\ ~Busy'
  /\ executed' = Append(executed, [text |-> line, overflow |-> "OVERFLOW" \in line_flags])
  /\ line' = << >> /\ line_flags' = {}
  /\ UNCHANGED <<outstanding, begun>> /\ Unread' = Unread /\ Due' = Due + 1
Answered ==
  /\ Due = Due' + 1
  /\ outstanding' = IF outstanding # << >> THEN Tail(outstanding) ELSE outstanding
  /\ UNCHANGED <<begun, executed, line, line_flags>>
  /\ Unread' = Unread /\ (Busy' <=> Busy)

SessionStep == Idle \/ (\E l \in Lines : Begins(l)) \/ Takes \/ Executes \/ Answered

\* What the host has sent fits into the receive buffer.
Room == Len(Unread) <= RX_BUFFER_SIZE

\* A step that leaves the receive ring and the host alone leaves what is
\* unread.
LEMMA UnreadSame == UNCHANGED <<rxVars, sending>> => Unread' = Unread
  BY DEF Unread, rxVars, RxContents, RX_RING_BUFFER

\* The types of what is unread and under way.
LEMMA UnreadTyped ==
  LinkTypes => /\ Unread \in Seq(Characters) /\ RxContents \in Seq(Characters)
               /\ sending \in Seq(Characters)
               /\ ~overrun => Stream \in Seq(Words) /\ Due \in Nat
               /\ Len(Unread) = Len(RxContents) + Len(sending)
<1> SUFFICES ASSUME LinkTypes
             PROVE  /\ Unread \in Seq(Characters) /\ RxContents \in Seq(Characters)
                    /\ sending \in Seq(Characters)
                    /\ ~overrun => Stream \in Seq(Words) /\ Due \in Nat
                    /\ Len(Unread) = Len(RxContents) + Len(sending)
  OBVIOUS
<1>1. RxContents \in Seq(Characters) /\ sending \in Seq(Characters)
  BY RxRing DEF LinkTypes, HostTypes
<1>2. Unread \in Seq(Characters) /\ Len(Unread) = Len(RxContents) + Len(sending)
  BY <1>1, ConcatProperties DEF Unread
<1>3. ASSUME ~overrun PROVE Stream \in Seq(Words) /\ Due \in Nat
  <2>1. word \in TxTokens /\ TxContents \in Seq(Words) /\ out \in Seq(Words)
    BY <1>3 DEF LinkTypes, HostTypes, RingTypes, MainTypes
  <2>2. Stream \in Seq(Words)
    BY <2>1, StreamTyped, StreamIs
  <2> QED
    BY <2>2, CountNatural DEF Due
<1> QED
  BY <1>1, <1>2, <1>3
-----------------------------------------------------------------------------
\* What the host and the hardware do to a session: the ring always has room
\* for what arrives.
LEMMA SessionHost ==
  ASSUME InOrder, ~overrun, ~waiting, ~waiting', Room, HostStep \/ Receive
  PROVE  SessionStep
<1>0. LinkTypes
  BY DEF InOrder
<1>1. CASE BeginLine
  <2>1. PICK l \in Lines : /\ CharactersOut + Len(l.chars) <= RX_BUFFER_SIZE
                           /\ sending' = l.chars /\ outstanding' = Append(outstanding, l)
                           /\ begun' = Append(begun, l) /\ sending = << >>
                           /\ UNCHANGED serialVars /\ UNCHANGED mainVars /\ UNCHANGED word
    BY <1>1 DEF BeginLine
  <2>2. Unread' = Unread \o l.chars
    <3>1. RxContents' = RxContents /\ RxContents \in Seq(Characters)
      BY <1>0, <2>1, UnreadTyped DEF serialVars, rxVars, RxContents, RX_RING_BUFFER
    <3>2. Unread = RxContents
      BY <2>1, <3>1, ConcatEmptySeq DEF Unread
    <3> QED
      BY <2>1, <3>1, <3>2 DEF Unread
  <2>3. Stream' = Stream
    BY <2>1, StreamSame DEF serialVars, mainVars
  <2>4. Begins(l)
    BY <2>1, <2>2, <2>3 DEF Begins, mainVars, lineVars, Busy, Due
  <2> QED
    BY <2>4 DEF SessionStep
<1>2. CASE ReceiveReset
  BY <1>2 DEF ReceiveReset
<1>3. CASE ReceiveStatus \/ ReceiveOverride
  <2>1. UNCHANGED <<serialVars, mainVars, sending, outstanding, begun, word>>
    BY <1>3 DEF ReceiveStatus, ReceiveOverride
  <2>2. Stream' = Stream /\ Unread' = Unread
    BY <2>1, StreamSame, UnreadSame DEF serialVars, mainVars
  <2>3. Idle
    BY <2>1, <2>2 DEF Idle, mainVars, lineVars, Busy, Due
  <2> QED
    BY <2>3 DEF SessionStep
<1>4. CASE Receive
  <2>1. /\ sending # << >> /\ RxStore(Head(sending)) /\ sending' = Tail(sending)
        /\ UNCHANGED <<txVars, mainVars, outstanding, begun, word>>
    BY <1>4 DEF Receive
  <2>2. /\ RxContents \in Seq(Characters) /\ sending \in Seq(Characters)
        /\ Len(Unread) = Len(RxContents) + Len(sending)
    BY <1>0, UnreadTyped
  <2>3. Len(RxContents) < RX_BUFFER_SIZE
    <3>1. Len(sending) >= 1 /\ Len(sending) \in Nat /\ Len(RxContents) \in Nat
      BY <2>1, <2>2
    <3>2. RX_BUFFER_SIZE \in Nat
      BY BufferAssumption
    <3> QED
      BY <2>2, <3>1, <3>2 DEF Room
  <2>4. RxContents' = Append(RxContents, Head(sending))
    <3>1. Head(sending) \in Characters
      BY <2>1, <2>2, FirstAndRest
    <3>2. UNCHANGED txVars /\ RingTypes
      BY <1>0, <2>1 DEF LinkTypes
    <3> QED
      BY <2>1, <2>3, <3>1, <3>2, RxStored
  <2>5. Unread' = Unread
    BY <2>1, <2>2, <2>4, Moved DEF Unread
  <2>6. Stream' = Stream
    BY <2>1, StreamSame DEF mainVars
  <2>7. Idle
    BY <2>1, <2>5, <2>6 DEF Idle, mainVars, lineVars, Busy, Due
  <2> QED
    BY <2>7 DEF SessionStep
<1> QED
  BY <1>1, <1>2, <1>3, <1>4 DEF HostStep

\* What a character received by the host does to a session: an answer counts
\* with its end.
LEMMA SessionTransmit ==
  ASSUME InOrder, ~waiting, Transmit, ~overrun'
  PROVE  SessionStep
<1>1. /\ TxSend /\ UNCHANGED rxVars /\ out' = out
      /\ word' = (IF TxFirst = "eol" THEN "none" ELSE TxFirst)
      /\ UNCHANGED <<sending, begun, executed, line, line_flags, pc, ret>>
  BY DEF Transmit, mainVars, lineVars
<1>2. /\ word \in TxTokens \ {"eol"} /\ out \in Seq(Words) /\ waiting \in BOOLEAN
      /\ RingTypes /\ LinkTypes
  BY DEF InOrder, LinkTypes, HostTypes, MainTypes
<1>3. TxContents # << >> /\ TxContents[1] = TxFirst /\ TxContents \in Seq(Words) /\ ~overrun
  BY <1>1, <1>2, TxSent
<1>4. TxContents' = Tail(TxContents)
  BY <1>1, <1>2, TxSent
<1>5. PICK t, v, s, u, w :
         /\ t = TxContents /\ v = word' /\ s = Stream /\ u = Stream' /\ w = word
  OBVIOUS
<1>6. /\ w \in TxTokens \ {"eol"} /\ t \in Seq(Words) /\ t # << >> /\ v = WordAfter(t)
      /\ s = StreamOf(w, t, out) /\ u = StreamOf(v, Tail(t), out)
  <2>1. word' = WordAfter(TxContents)
    BY <1>1, <1>3 DEF WordAfter
  <2>2. Stream' = StreamOf(word', Tail(TxContents), out)
    BY <1>1, <1>4 DEF Stream, StreamOf, Lead
  <2> QED
    BY <1>2, <1>3, <1>5, <2>1, <2>2, StreamIs
<1>7. /\ u \in Seq(Words)
      /\ t[1] = "eol" /\ w = "none" => s = <<"eol">> \o u
      /\ t[1] = "eol" /\ w # "none" => s = <<w, "eol">> \o u
      /\ t[1] # "eol" /\ w = "none" => s = u
      /\ t[1] # "eol" /\ w # "none" => s[2] = t[1] /\ Len(s) >= 2
  <2>1. w \in TxTokens
    BY <1>6
  <2>2. /\ u \in Seq(Words)
        /\ t[1] = "eol" /\ w = "none" => StreamOf(w, t, out) = <<"eol">> \o u
        /\ t[1] = "eol" /\ w # "none" => StreamOf(w, t, out) = <<w, "eol">> \o u
        /\ t[1] # "eol" /\ w = "none" => StreamOf(w, t, out) = u
        /\ t[1] # "eol" /\ w # "none" =>
             /\ StreamOf(w, t, out) = <<w>> \o u /\ StreamOf(w, t, out)[2] = t[1]
             /\ Len(StreamOf(w, t, out)) >= 2
    BY SMTT(30), <1>2, <1>3, <1>6, <2>1, StreamRead
  <2> QED
    BY <1>6, <2>2
<1>8. Whole(s, 1) /\ s \in Seq(Words)
  BY <1>2, <1>3, <1>5, UnreadTyped DEF InOrder, WordsInOrder, WordsOf
<1>9. Unread' = Unread /\ (Busy' <=> Busy)
  BY <1>1, UnreadSame DEF Busy
<1>10. Due = Count(s, Answers) /\ Due' = Count(u, Answers)
  BY <1>5 DEF Due
<1>11. ~(t[1] = "eol" /\ w = "none")
  <2> SUFFICES ASSUME t[1] = "eol", w = "none" PROVE FALSE
    OBVIOUS
  <2>1. PICK p \in Seq(Words) : p = <<"eol">> /\ s = p \o u
    <3>1. <<"eol">> \in Seq(Words)
      BY DEF Words
    <3> QED
      BY <1>7, <3>1
  <2>2. Len(p) = 1 /\ p[1] = "eol"
    BY <2>1
  <2>3. /\ Len(u) \in Nat /\ Len(s) = 1 + Len(u) /\ \A i \in 1 .. 1 : s[i] = p[i]
    BY <1>7, <2>1, <2>2, RestOf
  <2>4. s[1] = "eol" /\ 1 \in 1 .. Len(s)
    BY <2>2, <2>3
  <2>5. s[1] = "eol" <=> (1 - 1) % 2 = 1
    BY <1>8, <2>4 DEF Whole
  <2> QED
    BY <2>4, <2>5
<1>12. ~(t[1] # "eol" /\ w # "none")
  <2> SUFFICES ASSUME t[1] # "eol", w # "none" PROVE FALSE
    OBVIOUS
  <2>1. s[2] = t[1] /\ 2 \in 1 .. Len(s)
    BY <1>7, <1>8
  <2>2. s[2] = "eol" <=> (2 - 1) % 2 = 1
    BY <1>8, <2>1 DEF Whole
  <2> QED
    BY <2>1, <2>2
<1>13. CASE t[1] = "eol" /\ w # "none"
  <2>1. w \in Words /\ s = <<w, "eol">> \o u
    BY <1>6, <1>7, <1>13 DEF TxTokens
  <2>2. /\ Count(s, Answers) = Count(u, Answers) + (IF w \in Answers THEN 1 ELSE 0)
        /\ Count(u, Answers) \in Nat
    BY <1>7, <2>1, CountBefore
  <2>3. outstanding' = IF word \in {"ok", "error"} /\ outstanding # << >>
                       THEN Tail(outstanding) ELSE outstanding
    BY <1>3, <1>5, <1>13 DEF Transmit
  <2>4. CASE w \in Answers
    <3>1. Due = Due' + 1
      BY <1>10, <2>2, <2>4
    <3>2. outstanding' = IF outstanding # << >> THEN Tail(outstanding) ELSE outstanding
      BY <1>5, <2>3, <2>4 DEF Answers
    <3>3. Answered
      BY <1>1, <1>9, <3>1, <3>2 DEF Answered
    <3> QED
      BY <3>3 DEF SessionStep
  <2>5. CASE w \notin Answers
    <3>1. Due' = Due
      BY <1>10, <2>2, <2>5
    <3>2. outstanding' = outstanding
      BY <1>5, <2>3, <2>5 DEF Answers
    <3>3. Idle
      BY <1>1, <1>9, <3>1, <3>2 DEF Idle
    <3> QED
      BY <3>3 DEF SessionStep
  <2> QED
    BY <2>4, <2>5
<1>14. CASE t[1] # "eol" /\ w = "none"
  <2>1. Due' = Due
    BY <1>7, <1>10, <1>14
  <2>2. outstanding' = outstanding
    BY <1>3, <1>5, <1>14 DEF Transmit
  <2>3. Idle
    BY <1>1, <1>9, <2>1, <2>2 DEF Idle
  <2> QED
    BY <2>3 DEF SessionStep
<1> QED
  BY <1>11, <1>12, <1>13, <1>14

\* What the main program does to a session.
LEMMA SessionMain ==
  ASSUME InOrder, ~waiting, MainStep \/ DuringLine, ~overrun
  PROVE  SessionStep
<1>0. LinkTypes /\ "RESET" \notin exec /\ pc \notin {"boot", "flush"} /\ ~abort
  BY DEF InOrder, Modes, Booted
<1>1. CASE Write
  <2>1. UNCHANGED <<rxVars, sending, outstanding, begun, word, lineVars, executed, pc, ret>>
    BY <1>1 DEF Write, WriteRoom, WriteStore, WriteAdvance, WriteEnable, MainOnly, hostVars
  <2>2. word \in TxTokens /\ TxContents \in Seq(Words) /\ out \in Seq(Words)
    BY <1>0 DEF LinkTypes, HostTypes, RingTypes, MainTypes
  <2>3. Stream' = Stream
    <3>1. CASE TxContents' = TxContents /\ out' = out
      BY <2>1, <3>1 DEF Stream
    <3>2. CASE /\ out # << >> /\ Head(out) \in Words /\ out' = Tail(out)
               /\ TxContents' = Append(TxContents, Head(out))
      <4>1. Stream' = StreamOf(word, Append(TxContents, Head(out)), Tail(out))
        BY <2>1, <3>2 DEF Stream, StreamOf, Lead
      <4> QED
        BY <2>2, <3>2, <4>1, StreamWritten, StreamIs
    <3> QED
      BY <1>0, <1>1, <3>1, <3>2, TxWritten
  <2>4. Unread' = Unread
    BY <2>1, UnreadSame
  <2>5. Idle
    BY <2>1, <2>3, <2>4 DEF Idle, lineVars, Busy, Due
  <2> QED
    BY <2>5 DEF SessionStep
<1>2. CASE RtClear \/ RtOverride \/ ReadChar \/ DuringLine
  <2>1. UNCHANGED <<serialVars, sending, outstanding, begun, word, lineVars, executed, out>>
    BY <1>2, OverrideSteps DEF RtClear, ReadChar, DuringLine, Quiet, hostVars
  <2>2. Stream' = Stream /\ Unread' = Unread
    BY <2>1, StreamSame, UnreadSame DEF serialVars
  <2>3. Busy' <=> Busy
    BY <1>0, <1>2, OverrideSteps DEF RtClear, ReadChar, DuringLine, At, Call, Busy, LinkTypes,
                      MainTypes, Realtime
  <2>4. Idle
    BY <2>1, <2>2, <2>3 DEF Idle, lineVars, Due
  <2> QED
    BY <2>4 DEF SessionStep
<1>3. CASE RtReport
  <2>1. /\ UNCHANGED <<serialVars, sending, outstanding, begun, word, lineVars, executed, ret>>
        /\ out = << >> /\ pc = "rt" /\ pc' \in {"rt_clear", "rt_override"}
        /\ out' = << >> \/ out' = Message("status")
    BY <1>3 DEF RtReport, At, Quiet, hostVars
  <2>2. Unread' = Unread /\ (Busy' <=> Busy)
    BY <2>1, UnreadSame DEF serialVars, Busy, Realtime
  <2>3. Due' = Due
    <3>1. CASE out' = << >>
      BY <2>1, <3>1, StreamSame DEF serialVars, Due
    <3>2. CASE out' = Message("status")
      <4>1. PICK c \in Words : c = "status" /\ c \notin Answers
        BY DEF Words, Answers
      <4>2. Stream \in Seq(Words) /\ Stream' = Stream \o <<c, "eol">>
        BY <1>0, <2>1, <3>2, <4>1, StreamMessage DEF serialVars
      <4>3. PICK s, u : s = Stream' /\ u = Stream
        OBVIOUS
      <4>4. Count(s, Answers) = Count(u, Answers) + (IF c \in Answers THEN 1 ELSE 0)
            /\ Count(u, Answers) \in Nat
        BY <4>2, <4>3, CountBehind
      <4> QED
        BY <4>1, <4>3, <4>4 DEF Due
    <3> QED
      BY <2>1, <3>1, <3>2
  <2>4. Idle
    BY <2>1, <2>2, <2>3 DEF Idle, lineVars
  <2> QED
    BY <2>4 DEF SessionStep
<1>4. CASE TakeChar
  <2>1. /\ pc = "char" /\ RxRelease
        /\ UNCHANGED <<txVars, sending, outstanding, begun, word, out, executed>>
    BY <1>4 DEF TakeChar, At, hostVars
  <2>2. ~RxEmpty /\ RingTypes
    BY <1>0, <2>1 DEF LinkTypes, MainTypes
  <2>3. RxContents # << >> /\ RxContents' = Tail(RxContents) /\ RxContents[1] = RxFirst
    BY <2>1, <2>2, RxReleased, RxRing
  <2>4. RxContents \in Seq(Characters) /\ sending \in Seq(Characters)
    BY <1>0, UnreadTyped
  <2>5. Unread' = Tail(Unread) /\ Unread # << >> /\ Unread[1] = RxFirst
    BY <2>1, <2>3, <2>4, FirstTaken DEF Unread
  <2>6. Due' = Due
    BY <2>1, StreamSame DEF Due
  <2>7. ~Busy
    BY <2>1 DEF Busy, Realtime
  <2>8. CASE RxFirst = "nl"
    <3>1. Busy' /\ UNCHANGED <<line, line_flags>>
      BY <1>4, <2>8 DEF TakeChar, Call, Busy, Realtime, lineVars
    <3>2. Takes
      BY <2>1, <2>5, <2>6, <2>7, <2>8, <3>1 DEF Takes
    <3> QED
      BY <3>2 DEF SessionStep
  <2>9. CASE RxFirst # "nl"
    <3>1. /\ ~Busy' /\ line' = LineAfter(line, line_flags, RxFirst)
          /\ line_flags' = FlagsAfter(line, line_flags, RxFirst)
      BY <1>4, <2>9 DEF TakeChar, Busy, Realtime
    <3>2. Takes
      BY <2>1, <2>5, <2>6, <2>7, <2>9, <3>1 DEF Takes
    <3> QED
      BY <3>2 DEF SessionStep
  <2> QED
    BY <2>8, <2>9
<1>5. CASE ExecuteLine
  <2>1. PICK c \in {"ok", "error"} :
          /\ UNCHANGED <<serialVars, sending, outstanding, begun, word>>
          /\ out = << >> /\ pc = "line" /\ pc' = "loop" /\ out' = Message(c)
    BY <1>5 DEF ExecuteLine, At, Quiet, hostVars
  <2>2. /\ executed' = Append(executed, [text |-> line, overflow |-> "OVERFLOW" \in line_flags])
        /\ line' = << >> /\ line_flags' = {}
    BY <1>5 DEF ExecuteLine, NextLine
  <2>3. Busy /\ ~Busy' /\ Unread' = Unread
    BY <2>1, UnreadSame DEF Busy, Realtime, serialVars
  <2>4. c \in Words /\ c \in Answers
    BY DEF Words, Answers
  <2>5. Stream \in Seq(Words) /\ Stream' = Stream \o <<c, "eol">>
    BY <1>0, <2>1, <2>4, StreamMessage DEF serialVars
  <2>6. PICK s, u : s = Stream' /\ u = Stream
    OBVIOUS
  <2>7. Count(s, Answers) = Count(u, Answers) + (IF c \in Answers THEN 1 ELSE 0)
        /\ Count(u, Answers) \in Nat
    BY <2>4, <2>5, <2>6, CountBehind
  <2>8. Due' = Due + 1
    BY <2>4, <2>6, <2>7 DEF Due
  <2>9. Executes
    BY <2>1, <2>2, <2>3, <2>8 DEF Executes
  <2> QED
    BY <2>9 DEF SessionStep
<1>6. ~(Boot \/ Flush \/ RtReset \/ CutLine \/ Restart)
  BY <1>0 DEF Boot, Flush, RtReset, CutLine, Restart, At
<1> QED
  BY <1>1, <1>2, <1>3, <1>4, <1>5, <1>6 DEF MainStep

\* Between welcome and reset every step is one of a session.
LEMMA SessionNext ==
  ASSUME InOrder, ~overrun', ~waiting, ~waiting', Room, [Next]_vars
  PROVE  SessionStep
<1>0. ~overrun
  BY OverrunStays DEF InOrder
<1>1. CASE UNCHANGED vars
  <2>1. UNCHANGED <<serialVars, hostVars, mainVars>>
    BY <1>1 DEF vars
  <2>2. Stream' = Stream /\ Unread' = Unread
    BY <2>1, StreamSame, UnreadSame DEF serialVars, hostVars, mainVars
  <2>3. Idle
    BY <2>1, <2>2 DEF Idle, hostVars, mainVars, lineVars, Busy, Due
  <2> QED
    BY <2>3 DEF SessionStep
<1> QED
  BY <1>0, <1>1, SessionHost, SessionTransmit, SessionMain DEF Next
-----------------------------------------------------------------------------
\* Lines outstanding (o), begun (b) and executed (e), and answers under way (k)
\* tally; what is unread (u) is in its place.
Tally(o, b, e, busy, p, u, k) ==
  /\ EndOf(o, b) /\ Off(o, Len(o)) <= RX_BUFFER_SIZE
  /\ Len(o) = Len(b) - e + k
  /\ Len(b) - e = Count(u, {"nl"}) + (IF busy THEN 1 ELSE 0)
  /\ Positions(b, e, busy, p, u)

\* What is unread belongs to lines outstanding, which fit into the buffer.
LEMMA TallyRoom ==
  ASSUME NEW o \in Seq(Lines), NEW b \in Seq(Lines), NEW e, NEW busy \in BOOLEAN, NEW p,
         NEW u \in Seq(Characters), NEW k \in Nat, Tally(o, b, e, busy, p, u, k)
  PROVE  Len(u) <= RX_BUFFER_SIZE
<1>1. /\ Off(o, Len(o)) <= RX_BUFFER_SIZE /\ Len(o) = Len(b) - e + k
      /\ e \in 0 .. Len(b) /\ e \in Nat /\ p \in Nat /\ Len(b) \in Nat /\ Len(u) \in Nat
  BY DEF Tally, Positions
<1>2. Off(b, e) <= p /\ Off(b, e) \in Nat /\ p + Len(u) = Off(b, Len(b))
  BY PositionsRoom DEF Tally
<1>3. PICK m \in Nat : m = Len(b) - Len(o) /\ Off(b, Len(b)) = Off(b, m) + Off(o, Len(o))
  BY SMTT(30), OffSplit DEF Tally
<1>4. m <= e /\ e <= Len(b) /\ m \in 0 .. Len(b)
  BY <1>1, <1>3
<1>5. Off(b, m) <= Off(b, e)
  BY <1>1, <1>3, <1>4, OffMonotone
<1>6. Off(b, m) \in Nat /\ Off(o, Len(o)) \in Nat
  <2>1. Len(o) \in 0 .. Len(o)
    OBVIOUS
  <2> QED
    BY <1>4, <2>1, OffNatural
<1>7. RX_BUFFER_SIZE \in Nat
  BY BufferAssumption
<1> HIDE DEF Off
<1> QED
  BY SMTT(30), <1>1, <1>2, <1>3, <1>5, <1>6, <1>7

\* The tally with a line begun.
LEMMA TallyMore ==
  ASSUME NEW o \in Seq(Lines), NEW b \in Seq(Lines), NEW e, NEW busy \in BOOLEAN, NEW p,
         NEW u \in Seq(Characters), NEW k \in Nat, Tally(o, b, e, busy, p, u, k),
         NEW l \in Lines, Off(o, Len(o)) + Len(l.chars) <= RX_BUFFER_SIZE
  PROVE  Tally(Append(o, l), Append(b, l), e, busy, p, u \o l.chars, k)
<1>1. PICK a, q, v : /\ a = Append(b, l) /\ Longer(a, b, l) /\ q = Append(o, l) /\ Longer(q, o, l)
                     /\ v = u \o l.chars
  BY DEF Longer
<1>2. Len(a) = Len(b) + 1 /\ Len(q) = Len(o) + 1
      /\ Off(q, Len(o) + 1) = Off(o, Len(o)) + Len(l.chars)
  BY <1>1, OffMore
<1>3. EndOf(q, a)
  BY <1>1, EndMore DEF Tally
<1>4. Positions(a, e, busy, p, v)
  BY <1>1, PositionsMore DEF Tally
<1>5. Count(v, {"nl"}) = Count(u, {"nl"}) + 1
  <2>1. l.chars \in Seq(Characters)
    BY LineFacts
  <2> QED
    BY <1>1, <2>1, CountConcat, LineCount
<1>6. /\ Len(o) = Len(b) - e + k /\ Len(b) - e = Count(u, {"nl"}) + (IF busy THEN 1 ELSE 0)
      /\ e \in Nat /\ Len(b) \in Nat /\ Len(o) \in Nat /\ Count(u, {"nl"}) \in Nat
  BY CountNatural DEF Tally, Positions
<1>7. Len(q) = Len(a) - e + k /\ Len(a) - e = Count(v, {"nl"}) + (IF busy THEN 1 ELSE 0)
  BY SMTT(30), <1>2, <1>5, <1>6
<1>8. Tally(q, a, e, busy, p, v, k)
  BY <1>2, <1>3, <1>4, <1>7 DEF Tally
<1> QED
  BY <1>1, <1>8

\* The tally with a character taken.
LEMMA TallyTaken ==
  ASSUME NEW o \in Seq(Lines), NEW b \in Seq(Lines), NEW e, NEW p,
         NEW u \in Seq(Characters), u # << >>, NEW k \in Nat, Tally(o, b, e, FALSE, p, u, k)
  PROVE  /\ u[1] = "nl" => Tally(o, b, e, TRUE, p + 1, Tail(u), k)
         /\ u[1] # "nl" => Tally(o, b, e, FALSE, p + 1, Tail(u), k)
<1>1. Positions(b, e, FALSE, p, u)
  BY DEF Tally
<1>2. /\ u[1] = "nl" => Positions(b, e, TRUE, p + 1, Tail(u))
      /\ u[1] # "nl" => Positions(b, e, FALSE, p + 1, Tail(u))
  BY <1>1, PositionsTaken
<1>3. Count(u, {"nl"}) = Count(Tail(u), {"nl"}) + (IF u[1] \in {"nl"} THEN 1 ELSE 0)
      /\ Count(Tail(u), {"nl"}) \in Nat
  BY CountEnds
<1>4. /\ EndOf(o, b) /\ Off(o, Len(o)) <= RX_BUFFER_SIZE
      /\ Len(o) = Len(b) - e + k
      /\ Len(b) - e = Count(u, {"nl"}) + 0
  BY DEF Tally
<1>5. CASE u[1] = "nl"
  <2>1. Len(b) - e = Count(Tail(u), {"nl"}) + 1
    BY <1>3, <1>4, <1>5
  <2> QED
    BY <1>2, <1>4, <1>5, <2>1 DEF Tally
<1>6. CASE u[1] # "nl"
  <2>1. Len(b) - e = Count(Tail(u), {"nl"}) + 0
    BY <1>3, <1>4, <1>6
  <2> QED
    BY <1>2, <1>4, <1>6, <2>1 DEF Tally
<1> QED
  BY <1>5, <1>6

\* The tally with a line executed.
LEMMA TallyExecuted ==
  ASSUME NEW o \in Seq(Lines), NEW b \in Seq(Lines), NEW e, NEW p,
         NEW u \in Seq(Characters), NEW k \in Nat, Tally(o, b, e, TRUE, p, u, k)
  PROVE  Tally(o, b, e + 1, FALSE, p, u, k + 1)
<1>1. Positions(b, e, TRUE, p, u)
  BY DEF Tally
<1>2. Positions(b, e + 1, FALSE, p, u) /\ e \in Nat
  BY <1>1, PositionsExecuted
<1>3. /\ EndOf(o, b) /\ Off(o, Len(o)) <= RX_BUFFER_SIZE
      /\ Len(o) = Len(b) - e + k
      /\ Len(b) - e = Count(u, {"nl"}) + 1 /\ Count(u, {"nl"}) \in Nat /\ Len(b) \in Nat
  BY CountNatural DEF Tally
<1>4. Len(o) = Len(b) - (e + 1) + (k + 1) /\ Len(b) - (e + 1) = Count(u, {"nl"}) + 0
  BY <1>2, <1>3
<1> QED
  BY <1>2, <1>3, <1>4 DEF Tally

\* The tally with an answer received: a line was outstanding.
LEMMA TallyAnswered ==
  ASSUME NEW o \in Seq(Lines), NEW b \in Seq(Lines), NEW e, NEW busy \in BOOLEAN, NEW p,
         NEW u \in Seq(Characters), NEW k \in Nat, Tally(o, b, e, busy, p, u, k + 1)
  PROVE  o # << >> /\ Tally(Tail(o), b, e, busy, p, u, k)
<1>1. /\ EndOf(o, b) /\ Off(o, Len(o)) <= RX_BUFFER_SIZE
      /\ Len(o) = Len(b) - e + (k + 1) /\ e \in 0 .. Len(b) /\ Len(b) \in Nat /\ Len(o) \in Nat
      /\ Len(b) - e = Count(u, {"nl"}) + (IF busy THEN 1 ELSE 0)
      /\ Positions(b, e, busy, p, u)
  BY DEF Tally, Positions
<1>2. o # << >>
  <2>1. Len(o) >= 1
    BY <1>1
  <2> QED
    BY <2>1
<1>3. EndOf(Tail(o), b) /\ Len(Tail(o)) = Len(o) - 1
  BY <1>1, <1>2, EndLess
<1>4. Off(Tail(o), Len(Tail(o))) <= RX_BUFFER_SIZE
  <2>1. Tail(o) \in Seq(Lines) /\ Off(Tail(o), Len(Tail(o))) <= Off(o, Len(o))
    BY <1>2, OffLess
  <2>2. Off(Tail(o), Len(Tail(o))) \in Nat /\ Off(o, Len(o)) \in Nat
    <3>1. Len(Tail(o)) \in 0 .. Len(Tail(o)) /\ Len(o) \in 0 .. Len(o)
      BY <2>1
    <3> QED
      BY <2>1, <3>1, OffNatural
  <2> QED
    BY <1>1, <2>1, <2>2, BufferAssumption
<1>5. Len(Tail(o)) = Len(b) - e + k
  <2>1. PICK m \in Nat, n \in Nat, i \in Nat :
          m = Len(o) /\ n = Len(b) /\ i = e /\ m = n - i + (k + 1) /\ Len(Tail(o)) = m - 1
    BY <1>1, <1>3
  <2>2. m - 1 = n - i + k
    BY <2>1
  <2> QED
    BY <2>1, <2>2
<1> QED
  BY <1>1, <1>2, <1>3, <1>4, <1>5 DEF Tally

Described(b, x, busy, p, text, flags) == LinesDescribed => Texts(b, x, busy, p, text, flags)

\* The invariant: the lines tally, and if they are described, they are read as
\* described.
SessionAt(o, b, x, busy, p, u, k, text, flags) ==
  Tally(o, b, Len(x), busy, p, u, k) /\ Described(b, x, busy, p, text, flags)

Session ==
  ~waiting /\ ~overrun => \E p \in Nat, busy \in BOOLEAN :
    /\ busy <=> Busy
    /\ SessionAt(outstanding, begun, executed, busy, p, Unread, Due, line, line_flags)

\* The session of a host that has just been welcomed.
LEMMA SessionNew == SessionAt(<< >>, << >>, << >>, FALSE, 0, << >>, 0, << >>, {})
<1>1. << >> \in Seq(Lines) /\ Len(<< >>) = 0 /\ << >> \in Seq(Characters)
  OBVIOUS
<1>2. Off(<< >>, 0) = 0
  BY SumUnfolds DEF Off
<1>3. PICK n : n = << >>
  OBVIOUS
<1>4. Len(n) = 0 /\ Off(n, 0) = 0 /\ n \in Seq(Characters)
  BY <1>1, <1>2, <1>3
<1>5. Remaining(n, 0, n)
  BY <1>4 DEF Remaining
<1>6. Positions(n, 0, FALSE, 0, n)
  BY <1>4, <1>5 DEF Positions
<1>7. Count(n, {"nl"}) = 0
  BY <1>3, CountOne
<1>8. EndOf(n, n)
  BY <1>4 DEF EndOf
<1>9. Tally(n, n, 0, FALSE, 0, n, 0)
  <2>1. 0 <= RX_BUFFER_SIZE
    BY BufferAssumption
  <2>2. Len(n) = Len(n) - 0 + 0 /\ Len(n) - 0 = Count(n, {"nl"}) + (IF FALSE THEN 1 ELSE 0)
    BY <1>4, <1>7
  <2>3. Off(n, Len(n)) <= RX_BUFFER_SIZE
    BY <1>4, <2>1
  <2> QED
    BY <1>6, <1>8, <2>2, <2>3 DEF Tally
<1>10. Texts(n, n, FALSE, 0, n, {})
  BY <1>3, <1>4 DEF Texts
<1> QED
  BY <1>3, <1>4, <1>9, <1>10 DEF SessionAt, Described

\* A line begun keeps the session.
LEMMA SessionBegins ==
  ASSUME NEW o \in Seq(Lines), NEW b \in Seq(Lines), NEW x \in Executed, NEW busy \in BOOLEAN,
         NEW p, NEW u \in Seq(Characters), NEW k \in Nat, NEW text, NEW flags,
         SessionAt(o, b, x, busy, p, u, k, text, flags),
         NEW l \in Lines, Off(o, Len(o)) + Len(l.chars) <= RX_BUFFER_SIZE
  PROVE  SessionAt(Append(o, l), Append(b, l), x, busy, p, u \o l.chars, k, text, flags)
<1>1. Tally(o, b, Len(x), busy, p, u, k) /\ Positions(b, Len(x), busy, p, u)
  BY DEF SessionAt, Tally
<1>2. Tally(Append(o, l), Append(b, l), Len(x), busy, p, u \o l.chars, k)
  BY <1>1, TallyMore
<1>3. ASSUME LinesDescribed
      PROVE  Texts(Append(b, l), x, busy, p, text, flags)
  <2>1. Texts(b, x, busy, p, text, flags)
    BY <1>3 DEF SessionAt, Described
  <2> QED
    BY <1>1, <2>1, TextsMore
<1> QED
  BY <1>2, <1>3 DEF SessionAt, Described

\* A character taken keeps the session.
LEMMA SessionTakes ==
  ASSUME NEW o \in Seq(Lines), NEW b \in Seq(Lines), NEW x \in Executed,
         NEW p, NEW u \in Seq(Characters), u # << >>, NEW k \in Nat, NEW text, NEW flags,
         SessionAt(o, b, x, FALSE, p, u, k, text, flags)
  PROVE  /\ u[1] = "nl" => SessionAt(o, b, x, TRUE, p + 1, Tail(u), k, text, flags)
         /\ u[1] # "nl" => SessionAt(o, b, x, FALSE, p + 1, Tail(u), k,
                                     LineAfter(text, flags, u[1]), FlagsAfter(text, flags, u[1]))
<1>1. Tally(o, b, Len(x), FALSE, p, u, k) /\ Positions(b, Len(x), FALSE, p, u)
  BY DEF SessionAt, Tally
<1>2. /\ u[1] = "nl" => Tally(o, b, Len(x), TRUE, p + 1, Tail(u), k)
      /\ u[1] # "nl" => Tally(o, b, Len(x), FALSE, p + 1, Tail(u), k)
  BY <1>1, TallyTaken
<1>3. ASSUME LinesDescribed
      PROVE  /\ u[1] = "nl" => Texts(b, x, TRUE, p + 1, text, flags)
             /\ u[1] # "nl" => Texts(b, x, FALSE, p + 1, LineAfter(text, flags, u[1]),
                                     FlagsAfter(text, flags, u[1]))
  <2>1. Texts(b, x, FALSE, p, text, flags)
    BY <1>3 DEF SessionAt, Described
  <2> QED
    BY <1>1, <1>3, <2>1, TextsTaken
<1> QED
  BY <1>2, <1>3 DEF SessionAt, Described

\* A line executed keeps the session.
LEMMA SessionExecutes ==
  ASSUME NEW o \in Seq(Lines), NEW b \in Seq(Lines), NEW x \in Executed,
         NEW p, NEW u \in Seq(Characters), NEW k \in Nat, NEW text \in Seq(Characters), NEW flags,
         NEW r, r = [text |-> text, overflow |-> "OVERFLOW" \in flags],
         SessionAt(o, b, x, TRUE, p, u, k, text, flags)
  PROVE  SessionAt(o, b, Append(x, r), FALSE, p, u, k + 1, << >>, {})
<1>1. Tally(o, b, Len(x), TRUE, p, u, k) /\ Positions(b, Len(x), TRUE, p, u)
  BY DEF SessionAt, Tally
<1>2. r \in [text : Seq(Characters), overflow : BOOLEAN]
  OBVIOUS
<1>3. Len(Append(x, r)) = Len(x) + 1
  BY <1>2, AppendProperties DEF Executed
<1>4. Tally(o, b, Len(Append(x, r)), FALSE, p, u, k + 1)
  BY <1>1, <1>3, TallyExecuted
<1>5. ASSUME LinesDescribed
      PROVE  Texts(b, Append(x, r), FALSE, p, << >>, {})
  <2>1. Texts(b, x, TRUE, p, text, flags)
    BY <1>5 DEF SessionAt, Described
  <2> QED
    BY <1>1, <1>2, <2>1, TextsExecuted
<1> QED
  BY <1>4, <1>5 DEF SessionAt, Described

\* An answer received keeps the session.
LEMMA SessionAnswered ==
  ASSUME NEW o \in Seq(Lines), NEW b \in Seq(Lines), NEW x \in Executed, NEW busy \in BOOLEAN,
         NEW p, NEW u \in Seq(Characters), NEW k \in Nat, NEW text, NEW flags,
         SessionAt(o, b, x, busy, p, u, k + 1, text, flags)
  PROVE  o # << >> /\ SessionAt(Tail(o), b, x, busy, p, u, k, text, flags)
<1>1. Tally(o, b, Len(x), busy, p, u, k + 1)
  BY DEF SessionAt
<1>2. o # << >> /\ Tally(Tail(o), b, Len(x), busy, p, u, k)
  BY <1>1, TallyAnswered
<1> QED
  BY <1>2 DEF SessionAt

\* The host counts the characters of the lines outstanding.
LEMMA CharactersOutIs ==
  ASSUME outstanding \in Seq(Lines)
  PROVE  CharactersOut = Off(outstanding, Len(outstanding))
  BY DEF CharactersOut, Outstanding, Off, Lengths
-----------------------------------------------------------------------------
\* The types hold in the next state too.
LEMMA DueNext == LinkTypes' /\ ~overrun' => (Due \in Nat /\ Stream \in Seq(Words))'
<1>1. LinkTypes /\ ~overrun => Due \in Nat /\ Stream \in Seq(Words)
  BY UnreadTyped
<1> QED
  BY <1>1, PTL

\* Between welcome and reset every step keeps the session.
LEMMA SessionKept ==
  ASSUME ~overrun', InOrder, Session, ~waiting, ~waiting', [Next]_vars
  PROVE  Session'
<1>0. LinkTypes /\ LinkTypes' /\ ~overrun
  BY TypesStep, OverrunStays DEF InOrder
<1>1. PICK p \in Nat, busy \in BOOLEAN :
        /\ busy <=> Busy
        /\ SessionAt(outstanding, begun, executed, busy, p, Unread, Due, line, line_flags)
  BY <1>0 DEF Session
<1>2. PICK o, b, x, u, k, text, flags :
        /\ o \in Seq(Lines) /\ b \in Seq(Lines) /\ x \in Executed /\ u \in Seq(Characters)
        /\ k \in Nat /\ text \in Seq(Characters)
        /\ o = outstanding /\ b = begun /\ x = executed /\ u = Unread /\ k = Due /\ text = line
        /\ flags = line_flags
  BY <1>0, UnreadTyped DEF LinkTypes, HostTypes, MainTypes, Executed
<1>3. SessionAt(o, b, x, busy, p, u, k, text, flags)
  BY <1>1, <1>2
<1>11. /\ o \in Seq(Lines) /\ b \in Seq(Lines) /\ x \in Executed /\ u \in Seq(Characters)
       /\ k \in Nat /\ text \in Seq(Characters)
  BY <1>2
<1>4. Room
  <2>1. Tally(o, b, Len(x), busy, p, u, k)
    BY <1>3 DEF SessionAt
  <2> QED
    BY <1>2, <2>1, TallyRoom DEF Room
<1>5. SessionStep
  BY <1>4, SessionNext
<1> USE DEF Session
<1>6. CASE Idle
  <2>1. /\ outstanding' = o /\ begun' = b /\ executed' = x /\ Unread' = u /\ Due' = k
        /\ line' = text /\ line_flags' = flags /\ (busy <=> Busy')
    BY <1>1, <1>2, <1>6 DEF Idle
  <2> QED
    BY <1>3, <2>1
<1>7. CASE \E l \in Lines : Begins(l)
  <2>1. PICK l \in Lines : Begins(l)
    BY <1>7
  <2>2. /\ outstanding' = Append(o, l) /\ begun' = Append(b, l) /\ executed' = x
        /\ Unread' = u \o l.chars /\ Due' = k
        /\ line' = text /\ line_flags' = flags /\ (busy <=> Busy')
    BY <1>1, <1>2, <2>1 DEF Begins
  <2>3. Off(o, Len(o)) + Len(l.chars) <= RX_BUFFER_SIZE
    BY <1>2, <2>1, CharactersOutIs DEF Begins
  <2>4. SessionAt(Append(o, l), Append(b, l), x, busy, p, u \o l.chars, k, text, flags)
    BY <1>11, <1>3, <2>3, SessionBegins
  <2> QED
    BY <2>2, <2>4
<1>8. CASE Takes
  <2>1. /\ outstanding' = o /\ begun' = b /\ executed' = x /\ Unread' = Tail(u) /\ Due' = k
        /\ u # << >> /\ ~busy
        /\ u[1] = "nl" => Busy' /\ line' = text /\ line_flags' = flags
        /\ u[1] # "nl" => /\ ~Busy' /\ line' = LineAfter(text, flags, u[1])
                          /\ line_flags' = FlagsAfter(text, flags, u[1])
    BY <1>1, <1>2, <1>8 DEF Takes
  <2>2. SessionAt(o, b, x, FALSE, p, u, k, text, flags)
    BY <1>3, <2>1
  <2>3. /\ u[1] = "nl" => SessionAt(o, b, x, TRUE, p + 1, Tail(u), k, text, flags)
        /\ u[1] # "nl" => SessionAt(o, b, x, FALSE, p + 1, Tail(u), k,
                                    LineAfter(text, flags, u[1]), FlagsAfter(text, flags, u[1]))
    BY <1>11, <2>1, <2>2, SessionTakes
  <2>4. p + 1 \in Nat /\ TRUE \in BOOLEAN /\ FALSE \in BOOLEAN
    OBVIOUS
  <2>5. CASE u[1] = "nl"
    <3>1. SessionAt(outstanding', begun', executed', TRUE, p + 1, Unread', Due', line', line_flags')
          /\ (TRUE <=> Busy')
      BY <2>1, <2>3, <2>5
    <3> QED
      BY <2>4, <3>1
  <2>6. CASE u[1] # "nl"
    <3>1. SessionAt(outstanding', begun', executed', FALSE, p + 1, Unread', Due', line', line_flags')
          /\ (FALSE <=> Busy')
      BY <2>1, <2>3, <2>6
    <3> QED
      BY <2>4, <3>1
  <2> QED
    BY <2>5, <2>6
<1>9. CASE Executes
  <2>1. PICK r : r = [text |-> text, overflow |-> "OVERFLOW" \in flags]
    OBVIOUS
  <2>2. /\ outstanding' = o /\ begun' = b /\ executed' = Append(x, r) /\ Unread' = u /\ Due' = k + 1
        /\ line' = << >> /\ line_flags' = {} /\ busy /\ ~Busy'
    BY <1>1, <1>2, <1>9, <2>1 DEF Executes
  <2>3. SessionAt(o, b, x, TRUE, p, u, k, text, flags)
    BY <1>3, <2>2
  <2>4. SessionAt(o, b, Append(x, r), FALSE, p, u, k + 1, << >>, {})
    BY <1>11, <2>1, <2>3, SessionExecutes
  <2>5. SessionAt(outstanding', begun', executed', FALSE, p, Unread', Due', line', line_flags')
        /\ (FALSE <=> Busy') /\ FALSE \in BOOLEAN
    BY <2>2, <2>4
  <2> QED
    BY <2>5
<1>10. CASE Answered
  <2>0. Due' \in Nat
    BY <1>0, DueNext
  <2>1. PICK j \in Nat : j = Due' /\ k = j + 1
    BY <1>2, <1>10, <2>0 DEF Answered
  <2>2. /\ outstanding' = IF o # << >> THEN Tail(o) ELSE o
        /\ begun' = b /\ executed' = x /\ Unread' = u
        /\ line' = text /\ line_flags' = flags /\ (busy <=> Busy')
    BY <1>1, <1>2, <1>10 DEF Answered
  <2>3. o # << >> /\ SessionAt(Tail(o), b, x, busy, p, u, j, text, flags)
    BY <1>11, <1>3, <2>1, SessionAnswered
  <2> QED
    BY <2>1, <2>2, <2>3
<1> QED
  BY <1>5, <1>6, <1>7, <1>8, <1>9, <1>10 DEF SessionStep

\* The welcome opens a session.
LEMMA SessionOpens ==
  ASSUME ~overrun', InOrder, waiting, ~waiting', [Next]_vars
  PROVE  Session'
<1>0. LinkTypes /\ LinkTypes' /\ ~overrun /\ Modes /\ WordsInOrder
  BY TypesStep, OverrunStays DEF InOrder
<1>1. Transmit
  <2>1. ~UNCHANGED vars
    BY DEF vars, hostVars
  <2> QED
    BY <1>0, <2>1, WordsHost, WordsMain DEF Next
<1>2. NoAnswers(Stream', 1) /\ Booted
  BY <1>0, <1>1, WordsTransmit
<1>3. /\ sending = << >> /\ outstanding = << >> /\ begun = << >> /\ executed = << >>
      /\ line = << >> /\ line_flags = {} /\ RxEmpty /\ ~Busy
  BY <1>0, <1>2 DEF Modes
<1>4. /\ UNCHANGED <<sending, outstanding, begun, executed, line, line_flags, pc, ret>>
      /\ UNCHANGED rxVars
  BY <1>1, <1>3 DEF Transmit, mainVars, lineVars
<1>5. Unread' = << >>
  <2>1. RxContents = << >>
    BY <1>0, <1>3, RxRing DEF LinkTypes
  <2>2. Unread = << >>
    BY <1>3, <2>1, ConcatEmptySeq DEF Unread
  <2> QED
    BY <1>4, <2>2, UnreadSame
<1>6. Due' = 0
  <2>1. PICK s \in Seq(Words) : s = Stream'
    BY <1>0, DueNext
  <2> QED
    BY <1>2, <2>1, CountNone DEF Due
<1>7. ~Busy'
  BY <1>3, <1>4 DEF Busy
<1>8. SessionAt(outstanding', begun', executed', FALSE, 0, Unread', Due', line', line_flags')
  BY <1>3, <1>4, <1>5, <1>6, SessionNew
<1>9. 0 \in Nat /\ FALSE \in BOOLEAN /\ (FALSE <=> Busy')
  BY <1>7
<1> QED
  BY <1>8, <1>9 DEF Session

\* The invariant holds always.
LEMMA SessionSafety == Spec => [](InOrder /\ Session)
<1>1. LinkInit => InOrder /\ Session
  BY TypesInit, WordsInit DEF InOrder, LinkInit, Session
<1>2. InOrder /\ Session /\ [Next]_vars => (InOrder /\ Session)'
  <2> SUFFICES ASSUME InOrder, Session, [Next]_vars PROVE (InOrder /\ Session)'
    OBVIOUS
  <2>1. InOrder'
    BY InOrderStep
  <2>2. CASE waiting' \/ overrun'
    BY <2>1, <2>2 DEF Session
  <2>3. CASE ~waiting' /\ ~overrun'
    BY <2>1, <2>3, SessionKept, SessionOpens
  <2> QED
    BY <2>2, <2>3
<1> QED
  BY <1>1, <1>2, PTL DEF Spec

\* The theorem of LinesAccounted: between welcome and reset no answer is lost
\* or given twice (protocol.c:110-131), until the transmit interrupt has overrun
\* its ring.
THEOREM AccountsSafety == Spec => []LinesAccounted
<1>1. InOrder /\ Session => LinesAccounted
  <2> SUFFICES ASSUME InOrder, Session, ~waiting, ~overrun
               PROVE  Len(outstanding) =
                        Count(sending, {"nl"}) + Count(RxContents, {"nl"})
                          + (IF Busy THEN 1 ELSE 0) + Count(Stream, Answers)
    BY DEF LinesAccounted
  <2>0. LinkTypes
    BY DEF InOrder
  <2>1. PICK p \in Nat, busy \in BOOLEAN :
          /\ busy <=> Busy
          /\ SessionAt(outstanding, begun, executed, busy, p, Unread, Due, line, line_flags)
    BY DEF Session
  <2>2. /\ Len(outstanding) = Len(begun) - Len(executed) + Due
        /\ Len(begun) - Len(executed) = Count(Unread, {"nl"}) + (IF busy THEN 1 ELSE 0)
    BY <2>1 DEF SessionAt, Tally
  <2>3. /\ Unread \in Seq(Characters) /\ RxContents \in Seq(Characters)
        /\ sending \in Seq(Characters) /\ Due \in Nat
    BY <2>0, UnreadTyped
  <2>4. Count(Unread, {"nl"}) = Count(RxContents, {"nl"}) + Count(sending, {"nl"})
    BY <2>3, CountConcat DEF Unread
  <2>5. Count(RxContents, {"nl"}) \in Nat /\ Count(sending, {"nl"}) \in Nat
    BY <2>3, CountNatural
  <2>6. Due = Count(Stream, Answers)
    BY DEF Due
  <2> QED
    BY <2>1, <2>2, <2>3, <2>4, <2>5, <2>6
<1> QED
  BY <1>1, SessionSafety, PTL

\* The theorem of LinesIntact: for every set of lines whose text and overflow
\* are what the loop makes of their characters, and every size of the buffers,
\* the lines executed are those the host sent (protocol.c:78-146), until the
\* transmit interrupt has overrun its ring.
THEOREM IntactSafety == ASSUME LinesDescribed PROVE Spec => []LinesIntact
<1>1. InOrder /\ Session => LinesIntact
  <2> SUFFICES ASSUME InOrder, Session, ~waiting, ~overrun
               PROVE  /\ Len(executed) <= Len(begun)
                      /\ \A i \in 1 .. Len(executed) :
                           executed[i] = [text |-> begun[i].text, overflow |-> begun[i].overflow]
    BY DEF LinesIntact
  <2>1. PICK p \in Nat, busy \in BOOLEAN :
          SessionAt(outstanding, begun, executed, busy, p, Unread, Due, line, line_flags)
    BY DEF Session
  <2>2. Texts(begun, executed, busy, p, line, line_flags)
    BY <2>1 DEF SessionAt, Described
  <2>3. Len(executed) \in 0 .. Len(begun)
    BY <2>1 DEF SessionAt, Tally, Positions
  <2> QED
    BY <2>2, <2>3 DEF Texts, Record
<1> QED
  BY <1>1, SessionSafety, PTL
=============================================================================
