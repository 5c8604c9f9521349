--------------------------- MODULE OutsideProofs ---------------------------
(***************************************************************************)
(* Proofs about what connects the station with the outside: the serial      *)
(* console with its line, the Wi-Fi connection, the PC interface and the     *)
(* messages of quality 2.                                                   *)
(***************************************************************************)
EXTENDS NetworkIf, UartConsole, Gui, QoS2, LineEditor, ListFacts, FiniteSetTheorems, SequenceTheorems, TLAPS

-----------------------------------------------------------------------------
(* The serial console.                                                     *)

Char == 0..(Numbers - 1)

\* The characters on their way, in the order in which they should leave.
InHand(t) == IF at[t] = "put" THEN <<held[t]>> ELSE <<>>
OnTheirWay(t) == (txFifo \o InHand(t)) \o xCharsForTx

\* They are numbered one after the other, from the last sent to the last written.
InTurn(q, first, last) ==
    /\ \A i \in 1..Len(q) : q[i] = (first + i) % Numbers
    /\ last = (first + Len(q)) % Numbers

QueuesOK ==
    /\ xCharsForTx \in Seq(Char) /\ txFifo \in Seq(Char) /\ Len(txFifo) <= FifoLen
    /\ held \in [group -> Char] /\ at \in [group -> Places]
    /\ count \in Char /\ out \in Char

\* While the task moves characters the handler leaves them alone, ...
TxMasked(t) == at[t] \in {"space", "waiting", "receive", "put", "unmask"} => ~txMask

\* ... so that the room it has found in the FIFO does not go.
RoomStays(t) == at[t] \in {"waiting", "receive", "put"} => Len(txFifo) < FifoLen

InOrder(t) ==
    /\ QueuesOK /\ TxMasked(t) /\ RoomStays(t)
    /\ InTurn(OnTheirWay(t), out, count) /\ ~damaged

AloneInv == group \in Groups /\ (Alone => \A t \in group : InOrder(t))

LEMMA OnlyOne ==
    ASSUME group \in Groups, Alone
    PROVE  \E t : group = {t}
<1>1. IsFiniteSet(Printers \cup {Reader}) /\ group \subseteq Printers \cup {Reader}
  BY UartConsoleAssumption, FS_Singleton, FS_Union
<1>2. IsFiniteSet(group)
  BY <1>1, FS_Subset
<1> QED BY <1>2, FS_Singleton DEF Alone

-----------------------------------------------------------------------------
(* What each step does to the characters on their way.                     *)

LEMMA TailOfConcat ==
    ASSUME NEW S, NEW a \in Seq(S), NEW b \in Seq(S), a # <<>>
    PROVE  a \o b # <<>> /\ Head(a \o b) = Head(a) /\ Tail(a \o b) = Tail(a) \o b
<1> DEFINE l == Tail(a \o b)
           r == Tail(a) \o b
<1>1. /\ a \o b \in Seq(S) /\ Len(a \o b) = Len(a) + Len(b) /\ Len(a) \in Nat \ {0} /\ Len(b) \in Nat
      /\ Tail(a) \in Seq(S) /\ Len(Tail(a)) = Len(a) - 1
  OBVIOUS
<1>2. a \o b # <<>> /\ Head(a \o b) = Head(a)
  BY <1>1
<1>3. l \in Seq(S) /\ r \in Seq(S) /\ Len(l) = Len(a) + Len(b) - 1 /\ Len(r) = Len(a) + Len(b) - 1
  BY <1>1, <1>2
<1>4. \A i \in 1..Len(a) + Len(b) - 1 : l[i] = r[i]
  BY <1>1, <1>2
<1>5. l = r
  BY <1>3, <1>4, SeqEqual
<1> QED BY <1>2, <1>5

LEMMA AppendTurn ==
    ASSUME NEW q \in Seq(Char), NEW o \in Char, NEW c \in Char, InTurn(q, o, c)
    PROVE  (c + 1) % Numbers \in Char /\ InTurn(Append(q, (c + 1) % Numbers), o, (c + 1) % Numbers)
<1>1. Len(q) \in Nat /\ c = (o + Len(q)) % 8
  BY DEF InTurn, Numbers
<1>2. (c + 1) % 8 = (o + Len(q) + 1) % 8 /\ (c + 1) % 8 \in Char
  BY <1>1 DEF Char, Numbers
<1> DEFINE x == (c + 1) % 8
<1> HIDE DEF x
<1>3. x \in Char /\ x = (o + Len(q) + 1) % 8
  BY <1>2 DEF x
<1>4. InTurn(Append(q, x), o, x)
  BY <1>3 DEF InTurn, Numbers, Char
<1> QED BY <1>3, <1>4 DEF x, Numbers

LEMMA TailTurn ==
    ASSUME NEW q \in Seq(Char), NEW o \in Char, NEW c \in Char, InTurn(q, o, c), q # <<>>
    PROVE  Head(q) = (o + 1) % Numbers /\ InTurn(Tail(q), Head(q), c)
<1>1. /\ Head(q) = q[1] /\ Len(q) \in Nat \ {0} /\ Len(Tail(q)) = Len(q) - 1
      /\ \A i \in 1..Len(q) - 1 : Tail(q)[i] = q[i + 1]
  OBVIOUS
<1> DEFINE h == Head(q)
           r == Tail(q)
<1>2. h = (o + 1) % 8
  BY <1>1 DEF InTurn, Numbers
<1> HIDE DEF h, r
<1>3. /\ Len(r) = Len(q) - 1
      /\ \A i \in 1..Len(q) - 1 : r[i] = q[i + 1]
  BY <1>1 DEF r
<1>4. \A i \in 1..Len(r) : r[i] = (o + (i + 1)) % 8 /\ i \in Int
  BY <1>1, <1>3 DEF InTurn, Numbers
<1>5. c = (o + (Len(r) + 1)) % 8 /\ Len(r) \in Int
  BY <1>1, <1>3 DEF InTurn, Numbers
<1>6. \A i \in Int : (o + (i + 1)) % 8 = (h + i) % 8
  BY <1>2 DEF Char, Numbers
<1>7. InTurn(r, h, c)
  BY <1>4, <1>5, <1>6 DEF InTurn, Numbers
<1> QED BY <1>2, <1>7 DEF h, r, Numbers

-----------------------------------------------------------------------------
(* One task, and what the others of its world do.                          *)

\* A step that leaves the characters on their way as they are.
LEMMA SameLine ==
    ASSUME NEW t, InOrder(t), UNCHANGED <<count, out, damaged>>,
           OnTheirWay(t)' = OnTheirWay(t), QueuesOK', TxMasked(t)', RoomStays(t)'
    PROVE  InOrder(t)'
<1>1. InTurn(OnTheirWay(t), out, count)' <=> InTurn(OnTheirWay(t)', out', count')
  BY DEF InTurn
<1> QED BY <1>1 DEF InOrder

\* A step of the task that moves no character.
LEMMA OnlyMoves ==
    ASSUME NEW t, group = {t}, group' = group, InOrder(t),
           NEW to \in Places \ {"put"}, at[t] # "put", at' = [at EXCEPT ![t] = to],
           UNCHANGED <<count, out, damaged, held, txFifo, xCharsForTx>>,
           TxMasked(t)', to \in {"waiting", "receive"} => Len(txFifo) < FifoLen
    PROVE  InOrder(t)'
<1>1. at'[t] = to /\ at' \in [group -> Places] /\ QueuesOK
  BY DEF InOrder, QueuesOK
<1>2. QueuesOK'
  BY <1>1 DEF QueuesOK
<1>3. OnTheirWay(t)' = OnTheirWay(t)
  BY <1>1 DEF OnTheirWay, InHand
<1>4. RoomStays(t)'
  BY <1>1 DEF RoomStays
<1> QED BY <1>2, <1>3, <1>4, SameLine

LEMMA TaskKeepsOrder ==
    ASSUME NEW t, group = {t}, group' = group, Alone, InOrder(t), Task(t)
    PROVE  InOrder(t)'
<1>1. /\ QueuesOK /\ TxMasked(t) /\ RoomStays(t)
      /\ InTurn(OnTheirWay(t), out, count) /\ ~damaged
  BY DEF InOrder
<1>2. CASE Write(t) \/ Read(t) \/ Mask(t) \/ Unmask(t)
  <2>1. PICK to \in {"send", "space", "idle"} :
          /\ at[t] # "put" /\ at' = [at EXCEPT ![t] = to]
          /\ UNCHANGED <<count, out, damaged, held, txFifo, xCharsForTx>>
          /\ to = "space" => txMask' = FALSE
    BY <1>2 DEF Write, Read, Mask, Unmask, TaskGoes, history, txVars
  <2>2. at'[t] = to
    BY <1>1, <2>1 DEF QueuesOK
  <2>3. TxMasked(t)'
    BY <2>1, <2>2 DEF TxMasked
  <2> QED BY <2>1, <2>3, OnlyMoves DEF Places
<1>3. CASE Test(t)
  <2>1. PICK to \in {"waiting", "unmask", "receive"} :
          /\ at[t] \in {"space", "waiting"} /\ at' = [at EXCEPT ![t] = to]
          /\ UNCHANGED <<count, out, damaged, held, txFifo, xCharsForTx, txMask>>
          /\ to \in {"waiting", "receive"} => Len(txFifo) < FifoLen
    BY <1>1, <1>3 DEF Test, TaskGoes, history, txVars, RoomStays
  <2>2. TxMasked(t)'
    BY <1>1, <2>1 DEF TxMasked
  <2> QED BY <2>1, <2>2, OnlyMoves DEF Places
<1>4. CASE Send(t)
  <2> DEFINE x == (count + 1) % Numbers
             q == OnTheirWay(t)
  <2>1. /\ at[t] = "send" /\ at' = [at EXCEPT ![t] = "mask"]
        /\ xCharsForTx' = Append(xCharsForTx, x) /\ count' = x
        /\ UNCHANGED <<out, damaged, held, txFifo>>
    BY <1>4 DEF Send, TaskGoes, Following
  <2>2. at'[t] = "mask" /\ at' \in [group -> Places]
    BY <1>1, <2>1 DEF QueuesOK, Places
  <2>3. q \in Seq(Char) /\ x \in Char /\ InTurn(Append(q, x), out, x)
    <3>1. q \in Seq(Char)
      BY <1>1, <2>1, ConcatProperties DEF QueuesOK, OnTheirWay, InHand
    <3> QED BY <1>1, <3>1, AppendTurn DEF QueuesOK
  <2>4. QueuesOK'
    BY <1>1, <2>1, <2>2, <2>3 DEF QueuesOK
  <2>5. OnTheirWay(t)' = Append(q, x)
    BY <1>1, <2>1, <2>2, <2>3 DEF OnTheirWay, InHand, QueuesOK
  <2>6. InTurn(OnTheirWay(t), out, count)'
    BY <2>1, <2>3, <2>5 DEF InTurn
  <2>7. TxMasked(t)' /\ RoomStays(t)'
    BY <2>2 DEF TxMasked, RoomStays
  <2> QED BY <1>1, <2>1, <2>4, <2>6, <2>7 DEF InOrder
<1>5. CASE Receive(t)
  <2>1. /\ at[t] = "receive" /\ at' = [at EXCEPT ![t] = "put"] /\ xCharsForTx # <<>>
        /\ held' = [held EXCEPT ![t] = Head(xCharsForTx)]
        /\ xCharsForTx' = Tail(xCharsForTx)
        /\ UNCHANGED <<count, out, damaged, txFifo, txMask>>
    BY <1>5 DEF Receive, TaskGoes, history
  <2>2. /\ at'[t] = "put" /\ at' \in [group -> Places] /\ held'[t] = Head(xCharsForTx)
        /\ Head(xCharsForTx) \in Char /\ Tail(xCharsForTx) \in Seq(Char)
        /\ held' \in [group -> Char]
    BY <1>1, <2>1 DEF QueuesOK, Places
  <2>3. QueuesOK'
    BY <1>1, <2>1, <2>2 DEF QueuesOK
  <2>4. OnTheirWay(t)' = OnTheirWay(t)
    BY <1>1, <2>1, <2>2 DEF OnTheirWay, InHand, QueuesOK
  <2>5. TxMasked(t)' /\ RoomStays(t)'
    BY <1>1, <2>1, <2>2 DEF TxMasked, RoomStays
  <2> QED BY <2>1, <2>3, <2>4, <2>5, SameLine
<1>6. CASE PutChar(t)
  <2>1. /\ at[t] = "put" /\ at' = [at EXCEPT ![t] = "space"]
        /\ txFifo' = txFifo \o <<held[t]>> /\ held' = [held EXCEPT ![t] = 0]
        /\ UNCHANGED <<count, out, damaged, xCharsForTx, txMask>>
    BY <1>1, <1>6 DEF PutChar, TaskGoes, Fill, RoomStays
  <2>2. /\ at'[t] = "space" /\ at' \in [group -> Places]
        /\ held[t] \in Char /\ held' \in [group -> Char]
    BY <1>1, <2>1 DEF QueuesOK, Places, Char, Numbers
  <2>3. QueuesOK'
    <3>1. txFifo' \in Seq(Char) /\ Len(txFifo') = Len(txFifo) + 1 /\ Len(txFifo) < FifoLen
      BY <1>1, <2>1, <2>2 DEF QueuesOK, RoomStays
    <3>2. Len(txFifo') <= FifoLen
      BY <1>1, <3>1, UartConsoleAssumption DEF QueuesOK
    <3> QED BY <1>1, <2>1, <2>2, <3>1, <3>2 DEF QueuesOK
  <2>4. OnTheirWay(t)' = OnTheirWay(t)
    BY <1>1, <2>1, <2>2, ConcatEmptySeq DEF OnTheirWay, InHand, QueuesOK
  <2>5. TxMasked(t)' /\ RoomStays(t)'
    BY <1>1, <2>1, <2>2 DEF TxMasked, RoomStays
  <2> QED BY <2>1, <2>3, <2>4, <2>5, SameLine
<1> QED BY <1>2, <1>3, <1>4, <1>5, <1>6 DEF Task

LEMMA HandlerKeepsOrder ==
    ASSUME NEW t, group = {t}, group' = group, InOrder(t), UARTStdioIntHandler
    PROVE  InOrder(t)'
<1>1. QueuesOK /\ TxMasked(t) /\ RoomStays(t)
  BY DEF InOrder
<1>2. UNCHANGED <<at, held, count, out, damaged>> /\ TxPart
  BY DEF UARTStdioIntHandler, taskVars, history
<1>3. CASE ~TxInterrupt
  <2>1. UNCHANGED <<xCharsForTx, txFifo, txMask>>
    BY <1>2, <1>3 DEF TxPart, txVars
  <2>2. QueuesOK' /\ OnTheirWay(t)' = OnTheirWay(t) /\ TxMasked(t)' /\ RoomStays(t)'
    BY <1>1, <1>2, <2>1 DEF QueuesOK, OnTheirWay, InHand, TxMasked, RoomStays
  <2> QED BY <1>2, <2>2, SameLine
<1>4. CASE TxInterrupt
  <2>1. PICK n : /\ n = Smaller(FifoLen - Len(txFifo), Len(xCharsForTx))
                 /\ txFifo' = txFifo \o SubSeq(xCharsForTx, 1, n)
                 /\ xCharsForTx' = SubSeq(xCharsForTx, n + 1, Len(xCharsForTx))
    BY <1>2, <1>4 DEF TxPart
  <2>2. at[t] \notin {"space", "waiting", "receive", "put", "unmask"}
    BY <1>1, <1>4 DEF TxMasked, TxInterrupt
  <2>3. n \in 0..Len(xCharsForTx) /\ n <= FifoLen - Len(txFifo)
    BY <1>1, <2>1, UartConsoleAssumption DEF QueuesOK, Smaller
  <2> DEFINE a == SubSeq(xCharsForTx, 1, n)
             b == SubSeq(xCharsForTx, n + 1, Len(xCharsForTx))
  <2>4. a \in Seq(Char) /\ b \in Seq(Char) /\ Len(a) = n
    BY <1>1, <2>3 DEF QueuesOK
  <2>5. a \o b = xCharsForTx
    <3>1. SubSeq(xCharsForTx, 1, Len(xCharsForTx)) = xCharsForTx
      BY <1>1, SubSeqFull DEF QueuesOK
    <3>2. xCharsForTx \in Seq(Char) /\ 1 \in 1..Len(xCharsForTx) + 1
          /\ n \in (1 - 1)..Len(xCharsForTx) /\ Len(xCharsForTx) \in n..Len(xCharsForTx)
      BY <1>1, <2>3 DEF QueuesOK
    <3> QED BY <3>1, <3>2, ConcatAdjacentSubSeq
  <2> HIDE DEF a, b
  <2>6. InHand(t) = <<>> /\ InHand(t)' = <<>>
    BY <1>2, <2>2 DEF InHand
  <2>7. txFifo' = txFifo \o a /\ xCharsForTx' = b
    BY <2>1 DEF a, b
  <2>8. QueuesOK'
    <3>1. txFifo' \in Seq(Char) /\ Len(txFifo') = Len(txFifo) + n
      BY <1>1, <2>4, <2>7, ConcatProperties DEF QueuesOK
    <3>2. Len(txFifo') <= FifoLen
      BY <1>1, <2>3, <3>1, UartConsoleAssumption DEF QueuesOK
    <3> QED BY <1>1, <1>2, <2>4, <2>7, <3>1, <3>2 DEF QueuesOK
  <2>9. OnTheirWay(t) = txFifo \o xCharsForTx /\ OnTheirWay(t)' = (txFifo \o a) \o b
    BY <1>1, <2>4, <2>6, <2>7, <2>8, ConcatEmptySeq DEF OnTheirWay, QueuesOK
  <2>10. (txFifo \o a) \o b = txFifo \o (a \o b)
    BY <1>1, <2>4, ConcatAssociative DEF QueuesOK
  <2>11. TxMasked(t)' /\ RoomStays(t)'
    BY <1>2, <2>2 DEF TxMasked, RoomStays
  <2> QED BY <1>2, <2>5, <2>8, <2>9, <2>10, <2>11, SameLine
<1> QED BY <1>3, <1>4

LEMMA ShiftKeepsOrder ==
    ASSUME NEW t, group = {t}, group' = group, Alone, InOrder(t), Shift
    PROVE  InOrder(t)'
<1> DEFINE q == OnTheirWay(t)
<1>1. /\ QueuesOK /\ TxMasked(t) /\ RoomStays(t)
      /\ InTurn(q, out, count) /\ ~damaged
  BY DEF InOrder
<1>2. /\ txFifo # <<>> /\ out' = Head(txFifo) /\ txFifo' = Tail(txFifo)
      /\ UNCHANGED <<at, held, xCharsForTx, txMask, count>>
  BY DEF Shift, taskVars
<1>3. damaged' <=> (damaged \/ Head(txFifo) # (out + 1) % Numbers)
  BY DEF Shift, Following
<1>4. InHand(t) \in Seq(Char) /\ InHand(t)' = InHand(t)
  BY <1>1, <1>2 DEF InHand, QueuesOK
<1>5. /\ Head(txFifo) \in Char /\ Tail(txFifo) \in Seq(Char)
      /\ Len(txFifo) \in Nat /\ Len(Tail(txFifo)) = Len(txFifo) - 1
  BY <1>1, <1>2 DEF QueuesOK
<1>6. QueuesOK'
  <2>1. Len(txFifo') <= FifoLen
    BY <1>1, <1>2, <1>5, UartConsoleAssumption DEF QueuesOK
  <2> QED BY <1>1, <1>2, <1>5, <2>1 DEF QueuesOK
<1>7. q \in Seq(Char) /\ q # <<>> /\ Head(q) = Head(txFifo) /\ OnTheirWay(t)' = Tail(q)
  <2> DEFINE f == txFifo \o InHand(t)
  <2>1. f \in Seq(Char) /\ f # <<>> /\ Head(f) = Head(txFifo) /\ Tail(f) = Tail(txFifo) \o InHand(t)
    BY <1>1, <1>2, <1>4, TailOfConcat, ConcatProperties DEF QueuesOK
  <2>2. q = f \o xCharsForTx /\ OnTheirWay(t)' = Tail(f) \o xCharsForTx
    BY <1>2, <1>4, <2>1 DEF OnTheirWay
  <2> HIDE DEF f, q
  <2> QED BY <1>1, <2>1, <2>2, TailOfConcat, ConcatProperties DEF QueuesOK
<1> HIDE DEF q
<1>8. Head(q) = (out + 1) % Numbers /\ InTurn(Tail(q), Head(q), count)
  BY <1>1, <1>7, TailTurn DEF QueuesOK
<1>9. InTurn(OnTheirWay(t), out, count)'
  BY <1>2, <1>7, <1>8 DEF InTurn
<1>10. TxMasked(t)' /\ RoomStays(t)'
  <2>1. Len(txFifo') < Len(txFifo)
    BY <1>2, <1>5
  <2>2. RoomStays(t)'
    BY <1>1, <1>2, <1>5, <2>1, UartConsoleAssumption DEF RoomStays
  <2> QED BY <1>1, <1>2, <2>2 DEF TxMasked
<1> QED BY <1>1, <1>3, <1>6, <1>7, <1>8, <1>9, <1>10 DEF InOrder

-----------------------------------------------------------------------------
\* What a task prints alone leaves in the order it was written and complete
\* (InOrderAlone), whatever UARTStdioIntHandler takes out of the queue while
\* UARTPrimeTransmit is about to, and however slow the line is.
THEOREM PrintsInOrder == ConsoleSpec => []InOrderAlone
<1>1. ConsoleInit => AloneInv
  <2> SUFFICES ASSUME ConsoleInit, Alone, NEW t \in group PROVE InOrder(t)
    BY DEF AloneInv, ConsoleInit
  <2>1. QueuesOK
    BY UartConsoleAssumption DEF ConsoleInit, QueuesOK, Char, Numbers, Places
  <2>2. at[t] = "idle" /\ OnTheirWay(t) = <<>>
    BY DEF ConsoleInit, OnTheirWay, InHand
  <2>3. InTurn(OnTheirWay(t), out, count)
    BY <2>2 DEF ConsoleInit, InTurn, Numbers
  <2>4. TxMasked(t) /\ RoomStays(t)
    BY <2>2 DEF TxMasked, RoomStays
  <2> QED BY <2>1, <2>3, <2>4 DEF ConsoleInit, InOrder
<1>2. AloneInv /\ [ConsoleNext]_consoleVars => AloneInv'
  <2> SUFFICES ASSUME AloneInv, [ConsoleNext]_consoleVars PROVE AloneInv'
    OBVIOUS
  <2>1. group' = group
    BY DEF ConsoleNext, Task, Write, Read, Send, Mask, Test, Receive, PutChar, Unmask,
           UARTStdioIntHandler, Shift, Typed, consoleVars
  <2>2. CASE ~Alone
    BY <2>1, <2>2 DEF AloneInv, Alone
  <2>3. CASE Alone
    <3>1. PICK t : group = {t}
      BY <2>3, OnlyOne DEF AloneInv
    <3>2. InOrder(t)
      BY <2>3, <3>1 DEF AloneInv
    <3>3. InOrder(t)'
      <4>1. CASE \E u \in group : Task(u)
        BY <2>1, <2>3, <3>1, <3>2, <4>1, TaskKeepsOrder
      <4>2. CASE UARTStdioIntHandler
        BY <2>1, <3>1, <3>2, <4>2, HandlerKeepsOrder
      <4>3. CASE Shift
        BY <2>1, <2>3, <3>1, <3>2, <4>3, ShiftKeepsOrder
      <4>4. CASE Typed \/ UNCHANGED consoleVars
        <5>1. UNCHANGED <<taskVars, txVars, history, group>>
          BY <4>4 DEF Typed, consoleVars
        <5>2. UNCHANGED <<at, held, txFifo, xCharsForTx, txMask, count, out, damaged>>
          BY <5>1 DEF taskVars, txVars, history
        <5>3. QueuesOK' /\ OnTheirWay(t)' = OnTheirWay(t) /\ TxMasked(t)' /\ RoomStays(t)'
          BY <3>2, <5>1, <5>2 DEF InOrder, QueuesOK, OnTheirWay, InHand, TxMasked, RoomStays
        <5> QED BY <3>2, <5>2, <5>3, SameLine
      <4> QED BY <4>1, <4>2, <4>3, <4>4 DEF ConsoleNext
    <3> QED BY <2>1, <2>3, <3>1, <3>3 DEF AloneInv
  <2> QED BY <2>2, <2>3
<1>3. AloneInv => InOrderAlone
  <2> SUFFICES ASSUME AloneInv, Alone PROVE ~damaged
    BY DEF InOrderAlone
  <2>1. PICK t : group = {t}
    BY OnlyOne DEF AloneInv
  <2> QED BY <2>1 DEF AloneInv, InOrder
<1> QED BY <1>1, <1>2, <1>3, PTL DEF ConsoleSpec

-----------------------------------------------------------------------------
(* The Wi-Fi connection.                                                   *)

\* Nothing is known and nothing on its way that was before the restart.
Quiet == profile = FALSE /\ queue = <<>> /\ g_ulStatus = {}

NoAddress == "IP_AQUIRED" \notin g_ulStatus /\ \A i \in DOMAIN queue : queue[i] # "IP"

\* From the restart until it is asked to join, the network processor has nothing
\* to tell.  Network_IF_ConnectAP hence never disconnects, and whoever waits for a
\* disconnection is bringing the network processor to its defaults.
Fresh ==
    /\ pc \in {"disconnect", "response", "disconnecting"} => after = "defaults"
    /\ pc \in {"disconnect", "response", "disconnecting", "defaults"} => profile = FALSE
    /\ pc = "restart" => link = "off" /\ Quiet
    /\ pc \in {"connect", "join"} => link = "none" /\ role = "STA" /\ Quiet
    /\ pc = "poll" /\ joined = FALSE => NoAddress

\* What the network processor sends.
Sent == Events \cup {"ok", "error"}

NetworkInv ==
    /\ queue \in Seq(Sent)
    /\ joined \in BOOLEAN /\ profile \in BOOLEAN /\ g_usConnectIndex \in Nat
    /\ Fresh

\* A step of the caller.
LEMMA CallerKeeps == ASSUME NetworkInv, Caller \/ Connect PROVE NetworkInv'
<1>0. <<>> \in Seq(Sent) /\ \A i \in DOMAIN <<>> : FALSE
  OBVIOUS
<1>7. g_usConnectIndex' \in Nat
  BY DEF Caller, InitDriver, Start, SetMode, Policy, Defaults, Restart, Disconnect, Response, Disconnected,
         ConnectAP, Join, Poll, Report, Connect, appVars, NetworkInv
<1>1. CASE InitDriver \/ Start \/ SetMode \/ Policy \/ Report \/ Connect
  <2>1. /\ queue' = queue \/ queue' = <<>>
        /\ joined' = joined /\ (profile' = profile \/ profile' = FALSE)
        /\ pc' \in {"start", "forever", "ip", "policy", "disconnect", "idle", "init"}
        /\ pc' = "disconnect" => after' = "defaults" /\ profile' = FALSE
    BY <1>1 DEF InitDriver, Start, SetMode, Policy, Report, Connect, Goes, Restarts, nwpVars
  <2> QED BY <1>0, <1>7, <2>1 DEF NetworkInv, Fresh
<1>2. CASE Disconnect \/ Response \/ Disconnected
  <2>1. queue \in Seq(Sent) /\ after = "defaults" /\ profile = FALSE
    BY <1>2 DEF NetworkInv, Fresh, Disconnect, Response, Disconnected, Goes
  <2>2. /\ pc' \in {"response", "disconnecting", "defaults"} /\ after' = after /\ profile' = profile /\ joined' = joined
        /\ \/ queue' = queue \o <<"ok", "DISCONNECT">>
           \/ queue' = Append(queue, "error")
           \/ queue' = Tail(queue) /\ queue # <<>>
           \/ queue' = queue
    BY <1>2, <2>1 DEF Disconnect, Response, Disconnected, Goes, nwpVars
  <2>3. queue' \in Seq(Sent)
    BY <2>1, <2>2 DEF Sent, Events
  <2> QED BY <1>7, <2>1, <2>2, <2>3 DEF NetworkInv, Fresh
<1>3. CASE Defaults \/ Restart
  <2>1. CASE Defaults
    BY <1>0, <1>7, <2>1 DEF Defaults, Goes, NetworkInv, Fresh, Quiet
  <2>2. CASE Restart
    BY <1>0, <1>7, <2>2 DEF Restart, Restarts, Goes, nwpVars, NetworkInv, Fresh, Quiet
  <2> QED BY <1>3, <2>1, <2>2
<1>4. CASE ConnectAP
  BY <1>4, <1>7 DEF ConnectAP, Goes, nwpVars, IsConnected, NetworkInv, Fresh, Quiet
<1>5. CASE Join
  <2>1. /\ pc' \in {"poll", "idle"} /\ joined' = FALSE /\ queue' = queue /\ profile' = profile
        /\ g_ulStatus' = g_ulStatus /\ queue = <<>> /\ g_ulStatus = {}
    BY <1>5 DEF Join, Goes, NetworkInv, Fresh, Quiet
  <2>2. NoAddress'
    BY <1>0, <2>1 DEF NoAddress
  <2> QED BY <1>0, <1>7, <2>1, <2>2 DEF NetworkInv, Fresh
<1>6. CASE Poll
  <2>1. /\ pc = "poll" /\ pc' \in {"poll", "report"} /\ joined' = joined /\ queue' = queue /\ profile' = profile
        /\ g_ulStatus' = g_ulStatus
    BY <1>6 DEF Poll, Goes, nwpVars
  <2> QED BY <1>7, <2>1 DEF NetworkInv, Fresh, NoAddress
<1> QED BY <1>1, <1>2, <1>3, <1>4, <1>5, <1>6 DEF Caller

\* An event that is handled, and one that is sent.
LEMMA EventKeeps ==
    ASSUME NetworkInv, Handler \/ Nwp(Joins) \/ Nwp(Fails) \/ Nwp(Acquires) \/ Nwp(Loses)
    PROVE  NetworkInv'
<1>1. /\ UNCHANGED <<pc, after, role, profile, g_usConnectIndex>> /\ queue \in Seq(Sent)
      /\ joined \in BOOLEAN /\ profile \in BOOLEAN /\ g_usConnectIndex \in Nat
  BY DEF Handler, Nwp, appVars, NetworkInv
<1>2. CASE Handler
  <2>1. /\ queue # <<>> /\ queue' = Tail(queue) /\ Head(queue) \in Events /\ joined' = joined /\ link' = link
        /\ Head(queue) # "IP" /\ "IP_AQUIRED" \in g_ulStatus' => "IP_AQUIRED" \in g_ulStatus
    BY <1>2 DEF Handler, Status, Events
  <2>2. /\ queue' \in Seq(Sent)
        /\ Head(queue) = queue[1] /\ 1 \in DOMAIN queue
        /\ \A i \in DOMAIN queue' : i + 1 \in DOMAIN queue /\ queue'[i] = queue[i + 1]
    BY <1>1, <2>1 DEF Sent, Events
  <2>3. NoAddress => NoAddress'
    BY <2>1, <2>2 DEF NoAddress
  <2>4. pc \notin {"restart", "connect", "join"}
    BY <2>1 DEF NetworkInv, Fresh, Quiet
  <2> QED BY <1>1, <2>1, <2>2, <2>3, <2>4 DEF NetworkInv, Fresh
<1>3. CASE Nwp(Joins) \/ Nwp(Fails) \/ Nwp(Acquires) \/ Nwp(Loses)
  <2>1. PICK e \in Events : /\ queue' = Append(queue, e) /\ g_ulStatus' = g_ulStatus
                            /\ IF e = "IP" THEN joined' = TRUE ELSE joined' = joined
    BY <1>3 DEF Nwp, Joins, Fails, Acquires, Loses, Tells, Events
  <2>2. /\ queue' \in Seq(Sent)
        /\ \A i \in DOMAIN queue' : (i \in DOMAIN queue /\ queue'[i] = queue[i]) \/ queue'[i] = e
    BY <1>1, <2>1 DEF Sent, Events
  <2>3. joined' = FALSE /\ NoAddress => joined = FALSE /\ NoAddress'
    BY <1>1, <2>1, <2>2 DEF NoAddress
  <2>4. joined' = FALSE => joined = FALSE
    BY <1>1, <2>1
  <2>5. pc \notin {"restart", "connect", "join"}
    BY <1>3 DEF NetworkInv, Fresh, Quiet, Nwp, Joins, Fails, Acquires, Loses
  <2>6. joined' \in BOOLEAN
    BY <1>1, <2>1
  <2> QED BY <1>1, <2>2, <2>3, <2>4, <2>5, <2>6 DEF NetworkInv, Fresh
<1> QED BY <1>2, <1>3

\* When the polling of Network_IF_ConnectAP ends because both bits are set, the
\* access point of this call has been joined: no bit, event or profile from before
\* the restarts passes for it, however many calls and losses there are.
THEOREM PollingSeesThisCall == Spec => PollsSeeThisCall
<1> DEFINE P == pc = "poll" /\ pc' = "report" /\ g_usConnectIndex < MaxPolls => joined
<1>1. Init => NetworkInv
  <2> SUFFICES ASSUME Init PROVE NetworkInv
    OBVIOUS
  <2>1. queue \in Seq(Sent)
    BY DEF Init
  <2> QED BY <2>1 DEF Init, NetworkInv, Fresh
<1>2. NetworkInv /\ [Next]_vars => NetworkInv'
  <2> SUFFICES ASSUME NetworkInv, [Next]_vars PROVE NetworkInv'
    OBVIOUS
  <2>1. CASE UNCHANGED vars
    BY <2>1 DEF vars, appVars, nwpVars, NetworkInv, Fresh, Quiet, NoAddress
  <2>2. CASE Next
    BY <2>2, CallerKeeps, EventKeeps DEF Next
  <2> QED BY <2>1, <2>2
<1>3. NetworkInv /\ [Next]_vars => [P]_vars
  <2> SUFFICES ASSUME NetworkInv, Next, pc = "poll", pc' = "report", g_usConnectIndex < MaxPolls
               PROVE  joined
    OBVIOUS
  <2>1. Poll /\ g_usConnectIndex \in Nat
    BY DEF NetworkInv, Next, Caller, Connect, Handler, Nwp, InitDriver, Start, SetMode, Policy, Defaults, Restart,
           Disconnect, Response, Disconnected, ConnectAP, Join, Report, Goes
  <2>2. IsIpAcquired
    BY <2>1, NetworkIfAssumption DEF Poll, Goes
  <2> QED BY <2>2 DEF IsIpAcquired, NetworkInv, Fresh, NoAddress
<1> QED BY <1>1, <1>2, <1>3, PTL DEF Spec, PollsSeeThisCall

-----------------------------------------------------------------------------
(* The PC interface.                                                       *)

\* The messages, and those of a sequence: each older than all that come after it,
\* and newer than what is shown.
Msg == [object : BOOLEAN, fields : SUBSET Gauges, number : Nat]

Waiting ==
    \A i \in DOMAIN inbox :
        /\ inbox[i].number <= arrivals
        /\ \A g \in Gauges : gauges[g] < inbox[i].number
        /\ \A j \in 1..i - 1 : inbox[j].number < inbox[i].number
        /\ \A k \in DOMAIN dialogs : dialogs[k].number < inbox[i].number

\* A dialog that holds a message is the innermost, and no further one comes
\* before it is closed; the dialog of the thresholds is the outermost.
Nested ==
    /\ \A k \in DOMAIN dialogs : dialogs[k] # NoMessage => k = Len(dialogs) /\ ~pinged_
    /\ \A k \in DOMAIN dialogs : dialogs[k] = NoMessage => k = 1

\* A click of ping whose message has not been shown yet.
Due == IF pinged_ \/ (dialogs # <<>> /\ dialogs[Len(dialogs)] # NoMessage) THEN 1 ELSE 0

GuiTypes ==
    /\ arrivals \in Nat /\ pings \in Nat /\ backs \in Nat /\ pinged_ \in BOOLEAN
    /\ inbox \in Seq(Msg) /\ dialogs \in Seq(Msg) /\ gauges \in [Gauges -> Nat]

GuiInv ==
    /\ GuiTypes /\ Waiting /\ Nested /\ OneReport
    /\ \A g \in Gauges : gauges[g] <= arrivals
    /\ \A k \in DOMAIN dialogs : dialogs[k].number <= arrivals
    /\ backs + Due <= pings

\* What a message does to the gauges, and how often that takes one back.
LEMMA UpdateShows ==
    ASSUME GuiTypes, OneReport, NEW m \in Msg, Update(m)
    PROVE  /\ gauges' \in [Gauges -> Nat] /\ OneReport'
           /\ \A g \in Gauges : gauges'[g] \in {m.number, gauges[g], 0}
           /\ backs' = backs \/ backs' = backs + 1
           /\ (\A g \in Gauges : gauges[g] < m.number) => backs' = backs
<1> DEFINE V == [g \in Gauges |-> IF g \in m.fields THEN m.number
                                  ELSE IF g \in Sensors /\ m.fields \cap Sensors # {} THEN 0 ELSE gauges[g]]
<1>1. /\ gauges' = V
      /\ backs' = backs + (IF \E g \in Gauges : V[g] \in 1..gauges[g] - 1 THEN 1 ELSE 0)
  BY Zenon DEF Update, Shows
<1>2. m.number \in Nat /\ m.fields \subseteq Gauges /\ gauges \in [Gauges -> Nat] /\ Sensors \subseteq Gauges
  BY DEF Msg, GuiTypes, Gauges
<1>3. /\ V \in [Gauges -> Nat]
      /\ \A g \in Gauges : V[g] \in {m.number, gauges[g], 0}
  BY <1>2
<1>4. OneReport'
  <2> SUFFICES ASSUME NEW g \in Sensors, NEW h \in Sensors, V[g] # 0, V[h] # 0 PROVE V[g] = V[h]
    BY <1>1 DEF OneReport
  <2>1. g \in Gauges /\ h \in Gauges
    BY <1>2
  <2>2. CASE m.fields \cap Sensors # {}
    BY <2>1, <2>2
  <2>3. CASE m.fields \cap Sensors = {}
    <3>1. V[g] = gauges[g] /\ V[h] = gauges[h]
      BY <2>1, <2>3
    <3> QED BY <3>1 DEF OneReport
  <2> QED BY <2>2, <2>3
<1>5. ASSUME \A g \in Gauges : gauges[g] < m.number PROVE \A g \in Gauges : V[g] \notin 1..gauges[g] - 1
  <2> SUFFICES ASSUME NEW g \in Gauges PROVE V[g] \notin 1..gauges[g] - 1
    OBVIOUS
  <2>1. V[g] \in {m.number, gauges[g], 0} /\ gauges[g] < m.number /\ gauges[g] \in Nat
    BY <1>2, <1>3, <1>5
  <2> HIDE DEF V
  <2> QED BY <2>1, <1>2
<1>6. backs \in Nat
  BY DEF GuiTypes
<1> HIDE DEF V
<1> QED BY <1>1, <1>3, <1>4, <1>5, <1>6

\* What leaves the gauges alone, and has at most one new message come and no
\* dialog open or close.
LEMMA ArrivalKeeps ==
    ASSUME GuiInv, UNCHANGED <<dialogs, gauges, backs>>, arrivals' \in {arrivals, arrivals + 1},
           \/ inbox' = inbox
           \/ \E m \in Msg : inbox' = Append(inbox, m) /\ m.number = arrivals + 1 /\ arrivals' = arrivals + 1,
           \/ UNCHANGED <<pinged_, pings>>
           \/ pinged_' = TRUE /\ pings' = pings + 1 /\ dialogs = <<>>
    PROVE  GuiInv'
<1>1. /\ arrivals \in Nat /\ pings \in Nat /\ backs \in Nat /\ pinged_ \in BOOLEAN
      /\ inbox \in Seq(Msg) /\ dialogs \in Seq(Msg) /\ gauges \in [Gauges -> Nat]
  BY DEF GuiInv, GuiTypes
<1>2. GuiTypes'
  <2>1. arrivals' \in Nat
    BY <1>1
  <2>2. pings' \in Nat /\ pinged_' \in BOOLEAN
    <3>1. CASE UNCHANGED <<pinged_, pings>>
      BY <1>1, <3>1
    <3>2. CASE pinged_' = TRUE /\ pings' = pings + 1
      BY <1>1, <3>2
    <3> QED BY <3>1, <3>2
  <2>3. inbox' \in Seq(Msg)
    <3>1. ASSUME NEW m \in Msg PROVE Append(inbox, m) \in Seq(Msg)
      BY <1>1
    <3> QED BY <1>1, <3>1, Zenon
  <2> QED BY <1>1, <2>1, <2>2, <2>3 DEF GuiTypes
<1>3. arrivals' \in Nat /\ arrivals' >= arrivals
  BY <1>1
<1>4. Waiting'
  <2> SUFFICES ASSUME NEW i \in DOMAIN inbox'
               PROVE  /\ inbox'[i].number <= arrivals'
                      /\ \A g \in Gauges : gauges[g] < inbox'[i].number
                      /\ \A j \in 1..i - 1 : inbox'[j].number < inbox'[i].number
                      /\ \A k \in DOMAIN dialogs : dialogs[k].number < inbox'[i].number
    BY DEF Waiting
  <2>1. ASSUME NEW j \in DOMAIN inbox
        PROVE  /\ inbox[j].number \in Nat /\ inbox[j].number <= arrivals
               /\ \A g \in Gauges : gauges[g] < inbox[j].number
               /\ \A l \in 1..j - 1 : inbox[l].number < inbox[j].number
               /\ \A k \in DOMAIN dialogs : dialogs[k].number < inbox[j].number
    <3>1. inbox[j] \in Msg
      BY <1>1, <2>1
    <3>2. inbox[j].number \in Nat
      BY <3>1 DEF Msg
    <3> QED BY <2>1, <3>2 DEF GuiInv, Waiting
  <2>2. CASE inbox' = inbox
    BY <1>1, <1>3, <2>1, <2>2
  <2>3. ASSUME NEW m \in Msg, inbox' = Append(inbox, m), m.number = arrivals + 1, arrivals' = arrivals + 1
        PROVE  /\ inbox'[i].number <= arrivals'
               /\ \A g \in Gauges : gauges[g] < inbox'[i].number
               /\ \A j \in 1..i - 1 : inbox'[j].number < inbox'[i].number
               /\ \A k \in DOMAIN dialogs : dialogs[k].number < inbox'[i].number
    <3>1. /\ Len(inbox) \in Nat /\ DOMAIN inbox = 1..Len(inbox) /\ i \in 1..Len(inbox) + 1
          /\ \A j \in 1..Len(inbox) : inbox'[j] = inbox[j]
          /\ inbox'[Len(inbox) + 1] = m
      BY <1>1, <2>3
    <3>2. CASE i \in 1..Len(inbox)
      <4>1. i \in DOMAIN inbox /\ inbox'[i] = inbox[i] /\ \A j \in 1..i - 1 : inbox'[j] = inbox[j]
        BY <3>1, <3>2
      <4> QED BY <1>1, <1>3, <2>1, <4>1
    <3>3. CASE i = Len(inbox) + 1
      <4>1. inbox'[i].number = arrivals + 1
        BY <2>3, <3>1, <3>3
      <4>2. \A g \in Gauges : gauges[g] < arrivals + 1
        <5>1. \A g \in Gauges : gauges[g] \in Nat /\ gauges[g] <= arrivals
          BY <1>1 DEF GuiInv
        <5> QED BY <1>1, <5>1
      <4>3. \A k \in DOMAIN dialogs : dialogs[k].number < arrivals + 1
        <5>1. \A k \in DOMAIN dialogs : dialogs[k] \in Msg
          BY <1>1
        <5>2. \A k \in DOMAIN dialogs : dialogs[k].number \in Nat /\ dialogs[k].number <= arrivals
          BY <5>1 DEF GuiInv, Msg
        <5> QED BY <1>1, <5>2
      <4>4. \A j \in 1..i - 1 : inbox'[j].number < arrivals + 1
        <5> SUFFICES ASSUME NEW j \in 1..i - 1 PROVE inbox'[j].number < arrivals + 1
          OBVIOUS
        <5>1. j \in DOMAIN inbox /\ inbox'[j] = inbox[j]
          BY <3>1, <3>3
        <5>2. inbox[j].number \in Nat /\ inbox[j].number <= arrivals
          BY <2>1, <5>1
        <5> QED BY <1>1, <5>1, <5>2
      <4> QED BY <1>1, <2>3, <4>1, <4>2, <4>3, <4>4
    <3> QED BY <3>1, <3>2, <3>3
  <2> QED BY <2>2, <2>3
<1>5. Nested'
  BY DEF GuiInv, Nested
<1>6. OneReport'
  BY DEF GuiInv, OneReport
<1>7. (\A g \in Gauges : gauges[g] <= arrivals)'
  <2>1. \A g \in Gauges : gauges[g] \in Nat /\ gauges[g] <= arrivals
    BY <1>1 DEF GuiInv
  <2> QED BY <1>1, <1>3, <2>1
<1>8. (\A k \in DOMAIN dialogs : dialogs[k].number <= arrivals)'
  <2>1. \A k \in DOMAIN dialogs : dialogs[k] \in Msg
    BY <1>1
  <2>2. \A k \in DOMAIN dialogs : dialogs[k].number \in Nat /\ dialogs[k].number <= arrivals
    BY <2>1 DEF GuiInv, Msg
  <2> QED BY <1>1, <1>3, <2>2
<1>9. (backs + Due <= pings)'
  <2>1. backs + Due <= pings /\ Due \in {0, 1}
    BY DEF GuiInv, Due
  <2>2. CASE UNCHANGED <<pinged_, pings>>
    BY <2>1, <2>2 DEF Due
  <2>3. CASE pinged_' = TRUE /\ pings' = pings + 1
    <3>1. backs <= pings /\ backs' = backs /\ pings' = pings + 1
      BY <1>1, <2>1, <2>3
    <3>2. Due' = 1
      BY <2>3 DEF Due
    <3> QED BY <1>1, <3>1, <3>2
  <2> QED BY <2>2, <2>3
<1> QED BY <1>2, <1>4, <1>5, <1>6, <1>7, <1>8, <1>9 DEF GuiInv

\* A message handled while none is held, or held by the dialog it opens.
LEMMA ReceivedKeeps == ASSUME GuiInv, onMQTT_Received PROVE GuiInv'
<1> DEFINE m == Head(inbox)
<1>1. /\ arrivals \in Nat /\ pings \in Nat /\ backs \in Nat /\ pinged_ \in BOOLEAN
      /\ inbox \in Seq(Msg) /\ dialogs \in Seq(Msg) /\ gauges \in [Gauges -> Nat]
  BY DEF GuiInv, GuiTypes
<1>2. inbox # <<>> /\ inbox' = Tail(inbox) /\ Received(m) /\ arrivals' = arrivals /\ pings' = pings
  BY DEF onMQTT_Received
<1>3. /\ m \in Msg /\ m = inbox[1] /\ 1 \in DOMAIN inbox /\ inbox' \in Seq(Msg)
      /\ \A i \in DOMAIN inbox' : i \in Nat /\ i + 1 \in DOMAIN inbox /\ inbox'[i] = inbox[i + 1] /\ 1 \in 1..(i + 1) - 1
      /\ \A i \in DOMAIN inbox' : \A j \in 1..i - 1 : j \in DOMAIN inbox' /\ j + 1 \in 1..(i + 1) - 1
  BY <1>1, <1>2
<1> HIDE DEF m
<1>4. /\ m.number \in Nat /\ m.number <= arrivals
      /\ \A g \in Gauges : gauges[g] < m.number
      /\ \A k \in DOMAIN dialogs : dialogs[k].number < m.number
  BY <1>3 DEF GuiInv, Waiting, Msg
<1>5. /\ \A i \in DOMAIN inbox' : inbox'[i].number \in Nat /\ inbox'[i].number <= arrivals
      /\ \A i \in DOMAIN inbox' : \A g \in Gauges : gauges[g] < inbox'[i].number
      /\ \A i \in DOMAIN inbox' : m.number < inbox'[i].number
      /\ \A i \in DOMAIN inbox' : \A k \in DOMAIN dialogs : dialogs[k].number < inbox'[i].number
  <2> SUFFICES ASSUME NEW i \in DOMAIN inbox'
               PROVE  /\ inbox'[i].number \in Nat /\ inbox'[i].number <= arrivals
                      /\ \A g \in Gauges : gauges[g] < inbox'[i].number
                      /\ m.number < inbox'[i].number
                      /\ \A k \in DOMAIN dialogs : dialogs[k].number < inbox'[i].number
    OBVIOUS
  <2>1. inbox'[i] = inbox[i + 1] /\ i + 1 \in DOMAIN inbox /\ 1 \in 1..(i + 1) - 1 /\ m = inbox[1]
    BY <1>3
  <2>2. inbox[i + 1] \in Msg
    BY <1>1, <2>1
  <2>3. inbox[i + 1].number \in Nat
    BY <2>2 DEF Msg
  <2> QED BY <2>1, <2>3 DEF GuiInv, Waiting
<1>6. \A i \in DOMAIN inbox' : \A j \in 1..i - 1 : inbox'[j].number < inbox'[i].number
  <2> SUFFICES ASSUME NEW i \in DOMAIN inbox', NEW j \in 1..i - 1 PROVE inbox'[j].number < inbox'[i].number
    OBVIOUS
  <2>1. inbox'[i] = inbox[i + 1] /\ inbox'[j] = inbox[j + 1] /\ j + 1 \in 1..(i + 1) - 1 /\ i + 1 \in DOMAIN inbox
    BY <1>3
  <2> QED BY <2>1 DEF GuiInv, Waiting
<1>7. CASE Idle
  <2>1. GuiTypes' /\ Nested' /\ OneReport' /\ Due' = Due
    BY <1>1, <1>2, <1>3, <1>7 DEF GuiInv, GuiTypes, Nested, OneReport, Due, Idle
  <2>2. Waiting'
    BY <1>2, <1>5, <1>6, <1>7 DEF Waiting, Idle
  <2> QED BY <1>2, <1>7, <2>1, <2>2 DEF GuiInv, Idle
<1>8. CASE m.object /\ pinged_ /\ pinged_' = FALSE /\ dialogs' = Append(dialogs, m) /\ UNCHANGED <<gauges, backs>>
  <2>1. /\ Len(dialogs) \in Nat /\ DOMAIN dialogs = 1..Len(dialogs) /\ DOMAIN dialogs' = 1..Len(dialogs) + 1
        /\ Len(dialogs') = Len(dialogs) + 1 /\ dialogs' \in Seq(Msg)
        /\ \A k \in 1..Len(dialogs) : dialogs'[k] = dialogs[k]
        /\ dialogs'[Len(dialogs) + 1] = m
    BY <1>1, <1>3, <1>8
  <2>2. m # NoMessage
    BY <1>8 DEF NoMessage
  <2>3. \A k \in 1..Len(dialogs) : dialogs[k] = NoMessage /\ k = 1
    BY <1>8, <2>1 DEF GuiInv, Nested
  <2>4. Nested'
    BY <1>8, <2>1, <2>2, <2>3 DEF Nested
  <2>5. Due' = 1 /\ Due = 1
    BY <1>8, <2>1, <2>2 DEF Due
  <2>6. \A k \in DOMAIN dialogs' : dialogs'[k].number <= arrivals /\ \A i \in DOMAIN inbox' : dialogs'[k].number < inbox'[i].number
    <3> SUFFICES ASSUME NEW k \in DOMAIN dialogs'
                 PROVE  dialogs'[k].number <= arrivals /\ \A i \in DOMAIN inbox' : dialogs'[k].number < inbox'[i].number
      OBVIOUS
    <3>1. CASE k \in 1..Len(dialogs)
      BY <1>5, <2>1, <3>1 DEF GuiInv
    <3>2. CASE k = Len(dialogs) + 1
      BY <1>4, <1>5, <2>1, <3>2
    <3> QED BY <2>1, <3>1, <3>2
  <2>7. Waiting'
    BY <1>2, <1>5, <1>6, <1>8, <2>6 DEF Waiting
  <2>8. GuiTypes' /\ OneReport'
    BY <1>1, <1>2, <1>3, <1>8, <2>1 DEF GuiInv, GuiTypes, OneReport
  <2>9. backs + Due <= pings
    BY DEF GuiInv
  <2>10. (backs + Due <= pings)'
    BY <1>2, <1>8, <2>5, <2>9
  <2>11. (\A g \in Gauges : gauges[g] <= arrivals)'
    BY <1>2, <1>8 DEF GuiInv
  <2> QED BY <1>2, <2>4, <2>6, <2>7, <2>8, <2>10, <2>11 DEF GuiInv
<1>9. CASE Update(m) /\ UNCHANGED <<pinged_, dialogs>>
  <2>1. /\ gauges' \in [Gauges -> Nat] /\ OneReport' /\ backs' = backs
        /\ \A g \in Gauges : gauges'[g] \in {m.number, gauges[g], 0}
    BY <1>3, <1>4, <1>9, UpdateShows DEF GuiInv
  <2>2. \A g \in Gauges : gauges[g] \in Nat /\ gauges[g] <= arrivals
    BY <1>1 DEF GuiInv
  <2>3. \A g \in Gauges : gauges'[g] <= arrivals /\ \A i \in DOMAIN inbox' : gauges'[g] < inbox'[i].number
    <3> SUFFICES ASSUME NEW g \in Gauges
                 PROVE  gauges'[g] <= arrivals /\ \A i \in DOMAIN inbox' : gauges'[g] < inbox'[i].number
      OBVIOUS
    <3>1. gauges'[g] = m.number \/ gauges'[g] = gauges[g] \/ gauges'[g] = 0
      BY <2>1
    <3>2. gauges'[g] <= arrivals
      BY <1>1, <1>4, <2>2, <3>1
    <3>3. ASSUME NEW i \in DOMAIN inbox' PROVE gauges'[g] < inbox'[i].number
      <4>1. inbox'[i].number \in Nat /\ gauges[g] < inbox'[i].number /\ m.number < inbox'[i].number
        BY <1>5, <3>3
      <4> QED BY <1>4, <2>2, <3>1, <4>1
    <3> QED BY <3>2, <3>3
  <2>4. Waiting'
    BY <1>2, <1>5, <1>6, <1>9, <2>3 DEF Waiting
  <2>5. GuiTypes' /\ Nested' /\ Due' = Due
    BY <1>1, <1>2, <1>3, <1>9, <2>1 DEF GuiInv, GuiTypes, Nested, Due
  <2>6. (\A k \in DOMAIN dialogs : dialogs[k].number <= arrivals)'
    BY <1>2, <1>9 DEF GuiInv
  <2>7. backs + Due <= pings
    BY DEF GuiInv
  <2>8. (backs + Due <= pings)'
    BY <1>2, <2>1, <2>5, <2>7
  <2> QED BY <1>2, <2>1, <2>3, <2>4, <2>5, <2>6, <2>8 DEF GuiInv
<1> QED BY <1>2, <1>7, <1>8, <1>9 DEF Received

\* The message that the closed dialog held is the only one that may be older than
\* what is shown, and then its click of ping is no longer due.
LEMMA OkKeeps == ASSUME GuiInv, Ok PROVE GuiInv'
<1> DEFINE n == Len(dialogs)
<1>1. /\ arrivals \in Nat /\ pings \in Nat /\ backs \in Nat /\ pinged_ \in BOOLEAN
      /\ inbox \in Seq(Msg) /\ dialogs \in Seq(Msg) /\ gauges \in [Gauges -> Nat]
  BY DEF GuiInv, GuiTypes
<1>2. /\ dialogs # <<>> /\ dialogs' = SubSeq(dialogs, 1, n - 1)
      /\ IF dialogs[n] = NoMessage THEN UNCHANGED <<gauges, backs>> ELSE Update(dialogs[n])
      /\ UNCHANGED <<pinged_, inbox, arrivals, pings>>
  BY DEF Ok, Front, Last
<1>3. /\ n \in Nat /\ n >= 1 /\ DOMAIN dialogs = 1..n /\ dialogs[n] \in Msg /\ n \in DOMAIN dialogs
      /\ dialogs' \in Seq(Msg) /\ Len(dialogs') = n - 1 /\ DOMAIN dialogs' = 1..n - 1
      /\ \A k \in 1..n - 1 : dialogs'[k] = dialogs[k]
  <2>1. n \in Nat /\ n >= 1 /\ DOMAIN dialogs = 1..n
    BY <1>1, <1>2
  <2>2. dialogs[n] \in Msg /\ n \in DOMAIN dialogs
    BY <1>1, <2>1
  <2>3. /\ dialogs' \in Seq(Msg) /\ Len(dialogs') = n - 1 /\ DOMAIN dialogs' = 1..n - 1
        /\ \A k \in 1..n - 1 : dialogs'[k] = dialogs[k]
    BY <1>1, <1>2, <2>1
  <2> QED BY <2>1, <2>2, <2>3
<1>4. \A k \in 1..n - 1 : dialogs[k] = NoMessage /\ k = 1 /\ k \in DOMAIN dialogs
  <2> SUFFICES ASSUME NEW k \in 1..n - 1 PROVE dialogs[k] = NoMessage /\ k = 1 /\ k \in DOMAIN dialogs
    OBVIOUS
  <2>1. k \in DOMAIN dialogs /\ k # n
    <3>1. n \in Nat /\ DOMAIN dialogs = 1..n
      BY <1>3
    <3> HIDE DEF n
    <3> QED BY <3>1
  <2> QED BY <2>1 DEF GuiInv, Nested
<1>5. /\ n - 1 = 0 => dialogs' = <<>>
      /\ dialogs' # <<>> => n - 1 \in 1..n - 1 /\ dialogs'[Len(dialogs')] = NoMessage
  BY <1>3, <1>4
<1> DEFINE m == dialogs[n]
<1> HIDE DEF n, m
<1>6. Due' = IF pinged_ THEN 1 ELSE 0
  BY <1>2, <1>5 DEF Due
<1>7. Nested'
  BY <1>2, <1>3, <1>4 DEF Nested
<1>8. (\A k \in DOMAIN dialogs : dialogs[k].number <= arrivals)'
  BY <1>2, <1>3, <1>4 DEF GuiInv
<1>9. ASSUME NEW i \in DOMAIN inbox
      PROVE  /\ inbox[i].number \in Nat /\ inbox[i].number <= arrivals
             /\ \A j \in 1..i - 1 : inbox[j].number < inbox[i].number
             /\ \A k \in DOMAIN dialogs' : dialogs'[k].number < inbox[i].number
             /\ m.number < inbox[i].number
             /\ \A g \in Gauges : gauges[g] < inbox[i].number
  <2>1. inbox[i] \in Msg
    BY <1>1, <1>9
  <2>2. inbox[i].number \in Nat
    BY <2>1 DEF Msg
  <2> QED BY <1>3, <1>4, <1>9, <2>2 DEF GuiInv, Waiting, m
<1>10. backs + Due <= pings
  BY DEF GuiInv
<1>11. CASE dialogs[n] = NoMessage
  <2>1. UNCHANGED <<gauges, backs>>
    BY <1>2, <1>11
  <2>2. Due = Due'
    BY <1>6, <1>11 DEF Due, n
  <2>3. GuiTypes' /\ OneReport'
    BY <1>1, <1>2, <1>3, <2>1 DEF GuiInv, GuiTypes, OneReport
  <2>4. Waiting'
    BY <1>2, <1>9, <2>1 DEF Waiting
  <2>5. (backs + Due <= pings)'
    BY <1>2, <1>10, <2>1, <2>2
  <2>6. (\A g \in Gauges : gauges[g] <= arrivals)'
    BY <1>2, <2>1 DEF GuiInv
  <2> QED BY <1>7, <1>8, <2>3, <2>4, <2>5, <2>6 DEF GuiInv
<1>12. CASE dialogs[n] # NoMessage
  <2>1. m \in Msg /\ Update(m)
    BY <1>2, <1>3, <1>12 DEF m
  <2>2. /\ gauges' \in [Gauges -> Nat] /\ OneReport' /\ (backs' = backs \/ backs' = backs + 1)
        /\ \A g \in Gauges : gauges'[g] \in {m.number, gauges[g], 0}
    BY <2>1, UpdateShows DEF GuiInv
  <2>3. Due = 1 /\ Due' = 0
    <3>1. ~pinged_
      BY <1>3, <1>12 DEF GuiInv, Nested
    <3>2. Due = 1
      BY <1>2, <1>12 DEF Due, n
    <3> QED BY <1>6, <3>1, <3>2
  <2>4. m.number \in Nat /\ m.number <= arrivals
    BY <1>3, <2>1 DEF GuiInv, Msg, m
  <2>5. GuiTypes'
    BY <1>1, <1>2, <1>3, <2>2 DEF GuiTypes
  <2>6. ASSUME NEW g \in Gauges
        PROVE  gauges'[g] <= arrivals /\ \A i \in DOMAIN inbox : gauges'[g] < inbox[i].number
    <3>1. gauges'[g] = m.number \/ gauges'[g] = gauges[g] \/ gauges'[g] = 0
      BY <2>2
    <3>2. gauges[g] \in Nat /\ gauges[g] <= arrivals
      BY <1>1 DEF GuiInv
    <3>3. gauges'[g] <= arrivals
      BY <1>1, <2>4, <3>1, <3>2
    <3>4. ASSUME NEW i \in DOMAIN inbox PROVE gauges'[g] < inbox[i].number
      <4>1. inbox[i].number \in Nat /\ gauges[g] < inbox[i].number /\ m.number < inbox[i].number
        BY <1>9, <3>4
      <4> QED BY <2>4, <3>1, <3>2, <4>1
    <3> QED BY <3>3, <3>4
  <2>7. Waiting'
    BY <1>2, <1>9, <2>6 DEF Waiting
  <2>8. (backs + Due <= pings)'
    <3>1. backs + 1 <= pings
      BY <1>10, <2>3
    <3>2. backs' + 0 <= pings
      BY <1>1, <2>2, <3>1
    <3> QED BY <1>2, <2>3, <3>2
  <2>9. (\A g \in Gauges : gauges[g] <= arrivals)'
    BY <1>2, <2>6
  <2> QED BY <1>7, <1>8, <2>2, <2>5, <2>7, <2>8, <2>9 DEF GuiInv
<1> QED BY <1>11, <1>12

\* The dialog of the thresholds opens where there is none.
LEMMA ThresholdsKeep == ASSUME GuiInv, ThresholdsAtMinimum PROVE GuiInv'
<1>1. /\ arrivals \in Nat /\ pings \in Nat /\ backs \in Nat /\ pinged_ \in BOOLEAN
      /\ inbox \in Seq(Msg) /\ gauges \in [Gauges -> Nat]
  BY DEF GuiInv, GuiTypes
<1>2. /\ dialogs = <<>> /\ dialogs' = <<NoMessage>> /\ arrivals' = arrivals + 1
      /\ UNCHANGED <<pinged_, inbox, gauges, pings, backs>>
  BY DEF ThresholdsAtMinimum, Clicks
<1>3. NoMessage \in Msg /\ NoMessage.number = 0
  BY DEF NoMessage, Msg
<1>4. /\ GuiTypes' /\ Nested' /\ OneReport' /\ Due' = Due
  <2>1. dialogs' \in Seq(Msg) /\ Len(dialogs') = 1 /\ DOMAIN dialogs' = {1} /\ dialogs'[1] = NoMessage
    BY <1>2, <1>3
  <2>2. GuiTypes'
    BY <1>1, <1>2, <2>1 DEF GuiTypes
  <2>3. Nested'
    BY <2>1 DEF Nested
  <2>4. Due' = Due
    BY <1>2, <2>1 DEF Due
  <2> QED BY <1>2, <2>2, <2>3, <2>4 DEF GuiInv, OneReport
<1>5. \A g \in Gauges : gauges[g] \in Nat /\ gauges[g] <= arrivals
  BY <1>1 DEF GuiInv
<1>6. Waiting'
  <2> SUFFICES ASSUME NEW i \in DOMAIN inbox
               PROVE  /\ inbox[i].number <= arrivals'
                      /\ \A g \in Gauges : gauges[g] < inbox[i].number
                      /\ \A j \in 1..i - 1 : inbox[j].number < inbox[i].number
                      /\ \A k \in {1} : NoMessage.number < inbox[i].number
    BY <1>2 DEF Waiting
  <2>1. inbox[i] \in Msg
    BY <1>1
  <2>2. inbox[i].number \in Nat /\ inbox[i].number <= arrivals /\ gauges["temperature"] < inbox[i].number
    BY <2>1 DEF GuiInv, Waiting, Msg, Gauges, Sensors
  <2>3. gauges["temperature"] \in Nat
    BY <1>5 DEF Gauges, Sensors
  <2>4. inbox[i].number > 0
    BY <2>2, <2>3
  <2>5. inbox[i].number <= arrivals'
    BY <1>1, <1>2, <2>2
  <2> QED BY <1>3, <2>4, <2>5 DEF GuiInv, Waiting
<1>7. (\A g \in Gauges : gauges[g] <= arrivals)'
  BY <1>1, <1>2, <1>5
<1>8. (\A k \in DOMAIN dialogs : dialogs[k].number <= arrivals)'
  BY <1>1, <1>2, <1>3
<1>9. (backs + Due <= pings)'
  BY <1>2, <1>4 DEF GuiInv
<1> QED BY <1>4, <1>6, <1>7, <1>8, <1>9 DEF GuiInv

LEMMA GuiStep == GuiInv /\ [GuiNext]_guiVars => GuiInv'
<1> SUFFICES ASSUME GuiInv, [GuiNext]_guiVars PROVE GuiInv'
  OBVIOUS
<1>1. /\ Message({}) \in Msg /\ Message({}).number = arrivals + 1
      /\ \A m \in {Message(fs) : fs \in Payloads} \cup {Text} : m \in Msg /\ m.number = arrivals + 1
  <2>1. arrivals + 1 \in Nat
    BY DEF GuiInv, GuiTypes
  <2>2. Payloads \subseteq SUBSET Gauges
    BY GuiAssumption
  <2>3. \A fs \in SUBSET Gauges : Message(fs) \in Msg /\ Message(fs).number = arrivals + 1
    BY <2>1 DEF Message, Msg
  <2>4. Text \in Msg /\ Text.number = arrivals + 1
    BY <2>1 DEF Text, Msg
  <2>5. {} \in SUBSET Gauges /\ \A fs \in Payloads : fs \in SUBSET Gauges
    BY <2>2
  <2> QED BY <2>3, <2>4, <2>5
<1>2. CASE on_connectButton_clicked \/ onMQTT_Connected \/ Drops \/ UNCHANGED guiVars
  BY <1>2, ArrivalKeeps DEF on_connectButton_clicked, onMQTT_Connected, Drops, guiVars
<1>3. CASE on_pingButton_clicked
  BY <1>1, <1>3, ArrivalKeeps DEF on_pingButton_clicked, SendMessage, Clicks
<1>4. CASE Command
  BY <1>1, <1>4, ArrivalKeeps DEF Command, SendMessage, Clicks
<1>5. CASE Published
  BY <1>1, <1>5, ArrivalKeeps DEF Published
<1> QED BY <1>2, <1>3, <1>4, <1>5, ReceivedKeeps, OkKeeps, ThresholdsKeep DEF GuiNext

LEMMA GuiStarts == GuiInit => GuiInv
<1> SUFFICES ASSUME GuiInit PROVE GuiInv
  OBVIOUS
<1>1. GuiTypes /\ Due = 0
  <2>1. inbox \in Seq(Msg) /\ dialogs \in Seq(Msg) /\ gauges \in [Gauges -> Nat]
    BY DEF GuiInit
  <2>2. Due = 0
    BY DEF GuiInit, Due
  <2> QED BY <2>1, <2>2 DEF GuiInit, GuiTypes
<1>2. Waiting /\ Nested /\ OneReport
  BY DEF GuiInit, Waiting, Nested, OneReport, Gauges
<1> QED BY <1>1, <1>2 DEF GuiInit, GuiInv

\* The gauges of the three sensors never mix two messages, whatever fields the
\* messages lack and wherever a dialog interrupts the handler.
THEOREM GaugesShowOneReport == GuiSpec => []OneReport
<1>1. GuiInv => OneReport
  BY DEF GuiInv
<1> QED BY <1>1, GuiStarts, GuiStep, PTL DEF GuiSpec

\* An older message is shown after a later one at most once for each click of
\* ping, however many come while its dialog is open, and whatever other dialog is.
THEOREM GoesBackForPings == GuiSpec => []BackOnlyForPing
<1>1. GuiInv => BackOnlyForPing
  BY DEF GuiInv, GuiTypes, Due, BackOnlyForPing
<1> QED BY <1>1, GuiStarts, GuiStep, PTL DEF GuiSpec

-----------------------------------------------------------------------------
(* Messages of quality 2.                                                  *)

Packet == {"PUBLISH", "PUBREC", "PUBREL", "PUBCOMP"} \X Nat

\* A packet is on its way; an identifier is listed.
Has(wire, type, id) == \E i \in DOMAIN wire : wire[i] = <<type, id>>
Listed(ids, id) == \E i \in DOMAIN ids : ids[i] = id

\* No packet of the type is on its way twice.
Single(wire, type) == \A i, j \in DOMAIN wire : wire[i] = wire[j] /\ wire[i][1] = type => i = j

AnyStore == [id_vec : [0..MAX_PUBREL_INFLT - 1 -> Nat], n_free : Int, rd_idx : Int, wr_idx : Int]
StoreOK == qos2_tx_cq \in AnyStore

WiresOK ==
    /\ up \in Seq(Packet) /\ down \in Seq(Packet) /\ qos_ack1_wl \in Seq(Nat)
    /\ brokerPub \in Seq(Nat) /\ brokerRel \in Seq(Nat)
    /\ published \in Nat /\ brokerNext \in Nat /\ passedOn \in [QosIds -> Nat] /\ StoreOK

Waits(id) == Listed(qos_ack1_wl, id)

\* What waits for PUBREC, and what has got it, and their packets.
SendOK ==
    /\ \A id \in Nat : Waits(id) => 0 < id /\ id <= published
    /\ \A i, j \in DOMAIN qos_ack1_wl : qos_ack1_wl[i] = qos_ack1_wl[j] => i = j
    /\ \A id \in Nat : Has(up, "PUBLISH", id) => Waits(id) /\ ~Has(down, "PUBREC", id)
    /\ Single(up, "PUBLISH")
    /\ \A id \in Nat : Has(down, "PUBREC", id) => id <= published
    /\ \A id \in Nat : Has(up, "PUBREL", id) => id <= published /\ ~Waits(id)
    /\ \A k \in 0..MAX_PUBREL_INFLT - 1 : qos2_tx_cq.id_vec[k] <= published /\ ~Waits(qos2_tx_cq.id_vec[k])

\* The broker holds what it has passed on, as long as it may be sent again.
HeldOK ==
    \A id \in QosIds : /\ passedOn[id] <= 1
                       /\ passedOn[id] > 0 => id <= published
                       /\ Waits(id) => passedOn[id] = 0 \/ id \in brokerHeld

OnceInv == WiresOK /\ SendOK /\ HeldOK

LEMMA WireTail ==
    ASSUME NEW wire \in Seq(Packet), wire # <<>>
    PROVE  /\ Tail(wire) \in Seq(Packet) /\ 1 \in DOMAIN wire /\ Head(wire) = wire[1]
           /\ \A i \in DOMAIN Tail(wire) : i + 1 \in DOMAIN wire /\ i + 1 # 1 /\ Tail(wire)[i] = wire[i + 1]
           /\ \A i, j \in DOMAIN Tail(wire) : i + 1 = j + 1 => i = j
OBVIOUS

LEMMA WireAppend ==
    ASSUME NEW wire \in Seq(Packet), NEW p \in Packet
    PROVE  /\ Append(wire, p) \in Seq(Packet)
           /\ DOMAIN Append(wire, p) = DOMAIN wire \cup {Len(wire) + 1} /\ Len(wire) + 1 \notin DOMAIN wire
           /\ Append(wire, p)[Len(wire) + 1] = p
           /\ \A i \in DOMAIN wire : Append(wire, p)[i] = wire[i]
OBVIOUS

LEMMA WithoutType ==
    ASSUME NEW ids \in Seq(Nat), NEW id \in Nat
    PROVE  Without(ids, id) \in Seq(Nat)
<1>1. CASE \E i \in DOMAIN ids : ids[i] = id
  <2> DEFINE k == CHOOSE i \in DOMAIN ids : ids[i] = id
  <2>1. k \in 1..Len(ids)
    BY <1>1
  <2> HIDE DEF k
  <2>2. SubSeq(ids, 1, k - 1) \o SubSeq(ids, k + 1, Len(ids)) \in Seq(Nat)
    BY <2>1, Cut, Zenon
  <2>3. Without(ids, id) = SubSeq(ids, 1, k - 1) \o SubSeq(ids, k + 1, Len(ids))
    BY <1>1, Zenon DEF Without, k
  <2> QED BY <2>2, <2>3, Zenon
<1>2. CASE ~\E i \in DOMAIN ids : ids[i] = id
  BY <1>2, Zenon DEF Without
<1> QED BY <1>1, <1>2, Zenon

LEMMA PacketsType ==
    ASSUME NEW ids \in Seq(Nat), NEW type \in {"PUBLISH", "PUBREC", "PUBREL", "PUBCOMP"}
    PROVE  /\ Packets(type, ids) \in Seq(Packet) /\ Len(Packets(type, ids)) = Len(ids)
           /\ \A i \in DOMAIN ids : Packets(type, ids)[i] = <<type, ids[i]>>
<1>1. DOMAIN ids = 1..Len(ids) /\ Len(ids) \in Nat /\ \A i \in 1..Len(ids) : ids[i] \in Nat
  OBVIOUS
<1> DEFINE p == [i \in 1..Len(ids) |-> <<type, ids[i]>>]
<1>2. Packets(type, ids) = p
  BY <1>1 DEF Packets
<1>3. \A i \in 1..Len(ids) : <<type, ids[i]>> \in Packet
  BY <1>1 DEF Packet
<1>4. p \in Seq(Packet) /\ Len(p) = Len(ids)
  BY <1>1, <1>3
<1> QED BY <1>1, <1>2, <1>4

\* What ack2_msg_id_dispatch sends is in the store, or nothing.
LEMMA DispatchedIds ==
    ASSUME StoreOK
    PROVE  /\ Dispatched \in Seq(Nat)
           /\ \A i \in DOMAIN Dispatched : Dispatched[i] = 0 \/ \E k \in 0..MAX_PUBREL_INFLT - 1 : Dispatched[i] = qos2_tx_cq.id_vec[k]
<1> DEFINE cq == qos2_tx_cq
           n == IF cq.rd_idx < CqCount(cq) THEN CqCount(cq) - cq.rd_idx ELSE 0
           At(k) == IdAt(cq, cq.rd_idx + k - 1)
           d == [k \in 1..n |-> At(k)]
<1>1. n \in Nat
  BY QoS2Assumption DEF StoreOK, AnyStore, CqCount
<1>2. Dispatched = d
  BY Zenon DEF Dispatched
<1>3. \A i \in Int : IdAt(cq, i) = 0 \/ \E k \in 0..MAX_PUBREL_INFLT - 1 : IdAt(cq, i) = cq.id_vec[k]
  BY DEF IdAt, StoreOK, AnyStore
<1>4. \A k \in 1..n : cq.rd_idx + k - 1 \in Int
  BY <1>1 DEF StoreOK, AnyStore
<1>5. \A k \in 0..MAX_PUBREL_INFLT - 1 : cq.id_vec[k] \in Nat
  BY DEF StoreOK, AnyStore
<1>6. \A k \in 1..n : At(k) \in Nat /\ (At(k) = 0 \/ \E l \in 0..MAX_PUBREL_INFLT - 1 : At(k) = cq.id_vec[l])
  BY <1>3, <1>4, <1>5
<1> HIDE DEF n, At
<1>7. d \in Seq(Nat) /\ DOMAIN d = 1..n /\ \A k \in 1..n : d[k] = At(k)
  BY <1>1, <1>6
<1> HIDE DEF d
<1> QED BY <1>2, <1>6, <1>7

\* The stores after a step.
LEMMA StoreAfter ==
    ASSUME StoreOK, NEW id \in Nat
    PROVE  LET S == AnyStore IN
           /\ Reset \in S /\ \A k \in 0..MAX_PUBREL_INFLT - 1 : Reset.id_vec[k] = 0
           /\ Unlog(qos2_tx_cq, id) \in S /\ Unlog(qos2_tx_cq, id).id_vec = qos2_tx_cq.id_vec
           /\ LogUp(qos2_tx_cq, id) \in S
           /\ \A k \in 0..MAX_PUBREL_INFLT - 1 :
                  LogUp(qos2_tx_cq, id).id_vec[k] \in {id, qos2_tx_cq.id_vec[k]}
<1>1. MAX_PUBREL_INFLT \in Int /\ \A i \in Int : Masked(i) \in Int
  BY QoS2Assumption DEF Masked
<1>2. qos2_tx_cq.rd_idx + 1 \in Int /\ qos2_tx_cq.wr_idx + 1 \in Int /\ qos2_tx_cq.n_free + 1 \in Int /\ qos2_tx_cq.n_free - 1 \in Int
  BY DEF StoreOK, AnyStore
<1>3. Masked(qos2_tx_cq.rd_idx + 1) \in Int /\ Masked(qos2_tx_cq.wr_idx + 1) \in Int
  BY <1>1, <1>2
<1>4. qos2_tx_cq.id_vec \in [0..MAX_PUBREL_INFLT - 1 -> Nat]
  BY DEF StoreOK, AnyStore
<1> DEFINE cq == qos2_tx_cq
           S == AnyStore
<1>5. cq \in S
  BY DEF StoreOK, AnyStore
<1>6. Reset \in S /\ \A k \in 0..MAX_PUBREL_INFLT - 1 : Reset.id_vec[k] = 0
  BY <1>1 DEF Reset, AnyStore
<1>7. Unlog(cq, id) \in S /\ Unlog(cq, id).id_vec = cq.id_vec
  <2> HIDE DEF cq
  <2> QED BY <1>2, <1>3, <1>5 DEF Unlog, cq, AnyStore
<1> DEFINE vec == [cq.id_vec EXCEPT ![cq.wr_idx] = id]
<1>8. vec \in [0..MAX_PUBREL_INFLT - 1 -> Nat] /\ \A k \in 0..MAX_PUBREL_INFLT - 1 : vec[k] \in {id, cq.id_vec[k]}
  BY <1>4
<1>9. LogUp(cq, id) = [cq EXCEPT !.id_vec = vec, !.wr_idx = Masked(cq.wr_idx + 1), !.n_free = cq.n_free - 1]
  BY <1>5 DEF LogUp, AnyStore
<1>10. LogUp(cq, id) \in S /\ LogUp(cq, id).id_vec = vec
  <2> HIDE DEF vec, cq
  <2> QED BY <1>2, <1>3, <1>5, <1>8, <1>9 DEF cq, AnyStore
<1> QED BY <1>6, <1>7, <1>8, <1>10, Zenon

LEMMA WiresNext == WiresOK /\ [QosNext]_qosVars => WiresOK'
<1> SUFFICES ASSUME WiresOK, [QosNext]_qosVars PROVE WiresOK'
  OBVIOUS
<1> USE DEF WiresOK
<1>a. QosIds \subseteq Nat
  BY QoS2Assumption DEF QosIds
<1>b. \A type \in {"PUBLISH", "PUBREC", "PUBREL", "PUBCOMP"}, id \in Nat : <<type, id>> \in Packet
  BY DEF Packet
<1>c. \A wire \in Seq(Packet) : wire # <<>> => Tail(wire) \in Seq(Packet)
  OBVIOUS
<1>d. <<>> \in Seq(Packet) /\ <<>> \in Seq(Nat)
  OBVIOUS
<1>e. Reset \in AnyStore
  BY StoreAfter
<1>f. ASSUME DoNetClose PROVE WiresOK'
  BY <1>d, <1>e, <1>f DEF DoNetClose, SessionDelete, stores, brokerVars, StoreOK
<1>1. CASE Publish
  <2>1. <<"PUBLISH", published'>> \in Packet
    BY <1>1, <1>b DEF Publish
  <2> QED BY <1>1, <2>1 DEF Publish, brokerVars, StoreOK
<1>2. ASSUME NEW id \in QosIds, ProcPubRecRx(id) PROVE WiresOK'
  <2>1. CASE Rejects
    BY <2>1, <1>f DEF Rejects
  <2>2. CASE ~Rejects
    <3>1. /\ down # <<>> /\ qos_ack1_wl # <<>>
          /\ qos_ack1_wl' = Tail(qos_ack1_wl) /\ qos2_tx_cq' = LogUp(qos2_tx_cq, id)
          /\ up' = Append(up, <<"PUBREL", id>>) /\ down' = Tail(down)
          /\ UNCHANGED <<published, brokerVars, passedOn>>
      BY <1>2, <2>2 DEF ProcPubRecRx, Answers, Keeps, Arrives
    <3>2. <<"PUBREL", id>> \in Packet /\ id \in Nat
      BY <1>a, <1>b
    <3>3. StoreOK'
      BY <3>1, <3>2, StoreAfter DEF StoreOK
    <3> QED BY <1>c, <3>1, <3>2, <3>3 DEF brokerVars
  <2> QED BY <2>1, <2>2
<1>3. ASSUME NEW id \in QosIds, Ack2MsgIdUnlog(id) PROVE WiresOK'
  <2>1. CASE Rejects
    BY <2>1, <1>f DEF Rejects
  <2>2. CASE ~Rejects
    <3>1. /\ down # <<>> /\ qos2_tx_cq' = Unlog(qos2_tx_cq, id)
          /\ \/ down' = Tail(down) /\ up' = up
             \/ down' = <<>> /\ up' = <<>>
          /\ UNCHANGED <<qos_ack1_wl, published, brokerVars, passedOn>>
      BY <1>3, <2>2 DEF Ack2MsgIdUnlog, Arrives, Keeps
    <3>2. StoreOK'
      BY <1>a, <3>1, StoreAfter DEF StoreOK
    <3> QED BY <1>c, <1>d, <3>1, <3>2 DEF brokerVars
  <2> QED BY <2>1, <2>2
<1>4. ASSUME NEW id \in QosIds, ProcPubRx(id) PROVE WiresOK'
  <2>1. CASE Rejects
    BY <2>1, <1>f DEF Rejects
  <2>2. CASE ~Rejects
    <3>1. /\ down # <<>> /\ down' = Tail(down) /\ (up' = up \/ up' = Append(up, <<"PUBREC", id>>))
          /\ UNCHANGED <<qos_ack1_wl, qos2_tx_cq, published, brokerVars, passedOn>>
      BY <1>4, <2>2 DEF ProcPubRx, Arrives, Keeps, Answers, stores
    <3>2. <<"PUBREC", id>> \in Packet
      BY <1>a, <1>b
    <3>3. Append(up, <<"PUBREC", id>>) \in Seq(Packet) /\ Tail(down) \in Seq(Packet)
      BY <1>c, <3>1, <3>2, WireAppend
    <3>4. up' \in Seq(Packet) /\ down' \in Seq(Packet)
      BY <3>1, <3>3
    <3> QED BY <3>1, <3>4 DEF brokerVars, StoreOK
  <2> QED BY <2>1, <2>2
<1>5. ASSUME NEW id \in QosIds, ProcPubRelRx(id) PROVE WiresOK'
  <2>1. <<"PUBCOMP", id>> \in Packet
    BY <1>a, <1>b
  <2> QED BY <1>5, <1>c, <2>1 DEF ProcPubRelRx, Arrives, Keeps, Answers, brokerVars, StoreOK
<1>6. CASE BrokerReceives
  <2>1. PICK id \in QosIds :
          /\ \E type \in {"PUBLISH", "PUBREC", "PUBREL", "PUBCOMP"} : BrokerGets(type, id)
          /\ \/ down' = down
             \/ \E type \in {"PUBREC", "PUBREL", "PUBCOMP"} : Says(type, id)
          /\ brokerPub' \in {brokerPub, Without(brokerPub, id)}
          /\ brokerRel' \in {brokerRel, Without(brokerRel, id), Append(brokerRel, id)}
          /\ brokerNext' = brokerNext
          /\ passedOn' = passedOn \/ passedOn' = [passedOn EXCEPT ![id] = @ + 1]
    BY <1>6 DEF BrokerReceives
  <2>2. id \in Nat /\ Without(brokerPub, id) \in Seq(Nat) /\ Without(brokerRel, id) \in Seq(Nat) /\ Append(brokerRel, id) \in Seq(Nat)
    BY <1>a, WithoutType
  <2>3. up' \in Seq(Packet) /\ UNCHANGED <<qos_ack1_wl, qos2_tx_cq, published>>
    BY <1>c, <2>1 DEF BrokerGets, stores
  <2>4. down' \in Seq(Packet)
    <3>1. CASE down' = down
      BY <3>1
    <3>2. ASSUME NEW type \in {"PUBREC", "PUBREL", "PUBCOMP"}, Says(type, id) PROVE down' \in Seq(Packet)
      <4>1. <<type, id>> \in Packet
        BY <1>b, <2>2
      <4> QED BY <3>2, <4>1 DEF Says
    <3> QED BY <2>1, <3>1, <3>2
  <2>5. passedOn' \in [QosIds -> Nat]
    <3>1. passedOn[id] + 1 \in Nat
      OBVIOUS
    <3> QED BY <2>1, <3>1
  <2> QED BY <2>1, <2>2, <2>3, <2>4, <2>5 DEF StoreOK
<1>7. CASE BrokerPublish
  <2>1. <<"PUBLISH", brokerNext'>> \in Packet
    BY <1>7, <1>b DEF BrokerPublish
  <2> QED BY <1>7, <2>1 DEF BrokerPublish, Says, stores, StoreOK
<1>8. CASE Lose
  BY <1>8, <1>f DEF Lose
<1>9. CASE ProcConnackRx
  <2>1. CASE is_cln_session
    BY <1>9, <1>d, <1>e, <2>1 DEF ProcConnackRx, SessionDelete, StoreOK
  <2>2. CASE ~is_cln_session
    <3>1. /\ up' = Packets("PUBLISH", qos_ack1_wl) \o Packets("PUBREL", Dispatched)
          /\ down' = Packets("PUBREL", brokerRel) \o Packets("PUBLISH", brokerPub)
          /\ UNCHANGED <<stores, brokerVars, published, passedOn>>
      BY <1>9, <2>2 DEF ProcConnackRx
    <3>2. /\ Packets("PUBLISH", qos_ack1_wl) \in Seq(Packet) /\ Packets("PUBREL", Dispatched) \in Seq(Packet)
          /\ Packets("PUBREL", brokerRel) \in Seq(Packet) /\ Packets("PUBLISH", brokerPub) \in Seq(Packet)
      BY PacketsType, DispatchedIds
    <3>3. up' \in Seq(Packet) /\ down' \in Seq(Packet)
      BY <3>1, <3>2, Joined, Zenon
    <3> QED BY <3>1, <3>3 DEF stores, brokerVars, StoreOK
  <2> QED BY <2>1, <2>2
<1>10. CASE UNCHANGED qosVars
  BY <1>10 DEF qosVars, stores, brokerVars, StoreOK
<1> QED BY <1>1, <1>2, <1>3, <1>4, <1>5, <1>6, <1>7, <1>8, <1>9, <1>10 DEF QosNext, ClientReceives

LEMMA HasTail ==
    ASSUME NEW wire \in Seq(Packet), wire # <<>>, NEW type, NEW id
    PROVE  /\ Has(Tail(wire), type, id) => Has(wire, type, id)
           /\ Single(wire, type) => Single(Tail(wire), type)
           /\ Single(wire, type) /\ Head(wire) = <<type, id>> => ~Has(Tail(wire), type, id)
           /\ Head(wire) = <<type, id>> => Has(wire, type, id)
<1>1. ASSUME Has(Tail(wire), type, id) PROVE Has(wire, type, id)
  <2>1. PICK i \in DOMAIN Tail(wire) : Tail(wire)[i] = <<type, id>>
    BY <1>1, Zenon DEF Has
  <2>2. i + 1 \in DOMAIN wire /\ wire[i + 1] = <<type, id>>
    BY <2>1, WireTail, Zenon
  <2> QED BY <2>2, Zenon DEF Has
<1>2. Head(wire) = <<type, id>> => Has(wire, type, id)
  BY WireTail, Zenon DEF Has
<1>3. ASSUME Single(wire, type) PROVE Single(Tail(wire), type)
  <2> SUFFICES ASSUME NEW i \in DOMAIN Tail(wire), NEW j \in DOMAIN Tail(wire),
                      Tail(wire)[i] = Tail(wire)[j], Tail(wire)[i][1] = type
               PROVE  i = j
    BY Zenon DEF Single
  <2>1. i + 1 \in DOMAIN wire /\ j + 1 \in DOMAIN wire /\ wire[i + 1] = wire[j + 1] /\ wire[i + 1][1] = type
    BY WireTail, Zenon
  <2>2. i + 1 = j + 1
    BY <1>3, <2>1, Zenon DEF Single
  <2> QED BY <2>2, WireTail, Zenon
<1>4. ASSUME Single(wire, type), Head(wire) = <<type, id>>, Has(Tail(wire), type, id) PROVE FALSE
  <2>1. PICK i \in DOMAIN Tail(wire) : Tail(wire)[i] = <<type, id>>
    BY <1>4, Zenon DEF Has
  <2>2. /\ i + 1 \in DOMAIN wire /\ i + 1 # 1 /\ wire[i + 1] = <<type, id>>
        /\ 1 \in DOMAIN wire /\ wire[1] = <<type, id>>
    BY <1>4, <2>1, WireTail, Zenon
  <2>3. <<type, id>>[1] = type
    OBVIOUS
  <2>4. i + 1 = 1
    BY <1>4, <2>2, <2>3, Zenon DEF Single
  <2> QED BY <2>2, <2>4, Zenon
<1> QED BY <1>1, <1>2, <1>3, <1>4

LEMMA HasAppend ==
    ASSUME NEW wire \in Seq(Packet), NEW p \in Packet, NEW type, NEW id
    PROVE  /\ Has(Append(wire, p), type, id) <=> Has(wire, type, id) \/ p = <<type, id>>
           /\ Single(wire, type) /\ p[1] # type => Single(Append(wire, p), type)
           /\ Single(wire, type) /\ p = <<type, id>> /\ ~Has(wire, type, id) => Single(Append(wire, p), type)
<1> DEFINE w == Append(wire, p)
           n == Len(wire) + 1
<1>1. /\ DOMAIN w = DOMAIN wire \cup {n} /\ n \notin DOMAIN wire
      /\ w[n] = p /\ \A i \in DOMAIN wire : w[i] = wire[i]
  BY WireAppend
<1>2. <<type, id>>[1] = type
  OBVIOUS
<1> HIDE DEF w, n
<1>3. Has(w, type, id) <=> Has(wire, type, id) \/ p = <<type, id>>
  BY <1>1, Zenon DEF Has
<1>4. ASSUME Single(wire, type), p[1] # type PROVE Single(w, type)
  BY <1>1, <1>4, Zenon DEF Single
<1>5. ASSUME Single(wire, type), p = <<type, id>>, ~Has(wire, type, id) PROVE Single(w, type)
  BY <1>1, <1>5, Zenon DEF Single, Has
<1> QED BY <1>3, <1>4, <1>5 DEF w

LEMMA NumberAppend ==
    ASSUME NEW ids \in Seq(Nat), NEW id \in Nat
    PROVE  /\ DOMAIN Append(ids, id) = DOMAIN ids \cup {Len(ids) + 1}
           /\ Append(ids, id)[Len(ids) + 1] = id /\ \A i \in DOMAIN ids : Append(ids, id)[i] = ids[i]
OBVIOUS

LEMMA ListedAppend ==
    ASSUME NEW ids \in Seq(Nat), NEW id \in Nat, NEW x
    PROVE  Listed(Append(ids, id), x) <=> Listed(ids, x) \/ x = id
<1> DEFINE w == Append(ids, id)
<1>1. DOMAIN w = DOMAIN ids \cup {Len(ids) + 1} /\ w[Len(ids) + 1] = id /\ \A i \in DOMAIN ids : w[i] = ids[i]
  BY NumberAppend
<1> HIDE DEF w
<1>2. Listed(w, x) <=> Listed(ids, x) \/ x = id
  BY <1>1, Zenon DEF Listed
<1> QED BY <1>2 DEF w

LEMMA ListedTail ==
    ASSUME NEW ids \in Seq(Nat), ids # <<>>,
           \A i, j \in DOMAIN ids : ids[i] = ids[j] => i = j
    PROVE  /\ \A x : Listed(Tail(ids), x) <=> Listed(ids, x) /\ x # Head(ids)
           /\ Listed(ids, Head(ids)) /\ Head(ids) \in Nat
           /\ \A i, j \in DOMAIN Tail(ids) : Tail(ids)[i] = Tail(ids)[j] => i = j
<1> DEFINE w == Tail(ids)
           h == Head(ids)
<1>1. /\ 1 \in DOMAIN ids /\ h = ids[1] /\ h \in Nat
      /\ \A i \in DOMAIN w : i + 1 \in DOMAIN ids /\ i + 1 # 1 /\ w[i] = ids[i + 1]
      /\ \A i \in DOMAIN ids : i = 1 \/ (i - 1 \in DOMAIN w /\ w[i - 1] = ids[i])
      /\ \A i, j \in DOMAIN w : i + 1 = j + 1 => i = j
  OBVIOUS
<1> HIDE DEF w, h
<1>2. ASSUME NEW x, Listed(w, x) PROVE Listed(ids, x) /\ x # h
  <2>1. PICK i \in DOMAIN w : w[i] = x
    BY <1>2, Zenon DEF Listed
  <2>2. i + 1 \in DOMAIN ids /\ ids[i + 1] = x /\ i + 1 # 1
    BY <1>1, <2>1, Zenon
  <2>3. x # h
    BY <1>1, <2>2, Zenon
  <2> QED BY <2>2, <2>3, Zenon DEF Listed
<1>3. ASSUME NEW x, Listed(ids, x), x # h PROVE Listed(w, x)
  <2>1. PICK i \in DOMAIN ids : ids[i] = x
    BY <1>3, Zenon DEF Listed
  <2>2. i - 1 \in DOMAIN w /\ w[i - 1] = x
    BY <1>1, <1>3, <2>1, Zenon
  <2> QED BY <2>2, Zenon DEF Listed
<1>4. \A i, j \in DOMAIN w : w[i] = w[j] => i = j
  <2> SUFFICES ASSUME NEW i \in DOMAIN w, NEW j \in DOMAIN w, w[i] = w[j] PROVE i = j
    BY Zenon
  <2>1. ids[i + 1] = ids[j + 1] /\ i + 1 \in DOMAIN ids /\ j + 1 \in DOMAIN ids
    BY <1>1, Zenon
  <2>2. i + 1 = j + 1
    BY <2>1, Zenon
  <2> QED BY <1>1, <2>2, Zenon
<1>5. Listed(ids, h) /\ h \in Nat
  BY <1>1, Zenon DEF Listed
<1> QED BY <1>2, <1>3, <1>4, <1>5, Zenon DEF w, h

LEMMA HasPackets ==
    ASSUME NEW a \in Seq(Nat), NEW b \in Seq(Nat),
           NEW ta \in {"PUBLISH", "PUBREC", "PUBREL", "PUBCOMP"},
           NEW tb \in {"PUBLISH", "PUBREC", "PUBREL", "PUBCOMP"}, NEW type, NEW id
    PROVE  LET w == Packets(ta, a) \o Packets(tb, b) IN
           /\ Has(w, type, id) => (type = ta /\ Listed(a, id)) \/ (type = tb /\ Listed(b, id))
           /\ (\A i, j \in DOMAIN a : a[i] = a[j] => i = j) /\ ta # tb => Single(w, ta)
<1> DEFINE p == Packets(ta, a)
           q == Packets(tb, b)
           w == p \o q
<1>1. /\ p \in Seq(Packet) /\ Len(p) = Len(a) /\ \A i \in DOMAIN a : p[i] = <<ta, a[i]>>
      /\ q \in Seq(Packet) /\ Len(q) = Len(b) /\ \A i \in DOMAIN b : q[i] = <<tb, b[i]>>
  BY PacketsType
<1>2. DOMAIN a = 1..Len(a) /\ DOMAIN b = 1..Len(b) /\ Len(a) \in Nat /\ Len(b) \in Nat
  OBVIOUS
<1> HIDE DEF p, q
<1>3. \A i \in DOMAIN w : (i \in DOMAIN a /\ w[i] = <<ta, a[i]>>) \/ (\E j \in DOMAIN b : w[i] = <<tb, b[j]>>)
  <2> SUFFICES ASSUME NEW i \in DOMAIN w PROVE (i \in DOMAIN a /\ w[i] = <<ta, a[i]>>) \/ (\E j \in DOMAIN b : w[i] = <<tb, b[j]>>)
    OBVIOUS
  <2>1. i \in 1..Len(p) + Len(q) /\ (i <= Len(p) => w[i] = p[i]) /\ (i > Len(p) => w[i] = q[i - Len(p)])
    BY <1>1
  <2>0. Len(p) \in Nat /\ Len(q) \in Nat
    BY <1>1, <1>2
  <2>2. CASE i <= Len(p)
    <3>1. i \in DOMAIN a
      BY <1>1, <1>2, <2>0, <2>1, <2>2
    <3> QED BY <1>1, <2>1, <2>2, <3>1
  <2>3. CASE i > Len(p)
    <3>1. i - Len(p) \in DOMAIN b
      BY <1>1, <1>2, <2>1, <2>3
    <3> QED BY <1>1, <2>1, <2>3, <3>1
  <2>4. i <= Len(p) \/ i > Len(p)
    BY <2>0, <2>1
  <2> QED BY <2>2, <2>3, <2>4, Zenon
<1> HIDE DEF w
<1>4. \A t, x : <<t, x>> = <<type, id>> => t = type /\ x = id
  OBVIOUS
<1>5. Has(w, type, id) => (type = ta /\ Listed(a, id)) \/ (type = tb /\ Listed(b, id))
  BY <1>3, <1>4, Zenon DEF Has, Listed
<1>6. ASSUME \A i, j \in DOMAIN a : a[i] = a[j] => i = j, ta # tb PROVE Single(w, ta)
  <2>1. \A t, x : <<t, x>>[1] = t /\ <<t, x>>[2] = x
    OBVIOUS
  <2>2. ASSUME NEW i \in DOMAIN w, w[i][1] = ta PROVE i \in DOMAIN a /\ w[i][2] = a[i]
    <3>1. CASE \E j \in DOMAIN b : w[i] = <<tb, b[j]>>
      <4>1. PICK j \in DOMAIN b : w[i] = <<tb, b[j]>>
        BY <3>1
      <4>2. w[i][1] = tb
        BY <2>1, <4>1
      <4> QED BY <1>6, <2>2, <4>2
    <3>2. CASE i \in DOMAIN a /\ w[i] = <<ta, a[i]>>
      BY <2>1, <3>2
    <3> QED BY <1>3, <3>1, <3>2, Zenon
  <2>3. ASSUME NEW i \in DOMAIN w, NEW j \in DOMAIN w, w[i] = w[j], w[i][1] = ta PROVE i = j
    <3>1. i \in DOMAIN a /\ j \in DOMAIN a /\ a[i] = a[j]
      BY <2>2, <2>3, Zenon
    <3> QED BY <1>6, <3>1, Zenon
  <2> QED BY <2>3, Zenon DEF Single
<1> QED BY <1>5, <1>6 DEF w, p, q

\* A step that neither publishes nor takes a PUBREC.
LEMMA PlainSend ==
    ASSUME WiresOK, SendOK, WiresOK',
           UNCHANGED <<qos_ack1_wl, published>>, qos2_tx_cq'.id_vec = qos2_tx_cq.id_vec,
           \A id \in Nat : Has(up', "PUBLISH", id) => Has(up, "PUBLISH", id),
           \A id \in Nat : Has(up', "PUBREL", id) => Has(up, "PUBREL", id),
           \A id \in Nat : Has(down', "PUBREC", id) => Has(down, "PUBREC", id),
           Single(up', "PUBLISH")
    PROVE  SendOK'
<1>1. \A id : Waits(id)' <=> Waits(id)
  BY DEF Waits
<1>2. \A i, j \in DOMAIN qos_ack1_wl' : qos_ack1_wl'[i] = qos_ack1_wl'[j] => i = j
  BY DEF SendOK
<1> QED BY <1>1, <1>2 DEF SendOK

\* The connection is closed, and the session ends or is kept.
LEMMA ClosedSend ==
    ASSUME WiresOK, SendOK, up' = <<>>, down' = <<>>, UNCHANGED published,
           \/ UNCHANGED qos_ack1_wl /\ qos2_tx_cq'.id_vec = qos2_tx_cq.id_vec
           \/ qos_ack1_wl' = <<>> /\ qos2_tx_cq' = Reset
    PROVE  SendOK'
<1>1. \A type, id : ~Has(<<>>, type, id)
  BY DEF Has
<1>2. Single(<<>>, "PUBLISH")
  BY DEF Single
<1>3. CASE UNCHANGED qos_ack1_wl /\ qos2_tx_cq'.id_vec = qos2_tx_cq.id_vec
  <2>1. \A id : Waits(id)' <=> Waits(id)
    BY <1>3 DEF Waits
  <2> QED BY <1>1, <1>2, <1>3, <2>1 DEF SendOK
<1>4. CASE qos_ack1_wl' = <<>> /\ qos2_tx_cq' = Reset
  <2>1. \A id : ~Waits(id)'
    BY <1>4 DEF Waits, Listed
  <2>2. \A k \in 0..MAX_PUBREL_INFLT - 1 : Reset.id_vec[k] = 0
    BY StoreAfter DEF WiresOK
  <2> QED BY <1>1, <1>2, <1>4, <2>1, <2>2 DEF SendOK, WiresOK
<1> QED BY <1>3, <1>4

LEMMA SendNext == WiresOK /\ WiresOK' /\ SendOK /\ [QosNext]_qosVars => SendOK'
<1> SUFFICES ASSUME WiresOK, WiresOK', SendOK, [QosNext]_qosVars PROVE SendOK'
  OBVIOUS
<1>a. QosIds \subseteq Nat /\ \A id \in QosIds : id > 0
  BY QoS2Assumption DEF QosIds
<1>b. \A type \in {"PUBLISH", "PUBREC", "PUBREL", "PUBCOMP"}, id \in Nat : <<type, id>> \in Packet
  BY DEF Packet
<1>d. \A type, id : <<type, id>>[1] = type
  OBVIOUS
<1>f. ASSUME DoNetClose PROVE SendOK'
  BY <1>f, ClosedSend, Zenon DEF DoNetClose, SessionDelete, stores
<1>t. ASSUME up # <<>> PROVE /\ \A type, id : Has(Tail(up), type, id) => Has(up, type, id)
                             /\ Single(Tail(up), "PUBLISH")
  BY <1>t, HasTail DEF WiresOK, SendOK
<1>u. ASSUME down # <<>> PROVE \A type, id : Has(Tail(down), type, id) => Has(down, type, id)
  BY <1>u, HasTail DEF WiresOK
<1>v. ASSUME NEW type \in {"PUBREC", "PUBCOMP"}, NEW id \in Nat
      PROVE  /\ \A x \in Nat : Has(Append(up, <<type, id>>), "PUBLISH", x) => Has(up, "PUBLISH", x)
             /\ \A x \in Nat : Has(Append(up, <<type, id>>), "PUBREL", x) => Has(up, "PUBREL", x)
             /\ Single(Append(up, <<type, id>>), "PUBLISH")
  <2>1. <<type, id>> \in Packet /\ <<type, id>>[1] = type /\ up \in Seq(Packet) /\ Single(up, "PUBLISH")
    BY <1>b, <1>d DEF WiresOK, SendOK
  <2>2. \A x : <<type, id>> # <<"PUBLISH", x>> /\ <<type, id>> # <<"PUBREL", x>>
    OBVIOUS
  <2>3. type # "PUBLISH"
    OBVIOUS
  <2> QED BY <2>1, <2>2, <2>3, HasAppend, Zenon
<1>w. ASSUME NEW type \in {"PUBREL", "PUBCOMP", "PUBLISH"}, NEW id \in Nat
      PROVE  \A x \in Nat : Has(Append(down, <<type, id>>), "PUBREC", x) => Has(down, "PUBREC", x)
  <2>1. <<type, id>> \in Packet /\ down \in Seq(Packet)
    BY <1>b DEF WiresOK
  <2>2. \A x : <<type, id>> # <<"PUBREC", x>>
    OBVIOUS
  <2> QED BY <2>1, <2>2, HasAppend, Zenon
<1>1. CASE Publish
  <2> DEFINE id == published'
  <2>1. /\ id = published + 1 /\ id \in Nat /\ qos_ack1_wl' = Append(qos_ack1_wl, id)
        /\ up' = Append(up, <<"PUBLISH", id>>) /\ down' = down /\ qos2_tx_cq' = qos2_tx_cq
        /\ <<"PUBLISH", id>> \in Packet /\ published \in Nat
    BY <1>1, <1>b DEF Publish, WiresOK
  <2> HIDE DEF id
  <2>2. \A x : Waits(x)' <=> Waits(x) \/ x = id
    BY <2>1, ListedAppend DEF Waits, WiresOK
  <2>3. \A x \in Nat : Waits(x) => x # id
    BY <2>1 DEF SendOK
  <2>4. \A x \in Nat : Waits(x)' => 0 < x /\ x <= published'
    BY <2>1, <2>2 DEF SendOK, id
  <2>5. \A i, j \in DOMAIN qos_ack1_wl' : qos_ack1_wl'[i] = qos_ack1_wl'[j] => i = j
    <3>1. /\ DOMAIN qos_ack1_wl' = DOMAIN qos_ack1_wl \cup {Len(qos_ack1_wl) + 1}
          /\ qos_ack1_wl'[Len(qos_ack1_wl) + 1] = id
          /\ \A i \in DOMAIN qos_ack1_wl : qos_ack1_wl'[i] = qos_ack1_wl[i]
      BY <2>1, NumberAppend, Zenon DEF WiresOK
    <3>2. \A i \in DOMAIN qos_ack1_wl : qos_ack1_wl[i] # id
      BY <2>1, <2>3 DEF WiresOK, Waits, Listed
    <3> QED BY <3>1, <3>2, Zenon DEF SendOK
  <2>6. ~Has(up, "PUBLISH", id) /\ ~Has(down, "PUBREC", id) /\ ~Has(up, "PUBREL", id)
    BY <2>1, <2>3 DEF SendOK
  <2>7. \A x \in Nat : /\ Has(up', "PUBLISH", x) <=> Has(up, "PUBLISH", x) \/ x = id
                       /\ Has(up', "PUBREL", x) <=> Has(up, "PUBREL", x)
    <3>1. \A x : /\ <<"PUBLISH", id>> = <<"PUBLISH", x>> <=> x = id
                 /\ <<"PUBLISH", id>> # <<"PUBREL", x>>
      OBVIOUS
    <3> QED BY <2>1, <3>1, HasAppend, Zenon DEF WiresOK
  <2>8. Single(up', "PUBLISH")
    BY <2>1, <2>6, HasAppend, Zenon DEF WiresOK, SendOK
  <2>9. \A k \in 0..MAX_PUBREL_INFLT - 1 : qos2_tx_cq.id_vec[k] \in Nat
    BY DEF WiresOK, StoreOK, AnyStore
  <2>10. \A x \in Nat : Has(up', "PUBLISH", x) => Waits(x)' /\ ~Has(down', "PUBREC", x)
    BY <2>1, <2>2, <2>6, <2>7, Zenon DEF SendOK
  <2>11. \A x \in Nat : x <= published => x <= published' /\ x # id
    BY <2>1 DEF id
  <2>12. \A x \in Nat : Has(down', "PUBREC", x) => x <= published'
    BY <2>1, <2>11, Zenon DEF SendOK
  <2>13. \A x \in Nat : Has(up', "PUBREL", x) => x <= published' /\ ~Waits(x)'
    BY <2>2, <2>7, <2>11, Zenon DEF SendOK
  <2>14. \A k \in 0..MAX_PUBREL_INFLT - 1 : qos2_tx_cq'.id_vec[k] <= published' /\ ~Waits(qos2_tx_cq.id_vec[k])'
    BY <2>1, <2>2, <2>9, <2>11, Zenon DEF SendOK
  <2> QED BY <2>1, <2>4, <2>5, <2>8, <2>10, <2>12, <2>13, <2>14, Zenon DEF SendOK
<1>2. ASSUME NEW id \in QosIds, ProcPubRecRx(id) PROVE SendOK'
  <2>1. CASE Rejects
    BY <2>1, <1>f DEF Rejects
  <2>2. CASE ~Rejects
    <3>1. /\ down # <<>> /\ Head(down) = <<"PUBREC", id>> /\ qos_ack1_wl # <<>> /\ Head(qos_ack1_wl) = id
          /\ qos_ack1_wl' = Tail(qos_ack1_wl) /\ qos2_tx_cq' = LogUp(qos2_tx_cq, id)
          /\ up' = Append(up, <<"PUBREL", id>>) /\ down' = Tail(down)
          /\ UNCHANGED published
      BY <1>2, <2>2 DEF ProcPubRecRx, Answers, Keeps, Arrives
    <3>2. id \in Nat /\ <<"PUBREL", id>> \in Packet
      BY <1>a, <1>b
    <3>3. /\ \A x : Waits(x)' <=> Waits(x) /\ x # id
          /\ Waits(id)
          /\ \A i, j \in DOMAIN qos_ack1_wl' : qos_ack1_wl'[i] = qos_ack1_wl'[j] => i = j
      BY <3>1, ListedTail, Zenon DEF Waits, WiresOK, SendOK
    <3>4. Has(down, "PUBREC", id) /\ \A x : Has(down', "PUBREC", x) => Has(down, "PUBREC", x)
      BY <3>1, HasTail, Zenon DEF WiresOK
    <3>5. \A x \in Nat : /\ Has(up', "PUBLISH", x) <=> Has(up, "PUBLISH", x)
                         /\ Has(up', "PUBREL", x) <=> Has(up, "PUBREL", x) \/ x = id
      <4>1. \A x : /\ <<"PUBREL", id>> = <<"PUBREL", x>> <=> x = id
                   /\ <<"PUBREL", id>> # <<"PUBLISH", x>>
        OBVIOUS
      <4>2. up \in Seq(Packet)
        BY DEF WiresOK
      <4>3. \A x : Has(up', "PUBLISH", x) <=> Has(up, "PUBLISH", x)
        BY <3>1, <3>2, <4>1, <4>2, HasAppend, Zenon
      <4>4. \A x : Has(up', "PUBREL", x) <=> Has(up, "PUBREL", x) \/ x = id
        BY <3>1, <3>2, <4>1, <4>2, HasAppend, Zenon
      <4> QED BY <4>3, <4>4, Zenon
    <3>6. Single(up', "PUBLISH")
      <4>1. <<"PUBREL", id>>[1] # "PUBLISH"
        OBVIOUS
      <4> QED BY <3>1, <3>2, <4>1, HasAppend, Zenon DEF WiresOK, SendOK
    <3>7. \A k \in 0..MAX_PUBREL_INFLT - 1 : qos2_tx_cq'.id_vec[k] \in {id, qos2_tx_cq.id_vec[k]}
      BY <3>1, <3>2, StoreAfter, Zenon DEF WiresOK
    <3>8. id <= published
      BY <3>2, <3>3 DEF SendOK
    <3>9. \A x \in Nat : Waits(x)' => 0 < x /\ x <= published'
      BY <3>1, <3>3, Zenon DEF SendOK
    <3>10. \A x \in Nat : Has(up', "PUBLISH", x) => Waits(x)' /\ ~Has(down', "PUBREC", x)
      BY <3>3, <3>4, <3>5, Zenon DEF SendOK
    <3>11. \A x \in Nat : Has(down', "PUBREC", x) => x <= published'
      BY <3>1, <3>4, Zenon DEF SendOK
    <3>12. \A x \in Nat : Has(up', "PUBREL", x) => x <= published' /\ ~Waits(x)'
      BY <3>1, <3>3, <3>5, <3>8, Zenon DEF SendOK
    <3>13. ASSUME NEW k \in 0..MAX_PUBREL_INFLT - 1
           PROVE  (qos2_tx_cq.id_vec[k] <= published /\ ~Waits(qos2_tx_cq.id_vec[k]))'
      <4>1. ~Waits(id)' /\ id <= published'
        BY <3>1, <3>3, <3>8
      <4>2. qos2_tx_cq.id_vec[k] <= published' /\ ~Listed(qos_ack1_wl', qos2_tx_cq.id_vec[k])
        BY <3>1, <3>3, Zenon DEF SendOK, Waits
      <4>3. CASE qos2_tx_cq'.id_vec[k] = id
        BY <4>1, <4>3, Zenon DEF Waits
      <4>4. CASE qos2_tx_cq'.id_vec[k] = qos2_tx_cq.id_vec[k]
        BY <4>2, <4>4, Zenon DEF Waits
      <4> QED BY <3>7, <4>3, <4>4
    <3> QED BY <3>3, <3>6, <3>9, <3>10, <3>11, <3>12, <3>13, Zenon DEF SendOK
  <2> QED BY <2>1, <2>2
<1>3. ASSUME NEW id \in QosIds, Ack2MsgIdUnlog(id) PROVE SendOK'
  <2>1. CASE Rejects
    BY <2>1, <1>f DEF Rejects
  <2>2. CASE ~Rejects
    <3>1. /\ down # <<>> /\ qos2_tx_cq' = Unlog(qos2_tx_cq, id)
          /\ \/ down' = Tail(down) /\ up' = up
             \/ down' = <<>> /\ up' = <<>>
          /\ UNCHANGED <<qos_ack1_wl, published>>
      BY <1>3, <2>2 DEF Ack2MsgIdUnlog, Arrives, Keeps
    <3>2. qos2_tx_cq'.id_vec = qos2_tx_cq.id_vec
      BY <1>a, <3>1, StoreAfter DEF WiresOK
    <3>3. CASE down' = <<>> /\ up' = <<>>
      BY <3>1, <3>2, <3>3, ClosedSend
    <3>4. CASE down' = Tail(down) /\ up' = up
      <4>1. Single(up', "PUBLISH")
        BY <3>4 DEF SendOK
      <4> QED BY <1>u, <3>1, <3>2, <3>4, <4>1, PlainSend
    <3> QED BY <3>1, <3>3, <3>4
  <2> QED BY <2>1, <2>2
<1>4. ASSUME NEW id \in QosIds, ProcPubRx(id) PROVE SendOK'
  <2>1. CASE Rejects
    BY <2>1, <1>f DEF Rejects
  <2>2. CASE ~Rejects
    <3>1. /\ down # <<>> /\ down' = Tail(down) /\ (up' = up \/ up' = Append(up, <<"PUBREC", id>>))
          /\ UNCHANGED <<qos_ack1_wl, qos2_tx_cq, published>>
      BY <1>4, <2>2 DEF ProcPubRx, Arrives, Keeps, Answers, stores
    <3>2. /\ \A x \in Nat : Has(up', "PUBLISH", x) => Has(up, "PUBLISH", x)
          /\ \A x \in Nat : Has(up', "PUBREL", x) => Has(up, "PUBREL", x)
          /\ Single(up', "PUBLISH")
      BY <1>a, <1>v, <3>1, Zenon DEF SendOK
    <3> QED BY <1>u, <3>1, <3>2, PlainSend
  <2> QED BY <2>1, <2>2
<1>5. ASSUME NEW id \in QosIds, ProcPubRelRx(id) PROVE SendOK'
  <2>1. /\ down # <<>> /\ down' = Tail(down) /\ up' = Append(up, <<"PUBCOMP", id>>)
        /\ UNCHANGED <<qos_ack1_wl, qos2_tx_cq, published>>
    BY <1>5 DEF ProcPubRelRx, Arrives, Keeps, Answers
  <2>2. /\ \A x \in Nat : Has(up', "PUBLISH", x) => Has(up, "PUBLISH", x)
        /\ \A x \in Nat : Has(up', "PUBREL", x) => Has(up, "PUBREL", x)
        /\ Single(up', "PUBLISH")
    BY <1>a, <1>v, <2>1
  <2> QED BY <1>u, <2>1, <2>2, PlainSend
<1>6. CASE BrokerReceives
  <2>1. PICK id \in QosIds :
          \/ BrokerGets("PUBLISH", id) /\ Says("PUBREC", id)
          \/ /\ up # <<>> /\ up' = Tail(up) /\ UNCHANGED <<qos_ack1_wl, qos2_tx_cq, published>>
             /\ (down' = down \/ \E type \in {"PUBREL", "PUBCOMP"} : Says(type, id))
    BY <1>6 DEF BrokerReceives, BrokerGets, stores
  <2>2. CASE BrokerGets("PUBLISH", id) /\ Says("PUBREC", id)
    <3>1. /\ up # <<>> /\ Head(up) = <<"PUBLISH", id>> /\ up' = Tail(up)
          /\ down' = Append(down, <<"PUBREC", id>>) /\ UNCHANGED <<qos_ack1_wl, qos2_tx_cq, published>>
          /\ id \in Nat /\ <<"PUBREC", id>> \in Packet
      BY <1>a, <1>b, <2>2 DEF BrokerGets, Says, stores
    <3>2. Has(up, "PUBLISH", id) /\ ~Has(up', "PUBLISH", id)
      BY <3>1, HasTail, Zenon DEF WiresOK, SendOK
    <3>3. Waits(id) /\ id <= published
      BY <3>1, <3>2 DEF SendOK
    <3>4. \A x \in Nat : Has(down', "PUBREC", x) <=> Has(down, "PUBREC", x) \/ x = id
      <4>1. \A x : <<"PUBREC", id>> = <<"PUBREC", x>> <=> x = id
        OBVIOUS
      <4> QED BY <3>1, <4>1, HasAppend, Zenon DEF WiresOK
    <3>5. \A x : Waits(x)' <=> Waits(x)
      BY <3>1 DEF Waits
    <3>6. \A i, j \in DOMAIN qos_ack1_wl' : qos_ack1_wl'[i] = qos_ack1_wl'[j] => i = j
      BY <3>1 DEF SendOK
    <3>7. \A x \in Nat : Has(up', "PUBLISH", x) => Waits(x)' /\ ~Has(down', "PUBREC", x)
      BY <1>t, <3>1, <3>2, <3>4, <3>5, Zenon DEF SendOK
    <3>8. \A x \in Nat : Has(down', "PUBREC", x) => x <= published'
      BY <3>1, <3>3, <3>4, Zenon DEF SendOK
    <3>9. \A x \in Nat : Has(up', "PUBREL", x) => x <= published' /\ ~Waits(x)'
      BY <1>t, <3>1, <3>5, Zenon DEF SendOK
    <3>10. Single(up', "PUBLISH")
      BY <1>t, <3>1, Zenon
    <3>11. \A k \in 0..MAX_PUBREL_INFLT - 1 : qos2_tx_cq'.id_vec[k] <= published' /\ ~Waits(qos2_tx_cq.id_vec[k])'
      BY <3>1, <3>5, Zenon DEF SendOK
    <3>12. \A x \in Nat : Waits(x)' => 0 < x /\ x <= published'
      BY <3>1, <3>5, Zenon DEF SendOK
    <3> QED BY <3>1, <3>6, <3>7, <3>8, <3>9, <3>10, <3>11, <3>12, Zenon DEF SendOK
  <2>3. CASE /\ up # <<>> /\ up' = Tail(up) /\ UNCHANGED <<qos_ack1_wl, qos2_tx_cq, published>>
             /\ (down' = down \/ \E type \in {"PUBREL", "PUBCOMP"} : Says(type, id))
    <3>1. \A x \in Nat : Has(down', "PUBREC", x) => Has(down, "PUBREC", x)
      BY <1>a, <1>w, <2>3 DEF Says
    <3> QED BY <1>t, <2>3, <3>1, PlainSend
  <2> QED BY <2>1, <2>2, <2>3
<1>7. CASE BrokerPublish
  <2>1. /\ brokerNext' \in Nat /\ down' = Append(down, <<"PUBLISH", brokerNext'>>)
        /\ UNCHANGED <<up, qos_ack1_wl, qos2_tx_cq, published>>
    BY <1>7 DEF BrokerPublish, Says, stores, WiresOK
  <2>2. \A x \in Nat : Has(down', "PUBREC", x) => Has(down, "PUBREC", x)
    BY <1>w, <2>1
  <2>3. Single(up', "PUBLISH")
    BY <2>1 DEF SendOK
  <2> QED BY <2>1, <2>2, <2>3, PlainSend
<1>8. CASE Lose
  BY <1>8, <1>f DEF Lose
<1>9. CASE ProcConnackRx
  <2>1. CASE is_cln_session
    BY <1>9, <2>1, ClosedSend DEF ProcConnackRx, SessionDelete
  <2>2. CASE ~is_cln_session
    <3>1. /\ up' = Packets("PUBLISH", qos_ack1_wl) \o Packets("PUBREL", Dispatched)
          /\ down' = Packets("PUBREL", brokerRel) \o Packets("PUBLISH", brokerPub)
          /\ UNCHANGED <<qos_ack1_wl, qos2_tx_cq, published>>
      BY <1>9, <2>2 DEF ProcConnackRx, stores
    <3>2. Dispatched \in Seq(Nat) /\ \A x : Listed(Dispatched, x) => x = 0 \/ \E k \in 0..MAX_PUBREL_INFLT - 1 : x = qos2_tx_cq.id_vec[k]
      BY DispatchedIds DEF WiresOK, Listed
    <3>3. /\ \A x : Has(up', "PUBLISH", x) => Waits(x)
          /\ \A x : Has(up', "PUBREL", x) => Listed(Dispatched, x)
          /\ Single(up', "PUBLISH")
      <4>1. /\ qos_ack1_wl \in Seq(Nat) /\ Dispatched \in Seq(Nat)
            /\ \A i, j \in DOMAIN qos_ack1_wl : qos_ack1_wl[i] = qos_ack1_wl[j] => i = j
        BY <3>2 DEF WiresOK, SendOK
      <4>2. \A type, x : Has(up', type, x) =>
                 (type = "PUBLISH" /\ Waits(x)) \/ (type = "PUBREL" /\ Listed(Dispatched, x))
        BY <3>1, <4>1, HasPackets DEF Waits
      <4>3. Single(up', "PUBLISH")
        BY <3>1, <4>1, HasPackets
      <4> QED BY <4>2, <4>3
    <3>4. \A x : ~Has(down', "PUBREC", x)
      <4>1. brokerRel \in Seq(Nat) /\ brokerPub \in Seq(Nat)
        BY DEF WiresOK
      <4>2. \A type, x : Has(down', type, x) => type = "PUBREL" \/ type = "PUBLISH"
        BY <3>1, <4>1, HasPackets
      <4> QED BY <4>2
    <3>5. \A x : Waits(x)' <=> Waits(x)
      BY <3>1 DEF Waits
    <3>6. published \in Nat /\ ~Waits(0)
      BY DEF WiresOK, SendOK
    <3>7. \A x \in Nat : Listed(Dispatched, x) => x <= published /\ ~Waits(x)
      BY <3>2, <3>6 DEF SendOK
    <3>8. \A i, j \in DOMAIN qos_ack1_wl' : qos_ack1_wl'[i] = qos_ack1_wl'[j] => i = j
      BY <3>1 DEF SendOK
    <3>9. \A k \in 0..MAX_PUBREL_INFLT - 1 : qos2_tx_cq'.id_vec[k] <= published' /\ ~Waits(qos2_tx_cq.id_vec[k])'
      BY <3>1, <3>5, Zenon DEF SendOK
    <3>10. \A x \in Nat : Waits(x)' => 0 < x /\ x <= published'
      BY <3>1, <3>5, Zenon DEF SendOK
    <3> QED BY <3>1, <3>3, <3>4, <3>5, <3>7, <3>8, <3>9, <3>10, Zenon DEF SendOK
  <2> QED BY <2>1, <2>2
<1>10. CASE UNCHANGED qosVars
  <2>1. UNCHANGED <<up, down, qos_ack1_wl, qos2_tx_cq, published>>
    BY <1>10 DEF qosVars, stores
  <2>2. Single(up', "PUBLISH")
    BY <2>1 DEF SendOK
  <2> QED BY <2>1, <2>2, PlainSend
<1> QED BY <1>1, <1>2, <1>3, <1>4, <1>5, <1>6, <1>7, <1>8, <1>9, <1>10 DEF QosNext, ClientReceives

\* A step that passes on nothing and releases nothing.
LEMMA PlainHeld ==
    ASSUME WiresOK, HeldOK, UNCHANGED <<passedOn, brokerHeld>>, published' \in Nat, published' >= published,
           \A id \in QosIds : Waits(id)' => Waits(id) \/ id > published
    PROVE  HeldOK'
<1> SUFFICES ASSUME NEW id \in QosIds
             PROVE  /\ passedOn[id] <= 1
                    /\ passedOn[id] > 0 => id <= published'
                    /\ Waits(id)' => passedOn[id] = 0 \/ id \in brokerHeld
  BY DEF HeldOK
<1>1. /\ passedOn[id] <= 1 /\ passedOn[id] \in Nat /\ id \in Nat /\ published \in Nat
      /\ passedOn[id] > 0 => id <= published
      /\ Waits(id) => passedOn[id] = 0 \/ id \in brokerHeld
  BY QoS2Assumption DEF HeldOK, WiresOK, QosIds
<1>2. passedOn[id] > 0 => id <= published'
  BY <1>1
<1>3. id > published => passedOn[id] = 0
  BY <1>1
<1> QED BY <1>1, <1>2, <1>3

LEMMA HeldNext == WiresOK /\ SendOK /\ HeldOK /\ [QosNext]_qosVars => HeldOK'
<1> SUFFICES ASSUME WiresOK, SendOK, HeldOK, [QosNext]_qosVars PROVE HeldOK'
  OBVIOUS
<1>a. published \in Nat /\ published >= published /\ \A id : Waits(id)' <=> Listed(qos_ack1_wl', id)
  BY DEF WiresOK, Waits
<1>b. \A id : ~Listed(<<>>, id)
  BY DEF Listed
<1>c. ASSUME UNCHANGED <<passedOn, brokerHeld, published>>, qos_ack1_wl' = qos_ack1_wl \/ qos_ack1_wl' = <<>>
      PROVE  HeldOK'
  <2>1. \A id \in QosIds : Waits(id)' => Waits(id)
    BY <1>a, <1>b, <1>c DEF Waits
  <2> QED BY <1>a, <1>c, <2>1, PlainHeld
<1>1. CASE Publish
  <2>1. /\ published' = published + 1 /\ published' \in Nat /\ qos_ack1_wl' = Append(qos_ack1_wl, published')
        /\ UNCHANGED <<passedOn, brokerHeld>>
    BY <1>1, <1>a DEF Publish, brokerVars
  <2>2. \A id \in QosIds : Waits(id)' => Waits(id) \/ id = published'
    BY <1>a, <2>1, ListedAppend DEF Waits, WiresOK
  <2>3. published' > published /\ published' >= published
    BY <1>a, <2>1
  <2> QED BY <2>1, <2>2, <2>3, PlainHeld
<1>2. ASSUME NEW id \in QosIds, ProcPubRecRx(id) PROVE HeldOK'
  <2>1. CASE Rejects
    BY <2>1, <1>c DEF Rejects, DoNetClose, SessionDelete, stores, brokerVars
  <2>2. CASE ~Rejects
    <3>1. /\ qos_ack1_wl # <<>> /\ qos_ack1_wl' = Tail(qos_ack1_wl)
          /\ UNCHANGED <<published, passedOn, brokerHeld>>
      BY <1>2, <2>2 DEF ProcPubRecRx, Keeps, brokerVars
    <3>2. \A x : Waits(x)' => Waits(x)
      BY <1>a, <3>1, ListedTail, Zenon DEF WiresOK, SendOK, Waits
    <3> QED BY <1>a, <3>1, <3>2, PlainHeld
  <2> QED BY <2>1, <2>2
<1>3. ASSUME NEW id \in QosIds, Ack2MsgIdUnlog(id) PROVE HeldOK'
  BY <1>3, <1>c DEF Ack2MsgIdUnlog, Rejects, DoNetClose, SessionDelete, stores, brokerVars, Keeps
<1>4. ASSUME NEW id \in QosIds, ProcPubRx(id) PROVE HeldOK'
  BY <1>4, <1>c DEF ProcPubRx, Rejects, DoNetClose, SessionDelete, stores, brokerVars, Keeps
<1>5. ASSUME NEW id \in QosIds, ProcPubRelRx(id) PROVE HeldOK'
  BY <1>5, <1>c DEF ProcPubRelRx, brokerVars, Keeps
<1>6. CASE BrokerReceives
  <2>1. PICK id \in QosIds :
          \/ /\ BrokerGets("PUBLISH", id) /\ brokerHeld' = brokerHeld \cup {id}
             /\ passedOn' = IF id \in brokerHeld THEN passedOn ELSE [passedOn EXCEPT ![id] = @ + 1]
          \/ BrokerGets("PUBREL", id) /\ brokerHeld' = brokerHeld \ {id} /\ passedOn' = passedOn
          \/ /\ UNCHANGED <<qos_ack1_wl, published, passedOn, brokerHeld>>
    BY <1>6 DEF BrokerReceives, BrokerGets, stores
  <2>2. id \in Nat /\ \A type : BrokerGets(type, id) =>
          up # <<>> /\ Head(up) = <<type, id>> /\ UNCHANGED <<qos_ack1_wl, published>>
    BY QoS2Assumption DEF BrokerGets, stores, QosIds
  <2>3. \A type : BrokerGets(type, id) => Has(up, type, id)
    BY <2>2, HasTail DEF WiresOK
  <2>4. \A x : BrokerGets("PUBLISH", id) \/ BrokerGets("PUBREL", id) => (Waits(x)' <=> Waits(x)) /\ published' = published
    BY <2>2 DEF Waits
  <2>5. CASE /\ BrokerGets("PUBLISH", id) /\ brokerHeld' = brokerHeld \cup {id}
             /\ passedOn' = IF id \in brokerHeld THEN passedOn ELSE [passedOn EXCEPT ![id] = @ + 1]
    <3>1. Waits(id) /\ id <= published
      BY <2>2, <2>3, <2>5 DEF SendOK
    <3>2. CASE id \in brokerHeld
      BY <2>4, <2>5, <3>2 DEF HeldOK
    <3>3. CASE id \notin brokerHeld
      <4>1. passedOn[id] = 0
        BY <3>1, <3>3 DEF HeldOK
      <4>2. passedOn'[id] = 1 /\ \A x \in QosIds : x # id => passedOn'[x] = passedOn[x]
        BY <2>5, <3>3, <4>1 DEF WiresOK
      <4> QED BY <2>4, <2>5, <3>1, <4>2 DEF HeldOK
    <3> QED BY <3>2, <3>3
  <2>6. CASE BrokerGets("PUBREL", id) /\ brokerHeld' = brokerHeld \ {id} /\ passedOn' = passedOn
    <3>1. ~Waits(id)
      BY <2>2, <2>3, <2>6 DEF SendOK
    <3> QED BY <2>4, <2>6, <3>1 DEF HeldOK
  <2>7. CASE UNCHANGED <<qos_ack1_wl, published, passedOn, brokerHeld>>
    BY <2>7, <1>c
  <2> QED BY <2>1, <2>5, <2>6, <2>7
<1>7. CASE BrokerPublish
  BY <1>7, <1>c DEF BrokerPublish, stores
<1>8. CASE Lose
  BY <1>8, <1>c DEF Lose, DoNetClose, SessionDelete, stores, brokerVars
<1>9. CASE ProcConnackRx
  <2>1. CASE is_cln_session
    <3>1. qos_ack1_wl' = <<>> /\ UNCHANGED <<published, passedOn>>
      BY <1>9, <2>1 DEF ProcConnackRx, SessionDelete
    <3>2. \A x : ~Waits(x)'
      BY <1>a, <1>b, <3>1
    <3> QED BY <3>1, <3>2 DEF HeldOK
  <2>2. CASE ~is_cln_session
    BY <1>9, <2>2, <1>c DEF ProcConnackRx, stores, brokerVars
  <2> QED BY <2>1, <2>2
<1>10. CASE UNCHANGED qosVars
  BY <1>10, <1>c DEF qosVars, stores, brokerVars
<1> QED BY <1>1, <1>2, <1>3, <1>4, <1>5, <1>6, <1>7, <1>8, <1>9, <1>10 DEF QosNext, ClientReceives

LEMMA OnceInit == QosInit => OnceInv
<1> SUFFICES ASSUME QosInit PROVE OnceInv
  OBVIOUS
<1>1. WiresOK
  <2>1. Reset \in AnyStore /\ passedOn \in [QosIds -> Nat]
    BY QoS2Assumption DEF Reset, AnyStore, QosInit
  <2> QED BY <2>1 DEF QosInit, WiresOK, StoreOK
<1>2. (\A type, id : ~Has(<<>>, type, id)) /\ Single(<<>>, "PUBLISH") /\ \A id : ~Waits(id)
  BY DEF Has, Single, Waits, Listed, QosInit
<1>3. SendOK
  <2>1. \A k \in 0..MAX_PUBREL_INFLT - 1 : qos2_tx_cq.id_vec[k] <= published
    BY DEF QosInit, Reset
  <2> QED BY <1>2, <2>1 DEF SendOK, QosInit
<1>4. HeldOK
  BY <1>2 DEF HeldOK, QosInit
<1> QED BY <1>1, <1>3, <1>4 DEF OnceInv

\* The broker passes on a message of the client once (PassedOnOnce), although the
\* client sends what waits for a PUBREC again when it resumes a session.
THEOREM PassedOnOnceHolds == QosSpec => []PassedOnOnce
<1>1. OnceInv /\ [QosNext]_qosVars => OnceInv'
  BY WiresNext, SendNext, HeldNext DEF OnceInv
<1>2. OnceInv => PassedOnOnce
  BY DEF OnceInv, HeldOK, PassedOnOnce
<1> QED BY <1>1, <1>2, OnceInit, PTL DEF QosSpec

-----------------------------------------------------------------------------
(* The stores follow the wire: what OnWire collects, what a store lists, and  *)
(* what each step does to both.                                             *)

\* f counts the identifiers on the wire, packet by packet.
Collects(f, wire, type) ==
    f = [n \in 0..Len(wire) |-> IF n = 0 THEN <<>>
                                ELSE IF wire[n][1] = type THEN Append(f[n - 1], wire[n][2])
                                ELSE f[n - 1]]

LEMMA Collected ==
    ASSUME NEW wire \in Seq(Packet), NEW type
    PROVE  \E f : Collects(f, wire, type) /\ OnWire(wire, type) = f[Len(wire)]
<1> DEFINE Step(f, n) == IF n = 0 THEN <<>>
                         ELSE IF wire[n][1] = type THEN Append(f[n - 1], wire[n][2])
                         ELSE f[n - 1]
           S == {m \in 0..Len(wire) : \E f : f = [n \in 0..m |-> Step(f, n)]}
<1>1. 0 \in S
  <2> DEFINE f == [n \in 0..0 |-> <<>>]
  <2>1. f = [n \in 0..0 |-> Step(f, n)]
    OBVIOUS
  <2>2. 0 \in 0..Len(wire)
    OBVIOUS
  <2> HIDE DEF Step, f
  <2> QED BY <2>1, <2>2
<1>2. ASSUME NEW m \in 0..Len(wire) - 1, m \in S PROVE m + 1 \in S
  <2>1. PICK f : f = [n \in 0..m |-> Step(f, n)]
    BY <1>2
  <2> DEFINE g == [n \in 0..m + 1 |-> IF n <= m THEN f[n] ELSE Step(f, n)]
  <2>2. \A n \in 0..m : f[n] = Step(f, n)
    BY <2>1
  <2>3. \A n \in 0..m + 1 : g[n] = Step(g, n)
    <3> SUFFICES ASSUME NEW n \in 0..m + 1 PROVE g[n] = Step(g, n)
      OBVIOUS
    <3>1. CASE n = 0
      BY <2>2, <3>1
    <3>2. CASE n # 0
      <4>1. n - 1 \in 0..m /\ g[n - 1] = f[n - 1]
        BY <3>2
      <4>2. g[n] = Step(f, n)
        <5>1. CASE n <= m
          BY <2>2, <5>1
        <5>2. CASE ~(n <= m)
          BY <5>2
        <5> QED BY <5>1, <5>2
      <4> QED BY <3>2, <4>1, <4>2
    <3> QED BY <3>1, <3>2
  <2> HIDE DEF Step
  <2>4. g = [n \in 0..m + 1 |-> Step(g, n)]
    BY <2>3
  <2>5. m + 1 \in 0..Len(wire)
    OBVIOUS
  <2> HIDE DEF g
  <2> QED BY <2>4, <2>5
<1> HIDE DEF S
<1>3. Len(wire) \in S
  <2>1. Len(wire) \in Nat /\ Len(wire) \in 0..Len(wire)
    OBVIOUS
  <2> QED BY <1>1, <1>2, <2>1, CountUp
<1>4. \E f : Collects(f, wire, type)
  BY <1>3 DEF S, Collects
<1>5. OnWire(wire, type) = (CHOOSE f : Collects(f, wire, type))[Len(wire)]
  BY DEF OnWire, Collects
<1> QED BY <1>4, <1>5

LEMMA CollectedTypes ==
    ASSUME NEW wire \in Seq(Packet), NEW type, NEW f, Collects(f, wire, type)
    PROVE  \A n \in 0..Len(wire) : f[n] \in Seq(Nat)
<1> DEFINE S == {n \in 0..Len(wire) : f[n] \in Seq(Nat)}
<1>0. Len(wire) \in Nat /\ \A n \in 1..Len(wire) : wire[n] \in Packet /\ wire[n][2] \in Nat
  BY DEF Packet
<1>1. f[0] = <<>> /\ <<>> \in Seq(Nat)
  BY <1>0 DEF Collects
<1>2. ASSUME NEW n \in 0..Len(wire) - 1, n \in S PROVE n + 1 \in S
  <2>1. n + 1 \in 1..Len(wire) /\ (n + 1) - 1 = n /\ n + 1 \in 0..Len(wire) /\ n + 1 # 0
    OBVIOUS
  <2>2. f[n + 1] = IF wire[n + 1][1] = type THEN Append(f[n], wire[n + 1][2]) ELSE f[n]
    BY <2>1 DEF Collects
  <2>3. wire[n + 1][2] \in Nat
    BY <1>0, <2>1
  <2>4. \A ids \in Seq(Nat), x \in Nat : Append(ids, x) \in Seq(Nat)
    OBVIOUS
  <2>5. f[n + 1] \in Seq(Nat)
    BY <1>2, <2>2, <2>3, <2>4
  <2> QED BY <2>1, <2>5
<1>3. 0 \in S
  <2>1. 0 \in 0..Len(wire)
    BY <1>0
  <2> QED BY <1>1, <2>1
<1> HIDE DEF S
<1>4. \A n \in 0..Len(wire) : n \in S
  BY <1>0, <1>2, <1>3, CountUp
<1> QED BY <1>4 DEF S

LEMMA OnWireType ==
    ASSUME NEW wire \in Seq(Packet), NEW type
    PROVE  OnWire(wire, type) \in Seq(Nat)
<1>1. Len(wire) \in 0..Len(wire)
  OBVIOUS
<1> QED BY <1>1, Collected, CollectedTypes

LEMMA OnWireEmpty == \A type : OnWire(<<>>, type) = <<>>
<1>1. <<>> \in Seq(Packet) /\ Len(<<>>) = 0
  OBVIOUS
<1>2. \A type, f : Collects(f, <<>>, type) => f[0] = <<>>
  BY DEF Collects
<1> QED BY <1>1, <1>2, Collected

LEMMA CollectsAt ==
    ASSUME NEW wire, NEW type, NEW f, Collects(f, wire, type), NEW l \in Nat, Len(wire) = l
    PROVE  /\ f[0] = <<>>
           /\ \A n \in 1..l : f[n] = IF wire[n][1] = type THEN Append(f[n - 1], wire[n][2]) ELSE f[n - 1]
<1> DEFINE Step(n) == IF n = 0 THEN <<>>
                      ELSE IF wire[n][1] = type THEN Append(f[n - 1], wire[n][2])
                      ELSE f[n - 1]
<1>1. f = [n \in 0..l |-> Step(n)]
  BY DEF Collects
<1> HIDE DEF Step
<1>2. \A n \in 0..l : f[n] = Step(n)
  BY <1>1
<1>3. 0 \in 0..l /\ \A n \in 1..l : n \in 0..l /\ n # 0
  OBVIOUS
<1> QED BY <1>2, <1>3 DEF Step

LEMMA OnWireAppend ==
    ASSUME NEW wire \in Seq(Packet), NEW p \in Packet, NEW type
    PROVE  OnWire(Append(wire, p), type) =
               IF p[1] = type THEN Append(OnWire(wire, type), p[2]) ELSE OnWire(wire, type)
<1> DEFINE w == Append(wire, p)
           l == Len(wire)
<1>1. /\ w \in Seq(Packet) /\ Len(w) = l + 1 /\ l \in Nat /\ w[l + 1] = p
      /\ \A i \in 1..l : w[i] = wire[i]
  OBVIOUS
<1>2. PICK f : Collects(f, wire, type) /\ OnWire(wire, type) = f[l]
  BY Collected
<1>3. PICK g : Collects(g, w, type) /\ OnWire(w, type) = g[l + 1]
  BY <1>1, Collected
<1> HIDE DEF w, l
<1>4. /\ f[0] = <<>> /\ g[0] = <<>>
      /\ \A n \in 1..l : f[n] = IF wire[n][1] = type THEN Append(f[n - 1], wire[n][2]) ELSE f[n - 1]
      /\ \A n \in 1..l + 1 : g[n] = IF w[n][1] = type THEN Append(g[n - 1], w[n][2]) ELSE g[n - 1]
  <2>1. f[0] = <<>> /\ \A n \in 1..l : f[n] = IF wire[n][1] = type THEN Append(f[n - 1], wire[n][2]) ELSE f[n - 1]
    <3>1. Len(wire) = l /\ l \in Nat
      BY <1>1 DEF l
    <3> QED BY <1>2, <3>1, CollectsAt
  <2>2. g[0] = <<>> /\ \A n \in 1..l + 1 : g[n] = IF w[n][1] = type THEN Append(g[n - 1], w[n][2]) ELSE g[n - 1]
    <3>1. Len(w) = l + 1 /\ l + 1 \in Nat
      BY <1>1 DEF l
    <3> QED BY <1>3, <3>1, CollectsAt
  <2> QED BY <2>1, <2>2
<1> DEFINE S == {n \in 0..l : f[n] = g[n]}
<1>5. 0 \in S
  BY <1>1, <1>4
<1>6. ASSUME NEW n \in 0..l - 1, n \in S PROVE n + 1 \in S
  <2>1. n + 1 \in 1..l /\ (n + 1) - 1 = n /\ n + 1 \in 0..l /\ n + 1 \in 1..l + 1
    BY <1>1
  <2>2. f[n + 1] = IF wire[n + 1][1] = type THEN Append(f[n], wire[n + 1][2]) ELSE f[n]
    BY <1>4, <2>1
  <2>3. g[n + 1] = IF wire[n + 1][1] = type THEN Append(g[n], wire[n + 1][2]) ELSE g[n]
    BY <1>1, <1>4, <2>1
  <2>4. f[n + 1] = g[n + 1]
    BY <1>6, <2>2, <2>3
  <2> QED BY <2>1, <2>4
<1> HIDE DEF S
<1>7. l \in S
  <2>1. l \in 0..l
    BY <1>1
  <2> QED BY <1>1, <1>5, <1>6, <2>1, CountUp
<1>8. f[l] = g[l]
  BY <1>7 DEF S
<1>9. l + 1 \in 1..l + 1 /\ (l + 1) - 1 = l
  BY <1>1
<1> QED BY <1>1, <1>2, <1>3, <1>4, <1>8, <1>9 DEF w

LEMMA Prefixed ==
    ASSUME NEW x \in Nat, NEW ids \in Seq(Nat), NEW y \in Nat
    PROVE  /\ <<x>> \o Append(ids, y) = Append(<<x>> \o ids, y)
           /\ <<x>> \o ids # <<>> /\ Head(<<x>> \o ids) = x /\ Tail(<<x>> \o ids) = ids
           /\ <<x>> \o <<>> = <<x>>
OBVIOUS

LEMMA OnWireTail ==
    ASSUME NEW wire \in Seq(Packet), wire # <<>>, NEW type
    PROVE  OnWire(wire, type) = IF Head(wire)[1] = type THEN <<Head(wire)[2]>> \o OnWire(Tail(wire), type)
                                ELSE OnWire(Tail(wire), type)
<1> DEFINE w == Tail(wire)
           l == Len(w)
           h == wire[1]
<1>1. /\ w \in Seq(Packet) /\ Len(wire) = l + 1 /\ l \in Nat /\ Head(wire) = h
      /\ h[2] \in Nat
      /\ \A i \in 1..l : w[i] = wire[i + 1] /\ w[i][2] \in Nat
  BY DEF Packet
<1>2. PICK f : Collects(f, wire, type) /\ OnWire(wire, type) = f[l + 1]
  BY <1>1, Collected
<1>3. PICK g : Collects(g, w, type) /\ OnWire(w, type) = g[l]
  BY <1>1, Collected
<1> HIDE DEF w, l, h
<1>4. /\ f[0] = <<>> /\ g[0] = <<>>
      /\ \A n \in 1..l + 1 : f[n] = IF wire[n][1] = type THEN Append(f[n - 1], wire[n][2]) ELSE f[n - 1]
      /\ \A n \in 1..l : g[n] = IF w[n][1] = type THEN Append(g[n - 1], w[n][2]) ELSE g[n - 1]
  <2>1. f[0] = <<>> /\ \A n \in 1..l + 1 : f[n] = IF wire[n][1] = type THEN Append(f[n - 1], wire[n][2]) ELSE f[n - 1]
    <3>1. Len(wire) = l + 1 /\ l + 1 \in Nat
      BY <1>1 DEF l
    <3> QED BY <1>2, <3>1, CollectsAt
  <2>2. g[0] = <<>> /\ \A n \in 1..l : g[n] = IF w[n][1] = type THEN Append(g[n - 1], w[n][2]) ELSE g[n - 1]
    <3>1. Len(w) = l /\ l \in Nat
      BY <1>1 DEF l
    <3> QED BY <1>3, <3>1, CollectsAt
  <2> QED BY <2>1, <2>2
<1>5. \A n \in 0..l : g[n] \in Seq(Nat)
  BY <1>1, <1>3, CollectedTypes DEF l
<1> DEFINE P(n) == f[n + 1] = IF h[1] = type THEN <<h[2]>> \o g[n] ELSE g[n]
           S == {n \in 0..l : P(n)}
<1>6. 0 \in S
  <2>1. 1 \in 1..l + 1 /\ 1 - 1 = 0 /\ 0 + 1 = 1 /\ 0 \in 0..l
    BY <1>1
  <2>2. f[1] = IF h[1] = type THEN Append(<<>>, h[2]) ELSE <<>>
    BY <1>4, <2>1 DEF h
  <2>3. Append(<<>>, h[2]) = <<h[2]>> /\ <<h[2]>> \o <<>> = <<h[2]>>
    BY <1>1
  <2> QED BY <1>4, <2>1, <2>2, <2>3
<1>7. ASSUME NEW n \in 0..l - 1, n \in S PROVE n + 1 \in S
  <2>1. /\ n + 1 \in 1..l /\ (n + 1) - 1 = n /\ n + 1 \in 0..l /\ n \in 0..l
        /\ (n + 1) + 1 \in 1..l + 1 /\ ((n + 1) + 1) - 1 = n + 1
    BY <1>1
  <2> DEFINE x == w[n + 1]
  <2>2. f[(n + 1) + 1] = IF x[1] = type THEN Append(f[n + 1], x[2]) ELSE f[n + 1]
    BY <1>1, <1>4, <2>1
  <2>3. g[n + 1] = IF x[1] = type THEN Append(g[n], x[2]) ELSE g[n]
    BY <1>4, <2>1
  <2>4. x[2] \in Nat /\ g[n] \in Seq(Nat) /\ h[2] \in Nat
    BY <1>1, <1>5, <2>1
  <2>5. f[n + 1] = IF h[1] = type THEN <<h[2]>> \o g[n] ELSE g[n]
    BY <1>7
  <2>6. <<h[2]>> \o Append(g[n], x[2]) = Append(<<h[2]>> \o g[n], x[2])
    BY <2>4, Prefixed
  <2> HIDE DEF x
  <2>7. P(n + 1)
    BY <2>2, <2>3, <2>5, <2>6
  <2> QED BY <2>1, <2>7
<1> HIDE DEF S, P
<1>8. l \in S
  <2>1. l \in 0..l
    BY <1>1
  <2> QED BY <1>1, <1>6, <1>7, <2>1, CountUp
<1>9. P(l)
  BY <1>8 DEF S
<1> QED BY <1>1, <1>2, <1>3, <1>9 DEF P, w

LEMMA WireLess ==
    ASSUME NEW wire \in Seq(Packet), wire # <<>>, NEW t, NEW id, Head(wire) = <<t, id>>
    PROVE  /\ OnWire(wire, t) = <<id>> \o OnWire(Tail(wire), t)
           /\ \A s : s # t => OnWire(Tail(wire), s) = OnWire(wire, s)
<1>1. <<t, id>>[1] = t /\ <<t, id>>[2] = id
  OBVIOUS
<1> QED BY <1>1, OnWireTail

LEMMA WireMore ==
    ASSUME NEW wire \in Seq(Packet), NEW t, NEW id, <<t, id>> \in Packet
    PROVE  /\ OnWire(Append(wire, <<t, id>>), t) = Append(OnWire(wire, t), id)
           /\ \A s : s # t => OnWire(Append(wire, <<t, id>>), s) = OnWire(wire, s)
<1>1. <<t, id>>[1] = t /\ <<t, id>>[2] = id
  OBVIOUS
<1> QED BY <1>1, OnWireAppend

\* A store that has not lost its place.
Cyc(i) == IF i < MAX_PUBREL_INFLT THEN i ELSE i - MAX_PUBREL_INFLT
Whole(cq) ==
    /\ cq \in [id_vec : [0..MAX_PUBREL_INFLT - 1 -> Nat], n_free : 0..MAX_PUBREL_INFLT,
               rd_idx : 0..MAX_PUBREL_INFLT - 1, wr_idx : 0..MAX_PUBREL_INFLT - 1]
    /\ cq.wr_idx = Cyc(cq.rd_idx + CqCount(cq))

LEMMA CycIs ==
    /\ MAX_PUBREL_INFLT \in Nat \ {0}
    /\ \A i \in 0..2 * MAX_PUBREL_INFLT - 1 : Masked(i) = Cyc(i) /\ Cyc(i) \in 0..MAX_PUBREL_INFLT - 1
<1>1. MAX_PUBREL_INFLT \in Nat \ {0}
  BY QoS2Assumption
<1>2. ASSUME NEW i \in 0..2 * MAX_PUBREL_INFLT - 1
      PROVE  Masked(i) = Cyc(i) /\ Cyc(i) \in 0..MAX_PUBREL_INFLT - 1
  <2>1. i \in 0..2 * MAX_PUBREL_INFLT /\ i < 2 * MAX_PUBREL_INFLT
    BY <1>1
  <2>2. i % MAX_PUBREL_INFLT = IF i < MAX_PUBREL_INFLT THEN i
                               ELSE IF i < 2 * MAX_PUBREL_INFLT THEN i - MAX_PUBREL_INFLT ELSE 0
    BY <1>1, <2>1, Round, Zenon
  <2> QED BY <1>1, <2>1, <2>2 DEF Masked, Cyc
<1> QED BY <1>1, <1>2

LEMMA CycPlaces == MAX_PUBREL_INFLT \in Nat \ {0}
BY QoS2Assumption

LEMMA CycSteps ==
    ASSUME NEW r \in 0..MAX_PUBREL_INFLT - 1, NEW n \in 0..MAX_PUBREL_INFLT
    PROVE  /\ n > 0 => Cyc(r + n) = Cyc(Cyc(r + 1) + (n - 1))
           /\ n < MAX_PUBREL_INFLT => Cyc(Cyc(r + n) + 1) = Cyc(r + (n + 1))
           /\ Cyc(r) = r
<1>1. MAX_PUBREL_INFLT \in Nat \ {0}
  BY CycIs
<1>2. /\ n > 0 => Cyc(r + n) = Cyc(Cyc(r + 1) + (n - 1))
      /\ n < MAX_PUBREL_INFLT => Cyc(Cyc(r + n) + 1) = Cyc(r + (n + 1))
      /\ Cyc(r) = r
  BY <1>1 DEF Cyc
<1> QED BY <1>2

LEMMA CycDiffers ==
    ASSUME NEW r \in 0..MAX_PUBREL_INFLT - 1, NEW n \in 0..MAX_PUBREL_INFLT - 1, NEW i \in 0..n - 1
    PROVE  Cyc(r + i) \in 0..MAX_PUBREL_INFLT - 1 /\ Cyc(r + i) # Cyc(r + n)
BY CycPlaces DEF Cyc

LEMMA WholeIs ==
    ASSUME NEW cq, Whole(cq)
    PROVE  /\ cq.id_vec \in [0..MAX_PUBREL_INFLT - 1 -> Nat] /\ cq.n_free \in 0..MAX_PUBREL_INFLT
           /\ cq.rd_idx \in 0..MAX_PUBREL_INFLT - 1 /\ cq.wr_idx \in 0..MAX_PUBREL_INFLT - 1
           /\ cq.wr_idx = Cyc(cq.rd_idx + CqCount(cq))
           /\ CqCount(cq) = MAX_PUBREL_INFLT - cq.n_free /\ CqCount(cq) \in 0..MAX_PUBREL_INFLT
BY CycIs DEF Whole, CqCount

LEMMA ActiveIs ==
    ASSUME NEW cq, Whole(cq)
    PROVE  /\ Active(cq) \in Seq(Nat) /\ Len(Active(cq)) = CqCount(cq)
           /\ \A k \in 1..CqCount(cq) : Active(cq)[k] = cq.id_vec[Cyc(cq.rd_idx + (k - 1))]
<1> DEFINE n == CqCount(cq)
           r == cq.rd_idx
           At(k) == IdAt(cq, IF k = 1 THEN cq.rd_idx ELSE Masked(cq.rd_idx + k - 1))
<1>1. /\ n \in 0..MAX_PUBREL_INFLT /\ r \in 0..MAX_PUBREL_INFLT - 1
      /\ DOMAIN cq.id_vec = 0..MAX_PUBREL_INFLT - 1 /\ \A j \in 0..MAX_PUBREL_INFLT - 1 : cq.id_vec[j] \in Nat
  BY WholeIs
<1> HIDE DEF n
<1>2. ASSUME NEW k \in 1..n PROVE At(k) = cq.id_vec[Cyc(r + (k - 1))] /\ At(k) \in Nat
  <2>1. r + (k - 1) \in 0..2 * MAX_PUBREL_INFLT - 1 /\ cq.rd_idx + k - 1 = r + (k - 1) /\ (k = 1 => r + (k - 1) = r)
    BY <1>1, CycIs
  <2> DEFINE i == r + (k - 1)
  <2> HIDE DEF i
  <2>2. Masked(i) = Cyc(i) /\ Cyc(i) \in 0..MAX_PUBREL_INFLT - 1 /\ Cyc(r) = r
    BY <1>1, <2>1, CycIs, CycSteps DEF i
  <2>3. At(k) = IdAt(cq, Cyc(i))
    BY <2>1, <2>2 DEF i
  <2> QED BY <1>1, <2>2, <2>3 DEF IdAt, i
<1> HIDE DEF At
<1>3. Active(cq) = [k \in 1..n |-> At(k)]
  BY DEF Active, At, n
<1>4. n \in Nat
  BY <1>1
<1>5. /\ Active(cq) \in Seq(Nat) /\ Len(Active(cq)) = n
      /\ \A k \in 1..n : Active(cq)[k] = cq.id_vec[Cyc(r + (k - 1))]
  <2> HIDE DEF r
  <2> QED BY <1>2, <1>3, <1>4
<1> QED BY <1>5 DEF n, r

LEMMA ResetWhole == Whole(Reset) /\ Active(Reset) = <<>>
<1>1. Whole(Reset) /\ CqCount(Reset) = 0
  BY QoS2Assumption DEF Whole, Reset, CqCount, Cyc
<1>2. Len(Active(Reset)) = 0 /\ Active(Reset) \in Seq(Nat)
  BY <1>1, ActiveIs
<1> QED BY <1>1, <1>2

LEMMA SameList ==
    ASSUME NEW a \in Seq(Nat), NEW b \in Seq(Nat), Len(a) = Len(b), \A k \in 1..Len(a) : a[k] = b[k]
    PROVE  a = b
OBVIOUS

LEMMA LogUpActive ==
    ASSUME NEW cq, Whole(cq), cq.n_free # 0, NEW id \in Nat
    PROVE  Whole(LogUp(cq, id)) /\ Active(LogUp(cq, id)) = Append(Active(cq), id)
<1> DEFINE new == LogUp(cq, id)
           n == CqCount(cq)
           r == cq.rd_idx
           w == cq.wr_idx
           f == cq.n_free
           vec == [cq.id_vec EXCEPT ![w] = id]
<1>1. /\ r \in 0..MAX_PUBREL_INFLT - 1 /\ w \in 0..MAX_PUBREL_INFLT - 1
      /\ n \in 0..MAX_PUBREL_INFLT - 1 /\ f - 1 \in 0..MAX_PUBREL_INFLT /\ n = MAX_PUBREL_INFLT - f
      /\ w = Cyc(r + n) /\ cq.id_vec \in [0..MAX_PUBREL_INFLT - 1 -> Nat] /\ f \in 1..MAX_PUBREL_INFLT
  <2>1. f \in 0..MAX_PUBREL_INFLT /\ f # 0 /\ n = MAX_PUBREL_INFLT - f
    BY WholeIs
  <2>2. f \in 1..MAX_PUBREL_INFLT /\ n \in 0..MAX_PUBREL_INFLT - 1 /\ f - 1 \in 0..MAX_PUBREL_INFLT
    <3> HIDE DEF f, n
    <3> QED BY <2>1, CycPlaces
  <2> QED BY <2>1, <2>2, WholeIs
<1> HIDE DEF r, n, w, f
<1>2. w + 1 \in 0..2 * MAX_PUBREL_INFLT - 1 /\ n \in 0..MAX_PUBREL_INFLT /\ n < MAX_PUBREL_INFLT /\ n + 1 \in 0..MAX_PUBREL_INFLT
      /\ n + 1 = MAX_PUBREL_INFLT - (f - 1)
  BY <1>1, CycPlaces
<1>3. Masked(w + 1) = Cyc(r + (n + 1)) /\ Masked(w + 1) \in 0..MAX_PUBREL_INFLT - 1
  <2>1. Masked(w + 1) = Cyc(w + 1) /\ Cyc(w + 1) \in 0..MAX_PUBREL_INFLT - 1
    BY <1>2, CycIs
  <2>2. Cyc(Cyc(r + n) + 1) = Cyc(r + (n + 1))
    BY <1>1, <1>2, CycSteps
  <2> QED BY <1>1, <2>1, <2>2
<1>4. vec \in [0..MAX_PUBREL_INFLT - 1 -> Nat] /\ vec[w] = id /\ \A j \in 0..MAX_PUBREL_INFLT - 1 : j # w => vec[j] = cq.id_vec[j]
  BY <1>1
<1>5. /\ new \in [id_vec : [0..MAX_PUBREL_INFLT - 1 -> Nat], n_free : 0..MAX_PUBREL_INFLT,
                  rd_idx : 0..MAX_PUBREL_INFLT - 1, wr_idx : 0..MAX_PUBREL_INFLT - 1]
      /\ new.id_vec = vec /\ new.n_free = f - 1 /\ new.rd_idx = r /\ new.wr_idx = Masked(w + 1)
  <2>1. cq \in [id_vec : [0..MAX_PUBREL_INFLT - 1 -> Nat], n_free : 0..MAX_PUBREL_INFLT,
                rd_idx : 0..MAX_PUBREL_INFLT - 1, wr_idx : 0..MAX_PUBREL_INFLT - 1]
    BY DEF Whole
  <2>2. new = [cq EXCEPT !.id_vec = vec, !.wr_idx = Masked(w + 1), !.n_free = f - 1]
    BY <2>1 DEF LogUp, w, f
  <2> HIDE DEF vec, new
  <2> QED BY <1>1, <1>3, <1>4, <2>1, <2>2 DEF r
<1> HIDE DEF vec, new
<1>6. CqCount(new) = n + 1
  BY <1>2, <1>5 DEF CqCount
<1>7. Whole(new)
  BY <1>3, <1>5, <1>6 DEF Whole
<1>8. /\ Active(cq) \in Seq(Nat) /\ Len(Active(cq)) = n /\ n \in Nat
      /\ \A k \in 1..n : Active(cq)[k] = cq.id_vec[Cyc(r + (k - 1))]
  BY <1>1, ActiveIs DEF n, r
<1>9. /\ Active(new) \in Seq(Nat) /\ Len(Active(new)) = n + 1
      /\ \A k \in 1..n + 1 : Active(new)[k] = vec[Cyc(r + (k - 1))]
  BY <1>5, <1>6, <1>7, ActiveIs
<1>10. ASSUME NEW k \in 1..n + 1 PROVE Active(new)[k] = Append(Active(cq), id)[k]
  <2>1. CASE k = n + 1
    <3>1. k - 1 = n
      BY <1>8, <2>1
    <3>2. Active(new)[k] = id
      BY <1>1, <1>4, <1>9, <3>1
    <3>3. Append(Active(cq), id)[n + 1] = id
      BY <1>8
    <3> QED BY <2>1, <3>2, <3>3
  <2>2. CASE k # n + 1
    <3>1. k \in 1..n /\ k - 1 \in 0..n - 1
      BY <1>8, <2>2
    <3>2. Cyc(r + (k - 1)) \in 0..MAX_PUBREL_INFLT - 1 /\ Cyc(r + (k - 1)) # w
      <4>1. \A i \in 0..n - 1 : Cyc(r + i) \in 0..MAX_PUBREL_INFLT - 1 /\ Cyc(r + i) # Cyc(r + n)
        BY <1>1, CycDiffers
      <4> QED BY <1>1, <3>1, <4>1
    <3>3. Append(Active(cq), id)[k] = Active(cq)[k]
      BY <1>8, <3>1
    <3> QED BY <1>4, <1>8, <1>9, <3>1, <3>2, <3>3
  <2> QED BY <2>1, <2>2
<1>11. Append(Active(cq), id) \in Seq(Nat) /\ Len(Append(Active(cq), id)) = n + 1
  BY <1>8
<1>12. Active(new) = Append(Active(cq), id)
  BY <1>9, <1>10, <1>11, SameList
<1> QED BY <1>7, <1>12 DEF new

LEMMA UnlogActive ==
    ASSUME NEW cq, Whole(cq), Active(cq) # <<>>, NEW id \in Nat, Head(Active(cq)) = id
    PROVE  /\ Heads(cq, id) /\ CqCheck(cq, id)
           /\ Whole(Unlog(cq, id)) /\ Active(Unlog(cq, id)) = Tail(Active(cq))
<1> DEFINE new == Unlog(cq, id)
           n == CqCount(cq)
           r == cq.rd_idx
           f == cq.n_free
<1>1. /\ r \in 0..MAX_PUBREL_INFLT - 1 /\ cq.wr_idx \in 0..MAX_PUBREL_INFLT - 1
      /\ n \in 0..MAX_PUBREL_INFLT /\ n = MAX_PUBREL_INFLT - f /\ f \in 0..MAX_PUBREL_INFLT
      /\ cq.wr_idx = Cyc(r + n) /\ cq.id_vec \in [0..MAX_PUBREL_INFLT - 1 -> Nat]
  BY WholeIs
<1> HIDE DEF n, r, f
<1>2. /\ Active(cq) \in Seq(Nat) /\ Len(Active(cq)) = n /\ n \in Nat
      /\ \A k \in 1..n : Active(cq)[k] = cq.id_vec[Cyc(r + (k - 1))]
  BY <1>1, ActiveIs DEF n, r
<1>3. n > 0 /\ Active(cq)[1] = id /\ 1 \in DOMAIN Active(cq) /\ 1 \in 1..n
  BY <1>2
<1>4. cq.id_vec[r] = id /\ r \in DOMAIN cq.id_vec
  <2>1. r + (1 - 1) = r /\ Cyc(r) = r
    BY <1>1, CycSteps
  <2> QED BY <1>1, <1>2, <1>3, <2>1
<1>5. Heads(cq, id) /\ CqCheck(cq, id)
  <2>1. CqCount(cq) > 0 /\ IdAt(cq, cq.rd_idx) = id
    BY <1>3, <1>4 DEF IdAt, n, r
  <2> QED BY <1>3, <2>1 DEF Heads, CqCheck
<1>6. Masked(r + 1) = Cyc(r + 1) /\ Cyc(r + 1) \in 0..MAX_PUBREL_INFLT - 1 /\ Cyc(r + n) = Cyc(Cyc(r + 1) + (n - 1))
      /\ n - 1 \in 0..MAX_PUBREL_INFLT
  <2>1. r + 1 \in 0..2 * MAX_PUBREL_INFLT - 1
    BY <1>1, CycPlaces
  <2>2. n - 1 \in 0..MAX_PUBREL_INFLT
    BY <1>1, <1>3, CycPlaces
  <2>3. Masked(r + 1) = Cyc(r + 1) /\ Cyc(r + 1) \in 0..MAX_PUBREL_INFLT - 1
    BY <2>1, CycIs
  <2>4. Cyc(r + n) = Cyc(Cyc(r + 1) + (n - 1))
    BY <1>1, <1>3, CycSteps
  <2> QED BY <2>2, <2>3, <2>4
<1>7. /\ new \in [id_vec : [0..MAX_PUBREL_INFLT - 1 -> Nat], n_free : 0..MAX_PUBREL_INFLT,
                  rd_idx : 0..MAX_PUBREL_INFLT - 1, wr_idx : 0..MAX_PUBREL_INFLT - 1]
      /\ new.id_vec = cq.id_vec /\ new.n_free = f + 1 /\ new.rd_idx = Cyc(r + 1) /\ new.wr_idx = cq.wr_idx
  <2>1. cq \in [id_vec : [0..MAX_PUBREL_INFLT - 1 -> Nat], n_free : 0..MAX_PUBREL_INFLT,
                rd_idx : 0..MAX_PUBREL_INFLT - 1, wr_idx : 0..MAX_PUBREL_INFLT - 1]
    BY DEF Whole
  <2>2. new = [cq EXCEPT !.rd_idx = Cyc(r + 1), !.n_free = f + 1]
    BY <1>5, <1>6, <2>1 DEF Unlog, r, f
  <2>3. f + 1 \in 0..MAX_PUBREL_INFLT
    BY <1>1, <1>3, CycPlaces
  <2> HIDE DEF new
  <2> QED BY <1>6, <2>1, <2>2, <2>3
<1> HIDE DEF new
<1>8. CqCount(new) = n - 1
  <2>1. n - 1 = MAX_PUBREL_INFLT - (f + 1)
    BY <1>1, CycPlaces
  <2> QED BY <1>7, <2>1 DEF CqCount
<1>9. Whole(new)
  BY <1>1, <1>6, <1>7, <1>8 DEF Whole
<1>10. /\ Active(new) \in Seq(Nat) /\ Len(Active(new)) = n - 1
       /\ \A k \in 1..n - 1 : Active(new)[k] = cq.id_vec[Cyc(Cyc(r + 1) + (k - 1))]
  BY <1>7, <1>8, <1>9, ActiveIs
<1>11. ASSUME NEW k \in 1..n - 1 PROVE Active(new)[k] = Tail(Active(cq))[k]
  <2>1. k \in 0..MAX_PUBREL_INFLT /\ k > 0
    BY <1>1, CycPlaces
  <2>2. Cyc(Cyc(r + 1) + (k - 1)) = Cyc(r + k)
    BY <1>1, <2>1, CycSteps
  <2>3. k + 1 \in 1..n /\ (k + 1) - 1 = k /\ Tail(Active(cq))[k] = Active(cq)[k + 1]
    BY <1>2, <1>3
  <2> QED BY <1>2, <1>10, <2>2, <2>3
<1>12. Tail(Active(cq)) \in Seq(Nat) /\ Len(Tail(Active(cq))) = n - 1
  BY <1>2, <1>3
<1>13. Active(new) = Tail(Active(cq))
  BY <1>10, <1>11, <1>12, SameList
<1> QED BY <1>5, <1>9, <1>13 DEF new

\* StoresFollowTheWire, for stores that have not lost their place.
FollowsNow ==
    /\ Whole(qos2_tx_cq) /\ Whole(qos2_rx_cq)
    /\ Active(qos2_tx_cq) = OnWire(down, "PUBCOMP") \o OnWire(up, "PUBREL")
    /\ Active(qos2_rx_cq) = OnWire(down, "PUBREL") \o OnWire(up, "PUBREC")
    /\ qos_ack1_wl = OnWire(down, "PUBREC") \o OnWire(up, "PUBLISH")
Follows == is_cln_session /\ now_connected => FollowsNow

LEMMA FollowsStep ==
    ASSUME WiresOK, FollowsNow, is_cln_session, now_connected, now_connected',
           Publish \/ ClientReceives \/ BrokerReceives \/ BrokerPublish
    PROVE  FollowsNow'
<1>a. up \in Seq(Packet) /\ down \in Seq(Packet) /\ published \in Nat /\ brokerNext \in Nat
  BY DEF WiresOK
<1>b. \A id \in QosIds : id \in Nat
  BY QoS2Assumption DEF QosIds
<1>c. \A type \in {"PUBLISH", "PUBREC", "PUBREL", "PUBCOMP"}, id \in Nat : <<type, id>> \in Packet
  BY DEF Packet
<1>d. \A type : OnWire(up, type) \in Seq(Nat) /\ OnWire(down, type) \in Seq(Nat)
  BY <1>a, OnWireType
<1>e. up # <<>> => \A type : OnWire(Tail(up), type) \in Seq(Nat)
  <2>1. up # <<>> => Tail(up) \in Seq(Packet)
    BY <1>a
  <2> QED BY <2>1, OnWireType, Zenon
<1>f. down # <<>> => \A type : OnWire(Tail(down), type) \in Seq(Nat)
  <2>1. down # <<>> => Tail(down) \in Seq(Packet)
    BY <1>a
  <2> QED BY <2>1, OnWireType, Zenon
<1>g. ~DoNetClose
  BY DEF DoNetClose
<1>1. CASE Publish
  <2>1. /\ published' \in Nat /\ up' = Append(up, <<"PUBLISH", published'>>) /\ down' = down
        /\ qos_ack1_wl' = Append(qos_ack1_wl, published') /\ UNCHANGED <<qos2_tx_cq, qos2_rx_cq>>
    BY <1>1, <1>a DEF Publish
  <2>2. /\ OnWire(up', "PUBLISH") = Append(OnWire(up, "PUBLISH"), published')
        /\ OnWire(up', "PUBREL") = OnWire(up, "PUBREL") /\ OnWire(up', "PUBREC") = OnWire(up, "PUBREC")
    BY <1>a, <1>c, <2>1, WireMore
  <2>3. OnWire(down, "PUBREC") \o Append(OnWire(up, "PUBLISH"), published')
            = Append(OnWire(down, "PUBREC") \o OnWire(up, "PUBLISH"), published')
    <3>1. OnWire(down, "PUBREC") \in Seq(Nat) /\ OnWire(up, "PUBLISH") \in Seq(Nat) /\ published' \in Nat
      BY <1>d, <2>1
    <3> QED BY <3>1
  <2> QED BY <2>1, <2>2, <2>3 DEF FollowsNow
<1>2. ASSUME NEW id \in QosIds, ProcPubRecRx(id) PROVE FollowsNow'
  <2>1. /\ down # <<>> /\ Head(down) = <<"PUBREC", id>> /\ qos2_tx_cq.n_free # 0
        /\ qos_ack1_wl' = Tail(qos_ack1_wl) /\ qos2_tx_cq' = LogUp(qos2_tx_cq, id) /\ qos2_rx_cq' = qos2_rx_cq
        /\ up' = Append(up, <<"PUBREL", id>>) /\ down' = Tail(down)
    BY <1>2, <1>g DEF ProcPubRecRx, Rejects, Arrives, Answers
  <2>2. id \in Nat /\ <<"PUBREL", id>> \in Packet
    BY <1>b, <1>c
  <2>3. /\ OnWire(down, "PUBREC") = <<id>> \o OnWire(down', "PUBREC")
        /\ OnWire(down', "PUBREL") = OnWire(down, "PUBREL") /\ OnWire(down', "PUBCOMP") = OnWire(down, "PUBCOMP")
    BY <1>a, <2>1, WireLess
  <2>4. /\ OnWire(up', "PUBREL") = Append(OnWire(up, "PUBREL"), id)
        /\ OnWire(up', "PUBLISH") = OnWire(up, "PUBLISH") /\ OnWire(up', "PUBREC") = OnWire(up, "PUBREC")
    BY <1>a, <2>1, <2>2, WireMore
  <2>5. Whole(qos2_tx_cq') /\ Active(qos2_tx_cq') = Append(Active(qos2_tx_cq), id)
    BY <2>1, <2>2, LogUpActive DEF FollowsNow
  <2>6. OnWire(down', "PUBREC") \in Seq(Nat)
    BY <1>f, <2>1
  <2>7. Tail(qos_ack1_wl) = OnWire(down', "PUBREC") \o OnWire(up, "PUBLISH")
    <3>1. Tail((<<id>> \o OnWire(down', "PUBREC")) \o OnWire(up, "PUBLISH")) = OnWire(down', "PUBREC") \o OnWire(up, "PUBLISH")
      <4>1. OnWire(up, "PUBLISH") \in Seq(Nat)
        BY <1>d
      <4> QED BY <2>2, <2>6, <4>1
    <3> QED BY <2>3, <3>1, Zenon DEF FollowsNow
  <2>8. OnWire(down, "PUBCOMP") \o Append(OnWire(up, "PUBREL"), id)
            = Append(OnWire(down, "PUBCOMP") \o OnWire(up, "PUBREL"), id)
    <3>1. OnWire(down, "PUBCOMP") \in Seq(Nat) /\ OnWire(up, "PUBREL") \in Seq(Nat)
      BY <1>d
    <3> QED BY <2>2, <3>1
  <2> QED BY <2>1, <2>3, <2>4, <2>5, <2>7, <2>8 DEF FollowsNow
<1>3. ASSUME NEW id \in QosIds, Ack2MsgIdUnlog(id) PROVE FollowsNow'
  <2>1. /\ down # <<>> /\ Head(down) = <<"PUBCOMP", id>>
        /\ qos2_tx_cq' = Unlog(qos2_tx_cq, id) /\ down' = Tail(down)
        /\ UNCHANGED <<qos_ack1_wl, qos2_rx_cq, up>>
    BY <1>3, <1>g DEF Ack2MsgIdUnlog, Rejects, Arrives
  <2>2. id \in Nat
    BY <1>b
  <2>3. /\ OnWire(down, "PUBCOMP") = <<id>> \o OnWire(down', "PUBCOMP")
        /\ OnWire(down', "PUBREL") = OnWire(down, "PUBREL") /\ OnWire(down', "PUBREC") = OnWire(down, "PUBREC")
    BY <1>a, <2>1, WireLess
  <2>4. OnWire(down', "PUBCOMP") \in Seq(Nat)
    BY <1>f, <2>1
  <2>5. /\ Active(qos2_tx_cq) # <<>> /\ Head(Active(qos2_tx_cq)) = id
        /\ Tail(Active(qos2_tx_cq)) = OnWire(down', "PUBCOMP") \o OnWire(up, "PUBREL")
    <3> DEFINE ids == (<<id>> \o OnWire(down', "PUBCOMP")) \o OnWire(up, "PUBREL")
    <3>1. ids # <<>> /\ Head(ids) = id /\ Tail(ids) = OnWire(down', "PUBCOMP") \o OnWire(up, "PUBREL")
      <4>1. OnWire(up, "PUBREL") \in Seq(Nat)
        BY <1>d
      <4>2. ids # <<>> /\ Head(ids) = id
        BY <2>2, <2>4, <4>1
      <4>3. Tail(ids) = OnWire(down', "PUBCOMP") \o OnWire(up, "PUBREL")
        BY <2>2, <2>4, <4>1
      <4> QED BY <4>2, <4>3
    <3>2. Active(qos2_tx_cq) = ids
      BY <2>3, Zenon DEF FollowsNow
    <3> QED BY <3>1, <3>2, Zenon
  <2>6. Whole(qos2_tx_cq') /\ Active(qos2_tx_cq') = Tail(Active(qos2_tx_cq))
    BY <2>1, <2>2, <2>5, UnlogActive DEF FollowsNow
  <2> QED BY <2>1, <2>3, <2>5, <2>6 DEF FollowsNow
<1>4. ASSUME NEW id \in QosIds, ProcPubRx(id) PROVE FollowsNow'
  <2>1. /\ down # <<>> /\ Head(down) = <<"PUBLISH", id>> /\ down' = Tail(down)
        /\ UNCHANGED <<qos_ack1_wl, qos2_tx_cq>>
        /\ \/ UNCHANGED <<qos2_rx_cq, up>>
           \/ /\ qos2_rx_cq.n_free # 0 /\ qos2_rx_cq' = LogUp(qos2_rx_cq, id)
              /\ up' = Append(up, <<"PUBREC", id>>)
    BY <1>4, <1>g DEF ProcPubRx, Rejects, Arrives, Answers, stores
  <2>2. id \in Nat /\ <<"PUBREC", id>> \in Packet
    BY <1>b, <1>c
  <2>3. /\ OnWire(down', "PUBREC") = OnWire(down, "PUBREC") /\ OnWire(down', "PUBREL") = OnWire(down, "PUBREL")
        /\ OnWire(down', "PUBCOMP") = OnWire(down, "PUBCOMP")
    <3>1. /\ OnWire(down, "PUBLISH") = <<id>> \o OnWire(down', "PUBLISH")
          /\ OnWire(down', "PUBREC") = OnWire(down, "PUBREC") /\ OnWire(down', "PUBREL") = OnWire(down, "PUBREL")
      BY <1>a, <2>1, WireLess
    <3>2. /\ OnWire(down, "PUBLISH") = <<id>> \o OnWire(down', "PUBLISH")
          /\ OnWire(down', "PUBCOMP") = OnWire(down, "PUBCOMP")
      BY <1>a, <2>1, WireLess
    <3> QED BY <3>1, <3>2
  <2>4. CASE UNCHANGED <<qos2_rx_cq, up>>
    BY <2>1, <2>3, <2>4 DEF FollowsNow
  <2>5. CASE /\ qos2_rx_cq.n_free # 0 /\ qos2_rx_cq' = LogUp(qos2_rx_cq, id)
             /\ up' = Append(up, <<"PUBREC", id>>)
    <3>1. /\ OnWire(up', "PUBREC") = Append(OnWire(up, "PUBREC"), id)
          /\ OnWire(up', "PUBLISH") = OnWire(up, "PUBLISH") /\ OnWire(up', "PUBREL") = OnWire(up, "PUBREL")
      BY <1>a, <2>2, <2>5, WireMore
    <3>2. Whole(qos2_rx_cq') /\ Active(qos2_rx_cq') = Append(Active(qos2_rx_cq), id)
      BY <2>2, <2>5, LogUpActive DEF FollowsNow
    <3>3. OnWire(down, "PUBREL") \o Append(OnWire(up, "PUBREC"), id)
              = Append(OnWire(down, "PUBREL") \o OnWire(up, "PUBREC"), id)
      <4>1. OnWire(down, "PUBREL") \in Seq(Nat) /\ OnWire(up, "PUBREC") \in Seq(Nat)
        BY <1>d
      <4> QED BY <2>2, <4>1
    <3> QED BY <2>1, <2>3, <3>1, <3>2, <3>3 DEF FollowsNow
  <2> QED BY <2>1, <2>4, <2>5
<1>5. ASSUME NEW id \in QosIds, ProcPubRelRx(id) PROVE FollowsNow'
  <2>1. /\ down # <<>> /\ Head(down) = <<"PUBREL", id>> /\ down' = Tail(down)
        /\ up' = Append(up, <<"PUBCOMP", id>>)
        /\ qos2_rx_cq' = IF CqCheck(qos2_rx_cq, id) THEN Unlog(qos2_rx_cq, id) ELSE qos2_rx_cq
        /\ UNCHANGED <<qos_ack1_wl, qos2_tx_cq>>
    BY <1>5 DEF ProcPubRelRx, Arrives, Answers
  <2>2. id \in Nat /\ <<"PUBCOMP", id>> \in Packet
    BY <1>b, <1>c
  <2>3. /\ OnWire(down, "PUBREL") = <<id>> \o OnWire(down', "PUBREL")
        /\ OnWire(down', "PUBREC") = OnWire(down, "PUBREC") /\ OnWire(down', "PUBCOMP") = OnWire(down, "PUBCOMP")
    BY <1>a, <2>1, WireLess
  <2>4. /\ OnWire(up', "PUBREC") = OnWire(up, "PUBREC") /\ OnWire(up', "PUBLISH") = OnWire(up, "PUBLISH")
        /\ OnWire(up', "PUBREL") = OnWire(up, "PUBREL")
    <3>1. /\ OnWire(up', "PUBCOMP") = Append(OnWire(up, "PUBCOMP"), id)
          /\ OnWire(up', "PUBREC") = OnWire(up, "PUBREC") /\ OnWire(up', "PUBLISH") = OnWire(up, "PUBLISH")
      BY <1>a, <2>1, <2>2, WireMore
    <3>2. /\ OnWire(up', "PUBCOMP") = Append(OnWire(up, "PUBCOMP"), id)
          /\ OnWire(up', "PUBREL") = OnWire(up, "PUBREL")
      BY <1>a, <2>1, <2>2, WireMore
    <3> QED BY <3>1, <3>2
  <2>5. OnWire(down', "PUBREL") \in Seq(Nat)
    BY <1>f, <2>1
  <2>6. /\ Active(qos2_rx_cq) # <<>> /\ Head(Active(qos2_rx_cq)) = id
        /\ Tail(Active(qos2_rx_cq)) = OnWire(down', "PUBREL") \o OnWire(up, "PUBREC")
    <3> DEFINE ids == (<<id>> \o OnWire(down', "PUBREL")) \o OnWire(up, "PUBREC")
    <3>1. ids # <<>> /\ Head(ids) = id /\ Tail(ids) = OnWire(down', "PUBREL") \o OnWire(up, "PUBREC")
      <4>1. OnWire(up, "PUBREC") \in Seq(Nat)
        BY <1>d
      <4>2. ids # <<>> /\ Head(ids) = id
        BY <2>2, <2>5, <4>1
      <4>3. Tail(ids) = OnWire(down', "PUBREL") \o OnWire(up, "PUBREC")
        BY <2>2, <2>5, <4>1
      <4> QED BY <4>2, <4>3
    <3>2. Active(qos2_rx_cq) = ids
      BY <2>3, Zenon DEF FollowsNow
    <3> QED BY <3>1, <3>2, Zenon
  <2>7. Whole(qos2_rx_cq') /\ Active(qos2_rx_cq') = Tail(Active(qos2_rx_cq))
    BY <2>1, <2>2, <2>6, UnlogActive DEF FollowsNow
  <2> QED BY <2>1, <2>3, <2>4, <2>6, <2>7 DEF FollowsNow
<1>6. CASE BrokerReceives
  <2>1. PICK id \in QosIds :
          /\ UNCHANGED stores
          /\ \/ BrokerGets("PUBLISH", id) /\ Says("PUBREC", id)
             \/ BrokerGets("PUBREL", id) /\ Says("PUBCOMP", id)
             \/ BrokerGets("PUBREC", id) /\ Says("PUBREL", id)
             \/ BrokerGets("PUBCOMP", id) /\ down' = down
    BY <1>6 DEF BrokerReceives, BrokerGets
  <2> DEFINE Passes(s, t) == up # <<>> /\ Head(up) = <<s, id>> /\ up' = Tail(up) /\ down' = Append(down, <<t, id>>)
  <2>2. id \in Nat /\ up # <<>> /\ up' = Tail(up) /\ UNCHANGED <<qos_ack1_wl, qos2_tx_cq, qos2_rx_cq>>
    BY <1>b, <2>1 DEF BrokerGets, stores
  <2>3. ASSUME NEW s \in {"PUBLISH", "PUBREC", "PUBREL"}, NEW t \in {"PUBREC", "PUBREL", "PUBCOMP"},
               BrokerGets(s, id), Says(t, id)
        PROVE  /\ OnWire(down', t) \o OnWire(up', s) = OnWire(down, t) \o OnWire(up, s)
               /\ \A r : r # s => OnWire(up', r) = OnWire(up, r)
               /\ \A r : r # t => OnWire(down', r) = OnWire(down, r)
    <3>1. /\ Head(up) = <<s, id>> /\ down' = Append(down, <<t, id>>) /\ <<t, id>> \in Packet
      BY <1>c, <2>2, <2>3 DEF BrokerGets, Says
    <3>2. OnWire(up, s) = <<id>> \o OnWire(up', s) /\ \A r : r # s => OnWire(up', r) = OnWire(up, r)
      BY <1>a, <2>2, <3>1, WireLess
    <3>3. OnWire(down', t) = Append(OnWire(down, t), id) /\ \A r : r # t => OnWire(down', r) = OnWire(down, r)
      BY <1>a, <3>1, WireMore
    <3>4. OnWire(up', s) \in Seq(Nat)
      BY <1>e, <2>2
    <3>5. Append(OnWire(down, t), id) \o OnWire(up', s) = OnWire(down, t) \o (<<id>> \o OnWire(up', s))
      <4>1. OnWire(down, t) \in Seq(Nat)
        BY <1>d
      <4> QED BY <2>2, <3>4, <4>1
    <3> QED BY <3>2, <3>3, <3>5, Zenon
  <2>4. CASE BrokerGets("PUBLISH", id) /\ Says("PUBREC", id)
    BY <2>2, <2>3, <2>4 DEF FollowsNow
  <2>5. CASE BrokerGets("PUBREL", id) /\ Says("PUBCOMP", id)
    BY <2>2, <2>3, <2>5 DEF FollowsNow
  <2>6. CASE BrokerGets("PUBREC", id) /\ Says("PUBREL", id)
    BY <2>2, <2>3, <2>6 DEF FollowsNow
  <2>7. CASE BrokerGets("PUBCOMP", id) /\ down' = down
    <3>1. Head(up) = <<"PUBCOMP", id>>
      BY <2>7 DEF BrokerGets
    <3>2. /\ OnWire(up, "PUBCOMP") = <<id>> \o OnWire(up', "PUBCOMP")
          /\ OnWire(up', "PUBLISH") = OnWire(up, "PUBLISH") /\ OnWire(up', "PUBREC") = OnWire(up, "PUBREC")
      BY <1>a, <2>2, <3>1, WireLess
    <3>3. /\ OnWire(up, "PUBCOMP") = <<id>> \o OnWire(up', "PUBCOMP")
          /\ OnWire(up', "PUBREL") = OnWire(up, "PUBREL")
      BY <1>a, <2>2, <3>1, WireLess
    <3> QED BY <2>2, <2>7, <3>2, <3>3 DEF FollowsNow
  <2> QED BY <2>1, <2>4, <2>5, <2>6, <2>7
<1>7. CASE BrokerPublish
  <2>1. /\ brokerNext' \in Nat /\ down' = Append(down, <<"PUBLISH", brokerNext'>>)
        /\ UNCHANGED <<up, qos_ack1_wl, qos2_tx_cq, qos2_rx_cq>>
    BY <1>7, <1>a DEF BrokerPublish, Says, stores
  <2>2. \A r : r # "PUBLISH" => OnWire(down', r) = OnWire(down, r)
    <3>1. <<"PUBLISH", brokerNext'>> \in Packet
      BY <1>c, <2>1
    <3>2. \A r : r # "PUBLISH" => OnWire(Append(down, <<"PUBLISH", brokerNext'>>), r) = OnWire(down, r)
      BY <1>a, <3>1, WireMore
    <3> QED BY <2>1, <3>2
  <2> QED BY <2>1, <2>2 DEF FollowsNow
<1> QED BY <1>1, <1>2, <1>3, <1>4, <1>5, <1>6, <1>7 DEF ClientReceives

LEMMA FollowsFromStart ==
    ASSUME up = <<>>, down = <<>>, qos_ack1_wl = <<>>, qos2_tx_cq = Reset, qos2_rx_cq = Reset
    PROVE  FollowsNow
<1>1. <<>> \o <<>> = <<>>
  OBVIOUS
<1> QED BY <1>1, OnWireEmpty, ResetWhole DEF FollowsNow

LEMMA FollowsAgain ==
    ASSUME up' = <<>>, down' = <<>>, qos_ack1_wl' = <<>>, qos2_tx_cq' = Reset, qos2_rx_cq' = Reset
    PROVE  FollowsNow'
<1>1. <<>> \o <<>> = <<>>
  OBVIOUS
<1> QED BY <1>1, OnWireEmpty, ResetWhole DEF FollowsNow

LEMMA FollowsNext == WiresOK /\ Follows /\ [QosNext]_qosVars => Follows'
<1> SUFFICES ASSUME WiresOK, Follows, [QosNext]_qosVars, is_cln_session', now_connected'
             PROVE  FollowsNow'
  BY DEF Follows
<1>1. is_cln_session
  BY DEF QosNext, Publish, ClientReceives, BrokerReceives, BrokerPublish, Lose, ProcConnackRx, qosVars,
         BrokerGets, ProcPubRecRx, Ack2MsgIdUnlog, ProcPubRx, ProcPubRelRx, Keeps, Rejects
<1>2. CASE ProcConnackRx
  BY <1>1, <1>2, FollowsAgain DEF ProcConnackRx, SessionDelete
<1>3. CASE Publish \/ ClientReceives \/ BrokerReceives \/ BrokerPublish
  <2>1. now_connected
    BY <1>3 DEF Publish, ClientReceives, BrokerReceives, BrokerPublish, BrokerGets,
                ProcPubRecRx, Ack2MsgIdUnlog, ProcPubRx, ProcPubRelRx, Keeps, Rejects, DoNetClose
  <2> QED BY <1>1, <1>3, <2>1, FollowsStep DEF Follows
<1>4. CASE Lose
  BY <1>4 DEF Lose, DoNetClose
<1>5. CASE UNCHANGED qosVars
  BY <1>1, <1>5 DEF qosVars, stores, Follows, FollowsNow
<1> QED BY <1>2, <1>3, <1>4, <1>5 DEF QosNext

\* In a clean session the stores hold the identifiers under way, in the order of
\* the packets (StoresFollowTheWire): each acknowledgement finds the identifier
\* it is for at the place where unlog compares.
THEOREM StoresHoldWhatIsUnderWay == QosSpec => []StoresFollowTheWire
<1>1. QosInit => WiresOK /\ Follows
  BY OnceInit, FollowsFromStart DEF OnceInv, Follows, QosInit
<1>2. WiresOK /\ Follows /\ [QosNext]_qosVars => (WiresOK /\ Follows)'
  BY WiresNext, FollowsNext
<1>3. Follows => StoresFollowTheWire
  BY DEF Follows, FollowsNow, StoresFollowTheWire
<1> QED BY <1>1, <1>2, <1>3, PTL DEF QosSpec

-----------------------------------------------------------------------------
(* The line of the console, with its history.                              *)

\* What can be in a line.
LineChars == Letters \cup {"[", "A", "B"}

LineTyped ==
    /\ DOMAIN historyBuffer = 0..HISTORY_SIZE - 1 /\ historyBufIndex \in 0..HISTORY_SIZE - 1
    /\ \A i \in 0..HISTORY_SIZE - 1 : historyBuffer[i] \in LineChars \cup {Nul}
    /\ historyOffset \in [0..HISTORY_DEPTH - 1 -> 0..HISTORY_SIZE - 1]
    /\ historyNext \in 0..HISTORY_DEPTH - 1 /\ historyCur \in -1..HISTORY_DEPTH - 1
    /\ historyCnt \in 0..HISTORY_DEPTH
    /\ pcBuf \in Seq(LineChars) /\ Len(pcBuf) < LineLen

\* A terminator is never further than a line away, and one precedes the place
\* where the next line will be put.
Terminated ==
    /\ \A a \in 0..HISTORY_SIZE - 1 : \E k \in 0..LineLen - 1 : historyBuffer[Cell(a + k)] = Nul
    /\ historyBuffer[Cell(historyBufIndex + HISTORY_SIZE - 1)] = Nul

Remembers == historyCnt > 0 => Entry(Before(historyNext)) = lastEntered

LineInv == LineTyped /\ Terminated /\ Remembers

LEMMA CellRange == \A i \in 0..2 * HISTORY_SIZE - 1 :
    /\ Cell(i) = IF i < HISTORY_SIZE THEN i ELSE i - HISTORY_SIZE
    /\ Cell(i) \in 0..HISTORY_SIZE - 1
<1> SUFFICES ASSUME NEW i \in 0..2 * HISTORY_SIZE - 1
             PROVE  /\ Cell(i) = IF i < HISTORY_SIZE THEN i ELSE i - HISTORY_SIZE
                    /\ Cell(i) \in 0..HISTORY_SIZE - 1
  OBVIOUS
<1>1. HISTORY_SIZE \in Nat \ {0} /\ i \in 0..2 * HISTORY_SIZE /\ i < 2 * HISTORY_SIZE
  BY LineEditorAssumption
<1>2. i % HISTORY_SIZE = IF i < HISTORY_SIZE THEN i ELSE i - HISTORY_SIZE
  BY <1>1, Round
<1> QED BY <1>1, <1>2 DEF Cell

\* The entry at an offset of an array of characters.
LengthIn(buf, from) == CHOOSE n \in 0..HISTORY_SIZE :
    /\ n = HISTORY_SIZE \/ buf[Cell(from + n)] = Nul
    /\ \A k \in 0..n - 1 : buf[Cell(from + k)] # Nul
EntryIn(buf, from) == [k \in 1..LengthIn(buf, from) |-> buf[Cell(from + k - 1)]]

LEMMA LengthIs ==
    ASSUME NEW buf, NEW from, NEW x \in 0..HISTORY_SIZE, x < HISTORY_SIZE,
           buf[Cell(from + x)] = Nul, \A k \in 0..x - 1 : buf[Cell(from + k)] # Nul
    PROVE  LengthIn(buf, from) = x
<1> DEFINE Ends(n) == /\ n = HISTORY_SIZE \/ buf[Cell(from + n)] = Nul
                      /\ \A k \in 0..n - 1 : buf[Cell(from + k)] # Nul
<1>1. \A n \in 0..HISTORY_SIZE : Ends(n) => n = x
  <2> SUFFICES ASSUME NEW n \in 0..HISTORY_SIZE, Ends(n) PROVE n = x
    BY Zenon
  <2>1. ~(x < n)
    OBVIOUS
  <2>2. ~(n < x)
    BY LineEditorAssumption
  <2> QED BY <2>1, <2>2
<1>2. Ends(x)
  OBVIOUS
<1>3. LengthIn(buf, from) = CHOOSE n \in 0..HISTORY_SIZE : Ends(n)
  BY Zenon DEF LengthIn
<1> HIDE DEF Ends
<1> QED BY <1>1, <1>2, <1>3

\* The length of what is copied from an offset.
LEMMA EntryEnds ==
    ASSUME LineTyped, Terminated, NEW from \in 0..HISTORY_SIZE - 1
    PROVE  /\ EntryLen(from) \in 0..LineLen - 1
           /\ historyBuffer[Cell(from + EntryLen(from))] = Nul
           /\ \A k \in 0..EntryLen(from) - 1 : historyBuffer[Cell(from + k)] # Nul
<1> DEFINE T == {k \in 0..LineLen - 1 : historyBuffer[Cell(from + k)] = Nul}
<1>0. \E k \in 0..LineLen - 1 : historyBuffer[Cell(from + k)] = Nul
  BY DEF Terminated
<1>1. T \subseteq Nat /\ T # {}
  BY <1>0
<1>2. PICK x \in T : \A y \in T : x <= y
  BY <1>1, Least, Zenon
<1>3. /\ x \in 0..LineLen - 1 /\ x \in 0..HISTORY_SIZE /\ x < HISTORY_SIZE /\ historyBuffer[Cell(from + x)] = Nul
      /\ \A k \in 0..x - 1 : historyBuffer[Cell(from + k)] # Nul
  BY <1>2, LineEditorAssumption
<1> HIDE DEF T
<1>4. EntryLen(from) = LengthIn(historyBuffer, from)
  BY Zenon DEF EntryLen, LengthIn
<1>5. EntryLen(from) = x
  BY <1>3, <1>4, LengthIs
<1> QED BY <1>3, <1>5

LEMMA EntryType ==
    ASSUME LineTyped, Terminated, NEW i \in 0..HISTORY_DEPTH - 1
    PROVE  Entry(i) \in Seq(LineChars) /\ Len(Entry(i)) < LineLen
<1> DEFINE from == historyOffset[i]
           n == EntryLen(from)
<1>1. from \in 0..HISTORY_SIZE - 1
  BY DEF LineTyped
<1> HIDE DEF from
<1>2. n \in 0..LineLen - 1 /\ \A k \in 0..n - 1 : historyBuffer[Cell(from + k)] # Nul
  BY <1>1, EntryEnds, Zenon
<1> HIDE DEF n
<1>3. \A k \in 0..n - 1 : historyBuffer[Cell(from + k)] \in LineChars
  <2> SUFFICES ASSUME NEW k \in 0..n - 1 PROVE historyBuffer[Cell(from + k)] \in LineChars
    OBVIOUS
  <2>1. from + k \in 0..2 * HISTORY_SIZE - 1
    BY <1>1, <1>2, LineEditorAssumption
  <2> QED BY <1>2, <2>1, CellRange DEF LineTyped
<1>4. \A k \in 1..n : historyBuffer[Cell(from + k - 1)] \in LineChars
  <2> SUFFICES ASSUME NEW k \in 1..n PROVE historyBuffer[Cell(from + k - 1)] \in LineChars
    OBVIOUS
  <2>1. k - 1 \in 0..n - 1 /\ from + (k - 1) = from + k - 1
    BY <1>1, <1>2
  <2> QED BY <1>3, <2>1
<1>5. Entry(i) = [k \in 1..n |-> historyBuffer[Cell(from + k - 1)]]
  BY Zenon DEF Entry, n, from
<1>6. n \in Nat /\ n < LineLen
  BY <1>2, LineEditorAssumption
<1> QED BY <1>4, <1>5, <1>6

\* A line that is added: the cells, and what is found of it.
LEMMA AddKeeps ==
    ASSUME LineTyped, Terminated, NEW line \in Seq(LineChars), Len(line) < LineLen, Add(line)
    PROVE  /\ DOMAIN historyBuffer' = 0..HISTORY_SIZE - 1 /\ historyBufIndex' \in 0..HISTORY_SIZE - 1
           /\ \A i \in 0..HISTORY_SIZE - 1 : historyBuffer'[i] \in LineChars \cup {Nul}
           /\ Terminated'
           /\ \A k \in 0..Len(line) - 1 : historyBuffer'[Cell(historyBufIndex + k)] = line[k + 1]
           /\ historyBuffer'[Cell(historyBufIndex + Len(line))] = Nul
<1> DEFINE size == HISTORY_SIZE
           put == historyBufIndex
           len == Len(line)
           Place(i) == (i - put + size) % size
           Round1(i) == IF i < size THEN i ELSE i - size
<1>1. /\ size \in Nat /\ put \in 0..size - 1 /\ len \in Nat /\ len < LineLen /\ LineLen \in Nat /\ LineLen < size
      /\ \A k \in 1..len : line[k] \in LineChars
  BY LineEditorAssumption DEF LineTyped
<1>2. \A i \in 0..size - 1 : Place(i) = IF i >= put THEN i - put ELSE i - put + size
  <2> SUFFICES ASSUME NEW i \in 0..size - 1 PROVE Place(i) = IF i >= put THEN i - put ELSE i - put + size
    OBVIOUS
  <2>1. i - put + size \in 0..2 * size - 1
    BY <1>1
  <2> DEFINE x == i - put + size
  <2>2. \A n \in 0..2 * size - 1 : n % size = IF n < size THEN n ELSE n - size
    BY CellRange DEF Cell
  <2>3. x % size = IF x < size THEN x ELSE x - size
    BY <2>1, <2>2, Zenon
  <2> QED BY <1>1, <2>3
<1>3. \A i \in 0..2 * size - 1 : Cell(i) = Round1(i)
  BY CellRange
<1>4. DOMAIN historyBuffer = 0..size - 1 /\ DOMAIN historyBuffer' = 0..size - 1
  BY DEF LineTyped, Add
<1>5. \A i \in 0..size - 1 : historyBuffer'[i] =
          IF Place(i) < len THEN line[Place(i) + 1] ELSE IF Place(i) = len THEN Nul ELSE historyBuffer[i]
  BY <1>4 DEF Add
<1> HIDE DEF size, put, len, Place
<1>6. ASSUME NEW i \in 0..size - 1 PROVE historyBuffer'[i] \in LineChars \cup {Nul}
  <2>1. Place(i) \in Nat
    BY <1>1, <1>2
  <2>2. historyBuffer[i] \in LineChars \cup {Nul}
    BY DEF LineTyped, size
  <2>3. Place(i) < len => line[Place(i) + 1] \in LineChars
    BY <1>1, <2>1
  <2> QED BY <1>5, <2>2, <2>3
<1>7. \A k \in 0..len - 1 : historyBuffer'[Cell(put + k)] = line[k + 1]
  <2> SUFFICES ASSUME NEW k \in 0..len - 1 PROVE historyBuffer'[Cell(put + k)] = line[k + 1]
    OBVIOUS
  <2>1. Cell(put + k) = Round1(put + k) /\ Cell(put + k) \in 0..size - 1
    BY <1>1, <1>3
  <2>2. Place(Cell(put + k)) = k
    BY <1>1, <1>2, <2>1
  <2> QED BY <1>1, <1>5, <2>1, <2>2
<1>8. historyBuffer'[Cell(put + len)] = Nul
  <2>1. Cell(put + len) = Round1(put + len) /\ Cell(put + len) \in 0..size - 1
    BY <1>1, <1>3
  <2>2. Place(Cell(put + len)) = len
    BY <1>1, <1>2, <2>1
  <2> QED BY <1>1, <1>5, <2>1, <2>2
<1>9. historyBufIndex' = Cell(put + len + 1) /\ historyBufIndex' = Round1(put + len + 1) /\ historyBufIndex' \in 0..size - 1
  <2>1. historyBufIndex' = Cell(put + len + 1)
    BY DEF Add, put, len
  <2>2. put + len + 1 \in 0..2 * size - 1
    BY <1>1
  <2> QED BY <1>1, <1>3, <2>1, <2>2
<1>10. historyBuffer'[Cell(historyBufIndex' + size - 1)] = Nul
  <2>1. Cell(historyBufIndex' + size - 1) = Cell(put + len)
    BY <1>1, <1>3, <1>9
  <2> QED BY <1>8, <2>1
<1>11. ASSUME NEW a \in 0..size - 1 PROVE \E k \in 0..LineLen - 1 : historyBuffer'[Cell(a + k)] = Nul
  <2>1. PICK k \in 0..LineLen - 1 : historyBuffer[Cell(a + k)] = Nul
    BY DEF Terminated, size
  <2> DEFINE c == Cell(a + k)
             j == Place(c)
  <2>2. c = Round1(a + k) /\ c \in 0..size - 1
    BY <1>1, <1>3
  <2>3. j = (IF c >= put THEN c - put ELSE c - put + size) /\ j \in 0..size - 1
    BY <1>1, <1>2, <2>2
  <2>4. CASE j > len
    <3>1. historyBuffer'[c] = Nul
      BY <1>1, <1>5, <2>1, <2>2, <2>3, <2>4
    <3> QED BY <3>1
  <2>5. CASE j = len
    <3>1. historyBuffer'[c] = Nul
      BY <1>1, <1>5, <2>2, <2>3, <2>5
    <3> QED BY <3>1
  <2> HIDE DEF c, j
  <2>8. a + k - (put + j) \in {0, size, 0 - size} /\ c \in Int /\ j \in Int /\ k \in Int /\ a \in Int
    BY <1>1, <2>2, <2>3
  <2>9. \A x, y \in 0..2 * size - 1 : x - y \in {0, size, 0 - size} => Round1(x) = Round1(y)
    BY <1>1
  <2>6. CASE j < len /\ k <= j
    <3>1. k + (len - j) \in 0..LineLen - 1 /\ a + (k + (len - j)) \in 0..2 * size - 1 /\ put + len \in 0..2 * size - 1
      <4>1. len - j \in Nat /\ k + (len - j) <= len
        BY <1>1, <2>3, <2>6
      <4> QED BY <1>1, <4>1
    <3>2. Round1(a + (k + (len - j))) = Round1(put + len)
      <4>1. (a + (k + (len - j))) - (put + len) = a + k - (put + j)
        BY <1>1, <2>8
      <4> HIDE DEF Round1
      <4> QED BY <2>8, <2>9, <3>1, <4>1
    <3>3. Cell(a + (k + (len - j))) = Cell(put + len)
      BY <1>3, <3>1, <3>2
    <3> QED BY <1>8, <3>1, <3>3
  <2>7. CASE j < len /\ k > j
    <3>1. k - j - 1 \in 0..LineLen - 1 /\ a + (k - j - 1) \in 0..2 * size - 1 /\ put + size - 1 \in 0..2 * size - 1
      <4>1. k - j - 1 \in Nat /\ k - j - 1 <= k
        BY <1>1, <2>3, <2>7
      <4> QED BY <1>1, <4>1
    <3>2. Round1(a + (k - j - 1)) = Round1(put + size - 1)
      <4>1. (a + (k - j - 1)) - (put + size - 1) = a + k - (put + j) - size
        BY <1>1, <2>8
      <4>2. (a + (k - j - 1)) - (put + size - 1) \in {0, size, 0 - size}
        BY <1>1, <2>2, <2>3, <2>7, <2>8, <3>1, <4>1
      <4> HIDE DEF Round1
      <4> QED BY <2>9, <3>1, <4>2
    <3>3. Cell(a + (k - j - 1)) = Cell(put + size - 1)
      BY <1>3, <3>1, <3>2
    <3> DEFINE b == Cell(put + size - 1)
    <3>4. b = (IF put = 0 THEN size - 1 ELSE put - 1) /\ b \in 0..size - 1
      BY <1>1, <1>3, <3>1
    <3> HIDE DEF b
    <3>5. Place(b) = size - 1
      <4>1. Place(b) = IF b >= put THEN b - put ELSE b - put + size
        BY <1>2, <3>4
      <4> QED BY <1>1, <3>4, <4>1
    <3>6. historyBuffer'[b] = historyBuffer[b] /\ historyBuffer[b] = Nul
      <4>1. historyBuffer[b] = Nul
        BY DEF Terminated, put, size, b
      <4>2. ~(Place(b) < len) /\ Place(b) # len
        BY <1>1, <3>5
      <4> QED BY <1>5, <3>4, <4>1, <4>2
    <3> QED BY <3>1, <3>3, <3>6 DEF b
  <2> QED BY <1>1, <2>3, <2>4, <2>5, <2>6, <2>7
<1>12. Terminated'
  BY <1>10, <1>11 DEF Terminated, size
<1> QED BY <1>4, <1>6, <1>7, <1>8, <1>9, <1>12 DEF size, put, len

\* A line in an array, with its terminator, is an entry.
LEMMA EntryIs ==
    ASSUME NEW buf, NEW from, NEW line \in Seq(LineChars), Len(line) < LineLen,
           \A k \in 0..Len(line) - 1 : buf[Cell(from + k)] = line[k + 1],
           buf[Cell(from + Len(line))] = Nul, from \in Nat
    PROVE  EntryIn(buf, from) = line
<1>1. Nul \notin LineChars
  BY LineEditorAssumption DEF LineChars, Nul
<1>2. Len(line) \in 0..HISTORY_SIZE /\ Len(line) < HISTORY_SIZE
  BY LineEditorAssumption
<1>3. \A k \in 0..Len(line) - 1 : buf[Cell(from + k)] # Nul
  BY <1>1
<1>4. LengthIn(buf, from) = Len(line)
  BY <1>2, <1>3, LengthIs
<1>5. \A k \in 1..Len(line) : buf[Cell(from + k - 1)] = line[k]
  <2> SUFFICES ASSUME NEW k \in 1..Len(line) PROVE buf[Cell(from + k - 1)] = line[k]
    OBVIOUS
  <2>1. k - 1 \in 0..Len(line) - 1 /\ from + (k - 1) = from + k - 1 /\ (k - 1) + 1 = k
    OBVIOUS
  <2>2. buf[Cell(from + (k - 1))] = line[(k - 1) + 1]
    BY <2>1, Zenon
  <2> QED BY <2>1, <2>2, Zenon
<1>6. EntryIn(buf, from) = [k \in 1..Len(line) |-> line[k]]
  BY <1>4, <1>5 DEF EntryIn
<1> QED BY <1>6

\* The line that was added is the newest entry.
LEMMA AddRemembers ==
    ASSUME LineTyped, Terminated, NEW line \in Seq(LineChars), Len(line) < LineLen, Add(line)
    PROVE  Entry(Before(historyNext))' = line
<1>1. /\ \A k \in 0..Len(line) - 1 : historyBuffer'[Cell(historyBufIndex + k)] = line[k + 1]
      /\ historyBuffer'[Cell(historyBufIndex + Len(line))] = Nul
  BY AddKeeps
<1>2. historyBufIndex \in Nat /\ historyNext \in 0..HISTORY_DEPTH - 1
  BY DEF LineTyped
<1>3. historyNext' = (historyNext + 1) % HISTORY_DEPTH
  BY DEF Add, After
<1>4. Before(historyNext)' = historyNext
  <2>1. HISTORY_DEPTH \in Nat \ {0} /\ historyNext + 1 \in 0..2 * HISTORY_DEPTH
    BY <1>2, LineEditorAssumption
  <2>2. historyNext' = IF historyNext + 1 < HISTORY_DEPTH THEN historyNext + 1 ELSE 0
    <3> DEFINE x == historyNext + 1
               n == HISTORY_DEPTH
    <3>1. n \in Nat \ {0} /\ x \in 0..2 * n /\ x <= n
      BY <1>2, <2>1
    <3> HIDE DEF x, n
    <3>2. x % n = IF x < n THEN x ELSE IF x < 2 * n THEN x - n ELSE 0
      BY <3>1, Round, Zenon
    <3>3. x % n = IF x < n THEN x ELSE 0
      BY <3>1, <3>2
    <3> QED BY <1>3, <3>3 DEF x, n
  <2> QED BY <1>2, <2>1, <2>2 DEF Before
<1>5. historyOffset'[historyNext] = historyBufIndex
  BY <1>2 DEF Add, LineTyped
<1>6. Entry(Before(historyNext))' = EntryIn(historyBuffer', historyOffset'[Before(historyNext)'])
  BY Zenon DEF Entry, EntryIn, EntryLen, LengthIn
<1>7. EntryIn(historyBuffer', historyBufIndex) = line
  BY <1>1, <1>2, EntryIs
<1> QED BY <1>4, <1>5, <1>6, <1>7

\* What a step does that leaves the history alone.
LEMMA HistoryKept ==
    ASSUME LineInv, UNCHANGED <<historyVars, lastEntered>>,
           historyCur' \in -1..HISTORY_DEPTH - 1, pcBuf' \in Seq(LineChars), Len(pcBuf') < LineLen
    PROVE  LineInv'
<1>1. LineTyped'
  BY DEF LineInv, LineTyped, historyVars
<1>2. Terminated'
  BY DEF LineInv, Terminated, historyVars
<1>3. Entry(Before(historyNext))' = EntryIn(historyBuffer', historyOffset'[Before(historyNext)'])
  BY Zenon DEF Entry, EntryIn, EntryLen, LengthIn
<1>4. Entry(Before(historyNext)) = EntryIn(historyBuffer, historyOffset[Before(historyNext)])
  BY Zenon DEF Entry, EntryIn, EntryLen, LengthIn
<1>5. Before(historyNext)' = Before(historyNext)
  BY DEF Before, historyVars
<1>6. Remembers'
  BY <1>3, <1>4, <1>5 DEF LineInv, Remembers, historyVars
<1> QED BY <1>1, <1>2, <1>6 DEF LineInv

LEMMA LineKept ==
    ASSUME LineInv, KeepHistory, historyCur' \in -1..HISTORY_DEPTH - 1,
           NEW line \in Seq(LineChars), Line(line)
    PROVE  LineInv'
<1>0. <<>> \in Seq(LineChars) /\ Len(<<>>) = 0 /\ Len(line) \in Nat /\ LineLen \in Nat /\ LineLen > 0
  BY LineEditorAssumption
<1>1. pcBuf' \in Seq(LineChars) /\ Len(pcBuf') < LineLen
  <2>1. CASE Len(line) >= LineLen
    BY <1>0, <2>1 DEF Line
  <2>2. CASE ~(Len(line) >= LineLen)
    BY <1>0, <2>2 DEF Line
  <2> QED BY <2>1, <2>2
<1> QED BY <1>1, HistoryKept DEF KeepHistory

LEMMA LineStep == LineInv /\ [LineNext]_lineVars => LineInv'
<1> SUFFICES ASSUME LineInv, [LineNext]_lineVars PROVE LineInv'
  OBVIOUS
<1> USE DEF LineInv
<1>a. /\ pcBuf \in Seq(LineChars) /\ Len(pcBuf) < LineLen /\ historyCur \in -1..HISTORY_DEPTH - 1
      /\ historyNext \in 0..HISTORY_DEPTH - 1 /\ historyCnt \in 0..HISTORY_DEPTH
      /\ HISTORY_DEPTH \in Nat /\ HISTORY_DEPTH > 1 /\ LineLen \in Nat /\ LineLen > 0
  BY LineEditorAssumption DEF LineTyped
<1>b. \A i \in 0..HISTORY_DEPTH - 1 : Before(i) \in 0..HISTORY_DEPTH - 1 /\ After(i) \in 0..HISTORY_DEPTH - 1
  BY <1>a DEF Before, After
<1>c. \A i \in 0..HISTORY_DEPTH - 1 : Entry(i) \in Seq(LineChars) /\ Len(Entry(i)) < LineLen
  BY EntryType
<1>1. CASE Backspace
  <2>1. pcBuf' = pcBuf \/ (pcBuf # <<>> /\ pcBuf' = SubSeq(pcBuf, 1, Len(pcBuf) - 1))
    BY <1>1 DEF Backspace
  <2>2. pcBuf # <<>> => /\ SubSeq(pcBuf, 1, Len(pcBuf) - 1) \in Seq(LineChars)
                        /\ Len(SubSeq(pcBuf, 1, Len(pcBuf) - 1)) = Len(pcBuf) - 1
    <3> SUFFICES ASSUME pcBuf # <<>>
                 PROVE  /\ SubSeq(pcBuf, 1, Len(pcBuf) - 1) \in Seq(LineChars)
                        /\ Len(SubSeq(pcBuf, 1, Len(pcBuf) - 1)) = Len(pcBuf) - 1
      OBVIOUS
    <3>1. Len(pcBuf) - 1 \in 0..Len(pcBuf) /\ 1 \in 1..Len(pcBuf) + 1 /\ 1 <= (Len(pcBuf) - 1) + 1
      BY <1>a
    <3>2. /\ SubSeq(pcBuf, 1, Len(pcBuf) - 1) \in Seq(LineChars)
          /\ Len(SubSeq(pcBuf, 1, Len(pcBuf) - 1)) = (Len(pcBuf) - 1) - 1 + 1
      BY <1>a, <3>1, Part, Zenon
    <3> QED BY <1>a, <3>2
  <2>3. pcBuf' \in Seq(LineChars) /\ Len(pcBuf') < LineLen
    BY <1>a, <2>1, <2>2
  <2> QED BY <1>1, <1>a, <2>3, HistoryKept DEF Backspace, KeepHistory
<1>2. ASSUME NEW k \in Keys, Escape(k) PROVE LineInv'
  BY <1>2, <1>a, HistoryKept DEF Escape, KeepHistory
<1>3. CASE Up
  <2> DEFINE older == Before(IF historyCur = -1 THEN historyNext ELSE historyCur)
  <2>1. older \in 0..HISTORY_DEPTH - 1
    <3>1. CASE historyCur = -1
      BY <1>a, <1>b, <3>1
    <3>2. CASE historyCur # -1
      <4>1. historyCur \in 0..HISTORY_DEPTH - 1
        BY <1>a, <3>2
      <4> QED BY <1>b, <3>2, <4>1
    <3> QED BY <3>1, <3>2
  <2>2. KeepHistory /\ (UNCHANGED <<pcBuf, historyCur>> \/ Recall(older))
    BY <1>3 DEF Up, Arrow
  <2> HIDE DEF older
  <2>3. CASE UNCHANGED <<pcBuf, historyCur>>
    BY <1>a, <2>2, <2>3, HistoryKept DEF KeepHistory
  <2>4. CASE Recall(older)
    BY <1>c, <2>1, <2>2, <2>4, LineKept DEF Recall
  <2> QED BY <2>2, <2>3, <2>4
<1>4. CASE Down
  <2>1. /\ KeepHistory
        /\ \/ UNCHANGED <<pcBuf, historyCur>>
           \/ Line(<<>>) /\ historyCur' = -1
           \/ historyCur # -1 /\ Recall(After(historyCur))
    BY <1>4 DEF Down, Arrow
  <2>2. CASE UNCHANGED <<pcBuf, historyCur>>
    BY <1>a, <2>1, <2>2, HistoryKept DEF KeepHistory
  <2>3. CASE Line(<<>>) /\ historyCur' = -1
    <3>1. <<>> \in Seq(LineChars) /\ historyCur' \in -1..HISTORY_DEPTH - 1
      BY <1>a, <2>3
    <3> QED BY <2>1, <2>3, <3>1, LineKept
  <2>4. CASE historyCur # -1 /\ Recall(After(historyCur))
    <3>1. After(historyCur) \in 0..HISTORY_DEPTH - 1
      BY <1>a, <1>b, <2>4
    <3>2. After(historyCur) \in -1..HISTORY_DEPTH - 1
      BY <3>1
    <3> QED BY <1>c, <2>1, <2>4, <3>1, <3>2, LineKept DEF Recall
  <2> QED BY <2>1, <2>2, <2>3, <2>4
<1>5. CASE Newline
  <2>1. /\ pcBuf' = <<>> /\ historyCur' = -1
        /\ lastEntered' = IF pcBuf = <<>> THEN lastEntered ELSE pcBuf
        /\ IF pcBuf = <<>> \/ Duplicate(pcBuf) THEN UNCHANGED historyVars ELSE Add(pcBuf)
    BY <1>5 DEF Newline
  <2>2. pcBuf' \in Seq(LineChars) /\ Len(pcBuf') < LineLen /\ historyCur' \in -1..HISTORY_DEPTH - 1
    BY <1>a, <2>1
  <2>3. CASE pcBuf = <<>>
    BY <2>1, <2>2, <2>3, HistoryKept
  <2>4. CASE pcBuf # <<>> /\ Duplicate(pcBuf)
    <3>1. lastEntered' = lastEntered
      BY <2>1, <2>4 DEF Duplicate, Remembers
    <3> QED BY <2>1, <2>2, <2>4, <3>1, HistoryKept
  <2>5. CASE pcBuf # <<>> /\ ~Duplicate(pcBuf)
    <3>1. Add(pcBuf) /\ lastEntered' = pcBuf
      BY <2>1, <2>5
    <3>2. /\ DOMAIN historyBuffer' = 0..HISTORY_SIZE - 1 /\ historyBufIndex' \in 0..HISTORY_SIZE - 1
          /\ \A i \in 0..HISTORY_SIZE - 1 : historyBuffer'[i] \in LineChars \cup {Nul}
          /\ Terminated'
      BY <1>a, <3>1, AddKeeps
    <3>3. Remembers'
      BY <1>a, <3>1, AddRemembers DEF Remembers
    <3>4. historyNext' \in 0..HISTORY_DEPTH - 1 /\ historyCnt' \in 0..HISTORY_DEPTH
      BY <1>a, <1>b, <3>1 DEF Add
    <3>5. historyOffset' \in [0..HISTORY_DEPTH - 1 -> 0..HISTORY_SIZE - 1]
      BY <3>1 DEF Add, LineTyped
    <3> QED BY <2>2, <3>2, <3>3, <3>4, <3>5 DEF LineTyped
  <2> QED BY <2>3, <2>4, <2>5
<1>6. ASSUME NEW k \in Keys, Letter(k) PROVE LineInv'
  <2>1. Append(pcBuf, k) \in Seq(LineChars) /\ historyCur' \in -1..HISTORY_DEPTH - 1
    BY <1>6, <1>a DEF Letter, LineChars
  <2> QED BY <1>6, <2>1, LineKept DEF Letter
<1>7. CASE UNCHANGED lineVars
  BY <1>7, <1>a, HistoryKept DEF lineVars
<1> QED BY <1>1, <1>2, <1>3, <1>4, <1>5, <1>6, <1>7 DEF LineNext

LEMMA LineBegins == LineInit => LineInv
<1> SUFFICES ASSUME LineInit PROVE LineInv
  OBVIOUS
<1>1. LineTyped
  BY LineEditorAssumption DEF LineInit, LineTyped
<1>2. \A i \in 0..2 * HISTORY_SIZE - 1 : historyBuffer[Cell(i)] = Nul
  BY CellRange DEF LineInit
<1>3. Terminated
  <2>1. ASSUME NEW a \in 0..HISTORY_SIZE - 1
        PROVE  \E k \in 0..LineLen - 1 : historyBuffer[Cell(a + k)] = Nul
    <3>1. a + 0 \in 0..2 * HISTORY_SIZE - 1 /\ 0 \in 0..LineLen - 1
      BY LineEditorAssumption
    <3> QED BY <1>2, <3>1, Zenon
  <2>2. historyBufIndex + HISTORY_SIZE - 1 \in 0..2 * HISTORY_SIZE - 1
    BY LineEditorAssumption DEF LineInit
  <2> QED BY <1>2, <2>1, <2>2 DEF Terminated
<1>4. Remembers
  BY DEF LineInit, Remembers
<1> QED BY <1>1, <1>3, <1>4 DEF LineInv

\* Copying an entry of the history ends within the line, and the newest entry is
\* the last line that was not empty (HistoryServes), whatever was typed and
\* however often the array of characters has been gone round.
THEOREM HistoryEndsInTheLine == LineSpec => []HistoryServes
<1>1. LineInv => HistoryServes
  BY EntryType DEF LineInv, LineTyped, Remembers, HistoryServes
<1> QED BY <1>1, LineBegins, LineStep, PTL DEF LineSpec
=============================================================================
