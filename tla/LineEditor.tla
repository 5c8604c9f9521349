----------------------------- MODULE LineEditor ------------------------------
(***************************************************************************)
(* The line of the console (UARTgets of utils/uartstdio.c, with history):   *)
(* what a key does to the caller's buffer and to the history, which keeps   *)
(* its entries one after the other in a circular array of characters and    *)
(* finds them by their offsets.                                             *)
(***************************************************************************)
EXTENDS Integers, Sequences

CONSTANTS
    Letters,        \* characters without a meaning of their own
    LineLen,        \* ui32Len, less the terminator: 63 in the code
    HISTORY_DEPTH,  \* 16 in the code
    HISTORY_SIZE,   \* UART_RX_HISTORY_BUF_SIZE: 512 in the code
    MaxKeys         \* bound on the keys

ASSUME LineEditorAssumption ==
    /\ LineLen \in Nat \ {0} /\ HISTORY_DEPTH \in Nat \ {0, 1} /\ MaxKeys \in Nat
    /\ HISTORY_SIZE \in Nat /\ HISTORY_SIZE > LineLen
    /\ Letters \cap {"BS", "ESC", "[", "A", "B", "CR", "NUL"} = {}

VARIABLES
    pcBuf,                  \* the characters of the line so far
    g_ubEscMode,
    historyBuffer, historyBufIndex, historyOffset,
    historyNext, historyCur, historyCnt,
    returned,               \* what the last call returned
    lastEntered, keys       \* history: the last line that was not empty

historyVars == <<historyBuffer, historyBufIndex, historyOffset, historyNext, historyCnt>>
lineVars == <<pcBuf, g_ubEscMode, historyVars, historyCur, returned, lastEntered, keys>>

\* In an escape sequence A and B are UP and DOWN.  CR and LF are alike: that the
\* last character was a CR is remembered in a local variable, set only where the
\* call ends; so a CRLF ends two lines.
Keys == Letters \cup {"BS", "ESC", "[", "A", "B", "CR"}
Nul == "NUL"

LineInit ==
    /\ pcBuf = <<>> /\ g_ubEscMode = 0
    /\ historyBuffer = [i \in 0..HISTORY_SIZE - 1 |-> Nul] /\ historyBufIndex = 0
    /\ historyOffset = [i \in 0..HISTORY_DEPTH - 1 |-> 0]
    /\ historyNext = 0 /\ historyCur = -1 /\ historyCnt = 0
    /\ returned = <<>> /\ lastEntered = <<>> /\ keys = 0

-----------------------------------------------------------------------------
(* The history.                                                            *)

Cell(i) == i % HISTORY_SIZE

\* The characters from an offset to the next terminator, where copying stops.
EntryLen(from) == CHOOSE n \in 0..HISTORY_SIZE :
    /\ n = HISTORY_SIZE \/ historyBuffer[Cell(from + n)] = Nul
    /\ \A k \in 0..n - 1 : historyBuffer[Cell(from + k)] # Nul
Entry(i) == [k \in 1..EntryLen(historyOffset[i]) |-> historyBuffer[Cell(historyOffset[i] + k - 1)]]

Before(i) == IF i = 0 THEN HISTORY_DEPTH - 1 ELSE i - 1
After(i) == (i + 1) % HISTORY_DEPTH

Duplicate(line) == historyCnt > 0 /\ Entry(Before(historyNext)) = line

\* Faulty variant: an entry has no terminator.
AddUnterminated(line) ==
    /\ historyNext' = After(historyNext)
    /\ historyCnt' = IF historyCnt = HISTORY_DEPTH THEN historyCnt ELSE historyCnt + 1
    /\ historyOffset' = [historyOffset EXCEPT ![historyNext] = historyBufIndex]
    /\ historyBuffer' = [i \in DOMAIN historyBuffer |->
           LET k == (i - historyBufIndex + HISTORY_SIZE) % HISTORY_SIZE
           IN  IF k < Len(line) THEN line[k + 1] ELSE historyBuffer[i]]
    /\ historyBufIndex' = Cell(historyBufIndex + Len(line))

Add(line) ==
    /\ historyNext' = After(historyNext)
    /\ historyCnt' = IF historyCnt = HISTORY_DEPTH THEN historyCnt ELSE historyCnt + 1
    /\ historyOffset' = [historyOffset EXCEPT ![historyNext] = historyBufIndex]
    /\ historyBuffer' = [i \in DOMAIN historyBuffer |->
           LET k == (i - historyBufIndex + HISTORY_SIZE) % HISTORY_SIZE
           IN  IF k < Len(line) THEN line[k + 1] ELSE IF k = Len(line) THEN Nul ELSE historyBuffer[i]]
    /\ historyBufIndex' = Cell(historyBufIndex + Len(line) + 1)

-----------------------------------------------------------------------------
(* UARTgets, one key at a time.                                            *)

Key(k) == keys < MaxKeys /\ keys' = keys + 1 /\ k \in Keys

\* The call returns when the line is full, whatever key has filled it.
Line(line) ==
    IF Len(line) >= LineLen
    THEN returned' = line /\ pcBuf' = <<>>
    ELSE pcBuf' = line /\ UNCHANGED returned

KeepHistory == UNCHANGED <<historyVars, lastEntered>>

Backspace ==
    /\ Key("BS") /\ pcBuf' = IF pcBuf = <<>> THEN pcBuf ELSE SubSeq(pcBuf, 1, Len(pcBuf) - 1)
    /\ UNCHANGED <<g_ubEscMode, historyCur, returned>> /\ KeepHistory

\* The first two characters of an escape sequence, and every unknown one.
Escape(k) ==
    /\ Key(k) /\ k # "BS"
    /\ \/ g_ubEscMode = 0 /\ k = "ESC" /\ g_ubEscMode' = 1
       \/ g_ubEscMode = 1 /\ g_ubEscMode' = (IF k = "[" THEN 2 ELSE 0)
       \/ g_ubEscMode = 2 /\ k \notin {"A", "B"} /\ g_ubEscMode' = 0
    /\ UNCHANGED <<pcBuf, historyCur, returned>> /\ KeepHistory

Recall(i) == historyCur' = i /\ Line(Entry(i))

Arrow(k) == Key(k) /\ g_ubEscMode = 2 /\ g_ubEscMode' = 0 /\ KeepHistory

Up ==
    /\ Arrow("A")
    /\ LET older == Before(IF historyCur = -1 THEN historyNext ELSE historyCur) IN
           IF historyNext = historyCur \/ older > historyCnt
           THEN UNCHANGED <<pcBuf, returned, historyCur>>
           ELSE Recall(older)

Down ==
    /\ Arrow("B")
    /\ IF historyCur = -1
       THEN UNCHANGED <<pcBuf, returned, historyCur>>
       ELSE IF After(historyCur) = historyNext
       THEN Line(<<>>) /\ historyCur' = -1
       ELSE Recall(After(historyCur))

\* The end of a line; a line that is not empty goes into the history.
Newline ==
    /\ Key("CR") /\ g_ubEscMode = 0
    /\ returned' = pcBuf /\ pcBuf' = <<>> /\ historyCur' = -1
    /\ lastEntered' = IF pcBuf = <<>> THEN lastEntered ELSE pcBuf
    /\ IF pcBuf = <<>> \/ Duplicate(pcBuf) THEN UNCHANGED historyVars ELSE Add(pcBuf)
    /\ UNCHANGED g_ubEscMode

Letter(k) ==
    /\ Key(k) /\ k \in Letters \cup {"[", "A", "B"} /\ g_ubEscMode = 0
    /\ Line(Append(pcBuf, k)) /\ UNCHANGED <<g_ubEscMode, historyCur>> /\ KeepHistory

LineNext == Backspace \/ Up \/ Down \/ Newline \/ \E k \in Keys : Escape(k) \/ Letter(k)

LineSpec == LineInit /\ [][LineNext]_lineVars

-----------------------------------------------------------------------------
(* What must hold.                                                         *)

\* The type of every variable.
LineTypeOK ==
    /\ g_ubEscMode \in 0..2 /\ keys \in 0..MaxKeys
    /\ historyBuffer \in [0..HISTORY_SIZE - 1 -> Letters \cup {"[", "A", "B", Nul}]
    /\ historyBufIndex \in 0..HISTORY_SIZE - 1
    /\ historyOffset \in [0..HISTORY_DEPTH - 1 -> 0..HISTORY_SIZE - 1]
    /\ historyNext \in 0..HISTORY_DEPTH - 1 /\ historyCur \in -1..HISTORY_DEPTH - 1
    /\ historyCnt \in 0..HISTORY_DEPTH
    /\ Len(pcBuf) < LineLen

\* The history serves what it was given: copying any entry ends within the
\* caller's buffer, with room for the terminator and short of the length that
\* would end the call, although it looks only for a terminator and later lines
\* may have overwritten the entry; and the first UP after a line shows that line,
\* whether it is new in the history or the same as the one before.
HistoryServes ==
    /\ \A i \in DOMAIN historyOffset : Len(Entry(i)) < LineLen
    /\ historyCnt > 0 => Entry(Before(historyNext)) = lastEntered
=============================================================================
