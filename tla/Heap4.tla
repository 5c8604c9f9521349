-------------------------------- MODULE Heap4 --------------------------------
(***************************************************************************)
(* The heap of the kernel (FreeRTOS/portable/MemMang/heap_4.c), from which   *)
(* tasks, queues and buffers are made: first fit over a list of free blocks  *)
(* in the order of their addresses, merged when a block comes back.  Both    *)
(* operations run with the scheduler suspended.  Addresses and sizes are     *)
(* counted in units of 8 bytes: the alignment, and the size of a header.     *)
(***************************************************************************)
EXTENDS Integers, Sequences, FiniteSets, FiniteSetsExt

CONSTANTS
    HeapSize,    \* units of ucHeap below the end marker: 4095 in the code
    HeapAsks     \* sizes in bytes that are asked for

ASSUME Heap4Assumption == HeapSize \in Nat \ {0} /\ HeapAsks \subseteq Nat

VARIABLES
    freeList,     \* blocks [at, size], the list behind xStart without pxEnd
    allocated,    \* blocks of the application
    xFreeBytesRemaining, xMinimumEverFreeBytesRemaining   \* in units

heapVars == <<freeList, allocated, xFreeBytesRemaining, xMinimumEverFreeBytesRemaining>>

heapMINIMUM_BLOCK_SIZE == 2

\* prvHeapInit
HeapInit ==
    /\ freeList = <<[at |-> 0, size |-> HeapSize]>> /\ allocated = {}
    /\ xFreeBytesRemaining = HeapSize /\ xMinimumEverFreeBytesRemaining = HeapSize

End(b) == b.at + b.size

Merged(front, b) == [at |-> front.at, size |-> front.size + b.size]

\* prvInsertBlockIntoFreeList: behind the n blocks it walks over.
InsertBlockIntoFreeList(list, b) ==
    LET n == Cardinality({i \in DOMAIN list : \A j \in 1..i : list[j].at < b.at})
        joinsFront == n > 0 /\ End(list[n]) = b.at
        one == IF joinsFront THEN Merged(list[n], b) ELSE b
        joinsBack == n < Len(list) /\ End(one) = list[n + 1].at
    IN  SubSeq(list, 1, IF joinsFront THEN n - 1 ELSE n)
            \o <<IF joinsBack THEN Merged(one, list[n + 1]) ELSE one>>
            \o SubSeq(list, IF joinsBack THEN n + 2 ELSE n + 1, Len(list))

\* The units for so many bytes: a header, and the bytes rounded up.
Wanted(bytes) == IF bytes = 0 THEN 0 ELSE 1 + (bytes + 7) \div 8

Fitting(bytes) == {i \in DOMAIN freeList : freeList[i].size >= Wanted(bytes)}
Granted(bytes) == /\ bytes > 0 /\ Wanted(bytes) <= xFreeBytesRemaining /\ Fitting(bytes) # {}

\* A rest that is too small stays with the block.
Taken(size, wanted) == IF size - wanted > heapMINIMUM_BLOCK_SIZE THEN wanted ELSE size

\* pvPortMalloc, when it does not return NULL: the first block that fits.
pvPortMalloc(bytes) ==
    /\ Granted(bytes)
    /\ \E i \in Fitting(bytes) :
           LET block == freeList[i]
               taken == Taken(block.size, Wanted(bytes))
               rest == [at |-> block.at + taken, size |-> block.size - taken]
               others == SubSeq(freeList, 1, i - 1) \o SubSeq(freeList, i + 1, Len(freeList))
           IN  /\ \A j \in Fitting(bytes) : i <= j
               /\ allocated' = allocated \cup {[at |-> block.at, size |-> taken]}
               /\ freeList' = IF rest.size > 0 THEN InsertBlockIntoFreeList(others, rest) ELSE others
               /\ xFreeBytesRemaining' = xFreeBytesRemaining - taken
    /\ xMinimumEverFreeBytesRemaining' =
           Min({xMinimumEverFreeBytesRemaining, xFreeBytesRemaining'})

\* Faulty variant: the bytes are counted after the block has been merged.
vPortFreeMerged(b) ==
    /\ b \in allocated /\ allocated' = allocated \ {b}
    /\ freeList' = InsertBlockIntoFreeList(freeList, b)
    /\ \E i \in DOMAIN freeList' : /\ freeList'[i].at <= b.at /\ End(b) <= End(freeList'[i])
                                   /\ xFreeBytesRemaining' = xFreeBytesRemaining + freeList'[i].size
    /\ UNCHANGED xMinimumEverFreeBytesRemaining

\* Called with what pvPortMalloc returned, once.
vPortFree(b) ==
    /\ b \in allocated /\ allocated' = allocated \ {b}
    /\ freeList' = InsertBlockIntoFreeList(freeList, b)
    /\ xFreeBytesRemaining' = xFreeBytesRemaining + b.size
    /\ UNCHANGED xMinimumEverFreeBytesRemaining

HeapNext == \/ \E bytes \in HeapAsks : pvPortMalloc(bytes)
            \/ \E b \in allocated : vPortFree(b)

HeapSpec == HeapInit /\ [][HeapNext]_heapVars

-----------------------------------------------------------------------------
(* What must hold.                                                         *)

Blocks == [at : 0..HeapSize - 1, size : 1..HeapSize]

\* The type of every variable.
HeapTypeOK ==
    /\ freeList \in Seq(Blocks) /\ allocated \subseteq Blocks
    /\ xFreeBytesRemaining \in 0..HeapSize
    /\ xMinimumEverFreeBytesRemaining \in 0..xFreeBytesRemaining

InFreeList == {freeList[i] : i \in DOMAIN freeList}

Units(b) == b.at..End(b) - 1

\* Every unit of the heap is in one block, free or allocated, and no other; and
\* the count of free bytes is what the list holds.
HeapIsTiled ==
    /\ \A u \in 0..HeapSize - 1 : Cardinality({b \in allocated \cup InFreeList : u \in Units(b)}) = 1
    /\ allocated \cap InFreeList = {} /\ Cardinality(InFreeList) = Len(freeList)
    /\ xFreeBytesRemaining =
           Cardinality({u \in 0..HeapSize - 1 : \E b \in InFreeList : u \in Units(b)})

=============================================================================
