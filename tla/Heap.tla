-------------------------------- MODULE Heap --------------------------------
(***************************************************************************)
(* The kernel heap (mem/kalloc.rs): an address-ordered first-fit free list *)
(* with coalescing, which grows by runs of page frames (mem/page.rs) that  *)
(* it shares with the page tables and user pages of the rest of the kernel.*)
(* The list is the function from the start of each free block to its size. *)
(* Every call holds the heap lock and is one step.                         *)
(***************************************************************************)
EXTENDS Integers, FiniteSetsExt

CONSTANTS
    MIN_BLOCK,
    PAGE_SIZE,
    INITIAL_HEAP_PAGES,
    MinGrow,             \* least number of pages to grow by, 16 in alloc
    NFrames,             \* allocatable frames
    Layouts,             \* [size, align] of the requests
    MaxLive,             \* bound: allocations at a time
    MaxOthers            \* bound: frames in use outside the heap

ASSUME HeapAssumption ==
    /\ MIN_BLOCK \in Nat \ {0} /\ PAGE_SIZE \in Nat \ {0}
    /\ PAGE_SIZE % MIN_BLOCK = 0
    /\ MinGrow \in Nat \ {0} /\ NFrames \in Nat
    /\ INITIAL_HEAP_PAGES \in 1 .. NFrames
    /\ \A l \in Layouts : l.size \in Nat \ {0} /\ l.align \in Nat \ {0}
    /\ \A l \in Layouts :       \* powers of two: one divides the other
        l.align % MIN_BLOCK = 0 \/ MIN_BLOCK % l.align = 0

VARIABLES
    used,          \* PageAllocator.bitmap: frames in use
    others,        \* those of them the heap did not take
    free,          \* the free list
    live,          \* blocks handed out, with the layout they were asked for
    last           \* outcome of the last call of alloc

vars == <<used, others, free, live, last>>

Frames == 0 .. NFrames - 1
Larger(a, b) == IF a > b THEN a ELSE b
RoundUp(n, unit) == ((n + unit - 1) \div unit) * unit

\* Starts of the runs of n free frames; page_alloc takes the lowest.
Runs(n) == {s \in Frames : s .. s + n - 1 \subseteq Frames \ used}
Run(s, n) == s .. s + n - 1

block_size(layout) == Larger(MIN_BLOCK, RoundUp(layout.size, MIN_BLOCK))
block_align(layout) == Larger(layout.align, MIN_BLOCK)

\* Mutant: a block is not merged with its successor.
InsertWithoutForward(list, addr, size) ==
    LET prev == {s \in DOMAIN list : s < addr}
        back == prev # {} /\ Max(prev) + list[Max(prev)] = addr
        start == IF back THEN Max(prev) ELSE addr
    IN  [s \in DOMAIN list \cup {start} |->
            IF s # start THEN list[s]
            ELSE size + (IF back THEN list[start] ELSE 0)]

\* FreeList::insert, which merges with the next block and the one before.
insert(list, addr, size) ==
    LET prev == {s \in DOMAIN list : s < addr}
        next == DOMAIN list \ prev
        forward == next # {} /\ addr + size = Min(next)
        back == prev # {} /\ Max(prev) + list[Max(prev)] = addr
        start == IF back THEN Max(prev) ELSE addr
    IN  [s \in (DOMAIN list \cup {start}) \ (IF forward THEN {addr + size} ELSE {}) |->
            IF s # start THEN list[s]
            ELSE size + (IF forward THEN list[addr + size] ELSE 0)
                      + (IF back THEN list[start] ELSE 0)]

InsertPart(list, addr, size) == IF size > 0 THEN insert(list, addr, size) ELSE list

Null == -1
Pad(start, align) == RoundUp(start, align) - start
Fits(list, size, align) == {s \in DOMAIN list : list[s] >= Pad(s, align) + size}

\* Mutant: the padding in front of an aligned block is not given back.
TakeLosesPadding(list, size, align) ==
    IF Fits(list, size, align) = {} THEN [addr |-> Null, list |-> list]
    ELSE LET start == Min(Fits(list, size, align))
             pad == Pad(start, align)
             rest == [s \in DOMAIN list \ {start} |-> list[s]]
         IN  [addr |-> start + pad,
              list |-> InsertPart(rest, start + pad + size, list[start] - pad - size)]

\* FreeList::take: the first block that fits; padding and tail go back.
take(list, size, align) ==
    IF Fits(list, size, align) = {} THEN [addr |-> Null, list |-> list]
    ELSE LET start == Min(Fits(list, size, align))
             pad == Pad(start, align)
             rest == [s \in DOMAIN list \ {start} |-> list[s]]
         IN  [addr |-> start + pad,
              list |-> InsertPart(InsertPart(rest, start, pad),
                                  start + pad + size, list[start] - pad - size)]

\* Mutant: the last, partial page is forgotten.
GrowRoundedDown(layout) ==
    Larger((block_size(layout) + block_align(layout)) \div PAGE_SIZE, MinGrow)

grow_pages(layout) ==
    Larger((block_size(layout) + block_align(layout)) \div PAGE_SIZE + 1, MinGrow)

\* init() takes the first pages of memory.
Init ==
    /\ used = Run(0, INITIAL_HEAP_PAGES) /\ others = {}
    /\ free = [s \in {0} |-> INITIAL_HEAP_PAGES * PAGE_SIZE]
    /\ live = {} /\ last = "none"
-----------------------------------------------------------------------------
Finish(layout, t) ==
    /\ free' = t.list
    /\ live' = IF t.addr = Null THEN live
               ELSE live \cup {[addr |-> t.addr, layout |-> layout]}
    /\ last' = IF t.addr = Null THEN "null" ELSE "block"
    /\ UNCHANGED others

\* GlobalAlloc::alloc: from the list, else from a list grown by whole pages.
alloc(layout) ==
    LET size == block_size(layout)
        align == block_align(layout)
        pages == grow_pages(layout)
        first == take(free, size, align)
        run == Min(Runs(pages))
    IN  IF first.addr # Null \/ Runs(pages) = {}
        THEN Finish(layout, first) /\ UNCHANGED used
        ELSE /\ Finish(layout, take(insert(free, run * PAGE_SIZE, pages * PAGE_SIZE),
                                    size, align))
             /\ used' = used \cup Run(run, pages)

Alloc ==
    /\ Cardinality(live) < MaxLive
    /\ \E layout \in Layouts : alloc(layout)

Dealloc ==
    /\ \E b \in live :
        /\ free' = insert(free, b.addr, block_size(b.layout))
        /\ live' = live \ {b}
    /\ UNCHANGED <<used, others, last>>

\* The rest of the kernel takes and returns single frames.
OthersTake ==
    /\ Cardinality(others) < MaxOthers /\ Runs(1) # {}
    /\ used' = used \cup {Min(Runs(1))} /\ others' = others \cup {Min(Runs(1))}
    /\ UNCHANGED <<free, live, last>>

OthersFree ==
    /\ \E f \in others : used' = used \ {f} /\ others' = others \ {f}
    /\ UNCHANGED <<free, live, last>>

Next == Alloc \/ Dealloc \/ OthersTake \/ OthersFree

Spec == Init /\ [][Next]_vars
-----------------------------------------------------------------------------
(* Properties. *)

Covers(start, size, byte) == start <= byte /\ byte < start + size

\* Every byte of the heap's pages is in exactly one free block or one live
\* block, and no block reaches outside those pages: through splitting, padding,
\* merging and growth no memory is lost and none is handed out twice.  A live
\* block has its alignment, and a free one can hold its header.
Tiled ==
    /\ \A byte \in 0 .. NFrames * PAGE_SIZE - 1 :
        Cardinality({s \in DOMAIN free : Covers(s, free[s], byte)})
        + Cardinality({b \in live : Covers(b.addr, block_size(b.layout), byte)})
        = IF byte \div PAGE_SIZE \in used \ others THEN 1 ELSE 0
    /\ \A b \in live : b.addr % block_align(b.layout) = 0
    /\ \A s \in DOMAIN free : s % MIN_BLOCK = 0 /\ free[s] >= MIN_BLOCK

\* Free neighbours are merged ("merging with adjacent neighbours"), across the
\* pages of separate growths too, so a fit that exists as a run of free bytes
\* exists as a block.
Coalesced == \A s \in DOMAIN free : s + free[s] \notin DOMAIN free

\* alloc returns null, which panics the kernel, only when no run of pages was
\* to be had: growth by grow_pages always makes room, whatever the alignment
\* and whichever block the new pages were merged into.
NullOnlyWithoutPages ==
    [][\A layout \in Layouts :
        alloc(layout) /\ last' = "null" => Runs(grow_pages(layout)) = {}]_vars
=============================================================================
