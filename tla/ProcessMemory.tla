---------------------------- MODULE ProcessMemory ----------------------------
(***************************************************************************)
(* The process table composed with physical memory: the page allocator     *)
(* (mem/page.rs), the Sv39 tables of every process (mem/mmu.rs) and satp,  *)
(* through fork, exec, exit, reaping, mmap and munmap, failures included.  *)
(*                                                                         *)
(* Every action is an action of ProcessTable together with what the same   *)
(* handler does to memory.  An address space is its root table, the        *)
(* level-1 table under the user slot, the level-0 tables by region and the *)
(* page frames by virtual page number.  Every root also shares the tables  *)
(* of the kernel's own map, which has pages outside the user window.       *)
(***************************************************************************)
EXTENDS ProcessTable, Sequences, FiniteSetsExt

CONSTANTS
    Frames,        \* allocatable frames, in address order
    MaxVa,         \* user pages are 0 .. MaxVa
    RegionSize,    \* pages covered by one level-0 table (512)
    Image,         \* pages of the program image, in load order
    Stack,         \* pages of the user stack, in order
    MMAP_BASE,
    MmapPages,     \* lengths passed to mmap and munmap, in pages
    UnmapVas,      \* pages passed to munmap
    KernelPages    \* pages of the kernel's map

ASSUME MemoryAssumption ==
    /\ Frames \subseteq Nat \ {0} /\ IsFiniteSet(Frames)
    /\ MaxVa \in Nat /\ RegionSize \in Nat \ {0}
    /\ Image \in Seq(0 .. MaxVa) /\ Stack \in Seq(0 .. MaxVa)
    /\ MMAP_BASE \in 0 .. MaxVa
    /\ MmapPages \subseteq Nat \ {0}
    /\ UnmapVas \subseteq Nat
    /\ KernelPages \subseteq Nat
    /\ KernelPages \cap (0 .. MaxVa) = {}
    /\ \A f \in Frames : MaxVa + f \in KernelPages

VARIABLES
    free,          \* frames whose bit is clear in the allocator's bitmap
    space,         \* the address space behind each slot's root_pa
    next_mmap,     \* Process.next_mmap
    satp,          \* root table the hart translates through
    failed,        \* history: an exec, fork or mmap has failed for memory
    strayed        \* history: a munmap has reached the kernel's map

memVars == <<free, space, next_mmap, satp, failed, strayed>>

NoFrame == 0

Pages == 0 .. MaxVa
Regions == {va \div RegionSize : va \in Pages}

NoSpace ==
    [root |-> NoFrame, l1 |-> NoFrame, l0 |-> [r \in Regions |-> NoFrame],
     pte |-> [va \in Pages |-> NoFrame]]

\* Tables and pages under the user slot, and these with the root.
UserFrames(sp) ==
    ({sp.l1} \cup {sp.l0[r] : r \in Regions} \cup {sp.pte[va] : va \in Pages})
        \ {NoFrame}
AllFrames(sp) == (UserFrames(sp) \cup {sp.root}) \ {NoFrame}
-----------------------------------------------------------------------------
(* Building address spaces: an attempt carries the frames still free, the   *)
(* space so far and whether an allocation or a mapping has failed.          *)

Attempt(fr, sp) == [free |-> fr, sp |-> sp, ok |-> TRUE]

Fail(t) == [t EXCEPT !.ok = FALSE]

\* PageAllocator::alloc(1): the lowest free frame.
Lowest(t) == Min(t.free)
Taken(t) == [t EXCEPT !.free = @ \ {Lowest(t)}]

new_user_root(fr) ==
    LET t == Attempt(fr, NoSpace)
    IN  IF fr = {} THEN Fail(t) ELSE [Taken(t) EXCEPT !.sp.root = Lowest(t)]

\* PageTable::walk with create: each missing table is allocated and linked, so
\* the tables made before a failure stay in the tree.
WalkL1(t) ==
    IF t.sp.l1 # NoFrame THEN t
    ELSE IF t.free = {} THEN Fail(t)
    ELSE [Taken(t) EXCEPT !.sp.l1 = Lowest(t)]

WalkL0(t, r) ==
    IF ~t.ok \/ t.sp.l0[r] # NoFrame THEN t
    ELSE IF t.free = {} THEN Fail(t)
    ELSE [Taken(t) EXCEPT !.sp.l0[r] = Lowest(t)]

\* page_alloc(1), then PageTable::map of the frame at va.  A frame whose map
\* fails is neither linked nor returned.
MapNewPage(t, va) ==
    IF ~t.ok \/ t.free = {} THEN Fail(t)
    ELSE LET w == WalkL0(WalkL1(Taken(t)), va \div RegionSize)
         IN  IF ~w.ok \/ w.sp.pte[va] # NoFrame THEN Fail(w)
             ELSE [w EXCEPT !.sp.pte[va] = Lowest(t)]

MapNewPages(t, vas) ==
    LET mapped[n \in 0 .. Len(vas)] ==
            IF n = 0 THEN t ELSE MapNewPage(mapped[n - 1], vas[n])
    IN  mapped[Len(vas)]

build_address_space(fr) == MapNewPages(new_user_root(fr), Image \o Stack)

\* Every mapped page of src, in address order, into a new root.
CopyPage(t, src, va) ==
    IF src.pte[va] = NoFrame THEN t ELSE MapNewPage(t, va)

clone_user_space(fr, src) ==
    LET copied[n \in 0 .. MaxVa + 1] ==
            IF n = 0 THEN new_user_root(fr) ELSE CopyPage(copied[n - 1], src, n - 1)
    IN  copied[MaxVa + 1]
-----------------------------------------------------------------------------
MemInit ==
    LET t == build_address_space(Frames)
    IN  /\ t.ok
        /\ free = t.free
        /\ space = [s \in Slots |-> IF s = 0 THEN t.sp ELSE NoSpace]
        /\ next_mmap = [s \in Slots |-> MMAP_BASE]
        /\ satp = NoFrame
        /\ failed = FALSE
        /\ strayed = FALSE

\* enter_user switches to the address space of the process it enters.
EnterUser == satp' = space[current'].root

MemUnchanged == UNCHANGED memVars

PickNextM ==
    /\ PickNext
    /\ EnterUser
    /\ UNCHANGED <<free, space, next_mmap, failed, strayed>>

\* fork: a failed copy is undone, except for a frame whose mapping failed.
ForkOkM ==
    LET t == clone_user_space(free, space[current])
    IN  /\ ForkOk
        /\ t.ok
        /\ \E s \in Slots :
            /\ IsFirst(s, FreeSlots)
            /\ space' = [space EXCEPT ![s] = t.sp]
            /\ next_mmap' = [next_mmap EXCEPT ![s] = next_mmap[current]]
        /\ free' = t.free
        /\ UNCHANGED <<satp, failed, strayed>>

\* Mutant: a failed fork frees the pages of the parent.
FailedForkFreesParent ==
    LET t == clone_user_space(free, space[current])
    IN  /\ ForkFails
        /\ FreeSlots # {} => ~t.ok
        /\ free' = IF FreeSlots = {} THEN free
                   ELSE t.free \cup UserFrames(space[current])
        /\ failed' = (failed \/ FreeSlots # {})
        /\ UNCHANGED <<space, next_mmap, satp, strayed>>

\* Mutant: only the root table of the failed copy is freed.
FailedForkFreesRoot ==
    LET t == clone_user_space(free, space[current])
    IN  /\ ForkFails
        /\ FreeSlots # {} => ~t.ok
        /\ free' = IF FreeSlots = {} THEN free
                   ELSE t.free \cup ({t.sp.root} \ {NoFrame})
        /\ failed' = (failed \/ FreeSlots # {})
        /\ UNCHANGED <<space, next_mmap, satp, strayed>>

ForkFailsM ==
    LET t == clone_user_space(free, space[current])
    IN  /\ ForkFails
        /\ FreeSlots # {} => ~t.ok
        /\ free' = IF FreeSlots = {} THEN free ELSE t.free \cup AllFrames(t.sp)
        /\ failed' = (failed \/ FreeSlots # {})
        /\ UNCHANGED <<space, next_mmap, satp, strayed>>

\* Mutant: the old root table is not freed.
ExecKeepsOldRoot ==
    LET t == build_address_space(free)
    IN  /\ ExecOk
        /\ t.ok
        /\ space' = [space EXCEPT ![current] = t.sp]
        /\ free' = t.free \cup UserFrames(space[current])
        /\ next_mmap' = [next_mmap EXCEPT ![current] = MMAP_BASE]
        /\ satp' = t.sp.root
        /\ UNCHANGED <<failed, strayed>>

\* exec: the new space is built before the old one is freed.
ExecOkM ==
    LET t == build_address_space(free)
    IN  /\ ExecOk
        /\ t.ok
        /\ space' = [space EXCEPT ![current] = t.sp]
        /\ free' = t.free \cup AllFrames(space[current])
        /\ next_mmap' = [next_mmap EXCEPT ![current] = MMAP_BASE]
        /\ satp' = t.sp.root
        /\ UNCHANGED <<failed, strayed>>

\* exec without enough memory: what was built is not freed.
ExecFailsM ==
    LET t == build_address_space(free)
    IN  /\ InUser
        /\ ~t.ok
        /\ Return(ENOMEM)
        /\ free' = t.free
        /\ failed' = TRUE
        /\ UNCHANGED <<slots, next_pid, last_run, rx, space, next_mmap, satp, strayed>>

\* exec of a file that is no valid ELF image: elf::load fails at a header, after
\* the root table and the pages of the segments before it were made.
ExecBadImage ==
    /\ InUser
    /\ Return(ENOMEM)
    /\ \E n \in 0 .. Len(Image) :
        free' = MapNewPages(new_user_root(free), SubSeq(Image, 1, n)).free
    /\ failed' = TRUE
    /\ UNCHANGED <<slots, next_pid, last_run, rx, space, next_mmap, satp, strayed>>

\* mmap: the region is taken from next_mmap whether or not mapping it succeeds,
\* and pages mapped before a failure stay mapped.
Mmap ==
    /\ InUser
    /\ \E n \in MmapPages :
        LET va == next_mmap[current]
            t == MapNewPages(Attempt(free, space[current]),
                             [i \in 1 .. n |-> va + i - 1])
        IN  /\ va + n - 1 <= MaxVa
            /\ next_mmap' = [next_mmap EXCEPT ![current] = va + n]
            /\ free' = t.free
            /\ space' = [space EXCEPT ![current] = t.sp]
            /\ failed' = (failed \/ ~t.ok)
            /\ Return(IF t.ok THEN va ELSE ENOMEM)
    /\ UNCHANGED <<slots, next_pid, last_run, rx, satp, strayed>>

\* Unmap each page that is mapped and free the frame it was mapped to; the
\* tables stay.  The walk takes any address.  The kernel's map, shared by all
\* roots, is the identity on RAM: its page MaxVa + f is the frame f.
unmap_range(vas) ==
    LET pte == space[current].pte
    IN  /\ free' = free \cup ({pte[v] : v \in vas \cap Pages} \ {NoFrame})
                        \cup {f \in Frames : MaxVa + f \in vas}
        /\ space' = [space EXCEPT ![current].pte =
                        [v \in Pages |-> IF v \in vas THEN NoFrame ELSE pte[v]]]
        /\ strayed' = (vas \cap KernelPages # {})

Munmap ==
    /\ InUser
    /\ \E va \in UnmapVas, n \in MmapPages : unmap_range(va .. va + n - 1)
    /\ Return(0)
    /\ UNCHANGED <<slots, next_pid, last_run, rx, next_mmap, satp, failed>>

Reaped == {c \in Slots : Occupied(c) /\ slots'[c].state = "None"}

\* Mutant: exit frees the root table as well.
ExitFreesRoot(exiting) ==
    /\ free' = free \cup UNION {AllFrames(space[s]) : s \in exiting}
    /\ space' = [s \in Slots |->
                    IF s \in Reaped THEN NoSpace
                    ELSE IF s \in exiting THEN [NoSpace EXCEPT !.root = space[s].root]
                    ELSE space[s]]
    /\ UNCHANGED <<next_mmap, satp, failed, strayed>>

\* exit frees the user space and leaves the root table, which the hart still
\* uses, to the reaper; complete_wait frees the root table of whom it reaps.
FreeOnExitAndReap(exiting) ==
    /\ free' = free \cup (UNION {UserFrames(space[s]) : s \in exiting})
                    \cup {space[c].root : c \in Reaped}
    /\ space' = [s \in Slots |->
                    IF s \in Reaped THEN NoSpace
                    ELSE IF s \in exiting THEN [NoSpace EXCEPT !.root = space[s].root]
                    ELSE space[s]]
    /\ UNCHANGED <<next_mmap, satp, failed, strayed>>

ExitM == (Exit \/ UserFault) /\ FreeOnExitAndReap({current})

Wait4M == Wait4 /\ FreeOnExitAndReap({})

OthersM ==
    /\ \/ NothingRunnable \/ Wfi \/ Timer \/ OtherSyscall \/ InitExits \/ Reboot
       \/ ReadBuffered \/ block_on_console \/ UartInterrupt \/ Halted
    /\ MemUnchanged

\* Without a page of its own map the kernel may fault at any access: the model
\* ends there.
KernelMapBroken == strayed /\ UNCHANGED <<vars, memVars>>

MNext ==
    \/ /\ ~strayed
       /\ \/ PickNextM \/ ForkOkM \/ ForkFailsM \/ ExecOkM \/ ExecFailsM
          \/ ExecBadImage \/ Mmap \/ Munmap \/ ExitM \/ Wait4M \/ OthersM
    \/ KernelMapBroken

MSpec == Init /\ MemInit /\ [][MNext]_<<vars, memVars>>
-----------------------------------------------------------------------------
(* Properties. *)

\* Where a frame is used: as a root, a table or a page of a slot.
Uses(f) ==
    {u \in Slots \X {"root", "l1"} \X {0} :
        f = IF u[2] = "root" THEN space[u[1]].root ELSE space[u[1]].l1}
    \cup {u \in Slots \X {"l0"} \X Regions : space[u[1]].l0[u[3]] = f}
    \cup {u \in Slots \X {"pte"} \X Pages : space[u[1]].pte[u[3]] = f}

\* A frame in use has one use in one process and is not free: processes share
\* no memory, and no frame is freed twice (the debug_assert in
\* PageAllocator::free) or handed out while it is mapped, through every failure
\* path of fork, exec and mmap.  Until a munmap leaves the user window:
\* sys_munmap checks no range, and frees what the kernel has mapped there.
OneOwner ==
    ~strayed =>
        \A f \in Frames :
            Cardinality(Uses(f)) + (IF f \in free THEN 1 ELSE 0) <= 1

Lost == {f \in Frames : f \notin free /\ Uses(f) = {}}

\* As long as no exec, fork or mmap has failed and no munmap has left the user
\* window, every frame is free or in use: exit, reaping, exec and munmap give
\* back all they hold.
NothingLost == ~failed /\ ~strayed => Lost = {}

\* A fork that fails undoes its partial copy up to the one frame whose mapping
\* failed for want of a table (clone_user_space, free_user_space).
FailedForkUndone ==
    [][ForkFailsM => Cardinality(Lost') <= Cardinality(Lost) + 1]_<<vars, memVars>>

\* The hart never translates through a freed root table: in user mode satp is
\* the root of the current process, in the idle loop that of a slot still
\* occupied, and a root freed while in use (exit with a waiting parent) is
\* replaced by the very next step, before any allocation.  Until a munmap
\* leaves the user window: it may free any root table, the active one included.
ActiveRootLive ==
    ~strayed =>
        /\ InUser => satp = space[current].root
        /\ satp \in free => pc = "sched" /\ ReadySlots # {}
        /\ pc \in {"idle", "wfi"} => \E s \in Slots : Occupied(s) /\ satp = space[s].root
=============================================================================
