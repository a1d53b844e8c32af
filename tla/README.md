# LightOS in TLA+

A model of the LightOS kernel (`src/kernel`) and of the tool that makes its disk images,
checked with TLC on small instances; for the process table, the console ring, the sockets,
the network interface and the two virtio drivers the main properties are also proved with
TLAPS for every instance.

## The system

One hart runs the kernel and all processes. The kernel is not preemptible: a trap from
user mode runs to its end with interrupts masked, so it is one atomic step of the model.
Two places are different: the idle loop opens an interrupt window around `wfi`
(`sched/mod.rs`), and `kinit` runs with interrupts on from `trap::init` to `schedule()`.
Devices (UART, virtio block and net, the timer) run concurrently with everything.

| part | state | operations | what is hard about it |
|---|---|---|---|
| process table (`sched/process.rs`) | 64 slots, pids, parents as slot indices, trap frames | fork, exec, exit, wait4, blocking read(0) | slots are reused; a sleeper's result is written by whoever wakes it |
| scheduler (`sched/`) | CURRENT, last slot run | pick_next, preemption, idle | wake-ups in the idle window, starvation |
| traps (`trap/`) | SIE, TICKS | timer, UART, faults, system calls | handlers on top of interrupted kernel code |
| console (`uart.rs`) | receive ring of 256 cells | interrupt handler, read_byte | ring full, wrap-around |
| memory (`mem/page.rs`, `mem/mmu.rs`, `elf.rs`) | frame bitmap, user page tables, satp | build, clone, free, map, unmap | running out half way; freeing the table in use |
| heap (`mem/kalloc.rs`) | address-ordered free list | alloc, dealloc, growth | splitting, padding, merging |
| sockets (`net/socket.rs`, `syscall/posix.rs`) | 32 sockets, descriptor tables | socket, bind, sendto, recvfrom, close | ephemeral wrap, descriptors copied by fork |
| interface (`net/mod.rs`) | ARP cache, gateway address, ping count | poll, handle_frame, self_test, send_udp | answers that are early, late, repeated or lost |
| codecs (`net/*.rs`) | none | build and parse of Ethernet, ARP, IPv4, ICMP, UDP | padding, truncation, carries |
| block driver (`drivers/virtio/blk.rs`) | one request, ring indices | transfer | a timeout racing a late completion |
| net driver (`drivers/virtio/net.rs`) | receive buffers, one transmit buffer | send, poll_rx | buffer recycling, index wrap, timeout |
| locks and boot (`lock.rs`, `main.rs`) | lock bits | kinit | interrupts while a lock is held |
| filesystem (`fs/`, `scripts/mkfs_minix3.py`) | read-only Minix3 volume | lookup, read_at, readdir, load_program | block, direct and indirect limits; a transfer that fails half way |
| files (`syscall/posix.rs`) | descriptors with offsets | openat, read, getdents64, close, fork | offsets after an error; records that do not fit |
| NCE (`nce/`) | power state per slot | open, read, power requests | requests from several processes |
| user programs (`userspace/`) | working directory | init's wait loop, the shell | the shell resolves `..` by text |

`PROJECT.json` lists every part with its status, and the hazards at their lines.

## Modules

* **ProcessTable** is the core. `pc` names the point the hart is at: `user`, `sched`
  (in `schedule`), `idle` (interrupts just enabled), `wfi`, `halted`. `slots` is the
  table, `a0` the result register of each trap frame (`NoResult` while the call is
  blocked), `rx` the number of bytes in the ring. One action per system call outcome,
  trap and scheduler step.
* **ProcessTree** is what the table promises: pids, parents, exits and waits without
  slots, scheduler or sleep protocol. **ProcessTableRefinement** gives the mapping.
* **ProcessMemory** extends ProcessTable: each action that touches memory is the action
  of ProcessTable together with its effect on frames, user tables and `satp`. `munmap`
  takes any range, as the code does. Pages above the user window are the kernel's identity
  map (`KernelPages`; frame `f` is page `MaxVa + f`), and a munmap that reaches one sets
  `strayed`.
* **RxRing** is the receive ring byte by byte, **BoundedFifo** what a receive ring
  promises; VirtioNet's receive path implements the same FIFO.
* **Heap** is the allocator over a page bitmap it shares with other users.
* **Sockets** is the socket table under the descriptor tables of several processes.
  The kernel looks for frames only inside recvfrom, which holds the hart.
* **NetInterface** extends Sockets with the interface: `self_test` at boot, then the
  calls. The device puts any ARP frame, echo reply or datagram into `ring` at any time
  (`Arrive`); a poll, of self_test or of recvfrom, hands frames to handle_frame until it
  finds the ring empty (`PollFrame`, `PollDrained`). `heard` and `announced` are histories
  of what was handled, `since` and `stale` of echo replies that reached the ring after the
  ping or lay there when it was sent. **Codecs** is every build and
  parse of the protocols and the checksum, on sequences of bytes.
* **Minix3** reads a volume, a function from block numbers to blocks, any transfer of
  which may fail (`bad`). A unit of a block is a byte of a file, an entry of a directory
  or a zone number. **Mkfs** lays out a tree the way `mkfs_minix3.py` does: it sizes the
  bitmaps, hands out inodes and zones, and writes nothing when an assertion fails. **Files** is
  the descriptors above the volume, the copy to user memory page by page, and the NCE
  devices; `seen` is the history of what a descriptor has delivered since openat. The
  host's tree, which the volume was made from, is the reference.
* **VirtioBlk** and **VirtioNet** are a driver and the device it polls. The device is
  external: it is what the driver relies on, chains served in order, at any time.
* **BootLocks** runs kinit, the scheduler and traps as sequences of lock operations, with
  handlers that run on top of them.
* **ProcessTableProofs**, **ProcessMemoryProofs**, **HeapProofs**, **RxRingProofs**,
  **VirtioBlkProofs** and **VirtioNetProofs** hold the theorems about the modules they
  are named after, **NetworkProofs** those about Sockets, NetInterface and the two
  composed. **FrameAccounting** holds the lemmas about building address spaces that
  ProcessMemoryProofs rests on.

`MC*` modules give TLC the constants a `.cfg` cannot write. A definition commented
"Mutant" is a plausible mistake in the definition after it; with it in that definition's
place, the property named in `PROJECT.json` is violated.

## Runs

| run | checks | instance |
|---|---|---|
| lifecycle | ParentAlive, WaiterHasChild, ReapDelivers, ImplementsTree | 3 slots, 4 pids (it passes with 4 slots too, in twelve minutes) |
| console | TypeOK, CurrentIsRunning, SleepersAwaitResult, SleeperLeavesRoom, FrameOwnership, ReadyRuns | 2 slots, 3 pids, ring of 3 |
| console_ring | ImplementsFifo | 4 cells |
| memory | OneOwner, NothingLost, ActiveRootLive, FailedForkUndone | 2 slots, 3 pids, 10 frames |
| heap | Tiled, Coalesced, NullOnlyWithoutPages | 6 pages of 4 blocks, 3 live blocks |
| sockets | TypeOK, PortUnique, ExclusiveUntilShared, LostOnlyAtExit | 2 processes, 2 sockets, ports 0 to 6 |
| interface | CacheIsLatest, PingMeansReply, SentToGateway, FramesRoundTrip, ChecksumsVerify, SelfTestEnds | 3 hosts, 2 addresses, cache of 2, ring of 1, 1 socket |
| block_io | FaithfulUntilTimeout, LagIsTimeouts | 4 transfers, 2 timeouts, indices modulo 4 |
| late_completion | Faithful (violated) | 2 transfers, 1 timeout |
| net_driver | BuffersConserved, SentUntilTimeout, ReceiveIsFifo | 2 buffers, 3 sends, 1 timeout, indices modulo 4 |
| boot_locks | NoSpinAfterQuietBoot, BootCompletes | announced tick 3 |
| files | TypeOK, StreamIsPrefix, EndIsEnd, ImageIsWhole, PathsLead | 2 processes, 3 volumes |

What they show, in a sentence each, is in `PROJECT.json`; what each property says is the
comment before it.

**Bounds.** Pids exceed slots, so a slot is reused while others still refer to it. The
console's burst exceeds its ring and a read length lies on each side of the copy buffer. Ten
frames are too few for two processes that map and exec, so each allocation can be the one
that fails; its console stays silent (MaxBurst = 0), since a parent asleep in read(0) while
its child exits is all it needs of the console: the hart then idles on the zombie's root
table. Its munmaps lie inside the user window, run over its end into the kernel's map, and
reach that map only. The ephemeral range is barely longer than the socket table, so that its
search wraps and meets taken ports. The interface hears more hosts than its cache holds, a
host has two addresses to change between, and each wait ends after two polls; its ring holds
one frame, which a poll may take and the device replace any number of times (two echo
replies in all). Ring indices wrap (in block_io once, on the receive paths without limit).

The volumes of files have blocks of 4 units, 2 direct zones and an indirect block of one
entry, so that files of 0 to 13 units lie on both sides of every limit; two come from Mkfs,
the third has holes, a deleted entry and a file beyond the single indirect zone. Four more
trees are given to Mkfs, none of which becomes a volume: too few inodes, too few zones, a
file too large, and a size at which the zone bitmap never settles. Paths are relative and
absolute, with `.` and `..`, one of them behind a name that is a file. At most one block
fails in a call, the copy buffer holds 2 bytes, a buffer starts in one page and may end in
an unmapped one, and a directory has more entries than one getdents64 collects.

The formats in Codecs have no state; they are evaluated in the initial state of interface,
on payloads of even and odd length, full of carries, and one whose checksum comes out 0.

Named bounds (MaxPid, MaxReqs, MaxTimeouts, MaxSends, MaxLive, MaxOthers, MaxFds, MaxBurst,
MaxReplies) stop unbounded counters.

**Deadlock** is not checked in block_io and late_completion, whose clients stop after
MaxReqs, nor in boot_locks: a halted hart stops, and so does a handler that spins for
ever, which is what that run is about.

**Fairness.** ReadyRuns assumes weak fairness of the scheduler's own steps and of the
timer tick, which is re-armed at every tick. BootCompletes assumes that the hart
executes: weak fairness of the handler, strong fairness of the code below it, since ticks
are 10 ms apart and cannot keep it from its next instruction. SelfTestEnds assumes
weak fairness of the hart's steps in self_test (taking a frame, finding the ring empty, the
loop of poll_until), kernel code that nothing preempts; nothing is assumed of the device.
poll_rx posts each buffer again before it looks at the ring anew, so frames that keep coming
can keep one poll from returning: the property says that the test ends once they stop.

**Until the first failure.** Some properties are stated up to an event kept in a history
variable, because the code does not keep them beyond it: `timeouts` (drivers), `shared` (a
fork with a socket open), `failed` (an exec, fork or mmap failed), `strayed` (a munmap
reached the kernel's map; the model ends there, see below), `noisy` (a handler that takes a
lock ran during boot), `steady` (the state of an NCE changed while its line is read in
pieces). EndIsEnd speaks of getdents64 buffers that hold the largest record (80 bytes).

## What the runs found

With a run:

* **late_completion.** After a block request times out, its late completion ends the next
  transfer's wait. The status byte is shared, so that transfer can return Ok with its
  buffer untouched (`blk.rs:123`; `blk.rs:6` calls polled completion race-free).

Stated in the modules, violated when checked, and without a run of their own:

* `NoZombieWhileWaiting` (ProcessTable): exit_current re-parents its zombie children to init
  without waking an init blocked in wait4; init sleeps on with a zombie to reap until
  another child exits (`process.rs:299`). It takes four processes: init, its child, and the
  child's child that exits before reaping its own (lifecycle with MaxProcs = 4).
* `NoInputWhileBlocked` (ProcessTable): with two processes blocked in read(0) a burst wakes
  the first only; the second sleeps while bytes are buffered (`posix.rs:78`).
* `NoDeadlockAgainstRx` (BootLocks): kinit prints with interrupts on. A key pressed
  meanwhile makes the receive handler spin on the UART lock the hart already holds.
* `HaltedQuietly` (BootLocks): a panic in kinit after trap::init halts with interrupts on
  (`lib.rs:33`).
* `QueuedOnBoundPort` (Sockets): a datagram for port 0 is queued on a socket that was
  never bound, whose local_port is 0 (`socket.rs:1`, `socket.rs:106`).
* `OneFrameAtATime` (VirtioNet): a send after a timed-out one publishes a second chain over
  the same buffer (`net.rs:4`).

Visible in the models, and excluded by the wording of a property:

* sys_munmap, "unmap and free anonymous pages" (`posix.rs:665`), compares its range with
  nothing. Beyond the end of the user window it unmaps pages of the identity map, which all
  root tables share, and frees frames that are in use (OneOwner, NothingLost and
  ActiveRootLive hold while `~strayed`; the invariant `~strayed` is violated). What the
  kernel does without a page of its own map is not modelled: `KernelMapBroken` is the end.
* While frames keep coming one poll need not return (`virtio/net.rs:224`, which calls itself
  non-blocking; SelfTestEnds).
* The loop that sizes mkfs's zone bitmap, "iterate once to settle the layout"
  (`mkfs_minix3.py:34`), alternates between two sizes for ever where neither is the size the
  other needs, an image of 8260 KiB for example; Builder has no volume then.
* getdents64 returns 0 when its buffer is too small for the next record, which the caller
  reads as the end of the directory (`posix.rs:330`; EndIsEnd).
* An echo reply of the gateway is counted whatever its id and sequence number, so one that is
  late, or was in the ring before the ping left, passes for its answer (`net/mod.rs:161`;
  PingMeansReply).
* The shell takes `..` back over any name, so that `motd/../bin` leads to `bin` although motd
  is a file (`shell/src/main.rs:47`; PathsLead).
* The gateway's address for sending follows ARP replies only, its cache entry requests as
  well, so that the two may differ (`net/mod.rs:129`; SentToGateway, CacheIsLatest).
* A process that exits with a socket open loses it for good (LostOnlyAtExit).
* A failed exec keeps the frames it took (`process.rs:143`; NothingLost).

## What is proved

For every value of the constants that satisfies the named assumption of the module:

* **ProcessTableProofs** (ConstantsAssumption: any table size, pid bound, ring capacity,
  copy buffer and burst). TypeOK, ParentAlive, CurrentIsRunning, SleepersAwaitResult,
  WaiterHasChild and SleeperLeavesRoom are invariants; FrameOwnership and ReapDelivers hold
  of every step. None of the invariants is inductive alone: re-parenting goes to "the slot
  of pid 1", so the induction needs that pid 1 sits in slot 0 and has not exited, that pids
  are distinct and below next_pid, and that a free slot has pid 0 (PidInv); and that CURRENT
  names a slot in user mode (HartInv). IInv is their conjunction with the six properties.
  Each action has a lemma that it preserves IInv; StepInv puts them together. The records
  that actions build have fact lemmas of their own, so that no leaf reasons about nested
  EXCEPTs. ReapDelivers also needs that a zombie's code is one that was passed to exit
  (CodeInv); WaitOutcome and ExitOutcome say what the two ways to reap do, OtherSteps that
  nothing else frees a slot. The table implements ProcessTree (TableImplementsTree): status
  and parent of a pid can be read off the one slot that has it (TreeReads), fork, exit and
  wait4 change them as Fork, Exit and Reap of the tree do, and every other step leaves them.
* **RxRingProofs** (RingAssumption: any size). The ring implements BoundedFifo. The
  invariant is only the range of the indices (RingInv); the work is in StoreAppends and
  ReadTakes, which show that the queue read off buf, head and tail changes as a queue does
  on each side of the wrap.
* **ProcessMemoryProofs** (MemoryAssumption: any finite set of frames, address space size,
  image and stack, any ranges for munmap, and a kernel map that lies outside the user window
  and has a page for every frame). OneOwner, NothingLost and ActiveRootLive are invariants
  and FailedForkUndone holds of every step. The first three speak of the time before a munmap
  reaches the kernel's map, so the induction is on `~strayed => MemInv`: a munmap that stays
  off that map frees pages of the caller and nothing else, which is a step of the proof
  (MunmapFrames), not a guard of the model. The places of an address space (root, middle table,
  leaf tables, pages) are the domain of one function, Cells; FrameInv says that no two
  places of any two slots hold one frame, none holds a free one, and until a call fails
  every frame is free or in a place; also that an occupied slot has a root, a free one
  nothing and a zombie nothing but its root. SatpInv says whose root satp is, wherever the
  hart may stay.
  FrameAccounting does the work below the actions. MapNewPages and clone_user_space are
  loops, written as recursive functions of the round; LoopKeeps is induction over the
  rounds (by a least counterexample), and MapNewPageKeeps the round: each allocation moves
  a frame from the free ones to the caller's hand and each link from the hand to a place,
  so an attempt that fails holds at most the one frame in hand. That is why a failed fork
  loses at most one.
  MemoryImplementsTree carries ImplementsTree over to the composition: a memory step is a
  step of the table or leaves its slots alone (TableOrMemory), so running out of frames
  never shows in the tree.
* **HeapProofs** (HeapAssumption: any block and page size, amount of memory and layouts
  whose alignment divides MIN_BLOCK or is divided by it, as powers of two do). Tiled and
  Coalesced are invariants and NullOnlyWithoutPages holds of every step. A list is
  described by the bytes it holds (Holds); HeapInv says that the list is ordered with a gap
  after each block, and that free and live blocks share out the bytes of the heap's pages.
  InsertKeeps and TakeKeeps say that insert adds exactly the bytes of its block and take
  removes exactly those of the block it returns; both rest on InsertIs, that insert merges
  exactly where blocks touch.
* **NetworkProofs** (SocketAssumption: an ephemeral range longer than the table;
  InterfaceAssumption: any hosts, addresses and cache length). Of Sockets, PortUnique,
  TypeOK and ExclusiveUntilShared are invariants and LostOnlyAtExit holds of every step.
  SockInv adds what unopened entries look like and the range of next_ephemeral.
  EphemeralIsFree is the core: the range has more ports than the table has sockets, so by
  the pigeonhole principle the search finds a free one. OwnerInv adds that only processes
  that exist have descriptors. Of NetInterface, CacheIsLatest, SentToGateway and
  PingMeansReply are invariants; IfaceInv relates the address kept for sending to what the
  gateway announced; RingInv and PingInv trace a count grown since the ping, or an echo reply
  still in the ring, back to one that arrived after the ping or was in the ring before it. Their
  composition implements Sockets (InterfaceRunsSockets): no socket is open while self_test
  polls, so what is delivered then changes nothing, and the theorems about the table carry
  over.
* **VirtioBlkProofs** (BlkAssumption: any index modulus above the timeouts).
  LagIsTimeouts and FaithfulUntilTimeout are invariants. BlkInv says where the one request
  can be while nothing has timed out: not fetched, being served, or served.
* **VirtioNetProofs** (NetAssumption). SentUntilTimeout is an invariant, by the same
  argument (TxInv). BuffersConserved is an invariant and the receive path implements
  BoundedFifo: RxInv says that the three receive indices delimit a window of the ring
  whose cells hold the waiting frames in order, and that the available ring stays the
  identity.

Only model-checked:

* Liveness (ReadyRuns, BootCompletes, SelfTestEnds), which is out of the prover's reach.
* FramesRoundTrip, ChecksumsVerify and the properties of Files: they compare folds and
  recursive definitions (Mkfs) with a reference, which takes induction over data.
* NoSpinAfterQuietBoot: BootLocks has one constant, the announced tick, and a finite number
  of states, so the run leaves little for a proof to add.

## Not modelled

* Register save and restore, CSR and MMIO programming, PLIC claim and complete, probing
  and feature negotiation, printing and formatting: register I/O and wording.
* Permission bits; the kernel's shared page tables, apart from a munmap that reaches them;
  `next_mmap` running past the user window (`posix.rs:406`), and programs whose segments lie
  outside it (`elf.rs` compares vaddr with nothing; the programs of the repository are linked
  inside).
* The double-indirect zones of Minix3, which the kernel does not read either; the bits of
  the bitmaps mkfs writes, which the kernel never reads; the truncation of paths at MAX_PATH.
* The affinity mask of an NCE, which is stored and never read by the scheduler, and the
  doorbell of a real one.
* The notification of the device after a runt (`net.rs:251`); a machine without a network
  device, which is one on which no frame arrives.
* The user programs, apart from the shell's path resolution: every process of
  ProcessTable, Files and Sockets may make any call at any time, which includes theirs.

## Plan

1. RxRing in place of the counter `rx` in ProcessTable, and VirtioBlk under Minix3, so that
   a late completion reaches a file read.
2. init and the shell as processes composed with ProcessTable.
3. Proofs: NoSpinAfterQuietBoot, from the fact that code takes and releases locks in pairs.
