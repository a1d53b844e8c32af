-------------------------------- MODULE Files --------------------------------
(***************************************************************************)
(* Descriptors of files, directories and NCE devices (syscall/posix.rs):   *)
(* openat, read, getdents64, write, close, and the copies fork makes of    *)
(* them, over the volume of Minix3 and the copy to user memory             *)
(* (mem/uaccess.rs).  A system call is one step; a block transfer may fail *)
(* in any of them and a buffer may reach into an unmapped page.            *)
(***************************************************************************)
EXTENDS Minix3, FiniteSetsExt

CONSTANTS
    Procs,          \* processes
    Paths,          \* paths passed to openat, as their components
    Embedded,       \* ramfs FILES: images by path
    ReadLens,       \* lengths passed to read
    DentLens,       \* lengths passed to getdents64
    BufVas,         \* buffer addresses passed to read
    ExecPaths,      \* paths of programs
    CwdPaths,       \* working directories of the shell
    NCES,           \* number of NCE slots
    NameLen,        \* length of each name
    CHUNK,          \* the 512-byte bounce buffer of file_read
    OUT,            \* the 512-byte output buffer of getdents64
    MAX_ENTRIES,    \* the 32 entries getdents64 collects
    PAGE_SIZE,
    USER_VA_END,    \* the user window is 0 .. USER_VA_END - 1
    Mapped,         \* its mapped pages
    MaxFds          \* bound: descriptors of a process

ASSUME FilesAssumption ==
    /\ {CHUNK, OUT, MAX_ENTRIES, PAGE_SIZE, USER_VA_END} \subseteq Nat \ {0}
    /\ ReadLens \cup DentLens \cup BufVas \subseteq Nat

VARIABLES
    files,          \* Process.files of each process
    live,           \* the processes that exist
    power,          \* power state of each NCE
    seen            \* history: what each descriptor has delivered since openat

vars == <<vol, mounted, files, live, power, seen>>

EIO == -5
EBADF == -9
EFAULT == -14
EISDIR == -21

PowerState == {"idle", "active", "turbo"}

\* nce::init: the emulated slots.
EmulatedSlots == [slot \in 0 .. NCES - 1 |-> "idle"]

NoFile == [kind |-> "None", ino |-> 0, pos |-> 0]
OpenFile(kind, ino) == [kind |-> kind, ino |-> ino, pos |-> 0]

\* The path opened, the bytes and the names delivered, whether every entry came
\* with its type unless a transfer failed, whether a call that asked for more has
\* returned 0, and whether the device still is in the state it was opened in.
NothingSeen(path) == [path |-> path, bytes |-> <<>>, names |-> <<>>, typed |-> TRUE,
                      ended |-> FALSE, steady |-> TRUE]

Init ==
    /\ \E i \in DOMAIN Volumes : vol = Volumes[i]
    /\ mounted \in {mount({}), FALSE}
    /\ files = [p \in Procs |-> <<>>]
    /\ \E p \in Procs : live = {p}
    /\ power = EmulatedSlots
    /\ seen = [p \in Procs |-> <<>>]

\* At most one block of a call's transfers fails; after the mount no call reads
\* what is before the inode table.
Faults == {{}} \cup {{b} : b \in {n \in DOMAIN disk : n >= inode_table_block}}

OpenFds(p) == {k \in DOMAIN files[p] : files[p][k].kind # "None"}
-----------------------------------------------------------------------------
(* What the host's tree says, path by path. *)

\* The nodes from the root down to where the path leads, <<>> if nowhere.
Walk(path) ==
    LET Enter(at, name) ==
            LET named == SelectSeq(Last(at).entries, LAMBDA e : e.name = name)
            IN  IF at = <<>> \/ name \in {"", "."} THEN at
                ELSE IF ~Last(at).dir THEN <<>>
                ELSE IF name = ".." THEN (IF Len(at) = 1 THEN at ELSE Front(at))
                ELSE IF named = <<>> THEN <<>> ELSE Append(at, named[1].node)
    IN  FoldLeft(Enter, <<vol.tree>>, path)

Exists(path) == Walk(path) # <<>>
HostNode(path) == Last(Walk(path))

\* The names in a directory.
Names(node) == <<".", "..">> \o [i \in DOMAIN node.entries |-> node.entries[i].name]

NodeIsDir(path, name) == HostNode(Append(path, name)).dir
-----------------------------------------------------------------------------
(* User memory. *)

Untouched == [va \in 0 .. USER_VA_END - 1 |-> -1]

\* Page by page, up to the first one that is not mapped.
copy_out(mem, uva, src) ==
    LET CopyPage(s) ==
            LET va == uva + s.done
                n == Lesser(PAGE_SIZE - (va % PAGE_SIZE), Len(src) - s.done)
            IN  IF va \div PAGE_SIZE \notin Mapped THEN [s EXCEPT !.ok = FALSE]
                ELSE [s EXCEPT !.done = @ + n,
                               !.mem = [a \in DOMAIN mem |->
                                   IF a \in va .. va + n - 1
                                   THEN src[s.done + a - va + 1] ELSE @[a]]]
        start == [ok |-> uva + Len(src) <= USER_VA_END, done |-> 0, mem |-> mem]
    IN  While(LAMBDA s : s.ok /\ s.done < Len(src), CopyPage, start, Len(src))
-----------------------------------------------------------------------------
(* The shell makes a path absolute before it opens it; paths that do not fit *)
(* MAX_PATH, which it cuts, are left out.                                    *)

\* Mutant: ".." is skipped like ".".
DropNone(at, name) == IF name \in {"", ".", ".."} THEN at ELSE Append(at, name)

DropOne(at, name) ==
    IF name = ".." THEN SubSeq(at, 1, Len(at) - 1)
    ELSE IF name \in {"", "."} THEN at ELSE Append(at, name)

\* A path that begins with '/' has an empty first component.
Absolute(path) == path # <<>> /\ Head(path) = ""

resolve(cwd, path) == FoldLeft(DropOne, IF Absolute(path) THEN <<>> ELSE cwd, path)
-----------------------------------------------------------------------------
(* Opening, closing, copying descriptors. *)

Closed(p) == DOMAIN files[p] \ OpenFds(p)

\* The bound on descriptors.
HasRoom(p) == Closed(p) # {} \/ Len(files[p]) < MaxFds

\* Reuse the first closed descriptor or append one.
install_fd(p, file, note) ==
    LET closed == Closed(p)
    IN  /\ files' = [files EXCEPT ![p] = IF closed = {} THEN Append(@, file)
                                         ELSE [@ EXCEPT ![Min(closed)] = file]]
        /\ seen' = [seen EXCEPT ![p] = IF closed = {} THEN Append(@, note)
                                       ELSE [@ EXCEPT ![Min(closed)] = note]]

\* A path that is not found, or not read, is ENOENT and changes nothing.
sys_openat(p) ==
    /\ p \in live /\ HasRoom(p)
    /\ \E path \in Paths, bad \in Faults :
        LET ino == lookup(path, bad)
        IN  /\ ino.ok /\ ino.val # 0
            /\ \E O_DIRECTORY \in BOOLEAN : O_DIRECTORY => inode(ino.val, {}).val.dir
            /\ install_fd(p, OpenFile("File", ino.val), NothingSeen(path))
    /\ UNCHANGED <<vol, mounted, live, power>>

\* openat of /dev/nceN.
OpenNce(p) ==
    /\ p \in live /\ HasRoom(p)
    /\ \E slot \in 0 .. NCES - 1 :
        install_fd(p, OpenFile("Nce", slot), NothingSeen(<<>>))
    /\ UNCHANGED <<vol, mounted, live, power>>

sys_close(p) ==
    /\ p \in live
    /\ \E k \in OpenFds(p) :
        /\ files' = [files EXCEPT ![p][k] = NoFile]
        /\ seen' = [seen EXCEPT ![p][k] = NothingSeen(<<>>)]
    /\ UNCHANGED <<vol, mounted, live, power>>

\* The child gets copies of the descriptors, offsets included.
fork_current(p) ==
    /\ p \in live
    /\ \E c \in Procs \ live :
        /\ live' = live \cup {c}
        /\ files' = [files EXCEPT ![c] = files[p]]
        /\ seen' = [seen EXCEPT ![c] = seen[p]]
    /\ UNCHANGED <<vol, mounted, power>>

\* Mutant: the descriptors outlive the process.
ExitKeepsFiles(p) ==
    /\ p \in live /\ live # {p}
    /\ live' = live \ {p}
    /\ UNCHANGED <<vol, mounted, power, files, seen>>

\* The descriptors go with the process; the first one never exits.
exit_current(p) ==
    /\ p \in live /\ live # {p}
    /\ live' = live \ {p}
    /\ files' = [files EXCEPT ![p] = <<>>]
    /\ seen' = [seen EXCEPT ![p] = <<>>]
    /\ UNCHANGED <<vol, mounted, power>>
-----------------------------------------------------------------------------
(* Reading. *)

\* The line of /dev/nceN; the names of the states differ in length.
as_str(state) ==
    CASE state = "idle" -> <<-4>> [] state = "turbo" -> <<-5, -5>>
      [] state = "active" -> <<-6, -6, -6>>
describe(slot) == <<slot>> \o as_str(power[slot]) \o <<-10>>

\* What read returns and leaves in the user's memory.
Result(ret, mem) == [ret |-> ret, mem |-> mem]

ReadNce(f, uva, len) ==
    LET text == describe(f.ino)
        n == Lesser(len, Len(text) - f.pos)
        copy == copy_out(Untouched, uva, SubSeq(text, f.pos + 1, f.pos + n))
    IN  IF f.pos >= Len(text) THEN Result(0, Untouched)
        ELSE Result(IF copy.ok THEN n ELSE EFAULT, copy.mem)

\* Mutant: every chunk is read from where the call began.
ChunkFromStart(f, done) == f.pos

\* Where the next chunk of a read is in the file.
ChunkAt(f, done) == f.pos + done

\* In chunks through a bounce buffer, until `len', a short chunk or an error.
ReadFile(f, node, uva, len, bad) ==
    LET Pass(s) ==
            LET n == Lesser(CHUNK, len - s.done)
                got == read_at(node, ChunkAt(f, s.done), n, bad)
                copy == copy_out(s.mem, uva + s.done, got.val)
            IN  IF ~got.ok THEN [s EXCEPT !.err = EIO]
                ELSE IF ~copy.ok THEN [s EXCEPT !.err = EFAULT]
                ELSE [s EXCEPT !.done = @ + Len(got.val), !.mem = copy.mem,
                               !.more = Len(got.val) = n]
        end == While(LAMBDA s : s.more /\ s.err = 0 /\ s.done < len, Pass,
                     [done |-> 0, mem |-> Untouched, err |-> 0, more |-> TRUE], len)
    IN  Result(IF end.err # 0 THEN end.err ELSE end.done, end.mem)

file_read(f, uva, len, bad) ==
    LET node == inode(f.ino, bad)
    IN  IF f.kind = "Nce" THEN ReadNce(f, uva, len)
        ELSE IF ~node.ok THEN Result(EBADF, Untouched)
        ELSE IF node.val.dir THEN Result(EISDIR, Untouched)
        ELSE ReadFile(f, node.val, uva, len, bad)

\* The offset moves by what was delivered; an error leaves it, whatever the
\* buffer holds by then.
sys_read(p) ==
    /\ p \in live
    /\ \E k \in OpenFds(p), uva \in BufVas, len \in ReadLens, bad \in Faults :
        LET r == file_read(files[p][k], uva, len, bad)
        IN  /\ r.ret >= 0
            /\ files' = [files EXCEPT ![p][k].pos = @ + r.ret]
            /\ seen' = [seen EXCEPT
                    ![p][k].bytes = @ \o [i \in 1 .. r.ret |-> r.mem[uva + i - 1]],
                    ![p][k].ended = @ \/ (r.ret = 0 /\ len > 0)]
    /\ UNCHANGED <<vol, mounted, live, power>>
-----------------------------------------------------------------------------
(* Listing. *)

\* Header, name and NUL, rounded up to 8.
reclen(name) == ((19 + NameLen[name] + 1 + 7) \div 8) * 8

\* A name has at most 60 bytes.
LargestRecord == 80

\* Mutant: a record that just fits is left for the next call.
FitsWithRoomToSpare(used, name, room) == used + reclen(name) < room

Fits(used, name, room) == used + reclen(name) <= room

\* The records that fit; the type of an entry whose inode is not read is file.
Records(entries, room, bad) ==
    LET More(s) == s.more /\ Len(s.out) < Len(entries)
        Put(s) ==
            LET e == entries[Len(s.out) + 1]
                node == inode(e.ino, bad)
            IN  IF ~Fits(s.len, e.name, room) THEN [s EXCEPT !.more = FALSE]
                ELSE [s EXCEPT !.len = @ + reclen(e.name),
                               !.out = Append(@, [name |-> e.name, dir |-> node.ok /\ node.val.dir])]
    IN  While(More, Put, [len |-> 0, out |-> <<>>, more |-> TRUE], Len(entries) + 1)

\* The offset of a directory counts its entries; it moves once the records are
\* copied to the caller, and a failure before that changes nothing.
sys_getdents64(p) ==
    /\ p \in live
    /\ \E k \in OpenFds(p), len \in DentLens, bad \in Faults :
        LET f == files[p][k]
            node == inode(f.ino, bad)
            all == readdir(node.val, bad)
            entries == SubSeq(all.val, f.pos + 1, Lesser(f.pos + MAX_ENTRIES, Len(all.val)))
            r == Records(entries, Lesser(OUT, len), bad)
        IN  /\ f.kind = "File" /\ node.ok /\ node.val.dir /\ all.ok
            /\ files' = [files EXCEPT ![p][k].pos = @ + Len(r.out)]
            /\ seen' = [seen EXCEPT
                    ![p][k].names = @ \o [i \in DOMAIN r.out |-> r.out[i].name],
                    ![p][k].typed = @ /\ \A e \in ToSet(r.out) :
                        LET dir == NodeIsDir(seen[p][k].path, e.name)
                        IN  IF bad = {} THEN e.dir = dir ELSE e.dir => dir,
                    ![p][k].ended = @ \/ (r.len = 0 /\ len >= LargestRecord)]
    /\ UNCHANGED <<vol, mounted, live, power>>
-----------------------------------------------------------------------------
(* NCE power. *)

can_transition(from, to) ==
    <<from, to>> \in {<<"idle", "active">>, <<"active", "turbo">>, <<"active", "idle">>,
                      <<"turbo", "active">>, <<"turbo", "idle">>}

set_power(slot, next) ==
    /\ can_transition(power[slot], next)
    /\ power' = [power EXCEPT ![slot] = next]

\* The name of a state requests the transition to it.
nce_write(p) ==
    /\ p \in live
    /\ \E k \in OpenFds(p), next \in PowerState :
        LET slot == files[p][k].ino
        IN  /\ files[p][k].kind = "Nce"
            /\ set_power(slot, next)
            /\ seen' = [q \in Procs |-> [i \in DOMAIN seen[q] |->
                    [seen[q][i] EXCEPT !.steady = @ /\ ~(files[q][i].kind = "Nce"
                                                         /\ files[q][i].ino = slot)]]]
    /\ UNCHANGED <<vol, mounted, files, live>>
-----------------------------------------------------------------------------
Next ==
    \E p \in Procs :
        \/ sys_openat(p) \/ OpenNce(p) \/ sys_close(p) \/ fork_current(p)
        \/ exit_current(p) \/ sys_read(p) \/ sys_getdents64(p) \/ nce_write(p)

Spec == Init /\ [][Next]_vars
-----------------------------------------------------------------------------
Fds == UNION {{<<p, k>> : k \in OpenFds(p)} : p \in Procs}

\* Every descriptor has its record of what it delivered, its offset counts just
\* that, and only live processes have descriptors.
TypeOK ==
    /\ mounted \in BOOLEAN
    /\ live \subseteq Procs /\ live # {}
    /\ power \in [0 .. NCES - 1 -> PowerState]
    /\ \A p \in Procs : /\ DOMAIN files[p] = DOMAIN seen[p]
                        /\ p \notin live => files[p] = <<>>
                        /\ \A k \in OpenFds(p) : files[p][k].pos = Len(seen[p][k].bytes \o seen[p][k].names)

\* read and getdents64: whatever the lengths, the buffers, the failed transfers,
\* the calls that ended in an error and the forks in between, what a descriptor
\* has delivered since openat is the beginning of what the host put at that
\* path: the bytes of a file, or the names of a directory in order, each once,
\* with a type that is wrong only where the inode could not be read.
StreamIsPrefix ==
    \A fd \in Fds :
        LET f == files[fd[1]][fd[2]]
            s == seen[fd[1]][fd[2]]
            node == HostNode(s.path)
        IN  f.kind = "File" =>
              /\ Exists(s.path)
              /\ ~node.dir => IsPrefix(s.bytes, node.data)
              /\ node.dir => IsPrefix(s.names, Names(node)) /\ s.typed

\* "Returns bytes read (0=EOF)" (posix.rs): a call with room for one more unit
\* returns 0 only when everything has been delivered, of a device's line when
\* its state has not changed since it was opened.
EndIsEnd ==
    \A fd \in Fds :
        LET f == files[fd[1]][fd[2]]
            s == seen[fd[1]][fd[2]]
            node == HostNode(s.path)
        IN  s.ended =>
              IF f.kind = "Nce" THEN s.steady => s.bytes = describe(f.ino)
              ELSE f.pos = Len(IF node.dir THEN Names(node) ELSE node.data)

\* load_program: the image an execve gets is a whole file, the one at that path of
\* the volume or the one embedded in the kernel, and not the embedded one where
\* the volume's can be read.  It depends on the volume alone, so it is looked at
\* where no descriptor is open.
ImageIsWhole ==
    Fds = {} => \A path \in ExecPaths, bad \in Faults :
        LET image == load_program(path, Embedded, bad)
            onDisk == mounted /\ Exists(path) /\ ~HostNode(path).dir
            fits == Len(HostNode(path).data) <= (DIRECT_ZONES + ZONES_PER_BLOCK) * BLOCK_SIZE
        IN  IF bad = {} /\ onDisk /\ fits THEN image = Ok(HostNode(path).data)
            ELSE \/ onDisk /\ image = Ok(HostNode(path).data)
                 \/ path \in DOMAIN Embedded /\ image = Ok(Embedded[path])
                 \/ path \notin DOMAIN Embedded /\ image = Err

\* The path as typed, and whether a ".." of it comes after something that is no
\* directory.
Typed(cwd, path) == IF Absolute(path) THEN path ELSE cwd \o path

LeavesNoDirectory(path) ==
    \E n \in DOMAIN path :
        LET at == SubSeq(path, 1, n - 1)
        IN  path[n] = ".." /\ (~Exists(at) \/ ~HostNode(at).dir)

\* Cwd::resolve, lookup and dir_lookup: a path typed in a directory of the shell
\* leads where the host's tree says, through "." and "..", unless a transfer
\* fails; the shell drops names by their text, so the one thing it finds that
\* the host does not is what lies behind a name that is no directory.
PathsLead ==
    Fds = {} /\ mounted =>
        \A cwd \in CwdPaths, path \in Paths, bad \in Faults :
            LET typed == Typed(cwd, path)
                full == resolve(cwd, path)
                ino == lookup(full, bad)
            IN  /\ Exists(typed) => Walk(full) = Walk(typed)
                /\ Exists(full) /\ ~Exists(typed) => LeavesNoDirectory(typed)
                /\ ino.ok => (ino.val # 0 <=> Exists(full))
                /\ bad = {} => ino.ok
                /\ ino.ok /\ ino.val # 0 => inode(ino.val, {}).val.dir = HostNode(full).dir
=============================================================================
