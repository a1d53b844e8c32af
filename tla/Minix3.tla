------------------------------- MODULE Minix3 -------------------------------
(***************************************************************************)
(* The read-only Minix3 driver (fs/minix3.rs) and the root it is mounted   *)
(* as (fs/mod.rs), as operators over the blocks of a volume.               *)
(*                                                                         *)
(* A unit of a block is a byte of a file or an entry of a directory, so    *)
(* that BLOCK_SIZE counts either; an indirect block is a sequence of zone  *)
(* numbers and a block of the inode table a sequence of inodes.  `bad' is  *)
(* the set of blocks whose transfer fails during the call.                 *)
(***************************************************************************)
EXTENDS Integers, SequencesExt

CONSTANTS
    BLOCK_SIZE,
    ZONES_PER_BLOCK,
    DIRECT_ZONES,        \* 7
    INODES_PER_BLOCK,    \* BLOCK_SIZE / INODE_SIZE
    Volumes              \* a sequence of [tree, blocks]: what a volume holds, and how

ASSUME MinixAssumption ==
    {BLOCK_SIZE, ZONES_PER_BLOCK, DIRECT_ZONES, INODES_PER_BLOCK} \subseteq Nat \ {0}

VARIABLES
    vol,                 \* the volume in the drive, one of Volumes
    mounted              \* ROOT is Some

disk == vol.blocks

\* Result<T, _>
Ok(x) == [ok |-> TRUE, val |-> x]
Err == [ok |-> FALSE, val |-> <<>>]

Lesser(a, b) == IF a <= b THEN a ELSE b
Zeros(n) == [i \in 1 .. n |-> 0]

\* A loop of at most `fuel' passes over the state s.
While(Test(_), Body(_), s, fuel) ==
    LET after[i \in 0 .. fuel] ==
            IF i = 0 THEN s
            ELSE LET t == after[i - 1] IN IF Test(t) THEN Body(t) ELSE t
    IN  after[fuel]
-----------------------------------------------------------------------------
\* The superblock is read and accepted.
mount(bad) ==
    1 \notin bad /\ disk[1].magic = "MAGIC_V3" /\ disk[1].block_size = BLOCK_SIZE

inode_table_block == 2 + disk[1].imap_blocks + disk[1].zmap_blocks

\* The block of the inode table that holds inode `ino'.
InodeBlock(ino) == inode_table_block + (ino - 1) \div INODES_PER_BLOCK

\* fs::inode; without a root every operation fails.
inode(ino, bad) ==
    IF ~mounted \/ ino \notin 1 .. disk[1].ninodes \/ InodeBlock(ino) \in bad THEN Err
    ELSE Ok(disk[InodeBlock(ino)][((ino - 1) % INODES_PER_BLOCK) + 1])

\* The zone of the n-th block of a file; zone 0 is a hole.
file_zone(node, n, bad) ==
    LET indirect == node.zones[DIRECT_ZONES + 1]
    IN  IF n < DIRECT_ZONES THEN Ok(node.zones[n + 1])
        ELSE IF n - DIRECT_ZONES >= ZONES_PER_BLOCK THEN Err
        ELSE IF indirect = 0 THEN Ok(0)
        ELSE IF indirect \in bad THEN Err
        ELSE Ok(disk[indirect][n - DIRECT_ZONES + 1])

\* Up to `len' units at `offset'.
read_at(node, offset, len, bad) ==
    LET want == Lesser(len, node.size - offset)
        Copy(s) ==
            LET pos == offset + Len(s.val)
                zone == file_zone(node, pos \div BLOCK_SIZE, bad)
                from == pos % BLOCK_SIZE
                n == Lesser(BLOCK_SIZE - from, want - Len(s.val))
            IN  IF ~zone.ok \/ zone.val \in bad THEN Err
                ELSE Ok(s.val \o IF zone.val = 0 THEN Zeros(n)
                                 ELSE SubSeq(disk[zone.val], from + 1, from + n))
    IN  IF ~mounted THEN Err
        ELSE IF offset >= node.size THEN Ok(<<>>)
        ELSE While(LAMBDA s : s.ok /\ Len(s.val) < want, Copy, Ok(<<>>), want)

read_file(node, bad) == read_at(node, 0, node.size, bad)

\* The entries in use.  They are read one by one, none across two blocks: a read
\* that fails anywhere fails the whole call.
readdir(node, bad) ==
    LET slots == read_at(node, 0, node.size, bad)
    IN  IF ~node.dir \/ ~slots.ok THEN Err
        ELSE Ok(SelectSeq(slots.val, LAMBDA e : e.ino # 0))

\* The inode number of the last entry with that name, 0 if there is none.
LastNamed(entries, name) ==
    LET found == SelectSeq(entries, LAMBDA e : e.name = name)
    IN  IF found = <<>> THEN 0 ELSE Last(found).ino

\* Inode number of a name in a directory, 0 if it has none.
dir_lookup(node, name, bad) ==
    LET entries == readdir(node, bad)
    IN  IF entries.ok THEN Ok(LastNamed(entries.val, name)) ELSE Err

\* One component of a path; 0 is a path that leads nowhere.
Descend(at, name, bad) ==
    LET node == inode(at.val, bad)
    IN  IF ~at.ok \/ at.val = 0 THEN at
        ELSE IF ~node.ok THEN Err
        ELSE IF node.val.dir THEN dir_lookup(node.val, name, bad) ELSE Ok(0)

\* The inode a path leads to is read as well.
Readable(at, bad) ==
    IF at.ok /\ at.val # 0 /\ ~inode(at.val, bad).ok THEN Err ELSE at

\* Inode number of a path given as its components, 0 if it does not exist.
lookup(path, bad) ==
    Readable(FoldLeft(LAMBDA at, name : Descend(at, name, bad), Ok(1),
                      SelectSeq(path, LAMBDA c : c \notin {"", "."})), bad)

\* Mutant: what is on the disk is not checked to be a file.
ReadAnything(ino, bad) ==
    IF ino.ok /\ ino.val # 0 THEN read_file(inode(ino.val, bad).val, bad) ELSE Err

\* The content of the regular file at an inode that lookup returned.
ReadImage(ino, bad) ==
    LET node == inode(ino.val, bad)
    IN  IF ino.ok /\ ino.val # 0 /\ ~node.val.dir THEN read_file(node.val, bad) ELSE Err

\* load_program: the disk first, the images embedded in the kernel otherwise.
load_program(path, embedded, bad) ==
    LET data == ReadImage(lookup(path, bad), bad)
    IN  IF data.ok THEN data
        ELSE IF path \in DOMAIN embedded THEN Ok(embedded[path]) ELSE Err
=============================================================================
