-------------------------------- MODULE Mkfs --------------------------------
(***************************************************************************)
(* scripts/mkfs_minix3.py: lays a tree of the host out as a volume.  A     *)
(* node is [dir |-> FALSE, data |-> bytes] or [dir |-> TRUE, entries |->   *)
(* <<[name, node], ...>>], its entries sorted by name.  A builder b keeps  *)
(* in b.ok whether every assertion so far has held.                        *)
(***************************************************************************)
EXTENDS Integers, SequencesExt

CONSTANTS BLOCK_SIZE, ZONES_PER_BLOCK, DIRECT_ZONES, INODES_PER_BLOCK, BITS_PER_BLOCK

LOCAL Lower(a, b) == IF a <= b THEN a ELSE b
LOCAL Blocks(n) == (n + BLOCK_SIZE - 1) \div BLOCK_SIZE

\* Builder.__init__: the sizes of the bitmaps.  That of the zones and the number
\* of zones depend on each other; the loop over the size ends where it is the
\* size needed, or alternates for ever where there is none (more than one bit
\* per block brings every round closer to it).
Builder(total_blocks, ninodes) ==
    LET imap_blocks == (ninodes + BITS_PER_BLOCK) \div BITS_PER_BLOCK
        first_data(zmap) == 2 + imap_blocks + zmap + ninodes \div INODES_PER_BLOCK
        needed(zmap) == (total_blocks - first_data(zmap) + BITS_PER_BLOCK) \div BITS_PER_BLOCK
        settled == {zmap \in 1 .. total_blocks : needed(zmap) = zmap}
        zmap_blocks == IF settled = {} THEN 1 ELSE CHOOSE zmap \in settled : TRUE
    IN  [total_blocks |-> total_blocks, ninodes |-> ninodes,
         imap_blocks |-> imap_blocks, zmap_blocks |-> zmap_blocks,
         next_inode |-> 1, next_zone |-> first_data(zmap_blocks),
         inodes |-> <<>>, blocks |-> <<>>, ok |-> settled # {}]

\* The i-th block of data, from 0; what the data does not fill stays 0.
Chunk(data, i) ==
    [k \in 1 .. BLOCK_SIZE |-> IF i * BLOCK_SIZE + k <= Len(data)
                               THEN data[i * BLOCK_SIZE + k] ELSE 0]

\* Zones are handed out in order (alloc_zone): the direct ones, the indirect
\* block, its own.  "image full", "file too large".
store_data(b, data) ==
    LET count == Blocks(Len(data))
        direct == Lower(count, DIRECT_ZONES)
        rest == count - direct
        indirect == b.next_zone + direct
        zone(i) == b.next_zone + i + (IF i < direct THEN 0 ELSE 1)
        next_zone == b.next_zone + count + (IF rest > 0 THEN 1 ELSE 0)
        table == [i \in 1 .. ZONES_PER_BLOCK |-> IF i <= rest THEN zone(direct + i - 1) ELSE 0]
    IN  [zones |-> [i \in 1 .. DIRECT_ZONES + 1 |->
                        IF i <= direct THEN zone(i - 1)
                        ELSE IF i = DIRECT_ZONES + 1 /\ rest > 0 THEN indirect ELSE 0],
         next_zone |-> next_zone,
         ok |-> b.ok /\ next_zone <= b.total_blocks /\ rest <= ZONES_PER_BLOCK,
         blocks |-> b.blocks
             \o [i \in 1 .. direct |-> Chunk(data, i - 1)]
             \o (IF rest > 0 THEN <<table>> ELSE <<>>)
             \o [i \in 1 .. rest |-> Chunk(data, direct + i - 1)]]

\* Inode numbers are handed out in order.  "out of inodes".
alloc_inode(b) ==
    [b EXCEPT !.next_inode = @ + 1, !.inodes = Append(@, <<>>),
              !.ok = @ /\ b.next_inode <= b.ninodes]

\* Store the content of inode `ino' and write the inode.
write_inode(b, ino, dir, content) ==
    LET stored == store_data(b, content)
    IN  [b EXCEPT !.next_zone = stored.next_zone, !.blocks = stored.blocks,
                  !.ok = stored.ok,
                  !.inodes[ino] = [ino |-> ino, dir |-> dir, size |-> Len(content),
                                   zones |-> stored.zones]]

\* A directory's inode is reserved before its children's and stored after them.
RECURSIVE add_tree(_, _, _)
add_tree(b, node, parent) ==
    LET ino == b.next_inode
        Add(acc, e) ==
            [b |-> add_tree(acc.b, e.node, ino),
             entries |-> Append(acc.entries, [name |-> e.name, ino |-> acc.b.next_inode])]
        dots == <<[name |-> ".", ino |-> ino],
                  [name |-> "..", ino |-> IF parent = 0 THEN ino ELSE parent]>>
        children == FoldLeft(Add, [b |-> alloc_inode(b), entries |-> dots], node.entries)
    IN  IF node.dir THEN write_inode(children.b, ino, TRUE, children.entries)
        ELSE write_inode(alloc_inode(b), ino, FALSE, node.data)

\* The blocks of the image: boot, superblock, the bitmaps, the inode table, the
\* zones, the rest of them unused.
finish(b) ==
    LET super == [magic |-> "MAGIC_V3", block_size |-> BLOCK_SIZE, ninodes |-> b.ninodes,
                  imap_blocks |-> b.imap_blocks, zmap_blocks |-> b.zmap_blocks]
        slot(i) == IF i <= Len(b.inodes) THEN b.inodes[i] ELSE [dir |-> FALSE, size |-> 0]
        all == <<"boot", super>>
               \o [i \in 1 .. b.imap_blocks |-> "imap"]
               \o [i \in 1 .. b.zmap_blocks |-> "zmap"]
               \o [t \in 1 .. b.ninodes \div INODES_PER_BLOCK |->
                    [i \in 1 .. INODES_PER_BLOCK |-> slot((t - 1) * INODES_PER_BLOCK + i)]]
               \o b.blocks
    IN  [n \in 0 .. b.total_blocks - 1 |-> IF n < Len(all) THEN all[n + 1] ELSE Chunk(<<>>, 0)]

\* The volume written, if any: an assertion ends the script before it writes.
mkfs(tree, total_blocks, ninodes) ==
    LET b == add_tree(Builder(total_blocks, ninodes), tree, 0)
    IN  IF b.ok THEN <<[tree |-> tree, blocks |-> finish(b)]>> ELSE <<>>
=============================================================================
