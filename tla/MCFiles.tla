------------------------------- MODULE MCFiles -------------------------------
(***************************************************************************)
(* Files on three volumes: two that mkfs_minix3.py just fills, with files  *)
(* and directories on both sides of the block, direct and indirect limits, *)
(* and one it would not write, with holes, a deleted entry and a file that *)
(* needs a double-indirect zone.  It refuses four more: too few inodes,    *)
(* too few zones, a file too large, a zone bitmap that never settles.      *)
(***************************************************************************)
EXTENDS Files, TLC

CONSTANT BITS_PER_BLOCK

MkfsOf == INSTANCE Mkfs

\* n bytes that tell every place of every file apart.
Bytes(tag, n) == [i \in 1 .. n |-> tag * 100 + i]

File(tag, n) == [dir |-> FALSE, data |-> Bytes(tag, n)]
Dir(entries) == [dir |-> TRUE, entries |-> entries]
Entry(name, node) == [name |-> name, node |-> node]

SmallTree == Dir(<<Entry("bin", Dir(<<Entry("init", File(1, 9))>>)),
                   Entry("empty", File(2, 0)),
                   Entry("motd", File(3, 5))>>)

FullTree == Dir(<<Entry("a", File(4, 4)), Entry("b", File(5, 8)),
                  Entry("bin", Dir(<<Entry("init", Dir(<<>>))>>)),
                  Entry("c", File(6, 0)), Entry("d", Dir(<<>>)),
                  Entry("e", File(7, 0)), Entry("motd", File(8, 12))>>)

HoledTree == Dir(<<Entry("bin", Dir(<<Entry("init", File(9, 13))>>)),
                   Entry("motd", [dir |-> FALSE, data |-> <<0, 0, 0, 0>> \o Bytes(10, 4) \o <<0, 0>>])>>)

Inode(ino, dir, size, zones) == [ino |-> ino, dir |-> dir, size |-> size, zones |-> zones]
Name(name, ino) == [name |-> name, ino |-> ino]

HoledVolume ==
    [tree |-> HoledTree,
     blocks |-> (0 :> "boot" @@ 1 :> [magic |-> "MAGIC_V3", block_size |-> 4, ninodes |-> 4,
                                     imap_blocks |-> 1, zmap_blocks |-> 1]
       @@ 2 :> "imap" @@ 3 :> "zmap"
       @@ 4 :> <<Inode(1, TRUE, 5, <<6, 12, 0>>), Inode(2, TRUE, 3, <<7, 0, 0>>)>>
       @@ 5 :> <<Inode(3, FALSE, 13, <<8, 9, 10>>), Inode(4, FALSE, 10, <<0, 13, 0>>)>>
       @@ 6 :> <<Name(".", 1), Name("..", 1), Name("motd", 0), Name("bin", 2)>>
       @@ 7 :> <<Name(".", 2), Name("..", 1), Name("init", 3), 0>>
       @@ 8 :> Bytes(9, 4) @@ 9 :> SubSeq(Bytes(9, 8), 5, 8) @@ 10 :> <<11>>
       @@ 11 :> SubSeq(Bytes(9, 12), 9, 12)
       @@ 12 :> <<Name("motd", 4), 0, 0, 0>>
       @@ 13 :> Bytes(10, 4))]

\* No volumes: out of inodes, image full, file too large, and bitmaps that never
\* settle.
Refused ==
    MkfsOf!mkfs(FullTree, 25, 8) \o MkfsOf!mkfs(SmallTree, 16, 6)
    \o MkfsOf!mkfs(HoledTree, 25, 6) \o MkfsOf!mkfs(SmallTree, 24, 6)

MCVolumes == MkfsOf!mkfs(SmallTree, 17, 6) \o MkfsOf!mkfs(FullTree, 25, 10)
             \o Refused \o <<HoledVolume>>

MCPaths == {<<>>, <<"bin", "..", "motd">>, <<"", "bin", ".", "init">>, <<"motd", "x">>,
            <<"motd", "..", "bin">>}
MCExecPaths == {<<"bin", "init">>, <<"motd">>, <<"empty">>}
MCCwds == {<<>>, <<"bin">>}
MCEmbedded == <<"bin", "init">> :> <<"elf">>

MCNameLen == [n \in {".", "..", "a", "b", "c", "d", "e"} |-> 1]
             @@ [n \in {"bin", "init", "motd"} |-> 4] @@ "empty" :> 60

ProcSymmetry == Permutations(Procs)
=============================================================================
