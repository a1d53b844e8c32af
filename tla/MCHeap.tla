------------------------------- MODULE MCHeap -------------------------------
(* Blocks of 2 bytes and pages of 8: a byte, most of a page, more than a page *)
(* and a block aligned to two pages.                                          *)
EXTENDS Heap

SomeLayouts ==
    {[size |-> 1, align |-> 1], [size |-> 5, align |-> 4],
     [size |-> 10, align |-> 2], [size |-> 3, align |-> 16]}
=============================================================================
