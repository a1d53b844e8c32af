--------------------------- MODULE MCProcessMemory ---------------------------
(* An image of one page, a stack of one page, and ten frames.  The pages     *)
(* after the user window are those of RAM in the kernel's map.  A munmap of   *)
(* two pages lies in the window, runs over its end, or finds nothing mapped.  *)
EXTENDS ProcessMemory

NoCodes == {}
FewFrames == 1 .. 10
ImagePages == <<0>>
StackPages == <<4>>
RamPages == 5 .. 14
WindowAndBeyond == {1, 4, 15}
=============================================================================
