--------------------------- MODULE MCPageAllocator ---------------------------
(* PageAllocator with pages of two bytes.  The caller's variable is on a   *)
(* page below the first entry; the frames run out after a few calls.       *)
EXTENDS PageAllocator

MCAddrs    == {10, 12}
MCCounts   == {0, 1, 2}
MCJumps    == {0, 1}
ZeroBitmap == {[w \in 0 .. 1 |-> {}]}
=============================================================================
