----------------------------- MODULE FrameSupply -----------------------------
(***************************************************************************)
(* What the users of the physical allocator (page_map's tables, page_alloc)*)
(* rely on: a frame is lent once in the kernel's lifetime, and only its    *)
(* holder gives it back.  PageTables and PageAllocator draw their frames   *)
(* from such a supply.                                                     *)
(***************************************************************************)
CONSTANT Frames

VARIABLE use           \* of each frame: "new", "lent" or "returned"

SupplyInit == use = [f \in Frames |-> "new"]

Lend(f) ==
    /\ use[f] = "new"
    /\ use' = [use EXCEPT ![f] = "lent"]

TakeBack(f) ==
    /\ use[f] = "lent"
    /\ use' = [use EXCEPT ![f] = "returned"]

SupplyNext == \E f \in Frames : Lend(f) \/ TakeBack(f)

SupplySpec == SupplyInit /\ [][SupplyNext]_use
=============================================================================
