----------------------------- MODULE MCVirtualMap -----------------------------
(* VirtualMap with pages of two bytes and bitmap words of six bits, and   *)
(* two kinds of callers: those that call anything, on a small range and    *)
(* with a bitmap that was clear, and those that keep to the functions that *)
(* look before they place, on a larger range and with any bitmap.          *)
EXTENDS VirtualMap

VARIABLE callers          \* "any" or "checked"

FewAddrs  == {10, 12}
MCAddrs   == {8, 10, 12, 14, 16}
MCCounts  == {0, 1, 2}
MCJumps   == {0, 1}

\* The page of the free bitmap may hold anything: words with free and with
\* taken slots, whose upper bits (2 to 5) agree or differ.
ZeroBitmap == [w \in 0 .. 1 |-> {}]
MCBitmaps  == [0 .. 1 -> {{}, {3}, {1, 3}, 2 .. 5}]

\* bounds: what callers that call anything may be given
FewHeld == Cardinality({a \in Address : own[a] > 0})
              + Cardinality({a \in Address : own'[a] > own[a]}) =< 2
LowEnds == \A e \in Listed(vmap') : vmap'.slot[e].base + vmap'.slot[e].len =< 14

MCInit ==
    /\ Init
    /\ \/ callers = "any" /\ vmap.bm = ZeroBitmap
       \/ callers = "checked"

MCNext ==
    /\ \/ callers = "any" /\ Allocate(FewAddrs) /\ FewHeld /\ LowEnds
       \/ callers = "any" /\ Free
       \/ callers = "checked" /\ AllocateChecked(Addrs)
    /\ UNCHANGED callers

MCSpec == MCInit /\ [][MCNext]_<<vars, callers>>

-----------------------------------------------------------------------------
(* Sorted, for callers of page_virtual_alloc_beyond(_ex),                  *)
(* page_virtual_alloc_multiple and page_virtual_alloc_multiple_beyond_ex.  *)
SortedIfChecked == callers = "checked" => Sorted

(* NoSharedPage, for the same callers.                                     *)
NotSharedIfChecked == callers = "checked" => NoSharedPage

(* OwnedCovered, for the same callers.                                     *)
CoveredIfChecked == callers = "checked" => OwnedCovered
=============================================================================
