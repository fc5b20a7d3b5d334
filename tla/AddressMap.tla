------------------------------ MODULE AddressMap ------------------------------
(***************************************************************************)
(* What the page mapper of kernel/arch/x86_64/paging.c promises            *)
(* (memory.h:62-112): every address space maps virtual pages to frames, a  *)
(* page is mapped only while it is not mapped already, and a call concerns *)
(* one page of one address space.                                          *)
(***************************************************************************)
CONSTANTS
    Spaces,        \* the top-level tables
    Pages,         \* virtual pages
    Frames,        \* physical frames
    NoFrame        \* a page that is not mapped

VARIABLES
    space,         \* the mapping of each address space
    current        \* the address space in use

mapVars == <<space, current>>

MapInit ==
    /\ space \in [Spaces -> [Pages -> Frames \cup {NoFrame}]]
    /\ current \in Spaces

Map(s, p, f) ==
    /\ space[s][p] = NoFrame
    /\ space' = [space EXCEPT ![s][p] = f]
    /\ UNCHANGED current

Unmap(p) ==
    /\ space' = [space EXCEPT ![current][p] = NoFrame]
    /\ UNCHANGED current

Switch(s) ==
    /\ current' = s
    /\ UNCHANGED space

MapNext ==
    \/ \E s \in Spaces, p \in Pages, f \in Frames : Map(s, p, f)
    \/ \E p \in Pages : Unmap(p)
    \/ \E s \in Spaces : Switch(s)

MapSpec == MapInit /\ [][MapNext]_mapVars
=============================================================================
