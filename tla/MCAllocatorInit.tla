--------------------------- MODULE MCAllocatorInit ---------------------------
(* AllocatorInit on memory maps of up to three descriptors, with words of  *)
(* four or six bits.                                                       *)
EXTENDS AllocatorInit

\* Descriptors that follow one another from page 0, in every order of types
\* and sizes.
MCMaps ==
    LET Type == {"usable", "mapping", "other"}
        Size == {1, 3, 8}
        Seqs == [1 .. 3 -> [type : Type, pages : Size]]
    IN  {[k \in 1 .. 3 |->
            [type  |-> s[k].type,
             pages |-> s[k].pages,
             start |-> CASE k = 1 -> 0 [] k = 2 -> s[1].pages [] k = 3 -> s[1].pages + s[2].pages]] :
          s \in Seqs}

\* The pages above the kernel that are mapped already: none or the first few.
MCOccupied == {{}, {0}, {0, 1}}
=============================================================================
