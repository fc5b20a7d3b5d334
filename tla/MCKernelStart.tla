----------------------------- MODULE MCKernelStart ----------------------------
(* KernelStart on machines with and without what the loader needs.         *)
EXTENDS KernelStart

MCWidth == 5
MCHeight == 3

Mode(w, h, s) == [width |-> w, height |-> h, stride |-> s]
ModeLists ==
    {<<>>, <<Mode(4, 3, 4)>>, <<Mode(5, 3, 6), Mode(4, 3, 4), Mode(5, 4, 6)>>,
     <<Mode(5, 3, 5), Mode(5, 2, 6)>>, <<Mode(5, 3, 5), Mode(5, 3, 6)>>}

\* Fonts up to and beyond the last size that fits into two pages.
Fonts == {[ok |-> TRUE, size |-> n] : n \in {1, 3, 4}} \cup {[ok |-> FALSE, size |-> 1]}

MCMachines ==
    {[volumes |-> v, gops |-> g, modes |-> m, font |-> f, elf |-> e] :
        v \in {<<>>, <<FALSE, TRUE>>, <<FALSE>>}, g \in {1, 2}, m \in ModeLists,
        f \in Fonts, e \in BOOLEAN}

MCTraps == {3, 6}
MCIrqs == {8, 9}
=============================================================================
