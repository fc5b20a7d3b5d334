----------------------------- MODULE MCPageTables -----------------------------
(* PageTables with three entries a table.  The pages share all, some or none*)
(* of their tables, and the pool runs out in the middle of a walk.         *)
EXTENDS PageTables

MCFrames == {"zero", "r0", "r1", "bp", "bd", "big", "f1", "f2", "f3", "f4", "f5"}
MCRoots  == {"r0", "r1"}
MCPool   == <<"f1", "f2", "f3", "f4", "f5">>

\* Pages of the kernel's part of the address space.
KernelPages == {<<2, 0, 0, 0>>, <<2, 0, 0, 1>>, <<2, 1, 0, 0>>}
OnePage     == {<<2, 0, 0, 1>>}
MCWriteIdx  == {0}
=============================================================================
