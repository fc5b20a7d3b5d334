--------------------------- MODULE MCPhysicalFrames ---------------------------
(* PhysicalFrames on a few words of four bits; counts of none, one frame,  *)
(* a run within a word, a run across words, and more than the counter      *)
(* holds.                                                                  *)
EXTENDS PhysicalFrames

MCCounts == {0, 1, 2, 5, 9}
=============================================================================
