--------------------------- MODULE MCDiscoHeapList ---------------------------
(***************************************************************************)
(* A small instance of DiscoHeapList for TLC.                              *)
(***************************************************************************)
EXTENDS DiscoHeapList, TLC

\* The heap hands out any block that is free, so blocks are interchangeable.
MCSymmetry == Permutations(Block)

\* What the latest operation was matters to no later step.
MCView == <<api, heap, slave, count, owned, told, lost>>
==============================================================================
