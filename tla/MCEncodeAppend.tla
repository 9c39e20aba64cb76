---------------------------- MODULE MCEncodeAppend ----------------------------
(***************************************************************************)
(* EncodeAppend with counts scaled down: all prefix sizes and the largest  *)
(* count are a few appends away.                                           *)
(***************************************************************************)
EXTENDS EncodeAppend, SequencesExt

CONSTANT MaxBatch

MCBatches == BoundedSeq(Item, MaxBatch)
MCLists == BoundedSeq(Item, 2)
=============================================================================
