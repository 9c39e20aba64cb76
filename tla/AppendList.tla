------------------------------ MODULE AppendList ------------------------------
(***************************************************************************)
(* What EncodeAppend promises: the encoded value behaves as a list that    *)
(* grows at its end.  A call adds all the items in order, or it fails and  *)
(* the value is gone, which it may do only for a list that would be too    *)
(* long, too large to be moved, or that was no valid encoding.             *)
(***************************************************************************)
EXTENDS Naturals, Sequences

CONSTANTS
  Batches,   \* the sequences of items a caller may append
  Lists,     \* the lists a caller may begin with
  MaxCount,  \* items a list can have
  MaxSize    \* items of a list that can surely be moved

VARIABLES list, state

vars == <<list, state>>

Init ==
  \/ state = "valid" /\ list \in Lists
  \/ state = "corrupt" /\ list = <<>>

Add(xs) ==
  /\ state = "valid"
  /\ Len(list) + Len(xs) <= MaxCount
  /\ list' = list \o xs
  /\ state' = "valid"

Fail(xs) ==
  /\ state \in {"valid", "corrupt"}
  /\ \/ state = "corrupt"
     \/ Len(list) + Len(xs) > MaxCount
     \/ Len(list) > MaxSize
  /\ list' = <<>>
  /\ state' = "lost"

Next == \E xs \in Batches : Add(xs) \/ Fail(xs)

Spec == Init /\ [][Next]_vars
=============================================================================
