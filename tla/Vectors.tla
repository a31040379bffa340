------------------------------ MODULE Vectors -------------------------------
(***************************************************************************)
(* What the commands do with the vectors of the store, each a loop over    *)
(* the vector: copy the elements that satisfy a condition, add up a count, *)
(* collect the rows of a table.                                            *)
(***************************************************************************)
EXTENDS Naturals, Sequences

(* if (condition) kept.push_back(element)                                  *)
KeepIf(kept, turn) == IF turn.passes THEN Append(kept, turn.element) ELSE kept
Selecting == INSTANCE VectorLoop WITH Step <- KeepIf

(* The elements of v at the given indices, in the order of v.              *)
Selected(v, indices) ==
  Selecting!Run(<<>>, [i \in DOMAIN v |-> [element |-> v[i], passes |-> i \in indices]])

(* sum += count                                                            *)
Plus(sum, count) == sum + count
Summing == INSTANCE VectorLoop WITH Step <- Plus
Total(counts) == Summing!Run(0, counts)

(* The rows one host after the other.                                      *)
Followed(rows, more) == rows \o more
Joining == INSTANCE VectorLoop WITH Step <- Followed
Joined(vectors) == Joining!Run(<<>>, vectors)
=============================================================================
