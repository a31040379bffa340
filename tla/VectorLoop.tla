----------------------------- MODULE VectorLoop -----------------------------
(***************************************************************************)
(* A loop over a vector, from its front to its end: for (const auto& x :   *)
(* v) state = Step(state, x).  The modules of the components instantiate   *)
(* it with the body of the loop.                                           *)
(***************************************************************************)
EXTENDS Naturals, Sequences

CONSTANT Step(_, _)  (* the state after one turn: of the state before it,  *)
                     (* and of the element                                 *)

(* The state after the loop over v that starts in a state.                 *)
Run(state, v) ==
  LET after[k \in 0..Len(v)] ==
        IF k = 0 THEN state ELSE Step(after[k - 1], v[k])
  IN  after[Len(v)]
=============================================================================
