-------------------------------- MODULE Claims --------------------------------
(***************************************************************************)
(* What a comment of the repository says of the evaluation and the code    *)
(* does not do.                                                            *)
(***************************************************************************)
EXTENDS Evaluator

(* "the evaluated results can be popped off in order"                       *)
(* (language_evaluation.cc:245): every element of a tuple is taken, the     *)
(* deepest one too.  The loop takes the empty Result it has just added in   *)
(* place of one of them, and the deepest is left where the tuple should be. *)
ElementsArePoppedOff ==
  [][TupleExpFinal /\ Top.size > 0 => Last(result') # Popped(Top.size)]_vars
===============================================================================
