------------------------------ MODULE MCEvaluator -----------------------------
(* Instances of Evaluator: every program of one or two statements of a pool. *)
EXTENDS Evaluator, Pgms

AnyPrograms == {<<s>> : s \in StmtId} \cup {<<s, t>> : s \in StmtId, t \in StmtId}

(* A recursion that does not end is followed to this depth. *)
MaxDepth == 4

DepthBound == Len(saved_ctx) <= MaxDepth
===============================================================================
