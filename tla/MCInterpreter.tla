---------------------------- MODULE MCInterpreter -----------------------------
(* Instances of Interpreter, compared with the reference semantics. *)
EXTENDS Interpreter, Pgms

Reference == INSTANCE BigStep

(* Statements after which any other one ends: no endless loop, no recursion. *)
EndingStmts ==
  StmtId \ {"while True x=0;", "f=lambda n: fact;", "f=lambda n: count;",
            "unset;", "unset=unset;", "[x,y,2]=[1,x];", "print [];", "[1];", "[1,x];"}

(* The language without tuples and unset nodes: one statement on an empty   *)
(* store; a value for x, or a function and no value for x, then others.     *)
EndingPrograms ==
  {<<s>> : s \in EndingStmts}
    \cup {<<"x=1;", s, t>> : s \in EndingStmts, t \in EndingStmts}
    \cup {<<"f=lambda n: n+1;", s>> : s \in EndingStmts}
    \cup {<<"x=1;", f, t>> : f \in {"f=lambda n: fact;", "f=lambda n: count;"},
                             t \in {"x=f(x);", "print f(2);", "f(1);"}}

(* The small-step evaluation ends where the reference semantics does: the   *)
(* same lines printed in the same order (on a fault, the last may not have  *)
(* come out), the same store, the same global    *)
(* environment, or the same undefined behaviour.  It is what the scheduling *)
(* order of every handler, the late dereference of operands, the unrolling  *)
(* of loops and the context switches add up to.                             *)
MatchesReference ==
  Ended =>
    LET meaning == Reference!Meaning(pgm)
    IN  /\ fault = meaning.fault
        /\ meaning.out = IF pc = "exited" THEN printed ELSE printed \o output
        /\ fault = "none" => store = meaning.store /\ env = meaning.env
===============================================================================
