------------------------------ MODULE Discipline ------------------------------
(***************************************************************************)
(* The balance of the two stacks.  Every handler takes the results of the  *)
(* computations it scheduled earlier on trust: PopResultOrDie does not     *)
(* look whether there is one.  This module says of which programs that     *)
(* trust is justified, and why.                                            *)
(***************************************************************************)
EXTENDS Evaluator

CONSTANTS ReturningStmts,   \* statements every path of which returns
          TopLevelStmts     \* statements with no return in them

(* The record of a statement: every path returns, or none does. *)
Returns(s) ==
  \/ s.type = "ret_stmt"
  \/ /\ s.type = "if_else_stmt"
     /\ \E i \in DOMAIN s.if_stmts : s.if_stmts[i] \in ReturningStmts
     /\ \E i \in DOMAIN s.else_stmts : s.else_stmts[i] \in ReturningStmts

AllTopLevel(ids) == \A i \in DOMAIN ids : ids[i] \in TopLevelStmts

NeverReturns(s) ==
  CASE s.type = "ret_stmt"     -> FALSE
    [] s.type = "if_else_stmt" -> AllTopLevel(s.if_stmts) /\ AllTopLevel(s.else_stmts)
    [] s.type = "while_stmt"   -> AllTopLevel(s.body)
    [] s.type = "for_stmt"     -> AllTopLevel(s.body) /\ {s.init, s.inc} \subseteq TopLevelStmts
    [] OTHER                   -> TRUE

(* The discipline: no child is left unset, a function body returns on every *)
(* path (the parser does not add the "return None;" its comment announces), *)
(* and no return stands outside a function.                                 *)
ASSUME DisciplineAssumption ==
  /\ ReturningStmts \subseteq StmtId /\ TopLevelStmts \subseteq StmtId
  /\ \A s \in ReturningStmts : Returns(Stmts[s])
  /\ \A s \in TopLevelStmts : NeverReturns(Stmts[s])
  /\ \A e \in ExpId : Exps[e].type # "TYPE_NOT_SET"
  /\ \A e \in Lambdas : \E i \in DOMAIN Exps[e].body : Exps[e].body[i] \in ReturningStmts
  /\ \A p \in Programs : AllTopLevel(p)

(***************************************************************************)
(* What a computation does to the result stack, from the time it becomes   *)
(* the top one to the time the one under it does: it takes Pops of them    *)
(* and leaves Pushes.                                                      *)
(***************************************************************************)
Pushes(c) ==
  CASE c.type \in {"exp", "bin_exp_final", "mon_exp_final", "func_app_exp_final"} -> 1
    [] c.type = "tuple_exp_final" -> IF c.size = 0 THEN 1 ELSE 0
    [] c.type = "if_else_final"   ->
         IF c.if_case # <<>> /\ c.if_case[1].type = "exp" THEN 1 ELSE 0
    [] OTHER -> 0

AllStmts(cs) == \A i \in DOMAIN cs : cs[i].type = "stmt"

(* The two cases of an if_else_final are those of a ternary expression, or  *)
(* of a statement.                                                          *)
OneExp(cs) == Len(cs) = 1 /\ cs[1].type = "exp"

Uniform(c) ==
  c.type = "if_else_final" =>
    \/ OneExp(c.if_case) /\ OneExp(c.else_case)
    \/ AllStmts(c.if_case) /\ AllStmts(c.else_case)

StmtReturns(c) == c.type = "stmt" /\ Returns(c.stmt)

(* A computation the context never gets past. *)
IsExit(c) ==
  \/ c.type = "return_from_ctx"
  \/ StmtReturns(c)
  \/ /\ c.type = "if_else_final"
     /\ AllStmts(c.if_case) /\ AllStmts(c.else_case)
     /\ \E i \in DOMAIN c.if_case : StmtReturns(c.if_case[i])
     /\ \E i \in DOMAIN c.else_case : StmtReturns(c.else_case[i])

StmtStays(c) == c.type = "stmt" => NeverReturns(c.stmt)

(* A computation that cannot become a return. *)
Stays(c) ==
  /\ c.type # "return_from_ctx"
  /\ StmtStays(c)
  /\ c.type = "if_else_final" =>
       /\ \A i \in DOMAIN c.if_case : StmtStays(c.if_case[i])
       /\ \A i \in DOMAIN c.else_case : StmtStays(c.else_case[i])

(* From height h1 of the result stack, c runs and leaves it at height h0. *)
Lowers(c, h1, h0) ==
  /\ Uniform(c)
  /\ Pops(c) <= h1
  /\ h0 = h1 - Pops(c) + Pushes(c)

(* h[i] is the height of the result stack when cs[i] is about to run, n     *)
(* the height now.  A function's context has an exit at k, and what is      *)
(* below it never runs; the program's own context runs to its end and       *)
(* leaves no result.                                                        *)
Profile(h, k, cs, n, inFunction) ==
  /\ h[Len(cs)] = n
  /\ \A i \in k + 1 .. Len(cs) : Lowers(cs[i], h[i], h[i - 1])
  /\ IF inFunction
     THEN k # 0 /\ IsExit(cs[k]) /\ Pops(cs[k]) <= h[k]
     ELSE k = 0 /\ h[0] = 0 /\ \A i \in DOMAIN cs : Stays(cs[i])

Balanced(cs, n, inFunction) ==
  \E k \in 0 .. Len(cs) : \E h \in [k .. Len(cs) -> Nat] : Profile(h, k, cs, n, inFunction)

(* The callee of something that is not a function: it owes a value it does  *)
(* not have.                                                                *)
EmptyCall == comp = <<Op("return_from_ctx")>> /\ result = <<>>

(* The heights, from the top down, and the topmost exit: what a context's   *)
(* profile is when it has one.                                              *)
Heights(cs, n) ==
  LET h[i \in 0 .. Len(cs)] ==
        IF i = Len(cs) THEN n ELSE h[i + 1] - Pops(cs[i + 1]) + Pushes(cs[i + 1])
  IN  h

IsBalanced(cs, n, inFunction) ==
  LET exits == {k \in DOMAIN cs : IsExit(cs[k])}
      k     == IF inFunction /\ exits # {} THEN Max(exits) ELSE 0
  IN  /\ Profile(Heights(cs, n), k, cs, n, inFunction)
      /\ \A i \in k .. Len(cs) : Heights(cs, n)[i] >= 0

-----------------------------------------------------------------------------
(* Every context, live or suspended, will find the results its computations *)
(* are going to pop: what the three properties below rest on.               *)
ContextsBalanced ==
  /\ \/ IsBalanced(comp, Len(result), saved_ctx # <<>>)
     \/ EmptyCall /\ saved_ctx # <<>>
  /\ \A d \in DOMAIN saved_ctx :
       IsBalanced(saved_ctx[d].comp, Len(saved_ctx[d].result) + 1, d > 1)

(* The one way left to pop a result that is not there is to call a value    *)
(* that is not a function.                                                  *)
OnlyEmptyCallsUnderflow == fault = "result_underflow" => EmptyCall

(* A return always finds the context that made the call. *)
ReturnsFindTheirCaller == fault # "saved_ctx_underflow"

(* A program that runs to its end has left every function and used every   *)
(* result: nothing is lost, nothing is left over.                           *)
HaltsClean == fault = "none" /\ ~HasComputation => saved_ctx = <<>> /\ result = <<>>
===============================================================================
