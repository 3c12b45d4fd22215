------------------------------- MODULE BigStep --------------------------------
(***************************************************************************)
(* A reference definition of what a program means, by recursion over its   *)
(* syntax: operands from left to right, lvalues dereferenced when the      *)
(* operator is applied, parameters assigned in order in the environment    *)
(* the closure captured.  It has no computation stack, no result stack and *)
(* no saved contexts, and says in its own words what an operator yields;   *)
(* the small-step evaluator must agree with it.                            *)
(*                                                                         *)
(* An evaluation maps a state [store, env, out] to an outcome              *)
(*   [how, st, vals]                                                       *)
(* where how is "ok" (vals are the results), "return" (vals is the value   *)
(* returned), or the undefined behaviour met.                              *)
(***************************************************************************)
EXTENDS SteinSyntax

Outcome(how, st, vals) == [how |-> how, st |-> st, vals |-> vals]

Yields(st, r) == Outcome("ok", st, <<r>>)

Value(x) == [type |-> "rvalue", rvalue |-> x]

Cell(a) == [type |-> "lvalue_ref", lvalue_ref |-> a]

Deref(r, st) == CASE r.type = "rvalue"     -> r.rvalue
                  [] r.type = "lvalue_ref" -> st.store[r.lvalue_ref + 1]
                  [] OTHER                 -> NoValue

(***************************************************************************)
(* The operators: an integer result is the int64 that is congruent to the  *)
(* exact one, a quotient is exact or traps, and the first operand decides   *)
(* what the second is read as.                                             *)
(***************************************************************************)
IsTrue(x) == x = BoolVal(TRUE)

(* y read as a value of a type: TRUE is 1, a string its rank. *)
Read(type, y) == CASE y.type # type      -> 0
                   [] type = "bool_val" -> IF IsTrue(y) THEN 1 ELSE 0
                   [] type = "int_val"  -> y.int_val
                   [] type = "str_val"  -> y.str_val

Machine(n) == CHOOSE k \in Int64 : (k - n) % (2 * IntMax + 2) = 0

(* The exact result; a quotient leaves a remainder of the dividend's sign. *)
Exact(op, m, n) ==
  CASE op = "ADD" -> m + n
    [] op = "SUB" -> m - n
    [] op = "MUL" -> m * n
    [] op = "DIV" -> CHOOSE q \in IntMin .. -IntMin :
                       LET r == m - q * n
                       IN  /\ r * r < n * n
                           /\ r * m >= 0

(* The comparisons that hold of two numbers. *)
Comparisons(a, b) == CASE a < b -> {"LT", "LE", "NE"}
                       [] a = b -> {"LE", "GE", "EQ"}
                       [] a > b -> {"GE", "GT", "NE"}

Applied(op, x, y, st) ==
  LET a == Read(x.type, x)
      b == Read(x.type, y)
  IN  CASE op \in ArithOp /\ x.type = "int_val" ->
             IF op = "DIV" /\ (b = 0 \/ Exact(op, a, b) \notin Int64)
             THEN Outcome("sigfpe", st, <<>>)
             ELSE Yields(st, Value(IntVal(Machine(Exact(op, a, b)))))
        [] op \in CmpOp /\ x.type \in {"bool_val", "int_val", "str_val"} ->
             Yields(st, Value(BoolVal(op \in Comparisons(a, b))))
        [] op \in BoolOp /\ x.type = "bool_val" ->
             Yields(st, Value(BoolVal(IF op = "AND" THEN {a, b} = {1} ELSE 1 \in {a, b})))
        [] OTHER -> Yields(st, Value(None))

AppliedTo(op, x, st) ==
  Yields(st, Value(CASE op = "NEG" /\ x.type = "int_val"  -> IntVal(Machine(-x.int_val))
                     [] op = "NEG" /\ x.type = "bool_val" -> x
                     [] op = "NOT" /\ x.type = "bool_val" -> BoolVal(x = BoolVal(FALSE))
                     [] OTHER -> None))

(* Give x a cell holding v: a new one, or the one the environment has. *)
Bound(st, x, v) ==
  IF x \in DOMAIN st.env
  THEN [st EXCEPT !.store[st.env[x] + 1] = v]
  ELSE [st EXCEPT !.store = Append(@, v), !.env = (x :> Len(st.store)) @@ @]

Looked(st, x) == IF x \in DOMAIN st.env THEN st ELSE Bound(st, x, NoValue)

(* The recursion, on what there is to do. *)
RECURSIVE Does(_, _)

EvalAll(es, st) == Does([what |-> "exps", exps |-> es], st)

EvalExp(e, st) == Does([what |-> "exp", exp |-> e], st)

CallFn(closure, args, st) == Does([what |-> "call", closure |-> closure, args |-> args], st)

RunAll(ss, st) == Does([what |-> "stmts", stmts |-> ss], st)

Run(s, st) == Does([what |-> "stmt", stmt |-> s], st)

RunLoop(cond, body, st) == Does([what |-> "loop", cond |-> cond, body |-> body], st)

(* A list of expressions, from left to right. *)
ExpsOutcome(es, st) ==
  IF es = <<>> THEN Outcome("ok", st, <<>>)
  ELSE LET first == EvalExp(Head(es), st)
           rest  == EvalAll(Tail(es), first.st)
       IN  IF first.how # "ok" THEN first
           ELSE [rest EXCEPT !.vals = first.vals \o @]

CallOutcome(closure, args, st) ==
  IF Len(args) > Len(closure.param) THEN Outcome("param_out_of_range", st, <<>>)
  ELSE LET entry == FoldLeft(LAMBDA s, i : Bound(s, closure.param[i], args[i]),
                             [st EXCEPT !.env = closure.env],
                             [i \in DOMAIN args |-> i])
           body  == RunAll(closure.body, entry)
           back  == [body.st EXCEPT !.env = st.env]
       IN  CASE body.how = "return" -> Yields(back, body.vals[1])
             [] body.how = "ok"     -> Outcome("result_underflow", back, <<>>)
             [] OTHER               -> body

ExpOutcome(e, st) ==
  LET x == Exps[e]
      On(es, Apply(_, _)) ==     \* the operands, then the operator
        LET o == EvalAll(es, st)
        IN  IF o.how # "ok" THEN o
            ELSE Apply([i \in DOMAIN o.vals |-> Deref(o.vals[i], o.st)], o.st)
  IN  CASE x.type = "var_exp" ->
             LET s == Looked(st, x.name) IN Yields(s, Cell(s.env[x.name]))
        [] x.type = "lit_exp" -> Yields(st, Value(x.lit))
        [] x.type = "lambda_exp" ->
             Yields(st, Value([type |-> "closure_val", param |-> x.param,
                               body |-> x.body, env |-> st.env]))
        [] x.type = "mon_arith_exp" ->
             On(<<x.exp>>, LAMBDA v, s : AppliedTo(x.op, v[1], s))
        [] x.type = "bin_arith_exp" ->
             On(<<x.lhs, x.rhs>>, LAMBDA v, s : Applied(x.op, v[1], v[2], s))
        [] x.type = "tern_exp" ->
             On(<<x.cond_exp>>,
                LAMBDA v, s : EvalExp(IF IsTrue(v[1]) THEN x.if_exp ELSE x.else_exp, s))
        [] x.type = "func_app_exp" ->
             On(Append(x.arg, x.func),
                LAMBDA v, s :
                  CallFn(IF Last(v).type = "closure_val" THEN Last(v)
                         ELSE [param |-> <<>>, body |-> <<>>, env |-> <<>>],
                         Front(v), s))

LoopOutcome(cond, body, st) ==
  LET c == EvalExp(cond, st)
      b == RunAll(body, c.st)
  IN  IF c.how # "ok" THEN c
      ELSE IF ~IsTrue(Deref(c.vals[1], c.st)) THEN Outcome("ok", c.st, <<>>)
      ELSE IF b.how # "ok" THEN b
      ELSE RunLoop(cond, body, b.st)

StmtOutcome(s, st) ==
  LET x == Stmts[s]
      On(es, Apply(_, _)) ==
        LET o == EvalAll(es, st) IN IF o.how # "ok" THEN o ELSE Apply(o.vals, o.st)
  IN  CASE x.type = "exp_stmt" ->
             On(<<x.exp_stmt>>, LAMBDA v, t : Outcome("ok", t, <<>>))
        [] x.type = "print_stmt" ->
             On(<<x.print_stmt>>,
                LAMBDA v, t : Outcome("ok", [t EXCEPT !.out = Append(@, Deref(v[1], t))], <<>>))
        [] x.type = "ret_stmt" ->
             On(<<x.ret_stmt>>, LAMBDA v, t : Outcome("return", t, <<Value(Deref(v[1], t))>>))
        [] x.type = "assign_stmt" ->
             On(<<x.lhs, x.rhs>>,
                LAMBDA v, t :
                  LET a == IF v[1].type = "lvalue_ref" THEN v[1].lvalue_ref ELSE 0
                  IN  IF a >= Len(t.store) THEN Outcome("store_out_of_range", t, <<>>)
                      ELSE Outcome("ok", [t EXCEPT !.store[a + 1] = Deref(v[2], t)], <<>>))
        [] x.type = "if_else_stmt" ->
             On(<<x.cond>>,
                LAMBDA v, t : RunAll(IF IsTrue(Deref(v[1], t)) THEN x.if_stmts
                                     ELSE x.else_stmts, t))
        [] x.type = "while_stmt" -> RunLoop(x.cond, x.body, st)
        [] x.type = "for_stmt" ->
             LET i == Run(x.init, st)
             IN  IF i.how # "ok" THEN i ELSE RunLoop(x.cond, Append(x.body, x.inc), i.st)

StmtsOutcome(ss, st) ==
  IF ss = <<>> THEN Outcome("ok", st, <<>>)
  ELSE LET first == Run(Head(ss), st)
       IN  IF first.how # "ok" THEN first ELSE RunAll(Tail(ss), first.st)

Does(task, st) ==
  CASE task.what = "exps"  -> ExpsOutcome(task.exps, st)
    [] task.what = "exp"   -> ExpOutcome(task.exp, st)
    [] task.what = "call"  -> CallOutcome(task.closure, task.args, st)
    [] task.what = "stmts" -> StmtsOutcome(task.stmts, st)
    [] task.what = "stmt"  -> StmtOutcome(task.stmt, st)
    [] task.what = "loop"  -> LoopOutcome(task.cond, task.body, st)

(* A program: a return outside every function finds no saved context. *)
Meaning(program) ==
  LET o == RunAll(program, [store |-> <<>>, env |-> <<>>, out |-> <<>>])
  IN  [store |-> o.st.store, env |-> o.st.env, out |-> o.st.out,
       fault |-> CASE o.how = "ok"     -> "none"
                   [] o.how = "return" -> "saved_ctx_underflow"
                   [] OTHER            -> o.how]
===============================================================================
