---------------------------- MODULE PooledEvaluator ---------------------------
(***************************************************************************)
(* The evaluator as a client of the pools: every handler of                *)
(* language_evaluation.cc as the sequence of statements it executes on     *)
(* messages.  Where the statements depend on what is found on the way, a   *)
(* statement of the evaluator's own (At("ValueOf"), ...) expands to        *)
(* further ones.                                                           *)
(*                                                                         *)
(* The messages a oneof wraps around its fields (BinArithExpression,       *)
(* Closure, ...) have no pool and are left out: their fields are fields of *)
(* the message around.  One that is released and leaks is Unset at the end *)
(* of its handler, if it still holds something.                            *)
(***************************************************************************)
EXTENDS SteinSyntax, Memory

CONSTANT Limits     \* values of max_arena_allocation_usage, in objects

MessageFields ==
  [EvalContext  |-> <<"store", "cur_ctx", "saved_ctx">>,
   LocalContext |-> <<"comp", "result">>,
   Computation  |-> <<"exp", "stmt", "if_case", "else_case">>,
   Result       |-> <<"rvalue">>,
   Literal      |-> <<"body", "elem">>,
   Expression   |-> <<"lit_exp", "func", "arg", "exp", "lhs", "rhs", "if_exp", "cond_exp",
                      "else_exp", "body">>,
   Statement    |-> <<"exp_stmt", "lhs", "rhs", "ret_stmt", "print_stmt", "init", "cond",
                      "inc", "if_stmts", "else_stmts", "body">>]

PoolTuple == {"Result", "LocalContext", "Literal", "Computation", "Expression"}

ASSUME MessagesAssumption == Schema = MessageFields /\ Pooled = PoolTuple

VARIABLES pgm,      \* EvalContext.pgm
          output,   \* EvalContext.output
          limit     \* FLAGS_max_arena_allocation_usage

vars == <<memVars, pgm, output, limit>>

Local(name) == <<name, 0>>

ctx == Local("ctx_")              \* Evaluator::ctx_
cur == Local("cur_ctx")           \* ctx_->mutable_cur_ctx()
cur_comp == Local("cur_comp")
exp == Local("exp")
stmt == Local("stmt")
lit == Local("lit")
new == Local("new_comp")          \* what Schedule() returned last
fnl == Local("fnl")
res == Local("result")            \* what AddResult() returned last
popped == Local("popped")         \* what PopResultOrDie() returned
arg(i) == <<"arg_results", i>>

Case(type_case) == [type |-> type_case]

Lvalue(a) == [type |-> "lvalue_ref", lvalue_ref |-> a]

Node(e) == [type |-> Exps[e].type, exp |-> e]

Value(x) == val[reg[x]]

Env == Value(cur).env

HasEnv(env) == [type |-> "LocalContext", env |-> env]

Exp == Exps[Value(exp).exp]

Stmt == Value(stmt)

Final == Value(cur_comp)

(* The current statement is replaced by cs. *)
Do(cs) ==
  /\ code' = cs \o Tail(code)
  /\ UNCHANGED <<messages, pool, reg, held, fault, pgm, output, limit>>

Concat(n, cs(_)) == FlattenSeq([i \in 1 .. n |-> cs(i)])

Countdown(n, cs(_)) == FlattenSeq([i \in 1 .. n |-> cs(n + 1 - i)])

(***************************************************************************)
(* Schedule, AddResult, PopResultOrDie.                                    *)
(***************************************************************************)
ScheduleAs(x, v) ==
  <<Allocate("Computation", x), Give(x, cur, "comp"), Write(x, v)>>

Schedule(v) == ScheduleAs(new, v)

(* Schedule()->set_allocated_exp(o->release_f()), and the same for stmt. *)
ScheduleExp(o, f) == Schedule(Case("exp")) \o Transfer(o, f, new, "exp")

ScheduleStmt(o, f) == Schedule(Case("stmt")) \o Transfer(o, f, new, "stmt")

AddResult(v) ==
  <<Allocate("Result", res), Give(res, cur, "result"), Write(res, v)>>

(* result->set_allocated_rvalue(x.release()) *)
SetRvalue(x) == <<Write(res, Case("rvalue")), Give(x, res, "rvalue")>>

(* v = ValueOf(PopResultOrDie()) *)
PopValue(v) ==
  <<Take(cur, "result", popped), [op |-> "ValueOf", x |-> popped, to |-> v], Destroy(popped)>>

ValueOf ==
  /\ At("ValueOf")
  /\ LET r == Value(I.x)
     IN  \/ /\ r.type = "rvalue"
            /\ Do(<<Take(I.x, "rvalue", I.to)>>)
         \/ /\ r.type = "lvalue_ref"
            /\ Do(<<Allocate("Literal", I.to),
                    Point(Local("cell"), ctx, "store", r.lvalue_ref + 1),
                    Copy(Local("cell"), I.to)>>)
         \/ /\ r.type = "TYPE_NOT_SET"
            /\ Do(<<Allocate("Literal", I.to)>>)

(* A statement that stores a value computed from v1 (and v2) in v1. *)
Operate ==
  /\ At("Operate")
  /\ LET c == Final
     IN  \/ /\ c.type = "mon_exp_final"
            /\ Do(<<Write(I.x, MonApply(c.op, Value(I.x)))>>)
         \/ /\ c.type = "bin_exp_final"
            /\ ~Traps(c.op, Value(I.x), Value(I.y))
            /\ Do(<<Write(I.x, BinApply(c.op, Value(I.x), Value(I.y)))>>)

DivisionTrap ==
  /\ At("Operate")
  /\ Final.type = "bin_exp_final"
  /\ Traps(Final.op, Value(I.x), Value(I.y))
  /\ Fail("sigfpe")
  /\ UNCHANGED <<pgm, output, limit>>

(***************************************************************************)
(* Expressions: exp is the PoolPtr Evaluate was given.                     *)
(***************************************************************************)
On(x, type_case) ==
  /\ At("Evaluate")
  /\ I.x = x
  /\ Value(x).type = type_case

ExpComputation ==
  /\ On(cur_comp, "exp")
  /\ Do(<<Take(cur_comp, "exp", exp), [op |-> "Evaluate", x |-> exp], Destroy(exp)>>)

VarExp ==
  /\ On(exp, "var_exp")
  /\ \/ /\ Exp.name \in DOMAIN Env
        /\ Do(AddResult(Lvalue(Env[Exp.name])))
     \/ /\ Exp.name \notin DOMAIN Env
        /\ LET addr == Len(Of(ctx, "store"))
           IN  Do(<<Set(cur, HasEnv(Extended(Env, Exp.name, addr))),
                    Allocate("Literal", lit), Give(lit, ctx, "store")>>
                  \o AddResult(Lvalue(addr)))

LitExp ==
  /\ On(exp, "lit_exp")
  /\ Do(<<Take(exp, "lit_exp", lit)>> \o AddResult(Unset) \o SetRvalue(lit)
        \o <<Destroy(lit)>>)

FuncAppExp ==
  /\ On(exp, "func_app_exp")
  /\ LET n == Len(Of(exp, "arg"))
     IN  Do(Schedule([type |-> "func_app_exp_final", num_args |-> n])
            \o ScheduleExp(exp, "func")
            \o Concat(n, LAMBDA i : ScheduleExp(exp, "arg")))

MonArithExp ==
  /\ On(exp, "mon_arith_exp")
  /\ Do(Schedule([type |-> "mon_exp_final", op |-> Exp.op]) \o ScheduleExp(exp, "exp"))

BinArithExp ==
  /\ On(exp, "bin_arith_exp")
  /\ Do(Schedule([type |-> "bin_exp_final", op |-> Exp.op])
        \o ScheduleExp(exp, "rhs") \o ScheduleExp(exp, "lhs"))

(* c = Allocate<Computation>() with f of o in its case, given to fnl. *)
AddCase(o, f, type_case, c) ==
  <<Allocate("Computation", c), Write(c, Case(type_case))>> \o Transfer(o, f, c, type_case)

TernExp ==
  /\ On(exp, "tern_exp")
  /\ Do(ScheduleAs(fnl, Case("if_else_final"))
        \o AddCase(exp, "if_exp", "exp", Local("if_comp"))
        \o <<Give(Local("if_comp"), fnl, "if_case")>>
        \o AddCase(exp, "else_exp", "exp", Local("else_comp"))
        \o <<Give(Local("else_comp"), fnl, "else_case")>>
        \o ScheduleExp(exp, "cond_exp"))

(* Two loops over es, each reversing. *)
TupleExp ==
  /\ On(exp, "tuple_exp")
  /\ LET es(i) == <<"es", i>>
         n == Len(Of(exp, "exp"))
     IN  Do(Schedule([type |-> "tuple_exp_final", size |-> n])
            \o Concat(n, LAMBDA i : <<Release(exp, "exp", es(i))>>)
            \o Countdown(n, LAMBDA i : Schedule(Case("exp")) \o <<Give(es(i), new, "exp")>>))

LambdaExp ==
  /\ On(exp, "lambda_exp")
  /\ Do(AddResult(Unset)
        \o <<Write(res, Case("rvalue")), Add(res, "rvalue", "Literal", lit),
             Write(lit, [type |-> "closure_val", param |-> Exp.param,
                         body |-> Exp.body, env |-> Env]),
             SwapField(lit, "body", exp, "body")>>)

UnsetExp == On(exp, "TYPE_NOT_SET") /\ Do(<<>>)

(***************************************************************************)
(* Statements: stmt is the raw pointer released from cur_comp.             *)
(***************************************************************************)
StmtComputation ==
  /\ On(cur_comp, "stmt")
  /\ Do(<<Release(cur_comp, "stmt", stmt), [op |-> "Evaluate", x |-> stmt]>>)

ExpStmt ==
  /\ On(stmt, "exp_stmt")
  /\ Do(Schedule(Case("ignore_one_result")) \o ScheduleExp(stmt, "exp_stmt"))

AssignStmt ==
  /\ On(stmt, "assign_stmt")
  /\ Do(Schedule(Case("assign_stmt_final"))
        \o ScheduleExp(stmt, "rhs") \o ScheduleExp(stmt, "lhs"))

RetStmt ==
  /\ On(stmt, "ret_stmt")
  /\ Do(Schedule(Case("return_from_ctx")) \o ScheduleExp(stmt, "ret_stmt"))

PrintStmt ==
  /\ On(stmt, "print_stmt")
  /\ Do(Schedule(Case("print_final")) \o ScheduleExp(stmt, "print_stmt"))

(* The statements are taken from the last one and kept in reversed_comps. *)
MoveCase(stmts, n, case) ==
  Countdown(n, LAMBDA i : AddCase(stmt, stmts, "stmt", <<"reversed_comps", i>>))
    \o Concat(n, LAMBDA i : <<Give(<<"reversed_comps", i>>, fnl, case)>>)

IfElseStmt ==
  /\ On(stmt, "if_else_stmt")
  /\ Do(ScheduleAs(fnl, Case("if_else_final"))
        \o MoveCase("if_stmts", Len(Of(stmt, "if_stmts")), "if_case")
        \o MoveCase("else_stmts", Len(Of(stmt, "else_stmts")), "else_case")
        \o ScheduleExp(stmt, "cond"))

(* An iteration gets a copy of the condition and the body; the statement   *)
(* itself goes last, swapped into a new message.                           *)
WhileStmt ==
  /\ On(stmt, "while_stmt")
  /\ LET cond_cpy == Local("cond_cpy")
         comp == Local("comp")
         dst == Local("dst")
         NewStmt == <<Allocate("Computation", comp), Write(comp, Case("stmt")),
                      Add(comp, "stmt", "Statement", dst)>>
         Iteration(i) == NewStmt \o <<Point(Local("s"), stmt, "body", i),
                                      Copy(Local("s"), dst), Give(comp, fnl, "if_case")>>
     IN  Do(<<Allocate("Expression", cond_cpy), Point(Local("cond"), stmt, "cond", 1),
              Copy(Local("cond"), cond_cpy)>>
            \o ScheduleAs(fnl, Case("if_else_final"))
            \o Concat(Len(Of(stmt, "body")), Iteration)
            \o NewStmt \o <<Swap(dst, stmt), Give(comp, fnl, "if_case")>>
            \o Schedule(Case("exp")) \o <<Give(cond_cpy, new, "exp")>>)

ForStmt ==
  /\ On(stmt, "for_stmt")
  /\ LET while_stmt == Local("while_stmt")
     IN  Do(Schedule(Case("stmt"))
            \o <<Add(new, "stmt", "Statement", while_stmt),
                 Write(while_stmt, [type |-> "while_stmt", cond |-> Stmt.cond,
                                    body |-> Append(Stmt.body, Stmt.inc)])>>
            \o Transfer(stmt, "cond", while_stmt, "cond")
            \o <<SwapField(while_stmt, "body", stmt, "body")>>
            \o Transfer(stmt, "inc", while_stmt, "body")
            \o ScheduleStmt(stmt, "init"))

UnsetStmt == On(stmt, "TYPE_NOT_SET") /\ Do(<<>>)

(***************************************************************************)
(* Finals.  Locals go in the reverse order of their definition.            *)
(***************************************************************************)
BinExpFinal ==
  /\ On(cur_comp, "bin_exp_final")
  /\ LET lhs == Local("lhs")
         rhs == Local("rhs")
     IN  Do(PopValue(rhs) \o PopValue(lhs) \o AddResult(Unset)
            \o <<[op |-> "Operate", x |-> lhs, y |-> rhs]>> \o SetRvalue(lhs)
            \o <<Destroy(lhs), Destroy(rhs)>>)

MonExpFinal ==
  /\ On(cur_comp, "mon_exp_final")
  /\ LET arg_v == Local("arg_v")
     IN  Do(PopValue(arg_v) \o AddResult(Unset)
            \o <<[op |-> "Operate", x |-> arg_v]>> \o SetRvalue(arg_v)
            \o <<Destroy(arg_v)>>)

(* result points to the Result AddResult pushed, which the first round pops *)
(* and returns to the pool.                                                 *)
TupleExpFinal ==
  /\ On(cur_comp, "tuple_exp_final")
  /\ LET elem == Local("elem_val")
     IN  Do(AddResult(Unset)
            \o Concat(Final.size,
                 LAMBDA i : PopValue(elem)
                            \o <<[op |-> "mutable_rvalue"], [op |-> "mutable_tuple_val"],
                                 Give(elem, lit, "elem"), Destroy(elem)>>))

MutableRvalue ==
  /\ At("mutable_rvalue")
  /\ \/ /\ Value(res).type = "rvalue"
        /\ Do(<<Point(lit, res, "rvalue", 1)>>)
     \/ /\ Value(res).type # "rvalue"
        /\ Do(<<Write(res, Case("rvalue")), Add(res, "rvalue", "Literal", lit)>>)

MutableTupleVal ==
  /\ At("mutable_tuple_val")
  /\ Do(IF Value(lit).type = "tuple_val" THEN <<>> ELSE <<Write(lit, Case("tuple_val"))>>)

IgnoreOneResult ==
  /\ On(cur_comp, "ignore_one_result")
  /\ Do(<<Take(cur, "result", popped), Destroy(popped)>>)

AssignStmtFinal ==
  /\ On(cur_comp, "assign_stmt_final")
  /\ LET rhs_val == Local("rhs_val")
     IN  Do(PopValue(rhs_val)
            \o <<Take(cur, "result", popped), [op |-> "CellOf", x |-> popped],
                 Swap(Local("cell"), rhs_val), Destroy(popped), Destroy(rhs_val)>>)

(* lhs_result->lvalue_ref() of a result that is not an lvalue is 0. *)
CellOfResult ==
  /\ At("CellOf")
  /\ LET r == Value(I.x)
         addr == IF r.type = "lvalue_ref" THEN r.lvalue_ref ELSE 0
     IN  Do(<<Point(Local("cell"), ctx, "store", addr + 1)>>)

IfElseFinal ==
  /\ On(cur_comp, "if_else_final")
  /\ LET cond_val == Local("cond_val")
     IN  Do(PopValue(cond_val)
            \o <<[op |-> "Branch", x |-> cond_val], Destroy(cond_val), Write(cur_comp, Unset)>>)

Branch ==
  /\ At("Branch")
  /\ LET case == IF AsBool(Value(I.x)) THEN "if_case" ELSE "else_case"
     IN  Do(Concat(Len(Of(cur_comp, case)), LAMBDA i : Transfer(cur_comp, case, cur, "comp")))

PrintFinal ==
  /\ On(cur_comp, "print_final")
  /\ LET v == Local("v")
     IN  Do(PopValue(v) \o <<[op |-> "Output", x |-> v], Destroy(v)>>)

Output ==
  /\ At("Output")
  /\ output' = Append(output, Value(I.x))
  /\ UNCHANGED <<messages, pool, reg, held, pgm, limit>>
  /\ Continue

(***************************************************************************)
(* Function application.                                                   *)
(***************************************************************************)
func_val == Local("func_val")

Mut_EmplaceShiftsUp(i) ==
  PopValue(Local("arg"))
    \o Concat(i - 1, LAMBDA j : <<Move(arg(j), arg(j + 1))>>)
    \o <<Move(Local("arg"), arg(1))>>

(* arg_results.emplace(begin, ...): the others move up, from the last one,  *)
(* so that every target is empty.                                           *)
EmplaceFirst(i) ==
  PopValue(Local("arg"))
    \o Countdown(i - 1, LAMBDA j : <<Move(arg(j), arg(j + 1))>>)
    \o <<Move(Local("arg"), arg(1))>>

SaveLocalContext ==
  Transfer(ctx, "cur_ctx", ctx, "saved_ctx")
    \o <<Allocate("LocalContext", Local("fresh")), Give(Local("fresh"), ctx, "cur_ctx"),
         Point(cur, ctx, "cur_ctx", 1)>>

FuncAppExpFinal ==
  /\ On(cur_comp, "func_app_exp_final")
  /\ LET n == Final.num_args
     IN  Do(PopValue(func_val) \o <<[op |-> "mutable_closure_val"]>>
            \o Concat(n, EmplaceFirst) \o SaveLocalContext \o <<[op |-> "Enter"]>>
            \o Concat(n, LAMBDA i : <<[op |-> "AssignParam", i |-> i]>>)
            \o Schedule(Case("return_from_ctx")) \o <<[op |-> "ScheduleBody"]>>
            \o Countdown(n, LAMBDA i : <<Destroy(arg(i))>>) \o <<Destroy(func_val)>>)

(* Any other value becomes an empty closure. *)
MutableClosureVal ==
  /\ At("mutable_closure_val")
  /\ Do(IF Value(func_val).type = "closure_val" THEN <<>>
        ELSE <<Write(func_val, [type |-> "closure_val", param |-> <<>>, body |-> <<>>,
                                env |-> [x \in {} |-> 0]])>>)

Enter == At("Enter") /\ Do(<<Set(cur, HasEnv(Value(func_val).env))>>)

(* Assign(closure->param(i).name(), std::move(arg_results[i])) *)
AssignParam ==
  /\ At("AssignParam")
  /\ I.i <= Len(Value(func_val).param)
  /\ LET name == Value(func_val).param[I.i]
         value == Local("value")
     IN  \/ /\ name \in DOMAIN Env
            /\ Do(<<Move(arg(I.i), value), Point(Local("cell"), ctx, "store", Env[name] + 1),
                    Swap(Local("cell"), value), Destroy(value)>>)
         \/ /\ name \notin DOMAIN Env
            /\ Do(<<Move(arg(I.i), value),
                    Set(cur, HasEnv(Extended(Env, name, Len(Of(ctx, "store"))))),
                    Give(value, ctx, "store"), Destroy(value)>>)

ParamOutOfRange ==
  /\ At("AssignParam")
  /\ I.i > Len(Value(func_val).param)
  /\ Fail("param_out_of_range")
  /\ UNCHANGED <<pgm, output, limit>>

ScheduleBody ==
  /\ At("ScheduleBody")
  /\ Do(Concat(Len(Of(func_val, "body")), LAMBDA i : ScheduleStmt(func_val, "body")))

ReturnFromCtx ==
  /\ On(cur_comp, "return_from_ctx")
  /\ LET return_val == Local("return_val")
         old_ctx == Local("old_ctx")
     IN  Do(<<[op |-> "PopTailReturns"]>> \o PopValue(return_val)
            \o <<Take(ctx, "cur_ctx", old_ctx)>>
            \o Transfer(ctx, "saved_ctx", ctx, "cur_ctx")
            \o <<Destroy(old_ctx), Point(cur, ctx, "cur_ctx", 1)>>
            \o AddResult(Unset) \o SetRvalue(return_val) \o <<Destroy(return_val)>>)

PopTailReturns ==
  /\ At("PopTailReturns")
  /\ LET comps == Of(cur, "comp")
         tail == Local("tail")
         returns == comps # <<>> /\ val[Last(comps)].type = "return_from_ctx"
     IN  Do(IF returns THEN <<Take(cur, "comp", tail), Destroy(tail), I>> ELSE <<>>)

(***************************************************************************)
(* InitCtx builds the context of a program, message by message.            *)
(***************************************************************************)
Parts(t, v) ==
  LET Exprs(f, es) == [i \in DOMAIN es |-> <<f, "Expression", Node(es[i])>>]
      Stmts_(f, ss) == [i \in DOMAIN ss |-> <<f, "Statement", Stmts[ss[i]]>>]
      e == IF t = "Expression" THEN Exps[v.exp] ELSE Case("none")
  IN  CASE e.type = "lit_exp"       -> <<<<"lit_exp", "Literal", e.lit>>>>
        [] e.type = "func_app_exp"  -> Exprs("func", <<e.func>>) \o Exprs("arg", e.arg)
        [] e.type = "mon_arith_exp" -> Exprs("exp", <<e.exp>>)
        [] e.type = "bin_arith_exp" -> Exprs("lhs", <<e.lhs>>) \o Exprs("rhs", <<e.rhs>>)
        [] e.type = "tern_exp"      -> Exprs("if_exp", <<e.if_exp>>)
                                       \o Exprs("cond_exp", <<e.cond_exp>>)
                                       \o Exprs("else_exp", <<e.else_exp>>)
        [] e.type = "tuple_exp"     -> Exprs("exp", e.exp)
        [] e.type = "lambda_exp"    -> Stmts_("body", e.body)
        [] v.type \in {"exp_stmt", "ret_stmt", "print_stmt"} -> Exprs(v.type, <<v[v.type]>>)
        [] v.type = "assign_stmt"   -> Exprs("lhs", <<v.lhs>>) \o Exprs("rhs", <<v.rhs>>)
        [] v.type = "if_else_stmt"  -> Exprs("cond", <<v.cond>>)
                                       \o Stmts_("if_stmts", v.if_stmts)
                                       \o Stmts_("else_stmts", v.else_stmts)
        [] v.type = "while_stmt"    -> Exprs("cond", <<v.cond>>) \o Stmts_("body", v.body)
        [] v.type = "for_stmt"      -> Stmts_("init", <<v.init>>) \o Exprs("cond", <<v.cond>>)
                                       \o Stmts_("inc", <<v.inc>>) \o Stmts_("body", v.body)
        [] OTHER                    -> <<>>

(* A message of field f of o, with all it is made of; depth tells apart    *)
(* the locals of the recursion.                                            *)
node(t, depth) == <<"node", depth, t>>

Build(o, f, t, v, depth) ==
  <<Add(o, f, t, node(t, depth)), Write(node(t, depth), v),
    [op |-> "BuildFields", type |-> t, val |-> v, depth |-> depth]>>

BuildFields ==
  /\ At("BuildFields")
  /\ LET parts == Parts(I.type, I.val)
     IN  Do(Concat(Len(parts), LAMBDA i : Build(node(I.type, I.depth), parts[i][1], parts[i][2],
                                                parts[i][3], I.depth + 1)))

InitCtx(p) ==
  <<Make("EvalContext", ctx, TRUE), Add(ctx, "cur_ctx", "LocalContext", cur),
    Write(cur, HasEnv([x \in {} |-> 0]))>>
    \o Countdown(Len(p), LAMBDA i : <<Add(cur, "comp", "Computation", new),
                                      Write(new, Case("stmt"))>>
                                    \o Build(new, "stmt", "Statement", Stmts[p[i]], 0))
    \o <<Leave(ctx)>>

(***************************************************************************)
(* The specification.                                                      *)
(***************************************************************************)
Mut_ResetKeepsCtx ==
  LET ctx_cpy == Local("ctx_cpy")
  IN  <<Make("EvalContext", ctx_cpy, FALSE), CopyAssign(ctx, ctx_cpy), Reset,
        CopyAssign(ctx_cpy, ctx), Leave(ctx)>>

(* EvalContext ctx_cpy = *ctx_; and back into a context of the new arena.  *)
ResetBlock ==
  LET ctx_cpy == Local("ctx_cpy")
  IN  <<Make("EvalContext", ctx_cpy, FALSE), CopyAssign(ctx, ctx_cpy), Reset,
        Make("EvalContext", ctx, TRUE), CopyAssign(ctx_cpy, ctx), Leave(ctx)>>

(* Between two calls: no statement is left and ctx_ is in place. *)
Idle == code = <<>> /\ fault = "none"

CurComps == kids[kids[reg[ctx]]["cur_ctx"][1]]["comp"]

Step ==
  /\ Idle
  /\ CurComps # <<>>
  /\ code' = (IF top > limit THEN ResetBlock ELSE <<>>)
             \o <<Point(cur, ctx, "cur_ctx", 1), Take(cur, "comp", cur_comp),
                  [op |-> "Evaluate", x |-> cur_comp], Destroy(cur_comp), Leave(ctx)>>
  /\ UNCHANGED <<messages, pool, reg, held, fault, pgm, output, limit>>

ConsumeOutput ==
  /\ Idle
  /\ output # <<>>
  /\ output' = <<>>
  /\ UNCHANGED <<memVars, pgm, limit>>

OfTheEvaluator ==
  \/ ValueOf \/ Operate \/ DivisionTrap \/ ExpComputation \/ VarExp \/ LitExp
  \/ FuncAppExp \/ MonArithExp \/ BinArithExp \/ TernExp \/ TupleExp \/ LambdaExp
  \/ UnsetExp \/ StmtComputation \/ ExpStmt \/ AssignStmt \/ RetStmt \/ PrintStmt
  \/ IfElseStmt \/ WhileStmt \/ ForStmt \/ UnsetStmt \/ BinExpFinal \/ MonExpFinal
  \/ TupleExpFinal \/ MutableRvalue \/ MutableTupleVal \/ IgnoreOneResult
  \/ AssignStmtFinal \/ CellOfResult \/ IfElseFinal \/ Branch \/ PrintFinal \/ Output
  \/ FuncAppExpFinal \/ MutableClosureVal \/ Enter \/ AssignParam \/ ParamOutOfRange
  \/ ScheduleBody \/ ReturnFromCtx \/ PopTailReturns \/ BuildFields

OfTheMemory == Execute /\ UNCHANGED <<pgm, output, limit>>

Init ==
  /\ pgm \in Programs
  /\ limit \in Limits
  /\ output = <<>> /\ fault = "none" /\ held = {}
  /\ type = <<>> /\ val = <<>> /\ kids = <<>> /\ top = 0 /\ low = 0
  /\ pool = [t \in Pooled |-> <<>>]
  /\ reg = <<>>
  /\ code = InitCtx(pgm)

Next == Step \/ ConsumeOutput \/ OfTheEvaluator \/ OfTheMemory

Spec == Init /\ [][Next]_vars /\ WF_vars(Next)
===============================================================================
