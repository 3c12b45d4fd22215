------------------------------ MODULE Evaluator -------------------------------
(***************************************************************************)
(* The small-step evaluator (language_evaluation.cc).  The current local   *)
(* context holds a stack of computations and a stack of results; a call    *)
(* suspends it in saved_ctx and a return resumes it.  Stacks are sequences *)
(* whose last element is the top; addresses of the store count from 0.     *)
(*                                                                         *)
(* Undefined behaviour (popping an empty RepeatedPtrField, indexing past   *)
(* the end of one, SIGFPE) ends a behaviour: fault names what was reached  *)
(* and nothing is said of the process from there on.                       *)
(***************************************************************************)
EXTENDS SteinSyntax

VARIABLES pgm,         \* EvalContext.pgm
          store,       \* EvalContext.store
          output,      \* EvalContext.output
          comp,        \* EvalContext.cur_ctx.comp
          result,      \* EvalContext.cur_ctx.result
          env,         \* EvalContext.cur_ctx.env
          saved_ctx,   \* EvalContext.saved_ctx
          fault        \* the undefined behaviour reached, or "none"

vars == <<pgm, store, output, comp, result, env, saved_ctx, fault>>

(***************************************************************************)
(* The state.  n is a number of cells: addresses are below n.              *)
(***************************************************************************)
Envs(n) == UNION {[D -> 0 .. n-1] : D \in SUBSET Name}

Lambdas == {e \in ExpId : Exps[e].type = "lambda_exp"}

Closures(n) ==
  {c \in [type : {"closure_val"}, param : Seq(Name), body : Seq(StmtId), env : Envs(n)] :
     \E e \in Lambdas : c.param = Exps[e].param /\ c.body = Exps[e].body}

Literals(n) == PlainLiterals \cup Closures(n)

Results(n) == [type : {"rvalue"}, rvalue : Literals(n)]
                \cup [type : {"lvalue_ref"}, lvalue_ref : 0 .. n-1]
                \cup {[type |-> "TYPE_NOT_SET"]}

Unevaluated == [type : {"exp"}, exp : ExpId] \cup [type : {"stmt"}, stmt : Statements]

Finals ==
  [type : {"bin_exp_final"}, op : BinArithOp]
    \cup [type : {"mon_exp_final"}, op : MonArithOp]
    \cup [type : {"tuple_exp_final"}, size : Nat]
    \cup [type : {"func_app_exp_final"}, num_args : Nat]
    \cup [type : {"if_else_final"}, if_case : Seq(Unevaluated),
                                    else_case : Seq(Unevaluated)]
    \cup [type : {"ignore_one_result", "assign_stmt_final",
                  "return_from_ctx", "print_final"}]

Computations == Unevaluated \cup Finals

LocalContexts(n) ==
  [comp : Seq(Computations), result : Seq(Results(n)), env : Envs(n)]

Faults == {"none", "result_underflow", "saved_ctx_underflow",
           "param_out_of_range", "store_out_of_range", "sigfpe"}

Rvalue(x) == [type |-> "rvalue", rvalue |-> x]

Lvalue(a) == [type |-> "lvalue_ref", lvalue_ref |-> a]

NoResult == [type |-> "TYPE_NOT_SET"]

ExpComp(e) == [type |-> "exp", exp |-> e]

StmtComp(s) == [type |-> "stmt", stmt |-> s]

StmtComps(ids) == [i \in DOMAIN ids |-> StmtComp(Stmts[ids[i]])]

Op(t) == [type |-> t]

IfElseFinal(if_case, else_case) ==
  [type |-> "if_else_final", if_case |-> if_case, else_case |-> else_case]

CurCtx == [comp |-> comp, result |-> result, env |-> env]

(***************************************************************************)
(* Helpers of the handlers.                                                *)
(***************************************************************************)
HasComputation == comp # <<>>

Top == Last(comp)

Rest == Front(comp)

(* PopResultOrDie, for the i-th result from the top. *)
Popped(i) == result[Len(result) + 1 - i]

Mut_DroppedOneMore(n) == SubSeq(result, 1, Len(result) - n - 1)

Dropped(n) == SubSeq(result, 1, Len(result) - n)

ValueOf(r) == CASE r.type = "rvalue"     -> r.rvalue
                [] r.type = "lvalue_ref" -> store[r.lvalue_ref + 1]
                [] OTHER                 -> NoValue

(* The results a final computation takes off the stack. *)
Pops(c) == CASE c.type = "bin_exp_final"      -> 2
             [] c.type = "mon_exp_final"      -> 1
             [] c.type = "tuple_exp_final"    -> IF c.size = 0 THEN 0 ELSE c.size - 1
             [] c.type = "ignore_one_result"  -> 1
             [] c.type = "assign_stmt_final"  -> 2
             [] c.type = "func_app_exp_final" -> c.num_args + 1
             [] c.type = "return_from_ctx"    -> 1
             [] c.type = "if_else_final"      -> 1
             [] c.type = "print_final"        -> 1
             [] OTHER                         -> 0

Running == fault = "none" /\ HasComputation

Scheduled(t) == Running /\ Top.type = t /\ Len(result) >= Pops(Top)

ScheduledExp(t) == Scheduled("exp") /\ Exps[Top.exp].type = t

ScheduledStmt(t) == Scheduled("stmt") /\ Top.stmt.type = t

Exp == Exps[Top.exp]

Stmt == Top.stmt

(* The top computation is replaced by cs, whose last one runs first. *)
Unfold(cs) ==
  /\ comp' = Rest \o cs
  /\ UNCHANGED <<pgm, store, output, result, env, saved_ctx, fault>>

Yield(r) ==
  /\ comp' = Rest
  /\ result' = Append(result, r)
  /\ UNCHANGED <<pgm, output, saved_ctx, fault>>

(* n results are replaced by r. *)
Reduce(n, r) ==
  /\ comp' = Rest
  /\ result' = Append(Dropped(n), r)
  /\ UNCHANGED <<pgm, store, output, env, saved_ctx, fault>>

Fail(kind) ==
  /\ fault' = kind
  /\ UNCHANGED <<pgm, store, output, comp, result, env, saved_ctx>>

(***************************************************************************)
(* Expressions.                                                            *)
(***************************************************************************)
Mut_NewAddressPast == Len(store) + 1

Mut_NewAddressLast == IF store = <<>> THEN 0 ELSE Len(store) - 1

NewAddress == Len(store)

(* Lookup allocates a cell for a name that has none, even to read it. *)
VarExp ==
  /\ ScheduledExp("var_exp")
  /\ \/ /\ Exp.name \in DOMAIN env
        /\ Yield(Lvalue(env[Exp.name]))
        /\ UNCHANGED <<store, env>>
     \/ /\ Exp.name \notin DOMAIN env
        /\ Yield(Lvalue(NewAddress))
        /\ env' = [x \in DOMAIN env \cup {Exp.name} |->
                     IF x = Exp.name THEN NewAddress ELSE env[x]]
        /\ store' = Append(store, NoValue)

LitExp ==
  /\ ScheduledExp("lit_exp")
  /\ Yield(Rvalue(Exp.lit))
  /\ UNCHANGED <<store, env>>

FuncAppExp ==
  /\ ScheduledExp("func_app_exp")
  /\ Unfold(<<[type |-> "func_app_exp_final", num_args |-> Len(Exp.arg)],
              ExpComp(Exp.func)>>
            \o [i \in DOMAIN Exp.arg |-> ExpComp(Exp.arg[Len(Exp.arg) + 1 - i])])

MonArithExp ==
  /\ ScheduledExp("mon_arith_exp")
  /\ Unfold(<<[type |-> "mon_exp_final", op |-> Exp.op], ExpComp(Exp.exp)>>)

Mut_BinArithExpSwapped ==
  /\ ScheduledExp("bin_arith_exp")
  /\ Unfold(<<[type |-> "bin_exp_final", op |-> Exp.op],
              ExpComp(Exp.lhs), ExpComp(Exp.rhs)>>)

BinArithExp ==
  /\ ScheduledExp("bin_arith_exp")
  /\ Unfold(<<[type |-> "bin_exp_final", op |-> Exp.op],
              ExpComp(Exp.rhs), ExpComp(Exp.lhs)>>)

TernExp ==
  /\ ScheduledExp("tern_exp")
  /\ Unfold(<<IfElseFinal(<<ExpComp(Exp.if_exp)>>, <<ExpComp(Exp.else_exp)>>),
              ExpComp(Exp.cond_exp)>>)

(* Two loops over es, each reversing: the elements run right to left. *)
TupleExp ==
  /\ ScheduledExp("tuple_exp")
  /\ Unfold(<<[type |-> "tuple_exp_final", size |-> Len(Exp.exp)]>>
            \o [i \in DOMAIN Exp.exp |-> ExpComp(Exp.exp[i])])

(* The closure captures the environment by copy. *)
LambdaExp ==
  /\ ScheduledExp("lambda_exp")
  /\ Yield(Rvalue([type |-> "closure_val", param |-> Exp.param,
                   body |-> Exp.body, env |-> env]))
  /\ UNCHANGED <<store, env>>

UnsetExp ==
  /\ ScheduledExp("TYPE_NOT_SET")
  /\ Unfold(<<>>)

(***************************************************************************)
(* Statements.                                                             *)
(***************************************************************************)
Mut_ExpStmtKeepsResult ==
  /\ ScheduledStmt("exp_stmt")
  /\ Unfold(<<ExpComp(Stmt.exp_stmt)>>)

ExpStmt ==
  /\ ScheduledStmt("exp_stmt")
  /\ Unfold(<<Op("ignore_one_result"), ExpComp(Stmt.exp_stmt)>>)

(* The left-hand side is looked up before the right-hand side is evaluated. *)
AssignStmt ==
  /\ ScheduledStmt("assign_stmt")
  /\ Unfold(<<Op("assign_stmt_final"), ExpComp(Stmt.rhs), ExpComp(Stmt.lhs)>>)

RetStmt ==
  /\ ScheduledStmt("ret_stmt")
  /\ Unfold(<<Op("return_from_ctx"), ExpComp(Stmt.ret_stmt)>>)

PrintStmt ==
  /\ ScheduledStmt("print_stmt")
  /\ Unfold(<<Op("print_final"), ExpComp(Stmt.print_stmt)>>)

IfElseStmt ==
  /\ ScheduledStmt("if_else_stmt")
  /\ Unfold(<<IfElseFinal(StmtComps(Stmt.if_stmts), StmtComps(Stmt.else_stmts)),
              ExpComp(Stmt.cond)>>)

(* One iteration is unrolled: the loop is the last statement of its own body. *)
WhileStmt ==
  /\ ScheduledStmt("while_stmt")
  /\ Unfold(<<IfElseFinal(Append(StmtComps(Stmt.body), Top), <<>>),
              ExpComp(Stmt.cond)>>)

Mut_ForStmtForgetsInc ==
  /\ ScheduledStmt("for_stmt")
  /\ Unfold(<<StmtComp([type |-> "while_stmt", cond |-> Stmt.cond, body |-> Stmt.body]),
              StmtComp(Stmts[Stmt.init])>>)

(* The while statement a for statement is rewritten to, under its init. *)
ForStmt ==
  /\ ScheduledStmt("for_stmt")
  /\ Unfold(<<StmtComp([type |-> "while_stmt", cond |-> Stmt.cond,
                        body |-> Append(Stmt.body, Stmt.inc)]),
              StmtComp(Stmts[Stmt.init])>>)

UnsetStmt ==
  /\ ScheduledStmt("TYPE_NOT_SET")
  /\ Unfold(<<>>)

(***************************************************************************)
(* Finals: the operands are the results on top of the stack.  An lvalue is *)
(* dereferenced here, after every operand has been evaluated.              *)
(***************************************************************************)
BinTraps == Top.type = "bin_exp_final"
            /\ Traps(Top.op, ValueOf(Popped(2)), ValueOf(Popped(1)))

BinExpFinal ==
  /\ Scheduled("bin_exp_final")
  /\ ~BinTraps
  /\ Reduce(2, Rvalue(BinApply(Top.op, ValueOf(Popped(2)), ValueOf(Popped(1)))))

MonExpFinal ==
  /\ Scheduled("mon_exp_final")
  /\ Reduce(1, Rvalue(MonApply(Top.op, ValueOf(Popped(1)))))

(* The Result is added BEFORE the elements are popped, so the first pop     *)
(* takes it back: an empty one stays for size 0, and otherwise the element  *)
(* evaluated first, the last one of the tuple, is what stays.               *)
TupleExpFinal ==
  /\ Scheduled("tuple_exp_final")
  /\ comp' = Rest
  /\ result' = SubSeq(Append(result, NoResult), 1, Len(result) + 1 - Top.size)
  /\ UNCHANGED <<pgm, store, output, env, saved_ctx, fault>>

IgnoreOneResult ==
  /\ Scheduled("ignore_one_result")
  /\ comp' = Rest
  /\ result' = Dropped(1)
  /\ UNCHANGED <<pgm, store, output, env, saved_ctx, fault>>

(* lhs_result->lvalue_ref() of a result that is not an lvalue is 0. *)
Target == IF Popped(2).type = "lvalue_ref" THEN Popped(2).lvalue_ref ELSE 0

AssignStmtFinal ==
  /\ Scheduled("assign_stmt_final")
  /\ Target < Len(store)
  /\ comp' = Rest
  /\ result' = Dropped(2)
  /\ store' = [store EXCEPT ![Target + 1] = ValueOf(Popped(1))]
  /\ UNCHANGED <<pgm, output, env, saved_ctx, fault>>

CondVal == AsBool(ValueOf(Popped(1)))

Mut_IfElsePeeks ==
  /\ Scheduled("if_else_final")
  /\ comp' = Rest \o Reverse(IF CondVal THEN Top.if_case ELSE Top.else_case)
  /\ UNCHANGED <<pgm, store, output, result, env, saved_ctx, fault>>

IfElse ==
  /\ Scheduled("if_else_final")
  /\ comp' = Rest \o Reverse(IF CondVal THEN Top.if_case ELSE Top.else_case)
  /\ result' = Dropped(1)
  /\ UNCHANGED <<pgm, store, output, env, saved_ctx, fault>>

PrintFinal ==
  /\ Scheduled("print_final")
  /\ comp' = Rest
  /\ result' = Dropped(1)
  /\ output' = Append(output, ValueOf(Popped(1)))
  /\ UNCHANGED <<pgm, store, env, saved_ctx, fault>>

(***************************************************************************)
(* Function application.  The parameters are assigned one after the other  *)
(* in a context whose environment is the closure's: Assign overwrites the  *)
(* cell of a name the environment has and otherwise appends a cell.        *)
(***************************************************************************)
(* func_val->mutable_closure_val() turns any other value into this one. *)
EmptyClosure == [type |-> "closure_val", param |-> <<>>, body |-> <<>>,
                 env |-> [x \in {} |-> 0]]

AsClosure(x) == IF x.type = "closure_val" THEN x ELSE EmptyClosure

(* The parameters whose assignment appends a cell. *)
Appending(closure, n) ==
  {i \in 1 .. n : /\ closure.param[i] \notin DOMAIN closure.env
                  /\ \A j \in 1 .. i-1 : closure.param[j] # closure.param[i]}

(* The cells appended before the one of parameter x. *)
Before(closure, n, x) ==
  {j \in Appending(closure, n) :
     \E i \in Appending(closure, n) : closure.param[i] = x /\ j < i}

CallEnv(closure, n) ==
  [x \in DOMAIN closure.env \cup {closure.param[i] : i \in 1 .. n} |->
     IF x \in DOMAIN closure.env THEN closure.env[x]
     ELSE Len(store) + Cardinality(Before(closure, n, x))]

(* The arguments assigned to the cell at address a. *)
Writers(closure, n, a) ==
  {i \in 1 .. n : CallEnv(closure, n)[closure.param[i]] = a}

CallStore(closure, arg) ==
  [c \in 1 .. Len(store) + Cardinality(Appending(closure, Len(arg))) |->
     LET writers == Writers(closure, Len(arg), c - 1)
     IN  IF writers = {} THEN store[c] ELSE arg[Max(writers)]]

Callee == AsClosure(ValueOf(Popped(1)))

(* The last argument was evaluated just before the function. *)
Args == [i \in 1 .. Top.num_args |-> ValueOf(Popped(Top.num_args + 2 - i))]

FuncAppExpFinal ==
  /\ Scheduled("func_app_exp_final")
  /\ Top.num_args <= Len(Callee.param)
  /\ saved_ctx' = Append(saved_ctx, [comp   |-> Rest,
                                     result |-> Dropped(Top.num_args + 1),
                                     env    |-> env])
  /\ env' = CallEnv(Callee, Top.num_args)
  /\ store' = CallStore(Callee, Args)
  /\ comp' = <<Op("return_from_ctx")>> \o Reverse(StmtComps(Callee.body))
  /\ result' = <<>>
  /\ UNCHANGED <<pgm, output, fault>>

(* What is left of the callee's body goes on in the caller. *)
Mut_ReturnFromCtxSpills ==
  /\ Scheduled("return_from_ctx")
  /\ saved_ctx # <<>>
  /\ LET caller == Last(saved_ctx)
     IN  /\ comp' = caller.comp \o Rest
         /\ result' = Append(caller.result, Rvalue(ValueOf(Popped(1))))
         /\ env' = caller.env
  /\ saved_ctx' = Front(saved_ctx)
  /\ UNCHANGED <<pgm, store, output, fault>>

(* The pending returns popped with it belong to the context dropped here. *)
ReturnFromCtx ==
  /\ Scheduled("return_from_ctx")
  /\ saved_ctx # <<>>
  /\ LET caller == Last(saved_ctx)
     IN  /\ comp' = caller.comp
         /\ result' = Append(caller.result, Rvalue(ValueOf(Popped(1))))
         /\ env' = caller.env
  /\ saved_ctx' = Front(saved_ctx)
  /\ UNCHANGED <<pgm, store, output, fault>>

(***************************************************************************)
(* Undefined behaviour.                                                    *)
(***************************************************************************)
ResultUnderflow ==
  /\ Running
  /\ Len(result) < Pops(Top)
  /\ Fail("result_underflow")

SavedCtxUnderflow ==
  /\ Scheduled("return_from_ctx")
  /\ saved_ctx = <<>>
  /\ Fail("saved_ctx_underflow")

ParamOutOfRange ==
  /\ Scheduled("func_app_exp_final")
  /\ Top.num_args > Len(Callee.param)
  /\ Fail("param_out_of_range")

StoreOutOfRange ==
  /\ Scheduled("assign_stmt_final")
  /\ Target >= Len(store)
  /\ Fail("store_out_of_range")

DivisionTrap ==
  /\ Scheduled("bin_exp_final")
  /\ BinTraps
  /\ Fail("sigfpe")

(***************************************************************************)
(* The specification.  (An operator named Mut_... is not part of it: it is *)
(* the operator after it with a plausible bug, which a property must see.) *)
(***************************************************************************)
EvaluateExpression ==
  \/ VarExp \/ LitExp \/ FuncAppExp \/ MonArithExp \/ BinArithExp \/ TernExp
  \/ TupleExp \/ LambdaExp \/ UnsetExp

EvaluateStatement ==
  \/ ExpStmt \/ AssignStmt \/ RetStmt \/ PrintStmt \/ IfElseStmt \/ WhileStmt
  \/ ForStmt \/ UnsetStmt

EvaluateFinal ==
  \/ BinExpFinal \/ MonExpFinal \/ TupleExpFinal \/ IgnoreOneResult
  \/ AssignStmtFinal \/ IfElse \/ PrintFinal \/ FuncAppExpFinal \/ ReturnFromCtx

Undefined ==
  \/ ResultUnderflow \/ SavedCtxUnderflow \/ ParamOutOfRange \/ StoreOutOfRange
  \/ DivisionTrap

Step == EvaluateExpression \/ EvaluateStatement \/ EvaluateFinal \/ Undefined

(* consume_output hands the lines printed so far to the host. *)
ConsumeOutput ==
  /\ fault = "none"
  /\ output # <<>>
  /\ output' = <<>>
  /\ UNCHANGED <<pgm, store, comp, result, env, saved_ctx, fault>>

(* InitCtx of the interpreter: the statements of the program in reverse. *)
Init ==
  /\ pgm \in Programs
  /\ comp = Reverse(StmtComps(pgm))
  /\ store = <<>> /\ output = <<>> /\ result = <<>> /\ saved_ctx = <<>>
  /\ env = [x \in {} |-> 0]
  /\ fault = "none"

Next == Step \/ ConsumeOutput

(* The host calls Step as long as there is a computation. *)
Fairness == WF_vars(Step)

Spec == Init /\ [][Next]_vars /\ Fairness

(***************************************************************************)
(* Properties.                                                             *)
(***************************************************************************)
(* Type invariant.  With it, every address an environment, a captured      *)
(* environment or an lvalue holds, in any live or suspended context, is an *)
(* address of the store: mutable_store and store(addr) stay in range.      *)
TypeOK ==
  /\ pgm \in Seq(StmtId)
  /\ store \in Seq(Literals(Len(store)))
  /\ output \in Seq(Literals(Len(store)))
  /\ CurCtx \in LocalContexts(Len(store))
  /\ saved_ctx \in Seq(LocalContexts(Len(store)))
  /\ fault \in Faults

(* Distinct names of a context, or of a closure, never share a cell: an     *)
(* assignment through one name is not seen through another.  Lookup, Assign *)
(* and the captured environments each have to hand out fresh addresses.     *)
IsInjectiveEnv(e) == \A x, y \in DOMAIN e : e[x] = e[y] => x = y

NoAliasing ==
  /\ IsInjectiveEnv(env)
  /\ \A d \in DOMAIN saved_ctx : IsInjectiveEnv(saved_ctx[d].env)
  /\ \A a \in DOMAIN store :
       store[a].type = "closure_val" => IsInjectiveEnv(store[a].env)

(* The function stack, as CallStack specifies it. *)
FunctionStack == INSTANCE CallStack
  WITH stack <- Append(saved_ctx, CurCtx), heap <- store

ImplementsCallStack == FunctionStack!CallSpec
===============================================================================
