------------------------------ MODULE StoreProofs -----------------------------
(***************************************************************************)
(* The cells of the store: which contexts name them and which steps write  *)
(* them.  First Spec => []NoAliasing, then that the evaluator implements   *)
(* CallStack, then that the loop of the interpreter is a host under which  *)
(* both hold and which leaves nothing unprinted.                           *)
(***************************************************************************)
EXTENDS EvaluatorProofs, Interpreter

(***************************************************************************)
(* NoAliasing speaks of the environments of the contexts and of the        *)
(* closures in the store.  To be inductive it must also speak of the       *)
(* closures that are on their way into the store: those on the result      *)
(* stacks, of the suspended contexts too.                                  *)
(***************************************************************************)
Unaliased(x) == x.type = "closure_val" => IsInjectiveEnv(x.env)

GoodLiterals(n) == {x \in Literals(n) : Unaliased(x)}

GoodResults(n) == {r \in Results(n) : r.type = "rvalue" => Unaliased(r.rvalue)}

GoodContexts(n) ==
  {c \in LocalContexts(n) : IsInjectiveEnv(c.env) /\ c.result \in Seq(GoodResults(n))}

(* The inductive invariant. *)
NothingShared ==
  /\ Typed
  /\ store \in Seq(GoodLiterals(Len(store)))
  /\ result \in Seq(GoodResults(Len(store)))
  /\ IsInjectiveEnv(env)
  /\ saved_ctx \in Seq(GoodContexts(Len(store)))

LEMMA NothingSharedSuffices == NothingShared => NoAliasing
<1> SUFFICES ASSUME NothingShared  PROVE NoAliasing
  OBVIOUS
<1>1. \A a \in DOMAIN store : store[a].type = "closure_val" => IsInjectiveEnv(store[a].env)
  <2>1. \A a \in 1 .. Len(store) : store[a] \in GoodLiterals(Len(store))
    BY ElementOfSeq DEF NothingShared
  <2>2. DOMAIN store = 1 .. Len(store)
    BY LenProperties DEF NothingShared
  <2> QED  BY <2>1, <2>2 DEF GoodLiterals, Unaliased
<1>2. \A d \in DOMAIN saved_ctx : IsInjectiveEnv(saved_ctx[d].env)
  <2>1. \A d \in 1 .. Len(saved_ctx) : saved_ctx[d] \in GoodContexts(Len(store))
    BY ElementOfSeq DEF NothingShared
  <2>2. DOMAIN saved_ctx = 1 .. Len(saved_ctx)
    BY LenProperties DEF NothingShared
  <2> QED  BY <2>1, <2>2 DEF GoodContexts
<1> QED  BY <1>1, <1>2 DEF NoAliasing, NothingShared

(***************************************************************************)
(* Values.                                                                 *)
(***************************************************************************)
LEMMA GoodGrowth ==
  ASSUME NEW n \in Nat, NEW m \in Nat, n <= m
  PROVE  /\ Seq(GoodLiterals(n)) \subseteq Seq(GoodLiterals(m))
         /\ Seq(GoodResults(n)) \subseteq Seq(GoodResults(m))
         /\ Seq(GoodContexts(n)) \subseteq Seq(GoodContexts(m))
<1>1. GoodLiterals(n) \subseteq GoodLiterals(m)
  BY Growth DEF GoodLiterals
<1>2. GoodResults(n) \subseteq GoodResults(m)
  BY Growth DEF GoodResults
<1>3. Seq(GoodLiterals(n)) \subseteq Seq(GoodLiterals(m)) /\ Seq(GoodResults(n)) \subseteq Seq(GoodResults(m))
  BY <1>1, <1>2, SeqMonotonic
<1>4. GoodContexts(n) \subseteq GoodContexts(m)
  BY <1>3, Growth DEF GoodContexts
<1> QED  BY <1>3, <1>4, SeqMonotonic

LEMMA PlainIsGood ==
  ASSUME NEW n \in Nat, NEW x \in PlainLiterals
  PROVE  x \in GoodLiterals(n) /\ Rvalue(x) \in GoodResults(n)
<1>1. x.type # "closure_val"
  BY DEF PlainLiterals, None, NoValue
<1>2. x \in Literals(n) /\ Rvalue(x) \in Results(n)
  BY DEF Literals, Results, Rvalue
<1> QED  BY <1>1, <1>2 DEF GoodLiterals, GoodResults, Unaliased, Rvalue

LEMMA GoodRvalue ==
  ASSUME NEW n \in Nat, NEW x \in GoodLiterals(n)
  PROVE  Rvalue(x) \in GoodResults(n)
BY DEF GoodLiterals, GoodResults, Results, Rvalue

LEMMA PoppedGood ==
  ASSUME NothingShared, NEW i \in 1 .. Len(result)
  PROVE  Popped(i) \in GoodResults(Len(store)) /\ ValueOf(Popped(i)) \in GoodLiterals(Len(store))
<1>1. Typed /\ Len(result) + 1 - i \in 1 .. Len(result)
  BY LenProperties DEF NothingShared, Typed
<1>2. Popped(i) \in GoodResults(Len(store))
  BY <1>1, ElementOfSeq DEF NothingShared, Popped
<1>3. ValueOf(Popped(i)) \in Literals(Len(store))
  BY <1>1, PoppedTyped
<1>4. CASE Popped(i).type = "rvalue"
  BY <1>2, <1>3, <1>4 DEF GoodResults, GoodLiterals, ValueOf
<1>5. CASE Popped(i).type = "lvalue_ref"
  <2>1. Popped(i).lvalue_ref + 1 \in 1 .. Len(store)
    BY <1>1, <1>2, <1>5 DEF GoodResults, Results, NoResult, Typed
  <2>2. store[Popped(i).lvalue_ref + 1] \in GoodLiterals(Len(store))
    BY <2>1, ElementOfSeq DEF NothingShared
  <2> QED  BY <1>2, <1>5, <2>2 DEF ValueOf
<1>6. CASE Popped(i).type \notin {"rvalue", "lvalue_ref"}
  BY <1>1, <1>2, <1>6, PlainIsGood, PlainLiteralTypes DEF ValueOf, Typed
<1> QED  BY <1>2, <1>4, <1>5, <1>6

LEMMA DroppedGood ==
  ASSUME NothingShared, NEW n \in 0 .. Len(result)
  PROVE  Dropped(n) \in Seq(GoodResults(Len(store)))
BY Prefix DEF NothingShared, Dropped

(***************************************************************************)
(* One lemma per kind of step; Typed' comes from EvaluatorProofs.          *)
(***************************************************************************)
LEMMA UnfoldGood ==
  ASSUME NothingShared, NEW cs, Unfold(cs), Typed'
  PROVE  NothingShared'
BY DEF NothingShared, Unfold

LEMMA ReduceGood ==
  ASSUME NothingShared, NEW n \in 0 .. Len(result), NEW x \in PlainLiterals,
         Reduce(n, Rvalue(x)), Typed'
  PROVE  NothingShared'
<1>1. Rvalue(x) \in GoodResults(Len(store))
  BY PlainIsGood DEF NothingShared, Typed
<1>2. Append(Dropped(n), Rvalue(x)) \in Seq(GoodResults(Len(store)))
  BY <1>1, DroppedGood, AppendProperties
<1> QED  BY <1>2 DEF NothingShared, Reduce

(* A name that is new gets an address above all the others. *)
LEMMA VarExpGood ==
  ASSUME NothingShared, VarExp, Typed'
  PROVE  NothingShared'
<1>1. Len(store) \in Nat /\ env \in [DOMAIN env -> 0 .. Len(store) - 1]
  BY EnvsMember DEF NothingShared, Typed
<1>2. \A n \in Nat : \A r \in Results(n) : r.type = "lvalue_ref" => r \in GoodResults(n)
  BY DEF GoodResults
<1>3. CASE Exp.name \in DOMAIN env
  <2>1. Lvalue(env[Exp.name]) \in GoodResults(Len(store))
    <3>1. Lvalue(env[Exp.name]) \in Results(Len(store))
      BY <1>1, <1>3 DEF Results, Lvalue
    <3> QED  BY <1>1, <1>2, <3>1 DEF Lvalue
  <2>2. Append(result, Lvalue(env[Exp.name])) \in Seq(GoodResults(Len(store)))
    BY <2>1, AppendProperties DEF NothingShared
  <2> QED  BY <1>3, <2>2 DEF VarExp, NothingShared, Yield
<1>4. CASE Exp.name \notin DOMAIN env
  <2> DEFINE n == Len(store)
             e == [x \in DOMAIN env \cup {Exp.name} |-> IF x = Exp.name THEN n ELSE env[x]]
  <2>1. /\ store' = Append(store, NoValue) /\ env' = e
        /\ result' = Append(result, Lvalue(n)) /\ saved_ctx' = saved_ctx
    BY <1>4 DEF VarExp, NewAddress, Yield
  <2>2. Len(store') = n + 1
    BY <2>1, AppendProperties DEF NothingShared
  <2>3. /\ store \in Seq(GoodLiterals(n + 1)) /\ result \in Seq(GoodResults(n + 1))
        /\ saved_ctx \in Seq(GoodContexts(n + 1))
    BY <1>1, GoodGrowth DEF NothingShared
  <2>4. NoValue \in GoodLiterals(n + 1)
    BY <1>1, PlainIsGood, PlainLiteralTypes
  <2>5. Lvalue(n) \in GoodResults(n + 1)
    <3>1. Lvalue(n) \in Results(n + 1)
      BY <1>1 DEF Results, Lvalue
    <3> QED  BY <1>1, <1>2, <3>1 DEF Lvalue
  <2>6. store' \in Seq(GoodLiterals(n + 1)) /\ result' \in Seq(GoodResults(n + 1))
    BY <2>1, <2>3, <2>4, <2>5, AppendProperties
  <2>7. IsInjectiveEnv(e)
    BY <1>1 DEF IsInjectiveEnv, NothingShared
  <2> HIDE DEF e
  <2> QED  BY <2>1, <2>2, <2>3, <2>6, <2>7 DEF NothingShared
<1> QED  BY <1>3, <1>4

LEMMA ExpressionGood ==
  ASSUME NothingShared, EvaluateExpression, Typed'
  PROVE  NothingShared'
<1>1. CASE LitExp
  <2>1. Exp.lit \in PlainLiterals
    BY <1>1, ScheduledExpCases DEF LitExp, NothingShared
  <2>2. Rvalue(Exp.lit) \in GoodResults(Len(store))
    BY <2>1, PlainIsGood DEF NothingShared, Typed
  <2>3. Append(result, Rvalue(Exp.lit)) \in Seq(GoodResults(Len(store)))
    BY <2>2, AppendProperties DEF NothingShared
  <2> QED  BY <1>1, <2>3 DEF LitExp, Yield, NothingShared
<1>2. CASE LambdaExp
  <2> DEFINE closure == [type |-> "closure_val", param |-> Exp.param, body |-> Exp.body, env |-> env]
  <2>1. Top.exp \in Lambdas /\ Exp.param \in Seq(Name) /\ Exp.body \in Seq(StmtId)
    BY <1>2, ScheduledExpCases DEF LambdaExp, NothingShared
  <2>2. closure \in Closures(Len(store))
    BY <2>1 DEF NothingShared, Typed, Closures, Exp
  <2>3. closure \in GoodLiterals(Len(store))
    BY <2>2 DEF GoodLiterals, Literals, Unaliased, NothingShared
  <2>4. Len(store) \in Nat /\ LambdaExp => result' = Append(result, Rvalue(closure))
    BY DEF LambdaExp, Yield, NothingShared, Typed
  <2> HIDE DEF closure
  <2>5. Rvalue(closure) \in GoodResults(Len(store))
    BY <2>3, GoodRvalue DEF NothingShared, Typed
  <2>6. Append(result, Rvalue(closure)) \in Seq(GoodResults(Len(store)))
    BY <2>5, AppendProperties DEF NothingShared
  <2> QED  BY <1>2, <2>4, <2>6 DEF LambdaExp, Yield, NothingShared
<1>3. CASE FuncAppExp \/ MonArithExp \/ BinArithExp \/ TernExp \/ TupleExp \/ UnsetExp
  <2>1. PICK cs : Unfold(cs)
    BY <1>3 DEF FuncAppExp, MonArithExp, BinArithExp, TernExp, TupleExp, UnsetExp
  <2> QED  BY <2>1, UnfoldGood
<1> QED  BY <1>1, <1>2, <1>3, VarExpGood DEF EvaluateExpression

LEMMA StatementGood ==
  ASSUME NothingShared, EvaluateStatement, Typed'
  PROVE  NothingShared'
<1>1. PICK cs : Unfold(cs)
  BY DEF EvaluateStatement, ExpStmt, AssignStmt, RetStmt, PrintStmt, IfElseStmt, WhileStmt,
         ForStmt, UnsetStmt
<1> QED  BY <1>1, UnfoldGood

(* The new addresses of a call are above the old ones, and in the order of *)
(* the parameters that need one.                                           *)
LEMMA CallEnvInjective ==
  ASSUME NEW closure, closure.param \in Seq(Name), closure.env \in Envs(Len(store)),
         IsInjectiveEnv(closure.env), NEW n \in 0 .. Len(closure.param), Len(store) \in Nat
  PROVE  IsInjectiveEnv(CallEnv(closure, n))
<1> DEFINE A == Appending(closure, n)
           e == CallEnv(closure, n)
           rank(i) == Cardinality({j \in A : j < i})
<1>1. n \in Nat /\ A \in SUBSET (1 .. n)
  BY LenProperties DEF Appending
<1>2. /\ \A i \in A : rank(i) \in Nat
      /\ \A i, k \in A : rank(i) = rank(k) => i = k
  BY <1>1, Ranks
<1>3. \A i \in A : e[closure.param[i]] = Len(store) + rank(i)
  BY CallEnvType
<1>4. closure.env \in [DOMAIN closure.env -> 0 .. Len(store) - 1]
  BY EnvsMember
<1>5. \A x \in DOMAIN closure.env : e[x] = closure.env[x] /\ e[x] \in 0 .. Len(store) - 1
  BY <1>4 DEF CallEnv
<1>6. \A x \in DOMAIN e \ DOMAIN closure.env : \E i \in A : closure.param[i] = x
  <2> SUFFICES ASSUME NEW k \in 1 .. n, closure.param[k] \notin DOMAIN closure.env
               PROVE  \E i \in A : closure.param[i] = closure.param[k]
    BY DEF CallEnv
  <2> DEFINE I == {i \in 1 .. n : closure.param[i] = closure.param[k]}
  <2>1. I \in SUBSET (1 .. n) /\ I # {}
    OBVIOUS
  <2>2. PICK m \in I : \A j \in I : m <= j
    <3> HIDE DEF I
    <3> QED  BY <1>1, <2>1, LeastIndex
  <2>3. \A j \in 1 .. m-1 : closure.param[j] # closure.param[m]
    BY <1>1, <2>2
  <2> QED  BY <2>2, <2>3 DEF Appending
<1>7. \A x \in DOMAIN e \ DOMAIN closure.env : e[x] >= Len(store)
  <2> SUFFICES ASSUME NEW x \in DOMAIN e \ DOMAIN closure.env  PROVE e[x] >= Len(store)
    OBVIOUS
  <2> HIDE DEF e, A, rank
  <2>1. PICK i \in A : closure.param[i] = x
    BY <1>6
  <2>2. e[x] = Len(store) + rank(i) /\ rank(i) \in Nat
    BY <1>2, <1>3, <2>1
  <2> QED  BY <2>2
<1> HIDE DEF e, A, rank
<1>8. ASSUME NEW x \in DOMAIN e, NEW y \in DOMAIN e, e[x] = e[y]
      PROVE  x = y
  <2>1. CASE x \in DOMAIN closure.env /\ y \in DOMAIN closure.env
    BY <1>5, <1>8, <2>1 DEF IsInjectiveEnv
  <2>2. CASE x \notin DOMAIN closure.env /\ y \notin DOMAIN closure.env
    <3>1. PICK i \in A : closure.param[i] = x
      BY <1>6, <2>2
    <3>2. PICK k \in A : closure.param[k] = y
      BY <1>6, <2>2
    <3>3. rank(i) = rank(k)
      BY <1>2, <1>3, <1>8, <3>1, <3>2
    <3> QED  BY <1>2, <3>1, <3>2, <3>3
  <2>3. CASE ~ (x \in DOMAIN closure.env <=> y \in DOMAIN closure.env)
    BY <1>5, <1>7, <1>8, <2>3
  <2> QED  BY <2>1, <2>2, <2>3
<1> QED  BY <1>8 DEF e, IsInjectiveEnv

LEMMA FuncAppExpFinalGood ==
  ASSUME NothingShared, FuncAppExpFinal
  PROVE  NothingShared'
<1> DEFINE n == Top.num_args
           L == Len(store) + Cardinality(Appending(Callee, n))
<1>1. /\ Typed /\ Len(store) \in Nat /\ Len(result) \in Nat
      /\ n \in Nat /\ n + 1 <= Len(result) /\ n <= Len(Callee.param)
  BY ScheduledCases DEF FuncAppExpFinal, NothingShared, Typed
<1>2. Callee.param \in Seq(Name) /\ Callee.env \in Envs(Len(store))
  BY <1>1, CalleeTyped
<1>3. IsInjectiveEnv(Callee.env)
  <2>1. 1 \in 1 .. Len(result)
    BY <1>1
  <2>2. ValueOf(Popped(1)) \in GoodLiterals(Len(store))
    BY <2>1, PoppedGood
  <2>3. IsInjectiveEnv(EmptyClosure.env)
    BY DEF EmptyClosure, IsInjectiveEnv
  <2> QED  BY <2>2, <2>3 DEF Callee, AsClosure, GoodLiterals, Unaliased
<1>4. n \in 0 .. Len(Callee.param)
  BY <1>1, <1>2, LenProperties
<1>5. IsInjectiveEnv(env')
  BY <1>1, <1>2, <1>3, <1>4, CallEnvInjective DEF FuncAppExpFinal
<1>6. Args \in [1 .. n -> GoodLiterals(Len(store))]
  <2>1. \A i \in 1 .. n : n + 2 - i \in 1 .. Len(result)
    BY <1>1
  <2>2. \A i \in 1 .. n : ValueOf(Popped(n + 2 - i)) \in GoodLiterals(Len(store))
    BY <2>1, PoppedGood
  <2> QED  BY <2>2 DEF Args
<1>7. store \in Seq(GoodLiterals(Len(store)))
  BY DEF NothingShared
<1>8. /\ L \in Nat /\ Len(store) <= L
      /\ CallStore(Callee, Args) \in Seq(GoodLiterals(Len(store)))
      /\ Len(CallStore(Callee, Args)) = L
  BY <1>1, <1>2, <1>4, <1>6, <1>7, CallStoreType
<1> HIDE DEF L
<1>9. store' \in Seq(GoodLiterals(L)) /\ Len(store') = L
  BY <1>1, <1>8, GoodGrowth DEF FuncAppExpFinal
<1>10. Typed'
  BY <1>1, FuncAppExpFinalTyped
<1> DEFINE caller == [comp |-> Rest, result |-> Dropped(n + 1), env |-> env]
<1>11. caller \in GoodContexts(Len(store))
  <2>1. n + 1 \in 0 .. Len(result)
    BY <1>1
  <2>2. Dropped(n + 1) \in Seq(GoodResults(Len(store))) /\ Dropped(n + 1) \in Seq(Results(Len(store)))
    BY <1>1, <2>1, DroppedGood, DroppedTyped
  <2>3. Rest \in Seq(Computations) /\ env \in Envs(Len(store)) /\ IsInjectiveEnv(env)
    BY <1>1, ScheduledCases DEF FuncAppExpFinal, NothingShared, Typed
  <2> QED  BY <2>2, <2>3 DEF GoodContexts, LocalContexts
<1>12. saved_ctx' = Append(saved_ctx, caller) /\ result' = <<>>
  BY DEF FuncAppExpFinal
<1> HIDE DEF caller
<1>13. saved_ctx' \in Seq(GoodContexts(Len(store)))
  BY <1>11, <1>12, AppendProperties DEF NothingShared
<1>14. saved_ctx' \in Seq(GoodContexts(L)) /\ result' \in Seq(GoodResults(L))
  <2>1. Seq(GoodContexts(Len(store))) \subseteq Seq(GoodContexts(L))
    BY <1>1, <1>8, GoodGrowth
  <2>2. <<>> \in Seq(GoodResults(L))
    BY EmptySeq
  <2> QED  BY <1>12, <1>13, <2>1, <2>2
<1> QED  BY <1>5, <1>9, <1>10, <1>14 DEF NothingShared

LEMMA ReturnFromCtxGood ==
  ASSUME NothingShared, ReturnFromCtx, Typed'
  PROVE  NothingShared'
<1>1. saved_ctx # <<>> /\ 1 \in 1 .. Len(result)
  BY ScheduledCases DEF ReturnFromCtx, NothingShared
<1>2. /\ Last(saved_ctx) \in GoodContexts(Len(store))
      /\ Front(saved_ctx) \in Seq(GoodContexts(Len(store)))
  BY <1>1, FrontLast DEF NothingShared
<1>3. Rvalue(ValueOf(Popped(1))) \in GoodResults(Len(store))
  BY <1>1, PoppedGood, GoodRvalue DEF NothingShared, Typed
<1>4. IsInjectiveEnv(Last(saved_ctx).env) /\ Last(saved_ctx).result \in Seq(GoodResults(Len(store)))
  BY <1>2 DEF GoodContexts
<1>5. Append(Last(saved_ctx).result, Rvalue(ValueOf(Popped(1)))) \in Seq(GoodResults(Len(store)))
  BY <1>3, <1>4, AppendProperties
<1> QED  BY <1>2, <1>4, <1>5 DEF NothingShared, ReturnFromCtx

LEMMA FinalGood ==
  ASSUME NothingShared, EvaluateFinal, Typed'
  PROVE  NothingShared'
<1> USE DEF NothingShared
<1>1. CASE BinExpFinal
  <2>1. HasComputation /\ Top.op \in BinArithOp /\ Len(result) \in Nat /\ 2 <= Len(result)
        /\ Top.type = "bin_exp_final" /\ ~BinTraps
    BY <1>1, ScheduledCases DEF BinExpFinal
  <2>2. 1 \in 1 .. Len(result) /\ 2 \in 1 .. Len(result) /\ 2 \in 0 .. Len(result)
    BY <2>1
  <2>3. ValueOf(Popped(1)) \in Literals(Len(store)) /\ ValueOf(Popped(2)) \in Literals(Len(store))
    BY <2>2, PoppedTyped
  <2>4. BinApply(Top.op, ValueOf(Popped(2)), ValueOf(Popped(1))) \in PlainLiterals
    BY <2>1, <2>3, BinApplyType DEF BinTraps, Typed
  <2> QED  BY <1>1, <2>2, <2>4, ReduceGood DEF BinExpFinal
<1>2. CASE MonExpFinal
  <2>1. 1 \in 1 .. Len(result) /\ 1 \in 0 .. Len(result)
    BY <1>2, ScheduledCases DEF MonExpFinal
  <2>2. MonApply(Top.op, ValueOf(Popped(1))) \in PlainLiterals
    BY <2>1, PoppedTyped, MonApplyType DEF Typed
  <2> QED  BY <1>2, <2>1, <2>2, ReduceGood DEF MonExpFinal
<1>3. CASE TupleExpFinal
  <2> DEFINE more == Append(result, NoResult)
  <2>1. Len(result) \in Nat /\ Top.size \in 0 .. Len(result) + 1
    BY <1>3, ScheduledCases DEF TupleExpFinal
  <2> DEFINE size == Top.size
  <2>2. NoResult \in GoodResults(Len(store))
    BY DEF Results, NoResult, GoodResults
  <2>3. more \in Seq(GoodResults(Len(store))) /\ Len(more) = Len(result) + 1
    BY <2>2, AppendProperties
  <2>4. result' = SubSeq(more, 1, Len(result) + 1 - Top.size) /\ UNCHANGED <<store, env, saved_ctx>>
    BY <1>3 DEF TupleExpFinal
  <2>5. Len(result) + 1 - size = Len(more) - size /\ size \in 0 .. Len(more)
    <3>1. size \in 0 .. Len(result) + 1
      BY <2>1
    <3> HIDE DEF more, size, NothingShared
    <3> QED  BY <2>1, <2>3, <3>1
  <2> HIDE DEF more
  <2>6. SubSeq(more, 1, Len(more) - size) \in Seq(GoodResults(Len(store)))
    BY <2>3, <2>5, Prefix
  <2>7. result' \in Seq(GoodResults(Len(store)))
    BY <2>4, <2>5, <2>6
  <2> QED  BY <2>4, <2>7
<1>4. CASE IgnoreOneResult
  <2>1. 1 \in 0 .. Len(result)
    BY <1>4, ScheduledCases DEF IgnoreOneResult
  <2> QED  BY <1>4, <2>1, DroppedGood DEF IgnoreOneResult
<1>5. CASE AssignStmtFinal
  <2>1. 2 \in 0 .. Len(result) /\ 1 \in 1 .. Len(result) /\ 2 \in 1 .. Len(result)
    BY <1>5, ScheduledCases DEF AssignStmtFinal
  <2>2. ValueOf(Popped(1)) \in GoodLiterals(Len(store)) /\ Dropped(2) \in Seq(GoodResults(Len(store)))
    BY <2>1, PoppedGood, DroppedGood
  <2>3. Target + 1 \in 1 .. Len(store)
    <3>1. Popped(2) \in Results(Len(store)) /\ Len(store) \in Nat
      BY <2>1, PoppedTyped DEF Typed
    <3>2. Target \in Nat /\ Target < Len(store)
      BY <1>5, <3>1 DEF Target, Results, NoResult, AssignStmtFinal
    <3> QED  BY <3>1, <3>2
  <2>4. store' = [store EXCEPT ![Target + 1] = ValueOf(Popped(1))]
    BY <1>5 DEF AssignStmtFinal
  <2>5. store' \in Seq(GoodLiterals(Len(store))) /\ Len(store') = Len(store)
    BY <2>2, <2>3, <2>4, ExceptSeq
  <2> QED  BY <1>5, <2>2, <2>5 DEF AssignStmtFinal
<1>6. CASE IfElse
  <2>1. 1 \in 0 .. Len(result)
    BY <1>6, ScheduledCases DEF IfElse
  <2> QED  BY <1>6, <2>1, DroppedGood DEF IfElse
<1>7. CASE PrintFinal
  <2>1. 1 \in 0 .. Len(result)
    BY <1>7, ScheduledCases DEF PrintFinal
  <2> QED  BY <1>7, <2>1, DroppedGood DEF PrintFinal
<1> QED
  BY <1>1, <1>2, <1>3, <1>4, <1>5, <1>6, <1>7, FuncAppExpFinalGood, ReturnFromCtxGood
     DEF EvaluateFinal

LEMMA InitGood ==
  ASSUME Init
  PROVE  NothingShared
<1>1. Typed
  BY InitTyped
<1> QED  BY <1>1 DEF Init, NothingShared, IsInjectiveEnv

LEMMA NothingSharedNext ==
  ASSUME NothingShared, [Next]_vars
  PROVE  NothingShared'
<1>1. Typed
  BY DEF NothingShared
<1>2. CASE EvaluateExpression \/ EvaluateStatement \/ EvaluateFinal
  BY <1>1, <1>2, StepTyped, ExpressionGood, StatementGood, FinalGood DEF Step
<1>3. CASE Undefined
  <2>1. Typed'
    BY <1>1, <1>3, UndefinedTyped
  <2>2. UNCHANGED <<store, result, env, saved_ctx>>
    BY <1>3 DEF Undefined, ResultUnderflow, SavedCtxUnderflow, ParamOutOfRange,
                StoreOutOfRange, DivisionTrap, Fail
  <2> QED  BY <2>1, <2>2 DEF NothingShared
<1>4. CASE ConsumeOutput
  BY <1>1, <1>4 DEF ConsumeOutput, Typed, NothingShared
<1>5. CASE UNCHANGED vars
  BY <1>5 DEF vars, Typed, NothingShared
<1> QED  BY <1>2, <1>3, <1>4, <1>5 DEF Next, Step

(***************************************************************************)
(* Two names of a context, or of a closure in the store, never share a     *)
(* cell, whatever the program: Lookup and Assign give out fresh addresses, *)
(* and no environment is ever made but by them and by copy                 *)
(* (language_evaluation.cc:14-36, 270, 422-426).                           *)
(***************************************************************************)
THEOREM NeverAliased == Spec => []NoAliasing
<1>1. Init => NothingShared
  BY InitGood
<1>2. NothingShared /\ [Next]_vars => NothingShared'
  BY NothingSharedNext
<1>3. NothingShared => NoAliasing
  BY NothingSharedSuffices
<1> QED  BY <1>1, <1>2, <1>3, PTL DEF Spec

-----------------------------------------------------------------------------
(***************************************************************************)
(* The evaluator implements CallStack: every step of it is a local step, a *)
(* call or a return of the function stack, or leaves the stack as it is.   *)
(***************************************************************************)
(***************************************************************************)
(* The mapping: the suspended contexts with the current one on top.        *)
(***************************************************************************)
Contexts == Append(saved_ctx, CurCtx)

LEMMA AppendParts ==
  ASSUME NEW S, NEW s \in Seq(S), NEW e \in S
  PROVE  /\ Append(s, e) \in Seq(S) /\ Append(s, e) # <<>>
         /\ Len(s) \in Nat /\ Len(Append(s, e)) = Len(s) + 1
         /\ Front(Append(s, e)) = s /\ Last(Append(s, e)) = e
<1>1. /\ Append(s, e) \in Seq(S) /\ Len(s) \in Nat /\ Len(Append(s, e)) = Len(s) + 1
      /\ \A i \in 1 .. Len(s) : Append(s, e)[i] = s[i]
      /\ Append(s, e)[Len(s) + 1] = e
  BY AppendProperties, LenProperties
<1>2. Append(s, e) # <<>>
  BY <1>1, EmptySeq
<1>3. /\ Front(Append(s, e)) \in Seq(S) /\ Len(Front(Append(s, e))) = Len(s)
      /\ \A i \in 1 .. Len(s) : Front(Append(s, e))[i] = Append(s, e)[i]
      /\ Last(Append(s, e)) = Append(s, e)[Len(s) + 1]
  <2>1. PICK w : w = Append(s, e)
    OBVIOUS
  <2>2. w \in Seq(S) /\ w # <<>> /\ Len(w) - 1 = Len(s)
    BY <1>1, <1>2, <2>1
  <2>3. /\ Front(w) \in Seq(S) /\ Len(Front(w)) = Len(w) - 1
        /\ \A i \in 1 .. Len(w) - 1 : Front(w)[i] = w[i]
        /\ Last(w) = w[Len(w)]
    BY <2>2, FrontLast
  <2> QED  BY <1>1, <2>1, <2>2, <2>3
<1>4. Front(Append(s, e)) = s
  BY <1>1, <1>3, SeqEqual
<1> QED  BY <1>1, <1>2, <1>3, <1>4

LEMMA ContextsParts ==
  ASSUME Typed
  PROVE  /\ CurCtx \in LocalContexts(Len(store))
         /\ Contexts \in Seq(LocalContexts(Len(store))) /\ Contexts # <<>>
         /\ Len(saved_ctx) \in Nat /\ Len(Contexts) = Len(saved_ctx) + 1
         /\ Front(Contexts) = saved_ctx /\ Last(Contexts) = CurCtx
<1>1. CurCtx \in LocalContexts(Len(store))
  BY DEF Typed, CurCtx, LocalContexts
<1> QED  BY <1>1, AppendParts DEF Typed, Contexts

LEMMA NextContextsParts ==
  ASSUME Typed'
  PROVE  /\ Contexts' = Append(saved_ctx', CurCtx') /\ Contexts' # <<>>
         /\ Len(saved_ctx') \in Nat /\ Len(Contexts') = Len(saved_ctx') + 1
         /\ Front(Contexts') = saved_ctx' /\ Last(Contexts') = CurCtx'
<1>1. CurCtx' \in LocalContexts(Len(store'))
  BY DEF Typed, CurCtx, LocalContexts
<1>2. Contexts' = Append(saved_ctx', CurCtx') /\ saved_ctx' \in Seq(LocalContexts(Len(store')))
  BY DEF Typed, Contexts
<1> QED  BY <1>1, <1>2, AppendParts

(***************************************************************************)
(* Local steps.                                                            *)
(***************************************************************************)
(* One environment is there before and after, and at most one of the cells *)
(* is written.                                                             *)
LEMMA KeepsCells ==
  ASSUME Typed, Typed', saved_ctx' = saved_ctx, env' = env,
         DOMAIN store' = DOMAIN store,
         \A a, b \in DOMAIN store : store'[a] # store[a] /\ store'[b] # store[b] => a = b
  PROVE  FunctionStack!Local
<1>1. /\ Contexts # <<>> /\ Front(Contexts) = saved_ctx /\ Last(Contexts) = CurCtx
  BY ContextsParts
<1>2. Contexts' = Append(saved_ctx', CurCtx') /\ Last(Contexts') = CurCtx'
  BY NextContextsParts
<1>3. CurCtx.env = env /\ CurCtx'.env = env'
  BY DEF CurCtx
<1>4. Contexts' = Append(Front(Contexts), Last(Contexts'))
  BY <1>1, <1>2
<1> QED
  BY <1>1, <1>2, <1>3, <1>4
     DEF FunctionStack!Local, FunctionStack!Front, FunctionStack!Last, Front, Last, Contexts

(* A name gets a cell that is new and blank. *)
LEMMA GainsCell ==
  ASSUME Typed, Typed', saved_ctx' = saved_ctx, NEW x, x \notin DOMAIN env,
         env' = [y \in DOMAIN env \cup {x} |-> IF y = x THEN Len(store) ELSE env[y]],
         store' = Append(store, NoValue)
  PROVE  FunctionStack!Local
<1>1. /\ Contexts # <<>> /\ Front(Contexts) = saved_ctx /\ Last(Contexts) = CurCtx
  BY ContextsParts
<1>2. Contexts' = Append(saved_ctx', CurCtx') /\ Last(Contexts') = CurCtx'
  BY NextContextsParts
<1>3. CurCtx.env = env /\ CurCtx'.env = env'
  BY DEF CurCtx
<1>4. Contexts' = Append(Front(Contexts), Last(Contexts'))
  BY <1>1, <1>2
<1>5. Last(store') = NoValue
  <2>1. store \in Seq(Literals(Len(store)))
    BY DEF Typed
  <2>2. NoValue \in Literals(Len(store))
    BY PlainLiteralTypes DEF Literals
  <2> QED  BY <2>1, <2>2, AppendParts
<1>6. /\ x \in DOMAIN env' \ DOMAIN env /\ DOMAIN env' = DOMAIN env \cup {x}
      /\ \A y \in DOMAIN env : env'[y] = env[y]
      /\ env'[x] = Len(store)
  OBVIOUS
<1>7. FunctionStack!Last(store') = NoValue /\ FunctionStack!Blank(NoValue)
  BY <1>5 DEF FunctionStack!Last, Last, FunctionStack!Blank, NoValue
<1>8. /\ FunctionStack!Front(Contexts) = saved_ctx /\ FunctionStack!Last(Contexts) = CurCtx
      /\ FunctionStack!Last(Contexts') = CurCtx'
  BY <1>1, <1>2 DEF FunctionStack!Front, FunctionStack!Last, Front, Last
<1>9. \E z \in DOMAIN env' \ DOMAIN env :
        /\ DOMAIN env' = DOMAIN env \cup {z}
        /\ \A y \in DOMAIN env : env'[y] = env[y]
        /\ env'[z] = Len(store)
        /\ FunctionStack!Blank(FunctionStack!Last(store'))
        /\ store' = Append(store, FunctionStack!Last(store'))
  <2>1. store' = Append(store, FunctionStack!Last(store'))
    BY <1>7
  <2>2. FunctionStack!Blank(FunctionStack!Last(store'))
    BY <1>7
  <2> QED  BY <1>6, <2>1, <2>2
<1> QED
  BY <1>1, <1>2, <1>3, <1>4, <1>8, <1>9 DEF FunctionStack!Local, Contexts

LEMMA VarExpLocal ==
  ASSUME Typed, Typed', VarExp
  PROVE  FunctionStack!Local
<1>1. CASE Exp.name \in DOMAIN env
  BY <1>1, KeepsCells DEF VarExp, Yield
<1>2. CASE Exp.name \notin DOMAIN env
  BY <1>2, GainsCell DEF VarExp, Yield, NewAddress
<1> QED  BY <1>1, <1>2

LEMMA ExpressionLocal ==
  ASSUME Typed, Typed', EvaluateExpression
  PROVE  FunctionStack!Local
<1>1. CASE VarExp
  BY <1>1, VarExpLocal
<1>2. CASE ~ VarExp
  <2>1. saved_ctx' = saved_ctx /\ env' = env /\ store' = store
    BY <1>2 DEF EvaluateExpression, LitExp, FuncAppExp, MonArithExp, BinArithExp, TernExp,
                TupleExp, LambdaExp, UnsetExp, Unfold, Yield
  <2> QED  BY <2>1, KeepsCells
<1> QED  BY <1>1, <1>2

LEMMA StatementLocal ==
  ASSUME Typed, Typed', EvaluateStatement
  PROVE  FunctionStack!Local
<1>1. saved_ctx' = saved_ctx /\ env' = env /\ store' = store
  BY DEF EvaluateStatement, ExpStmt, AssignStmt, RetStmt, PrintStmt, IfElseStmt, WhileStmt,
         ForStmt, UnsetStmt, Unfold
<1> QED  BY <1>1, KeepsCells

(* An assignment writes one cell. *)
LEMMA FinalLocal ==
  ASSUME Typed, Typed', EvaluateFinal, ~ FuncAppExpFinal, ~ ReturnFromCtx
  PROVE  FunctionStack!Local
<1>1. CASE AssignStmtFinal
  <2>1. saved_ctx' = saved_ctx /\ env' = env /\ store' = [store EXCEPT ![Target + 1] = ValueOf(Popped(1))]
    BY <1>1 DEF AssignStmtFinal
  <2>2. /\ DOMAIN store' = DOMAIN store
        /\ \A a \in DOMAIN store : a # Target + 1 => store'[a] = store[a]
    BY <2>1
  <2> QED  BY <2>1, <2>2, KeepsCells
<1>2. CASE ~ AssignStmtFinal
  <2>1. saved_ctx' = saved_ctx /\ env' = env /\ store' = store
    BY <1>2 DEF EvaluateFinal, BinExpFinal, MonExpFinal, TupleExpFinal, IgnoreOneResult, IfElse,
                PrintFinal, Reduce
  <2> QED  BY <2>1, KeepsCells
<1> QED  BY <1>1, <1>2

(***************************************************************************)
(* A call.                                                                 *)
(***************************************************************************)
(* Only cells some parameter is bound to differ from what they were.       *)
LEMMA CallWritesParameters ==
  ASSUME Typed, NEW closure, closure.param \in Seq(Name), closure.env \in Envs(Len(store)),
         NEW n \in 0 .. Len(closure.param), NEW arg, Len(arg) = n,
         NEW c \in DOMAIN CallStore(closure, arg),
         c \in DOMAIN store => CallStore(closure, arg)[c] # store[c]
  PROVE  \E x \in DOMAIN CallEnv(closure, n) : CallEnv(closure, n)[x] = c - 1
<1> DEFINE A == Appending(closure, n)
           L == Len(store) + Cardinality(A)
<1>1. Len(store) \in Nat /\ n \in Nat /\ Len(closure.param) \in Nat
      /\ DOMAIN store = 1 .. Len(store)
  BY LenProperties DEF Typed
<1>2. Cardinality(A) \in Nat /\ A \in SUBSET (1 .. n) /\ c \in 1 .. L
  BY <1>1, CallEnvType DEF Appending, CallStore
<1>3. \A i \in A : CallEnv(closure, n)[closure.param[i]] = Len(store) + Cardinality({j \in A : j < i})
  BY <1>1, CallEnvType
<1>4. \E i \in 1 .. n : CallEnv(closure, n)[closure.param[i]] = c - 1
  <2>1. CASE c > Len(store)
    <3>1. c - 1 - Len(store) \in 0 .. Cardinality(A) - 1
      BY <1>1, <1>2, <2>1
    <3>2. PICK i \in A : Cardinality({j \in A : j < i}) = c - 1 - Len(store)
      <4> HIDE DEF A
      <4>1. \A d \in 0 .. Cardinality(A) - 1 : \E i \in A : Cardinality({j \in A : j < i}) = d
        BY <1>1, <1>2, Ranks
      <4> QED  BY <3>1, <4>1
    <3>3. CallEnv(closure, n)[closure.param[i]] = Len(store) + Cardinality({j \in A : j < i})
      BY <1>3
    <3> QED  BY <1>1, <1>2, <3>2, <3>3
  <2>2. CASE ~ (c > Len(store))
    <3>1. c \in DOMAIN store
      BY <1>1, <1>2, <2>2
    <3>2. CallStore(closure, arg)[c] # store[c]
      BY <3>1
    <3>3. CallStore(closure, arg)[c] = IF Writers(closure, n, c - 1) = {} THEN store[c]
                                       ELSE arg[Max(Writers(closure, n, c - 1))]
      BY <1>2 DEF CallStore
    <3>4. Writers(closure, n, c - 1) # {}
      BY <3>2, <3>3
    <3> QED  BY <3>4 DEF Writers
  <2> QED  BY <2>1, <2>2
<1>5. PICK i \in 1 .. n : CallEnv(closure, n)[closure.param[i]] = c - 1
  BY <1>4
<1>6. closure.param[i] \in DOMAIN CallEnv(closure, n)
  BY DEF CallEnv
<1> QED  BY <1>5, <1>6

LEMMA FuncAppExpFinalCalls ==
  ASSUME Typed, Typed', FuncAppExpFinal
  PROVE  FunctionStack!Call
<1> DEFINE n == Top.num_args
           suspended == [comp |-> Rest, result |-> Dropped(n + 1), env |-> env]
<1>1. /\ HasComputation /\ Rest \in Seq(Computations) /\ Len(result) \in Nat
      /\ n \in Nat /\ n + 1 <= Len(result) /\ n <= Len(Callee.param)
  BY ScheduledCases DEF FuncAppExpFinal
<1>2. /\ Callee.param \in Seq(Name) /\ Callee.body \in Seq(StmtId)
      /\ Callee.env \in Envs(Len(store))
  BY <1>1, CalleeTyped
<1>3. /\ saved_ctx' = Append(saved_ctx, suspended)
      /\ env' = CallEnv(Callee, n) /\ store' = CallStore(Callee, Args)
      /\ comp' = <<Op("return_from_ctx")>> \o Reverse(StmtComps(Callee.body))
      /\ result' = <<>>
  BY DEF FuncAppExpFinal
<1>4. n \in 0 .. Len(Callee.param) /\ Len(store) \in Nat /\ Len(Args) = n
  BY <1>1, <1>2, LenProperties DEF Typed, Args
<1>5. /\ Contexts # <<>> /\ Len(Contexts) = Len(saved_ctx) + 1 /\ Len(saved_ctx) \in Nat
      /\ Front(Contexts) = saved_ctx /\ Last(Contexts) = CurCtx
  BY ContextsParts
<1>6. /\ Contexts' = Append(saved_ctx', CurCtx') /\ Last(Contexts') = CurCtx'
      /\ Len(Contexts') = Len(saved_ctx') + 1
  BY NextContextsParts
<1>7. CurCtx'.result = <<>> /\ CurCtx'.comp = comp' /\ CurCtx'.env = env'
  BY <1>3 DEF CurCtx
<1>8. suspended \in LocalContexts(Len(store')) /\ saved_ctx \in Seq(LocalContexts(Len(store')))
  <2>1. saved_ctx' \in Seq(LocalContexts(Len(store'))) /\ Len(saved_ctx') = Len(saved_ctx) + 1
    BY <1>3, <1>5, AppendProperties DEF Typed
  <2>2. \A i \in 1 .. Len(saved_ctx') : saved_ctx'[i] \in LocalContexts(Len(store'))
    BY <2>1, ElementOfSeq
  <2>3. /\ saved_ctx'[Len(saved_ctx) + 1] = suspended
        /\ \A i \in 1 .. Len(saved_ctx) : saved_ctx'[i] = saved_ctx[i]
    BY <1>3, AppendProperties DEF Typed
  <2>4. \A i \in 1 .. Len(saved_ctx) : saved_ctx[i] \in LocalContexts(Len(store'))
    BY <2>1, <2>2, <2>3, <1>5
  <2>5. saved_ctx \in [1 .. Len(saved_ctx) -> LocalContexts(Len(store'))]
    BY <2>4, LenProperties DEF Typed
  <2>6. saved_ctx \in Seq(LocalContexts(Len(store')))
    BY <2>5, <1>5, IsASeq
  <2> QED  BY <2>1, <2>2, <2>3, <2>6, <1>5
<1>9. CurCtx' \in LocalContexts(Len(store'))
  BY DEF Typed, CurCtx, LocalContexts
<1> HIDE DEF suspended
<1>10. /\ Contexts' = saved_ctx \o <<suspended, CurCtx'>>
       /\ Len(Contexts') = Len(Contexts) + 1 /\ Contexts'[Len(Contexts)] = suspended
  <2>1. PICK w : w = CurCtx'
    OBVIOUS
  <2>2. PICK S : S = LocalContexts(Len(store'))
    OBVIOUS
  <2>3. saved_ctx \in Seq(S) /\ suspended \in S /\ w \in S
    BY <1>8, <1>9, <2>1, <2>2
  <2>4. /\ Append(saved_ctx, suspended) \in Seq(S)
        /\ Len(Append(saved_ctx, suspended)) = Len(saved_ctx) + 1
        /\ Append(saved_ctx, suspended)[Len(saved_ctx) + 1] = suspended
        /\ \A i \in 1 .. Len(saved_ctx) : Append(saved_ctx, suspended)[i] = saved_ctx[i]
    BY <2>3, AppendProperties
  <2>5. PICK t : t = Append(Append(saved_ctx, suspended), w)
    OBVIOUS
  <2>6. /\ t \in Seq(S) /\ Len(t) = Len(saved_ctx) + 2
        /\ t[Len(saved_ctx) + 2] = w /\ t[Len(saved_ctx) + 1] = suspended
        /\ \A i \in 1 .. Len(saved_ctx) : t[i] = saved_ctx[i]
    BY <1>5, <2>3, <2>4, <2>5, AppendProperties
  <2>7. <<suspended, w>> \in Seq(S) /\ Len(<<suspended, w>>) = 2
    BY <2>3
  <2>8. PICK v : v = saved_ctx \o <<suspended, w>>
    OBVIOUS
  <2>9. /\ v \in Seq(S) /\ Len(v) = Len(saved_ctx) + 2
        /\ v[Len(saved_ctx) + 2] = w /\ v[Len(saved_ctx) + 1] = suspended
        /\ \A i \in 1 .. Len(saved_ctx) : v[i] = saved_ctx[i]
    BY <1>5, <2>3, <2>7, <2>8, ConcatType
  <2>10. \A i \in 1 .. Len(t) : t[i] = v[i]
    BY <1>5, <2>6, <2>9
  <2>11. t = v
    BY <2>6, <2>9, <2>10, SeqEqual
  <2> QED  BY <1>3, <1>5, <1>6, <2>1, <2>5, <2>6, <2>8, <2>11
<1>11. suspended.env = CurCtx.env /\ suspended.comp = Front(CurCtx.comp)
       /\ suspended.result = Dropped(n + 1) /\ CurCtx.result = result
  BY DEF suspended, CurCtx, Rest
<1>12. /\ Dropped(n + 1) # result
       /\ Len(Dropped(n + 1)) <= Len(result)
       /\ SubSeq(Dropped(n + 1), 1, Len(Dropped(n + 1))) = SubSeq(result, 1, Len(Dropped(n + 1)))
  <2>1. PICK k : k = n + 1
    OBVIOUS
  <2>2. k \in 0 .. Len(result) /\ k > 0
    BY <1>1, <2>1
  <2>3. result \in Seq(Results(Len(store)))
    BY DEF Typed
  <2>4. PICK d : d = SubSeq(result, 1, Len(result) - k)
    OBVIOUS
  <2>5. d \in Seq(Results(Len(store))) /\ Len(d) = Len(result) - k
    BY <2>2, <2>3, <2>4, Prefix
  <2>6. SubSeq(d, 1, Len(d)) = d
    <3>1. 0 \in 0 .. Len(d) /\ Len(d) - 0 = Len(d) /\ Len(d) \in Nat
      BY <1>1, <2>2, <2>5
    <3>2. PICK z : z = SubSeq(d, 1, Len(d) - 0)
      OBVIOUS
    <3>3. /\ z \in Seq(Results(Len(store))) /\ Len(z) = Len(d)
          /\ \A i \in 1 .. Len(d) : z[i] = d[i]
      BY <2>5, <3>1, <3>2, Prefix
    <3>4. z = d
      BY <2>5, <3>3, SeqEqual
    <3> QED  BY <3>1, <3>2, <3>4
  <2>7. Dropped(n + 1) = d
    BY <2>1, <2>4 DEF Dropped
  <2> QED  BY <1>1, <2>2, <2>4, <2>5, <2>6, <2>7
<1>13. Head(comp').type = "return_from_ctx"
  <2>1. Op("return_from_ctx").type = "return_from_ctx" /\ Op("return_from_ctx") \in Computations
    BY DEF Op, Computations, Finals
  <2>2. Reverse(StmtComps(Callee.body)) \in Seq(Computations)
    BY <1>2, ScheduledLists, ReverseType, SeqMonotonic
  <2>3. <<Op("return_from_ctx")>> \in Seq(Computations) /\ Len(<<Op("return_from_ctx")>>) = 1
        /\ <<Op("return_from_ctx")>>[1] = Op("return_from_ctx")
    BY <2>1
  <2>4. comp'[1] = Op("return_from_ctx") /\ comp' \in Seq(Computations) /\ Len(comp') >= 1
    BY <1>3, <2>2, <2>3, ConcatType
  <2>5. Head(comp') = comp'[1]
    BY <2>4, HeadTailProperties, EmptySeq
  <2> QED  BY <2>1, <2>4, <2>5
<1>14. Len(store) <= Len(store')
  <2>1. Args \in [1 .. n -> Literals(Len(store))]
    <3>1. \A i \in 1 .. n : ValueOf(Popped(n + 2 - i)) \in Literals(Len(store))
      <4> TAKE i \in 1 .. n
      <4>1. n + 2 - i \in 1 .. Len(result)
        BY <1>1
      <4> QED  BY <4>1, PoppedTyped
    <3> QED  BY <3>1 DEF Args
  <2>2. store \in Seq(Literals(Len(store)))
    BY DEF Typed
  <2> QED  BY <1>2, <1>3, <1>4, <2>1, <2>2, CallStoreType
<1>15. \A a \in DOMAIN store' : (a \in DOMAIN store => store'[a] # store[a]) =>
         \E x \in DOMAIN env' : env'[x] = a - 1
  BY <1>2, <1>3, <1>4, CallWritesParameters
<1> HIDE DEF n
<1>16. /\ FunctionStack!Front(Contexts) = saved_ctx /\ FunctionStack!Last(Contexts) = CurCtx
       /\ FunctionStack!Last(Contexts') = CurCtx'
       /\ FunctionStack!Front(CurCtx.comp) = Front(CurCtx.comp)
  BY <1>5, <1>6 DEF FunctionStack!Front, FunctionStack!Last, Front, Last
<1>17. FunctionStack!IsPrefix(suspended.result, CurCtx.result) /\ suspended.result # CurCtx.result
  BY <1>11, <1>12 DEF FunctionStack!IsPrefix
<1> QED
  BY <1>5, <1>7, <1>10, <1>11, <1>13, <1>14, <1>15, <1>16, <1>17
     DEF FunctionStack!Call, Contexts

(***************************************************************************)
(* A return.                                                               *)
(***************************************************************************)
LEMMA ReturnFromCtxReturns ==
  ASSUME Typed, Typed', ReturnFromCtx
  PROVE  FunctionStack!Return
<1> DEFINE value == Rvalue(ValueOf(Popped(1)))
<1>1. /\ saved_ctx # <<>> /\ saved_ctx' = Front(saved_ctx)
      /\ comp' = Last(saved_ctx).comp /\ env' = Last(saved_ctx).env
      /\ result' = Append(Last(saved_ctx).result, value)
      /\ store' = store
  BY DEF ReturnFromCtx
<1>2. /\ Contexts # <<>> /\ Len(Contexts) = Len(saved_ctx) + 1 /\ Len(saved_ctx) \in Nat
      /\ Front(Contexts) = saved_ctx /\ Last(Contexts) = CurCtx
      /\ Contexts = Append(saved_ctx, CurCtx)
  BY ContextsParts DEF Contexts
<1>3. Contexts' = Append(saved_ctx', CurCtx') /\ Last(Contexts') = CurCtx'
  BY NextContextsParts
<1>4. PICK caller : caller = Last(saved_ctx)
  OBVIOUS
<1>5. /\ caller \in LocalContexts(Len(store)) /\ caller = saved_ctx[Len(saved_ctx)]
      /\ Len(saved_ctx) \in Nat \ {0}
  BY <1>1, <1>4, FrontLast DEF Typed
<1>6. /\ caller = [comp |-> caller.comp, result |-> caller.result, env |-> caller.env]
      /\ caller.result \in Seq(Results(Len(store)))
  BY <1>5 DEF LocalContexts
<1>7. Contexts[Len(Contexts) - 1] = caller
  <2>1. CurCtx \in LocalContexts(Len(store)) /\ saved_ctx \in Seq(LocalContexts(Len(store)))
    BY ContextsParts DEF Typed
  <2>2. \A i \in 1 .. Len(saved_ctx) : Append(saved_ctx, CurCtx)[i] = saved_ctx[i]
    BY <2>1, AppendProperties
  <2> QED  BY <1>2, <1>5, <2>2
<1>8. CurCtx' = [comp |-> caller.comp, result |-> Append(caller.result, value), env |-> caller.env]
  BY <1>1, <1>4 DEF CurCtx
<1>9. value \in Results(Len(store)) /\ value.type = "rvalue"
  <2>1. 1 \in 1 .. Len(result)
    BY ScheduledCases DEF ReturnFromCtx
  <2> QED  BY <2>1, PoppedTyped DEF Rvalue, Results
<1> HIDE DEF value
<1>10. Last(CurCtx'.result) = value
  <2>1. PICK v : v = value
    OBVIOUS
  <2>2. Last(Append(caller.result, v)) = v
    BY <1>6, <1>9, <2>1, AppendParts
  <2> QED  BY <1>8, <2>1, <2>2
<1>11. CurCtx' = [caller EXCEPT !.result = Append(@, value)]
  <2>1. PICK r : r = Append(caller.result, value)
    OBVIOUS
  <2>2. PICK c, q, e : c = caller.comp /\ q = caller.result /\ e = caller.env
    OBVIOUS
  <2>3. caller = [comp |-> c, result |-> q, env |-> e]
    BY <1>6, <2>2
  <2>4. [[comp |-> c, result |-> q, env |-> e] EXCEPT !.result = r] = [comp |-> c, result |-> r, env |-> e]
    OBVIOUS
  <2>5. CurCtx' = [comp |-> c, result |-> r, env |-> e]
    BY <1>8, <2>1, <2>2
  <2>6. [caller EXCEPT !.result = r] = CurCtx'
    BY <2>3, <2>4, <2>5
  <2> QED  BY <2>1, <2>6
<1>12. /\ FunctionStack!Front(Contexts) = saved_ctx /\ FunctionStack!Front(saved_ctx) = Front(saved_ctx)
       /\ FunctionStack!Last(Contexts') = CurCtx' /\ FunctionStack!Last(CurCtx'.result) = value
  BY <1>2, <1>3, <1>10 DEF FunctionStack!Front, FunctionStack!Last, Front, Last
<1>13. Contexts' = Append(FunctionStack!Front(FunctionStack!Front(Contexts)), CurCtx')
  BY <1>1, <1>3, <1>12
<1>14. Len(Contexts) > 1
  BY <1>2, <1>5
<1> QED
  BY <1>1, <1>7, <1>9, <1>11, <1>12, <1>13, <1>14 DEF FunctionStack!Return, Contexts

(***************************************************************************)
(* The refinement.                                                         *)
(***************************************************************************)
LEMMA InitCalls ==
  ASSUME Init
  PROVE  FunctionStack!CallInit
<1>1. saved_ctx = <<>> /\ result = <<>> /\ DOMAIN env = {} /\ store = <<>>
  BY DEF Init
<1>2. Contexts = <<CurCtx>>
  BY <1>1 DEF Contexts
<1> QED  BY <1>1, <1>2 DEF FunctionStack!CallInit, Contexts, CurCtx

LEMMA StepCalls ==
  ASSUME Typed, Typed', [Next]_vars
  PROVE  [FunctionStack!CallNext]_(FunctionStack!callVars)
<1>1. CASE EvaluateExpression
  BY <1>1, ExpressionLocal DEF FunctionStack!CallNext
<1>2. CASE EvaluateStatement
  BY <1>2, StatementLocal DEF FunctionStack!CallNext
<1>3. CASE FuncAppExpFinal
  BY <1>3, FuncAppExpFinalCalls DEF FunctionStack!CallNext
<1>4. CASE ReturnFromCtx
  BY <1>4, ReturnFromCtxReturns DEF FunctionStack!CallNext
<1>5. CASE EvaluateFinal /\ ~ FuncAppExpFinal /\ ~ ReturnFromCtx
  BY <1>5, FinalLocal DEF FunctionStack!CallNext
<1>6. CASE Undefined \/ ConsumeOutput \/ UNCHANGED vars
  <2>1. UNCHANGED <<store, comp, result, env, saved_ctx>>
    BY <1>6 DEF Undefined, ResultUnderflow, SavedCtxUnderflow, ParamOutOfRange, StoreOutOfRange,
                DivisionTrap, Fail, ConsumeOutput, vars
  <2> QED  BY <2>1 DEF FunctionStack!callVars, CurCtx
<1> QED  BY <1>1, <1>2, <1>3, <1>4, <1>5, <1>6 DEF Next, Step

(* Steps leave the contexts of suspended callers alone, a call shares none *)
(* of its stacks with its caller and writes only the cells of parameters,  *)
(* a return gives the caller one rvalue and nothing else (FuncAppExpFinal, *)
(* ReturnFromCtx and the handlers of language_evaluation.cc, all of them). *)
THEOREM CallsAreAStack == Spec => ImplementsCallStack
<1>1. Init => FunctionStack!CallInit
  BY InitCalls
<1>2. Init => Typed
  BY InitTyped
<1>3. Typed /\ [Next]_vars => Typed'
  BY NextTyped
<1>4. Typed /\ Typed' /\ [Next]_vars => [FunctionStack!CallNext]_(FunctionStack!callVars)
  BY StepCalls
<1> QED  BY <1>1, <1>2, <1>3, <1>4, PTL DEF Spec, ImplementsCallStack, FunctionStack!CallSpec

(***************************************************************************)
(* The host loop.  Its steps are steps of the evaluator or leave it alone, *)
(* so that what is proved of the evaluator holds under the host.           *)
(***************************************************************************)
LEMMA HostStep ==
  [HostNext]_<<vars, hostVars>> => [Next]_vars
<1> SUFFICES ASSUME [HostNext]_<<vars, hostVars>>  PROVE [Next]_vars
  OBVIOUS
<1>1. CASE RunStep
  BY <1>1 DEF RunStep, Next
<1>2. CASE Drain /\ output # <<>>
  BY <1>2 DEF Drain, Next, ConsumeOutput
<1>3. CASE Drain /\ output = <<>>
  BY <1>3 DEF Drain, vars
<1>4. CASE ExitLoop
  BY <1>4 DEF ExitLoop
<1>5. CASE UNCHANGED <<vars, hostVars>>
  BY <1>5
<1> QED  BY <1>1, <1>2, <1>3, <1>4, <1>5 DEF HostNext

(* The host of interpreter_main.cc is one the evaluator is specified for:  *)
(* it calls Step only while there is a computation, and takes the output   *)
(* only between two steps and whole (interpreter_main.cc:72-85).          *)
THEOREM HostIsAHost ==
  HostSpec => Init /\ [][Next]_vars
<1>1. HostInit => Init
  BY DEF HostInit
<1> QED  BY <1>1, HostStep, PTL DEF HostSpec

(* Under that loop no address dangles, distinct names never share a cell,  *)
(* and the calls are a stack, whatever the program                         *)
(* (interpreter_main.cc:72-85).                                            *)
THEOREM HostKeepsTheStore ==
  HostSpec => [](TypeOK /\ NoAliasing) /\ ImplementsCallStack
<1>1. Init => NothingShared /\ FunctionStack!CallInit
  BY InitGood, InitCalls
<1>2. NothingShared /\ [Next]_vars => NothingShared'
  BY NothingSharedNext
<1>3. NothingShared => Typed /\ TypeOK /\ NoAliasing
  BY NothingSharedSuffices, TypedIsTypeOK DEF NothingShared
<1>4. Typed /\ Typed' /\ [Next]_vars => [FunctionStack!CallNext]_(FunctionStack!callVars)
  BY StepCalls
<1> QED  BY <1>1, <1>2, <1>3, <1>4, HostIsAHost, PTL
         DEF ImplementsCallStack, FunctionStack!CallSpec

(* What was output is printed by the time the loop is left, and the loop   *)
(* is left only by a program that ran to its end                           *)
(* (interpreter_main.cc:72-85).                                           *)
NothingUnprinted ==
  /\ pc \in {"test", "drain", "exited"}
  /\ pc # "drain" => output = <<>>
  /\ pc # "drain" => fault = "none"
  /\ pc = "exited" => ~HasComputation

THEOREM EverythingIsPrinted ==
  HostSpec => []NothingUnprinted
<1>1. HostInit => NothingUnprinted
  BY DEF HostInit, Init, NothingUnprinted
<1>2. NothingUnprinted /\ [HostNext]_<<vars, hostVars>> => NothingUnprinted'
  <2> SUFFICES ASSUME NothingUnprinted, [HostNext]_<<vars, hostVars>>  PROVE NothingUnprinted'
    OBVIOUS
  <2>1. CASE RunStep
    BY <2>1 DEF RunStep, NothingUnprinted
  <2>2. CASE Drain
    BY <2>2 DEF Drain, NothingUnprinted
  <2>3. CASE ExitLoop
    BY <2>3 DEF ExitLoop, NothingUnprinted, HasComputation, vars
  <2>4. CASE UNCHANGED <<vars, hostVars>>
    BY <2>4 DEF NothingUnprinted, HasComputation, vars, hostVars
  <2> QED  BY <2>1, <2>2, <2>3, <2>4 DEF HostNext
<1> QED  BY <1>1, <1>2, PTL DEF HostSpec
===============================================================================
