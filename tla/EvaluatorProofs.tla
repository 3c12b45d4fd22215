---------------------------- MODULE EvaluatorProofs ---------------------------
(***************************************************************************)
(* Spec => []TypeOK: besides the types, no address in any environment,     *)
(* closure or result ever points outside the store.                        *)
(***************************************************************************)
EXTENDS Evaluator, SeqLemmas

(***************************************************************************)
(* Literals.                                                               *)
(***************************************************************************)
LEMMA LiteralCases ==
  ASSUME NEW n \in Nat, NEW x \in Literals(n)
  PROVE  /\ x.type = "bool_val" => x \in PlainLiterals /\ x.bool_val \in BOOLEAN
         /\ x.type = "int_val"  => x \in PlainLiterals /\ x.int_val \in Int64
         /\ x.type = "str_val"  => x \in PlainLiterals /\ x.str_val \in Nat
         /\ x.type = "closure_val" => x \in Closures(n)
BY DEF Literals, PlainLiterals, Closures, None, NoValue

LEMMA WrapType == \A k \in Int : Wrap(k) \in Int64
<1> TAKE k \in Int
<1>1. IntMin \in Int /\ IntMax \in Int /\ 2 * IntMax + 2 > 0
  BY IntMaxAssumption DEF IntMin
<1>2. (k - IntMin) % (2 * IntMax + 2) \in 0 .. 2 * IntMax + 1
  BY <1>1
<1> QED  BY <1>1, <1>2 DEF Wrap, Int64, IntMin

LEMMA PlainLiteralTypes ==
  /\ None \in PlainLiterals /\ NoValue \in PlainLiterals
  /\ \A b \in BOOLEAN : BoolVal(b) \in PlainLiterals
  /\ \A k \in Int64 : IntVal(k) \in PlainLiterals
BY DEF PlainLiterals, BoolVal, IntVal

LEMMA QuotientType ==
  ASSUME NEW m \in Int, NEW k \in Int, k # 0
  PROVE  Quotient(m, k) \in Int
BY DEF Quotient

LEMMA MonApplyType ==
  ASSUME NEW n \in Nat, NEW x \in Literals(n), NEW op
  PROVE  MonApply(op, x) \in PlainLiterals
<1>1. Neg(x) \in PlainLiterals
  <2>1. CASE x.type = "int_val"
    <3>1. -x.int_val \in Int
      BY <2>1, LiteralCases, IntMaxAssumption DEF Int64, IntMin
    <3>2. IntVal(Wrap(-x.int_val)) \in PlainLiterals
      BY <3>1, WrapType, PlainLiteralTypes
    <3> QED  BY <2>1, <3>2 DEF Neg
  <2>2. CASE x.type # "int_val"
    BY <2>2, LiteralCases, PlainLiteralTypes DEF Neg
  <2> QED  BY <2>1, <2>2
<1>2. BoolNot(x) \in PlainLiterals
  BY LiteralCases, PlainLiteralTypes DEF BoolNot
<1> QED  BY <1>1, <1>2 DEF MonApply

LEMMA BinApplyType ==
  ASSUME NEW n \in Nat, NEW x \in Literals(n), NEW y \in Literals(n),
         NEW op \in BinArithOp, ~Traps(op, x, y)
  PROVE  BinApply(op, x, y) \in PlainLiterals
<1>1. ASSUME op \in ArithOp  PROVE NumBinOp(op, x, y) \in PlainLiterals
  <2>1. CASE x.type = "int_val"
    <3> DEFINE k == AsInt(y)
    <3>1. x.int_val \in Int /\ k \in Int
      BY <2>1, LiteralCases, IntMaxAssumption DEF Int64, IntMin, AsInt
    <3>2. op = "DIV" => Quotient(x.int_val, k) \in Int
      BY <2>1, <3>1, QuotientType DEF Traps
    <3> HIDE DEF k
    <3>3. Arith(op, x.int_val, k) \in Int64
      <4>1. Wrap(x.int_val + k) \in Int64 /\ Wrap(x.int_val - k) \in Int64
        BY <3>1, WrapType
      <4>2. x.int_val * k \in Int
        BY <3>1
      <4>3. Wrap(x.int_val * k) \in Int64
        BY <4>2, WrapType
      <4>4. op = "DIV" => Wrap(Quotient(x.int_val, k)) \in Int64
        BY <3>2, WrapType
      <4> QED  BY <1>1, <4>1, <4>3, <4>4 DEF Arith, ArithOp
    <3> USE DEF k
    <3> QED  BY <2>1, <3>3, PlainLiteralTypes DEF NumBinOp
  <2> QED  BY <2>1, PlainLiteralTypes DEF NumBinOp
<1>2. op \in CmpOp => NumCmpOp(op, x, y) \in PlainLiterals
  <2> SUFFICES ASSUME op \in CmpOp, x.type \in {"bool_val", "int_val", "str_val"}
               PROVE  NumCmpOp(op, x, y) \in PlainLiterals
    BY PlainLiteralTypes DEF NumCmpOp
  <2> DEFINE k == IF y.type = x.type THEN Rank(y) ELSE 0
  <2>1. Rank(x) \in Int /\ k \in Int
    BY LiteralCases, IntMaxAssumption DEF Rank, Int64, IntMin
  <2>2. Holds(op, Rank(x), k) \in BOOLEAN
    <3> HIDE DEF k
    <3>1. CASE op = "GT"  BY <3>1 DEF Holds
    <3>2. CASE op = "GE"  BY <3>2 DEF Holds
    <3>3. CASE op = "LT"  BY <3>3 DEF Holds
    <3>4. CASE op = "LE"  BY <3>4 DEF Holds
    <3>5. CASE op = "EQ"  BY <3>5 DEF Holds
    <3>6. CASE op = "NE"  BY <3>6 DEF Holds
    <3> QED  BY <3>1, <3>2, <3>3, <3>4, <3>5, <3>6 DEF CmpOp
  <2> QED  BY <2>2, PlainLiteralTypes DEF NumCmpOp
<1>3. BoolBinOp(op, x, y) \in PlainLiterals
  <2>1. CASE x.type = "bool_val"
    <3> DEFINE b == IF op = "AND" THEN x.bool_val /\ AsBool(y) ELSE x.bool_val \/ AsBool(y)
    <3>1. b \in BOOLEAN
      OBVIOUS
    <3>2. BoolVal(b) \in PlainLiterals
      BY <3>1, PlainLiteralTypes
    <3> QED  BY <2>1, <3>2 DEF BoolBinOp
  <2> QED  BY <2>1, PlainLiteralTypes DEF BoolBinOp
<1> QED  BY <1>1, <1>2, <1>3 DEF BinApply, BinArithOp, ArithOp, CmpOp, BoolOp

(***************************************************************************)
(* Values stay well formed as the store grows.                             *)
(***************************************************************************)
LEMMA EnvsMember ==
  ASSUME NEW n \in Nat, NEW e
  PROVE  e \in Envs(n) <=> DOMAIN e \subseteq Name /\ e \in [DOMAIN e -> 0 .. n-1]
<1>1. e \in Envs(n) <=> \E D \in SUBSET Name : e \in [D -> 0 .. n-1]
  BY DEF Envs
<1> QED  BY <1>1

LEMMA Growth ==
  ASSUME NEW n \in Nat, NEW m \in Nat, n <= m
  PROVE  /\ Envs(n) \subseteq Envs(m)
         /\ Closures(n) \subseteq Closures(m)
         /\ Literals(n) \subseteq Literals(m)
         /\ Results(n) \subseteq Results(m)
         /\ LocalContexts(n) \subseteq LocalContexts(m)
<1>1. 0 .. n-1 \subseteq 0 .. m-1
  OBVIOUS
<1>2. Envs(n) \subseteq Envs(m)
  <2> SUFFICES ASSUME NEW e \in Envs(n)  PROVE e \in Envs(m)
    OBVIOUS
  <2>1. DOMAIN e \subseteq Name /\ e \in [DOMAIN e -> 0 .. n-1]
    BY EnvsMember
  <2>2. e \in [DOMAIN e -> 0 .. m-1]
    BY <2>1, <1>1
  <2> QED  BY <2>1, <2>2, EnvsMember
<1>3. Closures(n) \subseteq Closures(m)
  BY <1>2 DEF Closures
<1>4. Literals(n) \subseteq Literals(m)
  BY <1>3 DEF Literals
<1>5. Results(n) \subseteq Results(m)
  BY <1>4, <1>1 DEF Results
<1>6. LocalContexts(n) \subseteq LocalContexts(m)
  <2>1. Seq(Results(n)) \subseteq Seq(Results(m))
    BY <1>5, SeqMonotonic
  <2> QED  BY <2>1, <1>2 DEF LocalContexts
<1> QED  BY <1>2, <1>3, <1>4, <1>5, <1>6

LEMMA SeqGrowth ==
  ASSUME NEW n \in Nat, NEW m \in Nat, n <= m
  PROVE  /\ Seq(Literals(n)) \subseteq Seq(Literals(m))
         /\ Seq(Results(n)) \subseteq Seq(Results(m))
         /\ Seq(LocalContexts(n)) \subseteq Seq(LocalContexts(m))
BY Growth, SeqMonotonic

(* TypeOK, one conjunct per variable. *)
Typed ==
  /\ pgm \in Seq(StmtId)
  /\ Len(store) \in Nat /\ store \in Seq(Literals(Len(store)))
  /\ output \in Seq(Literals(Len(store)))
  /\ comp \in Seq(Computations)
  /\ result \in Seq(Results(Len(store)))
  /\ env \in Envs(Len(store))
  /\ saved_ctx \in Seq(LocalContexts(Len(store)))
  /\ fault \in Faults

LEMMA TypedIsTypeOK == Typed <=> TypeOK
<1>1. CurCtx \in LocalContexts(Len(store)) <=>
        /\ comp \in Seq(Computations)
        /\ result \in Seq(Results(Len(store)))
        /\ env \in Envs(Len(store))
  BY DEF CurCtx, LocalContexts
<1>2. store \in Seq(Literals(Len(store))) => Len(store) \in Nat
  BY LenProperties
<1> QED  BY <1>1, <1>2 DEF Typed, TypeOK

(***************************************************************************)
(* The stacks.                                                             *)
(***************************************************************************)
LEMMA TopTyped ==
  ASSUME Typed, HasComputation
  PROVE  /\ Top \in Computations /\ Rest \in Seq(Computations)
         /\ Len(comp) \in Nat \ {0} /\ Len(Rest) = Len(comp) - 1
         /\ Top = comp[Len(comp)]
BY FrontLast DEF Typed, HasComputation, Top, Rest

LEMMA ValueOfTyped ==
  ASSUME Typed, NEW r \in Results(Len(store))
  PROVE  ValueOf(r) \in Literals(Len(store))
<1>1. CASE r.type = "rvalue"
  BY <1>1 DEF ValueOf, Results, NoResult
<1>2. CASE r.type = "lvalue_ref"
  <2>1. r.lvalue_ref + 1 \in 1 .. Len(store)
    BY <1>2 DEF Typed, Results
  <2>2. store[r.lvalue_ref + 1] \in Literals(Len(store))
    BY <2>1, ElementOfSeq DEF Typed
  <2> QED  BY <1>2, <2>2 DEF ValueOf
<1>3. CASE r.type \notin {"rvalue", "lvalue_ref"}
  BY <1>3, PlainLiteralTypes DEF ValueOf, Literals
<1> QED  BY <1>1, <1>2, <1>3

LEMMA PoppedTyped ==
  ASSUME Typed, NEW i \in 1 .. Len(result)
  PROVE  /\ Popped(i) \in Results(Len(store))
         /\ ValueOf(Popped(i)) \in Literals(Len(store))
<1>1. Len(result) + 1 - i \in 1 .. Len(result)
  BY LenProperties DEF Typed
<1>2. Popped(i) \in Results(Len(store))
  BY <1>1, ElementOfSeq DEF Typed, Popped
<1> QED  BY <1>2, ValueOfTyped

LEMMA DroppedTyped ==
  ASSUME Typed, NEW n \in 0 .. Len(result)
  PROVE  /\ Dropped(n) \in Seq(Results(Len(store)))
         /\ Len(result) \in Nat /\ Len(Dropped(n)) = Len(result) - n
BY Prefix, LenProperties DEF Typed, Dropped

(* The record a scheduled computation is, by its type. *)
LEMMA ScheduledCases ==
  ASSUME Typed, NEW t, Scheduled(t)
  PROVE  /\ HasComputation /\ Top.type = t /\ fault = "none"
         /\ Top \in Computations /\ Rest \in Seq(Computations)
         /\ Len(result) \in Nat
         /\ t = "exp" => Top.exp \in ExpId /\ Exp \in Expressions
         /\ t = "stmt" => Top.stmt \in Statements
         /\ t = "bin_exp_final" => Top.op \in BinArithOp /\ 2 <= Len(result)
         /\ t \in {"mon_exp_final", "ignore_one_result", "if_else_final",
                   "print_final", "return_from_ctx"} => 1 <= Len(result)
         /\ t = "assign_stmt_final" => 2 <= Len(result)
         /\ t = "tuple_exp_final" => Top.size \in Nat /\ Top.size <= Len(result) + 1
         /\ t = "func_app_exp_final" => Top.num_args \in Nat /\ Top.num_args + 1 <= Len(result)
         /\ t = "if_else_final" => /\ Top.if_case \in Seq(Unevaluated)
                                  /\ Top.else_case \in Seq(Unevaluated)
<1>1. HasComputation /\ Top.type = t /\ fault = "none" /\ Len(result) >= Pops(Top)
  BY DEF Scheduled, Running
<1>2. Top \in Computations /\ Rest \in Seq(Computations) /\ Len(result) \in Nat
  BY <1>1, TopTyped, LenProperties DEF Typed
<1>3. t = "exp" => Top.exp \in ExpId /\ Exp \in Expressions
  BY <1>1, <1>2, SyntaxAssumption DEF Computations, Unevaluated, Finals, Exp
<1>4. t = "stmt" => Top.stmt \in Statements
  BY <1>1, <1>2 DEF Computations, Unevaluated, Finals
<1>5. t = "bin_exp_final" => Top.op \in BinArithOp /\ 2 <= Len(result)
  BY <1>1, <1>2 DEF Computations, Unevaluated, Finals, Pops
<1>6. t = "tuple_exp_final" => Top.size \in Nat /\ Top.size <= Len(result) + 1
  BY <1>1, <1>2 DEF Computations, Unevaluated, Finals, Pops
<1>7. t = "func_app_exp_final" => Top.num_args \in Nat /\ Top.num_args + 1 <= Len(result)
  BY <1>1, <1>2 DEF Computations, Unevaluated, Finals, Pops
<1>8. t = "if_else_final" => /\ Top.if_case \in Seq(Unevaluated)
                            /\ Top.else_case \in Seq(Unevaluated)
  BY <1>1, <1>2 DEF Computations, Unevaluated, Finals
<1>9. /\ t \in {"mon_exp_final", "ignore_one_result", "if_else_final",
                "print_final", "return_from_ctx"} => 1 <= Len(result)
      /\ t = "assign_stmt_final" => 2 <= Len(result)
  BY <1>1 DEF Pops
<1> QED  BY <1>1, <1>2, <1>3, <1>4, <1>5, <1>6, <1>7, <1>8, <1>9

(***************************************************************************)
(* Parameter binding.                                                      *)
(***************************************************************************)
(* A parameter without a captured cell gets the one its rank calls for.    *)
LEMMA CallEnvType ==
  ASSUME NEW closure, closure.param \in Seq(Name), closure.env \in Envs(Len(store)),
         NEW n \in 0 .. Len(closure.param), Len(store) \in Nat
  PROVE  /\ Cardinality(Appending(closure, n)) \in Nat
         /\ CallEnv(closure, n) \in Envs(Len(store) + Cardinality(Appending(closure, n)))
         /\ \A i \in Appending(closure, n) :
              CallEnv(closure, n)[closure.param[i]]
                = Len(store) + Cardinality({j \in Appending(closure, n) : j < i})
<1> DEFINE A == Appending(closure, n)
           L == Len(store) + Cardinality(A)
           e == CallEnv(closure, n)
<1>1. Len(closure.param) \in Nat /\ \A i \in 1 .. n : closure.param[i] \in Name
  BY LenProperties, ElementOfSeq
<1>2. A \in SUBSET (1 .. n) /\ n \in Nat
  BY <1>1 DEF Appending
<1>3. /\ Cardinality(A) \in Nat
      /\ \A i \in A : Cardinality({j \in A : j < i}) \in 0 .. Cardinality(A) - 1
  BY <1>2, Ranks
<1>4. \A i, k \in A : closure.param[i] = closure.param[k] => i = k
  <2> SUFFICES ASSUME NEW i \in A, NEW k \in A, closure.param[i] = closure.param[k], i # k
               PROVE  FALSE
    OBVIOUS
  <2>1. i \in 1 .. k-1 \/ k \in 1 .. i-1
    BY <1>2
  <2> QED  BY <2>1 DEF Appending
<1>5. \A i \in A : Before(closure, n, closure.param[i]) = {j \in A : j < i}
  <2> SUFFICES ASSUME NEW i \in A, NEW j \in A
               PROVE  (\E k \in A : closure.param[k] = closure.param[i] /\ j < k) <=> j < i
    BY DEF Before
  <2> QED  BY <1>4
<1>6. \A x \in {closure.param[i] : i \in 1 .. n} \ DOMAIN closure.env :
        \E i \in A : closure.param[i] = x
  <2> SUFFICES ASSUME NEW k \in 1 .. n, closure.param[k] \notin DOMAIN closure.env
               PROVE  \E i \in A : closure.param[i] = closure.param[k]
    OBVIOUS
  <2> DEFINE I == {i \in 1 .. n : closure.param[i] = closure.param[k]}
  <2>1. I \in SUBSET (1 .. n) /\ I # {}
    OBVIOUS
  <2>2. PICK m \in I : \A j \in I : m <= j
    <3> HIDE DEF I
    <3> QED  BY <1>2, <2>1, LeastIndex
  <2>3. \A j \in 1 .. m-1 : closure.param[j] # closure.param[m]
    BY <1>2, <2>2
  <2> QED  BY <2>2, <2>3 DEF Appending
<1>7. \A i \in A : e[closure.param[i]] = Len(store) + Cardinality({j \in A : j < i})
  <2> SUFFICES ASSUME NEW i \in A
               PROVE  e[closure.param[i]] = Len(store) + Cardinality({j \in A : j < i})
    OBVIOUS
  <2>1. i \in 1 .. n /\ closure.param[i] \notin DOMAIN closure.env
    BY DEF Appending
  <2> QED  BY <2>1, <1>5 DEF CallEnv
<1>8. e \in Envs(L)
  <2>1. DOMAIN closure.env \subseteq Name /\ closure.env \in [DOMAIN closure.env -> 0 .. Len(store) - 1]
    BY EnvsMember
  <2>2. DOMAIN e = DOMAIN closure.env \cup {closure.param[i] : i \in 1 .. n}
    BY DEF CallEnv
  <2>3. DOMAIN e \subseteq Name
    BY <2>1, <2>2, <1>1
  <2>4. \A x \in DOMAIN e : e[x] \in 0 .. L - 1
    <3> SUFFICES ASSUME NEW x \in DOMAIN e  PROVE e[x] \in 0 .. L - 1
      OBVIOUS
    <3>1. CASE x \in DOMAIN closure.env
      <4>1. e[x] = closure.env[x]
        BY <3>1 DEF CallEnv
      <4> QED  BY <3>1, <4>1, <2>1, <1>3
    <3>2. CASE x \notin DOMAIN closure.env
      <4>1. PICK i \in A : closure.param[i] = x
        BY <3>2, <2>2, <1>6
      <4>2. Cardinality({j \in A : j < i}) \in 0 .. Cardinality(A) - 1
        BY <1>3
      <4>3. e[x] = Len(store) + Cardinality({j \in A : j < i})
        BY <4>1, <1>7
      <4> HIDE DEF A, e
      <4> QED  BY <4>2, <4>3, <1>3
    <3> QED  BY <3>1, <3>2
  <2>5. e = [x \in DOMAIN e |-> e[x]]
    BY DEF CallEnv
  <2>6. e \in [DOMAIN e -> 0 .. L - 1]
    <3> HIDE DEF e
    <3> QED  BY <2>4, <2>5
  <2>7. L \in Nat
    BY <1>3
  <2> HIDE DEF e, L
  <2> QED  BY <2>3, <2>6, <2>7, EnvsMember
<1> QED  BY <1>3, <1>7, <1>8

(* Every cell of the new store is an old one or was given an argument.     *)
LEMMA CallStoreType ==
  ASSUME Typed, NEW closure, closure.param \in Seq(Name), closure.env \in Envs(Len(store)),
         NEW n \in 0 .. Len(closure.param), NEW S, store \in Seq(S), NEW arg \in [1 .. n -> S]
  PROVE  LET L == Len(store) + Cardinality(Appending(closure, n))
         IN  /\ L \in Nat /\ Len(store) <= L
             /\ CallStore(closure, arg) \in Seq(S)
             /\ Len(CallStore(closure, arg)) = L
<1> DEFINE A == Appending(closure, n)
           L == Len(store) + Cardinality(A)
           new == CallStore(closure, arg)
<1>1. Len(store) \in Nat /\ n \in Nat /\ Len(closure.param) \in Nat
  BY LenProperties DEF Typed
<1>2. Len(arg) = n
  BY <1>1
<1>3. Cardinality(A) \in Nat /\ A \in SUBSET (1 .. n)
  BY <1>1, CallEnvType DEF Appending
<1>5. \A c \in 1 .. L : c > Len(store) => Writers(closure, n, c - 1) # {}
  <2> SUFFICES ASSUME NEW c \in 1 .. L, c > Len(store)
               PROVE  \E i \in 1 .. n : CallEnv(closure, n)[closure.param[i]] = c - 1
    BY DEF Writers
  <2>1. c - 1 - Len(store) \in 0 .. Cardinality(A) - 1
    BY <1>1, <1>3
  <2>2. PICK i \in A : Cardinality({j \in A : j < i}) = c - 1 - Len(store)
    <3> HIDE DEF A
    <3>1. \A d \in 0 .. Cardinality(A) - 1 : \E i \in A : Cardinality({j \in A : j < i}) = d
      BY <1>1, <1>3, Ranks
    <3> QED  BY <2>1, <3>1
  <2>3. CallEnv(closure, n)[closure.param[i]] = Len(store) + Cardinality({j \in A : j < i})
    BY <1>1, CallEnvType
  <2> QED  BY <1>1, <1>3, <2>2, <2>3
<1>6. \A c \in 1 .. L : new[c] \in S
  <2> SUFFICES ASSUME NEW c \in 1 .. L  PROVE new[c] \in S
    OBVIOUS
  <2> DEFINE writers == Writers(closure, n, c - 1)
  <2>1. new[c] = IF writers = {} THEN store[c] ELSE arg[Max(writers)]
    BY <1>2 DEF CallStore
  <2>2. CASE writers = {}
    <3>1. c \in 1 .. Len(store)
      BY <1>1, <1>3, <1>5, <2>2
    <3>2. store[c] \in S
      BY <3>1, ElementOfSeq
    <3> QED  BY <2>1, <2>2, <3>2
  <2>3. CASE writers # {}
    <3>1. writers \in SUBSET (1 .. n)
      BY DEF Writers
    <3>2. Max(writers) \in 1 .. n
      <4> HIDE DEF writers
      <4> QED  BY <1>1, <2>3, <3>1, MaxOfIndices
    <3>3. arg[Max(writers)] \in S
      BY <3>2
    <3> QED  BY <2>1, <2>3, <3>3
  <2> QED  BY <2>2, <2>3
<1>7. new \in [1 .. L -> S]
  <2>1. new = [c \in 1 .. L |-> new[c]]
    BY <1>2 DEF CallStore
  <2> HIDE DEF new, L
  <2> QED  BY <1>6, <2>1
<1>8. L \in Nat /\ Len(store) <= L
  BY <1>1, <1>3
<1> HIDE DEF new, L
<1>9. new \in Seq(S) /\ Len(new) = L
  BY <1>7, <1>8
<1> QED  BY <1>8, <1>9 DEF new, L

(***************************************************************************)
(* One lemma per kind of step.                                             *)
(***************************************************************************)
LEMMA ScheduledLists ==
  /\ Unevaluated \subseteq Computations
  /\ \A e \in ExpId : ExpComp(e) \in Unevaluated
  /\ \A s \in Statements : StmtComp(s) \in Unevaluated
  /\ \A ids \in Seq(StmtId) : StmtComps(ids) \in Seq(Unevaluated)
<1>1. /\ Unevaluated \subseteq Computations
      /\ \A e \in ExpId : ExpComp(e) \in Unevaluated
      /\ \A s \in Statements : StmtComp(s) \in Unevaluated
  BY DEF Computations, Unevaluated, ExpComp, StmtComp
<1>2. \A ids \in Seq(StmtId) : StmtComps(ids) \in Seq(Unevaluated)
  <2> TAKE ids \in Seq(StmtId)
  <2>1. Len(ids) \in Nat /\ DOMAIN ids = 1 .. Len(ids)
    BY LenProperties
  <2>2. \A i \in 1 .. Len(ids) : StmtComp(Stmts[ids[i]]) \in Unevaluated
    BY <1>1, ElementOfSeq, SyntaxAssumption
  <2>3. StmtComps(ids) \in [1 .. Len(ids) -> Unevaluated]
    BY <2>1, <2>2 DEF StmtComps
  <2> QED  BY <2>1, <2>3
<1> QED  BY <1>1, <1>2

LEMMA UnfoldTyped ==
  ASSUME Typed, HasComputation, NEW cs \in Seq(Computations), Unfold(cs)
  PROVE  Typed'
<1>1. Rest \o cs \in Seq(Computations)
  BY TopTyped, ConcatType
<1> QED  BY <1>1 DEF Typed, Unfold

LEMMA YieldTyped ==
  ASSUME Typed, HasComputation, NEW r, Yield(r), Len(store') \in Nat, Len(store) <= Len(store'),
         store' \in Seq(Literals(Len(store'))), env' \in Envs(Len(store')),
         r \in Results(Len(store'))
  PROVE  Typed'
<1>1. Len(store) \in Nat
  BY DEF Typed
<1>2. /\ result \in Seq(Results(Len(store')))
      /\ output \in Seq(Literals(Len(store')))
      /\ saved_ctx \in Seq(LocalContexts(Len(store')))
  BY <1>1, SeqGrowth DEF Typed
<1>3. Append(result, r) \in Seq(Results(Len(store')))
  BY <1>2, AppendProperties
<1>4. Rest \in Seq(Computations)
  BY TopTyped
<1> QED  BY <1>2, <1>3, <1>4 DEF Typed, Yield

LEMMA ReduceTyped ==
  ASSUME Typed, HasComputation, NEW n \in 0 .. Len(result), NEW r \in Results(Len(store)),
         Reduce(n, r)
  PROVE  Typed'
<1>1. Append(Dropped(n), r) \in Seq(Results(Len(store)))
  BY DroppedTyped, AppendProperties
<1> QED  BY <1>1, TopTyped DEF Typed, Reduce

LEMMA FailTyped ==
  ASSUME Typed, NEW kind \in Faults, Fail(kind)
  PROVE  Typed'
BY DEF Typed, Fail

(***************************************************************************)
(* Expressions.                                                            *)
(***************************************************************************)
LEMMA ScheduledExpCases ==
  ASSUME Typed, NEW t, ScheduledExp(t)
  PROVE  /\ HasComputation /\ Exp \in Expressions /\ Exp.type = t /\ Top.exp \in ExpId
         /\ t = "var_exp" => Exp.name \in Name
         /\ t = "lit_exp" => Exp.lit \in PlainLiterals
         /\ t = "func_app_exp" => Exp.func \in ExpId /\ Exp.arg \in Seq(ExpId)
         /\ t = "mon_arith_exp" => Exp.op \in MonArithOp /\ Exp.exp \in ExpId
         /\ t = "bin_arith_exp" => Exp.lhs \in ExpId /\ Exp.op \in BinArithOp /\ Exp.rhs \in ExpId
         /\ t = "tern_exp" => {Exp.if_exp, Exp.cond_exp, Exp.else_exp} \subseteq ExpId
         /\ t = "tuple_exp" => Exp.exp \in Seq(ExpId)
         /\ t = "lambda_exp" => /\ Exp.param \in Seq(Name) /\ Exp.body \in Seq(StmtId)
                               /\ Top.exp \in Lambdas
<1>1. HasComputation /\ Exp \in Expressions /\ Exp.type = t /\ Top.exp \in ExpId
  BY ScheduledCases DEF ScheduledExp, Exp
<1> QED  BY <1>1 DEF Expressions, Lambdas, Exp

LEMMA VarExpTyped ==
  ASSUME Typed, VarExp
  PROVE  Typed'
<1>1. HasComputation /\ Exp.name \in Name
  BY ScheduledExpCases DEF VarExp
<1>2. Len(store) \in Nat /\ DOMAIN env \subseteq Name /\ env \in [DOMAIN env -> 0 .. Len(store) - 1]
  BY EnvsMember DEF Typed
<1>3. CASE Exp.name \in DOMAIN env
  <2>1. Lvalue(env[Exp.name]) \in Results(Len(store))
    BY <1>2, <1>3 DEF Results, Lvalue
  <2> QED  BY <1>1, <1>3, <2>1, YieldTyped DEF VarExp, Typed
<1>4. CASE Exp.name \notin DOMAIN env
  <2> DEFINE n == Len(store)
             e == [x \in DOMAIN env \cup {Exp.name} |-> IF x = Exp.name THEN n ELSE env[x]]
  <2>1. store' = Append(store, NoValue) /\ env' = e /\ Yield(Lvalue(n))
    BY <1>4 DEF VarExp, NewAddress
  <2>2. Literals(n) \subseteq Literals(n + 1) /\ NoValue \in Literals(n + 1)
    BY <1>2, Growth, PlainLiteralTypes DEF Literals
  <2>3. store \in Seq(Literals(n + 1))
    BY <2>2, SeqMonotonic DEF Typed
  <2>4. store' \in Seq(Literals(n + 1)) /\ Len(store') = n + 1
    BY <2>1, <2>2, <2>3, AppendProperties
  <2>5. DOMAIN e \subseteq Name /\ e \in [DOMAIN e -> 0 .. n]
    BY <1>1, <1>2
  <2>6. e \in Envs(n + 1)
    <3> HIDE DEF e
    <3>1. (n + 1) - 1 = n /\ n + 1 \in Nat
      BY <1>2
    <3> QED  BY <2>5, <3>1, EnvsMember
  <2>7. Lvalue(n) \in Results(n + 1)
    BY <1>2 DEF Results, Lvalue
  <2> HIDE DEF e
  <2> QED  BY <1>1, <1>2, <2>1, <2>4, <2>6, <2>7, YieldTyped
<1> QED  BY <1>3, <1>4

LEMMA ExpressionTyped ==
  ASSUME Typed, EvaluateExpression
  PROVE  Typed'
<1> USE ScheduledLists
<1>1. CASE LitExp
  <2>1. Rvalue(Exp.lit) \in Results(Len(store)) /\ HasComputation
    BY <1>1, ScheduledExpCases DEF LitExp, Results, Rvalue, Literals
  <2> QED  BY <1>1, <2>1, YieldTyped DEF LitExp, Typed
<1>2. CASE FuncAppExp
  <2>1. HasComputation /\ Exp.func \in ExpId /\ Exp.arg \in Seq(ExpId)
    BY <1>2, ScheduledExpCases DEF FuncAppExp
  <2>2. Len(Exp.arg) \in Nat /\ DOMAIN Exp.arg = 1 .. Len(Exp.arg)
    BY <2>1, LenProperties
  <2> DEFINE fnl == [type |-> "func_app_exp_final", num_args |-> Len(Exp.arg)]
             args == [i \in DOMAIN Exp.arg |-> ExpComp(Exp.arg[Len(Exp.arg) + 1 - i])]
  <2>3. fnl \in Computations
    BY <2>2 DEF Computations, Finals
  <2>4. <<fnl, ExpComp(Exp.func)>> \in Seq(Computations)
    BY <2>1, <2>3
  <2>5. \A i \in 1 .. Len(Exp.arg) : ExpComp(Exp.arg[Len(Exp.arg) + 1 - i]) \in Computations
    <3> TAKE i \in 1 .. Len(Exp.arg)
    <3>1. Len(Exp.arg) + 1 - i \in 1 .. Len(Exp.arg)
      BY <2>2
    <3>2. Exp.arg[Len(Exp.arg) + 1 - i] \in ExpId
      BY <2>1, <3>1, ElementOfSeq
    <3> QED  BY <3>2
  <2>6. args \in [1 .. Len(Exp.arg) -> Computations]
    BY <2>2, <2>5
  <2>7. args \in Seq(Computations)
    BY <2>2, <2>6
  <2>8. <<fnl, ExpComp(Exp.func)>> \o args \in Seq(Computations)
    BY <2>4, <2>7, ConcatType
  <2> QED  BY <1>2, <2>1, <2>8, UnfoldTyped DEF FuncAppExp
<1>3. CASE MonArithExp
  <2>1. HasComputation /\ Exp.op \in MonArithOp /\ Exp.exp \in ExpId
    BY <1>3, ScheduledExpCases DEF MonArithExp
  <2>2. [type |-> "mon_exp_final", op |-> Exp.op] \in Computations
    BY <2>1 DEF Computations, Finals
  <2>3. <<[type |-> "mon_exp_final", op |-> Exp.op], ExpComp(Exp.exp)>> \in Seq(Computations)
    BY <2>1, <2>2
  <2> QED  BY <1>3, <2>1, <2>3, UnfoldTyped DEF MonArithExp
<1>4. CASE BinArithExp
  <2>1. HasComputation /\ Exp.lhs \in ExpId /\ Exp.op \in BinArithOp /\ Exp.rhs \in ExpId
    BY <1>4, ScheduledExpCases DEF BinArithExp
  <2>2. [type |-> "bin_exp_final", op |-> Exp.op] \in Computations
    BY <2>1 DEF Computations, Finals
  <2>3. <<[type |-> "bin_exp_final", op |-> Exp.op], ExpComp(Exp.rhs), ExpComp(Exp.lhs)>>
          \in Seq(Computations)
    BY <2>1, <2>2
  <2> QED  BY <1>4, <2>1, <2>3, UnfoldTyped DEF BinArithExp
<1>5. CASE TernExp
  <2>1. HasComputation /\ {Exp.if_exp, Exp.cond_exp, Exp.else_exp} \subseteq ExpId
    BY <1>5, ScheduledExpCases DEF TernExp
  <2>2. <<ExpComp(Exp.if_exp)>> \in Seq(Unevaluated) /\ <<ExpComp(Exp.else_exp)>> \in Seq(Unevaluated)
    BY <2>1
  <2>3. IfElseFinal(<<ExpComp(Exp.if_exp)>>, <<ExpComp(Exp.else_exp)>>) \in Computations
    BY <2>2 DEF Computations, Finals, IfElseFinal
  <2> QED  BY <1>5, <2>1, <2>3, UnfoldTyped DEF TernExp
<1>6. CASE TupleExp
  <2>1. HasComputation /\ Exp.exp \in Seq(ExpId)
    BY <1>6, ScheduledExpCases DEF TupleExp
  <2>2. Len(Exp.exp) \in Nat /\ DOMAIN Exp.exp = 1 .. Len(Exp.exp)
    BY <2>1, LenProperties
  <2> DEFINE elems == [i \in DOMAIN Exp.exp |-> ExpComp(Exp.exp[i])]
             fnl == [type |-> "tuple_exp_final", size |-> Len(Exp.exp)]
  <2>3. \A i \in 1 .. Len(Exp.exp) : ExpComp(Exp.exp[i]) \in Computations
    BY <2>1, ElementOfSeq
  <2>4. elems \in [1 .. Len(Exp.exp) -> Computations]
    BY <2>2, <2>3
  <2>5. elems \in Seq(Computations)
    BY <2>2, <2>4
  <2>6. <<fnl>> \in Seq(Computations)
    BY <2>2 DEF Computations, Finals
  <2>7. <<fnl>> \o elems \in Seq(Computations)
    BY <2>5, <2>6, ConcatType
  <2> QED  BY <1>6, <2>1, <2>7, UnfoldTyped DEF TupleExp
<1>7. CASE LambdaExp
  <2> DEFINE closure == [type |-> "closure_val", param |-> Exp.param, body |-> Exp.body, env |-> env]
  <2>1. HasComputation /\ Top.exp \in Lambdas
    BY <1>7, ScheduledExpCases DEF LambdaExp
  <2>2. closure \in Closures(Len(store))
    <3>1. Exp.param \in Seq(Name) /\ Exp.body \in Seq(StmtId)
      BY <1>7, ScheduledExpCases DEF LambdaExp
    <3>2. env \in Envs(Len(store))
      BY DEF Typed
    <3> QED  BY <2>1, <3>1, <3>2 DEF Closures, Exp
  <2>3. Rvalue(closure) \in Results(Len(store))
    <3> HIDE DEF closure
    <3> QED  BY <2>2 DEF Results, Literals, Rvalue
  <2> QED  BY <1>7, <2>1, <2>3, YieldTyped DEF LambdaExp, Typed
<1>8. CASE UnsetExp
  <2>1. HasComputation /\ <<>> \in Seq(Computations)
    BY <1>8, ScheduledExpCases DEF UnsetExp
  <2> QED  BY <1>8, <2>1, UnfoldTyped DEF UnsetExp
<1> QED
  BY <1>1, <1>2, <1>3, <1>4, <1>5, <1>6, <1>7, <1>8, VarExpTyped DEF EvaluateExpression

(***************************************************************************)
(* Statements.                                                             *)
(***************************************************************************)
LEMMA ScheduledStmtCases ==
  ASSUME Typed, NEW t, ScheduledStmt(t)
  PROVE  /\ HasComputation /\ Stmt \in Statements /\ Stmt.type = t
         /\ Top \in Unevaluated /\ Top = StmtComp(Stmt)
         /\ t = "exp_stmt" => Stmt.exp_stmt \in ExpId
         /\ t = "assign_stmt" => Stmt.lhs \in ExpId /\ Stmt.rhs \in ExpId
         /\ t = "ret_stmt" => Stmt.ret_stmt \in ExpId
         /\ t = "print_stmt" => Stmt.print_stmt \in ExpId
         /\ t = "if_else_stmt" => /\ Stmt.cond \in ExpId
                                 /\ Stmt.if_stmts \in Seq(StmtId) /\ Stmt.else_stmts \in Seq(StmtId)
         /\ t = "while_stmt" => Stmt.cond \in ExpId /\ Stmt.body \in Seq(StmtId)
         /\ t = "for_stmt" => /\ Stmt.cond \in ExpId /\ Stmt.body \in Seq(StmtId)
                             /\ Stmt.init \in StmtId /\ Stmt.inc \in StmtId
<1>1. HasComputation /\ Top.type = "stmt" /\ Top \in Computations /\ Top.stmt \in Statements
      /\ Top.stmt.type = t
  BY ScheduledCases DEF ScheduledStmt
<1>2. Top \in Unevaluated /\ Top = StmtComp(Top.stmt)
  BY <1>1 DEF Computations, Finals, Unevaluated, StmtComp
<1> QED  BY <1>1, <1>2 DEF Statements, Stmt

LEMMA StatementTyped ==
  ASSUME Typed, EvaluateStatement
  PROVE  Typed'
<1> USE ScheduledLists
<1>0. \A t \in {"ignore_one_result", "assign_stmt_final", "return_from_ctx", "print_final"} :
        Op(t) \in Computations
  BY DEF Op, Computations, Finals
<1>1. CASE ExpStmt
  <2>1. HasComputation /\ Stmt.exp_stmt \in ExpId
    BY <1>1, ScheduledStmtCases DEF ExpStmt
  <2>2. <<Op("ignore_one_result"), ExpComp(Stmt.exp_stmt)>> \in Seq(Computations)
    BY <1>0, <2>1
  <2> QED  BY <1>1, <2>1, <2>2, UnfoldTyped DEF ExpStmt
<1>2. CASE AssignStmt
  <2>1. HasComputation /\ Stmt.lhs \in ExpId /\ Stmt.rhs \in ExpId
    BY <1>2, ScheduledStmtCases DEF AssignStmt
  <2>2. <<Op("assign_stmt_final"), ExpComp(Stmt.rhs), ExpComp(Stmt.lhs)>> \in Seq(Computations)
    BY <1>0, <2>1
  <2> QED  BY <1>2, <2>1, <2>2, UnfoldTyped DEF AssignStmt
<1>3. CASE RetStmt
  <2>1. HasComputation /\ Stmt.ret_stmt \in ExpId
    BY <1>3, ScheduledStmtCases DEF RetStmt
  <2>2. <<Op("return_from_ctx"), ExpComp(Stmt.ret_stmt)>> \in Seq(Computations)
    BY <1>0, <2>1
  <2> QED  BY <1>3, <2>1, <2>2, UnfoldTyped DEF RetStmt
<1>4. CASE PrintStmt
  <2>1. HasComputation /\ Stmt.print_stmt \in ExpId
    BY <1>4, ScheduledStmtCases DEF PrintStmt
  <2>2. <<Op("print_final"), ExpComp(Stmt.print_stmt)>> \in Seq(Computations)
    BY <1>0, <2>1
  <2> QED  BY <1>4, <2>1, <2>2, UnfoldTyped DEF PrintStmt
<1>5. CASE IfElseStmt
  <2>1. /\ HasComputation /\ Stmt.cond \in ExpId
        /\ Stmt.if_stmts \in Seq(StmtId) /\ Stmt.else_stmts \in Seq(StmtId)
    BY <1>5, ScheduledStmtCases DEF IfElseStmt
  <2>2. IfElseFinal(StmtComps(Stmt.if_stmts), StmtComps(Stmt.else_stmts)) \in Computations
    BY <2>1 DEF IfElseFinal, Computations, Finals
  <2>3. <<IfElseFinal(StmtComps(Stmt.if_stmts), StmtComps(Stmt.else_stmts)), ExpComp(Stmt.cond)>>
          \in Seq(Computations)
    BY <2>1, <2>2
  <2> QED  BY <1>5, <2>1, <2>3, UnfoldTyped DEF IfElseStmt
<1>6. CASE WhileStmt
  <2>1. HasComputation /\ Stmt.cond \in ExpId /\ Stmt.body \in Seq(StmtId) /\ Top \in Unevaluated
    BY <1>6, ScheduledStmtCases DEF WhileStmt
  <2>2. Append(StmtComps(Stmt.body), Top) \in Seq(Unevaluated) /\ <<>> \in Seq(Unevaluated)
    BY <2>1, AppendProperties
  <2>3. IfElseFinal(Append(StmtComps(Stmt.body), Top), <<>>) \in Computations
    BY <2>2 DEF IfElseFinal, Computations, Finals
  <2>4. <<IfElseFinal(Append(StmtComps(Stmt.body), Top), <<>>), ExpComp(Stmt.cond)>> \in Seq(Computations)
    BY <2>1, <2>3
  <2> QED  BY <1>6, <2>1, <2>4, UnfoldTyped DEF WhileStmt
<1>7. CASE ForStmt
  <2> DEFINE loop == [type |-> "while_stmt", cond |-> Stmt.cond, body |-> Append(Stmt.body, Stmt.inc)]
  <2>1. /\ HasComputation /\ Stmt.cond \in ExpId /\ Stmt.body \in Seq(StmtId)
        /\ Stmt.init \in StmtId /\ Stmt.inc \in StmtId
    BY <1>7, ScheduledStmtCases DEF ForStmt
  <2>2. Append(Stmt.body, Stmt.inc) \in Seq(StmtId)
    BY <2>1, AppendProperties
  <2>3. loop \in Statements /\ Stmts[Stmt.init] \in Statements
    BY <2>1, <2>2, SyntaxAssumption DEF Statements
  <2>4. StmtComp(loop) \in Computations /\ StmtComp(Stmts[Stmt.init]) \in Computations
    <3> HIDE DEF loop
    <3> QED  BY <2>3
  <2>5. <<StmtComp(loop), StmtComp(Stmts[Stmt.init])>> \in Seq(Computations)
    <3> HIDE DEF loop
    <3> QED  BY <2>4
  <2> QED  BY <1>7, <2>1, <2>5, UnfoldTyped DEF ForStmt
<1>8. CASE UnsetStmt
  <2>1. HasComputation /\ <<>> \in Seq(Computations)
    BY <1>8, ScheduledStmtCases DEF UnsetStmt
  <2> QED  BY <1>8, <2>1, UnfoldTyped DEF UnsetStmt
<1> QED  BY <1>1, <1>2, <1>3, <1>4, <1>5, <1>6, <1>7, <1>8 DEF EvaluateStatement

(***************************************************************************)
(* Finals.                                                                 *)
(***************************************************************************)
LEMMA CalleeTyped ==
  ASSUME Typed, 1 <= Len(result)
  PROVE  /\ Callee.param \in Seq(Name) /\ Callee.body \in Seq(StmtId)
         /\ Callee.env \in Envs(Len(store))
<1>1. Len(result) \in Nat /\ Len(store) \in Nat
  BY LenProperties DEF Typed
<1>2. 1 \in 1 .. Len(result)
  BY <1>1
<1>3. ValueOf(Popped(1)) \in Literals(Len(store))
  BY <1>2, PoppedTyped
<1>4. CASE ValueOf(Popped(1)).type = "closure_val"
  <2>1. Callee = ValueOf(Popped(1)) /\ Callee \in Closures(Len(store))
    BY <1>1, <1>3, <1>4, LiteralCases DEF Callee, AsClosure
  <2> QED  BY <2>1 DEF Closures
<1>5. CASE ValueOf(Popped(1)).type # "closure_val"
  <2>1. Callee = EmptyClosure
    BY <1>5 DEF Callee, AsClosure
  <2>2. EmptyClosure.env \in Envs(Len(store))
    BY <1>1, EnvsMember DEF EmptyClosure
  <2> QED  BY <2>1, <2>2 DEF EmptyClosure
<1> QED  BY <1>4, <1>5

LEMMA FuncAppExpFinalTyped ==
  ASSUME Typed, FuncAppExpFinal
  PROVE  Typed'
<1> DEFINE n == Top.num_args
           L == Len(store) + Cardinality(Appending(Callee, n))
<1>1. /\ HasComputation /\ Rest \in Seq(Computations) /\ Len(result) \in Nat
      /\ n \in Nat /\ n + 1 <= Len(result) /\ n <= Len(Callee.param)
  BY ScheduledCases DEF FuncAppExpFinal
<1>2. /\ Callee.param \in Seq(Name) /\ Callee.body \in Seq(StmtId)
      /\ Callee.env \in Envs(Len(store))
  BY <1>1, CalleeTyped
<1>3. n \in 0 .. Len(Callee.param) /\ Len(store) \in Nat
  BY <1>1, <1>2, LenProperties DEF Typed
<1>4. Args \in [1 .. n -> Literals(Len(store))]
  <2>1. \A i \in 1 .. n : ValueOf(Popped(n + 2 - i)) \in Literals(Len(store))
    <3> TAKE i \in 1 .. n
    <3>1. n + 2 - i \in 1 .. Len(result)
      BY <1>1
    <3> QED  BY <3>1, PoppedTyped
  <2> QED  BY <2>1 DEF Args
<1>5. CallEnv(Callee, n) \in Envs(L)
  BY <1>2, <1>3, CallEnvType
<1>6. /\ L \in Nat /\ Len(store) <= L
      /\ CallStore(Callee, Args) \in Seq(Literals(L)) /\ Len(CallStore(Callee, Args)) = L
  <2>1. store \in Seq(Literals(Len(store)))
    BY DEF Typed
  <2>2. /\ L \in Nat /\ Len(store) <= L
        /\ CallStore(Callee, Args) \in Seq(Literals(Len(store)))
        /\ Len(CallStore(Callee, Args)) = L
    BY <1>2, <1>3, <1>4, <2>1, CallStoreType
  <2> QED  BY <1>3, <2>2, SeqGrowth
<1>7. store' = CallStore(Callee, Args) /\ env' = CallEnv(Callee, n)
  BY DEF FuncAppExpFinal
<1> HIDE DEF L
<1>8. store' \in Seq(Literals(L)) /\ Len(store') = L /\ env' \in Envs(L)
  BY <1>5, <1>6, <1>7
<1>9. <<Op("return_from_ctx")>> \o Reverse(StmtComps(Callee.body)) \in Seq(Computations)
  <2>1. Op("return_from_ctx") \in Computations
    BY DEF Op, Computations, Finals
  <2>2. Reverse(StmtComps(Callee.body)) \in Seq(Computations)
    BY <1>2, ScheduledLists, ReverseType, SeqMonotonic
  <2>3. <<Op("return_from_ctx")>> \in Seq(Computations)
    BY <2>1
  <2> QED  BY <2>2, <2>3, ConcatType
<1>10. [comp |-> Rest, result |-> Dropped(n + 1), env |-> env] \in LocalContexts(L)
  <2>1. Dropped(n + 1) \in Seq(Results(Len(store)))
    <3>1. n + 1 \in 0 .. Len(result)
      BY <1>1
    <3> QED  BY <3>1, DroppedTyped
  <2>2. Dropped(n + 1) \in Seq(Results(L)) /\ env \in Envs(L)
    BY <1>3, <1>6, <2>1, SeqGrowth, Growth DEF Typed
  <2> QED  BY <1>1, <2>2 DEF LocalContexts
<1>11. saved_ctx' \in Seq(LocalContexts(L))
  <2>1. saved_ctx \in Seq(LocalContexts(L))
    BY <1>3, <1>6, SeqGrowth DEF Typed
  <2> QED  BY <1>10, <2>1, AppendProperties DEF FuncAppExpFinal
<1>12. output' \in Seq(Literals(L)) /\ result' \in Seq(Results(L))
  BY <1>3, <1>6, SeqGrowth DEF FuncAppExpFinal, Typed
<1> QED
  BY <1>6, <1>8, <1>9, <1>11, <1>12 DEF Typed, FuncAppExpFinal

LEMMA ReturnFromCtxTyped ==
  ASSUME Typed, ReturnFromCtx
  PROVE  Typed'
<1>1. /\ saved_ctx # <<>> /\ saved_ctx' = Front(saved_ctx)
      /\ comp' = Last(saved_ctx).comp /\ env' = Last(saved_ctx).env
      /\ result' = Append(Last(saved_ctx).result, Rvalue(ValueOf(Popped(1))))
      /\ UNCHANGED <<pgm, store, output, fault>>
  BY DEF ReturnFromCtx
<1>2. Last(saved_ctx) \in LocalContexts(Len(store)) /\ Front(saved_ctx) \in Seq(LocalContexts(Len(store)))
  BY <1>1, FrontLast DEF Typed
<1>3. 1 \in 1 .. Len(result)
  BY ScheduledCases DEF ReturnFromCtx
<1>4. Rvalue(ValueOf(Popped(1))) \in Results(Len(store))
  BY <1>3, PoppedTyped DEF Rvalue, Results
<1>5. /\ Last(saved_ctx).comp \in Seq(Computations)
      /\ Last(saved_ctx).result \in Seq(Results(Len(store)))
      /\ Last(saved_ctx).env \in Envs(Len(store))
  BY <1>2 DEF LocalContexts
<1>6. result' \in Seq(Results(Len(store)))
  BY <1>1, <1>4, <1>5, AppendProperties
<1> QED  BY <1>1, <1>2, <1>5, <1>6 DEF Typed

LEMMA FinalTyped ==
  ASSUME Typed, EvaluateFinal
  PROVE  Typed'
<1>1. CASE BinExpFinal
  <2>1. HasComputation /\ Top.op \in BinArithOp /\ Len(result) \in Nat /\ 2 <= Len(result)
        /\ Top.type = "bin_exp_final" /\ ~BinTraps
    BY <1>1, ScheduledCases DEF BinExpFinal
  <2>2. 1 \in 1 .. Len(result) /\ 2 \in 1 .. Len(result) /\ 2 \in 0 .. Len(result)
    BY <2>1
  <2>3. ValueOf(Popped(1)) \in Literals(Len(store)) /\ ValueOf(Popped(2)) \in Literals(Len(store))
    BY <2>2, PoppedTyped
  <2>4. BinApply(Top.op, ValueOf(Popped(2)), ValueOf(Popped(1))) \in PlainLiterals
    BY <2>1, <2>3, BinApplyType DEF BinTraps, Typed
  <2>5. Rvalue(BinApply(Top.op, ValueOf(Popped(2)), ValueOf(Popped(1)))) \in Results(Len(store))
    BY <2>4 DEF Results, Rvalue, Literals
  <2> QED  BY <1>1, <2>1, <2>2, <2>5, ReduceTyped DEF BinExpFinal
<1>2. CASE MonExpFinal
  <2>1. HasComputation /\ Len(result) \in Nat /\ 1 <= Len(result)
    BY <1>2, ScheduledCases DEF MonExpFinal
  <2>2. 1 \in 1 .. Len(result) /\ 1 \in 0 .. Len(result)
    BY <2>1
  <2>3. MonApply(Top.op, ValueOf(Popped(1))) \in PlainLiterals
    BY <2>2, PoppedTyped, MonApplyType DEF Typed
  <2>4. Rvalue(MonApply(Top.op, ValueOf(Popped(1)))) \in Results(Len(store))
    BY <2>3 DEF Results, Rvalue, Literals
  <2> QED  BY <1>2, <2>1, <2>2, <2>4, ReduceTyped DEF MonExpFinal
<1>3. CASE TupleExpFinal
  <2> DEFINE more == Append(result, NoResult)
  <2>1. HasComputation /\ Len(result) \in Nat /\ Top.size \in 0 .. Len(result) + 1
        /\ Rest \in Seq(Computations)
    BY <1>3, ScheduledCases DEF TupleExpFinal
  <2>2. NoResult \in Results(Len(store)) /\ result \in Seq(Results(Len(store)))
    BY DEF Results, NoResult, Typed
  <2>3. more \in Seq(Results(Len(store))) /\ Len(more) = Len(result) + 1
    BY <2>2, AppendProperties
  <2>4. result' = SubSeq(more, 1, Len(more) - Top.size)
    <3>1. result' = SubSeq(more, 1, Len(result) + 1 - Top.size)
      BY <1>3 DEF TupleExpFinal
    <3> HIDE DEF more
    <3>2. Len(result) + 1 - Top.size = Len(more) - Top.size
      BY <2>1, <2>3
    <3> QED  BY <3>1, <3>2
  <2>5. SubSeq(more, 1, Len(more) - Top.size) \in Seq(Results(Len(store)))
    <3>1. Top.size \in 0 .. Len(more)
      BY <2>1, <2>3
    <3> HIDE DEF more
    <3> QED  BY <2>3, <3>1, Prefix
  <2> HIDE DEF more
  <2> QED  BY <1>3, <2>1, <2>4, <2>5 DEF TupleExpFinal, Typed
<1>4. CASE IgnoreOneResult
  <2>1. Rest \in Seq(Computations) /\ 1 \in 0 .. Len(result)
    BY <1>4, ScheduledCases DEF IgnoreOneResult
  <2>2. Dropped(1) \in Seq(Results(Len(store)))
    BY <2>1, DroppedTyped
  <2> QED  BY <1>4, <2>1, <2>2 DEF IgnoreOneResult, Typed
<1>5. CASE AssignStmtFinal
  <2>1. Rest \in Seq(Computations) /\ 2 \in 0 .. Len(result) /\ 1 \in 1 .. Len(result)
        /\ 2 \in 1 .. Len(result)
    BY <1>5, ScheduledCases DEF AssignStmtFinal
  <2>2. Dropped(2) \in Seq(Results(Len(store))) /\ ValueOf(Popped(1)) \in Literals(Len(store))
    BY <2>1, DroppedTyped, PoppedTyped
  <2>3. Target + 1 \in 1 .. Len(store)
    <3>1. Popped(2) \in Results(Len(store)) /\ Len(store) \in Nat
      BY <2>1, PoppedTyped DEF Typed
    <3>2. Target \in Nat /\ Target < Len(store)
      BY <1>5, <3>1 DEF Target, Results, NoResult, AssignStmtFinal
    <3> QED  BY <3>1, <3>2
  <2>4. store' = [store EXCEPT ![Target + 1] = ValueOf(Popped(1))]
    BY <1>5 DEF AssignStmtFinal
  <2>5. store' \in Seq(Literals(Len(store))) /\ Len(store') = Len(store)
    BY <2>2, <2>3, <2>4, ExceptSeq DEF Typed
  <2> QED  BY <1>5, <2>1, <2>2, <2>5 DEF AssignStmtFinal, Typed
<1>6. CASE IfElse
  <2> DEFINE chosen == IF CondVal THEN Top.if_case ELSE Top.else_case
  <2>1. Rest \in Seq(Computations) /\ 1 \in 0 .. Len(result)
        /\ chosen \in Seq(Unevaluated)
    BY <1>6, ScheduledCases DEF IfElse
  <2>2. Reverse(chosen) \in Seq(Computations)
    <3> HIDE DEF chosen
    <3>1. Reverse(chosen) \in Seq(Unevaluated)
      BY <2>1, ReverseType
    <3> QED  BY <3>1, ScheduledLists, SeqMonotonic
  <2>3. Rest \o Reverse(chosen) \in Seq(Computations)
    <3> HIDE DEF chosen
    <3> QED  BY <2>1, <2>2, ConcatType
  <2>4. Dropped(1) \in Seq(Results(Len(store)))
    BY <2>1, DroppedTyped
  <2> QED  BY <1>6, <2>3, <2>4 DEF IfElse, Typed
<1>7. CASE PrintFinal
  <2>1. Rest \in Seq(Computations) /\ 1 \in 0 .. Len(result) /\ 1 \in 1 .. Len(result)
    BY <1>7, ScheduledCases DEF PrintFinal
  <2>2. Dropped(1) \in Seq(Results(Len(store))) /\ ValueOf(Popped(1)) \in Literals(Len(store))
    BY <2>1, DroppedTyped, PoppedTyped
  <2>3. Append(output, ValueOf(Popped(1))) \in Seq(Literals(Len(store)))
    BY <2>2, AppendProperties DEF Typed
  <2> QED  BY <1>7, <2>1, <2>2, <2>3 DEF PrintFinal, Typed
<1> QED
  BY <1>1, <1>2, <1>3, <1>4, <1>5, <1>6, <1>7, FuncAppExpFinalTyped, ReturnFromCtxTyped
     DEF EvaluateFinal

LEMMA UndefinedTyped ==
  ASSUME Typed, Undefined
  PROVE  Typed'
<1>1. \E kind \in Faults : Fail(kind)
  BY DEF Undefined, ResultUnderflow, SavedCtxUnderflow, ParamOutOfRange, StoreOutOfRange,
         DivisionTrap, Faults
<1> QED  BY <1>1, FailTyped

LEMMA StepTyped ==
  ASSUME Typed, Step
  PROVE  Typed'
BY ExpressionTyped, StatementTyped, FinalTyped, UndefinedTyped DEF Step

LEMMA InitTyped ==
  ASSUME Init
  PROVE  Typed
<1>1. pgm \in Seq(StmtId)
  BY SyntaxAssumption DEF Init
<1>2. Reverse(StmtComps(pgm)) \in Seq(Computations)
  <2>1. Reverse(StmtComps(pgm)) \in Seq(Unevaluated)
    BY <1>1, ScheduledLists, ReverseType
  <2> QED  BY <2>1, ScheduledLists, SeqMonotonic
<1>3. env \in Envs(0)
  BY EnvsMember DEF Init
<1> QED  BY <1>1, <1>2, <1>3 DEF Init, Typed, Faults

LEMMA NextTyped ==
  ASSUME Typed, [Next]_vars
  PROVE  Typed'
<1>1. CASE Step
  BY <1>1, StepTyped
<1>2. CASE ConsumeOutput
  BY <1>2 DEF ConsumeOutput, Typed
<1>3. CASE UNCHANGED vars
  BY <1>3 DEF vars, Typed
<1> QED  BY <1>1, <1>2, <1>3 DEF Next

(***************************************************************************)
(* Type correctness: no operand, cell or context is ever of a type its     *)
(* readers do not expect, and no environment, captured environment or      *)
(* lvalue of any live or suspended context points outside the store        *)
(* (Lookup, Assign, Evaluate(FuncAppExpFinal), SaveLocalContext and        *)
(* RestoreLocalContext in language_evaluation.cc).                         *)
(***************************************************************************)
THEOREM TypeCorrect == Spec => []TypeOK
<1>1. Init => Typed
  BY InitTyped
<1>2. Typed /\ [Next]_vars => Typed'
  BY NextTyped
<1>3. Typed <=> TypeOK
  BY TypedIsTypeOK
<1> QED  BY <1>1, <1>2, <1>3, PTL DEF Spec
===============================================================================
