---------------------------- MODULE DisciplineProofs ---------------------------
(***************************************************************************)
(* The balance of the two stacks, for every disciplined program.  The      *)
(* inductive invariant says of every context, live or suspended, that the  *)
(* results its computations are going to pop are there or will be.         *)
(***************************************************************************)
EXTENDS Discipline, EvaluatorProofs

(***************************************************************************)
(* What a computation pops and pushes.                                     *)
(***************************************************************************)
LEMMA ExpFacts ==
  ASSUME NEW c, c.type = "exp"
  PROVE  /\ Pops(c) = 0 /\ Pushes(c) = 1 /\ Uniform(c) /\ ~IsExit(c) /\ Stays(c)
BY DEF Pops, Pushes, Uniform, IsExit, StmtReturns, Stays, StmtStays

LEMMA StmtFacts ==
  ASSUME NEW c, c.type = "stmt"
  PROVE  /\ Pops(c) = 0 /\ Pushes(c) = 0 /\ Uniform(c)
         /\ IsExit(c) <=> Returns(c.stmt)
         /\ Stays(c) <=> NeverReturns(c.stmt)
BY DEF Pops, Pushes, Uniform, IsExit, StmtReturns, Stays, StmtStays

LEMMA ComputationFacts ==
  ASSUME NEW c \in Computations
  PROVE  Pops(c) \in Nat /\ Pushes(c) \in {0, 1}
<1>1. c.type \in {"exp", "stmt", "bin_exp_final", "mon_exp_final", "tuple_exp_final",
                  "func_app_exp_final", "if_else_final", "ignore_one_result",
                  "assign_stmt_final", "return_from_ctx", "print_final"}
  BY DEF Computations, Unevaluated, Finals
<1>2. c.type = "tuple_exp_final" => c.size \in Nat
  BY DEF Computations, Unevaluated, Finals
<1>3. c.type = "func_app_exp_final" => c.num_args \in Nat
  BY DEF Computations, Unevaluated, Finals
<1>4. Pops(c) \in Nat
  BY <1>1, <1>2, <1>3 DEF Pops
<1>5. Pushes(c) \in {0, 1}
  BY <1>1 DEF Pushes
<1> QED  BY <1>4, <1>5

(* An exit never has the cases of a ternary expression. *)
LEMMA ExitIsUniform ==
  ASSUME NEW c, IsExit(c)
  PROVE  Uniform(c)
BY DEF IsExit, StmtReturns, Uniform

(***************************************************************************)
(* The profile of a context.                                               *)
(***************************************************************************)
(* The computation about to run finds its operands. *)
LEMMA TopBalanced ==
  ASSUME NEW cs \in Seq(Computations), cs # <<>>, NEW n \in Nat, NEW inFunction \in BOOLEAN,
         Balanced(cs, n, inFunction)
  PROVE  /\ Pops(Last(cs)) <= n /\ Uniform(Last(cs))
         /\ ~inFunction => Stays(Last(cs))
<1>1. Len(cs) \in Nat \ {0} /\ Last(cs) = cs[Len(cs)]
  BY FrontLast
<1>2. PICK k \in 0 .. Len(cs) : \E h \in [k .. Len(cs) -> Nat] : Profile(h, k, cs, n, inFunction)
  BY DEF Balanced
<1>3. PICK h \in [k .. Len(cs) -> Nat] : Profile(h, k, cs, n, inFunction)
  BY <1>2
<1>4. CASE k = Len(cs)
  BY <1>1, <1>3, <1>4, ExitIsUniform DEF Profile
<1>5. CASE k < Len(cs)
  <2>1. Lowers(cs[Len(cs)], h[Len(cs)], h[Len(cs) - 1])
    BY <1>1, <1>2, <1>3, <1>5 DEF Profile
  <2>2. ~inFunction => Stays(cs[Len(cs)])
    BY <1>1, <1>3 DEF Profile
  <2> QED  BY <1>1, <1>3, <2>1, <2>2 DEF Lowers, Profile
<1> QED  BY <1>1, <1>2, <1>4, <1>5

(* A context with nothing left to do is the program's, and has no result.  *)
LEMMA EmptyBalanced ==
  ASSUME NEW n, NEW inFunction, Balanced(<<>>, n, inFunction)
  PROVE  ~inFunction /\ n = 0
<1>1. Len(<<>>) = 0
  OBVIOUS
<1>2. PICK k \in 0 .. 0 : \E h \in [k .. 0 -> Nat] : Profile(h, k, <<>>, n, inFunction)
  BY <1>1 DEF Balanced
<1>3. PICK h \in [k .. 0 -> Nat] : Profile(h, k, <<>>, n, inFunction)
  BY <1>2
<1> QED  BY <1>1, <1>2, <1>3 DEF Profile

(* The computation on top is replaced by others with the same effect on    *)
(* the result stack: the context stays balanced.                           *)
LEMMA Replaced ==
  ASSUME NEW cs \in Seq(Computations), cs # <<>>, NEW n \in Nat, NEW inFunction \in BOOLEAN,
         Balanced(cs, n, inFunction),
         NEW ds \in Seq(Computations), NEW g \in [0 .. Len(ds) -> Nat],
         \A i \in 1 .. Len(ds) : Lowers(ds[i], g[i], g[i - 1]),
         g[0] = n - Pops(Last(cs)) + Pushes(Last(cs)),
         IsExit(Last(cs)) => \E j \in 1 .. Len(ds) : IsExit(ds[j]),
         Stays(Last(cs)) => \A j \in 1 .. Len(ds) : Stays(ds[j])
  PROVE  Balanced(Front(cs) \o ds, g[Len(ds)], inFunction)
<1>1. /\ Len(cs) \in Nat \ {0} /\ Last(cs) = cs[Len(cs)]
      /\ Front(cs) \in Seq(Computations) /\ Len(Front(cs)) = Len(cs) - 1
      /\ \A i \in 1 .. Len(cs) - 1 : Front(cs)[i] = cs[i]
  BY FrontLast
<1>2. PICK f : f = Front(cs)
  OBVIOUS
<1>3. PICK N : N = Len(cs) - 1
  OBVIOUS
<1>4. PICK L : L = Len(ds)
  OBVIOUS
<1>5. PICK new : new = f \o ds
  OBVIOUS
<1>6. N \in Nat /\ L \in Nat /\ f \in Seq(Computations) /\ Len(f) = N
  BY <1>1, <1>2, <1>3, <1>4, LenProperties
<1>7. /\ new \in Seq(Computations) /\ Len(new) = N + L
      /\ \A i \in 1 .. N : new[i] = cs[i]
      /\ \A i \in 1 .. L : new[N + i] = ds[i]
  <2>1. /\ f \o ds \in Seq(Computations)
        /\ Len(f \o ds) = Len(f) + Len(ds)
        /\ \A i \in 1 .. Len(f) : (f \o ds)[i] = f[i]
        /\ \A i \in 1 .. Len(ds) : (f \o ds)[Len(f) + i] = ds[i]
    <3>1. f \in Seq(Computations) /\ ds \in Seq(Computations)
      BY <1>6
    <3>2. f \o ds \in Seq(Computations) /\ Len(f \o ds) = Len(f) + Len(ds)
      BY <3>1, ConcatType
    <3>3. \A i \in 1 .. Len(f) : (f \o ds)[i] = f[i]
      BY <3>1, ConcatType
    <3>4. \A i \in 1 .. Len(ds) : (f \o ds)[Len(f) + i] = ds[i]
      BY <3>1, ConcatType
    <3> QED  BY <3>2, <3>3, <3>4
  <2>2. \A i \in 1 .. N : f[i] = cs[i]
    BY <1>1, <1>2, <1>3
  <2>3. /\ new \in Seq(Computations) /\ Len(new) = Len(f) + Len(ds)
        /\ \A i \in 1 .. Len(f) : new[i] = f[i]
        /\ \A i \in 1 .. Len(ds) : new[Len(f) + i] = ds[i]
    BY <1>5, <2>1, Zenon
  <2>4. Len(f) = N /\ Len(ds) = L
    BY <1>4, <1>6
  <2> QED  BY <2>2, <2>3, <2>4, Zenon
<1>8. \A i \in N + 1 .. N + L : new[i] = ds[i - N] /\ i - N \in 1 .. L
  <2> TAKE i \in N + 1 .. N + L
  <2>1. i - N \in 1 .. L /\ N + (i - N) = i
    BY <1>6
  <2>2. new[N + (i - N)] = ds[i - N]
    BY <1>7, <2>1
  <2> QED  BY <2>1, <2>2
<1>9. PICK k \in 0 .. Len(cs) : \E h \in [k .. Len(cs) -> Nat] : Profile(h, k, cs, n, inFunction)
  BY DEF Balanced
<1>10. PICK h \in [k .. Len(cs) -> Nat] : Profile(h, k, cs, n, inFunction)
  BY <1>9
<1>11. CASE k = Len(cs)
  <2>1. inFunction /\ IsExit(Last(cs))
    BY <1>1, <1>10, <1>11 DEF Profile
  <2>2. PICK j \in 1 .. L : IsExit(ds[j])
    BY <1>4, <2>1
  <2> DEFINE h2 == [i \in N + j .. N + L |-> g[i - N]]
  <2>3. h2 \in [N + j .. N + L -> Nat]
    <3>1. \A i \in N + j .. N + L : i - N \in 0 .. L
      BY <1>6
    <3> QED  BY <1>4, <3>1
  <2>4. h2[N + L] = g[L]
    BY <1>6
  <2>5. \A i \in N + j + 1 .. N + L : Lowers(new[i], h2[i], h2[i - 1])
    <3> TAKE i \in N + j + 1 .. N + L
    <3>1. new[i] = ds[i - N] /\ i - N \in 1 .. L
      BY <1>6, <1>8
    <3>2. Lowers(ds[i - N], g[i - N], g[i - N - 1])
      BY <1>4, <3>1
    <3>3. h2[i] = g[i - N] /\ h2[i - 1] = g[i - N - 1]
      <4>1. i \in N + j .. N + L /\ i - 1 \in N + j .. N + L /\ (i - 1) - N = i - N - 1
        BY <1>6
      <4> QED  BY <4>1
    <3> QED  BY <3>1, <3>2, <3>3
  <2>6. IsExit(new[N + j]) /\ Pops(new[N + j]) <= h2[N + j]
    <3>1. new[N + j] = ds[j]
      BY <1>7
    <3>2. Pops(ds[j]) <= g[j]
      BY <1>4 DEF Lowers
    <3>3. h2[N + j] = g[j]
      BY <1>6
    <3> QED  BY <2>2, <3>1, <3>2, <3>3
  <2> HIDE DEF h2
  <2>7. Profile(h2, N + j, new, g[L], inFunction)
    BY <1>6, <1>7, <2>1, <2>4, <2>5, <2>6 DEF Profile
  <2>8. N + j \in 0 .. Len(new) /\ h2 \in [N + j .. Len(new) -> Nat]
    BY <1>6, <1>7, <2>3
  <2>9. Balanced(new, g[L], inFunction)
    BY <2>7, <2>8 DEF Balanced
  <2> QED  BY <1>2, <1>4, <1>5, <2>9
<1>12. CASE k # Len(cs)
  <2>1. k \in 0 .. N /\ Len(cs) = N + 1
    <3>1. Len(cs) = N + 1 /\ k \in 0 .. Len(cs) /\ k # Len(cs)
      BY <1>1, <1>3, <1>12
    <3> QED  BY <1>6, <3>1
  <2> DEFINE h2 == [i \in k .. N + L |-> IF i <= N THEN h[i] ELSE g[i - N]]
  <2>2. h2 \in [k .. N + L -> Nat]
    <3>1. \A i \in k .. N + L : i <= N => h[i] \in Nat
      BY <1>6, <2>1
    <3>2. \A i \in k .. N + L : ~(i <= N) => g[i - N] \in Nat
      <4> SUFFICES ASSUME NEW i \in k .. N + L, ~(i <= N)  PROVE g[i - N] \in Nat
        OBVIOUS
      <4>1. i - N \in 0 .. L
        BY <1>6, <2>1
      <4> QED  BY <1>4, <4>1
    <3> QED  BY <3>1, <3>2
  <2>3. h[N] = g[0]
    <3>1. Lowers(cs[N + 1], h[N + 1], h[N + 1 - 1]) /\ h[N + 1] = n
      BY <1>6, <1>10, <2>1 DEF Profile
    <3>2. N + 1 - 1 = N
      BY <1>6
    <3> QED  BY <1>1, <2>1, <3>1, <3>2 DEF Lowers
  <2>4. \A i \in k .. N : h2[i] = h[i]
    BY <1>6, <2>1
  <2>5. \A i \in N .. N + L : h2[i] = g[i - N]
    <3> TAKE i \in N .. N + L
    <3>1. i \in k .. N + L /\ N - N = 0
      BY <1>6, <2>1
    <3> QED  BY <1>6, <2>3, <3>1
  <2> HIDE DEF h2
  <2>6. h2[N + L] = g[L]
    <3>1. N + L \in N .. N + L /\ (N + L) - N = L
      BY <1>6
    <3>2. h2[N + L] = g[(N + L) - N]
      BY <2>5, <3>1
    <3> QED  BY <3>1, <3>2
  <2>7. \A i \in k + 1 .. N + L : Lowers(new[i], h2[i], h2[i - 1])
    <3> TAKE i \in k + 1 .. N + L
    <3>1. CASE i <= N
      <4>1. i \in k .. N /\ i - 1 \in k .. N /\ i \in 1 .. N /\ i \in k + 1 .. Len(cs)
        BY <1>6, <2>1, <3>1
      <4>2. Lowers(cs[i], h[i], h[i - 1])
        BY <1>10, <4>1 DEF Profile
      <4> QED  BY <1>7, <2>4, <4>1, <4>2
    <3>2. CASE i > N
      <4>1. i \in N .. N + L /\ i - 1 \in N .. N + L /\ (i - 1) - N = (i - N) - 1
            /\ i \in N + 1 .. N + L
        BY <1>6, <2>1, <3>2
      <4>2. Lowers(ds[i - N], g[i - N], g[(i - N) - 1])
        BY <1>4, <1>8, <4>1
      <4> QED  BY <1>8, <2>5, <4>1, <4>2
    <3> QED  BY <1>6, <2>1, <3>1, <3>2
  <2>8. inFunction => k # 0 /\ IsExit(new[k]) /\ Pops(new[k]) <= h2[k]
    <3> HAVE inFunction
    <3>1. k # 0 /\ IsExit(cs[k]) /\ Pops(cs[k]) <= h[k]
      BY <1>10 DEF Profile
    <3>2. k \in 1 .. N /\ k \in k .. N
      BY <1>6, <2>1, <3>1
    <3>3. IsExit(new[k]) /\ Pops(new[k]) <= h2[k]
      BY <1>7, <2>4, <3>1, <3>2
    <3> QED  BY <3>1, <3>3
  <2>9. ~inFunction => k = 0 /\ h2[0] = 0 /\ \A i \in DOMAIN new : Stays(new[i])
    <3> HAVE ~inFunction
    <3>1. k = 0 /\ h[0] = 0 /\ \A i \in DOMAIN cs : Stays(cs[i])
      BY <1>10 DEF Profile
    <3>2. h2[0] = 0
      <4>1. 0 \in k .. N
        BY <1>6, <3>1
      <4> QED  BY <2>4, <3>1, <4>1
    <3>3. \A i \in 1 .. Len(cs) : Stays(cs[i])
      BY <3>1, LenProperties
    <3>4. \A j \in 1 .. L : Stays(ds[j])
      <4>1. Len(cs) \in 1 .. Len(cs) /\ Last(cs) = cs[Len(cs)]
        BY <1>1
      <4>2. Stays(Last(cs))
        BY <3>3, <4>1, Zenon
      <4> QED  BY <1>4, <4>2
    <3>5. \A i \in 1 .. N + L : Stays(new[i])
      <4> TAKE i \in 1 .. N + L
      <4>1. CASE i \in 1 .. N
        BY <1>6, <1>7, <2>1, <3>3, <4>1
      <4>2. CASE i \in N + 1 .. N + L
        BY <1>8, <3>4, <4>2
      <4> QED  BY <1>6, <4>1, <4>2
    <3>6. DOMAIN new = 1 .. N + L
      BY <1>7, LenProperties
    <3> QED  BY <3>1, <3>2, <3>5, <3>6
  <2>10. Profile(h2, k, new, g[L], inFunction)
    <3>1. h2[Len(new)] = g[L] /\ \A i \in k + 1 .. Len(new) : Lowers(new[i], h2[i], h2[i - 1])
      BY <1>7, <2>6, <2>7
    <3> QED  BY <2>8, <2>9, <3>1 DEF Profile
  <2>11. k \in 0 .. Len(new) /\ h2 \in [k .. Len(new) -> Nat]
    BY <1>6, <1>7, <2>1, <2>2
  <2>12. Balanced(new, g[L], inFunction)
    BY <2>10, <2>11 DEF Balanced
  <2> QED  BY <1>2, <1>4, <1>5, <2>12
<1> QED  BY <1>11, <1>12

(* Operands over the final that takes them. *)
LEMMA OperandsBalanced ==
  ASSUME NEW cs \in Seq(Computations), cs # <<>>, NEW n \in Nat, NEW inFunction \in BOOLEAN,
         Balanced(cs, n, inFunction), Pops(Last(cs)) = 0,
         NEW ds \in Seq(Computations), ds # <<>>,
         \A i \in 2 .. Len(ds) : ds[i].type = "exp",
         Uniform(ds[1]), Pops(ds[1]) <= Len(ds) - 1,
         Len(ds) - 1 - Pops(ds[1]) + Pushes(ds[1]) = Pushes(Last(cs)),
         IsExit(Last(cs)) => IsExit(ds[1]),
         Stays(Last(cs)) => Stays(ds[1])
  PROVE  Balanced(Front(cs) \o ds, n, inFunction)
<1>1. Last(cs) \in Computations
  BY FrontLast
<1>2. PICK L : L = Len(ds)
  OBVIOUS
<1>3. L \in Nat \ {0} /\ ds[1] \in Computations
  <2>1. Len(ds) \in Nat \ {0}
    BY FrontLast
  <2>2. 1 \in 1 .. Len(ds)
    BY <2>1
  <2> QED  BY <1>2, <2>1, <2>2, ElementOfSeq
<1>11. PICK p : p = Pushes(Last(cs))
  OBVIOUS
<1>12. PICK q : q = Pops(ds[1])
  OBVIOUS
<1>13. PICK r : r = Pushes(ds[1])
  OBVIOUS
<1>4. /\ q \in Nat /\ r \in Nat /\ p \in Nat /\ q <= L - 1 /\ L - 1 - q + r = p
  <2>1. Pops(ds[1]) \in Nat /\ Pushes(ds[1]) \in Nat /\ Pushes(Last(cs)) \in Nat
    BY <1>1, <1>3, ComputationFacts
  <2> QED  BY <1>2, <1>11, <1>12, <1>13, <2>1
<1> DEFINE g == [i \in 0 .. L |-> IF i = 0 THEN n + p ELSE n + L - i]
<1>5. g \in [0 .. L -> Nat]
  <2>1. \A i \in 0 .. L : (IF i = 0 THEN n + p ELSE n + L - i) \in Nat
    BY <1>3, <1>4
  <2> QED  BY <2>1
<1>6. g[0] = n + p /\ \A i \in 1 .. L : g[i] = n + L - i
  BY <1>3
<1> HIDE DEF g
<1>7. \A i \in 1 .. L : Lowers(ds[i], g[i], g[i - 1])
  <2> TAKE i \in 1 .. L
  <2>1. CASE i = 1
    <3>1. 1 \in 1 .. L /\ 1 - 1 = 0
      BY <1>3
    <3>2. g[1] = n + L - 1 /\ g[1 - 1] = n + p
      BY <1>6, <3>1
    <3>3. q <= g[1] /\ g[1 - 1] = g[1] - q + r
      BY <1>3, <1>4, <3>2
    <3> QED  BY <1>12, <1>13, <2>1, <3>3 DEF Lowers
  <2>2. CASE i # 1
    <3>1. i - 1 \in 1 .. L /\ i \in 2 .. Len(ds)
      BY <1>2, <1>3, <2>2
    <3>2. g[i] = n + L - i /\ g[i - 1] = n + L - (i - 1)
      BY <1>6, <3>1
    <3>3. Pops(ds[i]) = 0 /\ Pushes(ds[i]) = 1 /\ Uniform(ds[i])
      BY <3>1, ExpFacts
    <3> QED  BY <1>3, <3>2, <3>3 DEF Lowers
  <2> QED  BY <2>1, <2>2
<1>8. g[0] = n - Pops(Last(cs)) + Pushes(Last(cs)) /\ g[L] = n
  <2>1. g[0] = n - 0 + p /\ g[L] = n
    BY <1>3, <1>4, <1>6
  <2> QED  BY <1>11, <2>1
<1>9. IsExit(Last(cs)) => \E j \in 1 .. L : IsExit(ds[j])
  BY <1>3
<1>10. Stays(Last(cs)) => \A j \in 1 .. L : Stays(ds[j])
  <2> SUFFICES ASSUME Stays(Last(cs)), NEW j \in 1 .. L  PROVE Stays(ds[j])
    OBVIOUS
  <2>1. CASE j = 1
    BY <2>1
  <2>2. CASE j # 1
    <3>1. j \in 2 .. Len(ds)
      BY <1>2, <1>3, <2>2
    <3> QED  BY <3>1, ExpFacts
  <2> QED  BY <2>1, <2>2
<1> QED  BY <1>2, <1>5, <1>7, <1>8, <1>9, <1>10, Replaced

(* Statements, which have no effect on the result stack, or nothing. *)
LEMMA StatementsBalanced ==
  ASSUME NEW cs \in Seq(Computations), cs # <<>>, NEW n \in Nat, NEW inFunction \in BOOLEAN,
         Balanced(cs, n, inFunction),
         NEW ds \in Seq(Computations), AllStmts(ds),
         IsExit(Last(cs)) => \E j \in 1 .. Len(ds) : IsExit(ds[j]),
         Stays(Last(cs)) => \A j \in 1 .. Len(ds) : Stays(ds[j])
  PROVE  /\ n - Pops(Last(cs)) + Pushes(Last(cs)) \in Nat
         /\ Balanced(Front(cs) \o ds, n - Pops(Last(cs)) + Pushes(Last(cs)), inFunction)
<1>1. PICK m : m = n - Pops(Last(cs)) + Pushes(Last(cs))
  OBVIOUS
<1>2. PICK L : L = Len(ds)
  OBVIOUS
<1>3. m \in Nat
  <2>1. Pops(Last(cs)) <= n
    BY TopBalanced
  <2>2. Last(cs) \in Computations
    BY FrontLast
  <2> QED  BY <1>1, <2>1, <2>2, ComputationFacts
<1>4. L \in Nat /\ DOMAIN ds = 1 .. L
  BY <1>2, LenProperties
<1> DEFINE g == [i \in 0 .. L |-> m]
<1>5. g \in [0 .. L -> Nat] /\ g[0] = m /\ g[L] = m
  BY <1>3, <1>4
<1>6. \A i \in 1 .. L : g[i] = m /\ g[i - 1] = m
  BY <1>4
<1> HIDE DEF g
<1>7. \A i \in 1 .. L : Lowers(ds[i], g[i], g[i - 1])
  <2> TAKE i \in 1 .. L
  <2>1. Pops(ds[i]) = 0 /\ Pushes(ds[i]) = 0 /\ Uniform(ds[i])
    BY <1>4, StmtFacts DEF AllStmts
  <2> QED  BY <1>3, <1>6, <2>1 DEF Lowers
<1>8. Balanced(Front(cs) \o ds, g[L], inFunction)
  BY <1>1, <1>2, <1>5, <1>7, Replaced
<1> QED  BY <1>1, <1>3, <1>5, <1>8

(* The computation on top is done. *)
LEMMA DoneBalanced ==
  ASSUME NEW cs \in Seq(Computations), cs # <<>>, NEW n \in Nat, NEW inFunction \in BOOLEAN,
         Balanced(cs, n, inFunction), ~IsExit(Last(cs))
  PROVE  /\ n - Pops(Last(cs)) + Pushes(Last(cs)) \in Nat
         /\ Balanced(Front(cs), n - Pops(Last(cs)) + Pushes(Last(cs)), inFunction)
<1>1. <<>> \in Seq(Computations) /\ AllStmts(<<>>) /\ Len(<<>>) = 0
  BY DEF AllStmts
<1>2. Front(cs) \in Seq(Computations)
  BY FrontLast
<1>3. Front(cs) \o <<>> = Front(cs)
  BY <1>2
<1>4. \A j \in 1 .. Len(<<>>) : Stays((<<>>)[j])
  BY <1>1
<1>5. /\ n - Pops(Last(cs)) + Pushes(Last(cs)) \in Nat
      /\ Balanced(Front(cs) \o <<>>, n - Pops(Last(cs)) + Pushes(Last(cs)), inFunction)
  BY <1>1, <1>4, StatementsBalanced
<1> QED  BY <1>3, <1>5

(* The body of a function, over the return the call adds, and a program. *)
LEMMA BodyBalanced ==
  ASSUME NEW ids \in Seq(StmtId),
         \E i \in DOMAIN ids : ids[i] \in ReturningStmts
  PROVE  Balanced(<<Op("return_from_ctx")>> \o Reverse(StmtComps(ids)), 0, TRUE)
<1>1. PICK body : body = Reverse(StmtComps(ids))
  OBVIOUS
<1>2. PICK N : N = Len(ids)
  OBVIOUS
<1>3. N \in Nat /\ DOMAIN ids = 1 .. N
  BY <1>2, LenProperties
<1>4. /\ StmtComps(ids) \in Seq(Computations) /\ Len(StmtComps(ids)) = N
      /\ \A i \in 1 .. N : StmtComps(ids)[i] = StmtComp(Stmts[ids[i]])
  <2>1. StmtComps(ids) \in Seq(Unevaluated)
    BY ScheduledLists
  <2>2. StmtComps(ids) \in Seq(Computations)
    BY <2>1, ScheduledLists, SeqMonotonic
  <2> QED  BY <1>3, <2>2 DEF StmtComps
<1>5. /\ body \in Seq(Computations) /\ Len(body) = N
      /\ \A i \in 1 .. N : body[i] = StmtComp(Stmts[ids[N - i + 1]])
  <2>1. /\ body \in Seq(Computations) /\ Len(body) = N
        /\ \A i \in 1 .. N : body[i] = StmtComps(ids)[N - i + 1]
    BY <1>1, <1>4, ReverseType
  <2>2. \A i \in 1 .. N : N - i + 1 \in 1 .. N
    BY <1>3
  <2> QED  BY <1>4, <2>1, <2>2
<1>6. PICK cs : cs = <<Op("return_from_ctx")>> \o body
  OBVIOUS
<1>7. /\ Len(cs) = N + 1
      /\ \A i \in 1 .. N : cs[1 + i] = body[i]
  <2>1. PICK ret : ret = <<Op("return_from_ctx")>>
    OBVIOUS
  <2>2. ret \in Seq(Computations) /\ Len(ret) = 1
    BY <2>1 DEF Op, Computations, Finals
  <2>6. ret \in Seq(Computations) /\ body \in Seq(Computations)
    BY <1>5, <2>2
  <2>7. Len(ret \o body) = Len(ret) + Len(body)
    BY <2>6, ConcatType
  <2>3. Len(ret \o body) = 1 + N
    BY <1>5, <2>2, <2>7
  <2>4. \A i \in 1 .. Len(body) : (ret \o body)[Len(ret) + i] = body[i]
    BY <2>6, ConcatType
  <2>5. \A i \in 1 .. N : cs[1 + i] = body[i]
    BY <1>5, <1>6, <2>1, <2>2, <2>4, Zenon
  <2> QED  BY <1>3, <1>6, <2>1, <2>3, <2>5
<1>8. PICK i \in 1 .. N : ids[i] \in ReturningStmts
  BY <1>3
<1>9. PICK k : k = N - i + 2
  OBVIOUS
<1>10. k \in 2 .. N + 1 /\ k - 1 \in 1 .. N /\ N - (k - 1) + 1 = i /\ 1 + (k - 1) = k
  BY <1>3, <1>9
<1>11. \A j \in 2 .. N + 1 : /\ cs[j].type = "stmt"
                            /\ cs[j] = StmtComp(Stmts[ids[N - (j - 1) + 1]])
  <2> TAKE j \in 2 .. N + 1
  <2>1. j - 1 \in 1 .. N /\ 1 + (j - 1) = j
    BY <1>3
  <2>2. cs[j] = StmtComp(Stmts[ids[N - (j - 1) + 1]])
    BY <1>5, <1>7, <2>1
  <2> QED  BY <2>2 DEF StmtComp
<1>12. IsExit(cs[k]) /\ Pops(cs[k]) = 0
  <2>1. cs[k] = StmtComp(Stmts[ids[i]]) /\ cs[k].type = "stmt"
    BY <1>10, <1>11
  <2>2. Returns(Stmts[ids[i]]) /\ cs[k].stmt = Stmts[ids[i]]
    BY <1>8, <2>1, DisciplineAssumption DEF StmtComp
  <2> QED  BY <2>1, <2>2, StmtFacts
<1> DEFINE h == [j \in k .. N + 1 |-> 0]
<1>13. /\ h \in [k .. N + 1 -> Nat] /\ h[N + 1] = 0 /\ h[k] = 0
       /\ \A j \in k + 1 .. N + 1 : h[j] = 0 /\ h[j - 1] = 0
  BY <1>3, <1>10
<1> HIDE DEF h
<1>14. \A j \in k + 1 .. N + 1 : Lowers(cs[j], h[j], h[j - 1])
  <2> TAKE j \in k + 1 .. N + 1
  <2>1. j \in 2 .. N + 1
    BY <1>3, <1>10
  <2>2. Pops(cs[j]) = 0 /\ Pushes(cs[j]) = 0 /\ Uniform(cs[j])
    BY <1>11, <2>1, StmtFacts
  <2> QED  BY <1>13, <2>2 DEF Lowers
<1>15. Profile(h, k, cs, 0, TRUE)
  BY <1>7, <1>10, <1>12, <1>13, <1>14 DEF Profile
<1>16. k \in 0 .. Len(cs) /\ h \in [k .. Len(cs) -> Nat]
  BY <1>3, <1>7, <1>10, <1>13
<1> QED  BY <1>1, <1>6, <1>15, <1>16 DEF Balanced

LEMMA ProgramBalanced ==
  ASSUME NEW ids \in Seq(StmtId), AllTopLevel(ids)
  PROVE  Balanced(Reverse(StmtComps(ids)), 0, FALSE)
<1>1. PICK cs : cs = Reverse(StmtComps(ids))
  OBVIOUS
<1>2. PICK N : N = Len(ids)
  OBVIOUS
<1>3. N \in Nat /\ DOMAIN ids = 1 .. N
  BY <1>2, LenProperties
<1>4. /\ StmtComps(ids) \in Seq(Computations) /\ Len(StmtComps(ids)) = N
      /\ \A i \in 1 .. N : StmtComps(ids)[i] = StmtComp(Stmts[ids[i]])
  <2>1. StmtComps(ids) \in Seq(Unevaluated)
    BY ScheduledLists
  <2>2. StmtComps(ids) \in Seq(Computations)
    BY <2>1, ScheduledLists, SeqMonotonic
  <2> QED  BY <1>3, <2>2 DEF StmtComps
<1>5. cs \in Seq(Computations) /\ Len(cs) = N
  BY <1>1, <1>4, ReverseType
<1>6. \A i \in 1 .. N : cs[i].type = "stmt" /\ Stays(cs[i])
  <2> TAKE i \in 1 .. N
  <2>1. N - i + 1 \in 1 .. N
    BY <1>3
  <2>2. cs[i] = StmtComps(ids)[N - i + 1]
    BY <1>1, <1>4, ReverseType
  <2>3. cs[i] = StmtComp(Stmts[ids[N - i + 1]])
    BY <1>4, <2>1, <2>2
  <2>4. NeverReturns(Stmts[ids[N - i + 1]])
    BY <1>3, <2>1, DisciplineAssumption DEF AllTopLevel
  <2>5. cs[i].type = "stmt" /\ cs[i].stmt = Stmts[ids[N - i + 1]]
    BY <2>3 DEF StmtComp
  <2> QED  BY <2>4, <2>5, StmtFacts
<1> DEFINE h == [j \in 0 .. N |-> 0]
<1>7. /\ h \in [0 .. N -> Nat] /\ h[N] = 0 /\ h[0] = 0
      /\ \A j \in 1 .. N : h[j] = 0 /\ h[j - 1] = 0
  BY <1>3
<1> HIDE DEF h
<1>8. \A j \in 0 + 1 .. N : Lowers(cs[j], h[j], h[j - 1])
  <2> TAKE j \in 0 + 1 .. N
  <2>1. Pops(cs[j]) = 0 /\ Pushes(cs[j]) = 0 /\ Uniform(cs[j]) /\ j \in 1 .. N
    BY <1>3, <1>6, StmtFacts
  <2> QED  BY <1>7, <2>1 DEF Lowers
<1>9. Profile(h, 0, cs, 0, FALSE)
  <2>1. DOMAIN cs = 1 .. N
    BY <1>5, LenProperties
  <2> QED  BY <1>5, <1>6, <1>7, <1>8, <2>1 DEF Profile
<1>10. 0 \in 0 .. Len(cs) /\ h \in [0 .. Len(cs) -> Nat]
  BY <1>3, <1>5, <1>7
<1> QED  BY <1>1, <1>9, <1>10 DEF Balanced

(***************************************************************************)
(* The inductive invariant.                                                *)
(***************************************************************************)
LiveBalanced ==
  \/ Balanced(comp, Len(result), saved_ctx # <<>>)
  \/ EmptyCall /\ saved_ctx # <<>>

SuspendedBalanced ==
  \A d \in DOMAIN saved_ctx :
    Balanced(saved_ctx[d].comp, Len(saved_ctx[d].result) + 1, d > 1)

Disciplined ==
  LiveBalanced /\ SuspendedBalanced /\ OnlyEmptyCallsUnderflow /\ ReturnsFindTheirCaller

(* A callee without a body only gets as far as its missing value. *)
LEMMA ScheduledBalanced ==
  ASSUME Typed, Disciplined, NEW t, Scheduled(t)
  PROVE  /\ comp \in Seq(Computations) /\ comp # <<>> /\ Top = Last(comp) /\ Rest = Front(comp)
         /\ Top.type = t /\ Top \in Computations
         /\ Len(result) \in Nat /\ (saved_ctx # <<>>) \in BOOLEAN /\ fault = "none"
         /\ Balanced(comp, Len(result), saved_ctx # <<>>)
         /\ Pops(Top) <= Len(result) /\ Uniform(Top)
<1>1. /\ comp \in Seq(Computations) /\ comp # <<>> /\ Top = Last(comp) /\ Rest = Front(comp)
      /\ Top.type = t /\ Top \in Computations
      /\ Len(result) \in Nat /\ fault = "none"
  BY ScheduledCases DEF Typed, HasComputation, Top, Rest
<1>2. Pops(Top) <= Len(result)
  <2>1. Pops(Top) \in Nat /\ Len(result) >= Pops(Top)
    BY <1>1, ComputationFacts DEF Scheduled
  <2> QED  BY <1>1, <2>1
<1>3. ~EmptyCall
  <2> SUFFICES ASSUME EmptyCall  PROVE FALSE
    OBVIOUS
  <2>1. comp = <<Op("return_from_ctx")>> /\ Len(result) = 0 /\ Len(comp) = 1
    BY DEF EmptyCall
  <2>2. Top = comp[1]
    BY <1>1, <2>1, FrontLast
  <2>3. Pops(Top) = 1
    BY <2>1, <2>2 DEF Op, Pops
  <2> QED  BY <1>2, <2>1, <2>3
<1>4. Balanced(comp, Len(result), saved_ctx # <<>>)
  BY <1>3 DEF Disciplined, LiveBalanced
<1>5. Uniform(Top)
  BY <1>1, <1>4, TopBalanced
<1> QED  BY <1>1, <1>2, <1>4, <1>5

LEMMA SameContext ==
  ASSUME Disciplined, fault' = "none", saved_ctx' = saved_ctx,
         Balanced(comp', Len(result'), saved_ctx # <<>>)
  PROVE  Disciplined'
BY DEF Disciplined, LiveBalanced, SuspendedBalanced, OnlyEmptyCallsUnderflow,
       ReturnsFindTheirCaller

LEMMA OperandsScheduled ==
  ASSUME Typed, Disciplined, NEW t \in {"exp", "stmt"}, Scheduled(t),
         NEW ds \in Seq(Computations), Unfold(ds), ds # <<>>,
         \A i \in 2 .. Len(ds) : ds[i].type = "exp",
         Uniform(ds[1]), Pops(ds[1]) <= Len(ds) - 1,
         Len(ds) - 1 - Pops(ds[1]) + Pushes(ds[1]) = Pushes(Top),
         IsExit(Top) => IsExit(ds[1]),
         Stays(Top) => Stays(ds[1])
  PROVE  Disciplined'
<1>1. /\ comp \in Seq(Computations) /\ comp # <<>> /\ Top = Last(comp) /\ Rest = Front(comp)
      /\ Top.type = t /\ Len(result) \in Nat /\ (saved_ctx # <<>>) \in BOOLEAN
      /\ fault = "none" /\ Balanced(comp, Len(result), saved_ctx # <<>>)
  BY ScheduledBalanced
<1>2. Pops(Top) = 0
  BY <1>1, ExpFacts, StmtFacts
<1>3. Balanced(Rest \o ds, Len(result), saved_ctx # <<>>)
  BY <1>1, <1>2, OperandsBalanced
<1> QED  BY <1>1, <1>3, SameContext DEF Unfold

LEMMA StatementsScheduled ==
  ASSUME Typed, Disciplined, Scheduled("stmt"),
         NEW ds \in Seq(Computations), Unfold(ds), AllStmts(ds),
         IsExit(Top) => \E j \in 1 .. Len(ds) : IsExit(ds[j]),
         Stays(Top) => \A j \in 1 .. Len(ds) : Stays(ds[j])
  PROVE  Disciplined'
<1>1. /\ comp \in Seq(Computations) /\ comp # <<>> /\ Top = Last(comp) /\ Rest = Front(comp)
      /\ Top.type = "stmt" /\ Len(result) \in Nat /\ (saved_ctx # <<>>) \in BOOLEAN
      /\ fault = "none" /\ Balanced(comp, Len(result), saved_ctx # <<>>)
  BY ScheduledBalanced
<1>2. Pops(Top) = 0 /\ Pushes(Top) = 0
  BY <1>1, StmtFacts
<1>3. Balanced(Rest \o ds, Len(result) - Pops(Top) + Pushes(Top), saved_ctx # <<>>)
  BY <1>1, StatementsBalanced
<1>4. Len(result) - Pops(Top) + Pushes(Top) = Len(result)
  BY <1>1, <1>2
<1> QED  BY <1>1, <1>3, <1>4, SameContext DEF Unfold

LEMMA DoneScheduled ==
  ASSUME Typed, Disciplined, NEW t, Scheduled(t), ~IsExit(Top),
         comp' = Rest, fault' = fault, saved_ctx' = saved_ctx,
         Len(result') = Len(result) - Pops(Top) + Pushes(Top)
  PROVE  Disciplined'
<1>1. /\ comp \in Seq(Computations) /\ comp # <<>> /\ Top = Last(comp) /\ Rest = Front(comp)
      /\ Len(result) \in Nat /\ (saved_ctx # <<>>) \in BOOLEAN
      /\ fault = "none" /\ Balanced(comp, Len(result), saved_ctx # <<>>)
  BY ScheduledBalanced
<1>2. Balanced(Rest, Len(result) - Pops(Top) + Pushes(Top), saved_ctx # <<>>)
  BY <1>1, DoneBalanced
<1> QED  BY <1>1, <1>2, SameContext

(***************************************************************************)
(* Expressions.                                                            *)
(***************************************************************************)
LEMMA ExpressionDisciplined ==
  ASSUME Typed, Disciplined, EvaluateExpression
  PROVE  Disciplined'
<1> USE ScheduledLists
<1>0. ASSUME NEW t, ScheduledExp(t)
      PROVE  /\ Scheduled("exp") /\ Pops(Top) = 0 /\ Pushes(Top) = 1 /\ ~IsExit(Top)
             /\ Len(result) \in Nat
  BY <1>0, ExpFacts, ScheduledBalanced DEF ScheduledExp
<1>1. ASSUME NEW t, ScheduledExp(t), NEW r, Yield(r)
      PROVE  Disciplined'
  <2>1. /\ Scheduled("exp") /\ ~IsExit(Top) /\ Len(result) \in Nat
        /\ Pops(Top) = 0 /\ Pushes(Top) = 1
    BY <1>0, <1>1
  <2>2. result \in Seq(Results(Len(store)))
    BY DEF Typed
  <2>3. Len(Append(result, r)) = Len(result) + 1
    <3>1. result \in Seq(Results(Len(store)) \cup {r}) /\ r \in Results(Len(store)) \cup {r}
      BY <2>2, SeqMonotonic
    <3> QED  BY <3>1, AppendProperties
  <2>4. Len(result') = Len(result) - Pops(Top) + Pushes(Top)
    BY <1>1, <2>1, <2>3 DEF Yield
  <2> QED  BY <1>1, <2>1, <2>4, DoneScheduled DEF Yield
<1>2. CASE VarExp \/ LitExp \/ LambdaExp
  BY <1>1, <1>2 DEF VarExp, LitExp, LambdaExp
<1>3. CASE FuncAppExp
  <2>1. HasComputation /\ Exp.func \in ExpId /\ Exp.arg \in Seq(ExpId) /\ ScheduledExp("func_app_exp")
    BY <1>3, ScheduledExpCases DEF FuncAppExp
  <2>2. PICK n : n = Len(Exp.arg)
    OBVIOUS
  <2>3. n \in Nat /\ DOMAIN Exp.arg = 1 .. n
    BY <2>1, <2>2, LenProperties
  <2>4. PICK fnl : fnl = [type |-> "func_app_exp_final", num_args |-> n]
    OBVIOUS
  <2>5. PICK args : args = [i \in 1 .. n |-> ExpComp(Exp.arg[n + 1 - i])]
    OBVIOUS
  <2>6. PICK op : op = <<fnl, ExpComp(Exp.func)>>
    OBVIOUS
  <2>7. fnl \in Computations
    BY <2>3, <2>4 DEF Computations, Finals
  <2>8. op \in Seq(Computations) /\ Len(op) = 2 /\ op[1] = fnl /\ op[2] = ExpComp(Exp.func)
    BY <2>1, <2>6, <2>7
  <2>9. args \in Seq(Computations) /\ Len(args) = n /\ \A i \in 1 .. n : args[i].type = "exp"
    <3>1. \A i \in 1 .. n : n + 1 - i \in 1 .. n
      BY <2>3
    <3>2. \A i \in 1 .. n : Exp.arg[n + 1 - i] \in ExpId
      BY <2>1, <2>2, <3>1, ElementOfSeq
    <3>3. \A i \in 1 .. n : /\ ExpComp(Exp.arg[n + 1 - i]) \in Computations
                           /\ ExpComp(Exp.arg[n + 1 - i]).type = "exp"
      BY <3>2 DEF ExpComp
    <3>4. args \in [1 .. n -> Computations]
      BY <2>5, <3>3
    <3>5. args \in Seq(Computations) /\ Len(args) = n
      BY <2>3, <3>4
    <3>6. \A i \in 1 .. n : args[i] = ExpComp(Exp.arg[n + 1 - i])
      BY <2>5
    <3>7. \A i \in 1 .. n : args[i].type = "exp"
      BY <3>3, <3>6
    <3> QED  BY <3>5, <3>7
  <2>10. PICK ds : ds = op \o args
    OBVIOUS
  <2>11. /\ ds \in Seq(Computations) /\ Len(ds) = n + 2 /\ ds[1] = fnl
         /\ \A i \in 2 .. Len(ds) : ds[i].type = "exp"
    <3>1. op \in Seq(Computations) /\ args \in Seq(Computations)
      BY <2>8, <2>9
    <3>2. /\ op \o args \in Seq(Computations) /\ Len(op \o args) = Len(op) + Len(args)
      BY <3>1, ConcatType
    <3>3. \A i \in 1 .. Len(op) : (op \o args)[i] = op[i]
      BY <3>1, ConcatType
    <3>4. \A i \in 1 .. Len(args) : (op \o args)[Len(op) + i] = args[i]
      BY <3>1, ConcatType
    <3>5. ds[1] = fnl /\ ds[2].type = "exp" /\ Len(ds) = n + 2 /\ ds \in Seq(Computations)
      BY <2>3, <2>8, <2>9, <2>10, <3>2, <3>3 DEF ExpComp
    <3>6. \A i \in 1 .. n : ds[2 + i] = args[i]
      BY <2>8, <2>9, <2>10, <3>4, Zenon
    <3>7. ASSUME NEW i \in 2 .. n + 2  PROVE ds[i].type = "exp"
      <4>1. CASE i = 2
        BY <3>5, <4>1
      <4>2. CASE i # 2
        <5>1. i - 2 \in 1 .. n /\ 2 + (i - 2) = i
          BY <2>3, <4>2
        <5>2. ds[i] = args[i - 2]
          BY <3>6, <5>1
        <5> QED  BY <2>9, <5>1, <5>2
      <4> QED  BY <4>1, <4>2
    <3> QED  BY <3>5, <3>7
  <2>12. Pops(fnl) = n + 1 /\ Pushes(fnl) = 1 /\ Uniform(fnl) /\ Stays(fnl)
    BY <2>4 DEF Pops, Pushes, Uniform, Stays, StmtStays
  <2>13. Unfold(ds)
    BY <1>3, <2>2, <2>3, <2>4, <2>5, <2>6, <2>10 DEF FuncAppExp
  <2>14. /\ ds # <<>> /\ Pops(ds[1]) <= Len(ds) - 1
         /\ Len(ds) - 1 - Pops(ds[1]) + Pushes(ds[1]) = 1
    BY <2>3, <2>11, <2>12
  <2>15. Scheduled("exp") /\ Pushes(Top) = 1 /\ ~IsExit(Top)
    BY <1>0, <2>1
  <2>16. Uniform(ds[1]) /\ Stays(ds[1])
    BY <2>11, <2>12
  <2> QED  BY <2>11, <2>13, <2>14, <2>15, <2>16, OperandsScheduled
<1>4. CASE MonArithExp
  <2>1. /\ Exp.op \in MonArithOp /\ Exp.exp \in ExpId /\ Scheduled("exp")
        /\ Pushes(Top) = 1 /\ ~IsExit(Top)
    BY <1>0, <1>4, ScheduledExpCases DEF MonArithExp
  <2>2. PICK fnl : fnl = [type |-> "mon_exp_final", op |-> Exp.op]
    OBVIOUS
  <2>3. fnl \in Computations
    BY <2>1, <2>2 DEF Computations, Finals
  <2>4. PICK ds : ds = <<fnl, ExpComp(Exp.exp)>>
    OBVIOUS
  <2>5. /\ ds \in Seq(Computations) /\ Len(ds) = 2 /\ ds[1] = fnl /\ ds[2].type = "exp"
    BY <2>1, <2>3, <2>4 DEF ExpComp
  <2>6. Pops(fnl) = 1 /\ Pushes(fnl) = 1 /\ Uniform(fnl) /\ Stays(fnl)
    BY <2>2 DEF Pops, Pushes, Uniform, Stays, StmtStays
  <2>7. Unfold(ds)
    BY <1>4, <2>2, <2>4 DEF MonArithExp
  <2>8. /\ ds # <<>> /\ Pops(ds[1]) <= Len(ds) - 1 /\ Uniform(ds[1]) /\ Stays(ds[1])
        /\ Len(ds) - 1 - Pops(ds[1]) + Pushes(ds[1]) = 1
        /\ \A i \in 2 .. Len(ds) : ds[i].type = "exp"
    BY <2>5, <2>6
  <2> QED  BY <2>1, <2>5, <2>7, <2>8, OperandsScheduled
<1>5. CASE BinArithExp
  <2>1. /\ Exp.lhs \in ExpId /\ Exp.op \in BinArithOp /\ Exp.rhs \in ExpId /\ Scheduled("exp")
        /\ Pushes(Top) = 1 /\ ~IsExit(Top)
    BY <1>0, <1>5, ScheduledExpCases DEF BinArithExp
  <2>2. PICK fnl : fnl = [type |-> "bin_exp_final", op |-> Exp.op]
    OBVIOUS
  <2>3. fnl \in Computations
    BY <2>1, <2>2 DEF Computations, Finals
  <2>4. PICK ds : ds = <<fnl, ExpComp(Exp.rhs), ExpComp(Exp.lhs)>>
    OBVIOUS
  <2>5. /\ ds \in Seq(Computations) /\ Len(ds) = 3 /\ ds[1] = fnl /\ ds[2].type = "exp"
        /\ ds[3].type = "exp"
    BY <2>1, <2>3, <2>4 DEF ExpComp
  <2>6. Pops(fnl) = 2 /\ Pushes(fnl) = 1 /\ Uniform(fnl) /\ Stays(fnl)
    BY <2>2 DEF Pops, Pushes, Uniform, Stays, StmtStays
  <2>7. Unfold(ds)
    BY <1>5, <2>2, <2>4 DEF BinArithExp
  <2>8. /\ ds # <<>> /\ Pops(ds[1]) <= Len(ds) - 1 /\ Uniform(ds[1]) /\ Stays(ds[1])
        /\ Len(ds) - 1 - Pops(ds[1]) + Pushes(ds[1]) = 1
        /\ \A i \in 2 .. Len(ds) : ds[i].type = "exp"
    BY <2>5, <2>6
  <2> QED  BY <2>1, <2>5, <2>7, <2>8, OperandsScheduled
<1>6. CASE TernExp
  <2>1. /\ {Exp.if_exp, Exp.cond_exp, Exp.else_exp} \subseteq ExpId /\ Scheduled("exp")
        /\ Pushes(Top) = 1 /\ ~IsExit(Top)
    BY <1>0, <1>6, ScheduledExpCases DEF TernExp
  <2>2. PICK fnl : fnl = IfElseFinal(<<ExpComp(Exp.if_exp)>>, <<ExpComp(Exp.else_exp)>>)
    OBVIOUS
  <2>3. fnl \in Computations
    <3>1. <<ExpComp(Exp.if_exp)>> \in Seq(Unevaluated) /\ <<ExpComp(Exp.else_exp)>> \in Seq(Unevaluated)
      BY <2>1
    <3> QED  BY <2>2, <3>1 DEF Computations, Finals, IfElseFinal
  <2>4. PICK ds : ds = <<fnl, ExpComp(Exp.cond_exp)>>
    OBVIOUS
  <2>5. /\ ds \in Seq(Computations) /\ Len(ds) = 2 /\ ds[1] = fnl /\ ds[2].type = "exp"
    BY <2>1, <2>3, <2>4 DEF ExpComp
  <2>6. Pops(fnl) = 1 /\ Pushes(fnl) = 1 /\ Uniform(fnl) /\ Stays(fnl)
    <3>1. fnl.type = "if_else_final" /\ fnl.if_case = <<ExpComp(Exp.if_exp)>>
          /\ fnl.else_case = <<ExpComp(Exp.else_exp)>>
      BY <2>2 DEF IfElseFinal
    <3>2. OneExp(fnl.if_case) /\ OneExp(fnl.else_case)
      BY <3>1 DEF OneExp, ExpComp
    <3>3. fnl.if_case # <<>>
      BY <3>1
    <3>4. Pops(fnl) = 1 /\ Pushes(fnl) = 1
      BY <3>1, <3>2, <3>3 DEF Pops, Pushes, OneExp
    <3>5. Stays(fnl)
      BY <3>1 DEF Stays, StmtStays, ExpComp
    <3> QED  BY <3>1, <3>2, <3>4, <3>5 DEF Uniform
  <2>7. Unfold(ds)
    BY <1>6, <2>2, <2>4 DEF TernExp
  <2>8. /\ ds # <<>> /\ Pops(ds[1]) <= Len(ds) - 1 /\ Uniform(ds[1]) /\ Stays(ds[1])
        /\ Len(ds) - 1 - Pops(ds[1]) + Pushes(ds[1]) = 1
        /\ \A i \in 2 .. Len(ds) : ds[i].type = "exp"
    BY <2>5, <2>6
  <2> QED  BY <2>1, <2>5, <2>7, <2>8, OperandsScheduled
<1>7. CASE TupleExp
  <2>1. /\ Exp.exp \in Seq(ExpId) /\ Scheduled("exp") /\ Pushes(Top) = 1 /\ ~IsExit(Top)
    BY <1>0, <1>7, ScheduledExpCases DEF TupleExp
  <2>2. PICK n : n = Len(Exp.exp)
    OBVIOUS
  <2>3. n \in Nat /\ DOMAIN Exp.exp = 1 .. n
    BY <2>1, <2>2, LenProperties
  <2>4. PICK fnl : fnl = [type |-> "tuple_exp_final", size |-> n]
    OBVIOUS
  <2>5. PICK elems : elems = [i \in 1 .. n |-> ExpComp(Exp.exp[i])]
    OBVIOUS
  <2>6. PICK op : op = <<fnl>>
    OBVIOUS
  <2>7. fnl \in Computations
    BY <2>3, <2>4 DEF Computations, Finals
  <2>8. op \in Seq(Computations) /\ Len(op) = 1 /\ op[1] = fnl
    BY <2>6, <2>7
  <2>9. elems \in Seq(Computations) /\ Len(elems) = n /\ \A i \in 1 .. n : elems[i].type = "exp"
    <3>1. \A i \in 1 .. n : Exp.exp[i] \in ExpId
      BY <2>1, <2>2, ElementOfSeq
    <3>2. \A i \in 1 .. n : /\ ExpComp(Exp.exp[i]) \in Computations
                           /\ ExpComp(Exp.exp[i]).type = "exp"
      BY <3>1 DEF ExpComp
    <3>3. elems \in [1 .. n -> Computations]
      BY <2>5, <3>2
    <3> QED  BY <2>3, <2>5, <3>2, <3>3
  <2>10. PICK ds : ds = op \o elems
    OBVIOUS
  <2>11. /\ ds \in Seq(Computations) /\ Len(ds) = n + 1 /\ ds[1] = fnl
         /\ \A i \in 2 .. Len(ds) : ds[i].type = "exp"
    <3>1. op \in Seq(Computations) /\ elems \in Seq(Computations)
      BY <2>8, <2>9
    <3>2. /\ op \o elems \in Seq(Computations) /\ Len(op \o elems) = Len(op) + Len(elems)
      BY <3>1, ConcatType
    <3>3. \A i \in 1 .. Len(op) : (op \o elems)[i] = op[i]
      BY <3>1, ConcatType
    <3>4. \A i \in 1 .. Len(elems) : (op \o elems)[Len(op) + i] = elems[i]
      BY <3>1, ConcatType
    <3>5. ds[1] = fnl /\ Len(ds) = n + 1 /\ ds \in Seq(Computations)
      BY <2>3, <2>8, <2>9, <2>10, <3>2, <3>3
    <3>6. \A i \in 1 .. n : ds[1 + i] = elems[i]
      BY <2>8, <2>9, <2>10, <3>4, Zenon
    <3>7. ASSUME NEW i \in 2 .. n + 1  PROVE ds[i].type = "exp"
      <4>1. i - 1 \in 1 .. n /\ 1 + (i - 1) = i
        BY <2>3
      <4>2. ds[i] = elems[i - 1]
        BY <3>6, <4>1
      <4> QED  BY <2>9, <4>1, <4>2
    <3> QED  BY <3>5, <3>7
  <2>12. /\ Pops(fnl) = IF n = 0 THEN 0 ELSE n - 1
         /\ Pushes(fnl) = IF n = 0 THEN 1 ELSE 0
         /\ Uniform(fnl) /\ Stays(fnl)
    BY <2>4 DEF Pops, Pushes, Uniform, Stays, StmtStays
  <2>13. Unfold(ds)
    BY <1>7, <2>2, <2>3, <2>4, <2>5, <2>6, <2>10 DEF TupleExp
  <2>14. /\ ds # <<>> /\ Pops(ds[1]) <= Len(ds) - 1
         /\ Len(ds) - 1 - Pops(ds[1]) + Pushes(ds[1]) = 1
    BY <2>3, <2>11, <2>12
  <2>15. Uniform(ds[1]) /\ Stays(ds[1])
    BY <2>11, <2>12
  <2> QED  BY <2>1, <2>11, <2>13, <2>14, <2>15, OperandsScheduled
<1>8. CASE UnsetExp
  <2>1. Exp.type = "TYPE_NOT_SET" /\ Top.exp \in ExpId
    BY <1>8, ScheduledExpCases DEF UnsetExp
  <2> QED  BY <2>1, DisciplineAssumption DEF Exp
<1> QED
  BY <1>2, <1>3, <1>4, <1>5, <1>6, <1>7, <1>8 DEF EvaluateExpression

(***************************************************************************)
(* Statements.                                                             *)
(***************************************************************************)
LEMMA StatementLists ==
  ASSUME NEW ids \in Seq(StmtId)
  PROVE  /\ StmtComps(ids) \in Seq(Unevaluated) /\ AllStmts(StmtComps(ids))
         /\ Len(StmtComps(ids)) = Len(ids) /\ DOMAIN StmtComps(ids) = DOMAIN ids
         /\ \A i \in DOMAIN ids : StmtComps(ids)[i].stmt = Stmts[ids[i]]
         /\ AllTopLevel(ids) => \A i \in DOMAIN ids : StmtStays(StmtComps(ids)[i])
<1>1. /\ StmtComps(ids) \in Seq(Unevaluated) /\ DOMAIN StmtComps(ids) = DOMAIN ids
      /\ \A i \in DOMAIN ids : StmtComps(ids)[i] = StmtComp(Stmts[ids[i]])
  BY ScheduledLists DEF StmtComps
<1>2. \A i \in DOMAIN ids : /\ StmtComps(ids)[i].type = "stmt"
                           /\ StmtComps(ids)[i].stmt = Stmts[ids[i]]
  BY <1>1 DEF StmtComp
<1>3. Len(StmtComps(ids)) = Len(ids)
  BY <1>1, LenProperties
<1>4. AllTopLevel(ids) => \A i \in DOMAIN ids : NeverReturns(Stmts[ids[i]])
  BY DisciplineAssumption DEF AllTopLevel
<1> QED  BY <1>1, <1>2, <1>3, <1>4 DEF AllStmts, StmtStays

LEMMA StatementDisciplined ==
  ASSUME Typed, Disciplined, EvaluateStatement
  PROVE  Disciplined'
<1> USE ScheduledLists
<1>0. ASSUME NEW t, ScheduledStmt(t)
      PROVE  /\ Scheduled("stmt") /\ Pushes(Top) = 0 /\ Top.type = "stmt" /\ Stmt.type = t
             /\ IsExit(Top) <=> Returns(Stmt)
             /\ Stays(Top) <=> NeverReturns(Stmt)
  <2>1. Scheduled("stmt") /\ Top.type = "stmt" /\ Stmt.type = t
    BY <1>0, ScheduledBalanced DEF ScheduledStmt, Stmt
  <2> QED  BY <2>1, StmtFacts DEF Stmt
<1>1. \A t \in {"ignore_one_result", "assign_stmt_final", "return_from_ctx", "print_final"} :
        Op(t) \in Computations /\ Op(t).type = t
  BY DEF Op, Computations, Finals
(* One operand, then a final that takes it. *)
<1>2. ASSUME NEW t, ScheduledStmt(t), NEW fnl \in Computations, NEW e \in ExpId,
             Unfold(<<fnl, ExpComp(e)>>),
             Pops(fnl) = 1, Pushes(fnl) = 0, Uniform(fnl),
             IsExit(Top) => IsExit(fnl), Stays(Top) => Stays(fnl)
      PROVE  Disciplined'
  <2>1. PICK ds : ds = <<fnl, ExpComp(e)>>
    OBVIOUS
  <2>2. /\ ds \in Seq(Computations) /\ Len(ds) = 2 /\ ds[1] = fnl /\ ds[2].type = "exp"
    BY <2>1 DEF ExpComp
  <2>3. /\ ds # <<>> /\ Pops(ds[1]) <= Len(ds) - 1
        /\ Len(ds) - 1 - Pops(ds[1]) + Pushes(ds[1]) = 0
        /\ \A i \in 2 .. Len(ds) : ds[i].type = "exp"
    <3>1. Pops(ds[1]) = 1 /\ Pushes(ds[1]) = 0 /\ Len(ds) - 1 = 1
      BY <1>2, <2>2
    <3>2. \A i \in 2 .. Len(ds) : i = 2
      BY <2>2
    <3>3. Len(ds) - 1 - Pops(ds[1]) + Pushes(ds[1]) = 0
      BY <3>1
    <3>4. ds # <<>>
      BY <2>2, EmptySeq
    <3>5. \A i \in 2 .. Len(ds) : ds[i].type = "exp"
      BY <2>2, <3>2
    <3>6. Pops(ds[1]) <= Len(ds) - 1
      BY <3>1
    <3> QED  BY <3>3, <3>4, <3>5, <3>6
  <2>4. /\ Uniform(ds[1]) /\ Unfold(ds)
        /\ IsExit(Top) => IsExit(ds[1])
        /\ Stays(Top) => Stays(ds[1])
    BY <1>2, <2>1, <2>2
  <2>5. Scheduled("stmt") /\ Pushes(Top) = 0
    BY <1>0, <1>2
  <2> QED  BY <2>2, <2>3, <2>4, <2>5, OperandsScheduled
<1>3. CASE ExpStmt
  <2>1. ScheduledStmt("exp_stmt") /\ Stmt.exp_stmt \in ExpId /\ ~IsExit(Top)
    BY <1>0, <1>3, ScheduledStmtCases DEF ExpStmt, Returns
  <2>2. PICK fnl : fnl = Op("ignore_one_result")
    OBVIOUS
  <2>3. fnl \in Computations /\ Pops(fnl) = 1 /\ Pushes(fnl) = 0 /\ Uniform(fnl) /\ Stays(fnl)
    BY <1>1, <2>2 DEF Pops, Pushes, Uniform, Stays, StmtStays
  <2>4. Unfold(<<fnl, ExpComp(Stmt.exp_stmt)>>)
    BY <1>3, <2>2 DEF ExpStmt
  <2> QED  BY <1>2, <2>1, <2>3, <2>4
<1>4. CASE AssignStmt
  <2>1. ScheduledStmt("assign_stmt") /\ Stmt.lhs \in ExpId /\ Stmt.rhs \in ExpId /\ ~IsExit(Top)
        /\ Scheduled("stmt") /\ Pushes(Top) = 0
    BY <1>0, <1>4, ScheduledStmtCases DEF AssignStmt, Returns
  <2>2. PICK fnl : fnl = Op("assign_stmt_final")
    OBVIOUS
  <2>3. fnl \in Computations /\ Pops(fnl) = 2 /\ Pushes(fnl) = 0 /\ Uniform(fnl) /\ Stays(fnl)
    BY <1>1, <2>2 DEF Pops, Pushes, Uniform, Stays, StmtStays
  <2>4. PICK ds : ds = <<fnl, ExpComp(Stmt.rhs), ExpComp(Stmt.lhs)>>
    OBVIOUS
  <2>5. /\ ds \in Seq(Computations) /\ Len(ds) = 3 /\ ds[1] = fnl /\ ds[2].type = "exp"
        /\ ds[3].type = "exp"
    BY <2>1, <2>3, <2>4 DEF ExpComp
  <2>6. /\ ds # <<>> /\ Pops(ds[1]) <= Len(ds) - 1 /\ Uniform(ds[1]) /\ Stays(ds[1])
        /\ Len(ds) - 1 - Pops(ds[1]) + Pushes(ds[1]) = 0
        /\ \A i \in 2 .. Len(ds) : ds[i].type = "exp"
    <3>1. Pops(ds[1]) = 2 /\ Pushes(ds[1]) = 0 /\ Len(ds) - 1 = 2
      BY <2>3, <2>5
    <3>2. \A i \in 2 .. Len(ds) : i = 2 \/ i = 3
      BY <2>5
    <3>3. Len(ds) - 1 - Pops(ds[1]) + Pushes(ds[1]) = 0
      BY <3>1
    <3>4. ds # <<>> /\ Pops(ds[1]) <= Len(ds) - 1
      BY <2>5, <3>1
    <3>5. \A i \in 2 .. Len(ds) : ds[i].type = "exp"
      BY <2>5, <3>2
    <3> QED  BY <2>3, <2>5, <3>3, <3>4, <3>5
  <2>7. Unfold(ds)
    BY <1>4, <2>2, <2>4 DEF AssignStmt
  <2> QED  BY <2>1, <2>5, <2>6, <2>7, OperandsScheduled
<1>5. CASE RetStmt
  <2>1. ScheduledStmt("ret_stmt") /\ Stmt.ret_stmt \in ExpId /\ ~Stays(Top)
    BY <1>0, <1>5, ScheduledStmtCases DEF RetStmt, NeverReturns
  <2>2. PICK fnl : fnl = Op("return_from_ctx")
    OBVIOUS
  <2>3. fnl \in Computations /\ Pops(fnl) = 1 /\ Pushes(fnl) = 0 /\ Uniform(fnl) /\ IsExit(fnl)
    BY <1>1, <2>2 DEF Pops, Pushes, Uniform, IsExit
  <2>4. Unfold(<<fnl, ExpComp(Stmt.ret_stmt)>>)
    BY <1>5, <2>2 DEF RetStmt
  <2> QED  BY <1>2, <2>1, <2>3, <2>4
<1>6. CASE PrintStmt
  <2>1. ScheduledStmt("print_stmt") /\ Stmt.print_stmt \in ExpId /\ ~IsExit(Top)
    BY <1>0, <1>6, ScheduledStmtCases DEF PrintStmt, Returns
  <2>2. PICK fnl : fnl = Op("print_final")
    OBVIOUS
  <2>3. fnl \in Computations /\ Pops(fnl) = 1 /\ Pushes(fnl) = 0 /\ Uniform(fnl) /\ Stays(fnl)
    BY <1>1, <2>2 DEF Pops, Pushes, Uniform, Stays, StmtStays
  <2>4. Unfold(<<fnl, ExpComp(Stmt.print_stmt)>>)
    BY <1>6, <2>2 DEF PrintStmt
  <2> QED  BY <1>2, <2>1, <2>3, <2>4
<1>7. ASSUME NEW a \in Seq(Unevaluated), NEW b \in Seq(Unevaluated), AllStmts(a), AllStmts(b)
      PROVE  /\ IfElseFinal(a, b) \in Computations
             /\ Pops(IfElseFinal(a, b)) = 1 /\ Pushes(IfElseFinal(a, b)) = 0
             /\ Uniform(IfElseFinal(a, b))
             /\ (/\ \E i \in DOMAIN a : Returns(a[i].stmt)
                 /\ \E i \in DOMAIN b : Returns(b[i].stmt)) => IsExit(IfElseFinal(a, b))
             /\ (/\ \A i \in DOMAIN a : StmtStays(a[i])
                 /\ \A i \in DOMAIN b : StmtStays(b[i])) => Stays(IfElseFinal(a, b))
  <2>1. PICK fnl : fnl = IfElseFinal(a, b)
    OBVIOUS
  <2>2. fnl.type = "if_else_final" /\ fnl.if_case = a /\ fnl.else_case = b /\ fnl \in Computations
    BY <2>1 DEF IfElseFinal, Computations, Finals
  <2>3. a # <<>> => a[1].type = "stmt"
    <3> HAVE a # <<>>
    <3>1. 1 \in DOMAIN a
      BY FrontLast, LenProperties
    <3> QED  BY <1>7, <3>1 DEF AllStmts
  <2>4. Pops(fnl) = 1 /\ Pushes(fnl) = 0 /\ Uniform(fnl)
    BY <1>7, <2>2, <2>3 DEF Pops, Pushes, Uniform
  <2>5. (/\ \E i \in DOMAIN a : Returns(a[i].stmt)
         /\ \E i \in DOMAIN b : Returns(b[i].stmt)) => IsExit(fnl)
    BY <1>7, <2>2 DEF IsExit, StmtReturns, AllStmts
  <2>6. (/\ \A i \in DOMAIN a : StmtStays(a[i])
         /\ \A i \in DOMAIN b : StmtStays(b[i])) => Stays(fnl)
    BY <2>2 DEF Stays, StmtStays
  <2> QED  BY <2>1, <2>2, <2>4, <2>5, <2>6
<1>8. CASE IfElseStmt
  <2>1. /\ ScheduledStmt("if_else_stmt") /\ Stmt.type = "if_else_stmt" /\ Stmt.cond \in ExpId
        /\ Stmt.if_stmts \in Seq(StmtId) /\ Stmt.else_stmts \in Seq(StmtId)
    BY <1>8, ScheduledStmtCases DEF IfElseStmt
  <2>2. PICK a : a = StmtComps(Stmt.if_stmts)
    OBVIOUS
  <2>3. PICK b : b = StmtComps(Stmt.else_stmts)
    OBVIOUS
  <2>4. /\ a \in Seq(Unevaluated) /\ AllStmts(a) /\ DOMAIN a = DOMAIN Stmt.if_stmts
        /\ \A i \in DOMAIN a : a[i].stmt = Stmts[Stmt.if_stmts[i]]
        /\ AllTopLevel(Stmt.if_stmts) => \A i \in DOMAIN a : StmtStays(a[i])
    BY <2>1, <2>2, StatementLists
  <2>5. /\ b \in Seq(Unevaluated) /\ AllStmts(b) /\ DOMAIN b = DOMAIN Stmt.else_stmts
        /\ \A i \in DOMAIN b : b[i].stmt = Stmts[Stmt.else_stmts[i]]
        /\ AllTopLevel(Stmt.else_stmts) => \A i \in DOMAIN b : StmtStays(b[i])
    BY <2>1, <2>3, StatementLists
  <2>6. PICK fnl : fnl = IfElseFinal(a, b)
    OBVIOUS
  <2>7. IsExit(Top) => IsExit(fnl)
    <3> HAVE IsExit(Top)
    <3>1. Returns(Stmt)
      BY <1>0, <2>1
    <3>2. /\ \E i \in DOMAIN Stmt.if_stmts : Stmt.if_stmts[i] \in ReturningStmts
          /\ \E i \in DOMAIN Stmt.else_stmts : Stmt.else_stmts[i] \in ReturningStmts
      BY <2>1, <3>1 DEF Returns
    <3>3. /\ \E i \in DOMAIN a : Returns(a[i].stmt)
          /\ \E i \in DOMAIN b : Returns(b[i].stmt)
      BY <2>4, <2>5, <3>2, DisciplineAssumption
    <3> QED  BY <1>7, <2>4, <2>5, <2>6, <3>3
  <2>8. Stays(Top) => Stays(fnl)
    <3> HAVE Stays(Top)
    <3>1. NeverReturns(Stmt)
      BY <1>0, <2>1
    <3>2. AllTopLevel(Stmt.if_stmts) /\ AllTopLevel(Stmt.else_stmts)
      BY <2>1, <3>1 DEF NeverReturns
    <3> QED  BY <1>7, <2>4, <2>5, <2>6, <3>2
  <2>9. fnl \in Computations /\ Pops(fnl) = 1 /\ Pushes(fnl) = 0 /\ Uniform(fnl)
    BY <1>7, <2>4, <2>5, <2>6
  <2>10. Unfold(<<fnl, ExpComp(Stmt.cond)>>)
    BY <1>8, <2>2, <2>3, <2>6 DEF IfElseStmt
  <2> QED  BY <1>2, <2>1, <2>7, <2>8, <2>9, <2>10
<1>9. CASE WhileStmt
  <2>1. /\ ScheduledStmt("while_stmt") /\ Stmt.type = "while_stmt" /\ Stmt.cond \in ExpId
        /\ Stmt.body \in Seq(StmtId) /\ Top \in Unevaluated /\ Top.type = "stmt" /\ ~IsExit(Top)
    BY <1>0, <1>9, ScheduledStmtCases DEF WhileStmt, Returns
  <2>2. PICK body : body = StmtComps(Stmt.body)
    OBVIOUS
  <2>3. /\ body \in Seq(Unevaluated) /\ AllStmts(body) /\ DOMAIN body = DOMAIN Stmt.body
        /\ AllTopLevel(Stmt.body) => \A i \in DOMAIN body : StmtStays(body[i])
    BY <2>1, <2>2, StatementLists
  <2>4. PICK a : a = Append(body, Top)
    OBVIOUS
  <2>5. /\ a \in Seq(Unevaluated) /\ DOMAIN a = 1 .. Len(body) + 1 /\ Len(body) \in Nat
        /\ \A i \in 1 .. Len(body) : a[i] = body[i]
        /\ a[Len(body) + 1] = Top
    <3>1. /\ Append(body, Top) \in Seq(Unevaluated) /\ Len(body) \in Nat
          /\ Len(Append(body, Top)) = Len(body) + 1
          /\ Append(body, Top)[Len(body) + 1] = Top
      BY <2>1, <2>3, AppendProperties, LenProperties
    <3>2. \A i \in 1 .. Len(body) : Append(body, Top)[i] = body[i]
      BY <2>1, <2>3, AppendProperties
    <3>3. DOMAIN a = 1 .. Len(body) + 1
      BY <2>4, <3>1, LenProperties
    <3> QED  BY <2>4, <3>1, <3>2, <3>3
  <2>6. DOMAIN body = 1 .. Len(body)
    BY <2>3, LenProperties
  <2>7. AllStmts(a)
    <3> SUFFICES ASSUME NEW i \in DOMAIN a  PROVE a[i].type = "stmt"
      BY DEF AllStmts
    <3>1. CASE i \in 1 .. Len(body)
      BY <2>3, <2>5, <2>6, <3>1 DEF AllStmts
    <3>2. CASE i \notin 1 .. Len(body)
      <4>1. i = Len(body) + 1
        BY <2>5, <3>2
      <4> QED  BY <2>1, <2>5, <4>1
    <3> QED  BY <3>1, <3>2
  <2>8. <<>> \in Seq(Unevaluated) /\ AllStmts(<<>>)
    BY DEF AllStmts
  <2>9. PICK fnl : fnl = IfElseFinal(a, <<>>)
    OBVIOUS
  <2>10. Stays(Top) => Stays(fnl)
    <3> HAVE Stays(Top)
    <3>1. NeverReturns(Stmt) /\ StmtStays(Top)
      BY <1>0, <2>1 DEF Stays
    <3>2. AllTopLevel(Stmt.body)
      BY <2>1, <3>1 DEF NeverReturns
    <3>3. \A i \in DOMAIN a : StmtStays(a[i])
      <4> TAKE i \in DOMAIN a
      <4>1. CASE i \in 1 .. Len(body)
        BY <2>3, <2>5, <2>6, <3>2, <4>1
      <4>2. CASE i \notin 1 .. Len(body)
        <5>1. i = Len(body) + 1
          BY <2>5, <4>2
        <5> QED  BY <2>5, <3>1, <5>1
      <4> QED  BY <4>1, <4>2
    <3>4. \A i \in DOMAIN <<>> : StmtStays((<<>>)[i])
      OBVIOUS
    <3> QED  BY <1>7, <2>5, <2>7, <2>8, <2>9, <3>3, <3>4
  <2>11. fnl \in Computations /\ Pops(fnl) = 1 /\ Pushes(fnl) = 0 /\ Uniform(fnl)
    BY <1>7, <2>5, <2>7, <2>8, <2>9
  <2>12. Unfold(<<fnl, ExpComp(Stmt.cond)>>)
    BY <1>9, <2>2, <2>4, <2>9 DEF WhileStmt
  <2> QED  BY <1>2, <2>1, <2>10, <2>11, <2>12
<1>10. CASE ForStmt
  <2>1. /\ ScheduledStmt("for_stmt") /\ Stmt.type = "for_stmt" /\ Stmt.cond \in ExpId
        /\ Stmt.body \in Seq(StmtId) /\ Stmt.init \in StmtId /\ Stmt.inc \in StmtId
        /\ Scheduled("stmt") /\ ~IsExit(Top)
    BY <1>0, <1>10, ScheduledStmtCases DEF ForStmt, Returns
  <2>2. PICK body : body = Append(Stmt.body, Stmt.inc)
    OBVIOUS
  <2>3. PICK loop : loop = [type |-> "while_stmt", cond |-> Stmt.cond, body |-> body]
    OBVIOUS
  <2>4. body \in Seq(StmtId)
    BY <2>1, <2>2, AppendProperties
  <2>5. loop \in Statements /\ Stmts[Stmt.init] \in Statements
    BY <2>1, <2>3, <2>4, SyntaxAssumption DEF Statements
  <2>6. PICK ds : ds = <<StmtComp(loop), StmtComp(Stmts[Stmt.init])>>
    OBVIOUS
  <2>7. /\ ds \in Seq(Computations) /\ Len(ds) = 2
        /\ ds[1].type = "stmt" /\ ds[1].stmt = loop
        /\ ds[2].type = "stmt" /\ ds[2].stmt = Stmts[Stmt.init]
    <3>1. StmtComp(loop) \in Computations /\ StmtComp(Stmts[Stmt.init]) \in Computations
      BY <2>5
    <3>2. ds \in Seq(Computations) /\ Len(ds) = 2 /\ ds[1] = StmtComp(loop)
          /\ ds[2] = StmtComp(Stmts[Stmt.init])
      BY <2>6, <3>1
    <3> QED  BY <3>2 DEF StmtComp
  <2>8. AllStmts(ds)
    BY <2>6, <2>7 DEF AllStmts
  <2>9. Stays(Top) => \A j \in 1 .. Len(ds) : Stays(ds[j])
    <3> HAVE Stays(Top)
    <3>1. NeverReturns(Stmt)
      BY <1>0, <2>1
    <3>2. AllTopLevel(Stmt.body) /\ {Stmt.init, Stmt.inc} \subseteq TopLevelStmts
      BY <2>1, <3>1 DEF NeverReturns
    <3>3. AllTopLevel(body)
      <4>1. Len(Stmt.body) \in Nat /\ DOMAIN Stmt.body = 1 .. Len(Stmt.body)
            /\ DOMAIN body = 1 .. Len(Stmt.body) + 1
        BY <2>1, <2>2, AppendProperties, LenProperties
      <4>2. \A i \in 1 .. Len(Stmt.body) : body[i] = Stmt.body[i]
        BY <2>1, <2>2, AppendProperties
      <4>3. body[Len(Stmt.body) + 1] = Stmt.inc
        BY <2>1, <2>2, AppendProperties
      <4> SUFFICES ASSUME NEW i \in DOMAIN body  PROVE body[i] \in TopLevelStmts
        BY DEF AllTopLevel
      <4>4. CASE i \in 1 .. Len(Stmt.body)
        BY <3>2, <4>1, <4>2, <4>4 DEF AllTopLevel
      <4>5. CASE i \notin 1 .. Len(Stmt.body)
        <5>1. i = Len(Stmt.body) + 1
          BY <4>1, <4>5
        <5> QED  BY <3>2, <4>3, <5>1
      <4> QED  BY <4>4, <4>5
    <3>4. NeverReturns(loop)
      BY <2>3, <3>3 DEF NeverReturns
    <3>5. NeverReturns(Stmts[Stmt.init])
      BY <3>2, DisciplineAssumption
    <3>6. Stays(ds[1]) /\ Stays(ds[2])
      BY <2>7, <3>4, <3>5, StmtFacts
    <3> QED  BY <2>7, <3>6
  <2>10. Unfold(ds)
    BY <1>10, <2>2, <2>3, <2>6 DEF ForStmt
  <2> QED  BY <2>1, <2>7, <2>8, <2>9, <2>10, StatementsScheduled
<1>11. CASE UnsetStmt
  <2>1. Scheduled("stmt") /\ ~IsExit(Top) /\ Unfold(<<>>)
    BY <1>0, <1>11 DEF UnsetStmt, Returns
  <2>2. <<>> \in Seq(Computations) /\ AllStmts(<<>>) /\ Len(<<>>) = 0
    BY DEF AllStmts
  <2>3. \A j \in 1 .. Len(<<>>) : Stays((<<>>)[j])
    BY <2>2
  <2> QED  BY <2>1, <2>2, <2>3, StatementsScheduled
<1> QED
  BY <1>3, <1>4, <1>5, <1>6, <1>8, <1>9, <1>10, <1>11 DEF EvaluateStatement

(***************************************************************************)
(* Finals.                                                                 *)
(***************************************************************************)
LEMMA OneExpBalanced ==
  ASSUME NEW cs \in Seq(Computations), cs # <<>>, NEW n \in Nat, NEW inFunction \in BOOLEAN,
         Balanced(cs, n, inFunction), ~IsExit(Last(cs)), Pops(Last(cs)) = 1,
         Pushes(Last(cs)) = 1, NEW ds \in Seq(Computations), Len(ds) = 1, ds[1].type = "exp"
  PROVE  Balanced(Front(cs) \o ds, n - 1, inFunction)
<1>1. n \in Nat \ {0}
  BY TopBalanced
<1> DEFINE g == [i \in 0 .. 1 |-> n - i]
<1>2. g \in [0 .. Len(ds) -> Nat] /\ g[0] = n /\ g[1] = n - 1 /\ g[0] = n - 1 + 1
  BY <1>1
<1> HIDE DEF g
<1>3. Pops(ds[1]) = 0 /\ Pushes(ds[1]) = 1 /\ Uniform(ds[1]) /\ Stays(ds[1])
  BY ExpFacts
<1>4. Lowers(ds[1], g[1], g[0])
  BY <1>1, <1>2, <1>3 DEF Lowers
<1>5. /\ \A i \in 1 .. Len(ds) : Lowers(ds[i], g[i], g[i - 1])
      /\ \A i \in 1 .. Len(ds) : Stays(ds[i])
  <2>1. \A i \in 1 .. Len(ds) : i = 1 /\ i - 1 = 0
    OBVIOUS
  <2> QED  BY <1>3, <1>4, <2>1
<1> QED  BY <1>2, <1>5, Replaced

LEMMA IfElseDisciplined ==
  ASSUME Typed, Disciplined, IfElse
  PROVE  Disciplined'
<1>1. /\ comp \in Seq(Computations) /\ comp # <<>> /\ Top = Last(comp) /\ Rest = Front(comp)
      /\ Top.type = "if_else_final" /\ Top \in Computations
      /\ Len(result) \in Nat /\ (saved_ctx # <<>>) \in BOOLEAN /\ fault = "none"
      /\ Balanced(comp, Len(result), saved_ctx # <<>>) /\ Pops(Top) <= Len(result) /\ Uniform(Top)
  BY ScheduledBalanced DEF IfElse
<1>2. PICK chosen : chosen = IF CondVal THEN Top.if_case ELSE Top.else_case
  OBVIOUS
<1>3. /\ chosen \in Seq(Unevaluated)
      /\ 1 \in 0 .. Len(result)
      /\ chosen = Top.if_case \/ chosen = Top.else_case
  BY <1>2, ScheduledCases DEF IfElse
<1>4. PICK ds : ds = Reverse(chosen)
  OBVIOUS
<1>5. PICK N : N = Len(chosen)
  OBVIOUS
<1>6. /\ N \in Nat /\ ds \in Seq(Computations) /\ Len(ds) = N
      /\ DOMAIN chosen = 1 .. N /\ DOMAIN ds = 1 .. N
      /\ \A i \in 1 .. N : N - i + 1 \in 1 .. N
      /\ \A i \in 1 .. N : ds[i] = chosen[N - i + 1]
  <2>1. ds \in Seq(Unevaluated) /\ Len(ds) = N /\ \A i \in 1 .. N : ds[i] = chosen[N - i + 1]
    BY <1>3, <1>4, <1>5, ReverseType
  <2>2. N \in Nat /\ DOMAIN chosen = 1 .. N /\ DOMAIN ds = 1 .. N
    BY <1>3, <1>5, <2>1, LenProperties
  <2>3. ds \in Seq(Computations)
    BY <2>1, ScheduledLists, SeqMonotonic
  <2> QED  BY <2>1, <2>2, <2>3
<1>7. comp' = Rest \o ds /\ Len(result') = Len(result) - 1 /\ fault' = "none" /\ saved_ctx' = saved_ctx
  BY <1>1, <1>2, <1>3, <1>4, DroppedTyped DEF IfElse
<1>8. Pops(Top) = 1
  BY <1>1 DEF Pops
<1>9. CASE OneExp(Top.if_case) /\ OneExp(Top.else_case)
  <2>1. N = 1 /\ chosen[1].type = "exp"
    BY <1>3, <1>5, <1>9 DEF OneExp
  <2>2. Len(ds) = 1 /\ ds[1].type = "exp"
    <3>1. 1 \in 1 .. N /\ N - 1 + 1 = 1
      BY <2>1
    <3> QED  BY <1>6, <2>1, <3>1
  <2>3. Top.if_case # <<>> /\ 1 \in DOMAIN Top.if_case
    <3>1. Top.if_case \in Seq(Unevaluated)
      BY ScheduledCases DEF IfElse
    <3>2. Len(Top.if_case) = 1 /\ DOMAIN Top.if_case = 1 .. Len(Top.if_case)
      BY <1>9, <3>1, LenProperties DEF OneExp
    <3>3. Top.if_case # <<>>
      <4>1. PICK a : a = Top.if_case
        OBVIOUS
      <4>2. a \in Seq(Unevaluated) /\ Len(a) = 1
        BY <3>1, <3>2, <4>1
      <4>3. a # <<>>
        BY <4>2, EmptySeq
      <4> QED  BY <4>1, <4>3
    <3>4. 1 \in DOMAIN Top.if_case
      BY <3>2
    <3> QED  BY <3>3, <3>4
  <2>4. Pushes(Top) = 1
    BY <1>1, <1>9, <2>3 DEF Pushes, OneExp
  <2>5. ~IsExit(Top)
    <3>1. ~AllStmts(Top.if_case)
      BY <1>9, <2>3 DEF AllStmts, OneExp
    <3> QED  BY <1>1, <3>1 DEF IsExit, StmtReturns
  <2>6. Balanced(Rest \o ds, Len(result) - 1, saved_ctx # <<>>)
    BY <1>1, <1>6, <1>8, <2>2, <2>4, <2>5, OneExpBalanced
  <2> QED  BY <1>7, <2>6, SameContext
<1>10. CASE AllStmts(Top.if_case) /\ AllStmts(Top.else_case)
  <2>1. \A i \in 1 .. N : chosen[i].type = "stmt"
    BY <1>3, <1>6, <1>10 DEF AllStmts
  <2>2. AllStmts(ds)
    BY <1>6, <2>1 DEF AllStmts
  <2>3. Pushes(Top) = 0
    <3>1. Top.if_case # <<>> => Top.if_case[1].type = "stmt"
      <4> HAVE Top.if_case # <<>>
      <4>1. Top.if_case \in Seq(Unevaluated)
        BY ScheduledCases DEF IfElse
      <4>2. 1 \in DOMAIN Top.if_case
        BY <4>1, FrontLast, LenProperties
      <4> QED  BY <1>10, <4>2 DEF AllStmts
    <3> QED  BY <1>1, <3>1 DEF Pushes
  <2>4. IsExit(Top) => \E j \in 1 .. Len(ds) : IsExit(ds[j])
    <3> HAVE IsExit(Top)
    <3>1. /\ \E i \in DOMAIN Top.if_case : StmtReturns(Top.if_case[i])
          /\ \E i \in DOMAIN Top.else_case : StmtReturns(Top.else_case[i])
      BY <1>1 DEF IsExit, StmtReturns
    <3>2. PICK i \in 1 .. N : StmtReturns(chosen[i])
      BY <1>3, <1>6, <3>1
    <3>3. N - i + 1 \in 1 .. N /\ N - (N - i + 1) + 1 = i
      BY <1>6
    <3>4. ds[N - i + 1] = chosen[i]
      BY <1>6, <3>3
    <3>5. IsExit(ds[N - i + 1])
      BY <3>2, <3>4 DEF IsExit
    <3> QED  BY <1>6, <3>3, <3>5
  <2>5. Stays(Top) => \A j \in 1 .. Len(ds) : Stays(ds[j])
    <3> SUFFICES ASSUME Stays(Top), NEW j \in 1 .. Len(ds)  PROVE Stays(ds[j])
      OBVIOUS
    <3>1. \A i \in 1 .. N : StmtStays(chosen[i])
      BY <1>1, <1>3, <1>6 DEF Stays
    <3>2. ds[j].type = "stmt" /\ StmtStays(ds[j])
      BY <1>6, <2>1, <3>1
    <3> QED  BY <3>2 DEF Stays
  <2>6. Balanced(Rest \o ds, Len(result) - Pops(Top) + Pushes(Top), saved_ctx # <<>>)
    BY <1>1, <1>6, <2>2, <2>4, <2>5, StatementsBalanced
  <2>7. Len(result) - Pops(Top) + Pushes(Top) = Len(result) - 1
    BY <1>1, <1>8, <2>3
  <2> QED  BY <1>7, <2>6, <2>7, SameContext
<1> QED  BY <1>1, <1>9, <1>10 DEF Uniform

LEMMA CallDisciplined ==
  ASSUME Typed, Disciplined, FuncAppExpFinal
  PROVE  Disciplined'
<1>1. /\ comp \in Seq(Computations) /\ comp # <<>> /\ Top = Last(comp) /\ Rest = Front(comp)
      /\ Top.type = "func_app_exp_final" /\ Top \in Computations
      /\ Len(result) \in Nat /\ (saved_ctx # <<>>) \in BOOLEAN /\ fault = "none"
      /\ Balanced(comp, Len(result), saved_ctx # <<>>)
  BY ScheduledBalanced DEF FuncAppExpFinal
<1>2. Top.num_args \in Nat /\ Top.num_args + 1 <= Len(result)
  BY ScheduledCases DEF FuncAppExpFinal
<1>3. PICK k : k = Top.num_args + 1
  OBVIOUS
<1>4. k \in 0 .. Len(result)
  BY <1>1, <1>2, <1>3
<1>5. PICK caller : caller = [comp |-> Rest, result |-> Dropped(k), env |-> env]
  OBVIOUS
<1>6. /\ saved_ctx' = Append(saved_ctx, caller) /\ result' = <<>> /\ fault' = "none"
      /\ comp' = <<Op("return_from_ctx")>> \o Reverse(StmtComps(Callee.body))
  BY <1>1, <1>3, <1>5 DEF FuncAppExpFinal
<1>7. /\ Len(saved_ctx) \in Nat /\ DOMAIN saved_ctx = 1 .. Len(saved_ctx)
      /\ DOMAIN saved_ctx' = 1 .. Len(saved_ctx) + 1 /\ saved_ctx' # <<>>
      /\ \A d \in 1 .. Len(saved_ctx) : saved_ctx'[d] = saved_ctx[d]
      /\ saved_ctx'[Len(saved_ctx) + 1] = caller
  <2> DEFINE S == LocalContexts(Len(store)) \cup {caller}
  <2>1. saved_ctx \in Seq(S) /\ caller \in S
    BY SeqMonotonic DEF Typed
  <2>2. /\ Len(saved_ctx) \in Nat /\ DOMAIN saved_ctx = 1 .. Len(saved_ctx)
        /\ Append(saved_ctx, caller) \in Seq(S) /\ Append(saved_ctx, caller) # <<>>
        /\ Len(Append(saved_ctx, caller)) = Len(saved_ctx) + 1
        /\ Append(saved_ctx, caller)[Len(saved_ctx) + 1] = caller
    <3> HIDE DEF S
    <3> QED  BY <2>1, AppendProperties, LenProperties
  <2>3. \A d \in 1 .. Len(saved_ctx) : Append(saved_ctx, caller)[d] = saved_ctx[d]
    BY <2>1, AppendProperties
  <2>4. DOMAIN Append(saved_ctx, caller) = 1 .. Len(saved_ctx) + 1
    <3> HIDE DEF S
    <3> QED  BY <2>2, LenProperties
  <2> QED  BY <1>6, <2>2, <2>3, <2>4
<1>8. Balanced(Rest, Len(Dropped(k)) + 1, saved_ctx # <<>>)
  <2>1. ~IsExit(Top) /\ Pops(Top) = k /\ Pushes(Top) = 1
    BY <1>1, <1>3 DEF IsExit, StmtReturns, Pops, Pushes
  <2>2. Balanced(Rest, Len(result) - Pops(Top) + Pushes(Top), saved_ctx # <<>>)
    BY <1>1, <2>1, DoneBalanced
  <2>3. Len(result) - Pops(Top) + Pushes(Top) = Len(Dropped(k)) + 1
    BY <1>1, <1>4, <2>1, DroppedTyped
  <2> QED  BY <2>2, <2>3
<1>9. SuspendedBalanced'
  <2> SUFFICES ASSUME NEW d \in 1 .. Len(saved_ctx) + 1
               PROVE  Balanced(saved_ctx'[d].comp, Len(saved_ctx'[d].result) + 1, d > 1)
    BY <1>7 DEF SuspendedBalanced
  <2>1. CASE d \in 1 .. Len(saved_ctx)
    BY <1>7, <2>1 DEF Disciplined, SuspendedBalanced
  <2>2. CASE d \notin 1 .. Len(saved_ctx)
    <3>1. d = Len(saved_ctx) + 1
      BY <1>7, <2>2
    <3>2. saved_ctx'[d] = caller
      BY <1>7, <3>1
    <3>3. (saved_ctx # <<>>) = (d > 1)
      <4>1. saved_ctx = <<>> <=> Len(saved_ctx) = 0
        BY EmptySeq DEF Typed
      <4>2. saved_ctx # <<>> <=> d > 1
        BY <1>7, <3>1, <4>1
      <4> QED  BY <4>2
    <3>4. caller.comp = Rest /\ caller.result = Dropped(k)
      BY <1>5
    <3> QED  BY <1>8, <3>2, <3>3, <3>4
  <2> QED  BY <2>1, <2>2
<1>10. LiveBalanced'
  <2>1. 1 <= Len(result)
    BY <1>1, <1>2
  <2>2. ValueOf(Popped(1)) \in Literals(Len(store))
    <3>1. 1 \in 1 .. Len(result)
      BY <1>1, <2>1
    <3> QED  BY <3>1, PoppedTyped
  <2>3. CASE ValueOf(Popped(1)).type = "closure_val"
    <3>1. Callee \in Closures(Len(store))
      <4>1. Len(store) \in Nat
        BY DEF Typed
      <4> QED  BY <2>2, <2>3, <4>1, LiteralCases DEF Callee, AsClosure
    <3>2. Callee.body \in Seq(StmtId)
      BY <3>1 DEF Closures
    <3>3. PICK e \in Lambdas : Callee.body = Exps[e].body
      BY <3>1 DEF Closures
    <3>4. \E i \in DOMAIN Callee.body : Callee.body[i] \in ReturningStmts
      BY <3>3, DisciplineAssumption
    <3>5. Balanced(<<Op("return_from_ctx")>> \o Reverse(StmtComps(Callee.body)), 0, TRUE)
      BY <3>2, <3>4, BodyBalanced
    <3>6. Len(result') = 0 /\ (saved_ctx' # <<>>) = TRUE
      BY <1>6, <1>7
    <3> QED  BY <1>6, <3>5, <3>6 DEF LiveBalanced
  <2>4. CASE ValueOf(Popped(1)).type # "closure_val"
    <3>1. Callee.body = <<>>
      BY <2>4 DEF Callee, AsClosure, EmptyClosure
    <3>2. <<>> \in Seq(StmtId) /\ Len(<<>>) = 0
      OBVIOUS
    <3>3. StmtComps(<<>>) \in Seq(Unevaluated) /\ Len(StmtComps(<<>>)) = 0
      BY <3>2, StatementLists
    <3>4. Reverse(StmtComps(<<>>)) \in Seq(Unevaluated) /\ Len(Reverse(StmtComps(<<>>))) = 0
      BY <3>3, ReverseType
    <3>5. Reverse(StmtComps(<<>>)) = <<>>
      BY <3>4, EmptySeq
    <3>6. comp' = <<Op("return_from_ctx")>>
      <4>1. PICK ret : ret = <<Op("return_from_ctx")>>
        OBVIOUS
      <4>2. ret \in Seq(Computations)
        BY <4>1 DEF Op, Computations, Finals
      <4>3. ret \o <<>> = ret
        BY <4>2
      <4> QED  BY <1>6, <3>1, <3>5, <4>1, <4>3
    <3> QED  BY <1>6, <1>7, <3>6 DEF LiveBalanced, EmptyCall
  <2> QED  BY <2>3, <2>4
<1> QED
  BY <1>6, <1>9, <1>10 DEF Disciplined, OnlyEmptyCallsUnderflow, ReturnsFindTheirCaller

LEMMA ReturnDisciplined ==
  ASSUME Typed, Disciplined, ReturnFromCtx
  PROVE  Disciplined'
<1>1. fault = "none" /\ saved_ctx # <<>>
  BY ScheduledBalanced DEF ReturnFromCtx
<1>2. PICK caller : caller = Last(saved_ctx)
  OBVIOUS
<1>3. PICK r : r = Rvalue(ValueOf(Popped(1)))
  OBVIOUS
<1>4. /\ comp' = caller.comp /\ result' = Append(caller.result, r)
      /\ saved_ctx' = Front(saved_ctx) /\ fault' = "none"
  BY <1>1, <1>2, <1>3 DEF ReturnFromCtx
<1>5. PICK n : n = Len(saved_ctx)
  OBVIOUS
<1>6. /\ n \in Nat \ {0} /\ DOMAIN saved_ctx = 1 .. n /\ caller = saved_ctx[n]
      /\ caller \in LocalContexts(Len(store))
      /\ saved_ctx' \in Seq(LocalContexts(Len(store))) /\ Len(saved_ctx') = n - 1
      /\ \A d \in 1 .. n - 1 : saved_ctx'[d] = saved_ctx[d]
  <2>1. saved_ctx \in Seq(LocalContexts(Len(store)))
    BY DEF Typed
  <2> QED  BY <1>1, <1>2, <1>4, <1>5, <2>1, FrontLast, LenProperties
<1>7. DOMAIN saved_ctx' = 1 .. n - 1
  BY <1>6, LenProperties
<1>8. (saved_ctx' # <<>>) = (n > 1)
  <2>1. saved_ctx' = <<>> <=> n - 1 = 0
    BY <1>6, EmptySeq
  <2>2. saved_ctx' # <<>> <=> n > 1
    BY <1>6, <2>1
  <2> QED  BY <2>2
<1>9. Len(result') = Len(caller.result) + 1
  <2> DEFINE S == Results(Len(store)) \cup {r}
  <2>1. caller.result \in Seq(S) /\ r \in S
    BY <1>6, SeqMonotonic DEF LocalContexts
  <2> HIDE DEF S
  <2> QED  BY <1>4, <2>1, AppendProperties
<1>10. Balanced(caller.comp, Len(caller.result) + 1, n > 1)
  <2>1. n \in DOMAIN saved_ctx
    BY <1>6
  <2> QED  BY <1>6, <2>1 DEF Disciplined, SuspendedBalanced
<1>11. LiveBalanced'
  BY <1>4, <1>8, <1>9, <1>10 DEF LiveBalanced
<1>12. SuspendedBalanced'
  <2> SUFFICES ASSUME NEW d \in 1 .. n - 1
               PROVE  Balanced(saved_ctx'[d].comp, Len(saved_ctx'[d].result) + 1, d > 1)
    BY <1>7 DEF SuspendedBalanced
  <2>1. d \in DOMAIN saved_ctx /\ saved_ctx'[d] = saved_ctx[d]
    BY <1>6
  <2> QED  BY <2>1 DEF Disciplined, SuspendedBalanced
<1> QED
  BY <1>4, <1>11, <1>12 DEF Disciplined, OnlyEmptyCallsUnderflow, ReturnsFindTheirCaller

LEMMA FinalDisciplined ==
  ASSUME Typed, Disciplined, EvaluateFinal
  PROVE  Disciplined'
<1>0. ASSUME NEW t, Scheduled(t)
      PROVE  /\ Top.type = t /\ Len(result) \in Nat
             /\ t \notin {"return_from_ctx", "stmt", "if_else_final"} => ~IsExit(Top)
  <2>1. Top.type = t /\ Len(result) \in Nat
    BY <1>0, ScheduledBalanced
  <2> QED  BY <2>1 DEF IsExit, StmtReturns
<1>1. ASSUME NEW n \in 0 .. Len(result), NEW r, Typed
      PROVE  Len(Dropped(n)) = Len(result) - n /\ Len(Append(Dropped(n), r)) = Len(result) - n + 1
  <2> DEFINE S == Results(Len(store)) \cup {r}
  <2>1. Dropped(n) \in Seq(Results(Len(store))) /\ Len(Dropped(n)) = Len(result) - n
    BY <1>1, DroppedTyped
  <2>2. Dropped(n) \in Seq(S) /\ r \in S
    BY <2>1, SeqMonotonic
  <2> HIDE DEF S
  <2> QED  BY <2>1, <2>2, AppendProperties
<1>2. CASE BinExpFinal
  <2>1. PICK r : Reduce(2, r)
    BY <1>2 DEF BinExpFinal
  <2>2. /\ Scheduled("bin_exp_final") /\ Top.type = "bin_exp_final" /\ ~IsExit(Top)
        /\ 2 \in 0 .. Len(result) /\ Len(result) \in Nat
    BY <1>0, <1>2, ScheduledCases DEF BinExpFinal
  <2>3. Pops(Top) = 2 /\ Pushes(Top) = 1
    BY <2>2 DEF Pops, Pushes
  <2>4. Len(result') = Len(result) - Pops(Top) + Pushes(Top)
    BY <1>1, <2>1, <2>2, <2>3 DEF Reduce
  <2> QED  BY <2>1, <2>2, <2>4, DoneScheduled DEF Reduce
<1>3. CASE MonExpFinal
  <2>1. PICK r : Reduce(1, r)
    BY <1>3 DEF MonExpFinal
  <2>2. /\ Scheduled("mon_exp_final") /\ Top.type = "mon_exp_final" /\ ~IsExit(Top)
        /\ 1 \in 0 .. Len(result) /\ Len(result) \in Nat
    BY <1>0, <1>3, ScheduledCases DEF MonExpFinal
  <2>3. Pops(Top) = 1 /\ Pushes(Top) = 1
    BY <2>2 DEF Pops, Pushes
  <2>4. Len(result') = Len(result) - Pops(Top) + Pushes(Top)
    BY <1>1, <2>1, <2>2, <2>3 DEF Reduce
  <2> QED  BY <2>1, <2>2, <2>4, DoneScheduled DEF Reduce
<1>4. CASE TupleExpFinal
  <2>1. /\ Scheduled("tuple_exp_final") /\ Top.type = "tuple_exp_final" /\ ~IsExit(Top)
        /\ Top.size \in Nat /\ Top.size <= Len(result) + 1 /\ Len(result) \in Nat
    BY <1>0, <1>4, ScheduledCases DEF TupleExpFinal
  <2>2. /\ Pops(Top) = IF Top.size = 0 THEN 0 ELSE Top.size - 1
        /\ Pushes(Top) = IF Top.size = 0 THEN 1 ELSE 0
    BY <2>1 DEF Pops, Pushes
  <2>3. Len(result') = Len(result) + 1 - Top.size
    <3>1. PICK more : more = Append(result, NoResult)
      OBVIOUS
    <3>2. NoResult \in Results(Len(store)) /\ result \in Seq(Results(Len(store)))
      BY DEF Results, NoResult, Typed
    <3>3. more \in Seq(Results(Len(store))) /\ Len(more) = Len(result) + 1
      BY <3>1, <3>2, AppendProperties
    <3>4. Top.size \in 0 .. Len(more) /\ Len(result) + 1 - Top.size = Len(more) - Top.size
      BY <2>1, <3>3
    <3>5. result' = SubSeq(more, 1, Len(more) - Top.size)
      BY <1>4, <3>1, <3>4 DEF TupleExpFinal
    <3> QED  BY <3>3, <3>4, <3>5, Prefix
  <2>4. Len(result') = Len(result) - Pops(Top) + Pushes(Top)
    BY <2>1, <2>2, <2>3
  <2> QED  BY <1>4, <2>1, <2>4, DoneScheduled DEF TupleExpFinal
<1>5. CASE IgnoreOneResult
  <2>1. /\ Scheduled("ignore_one_result") /\ Top.type = "ignore_one_result" /\ ~IsExit(Top)
        /\ 1 \in 0 .. Len(result) /\ Len(result) \in Nat
    BY <1>0, <1>5, ScheduledCases DEF IgnoreOneResult
  <2>2. Pops(Top) = 1 /\ Pushes(Top) = 0
    BY <2>1 DEF Pops, Pushes
  <2>3. Len(result') = Len(result) - Pops(Top) + Pushes(Top)
    BY <1>1, <1>5, <2>1, <2>2 DEF IgnoreOneResult
  <2> QED  BY <1>5, <2>1, <2>3, DoneScheduled DEF IgnoreOneResult
<1>6. CASE AssignStmtFinal
  <2>1. /\ Scheduled("assign_stmt_final") /\ Top.type = "assign_stmt_final" /\ ~IsExit(Top)
        /\ 2 \in 0 .. Len(result) /\ Len(result) \in Nat
    BY <1>0, <1>6, ScheduledCases DEF AssignStmtFinal
  <2>2. Pops(Top) = 2 /\ Pushes(Top) = 0
    BY <2>1 DEF Pops, Pushes
  <2>3. Len(result') = Len(result) - Pops(Top) + Pushes(Top)
    BY <1>1, <1>6, <2>1, <2>2 DEF AssignStmtFinal
  <2> QED  BY <1>6, <2>1, <2>3, DoneScheduled DEF AssignStmtFinal
<1>7. CASE PrintFinal
  <2>1. /\ Scheduled("print_final") /\ Top.type = "print_final" /\ ~IsExit(Top)
        /\ 1 \in 0 .. Len(result) /\ Len(result) \in Nat
    BY <1>0, <1>7, ScheduledCases DEF PrintFinal
  <2>2. Pops(Top) = 1 /\ Pushes(Top) = 0
    BY <2>1 DEF Pops, Pushes
  <2>3. Len(result') = Len(result) - Pops(Top) + Pushes(Top)
    BY <1>1, <1>7, <2>1, <2>2 DEF PrintFinal
  <2> QED  BY <1>7, <2>1, <2>3, DoneScheduled DEF PrintFinal
<1> QED
  BY <1>2, <1>3, <1>4, <1>5, <1>6, <1>7, IfElseDisciplined, CallDisciplined, ReturnDisciplined
     DEF EvaluateFinal

LEMMA UndefinedDisciplined ==
  ASSUME Typed, Disciplined, Undefined
  PROVE  Disciplined'
<1>1. ASSUME NEW kind, Fail(kind)
      PROVE  LiveBalanced' /\ SuspendedBalanced' /\ (EmptyCall => EmptyCall') /\ fault' = kind
  BY <1>1 DEF Fail, Disciplined, LiveBalanced, SuspendedBalanced, EmptyCall
<1>2. CASE ResultUnderflow
  <2>1. /\ comp \in Seq(Computations) /\ comp # <<>> /\ Top = Last(comp) /\ Len(result) \in Nat
        /\ Top \in Computations
    BY <1>2, TopTyped, LenProperties DEF ResultUnderflow, Running, HasComputation, Typed, Top
  <2>2. ~Balanced(comp, Len(result), saved_ctx # <<>>)
    <3> SUFFICES ASSUME Balanced(comp, Len(result), saved_ctx # <<>>)  PROVE FALSE
      OBVIOUS
    <3>1. (saved_ctx # <<>>) \in BOOLEAN
      OBVIOUS
    <3>2. Pops(Top) <= Len(result)
      BY <2>1, <3>1, TopBalanced
    <3>3. Pops(Top) \in Nat
      BY <2>1, ComputationFacts
    <3> QED  BY <1>2, <2>1, <3>2, <3>3 DEF ResultUnderflow
  <2>3. EmptyCall
    BY <2>2 DEF Disciplined, LiveBalanced
  <2>4. Fail("result_underflow")
    BY <1>2 DEF ResultUnderflow
  <2> QED  BY <1>1, <2>3, <2>4 DEF Disciplined, OnlyEmptyCallsUnderflow, ReturnsFindTheirCaller
<1>3. CASE SavedCtxUnderflow
  <2>1. /\ comp \in Seq(Computations) /\ comp # <<>> /\ Top = Last(comp) /\ Len(result) \in Nat
        /\ Top.type = "return_from_ctx" /\ Balanced(comp, Len(result), saved_ctx # <<>>)
    BY <1>3, ScheduledBalanced DEF SavedCtxUnderflow
  <2>2. (saved_ctx # <<>>) = FALSE
    BY <1>3 DEF SavedCtxUnderflow
  <2>3. Balanced(comp, Len(result), FALSE)
    BY <2>1, <2>2
  <2>4. Stays(Top)
    BY <2>1, <2>3, TopBalanced
  <2> QED  BY <2>1, <2>4 DEF Stays
<1>4. CASE ParamOutOfRange \/ StoreOutOfRange \/ DivisionTrap
  <2>1. \E kind \in {"param_out_of_range", "store_out_of_range", "sigfpe"} : Fail(kind)
    BY <1>4 DEF ParamOutOfRange, StoreOutOfRange, DivisionTrap
  <2> QED  BY <1>1, <2>1 DEF Disciplined, OnlyEmptyCallsUnderflow, ReturnsFindTheirCaller
<1> QED  BY <1>2, <1>3, <1>4 DEF Undefined

(***************************************************************************)
(* The theorems.                                                           *)
(***************************************************************************)
LEMMA InitDisciplined ==
  ASSUME Init
  PROVE  Disciplined
<1>1. /\ pgm \in Programs /\ comp = Reverse(StmtComps(pgm)) /\ Len(result) = 0
      /\ saved_ctx = <<>> /\ fault = "none"
  BY DEF Init
<1>2. pgm \in Seq(StmtId) /\ AllTopLevel(pgm)
  BY <1>1, SyntaxAssumption, DisciplineAssumption
<1>3. Balanced(comp, 0, FALSE)
  BY <1>1, <1>2, ProgramBalanced
<1>4. (saved_ctx # <<>>) = FALSE /\ DOMAIN saved_ctx = {}
  BY <1>1
<1> QED
  BY <1>1, <1>3, <1>4
     DEF Disciplined, LiveBalanced, SuspendedBalanced, OnlyEmptyCallsUnderflow,
         ReturnsFindTheirCaller

LEMMA NextDisciplined ==
  ASSUME Typed, Disciplined, [Next]_vars
  PROVE  Disciplined'
<1>1. CASE Step
  BY <1>1, ExpressionDisciplined, StatementDisciplined, FinalDisciplined, UndefinedDisciplined
     DEF Step
<1>2. CASE ConsumeOutput \/ UNCHANGED vars
  <2>1. UNCHANGED <<comp, result, saved_ctx, fault>>
    BY <1>2 DEF ConsumeOutput, vars
  <2> QED
    BY <2>1 DEF Disciplined, LiveBalanced, SuspendedBalanced, OnlyEmptyCallsUnderflow,
                ReturnsFindTheirCaller, EmptyCall
<1> QED  BY <1>1, <1>2 DEF Next

LEMMA HaltsCleanHere ==
  ASSUME Typed, Disciplined
  PROVE  HaltsClean
<1> SUFFICES ASSUME comp = <<>>  PROVE saved_ctx = <<>> /\ result = <<>>
  BY DEF HaltsClean, HasComputation
<1>1. ~EmptyCall
  BY DEF EmptyCall
<1>2. Balanced(<<>>, Len(result), saved_ctx # <<>>)
  BY <1>1 DEF Disciplined, LiveBalanced
<1>3. saved_ctx = <<>> /\ Len(result) = 0
  BY <1>2, EmptyBalanced
<1>4. result = <<>>
  BY <1>3, EmptySeq DEF Typed
<1> QED  BY <1>3, <1>4

LEMMA AlwaysDisciplined == Spec => [](Typed /\ Disciplined)
<1>1. Init => Typed /\ Disciplined
  BY InitTyped, InitDisciplined
<1>2. Typed /\ Disciplined /\ [Next]_vars => Typed' /\ Disciplined'
  BY NextTyped, NextDisciplined
<1> QED  BY <1>1, <1>2, PTL DEF Spec

(* PopResultOrDie never finds the result stack empty, whatever disciplined *)
(* program runs, but for the return added to the body of a value that is   *)
(* not a function (language_evaluation.cc, every final computation).       *)
THEOREM OperandsAreThere == Spec => []OnlyEmptyCallsUnderflow
<1>1. Disciplined => OnlyEmptyCallsUnderflow
  BY DEF Disciplined
<1> QED  BY <1>1, AlwaysDisciplined, PTL

(* RestoreLocalContext never finds saved_ctx empty: no return is evaluated *)
(* outside a function.                                                     *)
THEOREM CallersAreThere == Spec => []ReturnsFindTheirCaller
<1>1. Disciplined => ReturnsFindTheirCaller
  BY DEF Disciplined
<1> QED  BY <1>1, AlwaysDisciplined, PTL

(* When HasComputation is false the interpreter has left every function    *)
(* and holds no result.                                                    *)
THEOREM HaltsHoldingNothing == Spec => []HaltsClean
<1>1. Typed /\ Disciplined => HaltsClean
  BY HaltsCleanHere
<1> QED  BY <1>1, AlwaysDisciplined, PTL

(***************************************************************************)
(* The profile a balanced context has can be computed.                     *)
(***************************************************************************)
(* The recursion of Heights goes down to 0 from the top of any context. *)
LEMMA HeightsRecursion ==
  ASSUME NEW cs \in Seq(Computations), NEW n \in Int
  PROVE  /\ Heights(cs, n)[Len(cs)] = n
         /\ \A i \in 0 .. Len(cs) :
              /\ Heights(cs, n)[i] \in Int
              /\ i # Len(cs) =>
                   Heights(cs, n)[i]
                     = Heights(cs, n)[i + 1] - Pops(cs[i + 1]) + Pushes(cs[i + 1])
<1>1. PICK N : N = Len(cs)
  OBVIOUS
<1>2. N \in Nat
  BY <1>1, LenProperties
<1>3. \A i \in 0 .. N - 1 : Pops(cs[i + 1]) \in Int /\ Pushes(cs[i + 1]) \in Int
  <2> TAKE i \in 0 .. N - 1
  <2>1. i + 1 \in 1 .. Len(cs)
    BY <1>1, <1>2
  <2>2. cs[i + 1] \in Computations
    BY <2>1, ElementOfSeq
  <2> QED  BY <2>2, ComputationFacts
<1> DEFINE From(h, j) ==
             /\ h[N] = n
             /\ \A i \in j .. N - 1 : h[i] = h[i + 1] - Pops(cs[i + 1]) + Pushes(cs[i + 1])
           D == {j \in 0 .. N : \E h \in [j .. N -> Int] : From(h, j)}
<1>4. N \in D
  <2>1. PICK h : h = [i \in N .. N |-> n]
    OBVIOUS
  <2>2. h \in [N .. N -> Int] /\ h[N] = n
    BY <1>2, <2>1
  <2>3. \A i \in N .. N - 1 : FALSE
    BY <1>2
  <2>4. From(h, N)
    BY <2>2, <2>3
  <2> QED  BY <1>2, <2>2, <2>4
<1>5. PICK m \in D : \A j \in D : ~(j < m)
  <2>1. D \subseteq Nat /\ D # {}
    <3>1. D # {}
      <4> HIDE DEF D
      <4> QED  BY <1>4
    <3>2. D \subseteq 0 .. N
      <4> HIDE DEF From
      <4> QED  OBVIOUS
    <3>3. 0 .. N \subseteq Nat
      BY <1>2
    <3> HIDE DEF D
    <3> QED  BY <3>1, <3>2, <3>3
  <2>2. PICK m \in D : \A j \in D : <<j, m>> \notin OpToRel(<, Nat)
    <3> HIDE DEF D
    <3> QED  BY <2>1, NatLessThanWellFounded, WFMin
  <2>3. \A j \in D : ~(j < m)
    <3> HIDE DEF D
    <3> QED  BY <2>1, <2>2 DEF OpToRel
  <2> QED  BY <2>3
<1>6. m = 0
  <2> SUFFICES ASSUME m # 0  PROVE FALSE
    OBVIOUS
  <2>1. m \in 1 .. N /\ m - 1 \in 0 .. N - 1 /\ m - 1 + 1 = m
    BY <1>2
  <2>2. PICK h \in [m .. N -> Int] : From(h, m)
    OBVIOUS
  <2>3. PICK x : x = h[m] - Pops(cs[m]) + Pushes(cs[m])
    OBVIOUS
  <2>4. x \in Int
    <3>1. h[m] \in Int /\ Pops(cs[m]) \in Int /\ Pushes(cs[m]) \in Int
      <4>1. Pops(cs[m - 1 + 1]) \in Int /\ Pushes(cs[m - 1 + 1]) \in Int
        BY <1>3, <2>1
      <4>2. m \in m .. N
        BY <1>2, <2>1
      <4> QED  BY <2>1, <4>1, <4>2
    <3> QED  BY <2>3, <3>1
  <2>5. PICK g : g = [i \in m - 1 .. N |-> IF i = m - 1 THEN x ELSE h[i]]
    OBVIOUS
  <2>6. /\ g \in [m - 1 .. N -> Int] /\ g[m - 1] = x
        /\ \A i \in m .. N : g[i] = h[i]
    <3>1. \A i \in m - 1 .. N : i # m - 1 => h[i] \in Int
      <4> TAKE i \in m - 1 .. N
      <4> HAVE i # m - 1
      <4>1. i \in m .. N
        BY <1>2, <2>1
      <4> QED  BY <4>1
    <3>2. g \in [m - 1 .. N -> Int]
      BY <2>4, <2>5, <3>1
    <3>3. \A i \in m .. N : i \in m - 1 .. N /\ i # m - 1
      BY <1>2, <2>1
    <3>4. m - 1 \in m - 1 .. N
      BY <1>2, <2>1
    <3> QED  BY <2>5, <3>2, <3>3, <3>4
  <2>7. From(g, m - 1)
    <3>1. g[N] = n
      <4>1. N \in m .. N
        BY <1>2, <2>1
      <4> QED  BY <2>2, <2>6, <4>1
    <3>2. ASSUME NEW i \in m - 1 .. N - 1
          PROVE  g[i] = g[i + 1] - Pops(cs[i + 1]) + Pushes(cs[i + 1])
      <4>1. CASE i = m - 1
        <5>1. i + 1 = m /\ m \in m .. N
          BY <2>1, <4>1
        <5>2. g[i + 1] = h[m] /\ g[i] = x
          BY <2>6, <4>1, <5>1
        <5> QED  BY <2>3, <5>1, <5>2
      <4>2. CASE i # m - 1
        <5>1. i \in m .. N - 1 /\ i \in m .. N /\ i + 1 \in m .. N
          BY <1>2, <2>1, <4>2
        <5>2. h[i] = h[i + 1] - Pops(cs[i + 1]) + Pushes(cs[i + 1])
          BY <2>2, <5>1
        <5> QED  BY <2>6, <5>1, <5>2
      <4> QED  BY <4>1, <4>2
    <3> QED  BY <3>1, <3>2
  <2>8. m - 1 \in D
    <3> HIDE DEF From
    <3>1. m - 1 \in 0 .. N
      BY <1>2, <2>1
    <3> QED  BY <2>6, <2>7, <3>1
  <2> QED  BY <1>5, <2>1, <2>8
<1>7. PICK h \in [0 .. N -> Int] : From(h, 0)
  BY <1>6
<1>8. h = [i \in 0 .. N |->
             IF i = N THEN n ELSE h[i + 1] - Pops(cs[i + 1]) + Pushes(cs[i + 1])]
  <2>1. \A i \in 0 .. N :
          h[i] = IF i = N THEN n ELSE h[i + 1] - Pops(cs[i + 1]) + Pushes(cs[i + 1])
    BY <1>2, <1>7
  <2> HIDE DEF From
  <2> QED  BY <2>1
<1>9. PICK f : f = Heights(cs, n)
  OBVIOUS
<1>10. f = [i \in 0 .. N |->
              IF i = N THEN n ELSE f[i + 1] - Pops(cs[i + 1]) + Pushes(cs[i + 1])]
  <2>1. f = CHOOSE h2 : h2 = [i \in 0 .. N |->
                IF i = N THEN n ELSE h2[i + 1] - Pops(cs[i + 1]) + Pushes(cs[i + 1])]
    BY <1>1, <1>9, Zenon DEF Heights
  <2> QED  BY <1>8, <2>1, Zenon
<1>11. f[N] = n /\ \A i \in 0 .. N - 1 : f[i] = f[i + 1] - Pops(cs[i + 1]) + Pushes(cs[i + 1])
  BY <1>2, <1>10
<1> DEFINE E == {j \in 0 .. N : f[N - j] \notin Int}
<1>12. E = {}
  <2> SUFFICES ASSUME E # {}  PROVE FALSE
    OBVIOUS
  <2>1. E \subseteq Nat
    OBVIOUS
  <2>2. PICK j \in E : \A l \in E : <<l, j>> \notin OpToRel(<, Nat)
    <3> HIDE DEF E
    <3> QED  BY <2>1, NatLessThanWellFounded, WFMin
  <2>3. \A l \in E : ~(l < j)
    <3> HIDE DEF E
    <3> QED  BY <2>1, <2>2 DEF OpToRel
  <2>4. CASE j = 0
    BY <1>2, <1>11, <2>4
  <2>5. CASE j # 0
    <3>1. N - j \in 0 .. N - 1 /\ j - 1 \in 0 .. N /\ N - j + 1 = N - (j - 1) /\ j - 1 < j
      BY <1>2, <2>5
    <3>2. f[N - (j - 1)] \in Int
      BY <2>3, <3>1
    <3>3. f[N - j] = f[N - j + 1] - Pops(cs[N - j + 1]) + Pushes(cs[N - j + 1])
      BY <1>11, <3>1
    <3>4. Pops(cs[N - j + 1]) \in Int /\ Pushes(cs[N - j + 1]) \in Int
      BY <1>3, <3>1
    <3> QED  BY <3>1, <3>2, <3>3, <3>4
  <2> QED  BY <2>4, <2>5
<1>13. \A i \in 0 .. N : f[i] \in Int
  <2> TAKE i \in 0 .. N
  <2>1. N - i \in 0 .. N /\ N - (N - i) = i
    BY <1>2
  <2>2. N - i \notin E
    BY <1>12
  <2> QED  BY <2>1, <2>2
<1> HIDE DEF D, E, From
<1>14. \A i \in 0 .. N : i # N => f[i] = f[i + 1] - Pops(cs[i + 1]) + Pushes(cs[i + 1])
  BY <1>2, <1>11
<1> QED  BY <1>1, <1>9, <1>11, <1>13, <1>14

LEMMA BalancedComputed ==
  ASSUME NEW cs \in Seq(Computations), NEW n \in Nat, NEW inFunction \in BOOLEAN,
         Balanced(cs, n, inFunction)
  PROVE  IsBalanced(cs, n, inFunction)
<1>1. PICK N : N = Len(cs)
  OBVIOUS
<1>2. N \in Nat /\ DOMAIN cs = 1 .. N
  BY <1>1, LenProperties
<1>3. PICK k \in 0 .. N : \E h \in [k .. N -> Nat] : Profile(h, k, cs, n, inFunction)
  BY <1>1 DEF Balanced
<1>4. PICK h \in [k .. N -> Nat] : Profile(h, k, cs, n, inFunction)
  BY <1>3
<1>5. PICK f : f = Heights(cs, n)
  OBVIOUS
<1>6. /\ f[N] = n
      /\ \A i \in 0 .. N : f[i] \in Int
      /\ \A i \in 0 .. N :
           i # N => f[i] = f[i + 1] - Pops(cs[i + 1]) + Pushes(cs[i + 1])
  <2>1. n \in Int
    OBVIOUS
  <2> QED  BY <1>1, <1>5, <2>1, HeightsRecursion
<1>7. \A i \in k + 1 .. N : /\ Uniform(cs[i]) /\ Pops(cs[i]) <= h[i]
                           /\ h[i - 1] = h[i] - Pops(cs[i]) + Pushes(cs[i])
  BY <1>1, <1>4 DEF Profile, Lowers
<1> DEFINE E == {j \in 0 .. N - k : f[N - j] # h[N - j]}
<1>8. E = {}
  <2> SUFFICES ASSUME E # {}  PROVE FALSE
    OBVIOUS
  <2>1. E \subseteq Nat
    OBVIOUS
  <2>2. PICK j \in E : \A l \in E : <<l, j>> \notin OpToRel(<, Nat)
    <3> HIDE DEF E
    <3> QED  BY <2>1, NatLessThanWellFounded, WFMin
  <2>3. \A l \in E : ~(l < j)
    <3> HIDE DEF E
    <3> QED  BY <2>1, <2>2 DEF OpToRel
  <2>4. CASE j = 0
    <3>1. h[N] = n /\ N - 0 = N
      BY <1>1, <1>2, <1>4 DEF Profile
    <3> QED  BY <1>6, <2>4, <3>1
  <2>5. CASE j # 0
    <3>1. PICK i : i = N - j + 1
      OBVIOUS
    <3>2. /\ i \in k + 1 .. N /\ i - 1 \in 0 .. N /\ i - 1 # N /\ i - 1 + 1 = i /\ N - j = i - 1
          /\ j - 1 \in 0 .. N - k /\ N - (j - 1) = i /\ j - 1 < j
      BY <1>2, <2>5, <3>1
    <3>3. f[i] = h[i]
      BY <2>3, <3>2
    <3>4. f[i - 1] = f[i] - Pops(cs[i]) + Pushes(cs[i])
      BY <1>6, <3>2
    <3>5. h[i - 1] = h[i] - Pops(cs[i]) + Pushes(cs[i])
      BY <1>7, <3>2
    <3>6. f[N - j] = h[N - j]
      BY <3>2, <3>3, <3>4, <3>5
    <3> QED  BY <3>6
  <2> QED  BY <2>4, <2>5
<1>9. \A i \in k .. N : f[i] = h[i] /\ f[i] \in Nat
  <2> TAKE i \in k .. N
  <2>1. N - i \in 0 .. N - k /\ N - (N - i) = i /\ h[i] \in Nat
    BY <1>2
  <2>2. N - i \notin E
    BY <1>8
  <2> QED  BY <2>1, <2>2
<1> HIDE DEF E
<1> DEFINE exits == {i \in DOMAIN cs : IsExit(cs[i])}
           top == IF inFunction /\ exits # {} THEN Max(exits) ELSE 0
<1>10. /\ k <= top /\ top \in 0 .. N
       /\ inFunction => top # 0 /\ IsExit(cs[top]) /\ Pops(cs[top]) <= f[top]
       /\ ~inFunction => top = 0 /\ k = 0
  <2>1. CASE inFunction
    <3>1. k # 0 /\ IsExit(cs[k]) /\ Pops(cs[k]) <= h[k]
      BY <1>4, <2>1 DEF Profile
    <3>2. k \in exits /\ exits \in SUBSET (1 .. N) /\ exits # {}
      BY <1>2, <3>1
    <3>3. Max(exits) \in exits /\ \A i \in exits : i <= Max(exits)
      <4> HIDE DEF exits
      <4> QED  BY <1>2, <3>2, MaxOfIndices
    <3>4. top = Max(exits)
      BY <2>1, <3>2
    <3>5. top \in 1 .. N /\ IsExit(cs[top]) /\ k <= top
      BY <1>2, <3>2, <3>3, <3>4
    <3>6. Pops(cs[top]) <= f[top]
      <4>1. CASE top = k
        BY <1>2, <1>9, <3>1, <4>1
      <4>2. CASE top # k
        <5>1. top \in k + 1 .. N /\ top \in k .. N
          BY <1>2, <3>5, <4>2
        <5> QED  BY <1>7, <1>9, <5>1
      <4> QED  BY <4>1, <4>2
    <3> QED  BY <1>2, <2>1, <3>5, <3>6
  <2>2. CASE ~inFunction
    BY <1>2, <1>4, <2>2 DEF Profile
  <2> QED  BY <2>1, <2>2
<1> HIDE DEF top
<1>11. \A i \in top + 1 .. N : Lowers(cs[i], f[i], f[i - 1])
  <2> TAKE i \in top + 1 .. N
  <2>1. i \in k + 1 .. N /\ i \in k .. N /\ i - 1 \in k .. N
    BY <1>2, <1>10
  <2> QED  BY <1>7, <1>9, <2>1 DEF Lowers
<1>12. ~inFunction => f[0] = 0 /\ \A i \in DOMAIN cs : Stays(cs[i])
  <2> HAVE ~inFunction
  <2>1. k = 0 /\ h[0] = 0 /\ \A i \in DOMAIN cs : Stays(cs[i])
    BY <1>4 DEF Profile
  <2>2. 0 \in k .. N
    BY <1>2, <2>1
  <2> QED  BY <1>9, <2>1, <2>2
<1>13. Profile(f, top, cs, n, inFunction)
  <2>1. f[Len(cs)] = n /\ \A i \in top + 1 .. Len(cs) : Lowers(cs[i], f[i], f[i - 1])
    BY <1>1, <1>6, <1>11
  <2> QED  BY <1>10, <1>12, <2>1 DEF Profile
<1>14. \A i \in top .. Len(cs) : f[i] >= 0
  <2> TAKE i \in top .. Len(cs)
  <2>1. i \in k .. N
    BY <1>1, <1>2, <1>10
  <2>2. f[i] \in Nat
    BY <1>9, <2>1
  <2> QED  BY <2>2
<1> QED  BY <1>5, <1>13, <1>14 DEF IsBalanced, top

LEMMA DisciplinedBalances ==
  ASSUME Typed, Disciplined
  PROVE  ContextsBalanced
<1>1. /\ comp \in Seq(Computations) /\ Len(result) \in Nat /\ (saved_ctx # <<>>) \in BOOLEAN
      /\ saved_ctx \in Seq(LocalContexts(Len(store)))
  BY LenProperties DEF Typed
<1>2. \/ IsBalanced(comp, Len(result), saved_ctx # <<>>)
      \/ EmptyCall /\ saved_ctx # <<>>
  BY <1>1, BalancedComputed DEF Disciplined, LiveBalanced
<1>3. ASSUME NEW d \in DOMAIN saved_ctx
      PROVE  IsBalanced(saved_ctx[d].comp, Len(saved_ctx[d].result) + 1, d > 1)
  <2>1. saved_ctx[d] \in LocalContexts(Len(store))
    BY <1>1, LenProperties, ElementOfSeq
  <2>2. saved_ctx[d].comp \in Seq(Computations) /\ Len(saved_ctx[d].result) + 1 \in Nat
    BY <2>1, LenProperties DEF LocalContexts
  <2>3. Balanced(saved_ctx[d].comp, Len(saved_ctx[d].result) + 1, d > 1)
    BY DEF Disciplined, SuspendedBalanced
  <2>4. (d > 1) \in BOOLEAN
    OBVIOUS
  <2> QED  BY <2>2, <2>3, <2>4, BalancedComputed
<1> QED  BY <1>2, <1>3 DEF ContextsBalanced

(* At any time, in any context, suspended or not, every computation still  *)
(* to come will find on the result stack what its handler pops, and a      *)
(* function's context is left at its topmost exit.                         *)
THEOREM StacksAreBalanced == Spec => []ContextsBalanced
<1>1. Typed /\ Disciplined => ContextsBalanced
  BY DisciplinedBalances
<1> QED  BY <1>1, AlwaysDisciplined, PTL
===============================================================================
