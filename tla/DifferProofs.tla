------------------------------ MODULE DifferProofs ------------------------------
(***************************************************************************)
(* SequenceDiffer for every set of values, every relation eq_ and every    *)
(* sequences: its types, the optimality of the memo table, the stability   *)
(* of the pointers into it, that the modifications returned lead from the  *)
(* beginning of both sequences to their ends and are as few as can be, and *)
(* that their listing shows both sequences.                                *)
(***************************************************************************)
EXTENDS SequenceDiffer, SeqLemmas

(* The modifications an activation has considered. *)
Tried(at) ==
  {kind \in Kinds : at = "return" \/ (kind # "kNoChange" /\ at = "kNoChange")
                                \/ (kind = "kDeletion" /\ at = "kAddition")}

(* An activation is on a subproblem the table does not have, and its best  *)
(* is the best of what it has considered.                                  *)
Sound(f) ==
  /\ f.key \notin DOMAIN cached_seqs
  /\ f.best = <<>> => \A kind \in Tried(f.at) : ~Possible(f.key, kind)
  /\ f.best # <<>> => Optimal(f.best[1], f.key, Tried(f.at))

Left(f) == f.key[1] + f.key[2]

CallsSound ==
  /\ \A i \in DOMAIN calls : Sound(calls[i])
  /\ \A i, j \in DOMAIN calls : i < j => Left(calls[j]) < Left(calls[i])
  /\ calls # <<>> => calls[1].key = <<Len(lhs), Len(rhs)>>

(* m starts where it should and, if it consumes something, that is there. *)
Fits(m) ==
  /\ m.kind # "kAddition" => m.lhs <= Len(lhs)
  /\ m.kind # "kDeletion" => m.rhs <= Len(rhs)
  /\ m.kind = "kNoChange" => <<lhs[m.lhs], rhs[m.rhs]>> \in Eq

(* The modifications collected lead to where result_list goes on. *)
PathSoFar ==
  /\ result # <<>> => result[1].lhs = 1 /\ result[1].rhs = 1
  /\ \A i \in 1 .. Len(result) - 1 :
       /\ result[i + 1].lhs = NextLhs(result[i])
       /\ result[i + 1].rhs = NextRhs(result[i])
       /\ Fits(result[i])
  /\ IF result_list = nullptr
     THEN result # <<>> /\ result[Len(result)] = Modification(<<0, 0>>, "kNoChange")
     ELSE IF result = <<>>
     THEN result_list = <<Len(lhs), Len(rhs)>>
     ELSE /\ LhsAt(result_list[1]) = NextLhs(result[Len(result)])
          /\ RhsAt(result_list[2]) = NextRhs(result[Len(result)])
          /\ Fits(result[Len(result)])

StageSound ==
  /\ (stage = "recursing") = (calls # <<>>)
  /\ stage = "recursing" => result = <<>>
  /\ stage = "following" => result_list \in DOMAIN cached_seqs \cup {nullptr}
  /\ stage # "following" => result_list = nullptr
  /\ stage \in {"following", "returned"} => PathSoFar

(* The inductive invariant. *)
Inv == TypeOK /\ CacheIsOptimal /\ CallsSound /\ StageSound

-----------------------------------------------------------------------------
(***************************************************************************)
(* The stack of activations.                                               *)
(***************************************************************************)
LEMMA TopFacts ==
  ASSUME TypeOK, calls # <<>>
  PROVE  /\ Len(calls) \in Nat \ {0} /\ DOMAIN calls = 1 .. Len(calls)
         /\ Top \in Frames /\ Len(Top.best) <= 1
         /\ Top.key \in Keys /\ Top.key[1] \in Nat /\ Top.key[2] \in Nat
         /\ Top.key = <<Top.key[1], Top.key[2]>>
<1>1. Len(calls) \in Nat \ {0} /\ DOMAIN calls = 1 .. Len(calls)
  BY EmptySeq, LenProperties DEF TypeOK
<1>2. Top \in Frames
  BY <1>1, ElementOfSeq DEF TypeOK, Top
<1>3. Len(Top.best) <= 1
  BY <1>1 DEF TypeOK, Top
<1>4. Len(lhs) \in Nat /\ Len(rhs) \in Nat
  BY LenProperties DEF TypeOK
<1> QED  BY <1>1, <1>2, <1>3, <1>4 DEF Frames, Keys

LEMMA Replaced ==
  ASSUME NEW S, NEW s \in Seq(S), s # <<>>, NEW x \in S
  PROVE  LET t == Append(SubSeq(s, 1, Len(s) - 1), x)
         IN  /\ t \in Seq(S) /\ Len(t) = Len(s) /\ t # <<>>
             /\ \A i \in 1 .. Len(s) - 1 : t[i] = s[i]
             /\ t[Len(s)] = x
<1>1. Len(s) \in Nat \ {0}
  BY EmptySeq, LenProperties
<1> DEFINE u == SubSeq(s, 1, Len(s) - 1)
<1>2. 1 \in 0 .. Len(s)
  BY <1>1
<1>3. u \in Seq(S) /\ Len(u) = Len(s) - 1 /\ \A i \in 1 .. Len(s) - 1 : u[i] = s[i]
  BY <1>2, Prefix
<1> HIDE DEF u
<1>4. /\ Append(u, x) \in Seq(S) /\ Append(u, x) # <<>> /\ Len(Append(u, x)) = Len(u) + 1
      /\ \A i \in 1 .. Len(u) : Append(u, x)[i] = u[i]
      /\ Append(u, x)[Len(u) + 1] = x
  BY <1>3, AppendProperties
<1> QED  BY <1>1, <1>3, <1>4 DEF u

LEMMA Pushed ==
  ASSUME NEW S, NEW s \in Seq(S), NEW x \in S
  PROVE  /\ Len(s) \in Nat
         /\ Append(s, x) \in Seq(S) /\ Len(Append(s, x)) = Len(s) + 1 /\ Append(s, x) # <<>>
         /\ \A i \in 1 .. Len(s) : Append(s, x)[i] = s[i]
         /\ Append(s, x)[Len(s) + 1] = x
BY AppendProperties, LenProperties

LEMMA Popped ==
  ASSUME NEW S, NEW s \in Seq(S), s # <<>>
  PROVE  LET t == SubSeq(s, 1, Len(s) - 1)
         IN  /\ t \in Seq(S) /\ Len(t) = Len(s) - 1
             /\ \A i \in 1 .. Len(s) - 1 : t[i] = s[i]
<1>1. Len(s) \in Nat \ {0}
  BY EmptySeq, LenProperties
<1>2. 1 \in 0 .. Len(s)
  BY <1>1
<1> QED  BY <1>2, Prefix

(***************************************************************************)
(* What depends on the sequences and on the table.                         *)
(***************************************************************************)
LEMMA TypesFixed ==
  ASSUME UNCHANGED <<lhs, rhs>>
  PROVE  /\ Keys' = Keys /\ Modifications' = Modifications /\ Results' = Results
         /\ Frames' = Frames
BY DEF Keys, Modifications, Results, Frames

LEMMA OptimalFixed ==
  ASSUME UNCHANGED <<lhs, rhs, cached_seqs>>, NEW r, NEW key, NEW kinds
  PROVE  Optimal(r, key, kinds)' <=> Optimal(r, key, kinds)
BY DEF Optimal, Possible, Modification, LhsAt, RhsAt, Sentinel

(* More entries keep an optimal result optimal. *)
LEMMA OptimalGrows ==
  ASSUME UNCHANGED <<lhs, rhs>>, NEW new, new \notin DOMAIN cached_seqs, NEW x,
         cached_seqs' = Extend(cached_seqs, new, x),
         NEW r, NEW key, NEW kinds, Optimal(r, key, kinds)
  PROVE  Optimal(r, key, kinds)'
<1>1. /\ DOMAIN cached_seqs \subseteq DOMAIN cached_seqs'
      /\ \A k \in DOMAIN cached_seqs : cached_seqs'[k] = cached_seqs[k]
  BY DEF Extend
<1>2. \A kind : Possible(key, kind)' <=> Possible(key, kind)
  BY DEF Possible, LhsAt, RhsAt
<1>3. \A kind : Modification(key, kind)' = Modification(key, kind)
  BY DEF Modification, LhsAt, RhsAt
<1>4. Sentinel' = Sentinel
  BY DEF Sentinel, Modification, LhsAt, RhsAt
<1>5. \A kind \in kinds : Possible(key, kind) => Rest(key, kind) \in DOMAIN cached_seqs
  BY DEF Optimal
<1>6. \A kind \in kinds : Possible(key, kind)' =>
        /\ Rest(key, kind) \in DOMAIN cached_seqs'
        /\ r.len <= Cost(kind) + cached_seqs'[Rest(key, kind)].len
  BY <1>1, <1>2, <1>5 DEF Optimal
<1>7. \/ \E kind \in kinds :
           /\ Possible(key, kind)'
           /\ r = ModSeqResult(Modification(key, kind)', Rest(key, kind),
                               Cost(kind) + cached_seqs'[Rest(key, kind)].len)
      \/ key = <<0, 0>> /\ r = Sentinel'
  <2>1. CASE key = <<0, 0>> /\ r = Sentinel
    BY <1>4, <2>1
  <2>2. CASE \E kind \in kinds :
               /\ Possible(key, kind)
               /\ r = ModSeqResult(Modification(key, kind), Rest(key, kind),
                                   Cost(kind) + cached_seqs[Rest(key, kind)].len)
    BY <1>1, <1>2, <1>3, <1>5, <2>2
  <2> QED  BY <2>1, <2>2 DEF Optimal
<1> QED  BY <1>6, <1>7 DEF Optimal

(* A modification that is possible leaves a smaller subproblem. *)
LEMMA RestIsSmaller ==
  ASSUME NEW key \in Keys, NEW kind \in Kinds, Possible(key, kind), TypeOK
  PROVE  /\ Rest(key, kind) \in Keys
         /\ Rest(key, kind)[1] + Rest(key, kind)[2] < key[1] + key[2]
<1>1. Len(lhs) \in Nat /\ Len(rhs) \in Nat
  BY LenProperties DEF TypeOK
<1> QED  BY <1>1 DEF Keys, Rest, Possible, Kinds, Changes

(* Every activation but the innermost stays as it is, and that one stays   *)
(* sound on the same subproblem.                                           *)
LEMMA TopReplaced ==
  ASSUME Inv, stage = "recursing", UNCHANGED <<lhs, rhs, cached_seqs, result_list, result, stage>>,
         NEW f \in Frames, Len(f.best) <= 1, f.key = Top.key, Sound(f), SetTop(f)
  PROVE  Inv'
<1>1. calls # <<>>
  BY DEF Inv, StageSound
<1>2. /\ Len(calls) \in Nat \ {0} /\ DOMAIN calls = 1 .. Len(calls)
  BY <1>1, TopFacts DEF Inv
<1>3. /\ calls' \in Seq(Frames) /\ Len(calls') = Len(calls) /\ calls' # <<>>
      /\ \A i \in 1 .. Len(calls) - 1 : calls'[i] = calls[i]
      /\ calls'[Len(calls)] = f
  BY <1>1, Replaced DEF Inv, TypeOK, SetTop, Callers
<1>4. DOMAIN calls' = 1 .. Len(calls)
  BY <1>3, LenProperties
<1>5. \A i \in 1 .. Len(calls) : calls'[i].key = calls[i].key
  BY <1>2, <1>3 DEF Top
<1>6. TypeOK'
  <2>1. \A i \in DOMAIN calls' : Len(calls'[i].best) <= 1
    <3> SUFFICES ASSUME NEW i \in DOMAIN calls'  PROVE Len(calls'[i].best) <= 1
      OBVIOUS
    <3>1. CASE i = Len(calls)
      BY <3>1, <1>3
    <3>2. CASE i \in 1 .. Len(calls) - 1
      <4>1. i \in DOMAIN calls /\ calls'[i] = calls[i]
        BY <3>2, <1>2, <1>3
      <4>2. \A j \in DOMAIN calls : Len(calls[j].best) <= 1
        BY DEF Inv, TypeOK
      <4> QED  BY <4>1, <4>2
    <3> QED  BY <3>1, <3>2, <1>2, <1>4
  <2>2. /\ Keys' = Keys /\ Modifications' = Modifications /\ Results' = Results
        /\ Frames' = Frames
    BY TypesFixed
  <2> QED  BY <1>3, <2>1, <2>2 DEF Inv, TypeOK
<1>7. CacheIsOptimal'
  BY OptimalFixed DEF Inv, CacheIsOptimal
<1>8. CallsSound'
  <2>1. \A i \in DOMAIN calls' : Sound(calls'[i])
    <3> SUFFICES ASSUME NEW i \in DOMAIN calls'  PROVE Sound(calls'[i])
      OBVIOUS
    <3>1. CASE i = Len(calls)
      BY <3>1, <1>3
    <3>2. CASE i \in 1 .. Len(calls) - 1
      BY <3>2, <1>2, <1>3 DEF Inv, CallsSound
    <3> QED  BY <3>1, <3>2, <1>2, <1>4
  <2>2. \A i \in DOMAIN calls' : Sound(calls[i])' 
    <3> SUFFICES ASSUME NEW i \in DOMAIN calls'  PROVE Sound(calls[i])'
      OBVIOUS
    <3>1. Sound(calls'[i])
      BY <2>1
    <3>2. \A g, kind : Possible(g, kind)' <=> Possible(g, kind)
      BY DEF Possible, LhsAt, RhsAt
    <3>3. \A r, g, kinds : Optimal(r, g, kinds)' <=> Optimal(r, g, kinds)
      BY OptimalFixed
    <3> QED  BY <3>1, <3>2, <3>3 DEF Sound
  <2>3. \A i, j \in DOMAIN calls' : i < j => Left(calls'[j]) < Left(calls'[i])
    BY <1>2, <1>4, <1>5 DEF Inv, CallsSound, Left
  <2>4. calls'[1].key = <<Len(lhs), Len(rhs)>>
    BY <1>1, <1>2, <1>5 DEF Inv, CallsSound
  <2> QED  BY <2>2, <2>3, <2>4 DEF CallsSound, Left
<1>9. StageSound'
  BY <1>3 DEF Inv, StageSound
<1> QED  BY <1>6, <1>7, <1>8, <1>9 DEF Inv

(***************************************************************************)
(* The steps of the recursion.                                             *)
(***************************************************************************)
LEMMA TriedAfter ==
  ASSUME NEW kind \in Kinds
  PROVE  /\ After(kind) \in Kinds \cup {"return"}
         /\ Tried(After(kind)) = Tried(kind) \cup {kind}
BY DEF After, Tried, Kinds, Changes

LEMMA SkipStep ==
  ASSUME Inv, NEW kind \in Kinds, Skip(kind)
  PROVE  Inv'
<1>1. stage = "recursing" /\ Top.at = kind /\ ~Possible(Top.key, kind)
  BY DEF Skip, Recursing
<1>2. calls # <<>>
  BY <1>1 DEF Inv, StageSound
<1>3. Top \in Frames /\ Len(Top.best) <= 1 /\ Len(calls) \in DOMAIN calls
  BY <1>2, TopFacts DEF Inv
<1>4. Sound(Top)
  BY <1>3 DEF Inv, CallsSound, Top
<1>5. PICK f : f = [Top EXCEPT !.at = After(kind)]
  OBVIOUS
<1>6. f \in Frames /\ f.key = Top.key /\ f.best = Top.best /\ f.at = After(kind)
  BY <1>3, <1>5, TriedAfter DEF Frames
<1>7. Sound(f)
  <2>1. \A r : Optimal(r, f.key, Tried(kind)) => Optimal(r, f.key, Tried(kind) \cup {kind})
    BY <1>1, <1>6 DEF Optimal
  <2>2. Tried(f.at) = Tried(kind) \cup {kind}
    BY <1>6, TriedAfter
  <2> QED  BY <1>1, <1>4, <1>6, <2>1, <2>2 DEF Sound
<1>8. SetTop(f) /\ UNCHANGED <<lhs, rhs, cached_seqs, result_list, result, stage>>
  BY <1>5 DEF Skip
<1> QED  BY <1>1, <1>3, <1>6, <1>7, <1>8, TopReplaced

LEMMA ModificationType ==
  ASSUME TypeOK, NEW key \in Keys, NEW kind \in Kinds
  PROVE  Modification(key, kind) \in Modifications
<1>1. Len(lhs) \in Nat /\ Len(rhs) \in Nat
  BY LenProperties DEF TypeOK
<1> QED  BY <1>1 DEF Modification, Modifications, LhsAt, RhsAt, Keys

(* What a possible modification, made of an entry of the table, gives. *)
LEMMA MadeType ==
  ASSUME TypeOK, NEW key \in Keys, NEW kind \in Kinds, Possible(key, kind),
         Rest(key, kind) \in DOMAIN cached_seqs
  PROVE  /\ cached_seqs[Rest(key, kind)].len \in Nat
         /\ ModSeqResult(Modification(key, kind), Rest(key, kind),
                         Cost(kind) + cached_seqs[Rest(key, kind)].len) \in Results
<1>1. cached_seqs[Rest(key, kind)].len \in Nat
  BY DEF TypeOK, Results
<1>2. Cost(kind) \in Nat
  BY DEF Cost
<1>3. Rest(key, kind) \in Keys /\ Modification(key, kind) \in Modifications
  BY RestIsSmaller, ModificationType
<1>4. Cost(kind) + cached_seqs[Rest(key, kind)].len \in Nat
  BY <1>1, <1>2
<1> QED  BY <1>1, <1>3, <1>4 DEF ModSeqResult, Results

LEMMA MakeModificationStep ==
  ASSUME Inv, NEW kind \in Kinds, MakeModification(kind)
  PROVE  Inv'
<1>1. /\ stage = "recursing" /\ Top.at = kind /\ Possible(Top.key, kind)
      /\ Rest(Top.key, kind) \in DOMAIN cached_seqs
  BY DEF MakeModification, Recursing
<1>2. calls # <<>>
  BY <1>1 DEF Inv, StageSound
<1>3. /\ Top \in Frames /\ Len(Top.best) <= 1 /\ Len(calls) \in DOMAIN calls
      /\ Top.key \in Keys
  BY <1>2, TopFacts DEF Inv
<1>4. Sound(Top)
  BY <1>3 DEF Inv, CallsSound, Top
<1> DEFINE made == ModSeqResult(Modification(Top.key, kind), Rest(Top.key, kind),
                                Cost(kind) + cached_seqs[Rest(Top.key, kind)].len)
<1>5. PICK m : m = made
  OBVIOUS
<1>6. PICK f : f = [Top EXCEPT !.at = After(kind),
                               !.best = IF Better(m, Top.best) THEN <<m>> ELSE Top.best]
  OBVIOUS
<1>7. m \in Results /\ cached_seqs[Rest(Top.key, kind)].len \in Nat
  BY <1>1, <1>3, <1>5, MadeType DEF Inv
<1>8. m.len = Cost(kind) + cached_seqs[Rest(Top.key, kind)].len /\ m.len \in Nat
  BY <1>5, <1>7 DEF ModSeqResult, Results
<1>9. /\ f \in Frames /\ f.key = Top.key /\ f.at = After(kind)
      /\ f.best = IF Better(m, Top.best) THEN <<m>> ELSE Top.best
      /\ Len(f.best) <= 1
  <2>1. PICK b : b = IF Better(m, Top.best) THEN <<m>> ELSE Top.best
    OBVIOUS
  <2>2. b \in Seq(Results) /\ Len(b) <= 1
    BY <2>1, <1>3, <1>7 DEF Frames
  <2>3. After(kind) \in Kinds \cup {"return"}
    BY TriedAfter
  <2>4. f = [Top EXCEPT !.at = After(kind), !.best = b]
    BY <2>1, <1>6
  <2>5. f \in Frames /\ f.key = Top.key /\ f.at = After(kind) /\ f.best = b
    BY <2>2, <2>3, <2>4, <1>3 DEF Frames
  <2> QED  BY <2>1, <2>2, <2>5
<1>10. Tried(f.at) = Tried(kind) \cup {kind} /\ Tried(kind) \subseteq Kinds
  BY <1>9, TriedAfter DEF Tried
<1>11. Optimal(m, Top.key, {kind})
  BY <1>1, <1>5, <1>8 DEF Optimal
<1>12. Sound(f)
  <2>1. CASE Top.best = <<>>
    <3>1. f.best = <<m>>
      BY <2>1, <1>9 DEF Better
    <3>2. \A k \in Tried(kind) : ~Possible(Top.key, k)
      BY <2>1, <1>1, <1>4 DEF Sound
    <3>3. Optimal(m, Top.key, Tried(kind) \cup {kind})
      BY <3>2, <1>11 DEF Optimal
    <3> QED  BY <3>1, <3>3, <1>4, <1>9, <1>10 DEF Sound
  <2>2. CASE Top.best # <<>>
    <3>1. Optimal(Top.best[1], Top.key, Tried(kind))
      BY <2>2, <1>1, <1>4 DEF Sound
    <3>2. Top.best[1].len \in Nat
      <4>1. Top.best \in Seq(Results)
        BY <1>3 DEF Frames
      <4>2. Len(Top.best) \in Nat \ {0}
        BY <2>2, <4>1, EmptySeq, LenProperties
      <4>3. Top.best[1] \in Results
        BY <4>1, <4>2, ElementOfSeq
      <4> QED  BY <4>3 DEF Results
    <3>3. \A k \in Tried(kind) : Possible(Top.key, k) =>
            /\ Rest(Top.key, k) \in DOMAIN cached_seqs
            /\ Cost(k) + cached_seqs[Rest(Top.key, k)].len \in Nat
            /\ Top.best[1].len <= Cost(k) + cached_seqs[Rest(Top.key, k)].len
      <4> SUFFICES ASSUME NEW k \in Tried(kind), Possible(Top.key, k)
                   PROVE  /\ Rest(Top.key, k) \in DOMAIN cached_seqs
                          /\ Cost(k) + cached_seqs[Rest(Top.key, k)].len \in Nat
                          /\ Top.best[1].len <= Cost(k) + cached_seqs[Rest(Top.key, k)].len
        OBVIOUS
      <4>1. /\ Rest(Top.key, k) \in DOMAIN cached_seqs
            /\ Top.best[1].len <= Cost(k) + cached_seqs[Rest(Top.key, k)].len
        BY <3>1 DEF Optimal
      <4>2. cached_seqs[Rest(Top.key, k)].len \in Nat
        BY <4>1, <1>3, <1>10, MadeType DEF Inv
      <4> QED  BY <4>1, <4>2 DEF Cost
    <3>4. CASE m.len < Top.best[1].len
      <4>1. f.best = <<m>>
        BY <3>4, <1>9 DEF Better
      <4>2. \A k \in Tried(kind) : Possible(Top.key, k) =>
              m.len <= Cost(k) + cached_seqs[Rest(Top.key, k)].len
        BY <3>2, <3>3, <3>4, <1>8
      <4>3. Optimal(m, Top.key, Tried(kind) \cup {kind})
        BY <3>3, <4>2, <1>11 DEF Optimal
      <4> QED  BY <4>1, <4>3, <1>4, <1>9, <1>10 DEF Sound
    <3>5. CASE ~(m.len < Top.best[1].len)
      <4>1. f.best = Top.best
        BY <2>2, <3>5, <1>9 DEF Better
      <4>2. Top.best[1].len <= m.len
        BY <3>2, <3>5, <1>8
      <4>3. Optimal(Top.best[1], Top.key, Tried(kind) \cup {kind})
        BY <3>1, <4>2, <1>1, <1>8 DEF Optimal
      <4> QED  BY <4>1, <4>3, <2>2, <1>4, <1>9, <1>10 DEF Sound
    <3> QED  BY <3>4, <3>5
  <2> QED  BY <2>1, <2>2
<1>13. SetTop(f) /\ UNCHANGED <<lhs, rhs, cached_seqs, result_list, result, stage>>
  BY <1>5, <1>6 DEF MakeModification
<1> QED  BY <1>1, <1>9, <1>12, <1>13, TopReplaced

LEMMA LeftType ==
  ASSUME TypeOK
  PROVE  \A f \in Frames : Left(f) \in Int
<1>1. Len(lhs) \in Nat /\ Len(rhs) \in Nat
  BY LenProperties DEF TypeOK
<1>2. \A key \in Keys : key[1] + key[2] \in Int
  BY <1>1 DEF Keys
<1> QED  BY <1>2 DEF Frames, Left

LEMMA RecurseStep ==
  ASSUME Inv, NEW kind \in Kinds, Recurse(kind)
  PROVE  Inv'
<1>1. /\ stage = "recursing" /\ Possible(Top.key, kind)
      /\ Rest(Top.key, kind) \notin DOMAIN cached_seqs
      /\ UNCHANGED <<lhs, rhs, cached_seqs, result_list, result, stage>>
  BY DEF Recurse, Recursing
<1>2. calls # <<>>
  BY <1>1 DEF Inv, StageSound
<1>3. /\ Len(calls) \in Nat \ {0} /\ DOMAIN calls = 1 .. Len(calls)
      /\ Top.key \in Keys
  BY <1>2, TopFacts DEF Inv
<1>4. PICK f : f = Call(Rest(Top.key, kind))
  OBVIOUS
<1>5. /\ f.key = Rest(Top.key, kind) /\ f.at = "kDeletion" /\ f.best = <<>>
      /\ f.key \in Keys /\ Left(f) < Left(Top)
  BY <1>1, <1>3, <1>4, RestIsSmaller DEF Inv, Call, Left
<1>6. f \in Frames
  BY <1>4, <1>5 DEF Call, Frames, Kinds, Changes
<1>7. /\ calls' \in Seq(Frames) /\ Len(calls') = Len(calls) + 1 /\ calls' # <<>>
      /\ \A i \in 1 .. Len(calls) : calls'[i] = calls[i]
      /\ calls'[Len(calls) + 1] = f
  BY <1>4, <1>6, Pushed DEF Recurse, Inv, TypeOK
<1>8. DOMAIN calls' = 1 .. Len(calls) + 1
  BY <1>7, LenProperties
<1>9. \A i \in DOMAIN calls' : i \in DOMAIN calls \/ i = Len(calls) + 1
  BY <1>3, <1>8
<1>10. TypeOK'
  <2>1. \A i \in DOMAIN calls' : Len(calls'[i].best) <= 1
    <3>1. Len(f.best) <= 1
      BY <1>5
    <3>2. \A j \in DOMAIN calls : Len(calls[j].best) <= 1 /\ calls'[j] = calls[j]
      BY <1>3, <1>7 DEF Inv, TypeOK
    <3> QED  BY <3>1, <3>2, <1>7, <1>9
  <2>2. /\ Keys' = Keys /\ Modifications' = Modifications /\ Results' = Results
        /\ Frames' = Frames
    BY <1>1, TypesFixed
  <2> QED  BY <1>1, <1>7, <2>1, <2>2 DEF Inv, TypeOK
<1>11. CacheIsOptimal'
  BY <1>1, OptimalFixed DEF Inv, CacheIsOptimal
<1>12. CallsSound'
  <2>1. \A i \in DOMAIN calls' : Sound(calls'[i])
    <3>1. Sound(f)
      BY <1>1, <1>5 DEF Sound, Tried
    <3>2. \A j \in DOMAIN calls : Sound(calls[j]) /\ calls'[j] = calls[j]
      BY <1>3, <1>7 DEF Inv, CallsSound
    <3> QED  BY <3>1, <3>2, <1>7, <1>9
  <2>2. \A i \in DOMAIN calls' : Sound(calls[i])'
    <3> SUFFICES ASSUME NEW i \in DOMAIN calls'  PROVE Sound(calls[i])'
      OBVIOUS
    <3>1. Sound(calls'[i])
      BY <2>1
    <3>2. \A g, k : Possible(g, k)' <=> Possible(g, k)
      BY <1>1 DEF Possible, LhsAt, RhsAt
    <3>3. \A r, g, kinds : Optimal(r, g, kinds)' <=> Optimal(r, g, kinds)
      BY <1>1, OptimalFixed
    <3> QED  BY <1>1, <3>1, <3>2, <3>3 DEF Sound
  <2>3. \A i, j \in DOMAIN calls' : i < j => Left(calls'[j]) < Left(calls'[i])
    <3>1. \A i \in DOMAIN calls : Left(f) < Left(calls[i])
      <4> SUFFICES ASSUME NEW i \in DOMAIN calls  PROVE Left(f) < Left(calls[i])
        OBVIOUS
      <4>1. Left(f) < Left(calls[Len(calls)])
        BY <1>5 DEF Top
      <4>2. i < Len(calls) => Left(calls[Len(calls)]) < Left(calls[i])
        BY <1>3 DEF Inv, CallsSound
      <4>3. Left(f) \in Int /\ Left(calls[i]) \in Int /\ Left(calls[Len(calls)]) \in Int
        <5>1. calls[i] \in Frames /\ calls[Len(calls)] \in Frames
          BY <1>3, ElementOfSeq DEF Inv, TypeOK
        <5> QED  BY <5>1, <1>6, LeftType DEF Inv
      <4> QED  BY <1>3, <4>1, <4>2, <4>3
    <3>2. \A i, j \in DOMAIN calls : i < j => Left(calls[j]) < Left(calls[i])
      BY DEF Inv, CallsSound
    <3>3. \A i \in DOMAIN calls : calls'[i] = calls[i]
      BY <1>3, <1>7
    <3>4. \A i \in DOMAIN calls : i \in Nat /\ i < Len(calls) + 1
      BY <1>3
    <3> SUFFICES ASSUME NEW i \in DOMAIN calls', NEW j \in DOMAIN calls', i < j
                 PROVE  Left(calls'[j]) < Left(calls'[i])
      OBVIOUS
    <3>5. i \in DOMAIN calls
      BY <1>3, <1>8
    <3> QED  BY <3>1, <3>2, <3>3, <3>5, <1>7, <1>9
  <2>4. calls'[1].key = <<Len(lhs), Len(rhs)>>
    BY <1>2, <1>3, <1>7 DEF Inv, CallsSound
  <2> QED  BY <1>1, <2>2, <2>3, <2>4 DEF CallsSound, Left
<1>13. StageSound'
  BY <1>1, <1>7 DEF Inv, StageSound
<1> QED  BY <1>10, <1>11, <1>12, <1>13 DEF Inv

LEMMA EmplaceStep ==
  ASSUME Inv, Emplace
  PROVE  Inv'
<1>1. /\ stage = "recursing" /\ Top.at = "return" /\ calls' = Callers
      /\ UNCHANGED <<lhs, rhs, result>>
  BY DEF Emplace, Recursing
<1>2. calls # <<>>
  BY <1>1 DEF Inv, StageSound
<1>3. /\ Len(calls) \in Nat \ {0} /\ DOMAIN calls = 1 .. Len(calls)
      /\ Top \in Frames /\ Top.key \in Keys
      /\ Top.key[1] \in Nat /\ Top.key[2] \in Nat
      /\ Top.key = <<Top.key[1], Top.key[2]>>
  BY <1>2, TopFacts DEF Inv
<1>4. Sound(Top) /\ Tried("return") = Kinds
  BY <1>3 DEF Inv, CallsSound, Top, Tried
<1>5. PICK key : key = Top.key
  OBVIOUS
<1>6. PICK x : x = IF Top.best # <<>> THEN Top.best[1] ELSE Sentinel
  OBVIOUS
<1>7. cached_seqs' = Extend(cached_seqs, key, x)
  BY <1>5, <1>6 DEF Emplace
<1>8. key \notin DOMAIN cached_seqs
  BY <1>4, <1>5 DEF Sound
<1>9. DOMAIN cached_seqs' = DOMAIN cached_seqs \cup {key} /\ cached_seqs'[key] = x
      /\ \A k \in DOMAIN cached_seqs : cached_seqs'[k] = cached_seqs[k]
  BY <1>7, <1>8 DEF Extend
<1>10. Optimal(x, key, Kinds) /\ x \in Results
  <2>1. CASE Top.best # <<>>
    <3>1. Top.best \in Seq(Results)
      BY <1>3 DEF Frames
    <3>2. Len(Top.best) \in Nat \ {0}
      BY <2>1, <3>1, EmptySeq, LenProperties
    <3>3. Top.best[1] \in Results
      BY <3>1, <3>2, ElementOfSeq
    <3> QED  BY <2>1, <3>3, <1>1, <1>4, <1>5, <1>6 DEF Sound
  <2>2. CASE Top.best = <<>>
    <3>1. \A kind \in Kinds : ~Possible(key, kind)
      BY <2>2, <1>1, <1>4, <1>5 DEF Sound
    <3>2. key = <<0, 0>>
      <4>1. ~Possible(key, "kDeletion") /\ ~Possible(key, "kAddition")
        BY <3>1 DEF Kinds, Changes
      <4>2. ~(key[1] > 0) /\ ~(key[2] > 0)
        BY <4>1 DEF Possible
      <4> QED  BY <4>2, <1>3, <1>5
    <3>3. Sentinel \in Results
      <4>1. <<0, 0>> \in Keys
        BY <3>2, <1>3, <1>5
      <4>2. Modification(<<0, 0>>, "kNoChange") \in Modifications
        BY <4>1, ModificationType DEF Inv, Kinds
      <4> QED  BY <4>2 DEF Sentinel, ModSeqResult, Results
    <3> QED  BY <2>2, <3>1, <3>2, <3>3, <1>6 DEF Optimal
  <2> QED  BY <2>1, <2>2
<1>11. /\ calls' \in Seq(Frames) /\ Len(calls') = Len(calls) - 1
       /\ \A i \in 1 .. Len(calls) - 1 : calls'[i] = calls[i]
  BY <1>1, <1>2, Popped DEF Inv, TypeOK, Callers
<1>12. /\ DOMAIN calls' = 1 .. Len(calls) - 1
       /\ \A i \in DOMAIN calls' : i \in DOMAIN calls /\ i < Len(calls) /\ calls'[i] = calls[i]
  <2>1. DOMAIN calls' = 1 .. Len(calls) - 1
    BY <1>11, LenProperties
  <2> QED  BY <2>1, <1>3, <1>11
<1>13. \A r, k, kinds : Optimal(r, k, kinds) => Optimal(r, k, kinds)'
  BY <1>1, <1>7, <1>8, OptimalGrows
<1>14. /\ Keys' = Keys /\ Modifications' = Modifications /\ Results' = Results
       /\ Frames' = Frames
  BY <1>1, TypesFixed
<1>15. \/ calls' = <<>> /\ stage' = "following" /\ result_list' = key
       \/ calls' # <<>> /\ UNCHANGED <<stage, result_list>>
  BY <1>1, <1>5 DEF Emplace
<1>16. TypeOK'
  <2>1. \A i \in DOMAIN calls' : Len(calls'[i].best) <= 1
    BY <1>12 DEF Inv, TypeOK
  <2>2. result_list' \in Keys \cup {nullptr} /\ stage' \in {"recursing", "following"}
    BY <1>1, <1>3, <1>5, <1>15 DEF Inv, TypeOK
  <2>3. DOMAIN cached_seqs' \subseteq Keys /\ \A k \in DOMAIN cached_seqs' : cached_seqs'[k] \in Results
    BY <1>3, <1>5, <1>9, <1>10 DEF Inv, TypeOK
  <2> QED  BY <1>1, <1>11, <1>14, <2>1, <2>2, <2>3 DEF Inv, TypeOK
<1>17. CacheIsOptimal'
  <2> SUFFICES ASSUME NEW k \in DOMAIN cached_seqs'  PROVE Optimal(cached_seqs[k], k, Kinds)'
    BY DEF CacheIsOptimal
  <2>1. PICK r : r = cached_seqs'[k]
    OBVIOUS
  <2>2. Optimal(r, k, Kinds)
    BY <2>1, <1>9, <1>10 DEF Inv, CacheIsOptimal
  <2>3. Optimal(r, k, Kinds)'
    BY <2>2, <1>13
  <2> QED  BY <2>1, <2>3 DEF Optimal
<1>18. CallsSound'
  <2>1. \A i \in DOMAIN calls' : Sound(calls[i])'
    <3> SUFFICES ASSUME NEW i \in DOMAIN calls'  PROVE Sound(calls[i])'
      OBVIOUS
    <3>1. PICK g : g = calls'[i]
      OBVIOUS
    <3>2. Sound(g)
      BY <3>1, <1>12 DEF Inv, CallsSound
    <3>3. g.key # key
      <4>1. Left(Top) < Left(g)
        BY <3>1, <1>3, <1>12 DEF Inv, CallsSound, Top
      <4>2. Left(Top) = key[1] + key[2] /\ key[1] + key[2] \in Nat
        BY <1>3, <1>5 DEF Left
      <4> QED  BY <4>1, <4>2 DEF Left
    <3>4. \A k, kind : Possible(k, kind)' <=> Possible(k, kind)
      BY <1>1 DEF Possible, LhsAt, RhsAt
    <3>5. g.key \notin DOMAIN cached_seqs'
      BY <3>2, <3>3, <1>9 DEF Sound
    <3>6. g.best = <<>> => \A kind \in Tried(g.at) : ~Possible(g.key, kind)'
      BY <3>2, <3>4 DEF Sound
    <3>7. g.best # <<>> => Optimal(g.best[1], g.key, Tried(g.at))'
      BY <3>2, <1>13 DEF Sound
    <3> QED  BY <3>1, <3>5, <3>6, <3>7 DEF Sound
  <2>2. \A i, j \in DOMAIN calls' : i < j => Left(calls'[j]) < Left(calls'[i])
    BY <1>12 DEF Inv, CallsSound
  <2>3. calls' # <<>> => calls'[1].key = <<Len(lhs), Len(rhs)>>
    <3>1. calls' # <<>> => 1 \in DOMAIN calls'
      BY <1>3, <1>11, <1>12, EmptySeq
    <3> QED  BY <3>1, <1>2, <1>12 DEF Inv, CallsSound
  <2> QED  BY <1>1, <2>1, <2>2, <2>3 DEF CallsSound, Left
<1>19. StageSound'
  <2>1. CASE calls' # <<>>
    BY <2>1, <1>1, <1>2, <1>15 DEF Inv, StageSound
  <2>2. CASE calls' = <<>>
    <3>1. stage' = "following" /\ result_list' = key /\ result' = <<>>
      BY <2>2, <1>1, <1>15 DEF Inv, StageSound
    <3>2. Len(calls) = 1
      <4>1. Len(calls') = 0
        BY <2>2
      <4>2. Len(calls') = Len(calls) - 1
        BY <1>11
      <4>3. Len(calls) \in Nat
        BY <1>3
      <4> QED  BY <4>1, <4>2, <4>3
    <3>3. key = <<Len(lhs), Len(rhs)>>
      BY <3>2, <1>2, <1>5 DEF Inv, CallsSound, Top
    <3>4. key # nullptr
      BY <3>3 DEF nullptr
    <3>5. key \in DOMAIN cached_seqs'
      BY <1>9
    <3>6. PathSoFar'
      <4>1. Len(<<>>) = 0 /\ ~(\E i \in 1 .. Len(<<>>) - 1 : TRUE)
        OBVIOUS
      <4> QED  BY <4>1, <3>1, <3>3, <3>4, <1>1 DEF PathSoFar, nullptr
    <3> QED  BY <2>2, <3>1, <3>5, <3>6 DEF StageSound
  <2> QED  BY <2>1, <2>2
<1> QED  BY <1>16, <1>17, <1>18, <1>19 DEF Inv

(***************************************************************************)
(* The steps outside the recursion.                                        *)
(***************************************************************************)
LEMMA DiffStep ==
  ASSUME Inv, Diff
  PROVE  Inv'
<1>1. /\ cached_seqs' = [k \in {} |-> nullptr] /\ result' = <<>>
      /\ stage' = "recursing" /\ result_list' = nullptr
  BY DEF Diff, Inv, StageSound
<1>2. lhs' \in Seq(Value) /\ rhs' \in Seq(Value)
  BY DifferAssumption DEF Diff
<1>3. Len(lhs') \in Nat /\ Len(rhs') \in Nat
  BY <1>2, LenProperties
<1>4. PICK f : f = Call(<<Len(lhs'), Len(rhs')>>)
  OBVIOUS
<1>5. /\ f.key = <<Len(lhs'), Len(rhs')>> /\ f.at = "kDeletion" /\ f.best = <<>>
      /\ f \in Frames'
  BY <1>3, <1>4 DEF Call, Frames, Keys, Kinds, Changes
<1>6. /\ calls' = <<f>> /\ calls' \in Seq(Frames)' /\ calls' # <<>>
      /\ DOMAIN calls' = {1} /\ calls'[1] = f
  BY <1>4, <1>5 DEF Diff
<1>7. DOMAIN cached_seqs' = {}
  BY <1>1
<1>8. TypeOK'
  <2>1. \A i \in DOMAIN calls' : Len(calls'[i].best) <= 1
    BY <1>5, <1>6
  <2> QED  BY <1>1, <1>2, <1>6, <1>7, <2>1 DEF TypeOK
<1>9. CacheIsOptimal'
  BY <1>7 DEF CacheIsOptimal
<1>10. CallsSound'
  <2>1. \A i \in DOMAIN calls' : Sound(calls[i])'
    BY <1>5, <1>6, <1>7 DEF Sound, Tried
  <2> QED  BY <2>1, <1>5, <1>6 DEF CallsSound
<1>11. StageSound'
  BY <1>1, <1>6 DEF StageSound
<1> QED  BY <1>8, <1>9, <1>10, <1>11 DEF Inv

(* An entry leads from its own subproblem to the one its tail points to.   *)
LEMMA EntryLeads ==
  ASSUME TypeOK, CacheIsOptimal, NEW key \in DOMAIN cached_seqs
  PROVE  LET e == cached_seqs[key]
         IN  /\ e.head.lhs = LhsAt(key[1]) /\ e.head.rhs = RhsAt(key[2])
             /\ e.tail \in DOMAIN cached_seqs \cup {nullptr}
             /\ IF e.tail = nullptr
                THEN e.head = Modification(<<0, 0>>, "kNoChange")
                ELSE /\ LhsAt(e.tail[1]) = NextLhs(e.head)
                     /\ RhsAt(e.tail[2]) = NextRhs(e.head)
                     /\ Fits(e.head)
<1>1. PICK e : e = cached_seqs[key]
  OBVIOUS
<1>2. Len(lhs) \in Nat /\ Len(rhs) \in Nat
  BY LenProperties DEF TypeOK
<1>3. key \in Keys /\ Optimal(e, key, Kinds)
  BY <1>1 DEF TypeOK, CacheIsOptimal
<1>4. key[1] \in 0 .. Len(lhs) /\ key[2] \in 0 .. Len(rhs)
  BY <1>3 DEF Keys
<1>5. CASE key = <<0, 0>> /\ e = Sentinel
  BY <1>1, <1>5 DEF Sentinel, ModSeqResult, Modification
<1>6. ASSUME NEW kind \in Kinds, Possible(key, kind), Rest(key, kind) \in DOMAIN cached_seqs,
             e.head = Modification(key, kind), e.tail = Rest(key, kind)
      PROVE  /\ e.head.lhs = LhsAt(key[1]) /\ e.head.rhs = RhsAt(key[2])
             /\ e.tail \in DOMAIN cached_seqs /\ e.tail # nullptr
             /\ LhsAt(e.tail[1]) = NextLhs(e.head)
             /\ RhsAt(e.tail[2]) = NextRhs(e.head)
             /\ Fits(e.head)
  <2>1. e.head.lhs = LhsAt(key[1]) /\ e.head.rhs = RhsAt(key[2]) /\ e.head.kind = kind
    BY <1>6 DEF Modification
  <2>2. e.tail # nullptr
    BY <1>6 DEF Rest, nullptr
  <2>3. LhsAt(e.tail[1]) = NextLhs(e.head) /\ RhsAt(e.tail[2]) = NextRhs(e.head)
    BY <1>2, <1>4, <1>6, <2>1 DEF Rest, LhsAt, RhsAt, NextLhs, NextRhs
  <2>4. Fits(e.head)
    BY <1>2, <1>4, <1>6, <2>1 DEF Fits, Possible, LhsAt, RhsAt
  <2> QED  BY <1>6, <2>1, <2>2, <2>3, <2>4
<1>7. CASE \E kind \in Kinds :
             /\ Possible(key, kind) /\ Rest(key, kind) \in DOMAIN cached_seqs
             /\ e.head = Modification(key, kind) /\ e.tail = Rest(key, kind)
  <2>1. PICK kind \in Kinds :
             /\ Possible(key, kind) /\ Rest(key, kind) \in DOMAIN cached_seqs
             /\ e.head = Modification(key, kind) /\ e.tail = Rest(key, kind)
    BY <1>7
  <2> QED  BY <1>1, <1>6, <2>1
<1> QED  BY <1>3, <1>5, <1>7 DEF Optimal, ModSeqResult

LEMMA PushBackStep ==
  ASSUME Inv, PushBack
  PROVE  Inv'
<1>1. /\ stage = "following" /\ result_list # nullptr /\ stage' = "following"
      /\ UNCHANGED <<lhs, rhs, cached_seqs, calls, stage>>
  BY DEF PushBack
<1>2. /\ result_list \in DOMAIN cached_seqs /\ calls = <<>> /\ PathSoFar
      /\ result \in Seq(Modifications)
  BY <1>1 DEF Inv, StageSound, TypeOK
<1>3. PICK e : e = cached_seqs[result_list]
  OBVIOUS
<1>4. e \in Results /\ e.head \in Modifications
  BY <1>2, <1>3 DEF Inv, TypeOK, Results
<1>5. /\ e.head.lhs = LhsAt(result_list[1]) /\ e.head.rhs = RhsAt(result_list[2])
      /\ e.tail \in DOMAIN cached_seqs \cup {nullptr}
      /\ IF e.tail = nullptr
         THEN e.head = Modification(<<0, 0>>, "kNoChange")
         ELSE /\ LhsAt(e.tail[1]) = NextLhs(e.head)
              /\ RhsAt(e.tail[2]) = NextRhs(e.head)
              /\ Fits(e.head)
  BY <1>2, <1>3, EntryLeads DEF Inv
<1>6. result' = Append(result, e.head) /\ result_list' = e.tail
  BY <1>3 DEF PushBack
<1>7. /\ Len(result) \in Nat
      /\ result' \in Seq(Modifications) /\ Len(result') = Len(result) + 1 /\ result' # <<>>
      /\ \A i \in 1 .. Len(result) : result'[i] = result[i]
      /\ result'[Len(result) + 1] = e.head
  BY <1>2, <1>4, <1>6, Pushed
<1>8. result # <<>> => Len(result) > 0
  BY <1>2, <1>7, EmptySeq
<1>9. result = <<>> => Len(result) = 0
  OBVIOUS
<1>10. Keys' = Keys /\ Modifications' = Modifications /\ Results' = Results /\ Frames' = Frames
  BY <1>1, TypesFixed
<1>11. TypeOK'
  BY <1>1, <1>5, <1>6, <1>7, <1>10 DEF Inv, TypeOK
<1>12. CacheIsOptimal'
  BY <1>1, OptimalFixed DEF Inv, CacheIsOptimal
<1>13. CallsSound'
  BY <1>1, <1>2 DEF CallsSound
<1>14. PathSoFar'
  <2>1. result'[1].lhs = 1 /\ result'[1].rhs = 1
    <3>1. CASE result # <<>>
      BY <3>1, <1>2, <1>7, <1>8 DEF PathSoFar
    <3>2. CASE result = <<>>
      <4>1. result_list = <<Len(lhs), Len(rhs)>>
        BY <3>2, <1>1, <1>2 DEF PathSoFar
      <4>2. Len(lhs) \in Nat /\ Len(rhs) \in Nat
        BY LenProperties DEF Inv, TypeOK
      <4> QED  BY <3>2, <4>1, <4>2, <1>5, <1>7, <1>9 DEF LhsAt, RhsAt
    <3> QED  BY <3>1, <3>2
  <2>2. ASSUME NEW i \in 1 .. Len(result)
        PROVE  /\ result'[i + 1].lhs = NextLhs(result'[i])
               /\ result'[i + 1].rhs = NextRhs(result'[i])
               /\ Fits(result[i])
    <3>1. result'[i] = result[i]
      BY <1>7
    <3>2. CASE i = Len(result)
      <4>1. result # <<>>
        BY <1>7, <1>9
      <4>2. /\ LhsAt(result_list[1]) = NextLhs(result[i])
            /\ RhsAt(result_list[2]) = NextRhs(result[i])
            /\ Fits(result[i])
        BY <3>2, <4>1, <1>1, <1>2 DEF PathSoFar
      <4> QED  BY <3>1, <3>2, <4>2, <1>5, <1>7
    <3>3. CASE i # Len(result)
      <4>1. i \in 1 .. Len(result) - 1 /\ i + 1 \in 1 .. Len(result)
        BY <3>3, <1>7
      <4>2. /\ result[i + 1].lhs = NextLhs(result[i])
            /\ result[i + 1].rhs = NextRhs(result[i])
            /\ Fits(result[i])
        BY <4>1, <1>2 DEF PathSoFar
      <4> QED  BY <3>1, <4>1, <4>2, <1>7
    <3> QED  BY <3>2, <3>3
  <2>3. \A m : Fits(m)' <=> Fits(m)
    BY <1>1 DEF Fits
  <2>4. ASSUME NEW i \in 1 .. Len(result') - 1
        PROVE  /\ result'[i + 1].lhs = NextLhs(result'[i])
               /\ result'[i + 1].rhs = NextRhs(result'[i])
               /\ Fits(result[i])'
    <3>1. i \in 1 .. Len(result) /\ result'[i] = result[i]
      BY <1>7
    <3>2. Fits(result[i])'
      BY <3>1, <2>2, <1>1 DEF Fits
    <3> QED  BY <3>1, <3>2, <2>2
  <2>5. IF result_list' = nullptr
        THEN result'[Len(result')] = Modification(<<0, 0>>, "kNoChange")'
        ELSE /\ LhsAt(result_list[1])' = NextLhs(result'[Len(result')])
             /\ RhsAt(result_list[2])' = NextRhs(result'[Len(result')])
             /\ Fits(result[Len(result)])'
    <3>1. result'[Len(result')] = e.head
      BY <1>7
    <3>2. CASE e.tail = nullptr
      BY <3>1, <3>2, <1>1, <1>5, <1>6 DEF Modification, LhsAt, RhsAt
    <3>3. CASE e.tail # nullptr
      <4>1. /\ LhsAt(e.tail[1]) = NextLhs(e.head)
            /\ RhsAt(e.tail[2]) = NextRhs(e.head)
            /\ Fits(e.head)
        BY <3>3, <1>5
      <4> QED  BY <3>1, <3>3, <4>1, <1>1, <1>6 DEF Fits, LhsAt, RhsAt
    <3> QED  BY <3>2, <3>3
  <2> QED  BY <2>1, <2>4, <2>5, <1>7 DEF PathSoFar, NextLhs, NextRhs
<1>15. StageSound'
  BY <1>1, <1>2, <1>5, <1>6, <1>14 DEF StageSound
<1> QED  BY <1>11, <1>12, <1>13, <1>15 DEF Inv

LEMMA SameSequences ==
  ASSUME Inv, UNCHANGED <<lhs, rhs, cached_seqs, calls, result_list, result>>,
         stage' = stage \/ Return
  PROVE  Inv'
<1>1. \A g, k : Possible(g, k)' <=> Possible(g, k)
  BY DEF Possible, LhsAt, RhsAt
<1>2. \A r, g, kinds : Optimal(r, g, kinds)' <=> Optimal(r, g, kinds)
  BY OptimalFixed
<1>3. Keys' = Keys /\ Modifications' = Modifications /\ Results' = Results /\ Frames' = Frames
  BY TypesFixed
<1>4. TypeOK'
  BY <1>3 DEF Inv, TypeOK, Return
<1>5. CacheIsOptimal'
  BY <1>2 DEF Inv, CacheIsOptimal
<1>6. CallsSound'
  <2>1. \A i \in DOMAIN calls : Sound(calls[i])'
    BY <1>1, <1>2 DEF Inv, CallsSound, Sound
  <2> QED  BY <2>1 DEF Inv, CallsSound, Left
<1>7. PathSoFar' <=> PathSoFar
  BY DEF PathSoFar, Fits, NextLhs, NextRhs, LhsAt, RhsAt, Modification
<1>8. StageSound'
  BY <1>7 DEF Inv, StageSound, Return
<1> QED  BY <1>4, <1>5, <1>6, <1>8 DEF Inv

-----------------------------------------------------------------------------
LEMMA InitInv ==
  Init => Inv
<1> SUFFICES ASSUME Init  PROVE Inv
  OBVIOUS
<1>1. DOMAIN cached_seqs = {} /\ calls = <<>> /\ stage = "idle"
  BY DEF Init
<1>2. TypeOK
  BY <1>1 DEF Init, TypeOK
<1>3. CacheIsOptimal /\ CallsSound /\ StageSound
  BY <1>1 DEF Init, CacheIsOptimal, CallsSound, StageSound
<1> QED  BY <1>2, <1>3 DEF Inv

LEMMA NextInv ==
  Inv /\ [Next]_vars => Inv'
<1> SUFFICES ASSUME Inv, [Next]_vars  PROVE Inv'
  OBVIOUS
<1>1. CASE Diff
  BY <1>1, DiffStep
<1>2. ASSUME NEW kind \in Kinds, Skip(kind)  PROVE Inv'
  BY <1>2, SkipStep
<1>3. ASSUME NEW kind \in Kinds, Recurse(kind)  PROVE Inv'
  BY <1>3, RecurseStep
<1>4. ASSUME NEW kind \in Kinds, MakeModification(kind)  PROVE Inv'
  BY <1>4, MakeModificationStep
<1>5. CASE Emplace
  BY <1>5, EmplaceStep
<1>6. CASE PushBack
  BY <1>6, PushBackStep
<1>7. CASE Return
  BY <1>7, SameSequences DEF Return
<1>8. CASE UNCHANGED vars
  BY <1>8, SameSequences DEF vars
<1> QED  BY <1>1, <1>2, <1>3, <1>4, <1>5, <1>6, <1>7, <1>8 DEF Next, Compute

(* The invariant, and with it the types, the equations of the memo table   *)
(* and the path: what is returned leads from the beginning of both         *)
(* sequences to their ends (diff.h:119-201).                               *)
THEOREM AlwaysSound ==
  Spec => []Inv
<1> QED  BY InitInv, NextInv, PTL DEF Spec

(* Every iterator stays between the ends of its container.                 *)
THEOREM AlwaysTyped ==
  Spec => []TypeOK
<1>1. Inv => TypeOK
  BY DEF Inv
<1> QED  BY <1>1, AlwaysSound, PTL

(* The memo table satisfies the equations of the edit distance at every    *)
(* moment (diff.h:119-133, 176-203).                                       *)
THEOREM AlwaysOptimal ==
  Spec => []CacheIsOptimal
<1>1. Inv => CacheIsOptimal
  BY DEF Inv
<1> QED  BY <1>1, AlwaysSound, PTL

(* The modifications returned lead from the beginning of both sequences to *)
(* their ends (diff.h:157-172).                                            *)
THEOREM AlwaysAPath ==
  Spec => []ScriptIsAPath
<1>1. Inv => ScriptIsAPath
  <2> SUFFICES ASSUME Inv, stage = "returned"  PROVE ScriptIsAPath
    BY DEF ScriptIsAPath
  <2>1. PathSoFar /\ result_list = nullptr /\ result \in Seq(Modifications)
    BY DEF Inv, StageSound, TypeOK
  <2>2. result # <<>> /\ result[Len(result)] = Modification(<<0, 0>>, "kNoChange")
    BY <2>1 DEF PathSoFar
  <2>3. Len(result) > 0
    BY <2>1, <2>2, EmptySeq, LenProperties
  <2> QED  BY <2>1, <2>2, <2>3 DEF PathSoFar, Fits, ScriptIsAPath
<1> QED  BY <1>1, AlwaysSound, PTL

(* No step of a comparison changes or drops an entry of the table, so the  *)
(* pointers ModSeqResult keeps stay good (diff.h:131).                     *)
THEOREM AlwaysStable ==
  Spec => EntriesAreStable
<1> DEFINE Stable == stage # "idle" /\ stage # "returned" =>
             \A key \in DOMAIN cached_seqs :
               key \in DOMAIN cached_seqs' /\ cached_seqs'[key] = cached_seqs[key]
<1>1. Inv /\ [Next]_vars => [Stable]_vars
  <2> SUFFICES ASSUME Inv, Next, stage # "idle", stage # "returned"
               PROVE  \A key \in DOMAIN cached_seqs :
                        key \in DOMAIN cached_seqs' /\ cached_seqs'[key] = cached_seqs[key]
    OBVIOUS
  <2>1. ~Diff
    BY DEF Diff
  <2>2. CASE Emplace
    <3>1. stage = "recursing"
      BY <2>2 DEF Emplace, Recursing
    <3>2. calls # <<>>
      BY <3>1 DEF Inv, StageSound
    <3>3. Len(calls) \in DOMAIN calls
      BY <3>2, TopFacts DEF Inv
    <3>4. Top.key \notin DOMAIN cached_seqs
      BY <3>3 DEF Inv, CallsSound, Sound, Top
    <3> QED  BY <2>2, <3>4 DEF Emplace, Extend
  <2>3. CASE cached_seqs' = cached_seqs
    BY <2>3
  <2> QED  BY <2>1, <2>2, <2>3 DEF Next, Compute, Skip, Recurse, MakeModification, PushBack, Return
<1> QED  BY <1>1, AlwaysSound, PTL DEF Spec, EntriesAreStable

-----------------------------------------------------------------------------
(***************************************************************************)
(* The equations of the memo table and the shortest script.                *)
(***************************************************************************)
(* f leaves unchanged only elements of the subproblem. *)
Within(f, key) == \A i \in DOMAIN f : i >= LhsAt(key[1]) /\ f[i] >= RhsAt(key[2])

(* The entry of key is no longer than the script f stands for. *)
Bounded(f, key) == cached_seqs[key].len + 2 * Cardinality(DOMAIN f) <= key[1] + key[2]

LEMMA MatchingFacts ==
  ASSUME TypeOK, NEW f \in Matchings
  PROVE  /\ DOMAIN f \subseteq 1 .. Len(lhs) /\ IsFiniteSet(DOMAIN f)
         /\ Cardinality(DOMAIN f) \in Nat
         /\ \A i \in DOMAIN f : f[i] \in 1 .. Len(rhs)
         /\ Matching(f)
<1>1. Len(lhs) \in Nat /\ Len(rhs) \in Nat /\ DOMAIN lhs = 1 .. Len(lhs) /\ DOMAIN rhs = 1 .. Len(rhs)
  BY LenProperties DEF TypeOK
<1>2. PICK S \in SUBSET DOMAIN lhs : f \in [S -> DOMAIN rhs]
  BY DEF Matchings
<1>3. IsFiniteSet(1 .. Len(lhs))
  BY <1>1, FS_Interval
<1>4. DOMAIN f = S /\ S \in SUBSET (1 .. Len(lhs))
  BY <1>1, <1>2
<1>5. IsFiniteSet(S)
  BY <1>3, <1>4, FS_Subset
<1>6. Cardinality(S) \in Nat
  BY <1>5, FS_CardinalityType
<1> QED  BY <1>1, <1>2, <1>4, <1>5, <1>6 DEF Matchings

(* A matching without its first element is one. *)
LEMMA MatchingWithout ==
  ASSUME TypeOK, NEW f \in Matchings, NEW a \in DOMAIN f,
         NEW g, g = [i \in DOMAIN f \ {a} |-> f[i]]
  PROVE  g \in Matchings /\ Cardinality(DOMAIN g) = Cardinality(DOMAIN f) - 1
<1>1. PICK S \in SUBSET DOMAIN lhs : f \in [S -> DOMAIN rhs]
  BY DEF Matchings
<1>2. PICK T : T = S \ {a}
  OBVIOUS
<1>3. DOMAIN f = S /\ T \in SUBSET DOMAIN lhs /\ g \in [T -> DOMAIN rhs] /\ DOMAIN g = T
  BY <1>1, <1>2
<1>4. Matching(g)
  BY <1>1, <1>2, <1>3 DEF Matchings, Matching
<1>5. g \in Matchings
  BY <1>3, <1>4 DEF Matchings
<1>6. Cardinality(S \ {a}) = Cardinality(S) - 1
  BY <1>3, MatchingFacts, FS_RemoveElement
<1> QED  BY <1>2, <1>3, <1>5, <1>6

(* What the equations say of a modification that is possible. *)
LEMMA EntryBound ==
  ASSUME TypeOK, CacheIsOptimal, NEW key \in DOMAIN cached_seqs,
         NEW kind \in Kinds, Possible(key, kind)
  PROVE  /\ Rest(key, kind) \in DOMAIN cached_seqs
         /\ cached_seqs[Rest(key, kind)].len \in Nat
         /\ cached_seqs[key].len \in Nat
         /\ cached_seqs[key].len <= Cost(kind) + cached_seqs[Rest(key, kind)].len
<1>1. /\ Rest(key, kind) \in DOMAIN cached_seqs
      /\ cached_seqs[key].len <= Cost(kind) + cached_seqs[Rest(key, kind)].len
  BY DEF CacheIsOptimal, Optimal
<1> QED  BY <1>1 DEF TypeOK, Results

LEMMA BoundStep ==
  ASSUME TypeOK, CacheIsOptimal, NEW key \in DOMAIN cached_seqs,
         NEW f \in Matchings, Within(f, key),
         \A k \in DOMAIN cached_seqs : \A g \in Matchings :
           k[1] + k[2] < key[1] + key[2] /\ Within(g, k) => Bounded(g, k)
  PROVE  Bounded(f, key)
<1>1. /\ Len(lhs) \in Nat /\ Len(rhs) \in Nat
      /\ key[1] \in 0 .. Len(lhs) /\ key[2] \in 0 .. Len(rhs)
      /\ key = <<key[1], key[2]>>
  BY LenProperties DEF TypeOK, Keys
<1> DEFINE a == LhsAt(key[1])
           b == RhsAt(key[2])
           d == Cardinality(DOMAIN f)
<1>2. /\ DOMAIN f \subseteq 1 .. Len(lhs) /\ d \in Nat
      /\ \A i \in DOMAIN f : f[i] \in 1 .. Len(rhs)
      /\ Matching(f)
  BY MatchingFacts
<1>3. a \in 1 .. Len(lhs) + 1 /\ b \in 1 .. Len(rhs) + 1
  BY <1>1 DEF LhsAt, RhsAt
<1>4. ASSUME key[1] > 0, a \notin DOMAIN f  PROVE Bounded(f, key)
  <2>1. "kDeletion" \in Kinds /\ Possible(key, "kDeletion") /\ Cost("kDeletion") = 1
    BY <1>4 DEF Kinds, Changes, Possible, Cost
  <2>2. PICK k : k = Rest(key, "kDeletion")
    OBVIOUS
  <2>3. /\ k \in DOMAIN cached_seqs /\ cached_seqs[k].len \in Nat /\ cached_seqs[key].len \in Nat
        /\ cached_seqs[key].len <= 1 + cached_seqs[k].len
    BY <2>1, <2>2, EntryBound
  <2>4. k[1] = key[1] - 1 /\ k[2] = key[2]
    BY <2>2 DEF Rest
  <2>5. Within(f, k)
    BY <1>1, <1>2, <1>4, <2>4 DEF Within, LhsAt, RhsAt
  <2>6. Bounded(f, k)
    BY <1>1, <2>3, <2>4, <2>5
  <2> QED  BY <1>1, <1>2, <2>3, <2>4, <2>6 DEF Bounded
<1>5. ASSUME key[2] > 0, \A i \in DOMAIN f : f[i] # b  PROVE Bounded(f, key)
  <2>1. "kAddition" \in Kinds /\ Possible(key, "kAddition") /\ Cost("kAddition") = 1
    BY <1>5 DEF Kinds, Changes, Possible, Cost
  <2>2. PICK k : k = Rest(key, "kAddition")
    OBVIOUS
  <2>3. /\ k \in DOMAIN cached_seqs /\ cached_seqs[k].len \in Nat /\ cached_seqs[key].len \in Nat
        /\ cached_seqs[key].len <= 1 + cached_seqs[k].len
    BY <2>1, <2>2, EntryBound
  <2>4. k[1] = key[1] /\ k[2] = key[2] - 1
    BY <2>2 DEF Rest
  <2>5. Within(f, k)
    BY <1>1, <1>2, <1>5, <2>4 DEF Within, LhsAt, RhsAt
  <2>6. Bounded(f, k)
    BY <1>1, <2>3, <2>4, <2>5
  <2> QED  BY <1>1, <1>2, <2>3, <2>4, <2>6 DEF Bounded
<1>6. ASSUME a \in DOMAIN f, NEW j \in DOMAIN f, f[j] = b  PROVE Bounded(f, key)
  <2>1. key[1] > 0 /\ key[2] > 0
    BY <1>1, <1>2, <1>6 DEF LhsAt, RhsAt
  <2>2. \A i \in DOMAIN f : i >= a /\ f[i] >= b
    BY DEF Within
  <2>3. f[a] = b
    <3>1. a \in Int /\ b \in Int /\ j \in Int /\ f[a] \in Int /\ f[j] \in Int
      BY <1>2, <1>3, <1>6
    <3>2. j >= a /\ f[a] >= b /\ f[j] >= b
      BY <1>6, <2>2
    <3>3. a < j => f[a] < f[j]
      BY <1>2, <1>6 DEF Matching
    <3> HIDE DEF a, b
    <3>4. CASE a = j
      BY <3>4, <1>6
    <3>5. CASE a # j
      BY <3>1, <3>2, <3>3, <3>5, <1>6
    <3> QED  BY <3>4, <3>5
  <2>4. <<lhs[a], rhs[b]>> \in Eq
    BY <1>2, <1>6, <2>3 DEF Matching
  <2>5. "kNoChange" \in Kinds /\ Possible(key, "kNoChange") /\ Cost("kNoChange") = 0
    BY <2>1, <2>4 DEF Kinds, Changes, Possible, Cost
  <2>6. PICK k : k = Rest(key, "kNoChange")
    OBVIOUS
  <2>7. /\ k \in DOMAIN cached_seqs /\ cached_seqs[k].len \in Nat /\ cached_seqs[key].len \in Nat
        /\ cached_seqs[key].len <= cached_seqs[k].len
    BY <2>5, <2>6, EntryBound
  <2>8. k[1] = key[1] - 1 /\ k[2] = key[2] - 1
    BY <2>6 DEF Rest
  <2>9. PICK g : g = [i \in DOMAIN f \ {a} |-> f[i]]
    OBVIOUS
  <2>10. g \in Matchings /\ Cardinality(DOMAIN g) = d - 1
    BY <2>9, <1>6, MatchingWithout
  <2>11. \A i \in DOMAIN f \ {a} : i >= a + 1 /\ f[i] >= b + 1
    <3> SUFFICES ASSUME NEW i \in DOMAIN f \ {a}  PROVE i >= a + 1 /\ f[i] >= b + 1
      OBVIOUS
    <3>1. a \in Int /\ b \in Int /\ i \in Int /\ f[a] \in Int /\ f[i] \in Int
      BY <1>2, <1>3, <1>6
    <3>2. i >= a /\ i # a
      BY <2>2
    <3>3. a < i => f[a] < f[i]
      BY <1>2, <1>6 DEF Matching
    <3> HIDE DEF a, b
    <3>4. a < i
      BY <3>1, <3>2
    <3> QED  BY <3>1, <3>3, <3>4, <2>3
  <2>12. LhsAt(k[1]) = a + 1 /\ RhsAt(k[2]) = b + 1
    BY <1>1, <2>8 DEF LhsAt, RhsAt
  <2>13. Within(g, k)
    BY <2>9, <2>11, <2>12 DEF Within
  <2>14. Bounded(g, k)
    BY <1>1, <2>7, <2>8, <2>10, <2>13
  <2>15. PICK c : c = Cardinality(DOMAIN g)
    OBVIOUS
  <2>16. PICK l : l = cached_seqs[k].len
    OBVIOUS
  <2>17. l + 2 * c <= k[1] + k[2]
    BY <2>14, <2>15, <2>16 DEF Bounded
  <2>18. cached_seqs[key].len + 2 * d <= key[1] + key[2]
    <3>1. PICK e : e = cached_seqs[key].len
      OBVIOUS
    <3>2. e \in Nat /\ l \in Nat /\ e <= l
      BY <3>1, <2>7, <2>16
    <3>3. d \in Nat /\ c = d - 1
      BY <1>2, <2>10, <2>15
    <3>4. /\ key[1] \in Nat /\ key[2] \in Nat
          /\ l + 2 * c <= (key[1] - 1) + (key[2] - 1)
      BY <1>1, <2>8, <2>17
    <3> HIDE DEF d
    <3>5. e + 2 * d <= key[1] + key[2]
      BY <3>2, <3>3, <3>4
    <3> QED  BY <3>1, <3>5
  <2> QED  BY <2>18 DEF Bounded, d
<1>7. ASSUME key[1] = 0, key[2] = 0  PROVE Bounded(f, key)
  <2>1. DOMAIN f = {}
    <3>1. \A i \in DOMAIN f : i \in 1 .. Len(lhs) /\ i >= Len(lhs) - key[1] + 1
      BY <1>2 DEF Within, LhsAt
    <3>2. \A i \in DOMAIN f : FALSE
      BY <3>1, <1>1, <1>7
    <3> QED  BY <3>2
  <2>2. d = 0
    BY <2>1, FS_EmptySet
  <2>3. \A kind \in Kinds : ~Possible(key, kind)
    BY <1>7 DEF Possible, Kinds, Changes
  <2>4. cached_seqs[key] = Sentinel
    BY <2>3 DEF CacheIsOptimal, Optimal
  <2> QED  BY <1>7, <2>2, <2>4 DEF Bounded, Sentinel, ModSeqResult
<1>8. key[1] = 0 => a \notin DOMAIN f
  BY <1>1, <1>2 DEF LhsAt
<1> HIDE DEF a, b, d
<1>9. CASE a \in DOMAIN f
  <2>1. f[a] \in 1 .. Len(rhs) /\ f[a] >= b
    BY <1>2, <1>9 DEF Within, b
  <2>2. key[2] > 0
    BY <2>1, <1>1, <1>3 DEF b, RhsAt
  <2> QED  BY <2>2, <1>5, <1>6, <1>9
<1>10. CASE a \notin DOMAIN f
  <2>1. CASE key[1] = 0 /\ key[2] > 0
    <3>1. DOMAIN f = {}
      <4>1. \A i \in DOMAIN f : i \in 1 .. Len(lhs) /\ i >= Len(lhs) - key[1] + 1
        BY <1>2 DEF Within, LhsAt
      <4>2. \A i \in DOMAIN f : FALSE
        BY <4>1, <1>1, <2>1
      <4> QED  BY <4>2
    <3> QED  BY <3>1, <2>1, <1>5
  <2> QED  BY <1>1, <1>4, <1>7, <1>10, <2>1
<1> QED  BY <1>9, <1>10

(* No entry of a table that satisfies the equations is longer than any     *)
(* script of its subproblem: otherwise there is a smallest one that is.    *)
LEMMA EntriesAreShortest ==
  ASSUME TypeOK, CacheIsOptimal, NEW key \in DOMAIN cached_seqs,
         NEW f \in Matchings, Within(f, key)
  PROVE  Bounded(f, key)
<1>1. SUFFICES ASSUME ~Bounded(f, key)  PROVE FALSE
  OBVIOUS
<1>2. \A k \in DOMAIN cached_seqs : k[1] + k[2] \in Nat
  BY LenProperties DEF TypeOK, Keys
<1> DEFINE Wrong(n) == \E k \in DOMAIN cached_seqs : \E g \in Matchings :
                         n = k[1] + k[2] /\ Within(g, k) /\ ~Bounded(g, k)
           D == {n \in Nat : Wrong(n)}
<1>3. D \subseteq Nat /\ key[1] + key[2] \in D
  BY <1>1, <1>2
<1> HIDE DEF D
<1>4. PICK n \in D : \A j \in D : <<j, n>> \notin OpToRel(<, Nat)
  BY <1>3, NatLessThanWellFounded, WFMin
<1>5. \A j \in D : ~(j < n)
  BY <1>3, <1>4 DEF OpToRel
<1>6. PICK k \in DOMAIN cached_seqs : \E g \in Matchings :
                         n = k[1] + k[2] /\ Within(g, k) /\ ~Bounded(g, k)
  BY DEF D
<1>7. PICK g \in Matchings : n = k[1] + k[2] /\ Within(g, k) /\ ~Bounded(g, k)
  BY <1>6
<1>8. \A l \in DOMAIN cached_seqs : \A h \in Matchings :
           l[1] + l[2] < k[1] + k[2] /\ Within(h, l) => Bounded(h, l)
  BY <1>2, <1>5, <1>7 DEF D
<1> QED  BY <1>7, <1>8, BoundStep

(***************************************************************************)
(* The list that is followed has the length its first entry says.          *)
(***************************************************************************)
Remaining == IF result_list = nullptr THEN 0 ELSE cached_seqs[result_list].len

Counted ==
  stage \in {"following", "returned"} =>
    /\ <<Len(lhs), Len(rhs)>> \in DOMAIN cached_seqs
    /\ Cardinality(ChangesIn(result)) + Remaining = cached_seqs[<<Len(lhs), Len(rhs)>>].len

(* What one more modification adds to the changes. *)
LEMMA ChangesAppended ==
  ASSUME NEW s \in Seq(Modifications), NEW m \in Modifications
  PROVE  /\ Cardinality(ChangesIn(s)) \in Nat
         /\ Cardinality(ChangesIn(Append(s, m))) = Cardinality(ChangesIn(s)) + Cost(m.kind)
<1>1. PICK t : t = Append(s, m)
  OBVIOUS
<1>2. /\ Len(s) \in Nat /\ t \in Seq(Modifications) /\ Len(t) = Len(s) + 1
      /\ \A i \in 1 .. Len(s) : t[i] = s[i]
      /\ t[Len(s) + 1] = m
  BY <1>1, Pushed
<1>3. DOMAIN s = 1 .. Len(s) /\ DOMAIN t = 1 .. Len(s) + 1
  BY <1>2, LenProperties
<1>4. ChangesIn(s) \in SUBSET (1 .. Len(s)) /\ IsFiniteSet(1 .. Len(s))
  BY <1>2, <1>3, FS_Interval DEF ChangesIn
<1>5. IsFiniteSet(ChangesIn(s))
  BY <1>4, FS_Subset
<1>6. Cardinality(ChangesIn(s)) \in Nat
  BY <1>5, FS_CardinalityType
<1>7. Len(s) + 1 \notin ChangesIn(s)
  BY <1>2, <1>4
<1>8. CASE m.kind \in Changes
  <2>1. ChangesIn(t) = ChangesIn(s) \cup {Len(s) + 1}
    BY <1>2, <1>3, <1>8 DEF ChangesIn
  <2>2. Cardinality(ChangesIn(s) \cup {Len(s) + 1}) = Cardinality(ChangesIn(s)) + 1
    BY <1>5, <1>7, FS_AddElement
  <2> QED  BY <1>1, <1>6, <1>8, <2>1, <2>2 DEF Cost
<1>9. CASE m.kind \notin Changes
  <2>1. ChangesIn(t) = ChangesIn(s)
    BY <1>2, <1>3, <1>9 DEF ChangesIn
  <2> QED  BY <1>1, <1>6, <1>9, <2>1 DEF Cost
<1> QED  BY <1>8, <1>9

(* The length of an entry is what its head costs and what its tail has. *)
LEMMA EntryCounts ==
  ASSUME TypeOK, CacheIsOptimal, NEW key \in DOMAIN cached_seqs
  PROVE  LET e == cached_seqs[key]
         IN  /\ e.head \in Modifications /\ e.len \in Nat
             /\ e.tail # nullptr => cached_seqs[e.tail].len \in Nat
             /\ e.len = Cost(e.head.kind) + (IF e.tail = nullptr THEN 0 ELSE cached_seqs[e.tail].len)
<1>1. PICK e : e = cached_seqs[key]
  OBVIOUS
<1>2. e \in Results /\ Optimal(e, key, Kinds)
  BY <1>1 DEF TypeOK, CacheIsOptimal
<1>3. CASE e = Sentinel
  <2>1. e.tail = nullptr /\ e.len = 0 /\ e.head.kind = "kNoChange"
    BY <1>3 DEF Sentinel, ModSeqResult, Modification
  <2> QED  BY <1>1, <1>2, <2>1 DEF Results, Cost, Changes
<1>4. ASSUME NEW kind \in Kinds, Possible(key, kind),
             e = ModSeqResult(Modification(key, kind), Rest(key, kind),
                              Cost(kind) + cached_seqs[Rest(key, kind)].len)
      PROVE  /\ e.tail # nullptr /\ cached_seqs[e.tail].len \in Nat
             /\ e.len = Cost(e.head.kind) + cached_seqs[e.tail].len
  <2>1. cached_seqs[Rest(key, kind)].len \in Nat
    BY <1>4, EntryBound
  <2>2. e.tail = Rest(key, kind) /\ e.head.kind = kind
    BY <1>4 DEF ModSeqResult, Modification
  <2>3. e.tail # nullptr
    BY <2>2 DEF Rest, nullptr
  <2> QED  BY <1>4, <2>1, <2>2, <2>3 DEF ModSeqResult
<1>5. \/ e = Sentinel
      \/ /\ e.tail # nullptr /\ cached_seqs[e.tail].len \in Nat
         /\ e.len = Cost(e.head.kind) + cached_seqs[e.tail].len
  BY <1>2, <1>4 DEF Optimal
<1> QED  BY <1>1, <1>2, <1>3, <1>5 DEF Results

LEMMA CountedNext ==
  Inv /\ Counted /\ [Next]_vars => Counted'
<1> SUFFICES ASSUME Inv, Counted, [Next]_vars  PROVE Counted'
  OBVIOUS
<1>1. CASE Diff
  BY <1>1 DEF Diff, Counted
<1>2. ASSUME NEW kind \in Kinds, Skip(kind) \/ Recurse(kind) \/ MakeModification(kind)
      PROVE  Counted'
  BY <1>2 DEF Skip, Recurse, MakeModification, Recursing, Counted
<1>3. CASE Emplace
  <2>1. stage = "recursing" /\ result' = <<>> /\ UNCHANGED <<lhs, rhs>>
    BY <1>3 DEF Emplace, Recursing, Inv, StageSound
  <2>2. calls # <<>>
    BY <2>1 DEF Inv, StageSound
  <2>3. /\ Len(calls) \in Nat \ {0} /\ Top.key = <<Top.key[1], Top.key[2]>>
    BY <2>2, TopFacts DEF Inv
  <2>4. CASE Callers # <<>>
    BY <1>3, <2>1, <2>4 DEF Emplace, Counted
  <2>5. CASE Callers = <<>>
    <3>1. Len(Callers) = Len(calls) - 1
      BY <2>2, Popped DEF Inv, TypeOK, Callers
    <3>2. Len(calls) = 1
      BY <3>1, <2>3, <2>5
    <3>3. Top.key = <<Len(lhs), Len(rhs)>>
      BY <3>2, <2>2 DEF Inv, CallsSound, Top
    <3>4. result_list' = Top.key /\ Top.key \in DOMAIN cached_seqs'
      BY <1>3, <2>5 DEF Emplace, Extend
    <3>5. Top.key # nullptr
      BY <3>3 DEF nullptr
    <3>6. cached_seqs'[Top.key].len \in Nat
      <4>1. Inv'
        BY <1>3, EmplaceStep
      <4> QED  BY <3>4, <4>1 DEF Inv, TypeOK, Results
    <3>7. ChangesIn(<<>>) = {}
      BY DEF ChangesIn
    <3>8. Cardinality(ChangesIn(<<>>)) = 0
      BY <3>7, FS_EmptySet
    <3>9. Remaining' = cached_seqs'[Top.key].len
      BY <3>4, <3>5 DEF Remaining
    <3>10. Cardinality(ChangesIn(result')) = 0
      BY <3>8, <2>1
    <3> QED  BY <2>1, <3>3, <3>4, <3>6, <3>9, <3>10 DEF Counted, ChangesIn
  <2> QED  BY <2>4, <2>5
<1>4. CASE PushBack
  <2>1. /\ stage = "following" /\ result_list # nullptr
        /\ UNCHANGED <<lhs, rhs, cached_seqs>>
    BY <1>4 DEF PushBack
  <2>2. result_list \in DOMAIN cached_seqs /\ result \in Seq(Modifications)
    BY <2>1 DEF Inv, StageSound, TypeOK
  <2>3. PICK e : e = cached_seqs[result_list]
    OBVIOUS
  <2>4. /\ e.head \in Modifications /\ e.len \in Nat
        /\ e.tail # nullptr => cached_seqs[e.tail].len \in Nat
        /\ e.len = Cost(e.head.kind) + (IF e.tail = nullptr THEN 0 ELSE cached_seqs[e.tail].len)
    BY <2>2, <2>3, EntryCounts DEF Inv
  <2>5. result' = Append(result, e.head) /\ result_list' = e.tail
    BY <1>4, <2>3 DEF PushBack
  <2>6. /\ Cardinality(ChangesIn(result)) \in Nat
        /\ Cardinality(ChangesIn(result')) = Cardinality(ChangesIn(result)) + Cost(e.head.kind)
    BY <2>2, <2>4, <2>5, ChangesAppended
  <2>7. Cost(e.head.kind) \in Nat
    BY DEF Cost
  <2>8. Remaining = e.len /\ Remaining' = IF e.tail = nullptr THEN 0 ELSE cached_seqs[e.tail].len
    BY <2>1, <2>3, <2>5 DEF Remaining
  <2>9. Cardinality(ChangesIn(result')) + Remaining' = Cardinality(ChangesIn(result)) + Remaining
    BY <2>4, <2>6, <2>7, <2>8
  <2>10. Counted => Counted'
    BY <2>1, <2>9 DEF Counted, ChangesIn
  <2> QED  BY <2>10
<1>5. CASE Return
  BY <1>5 DEF Return, Counted, Remaining, ChangesIn
<1>6. CASE UNCHANGED vars
  BY <1>6 DEF vars, Counted, Remaining, ChangesIn
<1> QED  BY <1>1, <1>2, <1>3, <1>4, <1>5, <1>6 DEF Next, Compute

(* No script has fewer changes than the one returned: the sum the entries  *)
(* are compared by is the number of changes in the list they make, and the *)
(* table's entry of both sequences is a minimum over all scripts, not only *)
(* over those the recursion has built (diff.h:181-193).                    *)
THEOREM AlwaysShortest ==
  Spec => []ScriptIsShortest
<1>1. Init => Counted
  BY DEF Init, Counted
<1>2. Inv /\ Counted => ScriptIsShortest
  <2> SUFFICES ASSUME Inv, Counted, stage = "returned", NEW f \in Matchings
               PROVE  Cardinality(ChangesIn(result)) <=
                        Len(lhs) + Len(rhs) - 2 * Cardinality(DOMAIN f)
    BY DEF ScriptIsShortest
  <2>1. Len(lhs) \in Nat /\ Len(rhs) \in Nat
    BY LenProperties DEF Inv, TypeOK
  <2>2. PICK key : key = <<Len(lhs), Len(rhs)>>
    OBVIOUS
  <2>3. result_list = nullptr /\ key \in DOMAIN cached_seqs
    BY <2>2 DEF Inv, StageSound, Counted
  <2>4. /\ DOMAIN f \subseteq 1 .. Len(lhs) /\ Cardinality(DOMAIN f) \in Nat
        /\ \A i \in DOMAIN f : f[i] \in 1 .. Len(rhs)
    BY MatchingFacts DEF Inv
  <2>5. Within(f, key)
    BY <2>1, <2>2, <2>4 DEF Within, LhsAt, RhsAt
  <2>6. Bounded(f, key)
    BY <2>3, <2>5, EntriesAreShortest DEF Inv
  <2>7. cached_seqs[key].len \in Nat
    BY <2>3 DEF Inv, TypeOK, Results
  <2>8. Cardinality(ChangesIn(result)) \in Nat
    <3>1. DOMAIN result = 1 .. Len(result) /\ Len(result) \in Nat
      BY LenProperties DEF Inv, TypeOK
    <3>2. ChangesIn(result) \in SUBSET (1 .. Len(result)) /\ IsFiniteSet(1 .. Len(result))
      BY <3>1, FS_Interval DEF ChangesIn
    <3>3. IsFiniteSet(ChangesIn(result))
      BY <3>2, FS_Subset
    <3> QED  BY <3>3, FS_CardinalityType
  <2>9. Cardinality(ChangesIn(result)) = cached_seqs[key].len
    BY <2>2, <2>3, <2>8 DEF Counted, Remaining
  <2> QED  BY <2>1, <2>2, <2>4, <2>6, <2>7, <2>9 DEF Bounded
<1> QED  BY <1>1, <1>2, CountedNext, AlwaysSound, PTL DEF Spec

(***************************************************************************)
(* The listing.  The line of a modification, if it has one, shows what the *)
(* modification consumes, so the lines before a modification show as much  *)
(* of the two sequences as there is before its iterators.                  *)
(***************************************************************************)
LEMMA LineOf ==
  ASSUME NEW m \in Modifications
  PROVE  /\ m.kind = "kAddition" =>
              Line(m) # <<>> /\ Line(m)[1].sign = "+" /\ Line(m)[1].text = rhs[m.rhs]
         /\ m.kind = "kDeletion" =>
              Line(m) # <<>> /\ Line(m)[1].sign = "-" /\ Line(m)[1].text = lhs[m.lhs]
         /\ m.kind = "kNoChange" /\ m.lhs # Len(lhs) + 1 =>
              Line(m) # <<>> /\ Line(m)[1].sign = "=" /\ Line(m)[1].text = lhs[m.lhs]
         /\ m.kind = "kNoChange" /\ m.lhs = Len(lhs) + 1 => Line(m) = <<>>
<1>1. CASE m.kind = "kAddition"
  BY <1>1 DEF Line
<1>2. CASE m.kind = "kDeletion"
  BY <1>2 DEF Line
<1>3. CASE m.kind = "kNoChange" /\ m.lhs # Len(lhs) + 1
  BY <1>3 DEF Line
<1>4. CASE m.kind = "kNoChange" /\ m.lhs = Len(lhs) + 1
  BY <1>4 DEF Line
<1> QED  BY <1>1, <1>2, <1>3, <1>4

(* Which lines a modification has. *)
Kept == {"=", "-"}

Made == {"=", "+"}

HasLine(i, signs) == Line(result[i]) # <<>> /\ Line(result[i])[1].sign \in signs

LEMMA PathLines ==
  ASSUME TypeOK, ScriptIsAPath, stage = "returned", NEW i \in 1 .. Len(result)
  PROVE  /\ result[i] \in Modifications /\ Len(result) \in Nat
         /\ i < Len(result) => /\ HasLine(i, Kept) <=> result[i].kind # "kAddition"
                               /\ HasLine(i, Made) <=> result[i].kind # "kDeletion"
         /\ i = Len(result) => ~HasLine(i, Kept) /\ ~HasLine(i, Made)
<1>1. /\ Len(result) \in Nat /\ Len(lhs) \in Nat
      /\ \A j \in 1 .. Len(result) : result[j] \in Modifications
  BY LenProperties, ElementOfSeq DEF TypeOK
<1>2. PICK m : m = result[i]
  OBVIOUS
<1>3. m \in Modifications /\ m.kind \in {"kAddition", "kDeletion", "kNoChange"} /\ m.lhs \in Int
  BY <1>1, <1>2 DEF Modifications, Kinds, Changes
<1>4. ASSUME i < Len(result)
      PROVE  /\ HasLine(i, Kept) <=> m.kind # "kAddition"
             /\ HasLine(i, Made) <=> m.kind # "kDeletion"
  <2>1. i \in 1 .. Len(result) - 1
    BY <1>1, <1>4
  <2>2. m.kind # "kAddition" => m.lhs <= Len(lhs)
    BY <1>2, <2>1 DEF ScriptIsAPath
  <2>3. m.kind = "kNoChange" => m.lhs # Len(lhs) + 1
    BY <1>1, <1>3, <2>2
  <2>4. CASE m.kind = "kAddition"
    BY <1>2, <1>3, <2>4, LineOf DEF HasLine, Kept, Made
  <2>5. CASE m.kind = "kDeletion"
    BY <1>2, <1>3, <2>5, LineOf DEF HasLine, Kept, Made
  <2>6. CASE m.kind = "kNoChange"
    BY <1>2, <1>3, <2>3, <2>6, LineOf DEF HasLine, Kept, Made
  <2> QED  BY <1>3, <2>4, <2>5, <2>6
<1>5. ASSUME i = Len(result)  PROVE Line(m) = <<>>
  <2>1. m = Modification(<<0, 0>>, "kNoChange")
    BY <1>2, <1>5 DEF ScriptIsAPath
  <2>2. m.kind = "kNoChange" /\ m.lhs = Len(lhs) + 1
    BY <1>1, <2>1 DEF Modification, LhsAt
  <2> QED  BY <1>3, <2>2, LineOf
<1> QED  BY <1>1, <1>2, <1>3, <1>4, <1>5 DEF HasLine

(* One modification more is at most one line more. *)
LEMMA LineAdded ==
  ASSUME NEW signs, NEW n \in Nat
  PROVE  /\ Cardinality(LinesUpTo(n, signs)) \in Nat /\ Cardinality(LinesUpTo(0, signs)) = 0
         /\ Cardinality(LinesUpTo(n + 1, signs)) =
              Cardinality(LinesUpTo(n, signs)) + (IF HasLine(n + 1, signs) THEN 1 ELSE 0)
<1>1. LinesUpTo(n, signs) \in SUBSET (1 .. n) /\ IsFiniteSet(1 .. n)
  BY FS_Interval DEF LinesUpTo
<1>2. IsFiniteSet(LinesUpTo(n, signs))
  BY <1>1, FS_Subset
<1>3. Cardinality(LinesUpTo(n, signs)) \in Nat
  BY <1>2, FS_CardinalityType
<1>4. LinesUpTo(0, signs) = {}
  BY DEF LinesUpTo
<1>5. Cardinality(LinesUpTo(0, signs)) = 0
  BY <1>4, FS_EmptySet
<1>6. n + 1 \notin LinesUpTo(n, signs)
  BY <1>1
<1>7. CASE HasLine(n + 1, signs)
  <2>1. LinesUpTo(n + 1, signs) = LinesUpTo(n, signs) \cup {n + 1}
    BY <1>7 DEF LinesUpTo, HasLine
  <2> QED  BY <1>2, <1>3, <1>5, <1>6, <1>7, <2>1, FS_AddElement
<1>8. CASE ~HasLine(n + 1, signs)
  <2>1. LinesUpTo(n + 1, signs) = LinesUpTo(n, signs)
    BY <1>8 DEF LinesUpTo, HasLine
  <2> QED  BY <1>3, <1>5, <1>8, <2>1
<1> QED  BY <1>7, <1>8

Counts(n) ==
  n \in 1 .. Len(result) =>
    /\ Cardinality(LinesUpTo(n - 1, Kept)) = result[n].lhs - 1
    /\ Cardinality(LinesUpTo(n - 1, Made)) = result[n].rhs - 1

LEMMA CountsStep ==
  ASSUME TypeOK, ScriptIsAPath, stage = "returned", NEW n \in Nat, Counts(n)
  PROVE  Counts(n + 1)
<1> SUFFICES ASSUME n + 1 \in 1 .. Len(result)
             PROVE  /\ Cardinality(LinesUpTo(n, Kept)) = result[n + 1].lhs - 1
                    /\ Cardinality(LinesUpTo(n, Made)) = result[n + 1].rhs - 1
  BY DEF Counts
<1>1. CASE n = 0
  <2>1. result[n + 1].lhs = 1 /\ result[n + 1].rhs = 1
    BY <1>1 DEF ScriptIsAPath
  <2> QED  BY <1>1, <2>1, LineAdded
<1>2. CASE n # 0
  <2>1. Len(result) \in Nat
    BY LenProperties DEF TypeOK
  <2>2. n \in 1 .. Len(result) /\ n \in 1 .. Len(result) - 1 /\ n < Len(result) /\ n - 1 \in Nat
    BY <1>2, <2>1
  <2>3. PICK m : m = result[n]
    OBVIOUS
  <2>4. /\ m.lhs \in Int /\ m.rhs \in Int
        /\ HasLine(n, Kept) <=> m.kind # "kAddition"
        /\ HasLine(n, Made) <=> m.kind # "kDeletion"
    BY <2>2, <2>3, PathLines DEF Modifications
  <2>5. result[n + 1].lhs = NextLhs(m) /\ result[n + 1].rhs = NextRhs(m)
    BY <2>2, <2>3 DEF ScriptIsAPath
  <2>6. /\ Cardinality(LinesUpTo(n - 1, Kept)) = m.lhs - 1
        /\ Cardinality(LinesUpTo(n - 1, Made)) = m.rhs - 1
    BY <2>2, <2>3 DEF Counts
  <2>7. (n - 1) + 1 = n
    BY <2>2
  <2>8. /\ Cardinality(LinesUpTo(n, Kept)) =
             Cardinality(LinesUpTo(n - 1, Kept)) + (IF HasLine(n, Kept) THEN 1 ELSE 0)
        /\ Cardinality(LinesUpTo(n, Made)) =
             Cardinality(LinesUpTo(n - 1, Made)) + (IF HasLine(n, Made) THEN 1 ELSE 0)
    <3>1. PICK k \in Nat : k = n - 1
      BY <2>2
    <3>2. /\ Cardinality(LinesUpTo(k + 1, Kept)) =
             Cardinality(LinesUpTo(k, Kept)) + (IF HasLine(k + 1, Kept) THEN 1 ELSE 0)
          /\ Cardinality(LinesUpTo(k + 1, Made)) =
             Cardinality(LinesUpTo(k, Made)) + (IF HasLine(k + 1, Made) THEN 1 ELSE 0)
      BY LineAdded
    <3> QED  BY <2>7, <3>1, <3>2
  <2> QED  BY <2>4, <2>5, <2>6, <2>8 DEF NextLhs, NextRhs
<1> QED  BY <1>1, <1>2

LEMMA LinesCount ==
  ASSUME TypeOK, ScriptIsAPath, stage = "returned", NEW n \in Nat
  PROVE  Counts(n)
<1>1. SUFFICES ASSUME ~Counts(n)  PROVE FALSE
  OBVIOUS
<1> DEFINE D == {k \in Nat : ~Counts(k)}
<1>2. D \subseteq Nat /\ n \in D
  BY <1>1
<1> HIDE DEF D
<1>3. PICK k \in D : \A j \in D : <<j, k>> \notin OpToRel(<, Nat)
  BY <1>2, NatLessThanWellFounded, WFMin
<1>4. k \in Nat /\ ~Counts(k) /\ \A j \in Nat : j < k => Counts(j)
  BY <1>2, <1>3 DEF D, OpToRel
<1>5. k # 0
  BY <1>4 DEF Counts
<1>6. PICK j \in Nat : k = j + 1 /\ j < k
  <2>1. k - 1 \in Nat /\ k = (k - 1) + 1 /\ k - 1 < k
    BY <1>4, <1>5
  <2> QED  BY <2>1
<1> QED  BY <1>4, <1>6, CountsStep

LEMMA PathIsListed ==
  TypeOK /\ ScriptIsAPath => ListingShowsBoth
<1> SUFFICES ASSUME TypeOK, ScriptIsAPath, stage = "returned"
             PROVE  Shows(Kept, lhs, Identical) /\ Shows(Made, rhs, Identical \cup Eq)
  BY DEF ListingShowsBoth, Kept, Made
<1>1. /\ Len(result) \in Nat \ {0} /\ Len(lhs) \in Nat /\ Len(rhs) \in Nat
      /\ \A k \in 1 .. Len(lhs) : lhs[k] \in Value
      /\ \A k \in 1 .. Len(rhs) : rhs[k] \in Value
  <2>1. Len(result) \in Nat /\ Len(result) > 0
    BY LenProperties DEF TypeOK, ScriptIsAPath
  <2> QED  BY <2>1, LenProperties, ElementOfSeq DEF TypeOK
<1>2. PICK n : n = Len(result)
  OBVIOUS
<1>3. ASSUME NEW i \in 1 .. n
      PROVE  \E k \in Nat : /\ i = k + 1
               /\ Cardinality(LinesUpTo(k, Kept)) = result[i].lhs - 1
               /\ Cardinality(LinesUpTo(k, Made)) = result[i].rhs - 1
               /\ Cardinality(LinesUpTo(i, Kept)) =
                    Cardinality(LinesUpTo(k, Kept)) + (IF HasLine(i, Kept) THEN 1 ELSE 0)
               /\ Cardinality(LinesUpTo(i, Made)) =
                    Cardinality(LinesUpTo(k, Made)) + (IF HasLine(i, Made) THEN 1 ELSE 0)
  <2>1. i - 1 \in Nat /\ i = (i - 1) + 1 /\ i \in Nat
    BY <1>1, <1>2
  <2>2. PICK k \in Nat : k = i - 1 /\ i = k + 1
    BY <2>1
  <2>3. Counts(i)
    BY <2>1, LinesCount
  <2>4. /\ Cardinality(LinesUpTo(k, Kept)) = result[i].lhs - 1
        /\ Cardinality(LinesUpTo(k, Made)) = result[i].rhs - 1
    BY <1>2, <2>2, <2>3 DEF Counts
  <2>5. /\ Cardinality(LinesUpTo(k + 1, Kept)) =
             Cardinality(LinesUpTo(k, Kept)) + (IF HasLine(k + 1, Kept) THEN 1 ELSE 0)
        /\ Cardinality(LinesUpTo(k + 1, Made)) =
             Cardinality(LinesUpTo(k, Made)) + (IF HasLine(k + 1, Made) THEN 1 ELSE 0)
    BY LineAdded
  <2> QED  BY <2>2, <2>4, <2>5
<1>4. /\ Cardinality(LinesUpTo(n, Kept)) = Len(lhs)
      /\ Cardinality(LinesUpTo(n, Made)) = Len(rhs)
  <2>1. n \in 1 .. n /\ n \in 1 .. Len(result)
    BY <1>1, <1>2
  <2>2. ~HasLine(n, Kept) /\ ~HasLine(n, Made)
    BY <1>2, <2>1, PathLines
  <2>3. result[n] = Modification(<<0, 0>>, "kNoChange")
    BY <1>2 DEF ScriptIsAPath
  <2>4. result[n].lhs = Len(lhs) + 1 /\ result[n].rhs = Len(rhs) + 1
    BY <1>1, <2>3 DEF Modification, LhsAt, RhsAt
  <2>5. PICK k \in Nat : 
               /\ Cardinality(LinesUpTo(k, Kept)) = result[n].lhs - 1
               /\ Cardinality(LinesUpTo(k, Made)) = result[n].rhs - 1
               /\ Cardinality(LinesUpTo(n, Kept)) = Cardinality(LinesUpTo(k, Kept)) + 0
               /\ Cardinality(LinesUpTo(n, Made)) = Cardinality(LinesUpTo(k, Made)) + 0
    BY <1>3, <2>1, <2>2
  <2> QED  BY <1>1, <2>4, <2>5
<1>5. ASSUME NEW i \in 1 .. n
      PROVE  /\ HasLine(i, Kept) =>
                  <<Line(result[i])[1].text, lhs[Cardinality(LinesUpTo(i, Kept))]>> \in Identical
             /\ HasLine(i, Made) =>
                  <<Line(result[i])[1].text, rhs[Cardinality(LinesUpTo(i, Made))]>>
                    \in Identical \cup Eq
  <2>1. PICK m : m = result[i]
    OBVIOUS
  <2>2. /\ m \in Modifications /\ m.lhs \in Int /\ m.rhs \in Int
        /\ m.kind \in {"kAddition", "kDeletion", "kNoChange"}
        /\ m.lhs >= 1 /\ m.rhs >= 1
    <3>1. m \in Modifications
      BY <1>2, <2>1, PathLines
    <3> QED  BY <3>1, <1>1 DEF Modifications, Kinds, Changes
  <2>3. CASE i = n
    BY <1>2, <2>3, PathLines
  <2>4. CASE i # n
    <3>1. i \in 1 .. Len(result) - 1 /\ i < Len(result) /\ i \in 1 .. Len(result)
      BY <1>1, <1>2, <2>4
    <3>2. /\ HasLine(i, Kept) <=> m.kind # "kAddition"
          /\ HasLine(i, Made) <=> m.kind # "kDeletion"
      BY <2>1, <3>1, PathLines
    <3>3. PICK k \in Nat : 
               /\ Cardinality(LinesUpTo(k, Kept)) = m.lhs - 1
               /\ Cardinality(LinesUpTo(k, Made)) = m.rhs - 1
               /\ Cardinality(LinesUpTo(i, Kept)) =
                    Cardinality(LinesUpTo(k, Kept)) + (IF HasLine(i, Kept) THEN 1 ELSE 0)
               /\ Cardinality(LinesUpTo(i, Made)) =
                    Cardinality(LinesUpTo(k, Made)) + (IF HasLine(i, Made) THEN 1 ELSE 0)
      BY <1>3, <2>1
    <3>4. /\ HasLine(i, Kept) => Cardinality(LinesUpTo(i, Kept)) = m.lhs
          /\ HasLine(i, Made) => Cardinality(LinesUpTo(i, Made)) = m.rhs
      BY <2>2, <3>3
    <3>5. /\ m.kind # "kAddition" => m.lhs \in 1 .. Len(lhs)
          /\ m.kind # "kDeletion" => m.rhs \in 1 .. Len(rhs)
          /\ m.kind = "kNoChange" => <<lhs[m.lhs], rhs[m.rhs]>> \in Eq
      <4>1. /\ m.kind # "kAddition" => m.lhs <= Len(lhs)
            /\ m.kind # "kDeletion" => m.rhs <= Len(rhs)
            /\ m.kind = "kNoChange" => <<lhs[m.lhs], rhs[m.rhs]>> \in Eq
        BY <2>1, <3>1 DEF ScriptIsAPath
      <4> QED  BY <1>1, <2>2, <4>1
    <3>6. CASE m.kind = "kAddition"
      <4>1. Line(m)[1].text = rhs[m.rhs] /\ rhs[m.rhs] \in Value
        BY <1>1, <2>2, <3>5, <3>6, LineOf
      <4> QED  BY <2>1, <3>2, <3>4, <3>6, <4>1 DEF Identical
    <3>7. CASE m.kind = "kDeletion"
      <4>1. Line(m)[1].text = lhs[m.lhs] /\ lhs[m.lhs] \in Value
        BY <1>1, <2>2, <3>5, <3>7, LineOf
      <4> QED  BY <2>1, <3>2, <3>4, <3>7, <4>1 DEF Identical
    <3>8. CASE m.kind = "kNoChange"
      <4>1. m.lhs # Len(lhs) + 1
        BY <1>1, <3>5, <3>8
      <4>2. Line(m)[1].text = lhs[m.lhs] /\ lhs[m.lhs] \in Value
        BY <1>1, <2>2, <3>5, <3>8, <4>1, LineOf
      <4> QED  BY <2>1, <3>2, <3>4, <3>5, <3>8, <4>2 DEF Identical
    <3> QED  BY <2>2, <3>6, <3>7, <3>8
  <2> QED  BY <2>3, <2>4
<1>6. \A i, signs : i \in LinesUpTo(n, signs) => i \in 1 .. n /\ HasLine(i, signs)
  BY DEF LinesUpTo, HasLine
<1> QED  BY <1>2, <1>4, <1>5, <1>6 DEF Shows

(* Whatever is compared, both files can be read off the listing: the       *)
(* sentinel is the only modification without a line (diff_tool.cc:19-29).  *)
THEOREM ListingIsComplete ==
  Spec => []ListingShowsBoth
BY AlwaysTyped, AlwaysAPath, PathIsListed, PTL
===============================================================================
