----------------------------- MODULE SequenceDiffer -----------------------------
(***************************************************************************)
(* SequenceDiffer of util/diff.h, and the listing diff_tool prints of what *)
(* it returns.  A subproblem is named by how much is left of the two       *)
(* sequences, which is also its key in the memo table; a pointer to a      *)
(* ModSeqResult is the key of its entry, and nullptr is <<>>.  The         *)
(* recursion is a stack of frames, one per activation of the private       *)
(* Diff().                                                                 *)
(***************************************************************************)
EXTENDS Sequences, Integers, FiniteSets

CONSTANTS Value,       \* elements of the sequences
          Eq,          \* the pairs <<x, y>> with eq_(x, y)
          Containers   \* the sequences that are compared

ASSUME DifferAssumption == Containers \subseteq Seq(Value)

VARIABLES lhs, rhs,        \* the arguments of Diff()
          cached_seqs,     \* SequenceDiffer::cached_seqs_
          calls,           \* activations of Diff(begin, end, ...), innermost last
          result_list,     \* the pointer Diff(lhs, rhs) follows
          result,          \* the modifications it has collected
          stage            \* "idle", "recursing", "following" or "returned"

vars == <<lhs, rhs, cached_seqs, calls, result_list, result, stage>>

nullptr == <<>>

Changes == {"kDeletion", "kAddition"}

Kinds == Changes \cup {"kNoChange"}

(* What is still to be tried in an activation, in the order of the code. *)
After(kind) == [kDeletion |-> "kAddition", kAddition |-> "kNoChange", kNoChange |-> "return"][kind]

(* Where an iterator with n elements before its end is. *)
LhsAt(n) == Len(lhs) - n + 1

RhsAt(n) == Len(rhs) - n + 1

Mut_ModificationPastRhs(key, kind) ==
  [lhs |-> LhsAt(key[1]), rhs |-> RhsAt(key[2]) + 1, kind |-> kind]

Modification(key, kind) == [lhs |-> LhsAt(key[1]), rhs |-> RhsAt(key[2]), kind |-> kind]

ModSeqResult(head, tail, len) == [head |-> head, tail |-> tail, len |-> len]

(* An activation on key; best is the util::Optional named result. *)
Call(key) == [key |-> key, at |-> "kDeletion", best |-> <<>>]

Mut_PossibleUnequal(key, kind) ==
  /\ kind # "kAddition" => key[1] > 0
  /\ kind # "kDeletion" => key[2] > 0

Mut_PossibleBeforeTheLast(key, kind) ==
  /\ kind # "kAddition" => key[1] > 0
  /\ kind # "kDeletion" => key[2] > 0
  /\ kind = "kNoChange" => /\ key[1] > 1
                           /\ <<lhs[LhsAt(key[1])], rhs[RhsAt(key[2])]>> \in Eq

Possible(key, kind) ==
  /\ kind # "kAddition" => key[1] > 0
  /\ kind # "kDeletion" => key[2] > 0
  /\ kind = "kNoChange" => <<lhs[LhsAt(key[1])], rhs[RhsAt(key[2])]>> \in Eq

(* What a modification leaves to the recursion, and what it costs. *)
Rest(key, kind) ==
  <<IF kind = "kAddition" THEN key[1] ELSE key[1] - 1,
    IF kind = "kDeletion" THEN key[2] ELSE key[2] - 1>>

Cost(kind) == IF kind \in Changes THEN 1 ELSE 0

Better(m, best) == best = <<>> \/ m.len < best[1].len

Sentinel == ModSeqResult(Modification(<<0, 0>>, "kNoChange"), nullptr, 0)

Extend(F, key, x) == [k \in DOMAIN F \cup {key} |-> IF k = key THEN x ELSE F[k]]

Top == calls[Len(calls)]

Callers == SubSeq(calls, 1, Len(calls) - 1)

SetTop(frame) == calls' = Append(Callers, frame)

-----------------------------------------------------------------------------
Mut_DiffKeepsCache ==
  /\ stage \in {"idle", "returned"}
  /\ lhs' \in Containers /\ rhs' \in Containers
  /\ calls' = <<Call(<<Len(lhs'), Len(rhs')>>)>>
  /\ result' = <<>>
  /\ stage' = "recursing"
  /\ UNCHANGED <<cached_seqs, result_list>>

(* Diff(lhs, rhs) up to the first activation: the cache is empty. *)
Diff ==
  /\ stage \in {"idle", "returned"}
  /\ lhs' \in Containers /\ rhs' \in Containers
  /\ cached_seqs' = [k \in {} |-> nullptr]
  /\ calls' = <<Call(<<Len(lhs'), Len(rhs')>>)>>
  /\ result' = <<>>
  /\ stage' = "recursing"
  /\ UNCHANGED result_list

Recursing(kind) == stage = "recursing" /\ Top.at = kind

(* A modification that the ends, or different elements, rule out. *)
Skip(kind) ==
  /\ Recursing(kind)
  /\ ~Possible(Top.key, kind)
  /\ SetTop([Top EXCEPT !.at = After(kind)])
  /\ UNCHANGED <<lhs, rhs, cached_seqs, result_list, result, stage>>

(* A cache miss: another activation. *)
Recurse(kind) ==
  /\ Recursing(kind)
  /\ Possible(Top.key, kind)
  /\ Rest(Top.key, kind) \notin DOMAIN cached_seqs
  /\ calls' = Append(calls, Call(Rest(Top.key, kind)))
  /\ UNCHANGED <<lhs, rhs, cached_seqs, result_list, result, stage>>

Mut_MakeModificationOnlyBetter(kind) ==
  /\ Recursing(kind)
  /\ Possible(Top.key, kind)
  /\ Rest(Top.key, kind) \in DOMAIN cached_seqs
  /\ LET tail == Rest(Top.key, kind)
         m == ModSeqResult(Modification(Top.key, kind), tail,
                           Cost(kind) + cached_seqs[tail].len)
     IN  SetTop(IF Better(m, Top.best) THEN [Top EXCEPT !.at = After(kind), !.best = <<m>>]
                                       ELSE Top)
  /\ UNCHANGED <<lhs, rhs, cached_seqs, result_list, result, stage>>

(* A hit, and what is known then is compared with the best so far. *)
MakeModification(kind) ==
  /\ Recursing(kind)
  /\ Possible(Top.key, kind)
  /\ Rest(Top.key, kind) \in DOMAIN cached_seqs
  /\ LET tail == Rest(Top.key, kind)
         m == ModSeqResult(Modification(Top.key, kind), tail,
                           Cost(kind) + cached_seqs[tail].len)
     IN  SetTop([Top EXCEPT !.at = After(kind),
                            !.best = IF Better(m, Top.best) THEN <<m>> ELSE Top.best])
  /\ UNCHANGED <<lhs, rhs, cached_seqs, result_list, result, stage>>

(* An activation returns to the emplace() of its Recurse(), the outermost  *)
(* one to Diff(lhs, rhs).                                                  *)
Emplace ==
  /\ Recursing("return")
  /\ cached_seqs' = Extend(cached_seqs, Top.key,
                           IF Top.best # <<>> THEN Top.best[1] ELSE Sentinel)
  /\ calls' = Callers
  /\ IF Callers = <<>>
     THEN stage' = "following" /\ result_list' = Top.key
     ELSE UNCHANGED <<stage, result_list>>
  /\ UNCHANGED <<lhs, rhs, result>>

Mut_PushBackErases ==
  /\ stage = "following"
  /\ result_list # nullptr
  /\ result' = Append(result, cached_seqs[result_list].head)
  /\ result_list' = cached_seqs[result_list].tail
  /\ cached_seqs' = [k \in DOMAIN cached_seqs \ {result_list} |-> cached_seqs[k]]
  /\ UNCHANGED <<lhs, rhs, calls, stage>>

PushBack ==
  /\ stage = "following"
  /\ result_list # nullptr
  /\ result' = Append(result, cached_seqs[result_list].head)
  /\ result_list' = cached_seqs[result_list].tail
  /\ UNCHANGED <<lhs, rhs, cached_seqs, calls, stage>>

Return ==
  /\ stage = "following"
  /\ result_list = nullptr
  /\ stage' = "returned"
  /\ UNCHANGED <<lhs, rhs, cached_seqs, calls, result_list, result>>

(***************************************************************************)
(* The specification.  The caller may compare again with the same object.  *)
(***************************************************************************)
Init ==
  /\ lhs = <<>> /\ rhs = <<>>
  /\ cached_seqs = [k \in {} |-> nullptr]
  /\ calls = <<>> /\ result_list = nullptr /\ result = <<>>
  /\ stage = "idle"

Compute ==
  \/ \E kind \in Kinds : Skip(kind) \/ Recurse(kind) \/ MakeModification(kind)
  \/ Emplace
  \/ PushBack \/ Return

Next == Diff \/ Compute

Spec == Init /\ [][Next]_vars /\ WF_vars(Compute)

(***************************************************************************)
(* The listing of diff_tool.cc: a line per modification, but none for a    *)
(* kNoChange at the end of lhs.                                            *)
(***************************************************************************)
Mut_LineBeforeTheLast(m) ==
  CASE m.kind = "kAddition" -> <<[at |-> m.lhs - 1, sign |-> "+", text |-> rhs[m.rhs]]>>
    [] m.kind = "kDeletion" -> <<[at |-> m.lhs - 1, sign |-> "-", text |-> lhs[m.lhs]]>>
    [] m.kind = "kNoChange" /\ m.lhs < Len(lhs) ->
         <<[at |-> m.lhs - 1, sign |-> "=", text |-> lhs[m.lhs]]>>
    [] OTHER -> <<>>

Line(m) ==
  CASE m.kind = "kAddition" -> <<[at |-> m.lhs - 1, sign |-> "+", text |-> rhs[m.rhs]]>>
    [] m.kind = "kDeletion" -> <<[at |-> m.lhs - 1, sign |-> "-", text |-> lhs[m.lhs]]>>
    [] m.kind = "kNoChange" /\ m.lhs # Len(lhs) + 1 ->
         <<[at |-> m.lhs - 1, sign |-> "=", text |-> lhs[m.lhs]]>>
    [] OTHER -> <<>>

-----------------------------------------------------------------------------
(***************************************************************************)
(* Properties.                                                             *)
(***************************************************************************)
Keys == (0 .. Len(lhs)) \X (0 .. Len(rhs))

Modifications == [lhs : 1 .. Len(lhs) + 1, rhs : 1 .. Len(rhs) + 1, kind : Kinds]

Results == [head : Modifications, tail : Keys \cup {nullptr}, len : Nat]

Frames == [key : Keys, at : Kinds \cup {"return"}, best : Seq(Results)]

(* Every iterator stays between the ends of its container. *)
TypeOK ==
  /\ lhs \in Seq(Value) /\ rhs \in Seq(Value)
  /\ DOMAIN cached_seqs \subseteq Keys
  /\ \A key \in DOMAIN cached_seqs : cached_seqs[key] \in Results
  /\ calls \in Seq(Frames)
  /\ \A i \in DOMAIN calls : Len(calls[i].best) <= 1
  /\ result_list \in Keys \cup {nullptr}
  /\ result \in Seq(Modifications)
  /\ stage \in {"idle", "recursing", "following", "returned"}

(* r is the best that can be made of key with one of the modifications in  *)
(* kinds and the entries of the cache: it is one of those, no other is     *)
(* shorter, and at the end of both sequences it is the sentinel.           *)
Optimal(r, key, kinds) ==
  /\ \A kind \in kinds : Possible(key, kind) =>
       /\ Rest(key, kind) \in DOMAIN cached_seqs
       /\ r.len <= Cost(kind) + cached_seqs[Rest(key, kind)].len
  /\ \/ \E kind \in kinds : 
          /\ Possible(key, kind)
          /\ r = ModSeqResult(Modification(key, kind), Rest(key, kind),
                              Cost(kind) + cached_seqs[Rest(key, kind)].len)
     \/ key = <<0, 0>> /\ r = Sentinel

(* The memo table satisfies the equations of the edit distance at every    *)
(* moment of the recursion, so no entry is made before those it is made of *)
(* and none is left from another pair of sequences (diff.h:128, 161, 178). *)
CacheIsOptimal ==
  \A key \in DOMAIN cached_seqs : Optimal(cached_seqs[key], key, Kinds)

(* What a modification consumes of the two sequences. *)
NextLhs(m) == IF m.kind = "kAddition" THEN m.lhs ELSE m.lhs + 1

NextRhs(m) == IF m.kind = "kDeletion" THEN m.rhs ELSE m.rhs + 1

(* The modifications returned lead from the beginning of both sequences to *)
(* their ends: each starts where the one before it stopped, an unchanged   *)
(* pair is equal, and after the sentinel there is nothing (diff.h:162-168, *)
(* 176-201).                                                               *)
ScriptIsAPath ==
  stage = "returned" =>
    /\ Len(result) > 0
    /\ result[1].lhs = 1 /\ result[1].rhs = 1
    /\ \A i \in 1 .. Len(result) - 1 :
         /\ result[i + 1].lhs = NextLhs(result[i])
         /\ result[i + 1].rhs = NextRhs(result[i])
         /\ result[i].kind # "kAddition" => result[i].lhs <= Len(lhs)
         /\ result[i].kind # "kDeletion" => result[i].rhs <= Len(rhs)
         /\ result[i].kind = "kNoChange" =>
              <<lhs[result[i].lhs], rhs[result[i].rhs]>> \in Eq
    /\ result[Len(result)] = Modification(<<0, 0>>, "kNoChange")

(* The lines of the listing with one of the signs, up to modification n.   *)
LinesUpTo(n, signs) ==
  {i \in 1 .. n : Line(result[i]) # <<>> /\ Line(result[i])[1].sign \in signs}

(* Those lines show s: there is one for each of its elements, the k-th for *)
(* the k-th, and what is on it is the element or, by same, as good as it.  *)
Shows(signs, s, same) ==
  /\ Cardinality(LinesUpTo(Len(result), signs)) = Len(s)
  /\ \A i \in LinesUpTo(Len(result), signs) :
       <<Line(result[i])[1].text, s[Cardinality(LinesUpTo(i, signs))]>> \in same

Identical == {<<x, x>> : x \in Value}

(* Both files can be read off the listing, which has a line for each of    *)
(* their lines and none for the sentinel (diff_tool.cc:19-29).             *)
ListingShowsBoth ==
  stage = "returned" =>
    Shows({"=", "-"}, lhs, Identical) /\ Shows({"=", "+"}, rhs, Identical \cup Eq)

(* Elements of lhs that can be left unchanged together, and the elements   *)
(* of rhs they become: equal ones, in the same order.                      *)
Matching(f) ==
  \A i, j \in DOMAIN f : <<lhs[i], rhs[f[i]]>> \in Eq /\ (i < j => f[i] < f[j])

Matchings == {f \in UNION {[S -> DOMAIN rhs] : S \in SUBSET DOMAIN lhs} : Matching(f)}

ChangesIn(s) == {i \in DOMAIN s : s[i].kind \in Changes}

(* No shorter script exists: one that leaves the elements of f unchanged   *)
(* deletes the others of lhs and adds the others of rhs (diff.h:181-193).  *)
ScriptIsShortest ==
  stage = "returned" =>
    \A f \in Matchings :
      Cardinality(ChangesIn(result)) <= Len(lhs) + Len(rhs) - 2 * Cardinality(DOMAIN f)

(* Pointers into the table stay good: an entry does not change while one   *)
(* may exist, whatever is inserted meanwhile (diff.h:131, 145-153).        *)
EntriesAreStable ==
  [][stage # "idle" /\ stage # "returned" =>
       \A key \in DOMAIN cached_seqs :
         key \in DOMAIN cached_seqs' /\ cached_seqs'[key] = cached_seqs[key]]_vars

(* A comparison ends. *)
Terminates == stage \in {"recursing", "following"} ~> stage = "returned"
===============================================================================
