------------------------------ MODULE ParserProofs ------------------------------
(***************************************************************************)
(* The generic parser over any grammar and any tokens: what it reports as  *)
(* a success is a derivation of all the tokens.  A derivation is defined   *)
(* by the rules that make one, and what is derived is what is in every set *)
(* that is closed under these rules; Derived stands for any such set.      *)
(***************************************************************************)
EXTENDS RecursiveDescent, SeqLemmas

CONSTANTS Root,       \* the variable Parse() is called for
          AllAlts,    \* the alternatives of the variables and of the groups
          AllExprs,   \* the expressions in them
          Derived     \* a set that is closed under the rules below

parseVars == <<rules, tokens, calls, answer>>

ParseInit == Root \in DOMAIN rules /\ calls = ParseCall(Root) /\ answer = <<>>

ParseSpec == ParseInit /\ [][ParseNext /\ UNCHANGED <<rules, tokens>>]_parseVars

(* Every alternative has an expression; a group is no variable. *)
IsGrammar ==
  /\ \A v \in DOMAIN rules : rules[v] \in AllAlts
  /\ AllAlts \subseteq Seq(Seq(AllExprs) \ {<<>>})
  /\ \A e \in AllExprs : /\ e.min \in Nat /\ e.max \in Nat /\ e.min <= e.max
                         /\ e.term.kind = "group" => e.term.alts \in AllAlts
  /\ GroupTag \notin DOMAIN rules
  /\ Len(tokens) \in Nat

(***************************************************************************)
(* The nodes s are what the term t, n rounds of the expression e, the      *)
(* whole of it, the first n expressions of x, or the alternatives alts     *)
(* make of the tokens between i and j.                                     *)
(***************************************************************************)
TermMakes(t, i, j, s) == <<"term", t, i, j, s>> \in Derived
RoundsMake(e, n, i, j, s) == <<"rounds", e, n, i, j, s>> \in Derived
ExpressionMakes(e, i, j, s) == <<"expression", e, i, j, s>> \in Derived
FirstMake(x, n, i, j, s) == <<"first", x, n, i, j, s>> \in Derived
AlternativesMake(alts, i, j, s) == <<"alternatives", alts, i, j, s>> \in Derived

TermRules ==
  \A e \in AllExprs :
    /\ e.term.kind = "terminal" =>
         \A i \in 0 .. Len(tokens) - 1 :
           tokens[i + 1].tag = e.term.tag => TermMakes(e.term, i, i + 1, <<Leaf(tokens[i + 1])>>)
    /\ e.term.kind = "nonterminal" /\ e.term.tag \in DOMAIN rules =>
         \A i, j, s : AlternativesMake(rules[e.term.tag], i, j, s)
                        => TermMakes(e.term, i, j, <<Node(e.term.tag, s)>>)
    /\ e.term.kind = "group" =>
         \A i, j, s : AlternativesMake(e.term.alts, i, j, s) => TermMakes(e.term, i, j, s)

(* A piece that takes no token stands for all the rounds that are left: the *)
(* parser does not ask for it again.                                        *)
ExpressionRules ==
  \A e \in AllExprs :
    /\ \A i \in 0 .. Len(tokens) : RoundsMake(e, 0, i, i, <<>>)
    /\ \A n \in Nat : \A i, j, k, s, u :
         RoundsMake(e, n, i, j, s) /\ TermMakes(e.term, j, k, u)
           => RoundsMake(e, n + 1, i, k, s \o u)
    /\ \A n \in e.min .. e.max : \A i, j, s :
         RoundsMake(e, n, i, j, s) => ExpressionMakes(e, i, j, s)
    /\ \A n \in 0 .. e.max - 1 : \A i, j, s, u :
         RoundsMake(e, n, i, j, s) /\ TermMakes(e.term, j, j, u)
           => ExpressionMakes(e, i, j, s \o u)

AlternativeRules ==
  \A alts \in AllAlts : \A k \in DOMAIN alts :
    /\ \A i \in 0 .. Len(tokens) : FirstMake(alts[k], 0, i, i, <<>>)
    /\ \A n \in 0 .. Len(alts[k]) - 1 : \A i, j, l, s, u :
         FirstMake(alts[k], n, i, j, s) /\ ExpressionMakes(alts[k][n + 1], j, l, u)
           => FirstMake(alts[k], n + 1, i, l, s \o u)
    /\ \A i, j, s : FirstMake(alts[k], Len(alts[k]), i, j, s) => AlternativesMake(alts, i, j, s)

Closed == TermRules /\ ExpressionRules /\ AlternativeRules

(***************************************************************************)
(* The inductive invariant: what every activation has derived so far.      *)
(***************************************************************************)
IsSequence(s) == s \in Seq({s[i] : i \in DOMAIN s})

FrameFields == {"tag", "alts", "begin", "to_end", "alt", "best", "nth", "done", "round", "cur"}

IsResult(r, from) ==
  /\ DOMAIN r = {"pos", "nodes", "success"}
  /\ r.pos \in from .. Len(tokens) /\ r.success \in BOOLEAN /\ IsSequence(r.nodes)

IsCall(f) ==
  /\ DOMAIN f = FrameFields
  /\ f.alts \in AllAlts /\ f.begin \in 0 .. Len(tokens) /\ f.to_end \in BOOLEAN
  /\ f.alt \in 1 .. Len(f.alts) + 1

BestIsDerived(f) ==
  /\ IsResult(f.best, f.begin)
  /\ f.best.success => /\ AlternativesMake(f.alts, f.begin, f.best.pos, f.best.nodes)
                       /\ f.to_end => f.best.pos = Len(tokens)

DoneIsDerived(f) ==
  /\ f.nth \in 1 .. Len(Exprs(f))
  /\ IsResult(f.done, f.begin) /\ f.done.success
  /\ FirstMake(Exprs(f), f.nth - 1, f.begin, f.done.pos, f.done.nodes)

CurIsDerived(f) ==
  /\ f.round \in Nat /\ (f.round = 0 \/ f.round < Expr(f).max)
  /\ IsResult(f.cur, f.done.pos)
  /\ f.cur.success => RoundsMake(Expr(f), f.round, f.done.pos, f.cur.pos, f.cur.nodes)

Sound(f) ==
  IsCall(f) /\ BestIsDerived(f) /\ (f.alt <= Len(f.alts) => DoneIsDerived(f) /\ CurIsDerived(f))

(* The frame f waits for what g, the activation it has called, makes of     *)
(* its term.                                                                *)
Awaits(f, g) ==
  /\ ~Finished(f) /\ Expr(f).max > 0
  /\ g.begin = f.cur.pos
  /\ \/ Expr(f).term.kind = "group" /\ g.tag = GroupTag /\ g.alts = Expr(f).term.alts
     \/ /\ Expr(f).term.kind = "nonterminal" /\ g.tag = Expr(f).term.tag
        /\ g.tag \in DOMAIN rules /\ g.alts = rules[g.tag]

IsFirst(f) == f.tag = Root /\ f.alts = rules[Root] /\ f.begin = 0 /\ f.to_end

(* What Parse() answers with success TRUE: a node of the root over a        *)
(* derivation of all the tokens.                                            *)
SuccessIsDerived ==
  \A k \in DOMAIN answer :
    answer[k].success =>
      /\ answer[k].pos = Len(tokens)
      /\ \E s : /\ answer[k].nodes = <<Node(Root, s)>>
                /\ AlternativesMake(rules[Root], 0, Len(tokens), s)

(* The position that Parse() answers with, which a message about a syntax   *)
(* error is made from, is that of a token or the end.                       *)
AnswerInRange == \A k \in DOMAIN answer : answer[k].pos \in 0 .. Len(tokens)

Stack(s) ==
  /\ IsSequence(s)
  /\ \A k \in 1 .. Len(s) : Sound(s[k])
  /\ \A k \in 1 .. Len(s) - 1 : Awaits(s[k], s[k + 1])
  /\ Len(s) > 0 => IsFirst(s[1])

Parsing ==
  /\ IsGrammar /\ Closed /\ Root \in DOMAIN rules
  /\ Stack(calls)
  /\ SuccessIsDerived /\ AnswerInRange

-----------------------------------------------------------------------------
(***************************************************************************)
(* Sequences of whatever.                                                  *)
(***************************************************************************)
LEMMA SequenceLaws ==
  ASSUME NEW s, IsSequence(s)
  PROVE  Len(s) \in Nat /\ DOMAIN s = 1 .. Len(s) /\ s \o <<>> = s
<1>1. PICK S : S = {s[i] : i \in DOMAIN s}
  OBVIOUS
<1>2. s \in Seq(S)
  BY <1>1 DEF IsSequence
<1>3. Len(s) \in Nat /\ DOMAIN s = 1 .. Len(s)
  BY <1>2, LenProperties
<1>4. s \o <<>> = s
  BY <1>2, ConcatEmptySeq
<1> QED  BY <1>3, <1>4

LEMMA SequenceOf ==
  ASSUME NEW S, NEW s \in Seq(S)
  PROVE  IsSequence(s)
<1>1. PICK R : R = {s[i] : i \in DOMAIN s}
  OBVIOUS
<1>2. Len(s) \in Nat /\ DOMAIN s = 1 .. Len(s) /\ s = [i \in 1 .. Len(s) |-> s[i]]
  BY LenProperties
<1>3. \A i \in 1 .. Len(s) : s[i] \in R
  BY <1>1, <1>2
<1>4. s \in [1 .. Len(s) -> R]
  BY <1>2, <1>3
<1>5. s \in Seq(R)
  BY <1>2, <1>4, SeqDef
<1> QED  BY <1>1, <1>5 DEF IsSequence

LEMMA EmptyIsSequence == IsSequence(<<>>)
<1>1. <<>> \in Seq({})
  OBVIOUS
<1> QED  BY <1>1, SequenceOf

LEMMA SingleIsSequence ==
  ASSUME NEW x
  PROVE  IsSequence(<<x>>)
<1>1. <<x>> \in Seq({x})
  OBVIOUS
<1> QED  BY <1>1, SequenceOf

LEMMA ConcatIsSequence ==
  ASSUME NEW s, NEW u, IsSequence(s), IsSequence(u)
  PROVE  IsSequence(s \o u)
<1>1. PICK S, T : S = {s[i] : i \in DOMAIN s} /\ T = {u[i] : i \in DOMAIN u}
  OBVIOUS
<1>2. PICK R : R = S \cup T
  OBVIOUS
<1>3. s \in Seq(S) /\ u \in Seq(T)
  BY <1>1 DEF IsSequence
<1>4. S \subseteq R /\ T \subseteq R
  BY <1>2
<1>5. s \in Seq(R) /\ u \in Seq(R)
  BY <1>3, <1>4, SeqMonotonic
<1>6. s \o u \in Seq(R)
  BY <1>5, ConcatProperties
<1> QED  BY <1>6, SequenceOf

(* The stack with another frame on top. *)
LEMMA Pushed ==
  ASSUME NEW s, IsSequence(s), NEW g
  PROVE  /\ IsSequence(Append(s, g)) /\ Len(s) \in Nat /\ Len(Append(s, g)) = Len(s) + 1
         /\ \A k \in 1 .. Len(s) : Append(s, g)[k] = s[k]
         /\ Append(s, g)[Len(s) + 1] = g
<1>1. PICK S, R : S = {s[i] : i \in DOMAIN s} /\ R = S \cup {g}
  OBVIOUS
<1>2. s \in Seq(S) /\ S \subseteq R
  BY <1>1 DEF IsSequence
<1>3. s \in Seq(R) /\ g \in R
  BY <1>1, <1>2, SeqMonotonic
<1>4. /\ Append(s, g) \in Seq(R) /\ Len(s) \in Nat /\ Len(Append(s, g)) = Len(s) + 1
      /\ \A k \in 1 .. Len(s) : Append(s, g)[k] = s[k]
      /\ Append(s, g)[Len(s) + 1] = g
  BY <1>3, AppendProperties, LenProperties
<1> QED  BY <1>4, SequenceOf

LEMMA Popped ==
  ASSUME NEW s, IsSequence(s), s # <<>>, NEW t, t = Front(s)
  PROVE  /\ IsSequence(t) /\ Len(s) \in Nat \ {0} /\ Len(t) = Len(s) - 1
         /\ \A k \in 1 .. Len(s) - 1 : t[k] = s[k]
         /\ Last(s) = s[Len(s)]
<1>1. PICK S : S = {s[i] : i \in DOMAIN s}
  OBVIOUS
<1>2. s \in Seq(S)
  BY <1>1 DEF IsSequence
<1>3. /\ Len(s) \in Nat \ {0} /\ t \in Seq(S) /\ Len(t) = Len(s) - 1
      /\ \A k \in 1 .. Len(s) - 1 : t[k] = s[k]
      /\ Last(s) = s[Len(s)]
  BY <1>2, FrontLast
<1> QED  BY <1>3, SequenceOf

LEMMA Replaced ==
  ASSUME NEW s, IsSequence(s), s # <<>>, NEW g, NEW t, t = Append(Front(s), g)
  PROVE  /\ IsSequence(t) /\ Len(s) \in Nat \ {0} /\ Len(t) = Len(s)
         /\ \A k \in 1 .. Len(s) - 1 : t[k] = s[k]
         /\ t[Len(s)] = g
<1>1. PICK u : u = Front(s)
  OBVIOUS
<1>2. /\ IsSequence(u) /\ Len(s) \in Nat \ {0} /\ Len(u) = Len(s) - 1
      /\ \A k \in 1 .. Len(s) - 1 : u[k] = s[k]
  BY <1>1, Popped
<1>3. /\ IsSequence(Append(u, g)) /\ Len(Append(u, g)) = Len(u) + 1
      /\ \A k \in 1 .. Len(u) : Append(u, g)[k] = u[k]
      /\ Append(u, g)[Len(u) + 1] = g
  BY <1>2, Pushed
<1>4. t = Append(u, g)
  BY <1>1
<1> QED  BY <1>2, <1>3, <1>4

(***************************************************************************)
(* The results of the rounds and of the expressions, and the frames.       *)
(***************************************************************************)
LEMMA ResultFields ==
  ASSUME NEW p, NEW s, NEW b
  PROVE  LET r == Result(p, s, b)
         IN  DOMAIN r = {"pos", "nodes", "success"} /\ r.pos = p /\ r.nodes = s /\ r.success = b
BY DEF Result

LEMMA NothingFields ==
  ASSUME NEW p, NEW b
  PROVE  /\ Nothing(p, b).pos = p /\ Nothing(p, b).nodes = <<>> /\ Nothing(p, b).success = b
         /\ DOMAIN Nothing(p, b) = {"pos", "nodes", "success"}
BY DEF Nothing, Result

LEMMA NothingIsResult ==
  ASSUME NEW from \in Int, NEW p \in from .. Len(tokens), NEW b \in BOOLEAN
  PROVE  IsResult(Nothing(p, b), from)
BY EmptyIsSequence, NothingFields DEF IsResult

LEMMA ThenFields ==
  ASSUME NEW c, NEW r
  PROVE  /\ Then(c, r).pos = r.pos /\ Then(c, r).nodes = c.nodes \o r.nodes
         /\ Then(c, r).success = (c.success /\ r.success)
         /\ DOMAIN Then(c, r) = {"pos", "nodes", "success"}
BY DEF Then, Result

LEMMA ThenIsResult ==
  ASSUME NEW from \in Int, NEW mid, NEW c, NEW r, Len(tokens) \in Int,
         IsResult(c, from), mid = c.pos, r.pos \in mid .. Len(tokens), IsSequence(r.nodes),
         r.success \in BOOLEAN
  PROVE  IsResult(Then(c, r), from)
<1>1. IsSequence(c.nodes \o r.nodes)
  BY ConcatIsSequence DEF IsResult
<1>2. r.pos \in from .. Len(tokens)
  BY DEF IsResult
<1> QED  BY <1>1, <1>2, ThenFields DEF IsResult

LEMMA AtEndFields ==
  ASSUME NEW r, DOMAIN r = {"pos", "nodes", "success"}, NEW b
  PROVE  /\ AtEnd(r, b).pos = r.pos /\ AtEnd(r, b).nodes = r.nodes
         /\ AtEnd(r, b).success = (r.success /\ (b => r.pos = Len(tokens)))
         /\ DOMAIN AtEnd(r, b) = {"pos", "nodes", "success"}
BY DEF AtEnd

(* What the helpers of the parser make of a frame, field by field.         *)
SameCall(f, g) ==
  g.tag = f.tag /\ g.alts = f.alts /\ g.begin = f.begin /\ g.to_end = f.to_end

LEMMA NextAlternativeFields ==
  ASSUME NEW f, DOMAIN f = FrameFields, NEW r, NEW g, g = NextAlternative(f, r)
  PROVE  /\ DOMAIN g = FrameFields /\ SameCall(f, g)
         /\ g.alt = f.alt + 1 /\ g.best = Further(f.best, r)
         /\ g.nth = 1 /\ g.done = Nothing(f.begin, TRUE)
         /\ g.round = 0 /\ g.cur = Nothing(f.begin, TRUE)
BY DEF NextAlternative, FrameFields, SameCall

LEMMA NextExpressionFields ==
  ASSUME NEW f, DOMAIN f = FrameFields, NEW r, NEW g, g = NextExpression(f, r)
  PROVE  /\ DOMAIN g = FrameFields /\ SameCall(f, g)
         /\ g.alt = f.alt /\ g.best = f.best
         /\ g.nth = f.nth + 1 /\ g.done = r
         /\ g.round = 0 /\ g.cur = Nothing(r.pos, TRUE)
BY DEF NextExpression, FrameFields, SameCall

LEMMA NextRoundFields ==
  ASSUME NEW f, DOMAIN f = FrameFields, NEW r, NEW g,
         g = [f EXCEPT !.cur = Then(@, r), !.round = @ + 1]
  PROVE  /\ DOMAIN g = FrameFields /\ SameCall(f, g)
         /\ g.alt = f.alt /\ g.best = f.best
         /\ g.nth = f.nth /\ g.done = f.done
         /\ g.round = f.round + 1 /\ g.cur = Then(f.cur, r)
BY DEF FrameFields, SameCall

LEMMA FrameFieldsOf ==
  ASSUME NEW tag, NEW alts, NEW begin, NEW to_end, NEW g, g = Frame(tag, alts, begin, to_end)
  PROVE  /\ DOMAIN g = FrameFields
         /\ g.tag = tag /\ g.alts = alts /\ g.begin = begin /\ g.to_end = to_end
         /\ g.alt = 1 /\ g.best = Nothing(begin, FALSE)
         /\ g.nth = 1 /\ g.done = Nothing(begin, TRUE)
         /\ g.round = 0 /\ g.cur = Nothing(begin, TRUE)
BY DEF Frame, FrameFields

(***************************************************************************)
(* An alternative is begun.                                                *)
(***************************************************************************)
LEMMA AltsTyped ==
  ASSUME IsGrammar, NEW alts \in AllAlts
  PROVE  /\ Len(alts) \in Nat /\ DOMAIN alts = 1 .. Len(alts)
         /\ \A k \in 1 .. Len(alts) :
              /\ Len(alts[k]) \in Nat \ {0}
              /\ \A n \in 1 .. Len(alts[k]) : alts[k][n] \in AllExprs
<1>1. PICK S : S = Seq(AllExprs) \ {<<>>}
  OBVIOUS
<1>2. alts \in Seq(S)
  BY <1>1 DEF IsGrammar
<1>3. Len(alts) \in Nat /\ DOMAIN alts = 1 .. Len(alts)
  BY <1>2, LenProperties
<1>4. ASSUME NEW k \in 1 .. Len(alts)
      PROVE  /\ Len(alts[k]) \in Nat \ {0}
             /\ \A n \in 1 .. Len(alts[k]) : alts[k][n] \in AllExprs
  <2>1. PICK x : x = alts[k]
    OBVIOUS
  <2>2. x \in Seq(AllExprs) /\ x # <<>>
    BY <1>1, <1>2, <1>4, <2>1, ElementOfSeq
  <2>3. Len(x) \in Nat \ {0}
    BY <2>2, EmptySeq, LenProperties
  <2>4. \A n \in 1 .. Len(x) : x[n] \in AllExprs
    BY <2>2, ElementOfSeq
  <2> QED  BY <2>1, <2>3, <2>4
<1> QED  BY <1>3, <1>4

(* A frame at the beginning of its alternative g.alt, if there is one.     *)
LEMMA AlternativeBegins ==
  ASSUME IsGrammar, Closed, NEW g, IsCall(g), BestIsDerived(g),
         g.nth = 1, g.done = Nothing(g.begin, TRUE), g.round = 0, g.cur = Nothing(g.begin, TRUE)
  PROVE  Sound(g)
<1> SUFFICES ASSUME g.alt <= Len(g.alts)  PROVE DoneIsDerived(g) /\ CurIsDerived(g)
  BY DEF Sound
<1>1. /\ g.alts \in AllAlts /\ g.begin \in 0 .. Len(tokens) /\ g.begin \in Int
      /\ g.alt \in 1 .. Len(g.alts) + 1
  BY DEF IsCall
<1>2. Len(g.alts) \in Nat /\ g.alt \in 1 .. Len(g.alts) /\ g.alt \in DOMAIN g.alts
  BY <1>1, AltsTyped
<1>3. PICK x : x = Exprs(g)
  OBVIOUS
<1>4. x = g.alts[g.alt] /\ Len(x) \in Nat \ {0} /\ x[1] \in AllExprs
  BY <1>1, <1>2, <1>3, AltsTyped DEF Exprs
<1>5. g.begin \in g.begin .. Len(tokens)
  BY <1>1 DEF IsGrammar
<1>6. IsResult(Nothing(g.begin, TRUE), g.begin)
  BY <1>1, <1>5, NothingIsResult
<1>7. FirstMake(x, 0, g.begin, g.begin, <<>>)
  BY <1>1, <1>2, <1>4 DEF Closed, AlternativeRules
<1>8. RoundsMake(x[1], 0, g.begin, g.begin, <<>>)
  BY <1>1, <1>4 DEF Closed, ExpressionRules
<1>9. /\ g.done.pos = g.begin /\ g.done.nodes = <<>> /\ g.done.success
      /\ g.cur.pos = g.begin /\ g.cur.nodes = <<>>
      /\ IsResult(g.done, g.begin) /\ IsResult(g.cur, g.begin)
  <2>1. PICK w : w = Nothing(g.begin, TRUE)
    OBVIOUS
  <2>2. w.pos = g.begin /\ w.nodes = <<>> /\ w.success /\ IsResult(w, g.begin)
    <3>1. w.pos = g.begin /\ w.nodes = <<>>
      BY <2>1 DEF Nothing, Result
    <3>2. w.success
      BY <2>1 DEF Nothing, Result
    <3>3. IsResult(w, g.begin)
      BY <1>6, <2>1
    <3> QED  BY <3>1, <3>2, <3>3
  <2>3. g.done = w /\ g.cur = w
    BY <2>1
  <2> QED  BY <2>2, <2>3
<1>10. g.nth - 1 = 0 /\ g.nth \in 1 .. Len(x) /\ g.round \in Nat /\ g.round = 0
  BY <1>4
<1>11. FirstMake(x, g.nth - 1, g.begin, g.done.pos, g.done.nodes)
  BY <1>7, <1>9, <1>10
<1>12. DoneIsDerived(g)
  BY <1>3, <1>9, <1>10, <1>11 DEF DoneIsDerived
<1>13. Expr(g) = x[1]
  BY <1>3 DEF Expr
<1>14. RoundsMake(Expr(g), g.round, g.done.pos, g.cur.pos, g.cur.nodes)
  BY <1>8, <1>9, <1>13
<1>15. IsResult(g.cur, g.done.pos)
  BY <1>9
<1>16. CurIsDerived(g)
  BY <1>10, <1>14, <1>15 DEF CurIsDerived
<1> QED  BY <1>12, <1>16

(***************************************************************************)
(* The result e of the expression of f is there.                           *)
(***************************************************************************)
Working(f) == Sound(f) /\ ~Finished(f)

ExpressionResult(f, e) ==
  /\ IsResult(e, f.done.pos)
  /\ e.success => /\ ExpressionMakes(Expr(f), f.done.pos, e.pos, e.nodes)
                  /\ ExprToEnd(f) => e.pos = Len(tokens)

LEMMA WorkingTyped ==
  ASSUME IsGrammar, NEW f, Working(f)
  PROVE  /\ IsCall(f) /\ BestIsDerived(f) /\ DoneIsDerived(f) /\ CurIsDerived(f)
         /\ Len(f.alts) \in Nat /\ f.alt \in 1 .. Len(f.alts) /\ f.alt \in DOMAIN f.alts
         /\ Len(Exprs(f)) \in Nat \ {0} /\ f.nth \in 1 .. Len(Exprs(f))
         /\ Expr(f) \in AllExprs
         /\ f.begin \in 0 .. Len(tokens) /\ f.done.pos \in f.begin .. Len(tokens)
         /\ f.cur.pos \in f.done.pos .. Len(tokens)
<1>1. IsCall(f) /\ BestIsDerived(f) /\ f.alt \in 1 .. Len(f.alts) + 1 /\ f.alts \in AllAlts
  BY DEF Working, Sound, IsCall
<1>2. Len(f.alts) \in Nat /\ DOMAIN f.alts = 1 .. Len(f.alts)
  BY <1>1, AltsTyped
<1>3. f.alt <= Len(f.alts)
  BY <1>1, <1>2 DEF Working, Finished
<1>4. DoneIsDerived(f) /\ CurIsDerived(f)
  BY <1>3 DEF Working, Sound
<1>5. f.alt \in 1 .. Len(f.alts) /\ f.alt \in DOMAIN f.alts
  BY <1>1, <1>2, <1>3
<1>6. PICK x : x = f.alts[f.alt]
  OBVIOUS
<1>7. Len(x) \in Nat \ {0} /\ \A n \in 1 .. Len(x) : x[n] \in AllExprs
  BY <1>1, <1>5, <1>6, AltsTyped
<1>8. Exprs(f) = x /\ Expr(f) = x[f.nth]
  BY <1>6 DEF Exprs, Expr
<1>9. f.nth \in 1 .. Len(x)
  BY <1>4, <1>8 DEF DoneIsDerived
<1>10. Expr(f) \in AllExprs
  BY <1>7, <1>8, <1>9
<1>11. f.begin \in 0 .. Len(tokens)
  BY <1>1 DEF IsCall
<1>12. f.done.pos \in f.begin .. Len(tokens)
  BY <1>4 DEF DoneIsDerived, IsResult
<1>13. f.cur.pos \in f.done.pos .. Len(tokens)
  BY <1>4 DEF CurIsDerived, IsResult
<1> QED  BY <1>1, <1>2, <1>4, <1>5, <1>7, <1>8, <1>9, <1>10, <1>11, <1>12, <1>13

(* One more expression of the alternative is derived. *)
LEMMA OneMoreExpression ==
  ASSUME IsGrammar, Closed, NEW f, Working(f), NEW e, ExpressionResult(f, e),
         NEW d, d = Then(f.done, e)
  PROVE  /\ IsResult(d, f.begin) /\ d.success = e.success /\ d.pos = e.pos
         /\ d.success => FirstMake(Exprs(f), f.nth, f.begin, d.pos, d.nodes)
<1>1. /\ f.alts \in AllAlts /\ f.alt \in DOMAIN f.alts /\ f.begin \in Int
      /\ f.nth \in 1 .. Len(Exprs(f)) /\ Len(Exprs(f)) \in Nat
      /\ IsResult(f.done, f.begin) /\ f.done.success
      /\ FirstMake(Exprs(f), f.nth - 1, f.begin, f.done.pos, f.done.nodes)
  BY WorkingTyped DEF IsCall, DoneIsDerived
<1>2. Len(tokens) \in Int
  BY DEF IsGrammar
<1>3. e.pos \in f.done.pos .. Len(tokens) /\ IsSequence(e.nodes) /\ e.success \in BOOLEAN
  BY DEF ExpressionResult, IsResult
<1>4. IsResult(d, f.begin)
  BY <1>1, <1>2, <1>3, ThenIsResult
<1>5. d.pos = e.pos /\ d.nodes = f.done.nodes \o e.nodes /\ d.success = (f.done.success /\ e.success)
  BY ThenFields
<1>6. d.success = e.success
  BY <1>1, <1>3, <1>5
<1>7. ASSUME e.success  PROVE FirstMake(Exprs(f), f.nth, f.begin, d.pos, d.nodes)
  <2>1. PICK x : x = Exprs(f)
    OBVIOUS
  <2>2. PICK n : n = f.nth - 1
    OBVIOUS
  <2>3. n \in 0 .. Len(x) - 1 /\ n + 1 = f.nth
    BY <1>1, <2>1, <2>2
  <2>4. x = f.alts[f.alt] /\ x[n + 1] = Expr(f)
    BY <2>1, <2>3 DEF Exprs, Expr
  <2>5. ExpressionMakes(x[n + 1], f.done.pos, e.pos, e.nodes)
    BY <1>7, <2>4 DEF ExpressionResult
  <2>6. FirstMake(x, n, f.begin, f.done.pos, f.done.nodes)
    BY <1>1, <2>1, <2>2
  <2>7. FirstMake(x, n + 1, f.begin, e.pos, f.done.nodes \o e.nodes)
    BY <1>1, <2>3, <2>4, <2>5, <2>6 DEF Closed, AlternativeRules
  <2> QED  BY <1>5, <2>1, <2>3, <2>7
<1> QED  BY <1>4, <1>5, <1>6, <1>7

LEMMA ExpressionGoesOn ==
  ASSUME IsGrammar, Closed, NEW f, Working(f), NEW d, IsResult(d, f.begin), d.success,
         FirstMake(Exprs(f), f.nth, f.begin, d.pos, d.nodes), f.nth < Len(Exprs(f)),
         NEW g, g = NextExpression(f, d)
  PROVE  Sound(g) /\ SameCall(f, g)
<1>1. DOMAIN f = FrameFields /\ IsCall(f) /\ BestIsDerived(f)
  BY WorkingTyped DEF IsCall
<1>2. /\ DOMAIN g = FrameFields /\ SameCall(f, g)
      /\ g.alt = f.alt /\ g.best = f.best
      /\ g.nth = f.nth + 1 /\ g.done = d
      /\ g.round = 0 /\ g.cur = Nothing(d.pos, TRUE)
  BY <1>1 DEF NextExpression, FrameFields, SameCall
<1>3. g.tag = f.tag /\ g.alts = f.alts /\ g.begin = f.begin /\ g.to_end = f.to_end
  BY <1>2 DEF SameCall
<1>4. PICK x : x = Exprs(f)
  OBVIOUS
<1>5. /\ f.alts \in AllAlts /\ f.alt \in 1 .. Len(f.alts) /\ Len(x) \in Nat \ {0}
      /\ f.nth \in 1 .. Len(x) /\ f.begin \in 0 .. Len(tokens)
  BY <1>1, <1>4, WorkingTyped DEF IsCall
<1>6. Exprs(g) = x /\ Expr(g) = x[g.nth] /\ x = f.alts[f.alt]
  BY <1>2, <1>3, <1>4 DEF Exprs, Expr
<1>7. g.nth \in 1 .. Len(x) /\ g.nth - 1 = f.nth
  BY <1>2, <1>4, <1>5
<1>8. x[g.nth] \in AllExprs
  BY <1>5, <1>6, <1>7, AltsTyped
<1>9. d.pos \in f.begin .. Len(tokens)
  BY DEF IsResult
<1>10. d.pos \in 0 .. Len(tokens) /\ d.pos \in Int /\ d.pos \in d.pos .. Len(tokens)
  BY <1>5, <1>9 DEF IsGrammar
<1>11. IsCall(g)
  BY <1>1, <1>2, <1>3 DEF IsCall
<1>12. BestIsDerived(g)
  BY <1>1, <1>2, <1>3 DEF BestIsDerived
<1>13. DoneIsDerived(g)
  BY <1>2, <1>3, <1>4, <1>6, <1>7 DEF DoneIsDerived
<1>14. RoundsMake(x[g.nth], 0, d.pos, d.pos, <<>>)
  BY <1>8, <1>10 DEF Closed, ExpressionRules
<1>15. PICK w : w = Nothing(d.pos, TRUE)
  OBVIOUS
<1>16. w.pos = d.pos /\ w.nodes = <<>> /\ IsResult(w, d.pos)
  BY <1>10, <1>15, NothingFields, NothingIsResult
<1>17. g.cur = w /\ g.round \in Nat /\ g.round = 0
  BY <1>2, <1>15
<1>18. RoundsMake(Expr(g), g.round, g.done.pos, g.cur.pos, g.cur.nodes)
  BY <1>2, <1>6, <1>14, <1>16, <1>17
<1>19. IsResult(g.cur, g.done.pos)
  BY <1>2, <1>16, <1>17
<1>20. CurIsDerived(g)
  BY <1>17, <1>18, <1>19 DEF CurIsDerived
<1> QED  BY <1>2, <1>11, <1>12, <1>13, <1>20 DEF Sound

LEMMA AlternativeEnds ==
  ASSUME IsGrammar, Closed, NEW f, Working(f), NEW d, IsResult(d, f.begin),
         d.success => /\ AlternativesMake(f.alts, f.begin, d.pos, d.nodes)
                      /\ f.to_end => d.pos = Len(tokens),
         NEW g, g = NextAlternative(f, d)
  PROVE  Sound(g) /\ SameCall(f, g)
<1>1. DOMAIN f = FrameFields /\ IsCall(f) /\ BestIsDerived(f)
  BY WorkingTyped DEF IsCall
<1>2. /\ DOMAIN g = FrameFields /\ SameCall(f, g)
      /\ g.alt = f.alt + 1 /\ g.best = Further(f.best, d)
      /\ g.nth = 1 /\ g.done = Nothing(f.begin, TRUE)
      /\ g.round = 0 /\ g.cur = Nothing(f.begin, TRUE)
  BY <1>1, NextAlternativeFields
<1>3. g.tag = f.tag /\ g.alts = f.alts /\ g.begin = f.begin /\ g.to_end = f.to_end
  BY <1>2 DEF SameCall
<1>4. f.alt \in 1 .. Len(f.alts) /\ Len(f.alts) \in Nat
  BY WorkingTyped
<1>5. g.alt \in 1 .. Len(g.alts) + 1
  BY <1>2, <1>3, <1>4
<1>6. IsCall(g)
  BY <1>1, <1>2, <1>3, <1>5 DEF IsCall
<1>7. g.best = d \/ g.best = f.best
  BY <1>2 DEF Further
<1>8. BestIsDerived(g)
  <2>1. CASE g.best = d
    BY <1>3, <2>1 DEF BestIsDerived
  <2>2. CASE g.best = f.best
    BY <1>1, <1>3, <2>2 DEF BestIsDerived
  <2> QED  BY <1>7, <2>1, <2>2
<1> QED  BY <1>2, <1>3, <1>6, <1>8, AlternativeBegins

LEMMA ExpressionEnds ==
  ASSUME IsGrammar, Closed, NEW f, Working(f), NEW e, ExpressionResult(f, e),
         NEW g, g = EndExpression(f, e)
  PROVE  Sound(g) /\ SameCall(f, g)
<1>1. PICK d : d = Then(f.done, e)
  OBVIOUS
<1>2. /\ IsResult(d, f.begin) /\ d.success = e.success /\ d.pos = e.pos
      /\ d.success => FirstMake(Exprs(f), f.nth, f.begin, d.pos, d.nodes)
  BY <1>1, OneMoreExpression
<1>3. CASE f.nth < Len(Exprs(f)) /\ e.success
  <2>1. g = NextExpression(f, d)
    BY <1>1, <1>3 DEF EndExpression
  <2> QED  BY <1>2, <1>3, <2>1, ExpressionGoesOn
<1>4. CASE ~(f.nth < Len(Exprs(f)) /\ e.success)
  <2>1. g = NextAlternative(f, d)
    BY <1>1, <1>4 DEF EndExpression
  <2>2. /\ f.alts \in AllAlts /\ f.alt \in DOMAIN f.alts /\ f.nth \in 1 .. Len(Exprs(f))
        /\ Len(Exprs(f)) \in Nat
    BY WorkingTyped DEF IsCall
  <2>3. ASSUME d.success
        PROVE  /\ AlternativesMake(f.alts, f.begin, d.pos, d.nodes)
               /\ f.to_end => d.pos = Len(tokens)
    <3>1. f.nth = Len(Exprs(f)) /\ e.success
      BY <1>2, <1>4, <2>2, <2>3
    <3>2. PICK x : x = f.alts[f.alt]
      OBVIOUS
    <3>3. Exprs(f) = x
      BY <3>2 DEF Exprs
    <3>4. FirstMake(x, Len(x), f.begin, d.pos, d.nodes)
      BY <1>2, <2>3, <3>1, <3>3
    <3>5. AlternativesMake(f.alts, f.begin, d.pos, d.nodes)
      BY <2>2, <3>2, <3>4 DEF Closed, AlternativeRules
    <3>6. f.to_end => d.pos = Len(tokens)
      BY <1>2, <3>1 DEF ExpressionResult, ExprToEnd
    <3> QED  BY <3>5, <3>6
  <2> QED  BY <1>2, <2>1, <2>3, AlternativeEnds
<1> QED  BY <1>3, <1>4

(***************************************************************************)
(* The result r of a term of f is there.                                   *)
(***************************************************************************)
TermResult(f, r) ==
  /\ IsResult(r, f.cur.pos)
  /\ r.success => TermMakes(Expr(f).term, f.cur.pos, r.pos, r.nodes)

LEMMA EndOfExpression ==
  ASSUME NEW f, NEW r, IsResult(r, f.done.pos),
         r.success => ExpressionMakes(Expr(f), f.done.pos, r.pos, r.nodes),
         NEW e, e = AtEnd(r, ExprToEnd(f))
  PROVE  ExpressionResult(f, e)
<1>1. DOMAIN r = {"pos", "nodes", "success"} /\ r.success \in BOOLEAN
  BY DEF IsResult
<1>2. /\ e.pos = r.pos /\ e.nodes = r.nodes
      /\ e.success = (r.success /\ (ExprToEnd(f) => r.pos = Len(tokens)))
      /\ DOMAIN e = {"pos", "nodes", "success"}
  BY <1>1, AtEndFields
<1>3. e.success \in BOOLEAN /\ (e.success => r.success /\ (ExprToEnd(f) => r.pos = Len(tokens)))
  BY <1>1, <1>2
<1>4. IsResult(e, f.done.pos)
  BY <1>2, <1>3 DEF IsResult
<1> QED  BY <1>2, <1>3, <1>4 DEF ExpressionResult

LEMMA OneMoreRound ==
  ASSUME IsGrammar, Closed, NEW f, Working(f), NEW r, TermResult(f, r), NEW c, c = Then(f.cur, r)
  PROVE  /\ IsResult(c, f.done.pos) /\ c.pos = r.pos
         /\ c.success => /\ RoundsMake(Expr(f), f.round + 1, f.done.pos, c.pos, c.nodes)
                         /\ c.pos = f.cur.pos /\ f.round + 1 <= Expr(f).max
                              => ExpressionMakes(Expr(f), f.done.pos, c.pos, c.nodes)
<1>1. /\ Expr(f) \in AllExprs /\ f.round \in Nat /\ f.done.pos \in Int
      /\ IsResult(f.cur, f.done.pos)
      /\ f.cur.success => RoundsMake(Expr(f), f.round, f.done.pos, f.cur.pos, f.cur.nodes)
  BY WorkingTyped DEF CurIsDerived
<1>2. /\ r.pos \in f.cur.pos .. Len(tokens) /\ IsSequence(r.nodes) /\ r.success \in BOOLEAN
      /\ f.cur.success \in BOOLEAN /\ Len(tokens) \in Int
  BY <1>1 DEF TermResult, IsResult, IsGrammar
<1>3. IsResult(c, f.done.pos)
  BY <1>1, <1>2, ThenIsResult
<1>4. c.pos = r.pos /\ c.nodes = f.cur.nodes \o r.nodes /\ c.success = (f.cur.success /\ r.success)
  BY ThenFields
<1>5. ASSUME c.success
      PROVE  /\ RoundsMake(Expr(f), f.round + 1, f.done.pos, c.pos, c.nodes)
             /\ c.pos = f.cur.pos /\ f.round + 1 <= Expr(f).max
                  => ExpressionMakes(Expr(f), f.done.pos, c.pos, c.nodes)
  <2>1. f.cur.success /\ r.success
    BY <1>2, <1>4, <1>5
  <2>2. PICK x : x = Expr(f)
    OBVIOUS
  <2>3. /\ RoundsMake(x, f.round, f.done.pos, f.cur.pos, f.cur.nodes)
        /\ TermMakes(x.term, f.cur.pos, r.pos, r.nodes)
    BY <1>1, <2>1, <2>2 DEF TermResult
  <2>4. RoundsMake(x, f.round + 1, f.done.pos, r.pos, f.cur.nodes \o r.nodes)
    BY <1>1, <2>2, <2>3 DEF Closed, ExpressionRules
  <2>5. ASSUME c.pos = f.cur.pos, f.round + 1 <= x.max
        PROVE  ExpressionMakes(x, f.done.pos, r.pos, f.cur.nodes \o r.nodes)
    <3>1. x \in AllExprs /\ x.max \in Nat
      BY <1>1, <2>2 DEF IsGrammar
    <3>2. f.round \in 0 .. x.max - 1
      BY <1>1, <2>5, <3>1
    <3>3. TermMakes(x.term, f.cur.pos, f.cur.pos, r.nodes) /\ r.pos = f.cur.pos
      BY <1>4, <2>3, <2>5
    <3>4. ExpressionMakes(x, f.done.pos, f.cur.pos, f.cur.nodes \o r.nodes)
      BY <2>3, <3>1, <3>2, <3>3 DEF Closed, ExpressionRules
    <3> QED  BY <3>3, <3>4
  <2> QED  BY <1>4, <2>2, <2>4, <2>5
<1> QED  BY <1>3, <1>4, <1>5

LEMMA RoundGoesOn ==
  ASSUME IsGrammar, Closed, NEW f, Working(f), NEW r, TermResult(f, r),
         f.round + 1 < Expr(f).max,
         NEW g, g = [f EXCEPT !.cur = Then(@, r), !.round = @ + 1]
  PROVE  Sound(g) /\ SameCall(f, g)
<1>1. DOMAIN f = FrameFields /\ IsCall(f) /\ BestIsDerived(f) /\ DoneIsDerived(f) /\ f.round \in Nat
  BY WorkingTyped DEF IsCall, CurIsDerived
<1>2. PICK c : c = Then(f.cur, r)
  OBVIOUS
<1>3. /\ DOMAIN g = FrameFields /\ SameCall(f, g)
      /\ g.alt = f.alt /\ g.best = f.best
      /\ g.nth = f.nth /\ g.done = f.done
      /\ g.round = f.round + 1 /\ g.cur = c
  BY <1>1, <1>2 DEF FrameFields, SameCall
<1>4. g.tag = f.tag /\ g.alts = f.alts /\ g.begin = f.begin /\ g.to_end = f.to_end
  BY <1>3 DEF SameCall
<1>5. Exprs(g) = Exprs(f) /\ Expr(g) = Expr(f)
  BY <1>3, <1>4 DEF Exprs, Expr
<1>6. /\ IsResult(c, f.done.pos)
      /\ c.success => RoundsMake(Expr(f), f.round + 1, f.done.pos, c.pos, c.nodes)
  BY <1>2, OneMoreRound
<1>7. IsCall(g)
  BY <1>1, <1>3, <1>4 DEF IsCall
<1>8. BestIsDerived(g)
  BY <1>1, <1>3, <1>4 DEF BestIsDerived
<1>9. DoneIsDerived(g)
  BY <1>1, <1>3, <1>4, <1>5 DEF DoneIsDerived
<1>10. g.round \in Nat /\ g.round < Expr(g).max
  BY <1>1, <1>3, <1>5
<1>11. CurIsDerived(g)
  BY <1>3, <1>5, <1>6, <1>10 DEF CurIsDerived
<1> QED  BY <1>3, <1>7, <1>8, <1>9, <1>11 DEF Sound

LEMMA RoundEnds ==
  ASSUME IsGrammar, Closed, NEW f, Working(f), Expr(f).max > 0, NEW r, TermResult(f, r),
         NEW g, g = EndRound(f, r)
  PROVE  Sound(g) /\ SameCall(f, g)
<1>1. PICK c : c = Then(f.cur, r)
  OBVIOUS
<1>2. /\ IsResult(c, f.done.pos) /\ c.pos = r.pos
      /\ c.success => /\ RoundsMake(Expr(f), f.round + 1, f.done.pos, c.pos, c.nodes)
                      /\ c.pos = f.cur.pos /\ f.round + 1 <= Expr(f).max
                           => ExpressionMakes(Expr(f), f.done.pos, c.pos, c.nodes)
  BY <1>1, OneMoreRound
<1>3. CASE r.pos > f.cur.pos /\ f.round + 1 < Expr(f).max
  <2>1. g = [f EXCEPT !.cur = Then(@, r), !.round = @ + 1]
    BY <1>3 DEF EndRound
  <2> QED  BY <1>3, <2>1, RoundGoesOn
<1>4. CASE ~(r.pos > f.cur.pos /\ f.round + 1 < Expr(f).max)
  <2>1. PICK e : e = AtEnd(c, ExprToEnd(f))
    OBVIOUS
  <2>2. g = EndExpression(f, e)
    BY <1>1, <1>4, <2>1 DEF EndRound
  <2>3. PICK x : x = Expr(f)
    OBVIOUS
  <2>4. x \in AllExprs /\ x.min \in Nat /\ x.max \in Nat /\ x.min <= x.max /\ x.max > 0
    BY <2>3, WorkingTyped DEF IsGrammar
  <2>5. f.round \in Nat /\ f.round + 1 <= x.max
    BY <2>3, <2>4, WorkingTyped DEF CurIsDerived
  <2>6. r.pos \in f.cur.pos .. Len(tokens) /\ f.cur.pos \in Int /\ Len(tokens) \in Int
    BY WorkingTyped DEF TermResult, IsResult, IsGrammar
  <2>7. ASSUME c.success  PROVE ExpressionMakes(x, f.done.pos, c.pos, c.nodes)
    <3>1. CASE r.pos = f.cur.pos
      BY <1>2, <2>3, <2>5, <2>7, <3>1
    <3>2. CASE r.pos # f.cur.pos
      <4>1. f.round + 1 = x.max
        BY <1>4, <2>3, <2>4, <2>5, <2>6, <3>2
      <4>2. PICK n : n = f.round + 1
        OBVIOUS
      <4>3. n \in x.min .. x.max /\ RoundsMake(x, n, f.done.pos, c.pos, c.nodes)
        BY <1>2, <2>3, <2>4, <2>7, <4>1, <4>2
      <4> QED  BY <2>4, <4>3 DEF Closed, ExpressionRules
    <3> QED  BY <3>1, <3>2
  <2>8. ExpressionResult(f, e)
    BY <1>2, <2>1, <2>3, <2>7, EndOfExpression
  <2> QED  BY <2>2, <2>8, ExpressionEnds
<1> QED  BY <1>3, <1>4

(* An optional term that gives nothing: the rounds before it are all.      *)
LEMMA OptionalEnds ==
  ASSUME IsGrammar, Closed, NEW f, Working(f), Expr(f).max > 0, Optional(f), NEW b \in BOOLEAN,
         NEW g, g = EndRound(f, Nothing(f.cur.pos, b))
  PROVE  Sound(g) /\ SameCall(f, g)
<1>1. PICK r : r = Nothing(f.cur.pos, b)
  OBVIOUS
<1>2. r.pos = f.cur.pos /\ r.nodes = <<>> /\ r.success = b
  BY <1>1 DEF Nothing, Result
<1>3. /\ Expr(f) \in AllExprs /\ f.round \in Nat /\ (f.round = 0 \/ f.round < Expr(f).max)
      /\ f.cur.pos \in Int /\ f.done.pos \in Int
      /\ IsResult(f.cur, f.done.pos)
      /\ f.cur.success => RoundsMake(Expr(f), f.round, f.done.pos, f.cur.pos, f.cur.nodes)
  BY WorkingTyped DEF CurIsDerived
<1>4. PICK c, e : c = Then(f.cur, r) /\ e = AtEnd(c, ExprToEnd(f))
  OBVIOUS
<1>5. ~(r.pos > f.cur.pos)
  BY <1>2, <1>3
<1>6. g = EndExpression(f, e)
  BY <1>1, <1>4, <1>5 DEF EndRound
<1>7. /\ c.pos = r.pos /\ c.nodes = f.cur.nodes \o r.nodes
      /\ c.success = (f.cur.success /\ r.success)
  BY <1>4, ThenFields
<1>8. /\ IsSequence(f.cur.nodes) /\ f.cur.success \in BOOLEAN
      /\ f.cur.pos \in f.cur.pos .. Len(tokens)
  BY <1>3 DEF IsResult
<1>9. c.nodes = f.cur.nodes /\ c.pos = f.cur.pos
  BY <1>2, <1>7, <1>8, SequenceLaws
<1>10. Len(tokens) \in Int /\ r.pos \in f.cur.pos .. Len(tokens) /\ IsSequence(r.nodes)
       /\ r.success \in BOOLEAN
  BY <1>2, <1>8, EmptyIsSequence DEF IsGrammar
<1>11. IsResult(c, f.done.pos)
  BY <1>3, <1>4, <1>10, ThenIsResult
<1>12. ASSUME c.success  PROVE ExpressionMakes(Expr(f), f.done.pos, c.pos, c.nodes)
  <2>1. PICK x, n : x = Expr(f) /\ n = f.round
    OBVIOUS
  <2>2. x \in AllExprs /\ x.min \in Nat /\ x.max \in Nat /\ x.max > 0
    BY <1>3, <2>1 DEF IsGrammar
  <2>3. n \in x.min .. x.max
    BY <1>3, <2>1, <2>2 DEF Optional
  <2>4. f.cur.success
    BY <1>7, <1>8, <1>10, <1>12
  <2>5. RoundsMake(x, n, f.done.pos, c.pos, c.nodes)
    BY <1>3, <1>9, <2>1, <2>4
  <2>6. ExpressionMakes(x, f.done.pos, c.pos, c.nodes)
    BY <2>2, <2>3, <2>5 DEF Closed, ExpressionRules
  <2> QED  BY <2>1, <2>6
<1>13. ExpressionResult(f, e)
  BY <1>4, <1>11, <1>12, EndOfExpression
<1> QED  BY <1>6, <1>13, ExpressionEnds

LEMMA Received ==
  ASSUME IsGrammar, Closed, NEW f, Working(f), Expr(f).max > 0, NEW r, TermResult(f, r),
         NEW g, g = Receive(f, r)
  PROVE  Sound(g) /\ SameCall(f, g)
<1>1. CASE Optional(f) /\ ~r.success
  <2>1. PICK b : b = (TermToEnd(f) => f.cur.pos = Len(tokens))
    OBVIOUS
  <2>2. b \in BOOLEAN
    BY <2>1
  <2>3. g = EndRound(f, Nothing(f.cur.pos, b))
    BY <1>1, <2>1 DEF Receive, OrNothing
  <2> QED  BY <1>1, <2>2, <2>3, OptionalEnds
<1>2. CASE ~(Optional(f) /\ ~r.success)
  <2>1. g = EndRound(f, r)
    BY <1>2 DEF Receive, OrNothing
  <2> QED  BY <2>1, RoundEnds
<1> QED  BY <1>1, <1>2

(* An expression that is to occur no time. *)
LEMMA Skipped ==
  ASSUME IsGrammar, Closed, NEW f, Working(f), Expr(f).max = 0,
         NEW g, g = EndExpression(f, AtEnd(f.cur, ExprToEnd(f)))
  PROVE  Sound(g) /\ SameCall(f, g)
<1>1. PICK e, x : e = AtEnd(f.cur, ExprToEnd(f)) /\ x = Expr(f)
  OBVIOUS
<1>2. /\ x \in AllExprs /\ f.round \in Nat /\ (f.round = 0 \/ f.round < 0)
      /\ IsResult(f.cur, f.done.pos)
      /\ f.cur.success => RoundsMake(x, f.round, f.done.pos, f.cur.pos, f.cur.nodes)
  BY <1>1, WorkingTyped DEF CurIsDerived
<1>3. f.round = 0 /\ 0 \in x.min .. x.max
  BY <1>1, <1>2 DEF IsGrammar
<1>4. ASSUME f.cur.success  PROVE ExpressionMakes(x, f.done.pos, f.cur.pos, f.cur.nodes)
  BY <1>2, <1>3, <1>4 DEF Closed, ExpressionRules
<1>5. ExpressionResult(f, e)
  BY <1>1, <1>2, <1>4, EndOfExpression
<1> QED  BY <1>1, <1>5, ExpressionEnds

(***************************************************************************)
(* The results of the three kinds of terms.                                *)
(***************************************************************************)
LEMMA TerminalIsDerived ==
  ASSUME IsGrammar, Closed, NEW f, Working(f), Expr(f).term.kind = "terminal",
         NEW r, r = ParseTerminal(f.cur.pos, Expr(f).term.tag, TermToEnd(f))
  PROVE  TermResult(f, r)
<1>1. PICK i, x : i = f.cur.pos /\ x = Expr(f)
  OBVIOUS
<1>2. PICK b : b = (TermToEnd(f) => i + 1 = Len(tokens))
  OBVIOUS
<1>3. b \in BOOLEAN
  BY <1>2
<1>4. i \in Nat /\ i <= Len(tokens) /\ Len(tokens) \in Nat /\ x \in AllExprs
  BY <1>1, WorkingTyped DEF IsGrammar
<1>5. CASE i < Len(tokens) /\ tokens[i + 1].tag = x.term.tag
  <2>1. PICK s : s = <<Leaf(tokens[i + 1])>>
    OBVIOUS
  <2>2. r = Result(i + 1, s, b)
    BY <1>1, <1>2, <1>5, <2>1 DEF ParseTerminal
  <2>3. DOMAIN r = {"pos", "nodes", "success"} /\ r.pos = i + 1 /\ r.nodes = s /\ r.success = b
    BY <2>2 DEF Result
  <2>4. i + 1 \in i .. Len(tokens)
    BY <1>4, <1>5
  <2>5. IsSequence(s)
    BY <2>1, SingleIsSequence
  <2>6. IsResult(r, i)
    BY <1>3, <2>3, <2>4, <2>5 DEF IsResult
  <2>7. i \in 0 .. Len(tokens) - 1
    BY <1>4, <1>5
  <2>8. TermMakes(x.term, i, i + 1, s)
    BY <1>1, <1>4, <1>5, <2>1, <2>7 DEF Closed, TermRules
  <2> QED  BY <1>1, <2>3, <2>6, <2>8 DEF TermResult
<1>6. CASE ~(i < Len(tokens) /\ tokens[i + 1].tag = x.term.tag)
  <2>1. PICK s : s = <<Missing(x.term.tag)>>
    OBVIOUS
  <2>2. r = Result(i, s, FALSE)
    BY <1>1, <1>6, <2>1 DEF ParseTerminal
  <2>3. DOMAIN r = {"pos", "nodes", "success"} /\ r.pos = i /\ r.nodes = s /\ r.success = FALSE
    BY <2>2 DEF Result
  <2>4. i \in i .. Len(tokens) /\ IsSequence(s)
    BY <1>4, <2>1, SingleIsSequence
  <2>5. IsResult(r, i)
    BY <2>3, <2>4 DEF IsResult
  <2> QED  BY <1>1, <2>3, <2>5 DEF TermResult
<1> QED  BY <1>5, <1>6

LEMMA FailureIsResult ==
  ASSUME IsGrammar, NEW f, Working(f), NEW x,
         NEW r, r = Result(f.cur.pos, <<x>>, FALSE)
  PROVE  TermResult(f, r)
<1>1. PICK i : i = f.cur.pos
  OBVIOUS
<1>2. i \in i .. Len(tokens)
  BY <1>1, WorkingTyped DEF IsGrammar
<1>3. DOMAIN r = {"pos", "nodes", "success"} /\ r.pos = i /\ r.nodes = <<x>> /\ r.success = FALSE
  BY <1>1 DEF Result
<1>4. IsSequence(<<x>>)
  BY SingleIsSequence
<1>5. IsSequence(r.nodes)
  BY <1>3, <1>4
<1>6. IsResult(r, i)
  BY <1>2, <1>3, <1>5 DEF IsResult
<1> QED  BY <1>1, <1>3, <1>6 DEF TermResult

LEMMA ReturnedFields ==
  ASSUME NEW g, IsResult(g.best, g.begin), NEW r, r = Returned(g)
  PROVE  /\ IsResult(r, g.begin) /\ r.pos = g.best.pos /\ r.success = g.best.success
         /\ g.tag = GroupTag => r.nodes = g.best.nodes
         /\ g.tag # GroupTag => r.nodes = <<Node(g.tag, g.best.nodes)>>
<1>1. PICK b : b = g.best
  OBVIOUS
<1>2. DOMAIN b = {"pos", "nodes", "success"} /\ IsResult(b, g.begin)
  BY <1>1 DEF IsResult
<1>3. CASE g.tag = GroupTag
  BY <1>1, <1>2, <1>3 DEF Returned
<1>4. CASE g.tag # GroupTag
  <2>1. PICK s : s = <<Node(g.tag, b.nodes)>>
    OBVIOUS
  <2>2. r = [b EXCEPT !.nodes = s]
    BY <1>1, <1>4, <2>1 DEF Returned
  <2>3. DOMAIN r = {"pos", "nodes", "success"} /\ r.pos = b.pos /\ r.nodes = s /\ r.success = b.success
    BY <1>2, <2>2
  <2>4. IsSequence(s)
    BY <2>1, SingleIsSequence
  <2>5. IsResult(r, g.begin)
    BY <1>2, <2>3, <2>4 DEF IsResult
  <2> QED  BY <1>1, <1>4, <2>1, <2>3, <2>5
<1> QED  BY <1>3, <1>4

LEMMA ReturnedIsDerived ==
  ASSUME IsGrammar, Closed, NEW f, Working(f), NEW g, Sound(g), Awaits(f, g),
         NEW r, r = Returned(g)
  PROVE  TermResult(f, r)
<1>1. /\ IsResult(g.best, g.begin) /\ g.begin = f.cur.pos
      /\ g.best.success => AlternativesMake(g.alts, g.begin, g.best.pos, g.best.nodes)
  BY DEF Sound, BestIsDerived, Awaits
<1>2. /\ IsResult(r, g.begin) /\ r.pos = g.best.pos /\ r.success = g.best.success
      /\ g.tag = GroupTag => r.nodes = g.best.nodes
      /\ g.tag # GroupTag => r.nodes = <<Node(g.tag, g.best.nodes)>>
  BY <1>1, ReturnedFields
<1>3. PICK x : x = Expr(f)
  OBVIOUS
<1>4. x \in AllExprs
  BY <1>3, WorkingTyped
<1>5. ASSUME r.success  PROVE TermMakes(x.term, g.begin, r.pos, r.nodes)
  <2>1. AlternativesMake(g.alts, g.begin, r.pos, g.best.nodes)
    BY <1>1, <1>2, <1>5
  <2>2. CASE x.term.kind = "group" /\ g.tag = GroupTag /\ g.alts = x.term.alts
    BY <1>2, <1>4, <2>1, <2>2 DEF Closed, TermRules
  <2>3. CASE /\ x.term.kind = "nonterminal" /\ g.tag = x.term.tag
             /\ g.tag \in DOMAIN rules /\ g.alts = rules[g.tag]
    <3>1. g.tag # GroupTag
      BY <2>3 DEF IsGrammar
    <3>2. TermMakes(x.term, g.begin, r.pos, <<Node(x.term.tag, g.best.nodes)>>)
      BY <1>4, <2>1, <2>3 DEF Closed, TermRules
    <3> QED  BY <1>2, <2>3, <3>1, <3>2
  <2> QED  BY <1>3, <2>2, <2>3 DEF Awaits
<1> QED  BY <1>1, <1>2, <1>3, <1>5 DEF TermResult

LEMMA CalledIsSound ==
  ASSUME IsGrammar, Closed, NEW tag, NEW alts \in AllAlts, NEW begin \in 0 .. Len(tokens),
         NEW to_end \in BOOLEAN, NEW g, g = Frame(tag, alts, begin, to_end)
  PROVE  Sound(g)
<1>1. /\ DOMAIN g = FrameFields
      /\ g.tag = tag /\ g.alts = alts /\ g.begin = begin /\ g.to_end = to_end
      /\ g.alt = 1 /\ g.best = Nothing(begin, FALSE)
      /\ g.nth = 1 /\ g.done = Nothing(begin, TRUE)
      /\ g.round = 0 /\ g.cur = Nothing(begin, TRUE)
  BY DEF Frame, FrameFields
<1>2. Len(alts) \in Nat /\ g.alt \in 1 .. Len(alts) + 1
  BY <1>1, AltsTyped
<1>3. IsCall(g)
  BY <1>1, <1>2 DEF IsCall
<1>4. begin \in begin .. Len(tokens) /\ begin \in Int
  BY DEF IsGrammar
<1>5. PICK w : w = Nothing(begin, FALSE)
  OBVIOUS
<1>6. IsResult(w, begin)
  BY <1>4, <1>5, NothingIsResult
<1>7. w.success = FALSE
  BY <1>5 DEF Nothing, Result
<1>8. BestIsDerived(g)
  BY <1>1, <1>5, <1>6, <1>7 DEF BestIsDerived
<1> QED  BY <1>1, <1>3, <1>8, AlternativeBegins

(***************************************************************************)
(* The stack.                                                              *)
(***************************************************************************)
LEMMA StackReplaced ==
  ASSUME NEW s, Stack(s), s # <<>>, NEW g, Sound(g), SameCall(s[Len(s)], g),
         NEW t, t = Append(Front(s), g)
  PROVE  Stack(t)
<1>1. /\ IsSequence(t) /\ Len(s) \in Nat \ {0} /\ Len(t) = Len(s)
      /\ \A k \in 1 .. Len(s) - 1 : t[k] = s[k]
      /\ t[Len(s)] = g
  <2>1. IsSequence(s) /\ s # <<>> /\ t = Append(Front(s), g)
    BY DEF Stack
  <2> HIDE DEF Stack
  <2>2. IsSequence(t) /\ Len(s) \in Nat \ {0} /\ Len(t) = Len(s)
    BY <2>1, Replaced
  <2>3. \A k \in 1 .. Len(s) - 1 : t[k] = s[k]
    BY <2>1, Replaced
  <2>4. t[Len(s)] = g
    BY <2>1, Replaced
  <2> QED  BY <2>2, <2>3, <2>4
<1>2. ASSUME NEW k \in 1 .. Len(t)  PROVE Sound(t[k])
  <2>1. CASE k = Len(s)
    BY <1>1, <2>1
  <2>2. CASE k # Len(s)
    <3>1. k \in 1 .. Len(s) - 1 /\ k \in 1 .. Len(s)
      BY <1>1, <2>2
    <3> QED  BY <1>1, <3>1 DEF Stack
  <2> QED  BY <2>1, <2>2
<1>3. ASSUME NEW k \in 1 .. Len(t) - 1  PROVE Awaits(t[k], t[k + 1])
  <2>1. k \in 1 .. Len(s) - 1 /\ t[k] = s[k] /\ Awaits(s[k], s[k + 1])
    BY <1>1 DEF Stack
  <2>2. CASE k + 1 = Len(s)
    <3>1. SameCall(s[k + 1], t[k + 1])
      BY <1>1, <2>2
    <3> QED  BY <2>1, <3>1 DEF SameCall, Awaits
  <2>3. CASE k + 1 # Len(s)
    <3>1. k + 1 \in 1 .. Len(s) - 1
      BY <1>1, <2>3
    <3>2. t[k + 1] = s[k + 1]
      BY <1>1, <3>1
    <3> QED  BY <2>1, <3>2
  <2> QED  BY <2>2, <2>3
<1>4. IsFirst(t[1])
  <2>1. IsFirst(s[1])
    BY <1>1 DEF Stack
  <2>2. CASE Len(s) = 1
    <3>1. SameCall(s[1], t[1])
      BY <1>1, <2>2
    <3> QED  BY <2>1, <3>1 DEF SameCall, IsFirst
  <2>3. CASE Len(s) # 1
    <3>1. 1 \in 1 .. Len(s) - 1
      BY <1>1, <2>3
    <3> QED  BY <1>1, <2>1, <3>1
  <2> QED  BY <2>2, <2>3
<1> QED  BY <1>1, <1>2, <1>3, <1>4 DEF Stack

LEMMA StackPushed ==
  ASSUME NEW s, Stack(s), s # <<>>, NEW g, Sound(g), Awaits(s[Len(s)], g)
  PROVE  Stack(Append(s, g))
<1>1. PICK t : t = Append(s, g)
  OBVIOUS
<1>2. /\ IsSequence(t) /\ Len(s) \in Nat /\ Len(t) = Len(s) + 1
      /\ \A k \in 1 .. Len(s) : t[k] = s[k]
      /\ t[Len(s) + 1] = g
  BY <1>1, Pushed DEF Stack
<1>3. Len(s) \in Nat \ {0}
  BY Popped DEF Stack
<1>4. ASSUME NEW k \in 1 .. Len(t)  PROVE Sound(t[k])
  <2>1. k = Len(s) + 1 \/ k \in 1 .. Len(s)
    BY <1>2
  <2> QED  BY <1>2, <2>1 DEF Stack
<1>5. ASSUME NEW k \in 1 .. Len(t) - 1  PROVE Awaits(t[k], t[k + 1])
  <2>1. k \in 1 .. Len(s) /\ t[k] = s[k]
    BY <1>2
  <2>2. CASE k = Len(s)
    BY <1>2, <2>1, <2>2
  <2>3. CASE k # Len(s)
    <3>1. k \in 1 .. Len(s) - 1 /\ k + 1 \in 1 .. Len(s)
      BY <1>2, <2>1, <2>3
    <3> QED  BY <1>2, <2>1, <3>1 DEF Stack
  <2> QED  BY <2>2, <2>3
<1>6. IsFirst(t[1])
  <2>1. 1 \in 1 .. Len(s) /\ Len(s) > 0
    BY <1>3
  <2> QED  BY <1>2, <2>1 DEF Stack
<1>7. Stack(t)
  BY <1>2, <1>4, <1>5, <1>6 DEF Stack
<1> QED  BY <1>1, <1>7

LEMMA StackPopped ==
  ASSUME NEW s, Stack(s), s # <<>>, NEW t, t = Front(s)
  PROVE  Stack(t)
<1>1. /\ IsSequence(t) /\ Len(s) \in Nat \ {0} /\ Len(t) = Len(s) - 1
      /\ \A k \in 1 .. Len(s) - 1 : t[k] = s[k]
  BY Popped DEF Stack
<1>2. ASSUME NEW k \in 1 .. Len(t)  PROVE Sound(t[k])
  <2>1. k \in 1 .. Len(s) /\ t[k] = s[k]
    BY <1>1
  <2> QED  BY <2>1 DEF Stack
<1>3. ASSUME NEW k \in 1 .. Len(t) - 1  PROVE Awaits(t[k], t[k + 1])
  <2>1. k \in 1 .. Len(s) - 1 /\ t[k] = s[k] /\ t[k + 1] = s[k + 1]
    BY <1>1
  <2> QED  BY <2>1 DEF Stack
<1>4. Len(t) > 0 => IsFirst(t[1])
  <2>1. Len(t) > 0 => t[1] = s[1] /\ Len(s) > 0
    BY <1>1
  <2> QED  BY <2>1 DEF Stack
<1> QED  BY <1>1, <1>2, <1>3, <1>4 DEF Stack

(* What an activation has derived stays derived: the rules and the tokens  *)
(* stay as they are.                                                       *)
LEMMA SoundStays ==
  ASSUME NEW f, Sound(f), rules' = rules, tokens' = tokens
  PROVE  Sound(f)'
<1>1. ASSUME NEW r, NEW from, IsResult(r, from)  PROVE IsResult(r, from)'
  BY <1>1 DEF IsResult
<1>2. IsCall(f)'
  BY DEF Sound, IsCall
<1>3. BestIsDerived(f)'
  <2>1. BestIsDerived(f) /\ IsResult(f.best, f.begin)
    BY DEF Sound, BestIsDerived
  <2>2. IsResult(f.best, f.begin)'
    BY <1>1, <2>1
  <2> QED  BY <2>1, <2>2 DEF BestIsDerived, AlternativesMake
<1>4. ASSUME f.alt <= Len(f.alts)  PROVE DoneIsDerived(f)' /\ CurIsDerived(f)'
  <2>1. DoneIsDerived(f) /\ CurIsDerived(f)
    BY <1>4 DEF Sound
  <2>2. IsResult(f.done, f.begin) /\ IsResult(f.cur, f.done.pos)
    BY <2>1 DEF DoneIsDerived, CurIsDerived
  <2>3. IsResult(f.done, f.begin)' /\ IsResult(f.cur, f.done.pos)'
    BY <1>1, <2>2
  <2>4. DoneIsDerived(f)'
    BY <2>1, <2>3 DEF DoneIsDerived, FirstMake
  <2>5. CurIsDerived(f)'
    BY <2>1, <2>3 DEF CurIsDerived, RoundsMake
  <2> QED  BY <2>4, <2>5
<1> QED  BY <1>2, <1>3, <1>4 DEF Sound

LEMMA StackStays ==
  ASSUME NEW s, Stack(s), rules' = rules, tokens' = tokens
  PROVE  Stack(s)'
<1>1. ASSUME NEW k \in 1 .. Len(s)  PROVE Sound(s[k])'
  BY SoundStays DEF Stack
<1>2. ASSUME NEW k \in 1 .. Len(s) - 1  PROVE Awaits(s[k], s[k + 1])'
  <2>1. Awaits(s[k], s[k + 1])
    BY DEF Stack
  <2> QED  BY <2>1 DEF Awaits
<1>3. Len(s) > 0 => IsFirst(s[1])'
  BY DEF Stack, IsFirst
<1>4. IsSequence(s)'
  BY DEF Stack, IsSequence
<1> QED  BY <1>1, <1>2, <1>3, <1>4 DEF Stack

LEMMA ClosedStays ==
  ASSUME IsGrammar, Closed, Root \in DOMAIN rules, rules' = rules, tokens' = tokens
  PROVE  IsGrammar' /\ Closed' /\ (Root \in DOMAIN rules)'
<1>1. IsGrammar'
  BY DEF IsGrammar
<1>2. TermRules'
  BY DEF Closed, TermRules, TermMakes, AlternativesMake
<1>3. ExpressionRules'
  BY DEF Closed, ExpressionRules, RoundsMake, TermMakes, ExpressionMakes
<1>4. AlternativeRules'
  BY DEF Closed, AlternativeRules, FirstMake, ExpressionMakes, AlternativesMake
<1> QED  BY <1>1, <1>2, <1>3, <1>4 DEF Closed

LEMMA AnswerStays ==
  ASSUME SuccessIsDerived, AnswerInRange, rules' = rules, tokens' = tokens, answer' = answer
  PROVE  SuccessIsDerived' /\ AnswerInRange'
BY DEF SuccessIsDerived, AnswerInRange, AlternativesMake

(* A step that leaves the stack s. *)
LEMMA ParsingGoesOn ==
  ASSUME Parsing, UNCHANGED <<rules, tokens, answer>>, NEW s, Stack(s), calls' = s
  PROVE  Parsing'
<1>1. Stack(s)'
  BY StackStays
<1>2. Stack(calls)'
  BY <1>1 DEF Stack
<1>3. SuccessIsDerived' /\ AnswerInRange'
  BY AnswerStays DEF Parsing
<1>4. IsGrammar' /\ Closed' /\ (Root \in DOMAIN rules)'
  BY ClosedStays DEF Parsing
<1> QED  BY <1>2, <1>3, <1>4 DEF Parsing

(* The innermost activation is at an expression. *)
LEMMA InnermostWorks ==
  ASSUME Parsing, AtExpression
  PROVE  /\ IsGrammar /\ Closed /\ Stack(calls) /\ calls # <<>>
         /\ Len(calls) \in Nat \ {0} /\ Innermost = calls[Len(calls)]
         /\ Sound(Innermost) /\ Working(Innermost)
<1>1. IsGrammar /\ Closed /\ Stack(calls) /\ calls # <<>> /\ ~Finished(Innermost)
  BY DEF Parsing, AtExpression
<1>2. IsSequence(calls)
  BY <1>1 DEF Stack
<1>3. Len(calls) \in Nat \ {0} /\ Innermost = calls[Len(calls)]
  BY <1>1, <1>2, Popped DEF Innermost
<1>4. Sound(Innermost)
  BY <1>1, <1>3 DEF Stack
<1> QED  BY <1>1, <1>3, <1>4 DEF Working

(* The innermost activation becomes g. *)
LEMMA InnermostBecomes ==
  ASSUME Parsing, AtExpression, UNCHANGED <<rules, tokens, answer>>,
         NEW g, Sound(g), SameCall(Innermost, g), calls' = Append(Front(calls), g)
  PROVE  Parsing'
<1>1. PICK s, t : s = calls /\ t = Append(Front(s), g)
  OBVIOUS
<1>2. Stack(s) /\ s # <<>> /\ SameCall(s[Len(s)], g)
  BY <1>1, InnermostWorks
<1>3. Stack(t)
  BY <1>1, <1>2, StackReplaced
<1>4. calls' = t
  BY <1>1
<1> QED  BY <1>3, <1>4, ParsingGoesOn

LEMMA SkipExpressionParses ==
  ASSUME Parsing, SkipExpression, UNCHANGED <<rules, tokens>>
  PROVE  Parsing'
<1>1. AtExpression /\ Expr(Innermost).max = 0 /\ UNCHANGED answer
  BY DEF SkipExpression
<1>2. PICK f, g : f = Innermost /\ g = EndExpression(f, AtEnd(f.cur, ExprToEnd(f)))
  OBVIOUS
<1>3. IsGrammar /\ Closed /\ Working(f) /\ Expr(f).max = 0
  BY <1>1, <1>2, InnermostWorks
<1>4. Sound(g) /\ SameCall(f, g)
  BY <1>2, <1>3, Skipped
<1>5. calls' = Append(Front(calls), g)
  BY <1>2 DEF SkipExpression
<1> QED  BY <1>1, <1>2, <1>4, <1>5, InnermostBecomes

(* The innermost activation receives the result of its term. *)
LEMMA InnermostReceives ==
  ASSUME Parsing, AtExpression, Expr(Innermost).max > 0, UNCHANGED <<rules, tokens, answer>>,
         NEW r, TermResult(Innermost, r), Receives(calls, r)
  PROVE  Parsing'
<1>1. PICK f, g : f = Innermost /\ g = Receive(f, r)
  OBVIOUS
<1>2. IsGrammar /\ Closed /\ Working(f) /\ Expr(f).max > 0 /\ TermResult(f, r)
  BY <1>1, InnermostWorks
<1>3. Sound(g) /\ SameCall(f, g)
  BY <1>1, <1>2, Received
<1>4. calls' = Append(Front(calls), g)
  BY <1>1 DEF Receives, Innermost
<1> QED  BY <1>1, <1>3, <1>4, InnermostBecomes

LEMMA ReadTerminalParses ==
  ASSUME Parsing, ReadTerminal, UNCHANGED <<rules, tokens>>
  PROVE  Parsing'
<1>1. /\ AtExpression /\ Expr(Innermost).max > 0 /\ Expr(Innermost).term.kind = "terminal"
      /\ UNCHANGED answer
  BY DEF ReadTerminal, AtTerm
<1>2. PICK f, r : f = Innermost /\ r = ParseTerminal(f.cur.pos, Expr(f).term.tag, TermToEnd(f))
  OBVIOUS
<1>3. IsGrammar /\ Closed /\ Working(f) /\ Expr(f).term.kind = "terminal"
  BY <1>1, <1>2, InnermostWorks
<1>4. TermResult(f, r)
  BY <1>2, <1>3, TerminalIsDerived
<1>5. Receives(calls, r)
  BY <1>2 DEF ReadTerminal
<1> QED  BY <1>1, <1>2, <1>4, <1>5, InnermostReceives

LEMMA FailWithoutRuleParses ==
  ASSUME Parsing, FailWithoutRule, UNCHANGED <<rules, tokens>>
  PROVE  Parsing'
<1>1. AtExpression /\ Expr(Innermost).max > 0 /\ UNCHANGED answer
  BY DEF FailWithoutRule, AtTerm
<1>2. PICK f, x, r : /\ f = Innermost /\ x = Node(Expr(f).term.tag, <<>>)
                     /\ r = Result(f.cur.pos, <<x>>, FALSE)
  OBVIOUS
<1>3. IsGrammar /\ Closed /\ Working(f)
  BY <1>1, <1>2, InnermostWorks
<1>4. TermResult(f, r)
  BY <1>2, <1>3, FailureIsResult
<1>5. Receives(calls, r)
  BY <1>2 DEF FailWithoutRule
<1> QED  BY <1>1, <1>2, <1>4, <1>5, InnermostReceives

(* The innermost activation calls g. *)
LEMMA InnermostCalls ==
  ASSUME Parsing, AtExpression, UNCHANGED <<rules, tokens, answer>>,
         NEW g, Sound(g), Awaits(Innermost, g), Calls(g)
  PROVE  Parsing'
<1>1. PICK s : s = calls
  OBVIOUS
<1>2. Stack(s) /\ s # <<>> /\ Awaits(s[Len(s)], g)
  BY <1>1, InnermostWorks
<1>3. Stack(Append(s, g))
  BY <1>2, StackPushed
<1>4. calls' = Append(s, g)
  BY <1>1 DEF Calls
<1> QED  BY <1>3, <1>4, ParsingGoesOn

LEMMA CallGroupParses ==
  ASSUME Parsing, CallGroup, UNCHANGED <<rules, tokens>>
  PROVE  Parsing'
<1>1. /\ AtExpression /\ Expr(Innermost).max > 0 /\ Expr(Innermost).term.kind = "group"
      /\ UNCHANGED answer
  BY DEF CallGroup, AtTerm
<1>2. PICK f, x, b : f = Innermost /\ x = Expr(f) /\ b = TermToEnd(f)
  OBVIOUS
<1>3. IsGrammar /\ Closed /\ Working(f) /\ x \in AllExprs /\ b \in BOOLEAN
  BY <1>1, <1>2, InnermostWorks, WorkingTyped DEF TermToEnd, ExprToEnd
<1>4. x.term.alts \in AllAlts
  BY <1>1, <1>2, <1>3 DEF IsGrammar
<1>5. f.cur.pos \in 0 .. Len(tokens)
  BY <1>3, WorkingTyped
<1>6. PICK g : g = Frame(GroupTag, x.term.alts, f.cur.pos, b)
  OBVIOUS
<1>7. Sound(g)
  BY <1>3, <1>4, <1>5, <1>6, CalledIsSound
<1>8. g.tag = GroupTag /\ g.alts = x.term.alts /\ g.begin = f.cur.pos
  BY <1>6 DEF Frame
<1>9. Awaits(Innermost, g)
  BY <1>1, <1>2, <1>3, <1>8 DEF Awaits, Working
<1>10. Calls(g)
  BY <1>2, <1>6 DEF CallGroup
<1> QED  BY <1>1, <1>7, <1>9, <1>10, InnermostCalls

LEMMA CallNonTerminalParses ==
  ASSUME Parsing, CallNonTerminal, UNCHANGED <<rules, tokens>>
  PROVE  Parsing'
<1>1. /\ AtExpression /\ Expr(Innermost).max > 0 /\ Expr(Innermost).term.kind = "nonterminal"
      /\ UNCHANGED answer
  BY DEF CallNonTerminal, AtTerm
<1>2. PICK f, x, b, tag : f = Innermost /\ x = Expr(f) /\ b = TermToEnd(f) /\ tag = x.term.tag
  OBVIOUS
<1>3. IsGrammar /\ Closed /\ Working(f) /\ b \in BOOLEAN
  BY <1>1, <1>2, InnermostWorks DEF TermToEnd, ExprToEnd
<1>4. tag \in DOMAIN rules /\ Calls(Frame(tag, rules[tag], f.cur.pos, b))
  BY <1>2 DEF CallNonTerminal
<1>5. f.cur.pos \in 0 .. Len(tokens) /\ rules[tag] \in AllAlts
  BY <1>3, <1>4, WorkingTyped DEF IsGrammar
<1>6. PICK g : g = Frame(tag, rules[tag], f.cur.pos, b)
  OBVIOUS
<1>7. Sound(g)
  BY <1>3, <1>5, <1>6, CalledIsSound
<1>8. g.tag = tag /\ g.alts = rules[tag] /\ g.begin = f.cur.pos
  BY <1>6 DEF Frame
<1>9. Awaits(Innermost, g)
  BY <1>1, <1>2, <1>3, <1>4, <1>8 DEF Awaits, Working
<1>10. Calls(g)
  BY <1>4, <1>6
<1> QED  BY <1>1, <1>7, <1>9, <1>10, InnermostCalls

LEMMA ReturnParses ==
  ASSUME Parsing, Return, UNCHANGED <<rules, tokens>>
  PROVE  Parsing'
<1>1. PICK s, t : s = calls /\ t = Front(s)
  OBVIOUS
<1>2. /\ Len(s) > 1 /\ IsGrammar /\ Closed /\ Stack(s) /\ UNCHANGED answer
      /\ Receives(t, Returned(Innermost))
  BY <1>1 DEF Parsing, Return
<1>3. IsSequence(s)
  BY <1>2 DEF Stack
<1>4. s # <<>>
  BY <1>2
<1>5. /\ IsSequence(t) /\ Len(s) \in Nat \ {0} /\ Len(t) = Len(s) - 1
      /\ \A k \in 1 .. Len(s) - 1 : t[k] = s[k]
      /\ Last(s) = s[Len(s)]
  BY <1>1, <1>3, <1>4, Popped
<1>6. Stack(t)
  BY <1>1, <1>2, <1>4, StackPopped
<1>7. t # <<>> /\ Len(t) \in Nat \ {0}
  BY <1>2, <1>5
<1>8. PICK f, g : f = t[Len(t)] /\ g = Innermost
  OBVIOUS
<1>9. g = s[Len(s)]
  BY <1>1, <1>5, <1>8 DEF Innermost
<1>10. Sound(f)
  BY <1>6, <1>7, <1>8 DEF Stack
<1>11. Sound(g)
  BY <1>2, <1>5, <1>9 DEF Stack
<1>12. Awaits(f, g)
  <2>1. Len(t) \in 1 .. Len(s) - 1 /\ Len(t) + 1 = Len(s)
    BY <1>5, <1>7
  <2>2. Awaits(s[Len(t)], s[Len(t) + 1])
    BY <1>2, <2>1 DEF Stack
  <2> QED  BY <1>5, <1>8, <1>9, <2>1, <2>2
<1>13. Working(f) /\ Expr(f).max > 0
  BY <1>10, <1>12 DEF Working, Awaits
<1>14. PICK r, h : r = Returned(g) /\ h = Receive(f, r)
  OBVIOUS
<1>15. TermResult(f, r)
  BY <1>2, <1>11, <1>12, <1>13, <1>14, ReturnedIsDerived
<1>16. Sound(h) /\ SameCall(f, h)
  BY <1>2, <1>13, <1>14, <1>15, Received
<1>17. Last(t) = f
  BY <1>5, <1>7, <1>8, Popped
<1>18. PICK u : u = Append(Front(t), h)
  OBVIOUS
<1>19. calls' = u
  BY <1>2, <1>8, <1>14, <1>17, <1>18 DEF Receives
<1>20. SameCall(t[Len(t)], h)
  BY <1>8, <1>16
<1>21. Stack(u)
  BY <1>6, <1>7, <1>16, <1>18, <1>20, StackReplaced
<1> QED  BY <1>2, <1>19, <1>21, ParsingGoesOn

LEMMA ReturnFromParseParses ==
  ASSUME Parsing, ReturnFromParse, UNCHANGED <<rules, tokens>>
  PROVE  Parsing'
<1>1. PICK s, r : s = calls /\ r = Returned(Innermost)
  OBVIOUS
<1>2. Len(s) = 1 /\ Stack(s) /\ calls' = <<>> /\ answer' = <<r>>
  BY <1>1 DEF Parsing, ReturnFromParse
<1>3. IsGrammar /\ Root \in DOMAIN rules
  BY DEF Parsing
<1>4. IsSequence(s) /\ s # <<>>
  BY <1>2 DEF Stack
<1>5. PICK g : g = s[1]
  OBVIOUS
<1>6. Innermost = g
  BY <1>1, <1>2, <1>4, <1>5, Popped DEF Innermost
<1>7. Sound(g) /\ IsFirst(g)
  BY <1>2, <1>5 DEF Stack
<1>8. g.tag = Root /\ g.alts = rules[Root] /\ g.begin = 0 /\ g.to_end
  BY <1>7 DEF IsFirst
<1>9. /\ IsResult(g.best, g.begin)
      /\ g.best.success => /\ AlternativesMake(g.alts, g.begin, g.best.pos, g.best.nodes)
                           /\ g.to_end => g.best.pos = Len(tokens)
  BY <1>7 DEF Sound, BestIsDerived
<1>10. g.tag # GroupTag
  BY <1>3, <1>8 DEF IsGrammar
<1>11. /\ IsResult(r, g.begin) /\ r.pos = g.best.pos /\ r.success = g.best.success
       /\ r.nodes = <<Node(Root, g.best.nodes)>>
  BY <1>1, <1>6, <1>8, <1>9, <1>10, ReturnedFields
<1>12. r.pos \in 0 .. Len(tokens)
  BY <1>8, <1>11 DEF IsResult
<1>13. r.success => /\ r.pos = Len(tokens)
                    /\ \E nodes : /\ r.nodes = <<Node(Root, nodes)>>
                                  /\ AlternativesMake(rules[Root], 0, Len(tokens), nodes)
  <2>1. ASSUME r.success
        PROVE  /\ r.pos = Len(tokens) /\ r.nodes = <<Node(Root, g.best.nodes)>>
               /\ AlternativesMake(rules[Root], 0, Len(tokens), g.best.nodes)
    BY <1>8, <1>9, <1>11, <2>1
  <2> QED  BY <2>1
<1>14. \A k \in DOMAIN answer' : answer'[k] = r
  BY <1>2
<1>15. AnswerInRange'
  BY <1>12, <1>14 DEF AnswerInRange
<1>16. SuccessIsDerived'
  BY <1>13, <1>14 DEF SuccessIsDerived, AlternativesMake
<1>17. Stack(<<>>)
  BY EmptyIsSequence DEF Stack
<1>18. Stack(calls)'
  <2>1. PICK t : t = <<>>
    OBVIOUS
  <2>2. Stack(t)'
    BY <1>17, <2>1, StackStays
  <2>3. calls' = t
    BY <1>2, <2>1
  <2> QED  BY <2>2, <2>3 DEF Stack
<1>19. IsGrammar' /\ Closed' /\ (Root \in DOMAIN rules)'
  BY ClosedStays DEF Parsing
<1> QED  BY <1>15, <1>16, <1>18, <1>19 DEF Parsing

(***************************************************************************)
(* The theorems.                                                           *)
(***************************************************************************)
LEMMA ParsingStarts ==
  ASSUME IsGrammar, Closed, ParseInit
  PROVE  Parsing
<1>1. PICK g : g = Frame(Root, rules[Root], 0, TRUE)
  OBVIOUS
<1>2. calls = <<g>> /\ answer = <<>> /\ Root \in DOMAIN rules
  BY <1>1 DEF ParseInit, ParseCall
<1>3. 0 \in 0 .. Len(tokens) /\ rules[Root] \in AllAlts
  BY <1>2 DEF IsGrammar
<1>4. Sound(g)
  BY <1>1, <1>3, CalledIsSound
<1>5. IsFirst(g)
  BY <1>1 DEF Frame, IsFirst
<1>6. PICK s : s = <<g>>
  OBVIOUS
<1>7. IsSequence(s) /\ Len(s) = 1 /\ s[1] = g
  BY <1>6, SingleIsSequence
<1>8. Stack(s)
  BY <1>4, <1>5, <1>7 DEF Stack
<1>9. SuccessIsDerived /\ AnswerInRange
  BY <1>2 DEF SuccessIsDerived, AnswerInRange
<1> QED  BY <1>2, <1>6, <1>8, <1>9 DEF Parsing

LEMMA ParsingIsKept ==
  Parsing /\ [ParseNext /\ UNCHANGED <<rules, tokens>>]_parseVars => Parsing'
<1> SUFFICES ASSUME Parsing, [ParseNext /\ UNCHANGED <<rules, tokens>>]_parseVars
             PROVE  Parsing'
  OBVIOUS
<1>1. CASE SkipExpression /\ UNCHANGED <<rules, tokens>>
  BY <1>1, SkipExpressionParses
<1>2. CASE ReadTerminal /\ UNCHANGED <<rules, tokens>>
  BY <1>2, ReadTerminalParses
<1>3. CASE CallGroup /\ UNCHANGED <<rules, tokens>>
  BY <1>3, CallGroupParses
<1>4. CASE CallNonTerminal /\ UNCHANGED <<rules, tokens>>
  BY <1>4, CallNonTerminalParses
<1>5. CASE FailWithoutRule /\ UNCHANGED <<rules, tokens>>
  BY <1>5, FailWithoutRuleParses
<1>6. CASE Return /\ UNCHANGED <<rules, tokens>>
  BY <1>6, ReturnParses
<1>7. CASE ReturnFromParse /\ UNCHANGED <<rules, tokens>>
  BY <1>7, ReturnFromParseParses
<1>8. CASE UNCHANGED parseVars
  <2>1. PICK s : s = calls
    OBVIOUS
  <2>2. Stack(s) /\ calls' = s /\ UNCHANGED <<rules, tokens, answer>>
    BY <1>8, <2>1 DEF Parsing, parseVars
  <2> QED  BY <2>2, ParsingGoesOn
<1> QED  BY <1>1, <1>2, <1>3, <1>4, <1>5, <1>6, <1>7, <1>8 DEF ParseNext

LEMMA AlwaysParsing == IsGrammar /\ Closed /\ ParseSpec => []Parsing
<1>1. IsGrammar /\ Closed /\ ParseInit => Parsing
  BY ParsingStarts
<1>2. Parsing /\ [ParseNext /\ UNCHANGED <<rules, tokens>>]_parseVars => Parsing'
  BY ParsingIsKept
<1> QED  BY <1>1, <1>2, PTL DEF ParseSpec

(* The generic parser never accepts what the grammar does not derive: for  *)
(* every grammar and every sequence of tokens, a result of Parse() with    *)
(* success TRUE ends at the end of the tokens and its one node is the root *)
(* over a derivation of all of them, although ParseExpression goes on      *)
(* after a mandatory term that failed and gives an optional one back.      *)
THEOREM OnlyDerivationsSucceed == IsGrammar /\ Closed /\ ParseSpec => []SuccessIsDerived
<1>1. Parsing => SuccessIsDerived
  BY DEF Parsing
<1> QED  BY <1>1, AlwaysParsing, PTL

(* The position that Parse() answers with is that of a token or the end of *)
(* the tokens: ParseTerminal never dereferences an iterator past the end,  *)
(* and the message about a syntax error starts inside the text.            *)
THEOREM AnswersStayInside == IsGrammar /\ Closed /\ ParseSpec => []AnswerInRange
<1>1. Parsing => AnswerInRange
  BY DEF Parsing
<1> QED  BY <1>1, AlwaysParsing, PTL
===============================================================================
