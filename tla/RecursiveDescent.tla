--------------------------- MODULE RecursiveDescent ---------------------------
(***************************************************************************)
(* The generic parser of recursive_descent_parser.h: alternatives in       *)
(* order, repetitions as long as they go, no look-ahead and no way back.   *)
(* The recursion is an explicit stack.  A frame is an activation of        *)
(* ParseAlternatives, for a variable or for a group, with the loops of     *)
(* ParseExpressions and ParseExpression inside it: nothing but a term      *)
(* calls again.  An iterator is the number of tokens before it; to_end     *)
(* asks that a result reach the end of the tokens.                         *)
(***************************************************************************)
EXTENDS GrammarTerms, Sequences, SequencesExt

VARIABLES rules,     \* rules_: from a variable to its alternatives
          tokens,    \* the tokens between begin and end
          calls,     \* the activations, the innermost last
          answer     \* the ParseResult of Parse, in a sequence, or <<>>

(***************************************************************************)
(* Parse trees and results: the position reached, the nodes, the verdict.  *)
(***************************************************************************)
Leaf(token) == [tag |-> token.tag, token |-> token, children |-> <<>>]
Missing(tag) == [tag |-> tag, children |-> <<>>]
Node(tag, children) == [tag |-> tag, children |-> children]

Result(pos, nodes, success) == [pos |-> pos, nodes |-> nodes, success |-> success]
Nothing(begin, success) == Result(begin, <<>>, success)

(* What a result becomes with the next one behind it. *)
Then(cur, r) == Result(r.pos, cur.nodes \o r.nodes, cur.success /\ r.success)

(* The result that ParseAlternatives keeps: the first success, or of the   *)
(* failures the last of those that got furthest.                           *)
Further(best, r) == IF r.success \/ r.pos >= best.pos THEN r ELSE best

(***************************************************************************)
(* Frames: alts and begin are the arguments of ParseAlternatives, alt and  *)
(* best its loop; nth and done the loop of ParseExpressions; round and cur *)
(* that of ParseExpression.                                                *)
(***************************************************************************)
GroupTag == "group"

Frame(tag, alts, begin, to_end) ==
  [tag |-> tag, alts |-> alts, begin |-> begin, to_end |-> to_end,
   alt |-> 1, best |-> Nothing(begin, FALSE),
   nth |-> 1, done |-> Nothing(begin, TRUE),
   round |-> 0, cur |-> Nothing(begin, TRUE)]

Exprs(f) == f.alts[f.alt]
Expr(f) == Exprs(f)[f.nth]
ExprToEnd(f) == f.to_end /\ f.nth = Len(Exprs(f))
TermToEnd(f) == ExprToEnd(f) /\ f.round + 1 = Expr(f).max
Optional(f) == f.round >= Expr(f).min /\ f.cur.success

Finished(f) == f.best.success \/ f.alt > Len(f.alts)

(***************************************************************************)
(* What the result of a term does to the frame that asked for it.          *)
(***************************************************************************)
NextAlternative(f, r) ==
  [f EXCEPT !.best = Further(@, r), !.alt = @ + 1,
            !.nth = 1, !.done = Nothing(f.begin, TRUE),
            !.round = 0, !.cur = Nothing(f.begin, TRUE)]

NextExpression(f, r) ==
  [f EXCEPT !.done = r, !.nth = @ + 1, !.round = 0, !.cur = Nothing(r.pos, TRUE)]

(* A sequence stops at its first failure. *)
EndExpression(f, r) ==
  IF f.nth < Len(Exprs(f)) /\ r.success THEN NextExpression(f, Then(f.done, r))
                                        ELSE NextAlternative(f, Then(f.done, r))

Mut_OrNothing(r, begin, to_end) ==
  IF r.success THEN r ELSE Result(begin, r.nodes, to_end => begin = Len(tokens))

(* An optional term that fails gives back its tokens and its nodes. *)
OrNothing(r, begin, to_end) ==
  IF r.success THEN r ELSE Nothing(begin, to_end => begin = Len(tokens))

Mut_AtEndAnywhere(r, to_end) == r

AtEnd(r, to_end) == [r EXCEPT !.success = @ /\ (to_end => r.pos = Len(tokens))]

(* A round that does not advance is the last.  A mandatory term that fails *)
(* after it has advanced is not: the rounds go on from where it stopped.   *)
EndRound(f, r) ==
  IF r.pos > f.cur.pos /\ f.round + 1 < Expr(f).max
  THEN [f EXCEPT !.cur = Then(@, r), !.round = @ + 1]
  ELSE EndExpression(f, AtEnd(Then(f.cur, r), ExprToEnd(f)))

Receive(f, r) ==
  EndRound(f, IF Optional(f) THEN OrNothing(r, f.cur.pos, TermToEnd(f)) ELSE r)

Returned(f) ==
  IF f.tag = GroupTag THEN f.best ELSE [f.best EXCEPT !.nodes = <<Node(f.tag, @)>>]

(***************************************************************************)
(* The calls of ParseTerm.                                                 *)
(***************************************************************************)
ParseTerminal(begin, tag, to_end) ==
  IF begin < Len(tokens) /\ tokens[begin + 1].tag = tag
  THEN Result(begin + 1, <<Leaf(tokens[begin + 1])>>, to_end => begin + 1 = Len(tokens))
  ELSE Result(begin, <<Missing(tag)>>, FALSE)

Innermost == Last(calls)

Calls(f) == calls' = Append(calls, f)

Receives(stack, r) ==
  calls' = Append(Front(stack), Receive(Last(stack), r))

(* The term that the innermost frame is at. *)
AtExpression == calls # <<>> /\ ~ Finished(Innermost)

AtTerm(kind) == AtExpression /\ Expr(Innermost).max > 0 /\ Expr(Innermost).term.kind = kind

(* A term that is to occur no time is not tried. *)
SkipExpression ==
  /\ AtExpression
  /\ Expr(Innermost).max = 0
  /\ calls' = Append(Front(calls),
                     EndExpression(Innermost, AtEnd(Innermost.cur, ExprToEnd(Innermost))))
  /\ UNCHANGED answer

ReadTerminal ==
  /\ AtTerm("terminal")
  /\ Receives(calls, ParseTerminal(Innermost.cur.pos, Expr(Innermost).term.tag, TermToEnd(Innermost)))
  /\ UNCHANGED answer

CallGroup ==
  /\ AtTerm("group")
  /\ Calls(Frame(GroupTag, Expr(Innermost).term.alts, Innermost.cur.pos, TermToEnd(Innermost)))
  /\ UNCHANGED answer

CallNonTerminal ==
  /\ AtTerm("nonterminal")
  /\ LET tag == Expr(Innermost).term.tag
     IN  /\ tag \in DOMAIN rules
         /\ Calls(Frame(tag, rules[tag], Innermost.cur.pos, TermToEnd(Innermost)))
  /\ UNCHANGED answer

FailWithoutRule ==
  /\ AtTerm("nonterminal")
  /\ LET tag == Expr(Innermost).term.tag
     IN  /\ tag \notin DOMAIN rules
         /\ Receives(calls, Result(Innermost.cur.pos, <<Node(tag, <<>>)>>, FALSE))
  /\ UNCHANGED answer

Return ==
  /\ Len(calls) > 1
  /\ Finished(Innermost)
  /\ Receives(Front(calls), Returned(Innermost))
  /\ UNCHANGED answer

ReturnFromParse ==
  /\ Len(calls) = 1
  /\ Finished(Innermost)
  /\ calls' = <<>>
  /\ answer' = <<Returned(Innermost)>>

(* Parse() is called with a root that has a rule. *)
ParseCall(root) == <<Frame(root, rules[root], 0, TRUE)>>

(* The rules and the tokens stay as they are. *)
ParseNext ==
  \/ SkipExpression
  \/ ReadTerminal
  \/ CallGroup
  \/ CallNonTerminal
  \/ FailWithoutRule
  \/ Return
  \/ ReturnFromParse
===============================================================================
