----------------------------- MODULE GrammarTerms -----------------------------
(***************************************************************************)
(* The right-hand sides of rules: a rule maps a variable to a sequence of  *)
(* alternatives, an alternative is a sequence of expressions, and an       *)
(* expression is a term with the number of times it may occur.             *)
(***************************************************************************)
EXTENDS Integers

Unbounded == 2147483647

Terminal(tag) == [kind |-> "terminal", tag |-> tag]
NonTerminal(tag) == [kind |-> "nonterminal", tag |-> tag]
Group(alts) == [kind |-> "group", alts |-> alts]

Times(n, m, term) == [min |-> n, max |-> m, term |-> term]
One(term) == Times(1, 1, term)
AtMost(n, term) == Times(0, n, term)
AtLeast(n, term) == Times(n, Unbounded, term)
AnyNumber(term) == AtLeast(0, term)
===============================================================================
