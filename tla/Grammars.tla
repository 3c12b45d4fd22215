------------------------------- MODULE Grammars -------------------------------
(***************************************************************************)
(* What a grammar means, for comparison with the parser: which pieces of   *)
(* the input a term derives, with every choice free, and which trees are   *)
(* derivations.  The grammar is rules and the input tokens, as in          *)
(* RecursiveDescent.                                                       *)
(***************************************************************************)
EXTENDS RecursiveDescent

Tags(s) == [i \in DOMAIN s |-> s[i].tag]

(***************************************************************************)
(* The positions of input at which a derivation of term from position i    *)
(* may end, where <<v, i, j>> in known says that the variable v derives    *)
(* what is between i and j.  A variable may also stand in the input        *)
(* itself, as it does among the children of a node.                        *)
(***************************************************************************)
RECURSIVE Ends(_, _, _, _)

EndsOfExpression(input, known, expr, i) ==
  LET most == IF expr.max <= expr.min + Len(input) - i
              THEN expr.max ELSE expr.min + Len(input) - i
      after[n \in Nat] ==
        IF n = 0 THEN {i} ELSE UNION {Ends(input, known, expr.term, j) : j \in after[n - 1]}
  IN  UNION {after[n] : n \in expr.min .. most}

EndsOfExpressions(input, known, exprs, i) ==
  LET after[n \in Nat] ==
        IF n = 0 THEN {i}
        ELSE UNION {EndsOfExpression(input, known, exprs[n], j) : j \in after[n - 1]}
  IN  after[Len(exprs)]

EndsOfAlternatives(input, known, alts, i) ==
  UNION {EndsOfExpressions(input, known, alts[k], i) : k \in DOMAIN alts}

Ends(input, known, term, i) ==
  IF term.kind = "group" THEN EndsOfAlternatives(input, known, term.alts, i)
  ELSE (IF i < Len(input) /\ input[i + 1] = term.tag THEN {i + 1} ELSE {})
         \cup {j \in i .. Len(input) : <<term.tag, i, j>> \in known}

(* The least relation that is closed under the rules. *)
RECURSIVE Saturated(_, _)

Saturated(input, known) ==
  LET more == UNION {{<<v, i, j>> : j \in EndsOfAlternatives(input, known, rules[v], i)} :
                       v \in DOMAIN rules, i \in 0 .. Len(input)}
  IN  IF more = known THEN known ELSE Saturated(input, more)

Derives(root) == <<root, 0, Len(tokens)>> \in Saturated(Tags(tokens), {})

(* The children of every node spell an alternative of its variable. *)
RECURSIVE IsDerivation(_)

IsDerivation(node) ==
  IF "token" \in DOMAIN node THEN node.tag = node.token.tag
  ELSE /\ node.tag \in DOMAIN rules
       /\ Len(node.children) \in EndsOfAlternatives(Tags(node.children), {}, rules[node.tag], 0)
       /\ \A i \in DOMAIN node.children : IsDerivation(node.children[i])

RECURSIVE Leaves(_)

Leaves(node) ==
  IF "token" \in DOMAIN node THEN <<node.token>>
  ELSE LET upto[n \in Nat] ==
             IF n = 0 THEN <<>> ELSE upto[n - 1] \o Leaves(node.children[n])
       IN  upto[Len(node.children)]

(* A parse tree of the whole input. *)
IsParseTree(root, node) ==
  node.tag = root /\ IsDerivation(node) /\ Leaves(node) = tokens
===============================================================================
