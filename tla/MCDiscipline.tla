----------------------------- MODULE MCDiscipline -----------------------------
(* Instances of Discipline: programs that keep it. *)
EXTENDS Discipline, Pgms

GoodExps ==
  [e \in DOMAIN PgmExps \ {"unset", "lambda n {}", "lambda: unit"} |-> PgmExps[e]]

GoodStmts ==
  [s \in DOMAIN PgmStmts \ {"unset=unset;", "f=lambda n {};", "f=lambda: unit;"} |->
     PgmStmts[s]]

Returning == {"return n+1;", "return x+1;", "return x+y;", "return 1;", "return f(n-1);",
              "return lambda x: x+y;", "return fact;",
              "if n<1 return 1 else return f(n-1);"}

TopLevel == DOMAIN GoodStmts \ Returning

TopLevelPrograms == {<<s>> : s \in TopLevel} \cup {<<s, t>> : s \in TopLevel, t \in TopLevel}

MaxDepth == 4

DepthBound == Len(saved_ctx) <= MaxDepth
===============================================================================
