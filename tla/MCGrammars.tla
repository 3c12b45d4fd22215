------------------------------ MODULE MCGrammars ------------------------------
(***************************************************************************)
(* The generic parser over a family of small grammars.  S stands for the   *)
(* root, A for another variable, B for one without a rule; the tokens are  *)
(* a and b.                                                                *)
(***************************************************************************)
EXTENDS Grammars

CONSTANTS MaxTokens  \* the longest input

Inputs == {[i \in DOMAIN s |-> [tag |-> s[i], value |-> i]] :
             s \in UNION {[1 .. n -> {"a", "b"}] : n \in 0 .. MaxTokens}}

Symbols == {Terminal("a"), Terminal("b"), NonTerminal("A")}

Pieces == {One(t) : t \in Symbols}
            \cup {Times(n, m, t) : n \in 0 .. 1, m \in {2, Unbounded}, t \in Symbols}
            \cup {Times(2, m, Terminal("a")) : m \in {2, Unbounded}}
            \cup {Times(0, 0, Terminal("a"))}
            \cup {AtMost(1, Group(<< <<One(Terminal("a")), One(NonTerminal("A"))>>,
                                     <<One(Terminal("b"))>> >>))}

(* No empty alternative and no left recursion; what must occur twice is    *)
(* not empty, for the parser takes an empty one once and moves on.         *)
Roots == {<<r>> : r \in {<<p>> : p \in Pieces} \cup {<<p, q>> : p, q \in Pieces}}
           \cup {<< <<p>>, <<q, One(Terminal("b"))>> >> : p, q \in Pieces}

Others == {<< <<One(Terminal("a"))>>, <<One(Terminal("a")), One(Terminal("b"))>> >>,
           << <<One(Terminal("b")), AtMost(1, NonTerminal("A"))>>, <<One(Terminal("a"))>> >>,
           << <<AnyNumber(Terminal("a"))>>, <<One(NonTerminal("B"))>> >>,
           << <<One(NonTerminal("B"))>>, <<One(Terminal("a"))>> >>}

GrammarsInit ==
  /\ tokens \in Inputs
  /\ \E r \in Roots, o \in Others : rules = [S |-> r, A |-> o]
  /\ calls = ParseCall("S") /\ answer = <<>>

GrammarsNext == ParseNext /\ UNCHANGED <<rules, tokens>>

GrammarsSpec == GrammarsInit /\ [][GrammarsNext]_<<rules, tokens, calls, answer>>

(* A success is a parse: the tree derives all the tokens, in their order,   *)
(* whatever alternatives and optional pieces were tried and given up on the *)
(* way (recursive_descent_parser.h:246-313, 322-325).                       *)
SuccessIsAParse ==
  \A i \in DOMAIN answer :
    answer[i].success => answer[i].pos = Len(tokens) /\ IsParseTree("S", answer[i].nodes[1])
===============================================================================
