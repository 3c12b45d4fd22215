------------------------------ MODULE MCCfgTool -------------------------------
(***************************************************************************)
(* Instances of CfgTool.  The tool is run twice: with the definition of    *)
(* the syntax of definitions, which is given a text to read, and then with *)
(* that text as the definition.  A phrase is a text with its meaning.      *)
(***************************************************************************)
EXTENDS CfgTool

VARIABLES written,   \* what the text is: its lexemes and, if known, what it means
          before,    \* how the first run ended, or "none"
          tick       \* changes with every step of the tool

vars == <<toolVars, written, before, tick>>

(* lang/data/grammar_def.cfg.txt, which README.md shows. *)
GrammarDef ==
  "produces : '->' | '::=' | ':' | '=' ;\n"
    \o "int : \"\\\\d+\" ;\n"
    \o "id : \"[[:alpha:]_]\\\\w*\" ;\n"
    \o "regex_tok : \"\\\"(\\\\\\\\.|[^\\\"])*\\\"\" ;\n"
    \o "literal_tok : \"'(\\\\\\\\.|[^'])*'\" ;\n"
    \o "cardinality \n"
    \o "  : '*' | '+' | '?'\n"
    \o "  | '{' int '}' | '{' int ',' int '}' ;\n"
    \o "term : '(' alternatives ')' | id | regex_tok | literal_tok ;\n"
    \o "expr : '[' alternatives ']' | term cardinality | term ;\n"
    \o "exprs : expr+ ;\n"
    \o "alternatives : exprs ('|' exprs)* ;\n"
    \o "rule : id produces alternatives ';' ;\n"
    \o "grammar : rule+ ;\n"
    \o "unknown -> \".\";\n"

(***************************************************************************)
(* Phrases.                                                                *)
(***************************************************************************)
Phrase(lexemes, means, terminals) ==
  [lexemes |-> lexemes, means |-> means, terminals |-> terminals]

Lexemes(ps) == FlattenSeq([i \in DOMAIN ps |-> ps[i].lexemes])
Meanings(ps) == [i \in DOMAIN ps |-> ps[i].means]
Terminals(ps) == FlattenSeq([i \in DOMAIN ps |-> ps[i].terminals])

Var(name) == Phrase(<<name>>, Named(name), <<>>)
Lit(lexeme, regex) == Phrase(<<lexeme>>, Terminal(regex), <<regex>>)

Exps(ps) == Phrase(Lexemes(ps), Meanings(ps), Terminals(ps))
Alts(ps) ==
  Phrase(FlattenSeq([i \in DOMAIN ps |-> IF i = 1 THEN ps[i].lexemes ELSE <<"|">> \o ps[i].lexemes]),
         Meanings(ps), Terminals(ps))
GroupOf(p) == Phrase(<<"(">> \o p.lexemes \o <<")">>, Group(p.means), p.terminals)
Once(p) == Phrase(p.lexemes, One(p.means), p.terminals)
Repeated(p, lexemes, n, m) == Phrase(p.lexemes \o lexemes, Times(n, m, p.means), p.terminals)
Opt(p) == Phrase(<<"[">> \o p.lexemes \o <<"]">>, AtMost(1, Group(p.means)), p.terminals)
RuleOf(name, sign, p) ==
  Phrase(<<name, sign>> \o p.lexemes \o <<";">>,
         [name |-> "<" \o name \o ">", alts |-> p.means], p.terminals)

(* The alternatives of all the rules with a name, in their order. *)
GrammarOf(rs) ==
  Phrase(Lexemes(rs),
         FoldLeft(LAMBDA g, r : IF r.name \in DOMAIN g THEN [g EXCEPT ![r.name] = @ \o r.alts]
                                                       ELSE g @@ (r.name :> r.alts),
                  [v \in {} |-> <<>>], Meanings(rs)),
         Terminals(rs))

(***************************************************************************)
(* Definitions with every construct.  The root is s; a variable may have   *)
(* no rule.                                                                *)
(***************************************************************************)
A == Lit("'a'", "a")

Literals ==
  {A, Lit("'+'", "\\+"), Lit("'a.'", "a\\."), Lit("'\\''", "'"), Lit("'\\\\'", "\\\\"),
   Lit("'\\n'", "\n"), Lit("'#'", "#"), Lit("\"\\\\d+\"", "\\d+"), Lit("\".\"", "."), Lit("\"a\\\\+\"", "a\\+")}

Repetitions(t) ==
  {Repeated(t, <<"*">>, 0, Unbounded), Repeated(t, <<"+">>, 1, Unbounded), Repeated(t, <<"?">>, 0, 1),
   Repeated(t, <<"{", "2", "}">>, 2, 2), Repeated(t, <<"{", "0", "}">>, 0, 0),
   Repeated(t, <<"{", "1", ",", "12", "}">>, 1, 12)}

OneAlt(p) == Alts(<<Exps(<<Once(p)>>)>>)
Choice == Alts(<<Exps(<<Once(A)>>), Exps(<<Once(Var("b")), Once(A)>>)>>)

Expressions ==
  {Once(t) : t \in Literals \cup {Var("b"), GroupOf(Choice)}}
    \cup UNION {Repetitions(t) : t \in {A, GroupOf(Choice)}}
    \cup {Opt(Choice), Opt(OneAlt(GroupOf(OneAlt(A)))), Repeated(GroupOf(Alts(<<Exps(<<Opt(Choice)>>)>>)), <<"*">>, 0, Unbounded)}

B == RuleOf("b", "->", OneAlt(Lit("'b'", "b")))

Definitions ==
  {GrammarOf(<<RuleOf("s", "=", Alts(<<Exps(<<e>>)>>)), B>>) : e \in Expressions}
    \cup {GrammarOf(<<B, RuleOf("s", ":", Alts(<<Exps(<<e, Once(A)>>), Exps(<<e>>)>>))>>) : e \in Expressions}
    \cup {GrammarOf(<<RuleOf("s", "::=", Choice), B, RuleOf("s", "=", OneAlt(Lit("'+'", "\\+"))),
                      RuleOf("b", "=", OneAlt(A))>>),
          GrammarOf(<<RuleOf("s", "->", Alts(<<Exps(<<Once(Var("b")), Once(A)>>), Exps(<<Once(A)>>)>>))>>),
          GrammarOf(<<RuleOf("s", "=", OneAlt(Lit("'a\\'", "a\\\\")))>>),
          GrammarOf(<<B>>)}

(* A comment, which hides what looks like the end of a rule, means nothing. *)
Comment == "#';\n"

Sample == GrammarOf(<<RuleOf("s", "=", Alts(<<Exps(<<Repeated(A, <<"{", "1", "}">>, 1, 1), Opt(Choice)>>)>>)), B>>)

WithComments == {[Sample EXCEPT !.lexemes = InsertAt(@, i, Comment)] : i \in 1 .. Len(Sample.lexemes) + 1}

(* Near misses: one lexeme dropped, replaced or added.  A # hides the rest. *)
EditLexemes == {"|", ";", "(", "]", "*", "{", "=", "#"}

Edits(lexemes) ==
  {RemoveAt(lexemes, i) : i \in DOMAIN lexemes}
    \cup {ReplaceAt(lexemes, i, l) : i \in DOMAIN lexemes, l \in EditLexemes}
    \cup {InsertAt(lexemes, i, l) : i \in 1 .. Len(lexemes) + 1, l \in EditLexemes}

Edited ==
  {RuleOf("s", "=", Alts(<<Exps(<<e>>)>>)).lexemes :
     e \in {Repeated(A, <<"{", "1", ",", "2", "}">>, 1, 2), Opt(Choice), Once(GroupOf(Choice))}}

(* The constructor of std::regex throws at the parenthesis. *)
NotRegular == <<"s", "=", "\"(\"", ";">>

Known == Definitions \cup WithComments
Unknown == {Phrase(l, <<>>, <<>>) : l \in UNION {Edits(l) : l \in Edited} \cup {<<GrammarDef>>, <<>>, NotRegular}}

Spelled(p) == FoldLeft(LAMBDA s, l : s \o l, "", p.lexemes)

Inputs == {"", "a", "aa b", "+", "'", "\\", "12a+", "ab?a"}

(***************************************************************************)
(* The runs.                                                               *)
(***************************************************************************)
MCInit == Init /\ written = Phrase(<<>>, <<>>, <<>>) /\ before = "none" /\ tick = FALSE

FirstExecute ==
  /\ stage = "idle"
  /\ Execute(GrammarDef, "grammar", "\\s+")
  /\ UNCHANGED <<written, before>>

FirstInput ==
  /\ before = "none"
  /\ \E p \in Known \cup Unknown : ReadStdIn(Spelled(p)) /\ written' = p
  /\ UNCHANGED before

(* The expression that is to be ignored may match nothing. *)
SecondExecute ==
  /\ before = "none" /\ stage \in Ends
  /\ Execute(text, IF written.means = <<>> THEN "start" ELSE "s", "\\s*")
  /\ before' = stage
  /\ UNCHANGED written

SecondInput ==
  /\ before # "none" /\ written.means # <<>>
  /\ \E input \in Inputs : ReadStdIn(input)
  /\ UNCHANGED <<written, before>>

Busy == stage \in {"definition", "parsed", "input"}

Runs == FirstExecute \/ FirstInput \/ SecondExecute \/ SecondInput

Tick == Busy /\ tick' = ~ tick

Ended == before # "none" /\ (stage \in Ends \/ stage = "generated") /\ UNCHANGED vars

MCNext ==
  \/ Runs /\ UNCHANGED tick
  \/ Work /\ Tick /\ UNCHANGED <<written, before>>
  \/ Ended

(* The thread goes on as long as main() has something to do. *)
Spec == MCInit /\ [][MCNext]_vars /\ WF_tick(Tick)

(***************************************************************************)
(* Properties.                                                             *)
(***************************************************************************)
(* A definition is accepted and converted to the rules it states, and its  *)
(* tokenizer tries the terminals in the order in which they are written:   *)
(* groups, repetitions, comments and rules with the same name keep every   *)
(* part in its place, and quoting changes nothing (cfg_parser.cc:120-322,  *)
(* strings.h:14-57).                                                       *)
DefinedAsWritten ==
  before # "none" /\ written.means # <<>> =>
    /\ stage \notin {"undefined", "threw"}
    /\ stage = "generated" =>
         /\ rules = written.means
         /\ [i \in DOMAIN token_rules |-> token_rules[i].rule] = written.terminals

Commented == \E i \in DOMAIN written.lexemes : Lexer!Char(written.lexemes[i], 1) = "#"

(* lang/data/grammar_def.cfg.txt is said to have "the full syntax          *)
(* recognized by the context-free grammar parser" (README.md:56).  It is   *)
(* full but for comments, which cfg_parser.cc:34 skips and the file does   *)
(* not have: the parser generated from the file rejects a definition with  *)
(* a comment, and agrees with the one written in C++ on every other text,  *)
(* the file itself included.                                               *)
OnlyCommentsAreUndefined ==
  /\ before = "none" => stage # "threw"
  /\ before # "none" =>
       /\ stage = "parsed" => before = IF Commented THEN "rejected" ELSE "accepted"
       /\ stage = "undefined" => before = "rejected"

(* What a generated parser accepts is derived by the grammar as written,   *)
(* from all the tokens of its input (cfg_parser_main.cc:22-48).            *)
AcceptsDerivations ==
  before # "none" /\ stage = "accepted" => Parser!IsParseTree(start_symbol, answer[1].nodes[1])

(* Reading ends, though a rule may match nothing and a term may be empty   *)
(* (tokenizer.h:31, recursive_descent_parser.h:305).                       *)
ReadingEnds ==
  /\ stage = "definition" ~> stage # "definition"
  /\ stage = "input" ~> stage # "input"
===============================================================================
