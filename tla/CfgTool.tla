-------------------------------- MODULE CfgTool -------------------------------
(***************************************************************************)
(* The grammar tool: the parser of grammar definitions (cfg_parser.cc),    *)
(* the tokenizer and the parser generated from one, and cfg_parser_main,   *)
(* which runs both over the generic tokenizer and parser.  Tokens and      *)
(* variables of a generated parser are both strings; a variable is written *)
(* <name> here, which no token is.                                         *)
(***************************************************************************)
EXTENDS GrammarTerms, Sequences, SequencesExt, TLC

VARIABLES token_rules, ignore_rules,  \* of the lexer that LexAndParse is given
          rules,                      \* of its parser
          text, it, tokens, calls, answer,
          start_symbol, ignore_regex, \* the flags
          stage                       \* where main() is

lexerRules == <<token_rules, ignore_rules, rules>>
flags == <<start_symbol, ignore_regex>>
toolVars == <<lexerRules, text, it, tokens, calls, answer, flags, stage>>

Lexer == INSTANCE Tokenizer
Parser == INSTANCE Grammars

(***************************************************************************)
(* The constructors of CfgTokenizer and CfgParser.                         *)
(***************************************************************************)
LOCAL Rule(tag, rule) == [tag |-> tag, rule |-> rule]

CfgTokenRules ==
  <<Rule("INT", "\\d+"), Rule("ID", "[[:alpha:]_]\\w*"),
    Rule("REGEX_TOK", "\"(\\\\.|[^\"])*\""), Rule("LITERAL_TOK", "'(\\\\.|[^'])*'"),
    Rule("PIPE", "\\|"), Rule("SEMICOLON", ";"),
    Rule("PRODUCES", "::="), Rule("PRODUCES", ":"), Rule("PRODUCES", "="), Rule("PRODUCES", "->"),
    Rule("LPAREN", "\\("), Rule("RPAREN", "\\)"), Rule("LBRACKET", "\\["), Rule("RBRACKET", "\\]"),
    Rule("LBRACE", "\\{"), Rule("RBRACE", "\\}"), Rule("COMMA", ","),
    Rule("STAR", "\\*"), Rule("PLUS", "\\+"), Rule("QMARK", "\\?"), Rule("UNKNOWN", ".")>>

CfgIgnoreRules == <<"#[^\\n]*", "\\s+">>

Named(name) == NonTerminal("<" \o name \o ">")

(* A rule that takes each of the terms once. *)
Each(terms) == [i \in DOMAIN terms |-> One(terms[i])]

Single(tag) == <<Each(<<Terminal(tag)>>)>>

CfgRules ==
  ("<int>"              :> Single("INT"))
    @@ ("<id>"          :> Single("ID"))
    @@ ("<regex_tok>"   :> Single("REGEX_TOK"))
    @@ ("<literal_tok>" :> Single("LITERAL_TOK"))
    @@ ("<cardinality>" :>
          Single("STAR") \o Single("PLUS") \o Single("QMARK")
            \o <<Each(<<Terminal("LBRACE"), Named("int"), Terminal("RBRACE")>>),
                 Each(<<Terminal("LBRACE"), Named("int"), Terminal("COMMA"), Named("int"),
                        Terminal("RBRACE")>>)>>)
    @@ ("<term>"        :>
          <<Each(<<Terminal("LPAREN"), Named("alternatives"), Terminal("RPAREN")>>),
            Each(<<Named("id")>>), Each(<<Named("regex_tok")>>), Each(<<Named("literal_tok")>>)>>)
    @@ ("<expr>"        :>
          <<Each(<<Terminal("LBRACKET"), Named("alternatives"), Terminal("RBRACKET")>>),
            Each(<<Named("term"), Named("cardinality")>>), Each(<<Named("term")>>)>>)
    @@ ("<exprs>"       :> << <<AtLeast(1, Named("expr"))>> >>)
    @@ ("<alternatives>" :>
          << <<One(Named("exprs")),
               AnyNumber(Group(<<Each(<<Terminal("PIPE"), Named("exprs")>>)>>))>> >>)
    @@ ("<rule>"        :>
          <<Each(<<Named("id"), Terminal("PRODUCES"), Named("alternatives"),
                   Terminal("SEMICOLON")>>)>>)
    @@ ("<grammar>"     :> << <<AtLeast(1, Named("rule"))>> >>)

(***************************************************************************)
(* The strings of terminals.                                               *)
(***************************************************************************)
NUL == "<NUL>"

Escapes == ("n" :> "\n") @@ ("t" :> "\t") @@ ("0" :> NUL)

RECURSIVE Unescape(_)

(* A backslash at the end of the string stays. *)
Unescape(str) ==
  CASE Len(str) < 2 -> str
    [] Lexer!Char(str, 1) = "\\" ->
         LET c == Lexer!Char(str, 2)
         IN  (IF c \in DOMAIN Escapes THEN Escapes[c] ELSE c) \o Unescape(SubSeq(str, 3, Len(str)))
    [] OTHER -> Lexer!Char(str, 1) \o Unescape(Tail(str))

RegexChars == {"{", "}", "(", ")", "[", "]", "$", "*", ".", "?", "+", "|", "^", "\\"}

Mut_EscapeForRegexNotPlus(str) ==
  FoldLeft(LAMBDA s, i : LET c == Lexer!Char(str, i)
                         IN  s \o (IF c \in RegexChars \ {"+"} THEN "\\" \o c ELSE c),
           "", [i \in 1 .. Len(str) |-> i])

EscapeForRegex(str) ==
  FoldLeft(LAMBDA s, i : LET c == Lexer!Char(str, i)
                         IN  s \o (IF c \in RegexChars THEN "\\" \o c ELSE c),
           "", [i \in 1 .. Len(str) |-> i])

Value(node) == node.children[1].token.value

(* The string of a token without its quotes. *)
ToRegexStr(node) == Unescape(SubSeq(Value(node), 2, Len(Value(node)) - 1))

ToLiteralStr(node) == EscapeForRegex(ToRegexStr(node))

ToInt(node) ==
  FoldLeft(LAMBDA n, i : 10 * n + CHOOSE d \in 0 .. 9 : ToString(d) = Lexer!Char(Value(node), i),
           0, [i \in 1 .. Len(Value(node)) |-> i])

(***************************************************************************)
(* The conversion of the parse tree of a definition.                       *)
(***************************************************************************)
Symbols(node) == [i \in DOMAIN node.children |-> node.children[i].tag]

Children(node, tag) == SelectSeq(node.children, LAMBDA c : c.tag = tag)

ToCardinality(node) ==
  LET c == node.children
      times(n, m) == [min |-> n, max |-> m]
  IN  CASE Symbols(node) = <<"STAR">>  -> times(0, Unbounded)
        [] Symbols(node) = <<"PLUS">>  -> times(1, Unbounded)
        [] Symbols(node) = <<"QMARK">> -> times(0, 1)
        [] Symbols(node) = <<"LBRACE", "<int>", "RBRACE">> -> times(ToInt(c[2]), ToInt(c[2]))
        [] Symbols(node) = <<"LBRACE", "<int>", "COMMA", "<int>", "RBRACE">> ->
             times(ToInt(c[2]), ToInt(c[4]))

RECURSIVE ToAlternatives(_)

ToTerm(node) ==
  LET c == node.children
  IN  CASE Symbols(node) = <<"<id>">>          -> Named(Value(c[1]))
        [] Symbols(node) = <<"<regex_tok>">>   -> Terminal(ToRegexStr(c[1]))
        [] Symbols(node) = <<"<literal_tok>">> -> Terminal(ToLiteralStr(c[1]))
        [] Symbols(node) = <<"LPAREN", "<alternatives>", "RPAREN">> -> Group(ToAlternatives(c[2]))

ToExpression(node) ==
  LET c == node.children
  IN  CASE Symbols(node) = <<"LBRACKET", "<alternatives>", "RBRACKET">> ->
             AtMost(1, Group(ToAlternatives(c[2])))
        [] Symbols(node) = <<"<term>", "<cardinality>">> ->
             LET times == ToCardinality(c[2]) IN Times(times.min, times.max, ToTerm(c[1]))
        [] Symbols(node) = <<"<term>">> -> One(ToTerm(c[1]))

ToExpressions(node) ==
  LET exprs == Children(node, "<expr>") IN [i \in DOMAIN exprs |-> ToExpression(exprs[i])]

ToAlternatives(node) ==
  LET alts == Children(node, "<exprs>") IN [i \in DOMAIN alts |-> ToExpressions(alts[i])]

ToRules(root) ==
  [i \in DOMAIN root.children |->
     [name |-> "<" \o Value(root.children[i].children[1]) \o ">",
      alts |-> ToAlternatives(root.children[i].children[3])]]

(* The terminals of a rule, as often as they occur. *)
RECURSIVE ToTokens(_)

ToTokens(alts) ==
  LET ofTerm(term) ==
        CASE term.kind = "group"       -> ToTokens(term.alts)
          [] term.kind = "terminal"    -> <<term.tag>>
          [] term.kind = "nonterminal" -> <<>>
      exprs == FlattenSeq(alts)
  IN  FlattenSeq([i \in DOMAIN exprs |-> ofTerm(exprs[i].term)])

TokenTags(defined) == FlattenSeq([i \in DOMAIN defined |-> ToTokens(defined[i].alts)])

Mut_GeneratedRulesLastOnly(defined) ==
  LET last(v) == CHOOSE i \in DOMAIN defined :
                   defined[i].name = v /\ \A j \in DOMAIN defined : defined[j].name = v => j <= i
  IN  [v \in {defined[i].name : i \in DOMAIN defined} |-> defined[last(v)].alts]

(* What is defined twice has the alternatives of both. *)
GeneratedRules(defined) ==
  [v \in {defined[i].name : i \in DOMAIN defined} |->
     LET mine == SelectSeq(defined, LAMBDA d : d.name = v)
     IN  FlattenSeq([i \in DOMAIN mine |-> mine[i].alts])]

(***************************************************************************)
(* main() of cfg_parser_main.cc.                                           *)
(***************************************************************************)
Ends == {"accepted", "rejected", "undefined", "threw"}

Init ==
  /\ token_rules = <<>> /\ ignore_rules = <<>> /\ rules = <<>>
  /\ text = "" /\ it = 0 /\ tokens = <<>> /\ calls = <<>> /\ answer = <<>>
  /\ start_symbol = "start" /\ ignore_regex = ""
  /\ stage = "idle"

(* LexAndParse is called with a text. *)
Reads(t) == text' = t /\ it' = 0 /\ tokens' = <<>> /\ calls' = <<>> /\ answer' = <<>>

Execute(definition, start, ignore) ==
  /\ stage \in {"idle"} \cup Ends
  /\ token_rules' = CfgTokenRules /\ ignore_rules' = CfgIgnoreRules /\ rules' = CfgRules
  /\ start_symbol' = "<" \o start \o ">" /\ ignore_regex' = ignore
  /\ Reads(definition)
  /\ stage' = "definition"

Working == stage \in {"definition", "input"} /\ answer = <<>>

Root == IF stage = "definition" THEN "<grammar>" ELSE start_symbol

Lex ==
  /\ Working /\ calls = <<>>
  /\ Lexer!FindOneMatch
  /\ UNCHANGED <<lexerRules, text, calls, answer, flags, stage>>

CallParse ==
  /\ Working /\ calls = <<>> /\ ~ Lexer!Tokenizing
  /\ Root \in DOMAIN rules
  /\ calls' = Parser!ParseCall(Root)
  /\ UNCHANGED <<lexerRules, text, it, tokens, answer, flags, stage>>

(* The start symbol has no rule. *)
ParseNothing ==
  /\ Working /\ calls = <<>> /\ ~ Lexer!Tokenizing
  /\ Root \notin DOMAIN rules
  /\ answer' = <<Parser!Result(0, <<Parser!Node(Root, <<>>)>>, FALSE)>>
  /\ UNCHANGED <<lexerRules, text, it, tokens, calls, flags, stage>>

Parse ==
  /\ Working
  /\ Parser!ParseNext
  /\ UNCHANGED <<lexerRules, text, it, tokens, flags, stage>>

LexAndParse ==
  /\ stage \in {"definition", "input"} /\ answer # <<>>
  /\ stage' = CASE stage = "definition" -> IF answer[1].success THEN "parsed" ELSE "undefined"
                [] stage = "input"      -> IF answer[1].success THEN "accepted" ELSE "rejected"
  /\ UNCHANGED <<lexerRules, text, it, tokens, calls, answer, flags>>

Defined == ToRules(answer[1].nodes[1])

(* The generated tokenizer and parser.  The regular expressions are made   *)
(* when the rules are added.                                               *)
Generate ==
  /\ stage = "parsed"
  /\ LET tags == TokenTags(Defined)
         regexes == tags \o (IF ignore_regex = "" THEN <<>> ELSE <<ignore_regex>>)
     IN  IF \A i \in DOMAIN regexes : Lexer!IsRegex(regexes[i])
         THEN /\ token_rules' = [i \in DOMAIN tags |-> Rule(tags[i], tags[i])]
              /\ ignore_rules' = SubSeq(regexes, Len(tags) + 1, Len(regexes))
              /\ rules' = GeneratedRules(Defined)
              /\ stage' = "generated"
         ELSE /\ stage' = "threw"
              /\ UNCHANGED lexerRules
  /\ UNCHANGED <<text, it, tokens, calls, answer, flags>>

ReadStdIn(input) ==
  /\ stage = "generated"
  /\ Reads(input)
  /\ stage' = "input"
  /\ UNCHANGED <<lexerRules, flags>>

Work == Lex \/ CallParse \/ ParseNothing \/ Parse \/ LexAndParse \/ Generate
===============================================================================
