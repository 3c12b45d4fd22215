----------------------------- MODULE SteinParser ------------------------------
(***************************************************************************)
(* The front end: the rules of the language over the tokenizer, its        *)
(* grammar over the generic parser, the conversion of a parse tree to the  *)
(* messages of the abstract syntax (steinlang_parser.cc), and the part of  *)
(* interpreter_main.cc that calls them.                                    *)
(***************************************************************************)
EXTENDS GrammarTerms, Sequences, TLC

CONSTANTS ReadAs    \* what std::stoll, std::stof and Unescape make of the text of
                    \* an INT, a FLOAT or a STRING token

VARIABLES text,       \* the program
          it,         \* how far the tokenizer is
          tokens,     \* what it has made of the text
          calls,      \* the activations of the parser
          answer,     \* parse_result, in a sequence, or <<>>
          stage,      \* where Evaluate() is
          pgm         \* the Program, or <<>>

parserVars == <<text, it, tokens, calls, answer, stage, pgm>>

(***************************************************************************)
(* The constructor of Tokenizer.                                           *)
(***************************************************************************)
LOCAL Rule(tag, rule) == [tag |-> tag, rule |-> rule]

TokenRules ==
  <<Rule("COMMA", ","), Rule("LPAREN", "\\("), Rule("RPAREN", "\\)"),
    Rule("LBRACKET", "\\["), Rule("RBRACKET", "\\]"), Rule("LBRACE", "\\{"), Rule("RBRACE", "\\}"),
    Rule("LAMBDA", "lambda"), Rule("COLON", ":"), Rule("EXCLAMATION_PT", "!"),
    Rule("MINUS", "-"), Rule("PLUS", "\\+"), Rule("STAR", "\\*"), Rule("FWD_SLASH", "/"),
    Rule("GE", ">="), Rule("GT", ">"), Rule("LE", "<="), Rule("LT", "<"),
    Rule("DBL_EQ", "=="), Rule("NE", "!="), Rule("DBL_AND", "&&"), Rule("DBL_PIPE", "\\|\\|"),
    Rule("IF", "if"), Rule("ELSE", "else"), Rule("FOR", "for"), Rule("WHILE", "while"),
    Rule("DEF", "def"), Rule("RETURN", "return"), Rule("PRINT", "print"),
    Rule("EQ", "="), Rule("SEMICOLON", ";"), Rule("NONE", "None"), Rule("BOOL", "(True|False)"),
    Rule("FLOAT", "\\d+\\.\\d*"), Rule("INT", "\\d+"), Rule("STRING", "\"(\\\\.|[^\"])*\""),
    Rule("ID", "[[:alpha:]_]\\w*"), Rule("UNKNOWN", ".")>>

IgnoreRules == <<"#[^\\n]*", "\\s+">>

Lexer == INSTANCE Tokenizer WITH token_rules <- TokenRules, ignore_rules <- IgnoreRules

(***************************************************************************)
(* The constructor of Parser.                                              *)
(***************************************************************************)
LOCAL T(tag) == Terminal(tag)
LOCAL N(tag) == NonTerminal(tag)

Group1(exprs) == Group(<<exprs>>)

(* The rule that takes each of the terms once. *)
Each(terms) == [i \in DOMAIN terms |-> One(terms[i])]

OneOf(tags) == [i \in DOMAIN tags |-> Each(<<T(tags[i])>>)]

CommaSeparated(item) ==
  Each(<<item>>) \o <<AnyNumber(Group1(Each(<<T("COMMA"), item>>)))>>

ExprAlternatives ==
  <<Each(<<T("LAMBDA"), N("VARLIST"), T("COLON"), N("EXPR")>>),
    Each(<<T("LAMBDA"), N("VARLIST"), N("BLOCK")>>),
    Each(<<N("ARITH_EXPR"), T("IF"), N("ARITH_EXPR"), T("ELSE"), N("ARITH_EXPR")>>),
    Each(<<N("ARITH_EXPR")>>)>>

StmtAlternatives ==
  <<Each(<<T("RETURN"), N("EXPR"), T("SEMICOLON")>>),
    Each(<<T("PRINT"), N("EXPR"), T("SEMICOLON")>>),
    Each(<<T("WHILE"), N("EXPR"), N("BLOCK")>>),
    Each(<<T("IF"), N("EXPR"), N("BLOCK")>>)
      \o <<AtMost(1, Group1(Each(<<T("ELSE"), N("BLOCK")>>)))>>,
    Each(<<T("FOR"), N("STMT"), N("EXPR"), T("SEMICOLON"), N("STMT"), N("BLOCK")>>),
    Each(<<T("DEF"), T("ID"), T("LPAREN")>>) \o <<AtMost(1, N("VARLIST"))>>
      \o Each(<<T("RPAREN"), N("BLOCK")>>),
    Each(<<N("EXPR"), T("SEMICOLON")>>),
    Each(<<N("EXPR"), T("EQ"), N("EXPR"), T("SEMICOLON")>>)>>

Mut_ArithManyMonops ==
  <<<<AtLeast(1, N("MONOP")), One(N("ATOM_EXPR"))>>,
    Each(<<N("ATOM_EXPR"), N("BINOP"), N("ATOM_EXPR")>>),
    Each(<<N("ATOM_EXPR")>>)>>

Mut_ArithShortestFirst ==
  <<Each(<<N("MONOP"), N("ATOM_EXPR")>>),
    Each(<<N("ATOM_EXPR")>>),
    Each(<<N("ATOM_EXPR"), N("BINOP"), N("ATOM_EXPR")>>)>>

ArithAlternatives ==
  <<Each(<<N("MONOP"), N("ATOM_EXPR")>>),
    Each(<<N("ATOM_EXPR"), N("BINOP"), N("ATOM_EXPR")>>),
    Each(<<N("ATOM_EXPR")>>)>>

SteinRules ==
  [VARLIST      |-> <<CommaSeparated(T("ID"))>>,
   EXPLIST      |-> << <<AtMost(1, Group1(CommaSeparated(N("EXPR"))))>> >>,
   TRAILER      |-> <<Each(<<T("LPAREN"), N("EXPLIST"), T("RPAREN")>>)>>,
   TRAILER_LIST |-> << <<AnyNumber(N("TRAILER"))>> >>,
   LAMBDA_EXPR  |-> <<Each(<<T("LAMBDA"), N("VARLIST"), T("COLON"), N("EXPR")>>)>>,
   ATOM         |-> <<Each(<<T("LPAREN"), N("EXPR"), T("RPAREN")>>)>>
                      \o OneOf(<<"NONE", "BOOL", "INT", "FLOAT", "STRING", "ID">>),
   ATOM_EXPR    |-> <<Each(<<N("ATOM"), N("TRAILER_LIST")>>)>>,
   MONOP        |-> OneOf(<<"EXCLAMATION_PT", "MINUS">>),
   BINOP        |-> OneOf(<<"PLUS", "MINUS", "STAR", "FWD_SLASH", "GE", "GT", "LE", "LT",
                            "DBL_EQ", "NE", "DBL_AND", "DBL_PIPE">>),
   ARITH_EXPR   |-> ArithAlternatives,
   EXPR         |-> ExprAlternatives,
   BLOCK        |-> <<Each(<<T("LBRACE")>>) \o <<AnyNumber(N("STMT"))>> \o Each(<<T("RBRACE")>>)>>,
   STMT         |-> StmtAlternatives,
   PGM          |-> << <<AtLeast(1, N("STMT"))>> >>]

Grammar == INSTANCE Grammars WITH rules <- SteinRules

(***************************************************************************)
(* ToSyntax.  Match compares the children of a node with a list of         *)
(* symbols; the cases below are the lists, which exclude each other.       *)
(***************************************************************************)
Symbols(node) == [i \in DOMAIN node.children |-> node.children[i].tag]

Children(node, tag) == SelectSeq(node.children, LAMBDA c : c.tag = tag)

Unset == [type |-> "TYPE_NOT_SET"]

MonOpOf == [EXCLAMATION_PT |-> "NOT", MINUS |-> "NEG"]

BinOpOf == [PLUS |-> "ADD", MINUS |-> "SUB", STAR |-> "MUL", FWD_SLASH |-> "DIV",
            GE |-> "GE", GT |-> "GT", LE |-> "LE", LT |-> "LT", DBL_EQ |-> "EQ",
            NE |-> "NE", DBL_AND |-> "AND", DBL_PIPE |-> "OR"]

ToLiteral(token) ==
  [type |-> "lit_exp",
   lit  |-> CASE token.tag = "NONE"   -> [type |-> "none_val"]
              [] token.tag = "BOOL"   -> [type |-> "bool_val", bool_val |-> token.value = "True"]
              [] token.tag = "INT"    -> [type |-> "int_val", int_val |-> ReadAs[token.value]]
              [] token.tag = "FLOAT"  -> [type |-> "float_val", float_val |-> ReadAs[token.value]]
              [] token.tag = "STRING" -> [type |-> "str_val", str_val |-> ReadAs[token.value]]]

ToVariables(varlist) ==
  LET ids == Children(varlist, "ID") IN [i \in DOMAIN ids |-> ids[i].token.value]

RECURSIVE ToSyntax(_)

ToStatements(block) ==
  LET stmts == Children(block, "STMT") IN [i \in DOMAIN stmts |-> ToSyntax(stmts[i])]

ToExpressions(explist) ==
  LET exprs == Children(explist, "EXPR") IN [i \in DOMAIN exprs |-> ToSyntax(exprs[i])]

LambdaOf(params, body) == [type |-> "lambda_exp", param |-> params, body |-> body]

Mut_ApplyTrailersBackwards(atom, trailers) ==
  LET applied[n \in Nat] ==
        IF n = 0 THEN ToSyntax(atom)
        ELSE [type |-> "func_app_exp", func |-> applied[n - 1],
              arg |-> ToExpressions(trailers[Len(trailers) + 1 - n].children[2])]
  IN  applied[Len(trailers)]

(* f(a)(b): each trailer applies what the ones before it make. *)
ApplyTrailers(atom, trailers) ==
  LET applied[n \in Nat] ==
        IF n = 0 THEN ToSyntax(atom)
        ELSE [type |-> "func_app_exp", func |-> applied[n - 1],
              arg |-> ToExpressions(trailers[n].children[2])]
  IN  applied[Len(trailers)]

ToExpression(node) ==
  LET c == node.children
      symbols == Symbols(node)
  IN  CASE symbols = <<"LAMBDA", "VARLIST", "COLON", "EXPR">> ->
             LambdaOf(ToVariables(c[2]), <<[type |-> "ret_stmt", ret_stmt |-> ToSyntax(c[4])]>>)
        [] symbols = <<"LAMBDA", "VARLIST", "BLOCK">> ->
             LambdaOf(ToVariables(c[2]), ToStatements(c[3]))
        [] symbols = <<"ARITH_EXPR", "IF", "ARITH_EXPR", "ELSE", "ARITH_EXPR">> ->
             [type |-> "tern_exp", if_exp |-> ToSyntax(c[1]), cond_exp |-> ToSyntax(c[3]),
              else_exp |-> ToSyntax(c[5])]
        [] symbols = <<"MONOP", "ATOM_EXPR">> ->
             [type |-> "mon_arith_exp", op |-> MonOpOf[c[1].children[1].tag], exp |-> ToSyntax(c[2])]
        [] symbols = <<"ATOM_EXPR", "BINOP", "ATOM_EXPR">> ->
             [type |-> "bin_arith_exp", lhs |-> ToSyntax(c[1]),
              op |-> BinOpOf[c[2].children[1].tag], rhs |-> ToSyntax(c[3])]
        [] symbols = <<"ATOM", "TRAILER_LIST">> ->
             ApplyTrailers(c[1], SelectSeq(c[2].children, LAMBDA t :
                                   Symbols(t) = <<"LPAREN", "EXPLIST", "RPAREN">>))
        [] symbols = <<"LPAREN", "EXPR", "RPAREN">> -> ToSyntax(c[2])
        [] symbols \in {<<t>> : t \in {"NONE", "BOOL", "INT", "FLOAT", "STRING"}} ->
             ToLiteral(c[1].token)
        [] symbols = <<"ID">> -> [type |-> "var_exp", name |-> c[1].token.value]
        [] symbols \in {<<"ATOM_EXPR">>, <<"ARITH_EXPR">>} -> ToSyntax(c[1])
        [] OTHER -> Unset

DefOf(name, params, block) ==
  [type |-> "assign_stmt", lhs |-> [type |-> "var_exp", name |-> name.token.value],
   rhs |-> LambdaOf(params, ToStatements(block))]

(* The last attempt has touched assign_stmt when no list matches. *)
ToStatement(node) ==
  LET c == node.children
      symbols == Symbols(node)
  IN  CASE symbols = <<"RETURN", "EXPR", "SEMICOLON">> ->
             [type |-> "ret_stmt", ret_stmt |-> ToSyntax(c[2])]
        [] symbols = <<"PRINT", "EXPR", "SEMICOLON">> ->
             [type |-> "print_stmt", print_stmt |-> ToSyntax(c[2])]
        [] symbols = <<"WHILE", "EXPR", "BLOCK">> ->
             [type |-> "while_stmt", cond |-> ToSyntax(c[2]), body |-> ToStatements(c[3])]
        [] symbols = <<"IF", "EXPR", "BLOCK", "ELSE", "BLOCK">> ->
             [type |-> "if_else_stmt", cond |-> ToSyntax(c[2]),
              if_stmts |-> ToStatements(c[3]), else_stmts |-> ToStatements(c[5])]
        [] symbols = <<"FOR", "STMT", "EXPR", "SEMICOLON", "STMT", "BLOCK">> ->
             [type |-> "for_stmt", init |-> ToSyntax(c[2]), cond |-> ToSyntax(c[3]),
              inc |-> ToSyntax(c[5]), body |-> ToStatements(c[6])]
        [] symbols = <<"DEF", "ID", "LPAREN", "VARLIST", "RPAREN", "BLOCK">> ->
             DefOf(c[2], ToVariables(c[4]), c[6])
        [] symbols = <<"DEF", "ID", "LPAREN", "RPAREN", "BLOCK">> -> DefOf(c[2], <<>>, c[5])
        [] symbols = <<"EXPR", "SEMICOLON">> -> [type |-> "exp_stmt", exp_stmt |-> ToSyntax(c[1])]
        [] symbols = <<"EXPR", "EQ", "EXPR", "SEMICOLON">> ->
             [type |-> "assign_stmt", lhs |-> ToSyntax(c[1]), rhs |-> ToSyntax(c[3])]
        [] OTHER -> [type |-> "assign_stmt", lhs |-> Unset, rhs |-> Unset]

ToSyntax(node) == IF node.tag = "STMT" THEN ToStatement(node) ELSE ToExpression(node)

ToProgram(root) == [i \in DOMAIN root.children |-> ToSyntax(root.children[i])]

(***************************************************************************)
(* Evaluate() of interpreter_main.cc, up to InitCtx.                       *)
(***************************************************************************)
FrontInit ==
  /\ it = 0 /\ tokens = <<>>
  /\ calls = <<>> /\ answer = <<>>
  /\ stage = "lexing"
  /\ pgm = <<>>

Lex ==
  /\ stage = "lexing"
  /\ Lexer!FindOneMatch
  /\ UNCHANGED <<text, calls, answer, stage, pgm>>

CallParse ==
  /\ stage = "lexing"
  /\ ~ Lexer!Tokenizing
  /\ calls' = Grammar!ParseCall("PGM")
  /\ stage' = "parsing"
  /\ UNCHANGED <<text, it, tokens, answer, pgm>>

Parse ==
  /\ stage = "parsing"
  /\ Grammar!ParseNext
  /\ UNCHANGED <<text, it, tokens, stage, pgm>>

LexAndParse ==
  /\ stage = "parsing"
  /\ answer # <<>>
  /\ stage' = IF answer[1].success THEN "parsed" ELSE "failed"
  /\ UNCHANGED <<text, it, tokens, calls, answer, pgm>>

(* The tokens it complains of. *)
Unparsed == SubSeq(tokens, answer[1].pos + 1, Len(tokens))

Convert ==
  /\ stage = "parsed"
  /\ pgm' = ToProgram(answer[1].nodes[1])
  /\ stage' = "converted"
  /\ UNCHANGED <<text, it, tokens, calls, answer>>

FrontNext == Lex \/ CallParse \/ Parse \/ LexAndParse \/ Convert
===============================================================================
