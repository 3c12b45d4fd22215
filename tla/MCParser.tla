------------------------------- MODULE MCParser -------------------------------
(***************************************************************************)
(* Instances of SteinParser.  A phrase is a text with its meaning; the     *)
(* constructors below follow the grammar of steinlang_def.cfg.txt and not  *)
(* the tables of the parser.                                               *)
(***************************************************************************)
EXTENDS SteinParser, Pgms, SequencesExt

CONSTANTS MaxEdited   \* the longest of the one-statement programs that are edited

VARIABLES written     \* the meaning of what was written, or <<>> when unknown

AString == "\"s\\\"# \\\\\""    \* "s\"# \\", of which Unescape makes s"# \

ReadTexts == ("1" :> 1) @@ ("1.5" :> "3/2") @@ (AString :> 4)

(***************************************************************************)
(* Texts and phrases.  A phrase is written as lexemes; the text has a blank *)
(* only between two that would run together, and a comment after the first *)
(* semicolon.                                                              *)
(***************************************************************************)
Wordlike(c) == c \in Lexer!CharsOf("abcdefghijklmnopqrstuvwxyzNTF_0123456789")

Joined(s, t) ==
  IF s # "" /\ Wordlike(Lexer!Char(s, Len(s))) /\ Wordlike(Lexer!Char(t, 1)) THEN s \o " " \o t
                                                                              ELSE s \o t

Spelled(lexemes) ==
  LET first == SelectInSeq(lexemes, LAMBDA l : l = ";")
      Spelling(i) == IF i = first THEN ";#;\n" ELSE lexemes[i]
  IN  FoldLeft(LAMBDA s, i : Joined(s, Spelling(i)), "", [i \in DOMAIN lexemes |-> i])

Phrase(lexemes, means) == [lexemes |-> lexemes, means |-> means]

Meanings(ps) == [i \in DOMAIN ps |-> ps[i].means]
Texts(ps) == FoldLeft(LAMBDA t, p : t \o p.lexemes, <<>>, ps)
WithCommas(ps) ==
  FoldLeft(LAMBDA t, p : IF t = <<>> THEN p.lexemes ELSE t \o <<",">> \o p.lexemes, <<>>, ps)

Id(x) == Phrase(<<x>>, Var(x))
Atoms == {Id("x"), Id("f_if"), Phrase(<<"1">>, IntLit(1)),
          Phrase(<<"True">>, BoolLit(TRUE)),
          Phrase(<<"False">>, BoolLit(FALSE)),
          Phrase(<<"None">>, [type |-> "lit_exp", lit |-> [type |-> "none_val"]]),
          Phrase(<<AString>>, StrLit(4)),
          Phrase(<<"1.5">>,
                 [type |-> "lit_exp", lit |-> [type |-> "float_val", float_val |-> "3/2"]])}

Paren(p) == Phrase(<<"(">> \o p.lexemes \o <<")">>, p.means)
CallOf(p, args) ==
  Phrase(p.lexemes \o <<"(">> \o WithCommas(args) \o <<")">>, App(p.means, Meanings(args)))
Unary(sign, op, p) == Phrase(<<sign>> \o p.lexemes, Mon(op, p.means))
Binary(p, sign, op, q) == Phrase(p.lexemes \o <<sign>> \o q.lexemes, Bin(p.means, op, q.means))
Ternary(p, c, q) ==
  Phrase(p.lexemes \o <<"if">> \o c.lexemes \o <<"else">> \o q.lexemes, Tern(p.means, c.means, q.means))
Names(ids) == [i \in DOMAIN ids |-> ids[i].means.name]
Block(stmts) == <<"{">> \o Texts(stmts) \o <<"}">>
LambdaTo(ids, p) ==
  Phrase(<<"lambda">> \o WithCommas(ids) \o <<":">> \o p.lexemes,
         Lambda(Names(ids), <<RetS(p.means)>>))
LambdaBlock(ids, stmts) ==
  Phrase(<<"lambda">> \o WithCommas(ids) \o Block(stmts), Lambda(Names(ids), Meanings(stmts)))

Signs == {<<"+", "ADD">>, <<"-", "SUB">>, <<"*", "MUL">>, <<"/", "DIV">>,
          <<">", "GT">>, <<">=", "GE">>, <<"<", "LT">>, <<"<=", "LE">>,
          <<"==", "EQ">>, <<"&&", "AND">>, <<"||", "OR">>}

Ends_(p, sign) == p.lexemes \o <<sign>>
Return(p) == Phrase(<<"return">> \o Ends_(p, ";"), RetS(p.means))
PrintOf(p) == Phrase(<<"print">> \o Ends_(p, ";"), PrintS(p.means))
Bare(p) == Phrase(Ends_(p, ";"), ExpS(p.means))
Set(p, q) == Phrase(Ends_(p, "=") \o Ends_(q, ";"), Assign(p.means, q.means))
WhileOf(p, b) == Phrase(<<"while">> \o p.lexemes \o Block(b), While(p.means, Meanings(b)))
IfOf(p, b, c) ==
  Phrase(<<"if">> \o p.lexemes \o Block(b) \o <<"else">> \o Block(c),
         If(p.means, Meanings(b), Meanings(c)))
IfOnly(p, b) == Phrase(<<"if">> \o p.lexemes \o Block(b), If(p.means, Meanings(b), <<>>))
ForOf(i, p, s, b) ==
  Phrase(<<"for">> \o i.lexemes \o Ends_(p, ";") \o s.lexemes \o Block(b),
         For(i.means, p.means, s.means, Meanings(b)))
DefOfFn(f, ids, b) ==
  Phrase(<<"def">> \o f.lexemes \o <<"(">> \o WithCommas(ids) \o <<")">> \o Block(b),
         Assign(f.means, Lambda(Names(ids), Meanings(b))))

(***************************************************************************)
(* Every construct, and every construct in every place of another.         *)
(***************************************************************************)
X == Id("x")
F == Id("f_if")

Ariths ==
  Atoms
    \cup {CallOf(F, a) : a \in {<<>>, <<X>>, <<X, F>>, <<F, X, X>>}}
    \cup {CallOf(CallOf(F, <<X>>), <<>>), CallOf(CallOf(CallOf(F, <<F>>), <<>>), <<X>>)}
    \cup {Unary("-", "NEG", X), Unary("!", "NOT", X), Paren(X)}
    \cup {Binary(X, s[1], s[2], F) : s \in Signs}

Exprs1 ==
  Ariths
    \cup {Ternary(X, F, X), LambdaTo(<<X>>, X), LambdaTo(<<X, F>>, F),
          LambdaBlock(<<X>>, <<>>), LambdaBlock(<<F, X>>, <<Return(X)>>)}

Operands == {p \in Ariths : p.means.type \in {"var_exp", "lit_exp", "func_app_exp"}}
              \cup {Paren(p) : p \in Exprs1}

Exprs2 ==
  Exprs1
    \cup {Unary("-", "NEG", p) : p \in Operands}
    \cup {Binary(p, "-", "SUB", X) : p \in Operands}
    \cup {Binary(X, "<", "LT", p) : p \in Operands}
    \cup {CallOf(p, <<X>>) : p \in Operands}
    \cup UNION {{CallOf(F, <<p>>), CallOf(F, <<X, p>>), LambdaTo(<<X>>, p)} : p \in Exprs1}
    \cup UNION {{Ternary(p, X, F), Ternary(X, p, F), Ternary(X, F, p)} : p \in Ariths}

Stmts1 ==
  {Return(X), PrintOf(X), Bare(CallOf(F, <<>>)), Set(X, F), WhileOf(X, <<>>),
   WhileOf(X, <<Bare(X), Set(X, F)>>), IfOf(X, <<>>, <<>>), IfOf(X, <<Return(X)>>, <<Bare(F), Bare(X)>>),
   ForOf(Set(X, F), X, Set(X, F), <<>>), ForOf(Bare(F), X, Bare(X), <<Bare(F), PrintOf(X)>>),
   DefOfFn(F, <<>>, <<>>), DefOfFn(F, <<X>>, <<Return(X)>>), DefOfFn(F, <<X, F>>, <<Bare(X), Bare(F)>>)}

Stmts2 ==
  {Return(p) : p \in Exprs2}
    \cup UNION {{PrintOf(p), Bare(p), Set(p, X), Set(X, p)} : p \in Exprs1}
    \cup UNION {{WhileOf(p, <<Bare(X)>>), IfOf(p, <<>>, <<Bare(X)>>), ForOf(Bare(X), p, Bare(F), <<>>)}
                  : p \in Exprs1}
    \cup UNION {{WhileOf(X, <<s>>), WhileOf(X, <<Bare(F), s>>), IfOf(X, <<s>>, <<>>),
                 IfOf(X, <<>>, <<s, Bare(F)>>), ForOf(s, X, Bare(F), <<>>), ForOf(Bare(F), X, s, <<s>>),
                 DefOfFn(F, <<X>>, <<s>>), Bare(LambdaBlock(<<X>>, <<s>>))} : s \in Stmts1}

Written == {<<s>> : s \in Stmts1 \cup Stmts2} \cup {<<s, t>> : s \in Stmts1, t \in {Set(X, F), IfOf(X, <<>>, <<>>)}}

(* Of the operators, != is left to a run of its own. *)
NotEquals == {<<Return(Binary(X, "!=", "NE", F))>>}

(* An if without else is legal by the grammar. *)
Elseless == {<<IfOnly(X, <<s>>)>> : s \in Stmts1}

(***************************************************************************)
(* Near misses: one token dropped, added or replaced.                      *)
(***************************************************************************)
EditLexemes ==
  {",", ")", "}", "lambda", "-", "if", ";", "x", "@"}

Edits(lexemes) ==
  {RemoveAt(lexemes, i) : i \in DOMAIN lexemes}
    \cup {ReplaceAt(lexemes, i, t) : i \in DOMAIN lexemes, t \in EditLexemes}
    \cup {InsertAt(lexemes, i, t) : i \in 1 .. Len(lexemes) + 1, t \in EditLexemes}

Edited ==
  {s \in Stmts1 : Len(s.lexemes) <= MaxEdited}
    \cup {IfOnly(X, <<Return(X)>>), Bare(LambdaTo(<<X>>, X)), Return(Ternary(X, F, X)),
          Return(Unary("-", "NEG", X)),
          PrintOf(LambdaBlock(<<X>>, <<Return(X)>>)), Set(X, Binary(X, "+", "ADD", F)),
          Bare(CallOf(F, <<X, F>>)), Return(Paren(X)), Set(X, CallOf(CallOf(F, <<X>>), <<>>))}

(***************************************************************************)
(* The runs.                                                               *)
(***************************************************************************)
Reads(phrases) ==
  /\ \E p \in phrases : text = Spelled(Texts(p)) /\ written = Meanings(p)
  /\ FrontInit

ReadsEdited ==
  /\ text \in {Spelled(lexemes) : lexemes \in UNION {Edits(p.lexemes) : p \in Edited}}
  /\ written = <<>>
  /\ FrontInit

NextInput == FrontNext /\ UNCHANGED written

ParserSpec == (Reads(Written) \/ ReadsEdited) /\ [][NextInput]_<<parserVars, written>>

ElselessSpec == Reads(Elseless) /\ [][NextInput]_<<parserVars, written>>

NotEqualSpec == Reads(NotEquals) /\ [][NextInput]_<<parserVars, written>>

Accepted == stage \in {"parsed", "converted"}

(* The tokens are pieces of the program in their order, and nothing but     *)
(* blanks and comments is between them: no rule, and no place where none    *)
(* matches, loses a part of the program (tokenizer.h:37-57,                 *)
(* steinlang_parser.cc:10-51).                                              *)
NothingIsLost ==
  stage = "lexing" => Lexer!ArePieces /\ \A i \in 1 .. it : ~ Lexer!IsLost(i)

(* A program in the syntax of the grammar file, without != and without      *)
(* names that begin with a keyword, is accepted and means what it says: the *)
(* order of the rules takes the text apart as it was put together,          *)
(* alternatives with a common beginning are told apart without a token of   *)
(* look-ahead, and the conversion puts every part where it belongs          *)
(* (steinlang_parser.cc:10-174, 219-571).                                   *)
WrittenIsRead ==
  written # <<>> => stage # "failed" /\ (stage = "converted" => pgm = written)

(* The parser never leaves an alternative that succeeded and a repetition   *)
(* never gives anything back.  For this grammar that rejects no program,    *)
(* and what is accepted is a derivation of all the tokens                   *)
(* (recursive_descent_parser.h:249-313).                                    *)
AcceptsTheLanguage ==
  /\ Accepted => Unparsed = <<>> /\ Grammar!IsParseTree("PGM", answer[1].nodes[1])
  /\ stage = "failed" => ~ Grammar!Derives("PGM")

(* Every alternative of the grammar has a case in ToSyntax, but for the if  *)
(* without else: no other node of an accepted program comes out unset       *)
(* (steinlang_parser.cc:348, 560).                                          *)
RECURSIVE SubNodes(_)
SubNodes(node) == {node} \cup UNION {SubNodes(node.children[i]) : i \in DOMAIN node.children}

IsConverted(node) ==
  CASE node.tag = "STMT" ->
         \/ Symbols(node) = <<"IF", "EXPR", "BLOCK">>
         \/ ToStatement(node) # [type |-> "assign_stmt", lhs |-> Unset, rhs |-> Unset]
    [] node.tag \in {"EXPR", "ARITH_EXPR", "ATOM_EXPR", "ATOM"} -> ToExpression(node) # Unset
    [] OTHER -> TRUE

EveryNodeIsConverted ==
  stage = "converted" => \A node \in SubNodes(answer[1].nodes[1]) : IsConverted(node)

(* "'if' expr block ['else' block]" (steinlang_def.cfg.txt:26): an if needs *)
(* no else.  ToSyntax has no case for it; its last attempt leaves an        *)
(* assignment without operands, which is what runs.                         *)
IfNeedsNoElse == stage = "converted" => pgm = written

(* "binop : '+' | ... | '==' | '!='" (steinlang_def.cfg.txt:11-14): != is an  *)
(* operator.  The rule for ! comes before the one for !=, which therefore   *)
(* never finds a token.                                                     *)
NotEqualIsAnOperator == stage # "failed"
===============================================================================
