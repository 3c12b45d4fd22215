------------------------------- MODULE Patterns -------------------------------
(***************************************************************************)
(* std::regex as the tokenizers use it: what a rule, given as a string,    *)
(* matches at a place of a text (match_continuous).  The repetitions are   *)
(* greedy and go back, so of several matches the one preferred comes       *)
(* first.                                                                  *)
(***************************************************************************)
EXTENDS Sequences, SequencesExt

Char(s, i) == SubSeq(s, i, i)

CharsOf(s) == {Char(s, i) : i \in 1 .. Len(s)}

Text(s) == [kind |-> "text", text |-> s]
In(chars) == [kind |-> "in", chars |-> chars]
NotIn(chars) == [kind |-> "notIn", chars |-> chars]
Either(p, q) == [kind |-> "either", of |-> <<p, q>>]
Each(ps) == [kind |-> "each", of |-> ps]
Star(p) == [kind |-> "star", of |-> p]
Plus(p) == Each(<<p, Star(p)>>)

RECURSIVE Ends(_, _, _)
RECURSIVE EndsOfStar(_, _, _, _)

(* Behind what is found already comes what a repetition can reach: with one *)
(* round more rather than with one less, and no place twice.               *)
EndsOfStar(p, s, at, found) ==
  IF Contains(found, at) THEN found
  ELSE Append(FoldLeft(LAMBDA f, e : EndsOfStar(p, s, e, f), found, Ends(p, s, at)), at)

(* The numbers of characters of s up to the end of a match after the first *)
(* `at`, the one preferred first.                                          *)
Ends(p, s, at) ==
  CASE p.kind = "text" ->
         IF at + Len(p.text) <= Len(s) /\ SubSeq(s, at + 1, at + Len(p.text)) = p.text
         THEN <<at + Len(p.text)>> ELSE <<>>
    [] p.kind = "in" ->
         IF at < Len(s) /\ Char(s, at + 1) \in p.chars THEN <<at + 1>> ELSE <<>>
    [] p.kind = "notIn" ->
         IF at < Len(s) /\ Char(s, at + 1) \notin p.chars THEN <<at + 1>> ELSE <<>>
    [] p.kind = "either" -> Ends(p.of[1], s, at) \o Ends(p.of[2], s, at)
    [] p.kind = "each" ->
         FoldLeft(LAMBDA es, q : FlattenSeq([i \in DOMAIN es |-> Ends(q, s, es[i])]), <<at>>, p.of)
    [] p.kind = "star" -> EndsOfStar(p.of, s, at, <<>>)

(***************************************************************************)
(* The regular expressions of the repository's tokenizers and grammars.    *)
(* Any other is a text, with a backslash before each of the characters     *)
(* that mean something.                                                    *)
(***************************************************************************)
Digit == In(CharsOf("0123456789"))
Letter == In(CharsOf("abcdefghijklmnopqrstuvwxyzABCDEFGHIJKLMNOPQRSTUVWXYZ_"))
Blank == In({" ", "\t", "\n", "\r"})
NotNewline == NotIn({"\n"})

Quoted(quote) ==
  Each(<<Text(quote), Star(Either(Each(<<Text("\\"), NotNewline>>), NotIn({quote}))), Text(quote)>>)

Expressions ==
  ("(True|False)"             :> Either(Text("True"), Text("False")))
    @@ ("\\d+\\.\\d*"         :> Each(<<Plus(Digit), Text("."), Star(Digit)>>))
    @@ ("\\d+"                :> Plus(Digit))
    @@ ("[[:alpha:]_]\\w*"    :> Each(<<Letter, Star(Either(Letter, Digit))>>))
    @@ ("\"(\\\\.|[^\"])*\""  :> Quoted("\""))
    @@ ("'(\\\\.|[^'])*'"     :> Quoted("'"))
    @@ ("#[^\\n]*"            :> Each(<<Text("#"), Star(NotNewline)>>))
    @@ ("\\s+"                :> Plus(Blank))
    @@ ("\\s*"                :> Star(Blank))
    @@ ("."                   :> NotNewline)

Special == CharsOf("^$\\.*+?()[]{}|")

RECURSIVE Literally(_)

(* What a text with backslashes matches. *)
Literally(rule) ==
  CASE Len(rule) = 0 -> ""
    [] Len(rule) > 1 /\ Char(rule, 1) = "\\" -> Char(rule, 2) \o Literally(SubSeq(rule, 3, Len(rule)))
    [] OTHER -> Char(rule, 1) \o Literally(Tail(rule))

RECURSIVE IsText(_)

IsText(rule) ==
  CASE Len(rule) = 0 -> TRUE
    [] Char(rule, 1) = "\\" -> Len(rule) > 1 /\ IsText(SubSeq(rule, 3, Len(rule)))
    [] OTHER -> Char(rule, 1) \notin Special /\ IsText(Tail(rule))

(* The constructor of std::regex throws regex_error otherwise. *)
IsRegex(rule) == rule \in DOMAIN Expressions \/ IsText(rule)

Regex(rule) ==
  IF rule \in DOMAIN Expressions THEN Expressions[rule] ELSE Text(Literally(rule))

(* regex_search with match_continuous after the first `at` characters of s: *)
(* the length of the match, in a sequence, or <<>>.                        *)
Search(rule, s, at) ==
  LET ends == Ends(Regex(rule), s, at) IN IF ends = <<>> THEN <<>> ELSE <<ends[1] - at>>
===============================================================================
