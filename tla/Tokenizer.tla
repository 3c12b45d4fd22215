------------------------------- MODULE Tokenizer ------------------------------
(***************************************************************************)
(* The tokenizer of tokenizer.h.  A rule is the string its std::regex was  *)
(* made from.  The iterator is the number of characters before it.         *)
(***************************************************************************)
EXTENDS Patterns, Integers

VARIABLES token_rules,   \* token_rules_: tags with their rules, in the order added
          ignore_rules,  \* ignore_rules_
          text,          \* the argument of operator()
          it,            \* its iterator
          tokens         \* its result

lexerVars == <<token_rules, ignore_rules, text, it, tokens>>

Rule(tag, rule) == [tag |-> tag, rule |-> rule]

Mut_MatchesEmptily(rule) == Search(rule, text, it) # <<>>

(* A match that is empty is none. *)
Matches(rule) == LET m == Search(rule, text, it) IN m # <<>> /\ m[1] > 0

Length(rule) == Search(rule, text, it)[1]

(* The first of the rules that matches something, or 0. *)
FirstMatch(rules_) == SelectInSeq(rules_, Matches)

Ignored == FirstMatch(ignore_rules)

Taken == FirstMatch([i \in DOMAIN token_rules |-> token_rules[i].rule])

Tokenizing == it < Len(text)

(* The token that a rule finds here. *)
Mut_TokenAtMatch(i) ==
  LET length == Length(token_rules[i].rule)
  IN  [tag |-> token_rules[i].tag, value |-> SubSeq(text, it + 1, it + length), pos |-> 0]

TokenOf(i) ==
  LET length == Length(token_rules[i].rule)
  IN  [tag |-> token_rules[i].tag, value |-> SubSeq(text, it + 1, it + length), pos |-> it]

(***************************************************************************)
(* FindOneMatch: what is to be ignored comes before the tokens, and where  *)
(* nothing matches the rest of the text is dropped.                        *)
(***************************************************************************)
Ignore ==
  /\ Tokenizing
  /\ Ignored # 0
  /\ it' = it + Length(ignore_rules[Ignored])
  /\ UNCHANGED tokens

PushToken ==
  /\ Tokenizing
  /\ Ignored = 0
  /\ LET i == Taken
     IN  /\ i # 0
         /\ tokens' = Append(tokens, TokenOf(i))
         /\ it' = it + Len(TokenOf(i).value)

DropRest ==
  /\ Tokenizing
  /\ Ignored = 0
  /\ Taken = 0
  /\ it' = Len(text)
  /\ UNCHANGED tokens

(* The rules and the text stay as they are. *)
FindOneMatch == Ignore \/ PushToken \/ DropRest

-----------------------------------------------------------------------------
Blanks == {" ", "\t", "\n", "\r"}

(* A character that no token has is blank or in a comment. *)
IsLost(i) ==
  /\ Char(text, i) \notin Blanks
  /\ \A t \in DOMAIN tokens : i \notin tokens[t].pos + 1 .. tokens[t].pos + Len(tokens[t].value)
  /\ ~ \E j \in 1 .. i :
         /\ Char(text, j) = "#"
         /\ \A k \in j .. i : Char(text, k) # "\n"
         /\ \A t \in DOMAIN tokens :
              j \notin tokens[t].pos + 1 .. tokens[t].pos + Len(tokens[t].value)

(* The tokens are pieces of the text, one behind the other. *)
ArePieces ==
  \A t \in DOMAIN tokens :
    /\ tokens[t].value = SubSeq(text, tokens[t].pos + 1, tokens[t].pos + Len(tokens[t].value))
    /\ tokens[t].value # ""
    /\ t > 1 => tokens[t - 1].pos + Len(tokens[t - 1].value) <= tokens[t].pos
===============================================================================
