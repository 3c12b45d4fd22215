------------------------------ MODULE LiteralOps ------------------------------
(***************************************************************************)
(* Values of the language (message Literal) and the operators on them      *)
(* (literal_ops.cc).  Floats are left out; a string is its rank in the     *)
(* lexicographic order, "" being 0: comparison is all the language does    *)
(* with a string.  An operator looks only at the type of its FIRST         *)
(* argument: an accessor of the wrong type reads the proto default (0,     *)
(* FALSE, "") of the second one.                                           *)
(***************************************************************************)
EXTENDS Integers

CONSTANT IntMax     \* the largest int64, 2^63 - 1 in the code

ASSUME IntMaxAssumption == IntMax \in Nat \ {0}

IntMin == -IntMax - 1

Int64 == IntMin .. IntMax

(* Two's complement arithmetic of the machine instructions the build emits. *)
Wrap(n) == IntMin + ((n - IntMin) % (2 * IntMax + 2))

None == [type |-> "none_val"]

NoValue == [type |-> "TYPE_NOT_SET"]      \* a freshly allocated Literal

BoolVal(b) == [type |-> "bool_val", bool_val |-> b]

IntVal(n) == [type |-> "int_val", int_val |-> n]

StrVal(rank) == [type |-> "str_val", str_val |-> rank]

(* The literals of a program text: everything but closures and tuples. *)
PlainLiterals ==
  {None, NoValue}
    \cup [type : {"bool_val"}, bool_val : BOOLEAN]
    \cup [type : {"int_val"}, int_val : Int64]
    \cup [type : {"str_val"}, str_val : Nat]

(* x->bool_val() and x->int_val(), with the default of another type. *)
AsBool(x) == x.type = "bool_val" /\ x.bool_val

AsInt(x) == IF x.type = "int_val" THEN x.int_val ELSE 0

Neg(x) == CASE x.type = "bool_val" -> x       \* -true is -1, again true
            [] x.type = "int_val"  -> IntVal(Wrap(-x.int_val))
            [] OTHER               -> None

BoolNot(x) == IF x.type = "bool_val" THEN BoolVal(~x.bool_val) ELSE None

(* C++ integer division truncates toward zero. *)
Quotient(m, n) ==
  LET magnitude(k) == IF k < 0 THEN -k ELSE k
      q == magnitude(m) \div magnitude(n)
  IN  IF (m < 0) = (n < 0) THEN q ELSE -q

(* The two int64 divisions that raise SIGFPE instead of yielding a value. *)
Traps(op, x, y) ==
  /\ op = "DIV"
  /\ x.type = "int_val"
  /\ AsInt(y) = 0 \/ (x.int_val = IntMin /\ AsInt(y) = -1)

Arith(op, m, n) == CASE op = "ADD" -> Wrap(m + n)
                     [] op = "SUB" -> Wrap(m - n)
                     [] op = "MUL" -> Wrap(m * n)
                     [] op = "DIV" -> Wrap(Quotient(m, n))

NumBinOp(op, x, y) ==
  IF x.type = "int_val" THEN IntVal(Arith(op, x.int_val, AsInt(y))) ELSE None

(* What a comparison compares: false < true, numbers, ranks of strings. *)
Rank(x) == CASE x.type = "bool_val" -> IF x.bool_val THEN 1 ELSE 0
             [] x.type = "int_val"  -> x.int_val
             [] x.type = "str_val"  -> x.str_val

Holds(op, m, n) == CASE op = "GT" -> m > n
                     [] op = "GE" -> m >= n
                     [] op = "LT" -> m < n
                     [] op = "LE" -> m <= n
                     [] op = "EQ" -> m = n
                     [] op = "NE" -> m # n

NumCmpOp(op, x, y) ==
  IF x.type \in {"bool_val", "int_val", "str_val"}
  THEN BoolVal(Holds(op, Rank(x), IF y.type = x.type THEN Rank(y) ELSE 0))
  ELSE None

BoolBinOp(op, x, y) ==
  IF x.type = "bool_val"
  THEN BoolVal(IF op = "AND" THEN x.bool_val /\ AsBool(y)
                             ELSE x.bool_val \/ AsBool(y))
  ELSE None

MonArithOp == {"NOT", "NEG"}

ArithOp == {"ADD", "SUB", "MUL", "DIV"}

CmpOp == {"GT", "GE", "LT", "LE", "EQ", "NE"}

BoolOp == {"AND", "OR"}

BinArithOp == ArithOp \cup CmpOp \cup BoolOp

MonApply(op, x) == IF op = "NOT" THEN BoolNot(x) ELSE Neg(x)

BinApply(op, x, y) == CASE op \in ArithOp -> NumBinOp(op, x, y)
                        [] op \in CmpOp   -> NumCmpOp(op, x, y)
                        [] op \in BoolOp  -> BoolBinOp(op, x, y)
===============================================================================
