--------------------------------- MODULE Pgms ---------------------------------
(***************************************************************************)
(* The syntax nodes the model-checking runs are made of.  An id is the     *)
(* text it stands for, in the concrete syntax of the language.             *)
(***************************************************************************)
EXTENDS Integers, Sequences, TLC

Var(x) == [type |-> "var_exp", name |-> x]
IntLit(n) == [type |-> "lit_exp", lit |-> [type |-> "int_val", int_val |-> n]]
BoolLit(b) == [type |-> "lit_exp", lit |-> [type |-> "bool_val", bool_val |-> b]]
StrLit(k) == [type |-> "lit_exp", lit |-> [type |-> "str_val", str_val |-> k]]
Bin(l, o, r) == [type |-> "bin_arith_exp", lhs |-> l, op |-> o, rhs |-> r]
Mon(o, e) == [type |-> "mon_arith_exp", op |-> o, exp |-> e]
App(f, a) == [type |-> "func_app_exp", func |-> f, arg |-> a]
Tern(a, c, b) == [type |-> "tern_exp", if_exp |-> a, cond_exp |-> c, else_exp |-> b]
Tuple(es) == [type |-> "tuple_exp", exp |-> es]
Lambda(p, b) == [type |-> "lambda_exp", param |-> p, body |-> b]

PgmNames == {"x", "y", "n", "f"}

PgmExps ==
  [x |-> Var("x"), y |-> Var("y"), n |-> Var("n"), f |-> Var("f")]
  @@ ("0" :> IntLit(0)) @@ ("1" :> IntLit(1)) @@ ("2" :> IntLit(2)) @@ ("max" :> IntLit(7))
  @@ ("True" :> BoolLit(TRUE)) @@ ("'a'" :> StrLit(1))
  @@ ("None" :> [type |-> "lit_exp", lit |-> [type |-> "none_val"]])
  @@ ("x+1" :> Bin("x", "ADD", "1"))
  @@ ("max+1" :> Bin("max", "ADD", "1"))
  @@ ("-1" :> Mon("NEG", "1"))
  @@ ("x/-1" :> Bin("x", "DIV", "-1"))
  @@ ("n+1" :> Bin("n", "ADD", "1"))
  @@ ("x+y" :> Bin("x", "ADD", "y"))
  @@ ("n-1" :> Bin("n", "SUB", "1"))
  @@ ("x<2" :> Bin("x", "LT", "2"))
  @@ ("n<1" :> Bin("n", "LT", "1"))
  @@ ("x==y" :> Bin("x", "EQ", "y"))
  @@ ("2/x" :> Bin("2", "DIV", "x"))
  @@ ("!x" :> Mon("NOT", "x"))
  @@ ("-x" :> Mon("NEG", "x"))
  @@ ("True&&x" :> Bin("True", "AND", "x"))
  @@ ("f()" :> App("f", <<>>))
  @@ ("f(1)" :> App("f", <<"1">>))
  @@ ("f(2)" :> App("f", <<"2">>))
  @@ ("f(x)" :> App("f", <<"x">>))
  @@ ("f(x+1)" :> App("f", <<"x+1">>))
  @@ ("f(n-1)" :> App("f", <<"n-1">>))
  @@ ("f(1,x)" :> App("f", <<"1", "x">>))
  @@ ("x+f()" :> Bin("x", "ADD", "f()"))
  @@ ("f(1)(2)" :> App("f(1)", <<"2">>))
  @@ ("n*f(n-1)" :> Bin("n", "MUL", "f(n-1)"))
  @@ ("1 if n<1 else n*f(n-1)" :> Tern("1", "n<1", "n*f(n-1)"))
  @@ ("x if x<2 else y" :> Tern("x", "x<2", "y"))
  @@ ("[]" :> Tuple(<<>>))
  @@ ("[1]" :> Tuple(<<"1">>))
  @@ ("[1,x]" :> Tuple(<<"1", "x">>))
  @@ ("[x,y,2]" :> Tuple(<<"x", "y", "2">>))
  @@ ("unset" :> [type |-> "TYPE_NOT_SET"])
  @@ ("lambda n: n+1" :> Lambda(<<"n">>, <<"return n+1;">>))
  @@ ("lambda x: x+1" :> Lambda(<<"x">>, <<"return x+1;">>))
  @@ ("lambda x y: x+y" :> Lambda(<<"x", "y">>, <<"return x+y;">>))
  @@ ("lambda x x: x+1" :> Lambda(<<"x", "x">>, <<"return x+1;">>))
  @@ ("lambda: bump x" :> Lambda(<<>>, <<"x=x+1;", "return 1;">>))
  @@ ("lambda n {}" :> Lambda(<<"n">>, <<>>))
  @@ ("lambda: unit" :> Lambda(<<>>, <<"print x;">>))
  @@ ("lambda y: adder" :> Lambda(<<"y">>, <<"return lambda x: x+y;">>))
  @@ ("lambda x: x+y" :> Lambda(<<"x">>, <<"return x+y;">>))
  @@ ("lambda n: fact" :> Lambda(<<"n">>, <<"return fact;">>))
  @@ ("lambda n: count" :> Lambda(<<"n">>, <<"if n<1 return 1 else return f(n-1);">>))

Assign(l, r) == [type |-> "assign_stmt", lhs |-> l, rhs |-> r]
RetS(e) == [type |-> "ret_stmt", ret_stmt |-> e]
PrintS(e) == [type |-> "print_stmt", print_stmt |-> e]
ExpS(e) == [type |-> "exp_stmt", exp_stmt |-> e]
If(c, a, b) == [type |-> "if_else_stmt", cond |-> c, if_stmts |-> a, else_stmts |-> b]
While(c, b) == [type |-> "while_stmt", cond |-> c, body |-> b]
For(i, c, s, b) == [type |-> "for_stmt", init |-> i, cond |-> c, inc |-> s, body |-> b]

PgmStmts ==
  ("x=0;" :> Assign("x", "0"))
  @@ ("x=1;" :> Assign("x", "1"))
  @@ ("y=2;" :> Assign("y", "2"))
  @@ ("x=max;" :> Assign("x", "max"))
  @@ ("x=max+1;" :> Assign("x", "max+1"))
  @@ ("x=-x;" :> Assign("x", "-x"))
  @@ ("x=!x;" :> Assign("x", "!x"))
  @@ ("x=x+1;" :> Assign("x", "x+1"))
  @@ ("y=x+1;" :> Assign("y", "x+1"))
  @@ ("y=2/x;" :> Assign("y", "2/x"))
  @@ ("x=f(x);" :> Assign("x", "f(x)"))
  @@ ("x='a';" :> Assign("x", "'a'"))
  @@ ("1=2;" :> Assign("1", "2"))
  @@ ("unset=unset;" :> Assign("unset", "unset"))
  @@ ("(x if x<2 else y)=1;" :> Assign("x if x<2 else y", "1"))
  @@ ("[x,y,2]=[1,x];" :> Assign("[x,y,2]", "[1,x]"))
  @@ ("f=lambda n: n+1;" :> Assign("f", "lambda n: n+1"))
  @@ ("f=lambda x: x+1;" :> Assign("f", "lambda x: x+1"))
  @@ ("f=lambda x y: x+y;" :> Assign("f", "lambda x y: x+y"))
  @@ ("f=lambda x x: x+1;" :> Assign("f", "lambda x x: x+1"))
  @@ ("f=lambda: bump x;" :> Assign("f", "lambda: bump x"))
  @@ ("f=lambda n {};" :> Assign("f", "lambda n {}"))
  @@ ("f=lambda: unit;" :> Assign("f", "lambda: unit"))
  @@ ("f=lambda y: adder;" :> Assign("f", "lambda y: adder"))
  @@ ("f=lambda n: fact;" :> Assign("f", "lambda n: fact"))
  @@ ("f=lambda n: count;" :> Assign("f", "lambda n: count"))
  @@ ("return n+1;" :> RetS("n+1"))
  @@ ("return x+1;" :> RetS("x+1"))
  @@ ("return x+y;" :> RetS("x+y"))
  @@ ("return 1;" :> RetS("1"))
  @@ ("return f(n-1);" :> RetS("f(n-1)"))
  @@ ("return lambda x: x+y;" :> RetS("lambda x: x+y"))
  @@ ("return fact;" :> RetS("1 if n<1 else n*f(n-1)"))
  @@ ("print x;" :> PrintS("x"))
  @@ ("print x/-1;" :> PrintS("x/-1"))
  @@ ("print x==y;" :> PrintS("x==y"))
  @@ ("print x+f();" :> PrintS("x+f()"))
  @@ ("print f(1)(2);" :> PrintS("f(1)(2)"))
  @@ ("print f(2);" :> PrintS("f(2)"))
  @@ ("print [];" :> PrintS("[]"))
  @@ ("print True&&x;" :> PrintS("True&&x"))
  @@ ("f();" :> ExpS("f()"))
  @@ ("f(1);" :> ExpS("f(1)"))
  @@ ("f(1,x);" :> ExpS("f(1,x)"))
  @@ ("[1];" :> ExpS("[1]"))
  @@ ("[1,x];" :> ExpS("[1,x]"))
  @@ ("if x<2 y=2 else x=0;" :> If("x<2", <<"y=2;">>, <<"x=0;">>))
  @@ ("if n<1 return 1 else return f(n-1);" :> If("n<1", <<"return 1;">>, <<"return f(n-1);">>))
  @@ ("while x<2 { print x; x=x+1; }" :> While("x<2", <<"print x;", "x=x+1;">>))
  @@ ("while True x=0;" :> While("True", <<"x=0;">>))
  @@ ("for x=0 x<2 x=x+1 y=x+1;" :> For("x=0;", "x<2", "x=x+1;", <<"y=x+1;">>))
  @@ ("unset;" :> [type |-> "TYPE_NOT_SET"])
===============================================================================
