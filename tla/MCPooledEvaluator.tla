-------------------------- MODULE MCPooledEvaluator ---------------------------
(* Instances of PooledEvaluator, and the values the messages stand for. *)
EXTENDS PooledEvaluator, Pgms

PooledExps == PgmExps @@ ("f(1,x,2)" :> App("f", <<"1", "x", "2">>))

PooledStmts ==
  PgmStmts @@ ("f(1,x,2);" :> ExpS("f(1,x,2)"))
           @@ ("for once" :> For("x=1;", "x<2", "x=x+1;", <<"print x;">>))

(* Small programs that between them execute every handler of the evaluator. *)
SmallPrograms ==
  {<<"x=1;", "x=f(x);">>, <<"x=1;", "if x<2 y=2 else x=0;">>,
   <<"f=lambda x: x+1;", "print f(2);">>, <<"f=lambda y: adder;", "print f(1)(2);">>,
   <<"f=lambda x x: x+1;", "f(1,x);">>, <<"f=lambda n {};", "f(1);">>,
   <<"x=0;", "y=2/x;">>,
   <<"[x,y,2]=[1,x];">>, <<"x=!x;", "print [];">>, <<"unset=unset;", "unset;">>,
   <<"(x if x<2 else y)=1;", "1=2;">>, <<"return 1;">>, <<"f=lambda x: x+1;", "f(1,x,2);">>,
   <<"for once">>, <<"1=2;">>, <<"unset;">>}

(* Never a reset, a reset now and then, one at every step. *)
Never == 10000

SomeLimits == {0, 40, Never}

-----------------------------------------------------------------------------
(* The value of a message, or "corrupt" if what it holds is not what its    *)
(* scalars say.                                                             *)
Corrupt == "corrupt"

RECURSIVE IsBuilt(_)
IsBuilt(o) ==
  LET parts == Parts(type[o], val[o])
  IN  \A f \in Fields(type[o]) :
        LET wanted == SelectSeq(parts, LAMBDA part : part[1] = f)
        IN  /\ Len(kids[o][f]) = Len(wanted)
            /\ \A i \in DOMAIN wanted :
                 LET k == kids[o][f][i]
                 IN  type[k] = wanted[i][2] /\ val[k] = wanted[i][3] /\ IsBuilt(k)

LiteralAt(o) ==
  IF val[o].type = "closure_val"
  THEN IF /\ Len(kids[o]["body"]) = Len(val[o].body)
          /\ \A i \in DOMAIN val[o].body :
               LET s == kids[o]["body"][i] IN val[s] = Stmts[val[o].body[i]] /\ IsBuilt(s)
       THEN val[o] ELSE [type |-> Corrupt]
  ELSE val[o]

ResultAt(o) ==
  CASE val[o].type # "rvalue"                -> val[o]
    [] Len(kids[o]["rvalue"]) # 1            -> [type |-> Corrupt]
    [] OTHER -> [type |-> "rvalue", rvalue |-> LiteralAt(kids[o]["rvalue"][1])]

RECURSIVE ComputationAt(_)
ComputationAt(o) ==
  CASE val[o].type \in {"exp", "stmt"} ->
         LET ks == kids[o][val[o].type]
         IN  IF Len(ks) # 1 \/ ~IsBuilt(ks[1]) THEN [type |-> Corrupt]
             ELSE IF val[o].type = "exp" THEN [type |-> "exp", exp |-> val[ks[1]].exp]
                  ELSE [type |-> "stmt", stmt |-> val[ks[1]]]
    [] val[o].type = "if_else_final" ->
         LET at(case) == [i \in DOMAIN kids[o][case] |-> ComputationAt(kids[o][case][i])]
         IN  [type |-> "if_else_final", if_case |-> at("if_case"), else_case |-> at("else_case")]
    [] OTHER -> val[o]

ContextAt(o) ==
  [comp   |-> [i \in DOMAIN kids[o]["comp"] |-> ComputationAt(kids[o]["comp"][i])],
   result |-> [i \in DOMAIN kids[o]["result"] |-> ResultAt(kids[o]["result"][i])],
   env    |-> val[o].env]

ReadOut ==
  LET c == kids[reg[ctx]]
  IN  [cur       |-> ContextAt(c["cur_ctx"][1]),
       saved_ctx |-> [i \in DOMAIN c["saved_ctx"] |-> ContextAt(c["saved_ctx"][i])],
       store     |-> [i \in DOMAIN c["store"] |-> LiteralAt(c["store"][i])],
       output    |-> output]

(* The context as it was at the end of the last call. *)
VARIABLE seen

SeenInit ==
  /\ Init
  /\ seen = [cur |-> [comp |-> [i \in DOMAIN pgm |->
                                  [type |-> "stmt", stmt |-> Stmts[pgm[Len(pgm) + 1 - i]]]],
                      result |-> <<>>, env |-> [x \in {} |-> 0]],
             saved_ctx |-> <<>>, store |-> <<>>, output |-> <<>>]

SeenNext == Next /\ seen' = IF code' = <<>> THEN ReadOut' ELSE seen

SeenSpec == SeenInit /\ [][SeenNext]_<<vars, seen>> /\ WF_<<vars, seen>>(SeenNext)

-----------------------------------------------------------------------------
(* Whatever the pools hand out again, and whenever the arena is reset, from *)
(* one call of Step to the next the context is what the evaluator on plain  *)
(* values says, and the evaluation goes on even if it resets at every step. *)
Abstract == INSTANCE Evaluator
  WITH comp <- seen.cur.comp, result <- seen.cur.result, env <- seen.cur.env,
       saved_ctx <- seen.saved_ctx, store <- seen.store, output <- seen.output

ImplementsEvaluator == Abstract!Spec
===============================================================================
