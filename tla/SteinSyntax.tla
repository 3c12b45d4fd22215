------------------------------ MODULE SteinSyntax -----------------------------
(***************************************************************************)
(* Abstract syntax (steinlang_syntax.proto).  A syntax tree is kept flat:  *)
(* Exps and Stmts are the nodes of all the programs considered, a node     *)
(* names its children by their ids, and Programs are sequences of          *)
(* statement ids.                                                          *)
(***************************************************************************)
EXTENDS LiteralOps, SequencesExt

CONSTANTS Name,       \* identifiers
          Exps,       \* expression id |-> Expression
          Stmts,      \* statement id  |-> Statement
          Programs    \* the programs an evaluation may start from

ExpId == DOMAIN Exps

StmtId == DOMAIN Stmts

Expressions ==
  [type : {"var_exp"}, name : Name]
    \cup [type : {"lit_exp"}, lit : PlainLiterals]
    \cup [type : {"func_app_exp"}, func : ExpId, arg : Seq(ExpId)]
    \cup [type : {"mon_arith_exp"}, op : MonArithOp, exp : ExpId]
    \cup [type : {"bin_arith_exp"}, lhs : ExpId, op : BinArithOp, rhs : ExpId]
    \cup [type : {"tern_exp"}, if_exp : ExpId, cond_exp : ExpId, else_exp : ExpId]
    \cup [type : {"tuple_exp"}, exp : Seq(ExpId)]
    \cup [type : {"lambda_exp"}, param : Seq(Name), body : Seq(StmtId)]
    \cup {[type |-> "TYPE_NOT_SET"]}   \* what ToSyntax leaves of an unmatched child

Statements ==
  [type : {"exp_stmt"}, exp_stmt : ExpId]
    \cup [type : {"assign_stmt"}, lhs : ExpId, rhs : ExpId]
    \cup [type : {"ret_stmt"}, ret_stmt : ExpId]
    \cup [type : {"print_stmt"}, print_stmt : ExpId]
    \cup [type : {"if_else_stmt"}, cond : ExpId,
          if_stmts : Seq(StmtId), else_stmts : Seq(StmtId)]
    \cup [type : {"while_stmt"}, cond : ExpId, body : Seq(StmtId)]
    \cup [type : {"for_stmt"}, init : StmtId, cond : ExpId, inc : StmtId,
          body : Seq(StmtId)]
    \cup {[type |-> "TYPE_NOT_SET"]}

ASSUME SyntaxAssumption ==
  /\ \A e \in ExpId : Exps[e] \in Expressions
  /\ \A s \in StmtId : Stmts[s] \in Statements
  /\ Programs \subseteq Seq(StmtId)
===============================================================================
