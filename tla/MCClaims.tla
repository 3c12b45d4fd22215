------------------------------- MODULE MCClaims -------------------------------
(* An instance of Claims. *)
EXTENDS Claims, Pgms

TupleValue == {<<"x=1;", "[1,x];">>}
===============================================================================
