----------------------------- MODULE Interpreter ------------------------------
(***************************************************************************)
(* The host loop of interpreter_main.cc around the evaluator: step, then   *)
(* drain the output and print it, until there is no computation.           *)
(***************************************************************************)
EXTENDS Evaluator

VARIABLES pc,        \* where evaluate() is: "test", "drain" or "exited"
          printed    \* the lines written to standard output

hostVars == <<pc, printed>>

HostInit == Init /\ pc = "test" /\ printed = <<>>

RunStep ==
  /\ pc = "test"
  /\ Step
  /\ pc' = "drain"
  /\ UNCHANGED printed

Drain ==
  /\ pc = "drain"
  /\ fault = "none"
  /\ printed' = printed \o output
  /\ output' = <<>>
  /\ pc' = "test"
  /\ UNCHANGED <<pgm, store, comp, result, env, saved_ctx, fault>>

Mut_ExitLoopEarly ==
  /\ pc = "test"
  /\ Len(comp) <= 1
  /\ pc' = "exited"
  /\ UNCHANGED <<vars, printed>>

ExitLoop ==
  /\ pc = "test"
  /\ ~HasComputation
  /\ pc' = "exited"
  /\ UNCHANGED <<vars, printed>>

HostNext == RunStep \/ Drain \/ ExitLoop

(* One thread runs the loop: a step it can take is taken. *)
HostSpec == HostInit /\ [][HostNext]_<<vars, hostVars>>
            /\ WF_<<vars, hostVars>>(HostNext)

-----------------------------------------------------------------------------
(* The loop ends: the program ran to its end or reached undefined behaviour. *)
Ended == pc = "exited" \/ fault # "none"

(* Liveness: a program whose loops and recursions are bounded ends, with    *)
(* the desugarings of for and while and the context switches in between.    *)
Termination == <>Ended

(* The loop is a host of the evaluator as Evaluator assumes one, and its    *)
(* own fairness is what justifies Evaluator's: Step is not called after the *)
(* end, output is consumed whole, and no computation is left unevaluated.   *)
ImplementsEvaluator == Spec
===============================================================================
