------------------------------ MODULE CallStack -------------------------------
(***************************************************************************)
(* What the evaluator promises of functions: "Functions won't share        *)
(* LocalContext.  This is what forms the function stack"                   *)
(* (steinlang_syntax.proto).  stack holds the contexts, the running one    *)
(* last; heap is the store.  The steps are relations between the old and   *)
(* the new state: what the evaluator computes is left open, what it may    *)
(* touch is not.                                                           *)
(***************************************************************************)
EXTENDS SequencesExt, Integers

VARIABLES stack,    \* contexts [comp, result, env]
          heap      \* the cells

callVars == <<stack, heap>>

Blank(x) == x.type = "TYPE_NOT_SET"

CallInit ==
  /\ Len(stack) = 1
  /\ stack[1].result = <<>> /\ DOMAIN stack[1].env = {}
  /\ heap = <<>>

(* A context works on its own stacks.  Its variables keep their cells; it  *)
(* either gains one, new and blank, or writes at most one old cell.        *)
Local ==
  /\ stack # <<>>
  /\ stack' = Append(Front(stack), Last(stack'))
  /\ LET old == Last(stack).env
         new == Last(stack').env
     IN  \/ /\ new = old
            /\ DOMAIN heap' = DOMAIN heap
            /\ \A a, b \in DOMAIN heap : heap'[a] # heap[a] /\ heap'[b] # heap[b] => a = b
         \/ \E x \in DOMAIN new \ DOMAIN old :
              /\ DOMAIN new = DOMAIN old \cup {x}
              /\ \A y \in DOMAIN old : new[y] = old[y]
              /\ new[x] = Len(heap)
              /\ Blank(Last(heap'))
              /\ heap' = Append(heap, Last(heap'))

(* The caller is suspended as it is, less the computation that made the    *)
(* call and its operands.  The callee starts with no result, owes a return *)
(* and sees the cells its closure captured and the new ones, all its own.  *)
Call ==
  /\ stack # <<>>
  /\ Len(stack') = Len(stack) + 1
  /\ LET caller    == Last(stack)
         suspended == stack'[Len(stack)]
         callee    == Last(stack')
     IN  /\ stack' = Front(stack) \o <<suspended, callee>>
         /\ suspended.env = caller.env
         /\ suspended.comp = Front(caller.comp)
         /\ suspended.result # caller.result
         /\ IsPrefix(suspended.result, caller.result)
         /\ callee.result = <<>>
         /\ Head(callee.comp).type = "return_from_ctx"
         /\ Len(heap) <= Len(heap')
         /\ \A a \in DOMAIN heap' :
              (a \in DOMAIN heap => heap'[a] # heap[a]) =>
                \E x \in DOMAIN callee.env : callee.env[x] = a - 1

(* The callee goes with all it had; the caller goes on with one more       *)
(* result, an rvalue: no reference into a dead context comes back.         *)
Return ==
  /\ Len(stack) > 1
  /\ LET suspended == stack[Len(stack) - 1]
         resumed   == Last(stack')
     IN  /\ stack' = Append(Front(Front(stack)), resumed)
         /\ Last(resumed.result).type = "rvalue"
         /\ resumed = [suspended EXCEPT !.result = Append(@, Last(resumed.result))]
  /\ UNCHANGED heap

CallNext == Local \/ Call \/ Return

CallSpec == CallInit /\ [][CallNext]_callVars
===============================================================================
