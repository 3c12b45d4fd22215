------------------------------ MODULE TaggedValue -----------------------------
(***************************************************************************)
(* What a OneOf is to its user: a value of one of two types, with a tag.   *)
(* An exception may take the value away while the tag stays.  Then a value *)
(* of the other type can be given to the object, or its life can end: any  *)
(* other use is a misuse, after which nothing is promised.                 *)
(***************************************************************************)
CONSTANTS Objects, Values, Unspecified

VARIABLES held,     \* what each object holds, or None before and after its life
          misused   \* a value that an exception took was used

taggedVars == <<held, misused>>

Types == {"first", "second"}

None == [type |-> "none", holds |-> "nothing", value |-> Unspecified]

Gone(t) == [type |-> t, holds |-> "nothing", value |-> Unspecified]

Holds(t, v) == [type |-> t, holds |-> "value", value |-> v]

Contents == Values \cup {Unspecified}

Lives(o) == held[o] # None

IsGone(o) == held[o].holds = "nothing"

(* A value of type t can be given to o. *)
Takes(o, t) == Lives(o) /\ (held[o].type = t => ~IsGone(o))

(* o has a value to be copied or moved. *)
Gives(o) == Lives(o) /\ ~IsGone(o)

-----------------------------------------------------------------------------
Init == held = [o \in Objects |-> None] /\ misused = FALSE

Holding(h) == ~misused /\ held' = h /\ UNCHANGED misused

Make(o, t, v) == ~Lives(o) /\ Holding([held EXCEPT ![o] = Holds(t, v)])

Give(o, t, v) == Takes(o, t) /\ Holding([held EXCEPT ![o] = Holds(t, v)])

(* An exception when a value of type t is given. *)
Lose(o, t) ==
  /\ Takes(o, t)
  /\ IF held[o].type # t
     THEN Holding([held EXCEPT ![o] = Gone(held[o].type)])
     ELSE \E v \in Contents : Holding([held EXCEPT ![o] = Holds(t, v)])

Copy(o, other) ==
  /\ Gives(other)
  /\ \/ Make(o, held[other].type, held[other].value)
     \/ Give(o, held[other].type, held[other].value)

(* What is moved from is there, but not what it was: also in a move to     *)
(* oneself.                                                                *)
Move(o, other) ==
  /\ Gives(other)
  /\ Lives(o) => Takes(o, held[other].type)
  /\ LET moved == [held EXCEPT ![other] = Holds(held[other].type, Unspecified)]
     IN  Holding(IF o = other THEN moved ELSE [moved EXCEPT ![o] = held[other]])

Misuse(o) ==
  /\ ~misused
  /\ Lives(o) /\ IsGone(o)
  /\ misused' = TRUE
  /\ UNCHANGED held

End(o) == Lives(o) /\ Holding([held EXCEPT ![o] = None])

Next ==
  \E o \in Objects :
    \/ \E t \in Types, v \in Values : Make(o, t, v) \/ Give(o, t, v)
    \/ \E t \in Types : Lose(o, t)
    \/ \E other \in Objects : Copy(o, other) \/ Move(o, other)
    \/ Misuse(o)
    \/ End(o)

Spec == Init /\ [][Next]_taggedVars
===============================================================================
