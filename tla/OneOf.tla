--------------------------------- MODULE OneOf --------------------------------
(***************************************************************************)
(* util::OneOf (one_of.h): a union of a T1 and a T2 with a tag and a       *)
(* destroyer for each of them.  The two types are treated alike, so an     *)
(* operation has the type it is about as a parameter.  A copy may throw; a *)
(* move does not.  Nothing is left of an object whose constructor throws.  *)
(* An assignment that throws can leave a tag whose T is destroyed: to use   *)
(* that T is undefined behaviour, which ends a behaviour.                  *)
(***************************************************************************)
CONSTANTS Objects,   \* where a OneOf can be
          Values,    \* what a T1 or a T2 can be
          Unspecified  \* what it is after std::move

Types == {"first", "second"}

Other(t) == IF t = "first" THEN "second" ELSE "first"

Contents == Values \cup {Unspecified}

Nobody == [type |-> "none", value |-> Unspecified]

VARIABLES built,          \* the objects that are constructed
          payload_type,   \* payload_type_
          member,         \* the T1 or T2 that is alive in the union, or Nobody
          armed,          \* the types whose destroyer has a pointer
          fault           \* the undefined behaviour reached, or "none"

oneOfVars == <<built, payload_type, member, armed, fault>>

Faults == {"none", "destroyed_member"}

-----------------------------------------------------------------------------
(* What an operation does, as functions of one object. *)

Object(p, m, a) == [payload_type |-> p, member |-> m, armed |-> a]

At(o) == Object(payload_type[o], member[o], armed[o])

(* reset() of a destroyer with nullptr, and with a pointer to the storage: *)
(* what it pointed to before is destroyed.                                 *)
Disarmed(ob, t) ==
  Object(ob.payload_type, IF t \in ob.armed THEN Nobody ELSE ob.member, ob.armed \ {t})

Armed(ob, t) ==
  Object(ob.payload_type, IF t \in ob.armed THEN Nobody ELSE ob.member, ob.armed \cup {t})

New(ob, t, v) == [ob EXCEPT !.member = [type |-> t, value |-> v]]

(* x_destroyer_.reset(new (&x_) T1(x)) *)
Emplace(ob, t, v) == Armed(New(ob, t, v), t)

Mut_ClearedKeeps(ob, t) == ob

(* Room for a T: the other member is destroyed. *)
Cleared(ob, t) == Disarmed(ob, Other(t))

(* The assignment of a T to the member, which must be alive. *)
Overwrite(ob, v) == [ob EXCEPT !.member.value = v]

Mut_AssignedKeepsTag(ob, t, v) ==
  IF ob.payload_type # t THEN Emplace(Cleared(ob, t), t, v) ELSE Overwrite(ob, v)

Assigned(ob, t, v) ==
  IF ob.payload_type # t
  THEN [Emplace(Cleared(ob, t), t, v) EXCEPT !.payload_type = t]
  ELSE Overwrite(ob, v)

Mut_AssignmentsThrownTagged(ob, t) ==
  IF ob.payload_type # t THEN {[Cleared(ob, t) EXCEPT !.payload_type = t]}
                         ELSE {Overwrite(ob, v) : v \in Contents}

(* The copy throws.  A copy assignment of a T may leave any value. *)
AssignmentsThrown(ob, t) ==
  IF ob.payload_type # t THEN {Cleared(ob, t)} ELSE {Overwrite(ob, v) : v \in Contents}

Constructed(t, v) ==
  Emplace(Object(t, Nobody, {}), t, v)

(* The T the tag names can be read and assigned. *)
HasValue(o) == member[o].type = payload_type[o]

(* What is read as the T the tag names, which must be alive. *)
Read(o) == member[o].value

(* A T stays alive when it is moved from. *)
AfterMove(o) == [member[o] EXCEPT !.value = Unspecified]

-----------------------------------------------------------------------------
Init ==
  /\ built = {}
  /\ payload_type = [o \in Objects |-> "first"]
  /\ member = [o \in Objects |-> Nobody]
  /\ armed = [o \in Objects |-> {}]
  /\ fault = "none"

Becomes(o, ob) ==
  /\ fault = "none"
  /\ payload_type' = [payload_type EXCEPT ![o] = ob.payload_type]
  /\ member' = [member EXCEPT ![o] = ob.member]
  /\ armed' = [armed EXCEPT ![o] = ob.armed]
  /\ UNCHANGED fault

(* OneOf(x), for a reference of either kind. *)
Construct(o, t, v) ==
  /\ o \notin built
  /\ built' = built \cup {o}
  /\ Becomes(o, Constructed(t, v))

Assign(o, t, v) ==
  /\ o \in built
  /\ payload_type[o] = t => HasValue(o)
  /\ Becomes(o, Assigned(At(o), t, v))
  /\ UNCHANGED built

AssignThrows(o, t) ==
  /\ o \in built
  /\ payload_type[o] = t => HasValue(o)
  /\ \E ob \in AssignmentsThrown(At(o), t) : Becomes(o, ob)
  /\ UNCHANGED built

(* The copy constructor reads the member of the other's type; operator=    *)
(* calls Assign with it, and throws as that does.                          *)
CopyConstruct(o, other) ==
  /\ other \in built /\ HasValue(other)
  /\ Construct(o, payload_type[other], Read(other))

CopyAssign(o, other) ==
  /\ other \in built /\ HasValue(other)
  /\ Assign(o, payload_type[other], Read(other))

Moves(o, ob, other) ==
  /\ fault = "none"
  /\ payload_type' = [payload_type EXCEPT ![o] = ob.payload_type]
  /\ member' = [member EXCEPT ![other] = AfterMove(other), ![o] = ob.member]
  /\ armed' = [armed EXCEPT ![o] = ob.armed]
  /\ UNCHANGED fault

MoveConstruct(o, other) ==
  /\ o \notin built
  /\ other \in built /\ HasValue(other)
  /\ built' = built \cup {o}
  /\ Moves(o, Constructed(payload_type[other], Read(other)), other)

(* What a T is after it is moved to itself is not specified either. *)
MoveAssign(o, other) ==
  /\ o \in built
  /\ other \in built /\ HasValue(other)
  /\ LET t == payload_type[other]
     IN  /\ payload_type[o] = t => HasValue(o)
         /\ IF o = other THEN Becomes(o, Assigned(At(o), t, Unspecified))
                         ELSE Moves(o, Assigned(At(o), t, Read(other)), other)
  /\ UNCHANGED built

(* The other outcome of the assignments, copies and moves: they assign to, *)
(* copy from or move from the T the tag names, and it is destroyed.        *)
UseDestroyed(o) ==
  /\ fault = "none"
  /\ o \in built
  /\ ~HasValue(o)
  /\ fault' = "destroyed_member"
  /\ UNCHANGED <<built, payload_type, member, armed>>

(* ~OneOf: the destroyers do the work. *)
Destroy(o) ==
  /\ o \in built
  /\ built' = built \ {o}
  /\ Becomes(o, Disarmed(Disarmed(At(o), "second"), "first"))

Next ==
  \E o \in Objects :
    \/ \E t \in Types, v \in Values : Construct(o, t, v) \/ Assign(o, t, v)
    \/ \E t \in Types : AssignThrows(o, t)
    \/ \E other \in Objects : CopyConstruct(o, other) \/ CopyAssign(o, other)
                                \/ MoveConstruct(o, other) \/ MoveAssign(o, other)
    \/ UseDestroyed(o)
    \/ Destroy(o)

Spec == Init /\ [][Next]_oneOfVars

-----------------------------------------------------------------------------
TypeOK ==
  /\ built \subseteq Objects
  /\ payload_type \in [Objects -> Types]
  /\ member \in [Objects -> [type : Types, value : Contents] \cup {Nobody}]
  /\ armed \in [Objects -> SUBSET Types]
  /\ fault \in Faults

(* Of the two destroyers at most one has a pointer, and it is that of what *)
(* is alive in the union: every T1 and T2 is destroyed once, by the        *)
(* destructor of its own type, however the object was constructed,         *)
(* assigned, moved or left by an exception; and nothing outlives its       *)
(* object (one_of.h:33-111, 131, 163-167).                                 *)
DestroyersMatch ==
  \A o \in Objects :
    armed[o] = IF o \in built /\ member[o] # Nobody THEN {member[o].type} ELSE {}

(* What is alive is what the tag says (one_of.h:123-129). *)
TagMatches ==
  \A o \in built : member[o] # Nobody => member[o].type = payload_type[o]

(* What the user of the objects sees. *)
Showing(ob) ==
  [type |-> ob.payload_type, holds |-> IF ob.member = Nobody THEN "nothing" ELSE "value",
   value |-> ob.member.value]

Shows(o) ==
  IF o \in built THEN Showing(At(o)) ELSE [type |-> "none", holds |-> "nothing", value |-> Unspecified]

Tagged == INSTANCE TaggedValue WITH held <- [o \in Objects |-> Shows(o)],
                                    misused <- fault # "none"

(* Whatever is done with the storage, the tags and the destroyers, the     *)
(* objects behave as values of one of two types: what is assigned, copied  *)
(* or moved arrives, and an assignment that throws takes neither the tag   *)
(* of an object nor the value of another.  It can take the object's own    *)
(* value; from then on the object is only good for a value of the other    *)
(* type and for its destructor, anything else is undefined behaviour, and  *)
(* no other way leads to that (one_of.h:25-111).                           *)
ImplementsTaggedValue == Tagged!Spec
===============================================================================
