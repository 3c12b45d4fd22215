------------------------------- MODULE Memory ---------------------------------
(***************************************************************************)
(* Messages, and the pools and PoolPtrs of memory.h, under the C++         *)
(* statements of a client.  What the client executes is code, the          *)
(* statements left, and every statement is one action: what holds between  *)
(* two statements is visible.                                              *)
(*                                                                         *)
(* An object is its place: 1, 2, ... on the arena, which gives the same    *)
(* places out again after a reset, and -1, -2, ... on the C++ heap.  A     *)
(* message has a type, its scalars (val) and, per field, the messages it   *)
(* points to (kids).  A singular field is a sequence of at most one.       *)
(***************************************************************************)
EXTENDS Integers, SequencesExt

CONSTANTS Schema,    \* message type |-> its fields that hold messages, in order
          Pooled     \* the types PoolTuple has a pool for

Types == DOMAIN Schema

ASSUME PooledAssumption == Pooled \subseteq Types

VARIABLES type,      \* object |-> message type
          val,       \* object |-> its scalars
          kids,      \* object |-> field |-> objects it points to
          top,       \* places of the arena given out since its last reset
          low,       \* places of the heap given out
          pool,      \* Pool::data_, per pooled type
          reg,       \* local |-> object it points to
          held,      \* the locals that own it: PoolPtrs, released pointers
          code,      \* the statements left of the current call
          fault      \* the undefined behaviour reached, or "none"

messages == <<type, val, kids, top, low>>

memVars == <<messages, pool, reg, held, code, fault>>

Objects == DOMAIN type

Unset == [type |-> "TYPE_NOT_SET"]

Fields(t) == {Schema[t][n] : n \in DOMAIN Schema[t]}

Childless(t) == [f \in Fields(t) |-> <<>>]

(***************************************************************************)
(* Statements.  A statement uses the locals x, y, o and p and sets the     *)
(* local "to"; f and g are fields of what o and p point to.                *)
(***************************************************************************)
(* to = Allocate<t>() *)
Allocate(t, to) == [op |-> "Allocate", type |-> t, to |-> to]

(* to = std::move(x) *)
Move(x, to) == [op |-> "Move", x |-> x, to |-> to]

(* ~x() *)
Destroy(x) == [op |-> "Destroy", x |-> x]

(* to = WrapPoolPtr(o->release_f()) *)
Take(o, f, to) == [op |-> "Take", o |-> o, f |-> f, to |-> to]

(* to = o->release_f() *)
Release(o, f, to) == [op |-> "Release", o |-> o, f |-> f, to |-> to]

(* o->set_allocated_f(x.release()) *)
Give(x, o, f) == [op |-> "Give", x |-> x, o |-> o, f |-> f]

(* to = o->add_f() *)
Add(o, f, t, to) == [op |-> "Add", o |-> o, f |-> f, type |-> t, to |-> to]

(* to = o->mutable_f(i) *)
Point(to, o, f, i) == [op |-> "Point", to |-> to, o |-> o, f |-> f, i |-> i]

(* the oneof of x switches to v; a field of x that is none becomes v *)
Write(x, v) == [op |-> "Write", x |-> x, val |-> v]

Set(x, v) == [op |-> "Set", x |-> x, val |-> v]

(* x->UnsafeArenaSwap(y), and of one field each *)
Swap(x, y) == [op |-> "Swap", x |-> x, y |-> y]

SwapField(o, f, p, g) == [op |-> "SwapField", o |-> o, f |-> f, p |-> p, g |-> g]

(* allocator->Copy( *x, y), and *y = *x; depth tells apart the locals of   *)
(* the recursion                                                           *)
Copy(x, y) == [op |-> "Copy", x |-> x, y |-> y, depth |-> 0]

CopyAssign(x, y) == [op |-> "Assign", x |-> x, y |-> y, depth |-> 0]

(* to = CreateMessage<t>(&arena_), or t to; for one on the C++ stack *)
Make(t, to, in_arena) == [op |-> "Make", type |-> t, to |-> to, in_arena |-> in_arena]

(* allocator->Reset() *)
Reset == [op |-> "Reset"]

(* the block ends: only x is still in scope *)
Leave(x) == [op |-> "Leave", x |-> x]

(* From field f of o to field g of p, through a temporary. *)
tmp(f) == <<"tmp", f>>

Transfer(o, f, p, g) == <<Release(o, f, tmp(f)), Give(tmp(f), p, g)>>

-----------------------------------------------------------------------------
At(op) == code # <<>> /\ fault = "none" /\ Head(code).op = op

I == Head(code)

Continue == code' = Tail(code) /\ UNCHANGED fault

Fail(kind) ==
  /\ fault' = kind
  /\ UNCHANGED <<messages, pool, reg, held, code>>

(* The local x now points to object o. *)
Pointing(x, o) == [y \in DOMAIN reg \cup {x} |-> IF y = x THEN o ELSE reg[y]]

Of(o, f) == kids[reg[o]][f]

(***************************************************************************)
(* Pool and PoolPtr.                                                       *)
(***************************************************************************)
Extended(F, o, v) == [p \in DOMAIN F \cup {o} |-> IF p = o THEN v ELSE F[p]]

NewMessage(o, t, k) ==
  /\ type' = Extended(type, o, t)
  /\ val' = Extended(val, o, Unset)
  /\ kids' = Extended(k, o, Childless(t))
  /\ top' = IF o > 0 THEN o ELSE top
  /\ low' = IF o > 0 THEN low ELSE 0 - o

NewPlace(in_arena) == IF in_arena THEN top + 1 ELSE 0 - (low + 1)

CreateOnArena ==
  /\ At("Allocate")
  /\ pool[I.type] = <<>>
  /\ NewMessage(top + 1, I.type, kids)
  /\ reg' = Pointing(I.to, top + 1)
  /\ held' = held \cup {I.to}
  /\ UNCHANGED pool
  /\ Continue

Mut_HandOutDirty ==
  /\ At("Allocate")
  /\ pool[I.type] # <<>>
  /\ pool' = [pool EXCEPT ![I.type] = Front(@)]
  /\ reg' = Pointing(I.to, Last(pool[I.type]))
  /\ held' = held \cup {I.to}
  /\ UNCHANGED messages
  /\ Continue

(* An object comes back with what it was last used for, and is cleared. *)
RemoveFromPool ==
  /\ At("Allocate")
  /\ pool[I.type] # <<>>
  /\ LET o == Last(pool[I.type])
     IN  /\ reg' = Pointing(I.to, o)
         /\ val' = [val EXCEPT ![o] = Unset]
         /\ kids' = [kids EXCEPT ![o] = Childless(I.type)]
  /\ pool' = [pool EXCEPT ![I.type] = Front(@)]
  /\ held' = held \cup {I.to}
  /\ UNCHANGED <<type, top, low>>
  /\ Continue

(* Move construction and move assignment: y forgets what it owned. *)
MovePoolPtr ==
  /\ At("Move")
  /\ reg' = Pointing(I.to, reg[I.x])
  /\ held' = IF I.x \in held THEN (held \ {I.x}) \cup {I.to} ELSE held \ {I.to}
  /\ UNCHANGED <<messages, pool>>
  /\ Continue

Mut_ResetDropsIt ==
  /\ At("Destroy")
  /\ held' = held \ {I.x}
  /\ UNCHANGED <<messages, pool, reg>>
  /\ Continue

DestroyPoolPtr ==
  /\ At("Destroy")
  /\ pool' = IF I.x \in held
             THEN [pool EXCEPT ![type[reg[I.x]]] = Append(@, reg[I.x])]
             ELSE pool
  /\ held' = held \ {I.x}
  /\ UNCHANGED <<messages, reg>>
  /\ Continue

(***************************************************************************)
(* Fields.  Releasing the last element of an empty one is undefined.       *)
(***************************************************************************)
Mut_WrapWithoutRelease ==
  /\ At("Take")
  /\ Of(I.o, I.f) # <<>>
  /\ reg' = Pointing(I.to, Last(Of(I.o, I.f)))
  /\ held' = held \cup {I.to}
  /\ UNCHANGED <<messages, pool>>
  /\ Continue

WrapPoolPtr ==
  /\ At("Take")
  /\ Of(I.o, I.f) # <<>>
  /\ reg' = Pointing(I.to, Last(Of(I.o, I.f)))
  /\ kids' = [kids EXCEPT ![reg[I.o]][I.f] = Front(@)]
  /\ held' = held \cup {I.to}
  /\ UNCHANGED <<type, val, top, low, pool>>
  /\ Continue

ReleaseRaw ==
  /\ At("Release")
  /\ Of(I.o, I.f) # <<>>
  /\ reg' = Pointing(I.to, Last(Of(I.o, I.f)))
  /\ kids' = [kids EXCEPT ![reg[I.o]][I.f] = Front(@)]
  /\ held' = held \cup {I.to}
  /\ UNCHANGED <<type, val, top, low, pool>>
  /\ Continue

ReleaseNothing ==
  /\ At("Take") \/ At("Release")
  /\ Of(I.o, I.f) = <<>>
  /\ Fail(IF I.f = "saved_ctx" THEN "saved_ctx_underflow" ELSE "result_underflow")

AddAllocated ==
  /\ At("Give")
  /\ kids' = [kids EXCEPT ![reg[I.o]][I.f] = Append(@, reg[I.x])]
  /\ held' = held \ {I.x}
  /\ UNCHANGED <<type, val, top, low, pool, reg>>
  /\ Continue

(* A child lives where its parent does. *)
AddNew ==
  /\ At("Add")
  /\ LET new == NewPlace(reg[I.o] > 0)
     IN  /\ NewMessage(new, I.type, [kids EXCEPT ![reg[I.o]][I.f] = Append(@, new)])
         /\ reg' = Pointing(I.to, new)
  /\ UNCHANGED <<pool, held>>
  /\ Continue

MakeMessage ==
  /\ At("Make")
  /\ NewMessage(NewPlace(I.in_arena), I.type, kids)
  /\ reg' = Pointing(I.to, NewPlace(I.in_arena))
  /\ UNCHANGED <<pool, held>>
  /\ Continue

PointInto ==
  /\ At("Point")
  /\ I.i \in DOMAIN Of(I.o, I.f)
  /\ reg' = Pointing(I.to, Of(I.o, I.f)[I.i])
  /\ UNCHANGED <<messages, pool, held>>
  /\ Continue

PointOutside ==
  /\ At("Point")
  /\ I.i \notin DOMAIN Of(I.o, I.f)
  /\ Fail("store_out_of_range")

(* Another case of a oneof: what the old one held is dropped. *)
WriteScalars ==
  /\ At("Write")
  /\ val' = [val EXCEPT ![reg[I.x]] = I.val]
  /\ kids' = [kids EXCEPT ![reg[I.x]] = Childless(type[reg[I.x]])]
  /\ UNCHANGED <<type, top, low, pool, reg, held>>
  /\ Continue

SetScalars ==
  /\ At("Set")
  /\ val' = [val EXCEPT ![reg[I.x]] = I.val]
  /\ UNCHANGED <<type, kids, top, low, pool, reg, held>>
  /\ Continue

SwapMessages ==
  /\ At("Swap")
  /\ val' = [val EXCEPT ![reg[I.x]] = val[reg[I.y]], ![reg[I.y]] = val[reg[I.x]]]
  /\ kids' = [kids EXCEPT ![reg[I.x]] = kids[reg[I.y]], ![reg[I.y]] = kids[reg[I.x]]]
  /\ UNCHANGED <<type, top, low, pool, reg, held>>
  /\ Continue

SwapFields ==
  /\ At("SwapField")
  /\ kids' = [kids EXCEPT ![reg[I.o]][I.f] = Of(I.p, I.g), ![reg[I.p]][I.g] = Of(I.o, I.f)]
  /\ UNCHANGED <<type, val, top, low, pool, reg, held>>
  /\ Continue

(***************************************************************************)
(* Copies.  One statement for the scalars, then two or three per child:    *)
(* PoolingArenaAllocator::Copy allocates the children whose type has a     *)
(* pool, the operator= of a message makes them all anew.                   *)
(***************************************************************************)
Child(f) == <<"child", I.depth, f>>

CopyOfChild(f) == <<"copy of", I.depth, f>>

CopyOfThat(f) == [I EXCEPT !.x = Child(f), !.y = CopyOfChild(f), !.depth = @ + 1]

PooledCopy(f, i, k) ==
  <<Point(Child(f), I.x, f, i), Allocate(type[k], CopyOfChild(f)),
    CopyOfThat(f), Give(CopyOfChild(f), I.y, f)>>

PlainCopy(f, i, k) ==
  <<Point(Child(f), I.x, f, i), Add(I.y, f, type[k], CopyOfChild(f)), CopyOfThat(f)>>

CopyOfField(f) ==
  FlattenSeq([i \in DOMAIN Of(I.x, f) |->
                LET k == Of(I.x, f)[i]
                IN  IF I.op = "Copy" /\ type[k] \in Pooled THEN PooledCopy(f, i, k)
                                                          ELSE PlainCopy(f, i, k)])

CopyChildren ==
  LET fields == Schema[type[reg[I.x]]]
  IN  FlattenSeq([n \in DOMAIN fields |-> CopyOfField(fields[n])])

CopyMessage ==
  /\ At("Copy") \/ At("Assign")
  /\ val' = [val EXCEPT ![reg[I.y]] = val[reg[I.x]]]
  /\ code' = CopyChildren \o Tail(code)
  /\ UNCHANGED <<type, kids, top, low, pool, reg, held, fault>>

(***************************************************************************)
(* PoolingArenaAllocator::Reset, and the end of a block.                   *)
(***************************************************************************)
OnHeap == {o \in Objects : o < 0}

OnArena == Objects \ OnHeap

Keep(F, S) == [o \in S |-> F[o]]

Mut_ResetKeepsAPool ==
  /\ At("Reset")
  /\ type' = Keep(type, OnHeap) /\ val' = Keep(val, OnHeap) /\ kids' = Keep(kids, OnHeap)
  /\ top' = 0
  /\ pool' = [t \in Pooled |-> IF t = "LocalContext" THEN pool[t] ELSE <<>>]
  /\ UNCHANGED <<low, reg, held>>
  /\ Continue

ResetArena ==
  /\ At("Reset")
  /\ type' = Keep(type, OnHeap) /\ val' = Keep(val, OnHeap) /\ kids' = Keep(kids, OnHeap)
  /\ top' = 0
  /\ pool' = [t \in Pooled |-> <<>>]
  /\ UNCHANGED <<low, reg, held>>
  /\ Continue

LeaveBlock ==
  /\ At("Leave")
  /\ type' = Keep(type, OnArena) /\ val' = Keep(val, OnArena) /\ kids' = Keep(kids, OnArena)
  /\ low' = 0
  /\ reg' = Keep(reg, {I.x})
  /\ held' = {}
  /\ UNCHANGED <<top, pool>>
  /\ Continue

Execute ==
  \/ CreateOnArena \/ RemoveFromPool \/ MovePoolPtr \/ DestroyPoolPtr
  \/ WrapPoolPtr \/ ReleaseRaw \/ ReleaseNothing \/ AddAllocated
  \/ AddNew \/ MakeMessage \/ PointInto \/ PointOutside
  \/ WriteScalars \/ SetScalars \/ SwapMessages \/ SwapFields
  \/ CopyMessage \/ ResetArena \/ LeaveBlock

(***************************************************************************)
(* What the allocator and the unsafe_arena functions ask of their client:  *)
(* a pointer it uses points to something, it gives away what it owns, a    *)
(* local that owns something is not assigned to (memory.h:78), nothing is  *)
(* shared between arena and heap, nothing is owned at the time of a Reset, *)
(* and nothing that has a pool at the end of a block.                      *)
(***************************************************************************)
Operands(op) ==
  CASE op \in {"Allocate", "Make"}               -> {"type", "to"}
    [] op = "Move"                               -> {"x", "to"}
    [] op \in {"Destroy", "Write", "Set", "Leave"} -> {"x"}
    [] op \in {"Take", "Release"}                -> {"o", "f", "to"}
    [] op = "Give"                               -> {"x", "o", "f"}
    [] op = "Add"                                -> {"o", "f", "type", "to"}
    [] op = "Point"                              -> {"o", "f", "i", "to"}
    [] op \in {"Swap", "Copy", "Assign"}         -> {"x", "y"}
    [] op = "SwapField"                          -> {"o", "f", "p", "g"}
    [] OTHER                                     -> {}

Used == {I[k] : k \in DOMAIN I \cap {"x", "y", "o", "p"}}

FieldsOf(x) == Fields(type[reg[x]])

Fits(op) ==
  CASE op = "Allocate"  -> I.type \in Pooled
    [] op = "Make"      -> I.in_arena \in BOOLEAN
    [] op = "Destroy"   -> I.x \in held => type[reg[I.x]] \in Pooled
    [] op = "Take"      -> /\ reg[I.o] > 0
                           /\ \A i \in DOMAIN Of(I.o, I.f) : type[Of(I.o, I.f)[i]] \in Pooled
    [] op = "Release"   -> reg[I.o] > 0
    [] op = "Give"      -> reg[I.o] > 0 /\ I.x \in held
    [] op = "Swap"      -> reg[I.x] > 0 /\ reg[I.y] > 0 /\ type[reg[I.x]] = type[reg[I.y]]
    [] op = "SwapField" -> reg[I.o] > 0 /\ reg[I.p] > 0 /\ I.g \in FieldsOf(I.p)
    [] op = "Reset"     -> held = {}
    [] op = "Leave"     -> reg[I.x] > 0 /\ \A x \in held : type[reg[x]] \notin Pooled
    [] OTHER            -> TRUE

Contract ==
  code # <<>> /\ fault = "none" =>
    /\ Operands(I.op) \subseteq DOMAIN I
    /\ Used \subseteq DOMAIN reg
    /\ \A x \in Used : reg[x] \in Objects
    /\ "type" \in DOMAIN I => I.type \in Types
    /\ "f" \in DOMAIN I => I.f \in FieldsOf(I.o)
    /\ "to" \in DOMAIN I => I.to \notin held
    /\ Fits(I.op)

(***************************************************************************)
(* Properties.                                                             *)
(***************************************************************************)
(* What a pool, an owner or a message points to is there: a Reset that      *)
(* leaves a pointer behind, in a pool or in a PoolPtr, breaks this.  A pool *)
(* has objects of its own type, and a child lives where its parent does.    *)
PointersValid ==
  /\ \A t \in Pooled : \A i \in DOMAIN pool[t] :
       pool[t][i] \in OnArena /\ type[pool[t][i]] = t
  /\ \A x \in held : x \in DOMAIN reg /\ reg[x] \in OnArena
  /\ \A o \in Objects : \A f \in Fields(type[o]) : \A i \in DOMAIN kids[o][f] :
       kids[o][f][i] \in Objects /\ (o > 0 <=> kids[o][f][i] > 0)

(* Places of a message that hold another one. *)
Places ==
  UNION {UNION {{<<o, f, i>> : i \in DOMAIN kids[o][f]} : f \in Fields(type[o])} :
           o \in Objects}

ObjectAt(place) == kids[place[1]][place[2]][place[3]]

InPools == UNION {{pool[t][i] : i \in DOMAIN pool[t]} : t \in Pooled}

InHands == {reg[x] : x \in held}

InMessages == {ObjectAt(place) : place \in Places}

(* An object has one owner: a place of a pool, a PoolPtr or a message.      *)
(* Whatever is in a pool may be handed out again, so a second owner would   *)
(* see its object cleared and filled with something else, arbitrarily       *)
(* later.                                                                   *)
OneOwner ==
  /\ \A t, u \in Pooled : \A i \in DOMAIN pool[t], j \in DOMAIN pool[u] :
       pool[t][i] = pool[u][j] => t = u /\ i = j
  /\ \A x, y \in held : reg[x] = reg[y] => x = y
  /\ \A a, b \in Places : ObjectAt(a) = ObjectAt(b) => a = b
  /\ InPools \cap InHands = {}
  /\ InPools \cap InMessages = {}
  /\ InHands \cap InMessages = {}

(* Nothing with a pool is forgotten: what a PoolPtr or a released pointer   *)
(* owns is next owned by another, in its pool or in a message.  A move      *)
(* assignment to a PoolPtr that owns something would lose it (memory.h:78). *)
NothingForgotten ==
  [][\A x \in held : type[reg[x]] \in Pooled =>
       reg[x] \in (InPools \cup InHands \cup InMessages)']_memVars
===============================================================================
