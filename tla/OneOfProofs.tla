------------------------------ MODULE OneOfProofs -----------------------------
(***************************************************************************)
(* Proofs about OneOf, for any set of objects and of values.               *)
(***************************************************************************)
EXTENDS OneOf, TLAPS

(***************************************************************************)
(* What one object looks like between two operations.                      *)
(***************************************************************************)
Shapes == [payload_type : Types, member : [type : Types, value : Contents] \cup {Nobody},
           armed : SUBSET Types]

Sound(ob) ==
  /\ ob \in Shapes
  /\ ob.armed = IF ob.member = Nobody THEN {} ELSE {ob.member.type}
  /\ ob.member # Nobody => ob.member.type = ob.payload_type

Alive(t, v) == [type |-> t, value |-> v]

(* What is alive is somebody (one_of.h:137-140). *)
LEMMA AliveIsSomebody ==
  ASSUME NEW t \in Types, NEW v \in Contents
  PROVE  /\ Alive(t, v) \in [type : Types, value : Contents]
         /\ Alive(t, v).type = t
         /\ Alive(t, v) # Nobody
         /\ Nobody.type # t
<1>1. "none" # t
  BY DEF Types
<1>2. Alive(t, v).type = t /\ Nobody.type = "none"
  BY DEF Alive, Nobody
<1>. QED  BY <1>1, <1>2 DEF Alive

(* The sound objects (one_of.h:135-143). *)
LEMMA SoundObjects ==
  /\ \A p \in Types, v \in Contents : Sound(Object(p, Alive(p, v), {p}))
  /\ \A p \in Types : Sound(Object(p, Nobody, {}))
<1>1. ASSUME NEW p \in Types, NEW v \in Contents
      PROVE  Sound(Object(p, Alive(p, v), {p}))
  <2>1. Object(p, Alive(p, v), {p}) \in Shapes
    BY AliveIsSomebody DEF Object, Shapes
  <2>2. /\ Object(p, Alive(p, v), {p}).payload_type = p
        /\ Object(p, Alive(p, v), {p}).member = Alive(p, v)
        /\ Object(p, Alive(p, v), {p}).armed = {p}
    BY DEF Object
  <2>. QED  BY <2>1, <2>2, AliveIsSomebody DEF Sound
<1>2. ASSUME NEW p \in Types
      PROVE  Sound(Object(p, Nobody, {}))
  BY DEF Object, Shapes, Sound
<1>. QED  BY <1>1, <1>2

(* There are no others. *)
LEMMA SoundCases ==
  ASSUME NEW ob, Sound(ob)
  PROVE  /\ ob.payload_type \in Types
         /\ ob = Object(ob.payload_type, ob.member, ob.armed)
         /\ \/ ob.member = Nobody /\ ob.armed = {}
            \/ \E v \in Contents : /\ ob.member = Alive(ob.payload_type, v)
                                   /\ ob.armed = {ob.payload_type}
<1>1. ob \in Shapes
  BY DEF Sound
<1>2. ob = Object(ob.payload_type, ob.member, ob.armed) /\ ob.payload_type \in Types
  BY <1>1 DEF Shapes, Object
<1>3. CASE ob.member = Nobody
  BY <1>2, <1>3 DEF Sound
<1>4. CASE ob.member # Nobody
  <2>1. ob.member \in [type : Types, value : Contents]
    BY <1>1, <1>4 DEF Shapes
  <2>2. ob.member.type = ob.payload_type /\ ob.armed = {ob.payload_type}
    BY <1>4 DEF Sound
  <2>3. ob.member = Alive(ob.payload_type, ob.member.value) /\ ob.member.value \in Contents
    BY <2>1, <2>2 DEF Alive
  <2>. QED  BY <1>2, <2>2, <2>3
<1>. QED  BY <1>3, <1>4

(***************************************************************************)
(* What the operations make of a sound object.                             *)
(***************************************************************************)
(* A destroyer with a pointer destroys; without one it does nothing        *)
(* (one_of.h:158-167).                                                     *)
LEMMA ResetObj ==
  ASSUME NEW ob, NEW p, NEW m, NEW a, ob = Object(p, m, a), NEW t
  PROVE  /\ Disarmed(ob, t) = Object(p, IF t \in a THEN Nobody ELSE m, a \ {t})
         /\ Armed(ob, t) = Object(p, IF t \in a THEN Nobody ELSE m, a \cup {t})
<1>1. ob.member = m /\ ob.armed = a
  BY DEF Object
<1>2. ob.payload_type = p
  BY DEF Object
<1>. QED  BY <1>1, <1>2 DEF Disarmed, Armed

(* After the other member is destroyed the new one is alone                *)
(* (one_of.h:35-36).                                                       *)
LEMMA EmplaceObj ==
  ASSUME NEW p, NEW m, NEW t, NEW v
  PROVE  Emplace(Object(p, m, {}), t, v) = Object(p, Alive(t, v), {t})
<1>1. New(Object(p, m, {}), t, v) = Object(p, Alive(t, v), {})
  BY DEF New, Object, Alive
<1>2. Armed(New(Object(p, m, {}), t, v), t) = Object(p, Alive(t, v), {} \cup {t})
  BY <1>1, ResetObj, t \notin {}
<1>. QED  BY <1>2 DEF Emplace

(* A constructor makes a sound object (one_of.h:25-32, 54-61).  *)
LEMMA ConstructedIsSound ==
  ASSUME NEW t \in Types, NEW v \in Contents
  PROVE  Constructed(t, v) = Object(t, Alive(t, v), {t}) /\ Sound(Constructed(t, v))
<1>1. Constructed(t, v) = Emplace(Object(t, Nobody, {}), t, v)
  BY DEF Constructed, Object
<1>. QED  BY <1>1, EmplaceObj, SoundObjects

(* Before a value of the other type is put in, the object is empty         *)
(* (one_of.h:35).                                                          *)
LEMMA ClearedIsEmpty ==
  ASSUME NEW ob, Sound(ob), NEW t \in Types, ob.payload_type # t
  PROVE  Cleared(ob, t) = Object(ob.payload_type, Nobody, {})
<1>1. ob.payload_type = Other(t)
  BY SoundCases DEF Other, Types
<1>2. ob.armed \subseteq {Other(t)} /\ (Other(t) \notin ob.armed => ob.member = Nobody)
  BY <1>1, SoundCases
<1>3. Cleared(ob, t) = Object(ob.payload_type,
                          IF Other(t) \in ob.armed THEN Nobody ELSE ob.member,
                          ob.armed \ {Other(t)})
  BY DEF Cleared, Disarmed
<1>. QED  BY <1>2, <1>3

(* A sound object stays so when a value is assigned, and then holds it: a  *)
(* value of the tag's type is assigned only where one is alive             *)
(* (one_of.h:33-53, 62-81).                                                *)
LEMMA AssignedIsSound ==
  ASSUME NEW ob, Sound(ob), NEW t \in Types, NEW v \in Contents,
         ob.payload_type = t => ob.member # Nobody
  PROVE  /\ Sound(Assigned(ob, t, v))
         /\ Assigned(ob, t, v) = Object(t, Alive(t, v), {t})
<1>1. CASE ob.payload_type = t
  <2>1. PICK w \in Contents : ob.member = Alive(t, w) /\ ob.armed = {t}
    BY <1>1, SoundCases
  <2>2. Assigned(ob, t, v) = [ob EXCEPT !.member.value = v]
    BY <1>1 DEF Assigned, Overwrite
  <2>3. ob = Object(t, Alive(t, w), {t})
    BY <1>1, <2>1, SoundCases
  <2>4. Assigned(ob, t, v) = Object(t, Alive(t, v), {t})
    BY <2>2, <2>3 DEF Object, Alive
  <2>. QED  BY <2>4, SoundObjects
<1>2. CASE ob.payload_type # t
  <2>1. Emplace(Cleared(ob, t), t, v) = Object(ob.payload_type, Alive(t, v), {t})
    BY <1>2, ClearedIsEmpty, EmplaceObj
  <2>2. Assigned(ob, t, v) = [Object(ob.payload_type, Alive(t, v), {t}) EXCEPT !.payload_type = t]
    BY <1>2, <2>1 DEF Assigned
  <2>3. Assigned(ob, t, v) = Object(t, Alive(t, v), {t})
    BY <2>2 DEF Object
  <2>. QED  BY <2>3, SoundObjects
<1>. QED  BY <1>1, <1>2

(* An assignment that throws leaves a sound object with the same tag; one  *)
(* of the other type leaves it empty (one_of.h:35-37).                     *)
LEMMA ThrownIsSound ==
  ASSUME NEW ob, Sound(ob), NEW t \in Types, NEW after \in AssignmentsThrown(ob, t),
         ob.payload_type = t => ob.member # Nobody
  PROVE  /\ Sound(after)
         /\ ob.payload_type # t => after = Object(ob.payload_type, Nobody, {})
         /\ ob.payload_type = t => \E v \in Contents : after = Assigned(ob, t, v)
<1>1. CASE ob.payload_type = t
  <2>1. PICK v \in Contents : after = Assigned(ob, t, v)
    BY <1>1 DEF AssignmentsThrown, Assigned
  <2>. QED  BY <1>1, <2>1, AssignedIsSound
<1>2. CASE ob.payload_type # t
  <2>1. after = Object(ob.payload_type, Nobody, {})
    BY <1>2, ClearedIsEmpty DEF AssignmentsThrown
  <2>. QED  BY <1>2, <2>1, SoundObjects, SoundCases
<1>. QED  BY <1>1, <1>2

(* The two destroyers leave nothing of a sound object (one_of.h:131,       *)
(* 142-143, 154).                                                          *)
LEMMA NothingIsLeft ==
  ASSUME NEW ob, Sound(ob)
  PROVE  Disarmed(Disarmed(ob, "second"), "first") = Object(ob.payload_type, Nobody, {})
<1>1. ob = Object(ob.payload_type, ob.member, ob.armed)
  BY SoundCases
<1>2. ob.armed \in {{}, {"first"}, {"second"}} /\ (ob.armed = {} => ob.member = Nobody)
  BY SoundCases DEF Types
<1>3. Disarmed(ob, "second")
        = Object(ob.payload_type, IF "second" \in ob.armed THEN Nobody ELSE ob.member,
              ob.armed \ {"second"})
  BY DEF Disarmed
<1>4. Disarmed(Disarmed(ob, "second"), "first")
        = Object(ob.payload_type,
              IF "first" \in ob.armed \ {"second"} THEN Nobody
              ELSE IF "second" \in ob.armed THEN Nobody ELSE ob.member,
              (ob.armed \ {"second"}) \ {"first"})
  <2>1. PICK c : c = Disarmed(ob, "second")
    OBVIOUS
  <2>2. c = Object(ob.payload_type, IF "second" \in ob.armed THEN Nobody ELSE ob.member,
                   ob.armed \ {"second"})
    BY <1>3, <2>1
  <2>3. /\ c.payload_type = ob.payload_type
        /\ c.member = IF "second" \in ob.armed THEN Nobody ELSE ob.member
        /\ c.armed = ob.armed \ {"second"}
    BY <2>2 DEF Object
  <2>4. Disarmed(c, "first")
          = Object(c.payload_type, IF "first" \in c.armed THEN Nobody ELSE c.member,
                   c.armed \ {"first"})
    BY DEF Disarmed
  <2>. QED  BY <2>1, <2>3, <2>4
<1>. QED  BY <1>2, <1>4

(***************************************************************************)
(* The invariant.                                                          *)
(***************************************************************************)
Inv ==
  /\ TypeOK
  /\ \A o \in Objects : Sound(At(o)) /\ (o \notin built => member[o] = Nobody)

(* The two invariants that are checked follow (one_of.h:123-143). *)
LEMMA InvSuffices == Inv => DestroyersMatch /\ TagMatches
<1>. SUFFICES ASSUME Inv, NEW o \in Objects
              PROVE  /\ armed[o] = IF o \in built /\ member[o] # Nobody THEN {member[o].type} ELSE {}
                     /\ member[o] # Nobody => member[o].type = payload_type[o]
  BY DEF Inv, TypeOK, DestroyersMatch, TagMatches
<1>1. Sound(At(o)) /\ (o \notin built => member[o] = Nobody)
  BY DEF Inv
<1>2. At(o).armed = armed[o] /\ At(o).member = member[o] /\ At(o).payload_type = payload_type[o]
  BY DEF At, Object
<1>. QED  BY <1>1, <1>2 DEF Sound

(* At first nothing is constructed. *)
LEMMA InitInv == Init => Inv
<1>. SUFFICES ASSUME Init PROVE Inv
  OBVIOUS
<1>1. TypeOK
  BY DEF Init, TypeOK, Types, Faults
<1>2. ASSUME NEW o \in Objects PROVE Sound(At(o)) /\ member[o] = Nobody
  <2>1. At(o) = Object("first", Nobody, {}) /\ member[o] = Nobody
    BY DEF Init, At
  <2>. QED  BY <2>1, SoundObjects DEF Types
<1>. QED  BY <1>1, <1>2 DEF Inv

(* An operation on one object that leaves it sound keeps the invariant. *)
LEMMA BecomesKeepsInv ==
  ASSUME Inv, NEW o \in Objects, NEW ob, Sound(ob), Becomes(o, ob),
         built' \subseteq Objects, built' \ {o} = built \ {o},
         o \notin built' => ob.member = Nobody
  PROVE  Inv'
<1>1. /\ payload_type' = [payload_type EXCEPT ![o] = ob.payload_type]
      /\ member' = [member EXCEPT ![o] = ob.member]
      /\ armed' = [armed EXCEPT ![o] = ob.armed]
  BY DEF Becomes
<1>2. ob \in Shapes
  BY DEF Sound
<1>3. TypeOK'
  BY <1>1, <1>2 DEF Inv, TypeOK, Shapes, Becomes
<1>4. ASSUME NEW p \in Objects
      PROVE  Sound(At(p))' /\ (p \notin built' => member'[p] = Nobody)
  <2>1. CASE p = o
    <3>1. /\ payload_type'[p] = ob.payload_type
          /\ member'[p] = ob.member
          /\ armed'[p] = ob.armed
      BY <1>1, <2>1 DEF Inv, TypeOK
    <3>2. At(p)' = ob
      BY <3>1, SoundCases DEF At
    <3>. QED  BY <2>1, <3>1, <3>2
  <2>2. CASE p # o
    <3>1. At(p)' = At(p) /\ member'[p] = member[p] /\ (p \in built' <=> p \in built)
      BY <1>1, <2>2 DEF Inv, TypeOK, At
    <3>. QED  BY <3>1 DEF Inv
  <2>. QED  BY <2>1, <2>2
<1>. QED  BY <1>3, <1>4 DEF Inv

(***************************************************************************)
(* What the user sees.                                                     *)
(***************************************************************************)
Seen == [o \in Objects |-> Shows(o)]

(* An object shows a value of its type, or nothing (one_of.h:113-129). *)
LEMMA WhatIsShown ==
  ASSUME Inv, NEW o \in Objects
  PROVE  /\ Seen[o] = Shows(o)
         /\ o \notin built => Shows(o) = Tagged!None
         /\ o \in built =>
              /\ Shows(o) = Showing(At(o))
              /\ Shows(o) # Tagged!None
              /\ payload_type[o] \in Types
              /\ Shows(o).type = payload_type[o]
              /\ Shows(o).holds = IF member[o] = Nobody THEN "nothing" ELSE "value"
              /\ HasValue(o) <=> member[o] # Nobody
              /\ Read(o) = Shows(o).value
              /\ Read(o) \in Contents
<1>1. Seen[o] = Shows(o) /\ (o \notin built => Shows(o) = Tagged!None)
  BY DEF Seen, Shows, Tagged!None
<1>2. /\ Sound(At(o))
      /\ At(o).payload_type = payload_type[o]
      /\ At(o).member = member[o]
  BY DEF Inv, At, Object
<1>3. /\ Showing(At(o)).type = payload_type[o]
      /\ Showing(At(o)).holds = IF member[o] = Nobody THEN "nothing" ELSE "value"
      /\ Showing(At(o)).value = member[o].value
  BY <1>2 DEF Showing
<1>4. payload_type[o] \in Types
  BY DEF Inv, TypeOK
<1>5. Showing(At(o)) # Tagged!None
  <2>1. Tagged!None.type = "none" /\ "none" \notin Types
    BY DEF Tagged!None, Types
  <2>. QED  BY <2>1, <1>3, <1>4
<1>6. /\ HasValue(o) <=> member[o] # Nobody
      /\ Read(o) = member[o].value
      /\ Read(o) \in Contents
  <2>1. CASE member[o] = Nobody
    <3>1. member[o].value = Unspecified /\ member[o].type # payload_type[o]
      BY <2>1, <1>4 DEF Nobody, Types
    <3>. QED  BY <2>1, <3>1 DEF Read, HasValue, Contents
  <2>2. CASE member[o] # Nobody
    <3>1. PICK v \in Contents : member[o] = Alive(payload_type[o], v)
      BY <1>2, <2>2, SoundCases
    <3>2. member[o].type = payload_type[o] /\ member[o].value = v
      BY <3>1 DEF Alive
    <3>. QED  BY <2>2, <3>2 DEF Read, HasValue
  <2>. QED  BY <2>1, <2>2
<1>. QED  BY <1>1, <1>3, <1>4, <1>5, <1>6 DEF Shows

(* What an operation needs of an object it shows (one_of.h:34, 63, 84, 91). *)
LEMMA WhatIsNeeded ==
  ASSUME Inv, NEW o \in built
  PROVE  /\ Tagged!Lives(o)
         /\ Tagged!IsGone(o) <=> ~HasValue(o)
         /\ Tagged!Gives(o) <=> HasValue(o)
         /\ \A t \in Types : Tagged!Takes(o, t) <=> (payload_type[o] = t => HasValue(o))
<1>1. o \in Objects
  BY DEF Inv, TypeOK
<1>2. /\ Seen[o].type = payload_type[o]
      /\ Seen[o] # Tagged!None
      /\ Seen[o].holds = "nothing" <=> ~HasValue(o)
  BY <1>1, WhatIsShown
<1>3. Tagged!Lives(o) /\ (Tagged!IsGone(o) <=> ~HasValue(o))
  BY <1>2 DEF Tagged!Lives, Tagged!IsGone, Seen
<1>. QED  BY <1>2, <1>3 DEF Tagged!Gives, Tagged!Takes, Seen

(* What is seen of sound objects. *)
LEMMA ShowingObjects ==
  ASSUME NEW t \in Types, NEW v \in Contents
  PROVE  /\ Showing(Object(t, Alive(t, v), {t})) = Tagged!Holds(t, v)
         /\ Showing(Object(t, Nobody, {})) = Tagged!Gone(t)
<1>1. Alive(t, v) # Nobody /\ Alive(t, v).value = v /\ Nobody.value = Unspecified
  BY AliveIsSomebody DEF Alive, Nobody
<1>. QED  BY <1>1 DEF Showing, Object, Tagged!Holds, Tagged!Gone

(* An operation on one object changes what is seen of it only. *)
LEMMA BecomesSeen ==
  ASSUME Inv, NEW o \in Objects, NEW ob, Sound(ob), Becomes(o, ob), built' \ {o} = built \ {o}
  PROVE  Tagged!Holding([Seen EXCEPT ![o] = IF o \in built' THEN Showing(ob) ELSE Tagged!None])
<1>1. /\ payload_type' = [payload_type EXCEPT ![o] = ob.payload_type]
      /\ member' = [member EXCEPT ![o] = ob.member]
      /\ armed' = [armed EXCEPT ![o] = ob.armed]
  BY DEF Becomes
<1>2. ASSUME NEW p \in Objects
      PROVE  Shows(p)' = IF p = o THEN IF o \in built' THEN Showing(ob) ELSE Tagged!None
                                  ELSE Shows(p)
  <2>1. CASE p = o
    <3>1. At(p)' = ob
      BY <1>1, <2>1, SoundCases DEF At, Inv, TypeOK
    <3>. QED  BY <2>1, <3>1 DEF Shows, Tagged!None
  <2>2. CASE p # o
    <3>1. At(p)' = At(p) /\ (p \in built' <=> p \in built)
      BY <1>1, <2>2 DEF Inv, TypeOK, At
    <3>. QED  BY <2>2, <3>1 DEF Shows
  <2>. QED  BY <2>1, <2>2
<1>3. fault = "none" /\ fault' = "none"
  BY DEF Becomes
<1>. QED  BY <1>2, <1>3 DEF Seen, Tagged!Holding

(***************************************************************************)
(* The operations.                                                         *)
(***************************************************************************)
(* A constructor (one_of.h:25-32, 54-61). *)
LEMMA ConstructStep ==
  ASSUME Inv, NEW o \in Objects, NEW t \in Types, NEW v \in Contents, Construct(o, t, v)
  PROVE  Inv' /\ Tagged!Make(o, t, v)
<1>1. /\ o \notin built /\ built' = built \cup {o} /\ Becomes(o, Constructed(t, v))
      /\ Sound(Constructed(t, v)) /\ built \subseteq Objects
  BY ConstructedIsSound DEF Construct, Inv, TypeOK
<1>2. Inv'
  BY <1>1, BecomesKeepsInv
<1>3. Tagged!Holding([Seen EXCEPT ![o] = Tagged!Holds(t, v)])
  <2>1. Tagged!Holding([Seen EXCEPT ![o] = Showing(Constructed(t, v))])
    BY <1>1, BecomesSeen
  <2>. QED  BY <2>1, ConstructedIsSound, ShowingObjects
<1>4. ~ Tagged!Lives(o)
  BY <1>1, WhatIsShown DEF Tagged!Lives
<1>. QED  BY <1>2, <1>3, <1>4 DEF Tagged!Make, Seen

(* An object shows what is assigned (one_of.h:33-53, 62-81). *)
LEMMA AssignedShows ==
  ASSUME Inv, NEW o \in built, NEW t \in Types, NEW v \in Contents,
         payload_type[o] = t => HasValue(o)
  PROVE  /\ Sound(Assigned(At(o), t, v))
         /\ Showing(Assigned(At(o), t, v)) = Tagged!Holds(t, v)
<1>1. o \in Objects /\ Sound(At(o)) /\ At(o).payload_type = payload_type[o] /\ At(o).member = member[o]
  BY DEF Inv, TypeOK, At, Object
<1>2. payload_type[o] = t => member[o] # Nobody
  BY <1>1, WhatIsShown
<1>. QED  BY <1>1, <1>2, AssignedIsSound, ShowingObjects

(* Assign, for a reference of either kind (one_of.h:33-53, 62-81). *)
LEMMA AssignStep ==
  ASSUME Inv, NEW o \in Objects, NEW t \in Types, NEW v \in Contents, Assign(o, t, v)
  PROVE  Inv' /\ Tagged!Give(o, t, v)
<1>1. /\ o \in built /\ built' = built /\ Becomes(o, Assigned(At(o), t, v))
      /\ built \subseteq Objects /\ (payload_type[o] = t => HasValue(o))
  BY DEF Assign, Inv, TypeOK
<1>2. Sound(Assigned(At(o), t, v)) /\ Showing(Assigned(At(o), t, v)) = Tagged!Holds(t, v)
  BY <1>1, AssignedShows
<1>3. Inv'
  BY <1>1, <1>2, BecomesKeepsInv
<1>4. Tagged!Holding([Seen EXCEPT ![o] = Tagged!Holds(t, v)])
  BY <1>1, <1>2, BecomesSeen
<1>5. Tagged!Takes(o, t)
  BY <1>1, WhatIsNeeded
<1>. QED  BY <1>3, <1>4, <1>5 DEF Tagged!Give, Seen

(* An assignment that throws (one_of.h:33-42). *)
LEMMA AssignThrowsStep ==
  ASSUME Inv, NEW o \in Objects, NEW t \in Types, AssignThrows(o, t)
  PROVE  Inv' /\ Tagged!Lose(o, t)
<1>1. PICK ob \in AssignmentsThrown(At(o), t) : Becomes(o, ob)
  BY DEF AssignThrows
<1>2. /\ o \in built /\ built' = built /\ built \subseteq Objects
      /\ payload_type[o] = t => HasValue(o)
      /\ Sound(At(o)) /\ At(o).payload_type = payload_type[o] /\ At(o).member = member[o]
  BY DEF AssignThrows, Inv, TypeOK, At, Object
<1>3. payload_type[o] = t => member[o] # Nobody
  BY <1>2, WhatIsShown
<1>4. /\ Sound(ob)
      /\ payload_type[o] # t => ob = Object(payload_type[o], Nobody, {})
      /\ payload_type[o] = t => \E v \in Contents : ob = Assigned(At(o), t, v)
  BY <1>1, <1>2, <1>3, ThrownIsSound
<1>5. Inv'
  BY <1>1, <1>2, <1>4, BecomesKeepsInv
<1>6. Tagged!Holding([Seen EXCEPT ![o] = Showing(ob)])
  BY <1>1, <1>2, <1>4, BecomesSeen
<1>7. Tagged!Takes(o, t) /\ Seen[o].type = payload_type[o] /\ payload_type[o] \in Types
  BY <1>2, WhatIsShown, WhatIsNeeded
<1>8. CASE payload_type[o] # t
  <2>1. Showing(ob) = Tagged!Gone(payload_type[o])
    BY <1>4, <1>7, <1>8, AliveIsSomebody DEF Showing, Object, Tagged!Gone, Nobody
  <2>. QED  BY <1>5, <1>6, <1>7, <1>8, <2>1 DEF Tagged!Lose, Seen
<1>9. CASE payload_type[o] = t
  <2>1. PICK v \in Contents : ob = Assigned(At(o), t, v)
    BY <1>4, <1>9
  <2>2. Showing(ob) = Tagged!Holds(t, v)
    BY <1>2, <2>1, AssignedShows
  <2>3. v \in Tagged!Contents
    BY DEF Contents, Tagged!Contents
  <2>. QED  BY <1>5, <1>6, <1>7, <1>9, <2>2, <2>3 DEF Tagged!Lose, Seen
<1>. QED  BY <1>8, <1>9

(* A copy is made or assigned of what the other shows (one_of.h:83-89,     *)
(* 98-104).                                                                *)
LEMMA CopyStep ==
  ASSUME Inv, NEW o \in Objects, NEW other \in Objects,
         CopyConstruct(o, other) \/ CopyAssign(o, other)
  PROVE  Inv' /\ Tagged!Copy(o, other)
<1>1. other \in built /\ HasValue(other)
  BY DEF CopyConstruct, CopyAssign
<1>2. PICK t \in Types : t = payload_type[other] /\ t = Seen[other].type
  BY <1>1, WhatIsShown
<1>3. PICK v \in Contents : v = Read(other) /\ v = Seen[other].value
  BY <1>1, WhatIsShown
<1>4. Tagged!Gives(other)
  BY <1>1, WhatIsNeeded
<1>5. CASE CopyConstruct(o, other)
  <2>1. Construct(o, t, v)
    BY <1>2, <1>3, <1>5 DEF CopyConstruct
  <2>2. Inv' /\ Tagged!Make(o, t, v)
    BY <2>1, ConstructStep
  <2>. QED  BY <1>2, <1>3, <1>4, <2>2 DEF Tagged!Copy, Seen
<1>6. CASE CopyAssign(o, other)
  <2>1. Assign(o, t, v)
    BY <1>2, <1>3, <1>6 DEF CopyAssign
  <2>2. Inv' /\ Tagged!Give(o, t, v)
    BY <2>1, AssignStep
  <2>. QED  BY <1>2, <1>3, <1>4, <2>2 DEF Tagged!Copy, Seen
<1>. QED  BY <1>5, <1>6

(* The end of an object (one_of.h:131, 142-143). *)
LEMMA DestroyStep ==
  ASSUME Inv, NEW o \in Objects, Destroy(o)
  PROVE  Inv' /\ Tagged!End(o)
<1>1. PICK ob : ob = Object(payload_type[o], Nobody, {})
  OBVIOUS
<1>2. /\ o \in built /\ built' = built \ {o} /\ built \subseteq Objects
      /\ payload_type[o] \in Types
      /\ Sound(At(o)) /\ At(o).payload_type = payload_type[o]
  BY DEF Destroy, Inv, TypeOK, At, Object
<1>3. Becomes(o, ob) /\ Sound(ob)
  BY <1>1, <1>2, NothingIsLeft, SoundObjects DEF Destroy
<1>4. ob.member = Nobody
  BY <1>1 DEF Object
<1>5. Inv'
  BY <1>2, <1>3, <1>4, BecomesKeepsInv
<1>6. Tagged!Holding([Seen EXCEPT ![o] = Tagged!None])
  BY <1>2, <1>3, BecomesSeen
<1>7. Tagged!Lives(o)
  BY <1>2, WhatIsNeeded
<1>. QED  BY <1>5, <1>6, <1>7 DEF Tagged!End, Seen

(* The use of a T that an exception destroyed (one_of.h:39, 49, 68, 78,    *)
(* 85-109).                                                                *)
LEMMA UseDestroyedStep ==
  ASSUME Inv, NEW o \in Objects, UseDestroyed(o)
  PROVE  Inv' /\ Tagged!Misuse(o)
<1>1. /\ o \in built /\ ~HasValue(o)
      /\ fault = "none" /\ fault' = "destroyed_member"
      /\ UNCHANGED <<built, payload_type, member, armed>>
  BY DEF UseDestroyed
<1>2. TypeOK'
  BY <1>1 DEF Inv, TypeOK, Faults
<1>3. \A p \in Objects : At(p)' = At(p) /\ Shows(p)' = Shows(p)
  BY <1>1 DEF At, Shows
<1>4. Inv' /\ Seen' = Seen
  BY <1>1, <1>2, <1>3 DEF Inv, Seen
<1>5. Tagged!Lives(o) /\ Tagged!IsGone(o)
  BY <1>1, WhatIsNeeded
<1>. QED  BY <1>1, <1>4, <1>5 DEF Tagged!Misuse, Seen

(* What is moved from stays alive, with its tag (one_of.h:90-96, 107-109). *)
LEMMA AfterMoveIsSound ==
  ASSUME Inv, NEW other \in built, HasValue(other)
  PROVE  /\ Sound(Object(payload_type[other], AfterMove(other), armed[other]))
         /\ Showing(Object(payload_type[other], AfterMove(other), armed[other]))
              = Tagged!Holds(payload_type[other], Unspecified)
<1>1. other \in Objects /\ Sound(At(other)) /\ payload_type[other] \in Types
      /\ At(other).payload_type = payload_type[other] /\ At(other).member = member[other]
      /\ At(other).armed = armed[other]
  BY DEF Inv, TypeOK, At, Object
<1>2. member[other] # Nobody
  BY <1>1, WhatIsShown
<1>3. PICK v \in Contents : /\ member[other] = Alive(payload_type[other], v)
                           /\ armed[other] = {payload_type[other]}
  BY <1>1, <1>2, SoundCases
<1>4. AfterMove(other) = Alive(payload_type[other], Unspecified)
  BY <1>3 DEF AfterMove, Alive
<1>5. Unspecified \in Contents
  BY DEF Contents
<1>. QED  BY <1>1, <1>3, <1>4, <1>5, SoundObjects, ShowingObjects

(* A move changes the two objects it is about. *)
LEMMA MovesStep ==
  ASSUME Inv, NEW o \in Objects, NEW other \in built, HasValue(other), o # other, NEW ob, Sound(ob),
         Moves(o, ob, other), built' = built \cup {o}
  PROVE  /\ Inv'
         /\ Tagged!Holding([[Seen EXCEPT ![other] = Tagged!Holds(payload_type[other], Unspecified)]
                             EXCEPT ![o] = Showing(ob)])
<1>1. /\ payload_type' = [payload_type EXCEPT ![o] = ob.payload_type]
      /\ member' = [member EXCEPT ![other] = AfterMove(other), ![o] = ob.member]
      /\ armed' = [armed EXCEPT ![o] = ob.armed]
      /\ built \subseteq Objects /\ other \in Objects
      /\ fault = "none" /\ fault' = "none"
  BY DEF Moves, Inv, TypeOK
<1>2. PICK moved : moved = Object(payload_type[other], AfterMove(other), armed[other])
  OBVIOUS
<1>3. Sound(moved) /\ Showing(moved) = Tagged!Holds(payload_type[other], Unspecified) /\ moved.member = AfterMove(other)
  BY <1>2, AfterMoveIsSound DEF Object
<1>4. TypeOK'
  <2>1. /\ ob.payload_type \in Types /\ ob.armed \in SUBSET Types
        /\ ob.member \in [type : Types, value : Contents] \cup {Nobody}
        /\ AfterMove(other) \in [type : Types, value : Contents] \cup {Nobody}
    BY <1>3 DEF Sound, Shapes
  <2>. QED  BY <1>1, <2>1 DEF Inv, TypeOK
<1>5. ASSUME NEW p \in Objects
      PROVE  /\ At(p)' = IF p = o THEN ob ELSE IF p = other THEN moved ELSE At(p)
             /\ p = o \/ p = other => p \in built'
             /\ p # o => (p \in built' <=> p \in built)
  <2>1. CASE p = o
    <3>1. payload_type'[p] = ob.payload_type /\ member'[p] = ob.member /\ armed'[p] = ob.armed
      BY <1>1, <2>1 DEF Inv, TypeOK
    <3>. QED  BY <2>1, <3>1, SoundCases DEF At
  <2>2. CASE p = other
    <3>1. /\ payload_type'[p] = payload_type[other] /\ member'[p] = AfterMove(other)
          /\ armed'[p] = armed[other]
      BY <1>1, <2>2 DEF Inv, TypeOK
    <3>. QED  BY <1>2, <2>2, <3>1 DEF At
  <2>3. CASE p # o /\ p # other
    <3>1. payload_type'[p] = payload_type[p] /\ member'[p] = member[p] /\ armed'[p] = armed[p]
      BY <1>1, <2>3 DEF Inv, TypeOK
    <3>. QED  BY <2>3, <3>1 DEF At
  <2>. QED  BY <2>1, <2>2, <2>3
<1>6. Inv'
  <2>1. ASSUME NEW p \in Objects
        PROVE  Sound(At(p))' /\ (p \notin built' => member'[p] = Nobody)
    <3>1. CASE p = o \/ p = other
      BY <1>3, <1>5, <3>1
    <3>2. CASE p # o /\ p # other
      <4>1. At(p)' = At(p) /\ (p \in built' <=> p \in built) /\ member'[p] = member[p]
        BY <1>1, <1>5, <3>2 DEF Inv, TypeOK
      <4>. QED  BY <4>1 DEF Inv
    <3>. QED  BY <3>1, <3>2
  <2>. QED  BY <1>4, <2>1 DEF Inv
<1>7. ASSUME NEW p \in Objects
      PROVE  Shows(p)' = IF p = o THEN Showing(ob)
                         ELSE IF p = other THEN Tagged!Holds(payload_type[other], Unspecified) ELSE Shows(p)
  <2>1. CASE p = o \/ p = other
    BY <1>3, <1>5, <2>1 DEF Shows
  <2>2. CASE p # o /\ p # other
    BY <1>5, <2>2 DEF Shows
  <2>. QED  BY <2>1, <2>2
<1>. QED  BY <1>1, <1>6, <1>7 DEF Seen, Tagged!Holding

(* A move constructor or a move assignment (one_of.h:90-96, 105-111). *)
LEMMA MoveStep ==
  ASSUME Inv, NEW o \in Objects, NEW other \in Objects,
         MoveConstruct(o, other) \/ MoveAssign(o, other)
  PROVE  Inv' /\ Tagged!Move(o, other)
<1>1. other \in built /\ HasValue(other)
  BY DEF MoveConstruct, MoveAssign
<1>2. PICK t \in Types : t = payload_type[other] /\ t = Seen[other].type
  BY <1>1, WhatIsShown
<1>3. PICK v \in Contents : v = Read(other) /\ v = Seen[other].value
  BY <1>1, WhatIsShown
<1>4. Seen[other] = Tagged!Holds(t, v)
  <2>1. Showing(At(other)) = [type |-> t, holds |-> "value", value |-> v]
    BY <1>1, <1>2, <1>3, WhatIsShown DEF Showing
  <2>. QED  BY <1>1, <2>1, WhatIsShown DEF Tagged!Holds
<1>5. Tagged!Gives(other)
  BY <1>1, WhatIsNeeded
<1>6. CASE MoveConstruct(o, other)
  <2>1. o # other /\ o \notin built /\ built' = built \cup {o} /\ Moves(o, Constructed(t, v), other)
    BY <1>1, <1>2, <1>3, <1>6 DEF MoveConstruct
  <2>2. Sound(Constructed(t, v)) /\ Showing(Constructed(t, v)) = Tagged!Holds(t, v)
    BY ConstructedIsSound, ShowingObjects
  <2>3. Inv' /\ Tagged!Holding([[Seen EXCEPT ![other] = Tagged!Holds(t, Unspecified)]
                                EXCEPT ![o] = Seen[other]])
    BY <1>1, <1>2, <1>4, <2>1, <2>2, MovesStep
  <2>4. ~Tagged!Lives(o)
    BY <2>1, WhatIsShown DEF Tagged!Lives
  <2>. QED  BY <1>2, <1>5, <2>1, <2>3, <2>4 DEF Tagged!Move, Seen
<1>7. CASE MoveAssign(o, other) /\ o # other
  <2>1. /\ o \in built /\ built' = built \cup {o} /\ Moves(o, Assigned(At(o), t, v), other)
        /\ payload_type[o] = t => HasValue(o)
    BY <1>2, <1>3, <1>7 DEF MoveAssign
  <2>2. Sound(Assigned(At(o), t, v)) /\ Showing(Assigned(At(o), t, v)) = Tagged!Holds(t, v)
    BY <2>1, AssignedShows
  <2>3. Inv' /\ Tagged!Holding([[Seen EXCEPT ![other] = Tagged!Holds(t, Unspecified)]
                                EXCEPT ![o] = Seen[other]])
    BY <1>1, <1>2, <1>4, <1>7, <2>1, <2>2, MovesStep
  <2>4. Tagged!Takes(o, t)
    BY <2>1, WhatIsNeeded
  <2>. QED  BY <1>2, <1>5, <1>7, <2>3, <2>4 DEF Tagged!Move, Seen
<1>8. CASE MoveAssign(o, other) /\ o = other
  <2>1. PICK ob : ob = Assigned(At(o), t, Unspecified)
    OBVIOUS
  <2>2. built' = built /\ built \subseteq Objects /\ Becomes(o, ob)
    BY <1>2, <1>8, <2>1 DEF MoveAssign, Inv, TypeOK
  <2>3. Sound(ob) /\ Showing(ob) = Tagged!Holds(t, Unspecified)
    BY <1>1, <1>8, <2>1, AssignedShows DEF Contents
  <2>4. Inv' /\ Tagged!Holding([Seen EXCEPT ![o] = Tagged!Holds(t, Unspecified)])
    BY <1>1, <1>8, <2>2, <2>3, BecomesKeepsInv, BecomesSeen
  <2>5. Tagged!Takes(o, t)
    BY <1>1, <1>8, WhatIsNeeded
  <2>. QED  BY <1>2, <1>5, <1>8, <2>4, <2>5 DEF Tagged!Move, Seen
<1>. QED  BY <1>6, <1>7, <1>8

(***************************************************************************)
(* The theorems.                                                           *)
(***************************************************************************)
(* Every step keeps the invariant and is one of the abstract specification. *)
LEMMA NextStep ==
  ASSUME Inv, Next
  PROVE  Inv' /\ Tagged!Next
<1>1. PICK o \in Objects :
        \/ \E t \in Types, v \in Values : Construct(o, t, v) \/ Assign(o, t, v)
        \/ \E t \in Types : AssignThrows(o, t)
        \/ \E other \in Objects : \/ CopyConstruct(o, other) \/ CopyAssign(o, other)
                                  \/ MoveConstruct(o, other) \/ MoveAssign(o, other)
        \/ UseDestroyed(o)
        \/ Destroy(o)
  BY DEF Next
<1>2. Values \subseteq Contents /\ Types = Tagged!Types
  BY DEF Contents, Types, Tagged!Types
<1>3. ASSUME NEW t \in Types, NEW v \in Values, Construct(o, t, v) \/ Assign(o, t, v)
      PROVE  Inv' /\ (Tagged!Make(o, t, v) \/ Tagged!Give(o, t, v))
  BY <1>2, <1>3, ConstructStep, AssignStep
<1>4. ASSUME NEW t \in Types, AssignThrows(o, t)
      PROVE  Inv' /\ Tagged!Lose(o, t)
  BY <1>4, AssignThrowsStep
<1>5. ASSUME NEW other \in Objects, CopyConstruct(o, other) \/ CopyAssign(o, other)
      PROVE  Inv' /\ Tagged!Copy(o, other)
  BY <1>5, CopyStep
<1>6. ASSUME NEW other \in Objects, MoveConstruct(o, other) \/ MoveAssign(o, other)
      PROVE  Inv' /\ Tagged!Move(o, other)
  BY <1>6, MoveStep
<1>7. ASSUME Destroy(o) PROVE Inv' /\ Tagged!End(o)
  BY <1>7, DestroyStep
<1>8. ASSUME UseDestroyed(o) PROVE Inv' /\ Tagged!Misuse(o)
  BY <1>8, UseDestroyedStep
<1>. QED  BY <1>1, <1>2, <1>3, <1>4, <1>5, <1>6, <1>7, <1>8 DEF Tagged!Next

(* The invariant holds for any set of objects and of values. *)
LEMMA AlwaysInv == Spec => []Inv
<1>1. Inv /\ UNCHANGED oneOfVars => Inv'
  BY DEF Inv, TypeOK, oneOfVars, At
<1>. QED  BY <1>1, InitInv, NextStep, PTL DEF Spec

(* Every T1 and T2 is destroyed once and by the right destructor, for any  *)
(* set of objects, whatever throws (one_of.h:25-143).                      *)
THEOREM AlwaysMatching == Spec => []DestroyersMatch
BY AlwaysInv, InvSuffices, PTL

(* payload_type() never names a type whose member is not the one alive,    *)
(* for any set of objects, whatever throws (one_of.h:33-129).              *)
THEOREM TagIsTrue == Spec => []TagMatches
BY AlwaysInv, InvSuffices, PTL

(* The objects behave as values of one of two types as long as no value    *)
(* that an exception took is used, and an exception is the only way for an *)
(* object to come to that, for any set of objects and of values            *)
(* (one_of.h:25-143).                                                      *)
THEOREM Implements == Spec => ImplementsTaggedValue
<1>1. Init => Tagged!Init
  BY DEF Init, Tagged!Init, Shows, Tagged!None
<1>2. Inv /\ [Next]_oneOfVars => [Tagged!Next]_<<Seen, fault # "none">>
  <2>1. ASSUME UNCHANGED oneOfVars PROVE UNCHANGED <<Seen, fault # "none">>
    BY <2>1 DEF oneOfVars, Seen, Shows, At
  <2>. QED  BY <2>1, NextStep
<1>. QED  BY <1>1, <1>2, AlwaysInv, PTL DEF Spec, ImplementsTaggedValue, Tagged!Spec,
     Tagged!taggedVars, Seen
===============================================================================
