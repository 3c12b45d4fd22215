------------------------------ MODULE MemoryProofs ------------------------------
(***************************************************************************)
(* The ownership of messages in memory.h, for every set of programs and    *)
(* every limit of the arena: the statements of the evaluator keep the      *)
(* contract of the allocator, no pointer that a pool, an owner or a        *)
(* message keeps is left behind by a reset or the end of a block, every    *)
(* object has one owner, and nothing that has a pool is lost.              *)
(***************************************************************************)
EXTENDS PooledEvaluator, SeqLemmas

(* The lemmas are named for the statement or the handler they are about:   *)
(* ...Step: with the contract, it keeps the ownership (Owned);             *)
(* ...Fine: it keeps the types and leaves the facts its rule promises;     *)
(* ...Keeps: what its rule asks for is what the contract asks for;         *)
(* ...Follows, ...In: it follows its rule, from facts given as sets of     *)
(* locals that point to the arena (A) and that own something (S);          *)
(* ...Leads: a list of statements, or all of a handler's, does.            *)

(* The places of the arena and of the heap, and the fields of messages. *)
MessagesTyped ==
  /\ top \in Nat /\ low \in Nat
  /\ \A o \in Objects : /\ o \in Int
                        /\ (0 < o /\ o <= top) \/ (o < 0 /\ 0 - low <= o)
                        /\ type[o] \in Types
  /\ DOMAIN kids = Objects
  /\ \A o \in Objects : /\ DOMAIN kids[o] = Fields(type[o])
                        /\ \A f \in Fields(type[o]) : kids[o][f] \in Seq(Int)

PoolsTyped == DOMAIN pool = Pooled /\ \A t \in Pooled : pool[t] \in Seq(Int)

PoolsValid ==
  \A t \in Pooled : \A i \in DOMAIN pool[t] : pool[t][i] \in OnArena /\ type[pool[t][i]] = t

HandsValid == \A x \in held : x \in DOMAIN reg /\ reg[x] \in OnArena

KidsValid ==
  \A o \in Objects : \A f \in Fields(type[o]) : \A i \in DOMAIN kids[o][f] :
    kids[o][f][i] \in Objects /\ (o > 0 <=> kids[o][f][i] > 0)

(* An owner of the object v: a place of a pool, a local or a place of a    *)
(* message.                                                                *)
InPool(s, v) == \E t \in Pooled : \E i \in DOMAIN pool[t] : s = <<"pool", t, i>> /\ v = pool[t][i]

InHand(s, v) == \E x \in held : s = <<"hand", x>> /\ v = reg[x]

InMessage(s, v) ==
  \E o \in Objects : \E f \in Fields(type[o]) : \E i \in DOMAIN kids[o][f] :
    s = <<"kid", o, f, i>> /\ v = kids[o][f][i]

Owner(s, v) == InPool(s, v) \/ InHand(s, v) \/ InMessage(s, v)

Unique == \A r, s, v : Owner(r, v) /\ Owner(s, v) => r = s

(* The inductive invariant. *)
Owned ==
  /\ MessagesTyped /\ PoolsTyped
  /\ PoolsValid /\ HandsValid /\ KidsValid
  /\ Unique

-----------------------------------------------------------------------------
LEMMA ValidParts ==
  PointersValid <=> PoolsValid /\ HandsValid /\ KidsValid
BY DEF PointersValid, PoolsValid, HandsValid, KidsValid

(* Only objects that are there are owned. *)
LEMMA OwnedIsThere ==
  ASSUME PoolsValid, HandsValid, KidsValid, NEW s, NEW v, Owner(s, v)
  PROVE  v \in Objects
BY DEF PoolsValid, HandsValid, KidsValid, Owner, InPool, InHand, InMessage, OnArena

LEMMA OwnerFamilies ==
  /\ \A s, v, w : ~(InPool(s, v) /\ InHand(s, w))
  /\ \A s, v, w : ~(InPool(s, v) /\ InMessage(s, w))
  /\ \A s, v, w : ~(InHand(s, v) /\ InMessage(s, w))
BY DEF InPool, InHand, InMessage

(* Places and ObjectAt, one by one. *)
LEMMA PlaceFacts ==
  /\ \A a \in Places : \E o \in Objects : \E f \in Fields(type[o]) : \E i \in DOMAIN kids[o][f] :
       a = <<o, f, i>> /\ ObjectAt(a) = kids[o][f][i]
  /\ \A o \in Objects : \A f \in Fields(type[o]) : \A i \in DOMAIN kids[o][f] :
       <<o, f, i>> \in Places /\ ObjectAt(<<o, f, i>>) = kids[o][f][i]
BY DEF Places, ObjectAt

LEMMA OwnersOf ==
  /\ \A v : v \in InPools <=> \E s : InPool(s, v)
  /\ \A v : v \in InHands <=> \E s : InHand(s, v)
  /\ \A v : v \in InMessages <=> \E s : InMessage(s, v)
<1>1. \A v : v \in InPools <=> \E s : InPool(s, v)
  <2>1. \A v : v \in InPools <=> \E t \in Pooled : v \in {pool[t][i] : i \in DOMAIN pool[t]}
    BY DEF InPools
  <2>2. \A v : \A t \in Pooled :
          v \in {pool[t][i] : i \in DOMAIN pool[t]} <=> \E i \in DOMAIN pool[t] : v = pool[t][i]
    OBVIOUS
  <2>3. \A v : v \in InPools <=> \E t \in Pooled : \E i \in DOMAIN pool[t] : v = pool[t][i]
    BY <2>1, <2>2
  <2> QED  BY <2>3 DEF InPool
<1>2. \A v : v \in InHands <=> \E s : InHand(s, v)
  BY DEF InHands, InHand
<1>3. \A v : v \in InMessages <=> \E s : InMessage(s, v)
  <2> SUFFICES ASSUME NEW v  PROVE v \in InMessages <=> \E s : InMessage(s, v)
    OBVIOUS
  <2>1. ASSUME v \in InMessages  PROVE \E s : InMessage(s, v)
    <3>1. PICK a \in Places : v = ObjectAt(a)
      BY <2>1 DEF InMessages
    <3>2. \E o \in Objects : \E f \in Fields(type[o]) : \E i \in DOMAIN kids[o][f] :
            a = <<o, f, i>> /\ v = kids[o][f][i]
      BY <3>1, PlaceFacts
    <3> QED  BY <3>2 DEF InMessage
  <2>2. ASSUME NEW s, InMessage(s, v)  PROVE v \in InMessages
    <3>1. PICK o \in Objects : \E f \in Fields(type[o]) : \E i \in DOMAIN kids[o][f] :
            v = kids[o][f][i]
      BY <2>2 DEF InMessage
    <3>2. PICK f \in Fields(type[o]) : \E i \in DOMAIN kids[o][f] : v = kids[o][f][i]
      BY <3>1
    <3>3. PICK i \in DOMAIN kids[o][f] : v = kids[o][f][i]
      BY <3>2
    <3>4. <<o, f, i>> \in Places /\ ObjectAt(<<o, f, i>>) = v
      BY <3>3, PlaceFacts
    <3> QED  BY <3>4 DEF InMessages
  <2> QED  BY <2>1, <2>2
<1> QED  BY <1>1, <1>2, <1>3

LEMMA UniqueIsOneOwner ==
  ASSUME Unique
  PROVE  OneOwner
<1>1. ASSUME NEW t \in Pooled, NEW u \in Pooled, NEW i \in DOMAIN pool[t], NEW j \in DOMAIN pool[u],
             pool[t][i] = pool[u][j]
      PROVE  t = u /\ i = j
  <2>1. Owner(<<"pool", t, i>>, pool[t][i]) /\ Owner(<<"pool", u, j>>, pool[t][i])
    BY <1>1 DEF Owner, InPool
  <2>2. <<"pool", t, i>> = <<"pool", u, j>>
    BY <2>1 DEF Unique
  <2> QED  BY <2>2
<1>2. ASSUME NEW x \in held, NEW y \in held, reg[x] = reg[y]  PROVE x = y
  <2>1. Owner(<<"hand", x>>, reg[x]) /\ Owner(<<"hand", y>>, reg[x])
    BY <1>2 DEF Owner, InHand
  <2>2. <<"hand", x>> = <<"hand", y>>
    BY <2>1 DEF Unique
  <2> QED  BY <2>2
<1>3. ASSUME NEW a \in Places, NEW b \in Places, ObjectAt(a) = ObjectAt(b)  PROVE a = b
  <2>1. PICK o \in Objects : \E f \in Fields(type[o]) : \E i \in DOMAIN kids[o][f] :
               a = <<o, f, i>> /\ ObjectAt(a) = kids[o][f][i]
    BY PlaceFacts
  <2>2. PICK f \in Fields(type[o]) : \E i \in DOMAIN kids[o][f] :
               a = <<o, f, i>> /\ ObjectAt(a) = kids[o][f][i]
    BY <2>1
  <2>3. PICK i \in DOMAIN kids[o][f] : a = <<o, f, i>> /\ ObjectAt(a) = kids[o][f][i]
    BY <2>2
  <2>4. PICK p \in Objects : \E g \in Fields(type[p]) : \E j \in DOMAIN kids[p][g] :
               b = <<p, g, j>> /\ ObjectAt(b) = kids[p][g][j]
    BY PlaceFacts
  <2>5. PICK g \in Fields(type[p]) : \E j \in DOMAIN kids[p][g] :
               b = <<p, g, j>> /\ ObjectAt(b) = kids[p][g][j]
    BY <2>4
  <2>6. PICK j \in DOMAIN kids[p][g] : b = <<p, g, j>> /\ ObjectAt(b) = kids[p][g][j]
    BY <2>5
  <2>7. Owner(<<"kid", o, f, i>>, ObjectAt(a)) /\ Owner(<<"kid", p, g, j>>, ObjectAt(a))
    BY <1>3, <2>3, <2>6 DEF Owner, InMessage
  <2>8. <<"kid", o, f, i>> = <<"kid", p, g, j>>
    BY <2>7 DEF Unique
  <2> QED  BY <2>3, <2>6, <2>8
<1>4. InPools \cap InHands = {} /\ InPools \cap InMessages = {} /\ InHands \cap InMessages = {}
  <2>1. ASSUME NEW v, NEW r, NEW s, Owner(r, v), Owner(s, v)  PROVE r = s
    BY <2>1 DEF Unique
  <2>2. \A v : ~(v \in InPools /\ v \in InHands)
    BY <2>1, OwnersOf, OwnerFamilies DEF Owner
  <2>3. \A v : ~(v \in InPools /\ v \in InMessages)
    BY <2>1, OwnersOf, OwnerFamilies DEF Owner
  <2>4. \A v : ~(v \in InHands /\ v \in InMessages)
    BY <2>1, OwnersOf, OwnerFamilies DEF Owner
  <2> QED  BY <2>2, <2>3, <2>4
<1> QED  BY <1>1, <1>2, <1>3, <1>4 DEF OneOwner

(***************************************************************************)
(* What becomes of the owners.                                             *)
(***************************************************************************)
(* Nobody comes to own anything. *)
LEMMA NoneAdded ==
  ASSUME Unique, \A s, v : Owner(s, v)' => Owner(s, v)
  PROVE  Unique'
BY DEF Unique

(* Only n comes to own something, and what it owns had no owner or one     *)
(* that owns it no more.                                                   *)
LEMMA OneMoved ==
  ASSUME Unique, NEW n, NEW v, NEW q,
         \A s, w : Owner(s, w)' => (Owner(s, w) /\ s # q) \/ (s = n /\ w = v),
         Owner(q, v) \/ \A s : ~Owner(s, v)
  PROVE  Unique'
<1> SUFFICES ASSUME NEW r, NEW s, NEW w, Owner(r, w)', Owner(s, w)'  PROVE r = s
  BY DEF Unique
<1>1. (Owner(r, w) /\ r # q) \/ (r = n /\ w = v)
  OBVIOUS
<1>2. (Owner(s, w) /\ s # q) \/ (s = n /\ w = v)
  OBVIOUS
<1> QED  BY <1>1, <1>2 DEF Unique

(***************************************************************************)
(* What the contract says of the statement that is executed.               *)
(***************************************************************************)
LEMMA ContractAt ==
  ASSUME Contract, NEW op, At(op)
  PROVE  /\ Operands(op) \subseteq DOMAIN I /\ I.op = op
         /\ \A k \in {"x", "y", "o", "p"} : k \in Operands(op) =>
              I[k] \in DOMAIN reg /\ reg[I[k]] \in Objects
         /\ "type" \in Operands(op) => I.type \in Types
         /\ "f" \in Operands(op) => I.f \in Fields(type[reg[I.o]])
         /\ "to" \in Operands(op) => I.to \notin held
         /\ Fits(op)
<1>1. code # <<>> /\ fault = "none" /\ I.op = op
  BY DEF At, I
<1>2. /\ Operands(op) \subseteq DOMAIN I
      /\ Used \subseteq DOMAIN reg
      /\ \A x \in Used : reg[x] \in Objects
      /\ "type" \in DOMAIN I => I.type \in Types
      /\ "f" \in DOMAIN I => I.f \in Fields(type[reg[I.o]])
      /\ "to" \in DOMAIN I => I.to \notin held
      /\ Fits(op)
  BY <1>1 DEF Contract, FieldsOf
<1>3. \A k \in {"x", "y", "o", "p"} : k \in Operands(op) => I[k] \in Used
  BY <1>2 DEF Used
<1> QED  BY <1>1, <1>2, <1>3

LEMMA OperandsOf ==
  /\ \A op \in {"Allocate", "Make"} : Operands(op) = {"type", "to"}
  /\ Operands("Move") = {"x", "to"}
  /\ \A op \in {"Destroy", "Write", "Set", "Leave"} : Operands(op) = {"x"}
  /\ \A op \in {"Take", "Release"} : Operands(op) = {"o", "f", "to"}
  /\ Operands("Give") = {"x", "o", "f"}
  /\ Operands("Add") = {"o", "f", "type", "to"}
  /\ Operands("Point") = {"o", "f", "i", "to"}
  /\ \A op \in {"Swap", "Copy", "Assign"} : Operands(op) = {"x", "y"}
  /\ Operands("SwapField") = {"o", "f", "p", "g"}
BY DEF Operands

(***************************************************************************)
(* The parts of the state that most statements leave alone.                *)
(***************************************************************************)
LEMMA OwnerTags ==
  /\ \A s, v : InPool(s, v) => s[1] = "pool"
  /\ \A s, v : InHand(s, v) => s[1] = "hand"
  /\ \A s, v : InMessage(s, v) => s[1] = "kid"
BY DEF InPool, InHand, InMessage

LEMMA SamePools ==
  ASSUME UNCHANGED pool
  PROVE  /\ PoolsTyped => PoolsTyped'
         /\ \A s, v : InPool(s, v)' <=> InPool(s, v)
BY DEF PoolsTyped, InPool

LEMMA PoolsStayValid ==
  ASSUME PoolsValid, UNCHANGED pool, Objects \subseteq Objects',
         \A o \in Objects : type'[o] = type[o]
  PROVE  PoolsValid'
BY DEF PoolsValid, OnArena, OnHeap

LEMMA SameMessages ==
  ASSUME UNCHANGED <<type, kids, top, low>>
  PROVE  /\ MessagesTyped => MessagesTyped'
         /\ KidsValid => KidsValid'
         /\ \A s, v : InMessage(s, v)' <=> InMessage(s, v)
         /\ Objects' = Objects /\ OnArena' = OnArena
BY DEF MessagesTyped, KidsValid, InMessage, Objects, OnArena, OnHeap

(* A local that owns nothing is set. *)
LEMMA LocalSet ==
  ASSUME HandsValid, NEW y, NEW o, y \notin held, reg' = Pointing(y, o), UNCHANGED held
  PROVE  /\ \A s, v : InHand(s, v)' => InHand(s, v)
         /\ OnArena \subseteq OnArena' => HandsValid'
         /\ \A x \in held : reg'[x] = reg[x]
<1>1. DOMAIN reg' = DOMAIN reg \cup {y} /\ \A x \in DOMAIN reg : x # y => reg'[x] = reg[x]
  BY DEF Pointing
<1>2. \A x \in held : x \in DOMAIN reg /\ reg'[x] = reg[x]
  BY <1>1 DEF HandsValid
<1> QED  BY <1>1, <1>2 DEF InHand, HandsValid

(* A local comes to own o. *)
LEMMA LocalOwns ==
  ASSUME HandsValid, NEW y, NEW o, reg' = Pointing(y, o), held' = held \cup {y}
  PROVE  /\ \A s, v : InHand(s, v)' => InHand(s, v) \/ (s = <<"hand", y>> /\ v = o)
         /\ OnArena \subseteq OnArena' /\ o \in OnArena' => HandsValid'
         /\ reg'[y] = o /\ \A x \in held : x # y => reg'[x] = reg[x]
<1>1. /\ DOMAIN reg' = DOMAIN reg \cup {y} /\ reg'[y] = o
      /\ \A x \in DOMAIN reg : x # y => reg'[x] = reg[x]
  BY DEF Pointing
<1>2. \A x \in held : x \in DOMAIN reg
  BY DEF HandsValid
<1> QED  BY <1>1, <1>2 DEF InHand, HandsValid

(* One field of one message is set. *)
LEMMA FieldSet ==
  ASSUME MessagesTyped, NEW a \in Objects, NEW f \in Fields(type[a]), NEW q,
         NEW k, k = [kids EXCEPT ![a][f] = q]
  PROVE  /\ DOMAIN k = Objects
         /\ k[a][f] = q /\ DOMAIN k[a] = Fields(type[a])
         /\ \A g \in Fields(type[a]) : g # f => k[a][g] = kids[a][g]
         /\ \A o \in Objects : o # a => k[o] = kids[o]
         /\ \A o \in Objects : DOMAIN k[o] = Fields(type[o])
         /\ \A o \in Objects : \A g \in Fields(type[o]) :
              k[o][g] = IF o = a /\ g = f THEN q ELSE kids[o][g]
<1>1. DOMAIN kids = Objects /\ \A o \in Objects : DOMAIN kids[o] = Fields(type[o])
  BY DEF MessagesTyped
<1>2. k[a] = [kids[a] EXCEPT ![f] = q]
  BY <1>1
<1>3. DOMAIN k = Objects /\ \A o \in Objects : o # a => k[o] = kids[o]
  BY <1>1
<1>4. /\ k[a][f] = q /\ DOMAIN k[a] = Fields(type[a])
      /\ \A g \in Fields(type[a]) : g # f => k[a][g] = kids[a][g]
  BY <1>1, <1>2
<1> QED  BY <1>1, <1>3, <1>4

(* A message is created. *)
LEMMA Created ==
  ASSUME MessagesTyped, NEW v, NEW t \in Types, NEW k, NEW in_arena \in BOOLEAN,
         v = NewPlace(in_arena), DOMAIN k = Objects, NewMessage(v, t, k)
  PROVE  /\ v \in Int /\ v \notin Objects /\ (v > 0 <=> in_arena) /\ v # 0
         /\ Objects' = Objects \cup {v} /\ DOMAIN kids' = Objects \cup {v}
         /\ type'[v] = t /\ \A o \in Objects : type'[o] = type[o]
         /\ DOMAIN kids'[v] = Fields(t) /\ \A f \in Fields(t) : kids'[v][f] = <<>>
         /\ \A o \in Objects : kids'[o] = k[o]
         /\ top' \in Nat /\ low' \in Nat
         /\ \A o \in Objects \cup {v} :
              o \in Int /\ ((0 < o /\ o <= top') \/ (o < 0 /\ 0 - low' <= o))
<1>1. top \in Nat /\ low \in Nat
  BY DEF MessagesTyped
<1>2. v \in Int /\ v # 0 /\ (v > 0 <=> in_arena)
  BY <1>1 DEF NewPlace
<1>3. v \notin Objects
  BY <1>1 DEF MessagesTyped, NewPlace
<1>4. Objects' = Objects \cup {v} /\ type'[v] = t /\ \A o \in Objects : type'[o] = type[o]
  BY <1>3 DEF NewMessage, Extended, Objects
<1>5. /\ DOMAIN kids' = Objects \cup {v} /\ kids'[v] = Childless(t)
      /\ \A o \in Objects : kids'[o] = k[o]
  BY <1>3 DEF NewMessage, Extended
<1>6. top' = (IF v > 0 THEN v ELSE top) /\ low' = (IF v > 0 THEN low ELSE 0 - v)
  BY DEF NewMessage
<1>7. /\ top' \in Nat /\ low' \in Nat
      /\ \A o \in Objects \cup {v} :
           o \in Int /\ ((0 < o /\ o <= top') \/ (o < 0 /\ 0 - low' <= o))
  <2>1. CASE in_arena
    <3>1. v = top + 1 /\ top' = v /\ low' = low
      BY <2>1, <1>2, <1>6 DEF NewPlace
    <3> QED  BY <3>1, <1>1 DEF MessagesTyped
  <2>2. CASE ~in_arena
    <3>1. v = 0 - (low + 1) /\ top' = top /\ low' = low + 1
      BY <2>2, <1>1, <1>2, <1>6 DEF NewPlace
    <3> QED  BY <3>1, <1>1 DEF MessagesTyped
  <2> QED  BY <2>1, <2>2
<1> QED  BY <1>2, <1>3, <1>4, <1>5, <1>7 DEF Childless

(***************************************************************************)
(* One lemma for each way a statement changes what is owned.               *)
(***************************************************************************)
(* A local that owns nothing is set, and nothing else changes.             *)
LEMMA OnlyLocals ==
  ASSUME Owned, UNCHANGED <<type, kids, top, low, pool, held>>, NEW y, NEW o,
         reg' = Pointing(y, o), y \notin held
  PROVE  Owned'
<1>1. \A s, v : InHand(s, v)' => InHand(s, v)
  BY LocalSet DEF Owned
<1>2. HandsValid' /\ PoolsTyped' /\ PoolsValid'
  BY LocalSet, SamePools, SameMessages, PoolsStayValid DEF Owned
<1>3. MessagesTyped' /\ KidsValid'
  BY SameMessages DEF Owned
<1>4. \A s, v : Owner(s, v)' => Owner(s, v)
  BY <1>1, SamePools, SameMessages DEF Owner
<1>5. Unique'
  BY <1>4, NoneAdded DEF Owned
<1> QED  BY <1>2, <1>3, <1>5 DEF Owned

LEMMA Untouched ==
  ASSUME Owned, UNCHANGED <<type, kids, top, low, pool, held, reg>>
  PROVE  Owned'
<1>1. \A s, v : InHand(s, v)' <=> InHand(s, v)
  BY DEF InHand
<1>2. HandsValid' /\ PoolsTyped' /\ PoolsValid' /\ MessagesTyped' /\ KidsValid'
  BY SamePools, SameMessages, PoolsStayValid DEF Owned, HandsValid
<1>3. \A s, v : Owner(s, v)' => Owner(s, v)
  BY <1>1, SamePools, SameMessages DEF Owner
<1>4. Unique'
  BY <1>3, NoneAdded DEF Owned
<1> QED  BY <1>2, <1>4 DEF Owned

(* Every message keeps its place but what its fields hold may change.      *)
LEMMA KidsTyped ==
  ASSUME MessagesTyped, UNCHANGED <<type, top, low>>,
         DOMAIN kids' = Objects,
         \A o \in Objects : DOMAIN kids'[o] = Fields(type[o]),
         \A o \in Objects : \A f \in Fields(type[o]) : kids'[o][f] \in Seq(Int)
  PROVE  MessagesTyped' /\ Objects' = Objects /\ OnArena' = OnArena
BY DEF MessagesTyped, Objects, OnArena, OnHeap

LEMMA CreateOnArenaStep ==
  ASSUME Owned, Contract, CreateOnArena
  PROVE  Owned'
<1>1. At("Allocate") /\ I.type \in Types /\ I.to \notin held
  <2>1. At("Allocate")
    BY DEF CreateOnArena
  <2> QED  BY <2>1, ContractAt, OperandsOf
<1>2. PICK v : v = top + 1
  OBVIOUS
<1>3. PICK t, y, n : t = I.type /\ y = I.to /\ n = <<"hand", y>>
  OBVIOUS
<1>4. /\ NewMessage(v, t, kids) /\ v = NewPlace(TRUE) /\ t \in Types
      /\ reg' = Pointing(y, v) /\ held' = held \cup {y} /\ UNCHANGED pool
  BY <1>1, <1>2, <1>3 DEF CreateOnArena, NewPlace
<1>5. /\ v \in Int /\ v \notin Objects /\ v > 0
      /\ Objects' = Objects \cup {v} /\ DOMAIN kids' = Objects \cup {v}
      /\ type'[v] = t /\ \A o \in Objects : type'[o] = type[o]
      /\ DOMAIN kids'[v] = Fields(t) /\ \A f \in Fields(t) : kids'[v][f] = <<>>
      /\ \A o \in Objects : kids'[o] = kids[o]
      /\ top' \in Nat /\ low' \in Nat
      /\ \A o \in Objects \cup {v} :
           o \in Int /\ ((0 < o /\ o <= top') \/ (o < 0 /\ 0 - low' <= o))
  <2>1. DOMAIN kids = Objects
    BY DEF Owned, MessagesTyped
  <2> QED  BY <1>4, <2>1, Created DEF Owned
<1>6. MessagesTyped'
  <2>1. \A o \in Objects' : type'[o] \in Types
    BY <1>4, <1>5 DEF Owned, MessagesTyped
  <2>2. \A o \in Objects' : DOMAIN kids'[o] = Fields(type'[o])
    BY <1>5 DEF Owned, MessagesTyped
  <2>3. \A o \in Objects' : \A f \in Fields(type'[o]) : kids'[o][f] \in Seq(Int)
    <3>1. <<>> \in Seq(Int)
      OBVIOUS
    <3>2. \A o \in Objects : \A f \in Fields(type[o]) : kids[o][f] \in Seq(Int)
      BY DEF Owned, MessagesTyped
    <3> QED  BY <3>1, <3>2, <1>5
  <2> QED  BY <1>5, <2>1, <2>2, <2>3 DEF MessagesTyped
<1>7. OnArena \subseteq OnArena' /\ v \in OnArena'
  BY <1>5 DEF OnArena, OnHeap
<1>8. HandsValid' /\ PoolsTyped' /\ PoolsValid'
  BY <1>4, <1>5, <1>7, LocalOwns, SamePools, PoolsStayValid DEF Owned
<1>9. KidsValid'
  BY <1>5 DEF Owned, KidsValid
<1>10. Unique'
  <2>1. \A s, w : InHand(s, w)' => InHand(s, w) \/ (s = n /\ w = v)
    <3>1. HandsValid /\ reg' = Pointing(y, v) /\ held' = held \cup {y}
      BY <1>4 DEF Owned
    <3>2. \A s, w : InHand(s, w)' => InHand(s, w) \/ (s = <<"hand", y>> /\ w = v)
      BY <3>1, LocalOwns
    <3> QED  BY <3>2, <1>3
  <2>2. \A s, w : InMessage(s, w)' => InMessage(s, w)
    <3> SUFFICES ASSUME NEW s, NEW w, InMessage(s, w)'  PROVE InMessage(s, w)
      OBVIOUS
    <3>1. PICK o \in Objects' : \E f \in Fields(type'[o]) : \E i \in DOMAIN kids'[o][f] :
                 s = <<"kid", o, f, i>> /\ w = kids'[o][f][i]
      BY DEF InMessage
    <3>2. o # v
      BY <3>1, <1>5
    <3> QED  BY <3>1, <3>2, <1>5 DEF InMessage
  <2>3. \A s, w : InPool(s, w)' => InPool(s, w)
    BY <1>4, SamePools
  <2>4. \A s : ~Owner(s, v)
    BY <1>5, OwnedIsThere DEF Owned
  <2>5. PICK q : q = <<"none">>
    OBVIOUS
  <2>6. \A s, w : Owner(s, w) => s # q
    BY <2>5, OwnerTags DEF Owner
  <2>7. \A s, w : Owner(s, w)' => (Owner(s, w) /\ s # q) \/ (s = n /\ w = v)
    BY <2>1, <2>2, <2>3, <2>6 DEF Owner
  <2> QED  BY <2>4, <2>7, OneMoved DEF Owned
<1> QED  BY <1>6, <1>8, <1>9, <1>10 DEF Owned

LEMMA RemoveFromPoolStep ==
  ASSUME Owned, Contract, RemoveFromPool
  PROVE  Owned'
<1>1. At("Allocate") /\ I.to \notin held /\ I.type \in Pooled /\ pool[I.type] # <<>>
  <2>1. At("Allocate") /\ pool[I.type] # <<>>
    BY DEF RemoveFromPool
  <2>2. I.to \notin held /\ Fits("Allocate")
    BY <2>1, ContractAt, OperandsOf
  <2> QED  BY <2>1, <2>2 DEF Fits
<1>2. PICK t : t = I.type
  OBVIOUS
<1>3. PICK d : d = pool[t]
  OBVIOUS
<1>4. PICK v : v = Last(d)
  OBVIOUS
<1>5. t \in Pooled /\ d \in Seq(Int) /\ d # <<>> /\ DOMAIN pool = Pooled
  BY <1>1, <1>2, <1>3 DEF Owned, PoolsTyped
<1>6. /\ Len(d) \in Nat \ {0} /\ Front(d) \in Seq(Int) /\ v = d[Len(d)]
      /\ Len(Front(d)) = Len(d) - 1
      /\ \A i \in 1 .. Len(d) - 1 : Front(d)[i] = d[i]
  BY <1>4, <1>5, FrontLast
<1>7. DOMAIN d = 1 .. Len(d) /\ DOMAIN Front(d) = 1 .. Len(d) - 1
  BY <1>5, <1>6, LenProperties
<1>8. v \in OnArena /\ type[v] = t /\ v \in Objects
  BY <1>3, <1>5, <1>6, <1>7 DEF Owned, PoolsValid, OnArena
<1>9. /\ reg' = Pointing(I.to, v) /\ held' = held \cup {I.to}
      /\ kids' = [kids EXCEPT ![v] = Childless(t)]
      /\ pool' = [pool EXCEPT ![t] = Front(d)]
      /\ UNCHANGED <<type, top, low>>
  BY <1>1, <1>2, <1>3, <1>4 DEF RemoveFromPool
<1>10. /\ DOMAIN kids' = Objects /\ kids'[v] = Childless(t)
       /\ \A o \in Objects : o # v => kids'[o] = kids[o]
  BY <1>8, <1>9 DEF Owned, MessagesTyped
<1>11. \A o \in Objects : /\ DOMAIN kids'[o] = Fields(type[o])
                          /\ \A f \in Fields(type[o]) :
                               kids'[o][f] = IF o = v THEN <<>> ELSE kids[o][f]
  BY <1>8, <1>10 DEF Owned, MessagesTyped, Childless
<1>12. MessagesTyped' /\ Objects' = Objects /\ OnArena' = OnArena
  <2>1. \A o \in Objects : \A f \in Fields(type[o]) : kids'[o][f] \in Seq(Int)
    <3>1. <<>> \in Seq(Int)
      OBVIOUS
    <3>2. \A o \in Objects : \A f \in Fields(type[o]) : kids[o][f] \in Seq(Int)
      BY DEF Owned, MessagesTyped
    <3> QED  BY <3>1, <3>2, <1>11
  <2> QED  BY <2>1, <1>9, <1>10, <1>11, KidsTyped DEF Owned
<1>13. HandsValid'
  BY <1>8, <1>9, <1>12, LocalOwns DEF Owned
<1>14. /\ DOMAIN pool' = Pooled
       /\ \A u \in Pooled : pool'[u] = IF u = t THEN Front(d) ELSE pool[u]
  BY <1>5, <1>9
<1>15. PoolsTyped'
  BY <1>6, <1>14 DEF Owned, PoolsTyped
<1>16. \A u \in Pooled : \A i \in DOMAIN pool'[u] :
         /\ i \in DOMAIN pool[u] /\ pool'[u][i] = pool[u][i]
         /\ ~(u = t /\ i = Len(d))
  BY <1>3, <1>5, <1>6, <1>7, <1>14
<1>17. PoolsValid'
  BY <1>9, <1>12, <1>16 DEF Owned, PoolsValid
<1>18. KidsValid'
  BY <1>9, <1>11, <1>12 DEF Owned, KidsValid
<1>19. Unique'
  <2>1. PICK q : q = <<"pool", t, Len(d)>>
    OBVIOUS
  <2>2. Owner(q, v)
    BY <2>1, <1>3, <1>5, <1>6, <1>7 DEF Owner, InPool
  <2>3. \A s, w : InPool(s, w)' => InPool(s, w) /\ s # q
    BY <2>1, <1>16 DEF InPool
  <2>4. \A s, w : InHand(s, w)' => InHand(s, w) \/ (s = <<"hand", I.to>> /\ w = v)
    BY <1>9, LocalOwns DEF Owned
  <2>5. \A s, w : InMessage(s, w)' => InMessage(s, w)
    BY <1>9, <1>11, <1>12 DEF InMessage
  <2>6. \A s, w : InHand(s, w) \/ InMessage(s, w) => s # q
    BY <2>1, OwnerTags
  <2>7. \A s, w : Owner(s, w)' => (Owner(s, w) /\ s # q) \/ (s = <<"hand", I.to>> /\ w = v)
    BY <2>3, <2>4, <2>5, <2>6 DEF Owner
  <2> QED  BY <2>2, <2>7, OneMoved DEF Owned
<1> QED  BY <1>12, <1>13, <1>15, <1>17, <1>18, <1>19 DEF Owned

LEMMA MovePoolPtrStep ==
  ASSUME Owned, Contract, MovePoolPtr
  PROVE  Owned'
<1>1. /\ At("Move") /\ I.to \notin held
      /\ reg' = Pointing(I.to, reg[I.x]) /\ UNCHANGED <<type, kids, top, low, pool>>
      /\ held' = IF I.x \in held THEN (held \ {I.x}) \cup {I.to} ELSE held \ {I.to}
  <2>1. At("Move")
    BY DEF MovePoolPtr
  <2>2. I.to \notin held
    BY <2>1, ContractAt, OperandsOf
  <2> QED  BY <2>1, <2>2 DEF MovePoolPtr, messages
<1>2. CASE I.x \notin held
  <2>1. held' = held
    BY <1>1, <1>2
  <2> QED  BY <1>1, <2>1, OnlyLocals
<1>3. CASE I.x \in held
  <2>1. PICK x : x = I.x
    OBVIOUS
  <2>2. PICK y : y = I.to
    OBVIOUS
  <2>3. PICK v : v = reg[x]
    OBVIOUS
  <2>4. /\ x \in held /\ y \notin held /\ held' = (held \ {x}) \cup {y} /\ v \in OnArena
        /\ reg' = Pointing(y, v)
    BY <1>1, <1>3, <2>1, <2>2, <2>3 DEF Owned, HandsValid
  <2>5. /\ DOMAIN reg' = DOMAIN reg \cup {y} /\ reg'[y] = v
        /\ \A z \in held : z \in DOMAIN reg /\ reg'[z] = reg[z]
    BY <2>4 DEF Pointing, Owned, HandsValid
  <2>6. MessagesTyped' /\ KidsValid' /\ PoolsTyped' /\ PoolsValid' /\ OnArena' = OnArena
    BY <1>1, SameMessages, SamePools, PoolsStayValid DEF Owned
  <2>7. HandsValid'
    BY <2>4, <2>5, <2>6 DEF Owned, HandsValid
  <2>8. PICK q, n : q = <<"hand", x>> /\ n = <<"hand", y>>
    OBVIOUS
  <2>9. Owner(q, v)
    BY <2>3, <2>4, <2>8 DEF Owner, InHand
  <2>10. \A s, w : InHand(s, w)' => (InHand(s, w) /\ s # q) \/ (s = n /\ w = v)
    BY <2>4, <2>5, <2>8 DEF InHand
  <2>11. \A s, w : InPool(s, w) \/ InMessage(s, w) => s # q
    BY <2>8, OwnerTags
  <2>12. \A s, w : Owner(s, w)' => (Owner(s, w) /\ s # q) \/ (s = n /\ w = v)
    <3>1. \A s, w : (InPool(s, w)' => InPool(s, w)) /\ (InMessage(s, w)' => InMessage(s, w))
      BY <1>1, SamePools, SameMessages
    <3> QED  BY <3>1, <2>10, <2>11 DEF Owner
  <2>13. Unique'
    BY <2>9, <2>12, OneMoved DEF Owned
  <2> QED  BY <2>6, <2>7, <2>13 DEF Owned
<1> QED  BY <1>2, <1>3

LEMMA DestroyPoolPtrStep ==
  ASSUME Owned, Contract, DestroyPoolPtr
  PROVE  Owned'
<1>1. At("Destroy") /\ (I.x \in held => type[reg[I.x]] \in Pooled)
  <2>1. At("Destroy")
    BY DEF DestroyPoolPtr
  <2>2. Fits("Destroy")
    BY <2>1, ContractAt
  <2> QED  BY <2>1, <2>2 DEF Fits
<1>2. UNCHANGED <<type, kids, top, low, reg>> /\ held' = held \ {I.x}
  BY DEF DestroyPoolPtr, messages
<1>3. CASE I.x \notin held
  <2>1. pool' = pool /\ held' = held
    BY <1>2, <1>3 DEF DestroyPoolPtr
  <2> QED  BY <1>2, <2>1, Untouched
<1>4. CASE I.x \in held
  <2>1. PICK x, v, t, d : x = I.x /\ v = reg[x] /\ t = type[v] /\ d = pool[t]
    OBVIOUS
  <2>2. /\ x \in held /\ held' = held \ {x} /\ v \in OnArena /\ v \in Objects /\ t \in Pooled
        /\ v \in Int
    BY <1>1, <1>2, <1>4, <2>1 DEF Owned, HandsValid, OnArena, MessagesTyped
  <2>3. DOMAIN pool = Pooled /\ d \in Seq(Int)
    BY <2>1, <2>2 DEF Owned, PoolsTyped
  <2>4. PICK e : e = Append(d, v)
    OBVIOUS
  <2>5. pool' = [pool EXCEPT ![t] = e]
    BY <1>4, <2>1, <2>4 DEF DestroyPoolPtr
  <2>6. /\ Len(d) \in Nat /\ e \in Seq(Int) /\ Len(e) = Len(d) + 1
        /\ \A i \in 1 .. Len(d) : e[i] = d[i]
        /\ e[Len(d) + 1] = v
    BY <2>2, <2>3, <2>4, AppendProperties, LenProperties
  <2>7. DOMAIN d = 1 .. Len(d) /\ DOMAIN e = 1 .. Len(d) + 1
    BY <2>3, <2>6, LenProperties
  <2>8. DOMAIN pool' = Pooled /\ \A u \in Pooled : pool'[u] = IF u = t THEN e ELSE pool[u]
    BY <2>2, <2>3, <2>5
  <2>9. PoolsTyped'
    BY <2>6, <2>8 DEF Owned, PoolsTyped
  <2>10. MessagesTyped' /\ KidsValid' /\ OnArena' = OnArena
    BY <1>2, SameMessages DEF Owned
  <2>11. \A u \in Pooled : \A i \in DOMAIN pool'[u] :
           \/ i \in DOMAIN pool[u] /\ pool'[u][i] = pool[u][i]
           \/ u = t /\ i = Len(d) + 1 /\ pool'[u][i] = v
    <3>1. \A i \in DOMAIN e : (i \in DOMAIN d /\ e[i] = d[i]) \/ (i = Len(d) + 1 /\ e[i] = v)
      BY <2>6, <2>7
    <3>2. pool[t] = d
      BY <2>1
    <3> QED  BY <3>1, <3>2, <2>8
  <2>12. PoolsValid'
    BY <1>2, <2>1, <2>2, <2>10, <2>11 DEF Owned, PoolsValid
  <2>13. HandsValid'
    BY <1>2, <2>10 DEF Owned, HandsValid
  <2>14. Unique'
    <3>1. PICK q, n : q = <<"hand", x>> /\ n = <<"pool", t, Len(d) + 1>>
      OBVIOUS
    <3>2. Owner(q, v)
      BY <2>1, <2>2, <3>1 DEF Owner, InHand
    <3>3. \A s, w : InHand(s, w)' => InHand(s, w) /\ s # q
      BY <1>2, <2>2, <3>1 DEF InHand
    <3>4. \A s, w : InPool(s, w)' => InPool(s, w) \/ (s = n /\ w = v)
      BY <2>11, <3>1 DEF InPool
    <3>5. \A s, w : InMessage(s, w)' => InMessage(s, w)
      BY <1>2, SameMessages
    <3>6. \A s, w : InPool(s, w) \/ InMessage(s, w) => s # q
      BY <3>1, OwnerTags
    <3>7. \A s, w : Owner(s, w)' => (Owner(s, w) /\ s # q) \/ (s = n /\ w = v)
      BY <3>3, <3>4, <3>5, <3>6 DEF Owner
    <3> QED  BY <3>2, <3>7, OneMoved DEF Owned
  <2> QED  BY <2>9, <2>10, <2>12, <2>13, <2>14 DEF Owned
<1> QED  BY <1>3, <1>4

(* The last element v of field f of a goes to the local y, and e is left. *)
LastTaken(a, f, y, d, v, e) ==
  /\ a \in Objects /\ f \in Fields(type[a]) /\ a > 0 /\ y \notin held
  /\ d = kids[a][f] /\ d # <<>> /\ v = Last(d) /\ e = Front(d)
  /\ reg' = Pointing(y, v) /\ held' = held \cup {y}
  /\ kids' = [kids EXCEPT ![a][f] = e]
  /\ UNCHANGED <<type, top, low, pool>>

LEMMA Taken ==
  ASSUME Owned, NEW a, NEW f, NEW y, NEW d, NEW v, NEW e, LastTaken(a, f, y, d, v, e)
  PROVE  Owned'
<1>1. /\ a \in Objects /\ f \in Fields(type[a]) /\ a > 0 /\ y \notin held
      /\ d = kids[a][f] /\ d # <<>> /\ v = Last(d) /\ e = Front(d)
  BY DEF LastTaken
<1>2. reg' = Pointing(y, v) /\ held' = held \cup {y} /\ UNCHANGED <<type, top, low, pool>>
  BY DEF LastTaken
<1>3. /\ DOMAIN kids' = Objects
      /\ \A o \in Objects : DOMAIN kids'[o] = Fields(type[o])
      /\ \A o \in Objects : \A g \in Fields(type[o]) :
           kids'[o][g] = IF o = a /\ g = f THEN e ELSE kids[o][g]
  <2>1. MessagesTyped /\ a \in Objects /\ f \in Fields(type[a])
    BY <1>1 DEF Owned
  <2>2. kids' = [kids EXCEPT ![a][f] = e]
    BY DEF LastTaken
  <2> QED  BY <2>1, <2>2, FieldSet
<1>4. d \in Seq(Int)
  BY <1>1 DEF Owned, MessagesTyped
<1>5. /\ Len(d) \in Nat \ {0} /\ e \in Seq(Int) /\ v = d[Len(d)]
      /\ Len(e) = Len(d) - 1
      /\ \A i \in 1 .. Len(d) - 1 : e[i] = d[i]
  <2>1. d # <<>> /\ v = Last(d) /\ e = Front(d)
    BY <1>1
  <2> QED  BY <1>4, <2>1, FrontLast
<1>6. DOMAIN d = 1 .. Len(d) /\ DOMAIN e = 1 .. Len(d) - 1
  BY <1>4, <1>5, LenProperties
<1>7. MessagesTyped' /\ Objects' = Objects /\ OnArena' = OnArena
  <2>1. \A o \in Objects : \A g \in Fields(type[o]) : kids'[o][g] \in Seq(Int)
    BY <1>3, <1>5 DEF Owned, MessagesTyped
  <2> QED  BY <1>2, <1>3, <2>1, KidsTyped DEF Owned
<1>8. v \in OnArena
  <2>1. Len(d) \in DOMAIN kids[a][f] /\ v = kids[a][f][Len(d)]
    BY <1>1, <1>5, <1>6
  <2>2. v \in Objects /\ v > 0
    BY <1>1, <2>1 DEF Owned, KidsValid
  <2> QED  BY <2>2 DEF OnArena, OnHeap, Owned, MessagesTyped
<1>9. HandsValid' /\ PoolsTyped' /\ PoolsValid'
  <2>1. HandsValid'
    BY <1>2, <1>7, <1>8, LocalOwns DEF Owned
  <2> QED  BY <1>2, <1>7, <2>1, SamePools, PoolsStayValid DEF Owned
<1>10. \A o \in Objects : \A g \in Fields(type[o]) : \A i \in DOMAIN kids'[o][g] :
         /\ i \in DOMAIN kids[o][g] /\ kids'[o][g][i] = kids[o][g][i]
         /\ ~(o = a /\ g = f /\ i = Len(d))
  <2>1. \A i \in DOMAIN e : i \in DOMAIN d /\ e[i] = d[i] /\ i # Len(d)
    BY <1>5, <1>6
  <2>2. kids[a][f] = d
    BY <1>1
  <2> QED  BY <2>1, <2>2, <1>3
<1>11. KidsValid'
  BY <1>2, <1>7, <1>10 DEF Owned, KidsValid
<1>12. Unique'
  <2>1. PICK q, n : q = <<"kid", a, f, Len(d)>> /\ n = <<"hand", y>>
    OBVIOUS
  <2>2. Owner(q, v)
    BY <1>1, <1>5, <1>6, <2>1 DEF Owner, InMessage
  <2>3. \A s, w : InMessage(s, w)' => InMessage(s, w) /\ s # q
    BY <1>2, <1>7, <1>10, <2>1 DEF InMessage
  <2>4. \A s, w : InHand(s, w)' => InHand(s, w) \/ (s = n /\ w = v)
    BY <1>2, <2>1, LocalOwns DEF Owned
  <2>5. \A s, w : InPool(s, w)' => InPool(s, w)
    BY <1>2, SamePools
  <2>6. \A s, w : InPool(s, w) \/ InHand(s, w) => s # q
    BY <2>1, OwnerTags
  <2>7. \A s, w : Owner(s, w)' => (Owner(s, w) /\ s # q) \/ (s = n /\ w = v)
    BY <2>3, <2>4, <2>5, <2>6 DEF Owner
  <2> QED  BY <2>2, <2>7, OneMoved DEF Owned
<1> QED  BY <1>7, <1>9, <1>11, <1>12 DEF Owned

LEMMA TakeStep ==
  ASSUME Owned, Contract, WrapPoolPtr \/ ReleaseRaw
  PROVE  Owned'
<1>1. PICK op : op \in {"Take", "Release"} /\ At(op)
  BY DEF WrapPoolPtr, ReleaseRaw
<1>2. /\ I.o \in DOMAIN reg /\ reg[I.o] \in Objects /\ I.f \in Fields(type[reg[I.o]])
      /\ I.to \notin held /\ Fits(op)
  BY <1>1, ContractAt, OperandsOf
<1>3. reg[I.o] > 0
  BY <1>1, <1>2 DEF Fits
<1>4. PICK a, f, y, d, v, e : /\ a = reg[I.o] /\ f = I.f /\ y = I.to /\ d = kids[a][f]
                              /\ v = Last(d) /\ e = Front(d)
  OBVIOUS
<1>5. /\ d # <<>> /\ reg' = Pointing(y, v) /\ held' = held \cup {y}
      /\ UNCHANGED <<type, top, low, pool>>
  BY <1>4 DEF WrapPoolPtr, ReleaseRaw, Of
<1>6. kids' = [kids EXCEPT ![a][f] = e]
  <2>1. kids' = [kids EXCEPT ![reg[I.o]][I.f] = Front(@)]
    BY DEF WrapPoolPtr, ReleaseRaw
  <2> QED  BY <1>4, <2>1
<1>7. LastTaken(a, f, y, d, v, e)
  BY <1>2, <1>3, <1>4, <1>5, <1>6 DEF LastTaken
<1> QED  BY <1>7, Taken

LEMMA AddAllocatedStep ==
  ASSUME Owned, Contract, AddAllocated
  PROVE  Owned'
<1>1. /\ I.o \in DOMAIN reg /\ reg[I.o] \in Objects /\ I.f \in Fields(type[reg[I.o]])
      /\ reg[I.o] > 0 /\ I.x \in held
  <2>1. At("Give")
    BY DEF AddAllocated
  <2>2. /\ I.o \in DOMAIN reg /\ reg[I.o] \in Objects /\ I.f \in Fields(type[reg[I.o]])
        /\ Fits("Give")
    BY <2>1, ContractAt, OperandsOf
  <2> QED  BY <2>2 DEF Fits
<1>2. PICK a, f, x, d, v, e : /\ a = reg[I.o] /\ f = I.f /\ x = I.x /\ v = reg[x]
                              /\ d = kids[a][f] /\ e = Append(d, v)
  OBVIOUS
<1>3. held' = held \ {x} /\ UNCHANGED <<type, top, low, pool, reg>>
  BY <1>2 DEF AddAllocated
<1>4. kids' = [kids EXCEPT ![a][f] = e]
  <2>1. kids' = [kids EXCEPT ![reg[I.o]][I.f] = Append(@, reg[I.x])]
    BY DEF AddAllocated
  <2> QED  BY <1>2, <2>1
<1>5. a \in Objects /\ f \in Fields(type[a]) /\ a > 0 /\ x \in held
  BY <1>1, <1>2
<1>6. v \in OnArena /\ v \in Objects /\ v \in Int /\ v > 0 /\ d \in Seq(Int)
  <2>1. v \in OnArena
    BY <1>2, <1>5 DEF Owned, HandsValid
  <2>2. v \in Objects /\ ~(v < 0)
    BY <2>1 DEF OnArena, OnHeap
  <2> QED  BY <1>2, <1>5, <2>1, <2>2 DEF Owned, MessagesTyped
<1>7. /\ Len(d) \in Nat /\ e \in Seq(Int) /\ Len(e) = Len(d) + 1
      /\ \A i \in 1 .. Len(d) : e[i] = d[i]
      /\ e[Len(d) + 1] = v
  <2>1. e = Append(d, v)
    BY <1>2
  <2>2. d \in Seq(Int) /\ v \in Int
    BY <1>6
  <2> QED  BY <2>1, <2>2, AppendProperties, LenProperties
<1>8. DOMAIN d = 1 .. Len(d) /\ DOMAIN e = 1 .. Len(d) + 1
  BY <1>6, <1>7, LenProperties
<1>9. /\ DOMAIN kids' = Objects
      /\ \A o \in Objects : DOMAIN kids'[o] = Fields(type[o])
      /\ \A o \in Objects : \A g \in Fields(type[o]) :
           kids'[o][g] = IF o = a /\ g = f THEN e ELSE kids[o][g]
  BY <1>4, <1>5, FieldSet DEF Owned
<1>10. MessagesTyped' /\ Objects' = Objects /\ OnArena' = OnArena
  <2>1. \A o \in Objects : \A g \in Fields(type[o]) : kids'[o][g] \in Seq(Int)
    BY <1>7, <1>9 DEF Owned, MessagesTyped
  <2> QED  BY <1>3, <1>9, <2>1, KidsTyped DEF Owned
<1>11. PoolsTyped' /\ PoolsValid'
  BY <1>3, <1>10, SamePools, PoolsStayValid DEF Owned
<1>12. HandsValid'
  BY <1>3, <1>10 DEF Owned, HandsValid
<1>13. \A o \in Objects : \A g \in Fields(type[o]) : \A i \in DOMAIN kids'[o][g] :
         \/ i \in DOMAIN kids[o][g] /\ kids'[o][g][i] = kids[o][g][i]
         \/ o = a /\ g = f /\ i = Len(d) + 1 /\ kids'[o][g][i] = v
  <2>1. \A i \in DOMAIN e : (i \in DOMAIN d /\ e[i] = d[i]) \/ (i = Len(d) + 1 /\ e[i] = v)
    BY <1>7, <1>8
  <2>2. kids[a][f] = d
    BY <1>2
  <2> QED  BY <2>1, <2>2, <1>9
<1>14. KidsValid'
  BY <1>3, <1>5, <1>6, <1>10, <1>13 DEF Owned, KidsValid
<1>15. Unique'
  <2>1. PICK q, n : q = <<"hand", x>> /\ n = <<"kid", a, f, Len(d) + 1>>
    OBVIOUS
  <2>2. Owner(q, v)
    BY <1>2, <1>5, <2>1 DEF Owner, InHand
  <2>3. \A s, w : InHand(s, w)' => InHand(s, w) /\ s # q
    BY <1>3, <1>5, <2>1 DEF InHand
  <2>4. \A s, w : InMessage(s, w)' => InMessage(s, w) \/ (s = n /\ w = v)
    BY <1>3, <1>10, <1>13, <2>1 DEF InMessage
  <2>5. \A s, w : InPool(s, w)' => InPool(s, w)
    BY <1>3, SamePools
  <2>6. \A s, w : InPool(s, w) \/ InMessage(s, w) => s # q
    BY <2>1, OwnerTags
  <2>7. \A s, w : Owner(s, w)' => (Owner(s, w) /\ s # q) \/ (s = n /\ w = v)
    BY <2>3, <2>4, <2>5, <2>6 DEF Owner
  <2> QED  BY <2>2, <2>7, OneMoved DEF Owned
<1> QED  BY <1>10, <1>11, <1>12, <1>14, <1>15 DEF Owned

(* A new message v of type t is put at the end of field f of a. *)
NewChild(a, f, t, y, v, d, e, k) ==
  /\ a \in Objects /\ f \in Fields(type[a]) /\ t \in Types /\ y \notin held
  /\ v = NewPlace(a > 0) /\ d = kids[a][f] /\ e = Append(d, v)
  /\ k = [kids EXCEPT ![a][f] = e]
  /\ NewMessage(v, t, k)
  /\ reg' = Pointing(y, v) /\ UNCHANGED <<pool, held>>

LEMMA ChildAdded ==
  ASSUME Owned, NEW a, NEW f, NEW t, NEW y, NEW v, NEW d, NEW e, NEW k,
         NewChild(a, f, t, y, v, d, e, k)
  PROVE  Owned'
<1>1. /\ a \in Objects /\ f \in Fields(type[a]) /\ t \in Types /\ y \notin held
      /\ v = NewPlace(a > 0) /\ d = kids[a][f] /\ e = Append(d, v)
  BY DEF NewChild
<1>2. reg' = Pointing(y, v) /\ UNCHANGED <<pool, held>>
  BY DEF NewChild
<1>3. /\ DOMAIN k = Objects
      /\ \A o \in Objects : DOMAIN k[o] = Fields(type[o])
      /\ \A o \in Objects : \A g \in Fields(type[o]) :
           k[o][g] = IF o = a /\ g = f THEN e ELSE kids[o][g]
  <2>1. MessagesTyped /\ a \in Objects /\ f \in Fields(type[a])
    BY <1>1 DEF Owned
  <2>2. k = [kids EXCEPT ![a][f] = e]
    BY DEF NewChild
  <2> QED  BY <2>1, <2>2, FieldSet
<1>4. /\ v \in Int /\ v \notin Objects /\ (v > 0 <=> a > 0)
      /\ Objects' = Objects \cup {v} /\ DOMAIN kids' = Objects \cup {v}
      /\ type'[v] = t /\ \A o \in Objects : type'[o] = type[o]
      /\ DOMAIN kids'[v] = Fields(t) /\ \A g \in Fields(t) : kids'[v][g] = <<>>
      /\ \A o \in Objects : kids'[o] = k[o]
      /\ top' \in Nat /\ low' \in Nat
      /\ \A o \in Objects \cup {v} :
           o \in Int /\ ((0 < o /\ o <= top') \/ (o < 0 /\ 0 - low' <= o))
  <2>1. PICK b \in BOOLEAN : b <=> a > 0
    OBVIOUS
  <2>2. v = NewPlace(b) /\ DOMAIN k = Objects /\ NewMessage(v, t, k) /\ t \in Types
    BY <1>1, <1>3, <2>1 DEF NewChild, NewPlace
  <2>3. MessagesTyped
    BY DEF Owned
  <2>4. v > 0 <=> b
    BY <2>2, <2>3, Created
  <2>5. v > 0 <=> a > 0
    BY <2>1, <2>4
  <2> QED  BY <2>2, <2>3, <2>5, Created
<1>5. d \in Seq(Int)
  BY <1>1 DEF Owned, MessagesTyped
<1>6. /\ Len(d) \in Nat /\ e \in Seq(Int) /\ Len(e) = Len(d) + 1
      /\ \A i \in 1 .. Len(d) : e[i] = d[i]
      /\ e[Len(d) + 1] = v
  <2>1. e = Append(d, v)
    BY <1>1
  <2>2. d \in Seq(Int) /\ v \in Int
    BY <1>4, <1>5
  <2> QED  BY <2>1, <2>2, AppendProperties, LenProperties
<1>7. DOMAIN d = 1 .. Len(d) /\ DOMAIN e = 1 .. Len(d) + 1
  BY <1>5, <1>6, LenProperties
<1>8. MessagesTyped'
  <2>1. \A o \in Objects' : type'[o] \in Types
    BY <1>1, <1>4 DEF Owned, MessagesTyped
  <2>2. \A o \in Objects' : DOMAIN kids'[o] = Fields(type'[o])
    BY <1>3, <1>4
  <2>3. \A o \in Objects' : \A g \in Fields(type'[o]) : kids'[o][g] \in Seq(Int)
    <3>1. <<>> \in Seq(Int)
      OBVIOUS
    <3>2. \A o \in Objects : \A g \in Fields(type[o]) : k[o][g] \in Seq(Int)
      BY <1>3, <1>6 DEF Owned, MessagesTyped
    <3> QED  BY <3>1, <3>2, <1>4
  <2> QED  BY <1>4, <2>1, <2>2, <2>3 DEF MessagesTyped
<1>9. OnArena \subseteq OnArena'
  BY <1>4 DEF OnArena, OnHeap
<1>10. HandsValid' /\ PoolsTyped' /\ PoolsValid'
  <2>1. HandsValid'
    BY <1>1, <1>2, <1>9, LocalSet DEF Owned
  <2> QED  BY <1>2, <1>4, <2>1, SamePools, PoolsStayValid DEF Owned
<1>11. \A i \in DOMAIN e : (i \in DOMAIN d /\ e[i] = d[i]) \/ (i = Len(d) + 1 /\ e[i] = v)
  BY <1>6, <1>7
<1>12. \A o \in Objects : \A g \in Fields(type[o]) : \A i \in DOMAIN kids'[o][g] :
         \/ i \in DOMAIN kids[o][g] /\ kids'[o][g][i] = kids[o][g][i]
         \/ o = a /\ g = f /\ i = Len(d) + 1 /\ kids'[o][g][i] = v
  <2>1. kids[a][f] = d
    BY <1>1
  <2>2. \A o \in Objects : \A g \in Fields(type[o]) :
          kids'[o][g] = IF o = a /\ g = f THEN e ELSE kids[o][g]
    BY <1>3, <1>4
  <2> QED  BY <1>11, <2>1, <2>2
<1>13. KidsValid'
  <2>1. \A g \in Fields(type'[v]) : DOMAIN kids'[v][g] = {}
    BY <1>4
  <2>2. \A o \in Objects : \A g \in Fields(type[o]) : \A i \in DOMAIN kids'[o][g] :
          kids'[o][g][i] \in Objects' /\ (o > 0 <=> kids'[o][g][i] > 0)
    BY <1>4, <1>12 DEF Owned, KidsValid
  <2> QED  BY <1>4, <2>1, <2>2 DEF KidsValid
<1>14. Unique'
  <2>1. PICK q, n : q = <<"none">> /\ n = <<"kid", a, f, Len(d) + 1>>
    OBVIOUS
  <2>2. \A s : ~Owner(s, v)
    BY <1>4, OwnedIsThere DEF Owned
  <2>3. \A s, w : Owner(s, w) => s # q
    BY <2>1, OwnerTags DEF Owner
  <2>4. \A s, w : InMessage(s, w)' => InMessage(s, w) \/ (s = n /\ w = v)
    <3> SUFFICES ASSUME NEW s, NEW w, InMessage(s, w)'
                 PROVE  InMessage(s, w) \/ (s = n /\ w = v)
      OBVIOUS
    <3>1. PICK o \in Objects' : \E g \in Fields(type'[o]) : \E i \in DOMAIN kids'[o][g] :
                 s = <<"kid", o, g, i>> /\ w = kids'[o][g][i]
      BY DEF InMessage
    <3>2. o # v
      BY <3>1, <1>4
    <3>3. o \in Objects /\ type'[o] = type[o]
      BY <3>1, <3>2, <1>4
    <3>4. PICK g \in Fields(type[o]) : \E i \in DOMAIN kids'[o][g] :
                 s = <<"kid", o, g, i>> /\ w = kids'[o][g][i]
      BY <3>1, <3>3
    <3>5. PICK i \in DOMAIN kids'[o][g] : s = <<"kid", o, g, i>> /\ w = kids'[o][g][i]
      BY <3>4
    <3>6. \/ i \in DOMAIN kids[o][g] /\ kids'[o][g][i] = kids[o][g][i]
          \/ o = a /\ g = f /\ i = Len(d) + 1 /\ kids'[o][g][i] = v
      BY <3>3, <1>12
    <3> QED  BY <3>3, <3>5, <3>6, <2>1 DEF InMessage
  <2>5. \A s, w : (InPool(s, w)' => InPool(s, w)) /\ (InHand(s, w)' => InHand(s, w))
    BY <1>1, <1>2, SamePools, LocalSet DEF Owned
  <2>6. \A s, w : Owner(s, w)' => (Owner(s, w) /\ s # q) \/ (s = n /\ w = v)
    BY <2>3, <2>4, <2>5 DEF Owner
  <2> QED  BY <2>2, <2>6, OneMoved DEF Owned
<1> QED  BY <1>8, <1>10, <1>13, <1>14 DEF Owned

LEMMA AddNewStep ==
  ASSUME Owned, Contract, AddNew
  PROVE  Owned'
<1>1. /\ I.o \in DOMAIN reg /\ reg[I.o] \in Objects /\ I.f \in Fields(type[reg[I.o]])
      /\ I.to \notin held /\ I.type \in Types
  <2>1. At("Add")
    BY DEF AddNew
  <2> QED  BY <2>1, ContractAt, OperandsOf
<1>2. PICK a, f, t, y : a = reg[I.o] /\ f = I.f /\ t = I.type /\ y = I.to
  OBVIOUS
<1>3. PICK v : v = NewPlace(a > 0)
  OBVIOUS
<1>4. PICK d, e : d = kids[a][f] /\ e = Append(d, v)
  OBVIOUS
<1>5. PICK k : k = [kids EXCEPT ![a][f] = e]
  OBVIOUS
<1>6. k = [kids EXCEPT ![a][f] = Append(@, v)]
  BY <1>4, <1>5
<1>7. NewMessage(v, t, k) /\ reg' = Pointing(y, v) /\ UNCHANGED <<pool, held>>
  BY <1>2, <1>3, <1>6 DEF AddNew
<1>8. NewChild(a, f, t, y, v, d, e, k)
  BY <1>1, <1>2, <1>3, <1>4, <1>5, <1>7 DEF NewChild
<1> QED  BY <1>8, ChildAdded

LEMMA MakeMessageStep ==
  ASSUME Owned, Contract, MakeMessage
  PROVE  Owned'
<1>1. I.to \notin held /\ I.type \in Types /\ I.in_arena \in BOOLEAN
  <2>1. At("Make")
    BY DEF MakeMessage
  <2>2. I.to \notin held /\ I.type \in Types /\ Fits("Make")
    BY <2>1, ContractAt, OperandsOf
  <2> QED  BY <2>2 DEF Fits
<1>2. PICK b, t, y : b = I.in_arena /\ t = I.type /\ y = I.to
  OBVIOUS
<1>3. PICK v : v = NewPlace(b)
  OBVIOUS
<1>4. /\ NewMessage(v, t, kids) /\ b \in BOOLEAN /\ t \in Types /\ y \notin held
      /\ reg' = Pointing(y, v) /\ UNCHANGED <<pool, held>>
  BY <1>1, <1>2, <1>3 DEF MakeMessage
<1>5. /\ v \in Int /\ v \notin Objects
      /\ Objects' = Objects \cup {v} /\ DOMAIN kids' = Objects \cup {v}
      /\ type'[v] = t /\ \A o \in Objects : type'[o] = type[o]
      /\ DOMAIN kids'[v] = Fields(t) /\ \A f \in Fields(t) : kids'[v][f] = <<>>
      /\ \A o \in Objects : kids'[o] = kids[o]
      /\ top' \in Nat /\ low' \in Nat
      /\ \A o \in Objects \cup {v} :
           o \in Int /\ ((0 < o /\ o <= top') \/ (o < 0 /\ 0 - low' <= o))
  <2>1. MessagesTyped /\ DOMAIN kids = Objects
    BY DEF Owned, MessagesTyped
  <2> QED  BY <1>3, <1>4, <2>1, Created
<1>6. MessagesTyped'
  <2>1. \A o \in Objects' : type'[o] \in Types
    BY <1>4, <1>5 DEF Owned, MessagesTyped
  <2>2. \A o \in Objects' : DOMAIN kids'[o] = Fields(type'[o])
    BY <1>5 DEF Owned, MessagesTyped
  <2>3. \A o \in Objects' : \A f \in Fields(type'[o]) : kids'[o][f] \in Seq(Int)
    <3>1. <<>> \in Seq(Int)
      OBVIOUS
    <3>2. \A o \in Objects : \A f \in Fields(type[o]) : kids[o][f] \in Seq(Int)
      BY DEF Owned, MessagesTyped
    <3> QED  BY <3>1, <3>2, <1>5
  <2> QED  BY <1>5, <2>1, <2>2, <2>3 DEF MessagesTyped
<1>7. OnArena \subseteq OnArena'
  BY <1>5 DEF OnArena, OnHeap
<1>8. HandsValid' /\ PoolsTyped' /\ PoolsValid'
  <2>1. HandsValid'
    BY <1>4, <1>7, LocalSet DEF Owned
  <2> QED  BY <1>4, <1>5, <2>1, SamePools, PoolsStayValid DEF Owned
<1>9. KidsValid'
  BY <1>5 DEF Owned, KidsValid
<1>10. Unique'
  <2>1. \A s, w : InMessage(s, w)' => InMessage(s, w)
    <3> SUFFICES ASSUME NEW s, NEW w, InMessage(s, w)'  PROVE InMessage(s, w)
      OBVIOUS
    <3>1. PICK o \in Objects' : \E f \in Fields(type'[o]) : \E i \in DOMAIN kids'[o][f] :
                 s = <<"kid", o, f, i>> /\ w = kids'[o][f][i]
      BY DEF InMessage
    <3>2. o # v
      BY <3>1, <1>5
    <3> QED  BY <3>1, <3>2, <1>5 DEF InMessage
  <2>2. \A s, w : (InPool(s, w)' => InPool(s, w)) /\ (InHand(s, w)' => InHand(s, w))
    BY <1>4, SamePools, LocalSet DEF Owned
  <2>3. \A s, w : Owner(s, w)' => Owner(s, w)
    BY <2>1, <2>2 DEF Owner
  <2> QED  BY <2>3, NoneAdded DEF Owned
<1> QED  BY <1>6, <1>8, <1>9, <1>10 DEF Owned

(* A pointer is set, or nothing that is owned changes.                     *)
LEMMA PointIntoStep ==
  ASSUME Owned, Contract, PointInto
  PROVE  Owned'
<1>1. I.to \notin held
  <2>1. At("Point")
    BY DEF PointInto
  <2> QED  BY <2>1, ContractAt, OperandsOf
<1>2. PICK y, v : y = I.to /\ v = Of(I.o, I.f)[I.i]
  OBVIOUS
<1>3. reg' = Pointing(y, v) /\ y \notin held /\ UNCHANGED <<type, kids, top, low, pool, held>>
  BY <1>1, <1>2 DEF PointInto, messages
<1> QED  BY <1>3, OnlyLocals

LEMMA NothingMovesStep ==
  ASSUME Owned, SetScalars \/ CopyMessage \/ ReleaseNothing \/ PointOutside
  PROVE  Owned'
<1>1. UNCHANGED <<type, kids, top, low, pool, held, reg>>
  BY DEF SetScalars, CopyMessage, ReleaseNothing, PointOutside, Fail, messages
<1> QED  BY <1>1, Untouched

(* What a message held is dropped: it has no owner from now on.            *)
LEMMA WriteScalarsStep ==
  ASSUME Owned, Contract, WriteScalars
  PROVE  Owned'
<1>1. I.x \in DOMAIN reg /\ reg[I.x] \in Objects
  <2>1. At("Write")
    BY DEF WriteScalars
  <2> QED  BY <2>1, ContractAt, OperandsOf
<1>2. PICK a, e : a = reg[I.x] /\ e = Childless(type[a])
  OBVIOUS
<1>3. kids' = [kids EXCEPT ![a] = e] /\ UNCHANGED <<type, top, low, pool, reg, held>>
  BY <1>2 DEF WriteScalars
<1>4. a \in Objects /\ DOMAIN e = Fields(type[a]) /\ \A f \in Fields(type[a]) : e[f] = <<>>
  BY <1>1, <1>2 DEF Childless
<1>5. DOMAIN kids' = Objects /\ kids'[a] = e /\ \A o \in Objects : o # a => kids'[o] = kids[o]
  BY <1>3, <1>4 DEF Owned, MessagesTyped
<1>6. \A o \in Objects : DOMAIN kids'[o] = Fields(type[o])
  BY <1>4, <1>5 DEF Owned, MessagesTyped
<1>7. MessagesTyped' /\ Objects' = Objects /\ OnArena' = OnArena
  <2>1. \A o \in Objects : \A f \in Fields(type[o]) : kids'[o][f] \in Seq(Int)
    <3>1. <<>> \in Seq(Int)
      OBVIOUS
    <3>2. \A o \in Objects : \A f \in Fields(type[o]) : kids[o][f] \in Seq(Int)
      BY DEF Owned, MessagesTyped
    <3> QED  BY <3>1, <3>2, <1>4, <1>5
  <2> QED  BY <1>3, <1>5, <1>6, <2>1, KidsTyped DEF Owned
<1>8. HandsValid' /\ PoolsTyped' /\ PoolsValid'
  BY <1>3, <1>7, SamePools, PoolsStayValid DEF Owned, HandsValid
<1>9. \A o \in Objects : \A f \in Fields(type[o]) : \A i \in DOMAIN kids'[o][f] :
        i \in DOMAIN kids[o][f] /\ kids'[o][f][i] = kids[o][f][i]
  <2>1. \A f \in Fields(type[a]) : DOMAIN kids'[a][f] = {}
    BY <1>4, <1>5
  <2> QED  BY <1>5, <2>1
<1>10. KidsValid'
  BY <1>3, <1>7, <1>9 DEF Owned, KidsValid
<1>11. Unique'
  <2>1. \A s, w : InMessage(s, w)' => InMessage(s, w)
    BY <1>3, <1>7, <1>9 DEF InMessage
  <2>2. \A s, w : InHand(s, w)' => InHand(s, w)
    BY <1>3 DEF InHand
  <2>3. \A s, w : InPool(s, w)' => InPool(s, w)
    BY <1>3, SamePools
  <2>4. \A s, w : Owner(s, w)' => Owner(s, w)
    BY <2>1, <2>2, <2>3 DEF Owner
  <2> QED  BY <2>4, NoneAdded DEF Owned
<1> QED  BY <1>7, <1>8, <1>10, <1>11 DEF Owned

(* The fields of messages change hands: R says which field has now what    *)
(* which other one had, and no two have what the same one had.             *)
Permuted(R) ==
  /\ UNCHANGED <<type, top, low, pool, reg, held>>
  /\ DOMAIN kids' = Objects
  /\ \A o \in Objects : DOMAIN kids'[o] = Fields(type[o])
  /\ \A o \in Objects : \A f \in Fields(type[o]) :
       \E p \in Objects : \E g \in Fields(type[p]) :
         /\ <<<<o, f>>, <<p, g>>>> \in R
         /\ kids'[o][f] = kids[p][g] /\ (o > 0 <=> p > 0)
  /\ \A u, v, w : <<u, w>> \in R /\ <<v, w>> \in R => u = v

LEMMA PermutedStep ==
  ASSUME Owned, NEW R, Permuted(R)
  PROVE  Owned'
<1>1. UNCHANGED <<type, top, low, pool, reg, held>> /\ DOMAIN kids' = Objects
  BY DEF Permuted
<1>2. \A o \in Objects : DOMAIN kids'[o] = Fields(type[o])
  BY DEF Permuted
<1>3. \A o \in Objects : \A f \in Fields(type[o]) :
        \E p \in Objects : \E g \in Fields(type[p]) :
          /\ <<<<o, f>>, <<p, g>>>> \in R
          /\ kids'[o][f] = kids[p][g] /\ (o > 0 <=> p > 0)
  BY DEF Permuted
<1>4. \A u, v, w : <<u, w>> \in R /\ <<v, w>> \in R => u = v
  BY DEF Permuted
<1>5. MessagesTyped' /\ Objects' = Objects /\ OnArena' = OnArena
  <2>1. \A o \in Objects : \A f \in Fields(type[o]) : kids'[o][f] \in Seq(Int)
    <3> SUFFICES ASSUME NEW o \in Objects, NEW f \in Fields(type[o])
                 PROVE  kids'[o][f] \in Seq(Int)
      OBVIOUS
    <3>1. PICK p \in Objects : \E g \in Fields(type[p]) :
                 /\ <<<<o, f>>, <<p, g>>>> \in R
                 /\ kids'[o][f] = kids[p][g] /\ (o > 0 <=> p > 0)
      BY <1>3
    <3>2. PICK g \in Fields(type[p]) : kids'[o][f] = kids[p][g] /\ (o > 0 <=> p > 0)
      BY <3>1
    <3>3. kids[p][g] \in Seq(Int)
      BY DEF Owned, MessagesTyped
    <3> QED  BY <3>2, <3>3
  <2> QED  BY <1>1, <1>2, <2>1, KidsTyped DEF Owned
<1>6. HandsValid' /\ PoolsTyped' /\ PoolsValid'
  BY <1>1, <1>5, SamePools, PoolsStayValid DEF Owned, HandsValid
<1>7. KidsValid'
  <2>1. \A o \in Objects : \A f \in Fields(type[o]) : \A i \in DOMAIN kids'[o][f] :
          kids'[o][f][i] \in Objects /\ (o > 0 <=> kids'[o][f][i] > 0)
    <3> SUFFICES ASSUME NEW o \in Objects, NEW f \in Fields(type[o]),
                        NEW i \in DOMAIN kids'[o][f]
                 PROVE  kids'[o][f][i] \in Objects /\ (o > 0 <=> kids'[o][f][i] > 0)
      OBVIOUS
    <3>1. PICK p \in Objects : \E g \in Fields(type[p]) :
                 /\ <<<<o, f>>, <<p, g>>>> \in R
                 /\ kids'[o][f] = kids[p][g] /\ (o > 0 <=> p > 0)
      BY <1>3
    <3>2. PICK g \in Fields(type[p]) : kids'[o][f] = kids[p][g] /\ (o > 0 <=> p > 0)
      BY <3>1
    <3>3. kids[p][g][i] \in Objects /\ (p > 0 <=> kids[p][g][i] > 0)
      BY <3>2 DEF Owned, KidsValid
    <3> QED  BY <3>2, <3>3
  <2> QED  BY <1>1, <1>5, <2>1 DEF KidsValid
<1>8. ASSUME NEW s, NEW w, InMessage(s, w)'
      PROVE  \E o, f, p, g, i : /\ s = <<"kid", o, f, i>> /\ <<<<o, f>>, <<p, g>>>> \in R
                                /\ Owner(<<"kid", p, g, i>>, w)
  <2>1. PICK o \in Objects : \E f \in Fields(type[o]) : \E i \in DOMAIN kids'[o][f] :
               s = <<"kid", o, f, i>> /\ w = kids'[o][f][i]
    BY <1>1, <1>5, <1>8 DEF InMessage
  <2>2. PICK f \in Fields(type[o]) : \E i \in DOMAIN kids'[o][f] :
               s = <<"kid", o, f, i>> /\ w = kids'[o][f][i]
    BY <2>1
  <2>3. PICK p \in Objects : \E g \in Fields(type[p]) :
               <<<<o, f>>, <<p, g>>>> \in R /\ kids'[o][f] = kids[p][g]
    BY <1>3
  <2>4. PICK g \in Fields(type[p]) :
               <<<<o, f>>, <<p, g>>>> \in R /\ kids'[o][f] = kids[p][g]
    BY <2>3
  <2>5. PICK i \in DOMAIN kids[p][g] : s = <<"kid", o, f, i>> /\ w = kids[p][g][i]
    BY <2>2, <2>4
  <2>6. Owner(<<"kid", p, g, i>>, w)
    BY <2>5 DEF Owner, InMessage
  <2> QED  BY <2>4, <2>5, <2>6
<1>9. \A s, w : InPool(s, w)' \/ InHand(s, w)' => Owner(s, w) /\ s[1] # "kid"
  <2>1. \A s, w : InHand(s, w)' => InHand(s, w)
    BY <1>1 DEF InHand
  <2>2. \A s, w : InPool(s, w)' => InPool(s, w)
    BY <1>1, SamePools
  <2> QED  BY <2>1, <2>2, OwnerTags DEF Owner
<1>10. Unique'
  <2> SUFFICES ASSUME NEW r, NEW s, NEW w, Owner(r, w)', Owner(s, w)'  PROVE r = s
    BY DEF Unique
  <2>1. \A t, u : Owner(t, w) /\ Owner(u, w) => t = u
    BY DEF Owned, Unique
  <2>2. ASSUME NEW t, NEW u, InMessage(t, w)', InPool(u, w)' \/ InHand(u, w)'  PROVE FALSE
    <3>1. PICK p, g, i : Owner(<<"kid", p, g, i>>, w)
      BY <1>8, <2>2
    <3>2. Owner(u, w) /\ u[1] # "kid"
      BY <1>9, <2>2
    <3>3. u = <<"kid", p, g, i>>
      BY <2>1, <3>1, <3>2
    <3> QED  BY <3>2, <3>3
  <2>3. CASE InMessage(r, w)' /\ InMessage(s, w)'
    <3>1. PICK o, f, p, g, i : /\ r = <<"kid", o, f, i>> /\ <<<<o, f>>, <<p, g>>>> \in R
                               /\ Owner(<<"kid", p, g, i>>, w)
      BY <1>8, <2>3
    <3>2. PICK o2, f2, p2, g2, i2 :
            /\ s = <<"kid", o2, f2, i2>> /\ <<<<o2, f2>>, <<p2, g2>>>> \in R
            /\ Owner(<<"kid", p2, g2, i2>>, w)
      BY <1>8, <2>3
    <3>3. <<"kid", p, g, i>> = <<"kid", p2, g2, i2>>
      BY <2>1, <3>1, <3>2
    <3>4. p = p2 /\ g = g2 /\ i = i2
      BY <3>3
    <3>5. <<o, f>> = <<o2, f2>>
      BY <1>4, <3>1, <3>2, <3>4
    <3> QED  BY <3>1, <3>2, <3>4, <3>5
  <2>4. CASE ~InMessage(r, w)' /\ ~InMessage(s, w)'
    <3>1. (InPool(r, w)' \/ InHand(r, w)') /\ (InPool(s, w)' \/ InHand(s, w)')
      BY <2>4 DEF Owner
    <3> QED  BY <1>9, <2>1, <3>1
  <2>5. (InMessage(r, w)' \/ InPool(r, w)' \/ InHand(r, w)')
        /\ (InMessage(s, w)' \/ InPool(s, w)' \/ InHand(s, w)')
    BY DEF Owner
  <2> QED  BY <2>2, <2>3, <2>4, <2>5
<1> QED  BY <1>5, <1>6, <1>7, <1>10 DEF Owned

LEMMA SwapMessagesStep ==
  ASSUME Owned, Contract, SwapMessages
  PROVE  Owned'
<1>1. /\ reg[I.x] \in Objects /\ reg[I.y] \in Objects /\ reg[I.x] > 0 /\ reg[I.y] > 0
      /\ type[reg[I.x]] = type[reg[I.y]]
  <2>1. At("Swap")
    BY DEF SwapMessages
  <2>2. reg[I.x] \in Objects /\ reg[I.y] \in Objects /\ Fits("Swap")
    BY <2>1, ContractAt, OperandsOf
  <2> QED  BY <2>2 DEF Fits
<1>2. PICK a, b : a = reg[I.x] /\ b = reg[I.y]
  OBVIOUS
<1>3. PICK F : \A o \in Objects : Fields(type[o]) \subseteq F
  <2>1. \A o \in Objects : Fields(type[o]) \subseteq UNION {Fields(type[p]) : p \in Objects}
    OBVIOUS
  <2> QED  BY <2>1
<1>4. PICK m : m = [o \in Objects |-> IF o = a THEN b ELSE IF o = b THEN a ELSE o]
  OBVIOUS
<1>5. PICK R : R = UNION {{<<<<o, f>>, <<m[o], f>>>> : f \in F} : o \in Objects}
  OBVIOUS
<1>6. /\ a \in Objects /\ b \in Objects /\ a > 0 /\ b > 0 /\ type[a] = type[b]
      /\ DOMAIN kids = Objects /\ \A o \in Objects : DOMAIN kids[o] = Fields(type[o])
  BY <1>1, <1>2 DEF Owned, MessagesTyped
<1>7. UNCHANGED <<type, top, low, pool, reg, held>>
  BY DEF SwapMessages
<1>8. kids' = [kids EXCEPT ![a] = kids[b], ![b] = kids[a]]
  BY <1>2 DEF SwapMessages
<1>9. \A o \in Objects : /\ m[o] \in Objects /\ kids'[o] = kids[m[o]]
                         /\ type[m[o]] = type[o] /\ (o > 0 <=> m[o] > 0)
  BY <1>4, <1>6, <1>8
<1>10. DOMAIN kids' = Objects /\ \A o \in Objects : DOMAIN kids'[o] = Fields(type[o])
  BY <1>6, <1>8, <1>9
<1>11. \A o \in Objects : \A f \in Fields(type[o]) :
         \E p \in Objects : \E g \in Fields(type[p]) :
           /\ <<<<o, f>>, <<p, g>>>> \in R
           /\ kids'[o][f] = kids[p][g] /\ (o > 0 <=> p > 0)
  <2> SUFFICES ASSUME NEW o \in Objects, NEW f \in Fields(type[o])
               PROVE  \E p \in Objects : \E g \in Fields(type[p]) :
                        /\ <<<<o, f>>, <<p, g>>>> \in R
                        /\ kids'[o][f] = kids[p][g] /\ (o > 0 <=> p > 0)
    OBVIOUS
  <2>1. <<<<o, f>>, <<m[o], f>>>> \in R
    <3>1. f \in F
      BY <1>3
    <3>2. <<<<o, f>>, <<m[o], f>>>> \in {<<<<o, h>>, <<m[o], h>>>> : h \in F}
      BY <3>1
    <3> QED  BY <1>5, <3>2
  <2>2. m[o] \in Objects /\ f \in Fields(type[m[o]]) /\ kids'[o][f] = kids[m[o]][f]
        /\ (o > 0 <=> m[o] > 0)
    BY <1>9
  <2> QED  BY <2>1, <2>2
<1>12. \A u, v, w : <<u, w>> \in R /\ <<v, w>> \in R => u = v
  <2> SUFFICES ASSUME NEW u, NEW v, NEW w, <<u, w>> \in R, <<v, w>> \in R  PROVE u = v
    OBVIOUS
  <2>1. PICK o \in Objects, f \in F : u = <<o, f>> /\ w = <<m[o], f>>
    <3>1. PICK o \in Objects : <<u, w>> \in {<<<<o, h>>, <<m[o], h>>>> : h \in F}
      BY <1>5
    <3> QED  BY <3>1
  <2>2. PICK p \in Objects, g \in F : v = <<p, g>> /\ w = <<m[p], g>>
    <3>1. PICK p \in Objects : <<v, w>> \in {<<<<p, h>>, <<m[p], h>>>> : h \in F}
      BY <1>5
    <3> QED  BY <3>1
  <2>3. m[o] = m[p] /\ f = g
    BY <2>1, <2>2
  <2>4. o = p
    BY <2>3, <1>4
  <2> QED  BY <2>1, <2>2, <2>3, <2>4
<1>13. Permuted(R)
  BY <1>7, <1>10, <1>11, <1>12 DEF Permuted
<1> QED  BY <1>13, PermutedStep

LEMMA SwapFieldsStep ==
  ASSUME Owned, Contract, SwapFields
  PROVE  Owned'
<1>1. /\ reg[I.o] \in Objects /\ reg[I.p] \in Objects /\ reg[I.o] > 0 /\ reg[I.p] > 0
      /\ I.f \in Fields(type[reg[I.o]]) /\ I.g \in Fields(type[reg[I.p]])
  <2>1. At("SwapField")
    BY DEF SwapFields
  <2>2. /\ reg[I.o] \in Objects /\ reg[I.p] \in Objects /\ I.f \in Fields(type[reg[I.o]])
        /\ Fits("SwapField")
    BY <2>1, ContractAt, OperandsOf
  <2> QED  BY <2>2 DEF Fits, FieldsOf
<1>2. PICK a, b, f, g : a = reg[I.o] /\ b = reg[I.p] /\ f = I.f /\ g = I.g
  OBVIOUS
<1>3. PICK q, r : q = kids[b][g] /\ r = kids[a][f]
  OBVIOUS
<1>4. PICK k : k = [kids EXCEPT ![a][f] = q]
  OBVIOUS
<1>5. /\ a \in Objects /\ b \in Objects /\ a > 0 /\ b > 0
      /\ f \in Fields(type[a]) /\ g \in Fields(type[b])
  BY <1>1, <1>2
<1>6. UNCHANGED <<type, top, low, pool, reg, held>>
  BY DEF SwapFields
<1>7. kids' = [k EXCEPT ![b][g] = r]
  BY <1>2, <1>3, <1>4 DEF SwapFields, Of
<1>8. /\ DOMAIN k = Objects
      /\ \A o \in Objects : DOMAIN k[o] = Fields(type[o])
      /\ \A o \in Objects : \A h \in Fields(type[o]) :
           k[o][h] = IF o = a /\ h = f THEN q ELSE kids[o][h]
  BY <1>4, <1>5, FieldSet DEF Owned
<1>9. /\ DOMAIN kids' = Objects
      /\ \A o \in Objects : DOMAIN kids'[o] = Fields(type[o])
      /\ \A o \in Objects : \A h \in Fields(type[o]) :
           kids'[o][h] = IF o = b /\ h = g THEN r ELSE k[o][h]
  <2>1. kids'[b] = [k[b] EXCEPT ![g] = r] /\ DOMAIN kids' = Objects
    BY <1>5, <1>7, <1>8
  <2>2. \A o \in Objects : o # b => kids'[o] = k[o]
    BY <1>7, <1>8
  <2>3. /\ DOMAIN kids'[b] = Fields(type[b])
        /\ \A h \in Fields(type[b]) : kids'[b][h] = IF h = g THEN r ELSE k[b][h]
    BY <1>5, <1>8, <2>1
  <2> QED  BY <1>8, <2>1, <2>2, <2>3
<1>10. PICK F : \A o \in Objects : Fields(type[o]) \subseteq F
  <2>1. \A o \in Objects : Fields(type[o]) \subseteq UNION {Fields(type[p]) : p \in Objects}
    OBVIOUS
  <2> QED  BY <2>1
<1>11. PICK P : P = Objects \X F
  OBVIOUS
<1>12. PICK c, d : c = <<a, f>> /\ d = <<b, g>>
  OBVIOUS
<1>13. PICK m : m = [u \in P |-> IF u = c THEN d ELSE IF u = d THEN c ELSE u]
  OBVIOUS
<1>14. PICK R : R = {<<u, m[u]>> : u \in P}
  OBVIOUS
<1>15. c \in P /\ d \in P
  BY <1>5, <1>10, <1>11, <1>12
<1>16. \A o \in Objects : \A h \in Fields(type[o]) :
         \E p \in Objects : \E j \in Fields(type[p]) :
           /\ <<<<o, h>>, <<p, j>>>> \in R
           /\ kids'[o][h] = kids[p][j] /\ (o > 0 <=> p > 0)
  <2> SUFFICES ASSUME NEW o \in Objects, NEW h \in Fields(type[o])
               PROVE  \E p \in Objects : \E j \in Fields(type[p]) :
                        /\ <<<<o, h>>, <<p, j>>>> \in R
                        /\ kids'[o][h] = kids[p][j] /\ (o > 0 <=> p > 0)
    OBVIOUS
  <2>1. PICK u : u = <<o, h>>
    OBVIOUS
  <2>2. u \in P
    BY <1>10, <1>11, <2>1
  <2>3. <<u, m[u]>> \in R
    BY <1>14, <2>2
  <2>4. CASE u = d
    <3>1. m[u] = c
      BY <1>13, <2>2, <2>4
    <3>2. o = b /\ h = g
      BY <1>12, <2>1, <2>4
    <3>3. kids'[o][h] = kids[a][f]
      BY <1>3, <1>5, <1>9, <3>2
    <3> QED  BY <1>5, <1>12, <2>1, <2>3, <3>1, <3>2, <3>3
  <2>5. CASE u # d /\ u = c
    <3>1. m[u] = d
      BY <1>13, <2>2, <2>5
    <3>2. o = a /\ h = f /\ ~(o = b /\ h = g)
      BY <1>12, <2>1, <2>5
    <3>3. kids'[o][h] = kids[b][g]
      BY <1>3, <1>5, <1>8, <1>9, <3>2
    <3> QED  BY <1>5, <1>12, <2>1, <2>3, <3>1, <3>2, <3>3
  <2>6. CASE u # d /\ u # c
    <3>1. m[u] = u
      BY <1>13, <2>2, <2>6
    <3>2. ~(o = a /\ h = f) /\ ~(o = b /\ h = g)
      BY <1>12, <2>1, <2>6
    <3>3. kids'[o][h] = kids[o][h]
      BY <1>8, <1>9, <3>2
    <3> QED  BY <2>1, <2>3, <3>1, <3>3
  <2> QED  BY <2>4, <2>5, <2>6
<1>17. \A u, v, w : <<u, w>> \in R /\ <<v, w>> \in R => u = v
  <2> SUFFICES ASSUME NEW u, NEW v, NEW w, <<u, w>> \in R, <<v, w>> \in R  PROVE u = v
    OBVIOUS
  <2>1. u \in P /\ v \in P /\ m[u] = w /\ m[v] = w
    BY <1>14
  <2> QED  BY <1>13, <1>15, <2>1
<1>18. Permuted(R)
  BY <1>6, <1>9, <1>16, <1>17 DEF Permuted
<1> QED  BY <1>18, PermutedStep

(* Half of the messages goes, with the owners that pointed into it.        *)
LEMMA ResetArenaStep ==
  ASSUME Owned, Contract, ResetArena
  PROVE  Owned'
<1>1. held = {}
  <2>1. At("Reset")
    BY DEF ResetArena
  <2>2. Fits("Reset")
    BY <2>1, ContractAt
  <2> QED  BY <2>2 DEF Fits
<1>2. /\ type' = Keep(type, OnHeap) /\ kids' = Keep(kids, OnHeap) /\ top' = 0
      /\ pool' = [t \in Pooled |-> <<>>] /\ UNCHANGED <<low, reg, held>>
  BY DEF ResetArena
<1>3. /\ Objects' = OnHeap /\ OnHeap \subseteq Objects /\ \A o \in OnHeap : o < 0
      /\ \A o \in OnHeap : type'[o] = type[o] /\ kids'[o] = kids[o]
      /\ DOMAIN kids' = OnHeap
  BY <1>2 DEF Keep, Objects, OnHeap
<1>4. MessagesTyped'
  <2>1. top' \in Nat /\ low' \in Nat
    BY <1>2 DEF Owned, MessagesTyped
  <2>2. \A o \in OnHeap : o \in Int /\ o < 0 /\ 0 - low <= o /\ type[o] \in Types
    BY <1>3 DEF Owned, MessagesTyped
  <2>3. \A o \in OnHeap : /\ DOMAIN kids[o] = Fields(type[o])
                          /\ \A f \in Fields(type[o]) : kids[o][f] \in Seq(Int)
    BY <1>3 DEF Owned, MessagesTyped
  <2> QED  BY <1>2, <1>3, <2>1, <2>2, <2>3 DEF MessagesTyped
<1>5. PoolsTyped' /\ PoolsValid'
  <2>1. \A t \in Pooled : pool'[t] = <<>> /\ DOMAIN pool'[t] = {}
    BY <1>2
  <2>2. <<>> \in Seq(Int)
    OBVIOUS
  <2>3. DOMAIN pool' = Pooled
    BY <1>2
  <2>4. PoolsTyped'
    BY <2>1, <2>2, <2>3 DEF PoolsTyped
  <2> QED  BY <2>1, <2>4 DEF PoolsValid
<1>6. HandsValid'
  BY <1>1, <1>2 DEF HandsValid
<1>7. KidsValid'
  <2>1. \A o \in OnHeap : \A f \in Fields(type[o]) : \A i \in DOMAIN kids[o][f] :
          kids[o][f][i] \in OnHeap /\ ~(kids[o][f][i] > 0)
    <3> SUFFICES ASSUME NEW o \in OnHeap, NEW f \in Fields(type[o]), NEW i \in DOMAIN kids[o][f]
                 PROVE  kids[o][f][i] \in OnHeap /\ ~(kids[o][f][i] > 0)
      OBVIOUS
    <3>1. kids[o][f][i] \in Objects /\ (o > 0 <=> kids[o][f][i] > 0) /\ o \in Int /\ o < 0
      BY <1>3 DEF Owned, KidsValid, MessagesTyped
    <3> QED  BY <3>1 DEF Owned, MessagesTyped, OnHeap
  <2>2. \A o \in OnHeap : ~(o > 0)
    BY <1>3 DEF Owned, MessagesTyped
  <2> QED  BY <1>3, <2>1, <2>2 DEF KidsValid
<1>8. Unique'
  <2>1. \A s, w : ~InPool(s, w)'
    <3>1. \A t \in Pooled : DOMAIN pool'[t] = {}
      BY <1>2
    <3> QED  BY <3>1 DEF InPool
  <2>2. \A s, w : InHand(s, w)' => InHand(s, w)
    BY <1>2 DEF InHand
  <2>3. \A s, w : InMessage(s, w)' => InMessage(s, w)
    BY <1>3 DEF InMessage
  <2>4. \A s, w : Owner(s, w)' => Owner(s, w)
    BY <2>1, <2>2, <2>3 DEF Owner
  <2> QED  BY <2>4, NoneAdded DEF Owned
<1> QED  BY <1>4, <1>5, <1>6, <1>7, <1>8 DEF Owned

LEMMA LeaveBlockStep ==
  ASSUME Owned, LeaveBlock
  PROVE  Owned'
<1>1. /\ type' = Keep(type, OnArena) /\ kids' = Keep(kids, OnArena) /\ low' = 0
      /\ held' = {} /\ UNCHANGED <<top, pool>>
  BY DEF LeaveBlock
<1>2. /\ Objects' = OnArena /\ OnArena \subseteq Objects /\ DOMAIN kids' = OnArena
      /\ \A o \in OnArena : type'[o] = type[o] /\ kids'[o] = kids[o]
  BY <1>1 DEF Keep, Objects, OnArena
<1>3. \A o \in OnArena : /\ o \in Int /\ 0 < o /\ o <= top /\ ~(o < 0) /\ type[o] \in Types
                         /\ DOMAIN kids[o] = Fields(type[o])
                         /\ \A f \in Fields(type[o]) : kids[o][f] \in Seq(Int)
  BY DEF OnArena, OnHeap, Owned, MessagesTyped
<1>4. OnArena' = OnArena
  BY <1>2, <1>3 DEF OnArena, OnHeap
<1>5. MessagesTyped'
  <2>1. top' \in Nat /\ low' \in Nat
    BY <1>1 DEF Owned, MessagesTyped
  <2> QED  BY <1>1, <1>2, <1>3, <2>1 DEF MessagesTyped
<1>6. PoolsTyped' /\ PoolsValid'
  BY <1>1, <1>2, <1>4, SamePools DEF Owned, PoolsValid
<1>7. HandsValid'
  BY <1>1 DEF HandsValid
<1>8. KidsValid'
  <2>1. \A o \in OnArena : \A f \in Fields(type[o]) : \A i \in DOMAIN kids[o][f] :
          kids[o][f][i] \in OnArena /\ kids[o][f][i] > 0
    <3> SUFFICES ASSUME NEW o \in OnArena, NEW f \in Fields(type[o]), NEW i \in DOMAIN kids[o][f]
                 PROVE  kids[o][f][i] \in OnArena /\ kids[o][f][i] > 0
      OBVIOUS
    <3>1. kids[o][f][i] \in Objects /\ kids[o][f][i] > 0
      BY <1>2, <1>3 DEF Owned, KidsValid
    <3> QED  BY <3>1 DEF Owned, MessagesTyped, OnArena, OnHeap
  <2> QED  BY <1>2, <1>3, <2>1 DEF KidsValid
<1>9. Unique'
  <2>1. \A s, w : ~InHand(s, w)'
    BY <1>1 DEF InHand
  <2>2. \A s, w : InPool(s, w)' => InPool(s, w)
    BY <1>1, SamePools
  <2>3. \A s, w : InMessage(s, w)' => InMessage(s, w)
    BY <1>2 DEF InMessage
  <2>4. \A s, w : Owner(s, w)' => Owner(s, w)
    BY <2>1, <2>2, <2>3 DEF Owner
  <2> QED  BY <2>4, NoneAdded DEF Owned
<1> QED  BY <1>5, <1>6, <1>7, <1>8, <1>9 DEF Owned

(***************************************************************************)
(* A statement of the evaluator only expands to further statements.        *)
(***************************************************************************)
Quiet == UNCHANGED <<messages, pool, reg, held>>

LEMMA EvaluatorIsQuiet ==
  ASSUME OfTheEvaluator
  PROVE  Quiet
<1>1. ASSUME ValueOf  PROVE Quiet
  BY <1>1 DEF ValueOf, Do, Quiet
<1>2. ASSUME Operate  PROVE Quiet
  BY <1>2 DEF Operate, Do, Quiet
<1>3. ASSUME DivisionTrap  PROVE Quiet
  BY <1>3 DEF DivisionTrap, Fail, Quiet
<1>4. ASSUME ExpComputation  PROVE Quiet
  BY <1>4 DEF ExpComputation, Do, Quiet
<1>5. ASSUME VarExp  PROVE Quiet
  BY <1>5 DEF VarExp, Do, Quiet
<1>6. ASSUME LitExp  PROVE Quiet
  BY <1>6 DEF LitExp, Do, Quiet
<1>7. ASSUME FuncAppExp  PROVE Quiet
  BY <1>7 DEF FuncAppExp, Do, Quiet, Concat
<1>8. ASSUME MonArithExp  PROVE Quiet
  BY <1>8 DEF MonArithExp, Do, Quiet
<1>9. ASSUME BinArithExp  PROVE Quiet
  BY <1>9 DEF BinArithExp, Do, Quiet
<1>10. ASSUME TernExp  PROVE Quiet
  BY <1>10 DEF TernExp, Do, Quiet
<1>11. ASSUME TupleExp  PROVE Quiet
  BY <1>11 DEF TupleExp, Do, Quiet, Concat, Countdown
<1>12. ASSUME LambdaExp  PROVE Quiet
  BY <1>12 DEF LambdaExp, Do, Quiet
<1>13. ASSUME UnsetExp  PROVE Quiet
  BY <1>13 DEF UnsetExp, Do, Quiet
<1>14. ASSUME StmtComputation  PROVE Quiet
  BY <1>14 DEF StmtComputation, Do, Quiet
<1>15. ASSUME ExpStmt  PROVE Quiet
  BY <1>15 DEF ExpStmt, Do, Quiet
<1>16. ASSUME AssignStmt  PROVE Quiet
  BY <1>16 DEF AssignStmt, Do, Quiet
<1>17. ASSUME RetStmt  PROVE Quiet
  BY <1>17 DEF RetStmt, Do, Quiet
<1>18. ASSUME PrintStmt  PROVE Quiet
  BY <1>18 DEF PrintStmt, Do, Quiet
<1>19. ASSUME IfElseStmt  PROVE Quiet
  BY <1>19 DEF IfElseStmt, Do, Quiet, Concat, MoveCase, Countdown
<1>20. ASSUME WhileStmt  PROVE Quiet
  BY <1>20 DEF WhileStmt, Do, Quiet, Concat
<1>21. ASSUME ForStmt  PROVE Quiet
  BY <1>21 DEF ForStmt, Do, Quiet
<1>22. ASSUME UnsetStmt  PROVE Quiet
  BY <1>22 DEF UnsetStmt, Do, Quiet
<1>23. ASSUME BinExpFinal  PROVE Quiet
  BY <1>23 DEF BinExpFinal, Do, Quiet
<1>24. ASSUME MonExpFinal  PROVE Quiet
  BY <1>24 DEF MonExpFinal, Do, Quiet
<1>25. ASSUME TupleExpFinal  PROVE Quiet
  BY <1>25 DEF TupleExpFinal, Do, Quiet, Concat
<1>26. ASSUME MutableRvalue  PROVE Quiet
  BY <1>26 DEF MutableRvalue, Do, Quiet
<1>27. ASSUME MutableTupleVal  PROVE Quiet
  BY <1>27 DEF MutableTupleVal, Do, Quiet
<1>28. ASSUME IgnoreOneResult  PROVE Quiet
  BY <1>28 DEF IgnoreOneResult, Do, Quiet
<1>29. ASSUME AssignStmtFinal  PROVE Quiet
  BY <1>29 DEF AssignStmtFinal, Do, Quiet
<1>30. ASSUME CellOfResult  PROVE Quiet
  BY <1>30 DEF CellOfResult, Do, Quiet
<1>31. ASSUME IfElseFinal  PROVE Quiet
  BY <1>31 DEF IfElseFinal, Do, Quiet
<1>32. ASSUME Branch  PROVE Quiet
  BY <1>32 DEF Branch, Do, Quiet, Concat
<1>33. ASSUME PrintFinal  PROVE Quiet
  BY <1>33 DEF PrintFinal, Do, Quiet
<1>34. ASSUME Output  PROVE Quiet
  BY <1>34 DEF Output, Quiet
<1>35. ASSUME FuncAppExpFinal  PROVE Quiet
  BY <1>35 DEF FuncAppExpFinal, Do, Quiet, Concat, Countdown
<1>36. ASSUME MutableClosureVal  PROVE Quiet
  BY <1>36 DEF MutableClosureVal, Do, Quiet
<1>37. ASSUME Enter  PROVE Quiet
  BY <1>37 DEF Enter, Do, Quiet
<1>38. ASSUME AssignParam  PROVE Quiet
  BY <1>38 DEF AssignParam, Do, Quiet
<1>39. ASSUME ParamOutOfRange  PROVE Quiet
  BY <1>39 DEF ParamOutOfRange, Fail, Quiet
<1>40. ASSUME ScheduleBody  PROVE Quiet
  BY <1>40 DEF ScheduleBody, Do, Quiet, Concat
<1>41. ASSUME ReturnFromCtx  PROVE Quiet
  BY <1>41 DEF ReturnFromCtx, Do, Quiet
<1>42. ASSUME PopTailReturns  PROVE Quiet
  BY <1>42 DEF PopTailReturns, Do, Quiet
<1>43. ASSUME BuildFields  PROVE Quiet
  BY <1>43 DEF BuildFields, Do, Quiet, Concat
<1> QED
  BY <1>1, <1>2, <1>3, <1>4, <1>5, <1>6, <1>7, <1>8, <1>9, <1>10, <1>11, <1>12, <1>13, <1>14, <1>15, <1>16, <1>17, <1>18, <1>19, <1>20, <1>21, <1>22, <1>23, <1>24, <1>25, <1>26, <1>27, <1>28, <1>29, <1>30, <1>31, <1>32, <1>33, <1>34, <1>35, <1>36, <1>37, <1>38, <1>39, <1>40, <1>41, <1>42, <1>43 DEF OfTheEvaluator

-----------------------------------------------------------------------------
LEMMA OwnedInit ==
  ASSUME Init
  PROVE  Owned
<1>1. /\ type = <<>> /\ kids = <<>> /\ top = 0 /\ low = 0 /\ held = {}
      /\ pool = [t \in Pooled |-> <<>>]
  BY DEF Init
<1>2. Objects = {}
  BY <1>1 DEF Objects
<1>3. \A t \in Pooled : pool[t] = <<>> /\ DOMAIN pool[t] = {}
  BY <1>1
<1>4. MessagesTyped
  BY <1>1, <1>2 DEF MessagesTyped, Objects
<1>5. PoolsTyped
  <2>1. <<>> \in Seq(Int)
    OBVIOUS
  <2>2. DOMAIN pool = Pooled
    BY <1>1
  <2> QED  BY <1>3, <2>1, <2>2 DEF PoolsTyped
<1>6. PoolsValid /\ HandsValid /\ KidsValid
  BY <1>1, <1>2, <1>3 DEF PoolsValid, HandsValid, KidsValid
<1>7. Unique
  <2>1. \A s, v : ~Owner(s, v)
    BY <1>1, <1>2, <1>3 DEF Owner, InPool, InHand, InMessage
  <2> QED  BY <2>1 DEF Unique
<1> QED  BY <1>4, <1>5, <1>6, <1>7 DEF Owned

LEMMA OwnedStep ==
  ASSUME Owned, Contract, [Next]_vars
  PROVE  Owned'
<1>1. ASSUME Quiet  PROVE Owned'
  BY <1>1, Untouched DEF Quiet, messages
<1>2. CASE UNCHANGED vars
  BY <1>1, <1>2 DEF vars, memVars, Quiet
<1>3. CASE Step \/ ConsumeOutput
  BY <1>1, <1>3 DEF Step, ConsumeOutput, memVars, Quiet
<1>4. CASE OfTheEvaluator
  BY <1>1, <1>4, EvaluatorIsQuiet
<1>5. CASE Execute
  BY <1>5, CreateOnArenaStep, RemoveFromPoolStep, MovePoolPtrStep, DestroyPoolPtrStep, TakeStep,
     AddAllocatedStep, AddNewStep, MakeMessageStep, PointIntoStep, NothingMovesStep,
     WriteScalarsStep, SwapMessagesStep, SwapFieldsStep, ResetArenaStep, LeaveBlockStep
     DEF Execute
<1> QED  BY <1>2, <1>3, <1>4, <1>5 DEF Next, OfTheMemory

(***************************************************************************)
(* What a local owns is owned after the statement too.                     *)
(***************************************************************************)
Passed(v) == v \in InPools \cup InHands \cup InMessages

LEMMA StillOwned ==
  ASSUME NEW x, NEW v, x \in held', v = reg'[x]
  PROVE  Passed(v)'
BY DEF Passed, InHands

LEMMA NothingLost ==
  ASSUME Owned, Contract, [Next]_vars, NEW x \in held, type[reg[x]] \in Pooled
  PROVE  reg[x] \in (InPools \cup InHands \cup InMessages)'
<1>1. SUFFICES ASSUME NEW w, w = reg[x]  PROVE Passed(w)'
  BY DEF Passed
<1>2. (\A v : v \in InPools <=> \E s : InPool(s, v))'
  BY OwnersOf, PTL
<1>3. (\A v : v \in InMessages <=> \E s : InMessage(s, v))'
  BY OwnersOf, PTL
<1>4. ASSUME held' = held, reg' = reg  PROVE Passed(w)'
  BY <1>4, <1>1, StillOwned
<1>5. ASSUME NEW op, NEW v, At(op), "to" \in Operands(op), reg' = Pointing(I.to, v),
             held \subseteq held'
      PROVE  Passed(w)'
  <2>1. I.to \notin held
    BY <1>5, ContractAt
  <2>2. x \in DOMAIN reg /\ x # I.to
    BY <2>1 DEF Owned, HandsValid
  <2>3. reg'[x] = reg[x]
    BY <1>5, <2>2 DEF Pointing
  <2> QED  BY <1>5, <2>3, <1>1, StillOwned
<1>6. CASE UNCHANGED vars \/ Step \/ ConsumeOutput
  BY <1>4, <1>6 DEF vars, memVars, Step, ConsumeOutput
<1>7. CASE OfTheEvaluator
  BY <1>4, <1>7, EvaluatorIsQuiet DEF Quiet
<1>8. CASE CreateOnArena \/ RemoveFromPool
  <2>1. At("Allocate") /\ "to" \in Operands("Allocate") /\ held \subseteq held'
    BY <1>8, OperandsOf DEF CreateOnArena, RemoveFromPool
  <2>2. \E v : reg' = Pointing(I.to, v)
    BY <1>8 DEF CreateOnArena, RemoveFromPool
  <2> QED  BY <1>5, <2>1, <2>2
<1>9. CASE WrapPoolPtr \/ ReleaseRaw
  <2>1. PICK op \in {"Take", "Release"} : At(op)
    BY <1>9 DEF WrapPoolPtr, ReleaseRaw
  <2>2. "to" \in Operands(op)
    BY <2>1, OperandsOf
  <2>3. held \subseteq held' /\ \E v : reg' = Pointing(I.to, v)
    BY <1>9 DEF WrapPoolPtr, ReleaseRaw
  <2> QED  BY <1>5, <2>1, <2>2, <2>3
<1>10. CASE AddNew \/ MakeMessage \/ PointInto
  <2>1. PICK op \in {"Add", "Make", "Point"} : At(op)
    BY <1>10 DEF AddNew, MakeMessage, PointInto
  <2>2. "to" \in Operands(op)
    BY <2>1, OperandsOf
  <2>3. held \subseteq held' /\ \E v : reg' = Pointing(I.to, v)
    BY <1>10 DEF AddNew, MakeMessage, PointInto
  <2> QED  BY <1>5, <2>1, <2>2, <2>3
<1>11. CASE ReleaseNothing \/ PointOutside \/ WriteScalars \/ SetScalars
           \/ SwapMessages \/ SwapFields \/ CopyMessage
  BY <1>4, <1>11 DEF ReleaseNothing, PointOutside, WriteScalars, SetScalars, SwapMessages,
                    SwapFields, CopyMessage, Fail
<1>12. CASE MovePoolPtr
  <2>1. At("Move") /\ I.to \notin held
    <3>1. At("Move")
      BY <1>12 DEF MovePoolPtr
    <3> QED  BY <3>1, ContractAt, OperandsOf
  <2>2. /\ reg' = Pointing(I.to, reg[I.x])
        /\ held' = IF I.x \in held THEN (held \ {I.x}) \cup {I.to} ELSE held \ {I.to}
    BY <1>12 DEF MovePoolPtr
  <2>3. x \in DOMAIN reg /\ x # I.to
    BY <2>1 DEF Owned, HandsValid
  <2>4. CASE x = I.x
    <3>1. I.to \in held' /\ reg'[I.to] = reg[x]
      BY <2>2, <2>4 DEF Pointing
    <3> QED  BY <3>1, <1>1, StillOwned
  <2>5. CASE x # I.x
    <3>1. x \in held' /\ reg'[x] = reg[x]
      BY <2>2, <2>3, <2>5 DEF Pointing
    <3> QED  BY <3>1, <1>1, StillOwned
  <2> QED  BY <2>4, <2>5
<1>13. CASE DestroyPoolPtr
  <2>1. reg' = reg /\ held' = held \ {I.x} /\ type' = type
    BY <1>13 DEF DestroyPoolPtr, messages
  <2>2. CASE x # I.x
    BY <2>1, <2>2, <1>1, StillOwned
  <2>3. CASE x = I.x
    <3>1. PICK v, t, d : v = reg[x] /\ t = type[v] /\ d = pool[t]
      OBVIOUS
    <3>2. PICK e : e = Append(d, v)
      OBVIOUS
    <3>3. pool' = [pool EXCEPT ![t] = e]
      BY <1>13, <2>3, <3>1, <3>2 DEF DestroyPoolPtr
    <3>4. t \in Pooled /\ t \in DOMAIN pool /\ d \in Seq(Int) /\ v \in Int
      BY <3>1 DEF Owned, PoolsTyped, HandsValid, MessagesTyped, OnArena
    <3>5. Len(d) \in Nat /\ e \in Seq(Int) /\ Len(e) = Len(d) + 1 /\ e[Len(d) + 1] = v
      BY <3>2, <3>4, AppendProperties, LenProperties
    <3>6. PICK i : i = Len(d) + 1
      OBVIOUS
    <3>7. i \in DOMAIN pool'[t] /\ pool'[t][i] = v
      BY <3>3, <3>4, <3>5, <3>6, LenProperties
    <3>8. InPool(<<"pool", t, i>>, v)'
      BY <3>4, <3>7 DEF InPool
    <3>9. (v \in InPools)'
      BY <3>8, <1>2
    <3> QED  BY <1>1, <2>3, <3>1, <3>9 DEF Passed
  <2> QED  BY <2>2, <2>3
<1>14. CASE AddAllocated
  <2>1. reg' = reg /\ held' = held \ {I.x} /\ type' = type
    BY <1>14 DEF AddAllocated
  <2>2. CASE x # I.x
    BY <2>1, <2>2, <1>1, StillOwned
  <2>3. CASE x = I.x
    <3>1. reg[I.o] \in Objects /\ I.f \in Fields(type[reg[I.o]])
      <4>1. At("Give")
        BY <1>14 DEF AddAllocated
      <4> QED  BY <4>1, ContractAt, OperandsOf
    <3>2. PICK a, f, v, d : a = reg[I.o] /\ f = I.f /\ v = reg[x] /\ d = kids[a][f]
      OBVIOUS
    <3>3. PICK e : e = Append(d, v)
      OBVIOUS
    <3>4. a \in Objects /\ f \in Fields(type[a]) /\ d \in Seq(Int) /\ v \in Int
      BY <3>1, <3>2 DEF Owned, HandsValid, MessagesTyped, OnArena
    <3>5. kids' = [kids EXCEPT ![a][f] = e]
      BY <1>14, <2>3, <3>2, <3>3 DEF AddAllocated
    <3>6. kids'[a][f] = e
      <4>1. MessagesTyped /\ a \in Objects /\ f \in Fields(type[a])
        BY <3>4 DEF Owned
      <4> QED  BY <3>5, <4>1, FieldSet
    <3>7. Len(d) \in Nat /\ e \in Seq(Int) /\ Len(e) = Len(d) + 1 /\ e[Len(d) + 1] = v
      BY <3>3, <3>4, AppendProperties, LenProperties
    <3>8. PICK i : i = Len(d) + 1
      OBVIOUS
    <3>9. i \in DOMAIN kids'[a][f] /\ kids'[a][f][i] = v
      BY <3>6, <3>7, <3>8, LenProperties
    <3>10. InMessage(<<"kid", a, f, i>>, v)'
      BY <2>1, <3>4, <3>9 DEF InMessage, Objects
    <3>11. (v \in InMessages)'
      BY <3>10, <1>3
    <3> QED  BY <1>1, <2>3, <3>2, <3>11 DEF Passed
  <2> QED  BY <2>2, <2>3
<1>15. CASE ResetArena \/ LeaveBlock
  <2>1. CASE ResetArena
    <3>1. At("Reset")
      BY <2>1 DEF ResetArena
    <3>2. Fits("Reset")
      BY <3>1, ContractAt
    <3> QED  BY <3>2 DEF Fits
  <2>2. CASE LeaveBlock
    <3>1. At("Leave")
      BY <2>2 DEF LeaveBlock
    <3>2. Fits("Leave")
      BY <3>1, ContractAt
    <3> QED  BY <3>2 DEF Fits
  <2> QED  BY <1>15, <2>1, <2>2
<1> QED
  BY <1>6, <1>7, <1>8, <1>9, <1>10, <1>11, <1>12, <1>13, <1>14, <1>15
     DEF Next, OfTheMemory, Execute

-----------------------------------------------------------------------------
(***************************************************************************)
(* What is known of the locals between two statements: those that point to *)
(* a message on the arena or on the heap, those that own what they point   *)
(* to, and those that may.                                                 *)
(***************************************************************************)
Facts(arena, heap, own, may) == [arena |-> arena, heap |-> heap, own |-> own, may |-> may]

(* In a handler everything is on the arena, and what is owned is known.    *)
Ctx(A, S) == Facts(A, {}, S, S)

AtLeast(G, H) ==
  /\ H.arena \subseteq G.arena /\ H.heap \subseteq G.heap
  /\ H.own \subseteq G.own /\ G.may \subseteq H.may

ChildType ==
  [store |-> "Literal", cur_ctx |-> "LocalContext", saved_ctx |-> "LocalContext",
   comp |-> "Computation", result |-> "Result", exp |-> "Expression", stmt |-> "Statement",
   if_case |-> "Computation", else_case |-> "Computation", rvalue |-> "Literal",
   body |-> "Statement", elem |-> "Literal", lit_exp |-> "Literal", func |-> "Expression",
   arg |-> "Expression", lhs |-> "Expression", rhs |-> "Expression", if_exp |-> "Expression",
   cond_exp |-> "Expression", else_exp |-> "Expression", exp_stmt |-> "Expression",
   ret_stmt |-> "Expression", print_stmt |-> "Expression", init |-> "Statement",
   cond |-> "Expression", inc |-> "Statement", if_stmts |-> "Statement",
   else_stmts |-> "Statement"]

(* The declared type of a local. *)
Declared ==
  [ctx_ |-> "EvalContext", ctx_cpy |-> "EvalContext",
   cur_ctx |-> "LocalContext", fresh |-> "LocalContext", old_ctx |-> "LocalContext",
   cur_comp |-> "Computation", new_comp |-> "Computation", fnl |-> "Computation",
   if_comp |-> "Computation", else_comp |-> "Computation", comp |-> "Computation",
   reversed_comps |-> "Computation", tail |-> "Computation",
   exp |-> "Expression", cond_cpy |-> "Expression", cond |-> "Expression", es |-> "Expression",
   stmt |-> "Statement", dst |-> "Statement", s |-> "Statement", while_stmt |-> "Statement",
   result |-> "Result", popped |-> "Result",
   lit |-> "Literal", cell |-> "Literal", lhs |-> "Literal", rhs |-> "Literal",
   elem_val |-> "Literal", func_val |-> "Literal", arg |-> "Literal", arg_results |-> "Literal",
   value |-> "Literal", arg_v |-> "Literal", cond_val |-> "Literal", v |-> "Literal",
   rhs_val |-> "Literal", return_val |-> "Literal"]

TypeOf(x) ==
  IF x[1] = "tmp" THEN ChildType[x[2]]
  ELSE IF x[1] \in {"child", "copy of"} THEN ChildType[x[3]]
  ELSE IF x[1] = "node" THEN x[3]
  ELSE Declared[x[1]]

(* The counts that the final computations keep are numbers. *)
Counted(v) ==
  /\ v.type = "func_app_exp_final" => v.num_args \in Nat
  /\ v.type = "tuple_exp_final" => v.size \in Nat

(* The locals of a deep copy, at depth d of its recursion and below. *)
InCopy(z, d) == z[1] \in {"child", "copy of"} /\ z[2] \in Nat /\ z[2] >= d

Without(A, d) == {z \in A : ~InCopy(z, d)}

NoCopies(A) == \A z \in A : z[1] \notin {"child", "copy of"}

(* A syntax node as Parts takes it. *)
IsNode(t, v) ==
  \/ t = "Expression" /\ \E e \in DOMAIN Exps : v = Node(e)
  \/ t = "Statement" /\ \E s \in DOMAIN Stmts : v = Stmts[s]
  \/ t = "Literal" /\ v \in PlainLiterals

(***************************************************************************)
(* What a statement needs to be known, P, and what is known after it, Q.   *)
(***************************************************************************)
Placed(P, o, to) ==
  IF o \in P.arena THEN Facts(P.arena \cup {to}, P.heap \ {to}, P.own, P.may)
                   ELSE Facts(P.arena \ {to}, P.heap \cup {to}, P.own, P.may)

Acquired(P, to) ==
  Facts(P.arena \cup {to}, P.heap \ {to}, P.own \cup {to}, P.may \cup {to})

Parted(P, x) == Facts(P.arena, P.heap, P.own \ {x}, P.may \ {x})

Known(P) == P.arena \cup P.heap

AllocateRule(P, c, Q) ==
  /\ c = Allocate(c.type, c.to)
  /\ c.type \in Pooled /\ TypeOf(c.to) = c.type /\ c.to \notin P.may
  /\ Q = Acquired(P, c.to)

MakeRule(P, c, Q) ==
  /\ c = Make(c.type, c.to, c.in_arena)
  /\ c.type \in Types /\ c.in_arena \in BOOLEAN /\ TypeOf(c.to) = c.type /\ c.to \notin P.may
  /\ Q = IF c.in_arena THEN Facts(P.arena \cup {c.to}, P.heap \ {c.to}, P.own, P.may)
                       ELSE Facts(P.arena \ {c.to}, P.heap \cup {c.to}, P.own, P.may)

MoveRule(P, c, Q) ==
  /\ c = Move(c.x, c.to)
  /\ c.x \in P.own /\ TypeOf(c.x) = TypeOf(c.to) /\ c.to \notin P.may
  /\ Q = Acquired(Parted(P, c.x), c.to)

DestroyRule(P, c, Q) ==
  /\ c = Destroy(c.x)
  /\ c.x \in P.arena /\ TypeOf(c.x) \in Pooled
  /\ Q = Parted(P, c.x)

TakeRule(P, c, Q) ==
  /\ c \in {Take(c.o, c.f, c.to), Release(c.o, c.f, c.to)}
  /\ c.o \in P.arena /\ c.f \in Fields(TypeOf(c.o)) /\ TypeOf(c.to) = ChildType[c.f]
  /\ c.to \notin P.may
  /\ c.op = "Take" => ChildType[c.f] \in Pooled
  /\ Q = Acquired(P, c.to)

GiveRule(P, c, Q) ==
  /\ c = Give(c.x, c.o, c.f)
  /\ c.o \in P.arena /\ c.x \in P.own
  /\ c.f \in Fields(TypeOf(c.o)) /\ TypeOf(c.x) = ChildType[c.f]
  /\ Q = Parted(P, c.x)

AddRule(P, c, Q) ==
  /\ c = Add(c.o, c.f, c.type, c.to)
  /\ c.o \in Known(P) /\ c.f \in Fields(TypeOf(c.o)) /\ c.type \in Types
  /\ c.type = ChildType[c.f] /\ TypeOf(c.to) = c.type /\ c.to \notin P.may
  /\ Q = Placed(P, c.o, c.to)

PointRule(P, c, Q) ==
  /\ c = Point(c.to, c.o, c.f, c.i)
  /\ c.o \in Known(P) /\ c.f \in Fields(TypeOf(c.o))
  /\ TypeOf(c.to) = ChildType[c.f] /\ c.to \notin P.may
  /\ Q = Placed(P, c.o, c.to)

WriteRule(P, c, Q) ==
  /\ c \in {Write(c.x, c.val), Set(c.x, c.val)}
  /\ c.x \in Known(P) /\ (TypeOf(c.x) = "Computation" => Counted(c.val))
  /\ Q = P

SwapRule(P, c, Q) ==
  /\ c = Swap(c.x, c.y)
  /\ c.x \in P.arena /\ c.y \in P.arena /\ TypeOf(c.x) = TypeOf(c.y)
  /\ Q = P

SwapFieldRule(P, c, Q) ==
  /\ c = SwapField(c.o, c.f, c.p, c.g)
  /\ c.o \in P.arena /\ c.p \in P.arena
  /\ c.f \in Fields(TypeOf(c.o)) /\ c.g \in Fields(TypeOf(c.p))
  /\ ChildType[c.f] = ChildType[c.g]
  /\ Q = P

CopyRule(P, c, Q) ==
  /\ c = [op |-> c.op, x |-> c.x, y |-> c.y, depth |-> c.depth] /\ c.depth \in Nat
  /\ c.x \in Known(P) /\ c.y \in Known(P) /\ TypeOf(c.x) = TypeOf(c.y)
  /\ c.op = "Copy" => c.y \in P.arena
  /\ ~InCopy(c.x, c.depth) /\ ~InCopy(c.y, c.depth)
  /\ \A z \in P.may : ~InCopy(z, c.depth)
  /\ Q = Facts(Without(P.arena, c.depth), Without(P.heap, c.depth), P.own, P.may)

ResetRule(P, c, Q) ==
  /\ c = Reset
  /\ P.may = {}
  /\ Q = Facts({}, P.heap, {}, {})

LeaveRule(P, c, Q) ==
  /\ c = Leave(c.x)
  /\ c.x \in P.arena /\ \A z \in P.may : TypeOf(z) \notin Pooled
  /\ Q = Facts({c.x}, {}, {}, {})

InComp == Ctx({ctx, cur, cur_comp}, {cur_comp})

AfterComp == Facts({ctx, cur, cur_comp}, {}, {cur_comp}, {cur_comp, stmt})

InExp == Ctx({ctx, cur, cur_comp, exp}, {cur_comp, exp})

InStmt == Ctx({ctx, cur, cur_comp, stmt}, {cur_comp, stmt})

EvaluateRule(P, c, Q) ==
  /\ c = [op |-> "Evaluate", x |-> c.x]
  /\ \/ c.x = cur_comp /\ P = InComp /\ Q = AfterComp
     \/ c.x = exp /\ P = InExp /\ Q = InExp
     \/ c.x = stmt /\ P = InStmt /\ Q = InStmt

ValueOfRule(A, S, c, Q) ==
  /\ c = [op |-> "ValueOf", x |-> c.x, to |-> c.to]
  /\ {c.x, ctx} \subseteq A /\ TypeOf(c.x) = "Result" /\ TypeOf(c.to) = "Literal"
  /\ c.to \notin S /\ Local("cell") \notin S /\ c.to # Local("cell")
  /\ NoCopies(A) /\ NoCopies(S) /\ NoCopies({c.to})
  /\ Q = Ctx(A \cup {c.to}, S \cup {c.to})

OperateRule(A, S, c, Q) ==
  /\ c \in {[op |-> "Operate", x |-> c.x], [op |-> "Operate", x |-> c.x, y |-> c.y]}
  /\ c.x \in A /\ ("y" \in DOMAIN c => c.y \in A) /\ TypeOf(c.x) = "Literal"
  /\ Q = Ctx(A, S)

MutableRvalueRule(A, S, c, Q) ==
  /\ c = [op |-> "mutable_rvalue"]
  /\ res \in A /\ lit \notin S
  /\ Q = Ctx(A \cup {lit}, S)

CellOfRule(A, S, c, Q) ==
  /\ c = [op |-> "CellOf", x |-> c.x]
  /\ {c.x, ctx} \subseteq A /\ Local("cell") \notin S
  /\ Q = Ctx(A \cup {Local("cell")}, S)

BranchRule(A, S, c, Q) ==
  /\ c = [op |-> "Branch", x |-> c.x]
  /\ {c.x, cur, cur_comp} \subseteq A /\ tmp("if_case") \notin S /\ tmp("else_case") \notin S
  /\ Q = Ctx(A, S)

AssignParamRule(A, S, c, Q) ==
  /\ c = [op |-> "AssignParam", i |-> c.i]
  /\ {ctx, cur} \subseteq A /\ arg(c.i) \in S
  /\ Local("value") \notin S /\ Local("cell") \notin S
  /\ Q = Ctx(A, S \ {arg(c.i)})

ScheduleBodyRule(A, S, c, Q) ==
  /\ c = [op |-> "ScheduleBody"]
  /\ {func_val, cur} \subseteq A /\ new \notin S /\ tmp("body") \notin S
  /\ Q = Ctx(A, S)

BuildFieldsRule(A, S, c, Q) ==
  /\ c = [op |-> "BuildFields", type |-> c.type, val |-> c.val, depth |-> c.depth]
  /\ c.depth \in Nat /\ node(c.type, c.depth) \in A /\ S = {} /\ IsNode(c.type, c.val)
  /\ Q = Ctx(A, S)

(* The other statements of the evaluator need a local or two and keep all. *)
LookRule(A, S, c, Q) ==
  /\ \/ c = [op |-> "mutable_tuple_val"] /\ lit \in A
     \/ c = [op |-> "Output", x |-> c.x] /\ c.x \in A
     \/ c = [op |-> "mutable_closure_val"] /\ func_val \in A
     \/ c = [op |-> "Enter"] /\ cur \in A
     \/ c = [op |-> "PopTailReturns"] /\ cur \in A /\ Local("tail") \notin S
  /\ Q = Ctx(A, S)

HandlerRule(A, S, c, Q) ==
  CASE c.op = "ValueOf"        -> ValueOfRule(A, S, c, Q)
    [] c.op = "Operate"        -> OperateRule(A, S, c, Q)
    [] c.op = "mutable_rvalue" -> MutableRvalueRule(A, S, c, Q)
    [] c.op = "CellOf"         -> CellOfRule(A, S, c, Q)
    [] c.op = "Branch"         -> BranchRule(A, S, c, Q)
    [] c.op = "AssignParam"    -> AssignParamRule(A, S, c, Q)
    [] c.op = "ScheduleBody"   -> ScheduleBodyRule(A, S, c, Q)
    [] c.op = "BuildFields"    -> BuildFieldsRule(A, S, c, Q)
    [] OTHER                   -> LookRule(A, S, c, Q)

Rule(P, c, Q) ==
  CASE c.op = "Allocate"             -> AllocateRule(P, c, Q)
    [] c.op = "Make"                 -> MakeRule(P, c, Q)
    [] c.op = "Move"                 -> MoveRule(P, c, Q)
    [] c.op = "Destroy"              -> DestroyRule(P, c, Q)
    [] c.op \in {"Take", "Release"}  -> TakeRule(P, c, Q)
    [] c.op = "Give"                 -> GiveRule(P, c, Q)
    [] c.op = "Add"                  -> AddRule(P, c, Q)
    [] c.op = "Point"                -> PointRule(P, c, Q)
    [] c.op \in {"Write", "Set"}     -> WriteRule(P, c, Q)
    [] c.op = "Swap"                 -> SwapRule(P, c, Q)
    [] c.op = "SwapField"            -> SwapFieldRule(P, c, Q)
    [] c.op \in {"Copy", "Assign"}   -> CopyRule(P, c, Q)
    [] c.op = "Reset"                -> ResetRule(P, c, Q)
    [] c.op = "Leave"                -> LeaveRule(P, c, Q)
    [] c.op = "Evaluate"             -> EvaluateRule(P, c, Q)
    [] OTHER                         -> \E A, S : P = Ctx(A, S) /\ HandlerRule(A, S, c, Q)

(* Statement c can be executed knowing G, and then H is known. *)
Follows(G, c, H) == \E P, Q : AtLeast(G, P) /\ Rule(P, c, Q) /\ AtLeast(Q, H)

(* So can all of cs, one after the other. *)
Leads(G, cs, H) ==
  /\ \E S : cs \in Seq(S)
  /\ \E K : /\ AtLeast(G, K[0]) /\ AtLeast(K[Len(cs)], H)
           /\ \A i \in 1 .. Len(cs) : Follows(K[i - 1], cs[i], K[i])

-----------------------------------------------------------------------------
LEMMA Weaker ==
  /\ \A G : AtLeast(G, G)
  /\ \A G, H, M : AtLeast(G, H) /\ AtLeast(H, M) => AtLeast(G, M)
<1> QED  BY DEF AtLeast

LEMMA FollowsWeaker ==
  ASSUME NEW G, NEW P, NEW c, NEW Q, NEW H, AtLeast(G, P), Follows(P, c, Q), AtLeast(Q, H)
  PROVE  Follows(G, c, H)
<1> QED  BY Weaker DEF Follows

LEMMA LeadsWeaker ==
  ASSUME NEW G, NEW P, NEW cs, NEW Q, NEW H, AtLeast(G, P), Leads(P, cs, Q), AtLeast(Q, H)
  PROVE  Leads(G, cs, H)
<1>1. PICK K : /\ AtLeast(P, K[0]) /\ AtLeast(K[Len(cs)], Q)
               /\ \A i \in 1 .. Len(cs) : Follows(K[i - 1], cs[i], K[i])
  BY DEF Leads
<1>2. AtLeast(G, K[0]) /\ AtLeast(K[Len(cs)], H)
  BY <1>1, Weaker
<1> QED  BY <1>1, <1>2 DEF Leads

LEMMA LeadsNowhere ==
  ASSUME NEW G
  PROVE  Leads(G, <<>>, G) /\ \A H : Leads(G, <<>>, H) => AtLeast(G, H)
<1>1. PICK K : K = [i \in {0} |-> G]
  OBVIOUS
<1>2. <<>> \in Seq({}) /\ Len(<<>>) = 0
  OBVIOUS
<1>3. AtLeast(G, K[0]) /\ AtLeast(K[0], G)
  BY <1>1, Weaker
<1>4. Leads(G, <<>>, G)
  BY <1>2, <1>3 DEF Leads
<1>5. ASSUME NEW H, Leads(G, <<>>, H)  PROVE AtLeast(G, H)
  <2>1. PICK M : AtLeast(G, M[0]) /\ AtLeast(M[Len(<<>>)], H)
    BY <1>5 DEF Leads
  <2> QED  BY <2>1, <1>2, Weaker
<1> QED  BY <1>4, <1>5

LEMMA LeadsOne ==
  ASSUME NEW G, NEW c, NEW H, Follows(G, c, H)
  PROVE  Leads(G, <<c>>, H)
<1>1. PICK K : K = [i \in 0 .. 1 |-> IF i = 0 THEN G ELSE H]
  OBVIOUS
<1>2. /\ <<c>> \in Seq({c}) /\ Len(<<c>>) = 1 /\ <<c>>[1] = c
      /\ K[0] = G /\ K[1] = H
  BY <1>1
<1>3. \A i \in 1 .. Len(<<c>>) : Follows(K[i - 1], <<c>>[i], K[i])
  <2> SUFFICES ASSUME NEW i \in 1 .. 1  PROVE Follows(K[i - 1], <<c>>[i], K[i])
    BY <1>2
  <2>1. i = 1 /\ i - 1 = 0
    OBVIOUS
  <2> QED  BY <1>2, <2>1
<1> QED  BY <1>2, <1>3, Weaker DEF Leads

(* One list of statements after another. *)
LEMMA LeadsOn ==
  ASSUME NEW G, NEW a, NEW M, NEW b, NEW H, Leads(G, a, M), Leads(M, b, H)
  PROVE  Leads(G, a \o b, H)
<1>1. PICK S : a \in Seq(S)
  BY DEF Leads
<1>2. PICK T : b \in Seq(T)
  BY DEF Leads
<1>3. PICK K : /\ AtLeast(G, K[0]) /\ AtLeast(K[Len(a)], M)
               /\ \A i \in 1 .. Len(a) : Follows(K[i - 1], a[i], K[i])
  BY DEF Leads
<1>4. PICK L : /\ AtLeast(M, L[0]) /\ AtLeast(L[Len(b)], H)
               /\ \A i \in 1 .. Len(b) : Follows(L[i - 1], b[i], L[i])
  BY DEF Leads
<1>5. a \in Seq(S \cup T) /\ b \in Seq(S \cup T)
  BY <1>1, <1>2
<1>6. PICK m \in Nat : m = Len(a)
  BY <1>1
<1>7. PICK n \in Nat : n = Len(b)
  BY <1>2
<1>8. /\ a \o b \in Seq(S \cup T) /\ Len(a \o b) = m + n
      /\ \A i \in 1 .. m : (a \o b)[i] = a[i]
      /\ \A i \in 1 .. n : (a \o b)[m + i] = b[i]
  BY <1>5, <1>6, <1>7, ConcatType
<1>9. PICK J : J = [i \in 0 .. m + n |-> IF i < m \/ n = 0 THEN K[i] ELSE L[i - m]]
  OBVIOUS
<1>10. AtLeast(K[m], L[0])
  BY <1>3, <1>4, <1>6, Weaker
<1>11. AtLeast(G, J[0])
  <2>1. CASE 0 < m \/ n = 0
    BY <2>1, <1>3, <1>9
  <2>2. CASE m = 0 /\ n # 0
    <3>1. J[0] = L[0]
      BY <2>2, <1>9
    <3> QED  BY <3>1, <2>2, <1>3, <1>6, <1>10, Weaker
  <2> QED  BY <2>1, <2>2
<1>12. AtLeast(J[m + n], H)
  <2>1. CASE n = 0
    <3>1. J[m + n] = K[m] /\ AtLeast(L[0], H)
      BY <2>1, <1>4, <1>7, <1>9
    <3> QED  BY <3>1, <1>10, Weaker
  <2>2. CASE n # 0
    <3>1. J[m + n] = L[n]
      BY <2>2, <1>9
    <3> QED  BY <3>1, <1>4, <1>7
  <2> QED  BY <2>1, <2>2
<1>13. ASSUME NEW i \in 1 .. m + n  PROVE Follows(J[i - 1], (a \o b)[i], J[i])
  <2>1. CASE i < m \/ (i = m /\ n = 0)
    <3>1. J[i - 1] = K[i - 1] /\ J[i] = K[i] /\ i \in 1 .. m
      BY <2>1, <1>9
    <3> QED  BY <3>1, <1>3, <1>6, <1>8
  <2>2. CASE i = m /\ n # 0
    <3>1. J[i - 1] = K[i - 1] /\ J[i] = L[0] /\ i \in 1 .. m
      BY <2>2, <1>9
    <3>2. Follows(K[i - 1], (a \o b)[i], K[m])
      BY <3>1, <2>2, <1>3, <1>6, <1>8
    <3> QED  BY <3>1, <3>2, <1>10, Weaker, FollowsWeaker
  <2>3. CASE i > m
    <3>1. PICK j \in 1 .. n : i = m + j
      <4>1. i - m \in 1 .. n /\ i = m + (i - m)
        BY <2>3
      <4> QED  BY <4>1
    <3>2. J[i - 1] = L[j - 1] /\ J[i] = L[j]
      BY <2>3, <3>1, <1>9
    <3>3. (a \o b)[i] = b[j]
      BY <3>1, <1>8
    <3>4. Follows(L[j - 1], b[j], L[j])
      BY <3>1, <1>4, <1>7
    <3> QED  BY <3>2, <3>3, <3>4
  <2> QED  BY <1>6, <1>7, <2>1, <2>2, <2>3
<1>14. /\ AtLeast(J[Len(a \o b)], H)
       /\ \A i \in 1 .. Len(a \o b) : Follows(J[i - 1], (a \o b)[i], J[i])
  BY <1>8, <1>12, <1>13
<1> QED  BY <1>8, <1>11, <1>14 DEF Leads

(* The first statement, and the others. *)
LEMMA LeadsFirst ==
  ASSUME NEW G, NEW cs, NEW H, Leads(G, cs, H), cs # <<>>
  PROVE  \E M : Follows(G, Head(cs), M) /\ Leads(M, Tail(cs), H)
<1>1. PICK S : cs \in Seq(S)
  BY DEF Leads
<1>2. PICK K : /\ AtLeast(G, K[0]) /\ AtLeast(K[Len(cs)], H)
               /\ \A i \in 1 .. Len(cs) : Follows(K[i - 1], cs[i], K[i])
  BY DEF Leads
<1>3. PICK n \in Nat : n = Len(cs)
  BY <1>1
<1>4. /\ n # 0 /\ Head(cs) = cs[1] /\ Tail(cs) \in Seq(S) /\ Len(Tail(cs)) = n - 1
      /\ \A i \in 1 .. n - 1 : Tail(cs)[i] = cs[i + 1]
  BY <1>1, <1>3
<1>5. Follows(K[1 - 1], cs[1], K[1]) /\ 1 - 1 = 0
  BY <1>2, <1>3, <1>4
<1>6. Follows(G, Head(cs), K[1])
  BY <1>2, <1>4, <1>5, Weaker, FollowsWeaker
<1>7. PICK J : J = [i \in 0 .. n - 1 |-> K[i + 1]]
  OBVIOUS
<1>8. J[0] = K[1] /\ J[n - 1] = K[n]
  BY <1>4, <1>7
<1>9. ASSUME NEW i \in 1 .. n - 1  PROVE Follows(J[i - 1], Tail(cs)[i], J[i])
  <2>1. J[i - 1] = K[(i + 1) - 1] /\ J[i] = K[i + 1] /\ i + 1 \in 1 .. n
    BY <1>7
  <2> QED  BY <2>1, <1>2, <1>3, <1>4
<1>10. Leads(K[1], Tail(cs), H)
  <2>1. AtLeast(K[1], J[0]) /\ AtLeast(J[n - 1], H)
    BY <1>2, <1>3, <1>8, Weaker
  <2> QED  BY <2>1, <1>4, <1>9 DEF Leads
<1> QED  BY <1>6, <1>10

(***************************************************************************)
(* Loops.                                                                  *)
(***************************************************************************)
LEMMA LeastNumber ==
  ASSUME NEW D, D \subseteq Nat, D # {}
  PROVE  \E n \in D : \A j \in D : ~(j < n)
<1>1. PICK n \in D : \A j \in D : <<j, n>> \notin OpToRel(<, Nat)
  BY NatLessThanWellFounded, WFMin
<1> QED  BY <1>1 DEF OpToRel

(* The concatenations that FlattenSeq makes of a sequence of sequences.    *)
LEMMA PartialConcatenations ==
  ASSUME NEW F, NEW n \in Nat
  PROVE  \E h : h = [i \in 1 .. n |-> IF i = 1 THEN F[i] ELSE h[i - 1] \o F[i]]
<1> DEFINE Has(k) == \E h : h = [i \in 1 .. k |-> IF i = 1 THEN F[i] ELSE h[i - 1] \o F[i]]
           D == {k \in Nat : ~Has(k)}
<1>1. SUFFICES ASSUME D # {}  PROVE FALSE
  OBVIOUS
<1>2. PICK k \in D : \A j \in D : ~(j < k)
  BY <1>1, LeastNumber
<1>3. CASE k = 0
  <2>1. PICK h : h = [i \in {} |-> 0]
    OBVIOUS
  <2>2. h = [i \in 1 .. k |-> IF i = 1 THEN F[i] ELSE h[i - 1] \o F[i]]
    BY <1>3, <2>1
  <2> QED  BY <1>2, <2>2
<1>4. CASE k # 0
  <2>1. k \in Nat /\ k - 1 \in Nat /\ k - 1 < k
    BY <1>4, <1>2
  <2>2. Has(k - 1)
    BY <2>1, <1>2
  <2>3. PICK h : h = [i \in 1 .. k - 1 |-> IF i = 1 THEN F[i] ELSE h[i - 1] \o F[i]]
    BY <2>2
  <2> HIDE DEF D
  <2>4. PICK g : g = [i \in 1 .. k |-> IF i < k THEN h[i]
                                      ELSE IF i = 1 THEN F[i] ELSE h[i - 1] \o F[i]]
    OBVIOUS
  <2>5. \A i \in 1 .. k : g[i] = IF i = 1 THEN F[i] ELSE g[i - 1] \o F[i]
    <3> SUFFICES ASSUME NEW i \in 1 .. k  PROVE g[i] = IF i = 1 THEN F[i] ELSE g[i - 1] \o F[i]
      OBVIOUS
    <3>1. CASE i < k
      <4>1. i \in 1 .. k - 1 /\ g[i] = h[i] /\ (i # 1 => i - 1 \in 1 .. k /\ i - 1 < k)
        BY <3>1, <2>1, <2>4
      <4>2. i # 1 => g[i - 1] = h[i - 1]
        BY <4>1, <2>4
      <4> QED  BY <4>1, <4>2, <2>3
    <3>2. CASE i = k
      <4>1. i # 1 => i - 1 \in 1 .. k /\ i - 1 < k
        BY <3>2, <2>1
      <4>2. i # 1 => g[i - 1] = h[i - 1]
        BY <4>1, <2>4
      <4> QED  BY <3>2, <4>2, <2>4
    <3> QED  BY <3>1, <3>2, <2>1
  <2>6. g = [i \in 1 .. k |-> g[i]]
    BY <2>4
  <2>7. g = [i \in 1 .. k |-> IF i = 1 THEN F[i] ELSE g[i - 1] \o F[i]]
    BY <2>5, <2>6
  <2>8. Has(k)
    BY <2>7
  <2> QED  BY <1>2, <2>8 DEF D
<1> QED  BY <1>3, <1>4

LEMMA FlattenByFold ==
  ASSUME NEW F, Len(F) \in Nat, Len(F) # 0
  PROVE  \E g : /\ g = [i \in 1 .. Len(F) |-> IF i = 1 THEN F[i] ELSE g[i - 1] \o F[i]]
               /\ FlattenSeq(F) = g[Len(F)]
<1> DEFINE flat == CHOOSE g : g = [i \in 1 .. Len(F) |-> IF i = 1 THEN F[i] ELSE g[i - 1] \o F[i]]
<1>1. flat = [i \in 1 .. Len(F) |-> IF i = 1 THEN F[i] ELSE flat[i - 1] \o F[i]]
  BY PartialConcatenations
<1>2. FlattenSeq(F) = flat[Len(F)]
  BY DEF FlattenSeq
<1> QED  BY <1>1, <1>2

(* A loop of n rounds, the i-th from K[i - 1] to K[i].                      *)
LEMMA LeadsLoop ==
  ASSUME NEW n \in Nat, NEW F, NEW K, F = [i \in 1 .. n |-> F[i]],
         \A i \in 1 .. n : Leads(K[i - 1], F[i], K[i])
  PROVE  Leads(K[0], FlattenSeq(F), K[n])
<1>1. Len(F) = n
  OBVIOUS
<1>2. CASE n = 0
  <2>1. F = <<>> /\ FlattenSeq(F) = <<>>
    BY <1>1, <1>2 DEF FlattenSeq
  <2> QED  BY <1>2, <2>1, LeadsNowhere
<1>3. CASE n # 0
  <2>1. PICK g : /\ g = [i \in 1 .. Len(F) |-> IF i = 1 THEN F[i] ELSE g[i - 1] \o F[i]]
                 /\ FlattenSeq(F) = g[Len(F)]
    BY <1>1, <1>3, FlattenByFold
  <2> DEFINE D == {k \in 1 .. n : ~Leads(K[0], g[k], K[k])}
  <2>2. CASE D = {}
    <3>1. n \in 1 .. n
      BY <1>3
    <3> QED  BY <2>2, <3>1, <2>1, <1>1
  <2>3. CASE D # {}
    <3>1. PICK k \in D : \A j \in D : ~(j < k)
      <4>1. D \subseteq Nat
        OBVIOUS
      <4> HIDE DEF D
      <4> QED  BY <4>1, <2>3, LeastNumber
    <3>2. k \in 1 .. n /\ ~Leads(K[0], g[k], K[k])
      BY <3>1
    <3>3. k # 1
      <4>1. SUFFICES ASSUME k = 1  PROVE FALSE
        OBVIOUS
      <4>2. g[1] = F[1] /\ 1 \in 1 .. n /\ 1 - 1 = 0
        BY <4>1, <3>2, <2>1, <1>1
      <4>3. Leads(K[1 - 1], F[1], K[1])
        BY <4>2
      <4> QED  BY <4>1, <4>2, <4>3, <3>2
    <3>4. k - 1 \in 1 .. n /\ k - 1 < k
      BY <3>2, <3>3
    <3>5. Leads(K[0], g[k - 1], K[k - 1])
      BY <3>1, <3>4
    <3>6. g[k] = g[k - 1] \o F[k]
      BY <2>1, <1>1, <3>2, <3>3
    <3> HIDE DEF D
    <3>7. Leads(K[k - 1], F[k], K[k])
      BY <3>2
    <3>8. Leads(K[0], g[k - 1] \o F[k], K[k])
      BY <3>5, <3>7, LeadsOn
    <3> QED  BY <3>2, <3>6, <3>8
  <2> QED  BY <2>2, <2>3
<1> QED  BY <1>2, <1>3

(* Each of n rounds keeps what is known.                                   *)
LEMMA LeadsRounds ==
  ASSUME NEW n \in Nat, NEW F, NEW G, F = [i \in 1 .. n |-> F[i]],
         \A i \in 1 .. n : Leads(G, F[i], G)
  PROVE  Leads(G, FlattenSeq(F), G)
<1>1. PICK K : K = [i \in 0 .. n |-> G]
  OBVIOUS
<1>2. \A i \in 1 .. n : K[i - 1] = G /\ K[i] = G
  BY <1>1
<1>3. K[0] = G /\ K[n] = G
  BY <1>1
<1>4. \A i \in 1 .. n : Leads(K[i - 1], F[i], K[i])
  BY <1>2
<1>5. Leads(K[0], FlattenSeq(F), K[n])
  BY <1>4, LeadsLoop
<1> QED  BY <1>3, <1>5

(* The local x points to a message of its type, on the arena or the heap.  *)
InArena(x) ==
  x \in DOMAIN reg /\ reg[x] \in Objects /\ reg[x] > 0 /\ type[reg[x]] = TypeOf(x)

InHeap(x) ==
  x \in DOMAIN reg /\ reg[x] \in Objects /\ ~(reg[x] > 0) /\ type[reg[x]] = TypeOf(x)

Describes(G) ==
  /\ \A x \in G.arena : InArena(x)
  /\ \A x \in G.heap : InHeap(x)
  /\ G.own \subseteq held /\ held \subseteq G.may

OwnTyped == \A x \in held : type[reg[x]] = TypeOf(x)

KidsOfType ==
  \A o \in Objects : \A f \in Fields(type[o]) : \A i \in DOMAIN kids[o][f] :
    type[kids[o][f][i]] = ChildType[f]

ScalarsTyped ==
  DOMAIN val = Objects /\ \A o \in Objects : type[o] = "Computation" => Counted(val[o])

Typed == OwnTyped /\ KidsOfType /\ ScalarsTyped

(* No object goes away or changes its type. *)
Remain == Objects \subseteq Objects' /\ \A o \in Objects : type'[o] = type[o]

LEMMA FactsOf ==
  ASSUME NEW a, NEW h, NEW o, NEW m
  PROVE  /\ Facts(a, h, o, m).arena = a /\ Facts(a, h, o, m).heap = h
         /\ Facts(a, h, o, m).own = o /\ Facts(a, h, o, m).may = m
<1> QED  BY DEF Facts

LEMMA DescribesLess ==
  ASSUME NEW G, NEW P, AtLeast(G, P), Describes(G)
  PROVE  Describes(P)
<1> QED  BY DEF Describes, AtLeast

LEMMA DescribesKept ==
  ASSUME NEW P, NEW Q, Describes(P), Remain, UNCHANGED reg,
         Q.arena \subseteq P.arena, Q.heap \subseteq P.heap,
         Q.own \subseteq held', held' \subseteq Q.may
  PROVE  Describes(Q)'
<1>1. \A x : (InArena(x) => InArena(x)') /\ (InHeap(x) => InHeap(x)')
  BY DEF InArena, InHeap, Remain
<1> QED  BY <1>1 DEF Describes

LEMMA DescribesPointed ==
  ASSUME NEW P, NEW Q, Describes(P), Remain, NEW y, NEW o, reg' = Pointing(y, o),
         o \in Objects', type'[o] = TypeOf(y),
         \/ o > 0 /\ Q.arena \subseteq P.arena \cup {y} /\ Q.heap \subseteq P.heap \ {y}
         \/ ~(o > 0) /\ Q.arena \subseteq P.arena \ {y} /\ Q.heap \subseteq P.heap \cup {y},
         Q.own \subseteq held', held' \subseteq Q.may
  PROVE  Describes(Q)'
<1>1. \A x : x # y => (InArena(x) => InArena(x)') /\ (InHeap(x) => InHeap(x)')
  BY DEF InArena, InHeap, Remain, Pointing
<1>2. /\ o > 0 => InArena(y)'
      /\ ~(o > 0) => InHeap(y)'
  BY DEF InArena, InHeap, Pointing
<1>3. \A x \in Q.arena : InArena(x)'
  BY <1>1, <1>2 DEF Describes
<1>4. \A x \in Q.heap : InHeap(x)'
  BY <1>1, <1>2 DEF Describes
<1> QED  BY <1>3, <1>4 DEF Describes

LEMMA OwnStays ==
  ASSUME HandsValid, OwnTyped, Remain,
         \A x \in held' : \/ x \in held /\ reg'[x] = reg[x]
                          \/ type'[reg'[x]] = TypeOf(x)
  PROVE  OwnTyped'
<1>1. \A x \in held : reg[x] \in Objects
  BY DEF HandsValid, OnArena
<1> QED  BY <1>1 DEF OwnTyped, Remain

LEMMA KidsStay ==
  ASSUME KidsValid, KidsOfType, Remain, Objects' = Objects,
         \A o \in Objects : \A f \in Fields(type[o]) : \A i \in DOMAIN kids'[o][f] :
           \/ kids'[o][f][i] \in {kids[o][f][j] : j \in DOMAIN kids[o][f]}
           \/ kids'[o][f][i] \in Objects /\ type[kids'[o][f][i]] = ChildType[f]
  PROVE  KidsOfType'
<1>1. SUFFICES ASSUME NEW o \in Objects, NEW f \in Fields(type[o]), NEW i \in DOMAIN kids'[o][f]
               PROVE  type'[kids'[o][f][i]] = ChildType[f]
  BY DEF KidsOfType, Remain
<1>2. kids'[o][f][i] \in Objects /\ type[kids'[o][f][i]] = ChildType[f]
  BY DEF KidsValid, KidsOfType
<1> QED  BY <1>2 DEF Remain

(* The messages k holds are of the types of their fields, counting v of type t. *)
KidsFit(k, v, t) ==
  \A o \in Objects : \A f \in Fields(type[o]) : \A i \in DOMAIN k[o][f] :
    \/ k[o][f][i] \in Objects /\ type[k[o][f][i]] = ChildType[f]
    \/ k[o][f][i] = v /\ t = ChildType[f]

LEMMA NewObject ==
  ASSUME MessagesTyped, KidsOfType, ScalarsTyped, NEW v, NEW t \in Types, NEW k, NEW in_arena \in BOOLEAN,
         v = NewPlace(in_arena), DOMAIN k = Objects, NewMessage(v, t, k),
         KidsFit(k, v, t)
  PROVE  /\ KidsOfType' /\ ScalarsTyped' /\ Remain
         /\ v \in Objects' /\ v \notin Objects /\ type'[v] = t /\ v \in Int /\ (v > 0 <=> in_arena)
<1>1. /\ v \in Int /\ v \notin Objects /\ (v > 0 <=> in_arena)
      /\ Objects' = Objects \cup {v}
      /\ type'[v] = t /\ \A o \in Objects : type'[o] = type[o]
      /\ DOMAIN kids'[v] = Fields(t) /\ \A f \in Fields(t) : kids'[v][f] = <<>>
      /\ \A o \in Objects : kids'[o] = k[o]
  BY Created
<1>2. Remain
  BY <1>1 DEF Remain
<1>3. KidsOfType'
  <2>1. SUFFICES ASSUME NEW o \in Objects', NEW f \in Fields(type'[o]), NEW i \in DOMAIN kids'[o][f]
                 PROVE  type'[kids'[o][f][i]] = ChildType[f]
    BY DEF KidsOfType
  <2>2. CASE o = v
    BY <2>2, <1>1
  <2>3. CASE o \in Objects
    <3>1. type'[o] = type[o] /\ kids'[o] = k[o]
      BY <2>3, <1>1
    <3>2. \/ k[o][f][i] \in Objects /\ type[k[o][f][i]] = ChildType[f]
          \/ k[o][f][i] = v /\ t = ChildType[f]
      BY <2>3, <3>1 DEF KidsFit
    <3> QED  BY <3>1, <3>2, <1>1
  <2> QED  BY <2>2, <2>3, <1>1
<1>4. ScalarsTyped'
  <2>1. Counted(Unset)
    BY DEF Counted, Unset
  <2>2. DOMAIN val' = Objects' /\ val'[v] = Unset /\ \A o \in Objects : val'[o] = val[o]
    BY <1>1 DEF NewMessage, Extended, ScalarsTyped
  <2> QED  BY <2>1, <2>2, <1>1 DEF ScalarsTyped
<1> QED  BY <1>1, <1>2, <1>3, <1>4

-----------------------------------------------------------------------------
LEMMA CreateOnArenaFine ==
  ASSUME Owned, Typed, NEW P, NEW Q, Describes(P), AllocateRule(P, I, Q), CreateOnArena
  PROVE  Typed' /\ Describes(Q)'
<1>1. PICK t, to, v : t = I.type /\ to = I.to /\ v = top + 1
  OBVIOUS
<1>2. /\ t \in Types /\ TypeOf(to) = t /\ to \notin held /\ Q = Acquired(P, to)
  BY <1>1, PooledAssumption DEF AllocateRule, Describes
<1>3. NewMessage(v, t, kids) /\ reg' = Pointing(to, v) /\ held' = held \cup {to}
  BY <1>1 DEF CreateOnArena
<1>4. v = NewPlace(TRUE) /\ MessagesTyped /\ DOMAIN kids = Objects /\ HandsValid /\ KidsValid
  BY <1>1 DEF NewPlace, Owned, MessagesTyped
<1>5. \A o \in Objects : \A f \in Fields(type[o]) : \A i \in DOMAIN kids[o][f] :
        kids[o][f][i] \in Objects /\ type[kids[o][f][i]] = ChildType[f]
  BY <1>4 DEF KidsValid, Typed, KidsOfType
<1>6. /\ KidsOfType' /\ ScalarsTyped' /\ Remain
      /\ v \in Objects' /\ v \notin Objects /\ type'[v] = t /\ v > 0
  <2>1. PICK up \in BOOLEAN : up
    OBVIOUS
  <2>2. v = NewPlace(up)
    BY <2>1, <1>4 DEF NewPlace
  <2>3. KidsOfType /\ ScalarsTyped
    BY DEF Typed
  <2>4. PICK k : k = kids
    OBVIOUS
  <2>5. KidsFit(k, v, t)
    BY <2>4, <1>5 DEF KidsFit
  <2>6. DOMAIN k = Objects /\ NewMessage(v, t, k)
    BY <2>4, <1>3, <1>4
  <2>7. /\ KidsOfType' /\ ScalarsTyped' /\ Remain
        /\ v \in Objects' /\ v \notin Objects /\ type'[v] = t /\ (v > 0 <=> up)
    BY <2>1, <2>2, <2>3, <2>5, <2>6, <1>2, <1>4, NewObject
  <2> QED  BY <2>1, <2>7
<1>7. reg'[to] = v /\ \A x \in held : reg'[x] = reg[x]
  BY <1>2, <1>3, <1>4 DEF Pointing, HandsValid
<1>8. OwnTyped'
  BY <1>2, <1>3, <1>4, <1>6, <1>7, OwnStays DEF Typed
<1>9. Describes(Q)'
  <2>1. Q.own \subseteq held' /\ held' \subseteq Q.may
    BY <1>2, <1>3, FactsOf DEF Acquired, Describes
  <2>2. Q.arena = P.arena \cup {to} /\ Q.heap = P.heap \ {to}
    BY <1>2, FactsOf DEF Acquired
  <2> QED  BY <2>1, <2>2, <1>2, <1>3, <1>6, DescribesPointed
<1> QED  BY <1>6, <1>8, <1>9 DEF Typed

LEMMA RemoveFromPoolFine ==
  ASSUME Owned, Typed, NEW P, NEW Q, Describes(P), AllocateRule(P, I, Q), RemoveFromPool
  PROVE  Typed' /\ Describes(Q)'
<1>1. PICK t, to, v : t = I.type /\ to = I.to /\ v = Last(pool[t])
  OBVIOUS
<1>2. /\ t \in Pooled /\ TypeOf(to) = t /\ to \notin held /\ Q = Acquired(P, to)
  BY <1>1 DEF AllocateRule, Describes
<1>3. /\ pool[t] # <<>> /\ reg' = Pointing(to, v) /\ held' = held \cup {to}
      /\ val' = [val EXCEPT ![v] = Unset]
      /\ kids' = [kids EXCEPT ![v] = Childless(t)]
      /\ UNCHANGED type
  BY <1>1 DEF RemoveFromPool
<1>4. MessagesTyped /\ HandsValid /\ KidsValid /\ PoolsValid /\ pool[t] \in Seq(Int)
  BY <1>2 DEF Owned, PoolsTyped
<1>5. v \in OnArena /\ type[v] = t
  <2>1. Len(pool[t]) \in DOMAIN pool[t] /\ Last(pool[t]) = pool[t][Len(pool[t])]
    BY <1>3, <1>4 DEF Last
  <2> QED  BY <1>1, <1>2, <1>4, <2>1 DEF PoolsValid
<1>6. v \in Objects /\ v > 0
  BY <1>4, <1>5 DEF OnArena, OnHeap, MessagesTyped
<1>7. Remain /\ Objects' = Objects
  BY <1>3 DEF Remain, Objects
<1>8. KidsOfType'
  <2>1. \A o \in Objects : \A f \in Fields(type[o]) : \A i \in DOMAIN kids'[o][f] :
          kids'[o][f][i] \in {kids[o][f][j] : j \in DOMAIN kids[o][f]}
    <3>1. DOMAIN kids = Objects
      BY <1>4 DEF MessagesTyped
    <3>2. SUFFICES ASSUME NEW o \in Objects, NEW f \in Fields(type[o]), NEW i \in DOMAIN kids'[o][f]
                   PROVE  kids'[o][f][i] \in {kids[o][f][j] : j \in DOMAIN kids[o][f]}
      OBVIOUS
    <3>3. o # v
      BY <1>3, <1>5, <1>6, <3>1, <3>2 DEF Childless
    <3> QED  BY <1>3, <3>1, <3>2, <3>3
  <2> QED  BY <2>1, <1>4, <1>7, KidsStay DEF Typed
<1>9. ScalarsTyped'
  <2>1. Counted(Unset)
    BY DEF Counted, Unset
  <2> QED  BY <2>1, <1>3, <1>6, <1>7 DEF ScalarsTyped, Typed
<1>10. reg'[to] = v /\ \A x \in held : reg'[x] = reg[x]
  BY <1>2, <1>3, <1>4 DEF Pointing, HandsValid
<1>11. OwnTyped'
  BY <1>2, <1>3, <1>4, <1>5, <1>7, <1>10, OwnStays DEF Typed
<1>12. Describes(Q)'
  <2>1. Q.own \subseteq held' /\ held' \subseteq Q.may
    BY <1>2, <1>3, FactsOf DEF Acquired, Describes
  <2>2. Q.arena = P.arena \cup {to} /\ Q.heap = P.heap \ {to}
    BY <1>2, FactsOf DEF Acquired
  <2>3. v \in Objects' /\ type'[v] = TypeOf(to)
    BY <1>2, <1>3, <1>5, <1>6, <1>7
  <2> QED  BY <2>1, <2>2, <2>3, <1>3, <1>6, <1>7, DescribesPointed
<1> QED  BY <1>8, <1>9, <1>11, <1>12 DEF Typed

LEMMA MovePoolPtrFine ==
  ASSUME Owned, Typed, NEW P, NEW Q, Describes(P), MoveRule(P, I, Q), MovePoolPtr
  PROVE  Typed' /\ Describes(Q)'
<1>1. PICK x, to, v : x = I.x /\ to = I.to /\ v = reg[x]
  OBVIOUS
<1>2. /\ x \in held /\ TypeOf(x) = TypeOf(to) /\ to \notin held
      /\ Q = Acquired(Parted(P, x), to)
  BY <1>1 DEF MoveRule, Describes
<1>3. /\ reg' = Pointing(to, v) /\ held' = (held \ {x}) \cup {to}
      /\ UNCHANGED <<type, val, kids>>
  BY <1>1, <1>2 DEF MovePoolPtr, messages
<1>4. MessagesTyped /\ HandsValid /\ KidsValid
  BY DEF Owned
<1>5. v \in Objects /\ v > 0 /\ type[v] = TypeOf(to)
  BY <1>1, <1>2, <1>4 DEF HandsValid, OnArena, OnHeap, MessagesTyped, Typed, OwnTyped
<1>6. Remain /\ Objects' = Objects /\ KidsOfType' /\ ScalarsTyped'
  BY <1>3 DEF Remain, Objects, Typed, KidsOfType, ScalarsTyped
<1>7. reg'[to] = v /\ \A y \in held : reg'[y] = reg[y]
  BY <1>2, <1>3, <1>4 DEF Pointing, HandsValid
<1>8. OwnTyped'
  BY <1>2, <1>3, <1>4, <1>5, <1>6, <1>7, OwnStays DEF Typed
<1>9. Describes(Q)'
  <2>1. Q.own \subseteq held' /\ held' \subseteq Q.may
    BY <1>2, <1>3, FactsOf DEF Acquired, Parted, Describes
  <2>2. Q.arena = P.arena \cup {to} /\ Q.heap = P.heap \ {to}
    BY <1>2, FactsOf DEF Acquired, Parted
  <2> QED  BY <2>1, <2>2, <1>3, <1>5, <1>6, DescribesPointed
<1> QED  BY <1>6, <1>8, <1>9 DEF Typed

LEMMA DestroyPoolPtrFine ==
  ASSUME Owned, Typed, NEW P, NEW Q, Describes(P), DestroyRule(P, I, Q), DestroyPoolPtr
  PROVE  Typed' /\ Describes(Q)'
<1>1. PICK x : x = I.x
  OBVIOUS
<1>2. held' = held \ {x} /\ UNCHANGED <<type, val, kids, reg>> /\ Q = Parted(P, x)
  BY <1>1 DEF DestroyPoolPtr, messages, DestroyRule
<1>3. Remain /\ Objects' = Objects /\ KidsOfType' /\ ScalarsTyped' /\ OwnTyped'
  BY <1>2 DEF Remain, Objects, Typed, KidsOfType, ScalarsTyped, OwnTyped
<1>4. Q.own \subseteq held' /\ held' \subseteq Q.may /\ Q.arena = P.arena /\ Q.heap = P.heap
  BY <1>2, FactsOf DEF Parted, Describes
<1> QED  BY <1>2, <1>3, <1>4, DescribesKept DEF Typed

(* The last element v of field f of the message o.                         *)
LEMMA LastOf ==
  ASSUME MessagesTyped, KidsValid, KidsOfType, NEW o, InArena(o), NEW f \in Fields(TypeOf(o)),
         NEW v, v = Last(Of(o, f)), Of(o, f) # <<>>
  PROVE  /\ v \in Objects /\ v > 0 /\ type[v] = ChildType[f]
         /\ \A i \in DOMAIN Front(Of(o, f)) :
              i \in DOMAIN Of(o, f) /\ Front(Of(o, f))[i] = Of(o, f)[i]
<1>1. PICK a \in Objects : a = reg[o]
  BY DEF InArena
<1>2. f \in Fields(type[a]) /\ a > 0 /\ Of(o, f) = kids[a][f]
  BY <1>1 DEF InArena, Of
<1>3. PICK d \in Seq(Int) : d = kids[a][f]
  BY <1>2 DEF MessagesTyped
<1>4. /\ Len(d) \in DOMAIN d /\ Last(d) = d[Len(d)]
      /\ \A i \in DOMAIN Front(d) : i \in DOMAIN d /\ Front(d)[i] = d[i]
  <2>1. d # <<>>
    BY <1>2, <1>3
  <2>2. /\ Len(d) \in Nat \ {0} /\ Front(d) \in Seq(Int) /\ Last(d) = d[Len(d)]
        /\ Len(Front(d)) = Len(d) - 1
        /\ \A i \in 1 .. Len(d) - 1 : Front(d)[i] = d[i]
    BY <2>1, <1>3, FrontLast
  <2>3. Len(d) \in DOMAIN d
    BY <2>2, <1>3
  <2>4. ASSUME NEW i \in DOMAIN Front(d)  PROVE i \in DOMAIN d /\ Front(d)[i] = d[i]
    <3>1. i \in 1 .. Len(d) - 1
      BY <2>2
    <3>2. i \in 1 .. Len(d)
      BY <2>2, <3>1
    <3>3. DOMAIN d = 1 .. Len(d)
      BY <1>3
    <3> QED  BY <3>1, <3>2, <3>3, <2>2
  <2> QED  BY <2>2, <2>3, <2>4
<1>5. v = kids[a][f][Len(d)] /\ Len(d) \in DOMAIN kids[a][f]
  BY <1>2, <1>3, <1>4
<1>6. v \in Objects /\ v > 0 /\ type[v] = ChildType[f]
  BY <1>2, <1>5 DEF KidsValid, KidsOfType
<1> QED  BY <1>2, <1>3, <1>4, <1>6

LEMMA TakeFine ==
  ASSUME Owned, Typed, NEW P, NEW Q, Describes(P), TakeRule(P, I, Q), WrapPoolPtr \/ ReleaseRaw
  PROVE  Typed' /\ Describes(Q)'
<1>1. PICK x, f, to, v : x = I.o /\ f = I.f /\ to = I.to /\ v = Last(Of(x, f))
  OBVIOUS
<1>2. /\ x \in P.arena /\ f \in Fields(TypeOf(x)) /\ TypeOf(to) = ChildType[f]
      /\ to \notin held /\ Q = Acquired(P, to)
  BY <1>1 DEF TakeRule, Describes
<1>3. /\ Of(x, f) # <<>> /\ reg' = Pointing(to, v) /\ held' = held \cup {to}
      /\ kids' = [kids EXCEPT ![reg[x]][f] = Front(Of(x, f))]
      /\ UNCHANGED <<type, val>>
  BY <1>1 DEF WrapPoolPtr, ReleaseRaw, Of
<1>4. /\ MessagesTyped /\ HandsValid /\ KidsValid
      /\ OwnTyped /\ KidsOfType /\ ScalarsTyped
  BY DEF Owned, Typed
<1>5. InArena(x) /\ reg[x] \in Objects /\ f \in Fields(type[reg[x]])
  BY <1>2 DEF Describes, InArena
<1>6. /\ v \in Objects /\ v > 0 /\ type[v] = ChildType[f]
      /\ \A i \in DOMAIN Front(Of(x, f)) :
              i \in DOMAIN Of(x, f) /\ Front(Of(x, f))[i] = Of(x, f)[i]
  BY <1>1, <1>2, <1>3, <1>4, <1>5, LastOf
<1>7. Remain /\ Objects' = Objects /\ ScalarsTyped'
  BY <1>3, <1>4 DEF Remain, Objects, ScalarsTyped
<1>8. KidsOfType'
  <2>1. \A o \in Objects : \A g \in Fields(type[o]) :
          kids'[o][g] = IF o = reg[x] /\ g = f THEN Front(Of(x, f)) ELSE kids[o][g]
    BY <1>3, <1>4, <1>5, FieldSet
  <2>2. \A o \in Objects : \A g \in Fields(type[o]) : \A i \in DOMAIN kids'[o][g] :
          kids'[o][g][i] \in {kids[o][g][j] : j \in DOMAIN kids[o][g]}
    BY <2>1, <1>6 DEF Of
  <2> QED  BY <2>2, <1>4, <1>7, KidsStay
<1>9. reg'[to] = v /\ \A y \in held : reg'[y] = reg[y]
  BY <1>2, <1>3, <1>4 DEF Pointing, HandsValid
<1>10. OwnTyped'
  BY <1>2, <1>3, <1>4, <1>6, <1>7, <1>9, OwnStays
<1>11. Describes(Q)'
  <2>1. Q.own \subseteq held' /\ held' \subseteq Q.may
    BY <1>2, <1>3, FactsOf DEF Acquired, Describes
  <2>2. Q.arena = P.arena \cup {to} /\ Q.heap = P.heap \ {to}
    BY <1>2, FactsOf DEF Acquired
  <2>3. v \in Objects' /\ type'[v] = TypeOf(to)
    BY <1>2, <1>3, <1>6, <1>7
  <2> QED  BY <2>1, <2>2, <2>3, <1>3, <1>6, <1>7, DescribesPointed
<1> QED  BY <1>7, <1>8, <1>10, <1>11 DEF Typed

LEMMA AddAllocatedFine ==
  ASSUME Owned, Typed, NEW P, NEW Q, Describes(P), GiveRule(P, I, Q), AddAllocated
  PROVE  Typed' /\ Describes(Q)'
<1>1. PICK x, o, f, v : x = I.x /\ o = I.o /\ f = I.f /\ v = reg[x]
  OBVIOUS
<1>2. /\ o \in P.arena /\ f \in Fields(TypeOf(o)) /\ TypeOf(x) = ChildType[f]
      /\ x \in held /\ Q = Parted(P, x)
  BY <1>1 DEF GiveRule, Describes
<1>3. /\ held' = held \ {x} /\ UNCHANGED <<type, val, reg>>
      /\ kids' = [kids EXCEPT ![reg[o]][f] = Append(Of(o, f), v)]
  BY <1>1 DEF AddAllocated, Of
<1>4. /\ MessagesTyped /\ HandsValid /\ KidsValid
      /\ OwnTyped /\ KidsOfType /\ ScalarsTyped
  BY DEF Owned, Typed
<1>5. PICK a \in Objects : a = reg[o] /\ f \in Fields(type[a]) /\ Of(o, f) = kids[a][f]
  BY <1>2 DEF Describes, InArena, Of
<1>6. v \in Objects /\ type[v] = ChildType[f]
  BY <1>1, <1>2, <1>4 DEF HandsValid, OnArena, OwnTyped
<1>7. Remain /\ Objects' = Objects /\ ScalarsTyped' /\ OwnTyped'
  BY <1>3, <1>4 DEF Remain, Objects, ScalarsTyped, OwnTyped
<1>8. KidsOfType'
  <2>1. PICK d \in Seq(Int) : d = kids[a][f]
    BY <1>4, <1>5 DEF MessagesTyped
  <2>2. PICK e : e = Append(d, v)
    OBVIOUS
  <2>3. \A i \in DOMAIN e : e[i] = v \/ (i \in DOMAIN d /\ e[i] = d[i])
    BY <2>1, <2>2
  <2>4. \A p \in Objects : \A g \in Fields(type[p]) :
          kids'[p][g] = IF p = a /\ g = f THEN e ELSE kids[p][g]
    <3>1. PICK k : k = kids' /\ k = [kids EXCEPT ![a][f] = e]
      BY <2>1, <2>2, <1>3, <1>5
    <3>2. \A p \in Objects : \A g \in Fields(type[p]) :
            k[p][g] = IF p = a /\ g = f THEN e ELSE kids[p][g]
      BY <3>1, <1>4, <1>5, FieldSet
    <3> QED  BY <3>1, <3>2
  <2>5. ASSUME NEW p \in Objects, NEW g \in Fields(type[p]), NEW i \in DOMAIN kids'[p][g]
        PROVE  \/ kids'[p][g][i] \in {kids[p][g][j] : j \in DOMAIN kids[p][g]}
               \/ kids'[p][g][i] \in Objects /\ type[kids'[p][g][i]] = ChildType[g]
    <3>1. CASE p = a /\ g = f
      <4>1. kids'[p][g] = e /\ kids[p][g] = d
        BY <3>1, <2>1, <2>4
      <4> QED  BY <4>1, <3>1, <2>3, <1>6
    <3>2. CASE ~(p = a /\ g = f)
      <4>1. kids'[p][g] = kids[p][g]
        BY <3>2, <2>4
      <4> QED  BY <4>1
    <3> QED  BY <3>1, <3>2
  <2> QED  BY <2>5, <1>4, <1>7, KidsStay
<1>9. Describes(Q)'
  <2>1. Q.own \subseteq held' /\ held' \subseteq Q.may /\ Q.arena = P.arena /\ Q.heap = P.heap
    BY <1>2, <1>3, FactsOf DEF Parted, Describes
  <2> QED  BY <2>1, <1>3, <1>7, DescribesKept
<1> QED  BY <1>7, <1>8, <1>9 DEF Typed

LEMMA PlacedLike ==
  ASSUME NEW P, NEW Q, NEW x, NEW to, Describes(P), x \in Known(P), Q = Placed(P, x, to)
  PROVE  /\ x \in DOMAIN reg /\ reg[x] \in Objects /\ type[reg[x]] = TypeOf(x)
         /\ Q.own = P.own /\ Q.may = P.may
         /\ \/ reg[x] > 0 /\ Q.arena \subseteq P.arena \cup {to} /\ Q.heap \subseteq P.heap \ {to}
            \/ ~(reg[x] > 0) /\ Q.arena \subseteq P.arena \ {to} /\ Q.heap \subseteq P.heap \cup {to}
<1>1. CASE x \in P.arena
  BY <1>1, FactsOf DEF Describes, InArena, Placed
<1>2. CASE x \notin P.arena
  <2>1. x \in P.heap /\ InHeap(x)
    BY <1>2 DEF Known, Describes
  <2> QED  BY <1>2, <2>1, FactsOf DEF InHeap, Placed
<1> QED  BY <1>1, <1>2

LEMMA AddNewFine ==
  ASSUME Owned, Typed, NEW P, NEW Q, Describes(P), AddRule(P, I, Q), AddNew
  PROVE  Typed' /\ Describes(Q)'
<1>1. PICK x, f, t, to : x = I.o /\ f = I.f /\ t = I.type /\ to = I.to
  OBVIOUS
<1>2. /\ x \in Known(P) /\ f \in Fields(TypeOf(x)) /\ t \in Types /\ t = ChildType[f]
      /\ TypeOf(to) = t /\ to \notin held /\ Q = Placed(P, x, to)
  BY <1>1 DEF AddRule, Describes
<1>3. /\ reg[x] \in Objects /\ type[reg[x]] = TypeOf(x)
      /\ Q.own = P.own /\ Q.may = P.may
      /\ \/ reg[x] > 0 /\ Q.arena \subseteq P.arena \cup {to} /\ Q.heap \subseteq P.heap \ {to}
         \/ ~(reg[x] > 0) /\ Q.arena \subseteq P.arena \ {to} /\ Q.heap \subseteq P.heap \cup {to}
  BY <1>2, PlacedLike
<1>4. PICK a \in Objects : a = reg[x] /\ f \in Fields(type[a])
  BY <1>2, <1>3
<1>5. PICK up \in BOOLEAN : up <=> a > 0
  OBVIOUS
<1>6. PICK v : v = NewPlace(up)
  OBVIOUS
<1>7. v = NewPlace(reg[I.o] > 0)
  BY <1>1, <1>4, <1>5, <1>6 DEF NewPlace
<1>8. PICK k : k = [kids EXCEPT ![a][f] = Append(kids[a][f], v)]
  OBVIOUS
<1>9. NewMessage(v, t, k) /\ reg' = Pointing(to, v) /\ UNCHANGED held
  BY <1>1, <1>4, <1>7, <1>8 DEF AddNew
<1>10. /\ MessagesTyped /\ HandsValid /\ KidsValid
       /\ OwnTyped /\ KidsOfType /\ ScalarsTyped
  BY DEF Owned, Typed
<1>11. /\ DOMAIN k = Objects
       /\ \A p \in Objects : \A g \in Fields(type[p]) :
            k[p][g] = IF p = a /\ g = f THEN Append(kids[a][f], v) ELSE kids[p][g]
  <2>1. PICK q : q = Append(kids[a][f], v)
    OBVIOUS
  <2>2. k = [kids EXCEPT ![a][f] = q] /\ f \in Fields(type[a])
    BY <2>1, <1>4, <1>8
  <2>3. /\ DOMAIN k = Objects
        /\ \A p \in Objects : \A g \in Fields(type[p]) :
             k[p][g] = IF p = a /\ g = f THEN q ELSE kids[p][g]
    BY <2>2, <1>10, FieldSet
  <2> QED  BY <2>1, <2>3
<1>12. KidsFit(k, v, t)
  <2>1. PICK d \in Seq(Int) : d = kids[a][f]
    BY <1>4, <1>10 DEF MessagesTyped
  <2>2. PICK e : e = Append(d, v)
    OBVIOUS
  <2>3. \A i \in DOMAIN e : e[i] = v \/ (i \in DOMAIN d /\ e[i] = d[i])
    BY <2>1, <2>2
  <2>4. ASSUME NEW p \in Objects, NEW g \in Fields(type[p]), NEW i \in DOMAIN k[p][g]
        PROVE  \/ k[p][g][i] \in Objects /\ type[k[p][g][i]] = ChildType[g]
               \/ k[p][g][i] = v /\ t = ChildType[g]
    <3>1. CASE p = a /\ g = f
      <4>1. k[p][g] = e /\ kids[p][g] = d
        BY <3>1, <2>1, <2>2, <1>11
      <4>2. CASE e[i] = v
        BY <4>1, <4>2, <3>1, <1>2
      <4>3. CASE i \in DOMAIN d /\ e[i] = d[i]
        <5>1. kids[p][g][i] \in Objects /\ type[kids[p][g][i]] = ChildType[g]
          BY <4>1, <4>3, <1>10 DEF KidsValid, KidsOfType
        <5> QED  BY <5>1, <4>1, <4>3
      <4> QED  BY <4>1, <4>2, <4>3, <2>3
    <3>2. CASE ~(p = a /\ g = f)
      <4>1. k[p][g] = kids[p][g]
        BY <3>2, <1>11
      <4> QED  BY <4>1, <1>10 DEF KidsValid, KidsOfType
    <3> QED  BY <3>1, <3>2
  <2> QED  BY <2>4 DEF KidsFit
<1>13. /\ KidsOfType' /\ ScalarsTyped' /\ Remain
       /\ v \in Objects' /\ type'[v] = t /\ v \in Int /\ (v > 0 <=> up)
  BY <1>2, <1>6, <1>9, <1>10, <1>11, <1>12, NewObject
<1>14. \A y \in held : reg'[y] = reg[y]
  BY <1>2, <1>9, <1>10 DEF Pointing, HandsValid
<1>15. OwnTyped'
  BY <1>9, <1>10, <1>13, <1>14, OwnStays
<1>16. Describes(Q)'
  <2>1. Q.own \subseteq held' /\ held' \subseteq Q.may
    BY <1>3, <1>9 DEF Describes
  <2>2. \/ v > 0 /\ Q.arena \subseteq P.arena \cup {to} /\ Q.heap \subseteq P.heap \ {to}
        \/ ~(v > 0) /\ Q.arena \subseteq P.arena \ {to} /\ Q.heap \subseteq P.heap \cup {to}
    BY <1>3, <1>4, <1>5, <1>13
  <2> QED  BY <2>1, <2>2, <1>2, <1>9, <1>13, DescribesPointed
<1> QED  BY <1>13, <1>15, <1>16 DEF Typed

LEMMA MakeMessageFine ==
  ASSUME Owned, Typed, NEW P, NEW Q, Describes(P), MakeRule(P, I, Q), MakeMessage
  PROVE  Typed' /\ Describes(Q)'
<1>1. PICK t, to, up, v : t = I.type /\ to = I.to /\ up = I.in_arena /\ v = NewPlace(up)
  OBVIOUS
<1>2. /\ t \in Types /\ up \in BOOLEAN /\ TypeOf(to) = t /\ to \notin held
      /\ Q = IF up THEN Facts(P.arena \cup {to}, P.heap \ {to}, P.own, P.may)
                   ELSE Facts(P.arena \ {to}, P.heap \cup {to}, P.own, P.may)
  BY <1>1 DEF MakeRule, Describes
<1>3. NewMessage(v, t, kids) /\ reg' = Pointing(to, v) /\ UNCHANGED held
  BY <1>1 DEF MakeMessage
<1>4. /\ MessagesTyped /\ HandsValid /\ KidsValid
      /\ OwnTyped /\ KidsOfType /\ ScalarsTyped
  BY DEF Owned, Typed
<1>5. PICK k : k = kids
  OBVIOUS
<1>6. KidsFit(k, v, t) /\ DOMAIN k = Objects
  BY <1>4, <1>5 DEF KidsFit, KidsValid, KidsOfType, MessagesTyped
<1>7. NewMessage(v, t, k)
  BY <1>3, <1>5
<1>8. /\ KidsOfType' /\ ScalarsTyped' /\ Remain
      /\ v \in Objects' /\ type'[v] = t /\ v \in Int /\ (v > 0 <=> up)
  BY <1>1, <1>2, <1>4, <1>6, <1>7, NewObject
<1>9. \A y \in held : reg'[y] = reg[y]
  BY <1>2, <1>3, <1>4 DEF Pointing, HandsValid
<1>10. OwnTyped'
  BY <1>3, <1>4, <1>8, <1>9, OwnStays
<1>11. Describes(Q)'
  <2>1. Q.own \subseteq held' /\ held' \subseteq Q.may
    BY <1>2, <1>3, FactsOf DEF Describes
  <2>2. \/ v > 0 /\ Q.arena \subseteq P.arena \cup {to} /\ Q.heap \subseteq P.heap \ {to}
        \/ ~(v > 0) /\ Q.arena \subseteq P.arena \ {to} /\ Q.heap \subseteq P.heap \cup {to}
    BY <1>2, <1>8, FactsOf
  <2> QED  BY <2>1, <2>2, <1>2, <1>3, <1>8, DescribesPointed
<1> QED  BY <1>8, <1>10, <1>11 DEF Typed

LEMMA PointIntoFine ==
  ASSUME Owned, Typed, NEW P, NEW Q, Describes(P), PointRule(P, I, Q), PointInto
  PROVE  Typed' /\ Describes(Q)'
<1>1. PICK x, f, i, to : x = I.o /\ f = I.f /\ i = I.i /\ to = I.to
  OBVIOUS
<1>2. /\ x \in Known(P) /\ f \in Fields(TypeOf(x))
      /\ TypeOf(to) = ChildType[f] /\ to \notin held /\ Q = Placed(P, x, to)
  BY <1>1 DEF PointRule, Describes
<1>3. /\ reg[x] \in Objects /\ type[reg[x]] = TypeOf(x)
      /\ Q.own = P.own /\ Q.may = P.may
      /\ \/ reg[x] > 0 /\ Q.arena \subseteq P.arena \cup {to} /\ Q.heap \subseteq P.heap \ {to}
         \/ ~(reg[x] > 0) /\ Q.arena \subseteq P.arena \ {to} /\ Q.heap \subseteq P.heap \cup {to}
  BY <1>2, PlacedLike
<1>4. PICK v : v = kids[reg[x]][f][i]
  OBVIOUS
<1>5. /\ i \in DOMAIN kids[reg[x]][f] /\ reg' = Pointing(to, v)
      /\ UNCHANGED <<type, val, kids, held>>
  BY <1>1, <1>4 DEF PointInto, Of, messages
<1>6. v \in Objects /\ (reg[x] > 0 <=> v > 0) /\ type[v] = TypeOf(to)
  BY <1>2, <1>3, <1>4, <1>5 DEF Owned, Typed, KidsValid, KidsOfType
<1>7. Remain /\ Objects' = Objects /\ KidsOfType' /\ ScalarsTyped'
  BY <1>5 DEF Remain, Objects, Typed, KidsOfType, ScalarsTyped
<1>8. \A y \in held : reg'[y] = reg[y]
  BY <1>2, <1>5 DEF Pointing, HandsValid, Owned
<1>9. OwnTyped'
  BY <1>5, <1>7, <1>8, OwnStays DEF Typed, Owned
<1>10. Describes(Q)'
  <2>1. Q.own \subseteq held' /\ held' \subseteq Q.may
    BY <1>3, <1>5 DEF Describes
  <2>2. \/ v > 0 /\ Q.arena \subseteq P.arena \cup {to} /\ Q.heap \subseteq P.heap \ {to}
        \/ ~(v > 0) /\ Q.arena \subseteq P.arena \ {to} /\ Q.heap \subseteq P.heap \cup {to}
    BY <1>3, <1>6
  <2>3. v \in Objects' /\ type'[v] = TypeOf(to)
    BY <1>5, <1>6, <1>7
  <2> QED  BY <2>1, <2>2, <2>3, <1>2, <1>5, <1>7, DescribesPointed
<1> QED  BY <1>7, <1>9, <1>10 DEF Typed

(* Nothing happens to the locals, and no object changes its type.          *)
LEMMA LocalsKept ==
  ASSUME Owned, Typed, NEW P, Describes(P), UNCHANGED <<type, reg, held>>
  PROVE  Remain /\ Objects' = Objects /\ OwnTyped' /\ Describes(P)'
<1>1. Remain /\ Objects' = Objects /\ OwnTyped'
  BY DEF Remain, Objects, Typed, OwnTyped
<1>2. Describes(P)'
  BY <1>1, DescribesKept DEF Describes
<1> QED  BY <1>1, <1>2

LEMMA WriteFine ==
  ASSUME Owned, Typed, NEW P, NEW Q, Describes(P), WriteRule(P, I, Q), WriteScalars \/ SetScalars
  PROVE  Typed' /\ Describes(Q)'
<1>1. PICK x, v : x = I.x /\ v = I.val
  OBVIOUS
<1>2. x \in Known(P) /\ (TypeOf(x) = "Computation" => Counted(v)) /\ Q = P
  BY <1>1 DEF WriteRule
<1>3. PICK a \in Objects : a = reg[x] /\ type[a] = TypeOf(x)
  BY <1>2 DEF Known, Describes, InArena, InHeap
<1>4. /\ UNCHANGED <<type, reg, held>> /\ val' = [val EXCEPT ![a] = v]
      /\ kids' = [kids EXCEPT ![a] = Childless(type[a])] \/ kids' = kids
  BY <1>1, <1>3 DEF WriteScalars, SetScalars
<1>5. Remain /\ Objects' = Objects /\ OwnTyped' /\ Describes(Q)'
  BY <1>2, <1>4, LocalsKept
<1>6. ScalarsTyped'
  BY <1>2, <1>3, <1>4, <1>5 DEF ScalarsTyped, Typed
<1>7. KidsOfType'
  <2>1. SUFFICES ASSUME NEW o \in Objects, NEW f \in Fields(type[o]), NEW i \in DOMAIN kids'[o][f]
                 PROVE  kids'[o][f][i] \in {kids[o][f][j] : j \in DOMAIN kids[o][f]}
    BY <1>5, KidsStay DEF Owned, Typed
  <2>2. kids'[o] = kids[o] \/ (o = a /\ kids'[o] = Childless(type[a]))
    BY <1>4 DEF Owned, MessagesTyped
  <2>3. kids'[o] # Childless(type[o])
    BY DEF Childless
  <2> QED  BY <2>2, <2>3
<1> QED  BY <1>5, <1>6, <1>7 DEF Typed

(* The messages in each field come from a field of the same type.          *)
LEMMA KidsMoved ==
  ASSUME KidsOfType, UNCHANGED type,
         \A o \in Objects : \A f \in Fields(type[o]) :
           \E p \in Objects : \E g \in Fields(type[p]) :
             kids'[o][f] = kids[p][g] /\ ChildType[f] = ChildType[g]
  PROVE  KidsOfType'
<1>1. SUFFICES ASSUME NEW o \in Objects, NEW f \in Fields(type[o]), NEW i \in DOMAIN kids'[o][f]
               PROVE  type[kids'[o][f][i]] = ChildType[f]
  BY DEF KidsOfType, Objects
<1>2. PICK p \in Objects : \E g \in Fields(type[p]) :
             kids'[o][f] = kids[p][g] /\ ChildType[f] = ChildType[g]
  OBVIOUS
<1>3. PICK g \in Fields(type[p]) : kids'[o][f] = kids[p][g] /\ ChildType[f] = ChildType[g]
  BY <1>2
<1> QED  BY <1>3 DEF KidsOfType

LEMMA SwapMessagesFine ==
  ASSUME Owned, Typed, NEW P, NEW Q, Describes(P), SwapRule(P, I, Q), SwapMessages
  PROVE  Typed' /\ Describes(Q)'
<1>1. PICK a, b : a = reg[I.x] /\ b = reg[I.y]
  OBVIOUS
<1>2. a \in Objects /\ b \in Objects /\ type[a] = type[b] /\ Q = P
  BY <1>1 DEF SwapRule, Describes, InArena
<1>3. /\ UNCHANGED <<type, reg, held>>
      /\ val' = [val EXCEPT ![a] = val[b], ![b] = val[a]]
      /\ kids' = [kids EXCEPT ![a] = kids[b], ![b] = kids[a]]
  BY <1>1 DEF SwapMessages
<1>4. Remain /\ Objects' = Objects /\ OwnTyped' /\ Describes(Q)'
  BY <1>2, <1>3, LocalsKept
<1>5. ScalarsTyped'
  BY <1>2, <1>3, <1>4 DEF ScalarsTyped, Typed
<1>6. KidsOfType'
  <2>1. ASSUME NEW o \in Objects, NEW f \in Fields(type[o])
        PROVE  \E p \in Objects : \E g \in Fields(type[p]) :
                 kids'[o][f] = kids[p][g] /\ ChildType[f] = ChildType[g]
    <3>1. DOMAIN kids = Objects
      BY DEF Owned, MessagesTyped
    <3>2. PICK p \in Objects : kids'[o] = kids[p] /\ type[p] = type[o]
      BY <3>1, <1>2, <1>3
    <3> QED  BY <3>2
  <2> QED  BY <2>1, <1>3, KidsMoved DEF Typed
<1> QED  BY <1>4, <1>5, <1>6 DEF Typed

LEMMA SwapFieldsFine ==
  ASSUME Owned, Typed, NEW P, NEW Q, Describes(P), SwapFieldRule(P, I, Q), SwapFields
  PROVE  Typed' /\ Describes(Q)'
<1>1. PICK a, b, f, g : a = reg[I.o] /\ b = reg[I.p] /\ f = I.f /\ g = I.g
  OBVIOUS
<1>2. /\ a \in Objects /\ b \in Objects /\ f \in Fields(type[a]) /\ g \in Fields(type[b])
      /\ ChildType[f] = ChildType[g] /\ Q = P
  BY <1>1 DEF SwapFieldRule, Describes, InArena
<1>3. PICK k : k = [kids EXCEPT ![a][f] = kids[b][g]]
  OBVIOUS
<1>4. UNCHANGED <<type, val, reg, held>> /\ kids' = [k EXCEPT ![b][g] = kids[a][f]]
  BY <1>1, <1>3 DEF SwapFields, Of
<1>5. Remain /\ Objects' = Objects /\ OwnTyped' /\ Describes(Q)'
  BY <1>2, <1>4, LocalsKept
<1>6. ScalarsTyped'
  BY <1>4, <1>5 DEF ScalarsTyped, Typed
<1>7. /\ DOMAIN k = Objects /\ \A o \in Objects : DOMAIN k[o] = Fields(type[o])
      /\ \A o \in Objects : \A h \in Fields(type[o]) :
           k[o][h] = IF o = a /\ h = f THEN kids[b][g] ELSE kids[o][h]
  <2>1. PICK q : q = kids[b][g]
    OBVIOUS
  <2>2. k = [kids EXCEPT ![a][f] = q] /\ MessagesTyped
    BY <2>1, <1>3 DEF Owned
  <2>3. /\ DOMAIN k = Objects /\ \A o \in Objects : DOMAIN k[o] = Fields(type[o])
        /\ \A o \in Objects : \A h \in Fields(type[o]) :
             k[o][h] = IF o = a /\ h = f THEN q ELSE kids[o][h]
    BY <2>2, <1>2, FieldSet
  <2> QED  BY <2>1, <2>3
<1>8. \A o \in Objects : \A h \in Fields(type[o]) :
        kids'[o][h] = IF o = b /\ h = g THEN kids[a][f] ELSE k[o][h]
  BY <1>2, <1>4, <1>7
<1>9. ASSUME NEW o \in Objects, NEW h \in Fields(type[o])
      PROVE  \E p \in Objects : \E j \in Fields(type[p]) :
               kids'[o][h] = kids[p][j] /\ ChildType[h] = ChildType[j]
  <2>1. CASE o = b /\ h = g
    BY <2>1, <1>2, <1>8
  <2>2. CASE ~(o = b /\ h = g) /\ o = a /\ h = f
    BY <2>2, <1>2, <1>7, <1>8
  <2>3. CASE ~(o = b /\ h = g) /\ ~(o = a /\ h = f)
    BY <2>3, <1>7, <1>8
  <2> QED  BY <2>1, <2>2, <2>3
<1>10. KidsOfType'
  BY <1>4, <1>9, KidsMoved DEF Typed
<1> QED  BY <1>5, <1>6, <1>10 DEF Typed

LEMMA CopyMessageFine ==
  ASSUME Owned, Typed, NEW P, NEW Q, Describes(P), CopyRule(P, I, Q), CopyMessage
  PROVE  Typed' /\ Describes(P)'
<1>1. PICK a, b : a = reg[I.x] /\ b = reg[I.y]
  OBVIOUS
<1>2. a \in Objects /\ b \in Objects /\ type[a] = type[b]
  BY <1>1 DEF CopyRule, Known, Describes, InArena, InHeap
<1>3. UNCHANGED <<type, kids, reg, held>> /\ val' = [val EXCEPT ![b] = val[a]]
  BY <1>1 DEF CopyMessage
<1>4. Remain /\ Objects' = Objects /\ OwnTyped' /\ Describes(P)'
  BY <1>3, LocalsKept
<1>5. ScalarsTyped' /\ KidsOfType'
  BY <1>2, <1>3, <1>4 DEF ScalarsTyped, KidsOfType, Typed
<1> QED  BY <1>4, <1>5 DEF Typed

(* What is left when only the objects S are kept, whose messages are in S. *)
LEMMA KeptTyped ==
  ASSUME Typed, NEW S, S \subseteq Objects,
         type' = Keep(type, S), val' = Keep(val, S), kids' = Keep(kids, S),
         \A o \in S : \A f \in Fields(type[o]) : \A i \in DOMAIN kids[o][f] : kids[o][f][i] \in S
  PROVE  KidsOfType' /\ ScalarsTyped' /\ Objects' = S /\ \A o \in S : type'[o] = type[o]
<1>1. Objects' = S /\ \A o \in S : type'[o] = type[o] /\ kids'[o] = kids[o] /\ val'[o] = val[o]
  BY DEF Keep, Objects
<1>2. KidsOfType'
  BY <1>1 DEF Typed, KidsOfType
<1>3. ScalarsTyped'
  BY <1>1 DEF Typed, ScalarsTyped, Keep
<1> QED  BY <1>1, <1>2, <1>3

LEMMA ResetArenaFine ==
  ASSUME Owned, Typed, NEW P, NEW Q, Describes(P), ResetRule(P, I, Q), ResetArena
  PROVE  Typed' /\ Describes(Q)'
<1>1. /\ type' = Keep(type, OnHeap) /\ val' = Keep(val, OnHeap) /\ kids' = Keep(kids, OnHeap)
      /\ UNCHANGED <<reg, held>>
  BY DEF ResetArena
<1>2. \A o \in OnHeap : \A f \in Fields(type[o]) : \A i \in DOMAIN kids[o][f] :
        kids[o][f][i] \in OnHeap
  BY DEF Owned, MessagesTyped, KidsValid, OnHeap
<1>3. /\ KidsOfType' /\ ScalarsTyped' /\ Objects' = OnHeap
      /\ \A o \in OnHeap : type'[o] = type[o]
  <2>1. OnHeap \subseteq Objects
    BY DEF OnHeap
  <2> QED  BY <2>1, <1>1, <1>2, KeptTyped
<1>4. held = {} /\ Q = Facts({}, P.heap, {}, {})
  BY DEF ResetRule, Describes
<1>5. OwnTyped'
  BY <1>1, <1>4 DEF OwnTyped
<1>6. Describes(Q)'
  <2>1. \A x \in P.heap : InHeap(x)'
    BY <1>1, <1>3 DEF Describes, InHeap, Owned, MessagesTyped, OnHeap
  <2> QED  BY <2>1, <1>1, <1>4, FactsOf DEF Describes
<1> QED  BY <1>3, <1>5, <1>6 DEF Typed

LEMMA LeaveBlockFine ==
  ASSUME Owned, Typed, NEW P, NEW Q, Describes(P), LeaveRule(P, I, Q), LeaveBlock
  PROVE  Typed' /\ Describes(Q)'
<1>1. PICK x : x = I.x
  OBVIOUS
<1>2. /\ type' = Keep(type, OnArena) /\ val' = Keep(val, OnArena) /\ kids' = Keep(kids, OnArena)
      /\ reg' = Keep(reg, {x}) /\ held' = {}
  BY <1>1 DEF LeaveBlock
<1>3. \A o \in OnArena : \A f \in Fields(type[o]) : \A i \in DOMAIN kids[o][f] :
        kids[o][f][i] \in OnArena
  BY DEF Owned, MessagesTyped, KidsValid, OnHeap, OnArena
<1>4. /\ KidsOfType' /\ ScalarsTyped' /\ Objects' = OnArena
      /\ \A o \in OnArena : type'[o] = type[o]
  <2>1. OnArena \subseteq Objects
    BY DEF OnArena
  <2> QED  BY <2>1, <1>2, <1>3, KeptTyped
<1>5. x \in P.arena /\ Q = Facts({x}, {}, {}, {})
  BY <1>1 DEF LeaveRule
<1>6. OwnTyped'
  BY <1>2 DEF OwnTyped
<1>7. Describes(Q)'
  <2>1. InArena(x)
    BY <1>5 DEF Describes
  <2>2. reg'[x] = reg[x] /\ x \in DOMAIN reg' /\ reg[x] \in OnArena
    BY <1>2, <2>1 DEF Keep, InArena, OnArena, OnHeap, Owned, MessagesTyped
  <2>3. InArena(x)'
    BY <2>1, <2>2, <1>4 DEF InArena
  <2> QED  BY <2>3, <1>2, <1>5, FactsOf DEF Describes
<1> QED  BY <1>4, <1>6, <1>7 DEF Typed

(***************************************************************************)
(* A statement that follows the rules keeps the contract.                  *)
(***************************************************************************)
Usable(x) == x \in DOMAIN reg /\ reg[x] \in Objects /\ type[reg[x]] = TypeOf(x)

LEMMA UsableLocals ==
  ASSUME Owned, Typed, NEW P, Describes(P)
  PROVE  /\ \A x \in Known(P) : Usable(x)
         /\ \A x \in P.arena : Usable(x) /\ reg[x] > 0
         /\ \A x \in P.own : Usable(x) /\ x \in held
<1>1. \A x \in P.arena : Usable(x) /\ reg[x] > 0
  BY DEF Describes, InArena, Usable
<1>2. \A x \in Known(P) : Usable(x)
  BY <1>1 DEF Known, Describes, InHeap, Usable
<1>3. \A x \in held : Usable(x)
  BY DEF Owned, Typed, HandsValid, OwnTyped, OnArena, Usable
<1> QED  BY <1>1, <1>2, <1>3 DEF Describes

LEMMA ContractParts ==
  ASSUME Operands(I.op) \subseteq DOMAIN I,
         \A k \in DOMAIN I \cap {"x", "y", "o", "p"} : Usable(I[k]),
         "type" \in DOMAIN I => I.type \in Types,
         "f" \in DOMAIN I => I.f \in Fields(TypeOf(I.o)) /\ "o" \in DOMAIN I,
         "to" \in DOMAIN I => I.to \notin held,
         Fits(I.op)
  PROVE  Contract
<1>1. Used \subseteq DOMAIN reg /\ \A x \in Used : reg[x] \in Objects
  BY DEF Used, Usable
<1>2. "f" \in DOMAIN I => I.f \in FieldsOf(I.o)
  BY DEF FieldsOf, Usable
<1> QED  BY <1>1, <1>2 DEF Contract

LEMMA AllocateKeeps ==
  ASSUME Owned, Typed, NEW P, NEW Q, Describes(P), I.op = "Allocate", AllocateRule(P, I, Q)
  PROVE  Contract
<1>1. DOMAIN I = {"op", "type", "to"}
  BY DEF AllocateRule, Allocate
<1>2. I.type \in Types /\ I.to \notin held /\ Fits(I.op)
  BY PooledAssumption DEF AllocateRule, Describes, Fits
<1> QED  BY <1>1, <1>2, OperandsOf, ContractParts

LEMMA MakeKeeps ==
  ASSUME Owned, Typed, NEW P, NEW Q, Describes(P), I.op = "Make", MakeRule(P, I, Q)
  PROVE  Contract
<1>1. DOMAIN I = {"op", "type", "to", "in_arena"}
  BY DEF MakeRule, Make
<1>2. I.type \in Types /\ I.to \notin held /\ Fits(I.op)
  BY DEF MakeRule, Describes, Fits
<1> QED  BY <1>1, <1>2, OperandsOf, ContractParts

LEMMA MoveKeeps ==
  ASSUME Owned, Typed, NEW P, NEW Q, Describes(P), I.op = "Move", MoveRule(P, I, Q)
  PROVE  Contract
<1>1. DOMAIN I = {"op", "x", "to"}
  BY DEF MoveRule, Move
<1>2. Usable(I.x) /\ I.to \notin held /\ Fits(I.op)
  BY UsableLocals DEF MoveRule, Describes, Fits
<1> QED  BY <1>1, <1>2, OperandsOf, ContractParts

LEMMA DestroyKeeps ==
  ASSUME Owned, Typed, NEW P, NEW Q, Describes(P), I.op = "Destroy", DestroyRule(P, I, Q)
  PROVE  Contract
<1>1. DOMAIN I = {"op", "x"}
  BY DEF DestroyRule, Destroy
<1>2. Usable(I.x) /\ TypeOf(I.x) \in Pooled
  BY UsableLocals DEF DestroyRule
<1>3. Fits(I.op)
  BY <1>2 DEF Fits, Usable
<1> QED  BY <1>1, <1>2, <1>3, OperandsOf, ContractParts

LEMMA TakeKeeps ==
  ASSUME Owned, Typed, NEW P, NEW Q, Describes(P), I.op \in {"Take", "Release"}, TakeRule(P, I, Q)
  PROVE  Contract
<1>1. DOMAIN I = {"op", "o", "f", "to"}
  BY DEF TakeRule, Take, Release
<1>2. /\ Usable(I.o) /\ reg[I.o] > 0 /\ I.f \in Fields(TypeOf(I.o)) /\ I.to \notin held
      /\ I.op = "Take" => ChildType[I.f] \in Pooled
  BY UsableLocals DEF TakeRule, Describes
<1>3. Fits(I.op)
  <2>1. \A i \in DOMAIN Of(I.o, I.f) : type[Of(I.o, I.f)[i]] = ChildType[I.f]
    BY <1>2 DEF Usable, Typed, KidsOfType, Of
  <2> QED  BY <1>2, <2>1 DEF Fits
<1> QED  BY <1>1, <1>2, <1>3, OperandsOf, ContractParts

LEMMA GiveKeeps ==
  ASSUME Owned, Typed, NEW P, NEW Q, Describes(P), I.op = "Give", GiveRule(P, I, Q)
  PROVE  Contract
<1>1. DOMAIN I = {"op", "x", "o", "f"}
  BY DEF GiveRule, Give
<1>2. /\ Usable(I.o) /\ reg[I.o] > 0 /\ I.f \in Fields(TypeOf(I.o))
      /\ Usable(I.x) /\ I.x \in held
  BY UsableLocals DEF GiveRule
<1>3. Fits(I.op)
  BY <1>2 DEF Fits
<1> QED  BY <1>1, <1>2, <1>3, OperandsOf, ContractParts

LEMMA AddKeeps ==
  ASSUME Owned, Typed, NEW P, NEW Q, Describes(P), I.op = "Add", AddRule(P, I, Q)
  PROVE  Contract
<1>1. DOMAIN I = {"op", "o", "f", "type", "to"}
  BY DEF AddRule, Add
<1>2. /\ Usable(I.o) /\ I.f \in Fields(TypeOf(I.o)) /\ I.type \in Types /\ I.to \notin held
  BY UsableLocals DEF AddRule, Describes
<1>3. Fits(I.op)
  BY DEF Fits
<1> QED  BY <1>1, <1>2, <1>3, OperandsOf, ContractParts

LEMMA PointKeeps ==
  ASSUME Owned, Typed, NEW P, NEW Q, Describes(P), I.op = "Point", PointRule(P, I, Q)
  PROVE  Contract
<1>1. DOMAIN I = {"op", "to", "o", "f", "i"}
  BY DEF PointRule, Point
<1>2. /\ Usable(I.o) /\ I.f \in Fields(TypeOf(I.o)) /\ I.to \notin held
  BY UsableLocals DEF PointRule, Describes
<1>3. Fits(I.op)
  BY DEF Fits
<1> QED  BY <1>1, <1>2, <1>3, OperandsOf, ContractParts

LEMMA WriteKeeps ==
  ASSUME Owned, Typed, NEW P, NEW Q, Describes(P), I.op \in {"Write", "Set"}, WriteRule(P, I, Q)
  PROVE  Contract
<1>1. DOMAIN I = {"op", "x", "val"}
  BY DEF WriteRule, Write, Set
<1>2. Usable(I.x)
  BY UsableLocals DEF WriteRule
<1>3. Fits(I.op)
  BY DEF Fits
<1> QED  BY <1>1, <1>2, <1>3, OperandsOf, ContractParts

LEMMA SwapKeeps ==
  ASSUME Owned, Typed, NEW P, NEW Q, Describes(P), I.op = "Swap", SwapRule(P, I, Q)
  PROVE  Contract
<1>1. DOMAIN I = {"op", "x", "y"}
  BY DEF SwapRule, Swap
<1>2. /\ Usable(I.x) /\ reg[I.x] > 0 /\ Usable(I.y) /\ reg[I.y] > 0
      /\ TypeOf(I.x) = TypeOf(I.y)
  BY UsableLocals DEF SwapRule
<1>3. Fits(I.op)
  BY <1>2 DEF Fits, Usable
<1> QED  BY <1>1, <1>2, <1>3, OperandsOf, ContractParts

LEMMA SwapFieldKeeps ==
  ASSUME Owned, Typed, NEW P, NEW Q, Describes(P), I.op = "SwapField", SwapFieldRule(P, I, Q)
  PROVE  Contract
<1>1. DOMAIN I = {"op", "o", "f", "p", "g"}
  BY DEF SwapFieldRule, SwapField
<1>2. /\ Usable(I.o) /\ reg[I.o] > 0 /\ Usable(I.p) /\ reg[I.p] > 0
      /\ I.f \in Fields(TypeOf(I.o)) /\ I.g \in Fields(TypeOf(I.p))
  BY UsableLocals DEF SwapFieldRule
<1>3. Fits(I.op)
  BY <1>2 DEF Fits, Usable, FieldsOf
<1> QED  BY <1>1, <1>2, <1>3, OperandsOf, ContractParts

LEMMA CopyKeeps ==
  ASSUME Owned, Typed, NEW P, NEW Q, Describes(P), I.op \in {"Copy", "Assign"}, CopyRule(P, I, Q)
  PROVE  Contract
<1>1. DOMAIN I = {"op", "x", "y", "depth"}
  BY DEF CopyRule
<1>2. Usable(I.x) /\ Usable(I.y)
  BY UsableLocals DEF CopyRule
<1>3. Fits(I.op)
  BY DEF Fits
<1> QED  BY <1>1, <1>2, <1>3, OperandsOf, ContractParts

LEMMA ResetKeeps ==
  ASSUME Owned, Typed, NEW P, NEW Q, Describes(P), I.op = "Reset", ResetRule(P, I, Q)
  PROVE  Contract
<1>1. DOMAIN I = {"op"}
  BY DEF ResetRule, Reset
<1>2. Fits(I.op) /\ Operands(I.op) = {}
  BY DEF Fits, ResetRule, Describes, Operands
<1> QED  BY <1>1, <1>2, ContractParts

LEMMA LeaveKeeps ==
  ASSUME Owned, Typed, NEW P, NEW Q, Describes(P), I.op = "Leave", LeaveRule(P, I, Q)
  PROVE  Contract
<1>1. DOMAIN I = {"op", "x"}
  BY DEF LeaveRule, Leave
<1>2. Usable(I.x) /\ reg[I.x] > 0
  BY UsableLocals DEF LeaveRule
<1>3. \A x \in held : type[reg[x]] \notin Pooled
  BY DEF LeaveRule, Describes, Typed, OwnTyped
<1>4. Fits(I.op)
  BY <1>2, <1>3 DEF Fits
<1> QED  BY <1>1, <1>2, <1>4, OperandsOf, ContractParts

(* The statements of the evaluator's own. *)
OwnOps ==
  {"Evaluate", "ValueOf", "Operate", "mutable_rvalue", "mutable_tuple_val", "CellOf", "Branch",
   "Output", "mutable_closure_val", "Enter", "AssignParam", "ScheduleBody", "PopTailReturns",
   "BuildFields"}

LEMMA OwnOpsHaveNone ==
  ASSUME NEW op \in OwnOps
  PROVE  Operands(op) = {} /\ Fits(op)
<1> QED  BY DEF OwnOps, Operands, Fits

LEMMA EvaluateKeeps ==
  ASSUME Owned, Typed, NEW P, NEW Q, Describes(P), I.op = "Evaluate", EvaluateRule(P, I, Q)
  PROVE  Contract
<1>1. DOMAIN I = {"op", "x"}
  BY DEF EvaluateRule
<1>2. I.x \in P.arena
  BY FactsOf DEF EvaluateRule, InComp, InExp, InStmt, Ctx
<1>3. Usable(I.x) /\ Operands(I.op) = {} /\ Fits(I.op)
  BY <1>2, UsableLocals, OwnOpsHaveNone DEF OwnOps
<1> QED  BY <1>1, <1>3, ContractParts

LEMMA HandlerKeeps ==
  ASSUME Owned, Typed, NEW A, NEW S, NEW Q, Describes(Ctx(A, S)), I.op \in OwnOps \ {"Evaluate"},
         HandlerRule(A, S, I, Q)
  PROVE  Contract
<1>1. Operands(I.op) = {} /\ Fits(I.op)
  BY OwnOpsHaveNone
<1>2. /\ \A x \in A : Usable(x)
      /\ \A x : x \notin S => x \notin held
  BY UsableLocals, FactsOf DEF Ctx, Known, Describes
<1>3. CASE I.op = "ValueOf"
  <2>1. ValueOfRule(A, S, I, Q)
    BY <1>3 DEF HandlerRule
  <2>2. DOMAIN I = {"op", "x", "to"} /\ I.x \in A /\ I.to \notin S
    BY <2>1 DEF ValueOfRule
  <2> QED  BY <2>2, <1>1, <1>2, ContractParts
<1>4. CASE I.op = "Operate"
  <2>1. OperateRule(A, S, I, Q)
    BY <1>4 DEF HandlerRule
  <2>2. DOMAIN I \in {{"op", "x"}, {"op", "x", "y"}} /\ I.x \in A /\ ("y" \in DOMAIN I => I.y \in A)
    BY <2>1 DEF OperateRule
  <2> QED  BY <2>2, <1>1, <1>2, ContractParts
<1>5. CASE I.op = "mutable_rvalue"
  <2>1. MutableRvalueRule(A, S, I, Q)
    BY <1>5 DEF HandlerRule
  <2>2. DOMAIN I = {"op"}
    BY <2>1 DEF MutableRvalueRule
  <2> QED  BY <2>2, <1>1, ContractParts
<1>6. CASE I.op = "CellOf"
  <2>1. CellOfRule(A, S, I, Q)
    BY <1>6 DEF HandlerRule
  <2>2. DOMAIN I = {"op", "x"} /\ I.x \in A
    BY <2>1 DEF CellOfRule
  <2> QED  BY <2>2, <1>1, <1>2, ContractParts
<1>7. CASE I.op = "Branch"
  <2>1. BranchRule(A, S, I, Q)
    BY <1>7 DEF HandlerRule
  <2>2. DOMAIN I = {"op", "x"} /\ I.x \in A
    BY <2>1 DEF BranchRule
  <2> QED  BY <2>2, <1>1, <1>2, ContractParts
<1>8. CASE I.op = "AssignParam"
  <2>1. AssignParamRule(A, S, I, Q)
    BY <1>8 DEF HandlerRule
  <2>2. DOMAIN I = {"op", "i"}
    BY <2>1 DEF AssignParamRule
  <2> QED  BY <2>2, <1>1, ContractParts
<1>9. CASE I.op = "ScheduleBody"
  <2>1. ScheduleBodyRule(A, S, I, Q)
    BY <1>9 DEF HandlerRule
  <2>2. DOMAIN I = {"op"}
    BY <2>1 DEF ScheduleBodyRule
  <2> QED  BY <2>2, <1>1, ContractParts
<1>10. CASE I.op = "BuildFields"
  <2>1. BuildFieldsRule(A, S, I, Q)
    BY <1>10 DEF HandlerRule
  <2>2. DOMAIN I = {"op", "type", "val", "depth"}
    BY <2>1 DEF BuildFieldsRule
  <2>3. I.type \in Types
    BY <2>1, MessagesAssumption DEF BuildFieldsRule, IsNode, Types, MessageFields
  <2> QED  BY <2>2, <2>3, <1>1, ContractParts
<1>11. CASE I.op \in {"mutable_tuple_val", "Output", "mutable_closure_val", "Enter", "PopTailReturns"}
  <2>1. LookRule(A, S, I, Q)
    BY <1>11 DEF HandlerRule
  <2>2. DOMAIN I = {"op"} \/ (DOMAIN I = {"op", "x"} /\ I.x \in A)
    BY <2>1 DEF LookRule
  <2> QED  BY <2>2, <1>1, <1>2, ContractParts
<1> QED  BY <1>3, <1>4, <1>5, <1>6, <1>7, <1>8, <1>9, <1>10, <1>11 DEF OwnOps

LEMMA RuleKeepsContract ==
  ASSUME Owned, Typed, NEW P, NEW Q, Describes(P), Rule(P, I, Q)
  PROVE  Contract
<1>1. CASE I.op \in {"Allocate", "Make", "Move", "Destroy", "Take", "Release", "Give", "Add"}
  BY <1>1, AllocateKeeps, MakeKeeps, MoveKeeps, DestroyKeeps, TakeKeeps, GiveKeeps, AddKeeps DEF Rule
<1>2. CASE I.op \in {"Point", "Write", "Set", "Swap", "SwapField", "Copy", "Assign", "Reset", "Leave"}
  BY <1>2, PointKeeps, WriteKeeps, SwapKeeps, SwapFieldKeeps, CopyKeeps, ResetKeeps, LeaveKeeps DEF Rule
<1>3. CASE I.op = "Evaluate"
  BY <1>3, EvaluateKeeps DEF Rule
<1>4. CASE I.op \notin {"Allocate", "Make", "Move", "Destroy", "Take", "Release", "Give", "Add",
                        "Point", "Write", "Set", "Swap", "SwapField", "Copy", "Assign", "Reset",
                        "Leave", "Evaluate"}
  <2>1. PICK A, S : P = Ctx(A, S) /\ HandlerRule(A, S, I, Q)
    BY <1>4 DEF Rule
  <2>2. I.op \in OwnOps \ {"Evaluate"}
    <3>1. \/ I.op \in {"ValueOf", "Operate", "mutable_rvalue", "CellOf", "Branch", "AssignParam",
                        "ScheduleBody", "BuildFields"}
          \/ LookRule(A, S, I, Q)
      BY <2>1 DEF HandlerRule
    <3> QED  BY <3>1 DEF LookRule, OwnOps
  <2> QED  BY <2>1, <2>2, HandlerKeeps
<1> QED  BY <1>1, <1>2, <1>3, <1>4

(***************************************************************************)
(* Lists of statements, one by one, and the statements a copy executes.    *)
(***************************************************************************)
LEMMA LeadsTwo ==
  ASSUME NEW G, NEW a, NEW M, NEW b, NEW H, Follows(G, a, M), Follows(M, b, H)
  PROVE  Leads(G, <<a, b>>, H)
<1>1. PICK K : K = [i \in 0 .. 2 |-> IF i = 0 THEN G ELSE IF i = 1 THEN M ELSE H]
  OBVIOUS
<1>2. PICK cs : cs = <<a, b>>
  OBVIOUS
<1>3. /\ cs \in Seq({a, b}) /\ Len(cs) = 2 /\ cs[1] = a /\ cs[2] = b
      /\ K[0] = G /\ K[1] = M /\ K[2] = H
  BY <1>1, <1>2
<1>4. \A i \in 1 .. 2 : Follows(K[i - 1], cs[i], K[i])
  <2> SUFFICES ASSUME NEW i \in 1 .. 2  PROVE Follows(K[i - 1], cs[i], K[i])
    OBVIOUS
  <2>1. (i = 1 /\ i - 1 = 0) \/ (i = 2 /\ i - 1 = 1)
    OBVIOUS
  <2> QED  BY <1>3, <2>1
<1>5. Leads(G, cs, H)
  BY <1>3, <1>4, Weaker DEF Leads
<1> QED  BY <1>2, <1>5

LEMMA LeadsThree ==
  ASSUME NEW G, NEW a, NEW M, NEW b, NEW N, NEW c, NEW H,
         Follows(G, a, M), Follows(M, b, N), Follows(N, c, H)
  PROVE  Leads(G, <<a, b, c>>, H)
<1>1. PICK K : K = [i \in 0 .. 3 |-> IF i = 0 THEN G ELSE IF i = 1 THEN M ELSE IF i = 2 THEN N ELSE H]
  OBVIOUS
<1>2. PICK cs : cs = <<a, b, c>>
  OBVIOUS
<1>3. /\ cs \in Seq({a, b, c}) /\ Len(cs) = 3 /\ cs[1] = a /\ cs[2] = b /\ cs[3] = c
      /\ K[0] = G /\ K[1] = M /\ K[2] = N /\ K[3] = H
  BY <1>1, <1>2
<1>4. \A i \in 1 .. 3 : Follows(K[i - 1], cs[i], K[i])
  <2> SUFFICES ASSUME NEW i \in 1 .. 3  PROVE Follows(K[i - 1], cs[i], K[i])
    OBVIOUS
  <2>1. (i = 1 /\ i - 1 = 0) \/ (i = 2 /\ i - 1 = 1) \/ (i = 3 /\ i - 1 = 2)
    OBVIOUS
  <2> QED  BY <1>3, <2>1
<1>5. Leads(G, cs, H)
  BY <1>3, <1>4, Weaker DEF Leads
<1> QED  BY <1>2, <1>5

LEMMA LeadsFour ==
  ASSUME NEW G, NEW a, NEW M, NEW b, NEW N, NEW c, NEW L, NEW d, NEW H,
         Follows(G, a, M), Follows(M, b, N), Follows(N, c, L), Follows(L, d, H)
  PROVE  Leads(G, <<a, b, c, d>>, H)
<1>1. PICK K : K = [i \in 0 .. 4 |-> IF i = 0 THEN G ELSE IF i = 1 THEN M
                                    ELSE IF i = 2 THEN N ELSE IF i = 3 THEN L ELSE H]
  OBVIOUS
<1>2. PICK cs : cs = <<a, b, c, d>>
  OBVIOUS
<1>3. /\ cs \in Seq({a, b, c, d}) /\ Len(cs) = 4
      /\ cs[1] = a /\ cs[2] = b /\ cs[3] = c /\ cs[4] = d
      /\ K[0] = G /\ K[1] = M /\ K[2] = N /\ K[3] = L /\ K[4] = H
  BY <1>1, <1>2
<1>4. \A i \in 1 .. 4 : Follows(K[i - 1], cs[i], K[i])
  <2> SUFFICES ASSUME NEW i \in 1 .. 4  PROVE Follows(K[i - 1], cs[i], K[i])
    OBVIOUS
  <2>1. (i = 1 /\ i - 1 = 0) \/ (i = 2 /\ i - 1 = 1) \/ (i = 3 /\ i - 1 = 2) \/ (i = 4 /\ i - 1 = 3)
    OBVIOUS
  <2> QED  BY <1>3, <2>1
<1>5. Leads(G, cs, H)
  BY <1>3, <1>4, Weaker DEF Leads
<1> QED  BY <1>2, <1>5

(* The fields of each type of message, and the types of what they hold.    *)
LEMMA SchemaTyped ==
  /\ \A t \in Types : Len(Schema[t]) \in Nat /\ DOMAIN Schema[t] = 1 .. Len(Schema[t])
  /\ \A t \in Types : \A n \in DOMAIN Schema[t] : Schema[t][n] \in Fields(t)
  /\ \A t \in Types : \A f \in Fields(t) : ChildType[f] \in Types
<1>1. /\ Types = {"EvalContext", "LocalContext", "Computation", "Result", "Literal",
                   "Expression", "Statement"}
      /\ Schema = MessageFields
  BY MessagesAssumption DEF Types, MessageFields
<1>2. \A t \in Types : Len(Schema[t]) \in Nat /\ DOMAIN Schema[t] = 1 .. Len(Schema[t])
  <2>1. /\ Len(Schema["EvalContext"]) = 3 /\ DOMAIN Schema["EvalContext"] = 1 .. 3
        /\ Len(Schema["LocalContext"]) = 2 /\ DOMAIN Schema["LocalContext"] = 1 .. 2
        /\ Len(Schema["Computation"]) = 4 /\ DOMAIN Schema["Computation"] = 1 .. 4
        /\ Len(Schema["Result"]) = 1 /\ DOMAIN Schema["Result"] = 1 .. 1
    BY <1>1 DEF MessageFields
  <2>2. /\ Len(Schema["Literal"]) = 2 /\ DOMAIN Schema["Literal"] = 1 .. 2
        /\ Len(Schema["Expression"]) = 10 /\ DOMAIN Schema["Expression"] = 1 .. 10
        /\ Len(Schema["Statement"]) = 11 /\ DOMAIN Schema["Statement"] = 1 .. 11
    BY <1>1 DEF MessageFields
  <2> QED  BY <1>1, <2>1, <2>2
<1>3. \A t \in Types : \A f \in Fields(t) : f \in DOMAIN ChildType
  <2>1. \A t \in Types : \A n \in DOMAIN Schema[t] : Schema[t][n] \in DOMAIN ChildType
    BY <1>1 DEF MessageFields, ChildType
  <2> QED  BY <2>1 DEF Fields
<1>4. \A f \in DOMAIN ChildType : ChildType[f] \in Types
  BY <1>1 DEF ChildType
<1> QED  BY <1>2, <1>3, <1>4 DEF Fields

(***************************************************************************)
(* A deep copy: each child is copied by itself, with locals of its own.    *)
(***************************************************************************)
LEMMA CopyLocals ==
  ASSUME NEW P, NEW Q, CopyRule(P, I, Q), NEW f
  PROVE  /\ I.depth \in Nat /\ I.depth + 1 \in Nat
         /\ Child(f) = <<"child", I.depth, f>> /\ CopyOfChild(f) = <<"copy of", I.depth, f>>
         /\ InCopy(Child(f), I.depth) /\ InCopy(CopyOfChild(f), I.depth)
         /\ ~InCopy(Child(f), I.depth + 1) /\ ~InCopy(CopyOfChild(f), I.depth + 1)
         /\ \A z : InCopy(z, I.depth + 1) => InCopy(z, I.depth)
         /\ Child(f) # CopyOfChild(f)
         /\ TypeOf(Child(f)) = ChildType[f] /\ TypeOf(CopyOfChild(f)) = ChildType[f]
         /\ CopyOfThat(f) = [op |-> I.op, x |-> Child(f), y |-> CopyOfChild(f), depth |-> I.depth + 1]
<1>1. PICK d \in Nat : d = I.depth
  BY DEF CopyRule
<1>2. PICK a, b : a = Child(f) /\ b = CopyOfChild(f)
  OBVIOUS
<1>3. /\ a = <<"child", d, f>> /\ b = <<"copy of", d, f>>
      /\ a[1] = "child" /\ a[2] = d /\ a[3] = f
      /\ b[1] = "copy of" /\ b[2] = d /\ b[3] = f
  BY <1>1, <1>2 DEF Child, CopyOfChild
<1>4. InCopy(a, d) /\ InCopy(b, d) /\ ~InCopy(a, d + 1) /\ ~InCopy(b, d + 1)
  <2>1. d >= d /\ ~(d >= d + 1)
    OBVIOUS
  <2>2. InCopy(a, d) /\ InCopy(b, d)
    BY <1>3, <2>1 DEF InCopy
  <2>3. ~InCopy(a, d + 1)
    BY <1>3, <2>1 DEF InCopy
  <2>4. ~InCopy(b, d + 1)
    BY <1>3, <2>1 DEF InCopy
  <2> QED  BY <2>2, <2>3, <2>4
<1>5. \A z : InCopy(z, d + 1) => InCopy(z, d)
  <2> SUFFICES ASSUME NEW z, InCopy(z, d + 1)  PROVE InCopy(z, d)
    OBVIOUS
  <2>1. PICK e \in Nat : e = z[2] /\ e >= d + 1
    BY DEF InCopy
  <2>2. e >= d
    BY <2>1
  <2> QED  BY <2>1, <2>2 DEF InCopy
<1>6. a # b
  <2>1. "child" # "copy of"
    OBVIOUS
  <2> QED  BY <1>3, <2>1
<1>7. TypeOf(a) = ChildType[f] /\ TypeOf(b) = ChildType[f]
  <2>1. a[1] # "tmp" /\ b[1] # "tmp"
    BY <1>3
  <2> QED  BY <1>3, <2>1 DEF TypeOf
<1>8. CopyOfThat(f) = [op |-> I.op, x |-> a, y |-> b, depth |-> d + 1]
  <2>1. PICK op, x, y, e : op = I.op /\ x = I.x /\ y = I.y /\ e = d + 1
    OBVIOUS
  <2>2. PICK J : J = I
    OBVIOUS
  <2>3. J = [op |-> op, x |-> x, y |-> y, depth |-> d]
    BY <2>1, <2>2, <1>1 DEF CopyRule
  <2>4. PICK R : R = CopyOfThat(f)
    OBVIOUS
  <2>5. R = [J EXCEPT !.x = a, !.y = b, !.depth = J.depth + 1] /\ J.depth = d
    <3>1. R = [I EXCEPT !.x = Child(f), !.y = CopyOfChild(f), !.depth = I.depth + 1]
      BY <2>4 DEF CopyOfThat
    <3>2. R = [I EXCEPT !.x = a, !.y = b, !.depth = I.depth + 1]
      BY <3>1, <1>2
    <3>3. R = [J EXCEPT !.x = a, !.y = b, !.depth = J.depth + 1]
      BY <3>2, <2>2
    <3> QED  BY <3>3, <2>3
  <2>6. R = [J EXCEPT !.x = a, !.y = b, !.depth = e]
    BY <2>1, <2>5
  <2>7. PICK R1 : R1 = [J EXCEPT !.x = a]
    OBVIOUS
  <2>8. R1 = [op |-> op, x |-> a, y |-> y, depth |-> d]
    BY <2>3, <2>7
  <2>9. PICK R2 : R2 = [R1 EXCEPT !.y = b]
    OBVIOUS
  <2>10. R2 = [op |-> op, x |-> a, y |-> b, depth |-> d]
    BY <2>8, <2>9
  <2>11. [R2 EXCEPT !.depth = e] = [op |-> op, x |-> a, y |-> b, depth |-> e]
    BY <2>10
  <2>12. R = [R2 EXCEPT !.depth = e]
    BY <2>6, <2>7, <2>9
  <2> QED  BY <2>1, <2>4, <2>11, <2>12
<1>9. /\ d + 1 \in Nat
      /\ Child(f) = <<"child", d, f>> /\ CopyOfChild(f) = <<"copy of", d, f>>
      /\ CopyOfThat(f) = [op |-> I.op, x |-> Child(f), y |-> CopyOfChild(f), depth |-> d + 1]
  <2>1. d + 1 \in Nat
    OBVIOUS
  <2>2. Child(f) = <<"child", d, f>> /\ CopyOfChild(f) = <<"copy of", d, f>>
    BY <1>2, <1>3
  <2>3. CopyOfThat(f) = [op |-> I.op, x |-> Child(f), y |-> CopyOfChild(f), depth |-> d + 1]
    BY <1>2, <1>8
  <2> QED  BY <2>1, <2>2, <2>3
<1> QED  BY <1>1, <1>2, <1>4, <1>5, <1>6, <1>7, <1>9

LEMMA PointFollows ==
  ASSUME NEW P, NEW x, NEW f, NEW i, NEW to, x \in Known(P), f \in Fields(TypeOf(x)),
         TypeOf(to) = ChildType[f], to \notin P.may
  PROVE  Follows(P, Point(to, x, f, i), Placed(P, x, to))
<1>1. PICK c : c = Point(to, x, f, i)
  OBVIOUS
<1>2. /\ c.op = "Point" /\ c.to = to /\ c.o = x /\ c.f = f /\ c.i = i
  BY <1>1 DEF Point
<1>3. Rule(P, c, Placed(P, x, to))
  BY <1>1, <1>2 DEF Rule, PointRule
<1> QED  BY <1>1, <1>3, Weaker DEF Follows

LEMMA AllocateFollows ==
  ASSUME NEW P, NEW t \in Pooled, NEW to, TypeOf(to) = t, to \notin P.may
  PROVE  Follows(P, Allocate(t, to), Acquired(P, to))
<1>1. PICK c : c = Allocate(t, to)
  OBVIOUS
<1>2. c.op = "Allocate" /\ c.type = t /\ c.to = to
  BY <1>1 DEF Allocate
<1>3. Rule(P, c, Acquired(P, to))
  BY <1>1, <1>2 DEF Rule, AllocateRule
<1> QED  BY <1>1, <1>3, Weaker DEF Follows

LEMMA GiveFollows ==
  ASSUME NEW P, NEW x, NEW o, NEW f, o \in P.arena, x \in P.own, f \in Fields(TypeOf(o)),
         TypeOf(x) = ChildType[f]
  PROVE  Follows(P, Give(x, o, f), Parted(P, x))
<1>1. PICK c : c = Give(x, o, f)
  OBVIOUS
<1>2. c.op = "Give" /\ c.x = x /\ c.o = o /\ c.f = f
  BY <1>1 DEF Give
<1>3. Rule(P, c, Parted(P, x))
  BY <1>1, <1>2 DEF Rule, GiveRule
<1> QED  BY <1>1, <1>3, Weaker DEF Follows

LEMMA AddFollows ==
  ASSUME NEW P, NEW o, NEW f, NEW t \in Types, NEW to, o \in Known(P), f \in Fields(TypeOf(o)),
         t = ChildType[f], TypeOf(to) = t, to \notin P.may
  PROVE  Follows(P, Add(o, f, t, to), Placed(P, o, to))
<1>1. PICK c : c = Add(o, f, t, to)
  OBVIOUS
<1>2. c.op = "Add" /\ c.o = o /\ c.f = f /\ c.type = t /\ c.to = to
  BY <1>1 DEF Add
<1>3. Rule(P, c, Placed(P, o, to))
  BY <1>1, <1>2 DEF Rule, AddRule
<1> QED  BY <1>1, <1>3, Weaker DEF Follows

LEMMA CopyFollows ==
  ASSUME NEW P, NEW c, NEW d \in Nat, NEW op \in {"Copy", "Assign"}, NEW x, NEW y,
         c = [op |-> op, x |-> x, y |-> y, depth |-> d],
         x \in Known(P), y \in Known(P), TypeOf(x) = TypeOf(y), op = "Copy" => y \in P.arena,
         ~InCopy(x, d), ~InCopy(y, d), \A z \in P.may : ~InCopy(z, d)
  PROVE  Follows(P, c, Facts(Without(P.arena, d), Without(P.heap, d), P.own, P.may))
<1>1. c.op = op /\ c.x = x /\ c.y = y /\ c.depth = d
  OBVIOUS
<1>2. CopyRule(P, c, Facts(Without(P.arena, d), Without(P.heap, d), P.own, P.may))
  BY <1>1 DEF CopyRule
<1>3. Rule(P, c, Facts(Without(P.arena, d), Without(P.heap, d), P.own, P.may))
  BY <1>1, <1>2 DEF Rule
<1> QED  BY <1>3, Weaker DEF Follows

(* The copy of one child k of type t, to a child that has a pool.          *)
LEMMA PooledCopyLeads ==
  ASSUME NEW P, NEW Q, CopyRule(P, I, Q), I.op = "Copy", P.own \subseteq P.may,
         NEW f \in Fields(TypeOf(I.x)), NEW i, NEW k, type[k] = ChildType[f], type[k] \in Pooled
  PROVE  Leads(Q, PooledCopy(f, i, k), Q)
<1>1. PICK x, y, d, a, b : x = I.x /\ y = I.y /\ d = I.depth /\ a = Child(f) /\ b = CopyOfChild(f)
  OBVIOUS
<1>2. /\ d \in Nat /\ d + 1 \in Nat
      /\ InCopy(a, d) /\ InCopy(b, d) /\ ~InCopy(a, d + 1) /\ ~InCopy(b, d + 1)
      /\ \A z : InCopy(z, d + 1) => InCopy(z, d)
      /\ a # b /\ TypeOf(a) = ChildType[f] /\ TypeOf(b) = ChildType[f]
      /\ CopyOfThat(f) = [op |-> I.op, x |-> a, y |-> b, depth |-> d + 1]
  BY <1>1, CopyLocals
<1>3. /\ x \in Known(P) /\ y \in P.arena /\ TypeOf(x) = TypeOf(y)
      /\ ~InCopy(x, d) /\ ~InCopy(y, d) /\ \A z \in P.may : ~InCopy(z, d)
      /\ Q.arena = Without(P.arena, d) /\ Q.heap = Without(P.heap, d)
      /\ Q.own = P.own /\ Q.may = P.may
  BY <1>1, FactsOf DEF CopyRule
<1>4. x \in Known(Q) /\ y \in Q.arena /\ a \notin Q.may /\ b \notin Q.may
  BY <1>2, <1>3 DEF Known, Without
<1>5. PICK M : M = Placed(Q, x, a)
  OBVIOUS
<1>6. /\ a \in Known(M) /\ M.own = Q.own /\ M.may = Q.may
      /\ Q.arena \ {a} \subseteq M.arena /\ Q.heap \ {a} \subseteq M.heap
  BY <1>5, FactsOf DEF Placed, Known
<1>7. PICK N : N = Acquired(M, b)
  OBVIOUS
<1>8. /\ N.arena = M.arena \cup {b} /\ N.heap = M.heap \ {b}
      /\ N.own = M.own \cup {b} /\ N.may = M.may \cup {b}
  BY <1>7, FactsOf DEF Acquired
<1>9. PICK L : L = Facts(Without(N.arena, d + 1), Without(N.heap, d + 1), N.own, N.may)
  OBVIOUS
<1>10. /\ L.arena = Without(N.arena, d + 1) /\ L.heap = Without(N.heap, d + 1)
       /\ L.own = N.own /\ L.may = N.may
  BY <1>9, FactsOf
<1>11. Follows(Q, Point(a, x, f, i), M)
  BY <1>1, <1>2, <1>4, <1>5, PointFollows
<1>12. Follows(M, Allocate(type[k], b), N)
  BY <1>2, <1>4, <1>6, <1>7, AllocateFollows
<1>13. Follows(N, CopyOfThat(f), L)
  <2>1. a \in Known(N) /\ b \in N.arena /\ b \in Known(N)
    BY <1>2, <1>6, <1>8 DEF Known
  <2>2. \A z \in N.may : ~InCopy(z, d + 1)
    BY <1>2, <1>3, <1>6, <1>8
  <2> QED  BY <2>1, <2>2, <1>2, <1>9, CopyFollows
<1>14. y \in L.arena /\ b \in L.own
  BY <1>2, <1>3, <1>4, <1>6, <1>8, <1>10 DEF Without
<1>15. Follows(L, Give(b, y, f), Parted(L, b))
  BY <1>1, <1>2, <1>3, <1>14, GiveFollows
<1>16. AtLeast(Parted(L, b), Q)
  <2>1. Q.arena \subseteq L.arena /\ Q.heap \subseteq L.heap
    BY <1>2, <1>3, <1>6, <1>8, <1>10 DEF Without
  <2>2. Q.own \subseteq L.own \ {b} /\ L.may \ {b} \subseteq Q.may
    BY <1>3, <1>4, <1>6, <1>8, <1>10
  <2> QED  BY <2>1, <2>2, FactsOf DEF AtLeast, Parted
<1>17. Leads(Q, PooledCopy(f, i, k), Parted(L, b))
  BY <1>1, <1>11, <1>12, <1>13, <1>15, LeadsFour DEF PooledCopy
<1> QED  BY <1>16, <1>17, Weaker, LeadsWeaker

LEMMA PlainCopyLeads ==
  ASSUME NEW P, NEW Q, CopyRule(P, I, Q), I.op \in {"Copy", "Assign"},
         TypeOf(I.x) \in Types,
         NEW f \in Fields(TypeOf(I.x)), NEW i, NEW k, type[k] = ChildType[f]
  PROVE  Leads(Q, PlainCopy(f, i, k), Q)
<1>1. PICK x, y, d, a, b : x = I.x /\ y = I.y /\ d = I.depth /\ a = Child(f) /\ b = CopyOfChild(f)
  OBVIOUS
<1>2. /\ d \in Nat /\ d + 1 \in Nat
      /\ InCopy(a, d) /\ InCopy(b, d) /\ ~InCopy(a, d + 1) /\ ~InCopy(b, d + 1)
      /\ \A z : InCopy(z, d + 1) => InCopy(z, d)
      /\ a # b /\ TypeOf(a) = ChildType[f] /\ TypeOf(b) = ChildType[f]
      /\ CopyOfThat(f) = [op |-> I.op, x |-> a, y |-> b, depth |-> d + 1]
  BY <1>1, CopyLocals
<1>3. /\ x \in Known(P) /\ y \in Known(P) /\ TypeOf(x) = TypeOf(y)
      /\ I.op = "Copy" => y \in P.arena
      /\ ~InCopy(x, d) /\ ~InCopy(y, d) /\ \A z \in P.may : ~InCopy(z, d)
      /\ Q.arena = Without(P.arena, d) /\ Q.heap = Without(P.heap, d)
      /\ Q.own = P.own /\ Q.may = P.may
  BY <1>1, FactsOf DEF CopyRule
<1>4. /\ x \in Known(Q) /\ y \in Known(Q) /\ a \notin Q.may /\ b \notin Q.may /\ y # a
      /\ I.op = "Copy" => y \in Q.arena
  BY <1>2, <1>3 DEF Known, Without
<1>5. PICK M : M = Placed(Q, x, a)
  OBVIOUS
<1>6. /\ a \in Known(M) /\ M.own = Q.own /\ M.may = Q.may
      /\ Q.arena \ {a} \subseteq M.arena /\ Q.heap \ {a} \subseteq M.heap
  BY <1>5, FactsOf DEF Placed, Known
<1>7. PICK N : N = Placed(M, y, b)
  OBVIOUS
<1>8. /\ N.own = M.own /\ N.may = M.may /\ b \in Known(N)
      /\ M.arena \ {b} \subseteq N.arena /\ M.heap \ {b} \subseteq N.heap
      /\ y \in M.arena => b \in N.arena
  BY <1>7, FactsOf DEF Placed, Known
<1>9. PICK L : L = Facts(Without(N.arena, d + 1), Without(N.heap, d + 1), N.own, N.may)
  OBVIOUS
<1>10. /\ L.arena = Without(N.arena, d + 1) /\ L.heap = Without(N.heap, d + 1)
       /\ L.own = N.own /\ L.may = N.may
  BY <1>9, FactsOf
<1>11. Follows(Q, Point(a, x, f, i), M)
  BY <1>1, <1>2, <1>4, <1>5, PointFollows
<1>12. Follows(M, Add(y, f, type[k], b), N)
  <2>1. y \in Known(M) /\ f \in Fields(TypeOf(y)) /\ type[k] \in Types
    BY <1>1, <1>3, <1>4, <1>6, SchemaTyped DEF Known
  <2> QED  BY <2>1, <1>2, <1>4, <1>6, <1>7, AddFollows
<1>13. Follows(N, CopyOfThat(f), L)
  <2>1. a \in Known(N) /\ b \in Known(N)
    BY <1>2, <1>6, <1>8 DEF Known
  <2>2. \A z \in N.may : ~InCopy(z, d + 1)
    BY <1>2, <1>3, <1>6, <1>8
  <2>3. I.op = "Copy" => b \in N.arena
    BY <1>4, <1>6, <1>8
  <2> QED  BY <2>1, <2>2, <2>3, <1>2, <1>9, CopyFollows
<1>14. AtLeast(L, Q)
  <2>1. Q.arena \subseteq L.arena /\ Q.heap \subseteq L.heap
    BY <1>2, <1>3, <1>6, <1>8, <1>10 DEF Without
  <2>2. Q.own \subseteq L.own /\ L.may \subseteq Q.may
    BY <1>3, <1>4, <1>6, <1>8, <1>10
  <2> QED  BY <2>1, <2>2 DEF AtLeast
<1>15. Leads(Q, PlainCopy(f, i, k), L)
  BY <1>1, <1>11, <1>12, <1>13, LeadsThree DEF PlainCopy
<1> QED  BY <1>14, <1>15, Weaker, LeadsWeaker

LEMMA CopyLeads ==
  ASSUME Owned, Typed, NEW P, NEW Q, Describes(P), I.op \in {"Copy", "Assign"}, CopyRule(P, I, Q)
  PROVE  Leads(P, CopyChildren, Q)
<1>1. PICK x, t : x = I.x /\ t = TypeOf(x)
  OBVIOUS
<1>2. /\ reg[x] \in Objects /\ type[reg[x]] = t /\ t \in Types /\ P.own \subseteq P.may
  <2>1. Usable(x)
    BY <1>1, UsableLocals DEF CopyRule
  <2> QED  BY <2>1, <1>1 DEF Usable, Owned, MessagesTyped, Describes
<1>3. ASSUME NEW f \in Fields(t)  PROVE Leads(Q, CopyOfField(f), Q)
  <2>1. PICK ks \in Seq(Int) : ks = Of(x, f)
    BY <1>2 DEF Owned, MessagesTyped, Of
  <2>2. \A i \in DOMAIN ks : type[ks[i]] = ChildType[f]
    BY <1>2, <2>1 DEF Typed, KidsOfType, Of
  <2>3. PICK F : F = [i \in DOMAIN ks |-> IF I.op = "Copy" /\ type[ks[i]] \in Pooled
                                           THEN PooledCopy(f, i, ks[i]) ELSE PlainCopy(f, i, ks[i])]
    OBVIOUS
  <2>4. CopyOfField(f) = FlattenSeq(F)
    BY <1>1, <2>1, <2>3 DEF CopyOfField
  <2>5. PICK n \in Nat : DOMAIN ks = 1 .. n
    <3>1. Len(ks) \in Nat /\ DOMAIN ks = 1 .. Len(ks)
      BY <2>1
    <3> QED  BY <3>1
  <2>6. \A i \in 1 .. n : Leads(Q, F[i], Q)
    <3> SUFFICES ASSUME NEW i \in 1 .. n  PROVE Leads(Q, F[i], Q)
      OBVIOUS
    <3>1. PICK k : k = ks[i]
      OBVIOUS
    <3>2. type[k] = ChildType[f]
      BY <2>2, <2>5, <3>1
    <3>3. CASE I.op = "Copy" /\ type[k] \in Pooled
      <4>1. F[i] = PooledCopy(f, i, k)
        BY <2>3, <2>5, <3>1, <3>3
      <4>2. Leads(Q, PooledCopy(f, i, k), Q)
        BY <1>1, <1>2, <3>2, <3>3, PooledCopyLeads
      <4> QED  BY <4>1, <4>2
    <3>4. CASE ~(I.op = "Copy" /\ type[k] \in Pooled)
      <4>1. F[i] = PlainCopy(f, i, k)
        BY <2>3, <2>5, <3>1, <3>4
      <4>2. Leads(Q, PlainCopy(f, i, k), Q)
        BY <1>1, <1>2, <3>2, PlainCopyLeads
      <4> QED  BY <4>1, <4>2
    <3> QED  BY <3>3, <3>4
  <2>7. F = [i \in 1 .. n |-> F[i]]
    BY <2>3, <2>5
  <2> QED  BY <2>4, <2>5, <2>6, <2>7, LeadsRounds
<1>4. PICK n \in Nat : n = Len(Schema[t]) /\ DOMAIN Schema[t] = 1 .. n
  BY <1>2, SchemaTyped
<1>5. PICK F : F = [j \in 1 .. n |-> CopyOfField(Schema[t][j])]
  OBVIOUS
<1>6. CopyChildren = FlattenSeq(F)
  BY <1>1, <1>2, <1>4, <1>5 DEF CopyChildren
<1>7. \A j \in 1 .. n : Leads(Q, F[j], Q)
  BY <1>2, <1>3, <1>4, <1>5, SchemaTyped
<1>8. F = [j \in 1 .. n |-> F[j]]
  BY <1>5
<1>9. Leads(Q, CopyChildren, Q)
  BY <1>4, <1>6, <1>7, <1>8, LeadsRounds
<1>10. AtLeast(P, Q)
  BY FactsOf DEF CopyRule, AtLeast, Without
<1> QED  BY <1>9, <1>10, Weaker, LeadsWeaker

(* What is known between two calls: ctx_ is in place, and nothing is owned. *)
Rest == Facts({ctx}, {}, {}, {})

(* What is known now lets the statements left be executed one by one.       *)
Knows == \E G : Describes(G) /\ Leads(G, code, Rest)

LEMMA NextStatement ==
  ASSUME Knows, code # <<>>
  PROVE  \E P, Q : Describes(P) /\ Rule(P, I, Q) /\ Leads(Q, Tail(code), Rest)
<1>1. PICK G : Describes(G) /\ Leads(G, code, Rest)
  BY DEF Knows
<1>2. PICK M : Follows(G, Head(code), M) /\ Leads(M, Tail(code), Rest)
  BY <1>1, LeadsFirst
<1>3. PICK P, Q : AtLeast(G, P) /\ Rule(P, I, Q) /\ AtLeast(Q, M)
  BY <1>2 DEF Follows, I
<1>4. Describes(P)
  BY <1>1, <1>3, DescribesLess
<1>5. Leads(Q, Tail(code), Rest)
  BY <1>2, <1>3, Weaker, LeadsWeaker
<1> QED  BY <1>3, <1>4, <1>5

(* A statement of the memory, and the statements a copy adds.               *)
LEMMA ExecuteKnows ==
  ASSUME Owned, Typed, NEW P, NEW Q, Describes(P), Rule(P, I, Q), Leads(Q, Tail(code), Rest),
         Execute, fault' = "none"
  PROVE  Typed' /\ Knows'
<1>1. SUFFICES \/ Typed' /\ Knows'
               \/ code' = Tail(code) /\ Typed' /\ Describes(Q)'
  <2>1. ASSUME code' = Tail(code), Describes(Q)'  PROVE Knows'
    BY <2>1 DEF Knows
  <2> QED  BY <2>1
<1>2. CASE CreateOnArena \/ RemoveFromPool
  <2>1. I.op = "Allocate" /\ code' = Tail(code)
    BY <1>2 DEF CreateOnArena, RemoveFromPool, At, Continue, I
  <2>2. AllocateRule(P, I, Q)
    BY <2>1 DEF Rule
  <2> QED  BY <1>2, <2>1, <2>2, CreateOnArenaFine, RemoveFromPoolFine
<1>3. CASE MovePoolPtr
  <2>1. I.op = "Move" /\ code' = Tail(code)
    BY <1>3 DEF MovePoolPtr, At, Continue, I
  <2>2. MoveRule(P, I, Q)
    BY <2>1 DEF Rule
  <2> QED  BY <1>3, <2>1, <2>2, MovePoolPtrFine
<1>4. CASE DestroyPoolPtr
  <2>1. I.op = "Destroy" /\ code' = Tail(code)
    BY <1>4 DEF DestroyPoolPtr, At, Continue, I
  <2>2. DestroyRule(P, I, Q)
    BY <2>1 DEF Rule
  <2> QED  BY <1>4, <2>1, <2>2, DestroyPoolPtrFine
<1>5. CASE WrapPoolPtr \/ ReleaseRaw
  <2>1. I.op \in {"Take", "Release"} /\ code' = Tail(code)
    BY <1>5 DEF WrapPoolPtr, ReleaseRaw, At, Continue, I
  <2>2. TakeRule(P, I, Q)
    BY <2>1 DEF Rule
  <2> QED  BY <1>5, <2>1, <2>2, TakeFine
<1>6. CASE ReleaseNothing
  <2>1. fault' \in {"saved_ctx_underflow", "result_underflow"}
    BY <1>6 DEF ReleaseNothing, Fail
  <2> QED  BY <2>1
<1>7. CASE AddAllocated
  <2>1. I.op = "Give" /\ code' = Tail(code)
    BY <1>7 DEF AddAllocated, At, Continue, I
  <2>2. GiveRule(P, I, Q)
    BY <2>1 DEF Rule
  <2> QED  BY <1>7, <2>1, <2>2, AddAllocatedFine
<1>8. CASE AddNew
  <2>1. I.op = "Add" /\ code' = Tail(code)
    BY <1>8 DEF AddNew, At, Continue, I
  <2>2. AddRule(P, I, Q)
    BY <2>1 DEF Rule
  <2> QED  BY <1>8, <2>1, <2>2, AddNewFine
<1>9. CASE MakeMessage
  <2>1. I.op = "Make" /\ code' = Tail(code)
    BY <1>9 DEF MakeMessage, At, Continue, I
  <2>2. MakeRule(P, I, Q)
    BY <2>1 DEF Rule
  <2> QED  BY <1>9, <2>1, <2>2, MakeMessageFine
<1>10. CASE PointInto
  <2>1. I.op = "Point" /\ code' = Tail(code)
    BY <1>10 DEF PointInto, At, Continue, I
  <2>2. PointRule(P, I, Q)
    BY <2>1 DEF Rule
  <2> QED  BY <1>10, <2>1, <2>2, PointIntoFine
<1>11. CASE PointOutside
  <2>1. fault' = "store_out_of_range"
    BY <1>11 DEF PointOutside, Fail
  <2> QED  BY <2>1
<1>12. CASE WriteScalars \/ SetScalars
  <2>1. I.op \in {"Write", "Set"} /\ code' = Tail(code)
    BY <1>12 DEF WriteScalars, SetScalars, At, Continue, I
  <2>2. WriteRule(P, I, Q)
    BY <2>1 DEF Rule
  <2> QED  BY <1>12, <2>1, <2>2, WriteFine
<1>13. CASE SwapMessages
  <2>1. I.op = "Swap" /\ code' = Tail(code)
    BY <1>13 DEF SwapMessages, At, Continue, I
  <2>2. SwapRule(P, I, Q)
    BY <2>1 DEF Rule
  <2> QED  BY <1>13, <2>1, <2>2, SwapMessagesFine
<1>14. CASE SwapFields
  <2>1. I.op = "SwapField" /\ code' = Tail(code)
    BY <1>14 DEF SwapFields, At, Continue, I
  <2>2. SwapFieldRule(P, I, Q)
    BY <2>1 DEF Rule
  <2> QED  BY <1>14, <2>1, <2>2, SwapFieldsFine
<1>15. CASE CopyMessage
  <2>1. I.op \in {"Copy", "Assign"} /\ code' = CopyChildren \o Tail(code)
    BY <1>15 DEF CopyMessage, At, I
  <2>2. CopyRule(P, I, Q)
    BY <2>1 DEF Rule
  <2>3. Typed' /\ Describes(P)'
    BY <1>15, <2>2, CopyMessageFine
  <2>4. Leads(P, CopyChildren, Q)
    BY <2>1, <2>2, CopyLeads
  <2>5. Leads(P, code', Rest)
    BY <2>1, <2>4, LeadsOn
  <2> QED  BY <2>3, <2>5 DEF Knows
<1>16. CASE ResetArena
  <2>1. I.op = "Reset" /\ code' = Tail(code)
    BY <1>16 DEF ResetArena, At, Continue, I
  <2>2. ResetRule(P, I, Q)
    BY <2>1 DEF Rule
  <2> QED  BY <1>16, <2>1, <2>2, ResetArenaFine
<1>17. CASE LeaveBlock
  <2>1. I.op = "Leave" /\ code' = Tail(code)
    BY <1>17 DEF LeaveBlock, At, Continue, I
  <2>2. LeaveRule(P, I, Q)
    BY <2>1 DEF Rule
  <2> QED  BY <1>17, <2>1, <2>2, LeaveBlockFine
<1> QED
  BY <1>2, <1>3, <1>4, <1>5, <1>6, <1>7, <1>8, <1>9, <1>10, <1>11, <1>12, <1>13, <1>14,
     <1>15, <1>16, <1>17 DEF Execute

(* The statements cs instead of one of the evaluator's own.                 *)
LEMMA InsteadKnows ==
  ASSUME Owned, Typed, NEW P, NEW Q, Describes(P), Leads(Q, Tail(code), Rest),
         UNCHANGED <<messages, reg, held>>, NEW cs, code' = cs \o Tail(code), Leads(P, cs, Q)
  PROVE  Typed' /\ Knows'
<1>1. UNCHANGED <<type, val, kids, reg, held>>
  BY DEF messages
<1>2. Describes(P)' /\ OwnTyped' /\ Objects' = Objects
  BY <1>1, LocalsKept
<1>3. KidsOfType' /\ ScalarsTyped'
  BY <1>1, <1>2 DEF Typed, KidsOfType, ScalarsTyped
<1>4. Leads(P, code', Rest)
  BY LeadsOn
<1> QED  BY <1>2, <1>3, <1>4 DEF Typed, Knows

(***************************************************************************)
(* Names, types and fields.                                                *)
(***************************************************************************)
LEMMA LocalNames ==
  /\ \A m : Local(m)[1] = m
  /\ \A m, n : Local(m) = Local(n) => m = n
<1>1. \A m : Local(m)[1] = m
  BY DEF Local
<1> QED  BY <1>1

LEMMA LocalTypes ==
  ASSUME NEW n \in DOMAIN Declared
  PROVE  TypeOf(Local(n)) = Declared[n]
<1>1. n \notin {"tmp", "child", "copy of", "node"}
  BY DEF Declared
<1> QED  BY <1>1, LocalNames DEF TypeOf

LEMMA DeclaredTypes ==
  /\ TypeOf(ctx) = "EvalContext" /\ TypeOf(Local("ctx_cpy")) = "EvalContext"
  /\ TypeOf(cur) = "LocalContext" /\ TypeOf(Local("fresh")) = "LocalContext"
  /\ TypeOf(Local("old_ctx")) = "LocalContext"
  /\ TypeOf(cur_comp) = "Computation" /\ TypeOf(new) = "Computation"
  /\ TypeOf(fnl) = "Computation" /\ TypeOf(Local("if_comp")) = "Computation"
  /\ TypeOf(Local("else_comp")) = "Computation" /\ TypeOf(Local("comp")) = "Computation"
  /\ TypeOf(Local("tail")) = "Computation"
  /\ TypeOf(exp) = "Expression" /\ TypeOf(Local("cond_cpy")) = "Expression"
  /\ TypeOf(Local("cond")) = "Expression"
  /\ TypeOf(stmt) = "Statement" /\ TypeOf(Local("dst")) = "Statement"
  /\ TypeOf(Local("s")) = "Statement" /\ TypeOf(Local("while_stmt")) = "Statement"
  /\ TypeOf(res) = "Result" /\ TypeOf(popped) = "Result"
  /\ TypeOf(lit) = "Literal" /\ TypeOf(func_val) = "Literal"
  /\ \A n \in {"cell", "lhs", "rhs", "elem_val", "arg", "value", "arg_v", "cond_val", "v",
               "rhs_val", "return_val"} : TypeOf(Local(n)) = "Literal"
<1>1. /\ TypeOf(ctx) = "EvalContext" /\ TypeOf(Local("ctx_cpy")) = "EvalContext"
      /\ TypeOf(cur) = "LocalContext" /\ TypeOf(Local("fresh")) = "LocalContext"
      /\ TypeOf(Local("old_ctx")) = "LocalContext"
  BY LocalTypes DEF Declared, ctx, cur
<1>2. /\ TypeOf(cur_comp) = "Computation" /\ TypeOf(new) = "Computation"
      /\ TypeOf(fnl) = "Computation" /\ TypeOf(Local("if_comp")) = "Computation"
      /\ TypeOf(Local("else_comp")) = "Computation" /\ TypeOf(Local("comp")) = "Computation"
      /\ TypeOf(Local("tail")) = "Computation"
  BY LocalTypes DEF Declared, cur_comp, new, fnl
<1>3. /\ TypeOf(exp) = "Expression" /\ TypeOf(Local("cond_cpy")) = "Expression"
      /\ TypeOf(Local("cond")) = "Expression"
      /\ TypeOf(stmt) = "Statement" /\ TypeOf(Local("dst")) = "Statement"
      /\ TypeOf(Local("s")) = "Statement" /\ TypeOf(Local("while_stmt")) = "Statement"
  BY LocalTypes DEF Declared, exp, stmt
<1>4. /\ TypeOf(res) = "Result" /\ TypeOf(popped) = "Result"
      /\ TypeOf(lit) = "Literal" /\ TypeOf(func_val) = "Literal"
  BY LocalTypes DEF Declared, res, popped, lit, func_val
<1>5. \A n \in {"cell", "lhs", "rhs", "elem_val", "arg", "value", "arg_v", "cond_val", "v",
               "rhs_val", "return_val"} : TypeOf(Local(n)) = "Literal"
  BY LocalTypes DEF Declared
<1> QED  BY <1>1, <1>2, <1>3, <1>4, <1>5

LEMMA NumberedTypes ==
  ASSUME NEW i
  PROVE  /\ TypeOf(arg(i)) = "Literal" /\ arg(i)[1] = "arg_results" /\ arg(i)[2] = i
         /\ TypeOf(<<"es", i>>) = "Expression" /\ <<"es", i>>[1] = "es" /\ <<"es", i>>[2] = i
         /\ TypeOf(<<"reversed_comps", i>>) = "Computation"
         /\ <<"reversed_comps", i>>[1] = "reversed_comps" /\ <<"reversed_comps", i>>[2] = i
<1>1. TypeOf(arg(i)) = "Literal" /\ arg(i)[1] = "arg_results" /\ arg(i)[2] = i
  BY DEF TypeOf, arg, Declared
<1>2. TypeOf(<<"es", i>>) = "Expression" /\ <<"es", i>>[1] = "es" /\ <<"es", i>>[2] = i
  BY DEF TypeOf, Declared
<1>3. /\ TypeOf(<<"reversed_comps", i>>) = "Computation"
      /\ <<"reversed_comps", i>>[1] = "reversed_comps" /\ <<"reversed_comps", i>>[2] = i
  BY DEF TypeOf, Declared
<1> QED  BY <1>1, <1>2, <1>3

LEMMA TemporaryTypes ==
  ASSUME NEW f
  PROVE  TypeOf(tmp(f)) = ChildType[f] /\ tmp(f)[1] = "tmp" /\ tmp(f)[2] = f
BY DEF TypeOf, tmp

LEMMA NodeTypes ==
  ASSUME NEW t, NEW d
  PROVE  TypeOf(node(t, d)) = t /\ node(t, d)[1] = "node"
BY DEF TypeOf, node

LEMMA FieldSets ==
  /\ Fields("EvalContext") = {"store", "cur_ctx", "saved_ctx"}
  /\ Fields("LocalContext") = {"comp", "result"}
  /\ Fields("Computation") = {"exp", "stmt", "if_case", "else_case"}
  /\ Fields("Result") = {"rvalue"}
  /\ Fields("Literal") = {"body", "elem"}
  /\ Fields("Expression") = {"lit_exp", "func", "arg", "exp", "lhs", "rhs", "if_exp", "cond_exp",
                             "else_exp", "body"}
  /\ Fields("Statement") = {"exp_stmt", "lhs", "rhs", "ret_stmt", "print_stmt", "init", "cond",
                            "inc", "if_stmts", "else_stmts", "body"}
<1>1. Schema = MessageFields
  BY MessagesAssumption
<1>2. /\ Fields("EvalContext") = {"store", "cur_ctx", "saved_ctx"}
      /\ Fields("LocalContext") = {"comp", "result"}
  BY <1>1 DEF Fields, MessageFields
<1>3. Fields("Computation") = {"exp", "stmt", "if_case", "else_case"}
  BY <1>1 DEF Fields, MessageFields
<1>4. Fields("Result") = {"rvalue"} /\ Fields("Literal") = {"body", "elem"}
  BY <1>1 DEF Fields, MessageFields
<1>5. Fields("Expression") = {"lit_exp", "func", "arg", "exp", "lhs", "rhs", "if_exp", "cond_exp",
                              "else_exp", "body"}
  <2>1. /\ DOMAIN Schema["Expression"] = 1 .. 10
        /\ Schema["Expression"][1] = "lit_exp" /\ Schema["Expression"][2] = "func"
        /\ Schema["Expression"][3] = "arg" /\ Schema["Expression"][4] = "exp"
        /\ Schema["Expression"][5] = "lhs" /\ Schema["Expression"][6] = "rhs"
        /\ Schema["Expression"][7] = "if_exp" /\ Schema["Expression"][8] = "cond_exp"
        /\ Schema["Expression"][9] = "else_exp" /\ Schema["Expression"][10] = "body"
    BY <1>1 DEF MessageFields
  <2> QED  BY <2>1 DEF Fields
<1>6. Fields("Statement") = {"exp_stmt", "lhs", "rhs", "ret_stmt", "print_stmt", "init", "cond",
                             "inc", "if_stmts", "else_stmts", "body"}
  <2>1. /\ DOMAIN Schema["Statement"] = 1 .. 11
        /\ Schema["Statement"][1] = "exp_stmt" /\ Schema["Statement"][2] = "lhs"
        /\ Schema["Statement"][3] = "rhs" /\ Schema["Statement"][4] = "ret_stmt"
        /\ Schema["Statement"][5] = "print_stmt" /\ Schema["Statement"][6] = "init"
        /\ Schema["Statement"][7] = "cond" /\ Schema["Statement"][8] = "inc"
        /\ Schema["Statement"][9] = "if_stmts" /\ Schema["Statement"][10] = "else_stmts"
        /\ Schema["Statement"][11] = "body"
    BY <1>1 DEF MessageFields
  <2> QED  BY <2>1 DEF Fields
<1> QED  BY <1>2, <1>3, <1>4, <1>5, <1>6

LEMMA PooledTypes ==
  /\ Pooled = {"Result", "LocalContext", "Literal", "Computation", "Expression"}
  /\ Types = {"EvalContext", "LocalContext", "Computation", "Result", "Literal",
              "Expression", "Statement"}
BY MessagesAssumption DEF PoolTuple, Types, MessageFields

(***************************************************************************)
(* The statements in a handler: A on the arena, and S of them owned.       *)
(***************************************************************************)
LEMMA CtxOf ==
  ASSUME NEW A, NEW S
  PROVE  /\ Ctx(A, S).arena = A /\ Ctx(A, S).heap = {}
         /\ Ctx(A, S).own = S /\ Ctx(A, S).may = S
         /\ Known(Ctx(A, S)) = A
BY FactsOf DEF Ctx, Known

LEMMA CtxLess ==
  ASSUME NEW A, NEW S, NEW B, B \subseteq A
  PROVE  AtLeast(Ctx(A, S), Ctx(B, S))
BY CtxOf DEF AtLeast

LEMMA AcquiredIn ==
  ASSUME NEW A, NEW S, NEW x, NEW B, NEW T, B \subseteq A \cup {x}, T = S \cup {x}
  PROVE  AtLeast(Acquired(Ctx(A, S), x), Ctx(B, T))
<1>1. PICK P : P = Ctx(A, S)
  OBVIOUS
<1>2. P.arena = A /\ P.heap = {} /\ P.own = S /\ P.may = S
  BY <1>1, CtxOf
<1>3. /\ Acquired(P, x).arena = A \cup {x} /\ Acquired(P, x).own = S \cup {x}
      /\ Acquired(P, x).may = S \cup {x}
  BY <1>2, FactsOf DEF Acquired
<1> QED  BY <1>1, <1>3, CtxOf DEF AtLeast

LEMMA PartedIn ==
  ASSUME NEW A, NEW S, NEW x, NEW B, NEW T, B \subseteq A, T = S \ {x}
  PROVE  AtLeast(Parted(Ctx(A, S), x), Ctx(B, T))
<1>1. PICK P : P = Ctx(A, S)
  OBVIOUS
<1>2. P.arena = A /\ P.heap = {} /\ P.own = S /\ P.may = S
  BY <1>1, CtxOf
<1>3. /\ Parted(P, x).arena = A /\ Parted(P, x).own = S \ {x}
      /\ Parted(P, x).may = S \ {x}
  BY <1>2, FactsOf DEF Parted
<1> QED  BY <1>1, <1>3, CtxOf DEF AtLeast

LEMMA PlacedIn ==
  ASSUME NEW A, NEW S, NEW o \in A, NEW x, NEW B, B \subseteq A \cup {x}
  PROVE  AtLeast(Placed(Ctx(A, S), o, x), Ctx(B, S))
<1>1. PICK P : P = Ctx(A, S)
  OBVIOUS
<1>2. P.arena = A /\ P.heap = {} /\ P.own = S /\ P.may = S
  BY <1>1, CtxOf
<1>3. /\ Placed(P, o, x).arena = A \cup {x} /\ Placed(P, o, x).own = S
      /\ Placed(P, o, x).may = S
  BY <1>2, FactsOf DEF Placed
<1> QED  BY <1>1, <1>3, CtxOf DEF AtLeast

LEMMA AllocateIn ==
  ASSUME NEW A, NEW S, NEW t \in Pooled, NEW to, TypeOf(to) = t, to \notin S,
         NEW B, NEW T, B \subseteq A \cup {to}, T = S \cup {to}
  PROVE  Follows(Ctx(A, S), Allocate(t, to), Ctx(B, T))
<1>1. Follows(Ctx(A, S), Allocate(t, to), Acquired(Ctx(A, S), to))
  BY CtxOf, AllocateFollows
<1> QED  BY <1>1, AcquiredIn, Weaker, FollowsWeaker

LEMMA TakeIn ==
  ASSUME NEW A, NEW S, NEW o \in A, NEW f \in Fields(TypeOf(o)), NEW to,
         TypeOf(to) = ChildType[f], to \notin S,
         NEW B, NEW T, B \subseteq A \cup {to}, T = S \cup {to}
  PROVE  /\ Follows(Ctx(A, S), Release(o, f, to), Ctx(B, T))
         /\ ChildType[f] \in Pooled => Follows(Ctx(A, S), Take(o, f, to), Ctx(B, T))
<1>1. PICK P : P = Ctx(A, S)
  OBVIOUS
<1>2. ASSUME NEW c \in {Take(o, f, to), Release(o, f, to)},
             c.op = "Take" => ChildType[f] \in Pooled
      PROVE  Follows(P, c, Ctx(B, T))
  <2>1. c.op \in {"Take", "Release"} /\ c.o = o /\ c.f = f /\ c.to = to
    BY <1>2 DEF Take, Release
  <2>2. PICK Q : Q = Acquired(P, to)
    OBVIOUS
  <2>3. TakeRule(P, c, Q)
    BY <1>1, <1>2, <2>1, <2>2, CtxOf DEF TakeRule
  <2>4. Rule(P, c, Q)
    BY <2>1, <2>3 DEF Rule
  <2>5. AtLeast(Q, Ctx(B, T))
    BY <1>1, <2>2, AcquiredIn
  <2> QED  BY <2>4, <2>5, Weaker DEF Follows
<1>3. Release(o, f, to).op # "Take"
  BY DEF Release
<1> QED  BY <1>1, <1>2, <1>3

LEMMA GiveIn ==
  ASSUME NEW A, NEW S, NEW x \in S, NEW o \in A, NEW f \in Fields(TypeOf(o)), TypeOf(x) = ChildType[f],
         NEW B, NEW T, B \subseteq A, T = S \ {x}
  PROVE  Follows(Ctx(A, S), Give(x, o, f), Ctx(B, T))
<1>1. Follows(Ctx(A, S), Give(x, o, f), Parted(Ctx(A, S), x))
  BY CtxOf, GiveFollows
<1> QED  BY <1>1, PartedIn, Weaker, FollowsWeaker

LEMMA DestroyIn ==
  ASSUME NEW A, NEW S, NEW x \in A, TypeOf(x) \in Pooled,
         NEW B, NEW T, B \subseteq A, T = S \ {x}
  PROVE  Follows(Ctx(A, S), Destroy(x), Ctx(B, T))
<1>1. PICK c : c = Destroy(x)
  OBVIOUS
<1>2. c.op = "Destroy" /\ c.x = x
  BY <1>1 DEF Destroy
<1>3. PICK P, Q : P = Ctx(A, S) /\ Q = Parted(P, x)
  OBVIOUS
<1>4. DestroyRule(P, c, Q)
  BY <1>1, <1>2, <1>3, CtxOf DEF DestroyRule
<1>5. Rule(P, c, Q)
  BY <1>2, <1>4 DEF Rule
<1>6. AtLeast(Q, Ctx(B, T))
  BY <1>3, PartedIn
<1> QED  BY <1>1, <1>3, <1>5, <1>6, Weaker DEF Follows

LEMMA MoveIn ==
  ASSUME NEW A, NEW S, NEW x \in S, NEW to, TypeOf(x) = TypeOf(to), to \notin S,
         NEW B, NEW T, B \subseteq A \cup {to}, T = (S \ {x}) \cup {to}
  PROVE  Follows(Ctx(A, S), Move(x, to), Ctx(B, T))
<1>1. PICK c : c = Move(x, to)
  OBVIOUS
<1>2. c.op = "Move" /\ c.x = x /\ c.to = to
  BY <1>1 DEF Move
<1>3. PICK P, Q, M : P = Ctx(A, S) /\ M = Parted(P, x) /\ Q = Acquired(M, to)
  OBVIOUS
<1>4. MoveRule(P, c, Q)
  BY <1>1, <1>2, <1>3, CtxOf DEF MoveRule
<1>5. Rule(P, c, Q)
  BY <1>2, <1>4 DEF Rule
<1>6. AtLeast(Q, Ctx(B, T))
  <2>1. P.arena = A /\ P.heap = {} /\ P.own = S /\ P.may = S
    BY <1>3, CtxOf
  <2>2. M.arena = A /\ M.own = S \ {x} /\ M.may = S \ {x}
    BY <1>3, <2>1, FactsOf DEF Parted
  <2>3. Q.arena = A \cup {to} /\ Q.own = T /\ Q.may = T
    BY <1>3, <2>2, FactsOf DEF Acquired
  <2> QED  BY <2>3, CtxOf DEF AtLeast
<1> QED  BY <1>1, <1>3, <1>5, <1>6, Weaker DEF Follows

LEMMA AddIn ==
  ASSUME NEW A, NEW S, NEW o \in A, NEW f \in Fields(TypeOf(o)), NEW t \in Types, NEW to,
         t = ChildType[f], TypeOf(to) = t, to \notin S, NEW B, B \subseteq A \cup {to}
  PROVE  Follows(Ctx(A, S), Add(o, f, t, to), Ctx(B, S))
<1>1. Follows(Ctx(A, S), Add(o, f, t, to), Placed(Ctx(A, S), o, to))
  BY CtxOf, AddFollows
<1> QED  BY <1>1, PlacedIn, Weaker, FollowsWeaker

LEMMA PointIn ==
  ASSUME NEW A, NEW S, NEW o \in A, NEW f \in Fields(TypeOf(o)), NEW i, NEW to,
         TypeOf(to) = ChildType[f], to \notin S, NEW B, B \subseteq A \cup {to}
  PROVE  Follows(Ctx(A, S), Point(to, o, f, i), Ctx(B, S))
<1>1. Follows(Ctx(A, S), Point(to, o, f, i), Placed(Ctx(A, S), o, to))
  BY CtxOf, PointFollows
<1> QED  BY <1>1, PlacedIn, Weaker, FollowsWeaker

LEMMA WriteIn ==
  ASSUME NEW A, NEW S, NEW x \in A, NEW v, TypeOf(x) = "Computation" => Counted(v)
  PROVE  /\ Follows(Ctx(A, S), Write(x, v), Ctx(A, S))
         /\ Follows(Ctx(A, S), Set(x, v), Ctx(A, S))
<1>1. ASSUME NEW c \in {Write(x, v), Set(x, v)}  PROVE Follows(Ctx(A, S), c, Ctx(A, S))
  <2>1. c \in {Write(x, v), Set(x, v)}
    OBVIOUS
  <2>2. c.op \in {"Write", "Set"} /\ c.x = x /\ c.val = v
    BY <2>1 DEF Write, Set
  <2>3. PICK P : P = Ctx(A, S)
    OBVIOUS
  <2>4. WriteRule(P, c, P)
    BY <2>1, <2>2, <2>3, CtxOf DEF WriteRule
  <2>5. Rule(P, c, P)
    BY <2>2, <2>4 DEF Rule
  <2> QED  BY <2>3, <2>5, Weaker DEF Follows
<1> QED  BY <1>1

LEMMA SwapIn ==
  ASSUME NEW A, NEW S, NEW x \in A, NEW y \in A, TypeOf(x) = TypeOf(y)
  PROVE  Follows(Ctx(A, S), Swap(x, y), Ctx(A, S))
<1>1. PICK c : c = Swap(x, y)
  OBVIOUS
<1>2. c.op = "Swap" /\ c.x = x /\ c.y = y
  BY <1>1 DEF Swap
<1>3. PICK P : P = Ctx(A, S)
  OBVIOUS
<1>4. SwapRule(P, c, P)
  BY <1>1, <1>2, <1>3, CtxOf DEF SwapRule
<1>5. Rule(P, c, P)
  BY <1>2, <1>4 DEF Rule
<1> QED  BY <1>1, <1>3, <1>5, Weaker DEF Follows

LEMMA SwapFieldIn ==
  ASSUME NEW A, NEW S, NEW o \in A, NEW f \in Fields(TypeOf(o)), NEW p \in A,
         NEW g \in Fields(TypeOf(p)), ChildType[f] = ChildType[g]
  PROVE  Follows(Ctx(A, S), SwapField(o, f, p, g), Ctx(A, S))
<1>1. PICK c : c = SwapField(o, f, p, g)
  OBVIOUS
<1>2. c.op = "SwapField" /\ c.o = o /\ c.f = f /\ c.p = p /\ c.g = g
  BY <1>1 DEF SwapField
<1>3. PICK P : P = Ctx(A, S)
  OBVIOUS
<1>4. SwapFieldRule(P, c, P)
  BY <1>1, <1>2, <1>3, CtxOf DEF SwapFieldRule
<1>5. Rule(P, c, P)
  BY <1>2, <1>4 DEF Rule
<1> QED  BY <1>1, <1>3, <1>5, Weaker DEF Follows

LEMMA CopyIn ==
  ASSUME NEW A, NEW S, NoCopies(A), NoCopies(S), NEW x \in A, NEW y \in A, TypeOf(x) = TypeOf(y)
  PROVE  Follows(Ctx(A, S), Copy(x, y), Ctx(A, S))
<1>1. PICK c : c = Copy(x, y)
  OBVIOUS
<1>2. c = [op |-> "Copy", x |-> x, y |-> y, depth |-> 0]
  BY <1>1 DEF Copy
<1>3. \A z \in A \cup S : ~InCopy(z, 0)
  BY DEF NoCopies, InCopy
<1>4. PICK P : P = Ctx(A, S)
  OBVIOUS
<1>5. Follows(P, c, Facts(Without(P.arena, 0), Without(P.heap, 0), P.own, P.may))
  <2>1. x \in Known(P) /\ y \in Known(P) /\ y \in P.arena /\ \A z \in P.may : ~InCopy(z, 0)
    BY <1>3, <1>4, CtxOf
  <2>2. 0 \in Nat /\ "Copy" \in {"Copy", "Assign"} /\ ~InCopy(x, 0) /\ ~InCopy(y, 0)
    BY <1>3
  <2> QED  BY <2>1, <2>2, <1>2, CopyFollows
<1>6. Without(P.arena, 0) = A /\ Without(P.heap, 0) = {}
  BY <1>3, <1>4, CtxOf DEF Without
<1> QED  BY <1>1, <1>4, <1>5, <1>6, CtxOf DEF Ctx

(* The evaluator's own statements.                                         *)
LEMMA OwnStatement ==
  ASSUME NEW A, NEW S, NEW c, NEW Q, HandlerRule(A, S, c, Q), c.op \in OwnOps \ {"Evaluate"}
  PROVE  Follows(Ctx(A, S), c, Q)
<1>1. c.op \notin {"Allocate", "Make", "Move", "Destroy", "Take", "Release", "Give", "Add",
                   "Point", "Write", "Set", "Swap", "SwapField", "Copy", "Assign", "Reset",
                   "Leave", "Evaluate"}
  BY DEF OwnOps
<1>2. Rule(Ctx(A, S), c, Q)
  BY <1>1 DEF Rule
<1> QED  BY <1>2, Weaker DEF Follows

(***************************************************************************)
(* What the helpers of the evaluator execute.                              *)
(***************************************************************************)
LEMMA CaseCounted ==
  \A c \in {"exp", "stmt", "if_else_final", "ignore_one_result", "assign_stmt_final",
            "return_from_ctx", "print_final"} : Counted(Case(c))
BY DEF Counted, Case

LEMMA NoCopiesOf ==
  /\ \A A, B : NoCopies(A) /\ NoCopies(B) <=> NoCopies(A \cup B)
  /\ \A n : n \notin {"child", "copy of"} => NoCopies({Local(n)})
  /\ \A A, B : NoCopies(A) /\ B \subseteq A => NoCopies(B)
<1>1. \A n : n \notin {"child", "copy of"} => NoCopies({Local(n)})
  BY LocalNames DEF NoCopies
<1> QED  BY <1>1 DEF NoCopies

LEMMA TransferLeads ==
  ASSUME NEW A, NEW S, NEW o \in A, NEW f \in Fields(TypeOf(o)), NEW p \in A,
         NEW g \in Fields(TypeOf(p)), ChildType[f] = ChildType[g], tmp(f) \notin S
  PROVE  Leads(Ctx(A, S), Transfer(o, f, p, g), Ctx(A, S))
<1>1. PICK x : x = tmp(f)
  OBVIOUS
<1>2. PICK B, T : B = A \cup {x} /\ T = S \cup {x}
  OBVIOUS
<1>3. TypeOf(x) = ChildType[f]
  BY <1>1, TemporaryTypes
<1>4. Follows(Ctx(A, S), Release(o, f, x), Ctx(B, T))
  BY <1>1, <1>2, <1>3, TakeIn
<1>5. Follows(Ctx(B, T), Give(x, p, g), Ctx(A, S))
  <2>1. x \in T /\ p \in B /\ A \subseteq B /\ S = T \ {x}
    BY <1>1, <1>2
  <2> QED  BY <2>1, <1>3, GiveIn
<1> QED  BY <1>1, <1>4, <1>5, LeadsTwo DEF Transfer

LEMMA ScheduleAsLeads ==
  ASSUME NEW A, NEW S, NEW x, NEW v, cur \in A, x \notin S, TypeOf(x) = "Computation", Counted(v),
         NEW B, B \subseteq A \cup {x}
  PROVE  Leads(Ctx(A, S), ScheduleAs(x, v), Ctx(B, S))
<1>1. PICK C, T : C = A \cup {x} /\ T = S \cup {x}
  OBVIOUS
<1>2. Follows(Ctx(A, S), Allocate("Computation", x), Ctx(C, T))
  BY <1>1, PooledTypes, AllocateIn
<1>3. Follows(Ctx(C, T), Give(x, cur, "comp"), Ctx(C, S))
  <2>1. x \in T /\ cur \in C /\ S = T \ {x}
    BY <1>1
  <2>2. "comp" \in Fields(TypeOf(cur)) /\ TypeOf(x) = ChildType["comp"]
    BY DeclaredTypes, FieldSets DEF ChildType
  <2> QED  BY <2>1, <2>2, GiveIn
<1>4. Follows(Ctx(C, S), Write(x, v), Ctx(B, S))
  <2>1. x \in C /\ AtLeast(Ctx(C, S), Ctx(B, S))
    BY <1>1, CtxLess
  <2> QED  BY <2>1, WriteIn, Weaker, FollowsWeaker
<1> QED  BY <1>2, <1>3, <1>4, LeadsThree DEF ScheduleAs

LEMMA ScheduleLeads ==
  ASSUME NEW A, NEW S, NEW v, cur \in A, new \notin S, Counted(v), NEW B, B \subseteq A \cup {new}
  PROVE  Leads(Ctx(A, S), Schedule(v), Ctx(B, S))
BY ScheduleAsLeads, DeclaredTypes DEF Schedule

LEMMA ScheduleExpLeads ==
  ASSUME NEW A, NEW S, NEW o \in A, NEW f \in Fields(TypeOf(o)), cur \in A, new \notin S,
         tmp(f) \notin S, ChildType[f] = "Expression", NEW B, B \subseteq A \cup {new}
  PROVE  Leads(Ctx(A, S), ScheduleExp(o, f), Ctx(B, S))
<1>1. PICK C : C = A \cup {new}
  OBVIOUS
<1>2. Leads(Ctx(A, S), Schedule(Case("exp")), Ctx(C, S))
  BY <1>1, CaseCounted, ScheduleLeads
<1>3. Leads(Ctx(C, S), Transfer(o, f, new, "exp"), Ctx(C, S))
  <2>1. o \in C /\ new \in C
    BY <1>1
  <2>2. "exp" \in Fields(TypeOf(new)) /\ ChildType[f] = ChildType["exp"]
    BY DeclaredTypes, FieldSets DEF ChildType
  <2> QED  BY <2>1, <2>2, TransferLeads
<1>4. Leads(Ctx(A, S), ScheduleExp(o, f), Ctx(C, S))
  BY <1>2, <1>3, LeadsOn DEF ScheduleExp
<1> QED  BY <1>1, <1>4, CtxLess, Weaker, LeadsWeaker

LEMMA ScheduleStmtLeads ==
  ASSUME NEW A, NEW S, NEW o \in A, NEW f \in Fields(TypeOf(o)), cur \in A, new \notin S,
         tmp(f) \notin S, ChildType[f] = "Statement", NEW B, B \subseteq A \cup {new}
  PROVE  Leads(Ctx(A, S), ScheduleStmt(o, f), Ctx(B, S))
<1>1. PICK C : C = A \cup {new}
  OBVIOUS
<1>2. Leads(Ctx(A, S), Schedule(Case("stmt")), Ctx(C, S))
  BY <1>1, CaseCounted, ScheduleLeads
<1>3. Leads(Ctx(C, S), Transfer(o, f, new, "stmt"), Ctx(C, S))
  <2>1. o \in C /\ new \in C
    BY <1>1
  <2>2. "stmt" \in Fields(TypeOf(new)) /\ ChildType[f] = ChildType["stmt"]
    BY DeclaredTypes, FieldSets DEF ChildType
  <2> QED  BY <2>1, <2>2, TransferLeads
<1>4. Leads(Ctx(A, S), ScheduleStmt(o, f), Ctx(C, S))
  BY <1>2, <1>3, LeadsOn DEF ScheduleStmt
<1> QED  BY <1>1, <1>4, CtxLess, Weaker, LeadsWeaker

LEMMA AddResultLeads ==
  ASSUME NEW A, NEW S, NEW v, cur \in A, res \notin S, NEW B, B \subseteq A \cup {res}
  PROVE  Leads(Ctx(A, S), AddResult(v), Ctx(B, S))
<1>1. PICK C, T : C = A \cup {res} /\ T = S \cup {res}
  OBVIOUS
<1>2. Follows(Ctx(A, S), Allocate("Result", res), Ctx(C, T))
  BY <1>1, PooledTypes, DeclaredTypes, AllocateIn
<1>3. Follows(Ctx(C, T), Give(res, cur, "result"), Ctx(C, S))
  <2>1. res \in T /\ cur \in C /\ S = T \ {res}
    BY <1>1
  <2>2. "result" \in Fields(TypeOf(cur)) /\ TypeOf(res) = ChildType["result"]
    BY DeclaredTypes, FieldSets DEF ChildType
  <2> QED  BY <2>1, <2>2, GiveIn
<1>4. Follows(Ctx(C, S), Write(res, v), Ctx(B, S))
  <2>1. res \in C /\ AtLeast(Ctx(C, S), Ctx(B, S)) /\ TypeOf(res) # "Computation"
    BY <1>1, CtxLess, DeclaredTypes
  <2> QED  BY <2>1, WriteIn, Weaker, FollowsWeaker
<1> QED  BY <1>2, <1>3, <1>4, LeadsThree DEF AddResult

LEMMA SetRvalueLeads ==
  ASSUME NEW A, NEW S, NEW x \in S, res \in A, TypeOf(x) = "Literal", NEW T, T = S \ {x}
  PROVE  Leads(Ctx(A, S), SetRvalue(x), Ctx(A, T))
<1>1. Follows(Ctx(A, S), Write(res, Case("rvalue")), Ctx(A, S))
  <2>1. TypeOf(res) # "Computation"
    BY DeclaredTypes
  <2> QED  BY <2>1, WriteIn
<1>2. Follows(Ctx(A, S), Give(x, res, "rvalue"), Ctx(A, T))
  <2>1. "rvalue" \in Fields(TypeOf(res)) /\ TypeOf(x) = ChildType["rvalue"]
    BY DeclaredTypes, FieldSets DEF ChildType
  <2> QED  BY <2>1, GiveIn
<1> QED  BY <1>1, <1>2, LeadsTwo DEF SetRvalue

LEMMA ValueOfIn ==
  ASSUME NEW A, NEW S, NEW x \in A, NEW to, ctx \in A, TypeOf(x) = "Result", TypeOf(to) = "Literal",
         to \notin S, Local("cell") \notin S, to # Local("cell"),
         NoCopies(A), NoCopies(S), NoCopies({to}),
         NEW B, NEW T, B \subseteq A \cup {to}, T = S \cup {to}
  PROVE  Follows(Ctx(A, S), [op |-> "ValueOf", x |-> x, to |-> to], Ctx(B, T))
<1>1. PICK c : c = [op |-> "ValueOf", x |-> x, to |-> to]
  OBVIOUS
<1>2. c.op = "ValueOf" /\ c.x = x /\ c.to = to
  BY <1>1
<1>3. PICK C, Q : C = A \cup {to} /\ Q = Ctx(C, T)
  OBVIOUS
<1>4. ValueOfRule(A, S, c, Q)
  <2>1. {c.x, ctx} \subseteq A
    BY <1>2
  <2> QED  BY <2>1, <1>1, <1>2, <1>3 DEF ValueOfRule
<1>5. HandlerRule(A, S, c, Q)
  BY <1>2, <1>4 DEF HandlerRule
<1>6. Follows(Ctx(A, S), c, Q)
  BY <1>2, <1>5, OwnStatement DEF OwnOps
<1>7. AtLeast(Q, Ctx(B, T))
  BY <1>3, CtxLess
<1> QED  BY <1>1, <1>6, <1>7, Weaker, FollowsWeaker

LEMMA PopValueLeads ==
  ASSUME NEW A, NEW S, NEW v, {cur, ctx} \subseteq A, TypeOf(v) = "Literal",
         popped \notin S, v \notin S, Local("cell") \notin S, v # Local("cell"),
         NoCopies(A), NoCopies(S), NoCopies({v}),
         NEW B, NEW T, B \subseteq A \cup {v}, T = S \cup {v}
  PROVE  Leads(Ctx(A, S), PopValue(v), Ctx(B, T))
<1>1. PICK C, U, D, V : C = A \cup {popped} /\ U = S \cup {popped} /\ D = C \cup {v} /\ V = U \cup {v}
  OBVIOUS
<1>2. /\ TypeOf(popped) = "Result" /\ NoCopies({popped}) /\ popped # v
      /\ popped # Local("cell")
  <2>1. NoCopies({popped})
    BY NoCopiesOf DEF popped
  <2> QED  BY <2>1, DeclaredTypes
<1>3. Follows(Ctx(A, S), Take(cur, "result", popped), Ctx(C, U))
  <2>1. /\ "result" \in Fields(TypeOf(cur)) /\ TypeOf(popped) = ChildType["result"]
        /\ ChildType["result"] \in Pooled
    BY DeclaredTypes, FieldSets, PooledTypes DEF ChildType
  <2> QED  BY <2>1, <1>1, TakeIn
<1>4. Follows(Ctx(C, U), [op |-> "ValueOf", x |-> popped, to |-> v], Ctx(D, V))
  <2>1. NoCopies(C) /\ NoCopies(U)
    BY <1>1, <1>2, NoCopiesOf
  <2>2. popped \in C /\ ctx \in C /\ v \notin U /\ Local("cell") \notin U
    BY <1>1, <1>2
  <2> QED  BY <2>1, <2>2, <1>1, <1>2, ValueOfIn
<1>5. Follows(Ctx(D, V), Destroy(popped), Ctx(B, T))
  <2>1. popped \in D /\ TypeOf(popped) \in Pooled /\ B \subseteq D /\ T = V \ {popped}
    BY <1>1, <1>2, PooledTypes
  <2> QED  BY <2>1, DestroyIn
<1> QED  BY <1>3, <1>4, <1>5, LeadsThree DEF PopValue

LEMMA AddCaseLeads ==
  ASSUME NEW A, NEW S, NEW o \in A, NEW f \in Fields(TypeOf(o)), NEW case \in {"exp", "stmt"}, NEW c,
         ChildType[f] = ChildType[case], TypeOf(c) = "Computation", c \notin S, tmp(f) \notin S,
         NEW B, NEW T, B \subseteq A \cup {c}, T = S \cup {c}
  PROVE  Leads(Ctx(A, S), AddCase(o, f, case, c), Ctx(B, T))
<1>1. PICK C : C = A \cup {c}
  OBVIOUS
<1>2. Follows(Ctx(A, S), Allocate("Computation", c), Ctx(C, T))
  BY <1>1, PooledTypes, AllocateIn
<1>3. Follows(Ctx(C, T), Write(c, Case(case)), Ctx(C, T))
  <2>1. Counted(Case(case)) /\ c \in C
    BY <1>1, CaseCounted
  <2> QED  BY <2>1, WriteIn
<1>4. Leads(Ctx(C, T), Transfer(o, f, c, case), Ctx(C, T))
  <2>1. TypeOf(tmp(f)) # "Computation"
    BY TemporaryTypes DEF ChildType
  <2>2. o \in C /\ c \in C /\ tmp(f) \notin T /\ case \in Fields(TypeOf(c))
    BY <2>1, <1>1, FieldSets
  <2> QED  BY <2>2, TransferLeads
<1>5. Leads(Ctx(A, S), AddCase(o, f, case, c), Ctx(C, T))
  BY <1>2, <1>3, <1>4, LeadsTwo, LeadsOn DEF AddCase
<1> QED  BY <1>1, <1>5, CtxLess, Weaker, LeadsWeaker

(***************************************************************************)
(* The handlers.  Each replaces the statement it handles by others, and    *)
(* these lead from what the statement needs to what is known after it.     *)
(***************************************************************************)
LEMMA LeadsOnThree ==
  ASSUME NEW G, NEW a, NEW M, NEW b, NEW N, NEW c, NEW H,
         Leads(G, a, M), Leads(M, b, N), Leads(N, c, H)
  PROVE  Leads(G, a \o b \o c, H)
<1>1. Leads(G, a \o b, N)
  BY LeadsOn
<1> QED  BY <1>1, LeadsOn

LEMMA LeadsOnFour ==
  ASSUME NEW G, NEW a, NEW M, NEW b, NEW N, NEW c, NEW L, NEW d, NEW H,
         Leads(G, a, M), Leads(M, b, N), Leads(N, c, L), Leads(L, d, H)
  PROVE  Leads(G, a \o b \o c \o d, H)
<1>1. Leads(G, a \o b \o c, L)
  BY LeadsOnThree
<1> QED  BY <1>1, LeadsOn

LEMMA LeadsOnFive ==
  ASSUME NEW G, NEW a, NEW M, NEW b, NEW N, NEW c, NEW L, NEW d, NEW J, NEW e, NEW H,
         Leads(G, a, M), Leads(M, b, N), Leads(N, c, L), Leads(L, d, J), Leads(J, e, H)
  PROVE  Leads(G, a \o b \o c \o d \o e, H)
<1>1. Leads(G, a \o b \o c \o d, J)
  BY LeadsOnFour
<1> QED  BY <1>1, LeadsOn

(***************************************************************************)
(* The handlers.                                                           *)
(***************************************************************************)
(* Statements that lead from P to Q take the place of the current one.     *)
Replaced(P, Q) == \E cs : code' = cs \o Tail(code) /\ Leads(P, cs, Q)

LEMMA HandlerLocals ==
  ASSUME NEW S, S \subseteq {cur_comp, exp, stmt}
  PROVE  /\ new \notin S /\ fnl \notin S /\ res \notin S /\ popped \notin S
         /\ lit \notin S /\ func_val \notin S
         /\ \A n \in {"cell", "lhs", "rhs", "elem_val", "arg", "value", "arg_v", "cond_val", "v",
                      "rhs_val", "return_val", "if_comp", "else_comp", "cond_cpy", "comp", "dst",
                      "s", "cond", "while_stmt", "old_ctx", "fresh", "tail"} : Local(n) \notin S
         /\ \A f : tmp(f) \notin S
         /\ \A i : arg(i) \notin S /\ <<"es", i>> \notin S /\ <<"reversed_comps", i>> \notin S
         /\ NoCopies(S)
<1>1. \A x \in S : x[1] \in {"cur_comp", "exp", "stmt"}
  BY LocalNames DEF cur_comp, exp, stmt
<1>2. /\ new \notin S /\ fnl \notin S /\ res \notin S /\ popped \notin S
      /\ lit \notin S /\ func_val \notin S
  BY <1>1, LocalNames DEF new, fnl, res, popped, lit, func_val
<1>3. \A n \in {"cell", "lhs", "rhs", "elem_val", "arg", "value", "arg_v", "cond_val", "v",
                "rhs_val", "return_val", "if_comp", "else_comp", "cond_cpy", "comp", "dst",
                "s", "cond", "while_stmt", "old_ctx", "fresh", "tail"} : Local(n) \notin S
  BY <1>1, LocalNames
<1>4. \A f : tmp(f) \notin S
  BY <1>1, TemporaryTypes
<1>5. \A i : arg(i) \notin S /\ <<"es", i>> \notin S /\ <<"reversed_comps", i>> \notin S
  BY <1>1, NumberedTypes
<1>6. NoCopies(S)
  BY <1>1 DEF NoCopies
<1> QED  BY <1>2, <1>3, <1>4, <1>5, <1>6

LEMMA CompDistinct ==
  cur_comp # exp /\ cur_comp # stmt /\ exp # stmt
BY LocalNames DEF cur_comp, exp, stmt

(* A handler of the case of cur_comp, of an expression and of a statement. *)
LEMMA InCompStep ==
  ASSUME NEW P, NEW Q, Rule(P, I, Q), At("Evaluate"), I.x = cur_comp, NEW cs, Do(cs),
         NEW A, NEW S, A = {ctx, cur, cur_comp}, S = {cur_comp},
         NEW B, A \subseteq B, Leads(Ctx(A, S), cs, Ctx(B, S))
  PROVE  Replaced(P, Q)
<1>1. EvaluateRule(P, I, Q)
  BY DEF Rule, At, I
<1>2. P = Ctx(A, S) /\ Q = AfterComp
  BY <1>1, CompDistinct DEF EvaluateRule, InComp
<1>3. AtLeast(Ctx(B, S), Q)
  BY <1>2, CtxOf, FactsOf DEF AtLeast, AfterComp
<1>4. Leads(P, cs, Q)
  BY <1>2, <1>3, Weaker, LeadsWeaker
<1> QED  BY <1>4 DEF Replaced, Do

LEMMA InExpStep ==
  ASSUME NEW P, NEW Q, Rule(P, I, Q), At("Evaluate"), I.x = exp, NEW cs, Do(cs),
         NEW A, NEW S, A = {ctx, cur, cur_comp, exp}, S = {cur_comp, exp},
         NEW B, A \subseteq B, Leads(Ctx(A, S), cs, Ctx(B, S))
  PROVE  Replaced(P, Q)
<1>1. EvaluateRule(P, I, Q)
  BY DEF Rule, At, I
<1>2. P = Ctx(A, S) /\ Q = Ctx(A, S)
  BY <1>1, CompDistinct DEF EvaluateRule, InExp
<1>3. Leads(P, cs, Q)
  BY <1>2, CtxLess, Weaker, LeadsWeaker
<1> QED  BY <1>3 DEF Replaced, Do

LEMMA InStmtStep ==
  ASSUME NEW P, NEW Q, Rule(P, I, Q), At("Evaluate"), I.x = stmt, NEW cs, Do(cs),
         NEW A, NEW S, A = {ctx, cur, cur_comp, stmt}, S = {cur_comp, stmt},
         NEW B, A \subseteq B, Leads(Ctx(A, S), cs, Ctx(B, S))
  PROVE  Replaced(P, Q)
<1>1. EvaluateRule(P, I, Q)
  BY DEF Rule, At, I
<1>2. P = Ctx(A, S) /\ Q = Ctx(A, S)
  BY <1>1, CompDistinct DEF EvaluateRule, InStmt
<1>3. Leads(P, cs, Q)
  BY <1>2, CtxLess, Weaker, LeadsWeaker
<1> QED  BY <1>3 DEF Replaced, Do

LEMMA EvaluateExpFollows ==
  ASSUME NEW x \in {exp, stmt}, NEW A, NEW S, A = {ctx, cur, cur_comp, x}, S = {cur_comp, x}
  PROVE  Follows(Ctx(A, S), [op |-> "Evaluate", x |-> x], Ctx(A, S))
<1>1. PICK c : c = [op |-> "Evaluate", x |-> x]
  OBVIOUS
<1>2. EvaluateRule(Ctx(A, S), c, Ctx(A, S))
  BY <1>1 DEF EvaluateRule, InExp, InStmt
<1>3. Rule(Ctx(A, S), c, Ctx(A, S))
  BY <1>1, <1>2 DEF Rule
<1> QED  BY <1>1, <1>3, Weaker DEF Follows

LEMMA ExpComputationLeads ==
  ASSUME NEW P, NEW Q, Rule(P, I, Q), ExpComputation
  PROVE  Replaced(P, Q)
<1>1. PICK A, S, B, T : /\ A = {ctx, cur, cur_comp} /\ S = {cur_comp}
                       /\ B = {ctx, cur, cur_comp, exp} /\ T = {cur_comp, exp}
  OBVIOUS
<1>2. Follows(Ctx(A, S), Take(cur_comp, "exp", exp), Ctx(B, T))
  <2>1. /\ "exp" \in Fields(TypeOf(cur_comp)) /\ TypeOf(exp) = ChildType["exp"]
        /\ ChildType["exp"] \in Pooled
    BY DeclaredTypes, FieldSets, PooledTypes DEF ChildType
  <2>2. cur_comp \in A /\ exp \notin S /\ B \subseteq A \cup {exp} /\ T = S \cup {exp}
    BY <1>1, CompDistinct
  <2> QED  BY <2>1, <2>2, TakeIn
<1>3. Follows(Ctx(B, T), [op |-> "Evaluate", x |-> exp], Ctx(B, T))
  BY <1>1, EvaluateExpFollows
<1>4. Follows(Ctx(B, T), Destroy(exp), Ctx(A, S))
  <2>1. exp \in B /\ TypeOf(exp) \in Pooled /\ A \subseteq B /\ S = T \ {exp}
    BY <1>1, DeclaredTypes, PooledTypes, CompDistinct
  <2> QED  BY <2>1, DestroyIn
<1>5. PICK cs : cs = <<Take(cur_comp, "exp", exp), [op |-> "Evaluate", x |-> exp], Destroy(exp)>>
  OBVIOUS
<1>6. Leads(Ctx(A, S), cs, Ctx(A, S))
  BY <1>2, <1>3, <1>4, <1>5, LeadsThree
<1>7. At("Evaluate") /\ I.x = cur_comp /\ Do(cs)
  BY <1>5 DEF ExpComputation, On
<1> QED  BY <1>1, <1>6, <1>7, InCompStep

LEMMA VarExpLeads ==
  ASSUME NEW P, NEW Q, Rule(P, I, Q), VarExp
  PROVE  Replaced(P, Q)
<1>1. PICK A, S : A = {ctx, cur, cur_comp, exp} /\ S = {cur_comp, exp}
  OBVIOUS
<1>2. /\ res \notin S /\ lit \notin S /\ ctx \in A /\ cur \in A
      /\ At("Evaluate") /\ I.x = exp
  BY <1>1, HandlerLocals DEF VarExp, On
<1>3. PICK B : B = A \cup {res, lit}
  OBVIOUS
<1>4. A \subseteq B /\ cur \in B
  BY <1>1, <1>3
<1>5. CASE Exp.name \in DOMAIN Env
  <2>1. PICK cs : cs = AddResult(Lvalue(Env[Exp.name]))
    OBVIOUS
  <2>2. Do(cs)
    BY <1>5, <2>1 DEF VarExp
  <2>3. Leads(Ctx(A, S), cs, Ctx(A, S))
    BY <1>2, <2>1, AddResultLeads
  <2> QED  BY <1>1, <1>2, <2>2, <2>3, InExpStep
<1>6. CASE Exp.name \notin DOMAIN Env
  <2>1. PICK env, addr, a, b, T, C :
               /\ addr = Len(Of(ctx, "store"))
               /\ env = Extended(Env, Exp.name, addr)
               /\ a = <<Set(cur, HasEnv(env)), Allocate("Literal", lit), Give(lit, ctx, "store")>>
               /\ b = AddResult(Lvalue(addr))
               /\ T = S \cup {lit} /\ C = A \cup {lit}
    OBVIOUS
  <2>2. Do(a \o b)
    BY <1>6, <2>1 DEF VarExp
  <2>3. Follows(Ctx(A, S), Set(cur, HasEnv(env)), Ctx(A, S))
    BY <1>2, DeclaredTypes, WriteIn
  <2>4. Follows(Ctx(A, S), Allocate("Literal", lit), Ctx(C, T))
    BY <1>2, <2>1, DeclaredTypes, PooledTypes, AllocateIn
  <2>5. Follows(Ctx(C, T), Give(lit, ctx, "store"), Ctx(C, S))
    <3>1. "store" \in Fields(TypeOf(ctx)) /\ TypeOf(lit) = ChildType["store"]
      BY DeclaredTypes, FieldSets DEF ChildType
    <3>2. lit \in T /\ ctx \in C /\ S = T \ {lit}
      BY <1>2, <2>1
    <3> QED  BY <3>1, <3>2, GiveIn
  <2>6. Leads(Ctx(A, S), a, Ctx(C, S))
    BY <2>1, <2>3, <2>4, <2>5, LeadsThree
  <2>7. Leads(Ctx(C, S), b, Ctx(B, S))
    <3>1. B \subseteq C \cup {res} /\ cur \in C
      BY <1>2, <1>3, <2>1
    <3> QED  BY <3>1, <1>2, <2>1, AddResultLeads
  <2>8. Leads(Ctx(A, S), a \o b, Ctx(B, S))
    BY <2>6, <2>7, LeadsOn
  <2> QED  BY <1>1, <1>2, <1>4, <2>2, <2>8, InExpStep
<1> QED  BY <1>5, <1>6

LEMMA LitExpLeads ==
  ASSUME NEW P, NEW Q, Rule(P, I, Q), LitExp
  PROVE  Replaced(P, Q)
<1>1. PICK A, S : A = {ctx, cur, cur_comp, exp} /\ S = {cur_comp, exp}
  OBVIOUS
<1>2. PICK B, C, T : B = A \cup {lit} /\ T = S \cup {lit} /\ C = B \cup {res}
  OBVIOUS
<1>3. PICK a, b, c, d : /\ a = <<Take(exp, "lit_exp", lit)>> /\ b = AddResult(Unset)
                       /\ c = SetRvalue(lit) /\ d = <<Destroy(lit)>>
  OBVIOUS
<1>4. At("Evaluate") /\ I.x = exp /\ Do(a \o b \o c \o d)
  BY <1>3 DEF LitExp, On
<1>5. /\ res \notin S /\ lit \notin S /\ res # lit /\ exp \in A /\ cur \in B /\ lit \in T
      /\ lit \in C /\ res \in C /\ A \subseteq C /\ S = T \ {lit} /\ S = S \ {lit} /\ res \notin T
  BY <1>1, <1>2, HandlerLocals, DeclaredTypes
<1>6. Leads(Ctx(A, S), a, Ctx(B, T))
  <2>1. /\ "lit_exp" \in Fields(TypeOf(exp)) /\ TypeOf(lit) = ChildType["lit_exp"]
        /\ ChildType["lit_exp"] \in Pooled
    BY DeclaredTypes, FieldSets, PooledTypes DEF ChildType
  <2> QED  BY <2>1, <1>2, <1>3, <1>5, TakeIn, LeadsOne
<1>7. Leads(Ctx(B, T), b, Ctx(C, T))
  BY <1>2, <1>3, <1>5, AddResultLeads
<1>8. Leads(Ctx(C, T), c, Ctx(C, S))
  BY <1>3, <1>5, DeclaredTypes, SetRvalueLeads
<1>9. Leads(Ctx(C, S), d, Ctx(C, S))
  BY <1>3, <1>5, DeclaredTypes, PooledTypes, DestroyIn, LeadsOne
<1>10. Leads(Ctx(A, S), a \o b \o c \o d, Ctx(C, S))
  BY <1>6, <1>7, <1>8, <1>9, LeadsOnFour
<1> QED  BY <1>1, <1>4, <1>5, <1>10, InExpStep

LEMMA MonArithExpLeads ==
  ASSUME NEW P, NEW Q, Rule(P, I, Q), MonArithExp
  PROVE  Replaced(P, Q)
<1>1. PICK A, S, B : A = {ctx, cur, cur_comp, exp} /\ S = {cur_comp, exp} /\ B = A \cup {new}
  OBVIOUS
<1>2. PICK v : v = [type |-> "mon_exp_final", op |-> Exp.op]
  OBVIOUS
<1>3. At("Evaluate") /\ I.x = exp /\ Do(Schedule(v) \o ScheduleExp(exp, "exp"))
  BY <1>2 DEF MonArithExp, On
<1>4. /\ new \notin S /\ tmp("exp") \notin S /\ cur \in A /\ cur \in B /\ exp \in B /\ A \subseteq B
  BY <1>1, HandlerLocals
<1>5. Leads(Ctx(A, S), Schedule(v), Ctx(B, S))
  <2>1. Counted(v)
    BY <1>2 DEF Counted
  <2> QED  BY <2>1, <1>1, <1>4, ScheduleLeads
<1>6. Leads(Ctx(B, S), ScheduleExp(exp, "exp"), Ctx(B, S))
  <2>1. "exp" \in Fields(TypeOf(exp)) /\ ChildType["exp"] = "Expression"
    BY DeclaredTypes, FieldSets DEF ChildType
  <2> QED  BY <2>1, <1>4, ScheduleExpLeads
<1>7. Leads(Ctx(A, S), Schedule(v) \o ScheduleExp(exp, "exp"), Ctx(B, S))
  BY <1>5, <1>6, LeadsOn
<1> QED  BY <1>1, <1>3, <1>4, <1>7, InExpStep

LEMMA BinArithExpLeads ==
  ASSUME NEW P, NEW Q, Rule(P, I, Q), BinArithExp
  PROVE  Replaced(P, Q)
<1>1. PICK A, S, B : A = {ctx, cur, cur_comp, exp} /\ S = {cur_comp, exp} /\ B = A \cup {new}
  OBVIOUS
<1>2. PICK v : v = [type |-> "bin_exp_final", op |-> Exp.op]
  OBVIOUS
<1>3. /\ At("Evaluate") /\ I.x = exp
      /\ Do(Schedule(v) \o ScheduleExp(exp, "rhs") \o ScheduleExp(exp, "lhs"))
  BY <1>2 DEF BinArithExp, On
<1>4. /\ new \notin S /\ cur \in A /\ cur \in B /\ exp \in B /\ A \subseteq B
      /\ \A f : tmp(f) \notin S
  BY <1>1, HandlerLocals
<1>5. Leads(Ctx(A, S), Schedule(v), Ctx(B, S))
  <2>1. Counted(v)
    BY <1>2 DEF Counted
  <2> QED  BY <2>1, <1>1, <1>4, ScheduleLeads
<1>6. \A f \in {"rhs", "lhs"} : Leads(Ctx(B, S), ScheduleExp(exp, f), Ctx(B, S))
  <2>1. \A f \in {"rhs", "lhs"} : f \in Fields(TypeOf(exp)) /\ ChildType[f] = "Expression"
    BY DeclaredTypes, FieldSets DEF ChildType
  <2> QED  BY <2>1, <1>4, ScheduleExpLeads
<1>7. Leads(Ctx(A, S), Schedule(v) \o ScheduleExp(exp, "rhs") \o ScheduleExp(exp, "lhs"), Ctx(B, S))
  BY <1>5, <1>6, LeadsOnThree
<1> QED  BY <1>1, <1>3, <1>4, <1>7, InExpStep

LEMMA LeadsOnSix ==
  ASSUME NEW G, NEW a, NEW M, NEW b, NEW N, NEW c, NEW L, NEW d, NEW J, NEW e, NEW R, NEW f, NEW H,
         Leads(G, a, M), Leads(M, b, N), Leads(N, c, L), Leads(L, d, J), Leads(J, e, R), Leads(R, f, H)
  PROVE  Leads(G, a \o b \o c \o d \o e \o f, H)
<1>1. Leads(G, a \o b \o c \o d \o e, R)
  BY LeadsOnFive
<1> QED  BY <1>1, LeadsOn

(* The numbered locals name[lo], ..., name[hi].                            *)
Row(name, lo, hi) == {<<name, k>> : k \in lo .. hi}

LEMMA RowFacts ==
  ASSUME NEW name, NEW lo \in Int, NEW hi \in Int, NEW r, r = Row(name, lo, hi)
  PROVE  (lo > hi => r = {}) /\ \A x \in r : x[1] = name
BY DEF Row

(* A row with its last local and without, and with its first and without.  *)
LEMMA RowLast ==
  ASSUME NEW name, NEW lo \in Int, NEW hi \in Int, lo <= hi, NEW r, NEW q, NEW x,
         r = Row(name, lo, hi), q = Row(name, lo, hi - 1), x = <<name, hi>>
  PROVE  r = q \cup {x} /\ x \notin q
<1>1. \A k : k \in lo .. hi <=> k \in lo .. hi - 1 \/ k = hi
  OBVIOUS
<1>2. r = q \cup {x}
  BY <1>1 DEF Row
<1>3. hi \notin lo .. hi - 1 /\ \A j, k : <<name, j>> = <<name, k>> => j = k
  OBVIOUS
<1> QED  BY <1>2, <1>3 DEF Row

LEMMA RowFirst ==
  ASSUME NEW name, NEW lo \in Int, NEW hi \in Int, lo <= hi, NEW r, NEW q, NEW x,
         r = Row(name, lo, hi), q = Row(name, lo + 1, hi), x = <<name, lo>>
  PROVE  r = q \cup {x} /\ x \notin q
<1>1. \A k : k \in lo .. hi <=> k \in lo + 1 .. hi \/ k = lo
  OBVIOUS
<1>2. r = q \cup {x}
  BY <1>1 DEF Row
<1>3. lo \notin lo + 1 .. hi /\ \A j, k : <<name, j>> = <<name, k>> => j = k
  OBVIOUS
<1> QED  BY <1>2, <1>3 DEF Row

(* How many messages a field holds is a number.                            *)
LEMMA FieldLength ==
  ASSUME Owned, Typed, NEW P, Describes(P), NEW o \in Known(P), NEW f \in Fields(TypeOf(o))
  PROVE  Len(Of(o, f)) \in Nat
<1>1. Usable(o)
  BY UsableLocals
<1>2. Of(o, f) \in Seq(Int)
  BY <1>1 DEF Usable, Owned, MessagesTyped, Of
<1> QED  BY <1>2

LEMMA EvaluateKnows ==
  ASSUME NEW P, NEW Q, Rule(P, I, Q), At("Evaluate")
  PROVE  /\ ctx \in P.arena /\ cur \in P.arena /\ cur_comp \in P.arena /\ I.x \in P.arena
         /\ ctx \in Known(P) /\ cur \in Known(P) /\ cur_comp \in Known(P) /\ I.x \in Known(P)
<1>1. EvaluateRule(P, I, Q)
  BY DEF Rule, At, I
<1>2. ctx \in P.arena /\ cur \in P.arena /\ cur_comp \in P.arena /\ I.x \in P.arena
  BY <1>1, CtxOf DEF EvaluateRule, InComp, InExp, InStmt
<1> QED  BY <1>2 DEF Known

LEMMA FuncAppExpLeads ==
  ASSUME Owned, Typed, NEW P, NEW Q, Describes(P), Rule(P, I, Q), FuncAppExp
  PROVE  Replaced(P, Q)
<1>1. PICK A, S, B : A = {ctx, cur, cur_comp, exp} /\ S = {cur_comp, exp} /\ B = A \cup {new}
  OBVIOUS
<1>2. At("Evaluate") /\ I.x = exp
  BY DEF FuncAppExp, On
<1>3. exp \in Known(P)
  BY <1>2, EvaluateKnows
<1>4. \A f \in {"func", "arg"} : f \in Fields(TypeOf(exp)) /\ ChildType[f] = "Expression"
  BY DeclaredTypes, FieldSets DEF ChildType
<1>5. PICK n \in Nat : n = Len(Of(exp, "arg"))
  BY <1>3, <1>4, FieldLength
<1>6. PICK v, F : /\ v = [type |-> "func_app_exp_final", num_args |-> n]
                 /\ F = [i \in 1 .. n |-> ScheduleExp(exp, "arg")]
  OBVIOUS
<1>7. Concat(n, LAMBDA i : ScheduleExp(exp, "arg")) = FlattenSeq(F)
  BY <1>6 DEF Concat
<1>8. PICK cs : cs = Schedule(v) \o ScheduleExp(exp, "func") \o FlattenSeq(F)
  OBVIOUS
<1>9. Do(cs)
  BY <1>5, <1>6, <1>7, <1>8 DEF FuncAppExp
<1>10. /\ new \notin S /\ cur \in A /\ cur \in B /\ exp \in B /\ A \subseteq B
       /\ \A f : tmp(f) \notin S
  BY <1>1, HandlerLocals
<1>11. Leads(Ctx(A, S), Schedule(v), Ctx(B, S))
  <2>1. Counted(v)
    BY <1>6 DEF Counted
  <2> QED  BY <2>1, <1>1, <1>10, ScheduleLeads
<1>12. \A f \in {"func", "arg"} : Leads(Ctx(B, S), ScheduleExp(exp, f), Ctx(B, S))
  BY <1>4, <1>10, ScheduleExpLeads
<1>13. Leads(Ctx(B, S), FlattenSeq(F), Ctx(B, S))
  <2>1. F = [i \in 1 .. n |-> F[i]] /\ \A i \in 1 .. n : F[i] = ScheduleExp(exp, "arg")
    BY <1>6
  <2> QED  BY <2>1, <1>12, LeadsRounds
<1>14. Leads(Ctx(A, S), cs, Ctx(B, S))
  BY <1>8, <1>11, <1>12, <1>13, LeadsOnThree
<1> QED  BY <1>1, <1>2, <1>9, <1>10, <1>14, InExpStep

LEMMA TernExpLeads ==
  ASSUME NEW P, NEW Q, Rule(P, I, Q), TernExp
  PROVE  Replaced(P, Q)
<1>1. PICK A, S : A = {ctx, cur, cur_comp, exp} /\ S = {cur_comp, exp}
  OBVIOUS
<1>2. PICK x, y : x = Local("if_comp") /\ y = Local("else_comp")
  OBVIOUS
<1>3. PICK B, C, D, L, T, U : /\ B = A \cup {fnl} /\ C = B \cup {x} /\ D = C \cup {y}
                             /\ L = D \cup {new} /\ T = S \cup {x} /\ U = S \cup {y}
  OBVIOUS
<1>4. /\ new \notin S /\ fnl \notin S /\ x \notin S /\ y \notin S /\ \A f : tmp(f) \notin S
  BY <1>1, <1>2, HandlerLocals
<1>5. /\ TypeOf(x) = "Computation" /\ TypeOf(y) = "Computation" /\ TypeOf(fnl) = "Computation"
      /\ \A f \in {"if_exp", "else_exp", "cond_exp"} :
           f \in Fields(TypeOf(exp)) /\ ChildType[f] = "Expression"
      /\ \A f \in {"if_case", "else_case"} :
           f \in Fields(TypeOf(fnl)) /\ ChildType[f] = "Computation"
      /\ ChildType["exp"] = "Expression"
  BY <1>2, DeclaredTypes, FieldSets DEF ChildType
<1>6. PICK a, b, c, d, e, f :
        /\ a = ScheduleAs(fnl, Case("if_else_final"))
        /\ b = AddCase(exp, "if_exp", "exp", x) /\ c = <<Give(x, fnl, "if_case")>>
        /\ d = AddCase(exp, "else_exp", "exp", y) /\ e = <<Give(y, fnl, "else_case")>>
        /\ f = ScheduleExp(exp, "cond_exp")
  OBVIOUS
<1>7. At("Evaluate") /\ I.x = exp /\ Do(a \o b \o c \o d \o e \o f)
  BY <1>2, <1>6 DEF TernExp, On
<1>8. Leads(Ctx(A, S), a, Ctx(B, S))
  <2>1. cur \in A
    BY <1>1
  <2> QED  BY <2>1, <1>3, <1>4, <1>5, <1>6, CaseCounted, ScheduleAsLeads
<1>9. Leads(Ctx(B, S), b, Ctx(C, T))
  <2>1. exp \in B
    BY <1>1, <1>3
  <2> QED  BY <2>1, <1>3, <1>4, <1>5, <1>6, AddCaseLeads
<1>10. Leads(Ctx(C, T), c, Ctx(C, S))
  <2>1. x \in T /\ fnl \in C /\ S = T \ {x}
    BY <1>3, <1>4
  <2> QED  BY <2>1, <1>5, <1>6, GiveIn, LeadsOne
<1>11. Leads(Ctx(C, S), d, Ctx(D, U))
  <2>1. exp \in C
    BY <1>1, <1>3
  <2> QED  BY <2>1, <1>3, <1>4, <1>5, <1>6, AddCaseLeads
<1>12. Leads(Ctx(D, U), e, Ctx(D, S))
  <2>1. y \in U /\ fnl \in D /\ S = U \ {y}
    BY <1>3, <1>4
  <2> QED  BY <2>1, <1>5, <1>6, GiveIn, LeadsOne
<1>13. Leads(Ctx(D, S), f, Ctx(L, S))
  <2>1. exp \in D /\ cur \in D
    BY <1>1, <1>3
  <2> QED  BY <2>1, <1>3, <1>4, <1>5, <1>6, ScheduleExpLeads
<1>14. Leads(Ctx(A, S), a \o b \o c \o d \o e \o f, Ctx(L, S)) /\ A \subseteq L
  BY <1>3, <1>8, <1>9, <1>10, <1>11, <1>12, <1>13, LeadsOnSix
<1> QED  BY <1>1, <1>7, <1>14, InExpStep

LEMMA LambdaExpLeads ==
  ASSUME NEW P, NEW Q, Rule(P, I, Q), LambdaExp
  PROVE  Replaced(P, Q)
<1>1. PICK A, S : A = {ctx, cur, cur_comp, exp} /\ S = {cur_comp, exp}
  OBVIOUS
<1>2. PICK B, C : B = A \cup {res} /\ C = B \cup {lit}
  OBVIOUS
<1>3. PICK v : v = [type |-> "closure_val", param |-> Exp.param, body |-> Exp.body, env |-> Env]
  OBVIOUS
<1>4. PICK a, b : /\ a = AddResult(Unset)
                 /\ b = <<Write(res, Case("rvalue")), Add(res, "rvalue", "Literal", lit),
                          Write(lit, v), SwapField(lit, "body", exp, "body")>>
  OBVIOUS
<1>5. At("Evaluate") /\ I.x = exp /\ Do(a \o b)
  BY <1>3, <1>4 DEF LambdaExp, On
<1>6. /\ res \notin S /\ lit \notin S /\ cur \in A /\ res \in B /\ lit \in C /\ exp \in C
      /\ A \subseteq C
  BY <1>1, <1>2, HandlerLocals
<1>7. /\ TypeOf(res) = "Result" /\ TypeOf(lit) = "Literal" /\ "Literal" \in Types
      /\ "rvalue" \in Fields(TypeOf(res)) /\ ChildType["rvalue"] = "Literal"
      /\ "body" \in Fields(TypeOf(lit)) /\ "body" \in Fields(TypeOf(exp))
  BY DeclaredTypes, FieldSets, PooledTypes DEF ChildType
<1>8. Leads(Ctx(A, S), a, Ctx(B, S))
  BY <1>2, <1>4, <1>6, AddResultLeads
<1>9. Leads(Ctx(B, S), b, Ctx(C, S))
  <2>1. Follows(Ctx(B, S), Write(res, Case("rvalue")), Ctx(B, S))
    BY <1>6, <1>7, WriteIn
  <2>2. Follows(Ctx(B, S), Add(res, "rvalue", "Literal", lit), Ctx(C, S))
    BY <1>2, <1>6, <1>7, AddIn
  <2>3. Follows(Ctx(C, S), Write(lit, v), Ctx(C, S))
    BY <1>6, <1>7, WriteIn
  <2>4. Follows(Ctx(C, S), SwapField(lit, "body", exp, "body"), Ctx(C, S))
    BY <1>6, <1>7, SwapFieldIn
  <2> QED  BY <1>4, <2>1, <2>2, <2>3, <2>4, LeadsFour
<1>10. Leads(Ctx(A, S), a \o b, Ctx(C, S))
  BY <1>8, <1>9, LeadsOn
<1> QED  BY <1>1, <1>5, <1>6, <1>10, InExpStep

LEMMA TupleExpLeads ==
  ASSUME Owned, Typed, NEW P, NEW Q, Describes(P), Rule(P, I, Q), TupleExp
  PROVE  Replaced(P, Q)
<1>1. PICK A, S, B : A = {ctx, cur, cur_comp, exp} /\ S = {cur_comp, exp} /\ B = A \cup {new}
  OBVIOUS
<1>2. At("Evaluate") /\ I.x = exp
  BY DEF TupleExp, On
<1>3. exp \in Known(P)
  BY <1>2, EvaluateKnows
<1>4. "exp" \in Fields(TypeOf(exp)) /\ "exp" \in Fields(TypeOf(new)) /\ ChildType["exp"] = "Expression"
  BY DeclaredTypes, FieldSets DEF ChildType
<1>5. PICK n \in Nat : n = Len(Of(exp, "exp"))
  BY <1>3, <1>4, FieldLength
<1>6. PICK v, F, H :
        /\ v = [type |-> "tuple_exp_final", size |-> n]
        /\ F = [i \in 1 .. n |-> <<Release(exp, "exp", <<"es", i>>)>>]
        /\ H = [i \in 1 .. n |-> Schedule(Case("exp")) \o <<Give(<<"es", n + 1 - i>>, new, "exp")>>]
  OBVIOUS
<1>7. /\ Concat(n, LAMBDA i : <<Release(exp, "exp", <<"es", i>>)>>) = FlattenSeq(F)
      /\ Countdown(n, LAMBDA i : Schedule(Case("exp")) \o <<Give(<<"es", i>>, new, "exp")>>)
           = FlattenSeq(H)
  BY <1>6 DEF Concat, Countdown
<1>8. PICK cs : cs = Schedule(v) \o FlattenSeq(F) \o FlattenSeq(H)
  OBVIOUS
<1>9. Do(cs)
  BY <1>5, <1>6, <1>7, <1>8 DEF TupleExp
<1>10. /\ new \notin S /\ cur \in A /\ cur \in B /\ exp \in B /\ new \in B /\ A \subseteq B
       /\ \A i : <<"es", i>> \notin S
  BY <1>1, HandlerLocals
<1>11. Leads(Ctx(A, S), Schedule(v), Ctx(B, S))
  <2>1. Counted(v)
    BY <1>6 DEF Counted
  <2> QED  BY <2>1, <1>1, <1>10, ScheduleLeads
<1>12. PICK K : K = [i \in 0 .. n |-> Ctx(B \cup Row("es", 1, i), S \cup Row("es", 1, i))]
  OBVIOUS
<1>13. \A i \in 1 .. n : Leads(K[i - 1], F[i], K[i])
  <2> SUFFICES ASSUME NEW i \in 1 .. n  PROVE Leads(K[i - 1], F[i], K[i])
    OBVIOUS
  <2>1. PICK q, r, C, T, D, U, x :
          /\ q = Row("es", 1, i - 1) /\ r = Row("es", 1, i) /\ x = <<"es", i>>
          /\ C = B \cup q /\ T = S \cup q /\ D = B \cup r /\ U = S \cup r
    OBVIOUS
  <2>2. K[i - 1] = Ctx(C, T) /\ K[i] = Ctx(D, U) /\ F[i] = <<Release(exp, "exp", x)>>
    <3>1. i - 1 \in 0 .. n /\ i \in 0 .. n
      OBVIOUS
    <3> QED  BY <3>1, <1>6, <1>12, <2>1
  <2>3. r = q \cup {x} /\ x \notin q /\ x \notin S
    <3>1. 1 \in Int /\ i \in Int /\ 1 <= i
      OBVIOUS
    <3>2. x \notin S
      BY <1>10, <2>1
    <3> QED  BY <3>1, <3>2, <2>1, RowLast
  <2>4. D \subseteq C \cup {x} /\ U = T \cup {x} /\ x \notin T /\ exp \in C
    BY <2>1, <2>3, <1>10
  <2>5. TypeOf(x) = "Expression"
    BY <2>1, NumberedTypes
  <2>6. Follows(Ctx(C, T), Release(exp, "exp", x), Ctx(D, U))
    BY <2>4, <2>5, <1>4, TakeIn
  <2> QED  BY <2>2, <2>6, LeadsOne
<1>14. K[0] = Ctx(B, S)
  <2>1. PICK r : r = Row("es", 1, 0)
    OBVIOUS
  <2>2. r = {}
    BY <2>1, RowFacts
  <2>3. B \cup r = B /\ S \cup r = S
    BY <2>2
  <2> QED  BY <2>1, <2>3, <1>12
<1>15. PICK C, T : C = B \cup Row("es", 1, n) /\ T = S \cup Row("es", 1, n)
  OBVIOUS
<1>16. K[n] = Ctx(C, T)
  BY <1>12, <1>15
<1>17. Leads(Ctx(B, S), FlattenSeq(F), Ctx(C, T))
  <2>1. F = [i \in 1 .. n |-> F[i]]
    BY <1>6
  <2> QED  BY <2>1, <1>13, <1>14, <1>16, LeadsLoop
<1>18. PICK L : L = [i \in 0 .. n |-> Ctx(C, S \cup Row("es", 1, n - i))]
  OBVIOUS
<1>19. \A i \in 1 .. n : Leads(L[i - 1], H[i], L[i])
  <2> SUFFICES ASSUME NEW i \in 1 .. n  PROVE Leads(L[i - 1], H[i], L[i])
    OBVIOUS
  <2>1. PICK j \in 1 .. n : j = n + 1 - i
    OBVIOUS
  <2>2. PICK q, r, V, U, x : /\ r = Row("es", 1, j) /\ q = Row("es", 1, j - 1) /\ x = <<"es", j>>
                            /\ V = S \cup r /\ U = S \cup q
    OBVIOUS
  <2>3. /\ L[i - 1] = Ctx(C, V) /\ L[i] = Ctx(C, U)
        /\ H[i] = Schedule(Case("exp")) \o <<Give(x, new, "exp")>>
    <3>1. i - 1 \in 0 .. n /\ i \in 0 .. n /\ n - (i - 1) = j /\ n - i = j - 1
      BY <2>1
    <3> QED  BY <3>1, <1>6, <1>18, <2>1, <2>2
  <2>4. r = q \cup {x} /\ x \notin q /\ x \notin S
    <3>1. 1 \in Int /\ j \in Int /\ 1 <= j
      OBVIOUS
    <3>2. x \notin S
      BY <1>10, <2>2
    <3> QED  BY <3>1, <3>2, <2>2, RowLast
  <2>5. new \notin r
    <3>1. new[1] # "es"
      BY LocalNames DEF new
    <3>2. 1 \in Int /\ j \in Int
      OBVIOUS
    <3> QED  BY <3>1, <3>2, <2>2, RowFacts
  <2>6. U = V \ {x} /\ x \in V /\ new \notin V /\ cur \in C /\ new \in C
    BY <2>2, <2>4, <2>5, <1>10, <1>15
  <2>7. TypeOf(x) = "Expression"
    BY <2>2, NumberedTypes
  <2>8. Leads(Ctx(C, V), Schedule(Case("exp")), Ctx(C, V))
    BY <2>6, CaseCounted, ScheduleLeads
  <2>9. Leads(Ctx(C, V), <<Give(x, new, "exp")>>, Ctx(C, U))
    BY <2>6, <2>7, <1>4, GiveIn, LeadsOne
  <2> QED  BY <2>3, <2>8, <2>9, LeadsOn
<1>20. L[0] = Ctx(C, T) /\ L[n] = Ctx(C, S)
  <2>1. PICK r : r = Row("es", 1, 0)
    OBVIOUS
  <2>2. r = {}
    BY <2>1, RowFacts
  <2>3. S \cup r = S /\ n - 0 = n /\ n - n = 0 /\ 0 \in 0 .. n /\ n \in 0 .. n
    BY <2>2
  <2> QED  BY <2>1, <2>3, <1>15, <1>18
<1>21. Leads(Ctx(C, T), FlattenSeq(H), Ctx(C, S))
  <2>1. H = [i \in 1 .. n |-> H[i]]
    BY <1>6
  <2> QED  BY <2>1, <1>19, <1>20, LeadsLoop
<1>22. Leads(Ctx(A, S), cs, Ctx(C, S)) /\ A \subseteq C
  BY <1>8, <1>10, <1>11, <1>15, <1>17, <1>21, LeadsOnThree
<1> QED  BY <1>1, <1>2, <1>9, <1>22, InExpStep

LEMMA UnsetLeads ==
  ASSUME NEW P, NEW Q, Rule(P, I, Q), UnsetExp \/ UnsetStmt
  PROVE  Replaced(P, Q)
<1>1. At("Evaluate") /\ I.x \in {exp, stmt} /\ Do(<<>>)
  BY DEF UnsetExp, UnsetStmt, On
<1>2. P = Q
  <2>1. EvaluateRule(P, I, Q)
    BY <1>1 DEF Rule, At, I
  <2> QED  BY <2>1, <1>1, CompDistinct DEF EvaluateRule
<1> QED  BY <1>1, <1>2, LeadsNowhere DEF Replaced, Do

(***************************************************************************)
(* The handlers of statements.                                             *)
(***************************************************************************)
LEMMA StmtComputationLeads ==
  ASSUME NEW P, NEW Q, Rule(P, I, Q), StmtComputation
  PROVE  Replaced(P, Q)
<1>1. PICK A, S, B, T : /\ A = {ctx, cur, cur_comp} /\ S = {cur_comp}
                       /\ B = {ctx, cur, cur_comp, stmt} /\ T = {cur_comp, stmt}
  OBVIOUS
<1>2. Follows(Ctx(A, S), Release(cur_comp, "stmt", stmt), Ctx(B, T))
  <2>1. "stmt" \in Fields(TypeOf(cur_comp)) /\ TypeOf(stmt) = ChildType["stmt"]
    BY DeclaredTypes, FieldSets DEF ChildType
  <2>2. cur_comp \in A /\ stmt \notin S /\ B \subseteq A \cup {stmt} /\ T = S \cup {stmt}
    BY <1>1, CompDistinct
  <2> QED  BY <2>1, <2>2, TakeIn
<1>3. Follows(Ctx(B, T), [op |-> "Evaluate", x |-> stmt], Ctx(B, T))
  BY <1>1, EvaluateExpFollows
<1>4. PICK cs : cs = <<Release(cur_comp, "stmt", stmt), [op |-> "Evaluate", x |-> stmt]>>
  OBVIOUS
<1>5. Leads(Ctx(A, S), cs, Ctx(B, T))
  BY <1>2, <1>3, <1>4, LeadsTwo
<1>6. At("Evaluate") /\ I.x = cur_comp /\ Do(cs)
  BY <1>4 DEF StmtComputation, On
<1>7. P = Ctx(A, S) /\ Q = AfterComp
  <2>1. EvaluateRule(P, I, Q)
    BY <1>6 DEF Rule, At, I
  <2> QED  BY <2>1, <1>1, <1>6, CompDistinct DEF EvaluateRule, InComp
<1>8. AtLeast(Ctx(B, T), Q)
  BY <1>1, <1>7, CtxOf, FactsOf DEF AtLeast, AfterComp
<1>9. Leads(P, cs, Q)
  BY <1>5, <1>7, <1>8, Weaker, LeadsWeaker
<1> QED  BY <1>6, <1>9 DEF Replaced, Do

LEMMA StmtLocals ==
  ASSUME NEW A, NEW S, A = {ctx, cur, cur_comp, stmt}, S = {cur_comp, stmt}
  PROVE  /\ ctx \in A /\ cur \in A /\ stmt \in A
         /\ new \notin S /\ fnl \notin S /\ \A f : tmp(f) \notin S
         /\ NoCopies(A) /\ NoCopies(S)
<1>1. /\ new \notin S /\ fnl \notin S /\ \A f : tmp(f) \notin S
      /\ NoCopies(S)
  BY HandlerLocals
<1>2. NoCopies(A)
  BY LocalNames DEF NoCopies, ctx, cur, cur_comp, stmt
<1> QED  BY <1>1, <1>2

(* A final computation, and the expression in field f of stmt before it.   *)
LEMMA ScheduleWithLeads ==
  ASSUME NEW A, NEW S, A = {ctx, cur, cur_comp, stmt}, S = {cur_comp, stmt},
         NEW v, Counted(v), NEW f \in Fields(TypeOf(stmt)), ChildType[f] = "Expression",
         NEW B, B = A \cup {new}
  PROVE  /\ Leads(Ctx(A, S), Schedule(v) \o ScheduleExp(stmt, f), Ctx(B, S))
         /\ Leads(Ctx(B, S), ScheduleExp(stmt, f), Ctx(B, S))
<1>1. /\ new \notin S /\ cur \in A /\ stmt \in A /\ cur \in B /\ stmt \in B /\ tmp(f) \notin S
  BY StmtLocals
<1>2. Leads(Ctx(A, S), Schedule(v), Ctx(B, S))
  BY <1>1, ScheduleLeads
<1>3. Leads(Ctx(B, S), ScheduleExp(stmt, f), Ctx(B, S))
  BY <1>1, ScheduleExpLeads
<1> QED  BY <1>2, <1>3, LeadsOn

LEMMA PlainStmtLeads ==
  ASSUME NEW P, NEW Q, Rule(P, I, Q), ExpStmt \/ AssignStmt \/ RetStmt \/ PrintStmt
  PROVE  Replaced(P, Q)
<1>1. PICK A, S, B : A = {ctx, cur, cur_comp, stmt} /\ S = {cur_comp, stmt} /\ B = A \cup {new}
  OBVIOUS
<1>2. At("Evaluate") /\ I.x = stmt
  BY DEF ExpStmt, AssignStmt, RetStmt, PrintStmt, On
<1>3. \A f \in {"exp_stmt", "lhs", "rhs", "ret_stmt", "print_stmt"} :
        f \in Fields(TypeOf(stmt)) /\ ChildType[f] = "Expression"
  BY DeclaredTypes, FieldSets DEF ChildType
<1>4. SUFFICES \E cs : Do(cs) /\ Leads(Ctx(A, S), cs, Ctx(B, S))
  <2>1. A \subseteq B
    BY <1>1
  <2> QED  BY <2>1, <1>1, <1>2, InStmtStep
<1>5. CASE ExpStmt
  <2>1. PICK v : v = Case("ignore_one_result")
    OBVIOUS
  <2>2. Do(Schedule(v) \o ScheduleExp(stmt, "exp_stmt"))
    BY <1>5, <2>1 DEF ExpStmt
  <2>3. Counted(v)
    BY <2>1, CaseCounted
  <2>4. Leads(Ctx(A, S), Schedule(v) \o ScheduleExp(stmt, "exp_stmt"), Ctx(B, S))
    BY <2>3, <1>1, <1>3, ScheduleWithLeads
  <2> QED  BY <2>2, <2>4
<1>6. CASE RetStmt
  <2>1. PICK v : v = Case("return_from_ctx")
    OBVIOUS
  <2>2. Do(Schedule(v) \o ScheduleExp(stmt, "ret_stmt"))
    BY <1>6, <2>1 DEF RetStmt
  <2>3. Counted(v)
    BY <2>1, CaseCounted
  <2>4. Leads(Ctx(A, S), Schedule(v) \o ScheduleExp(stmt, "ret_stmt"), Ctx(B, S))
    BY <2>3, <1>1, <1>3, ScheduleWithLeads
  <2> QED  BY <2>2, <2>4
<1>7. CASE PrintStmt
  <2>1. PICK v : v = Case("print_final")
    OBVIOUS
  <2>2. Do(Schedule(v) \o ScheduleExp(stmt, "print_stmt"))
    BY <1>7, <2>1 DEF PrintStmt
  <2>3. Counted(v)
    BY <2>1, CaseCounted
  <2>4. Leads(Ctx(A, S), Schedule(v) \o ScheduleExp(stmt, "print_stmt"), Ctx(B, S))
    BY <2>3, <1>1, <1>3, ScheduleWithLeads
  <2> QED  BY <2>2, <2>4
<1>8. CASE AssignStmt
  <2>1. PICK v : v = Case("assign_stmt_final")
    OBVIOUS
  <2>2. PICK a, b : a = Schedule(v) \o ScheduleExp(stmt, "rhs") /\ b = ScheduleExp(stmt, "lhs")
    OBVIOUS
  <2>3. Do(a \o b)
    BY <1>8, <2>1, <2>2 DEF AssignStmt
  <2>4. Counted(v)
    BY <2>1, CaseCounted
  <2>5. Leads(Ctx(A, S), a, Ctx(B, S))
    BY <2>2, <2>4, <1>1, <1>3, ScheduleWithLeads
  <2>6. Leads(Ctx(B, S), b, Ctx(B, S))
    BY <2>2, <2>4, <1>1, <1>3, ScheduleWithLeads
  <2> QED  BY <2>3, <2>5, <2>6, LeadsOn
<1> QED  BY <1>5, <1>6, <1>7, <1>8

LEMMA MoveCaseLeads ==
  ASSUME NEW A, NEW S, stmt \in A, fnl \in A, \A i : <<"reversed_comps", i>> \notin S,
         \A f : tmp(f) \notin S, NEW n \in Nat, NEW stmts \in {"if_stmts", "else_stmts"},
         NEW case \in {"if_case", "else_case"}
  PROVE  Leads(Ctx(A, S), MoveCase(stmts, n, case), Ctx(A, S))
<1>1. PICK F, H : /\ F = [i \in 1 .. n |-> AddCase(stmt, stmts, "stmt", <<"reversed_comps", n + 1 - i>>)]
                 /\ H = [i \in 1 .. n |-> <<Give(<<"reversed_comps", i>>, fnl, case)>>]
  OBVIOUS
<1>2. MoveCase(stmts, n, case) = FlattenSeq(F) \o FlattenSeq(H)
  BY <1>1 DEF MoveCase, Concat, Countdown
<1>3. /\ stmts \in Fields(TypeOf(stmt)) /\ ChildType[stmts] = ChildType["stmt"]
      /\ case \in Fields(TypeOf(fnl)) /\ ChildType[case] = "Computation"
  BY DeclaredTypes, FieldSets DEF ChildType
<1>4. PICK K : K = [i \in 0 .. n |-> Ctx(A \cup Row("reversed_comps", n + 1 - i, n),
                                        S \cup Row("reversed_comps", n + 1 - i, n))]
  OBVIOUS
<1>5. \A i \in 1 .. n : Leads(K[i - 1], F[i], K[i])
  <2> SUFFICES ASSUME NEW i \in 1 .. n  PROVE Leads(K[i - 1], F[i], K[i])
    OBVIOUS
  <2>1. PICK j \in 1 .. n : j = n + 1 - i
    OBVIOUS
  <2>2. PICK q, r, x, C, T, D, U :
          /\ r = Row("reversed_comps", j, n) /\ q = Row("reversed_comps", j + 1, n)
          /\ x = <<"reversed_comps", j>>
          /\ C = A \cup q /\ T = S \cup q /\ D = A \cup r /\ U = S \cup r
    OBVIOUS
  <2>3. K[i - 1] = Ctx(C, T) /\ K[i] = Ctx(D, U) /\ F[i] = AddCase(stmt, stmts, "stmt", x)
    <3>1. i - 1 \in 0 .. n /\ i \in 0 .. n /\ n + 1 - (i - 1) = j + 1 /\ n + 1 - i = j
      BY <2>1
    <3> QED  BY <3>1, <1>1, <1>4, <2>2
  <2>4. r = q \cup {x} /\ x \notin q /\ tmp(stmts) \notin q
    <3>1. n \in Int /\ j \in Int /\ j <= n /\ j + 1 \in Int
      OBVIOUS
    <3>2. tmp(stmts)[1] # "reversed_comps"
      BY TemporaryTypes
    <3> QED  BY <3>1, <3>2, <2>2, RowFirst, RowFacts
  <2>5. /\ D \subseteq C \cup {x} /\ U = T \cup {x} /\ x \notin T /\ stmt \in C
        /\ tmp(stmts) \notin T
    BY <2>2, <2>4
  <2>6. TypeOf(x) = "Computation"
    BY <2>2, NumberedTypes
  <2> QED  BY <2>3, <2>5, <2>6, <1>3, AddCaseLeads
<1>6. K[0] = Ctx(A, S)
  <2>1. PICK r : r = Row("reversed_comps", n + 1, n)
    OBVIOUS
  <2>2. r = {}
    BY <2>1, RowFacts
  <2>3. A \cup r = A /\ S \cup r = S /\ n + 1 - 0 = n + 1 /\ 0 \in 0 .. n
    BY <2>2
  <2> QED  BY <2>1, <2>3, <1>4
<1>7. PICK C, T : C = A \cup Row("reversed_comps", 1, n) /\ T = S \cup Row("reversed_comps", 1, n)
  OBVIOUS
<1>8. K[n] = Ctx(C, T)
  <2>1. n + 1 - n = 1 /\ n \in 0 .. n
    OBVIOUS
  <2> QED  BY <2>1, <1>4, <1>7
<1>9. Leads(Ctx(A, S), FlattenSeq(F), Ctx(C, T))
  <2>1. F = [i \in 1 .. n |-> F[i]]
    BY <1>1
  <2> QED  BY <2>1, <1>5, <1>6, <1>8, LeadsLoop
<1>10. PICK L : L = [i \in 0 .. n |-> Ctx(C, S \cup Row("reversed_comps", i + 1, n))]
  OBVIOUS
<1>11. \A i \in 1 .. n : Leads(L[i - 1], H[i], L[i])
  <2> SUFFICES ASSUME NEW i \in 1 .. n  PROVE Leads(L[i - 1], H[i], L[i])
    OBVIOUS
  <2>1. PICK q, r, x, V, U :
          /\ r = Row("reversed_comps", i, n) /\ q = Row("reversed_comps", i + 1, n)
          /\ x = <<"reversed_comps", i>> /\ V = S \cup r /\ U = S \cup q
    OBVIOUS
  <2>2. L[i - 1] = Ctx(C, V) /\ L[i] = Ctx(C, U) /\ H[i] = <<Give(x, fnl, case)>>
    <3>1. i - 1 \in 0 .. n /\ i \in 0 .. n /\ (i - 1) + 1 = i
      OBVIOUS
    <3> QED  BY <3>1, <1>1, <1>10, <2>1
  <2>3. r = q \cup {x} /\ x \notin q
    <3>1. n \in Int /\ i \in Int /\ i <= n
      OBVIOUS
    <3> QED  BY <3>1, <2>1, RowFirst
  <2>4. U = V \ {x} /\ x \in V /\ fnl \in C
    BY <2>1, <2>3, <1>7
  <2>5. TypeOf(x) = "Computation"
    BY <2>1, NumberedTypes
  <2>6. Follows(Ctx(C, V), Give(x, fnl, case), Ctx(C, U))
    BY <2>4, <2>5, <1>3, GiveIn
  <2> QED  BY <2>2, <2>6, LeadsOne
<1>12. L[0] = Ctx(C, T)
  BY <1>7, <1>10
<1>13. L[n] = Ctx(C, S)
  <2>1. PICK r : r = Row("reversed_comps", n + 1, n)
    OBVIOUS
  <2>2. r = {}
    BY <2>1, RowFacts
  <2>3. S \cup r = S /\ n \in 0 .. n
    BY <2>2
  <2> QED  BY <2>1, <2>3, <1>10
<1>14. Leads(Ctx(C, T), FlattenSeq(H), Ctx(C, S))
  <2>1. H = [i \in 1 .. n |-> H[i]]
    BY <1>1
  <2> QED  BY <2>1, <1>11, <1>12, <1>13, LeadsLoop
<1>15. Leads(Ctx(A, S), FlattenSeq(F) \o FlattenSeq(H), Ctx(C, S))
  BY <1>9, <1>14, LeadsOn
<1>16. AtLeast(Ctx(C, S), Ctx(A, S))
  BY <1>7, CtxLess
<1> QED  BY <1>2, <1>15, <1>16, Weaker, LeadsWeaker

LEMMA IfElseStmtLeads ==
  ASSUME Owned, Typed, NEW P, NEW Q, Describes(P), Rule(P, I, Q), IfElseStmt
  PROVE  Replaced(P, Q)
<1>1. PICK A, S, B, C : /\ A = {ctx, cur, cur_comp, stmt} /\ S = {cur_comp, stmt}
                       /\ B = A \cup {fnl} /\ C = B \cup {new}
  OBVIOUS
<1>2. At("Evaluate") /\ I.x = stmt
  BY DEF IfElseStmt, On
<1>3. /\ "if_stmts" \in Fields(TypeOf(stmt)) /\ "else_stmts" \in Fields(TypeOf(stmt))
      /\ "cond" \in Fields(TypeOf(stmt)) /\ ChildType["cond"] = "Expression"
  BY DeclaredTypes, FieldSets DEF ChildType
<1>4. stmt \in Known(P)
  BY <1>2, EvaluateKnows
<1>5. PICK m \in Nat : m = Len(Of(stmt, "if_stmts"))
  BY <1>3, <1>4, FieldLength
<1>6. PICK n \in Nat : n = Len(Of(stmt, "else_stmts"))
  BY <1>3, <1>4, FieldLength
<1>7. PICK a, b, c, d : /\ a = ScheduleAs(fnl, Case("if_else_final"))
                       /\ b = MoveCase("if_stmts", m, "if_case")
                       /\ c = MoveCase("else_stmts", n, "else_case")
                       /\ d = ScheduleExp(stmt, "cond")
  OBVIOUS
<1>8. Do(a \o b \o c \o d)
  BY <1>5, <1>6, <1>7 DEF IfElseStmt
<1>9. /\ cur \in A /\ cur \in B /\ stmt \in B /\ fnl \in B /\ A \subseteq C
      /\ S \subseteq {cur_comp, exp, stmt}
  BY <1>1
<1>14. fnl \notin S /\ new \notin S /\ \A f : tmp(f) \notin S
  BY <1>9, HandlerLocals
<1>15. \A i : <<"reversed_comps", i>> \notin S
  BY <1>9, HandlerLocals
<1>10. Leads(Ctx(A, S), a, Ctx(B, S))
  <2>1. TypeOf(fnl) = "Computation" /\ B \subseteq A \cup {fnl}
    BY <1>1, DeclaredTypes
  <2>2. Counted(Case("if_else_final"))
    BY CaseCounted
  <2> QED  BY <2>1, <2>2, <1>7, <1>9, <1>14, ScheduleAsLeads
<1>11. Leads(Ctx(B, S), b, Ctx(B, S)) /\ Leads(Ctx(B, S), c, Ctx(B, S))
  BY <1>7, <1>9, <1>14, <1>15, MoveCaseLeads
<1>12. Leads(Ctx(B, S), d, Ctx(C, S))
  BY <1>1, <1>3, <1>7, <1>9, <1>14, ScheduleExpLeads
<1>13. Leads(Ctx(A, S), a \o b \o c \o d, Ctx(C, S))
  BY <1>10, <1>11, <1>12, LeadsOnFour
<1> QED  BY <1>1, <1>2, <1>8, <1>9, <1>13, InStmtStep

(* A new computation with an empty statement.                              *)
LEMMA NewStmtLeads ==
  ASSUME NEW A, NEW S, NEW x, NEW y, TypeOf(x) = "Computation", TypeOf(y) = "Statement",
         x \notin S, y \notin S, NEW B, NEW T, B = A \cup {x, y}, T = S \cup {x}
  PROVE  Leads(Ctx(A, S), <<Allocate("Computation", x), Write(x, Case("stmt")),
                            Add(x, "stmt", "Statement", y)>>, Ctx(B, T))
<1>1. PICK C : C = A \cup {x}
  OBVIOUS
<1>2. Follows(Ctx(A, S), Allocate("Computation", x), Ctx(C, T))
  BY <1>1, PooledTypes, AllocateIn
<1>3. Follows(Ctx(C, T), Write(x, Case("stmt")), Ctx(C, T))
  <2>1. x \in C /\ Counted(Case("stmt"))
    BY <1>1, CaseCounted
  <2> QED  BY <2>1, WriteIn
<1>4. Follows(Ctx(C, T), Add(x, "stmt", "Statement", y), Ctx(B, T))
  <2>1. "stmt" \in Fields(TypeOf(x)) /\ "Statement" \in Types /\ "Statement" = ChildType["stmt"]
    BY FieldSets, PooledTypes DEF ChildType
  <2>2. x \in C /\ y \notin T /\ B \subseteq C \cup {y}
    BY <1>1
  <2> QED  BY <2>1, <2>2, AddIn
<1> QED  BY <1>2, <1>3, <1>4, LeadsThree

LEMMA WhileLocals ==
  ASSUME NEW S, S = {cur_comp, stmt}, NEW cc, NEW cd, NEW x, NEW y, NEW z,
         cc = Local("cond_cpy"), cd = Local("cond"), x = Local("comp"), y = Local("dst"),
         z = Local("s"), NEW T, T = S \cup {cc}
  PROVE  /\ cc \notin S /\ cd \notin T /\ x \notin T /\ y \notin T /\ z \notin T
         /\ fnl \notin T /\ new \notin T /\ z # x
<1>1. S \subseteq {cur_comp, exp, stmt}
  OBVIOUS
<1>2. /\ cc \notin S /\ cd \notin S /\ x \notin S /\ y \notin S /\ z \notin S
      /\ fnl \notin S /\ new \notin S
  BY <1>1, HandlerLocals
<1>3. cd # cc /\ x # cc /\ y # cc /\ z # cc /\ fnl # cc /\ new # cc /\ z # x
  BY LocalNames DEF fnl, new
<1> QED  BY <1>2, <1>3

LEMMA WhileHasNoCopies ==
  ASSUME NEW V,
         \A w \in V : w \in {ctx, cur, cur_comp, stmt, fnl, Local("cond_cpy"), Local("cond"),
                             Local("comp"), Local("dst"), Local("s")}
  PROVE  NoCopies(V)
<1>1. \A w \in V : w[1] \notin {"child", "copy of"}
  BY LocalNames DEF fnl, ctx, cur, cur_comp, stmt
<1> QED  BY <1>1 DEF NoCopies

LEMMA WhileStmtLeads ==
  ASSUME Owned, Typed, NEW P, NEW Q, Describes(P), Rule(P, I, Q), WhileStmt
  PROVE  Replaced(P, Q)
<1>1. PICK A, S, cc, cd, x, y, z :
        /\ A = {ctx, cur, cur_comp, stmt} /\ S = {cur_comp, stmt}
        /\ cc = Local("cond_cpy") /\ cd = Local("cond") /\ x = Local("comp") /\ y = Local("dst")
        /\ z = Local("s")
  OBVIOUS
<1>2. PICK B, C, D, E, F, G, T, U :
        /\ B = A \cup {cc} /\ C = B \cup {cd} /\ D = C \cup {fnl} /\ E = D \cup {x, y}
        /\ F = E \cup {z} /\ G = E \cup {new}
        /\ T = S \cup {cc} /\ U = T \cup {x}
  OBVIOUS
<1>3. /\ cc \notin S /\ cd \notin T /\ x \notin T /\ y \notin T /\ z \notin T
      /\ fnl \notin T /\ new \notin T /\ z # x
      /\ NoCopies(C) /\ NoCopies(F) /\ NoCopies(T) /\ NoCopies(U)
  <2>1. /\ cc \notin S /\ cd \notin T /\ x \notin T /\ y \notin T /\ z \notin T
        /\ fnl \notin T /\ new \notin T /\ z # x
    BY <1>1, <1>2, WhileLocals
  <2>2. NoCopies(C) /\ NoCopies(T)
    BY <1>1, <1>2, WhileHasNoCopies
  <2>3. NoCopies(F) /\ NoCopies(U)
    BY <1>1, <1>2, WhileHasNoCopies
  <2> QED  BY <2>1, <2>2, <2>3
<1>4. /\ TypeOf(cc) = "Expression" /\ TypeOf(cd) = "Expression" /\ TypeOf(x) = "Computation"
      /\ TypeOf(y) = "Statement" /\ TypeOf(z) = "Statement" /\ TypeOf(fnl) = "Computation"
      /\ TypeOf(new) = "Computation" /\ TypeOf(stmt) = "Statement"
  BY <1>1, DeclaredTypes
<1>5. /\ "cond" \in Fields(TypeOf(stmt)) /\ ChildType["cond"] = "Expression"
      /\ "body" \in Fields(TypeOf(stmt)) /\ ChildType["body"] = "Statement"
      /\ "if_case" \in Fields(TypeOf(fnl)) /\ ChildType["if_case"] = "Computation"
      /\ "exp" \in Fields(TypeOf(new)) /\ ChildType["exp"] = "Expression"
  BY <1>4, FieldSets DEF ChildType
<1>6. At("Evaluate") /\ I.x = stmt
  BY DEF WhileStmt, On
<1>7. PICK n \in Nat : n = Len(Of(stmt, "body"))
  <2>1. stmt \in Known(P)
    BY <1>6, EvaluateKnows
  <2> QED  BY <2>1, <1>5, FieldLength
<1>8. PICK N : N = <<Allocate("Computation", x), Write(x, Case("stmt")),
                     Add(x, "stmt", "Statement", y)>>
  OBVIOUS
<1>9. PICK R : R = [i \in 1 .. n |-> N \o <<Point(z, stmt, "body", i), Copy(z, y),
                                            Give(x, fnl, "if_case")>>]
  OBVIOUS
<1>10. PICK a, b, e, f, g :
         /\ a = <<Allocate("Expression", cc), Point(cd, stmt, "cond", 1), Copy(cd, cc)>>
         /\ b = ScheduleAs(fnl, Case("if_else_final"))
         /\ e = <<Swap(y, stmt), Give(x, fnl, "if_case")>>
         /\ f = Schedule(Case("exp")) /\ g = <<Give(cc, new, "exp")>>
  OBVIOUS
<1>11. Do(a \o b \o FlattenSeq(R) \o N \o e \o f \o g)
  BY <1>1, <1>7, <1>8, <1>9, <1>10 DEF WhileStmt, Concat
<1>12. Leads(Ctx(A, S), a, Ctx(C, T))
  <2>1. Follows(Ctx(A, S), Allocate("Expression", cc), Ctx(B, T))
    BY <1>2, <1>3, <1>4, PooledTypes, AllocateIn
  <2>2. Follows(Ctx(B, T), Point(cd, stmt, "cond", 1), Ctx(C, T))
    <3>1. stmt \in B
      BY <1>1, <1>2
    <3> QED  BY <3>1, <1>2, <1>3, <1>4, <1>5, PointIn
  <2>3. Follows(Ctx(C, T), Copy(cd, cc), Ctx(C, T))
    <3>1. cc \in C /\ cd \in C
      BY <1>2
    <3> QED  BY <3>1, <1>3, <1>4, CopyIn
  <2> QED  BY <1>10, <2>1, <2>2, <2>3, LeadsThree
<1>13. Leads(Ctx(C, T), b, Ctx(D, T))
  <2>1. cur \in C
    BY <1>1, <1>2
  <2> QED  BY <2>1, <1>2, <1>3, <1>4, <1>10, CaseCounted, ScheduleAsLeads
<1>14. Leads(Ctx(D, T), N, Ctx(E, U))
  BY <1>2, <1>3, <1>4, <1>8, NewStmtLeads
<1>15. Leads(Ctx(D, T), FlattenSeq(R), Ctx(D, T))
  <2>1. ASSUME NEW i \in 1 .. n  PROVE Leads(Ctx(D, T), R[i], Ctx(D, T))
    <3>1. PICK c : c = <<Point(z, stmt, "body", i), Copy(z, y), Give(x, fnl, "if_case")>>
      OBVIOUS
    <3>2. Follows(Ctx(E, U), Point(z, stmt, "body", i), Ctx(F, U))
      <4>1. stmt \in E /\ z \notin U
        BY <1>1, <1>2, <1>3
      <4> QED  BY <4>1, <1>2, <1>4, <1>5, PointIn
    <3>3. Follows(Ctx(F, U), Copy(z, y), Ctx(F, U))
      <4>1. y \in F /\ z \in F
        BY <1>2
      <4> QED  BY <4>1, <1>3, <1>4, CopyIn
    <3>4. Follows(Ctx(F, U), Give(x, fnl, "if_case"), Ctx(D, T))
      <4>1. x \in U /\ fnl \in F /\ D \subseteq F /\ T = U \ {x}
        BY <1>2, <1>3
      <4> QED  BY <4>1, <1>4, <1>5, GiveIn
    <3>5. Leads(Ctx(E, U), c, Ctx(D, T))
      BY <3>1, <3>2, <3>3, <3>4, LeadsThree
    <3> QED  BY <3>1, <3>5, <1>9, <1>14, LeadsOn
  <2>2. R = [i \in 1 .. n |-> R[i]]
    BY <1>9
  <2> QED  BY <2>1, <2>2, LeadsRounds
<1>16. Leads(Ctx(E, U), e, Ctx(E, T))
  <2>1. Follows(Ctx(E, U), Swap(y, stmt), Ctx(E, U))
    <3>1. y \in E /\ stmt \in E
      BY <1>1, <1>2
    <3> QED  BY <3>1, <1>4, SwapIn
  <2>2. Follows(Ctx(E, U), Give(x, fnl, "if_case"), Ctx(E, T))
    <3>1. x \in U /\ fnl \in E /\ T = U \ {x}
      BY <1>2, <1>3
    <3> QED  BY <3>1, <1>4, <1>5, GiveIn
  <2> QED  BY <2>1, <2>2, <1>10, LeadsTwo
<1>17. Leads(Ctx(E, T), f, Ctx(G, T))
  <2>1. cur \in E
    BY <1>1, <1>2
  <2> QED  BY <2>1, <1>2, <1>3, <1>10, CaseCounted, ScheduleLeads
<1>18. Leads(Ctx(G, T), g, Ctx(G, S))
  <2>1. cc \in T /\ new \in G /\ S = T \ {cc}
    BY <1>2, <1>3
  <2> QED  BY <2>1, <1>4, <1>5, <1>10, GiveIn, LeadsOne
<1>19. Leads(Ctx(A, S), a \o b \o FlattenSeq(R) \o N \o e \o f, Ctx(G, T))
  BY <1>12, <1>13, <1>14, <1>15, <1>16, <1>17, LeadsOnSix
<1>20. Leads(Ctx(A, S), a \o b \o FlattenSeq(R) \o N \o e \o f \o g, Ctx(G, S)) /\ A \subseteq G
  BY <1>2, <1>18, <1>19, LeadsOn
<1> QED  BY <1>1, <1>6, <1>11, <1>20, InStmtStep

LEMMA ForStmtLeads ==
  ASSUME NEW P, NEW Q, Rule(P, I, Q), ForStmt
  PROVE  Replaced(P, Q)
<1>1. PICK A, S, B, w, C : /\ A = {ctx, cur, cur_comp, stmt} /\ S = {cur_comp, stmt}
                          /\ w = Local("while_stmt") /\ B = A \cup {new} /\ C = B \cup {w}
  OBVIOUS
<1>2. PICK v : v = [type |-> "while_stmt", cond |-> Stmt.cond, body |-> Append(Stmt.body, Stmt.inc)]
  OBVIOUS
<1>3. PICK a, b, c, d, e, f :
        /\ a = Schedule(Case("stmt"))
        /\ b = <<Add(new, "stmt", "Statement", w), Write(w, v)>>
        /\ c = Transfer(stmt, "cond", w, "cond")
        /\ d = <<SwapField(w, "body", stmt, "body")>>
        /\ e = Transfer(stmt, "inc", w, "body")
        /\ f = ScheduleStmt(stmt, "init")
  OBVIOUS
<1>4. At("Evaluate") /\ I.x = stmt /\ Do(a \o b \o c \o d \o e \o f)
  BY <1>1, <1>2, <1>3 DEF ForStmt, On
<1>5. new \notin S /\ w \notin S /\ \A g : tmp(g) \notin S
  <2>1. S \subseteq {cur_comp, exp, stmt}
    BY <1>1
  <2> QED  BY <2>1, <1>1, HandlerLocals
<1>6. /\ cur \in A /\ new \in B /\ stmt \in C /\ w \in C /\ cur \in C /\ A \subseteq C
      /\ C \subseteq B \cup {w}
  BY <1>1
<1>7. TypeOf(w) = "Statement" /\ TypeOf(new) = "Computation" /\ TypeOf(stmt) = "Statement"
  BY <1>1, DeclaredTypes
<1>8. /\ "stmt" \in Fields(TypeOf(new)) /\ ChildType["stmt"] = "Statement" /\ "Statement" \in Types
      /\ \A g \in {"cond", "body", "inc", "init"} :
           g \in Fields(TypeOf(stmt)) /\ g \in Fields(TypeOf(w))
      /\ ChildType["inc"] = ChildType["body"] /\ ChildType["init"] = "Statement"
  BY <1>7, FieldSets, PooledTypes DEF ChildType
<1>9. Leads(Ctx(A, S), a, Ctx(B, S))
  BY <1>1, <1>3, <1>5, <1>6, CaseCounted, ScheduleLeads
<1>10. Leads(Ctx(B, S), b, Ctx(C, S))
  <2>1. Follows(Ctx(B, S), Add(new, "stmt", "Statement", w), Ctx(C, S))
    BY <1>5, <1>6, <1>7, <1>8, AddIn
  <2>2. Follows(Ctx(C, S), Write(w, v), Ctx(C, S))
    BY <1>6, <1>7, WriteIn
  <2> QED  BY <2>1, <2>2, <1>3, LeadsTwo
<1>11. Leads(Ctx(C, S), c, Ctx(C, S)) /\ Leads(Ctx(C, S), e, Ctx(C, S))
  BY <1>3, <1>5, <1>6, <1>8, TransferLeads
<1>12. Leads(Ctx(C, S), d, Ctx(C, S))
  BY <1>3, <1>6, <1>8, SwapFieldIn, LeadsOne
<1>13. Leads(Ctx(C, S), f, Ctx(C, S))
  BY <1>3, <1>5, <1>6, <1>8, ScheduleStmtLeads
<1>14. Leads(Ctx(A, S), a \o b \o c \o d \o e \o f, Ctx(C, S))
  BY <1>9, <1>10, <1>11, <1>12, <1>13, LeadsOnSix
<1> QED  BY <1>1, <1>4, <1>6, <1>14, InStmtStep

(***************************************************************************)
(* The final handlers, which pop the values that were evaluated.           *)
(***************************************************************************)
(* The computation in cur_comp keeps numbers as its counts.                *)
LEMMA FinalCounted ==
  ASSUME Owned, Typed, NEW P, NEW Q, Describes(P), Rule(P, I, Q), At("Evaluate")
  PROVE  Counted(Final)
<1>1. Usable(cur_comp)
  BY EvaluateKnows, UsableLocals
<1>2. type[reg[cur_comp]] = "Computation"
  BY <1>1, DeclaredTypes DEF Usable
<1> QED  BY <1>1, <1>2 DEF Usable, Typed, ScalarsTyped, Final, Value

LEMMA FinalLocals ==
  ASSUME NEW A, NEW S, A = {ctx, cur, cur_comp}, S = {cur_comp}
  PROVE  /\ ctx \in A /\ cur \in A /\ cur_comp \in A /\ {cur, ctx} \subseteq A
         /\ res \notin S /\ popped \notin S /\ lit \notin S /\ func_val \notin S /\ new \notin S
         /\ \A n \in {"cell", "lhs", "rhs", "elem_val", "arg", "arg_v", "cond_val", "v",
                      "rhs_val", "return_val", "old_ctx", "fresh", "tail"} : Local(n) \notin S
         /\ NoCopies(A) /\ NoCopies(S)
<1>1. S \subseteq {cur_comp, exp, stmt}
  OBVIOUS
<1>2. res \notin S /\ popped \notin S /\ lit \notin S /\ func_val \notin S /\ new \notin S
  BY <1>1, HandlerLocals
<1>3. \A n \in {"cell", "lhs", "rhs", "elem_val", "arg", "arg_v", "cond_val", "v",
                "rhs_val", "return_val", "old_ctx", "fresh", "tail"} : Local(n) \notin S
  BY <1>1, HandlerLocals
<1>4. NoCopies(S)
  BY <1>1, HandlerLocals
<1>5. NoCopies(A)
  BY LocalNames DEF NoCopies, ctx, cur, cur_comp
<1> QED  BY <1>2, <1>3, <1>4, <1>5

(* A result popped into the literal v, with what is known of v.            *)
LEMMA PopFirst ==
  ASSUME NEW A, NEW S, A = {ctx, cur, cur_comp}, S = {cur_comp},
         NEW n \in {"lhs", "rhs", "elem_val", "arg_v", "cond_val", "v", "rhs_val", "return_val"},
         NEW x, x = Local(n), NEW B, NEW T, B = A \cup {x}, T = S \cup {x}
  PROVE  /\ Leads(Ctx(A, S), PopValue(x), Ctx(B, T))
         /\ x \notin S /\ TypeOf(x) = "Literal" /\ NoCopies({x}) /\ NoCopies(B) /\ NoCopies(T)
         /\ x # Local("cell") /\ x # popped /\ x # res /\ x # lit /\ x # func_val /\ x # cur_comp
<1>1. x \notin S /\ popped \notin S /\ Local("cell") \notin S
  BY FinalLocals
<1>2. {cur, ctx} \subseteq A /\ NoCopies(A) /\ NoCopies(S)
  BY FinalLocals
<1>3. TypeOf(x) = "Literal"
  BY DeclaredTypes
<1>4. /\ x # Local("cell") /\ x # popped /\ x # res /\ x # lit /\ x # func_val /\ x # cur_comp
  BY LocalNames DEF popped, res, lit, func_val, cur_comp
<1>5. NoCopies({x})
  BY NoCopiesOf
<1>6. NoCopies(B) /\ NoCopies(T)
  BY <1>2, <1>5, NoCopiesOf
<1>7. Leads(Ctx(A, S), PopValue(x), Ctx(B, T))
  BY <1>1, <1>2, <1>3, <1>4, <1>5, PopValueLeads
<1> QED  BY <1>1, <1>3, <1>4, <1>5, <1>6, <1>7

LEMMA OperateIn ==
  ASSUME NEW A, NEW S, NEW x \in A, TypeOf(x) = "Literal"
  PROVE  /\ Follows(Ctx(A, S), [op |-> "Operate", x |-> x], Ctx(A, S))
         /\ \A y \in A : Follows(Ctx(A, S), [op |-> "Operate", x |-> x, y |-> y], Ctx(A, S))
<1>1. ASSUME NEW c, NEW y \in A,
             c = [op |-> "Operate", x |-> x] \/ c = [op |-> "Operate", x |-> x, y |-> y]
      PROVE  Follows(Ctx(A, S), c, Ctx(A, S))
  <2>1. c.op = "Operate" /\ c.x = x /\ ("y" \in DOMAIN c => c.y = y)
    BY <1>1
  <2>2. c \in {[op |-> "Operate", x |-> c.x], [op |-> "Operate", x |-> c.x, y |-> c.y]}
    BY <1>1
  <2>3. OperateRule(A, S, c, Ctx(A, S))
    BY <2>1, <2>2 DEF OperateRule
  <2>4. HandlerRule(A, S, c, Ctx(A, S))
    BY <2>1, <2>3 DEF HandlerRule
  <2> QED  BY <2>1, <2>4, OwnStatement DEF OwnOps
<1> QED  BY <1>1

LEMMA BinExpFinalLeads ==
  ASSUME NEW P, NEW Q, Rule(P, I, Q), BinExpFinal
  PROVE  Replaced(P, Q)
<1>14. PICK A, S : A = {ctx, cur, cur_comp} /\ S = {cur_comp}
  OBVIOUS
<1>15. PICK r, B, T : r = Local("rhs") /\ B = A \cup {r} /\ T = S \cup {r}
  OBVIOUS
<1>16. PICK l : l = Local("lhs")
  OBVIOUS
<1>2. PICK C, D, U : C = B \cup {l} /\ D = C \cup {res} /\ U = T \cup {l}
  OBVIOUS
<1>3. PICK a, b, c, d, e, f :
        /\ a = PopValue(r) /\ b = PopValue(l) /\ c = AddResult(Unset)
        /\ d = <<[op |-> "Operate", x |-> l, y |-> r]>>
        /\ e = SetRvalue(l) /\ f = <<Destroy(l), Destroy(r)>>
  OBVIOUS
<1>4. At("Evaluate") /\ I.x = cur_comp /\ Do(a \o b \o c \o d \o e \o f)
  BY <1>3, <1>15, <1>16 DEF BinExpFinal, On
<1>5. /\ Leads(Ctx(A, S), PopValue(r), Ctx(B, T)) /\ r \notin S /\ TypeOf(r) = "Literal"
      /\ NoCopies(B) /\ NoCopies(T) /\ r # popped /\ r # Local("cell") /\ r # res
  <2>1. Leads(Ctx(A, S), PopValue(r), Ctx(B, T)) /\ r \notin S /\ TypeOf(r) = "Literal"
    BY <1>14, <1>15, PopFirst
  <2>2. r # popped /\ r # Local("cell") /\ r # res
    BY <1>14, <1>15, PopFirst
  <2>3. NoCopies({r}) /\ NoCopies(A) /\ NoCopies(S)
    BY <1>14, <1>15, NoCopiesOf, FinalLocals
  <2>4. NoCopies(B) /\ NoCopies(T)
    BY <2>3, <1>15, NoCopiesOf
  <2> QED  BY <2>1, <2>2, <2>4
<1>6. /\ l \notin S /\ TypeOf(l) = "Literal" /\ NoCopies({l})
      /\ l # Local("cell") /\ l # popped /\ l # res /\ l # r
  <2>1. PICK V, W : V = A \cup {l} /\ W = S \cup {l}
    OBVIOUS
  <2>2. l # r
    BY <1>15, <1>16, LocalNames
  <2>3. l \notin S /\ TypeOf(l) = "Literal" /\ l # Local("cell") /\ l # popped /\ l # res
    BY <1>14, <1>16, <2>1, PopFirst
  <2>4. NoCopies({l})
    BY <1>16, NoCopiesOf
  <2> QED  BY <2>2, <2>3, <2>4
<1>7. res \notin S /\ popped \notin S /\ Local("cell") \notin S
  BY <1>14, FinalLocals
<1>8. Leads(Ctx(B, T), b, Ctx(C, U))
  <2>1. popped \notin T /\ l \notin T /\ Local("cell") \notin T /\ {cur, ctx} \subseteq B
    BY <1>14, <1>15, <1>2, <1>5, <1>6, <1>7
  <2> QED  BY <2>1, <1>2, <1>3, <1>5, <1>6, PopValueLeads
<1>9. Leads(Ctx(C, U), c, Ctx(D, U))
  <2>1. cur \in C /\ res \notin U
    BY <1>14, <1>15, <1>2, <1>5, <1>6, <1>7
  <2> QED  BY <2>1, <1>2, <1>3, AddResultLeads
<1>10. Leads(Ctx(D, U), d, Ctx(D, U))
  <2>1. l \in D /\ r \in D
    BY <1>2, <1>15
  <2> QED  BY <2>1, <1>3, <1>6, OperateIn, LeadsOne
<1>11. Leads(Ctx(D, U), e, Ctx(D, T))
  <2>1. l \in U /\ res \in D /\ T = U \ {l}
    BY <1>2, <1>15, <1>6
  <2> QED  BY <2>1, <1>3, <1>6, SetRvalueLeads
<1>12. Leads(Ctx(D, T), f, Ctx(D, S))
  <2>1. l \in D /\ r \in D /\ T = T \ {l} /\ S = T \ {r} /\ TypeOf(l) \in Pooled /\ TypeOf(r) \in Pooled
    BY <1>2, <1>15, <1>5, <1>6, PooledTypes
  <2>2. Follows(Ctx(D, T), Destroy(l), Ctx(D, T))
    BY <2>1, DestroyIn
  <2>3. Follows(Ctx(D, T), Destroy(r), Ctx(D, S))
    BY <2>1, DestroyIn
  <2> QED  BY <2>2, <2>3, <1>3, LeadsTwo
<1>13. Leads(Ctx(A, S), a \o b \o c \o d \o e \o f, Ctx(D, S)) /\ A \subseteq D
  BY <1>2, <1>15, <1>3, <1>5, <1>8, <1>9, <1>10, <1>11, <1>12, LeadsOnSix
<1> QED  BY <1>14, <1>4, <1>13, InCompStep

LEMMA MonExpFinalLeads ==
  ASSUME NEW P, NEW Q, Rule(P, I, Q), MonExpFinal
  PROVE  Replaced(P, Q)
<1>1. PICK A, S, v : A = {ctx, cur, cur_comp} /\ S = {cur_comp} /\ v = Local("arg_v")
  OBVIOUS
<1>2. PICK B, C, T : B = A \cup {v} /\ C = B \cup {res} /\ T = S \cup {v}
  OBVIOUS
<1>3. PICK a, b, c, d, e :
        /\ a = PopValue(v) /\ b = AddResult(Unset) /\ c = <<[op |-> "Operate", x |-> v]>>
        /\ d = SetRvalue(v) /\ e = <<Destroy(v)>>
  OBVIOUS
<1>4. At("Evaluate") /\ I.x = cur_comp /\ Do(a \o b \o c \o d \o e)
  BY <1>1, <1>3 DEF MonExpFinal, On
<1>5. /\ Leads(Ctx(A, S), PopValue(v), Ctx(B, T)) /\ v \notin S /\ TypeOf(v) = "Literal" /\ v # res
  BY <1>1, <1>2, PopFirst
<1>6. res \notin T /\ cur \in B /\ v \in C /\ v \in T /\ res \in C /\ S = T \ {v} /\ S = S \ {v}
  <2>1. res \notin S
    BY <1>1, FinalLocals
  <2> QED  BY <2>1, <1>1, <1>2, <1>5
<1>7. Leads(Ctx(B, T), b, Ctx(C, T))
  BY <1>2, <1>3, <1>6, AddResultLeads
<1>8. Leads(Ctx(C, T), c, Ctx(C, T))
  BY <1>3, <1>5, <1>6, OperateIn, LeadsOne
<1>9. Leads(Ctx(C, T), d, Ctx(C, S))
  BY <1>3, <1>5, <1>6, SetRvalueLeads
<1>10. Leads(Ctx(C, S), e, Ctx(C, S))
  BY <1>3, <1>5, <1>6, PooledTypes, DestroyIn, LeadsOne
<1>11. Leads(Ctx(A, S), a \o b \o c \o d \o e, Ctx(C, S)) /\ A \subseteq C
  BY <1>2, <1>3, <1>5, <1>7, <1>8, <1>9, <1>10, LeadsOnFive
<1> QED  BY <1>1, <1>4, <1>11, InCompStep

LEMMA TupleExpFinalLeads ==
  ASSUME Owned, Typed, NEW P, NEW Q, Describes(P), Rule(P, I, Q), TupleExpFinal
  PROVE  Replaced(P, Q)
<1>1. PICK A, S, v : A = {ctx, cur, cur_comp} /\ S = {cur_comp} /\ v = Local("elem_val")
  OBVIOUS
<1>2. PICK B, C, D, T : B = A \cup {res} /\ C = B \cup {v} /\ D = C \cup {lit} /\ T = S \cup {v}
  OBVIOUS
<1>3. At("Evaluate") /\ I.x = cur_comp
  BY DEF TupleExpFinal, On
<1>4. PICK n \in Nat : n = Final.size
  <2>1. Counted(Final) /\ Final.type = "tuple_exp_final"
    BY <1>3, FinalCounted DEF TupleExpFinal, On, Final
  <2> QED  BY <2>1 DEF Counted
<1>5. PICK R, e, F :
        /\ e = <<[op |-> "mutable_rvalue"], [op |-> "mutable_tuple_val"],
                 Give(v, lit, "elem"), Destroy(v)>>
        /\ R = PopValue(v) \o e
        /\ F = [i \in 1 .. n |-> R]
  OBVIOUS
<1>6. PICK a : a = AddResult(Unset)
  OBVIOUS
<1>7. Do(a \o FlattenSeq(F))
  BY <1>1, <1>4, <1>5, <1>6 DEF TupleExpFinal, Concat
<1>8. /\ v \notin S /\ TypeOf(v) = "Literal" /\ NoCopies({v}) /\ v # lit
      /\ v # Local("cell") /\ v # popped /\ v # res
  <2>1. PICK V : V = A \cup {v}
    OBVIOUS
  <2>2. v \notin S /\ TypeOf(v) = "Literal"
    BY <1>1, <1>2, <2>1, PopFirst
  <2>3. NoCopies({v})
    BY <1>1, NoCopiesOf
  <2>4. v # Local("cell") /\ v # popped /\ v # res /\ v # lit
    BY <1>1, LocalNames DEF popped, res, lit
  <2> QED  BY <2>2, <2>3, <2>4
<1>9. res \notin S /\ popped \notin S /\ Local("cell") \notin S /\ lit \notin S
  BY <1>1, FinalLocals
<1>10. NoCopies(B) /\ NoCopies(S)
  <2>1. NoCopies({res})
    BY NoCopiesOf DEF res
  <2>2. NoCopies(A) /\ NoCopies(S)
    BY <1>1, FinalLocals
  <2> QED  BY <2>1, <2>2, <1>2, NoCopiesOf
<1>11. Leads(Ctx(A, S), a, Ctx(B, S))
  <2>1. cur \in A
    BY <1>1
  <2> QED  BY <2>1, <1>2, <1>6, <1>9, AddResultLeads
<1>12. Leads(Ctx(B, S), PopValue(v), Ctx(C, T))
  <2>1. {cur, ctx} \subseteq B
    BY <1>1, <1>2
  <2> QED  BY <2>1, <1>2, <1>8, <1>9, <1>10, PopValueLeads
<1>13. Leads(Ctx(C, T), e, Ctx(D, S))
  <2>1. Follows(Ctx(C, T), [op |-> "mutable_rvalue"], Ctx(D, T))
    <3>1. PICK c : c = [op |-> "mutable_rvalue"]
      OBVIOUS
    <3>2. MutableRvalueRule(C, T, c, Ctx(D, T))
      BY <3>1, <1>2, <1>8, <1>9 DEF MutableRvalueRule
    <3>3. HandlerRule(C, T, c, Ctx(D, T)) /\ c.op \in OwnOps \ {"Evaluate"}
      BY <3>1, <3>2 DEF HandlerRule, OwnOps
    <3> QED  BY <3>1, <3>3, OwnStatement
  <2>2. Follows(Ctx(D, T), [op |-> "mutable_tuple_val"], Ctx(D, T))
    <3>1. PICK c : c = [op |-> "mutable_tuple_val"]
      OBVIOUS
    <3>2. LookRule(D, T, c, Ctx(D, T))
      BY <3>1, <1>2 DEF LookRule
    <3>3. HandlerRule(D, T, c, Ctx(D, T)) /\ c.op \in OwnOps \ {"Evaluate"}
      BY <3>1, <3>2 DEF HandlerRule, OwnOps
    <3> QED  BY <3>1, <3>3, OwnStatement
  <2>3. Follows(Ctx(D, T), Give(v, lit, "elem"), Ctx(D, S))
    <3>1. "elem" \in Fields(TypeOf(lit)) /\ TypeOf(v) = ChildType["elem"]
      BY <1>8, DeclaredTypes, FieldSets DEF ChildType
    <3>2. v \in T /\ lit \in D /\ S = T \ {v}
      BY <1>2, <1>8
    <3> QED  BY <3>1, <3>2, GiveIn
  <2>4. Follows(Ctx(D, S), Destroy(v), Ctx(D, S))
    <3>1. v \in D /\ TypeOf(v) \in Pooled /\ S = S \ {v}
      BY <1>2, <1>8, PooledTypes
    <3> QED  BY <3>1, DestroyIn
  <2> QED  BY <2>1, <2>2, <2>3, <2>4, <1>5, LeadsFour
<1>14. Leads(Ctx(B, S), R, Ctx(B, S))
  <2>1. Leads(Ctx(B, S), R, Ctx(D, S)) /\ B \subseteq D
    BY <1>2, <1>5, <1>12, <1>13, LeadsOn
  <2> QED  BY <2>1, CtxLess, Weaker, LeadsWeaker
<1>15. Leads(Ctx(B, S), FlattenSeq(F), Ctx(B, S))
  <2>1. F = [i \in 1 .. n |-> F[i]] /\ \A i \in 1 .. n : F[i] = R
    BY <1>5
  <2> QED  BY <2>1, <1>14, LeadsRounds
<1>16. Leads(Ctx(A, S), a \o FlattenSeq(F), Ctx(B, S)) /\ A \subseteq B
  BY <1>2, <1>11, <1>15, LeadsOn
<1> QED  BY <1>1, <1>3, <1>7, <1>16, InCompStep

LEMMA IgnoreOneResultLeads ==
  ASSUME NEW P, NEW Q, Rule(P, I, Q), IgnoreOneResult
  PROVE  Replaced(P, Q)
<1>1. PICK A, S, B, T : /\ A = {ctx, cur, cur_comp} /\ S = {cur_comp}
                       /\ B = A \cup {popped} /\ T = S \cup {popped}
  OBVIOUS
<1>2. PICK cs : cs = <<Take(cur, "result", popped), Destroy(popped)>>
  OBVIOUS
<1>3. At("Evaluate") /\ I.x = cur_comp /\ Do(cs)
  BY <1>2 DEF IgnoreOneResult, On
<1>4. cur \in A /\ popped \notin S
  BY <1>1, FinalLocals
<1>5. /\ "result" \in Fields(TypeOf(cur)) /\ TypeOf(popped) = ChildType["result"]
      /\ ChildType["result"] \in Pooled
  BY DeclaredTypes, FieldSets, PooledTypes DEF ChildType
<1>6. Follows(Ctx(A, S), Take(cur, "result", popped), Ctx(B, T))
  BY <1>1, <1>4, <1>5, TakeIn
<1>7. Follows(Ctx(B, T), Destroy(popped), Ctx(A, S))
  <2>1. popped \in B /\ A \subseteq B /\ S = T \ {popped}
    BY <1>1, <1>4
  <2> QED  BY <2>1, <1>5, DestroyIn
<1>8. Leads(Ctx(A, S), cs, Ctx(A, S))
  BY <1>2, <1>6, <1>7, LeadsTwo
<1> QED  BY <1>1, <1>3, <1>8, InCompStep

LEMMA CellOfIn ==
  ASSUME NEW A, NEW S, NEW x \in A, ctx \in A, NEW y, y = Local("cell"), y \notin S,
         NEW B, B = A \cup {y}
  PROVE  Follows(Ctx(A, S), [op |-> "CellOf", x |-> x], Ctx(B, S))
<1>1. PICK c : c = [op |-> "CellOf", x |-> x]
  OBVIOUS
<1>2. CellOfRule(A, S, c, Ctx(B, S))
  BY <1>1 DEF CellOfRule
<1>3. HandlerRule(A, S, c, Ctx(B, S)) /\ c.op \in OwnOps \ {"Evaluate"}
  BY <1>1, <1>2 DEF HandlerRule, OwnOps
<1> QED  BY <1>1, <1>3, OwnStatement

LEMMA AssignStmtFinalLeads ==
  ASSUME NEW P, NEW Q, Rule(P, I, Q), AssignStmtFinal
  PROVE  Replaced(P, Q)
<1>1. PICK A, S, v, y : /\ A = {ctx, cur, cur_comp} /\ S = {cur_comp}
                       /\ v = Local("rhs_val") /\ y = Local("cell")
  OBVIOUS
<1>2. PICK B, C, D, T, U : /\ B = A \cup {v} /\ C = B \cup {popped} /\ D = C \cup {y}
                          /\ T = S \cup {v} /\ U = T \cup {popped}
  OBVIOUS
<1>3. PICK a, b, d : /\ a = PopValue(v)
                    /\ b = <<Take(cur, "result", popped), [op |-> "CellOf", x |-> popped]>>
                    /\ d = <<Swap(y, v), Destroy(popped), Destroy(v)>>
  OBVIOUS
<1>4. At("Evaluate") /\ I.x = cur_comp /\ Do(a \o (b \o d))
  <2>1. PICK e : e = <<Take(cur, "result", popped), [op |-> "CellOf", x |-> popped], Swap(y, v),
                      Destroy(popped), Destroy(v)>>
    OBVIOUS
  <2>2. At("Evaluate") /\ I.x = cur_comp /\ Do(a \o e)
    BY <2>1, <1>1, <1>3 DEF AssignStmtFinal, On
  <2>3. e = b \o d
    BY <2>1, <1>3
  <2> QED  BY <2>2, <2>3
<1>5. Leads(Ctx(A, S), a, Ctx(B, T)) /\ v \notin S /\ TypeOf(v) = "Literal"
  BY <1>1, <1>2, <1>3, PopFirst
<1>6. v # y /\ v # popped
  BY <1>1, <1>2, PopFirst
<1>7. popped \notin S /\ y \notin S /\ cur \in A /\ ctx \in A
  BY <1>1, FinalLocals
<1>8. TypeOf(popped) = "Result" /\ TypeOf(y) = "Literal" /\ popped # y
  BY <1>1, DeclaredTypes
<1>9. Leads(Ctx(B, T), b, Ctx(D, U))
  <2>1. Follows(Ctx(B, T), Take(cur, "result", popped), Ctx(C, U))
    <3>1. /\ "result" \in Fields(TypeOf(cur)) /\ TypeOf(popped) = ChildType["result"]
          /\ ChildType["result"] \in Pooled
      BY DeclaredTypes, FieldSets, PooledTypes DEF ChildType
    <3>2. cur \in B /\ popped \notin T
      BY <1>2, <1>6, <1>7
    <3> QED  BY <3>1, <3>2, <1>2, TakeIn
  <2>2. Follows(Ctx(C, U), [op |-> "CellOf", x |-> popped], Ctx(D, U))
    <3>1. popped \in C /\ ctx \in C /\ y \notin U
      BY <1>2, <1>6, <1>7, <1>8
    <3> QED  BY <3>1, <1>1, <1>2, CellOfIn
  <2> QED  BY <2>1, <2>2, <1>3, LeadsTwo
<1>10. Leads(Ctx(D, U), d, Ctx(D, S))
  <2>1. y \in D /\ v \in D /\ popped \in D /\ T = U \ {popped} /\ S = T \ {v}
    BY <1>2, <1>5, <1>6, <1>7
  <2>2. Follows(Ctx(D, U), Swap(y, v), Ctx(D, U))
    BY <2>1, <1>5, <1>8, SwapIn
  <2>3. Follows(Ctx(D, U), Destroy(popped), Ctx(D, T))
    BY <2>1, <1>8, PooledTypes, DestroyIn
  <2>4. Follows(Ctx(D, T), Destroy(v), Ctx(D, S))
    BY <2>1, <1>5, PooledTypes, DestroyIn
  <2> QED  BY <2>2, <2>3, <2>4, <1>3, LeadsThree
<1>11. Leads(Ctx(B, T), b \o d, Ctx(D, S))
  BY <1>9, <1>10, LeadsOn
<1>12. Leads(Ctx(A, S), a \o (b \o d), Ctx(D, S)) /\ A \subseteq D
  BY <1>2, <1>5, <1>11, LeadsOn
<1> QED  BY <1>1, <1>4, <1>12, InCompStep

LEMMA IfElseFinalLeads ==
  ASSUME NEW P, NEW Q, Rule(P, I, Q), IfElseFinal
  PROVE  Replaced(P, Q)
<1>1. PICK A, S, v : A = {ctx, cur, cur_comp} /\ S = {cur_comp} /\ v = Local("cond_val")
  OBVIOUS
<1>2. PICK B, T : B = A \cup {v} /\ T = S \cup {v}
  OBVIOUS
<1>3. PICK a, b : /\ a = PopValue(v)
                 /\ b = <<[op |-> "Branch", x |-> v], Destroy(v), Write(cur_comp, Unset)>>
  OBVIOUS
<1>4. At("Evaluate") /\ I.x = cur_comp /\ Do(a \o b)
  BY <1>1, <1>3 DEF IfElseFinal, On
<1>5. Leads(Ctx(A, S), a, Ctx(B, T)) /\ v \notin S /\ TypeOf(v) = "Literal"
  BY <1>1, <1>2, <1>3, PopFirst
<1>6. Follows(Ctx(B, T), [op |-> "Branch", x |-> v], Ctx(B, T))
  <2>1. PICK c : c = [op |-> "Branch", x |-> v]
    OBVIOUS
  <2>2. \A f : tmp(f) \notin T
    <3>1. S \subseteq {cur_comp, exp, stmt}
      BY <1>1
    <3>2. \A f : tmp(f) \notin S
      BY <3>1, HandlerLocals
    <3>3. v[1] # "tmp"
      BY <1>1, LocalNames
    <3>4. \A f : tmp(f) # v
      BY <3>3, TemporaryTypes
    <3> QED  BY <3>2, <3>4, <1>2
  <2>3. v \in B /\ cur \in B /\ cur_comp \in B
    BY <1>1, <1>2
  <2>4. BranchRule(B, T, c, Ctx(B, T))
    BY <2>1, <2>2, <2>3 DEF BranchRule
  <2>5. HandlerRule(B, T, c, Ctx(B, T)) /\ c.op \in OwnOps \ {"Evaluate"}
    BY <2>1, <2>4 DEF HandlerRule, OwnOps
  <2> QED  BY <2>1, <2>5, OwnStatement
<1>7. Follows(Ctx(B, T), Destroy(v), Ctx(B, S))
  <2>1. v \in B /\ S = T \ {v} /\ TypeOf(v) \in Pooled
    BY <1>2, <1>5, PooledTypes
  <2> QED  BY <2>1, DestroyIn
<1>8. Follows(Ctx(B, S), Write(cur_comp, Unset), Ctx(B, S))
  <2>1. Counted(Unset)
    BY DEF Counted, Unset
  <2>2. cur_comp \in B
    BY <1>1, <1>2
  <2> QED  BY <2>1, <2>2, WriteIn
<1>9. Leads(Ctx(B, T), b, Ctx(B, S))
  BY <1>3, <1>6, <1>7, <1>8, LeadsThree
<1>10. Leads(Ctx(A, S), a \o b, Ctx(B, S)) /\ A \subseteq B
  BY <1>2, <1>5, <1>9, LeadsOn
<1> QED  BY <1>1, <1>4, <1>10, InCompStep

LEMMA PrintFinalLeads ==
  ASSUME NEW P, NEW Q, Rule(P, I, Q), PrintFinal
  PROVE  Replaced(P, Q)
<1>1. PICK A, S, v : A = {ctx, cur, cur_comp} /\ S = {cur_comp} /\ v = Local("v")
  OBVIOUS
<1>2. PICK B, T : B = A \cup {v} /\ T = S \cup {v}
  OBVIOUS
<1>3. PICK a, b : a = PopValue(v) /\ b = <<[op |-> "Output", x |-> v], Destroy(v)>>
  OBVIOUS
<1>4. At("Evaluate") /\ I.x = cur_comp /\ Do(a \o b)
  BY <1>1, <1>3 DEF PrintFinal, On
<1>5. Leads(Ctx(A, S), a, Ctx(B, T)) /\ v \notin S /\ TypeOf(v) = "Literal"
  BY <1>1, <1>2, <1>3, PopFirst
<1>6. Follows(Ctx(B, T), [op |-> "Output", x |-> v], Ctx(B, T))
  <2>1. PICK c : c = [op |-> "Output", x |-> v]
    OBVIOUS
  <2>2. v \in B
    BY <1>2
  <2>3. LookRule(B, T, c, Ctx(B, T))
    BY <2>1, <2>2 DEF LookRule
  <2>4. HandlerRule(B, T, c, Ctx(B, T)) /\ c.op \in OwnOps \ {"Evaluate"}
    BY <2>1, <2>3 DEF HandlerRule, OwnOps
  <2> QED  BY <2>1, <2>4, OwnStatement
<1>7. Follows(Ctx(B, T), Destroy(v), Ctx(B, S))
  <2>1. v \in B /\ S = T \ {v} /\ TypeOf(v) \in Pooled
    BY <1>2, <1>5, PooledTypes
  <2> QED  BY <2>1, DestroyIn
<1>8. Leads(Ctx(B, T), b, Ctx(B, S))
  BY <1>3, <1>6, <1>7, LeadsTwo
<1>9. Leads(Ctx(A, S), a \o b, Ctx(B, S)) /\ A \subseteq B
  BY <1>2, <1>5, <1>8, LeadsOn
<1> QED  BY <1>1, <1>4, <1>9, InCompStep

(***************************************************************************)
(* The statements of the evaluator's own.                                  *)
(***************************************************************************)
LEMMA OwnRule ==
  ASSUME NEW P, NEW Q, Rule(P, I, Q), I.op \in OwnOps \ {"Evaluate"}
  PROVE  \E A, S : P = Ctx(A, S) /\ HandlerRule(A, S, I, Q)
<1>1. I.op \notin {"Allocate", "Make", "Move", "Destroy", "Take", "Release", "Give", "Add",
                   "Point", "Write", "Set", "Swap", "SwapField", "Copy", "Assign", "Reset",
                   "Leave", "Evaluate"}
  BY DEF OwnOps
<1> QED  BY <1>1 DEF Rule

LEMMA ValueOfLeads ==
  ASSUME NEW P, NEW Q, Rule(P, I, Q), ValueOf
  PROVE  Replaced(P, Q)
<1>1. I.op = "ValueOf"
  BY DEF ValueOf, At, I
<1>2. PICK A, S : P = Ctx(A, S) /\ HandlerRule(A, S, I, Q)
  BY <1>1, OwnRule DEF OwnOps
<1>3. ValueOfRule(A, S, I, Q)
  BY <1>1, <1>2 DEF HandlerRule
<1>4. PICK x, to, y, addr : /\ x = I.x /\ to = I.to /\ y = Local("cell")
                           /\ addr = Value(I.x).lvalue_ref + 1
  OBVIOUS
<1>5. PICK B, T, C : B = A \cup {to} /\ T = S \cup {to} /\ C = B \cup {y}
  OBVIOUS
<1>6. /\ x \in A /\ ctx \in A /\ TypeOf(x) = "Result" /\ TypeOf(to) = "Literal"
      /\ to \notin S /\ y \notin S /\ to # y /\ Q = Ctx(B, T)
  BY <1>3, <1>4, <1>5 DEF ValueOfRule
<1>7. NoCopies(C) /\ NoCopies(T)
  <2>1. NoCopies(A) /\ NoCopies(S) /\ NoCopies({to})
    BY <1>3, <1>4 DEF ValueOfRule
  <2>2. NoCopies({y})
    BY <1>4, NoCopiesOf
  <2>3. NoCopies(B) /\ NoCopies(T)
    BY <2>1, <1>5, NoCopiesOf
  <2> QED  BY <2>2, <2>3, <1>5, NoCopiesOf
<1>8. Follows(Ctx(A, S), Allocate("Literal", to), Q)
  BY <1>5, <1>6, PooledTypes, AllocateIn
<1>9. SUFFICES \E cs : Do(cs) /\ Leads(P, cs, Q)
  BY DEF Replaced, Do
<1>10. \/ Do(<<Take(x, "rvalue", to)>>)
       \/ Do(<<Allocate("Literal", to), Point(y, ctx, "store", addr), Copy(y, to)>>)
       \/ Do(<<Allocate("Literal", to)>>)
  BY <1>4 DEF ValueOf
<1>11. CASE Do(<<Take(x, "rvalue", to)>>)
  <2>1. /\ "rvalue" \in Fields(TypeOf(x)) /\ TypeOf(to) = ChildType["rvalue"]
        /\ ChildType["rvalue"] \in Pooled
    BY <1>6, FieldSets, PooledTypes DEF ChildType
  <2>2. Follows(P, Take(x, "rvalue", to), Q)
    BY <2>1, <1>2, <1>5, <1>6, TakeIn
  <2> QED  BY <2>2, <1>11, LeadsOne
<1>12. CASE Do(<<Allocate("Literal", to), Point(y, ctx, "store", addr), Copy(y, to)>>)
  <2>1. Follows(Ctx(B, T), Point(y, ctx, "store", addr), Ctx(C, T))
    <3>1. "store" \in Fields(TypeOf(ctx)) /\ TypeOf(y) = ChildType["store"]
      BY <1>4, DeclaredTypes, FieldSets DEF ChildType
    <3>2. ctx \in B /\ y \notin T
      BY <1>5, <1>6
    <3> QED  BY <3>1, <3>2, <1>5, PointIn
  <2>2. Follows(Ctx(C, T), Copy(y, to), Ctx(C, T))
    <3>1. y \in C /\ to \in C /\ TypeOf(y) = TypeOf(to)
      BY <1>4, <1>5, <1>6, DeclaredTypes
    <3> QED  BY <3>1, <1>7, CopyIn
  <2>3. AtLeast(Ctx(C, T), Q)
    BY <1>5, <1>6, CtxLess
  <2>4. Leads(P, <<Allocate("Literal", to), Point(y, ctx, "store", addr), Copy(y, to)>>, Ctx(C, T))
    BY <2>1, <2>2, <1>2, <1>6, <1>8, LeadsThree
  <2>5. Leads(P, <<Allocate("Literal", to), Point(y, ctx, "store", addr), Copy(y, to)>>, Q)
    BY <2>3, <2>4, Weaker, LeadsWeaker
  <2> QED  BY <2>5, <1>12
<1>13. CASE Do(<<Allocate("Literal", to)>>)
  BY <1>2, <1>8, <1>13, LeadsOne
<1> QED  BY <1>10, <1>11, <1>12, <1>13

(***************************************************************************)
(* The evaluator's own statements.                                         *)
(***************************************************************************)
LEMMA OperateLeads ==
  ASSUME NEW P, NEW Q, Rule(P, I, Q), Operate
  PROVE  Replaced(P, Q)
<1>1. I.op = "Operate"
  BY DEF Operate, At, I
<1>2. PICK A, S : P = Ctx(A, S) /\ HandlerRule(A, S, I, Q)
  BY <1>1, OwnRule DEF OwnOps
<1>3. OperateRule(A, S, I, Q)
  BY <1>1, <1>2 DEF HandlerRule
<1>4. PICK x : x = I.x
  OBVIOUS
<1>5. x \in A /\ TypeOf(x) # "Computation" /\ Q = Ctx(A, S)
  BY <1>3, <1>4 DEF OperateRule
<1>6. PICK v : Do(<<Write(x, v)>>)
  BY <1>4 DEF Operate
<1>7. Leads(P, <<Write(x, v)>>, Q)
  BY <1>2, <1>5, WriteIn, LeadsOne
<1> QED  BY <1>6, <1>7 DEF Replaced, Do

LEMMA MutableRvalueLeads ==
  ASSUME NEW P, NEW Q, Rule(P, I, Q), MutableRvalue
  PROVE  Replaced(P, Q)
<1>1. I.op = "mutable_rvalue"
  BY DEF MutableRvalue, At, I
<1>2. PICK A, S : P = Ctx(A, S) /\ HandlerRule(A, S, I, Q)
  BY <1>1, OwnRule DEF OwnOps
<1>3. MutableRvalueRule(A, S, I, Q)
  BY <1>1, <1>2 DEF HandlerRule
<1>4. PICK B : B = A \cup {lit}
  OBVIOUS
<1>5. res \in A /\ lit \notin S /\ Q = Ctx(B, S)
  BY <1>3, <1>4 DEF MutableRvalueRule
<1>6. /\ TypeOf(res) = "Result" /\ TypeOf(lit) = "Literal" /\ "Literal" \in Types
      /\ "rvalue" \in Fields(TypeOf(res)) /\ ChildType["rvalue"] = "Literal"
  BY DeclaredTypes, FieldSets, PooledTypes DEF ChildType
<1>7. SUFFICES \E cs : Do(cs) /\ Leads(P, cs, Q)
  BY DEF Replaced, Do
<1>8. CASE Do(<<Point(lit, res, "rvalue", 1)>>)
  <2>1. Follows(P, Point(lit, res, "rvalue", 1), Q)
    BY <1>2, <1>4, <1>5, <1>6, PointIn
  <2> QED  BY <2>1, <1>8, LeadsOne
<1>9. CASE Do(<<Write(res, Case("rvalue")), Add(res, "rvalue", "Literal", lit)>>)
  <2>1. Follows(Ctx(A, S), Write(res, Case("rvalue")), Ctx(A, S))
    BY <1>5, <1>6, WriteIn
  <2>2. Follows(Ctx(A, S), Add(res, "rvalue", "Literal", lit), Ctx(B, S))
    BY <1>4, <1>5, <1>6, AddIn
  <2> QED  BY <2>1, <2>2, <1>2, <1>5, <1>9, LeadsTwo
<1> QED  BY <1>8, <1>9 DEF MutableRvalue

LEMMA CellOfResultLeads ==
  ASSUME NEW P, NEW Q, Rule(P, I, Q), CellOfResult
  PROVE  Replaced(P, Q)
<1>1. I.op = "CellOf"
  BY DEF CellOfResult, At, I
<1>2. PICK A, S : P = Ctx(A, S) /\ HandlerRule(A, S, I, Q)
  BY <1>1, OwnRule DEF OwnOps
<1>3. CellOfRule(A, S, I, Q)
  BY <1>1, <1>2 DEF HandlerRule
<1>4. PICK y, B : y = Local("cell") /\ B = A \cup {y}
  OBVIOUS
<1>5. ctx \in A /\ y \notin S /\ Q = Ctx(B, S)
  BY <1>3, <1>4 DEF CellOfRule
<1>6. PICK n : Do(<<Point(y, ctx, "store", n)>>)
  BY <1>4 DEF CellOfResult
<1>7. "store" \in Fields(TypeOf(ctx)) /\ TypeOf(y) = ChildType["store"]
  BY <1>4, DeclaredTypes, FieldSets DEF ChildType
<1>8. Follows(P, Point(y, ctx, "store", n), Q)
  BY <1>2, <1>4, <1>5, <1>7, PointIn
<1>9. Leads(P, <<Point(y, ctx, "store", n)>>, Q)
  BY <1>8, LeadsOne
<1> QED  BY <1>6, <1>9 DEF Replaced, Do

LEMMA BranchLeads ==
  ASSUME Owned, Typed, NEW P, NEW Q, Describes(P), Rule(P, I, Q), Branch
  PROVE  Replaced(P, Q)
<1>1. I.op = "Branch"
  BY DEF Branch, At, I
<1>2. PICK A, S : P = Ctx(A, S) /\ HandlerRule(A, S, I, Q)
  BY <1>1, OwnRule DEF OwnOps
<1>3. BranchRule(A, S, I, Q)
  BY <1>1, <1>2 DEF HandlerRule
<1>4. PICK case \in {"if_case", "else_case"} :
        Do(Concat(Len(Of(cur_comp, case)), LAMBDA i : Transfer(cur_comp, case, cur, "comp")))
  <2>1. PICK c : c = IF AsBool(Value(I.x)) THEN "if_case" ELSE "else_case"
    OBVIOUS
  <2>2. Do(Concat(Len(Of(cur_comp, c)), LAMBDA i : Transfer(cur_comp, c, cur, "comp")))
    BY <2>1 DEF Branch
  <2>3. c \in {"if_case", "else_case"}
    BY <2>1
  <2> QED  BY <2>2, <2>3
<1>5. cur \in A /\ cur_comp \in A /\ tmp(case) \notin S /\ Q = Ctx(A, S)
  BY <1>3 DEF BranchRule
<1>6. /\ case \in Fields(TypeOf(cur_comp)) /\ "comp" \in Fields(TypeOf(cur))
      /\ ChildType[case] = ChildType["comp"]
  BY DeclaredTypes, FieldSets DEF ChildType
<1>7. PICK n \in Nat : n = Len(Of(cur_comp, case))
  BY <1>2, <1>5, <1>6, CtxOf, FieldLength
<1>8. PICK R, F : R = Transfer(cur_comp, case, cur, "comp") /\ F = [i \in 1 .. n |-> R]
  OBVIOUS
<1>9. Do(FlattenSeq(F))
  BY <1>4, <1>7, <1>8 DEF Concat
<1>10. Leads(P, R, P)
  BY <1>2, <1>5, <1>6, <1>8, TransferLeads
<1>11. Leads(P, FlattenSeq(F), P)
  <2>1. F = [i \in 1 .. n |-> F[i]] /\ \A i \in 1 .. n : F[i] = R
    BY <1>8
  <2> QED  BY <2>1, <1>10, LeadsRounds
<1> QED  BY <1>2, <1>5, <1>9, <1>11 DEF Replaced, Do

LEMMA ScheduleBodyLeads ==
  ASSUME Owned, Typed, NEW P, NEW Q, Describes(P), Rule(P, I, Q), ScheduleBody
  PROVE  Replaced(P, Q)
<1>1. I.op = "ScheduleBody"
  BY DEF ScheduleBody, At, I
<1>2. PICK A, S : P = Ctx(A, S) /\ HandlerRule(A, S, I, Q)
  BY <1>1, OwnRule DEF OwnOps
<1>3. ScheduleBodyRule(A, S, I, Q)
  BY <1>1, <1>2 DEF HandlerRule
<1>4. func_val \in A /\ cur \in A /\ new \notin S /\ tmp("body") \notin S /\ Q = Ctx(A, S)
  BY <1>3 DEF ScheduleBodyRule
<1>5. "body" \in Fields(TypeOf(func_val)) /\ ChildType["body"] = "Statement"
  BY DeclaredTypes, FieldSets DEF ChildType
<1>6. PICK n \in Nat : n = Len(Of(func_val, "body"))
  BY <1>2, <1>4, <1>5, CtxOf, FieldLength
<1>7. PICK R, F : R = ScheduleStmt(func_val, "body") /\ F = [i \in 1 .. n |-> R]
  OBVIOUS
<1>8. Do(FlattenSeq(F))
  BY <1>6, <1>7 DEF ScheduleBody, Concat
<1>9. Leads(P, R, P)
  BY <1>2, <1>4, <1>5, <1>7, ScheduleStmtLeads
<1>10. Leads(P, FlattenSeq(F), P)
  <2>1. F = [i \in 1 .. n |-> F[i]] /\ \A i \in 1 .. n : F[i] = R
    BY <1>7
  <2> QED  BY <2>1, <1>9, LeadsRounds
<1> QED  BY <1>2, <1>4, <1>8, <1>10 DEF Replaced, Do

LEMMA LookLeads ==
  ASSUME NEW P, NEW Q, Rule(P, I, Q), MutableTupleVal \/ MutableClosureVal \/ Enter \/ PopTailReturns
  PROVE  Replaced(P, Q)
<1>1. I.op \in {"mutable_tuple_val", "mutable_closure_val", "Enter", "PopTailReturns"}
  BY DEF MutableTupleVal, MutableClosureVal, Enter, PopTailReturns, At, I
<1>2. PICK A, S : P = Ctx(A, S) /\ HandlerRule(A, S, I, Q)
  BY <1>1, OwnRule DEF OwnOps
<1>3. LookRule(A, S, I, Q)
  BY <1>1, <1>2 DEF HandlerRule
<1>4. P = Q
  BY <1>2, <1>3 DEF LookRule
<1>5. SUFFICES \E cs : Do(cs) /\ Leads(P, cs, P)
  BY <1>4 DEF Replaced, Do
<1>6. CASE Do(<<>>)
  BY <1>6, LeadsNowhere
<1>7. ASSUME NEW x \in A, NEW v, TypeOf(x) # "Computation",
             Do(<<Write(x, v)>>) \/ Do(<<Set(x, v)>>)
      PROVE  \E cs : Do(cs) /\ Leads(P, cs, P)
  <2>1. Leads(P, <<Write(x, v)>>, P) /\ Leads(P, <<Set(x, v)>>, P)
    BY <1>2, <1>7, WriteIn, LeadsOne
  <2> QED  BY <2>1, <1>7
<1>8. CASE MutableTupleVal
  <2>1. I.op = "mutable_tuple_val"
    BY <1>8 DEF MutableTupleVal, At, I
  <2>2. lit \in A /\ TypeOf(lit) # "Computation"
    BY <2>1, <1>3, DeclaredTypes DEF LookRule
  <2>3. Do(<<>>) \/ Do(<<Write(lit, Case("tuple_val"))>>)
    BY <1>8 DEF MutableTupleVal
  <2> QED  BY <2>2, <2>3, <1>6, <1>7
<1>9. CASE MutableClosureVal
  <2>1. I.op = "mutable_closure_val"
    BY <1>9 DEF MutableClosureVal, At, I
  <2>2. func_val \in A /\ TypeOf(func_val) # "Computation"
    BY <2>1, <1>3, DeclaredTypes DEF LookRule
  <2>3. PICK v : Do(<<>>) \/ Do(<<Write(func_val, v)>>)
    BY <1>9 DEF MutableClosureVal
  <2> QED  BY <2>2, <2>3, <1>6, <1>7
<1>10. CASE Enter
  <2>1. I.op = "Enter"
    BY <1>10 DEF Enter, At, I
  <2>2. cur \in A /\ TypeOf(cur) # "Computation"
    BY <2>1, <1>3, DeclaredTypes DEF LookRule
  <2>3. PICK v : Do(<<Set(cur, v)>>)
    BY <1>10 DEF Enter
  <2> QED  BY <2>2, <2>3, <1>7
<1>11. CASE PopTailReturns
  <2>1. I.op = "PopTailReturns"
    BY <1>11 DEF PopTailReturns, At, I
  <2>2. PICK x, B, T : x = Local("tail") /\ B = A \cup {x} /\ T = S \cup {x}
    OBVIOUS
  <2>3. cur \in A /\ x \notin S
    BY <2>1, <2>2, <1>3 DEF LookRule
  <2>4. Do(<<Take(cur, "comp", x), Destroy(x), I>>) \/ Do(<<>>)
    BY <2>2, <1>11 DEF PopTailReturns
  <2>5. /\ "comp" \in Fields(TypeOf(cur)) /\ TypeOf(x) = ChildType["comp"]
        /\ ChildType["comp"] \in Pooled
    BY <2>2, DeclaredTypes, FieldSets, PooledTypes DEF ChildType
  <2>6. Follows(Ctx(A, S), Take(cur, "comp", x), Ctx(B, T))
    BY <2>2, <2>3, <2>5, TakeIn
  <2>7. Follows(Ctx(B, T), Destroy(x), Ctx(A, S))
    <3>1. x \in B /\ A \subseteq B /\ S = T \ {x}
      BY <2>2, <2>3
    <3> QED  BY <3>1, <2>5, DestroyIn
  <2>8. Follows(Ctx(A, S), I, Ctx(A, S))
    BY <1>2, <1>4, Weaker DEF Follows
  <2>9. Leads(P, <<Take(cur, "comp", x), Destroy(x), I>>, P)
    BY <2>6, <2>7, <2>8, <1>2, LeadsThree
  <2> QED  BY <2>4, <2>9, <1>6
<1> QED  BY <1>8, <1>9, <1>10, <1>11

(* What is printed leaves the messages alone.                              *)
LEMMA OutputLeads ==
  ASSUME NEW P, NEW Q, Rule(P, I, Q), Leads(Q, Tail(code), Rest), Output
  PROVE  Replaced(P, Q)
<1>1. I.op = "Output" /\ code' = Tail(code)
  BY DEF Output, At, I, Continue
<1>2. PICK A, S : P = Ctx(A, S) /\ HandlerRule(A, S, I, Q)
  BY <1>1, OwnRule DEF OwnOps
<1>3. LookRule(A, S, I, Q)
  BY <1>1, <1>2 DEF HandlerRule
<1>4. P = Q
  BY <1>2, <1>3 DEF LookRule
<1>5. PICK V : Tail(code) \in Seq(V)
  BY DEF Leads
<1>6. PICK t : t = Tail(code)
  OBVIOUS
<1>7. t = <<>> \o t
  BY <1>5, <1>6
<1> QED  BY <1>1, <1>4, <1>6, <1>7, LeadsNowhere DEF Replaced

LEMMA AssignParamLeads ==
  ASSUME NEW P, NEW Q, Rule(P, I, Q), AssignParam
  PROVE  Replaced(P, Q)
<1>1. I.op = "AssignParam"
  BY DEF AssignParam, At, I
<1>2. PICK A, S : P = Ctx(A, S) /\ HandlerRule(A, S, I, Q)
  BY <1>1, OwnRule DEF OwnOps
<1>3. AssignParamRule(A, S, I, Q)
  BY <1>1, <1>2 DEF HandlerRule
<1>4. PICK a, x, y : a = arg(I.i) /\ x = Local("value") /\ y = Local("cell")
  OBVIOUS
<1>5. PICK B, C, R, T : /\ B = A \cup {x} /\ C = B \cup {y}
                       /\ R = S \ {a} /\ T = R \cup {x}
  OBVIOUS
<1>6. ctx \in A /\ cur \in A /\ a \in S /\ x \notin S /\ y \notin S /\ Q = Ctx(A, R)
  BY <1>3, <1>4, <1>5 DEF AssignParamRule
<1>7. /\ TypeOf(a) = "Literal" /\ TypeOf(x) = "Literal" /\ TypeOf(y) = "Literal" /\ x # y
      /\ x \notin R /\ y \notin T /\ R = T \ {x} /\ R = R \ {x}
  <2>1. x # y
    BY <1>4, LocalNames
  <2>2. TypeOf(a) = "Literal" /\ TypeOf(x) = "Literal" /\ TypeOf(y) = "Literal"
    BY <1>4, NumberedTypes, DeclaredTypes
  <2> QED  BY <2>1, <2>2, <1>5, <1>6
<1>8. Follows(Ctx(A, S), Move(a, x), Ctx(B, T))
  BY <1>5, <1>6, <1>7, MoveIn
<1>9. \/ \E n : Do(<<Move(a, x), Point(y, ctx, "store", n), Swap(y, x), Destroy(x)>>)
      \/ \E v : Do(<<Move(a, x), Set(cur, v), Give(x, ctx, "store"), Destroy(x)>>)
  BY <1>4 DEF AssignParam
<1>10. "store" \in Fields(TypeOf(ctx)) /\ ChildType["store"] = "Literal" /\ "Literal" \in Pooled
  BY DeclaredTypes, FieldSets, PooledTypes DEF ChildType
<1>11. SUFFICES \E cs : Do(cs) /\ Leads(P, cs, Q)
  BY DEF Replaced, Do
<1>12. ASSUME NEW n, Do(<<Move(a, x), Point(y, ctx, "store", n), Swap(y, x), Destroy(x)>>)
       PROVE  \E cs : Do(cs) /\ Leads(P, cs, Q)
  <2>1. ctx \in B /\ y \in C /\ x \in C /\ A \subseteq C
    BY <1>5, <1>6
  <2>2. Follows(Ctx(B, T), Point(y, ctx, "store", n), Ctx(C, T))
    BY <2>1, <1>5, <1>7, <1>10, PointIn
  <2>3. Follows(Ctx(C, T), Swap(y, x), Ctx(C, T))
    BY <2>1, <1>7, SwapIn
  <2>4. Follows(Ctx(C, T), Destroy(x), Q)
    BY <2>1, <1>6, <1>7, <1>10, DestroyIn
  <2> QED  BY <2>2, <2>3, <2>4, <1>2, <1>8, <1>12, LeadsFour
<1>13. ASSUME NEW v, Do(<<Move(a, x), Set(cur, v), Give(x, ctx, "store"), Destroy(x)>>)
       PROVE  \E cs : Do(cs) /\ Leads(P, cs, Q)
  <2>1. cur \in B /\ ctx \in B /\ x \in B /\ x \in T /\ A \subseteq B
    BY <1>5, <1>6
  <2>2. Follows(Ctx(B, T), Set(cur, v), Ctx(B, T))
    BY <2>1, DeclaredTypes, WriteIn
  <2>3. Follows(Ctx(B, T), Give(x, ctx, "store"), Ctx(B, R))
    BY <2>1, <1>7, <1>10, GiveIn
  <2>4. Follows(Ctx(B, R), Destroy(x), Q)
    BY <2>1, <1>6, <1>7, <1>10, DestroyIn
  <2> QED  BY <2>2, <2>3, <2>4, <1>2, <1>8, <1>13, LeadsFour
<1> QED  BY <1>9, <1>12, <1>13

(***************************************************************************)
(* A call: the arguments are popped, assigned and destroyed.               *)
(***************************************************************************)
(* The arguments move up by one place, from the last one.                  *)
MoveUps(n) == [k \in 1 .. n |-> <<Move(arg(n + 1 - k), arg((n + 1 - k) + 1))>>]

LEMMA MovesUp ==
  ASSUME NEW A, NEW S, \A k : arg(k) \notin S, NEW i \in Nat \ {0}, NEW q, NEW r,
         q = Row("arg_results", 1, i - 1), r = Row("arg_results", 2, i),
         NEW B, NEW T, NEW C, NEW U, B = A \cup q, T = S \cup q, C = B \cup r, U = S \cup r,
         NEW n \in Nat, n = i - 1, NEW F,
         F = MoveUps(n)
  PROVE  Leads(Ctx(B, T), FlattenSeq(F), Ctx(C, U))
<1>4. PICK K : K = [k \in 0 .. n |->
                     Ctx(B \cup Row("arg_results", i - k + 1, i),
                         S \cup (Row("arg_results", 1, i - 1 - k)
                                 \cup Row("arg_results", i - k + 1, i)))]
  OBVIOUS
<1>5. \A k \in 1 .. n : Leads(K[k - 1], F[k], K[k])
  <2> SUFFICES ASSUME NEW k \in 1 .. n  PROVE Leads(K[k - 1], F[k], K[k])
    OBVIOUS
  <2>1. PICK j \in 1 .. n : j = i - k
    OBVIOUS
  <2>2. PICK lo1, lo2, hi1, hi2, x, y :
          /\ lo1 = Row("arg_results", 1, j) /\ lo2 = Row("arg_results", 1, j - 1)
          /\ hi1 = Row("arg_results", j + 2, i) /\ hi2 = Row("arg_results", j + 1, i)
          /\ x = <<"arg_results", j>> /\ y = <<"arg_results", j + 1>>
    OBVIOUS
  <2>3. PICK D, V, E, W : /\ D = B \cup hi1 /\ V = S \cup (lo1 \cup hi1)
                         /\ E = B \cup hi2 /\ W = S \cup (lo2 \cup hi2)
    OBVIOUS
  <2>4. K[k - 1] = Ctx(D, V) /\ K[k] = Ctx(E, W) /\ F[k] = <<Move(x, y)>>
    <3>1. /\ k - 1 \in 0 .. n /\ k \in 0 .. n /\ i - (k - 1) + 1 = j + 2 /\ i - 1 - (k - 1) = j
          /\ i - k + 1 = j + 1 /\ i - 1 - k = j - 1 /\ n + 1 - k = j
      BY <2>1
    <3>2. K[k - 1] = Ctx(D, V)
      BY <3>1, <1>4, <2>2, <2>3
    <3>3. K[k] = Ctx(E, W)
      BY <3>1, <1>4, <2>2, <2>3
    <3>4. F[k] = <<Move(x, y)>>
      BY <3>1, <2>2 DEF arg, MoveUps
    <3> QED  BY <3>2, <3>3, <3>4
  <2>5. lo1 = lo2 \cup {x} /\ x \notin lo2
    <3>1. 1 \in Int /\ j \in Int /\ 1 <= j
      OBVIOUS
    <3> QED  BY <3>1, <2>2, RowLast
  <2>6. hi2 = hi1 \cup {y} /\ y \notin hi1
    <3>1. j + 1 \in Int /\ i \in Int /\ j + 1 <= i /\ (j + 1) + 1 = j + 2
      OBVIOUS
    <3> QED  BY <3>1, <2>2, RowFirst
  <2>7. x \notin hi1 /\ y \notin lo1 /\ x # y
    <3>1. \A l, m : <<"arg_results", l>> = <<"arg_results", m>> => l = m
      OBVIOUS
    <3>2. \A l \in j + 2 .. i : l # j
      OBVIOUS
    <3>3. \A l \in 1 .. j : l # j + 1
      OBVIOUS
    <3>4. x \notin hi1
      BY <2>2, <3>1, <3>2 DEF Row
    <3>5. y \notin lo1
      BY <2>2, <3>1, <3>3 DEF Row
    <3>6. x # y
      BY <2>2, <3>1
    <3> QED  BY <3>4, <3>5, <3>6
  <2>8. x \notin S /\ y \notin S
    BY <2>2 DEF arg
  <2>9. x \in V /\ y \notin V /\ W = (V \ {x}) \cup {y} /\ E \subseteq D \cup {y}
    BY <2>3, <2>5, <2>6, <2>7, <2>8
  <2>10. TypeOf(x) = TypeOf(y)
    BY <2>2, NumberedTypes DEF arg
  <2>11. Follows(Ctx(D, V), Move(x, y), Ctx(E, W))
    BY <2>9, <2>10, MoveIn
  <2> QED  BY <2>4, <2>11, LeadsOne
<1>6. K[0] = Ctx(B, T)
  <2>1. PICK e : e = Row("arg_results", i + 1, i)
    OBVIOUS
  <2>2. e = {}
    BY <2>1, RowFacts
  <2>3. i - 0 + 1 = i + 1 /\ i - 1 - 0 = i - 1 /\ 0 \in 0 .. n /\ B \cup e = B /\ S \cup (q \cup e) = T
    BY <2>2
  <2> QED  BY <2>1, <2>3, <1>4
<1>7. K[n] = Ctx(C, U)
  <2>1. PICK e : e = Row("arg_results", 1, 0)
    OBVIOUS
  <2>2. e = {}
    BY <2>1, RowFacts
  <2>3. i - n + 1 = 2 /\ i - 1 - n = 0 /\ n \in 0 .. n /\ S \cup (e \cup r) = U
    BY <2>2
  <2> QED  BY <2>1, <2>3, <1>4
<1>8. F = [k \in 1 .. n |-> F[k]]
  BY DEF MoveUps
<1>9. Leads(K[0], FlattenSeq(F), K[n])
  BY <1>5, <1>8, LeadsLoop
<1> QED  BY <1>6, <1>7, <1>9

LEMMA EmplaceLeads ==
  ASSUME NEW A, NEW S, {cur, ctx} \subseteq A, NoCopies(A), NoCopies(S),
         Local("arg") \notin S, Local("cell") \notin S, popped \notin S, \A k : arg(k) \notin S,
         NEW i \in Nat \ {0}, NEW q, NEW r,
         q = Row("arg_results", 1, i - 1), r = Row("arg_results", 1, i),
         NEW B, NEW T, NEW C, NEW U, B = A \cup q, T = S \cup q, C = A \cup r, U = S \cup r
  PROVE  Leads(Ctx(B, T), EmplaceFirst(i), Ctx(C, U))
<1>1. PICK x, y, p : x = Local("arg") /\ y = <<"arg_results", 1>> /\ p = Row("arg_results", 2, i)
  OBVIOUS
<1>2. PICK D, V, R, E, W, X, Z :
        /\ D = B \cup {x} /\ V = T \cup {x} /\ R = S \cup {x}
        /\ X = A \cup {x} /\ E = D \cup p /\ W = R \cup p /\ Z = Row("arg_results", 1, i)
  OBVIOUS
<1>0. PICK n \in Nat : n = i - 1
  OBVIOUS
<1>3. PICK a, b, c : /\ a = PopValue(x)
                    /\ b = Countdown(n, LAMBDA j : <<Move(arg(j), arg(j + 1))>>)
                    /\ c = <<Move(x, y)>>
  OBVIOUS
<1>4. EmplaceFirst(i) = a \o b \o c
  BY <1>0, <1>1, <1>3 DEF EmplaceFirst, arg
<1>5. x[1] = "arg" /\ popped[1] = "popped" /\ Local("cell")[1] = "cell"
  BY <1>1, LocalNames DEF popped
<1>6. \A z \in q \cup r \cup p : z[1] = "arg_results"
  <2>1. i \in Int /\ i - 1 \in Int /\ 1 \in Int /\ 2 \in Int
    OBVIOUS
  <2> QED  BY <2>1, <1>1, RowFacts
<1>7. Leads(Ctx(B, T), a, Ctx(D, V))
  <2>2. NoCopies(B) /\ NoCopies(T)
    BY <1>6 DEF NoCopies
  <2>3. NoCopies({x})
    BY <1>1, NoCopiesOf
  <2>4. TypeOf(x) = "Literal" /\ x # Local("cell")
    BY <1>1, <1>5, DeclaredTypes
  <2>5. popped \notin T /\ x \notin T /\ Local("cell") \notin T /\ {cur, ctx} \subseteq B
    BY <1>1, <1>5, <1>6
  <2> QED  BY <2>2, <2>3, <2>4, <2>5, <1>2, <1>3, PopValueLeads
<1>8. Leads(Ctx(D, V), b, Ctx(E, W))
  <2>1. \A k : arg(k) \notin R
    <3>1. \A k : arg(k) # x
      BY <1>5, NumberedTypes
    <3> QED  BY <3>1, <1>2
  <2>2. D = X \cup q /\ V = R \cup q
    BY <1>2
  <2>4. PICK F : F = MoveUps(n)
    OBVIOUS
  <2>5. b = FlattenSeq(F)
    BY <2>4, <1>3 DEF Countdown, MoveUps
  <2>6. Leads(Ctx(D, V), FlattenSeq(F), Ctx(E, W))
    <3>1. /\ D = X \cup q /\ V = R \cup q /\ E = D \cup p /\ W = R \cup p
          /\ p = Row("arg_results", 2, i)
      BY <2>2, <1>1, <1>2
    <3>2. n = i - 1 /\ i \in Nat \ {0} /\ n \in Nat
      BY <1>0
    <3> HIDE DEF MoveUps
    <3> QED  BY <3>1, <3>2, <2>1, <2>4, MovesUp
  <2> QED  BY <2>5, <2>6
<1>9. Leads(Ctx(E, W), c, Ctx(C, U))
  <2>1. r = p \cup {y} /\ y \notin p
    <3>1. 1 \in Int /\ i \in Int /\ 1 <= i /\ 1 + 1 = 2
      OBVIOUS
    <3> QED  BY <3>1, <1>1, RowFirst
  <2>2. y \notin S /\ x \notin p /\ x # y /\ x \notin S
    <3>1. y \notin S
      BY <1>1 DEF arg
    <3>2. y \in r
      BY <2>1
    <3> QED  BY <3>1, <3>2, <1>1, <1>5, <1>6
  <2>3. x \in W /\ y \notin W /\ C \subseteq E \cup {y} /\ U = (W \ {x}) \cup {y}
    BY <1>2, <2>1, <2>2
  <2>4. TypeOf(x) = TypeOf(y)
    BY <1>1, DeclaredTypes, NumberedTypes DEF arg
  <2>5. Follows(Ctx(E, W), Move(x, y), Ctx(C, U))
    BY <2>3, <2>4, MoveIn
  <2> QED  BY <2>5, <1>3, LeadsOne
<1> QED  BY <1>4, <1>7, <1>8, <1>9, LeadsOnThree

LEMMA SaveLocalContextLeads ==
  ASSUME NEW A, NEW S, ctx \in A, cur \notin S, tmp("cur_ctx") \notin S, Local("fresh") \notin S,
         NEW B, B \subseteq A \cup {cur}
  PROVE  Leads(Ctx(A, S), SaveLocalContext, Ctx(B, S))
<1>1. PICK x, C, T : x = Local("fresh") /\ C = A \cup {x} /\ T = S \cup {x}
  OBVIOUS
<1>2. PICK a, b : /\ a = Transfer(ctx, "cur_ctx", ctx, "saved_ctx")
                 /\ b = <<Allocate("LocalContext", x), Give(x, ctx, "cur_ctx"),
                          Point(cur, ctx, "cur_ctx", 1)>>
  OBVIOUS
<1>3. SaveLocalContext = a \o b
  BY <1>1, <1>2 DEF SaveLocalContext
<1>4. /\ "cur_ctx" \in Fields(TypeOf(ctx)) /\ "saved_ctx" \in Fields(TypeOf(ctx))
      /\ ChildType["cur_ctx"] = "LocalContext" /\ ChildType["saved_ctx"] = "LocalContext"
      /\ TypeOf(x) = "LocalContext" /\ TypeOf(cur) = "LocalContext" /\ "LocalContext" \in Pooled
  BY <1>1, DeclaredTypes, FieldSets, PooledTypes DEF ChildType
<1>5. Leads(Ctx(A, S), a, Ctx(A, S))
  BY <1>2, <1>4, TransferLeads
<1>6. Leads(Ctx(A, S), b, Ctx(B, S))
  <2>1. x \notin S /\ x \in T /\ ctx \in C /\ S = T \ {x} /\ B \subseteq C \cup {cur}
    BY <1>1
  <2>2. Follows(Ctx(A, S), Allocate("LocalContext", x), Ctx(C, T))
    BY <2>1, <1>1, <1>4, AllocateIn
  <2>3. Follows(Ctx(C, T), Give(x, ctx, "cur_ctx"), Ctx(C, S))
    BY <2>1, <1>4, GiveIn
  <2>4. Follows(Ctx(C, S), Point(cur, ctx, "cur_ctx", 1), Ctx(B, S))
    BY <2>1, <1>4, PointIn
  <2> QED  BY <2>2, <2>3, <2>4, <1>2, LeadsThree
<1> QED  BY <1>3, <1>5, <1>6, LeadsOn

(* Every argument is assigned to its parameter, from the first one.        *)
AssignParams(n) == [k \in 1 .. n |-> <<[op |-> "AssignParam", i |-> k]>>]

LEMMA AssignParamsLeads ==
  ASSUME NEW A, NEW S, {ctx, cur} \subseteq A, Local("value") \notin S, Local("cell") \notin S,
         \A k : arg(k) \notin S, NEW n \in Nat, NEW T, T = S \cup Row("arg_results", 1, n),
         NEW F, F = AssignParams(n)
  PROVE  Leads(Ctx(A, T), FlattenSeq(F), Ctx(A, S))
<1>3. PICK K : K = [k \in 0 .. n |-> Ctx(A, S \cup Row("arg_results", k + 1, n))]
  OBVIOUS
<1>4. \A k \in 1 .. n : Leads(K[k - 1], F[k], K[k])
  <2> SUFFICES ASSUME NEW k \in 1 .. n  PROVE Leads(K[k - 1], F[k], K[k])
    OBVIOUS
  <2>1. PICK q, r, x, V, W, c :
          /\ r = Row("arg_results", k, n) /\ q = Row("arg_results", k + 1, n)
          /\ x = <<"arg_results", k>> /\ V = S \cup r /\ W = S \cup q
          /\ c = [op |-> "AssignParam", i |-> k]
    OBVIOUS
  <2>2. K[k - 1] = Ctx(A, V) /\ K[k] = Ctx(A, W) /\ F[k] = <<c>>
    <3>1. k - 1 \in 0 .. n /\ k \in 0 .. n /\ (k - 1) + 1 = k
      OBVIOUS
    <3> QED  BY <3>1, <1>3, <2>1 DEF AssignParams
  <2>3. r = q \cup {x} /\ x \notin q
    <3>1. n \in Int /\ k \in Int /\ k <= n
      OBVIOUS
    <3> QED  BY <3>1, <2>1, RowFirst
  <2>4. x = arg(k) /\ x \notin S
    BY <2>1 DEF arg
  <2>5. Local("value") \notin V /\ Local("cell") \notin V
    <3>1. \A z \in r : z[1] = "arg_results"
      <4>1. n \in Int /\ k \in Int
        OBVIOUS
      <4> QED  BY <4>1, <2>1, RowFacts
    <3>2. Local("value")[1] = "value" /\ Local("cell")[1] = "cell"
      BY LocalNames
    <3> QED  BY <3>1, <3>2, <2>1
  <2>6. x \in V /\ W = V \ {x}
    BY <2>1, <2>3, <2>4
  <2>7. c.op = "AssignParam" /\ c.i = k /\ c = [op |-> "AssignParam", i |-> c.i]
    BY <2>1
  <2>8. AssignParamRule(A, V, c, Ctx(A, W))
    BY <2>4, <2>5, <2>6, <2>7 DEF AssignParamRule
  <2>9. HandlerRule(A, V, c, Ctx(A, W)) /\ c.op \in OwnOps \ {"Evaluate"}
    BY <2>7, <2>8 DEF HandlerRule, OwnOps
  <2> QED  BY <2>2, <2>9, OwnStatement, LeadsOne
<1>5. K[0] = Ctx(A, T)
  BY <1>3
<1>6. K[n] = Ctx(A, S)
  <2>1. PICK r : r = Row("arg_results", n + 1, n)
    OBVIOUS
  <2>2. r = {}
    BY <2>1, RowFacts
  <2>3. S \cup r = S /\ n \in 0 .. n
    BY <2>2
  <2> QED  BY <2>1, <2>3, <1>3
<1>7. F = [k \in 1 .. n |-> F[k]]
  BY DEF AssignParams
<1> QED  BY <1>4, <1>5, <1>6, <1>7, LeadsLoop

(* All arguments are popped, and destroyed from the last one.              *)
Emplaces(n) == [k \in 1 .. n |-> EmplaceFirst(k)]

DestroyArgs(n) == [k \in 1 .. n |-> <<Destroy(arg(n + 1 - k))>>]

LEMMA EmplacesLeads ==
  ASSUME NEW A, NEW S, {cur, ctx} \subseteq A, NoCopies(A), NoCopies(S),
         Local("arg") \notin S, Local("cell") \notin S, popped \notin S, \A k : arg(k) \notin S,
         NEW n \in Nat, NEW r, r = Row("arg_results", 1, n),
         NEW C, NEW U, C = A \cup r, U = S \cup r, NEW F, F = Emplaces(n)
  PROVE  Leads(Ctx(A, S), FlattenSeq(F), Ctx(C, U))
<1>1. PICK K : K = [k \in 0 .. n |-> Ctx(A \cup Row("arg_results", 1, k),
                                         S \cup Row("arg_results", 1, k))]
  OBVIOUS
<1>2. \A k \in 1 .. n : Leads(K[k - 1], F[k], K[k])
  <2> SUFFICES ASSUME NEW k \in 1 .. n  PROVE Leads(K[k - 1], F[k], K[k])
    OBVIOUS
  <2>1. PICK q, s : q = Row("arg_results", 1, k - 1) /\ s = Row("arg_results", 1, k)
    OBVIOUS
  <2>2. PICK B, T, E, W : B = A \cup q /\ T = S \cup q /\ E = A \cup s /\ W = S \cup s
    OBVIOUS
  <2>3. K[k - 1] = Ctx(B, T) /\ K[k] = Ctx(E, W) /\ F[k] = EmplaceFirst(k)
    <3>1. k - 1 \in 0 .. n /\ k \in 0 .. n
      OBVIOUS
    <3>2. F[k] = EmplaceFirst(k)
      BY DEF Emplaces
    <3> QED  BY <3>1, <3>2, <1>1, <2>1, <2>2
  <2>4. k \in Nat \ {0}
    OBVIOUS
  <2>5. Leads(Ctx(B, T), EmplaceFirst(k), Ctx(E, W))
    BY <2>1, <2>2, <2>4, EmplaceLeads
  <2> QED  BY <2>3, <2>5
<1>3. K[0] = Ctx(A, S)
  <2>1. PICK e : e = Row("arg_results", 1, 0)
    OBVIOUS
  <2>2. e = {}
    BY <2>1, RowFacts
  <2>3. 0 \in 0 .. n /\ A \cup e = A /\ S \cup e = S
    BY <2>2
  <2> QED  BY <2>1, <2>3, <1>1
<1>4. K[n] = Ctx(C, U)
  <2>1. n \in 0 .. n
    OBVIOUS
  <2> QED  BY <2>1, <1>1
<1>5. F = [k \in 1 .. n |-> F[k]]
  BY DEF Emplaces
<1>6. Leads(K[0], FlattenSeq(F), K[n])
  BY <1>2, <1>5, LeadsLoop
<1> QED  BY <1>3, <1>4, <1>6

LEMMA DestroyArgsLeads ==
  ASSUME NEW A, NEW S, \A k : arg(k) \notin S, NEW n \in Nat,
         Row("arg_results", 1, n) \subseteq A, NEW F, F = DestroyArgs(n)
  PROVE  Leads(Ctx(A, S), FlattenSeq(F), Ctx(A, S))
<1>1. \A k \in 1 .. n : Leads(Ctx(A, S), F[k], Ctx(A, S))
  <2> SUFFICES ASSUME NEW k \in 1 .. n  PROVE Leads(Ctx(A, S), F[k], Ctx(A, S))
    OBVIOUS
  <2>1. PICK j \in 1 .. n : j = n + 1 - k
    OBVIOUS
  <2>2. PICK x : x = arg(j)
    OBVIOUS
  <2>3. F[k] = <<Destroy(x)>>
    BY <2>1, <2>2 DEF DestroyArgs
  <2>4. x \in A
    BY <2>2 DEF arg, Row
  <2>5. S = S \ {x} /\ TypeOf(x) \in Pooled
    <3>1. x \notin S
      BY <2>2
    <3>2. TypeOf(x) = "Literal"
      BY <2>2, NumberedTypes
    <3> QED  BY <3>1, <3>2, PooledTypes
  <2> QED  BY <2>3, <2>4, <2>5, DestroyIn, LeadsOne
<1>2. F = [k \in 1 .. n |-> F[k]]
  BY DEF DestroyArgs
<1> QED  BY <1>1, <1>2, LeadsRounds

LEMMA CallLocals ==
  ASSUME NEW A, NEW S, A = {ctx, cur, cur_comp, func_val}, S = {cur_comp, func_val}
  PROVE  /\ ctx \in A /\ cur \in A /\ func_val \in A /\ func_val \in S /\ {cur, ctx} \subseteq A
         /\ cur \notin S /\ popped \notin S /\ new \notin S
         /\ \A n \in {"cell", "arg", "fresh", "value"} : Local(n) \notin S
         /\ \A f : tmp(f) \notin S
         /\ \A k : arg(k) \notin S
         /\ S \ {func_val} = {cur_comp} /\ TypeOf(func_val) = "Literal"
         /\ NoCopies(A) /\ NoCopies(S)
<1>1. /\ ctx = Local("ctx_") /\ cur = Local("cur_ctx") /\ cur_comp = Local("cur_comp")
      /\ func_val = Local("func_val") /\ popped = Local("popped") /\ new = Local("new_comp")
  BY DEF ctx, cur, cur_comp, func_val, popped, new
<1>2. \A m, n : m # n => Local(m) # Local(n)
  BY LocalNames
<1>3. \A f : tmp(f) \notin S
  <2>1. \A f : tmp(f)[1] = "tmp"
    BY TemporaryTypes
  <2>2. cur_comp[1] = "cur_comp" /\ func_val[1] = "func_val"
    BY <1>1, LocalNames
  <2> QED  BY <2>1, <2>2
<1>4. \A k : arg(k) \notin S
  <2>1. \A k : arg(k)[1] = "arg_results"
    BY NumberedTypes
  <2>2. cur_comp[1] = "cur_comp" /\ func_val[1] = "func_val"
    BY <1>1, LocalNames
  <2> QED  BY <2>1, <2>2
<1>5. NoCopies(A) /\ NoCopies(S)
  BY <1>1, LocalNames DEF NoCopies
<1>6. S \ {func_val} = {cur_comp}
  BY <1>1, <1>2
<1>7. cur \notin S /\ popped \notin S /\ new \notin S
  BY <1>1, <1>2
<1>8. \A n \in {"cell", "arg", "fresh", "value"} : Local(n) \notin S
  BY <1>1, <1>2
<1>9. TypeOf(func_val) = "Literal"
  BY DeclaredTypes
<1> QED  BY <1>3, <1>4, <1>5, <1>6, <1>7, <1>8, <1>9

LEMMA LookFollows ==
  ASSUME NEW A, NEW S
  PROVE  /\ func_val \in A => Follows(Ctx(A, S), [op |-> "mutable_closure_val"], Ctx(A, S))
         /\ cur \in A => Follows(Ctx(A, S), [op |-> "Enter"], Ctx(A, S))
         /\ cur \in A /\ Local("tail") \notin S
              => Follows(Ctx(A, S), [op |-> "PopTailReturns"], Ctx(A, S))
         /\ {func_val, cur} \subseteq A /\ new \notin S /\ tmp("body") \notin S
              => Follows(Ctx(A, S), [op |-> "ScheduleBody"], Ctx(A, S))
<1>1. ASSUME func_val \in A
      PROVE  Follows(Ctx(A, S), [op |-> "mutable_closure_val"], Ctx(A, S))
  <2>1. PICK c : c = [op |-> "mutable_closure_val"]
    OBVIOUS
  <2>2. LookRule(A, S, c, Ctx(A, S))
    BY <2>1, <1>1 DEF LookRule
  <2>3. HandlerRule(A, S, c, Ctx(A, S)) /\ c.op \in OwnOps \ {"Evaluate"}
    BY <2>1, <2>2 DEF HandlerRule, OwnOps
  <2> QED  BY <2>1, <2>3, OwnStatement
<1>2. ASSUME cur \in A  PROVE Follows(Ctx(A, S), [op |-> "Enter"], Ctx(A, S))
  <2>1. PICK c : c = [op |-> "Enter"]
    OBVIOUS
  <2>2. LookRule(A, S, c, Ctx(A, S))
    BY <2>1, <1>2 DEF LookRule
  <2>3. HandlerRule(A, S, c, Ctx(A, S)) /\ c.op \in OwnOps \ {"Evaluate"}
    BY <2>1, <2>2 DEF HandlerRule, OwnOps
  <2> QED  BY <2>1, <2>3, OwnStatement
<1>3. ASSUME cur \in A, Local("tail") \notin S
      PROVE  Follows(Ctx(A, S), [op |-> "PopTailReturns"], Ctx(A, S))
  <2>1. PICK c : c = [op |-> "PopTailReturns"]
    OBVIOUS
  <2>2. LookRule(A, S, c, Ctx(A, S))
    BY <2>1, <1>3 DEF LookRule
  <2>3. HandlerRule(A, S, c, Ctx(A, S)) /\ c.op \in OwnOps \ {"Evaluate"}
    BY <2>1, <2>2 DEF HandlerRule, OwnOps
  <2> QED  BY <2>1, <2>3, OwnStatement
<1>4. ASSUME {func_val, cur} \subseteq A, new \notin S, tmp("body") \notin S
      PROVE  Follows(Ctx(A, S), [op |-> "ScheduleBody"], Ctx(A, S))
  <2>1. PICK c : c = [op |-> "ScheduleBody"]
    OBVIOUS
  <2>2. ScheduleBodyRule(A, S, c, Ctx(A, S))
    BY <2>1, <1>4 DEF ScheduleBodyRule
  <2>3. HandlerRule(A, S, c, Ctx(A, S)) /\ c.op \in OwnOps \ {"Evaluate"}
    BY <2>1, <2>2 DEF HandlerRule, OwnOps
  <2> QED  BY <2>1, <2>3, OwnStatement
<1> QED  BY <1>1, <1>2, <1>3, <1>4

LEMMA FuncAppExpFinalLeads ==
  ASSUME Owned, Typed, NEW P, NEW Q, Describes(P), Rule(P, I, Q), FuncAppExpFinal
  PROVE  Replaced(P, Q)
<1>1. At("Evaluate") /\ I.x = cur_comp
  BY DEF FuncAppExpFinal, On
<1>2. PICK n \in Nat : n = Final.num_args
  <2>1. Counted(Final) /\ Final.type = "func_app_exp_final"
    BY <1>1, FinalCounted DEF FuncAppExpFinal, On, Final
  <2> QED  BY <2>1 DEF Counted
<1>3. PICK A, S, v : A = {ctx, cur, cur_comp} /\ S = {cur_comp} /\ v = func_val
  OBVIOUS
<1>4. PICK r : r = Row("arg_results", 1, n)
  OBVIOUS
<1>5. PICK B, T, C, U, D : /\ B = {ctx, cur, cur_comp, func_val} /\ T = {cur_comp, func_val}
                           /\ C = B \cup r /\ U = T \cup r /\ D = C \cup {new}
  OBVIOUS
<1>6. PICK a, b, c, d, e, f, g, h, l, m :
        /\ a = PopValue(v) /\ b = <<[op |-> "mutable_closure_val"]>>
        /\ c = FlattenSeq(Emplaces(n)) /\ d = SaveLocalContext /\ e = <<[op |-> "Enter"]>>
        /\ f = FlattenSeq(AssignParams(n)) /\ g = Schedule(Case("return_from_ctx"))
        /\ h = <<[op |-> "ScheduleBody"]>> /\ l = FlattenSeq(DestroyArgs(n))
        /\ m = <<Destroy(v)>>
  OBVIOUS
<1>7. Do(a \o b \o c \o d \o e \o f \o g \o h \o l \o m)
  BY <1>2, <1>3, <1>6
     DEF FuncAppExpFinal, Concat, Countdown, Emplaces, AssignParams, DestroyArgs
<1>8. /\ ctx \in B /\ cur \in B /\ v \in B /\ v \in T /\ {cur, ctx} \subseteq B
      /\ cur \notin T /\ popped \notin T /\ new \notin T
      /\ \A x \in {"cell", "arg", "fresh", "value"} : Local(x) \notin T
      /\ \A x : tmp(x) \notin T
      /\ \A k : arg(k) \notin T
      /\ T \ {v} = S /\ TypeOf(v) = "Literal"
      /\ NoCopies(B) /\ NoCopies(T)
  BY <1>3, <1>5, CallLocals
<1>9. B = A \cup {v} /\ T = S \cup {v}
  BY <1>3, <1>5
<1>10. Leads(Ctx(A, S), a, Ctx(B, T))
  <2>1. {cur, ctx} \subseteq A /\ popped \notin S /\ v \notin S /\ Local("cell") \notin S
        /\ NoCopies(A) /\ NoCopies(S)
    BY <1>3, FinalLocals
  <2>2. v # Local("cell") /\ NoCopies({v})
    BY <1>3, LocalNames, NoCopiesOf DEF func_val
  <2> QED  BY <2>1, <2>2, <1>6, <1>8, <1>9, PopValueLeads
<1>11. Leads(Ctx(B, T), b, Ctx(B, T))
  BY <1>3, <1>6, <1>8, LookFollows, LeadsOne
<1>12. Leads(Ctx(B, T), c, Ctx(C, U))
  <2>1. Local("arg") \notin T /\ Local("cell") \notin T
    BY <1>8
  <2> QED  BY <2>1, <1>4, <1>5, <1>6, <1>8, EmplacesLeads
<1>13. /\ ctx \in C /\ cur \in C /\ v \in C /\ {ctx, cur} \subseteq C /\ C \subseteq C \cup {cur}
       /\ r \subseteq C
  BY <1>5, <1>8
<1>14. \A x \in r : x[1] = "arg_results"
  <2>1. 1 \in Int /\ n \in Int
    OBVIOUS
  <2> QED  BY <2>1, <1>4, RowFacts
<1>15. cur \notin U /\ tmp("cur_ctx") \notin U /\ Local("fresh") \notin U
  <2>1. cur \notin r /\ tmp("cur_ctx") \notin r /\ Local("fresh") \notin r
    BY <1>14, LocalNames, TemporaryTypes DEF cur
  <2> QED  BY <2>1, <1>5, <1>8
<1>16. Leads(Ctx(C, U), d, Ctx(C, U))
  BY <1>6, <1>13, <1>15, SaveLocalContextLeads
<1>17. Leads(Ctx(C, U), e, Ctx(C, U))
  BY <1>6, <1>13, LookFollows, LeadsOne
<1>18. Leads(Ctx(C, U), f, Ctx(C, T))
  <2>1. Local("value") \notin T /\ Local("cell") \notin T
    BY <1>8
  <2> QED  BY <2>1, <1>4, <1>5, <1>6, <1>8, <1>13, AssignParamsLeads
<1>19. Leads(Ctx(C, T), g, Ctx(D, T))
  <2>1. Counted(Case("return_from_ctx"))
    BY CaseCounted
  <2>2. PICK w : w = Case("return_from_ctx")
    OBVIOUS
  <2> QED  BY <2>1, <2>2, <1>5, <1>6, <1>8, <1>13, ScheduleLeads
<1>20. Leads(Ctx(D, T), h, Ctx(D, T))
  <2>1. {func_val, cur} \subseteq D
    BY <1>3, <1>5, <1>13
  <2> QED  BY <2>1, <1>6, <1>8, LookFollows, LeadsOne
<1>21. Leads(Ctx(D, T), l, Ctx(D, T))
  <2>1. Row("arg_results", 1, n) \subseteq D
    BY <1>4, <1>5
  <2> QED  BY <2>1, <1>6, <1>8, DestroyArgsLeads
<1>22. Leads(Ctx(D, T), m, Ctx(D, S))
  <2>1. v \in D /\ TypeOf(v) \in Pooled
    BY <1>5, <1>8, PooledTypes
  <2> QED  BY <2>1, <1>6, <1>8, DestroyIn, LeadsOne
<1>23. PICK o : o = a \o b \o c \o d \o e \o f
  OBVIOUS
<1>24. Leads(Ctx(A, S), o, Ctx(C, T))
  BY <1>10, <1>11, <1>12, <1>16, <1>17, <1>18, <1>23, LeadsOnSix
<1>25. Leads(Ctx(A, S), o \o g \o h \o l \o m, Ctx(D, S))
  BY <1>19, <1>20, <1>21, <1>22, <1>24, LeadsOnFive
<1>26. Do(o \o g \o h \o l \o m) /\ A \subseteq D
  BY <1>5, <1>7, <1>9, <1>23
<1> QED  BY <1>1, <1>3, <1>25, <1>26, InCompStep

(***************************************************************************)
(* The return from a call.                                                 *)
(***************************************************************************)
LEMMA ReturnFromCtxLeads ==
  ASSUME NEW P, NEW Q, Rule(P, I, Q), ReturnFromCtx
  PROVE  Replaced(P, Q)
<1>1. At("Evaluate") /\ I.x = cur_comp
  BY DEF ReturnFromCtx, On
<1>2. PICK A, S, v, x : /\ A = {ctx, cur, cur_comp} /\ S = {cur_comp}
                        /\ v = Local("return_val") /\ x = Local("old_ctx")
  OBVIOUS
<1>3. PICK B, T, C, U, D : /\ B = A \cup {v} /\ T = S \cup {v}
                           /\ C = B \cup {x} /\ U = T \cup {x} /\ D = C \cup {res}
  OBVIOUS
<1>4. PICK a, b, c, d, e, f, g, h :
        /\ a = <<[op |-> "PopTailReturns"]>> /\ b = PopValue(v) /\ c = <<Take(ctx, "cur_ctx", x)>>
        /\ d = Transfer(ctx, "saved_ctx", ctx, "cur_ctx")
        /\ e = <<Destroy(x), Point(cur, ctx, "cur_ctx", 1)>>
        /\ f = AddResult(Unset) /\ g = SetRvalue(v) /\ h = <<Destroy(v)>>
  OBVIOUS
<1>5. Do(a \o b \o c \o d \o e \o f \o g \o h)
  BY <1>2, <1>4 DEF ReturnFromCtx
<1>6. /\ ctx \in A /\ cur \in A /\ {cur, ctx} \subseteq A /\ cur_comp \in S
      /\ Local("tail") \notin S /\ x \notin S /\ res \notin S
  BY <1>2, FinalLocals
<1>7. /\ Leads(Ctx(A, S), b, Ctx(B, T)) /\ v \notin S /\ TypeOf(v) = "Literal" /\ v # res
      /\ v # cur_comp
  BY <1>2, <1>3, <1>4, PopFirst
<1>8. x # v /\ x # cur /\ cur # v /\ cur # cur_comp /\ TypeOf(x) = "LocalContext"
      /\ TypeOf(cur) = "LocalContext"
  <2>1. x # v /\ x # cur /\ cur # v /\ cur # cur_comp
    BY <1>2, LocalNames DEF cur, cur_comp
  <2> QED  BY <2>1, <1>2, DeclaredTypes
<1>9. /\ "cur_ctx" \in Fields(TypeOf(ctx)) /\ "saved_ctx" \in Fields(TypeOf(ctx))
      /\ ChildType["cur_ctx"] = "LocalContext" /\ ChildType["saved_ctx"] = "LocalContext"
      /\ "LocalContext" \in Pooled /\ "Literal" \in Pooled
  BY DeclaredTypes, FieldSets, PooledTypes DEF ChildType
<1>10. Leads(Ctx(A, S), a, Ctx(A, S))
  BY <1>4, <1>6, LookFollows, LeadsOne
<1>11. /\ ctx \in B /\ cur \in B /\ ctx \in C /\ cur \in C /\ x \in C /\ x \notin T /\ cur \notin T
       /\ T = U \ {x} /\ v \in T /\ v \in D /\ res \notin T /\ res \in D /\ S = T \ {v}
       /\ S = S \ {v} /\ C \subseteq C \cup {cur} /\ A \subseteq D
  <2>1. cur \notin S
    BY <1>2, <1>8
  <2> QED  BY <2>1, <1>3, <1>6, <1>7, <1>8
<1>12. Leads(Ctx(B, T), c, Ctx(C, U))
  <2>1. Follows(Ctx(B, T), Take(ctx, "cur_ctx", x), Ctx(C, U))
    <3>1. ChildType["cur_ctx"] \in Pooled /\ TypeOf(x) = ChildType["cur_ctx"]
      BY <1>8, <1>9
    <3> QED  BY <3>1, <1>3, <1>9, <1>11, TakeIn
  <2> QED  BY <2>1, <1>4, LeadsOne
<1>13. Leads(Ctx(C, U), d, Ctx(C, U))
  <2>1. tmp("saved_ctx") \notin U
    <3>1. tmp("saved_ctx")[1] = "tmp"
      BY TemporaryTypes
    <3>2. cur_comp[1] = "cur_comp" /\ v[1] = "return_val" /\ x[1] = "old_ctx"
      BY <1>2, LocalNames DEF cur_comp
    <3> QED  BY <3>1, <3>2, <1>2, <1>3
  <2> QED  BY <2>1, <1>4, <1>9, <1>11, TransferLeads
<1>14. Leads(Ctx(C, U), e, Ctx(C, T))
  <2>1. Follows(Ctx(C, U), Destroy(x), Ctx(C, T))
    <3>1. TypeOf(x) \in Pooled
      BY <1>8, <1>9
    <3> QED  BY <3>1, <1>11, DestroyIn
  <2>2. Follows(Ctx(C, T), Point(cur, ctx, "cur_ctx", 1), Ctx(C, T))
    <3>1. TypeOf(cur) = ChildType["cur_ctx"]
      BY <1>8, <1>9
    <3> QED  BY <3>1, <1>9, <1>11, PointIn
  <2> QED  BY <2>1, <2>2, <1>4, LeadsTwo
<1>15. Leads(Ctx(C, T), f, Ctx(D, T))
  BY <1>3, <1>4, <1>11, AddResultLeads
<1>16. Leads(Ctx(D, T), g, Ctx(D, S))
  BY <1>4, <1>7, <1>11, SetRvalueLeads
<1>17. Leads(Ctx(D, S), h, Ctx(D, S))
  <2>1. TypeOf(v) \in Pooled
    BY <1>7, <1>9
  <2> QED  BY <2>1, <1>4, <1>11, DestroyIn, LeadsOne
<1>18. PICK o : o = a \o b \o c \o d
  OBVIOUS
<1>19. Leads(Ctx(A, S), o, Ctx(C, U))
  BY <1>7, <1>10, <1>12, <1>13, <1>18, LeadsOnFour
<1>20. Leads(Ctx(A, S), o \o e \o f \o g \o h, Ctx(D, S))
  BY <1>14, <1>15, <1>16, <1>17, <1>19, LeadsOnFive
<1>21. Do(o \o e \o f \o g \o h)
  BY <1>5, <1>18
<1> QED  BY <1>1, <1>2, <1>11, <1>20, <1>21, InCompStep

(***************************************************************************)
(* A program is built as a tree of messages, part by part.                 *)
(***************************************************************************)
(* A part of a message of type t: a field of it, and a node of its type.   *)
PartOk(t, p) ==
  /\ p[1] \in Fields(t) /\ p[2] = ChildType[p[1]] /\ p[2] \in {"Expression", "Statement", "Literal"}
  /\ IsNode(p[2], p[3])

PartsFine(t, ps) == (\E S : ps \in Seq(S)) /\ \A k \in 1 .. Len(ps) : PartOk(t, ps[k])

ExpParts(f, es) == [k \in DOMAIN es |-> <<f, "Expression", Node(es[k])>>]

StmtParts(f, ss) == [k \in DOMAIN ss |-> <<f, "Statement", Stmts[ss[k]]>>]

LEMMA ExpPartsFine ==
  ASSUME NEW t, NEW f \in Fields(t), ChildType[f] = "Expression", NEW es \in Seq(ExpId),
         NEW ps, ps = ExpParts(f, es)
  PROVE  PartsFine(t, ps)
<1>1. PICK n \in Nat : n = Len(es)
  OBVIOUS
<1>2. DOMAIN es = 1 .. n /\ \A k \in 1 .. n : es[k] \in ExpId
  BY <1>1
<1>3. PICK V : V = {<<f, "Expression", Node(e)>> : e \in ExpId}
  OBVIOUS
<1>4. \A k \in 1 .. n : <<f, "Expression", Node(es[k])>> \in V
  BY <1>2, <1>3
<1>5. ps = [k \in 1 .. n |-> <<f, "Expression", Node(es[k])>>]
  BY <1>2 DEF ExpParts
<1>6. ps \in Seq(V) /\ Len(ps) = n
  BY <1>4, <1>5
<1>7. ASSUME NEW k \in 1 .. n  PROVE PartOk(t, ps[k])
  <2>1. PICK p, e : p = ps[k] /\ e = es[k]
    OBVIOUS
  <2>2. p = <<f, "Expression", Node(e)>> /\ e \in DOMAIN Exps
    BY <2>1, <1>2, <1>5 DEF ExpId
  <2>3. IsNode("Expression", Node(e))
    BY <2>2 DEF IsNode
  <2>4. PartOk(t, p)
    BY <2>2, <2>3 DEF PartOk
  <2> QED  BY <2>1, <2>4
<1> QED  BY <1>6, <1>7 DEF PartsFine

LEMMA StmtPartsFine ==
  ASSUME NEW t, NEW f \in Fields(t), ChildType[f] = "Statement", NEW ss \in Seq(StmtId),
         NEW ps, ps = StmtParts(f, ss)
  PROVE  PartsFine(t, ps)
<1>1. PICK n \in Nat : n = Len(ss)
  OBVIOUS
<1>2. DOMAIN ss = 1 .. n /\ \A k \in 1 .. n : ss[k] \in StmtId
  BY <1>1
<1>3. PICK V : V = {<<f, "Statement", Stmts[s]>> : s \in StmtId}
  OBVIOUS
<1>4. \A k \in 1 .. n : <<f, "Statement", Stmts[ss[k]]>> \in V
  BY <1>2, <1>3
<1>5. ps = [k \in 1 .. n |-> <<f, "Statement", Stmts[ss[k]]>>]
  BY <1>2 DEF StmtParts
<1>6. ps \in Seq(V) /\ Len(ps) = n
  BY <1>4, <1>5
<1>7. ASSUME NEW k \in 1 .. n  PROVE PartOk(t, ps[k])
  <2>1. PICK p, s : p = ps[k] /\ s = ss[k]
    OBVIOUS
  <2>2. p = <<f, "Statement", Stmts[s]>> /\ s \in DOMAIN Stmts
    BY <2>1, <1>2, <1>5 DEF StmtId
  <2>3. IsNode("Statement", Stmts[s])
    BY <2>2 DEF IsNode
  <2>4. PartOk(t, p)
    BY <2>2, <2>3 DEF PartOk
  <2> QED  BY <2>1, <2>4
<1> QED  BY <1>6, <1>7 DEF PartsFine

LEMMA PartsFineOn ==
  ASSUME NEW t, NEW a, NEW b, PartsFine(t, a), PartsFine(t, b)
  PROVE  PartsFine(t, a \o b)
<1>1. PICK S : a \in Seq(S)
  BY DEF PartsFine
<1>2. PICK T : b \in Seq(T)
  BY DEF PartsFine
<1>3. a \in Seq(S \cup T) /\ b \in Seq(S \cup T)
  BY <1>1, <1>2
<1>4. PICK m \in Nat : m = Len(a)
  BY <1>1
<1>5. PICK n \in Nat : n = Len(b)
  BY <1>2
<1>6. /\ a \o b \in Seq(S \cup T) /\ Len(a \o b) = m + n
      /\ \A i \in 1 .. m : (a \o b)[i] = a[i]
      /\ \A i \in 1 .. n : (a \o b)[m + i] = b[i]
  BY <1>3, <1>4, <1>5, ConcatType
<1>7. ASSUME NEW i \in 1 .. m + n  PROVE PartOk(t, (a \o b)[i])
  <2>0. PICK p : p = (a \o b)[i]
    OBVIOUS
  <2> SUFFICES PartOk(t, p)
    BY <2>0
  <2>1. CASE i <= m
    <3>1. i \in 1 .. m
      BY <2>1
    <3>2. p = a[i] /\ PartOk(t, a[i])
      BY <2>0, <3>1, <1>4, <1>6 DEF PartsFine
    <3> QED  BY <3>2
  <2>2. CASE i > m
    <3>1. PICK j \in 1 .. n : i = m + j
      <4>1. i - m \in 1 .. n /\ i = m + (i - m)
        BY <2>2
      <4> QED  BY <4>1
    <3>2. PICK y : y = b[j]
      OBVIOUS
    <3>3. p = y
      BY <2>0, <3>1, <3>2, <1>6
    <3>4. PartOk(t, y)
      BY <1>5, <3>2 DEF PartsFine
    <3> QED  BY <3>3, <3>4
  <2> QED  BY <2>1, <2>2
<1> QED  BY <1>6, <1>7 DEF PartsFine

LEMMA NoPartsFine ==
  ASSUME NEW t
  PROVE  PartsFine(t, <<>>)
<1>1. <<>> \in Seq({}) /\ Len(<<>>) = 0
  OBVIOUS
<1> QED  BY <1>1 DEF PartsFine

(* The field of a single node. *)
LEMMA OnePartFine ==
  ASSUME NEW t, NEW f \in Fields(t)
  PROVE  /\ ChildType[f] = "Expression" => \A e \in ExpId : PartsFine(t, ExpParts(f, <<e>>))
         /\ ChildType[f] = "Statement" => \A s \in StmtId : PartsFine(t, StmtParts(f, <<s>>))
<1>1. ASSUME ChildType[f] = "Expression", NEW e \in ExpId  PROVE PartsFine(t, ExpParts(f, <<e>>))
  <2>1. PICK es : es = <<e>>
    OBVIOUS
  <2>2. es \in Seq(ExpId)
    BY <2>1
  <2> QED  BY <2>1, <2>2, <1>1, ExpPartsFine
<1>2. ASSUME ChildType[f] = "Statement", NEW s \in StmtId  PROVE PartsFine(t, StmtParts(f, <<s>>))
  <2>1. PICK ss : ss = <<s>>
    OBVIOUS
  <2>2. ss \in Seq(StmtId)
    BY <2>1
  <2> QED  BY <2>1, <2>2, <1>2, StmtPartsFine
<1> QED  BY <1>1, <1>2

LEMMA LiteralParts ==
  ASSUME NEW v \in PlainLiterals
  PROVE  PartsFine("Literal", Parts("Literal", v))
<1>1. v.type \in {"TYPE_NOT_SET", "none_val", "bool_val", "int_val", "str_val"}
  BY DEF PlainLiterals, None, NoValue
<1>2. Parts("Literal", v) = <<>>
  BY <1>1 DEF Parts, Case
<1> QED  BY <1>2, NoPartsFine

LEMMA ExpressionParts ==
  ASSUME NEW id \in ExpId, NEW v, v = Node(id)
  PROVE  PartsFine("Expression", Parts("Expression", v))
<1>1. PICK e : e = Exps[id]
  OBVIOUS
<1>2. e \in Expressions /\ v.exp = id /\ v.type = e.type
  BY <1>1, SyntaxAssumption DEF Node
<1>3. /\ \A f \in {"func", "arg", "exp", "lhs", "rhs", "if_exp", "cond_exp", "else_exp"} :
           f \in Fields("Expression") /\ ChildType[f] = "Expression"
      /\ "body" \in Fields("Expression") /\ ChildType["body"] = "Statement"
      /\ "lit_exp" \in Fields("Expression") /\ ChildType["lit_exp"] = "Literal"
  BY FieldSets DEF ChildType
<1>4. CASE e.type = "lit_exp"
  <2>1. Parts("Expression", v) = <<<<"lit_exp", "Literal", e.lit>>>> /\ e.lit \in PlainLiterals
    <3>1. e.lit \in PlainLiterals
      BY <1>2, <1>4 DEF Expressions
    <3>2. Parts("Expression", v) = <<<<"lit_exp", "Literal", e.lit>>>>
      BY <1>1, <1>2, <1>4 DEF Parts
    <3> QED  BY <3>1, <3>2
  <2>2. PICK p, ps : p = <<"lit_exp", "Literal", e.lit>> /\ ps = <<p>>
    OBVIOUS
  <2>3. PartOk("Expression", p)
    BY <2>1, <2>2, <1>3 DEF PartOk, IsNode
  <2>4. ps \in Seq({p}) /\ Len(ps) = 1 /\ ps[1] = p
    BY <2>2
  <2>5. \A k \in 1 .. Len(ps) : PartOk("Expression", ps[k])
    <3>1. \A k \in 1 .. 1 : k = 1
      OBVIOUS
    <3> QED  BY <3>1, <2>3, <2>4
  <2>6. PartsFine("Expression", ps)
    BY <2>4, <2>5 DEF PartsFine
  <2> QED  BY <2>1, <2>2, <2>6
<1>5. CASE e.type = "func_app_exp"
  <2>1. e.func \in ExpId /\ e.arg \in Seq(ExpId)
    BY <1>2, <1>5 DEF Expressions
  <2>2. Parts("Expression", v) = ExpParts("func", <<e.func>>) \o ExpParts("arg", e.arg)
    BY <1>1, <1>2, <1>5 DEF Parts, ExpParts
  <2>3. PartsFine("Expression", ExpParts("func", <<e.func>>))
    BY <2>1, <1>3, OnePartFine
  <2>4. PartsFine("Expression", ExpParts("arg", e.arg))
    BY <2>1, <1>3, ExpPartsFine
  <2> QED  BY <2>2, <2>3, <2>4, PartsFineOn
<1>6. CASE e.type = "mon_arith_exp"
  <2>1. e.exp \in ExpId
    BY <1>2, <1>6 DEF Expressions
  <2>2. Parts("Expression", v) = ExpParts("exp", <<e.exp>>)
    BY <1>1, <1>2, <1>6 DEF Parts, ExpParts
  <2> QED  BY <2>1, <2>2, <1>3, OnePartFine
<1>7. CASE e.type = "bin_arith_exp"
  <2>1. e.lhs \in ExpId /\ e.rhs \in ExpId
    BY <1>2, <1>7 DEF Expressions
  <2>2. Parts("Expression", v) = ExpParts("lhs", <<e.lhs>>) \o ExpParts("rhs", <<e.rhs>>)
    BY <1>1, <1>2, <1>7 DEF Parts, ExpParts
  <2> QED  BY <2>1, <2>2, <1>3, OnePartFine, PartsFineOn
<1>8. CASE e.type = "tern_exp"
  <2>1. e.if_exp \in ExpId /\ e.cond_exp \in ExpId /\ e.else_exp \in ExpId
    BY <1>2, <1>8 DEF Expressions
  <2>2. Parts("Expression", v) = ExpParts("if_exp", <<e.if_exp>>)
                                 \o ExpParts("cond_exp", <<e.cond_exp>>)
                                 \o ExpParts("else_exp", <<e.else_exp>>)
    BY <1>1, <1>2, <1>8 DEF Parts, ExpParts
  <2> QED  BY <2>1, <2>2, <1>3, OnePartFine, PartsFineOn
<1>9. CASE e.type = "tuple_exp"
  <2>1. e.exp \in Seq(ExpId)
    BY <1>2, <1>9 DEF Expressions
  <2>2. Parts("Expression", v) = ExpParts("exp", e.exp)
    BY <1>1, <1>2, <1>9 DEF Parts, ExpParts
  <2> QED  BY <2>1, <2>2, <1>3, ExpPartsFine
<1>10. CASE e.type = "lambda_exp"
  <2>1. e.body \in Seq(StmtId)
    BY <1>2, <1>10 DEF Expressions
  <2>2. Parts("Expression", v) = StmtParts("body", e.body)
    BY <1>1, <1>2, <1>10 DEF Parts, StmtParts
  <2> QED  BY <2>1, <2>2, <1>3, StmtPartsFine
<1>11. CASE e.type \in {"var_exp", "TYPE_NOT_SET"}
  <2>1. Parts("Expression", v) = <<>>
    BY <1>1, <1>2, <1>11 DEF Parts
  <2> QED  BY <2>1, NoPartsFine
<1>12. e.type \in {"var_exp", "lit_exp", "func_app_exp", "mon_arith_exp", "bin_arith_exp", "tern_exp",
                   "tuple_exp", "lambda_exp", "TYPE_NOT_SET"}
  BY <1>2 DEF Expressions
<1> QED  BY <1>4, <1>5, <1>6, <1>7, <1>8, <1>9, <1>10, <1>11, <1>12

LEMMA StatementParts ==
  ASSUME NEW id \in StmtId, NEW v, v = Stmts[id]
  PROVE  PartsFine("Statement", Parts("Statement", v))
<1>1. v \in Statements
  BY SyntaxAssumption
<1>2. /\ \A f \in {"exp_stmt", "lhs", "rhs", "ret_stmt", "print_stmt", "cond"} :
           f \in Fields("Statement") /\ ChildType[f] = "Expression"
      /\ \A f \in {"init", "inc", "if_stmts", "else_stmts", "body"} :
           f \in Fields("Statement") /\ ChildType[f] = "Statement"
  BY FieldSets DEF ChildType
<1>3. CASE v.type \in {"exp_stmt", "ret_stmt", "print_stmt"}
  <2>1. v[v.type] \in ExpId
    BY <1>1, <1>3 DEF Statements
  <2>2. Parts("Statement", v) = ExpParts(v.type, <<v[v.type]>>)
    BY <1>3 DEF Parts, ExpParts, Case
  <2> QED  BY <2>1, <2>2, <1>2, <1>3, OnePartFine
<1>4. CASE v.type = "assign_stmt"
  <2>1. v.lhs \in ExpId /\ v.rhs \in ExpId
    BY <1>1, <1>4 DEF Statements
  <2>2. Parts("Statement", v) = ExpParts("lhs", <<v.lhs>>) \o ExpParts("rhs", <<v.rhs>>)
    BY <1>4 DEF Parts, ExpParts, Case
  <2> QED  BY <2>1, <2>2, <1>2, OnePartFine, PartsFineOn
<1>5. CASE v.type = "if_else_stmt"
  <2>1. v.cond \in ExpId /\ v.if_stmts \in Seq(StmtId) /\ v.else_stmts \in Seq(StmtId)
    BY <1>1, <1>5 DEF Statements
  <2>2. PICK a, b, c : /\ a = ExpParts("cond", <<v.cond>>) /\ b = StmtParts("if_stmts", v.if_stmts)
                      /\ c = StmtParts("else_stmts", v.else_stmts)
    OBVIOUS
  <2>3. Parts("Statement", v) = a \o b \o c
    BY <2>2, <1>5 DEF Parts, ExpParts, StmtParts, Case
  <2>4. PartsFine("Statement", a)
    BY <2>1, <2>2, <1>2, OnePartFine
  <2>5. PartsFine("Statement", b) /\ PartsFine("Statement", c)
    BY <2>1, <2>2, <1>2, StmtPartsFine
  <2> QED  BY <2>3, <2>4, <2>5, PartsFineOn
<1>6. CASE v.type = "while_stmt"
  <2>1. v.cond \in ExpId /\ v.body \in Seq(StmtId)
    BY <1>1, <1>6 DEF Statements
  <2>2. PICK a, b : a = ExpParts("cond", <<v.cond>>) /\ b = StmtParts("body", v.body)
    OBVIOUS
  <2>3. Parts("Statement", v) = a \o b
    BY <2>2, <1>6 DEF Parts, ExpParts, StmtParts, Case
  <2>4. PartsFine("Statement", a)
    BY <2>1, <2>2, <1>2, OnePartFine
  <2>5. PartsFine("Statement", b)
    BY <2>1, <2>2, <1>2, StmtPartsFine
  <2> QED  BY <2>3, <2>4, <2>5, PartsFineOn
<1>7. CASE v.type = "for_stmt"
  <2>1. v.init \in StmtId /\ v.cond \in ExpId /\ v.inc \in StmtId /\ v.body \in Seq(StmtId)
    BY <1>1, <1>7 DEF Statements
  <2>2. PICK a, b, c, d : /\ a = StmtParts("init", <<v.init>>) /\ b = ExpParts("cond", <<v.cond>>)
                         /\ c = StmtParts("inc", <<v.inc>>) /\ d = StmtParts("body", v.body)
    OBVIOUS
  <2>3. Parts("Statement", v) = a \o b \o c \o d
    BY <2>2, <1>7 DEF Parts, ExpParts, StmtParts, Case
  <2>4. PartsFine("Statement", a) /\ PartsFine("Statement", b) /\ PartsFine("Statement", c)
    BY <2>1, <2>2, <1>2, OnePartFine
  <2>5. PartsFine("Statement", d)
    BY <2>1, <2>2, <1>2, StmtPartsFine
  <2> QED  BY <2>3, <2>4, <2>5, PartsFineOn
<1>8. CASE v.type = "TYPE_NOT_SET"
  <2>1. Parts("Statement", v) = <<>>
    BY <1>8 DEF Parts, Case
  <2> QED  BY <2>1, NoPartsFine
<1>9. v.type \in {"exp_stmt", "assign_stmt", "ret_stmt", "print_stmt", "if_else_stmt", "while_stmt",
                  "for_stmt", "TYPE_NOT_SET"}
  BY <1>1 DEF Statements
<1> QED  BY <1>3, <1>4, <1>5, <1>6, <1>7, <1>8, <1>9

LEMMA PartsOfNode ==
  ASSUME NEW t, NEW v, IsNode(t, v)
  PROVE  PartsFine(t, Parts(t, v))
<1>1. CASE t = "Expression" /\ \E e \in DOMAIN Exps : v = Node(e)
  BY <1>1, ExpressionParts DEF ExpId
<1>2. CASE t = "Statement" /\ \E s \in DOMAIN Stmts : v = Stmts[s]
  BY <1>2, StatementParts DEF StmtId
<1>3. CASE t = "Literal" /\ v \in PlainLiterals
  BY <1>3, LiteralParts
<1> QED  BY <1>1, <1>2, <1>3 DEF IsNode

(* A field of a message is built, with all it is made of.                  *)
LEMMA BuildLeads ==
  ASSUME NEW A, NEW o \in A, NEW f \in Fields(TypeOf(o)), NEW t, t = ChildType[f],
         t \in {"Expression", "Statement", "Literal"}, NEW v, IsNode(t, v), NEW d \in Nat,
         NEW B, B \subseteq A \cup {node(t, d)}
  PROVE  Leads(Ctx(A, {}), Build(o, f, t, v, d), Ctx(B, {}))
<1>1. PICK x, C, S, c : /\ x = node(t, d) /\ C = A \cup {x} /\ S = {}
                       /\ c = [op |-> "BuildFields", type |-> t, val |-> v, depth |-> d]
  OBVIOUS
<1>2. t \in Types /\ TypeOf(x) = t /\ x \notin S /\ C \subseteq A \cup {x}
  <2>1. t \in Types
    BY PooledTypes
  <2>2. TypeOf(x) = t
    BY <1>1, NodeTypes
  <2> QED  BY <2>1, <2>2, <1>1
<1>3. Follows(Ctx(A, S), Add(o, f, t, x), Ctx(C, S))
  BY <1>2, AddIn
<1>4. Follows(Ctx(C, S), Write(x, v), Ctx(C, S))
  <2>1. x \in C /\ TypeOf(x) # "Computation"
    BY <1>1, <1>2
  <2> QED  BY <2>1, WriteIn
<1>5. Follows(Ctx(C, S), c, Ctx(B, S))
  <2>1. c.type = t /\ c.depth = d /\ c.val = v /\ c.op = "BuildFields"
    BY <1>1
  <2>2. c = [op |-> "BuildFields", type |-> c.type, val |-> c.val, depth |-> c.depth]
    BY <2>1, <1>1
  <2>3. node(c.type, c.depth) \in C
    BY <2>1, <1>1
  <2>4. BuildFieldsRule(C, S, c, Ctx(C, S))
    BY <2>1, <2>2, <2>3, <1>1 DEF BuildFieldsRule
  <2>5. HandlerRule(C, S, c, Ctx(C, S)) /\ c.op \in OwnOps \ {"Evaluate"}
    BY <2>1, <2>4 DEF HandlerRule, OwnOps
  <2>6. Follows(Ctx(C, S), c, Ctx(C, S))
    BY <2>5, OwnStatement
  <2>7. AtLeast(Ctx(C, S), Ctx(B, S))
    BY <1>1, CtxLess
  <2> QED  BY <2>6, <2>7, Weaker, FollowsWeaker
<1> QED  BY <1>1, <1>3, <1>4, <1>5, LeadsThree DEF Build

BuildParts(o, ps, d) == [k \in 1 .. Len(ps) |-> Build(o, ps[k][1], ps[k][2], ps[k][3], d)]

LEMMA BuildPartsLeads ==
  ASSUME NEW A, NEW o \in A, NEW t, TypeOf(o) = t, NEW ps, PartsFine(t, ps), NEW d \in Nat,
         NEW F, F = BuildParts(o, ps, d)
  PROVE  Leads(Ctx(A, {}), FlattenSeq(F), Ctx(A, {}))
<1>1. PICK S : ps \in Seq(S)
  BY DEF PartsFine
<1>2. PICK n \in Nat : n = Len(ps)
  BY <1>1
<1>3. PICK G : G = Ctx(A, {})
  OBVIOUS
<1>4. \A k \in 1 .. n : Leads(G, F[k], G)
  <2> SUFFICES ASSUME NEW k \in 1 .. n  PROVE Leads(G, F[k], G)
    OBVIOUS
  <2>1. PICK p : p = ps[k]
    OBVIOUS
  <2>2. PartOk(t, p)
    BY <2>1, <1>2 DEF PartsFine
  <2>3. F[k] = Build(o, p[1], p[2], p[3], d)
    BY <2>1, <1>2 DEF BuildParts
  <2>4. PICK f, u, v : f = p[1] /\ u = p[2] /\ v = p[3]
    OBVIOUS
  <2>5. /\ f \in Fields(TypeOf(o)) /\ u = ChildType[f] /\ u \in {"Expression", "Statement", "Literal"}
        /\ IsNode(u, v)
    BY <2>2, <2>4 DEF PartOk
  <2>6. A \subseteq A \cup {node(u, d)}
    OBVIOUS
  <2>7. Leads(Ctx(A, {}), Build(o, f, u, v, d), Ctx(A, {}))
    BY <2>5, <2>6, BuildLeads
  <2> QED  BY <2>3, <2>4, <2>7, <1>3
<1>5. F = [k \in 1 .. n |-> F[k]]
  BY <1>2 DEF BuildParts
<1>6. Leads(G, FlattenSeq(F), G)
  BY <1>4, <1>5, LeadsRounds
<1> QED  BY <1>3, <1>6

LEMMA BuildFieldsLeads ==
  ASSUME NEW P, NEW Q, Rule(P, I, Q), BuildFields
  PROVE  Replaced(P, Q)
<1>1. I.op = "BuildFields"
  BY DEF BuildFields, At, I
<1>2. PICK A, S : P = Ctx(A, S) /\ HandlerRule(A, S, I, Q)
  BY <1>1, OwnRule DEF OwnOps
<1>3. BuildFieldsRule(A, S, I, Q)
  BY <1>1, <1>2 DEF HandlerRule
<1>4. PICK t, v, d, o, ps, F :
        /\ t = I.type /\ v = I.val /\ d = I.depth + 1 /\ o = node(I.type, I.depth)
        /\ ps = Parts(I.type, I.val) /\ F = BuildParts(o, ps, d)
  OBVIOUS
<1>5. /\ d \in Nat /\ o \in A /\ S = {} /\ IsNode(t, v) /\ Q = Ctx(A, {}) /\ P = Ctx(A, {})
      /\ TypeOf(o) = t
  <2>1. d \in Nat
    BY <1>3, <1>4 DEF BuildFieldsRule
  <2>2. o \in A /\ S = {} /\ IsNode(t, v) /\ Q = Ctx(A, S)
    BY <1>3, <1>4 DEF BuildFieldsRule
  <2>3. TypeOf(o) = t
    BY <1>4, NodeTypes
  <2> QED  BY <2>1, <2>2, <2>3, <1>2
<1>6. PartsFine(t, ps)
  BY <1>4, <1>5, PartsOfNode
<1>7. Leads(P, FlattenSeq(F), Q)
  <2>1. Leads(Ctx(A, {}), FlattenSeq(F), Ctx(A, {}))
    BY <1>4, <1>5, <1>6, BuildPartsLeads
  <2> QED  BY <2>1, <1>5
<1>8. Do(FlattenSeq(F))
  BY <1>4 DEF BuildFields, BuildParts, Concat
<1> QED  BY <1>7, <1>8 DEF Replaced, Do

(* A division that traps, or an argument with no parameter, ends it all.   *)
LEMMA FaultEnds ==
  ASSUME DivisionTrap \/ ParamOutOfRange
  PROVE  fault' # "none"
BY DEF DivisionTrap, ParamOutOfRange, Fail

(***************************************************************************)
(* All the evaluator's statements, and a whole step.                       *)
(***************************************************************************)
LEMMA EvaluatorReplaces ==
  ASSUME Owned, Typed, NEW P, NEW Q, Describes(P), Rule(P, I, Q), Leads(Q, Tail(code), Rest),
         OfTheEvaluator, fault' = "none"
  PROVE  Replaced(P, Q)
<1>1. CASE ExpComputation \/ VarExp \/ LitExp \/ FuncAppExp \/ MonArithExp \/ BinArithExp
           \/ TernExp \/ TupleExp \/ LambdaExp \/ UnsetExp
  BY <1>1, ExpComputationLeads, VarExpLeads, LitExpLeads, FuncAppExpLeads, MonArithExpLeads,
     BinArithExpLeads, TernExpLeads, TupleExpLeads, LambdaExpLeads, UnsetLeads
<1>2. CASE StmtComputation \/ ExpStmt \/ AssignStmt \/ RetStmt \/ PrintStmt \/ IfElseStmt
           \/ WhileStmt \/ ForStmt \/ UnsetStmt
  BY <1>2, StmtComputationLeads, PlainStmtLeads, IfElseStmtLeads, WhileStmtLeads, ForStmtLeads,
     UnsetLeads
<1>3. CASE BinExpFinal \/ MonExpFinal \/ TupleExpFinal \/ IgnoreOneResult \/ AssignStmtFinal
           \/ IfElseFinal \/ PrintFinal \/ FuncAppExpFinal \/ ReturnFromCtx
  BY <1>3, BinExpFinalLeads, MonExpFinalLeads, TupleExpFinalLeads, IgnoreOneResultLeads,
     AssignStmtFinalLeads, IfElseFinalLeads, PrintFinalLeads, FuncAppExpFinalLeads,
     ReturnFromCtxLeads
<1>4. CASE ValueOf \/ Operate \/ MutableRvalue \/ MutableTupleVal \/ CellOfResult \/ Branch
           \/ Output \/ MutableClosureVal \/ Enter \/ AssignParam \/ ScheduleBody
           \/ PopTailReturns \/ BuildFields
  BY <1>4, ValueOfLeads, OperateLeads, MutableRvalueLeads, LookLeads, CellOfResultLeads,
     BranchLeads, OutputLeads, AssignParamLeads, ScheduleBodyLeads, BuildFieldsLeads
<1>5. CASE DivisionTrap \/ ParamOutOfRange
  BY <1>5, FaultEnds
<1> QED  BY <1>1, <1>2, <1>3, <1>4, <1>5 DEF OfTheEvaluator

LEMMA EvaluatorKnows ==
  ASSUME Owned, Typed, NEW P, NEW Q, Describes(P), Rule(P, I, Q), Leads(Q, Tail(code), Rest),
         OfTheEvaluator, fault' = "none"
  PROVE  Typed' /\ Knows'
<1>1. PICK cs : code' = cs \o Tail(code) /\ Leads(P, cs, Q)
  BY EvaluatorReplaces DEF Replaced
<1>2. UNCHANGED <<messages, reg, held>>
  BY EvaluatorIsQuiet DEF Quiet
<1> QED  BY <1>1, <1>2, InsteadKnows

(***************************************************************************)
(* Between two calls.                                                      *)
(***************************************************************************)
LEMMA RestIsCtx == Rest = Ctx({ctx}, {})
BY DEF Rest, Ctx

LEMMA HostLocals ==
  /\ ctx # cur /\ ctx # cur_comp /\ cur # cur_comp /\ ctx # stmt /\ cur_comp # stmt
  /\ Local("ctx_cpy") # ctx
  /\ \A d : ~InCopy(ctx, d) /\ ~InCopy(Local("ctx_cpy"), d)
<1>1. /\ ctx = Local("ctx_") /\ cur = Local("cur_ctx") /\ cur_comp = Local("cur_comp")
      /\ stmt = Local("stmt")
  BY DEF ctx, cur, cur_comp, stmt
<1>2. \A m, n : m # n => Local(m) # Local(n)
  BY LocalNames
<1>3. \A m \in {"ctx_", "ctx_cpy"} : \A d : ~InCopy(Local(m), d)
  BY LocalNames DEF InCopy
<1> QED  BY <1>1, <1>2, <1>3

(* The locals may move to a new arena before a step.                       *)
LEMMA ResetBlockLeads == Leads(Rest, ResetBlock, Rest)
<1>1. PICK y, G, H, K : /\ y = Local("ctx_cpy") /\ G = Facts({ctx}, {y}, {}, {})
                       /\ H = Facts({}, {y}, {}, {}) /\ K = Facts({ctx}, {}, {}, {})
  OBVIOUS
<1>2. /\ G.arena = {ctx} /\ G.heap = {y} /\ G.own = {} /\ G.may = {}
      /\ H.arena = {} /\ H.heap = {y} /\ H.own = {} /\ H.may = {}
      /\ K.arena = {ctx} /\ K.heap = {} /\ K.own = {} /\ K.may = {}
  BY <1>1, FactsOf
<1>3. /\ y # ctx /\ TypeOf(y) = "EvalContext" /\ TypeOf(ctx) = "EvalContext"
      /\ "EvalContext" \in Types /\ ~InCopy(ctx, 0) /\ ~InCopy(y, 0)
  BY <1>1, HostLocals, DeclaredTypes, PooledTypes
<1>4. PICK a, b, c, d, e, f :
        /\ a = Make("EvalContext", y, FALSE) /\ b = CopyAssign(ctx, y) /\ c = Reset
        /\ d = Make("EvalContext", ctx, TRUE) /\ e = CopyAssign(y, ctx) /\ f = Leave(ctx)
  OBVIOUS
<1>5. ResetBlock = <<a, b, c, d, e, f>>
  BY <1>1, <1>4 DEF ResetBlock
<1>6. Follows(K, a, G)
  <2>1. /\ a.op = "Make" /\ a.type = "EvalContext" /\ a.to = y
        /\ a = Make(a.type, a.to, a.in_arena) /\ ~a.in_arena /\ a.in_arena \in BOOLEAN
    <3>1. a.op = "Make" /\ a.type = "EvalContext" /\ a.to = y
      BY <1>4 DEF Make
    <3>2. a.in_arena = FALSE
      BY <1>4, Zenon DEF Make
    <3>3. a = Make(a.type, a.to, a.in_arena)
      BY <3>1, <3>2, <1>4, Zenon
    <3>4. ~a.in_arena
      BY <3>2
    <3>5. a.in_arena \in BOOLEAN
      BY <3>2
    <3> QED  BY <3>1, <3>3, <3>4, <3>5
  <2>2. G = Facts(K.arena \ {y}, K.heap \cup {y}, K.own, K.may)
    <3>1. K.arena \ {y} = {ctx} /\ K.heap \cup {y} = {y}
      BY <1>2, <1>3
    <3> QED  BY <3>1, <1>1, <1>2
  <2>3. MakeRule(K, a, G)
    BY <2>1, <2>2, <1>2, <1>3, <1>4 DEF MakeRule
  <2> QED  BY <2>1, <2>3, Weaker DEF Follows, Rule
<1>7. Follows(G, b, G) /\ Follows(G, e, G)
  <2>1. Facts(Without(G.arena, 0), Without(G.heap, 0), G.own, G.may) = G
    BY <1>1, <1>2, <1>3 DEF Without
  <2>2. ctx \in Known(G) /\ y \in Known(G) /\ ctx \in G.arena
    BY <1>2 DEF Known
  <2>3. b = [op |-> "Assign", x |-> ctx, y |-> y, depth |-> 0]
    BY <1>4 DEF CopyAssign
  <2>4. e = [op |-> "Assign", x |-> y, y |-> ctx, depth |-> 0]
    BY <1>4 DEF CopyAssign
  <2>5. \A z \in G.may : ~InCopy(z, 0)
    BY <1>2
  <2>6. 0 \in Nat /\ "Assign" \in {"Copy", "Assign"} /\ "Assign" # "Copy"
    OBVIOUS
  <2>7. Follows(G, b, Facts(Without(G.arena, 0), Without(G.heap, 0), G.own, G.may))
    BY <2>2, <2>3, <2>5, <2>6, <1>3, CopyFollows
  <2>8. Follows(G, e, Facts(Without(G.arena, 0), Without(G.heap, 0), G.own, G.may))
    BY <2>2, <2>4, <2>5, <2>6, <1>3, CopyFollows
  <2> QED  BY <2>1, <2>7, <2>8
<1>8. Follows(G, c, H)
  <2>1. c.op = "Reset"
    BY <1>4 DEF Reset
  <2>2. ResetRule(G, c, H)
    BY <1>1, <1>2, <1>4 DEF ResetRule
  <2> QED  BY <2>1, <2>2, Weaker DEF Follows, Rule
<1>9. Follows(H, d, G)
  <2>1. /\ d.op = "Make" /\ d.type = "EvalContext" /\ d.to = ctx
        /\ d = Make(d.type, d.to, d.in_arena) /\ d.in_arena /\ d.in_arena \in BOOLEAN
    <3>1. d.op = "Make" /\ d.type = "EvalContext" /\ d.to = ctx
      BY <1>4 DEF Make
    <3>2. d.in_arena = TRUE
      BY <1>4, Zenon DEF Make
    <3>3. d = Make(d.type, d.to, d.in_arena)
      BY <3>1, <3>2, <1>4, Zenon
    <3>4. d.in_arena
      BY <3>2
    <3>5. d.in_arena \in BOOLEAN
      BY <3>2
    <3> QED  BY <3>1, <3>3, <3>4, <3>5
  <2>2. G = Facts(H.arena \cup {ctx}, H.heap \ {ctx}, H.own, H.may)
    <3>1. H.arena \cup {ctx} = {ctx} /\ H.heap \ {ctx} = {y}
      BY <1>2, <1>3
    <3> QED  BY <3>1, <1>1, <1>2
  <2>3. MakeRule(H, d, G)
    BY <2>1, <2>2, <1>2, <1>3, <1>4 DEF MakeRule
  <2> QED  BY <2>1, <2>3, Weaker DEF Follows, Rule
<1>10. Follows(G, f, K)
  <2>1. f.op = "Leave" /\ f.x = ctx
    BY <1>4 DEF Leave
  <2>2. LeaveRule(G, f, K)
    BY <2>1, <1>1, <1>2, <1>4 DEF LeaveRule
  <2> QED  BY <2>1, <2>2, Weaker DEF Follows, Rule
<1>11. PICK u, v : u = <<a, b, c>> /\ v = <<d, e, f>>
  OBVIOUS
<1>12. Leads(K, u, H) /\ Leads(H, v, K)
  BY <1>6, <1>7, <1>8, <1>9, <1>10, <1>11, LeadsThree
<1>13. ResetBlock = u \o v
  BY <1>5, <1>11
<1>14. Leads(K, u \o v, K)
  BY <1>12, LeadsOn
<1> QED  BY <1>1, <1>13, <1>14 DEF Rest

(* A step evaluates the next computation of the current context.           *)
LEMMA StepLeads ==
  Leads(Rest, <<Point(cur, ctx, "cur_ctx", 1), Take(cur, "comp", cur_comp),
                [op |-> "Evaluate", x |-> cur_comp], Destroy(cur_comp), Leave(ctx)>>, Rest)
<1>1. PICK A, B, C, N, S : /\ A = {ctx} /\ B = {ctx, cur} /\ C = {ctx, cur, cur_comp}
                          /\ N = {} /\ S = {cur_comp}
  OBVIOUS
<1>2. PICK a, b, c, d, e :
        /\ a = Point(cur, ctx, "cur_ctx", 1) /\ b = Take(cur, "comp", cur_comp)
        /\ c = [op |-> "Evaluate", x |-> cur_comp] /\ d = Destroy(cur_comp) /\ e = Leave(ctx)
  OBVIOUS
<1>3. PICK G, H : G = Facts(C, {}, S, S \cup {stmt}) /\ H = Facts(C, {}, {}, {stmt})
  OBVIOUS
<1>4. /\ G.arena = C /\ G.heap = {} /\ G.own = S /\ G.may = S \cup {stmt}
      /\ H.arena = C /\ H.heap = {} /\ H.own = {} /\ H.may = {stmt}
  BY <1>3, FactsOf
<1>5. Follows(Ctx(A, N), a, Ctx(B, N))
  <2>1. /\ ctx \in A /\ "cur_ctx" \in Fields(TypeOf(ctx)) /\ TypeOf(cur) = ChildType["cur_ctx"]
        /\ cur \notin N /\ B \subseteq A \cup {cur}
    BY <1>1, DeclaredTypes, FieldSets DEF ChildType
  <2> QED  BY <2>1, <1>2, PointIn
<1>6. Follows(Ctx(B, N), b, Ctx(C, S))
  <2>1. /\ cur \in B /\ "comp" \in Fields(TypeOf(cur)) /\ TypeOf(cur_comp) = ChildType["comp"]
        /\ cur_comp \notin N /\ C \subseteq B \cup {cur_comp} /\ S = N \cup {cur_comp}
        /\ ChildType["comp"] \in Pooled
    BY <1>1, DeclaredTypes, FieldSets, PooledTypes DEF ChildType
  <2> QED  BY <2>1, <1>2, TakeIn
<1>7. Follows(Ctx(C, S), c, G)
  <2>1. c.op = "Evaluate" /\ c.x = cur_comp
    BY <1>2
  <2>2. Ctx(C, S) = InComp /\ G = AfterComp
    BY <1>1, <1>3 DEF InComp, AfterComp
  <2>3. EvaluateRule(Ctx(C, S), c, G)
    BY <2>1, <2>2, <1>2 DEF EvaluateRule
  <2> QED  BY <2>1, <2>3, Weaker DEF Follows, Rule
<1>8. Follows(G, d, H)
  <2>1. d.op = "Destroy" /\ d.x = cur_comp
    BY <1>2 DEF Destroy
  <2>2. cur_comp \in G.arena /\ TypeOf(cur_comp) \in Pooled
    BY <1>1, <1>4, DeclaredTypes, PooledTypes
  <2>3. G.own \ {cur_comp} = {} /\ G.may \ {cur_comp} = {stmt}
    BY <1>1, <1>4, HostLocals
  <2>4. H = Parted(G, cur_comp)
    BY <2>3, <1>3, <1>4 DEF Parted
  <2>5. DestroyRule(G, d, H)
    BY <2>1, <2>2, <2>4, <1>2 DEF DestroyRule
  <2> QED  BY <2>1, <2>5, Weaker DEF Follows, Rule
<1>9. Follows(H, e, Rest)
  <2>1. e.op = "Leave" /\ e.x = ctx
    BY <1>2 DEF Leave
  <2>2. ctx \in H.arena /\ \A z \in H.may : TypeOf(z) \notin Pooled
    BY <1>1, <1>4, DeclaredTypes, PooledTypes
  <2>3. LeaveRule(H, e, Rest)
    BY <2>1, <2>2, <1>2 DEF LeaveRule, Rest
  <2> QED  BY <2>1, <2>3, Weaker DEF Follows, Rule
<1>10. PICK u, v : u = <<a, b, c>> /\ v = <<d, e>>
  OBVIOUS
<1>11. Leads(Ctx(A, N), u, G) /\ Leads(G, v, Rest)
  BY <1>5, <1>6, <1>7, <1>8, <1>9, <1>10, LeadsTwo, LeadsThree
<1>12. Leads(Ctx(A, N), u \o v, Rest)
  BY <1>11, LeadsOn
<1>15. PICK w : w = <<a, b, c, d, e>>
  OBVIOUS
<1>13. w = u \o v
  BY <1>10, <1>15
<1>14. Ctx(A, N) = Rest
  BY <1>1, RestIsCtx
<1> QED  BY <1>2, <1>12, <1>13, <1>14, <1>15

(* A statement of the program goes into the computations, with its tree.   *)
StmtBuilds(p) ==
  [k \in 1 .. Len(p) |-> <<Add(cur, "comp", "Computation", new), Write(new, Case("stmt"))>>
                         \o Build(new, "stmt", "Statement", Stmts[p[Len(p) + 1 - k]], 0)]

LEMMA StmtBuildsLeads ==
  ASSUME NEW p \in Seq(StmtId), NEW A, NEW F, A = {ctx, cur}, F = StmtBuilds(p)
  PROVE  Leads(Ctx(A, {}), FlattenSeq(F), Ctx(A, {}))
<1>1. PICK n \in Nat : n = Len(p)
  OBVIOUS
<1>2. \A k \in 1 .. n : p[k] \in StmtId
  BY <1>1
<1>3. PICK G : G = Ctx(A, {})
  OBVIOUS
<1>4. \A k \in 1 .. n : Leads(G, F[k], G)
  <2> SUFFICES ASSUME NEW k \in 1 .. n  PROVE Leads(G, F[k], G)
    OBVIOUS
  <2>1. PICK j \in 1 .. n : j = n + 1 - k
    OBVIOUS
  <2>2. PICK s, B, S : s = Stmts[p[j]] /\ B = A \cup {new} /\ S = {}
    OBVIOUS
  <2>3. PICK a, b : /\ a = <<Add(cur, "comp", "Computation", new), Write(new, Case("stmt"))>>
                   /\ b = Build(new, "stmt", "Statement", s, 0)
    OBVIOUS
  <2>4. F[k] = a \o b
    BY <2>1, <2>2, <2>3, <1>1 DEF StmtBuilds
  <2>5. IsNode("Statement", s)
    BY <2>1, <2>2, <1>2 DEF IsNode, StmtId
  <2>6. /\ cur \in A /\ new \in B /\ new \notin S /\ B \subseteq A \cup {new}
        /\ "comp" \in Fields(TypeOf(cur)) /\ ChildType["comp"] = "Computation"
        /\ TypeOf(new) = "Computation" /\ "Computation" \in Types
        /\ "stmt" \in Fields(TypeOf(new)) /\ ChildType["stmt"] = "Statement"
    BY <2>2, DeclaredTypes, FieldSets, PooledTypes DEF ChildType
  <2>7. Follows(Ctx(A, S), Add(cur, "comp", "Computation", new), Ctx(B, S))
    BY <2>6, AddIn
  <2>8. Follows(Ctx(B, S), Write(new, Case("stmt")), Ctx(B, S))
    BY <2>6, CaseCounted, WriteIn
  <2>9. Leads(Ctx(A, S), a, Ctx(B, S))
    BY <2>3, <2>7, <2>8, LeadsTwo
  <2>10. Leads(Ctx(B, {}), b, Ctx(A, {}))
    <3>1. A \subseteq B \cup {node("Statement", 0)} /\ 0 \in Nat
      BY <2>2
    <3>2. PICK t, f : t = "Statement" /\ f = "stmt"
      OBVIOUS
    <3> QED  BY <3>1, <2>3, <2>5, <2>6, BuildLeads
  <2>11. Leads(Ctx(A, {}), a \o b, Ctx(A, {}))
    BY <2>2, <2>9, <2>10, LeadsOn
  <2> QED  BY <2>4, <2>11, <1>3
<1>5. F = [k \in 1 .. n |-> F[k]]
  BY <1>1 DEF StmtBuilds
<1>6. Leads(G, FlattenSeq(F), G)
  BY <1>4, <1>5, LeadsRounds
<1> QED  BY <1>3, <1>6

LEMMA InitCtxLeads ==
  ASSUME NEW p \in Seq(StmtId)
  PROVE  Leads(Ctx({}, {}), InitCtx(p), Rest)
<1>1. PICK N, A, B : N = {} /\ A = {ctx} /\ B = {ctx, cur}
  OBVIOUS
<1>2. PICK u, v, w : u = Make("EvalContext", ctx, TRUE) /\ v = Add(ctx, "cur_ctx", "LocalContext", cur)
                     /\ w = Write(cur, HasEnv([x \in {} |-> 0]))
  OBVIOUS
<1>3. PICK a, b, c : a = <<u, v, w>> /\ b = FlattenSeq(StmtBuilds(p)) /\ c = <<Leave(ctx)>>
  OBVIOUS
<1>4. InitCtx(p) = a \o b \o c
  BY <1>2, <1>3 DEF InitCtx, Countdown, StmtBuilds
<1>5. Follows(Ctx(N, N), u, Ctx(A, N))
  <2>1. /\ u.op = "Make" /\ u.type = "EvalContext" /\ u.to = ctx
        /\ u = Make(u.type, u.to, u.in_arena) /\ u.in_arena /\ u.in_arena \in BOOLEAN
    <3>1. u.op = "Make" /\ u.type = "EvalContext" /\ u.to = ctx
      BY <1>2 DEF Make
    <3>2. u.in_arena = TRUE
      BY <1>2, Zenon DEF Make
    <3>3. u = Make(u.type, u.to, u.in_arena)
      BY <3>1, <3>2, <1>2, Zenon
    <3>4. u.in_arena
      BY <3>2
    <3>5. u.in_arena \in BOOLEAN
      BY <3>2
    <3> QED  BY <3>1, <3>3, <3>4, <3>5
  <2>2. PICK G, H : G = Ctx(N, N) /\ H = Ctx(A, N)
    OBVIOUS
  <2>3. G.arena = N /\ G.heap = {} /\ G.own = N /\ G.may = N
    BY <2>2, CtxOf
  <2>4. H = Facts(G.arena \cup {ctx}, G.heap \ {ctx}, G.own, G.may)
    <3>1. G.arena \cup {ctx} = A /\ G.heap \ {ctx} = {}
      BY <1>1, <2>3
    <3> QED  BY <3>1, <2>2, <2>3 DEF Ctx
  <2>5. ctx \notin G.may /\ TypeOf(ctx) = "EvalContext" /\ "EvalContext" \in Types
    BY <1>1, <2>3, DeclaredTypes, PooledTypes
  <2>6. MakeRule(G, u, H)
    BY <2>1, <2>4, <2>5 DEF MakeRule
  <2> QED  BY <2>1, <2>2, <2>6, Weaker DEF Follows, Rule
<1>6. Follows(Ctx(A, N), v, Ctx(B, N))
  <2>1. /\ ctx \in A /\ "cur_ctx" \in Fields(TypeOf(ctx)) /\ ChildType["cur_ctx"] = "LocalContext"
        /\ TypeOf(cur) = "LocalContext" /\ "LocalContext" \in Types /\ cur \notin N
        /\ B \subseteq A \cup {cur}
    BY <1>1, DeclaredTypes, FieldSets, PooledTypes DEF ChildType
  <2> QED  BY <2>1, <1>2, AddIn
<1>7. Follows(Ctx(B, N), w, Ctx(B, N))
  <2>1. cur \in B /\ TypeOf(cur) # "Computation"
    BY <1>1, DeclaredTypes
  <2>2. PICK e : e = HasEnv([x \in {} |-> 0])
    OBVIOUS
  <2> QED  BY <2>1, <2>2, <1>2, WriteIn
<1>8. Leads(Ctx(N, N), a, Ctx(B, N))
  BY <1>3, <1>5, <1>6, <1>7, LeadsThree
<1>9. Leads(Ctx(B, N), b, Ctx(B, N))
  BY <1>1, <1>3, StmtBuildsLeads
<1>10. Leads(Ctx(B, N), c, Rest)
  <2>1. PICK e, G : e = Leave(ctx) /\ G = Ctx(B, N)
    OBVIOUS
  <2>2. e.op = "Leave" /\ e.x = ctx
    BY <2>1 DEF Leave
  <2>3. ctx \in G.arena /\ G.may = {}
    BY <2>1, <1>1, CtxOf
  <2>4. LeaveRule(G, e, Rest)
    BY <2>1, <2>2, <2>3 DEF LeaveRule, Rest
  <2>5. Follows(G, e, Rest)
    BY <2>2, <2>4, Weaker DEF Follows, Rule
  <2> QED  BY <2>1, <2>5, <1>3, LeadsOne
<1> QED  BY <1>1, <1>4, <1>8, <1>9, <1>10, LeadsOnThree

-----------------------------------------------------------------------------
(***************************************************************************)
(* The inductive invariant: the owners are what they should be, and, until *)
(* the process ends, the locals are known and what is left can be executed. *)
(***************************************************************************)
Sound == Owned /\ (fault = "none" => Typed /\ Knows)

LEMMA SoundInit ==
  ASSUME Init
  PROVE  Sound
<1>1. /\ type = <<>> /\ val = <<>> /\ kids = <<>> /\ held = {} /\ top = 0 /\ low = 0
      /\ code = InitCtx(pgm) /\ pgm \in Seq(StmtId)
  BY SyntaxAssumption DEF Init
<1>2. Objects = {}
  BY <1>1 DEF Objects
<1>3. Typed
  <2>1. DOMAIN val = {}
    BY <1>1
  <2> QED  BY <2>1, <1>1, <1>2 DEF Typed, OwnTyped, KidsOfType, ScalarsTyped
<1>4. Describes(Ctx({}, {}))
  <2>1. PICK N : N = {}
    OBVIOUS
  <2>2. Describes(Ctx(N, N))
    BY <2>1, <1>1, CtxOf DEF Describes
  <2> QED  BY <2>1, <2>2
<1>5. Knows
  BY <1>1, <1>4, InitCtxLeads DEF Knows
<1> QED  BY <1>3, <1>5, OwnedInit DEF Sound

LEMMA SoundKeepsContract ==
  ASSUME Sound
  PROVE  Contract
<1>1. CASE code # <<>> /\ fault = "none"
  <2>1. PICK P, Q : Describes(P) /\ Rule(P, I, Q)
    BY <1>1, NextStatement DEF Sound
  <2> QED  BY <1>1, <2>1, RuleKeepsContract DEF Sound
<1>2. CASE ~(code # <<>> /\ fault = "none")
  BY <1>2 DEF Contract
<1> QED  BY <1>1, <1>2

(* A step begins where nothing but ctx_ is known. *)
LEMMA StepKnows ==
  ASSUME Sound, Step
  PROVE  Typed' /\ Knows'
<1>1. Owned /\ Typed /\ Knows /\ code = <<>>
  BY DEF Sound, Step, Idle
<1>2. PICK G : Describes(G) /\ Leads(G, <<>>, Rest)
  BY <1>1 DEF Knows
<1>3. Describes(Rest)
  BY <1>2, LeadsNowhere, DescribesLess
<1>4. PICK a : a = <<Point(cur, ctx, "cur_ctx", 1), Take(cur, "comp", cur_comp),
                     [op |-> "Evaluate", x |-> cur_comp], Destroy(cur_comp), Leave(ctx)>>
  OBVIOUS
<1>5. Leads(Rest, a, Rest)
  BY <1>4, StepLeads
<1>6. Leads(Rest, code', Rest)
  <2>1. CASE top > limit
    <3>1. code' = ResetBlock \o a
      BY <2>1, <1>4 DEF Step
    <3> QED  BY <3>1, <1>5, ResetBlockLeads, LeadsOn
  <2>2. CASE ~(top > limit)
    <3>1. code' = <<>> \o a
      BY <2>2, <1>4 DEF Step
    <3>2. Leads(Rest, <<>>, Rest)
      BY LeadsNowhere
    <3> QED  BY <3>1, <3>2, <1>5, LeadsOn
  <2> QED  BY <2>1, <2>2
<1>7. UNCHANGED <<type, val, kids, reg, held>>
  BY DEF Step, messages
<1>8. Describes(Rest)' /\ OwnTyped' /\ Objects' = Objects
  BY <1>1, <1>3, <1>7, LocalsKept
<1>9. KidsOfType' /\ ScalarsTyped'
  BY <1>1, <1>7, <1>8 DEF Typed, KidsOfType, ScalarsTyped
<1> QED  BY <1>6, <1>8, <1>9 DEF Typed, Knows

LEMMA StillKnows ==
  ASSUME Typed, Knows, UNCHANGED memVars
  PROVE  Typed' /\ Knows'
<1>1. UNCHANGED <<type, val, kids, top, low, reg, held, code>>
  BY DEF memVars, messages
<1>2. PICK G : Describes(G) /\ Leads(G, code, Rest)
  BY DEF Knows
<1>3. Describes(G)'
  BY <1>1, <1>2 DEF Describes, InArena, InHeap, Objects
<1>4. Typed'
  BY <1>1 DEF Typed, OwnTyped, KidsOfType, ScalarsTyped, Objects
<1> QED  BY <1>1, <1>2, <1>3, <1>4 DEF Knows

LEMMA AtSomething ==
  ASSUME OfTheEvaluator \/ Execute
  PROVE  \E op : At(op)
<1>1. ASSUME ValueOf  PROVE \E op : At(op)
  BY <1>1 DEF ValueOf
<1>2. ASSUME Operate  PROVE \E op : At(op)
  BY <1>2 DEF Operate
<1>3. ASSUME DivisionTrap  PROVE \E op : At(op)
  BY <1>3 DEF DivisionTrap
<1>4. ASSUME ExpComputation  PROVE \E op : At(op)
  BY <1>4 DEF ExpComputation, On
<1>5. ASSUME VarExp  PROVE \E op : At(op)
  BY <1>5 DEF VarExp, On
<1>6. ASSUME LitExp  PROVE \E op : At(op)
  BY <1>6 DEF LitExp, On
<1>7. ASSUME FuncAppExp  PROVE \E op : At(op)
  BY <1>7 DEF FuncAppExp, On
<1>8. ASSUME MonArithExp  PROVE \E op : At(op)
  BY <1>8 DEF MonArithExp, On
<1>9. ASSUME BinArithExp  PROVE \E op : At(op)
  BY <1>9 DEF BinArithExp, On
<1>10. ASSUME TernExp  PROVE \E op : At(op)
  BY <1>10 DEF TernExp, On
<1>11. ASSUME TupleExp  PROVE \E op : At(op)
  BY <1>11 DEF TupleExp, On
<1>12. ASSUME LambdaExp  PROVE \E op : At(op)
  BY <1>12 DEF LambdaExp, On
<1>13. ASSUME UnsetExp  PROVE \E op : At(op)
  BY <1>13 DEF UnsetExp, On
<1>14. ASSUME StmtComputation  PROVE \E op : At(op)
  BY <1>14 DEF StmtComputation, On
<1>15. ASSUME ExpStmt  PROVE \E op : At(op)
  BY <1>15 DEF ExpStmt, On
<1>16. ASSUME AssignStmt  PROVE \E op : At(op)
  BY <1>16 DEF AssignStmt, On
<1>17. ASSUME RetStmt  PROVE \E op : At(op)
  BY <1>17 DEF RetStmt, On
<1>18. ASSUME PrintStmt  PROVE \E op : At(op)
  BY <1>18 DEF PrintStmt, On
<1>19. ASSUME IfElseStmt  PROVE \E op : At(op)
  BY <1>19 DEF IfElseStmt, On
<1>20. ASSUME WhileStmt  PROVE \E op : At(op)
  BY <1>20 DEF WhileStmt, On
<1>21. ASSUME ForStmt  PROVE \E op : At(op)
  BY <1>21 DEF ForStmt, On
<1>22. ASSUME UnsetStmt  PROVE \E op : At(op)
  BY <1>22 DEF UnsetStmt, On
<1>23. ASSUME BinExpFinal  PROVE \E op : At(op)
  BY <1>23 DEF BinExpFinal, On
<1>24. ASSUME MonExpFinal  PROVE \E op : At(op)
  BY <1>24 DEF MonExpFinal, On
<1>25. ASSUME TupleExpFinal  PROVE \E op : At(op)
  BY <1>25 DEF TupleExpFinal, On
<1>26. ASSUME MutableRvalue  PROVE \E op : At(op)
  BY <1>26 DEF MutableRvalue
<1>27. ASSUME MutableTupleVal  PROVE \E op : At(op)
  BY <1>27 DEF MutableTupleVal
<1>28. ASSUME IgnoreOneResult  PROVE \E op : At(op)
  BY <1>28 DEF IgnoreOneResult, On
<1>29. ASSUME AssignStmtFinal  PROVE \E op : At(op)
  BY <1>29 DEF AssignStmtFinal, On
<1>30. ASSUME CellOfResult  PROVE \E op : At(op)
  BY <1>30 DEF CellOfResult
<1>31. ASSUME IfElseFinal  PROVE \E op : At(op)
  BY <1>31 DEF IfElseFinal, On
<1>32. ASSUME Branch  PROVE \E op : At(op)
  BY <1>32 DEF Branch
<1>33. ASSUME PrintFinal  PROVE \E op : At(op)
  BY <1>33 DEF PrintFinal, On
<1>34. ASSUME Output  PROVE \E op : At(op)
  BY <1>34 DEF Output
<1>35. ASSUME FuncAppExpFinal  PROVE \E op : At(op)
  BY <1>35 DEF FuncAppExpFinal, On
<1>36. ASSUME MutableClosureVal  PROVE \E op : At(op)
  BY <1>36 DEF MutableClosureVal
<1>37. ASSUME Enter  PROVE \E op : At(op)
  BY <1>37 DEF Enter
<1>38. ASSUME AssignParam  PROVE \E op : At(op)
  BY <1>38 DEF AssignParam
<1>39. ASSUME ParamOutOfRange  PROVE \E op : At(op)
  BY <1>39 DEF ParamOutOfRange
<1>40. ASSUME ScheduleBody  PROVE \E op : At(op)
  BY <1>40 DEF ScheduleBody
<1>41. ASSUME ReturnFromCtx  PROVE \E op : At(op)
  BY <1>41 DEF ReturnFromCtx, On
<1>42. ASSUME PopTailReturns  PROVE \E op : At(op)
  BY <1>42 DEF PopTailReturns
<1>43. ASSUME BuildFields  PROVE \E op : At(op)
  BY <1>43 DEF BuildFields
<1>44. ASSUME CreateOnArena  PROVE \E op : At(op)
  BY <1>44 DEF CreateOnArena
<1>45. ASSUME RemoveFromPool  PROVE \E op : At(op)
  BY <1>45 DEF RemoveFromPool
<1>46. ASSUME MovePoolPtr  PROVE \E op : At(op)
  BY <1>46 DEF MovePoolPtr
<1>47. ASSUME DestroyPoolPtr  PROVE \E op : At(op)
  BY <1>47 DEF DestroyPoolPtr
<1>48. ASSUME WrapPoolPtr  PROVE \E op : At(op)
  BY <1>48 DEF WrapPoolPtr
<1>49. ASSUME ReleaseRaw  PROVE \E op : At(op)
  BY <1>49 DEF ReleaseRaw
<1>50. ASSUME ReleaseNothing  PROVE \E op : At(op)
  BY <1>50 DEF ReleaseNothing
<1>51. ASSUME AddAllocated  PROVE \E op : At(op)
  BY <1>51 DEF AddAllocated
<1>52. ASSUME AddNew  PROVE \E op : At(op)
  BY <1>52 DEF AddNew
<1>53. ASSUME MakeMessage  PROVE \E op : At(op)
  BY <1>53 DEF MakeMessage
<1>54. ASSUME PointInto  PROVE \E op : At(op)
  BY <1>54 DEF PointInto
<1>55. ASSUME PointOutside  PROVE \E op : At(op)
  BY <1>55 DEF PointOutside
<1>56. ASSUME WriteScalars  PROVE \E op : At(op)
  BY <1>56 DEF WriteScalars
<1>57. ASSUME SetScalars  PROVE \E op : At(op)
  BY <1>57 DEF SetScalars
<1>58. ASSUME SwapMessages  PROVE \E op : At(op)
  BY <1>58 DEF SwapMessages
<1>59. ASSUME SwapFields  PROVE \E op : At(op)
  BY <1>59 DEF SwapFields
<1>60. ASSUME CopyMessage  PROVE \E op : At(op)
  BY <1>60 DEF CopyMessage
<1>61. ASSUME ResetArena  PROVE \E op : At(op)
  BY <1>61 DEF ResetArena
<1>62. ASSUME LeaveBlock  PROVE \E op : At(op)
  BY <1>62 DEF LeaveBlock
<1> QED
  BY <1>1, <1>2, <1>3, <1>4, <1>5, <1>6, <1>7, <1>8, <1>9, <1>10, <1>11, <1>12, <1>13, <1>14, <1>15, <1>16, <1>17, <1>18, <1>19, <1>20, <1>21, <1>22, <1>23, <1>24, <1>25, <1>26, <1>27, <1>28, <1>29, <1>30, <1>31, <1>32, <1>33, <1>34, <1>35, <1>36, <1>37, <1>38, <1>39, <1>40, <1>41, <1>42, <1>43, <1>44, <1>45, <1>46, <1>47, <1>48, <1>49, <1>50, <1>51, <1>52, <1>53, <1>54, <1>55, <1>56, <1>57, <1>58, <1>59, <1>60, <1>61, <1>62 DEF OfTheEvaluator, Execute

LEMMA SoundStep ==
  ASSUME Sound, [Next]_vars
  PROVE  Sound'
<1>1. Owned'
  BY SoundKeepsContract, OwnedStep DEF Sound
<1>2. SUFFICES ASSUME fault' = "none"  PROVE Typed' /\ Knows'
  BY <1>1 DEF Sound
<1>3. CASE UNCHANGED vars \/ ConsumeOutput
  <2>1. UNCHANGED memVars
    BY <1>3 DEF vars, ConsumeOutput
  <2>2. fault = "none"
    BY <2>1, <1>2 DEF memVars
  <2> QED  BY <2>1, <2>2, StillKnows DEF Sound
<1>4. CASE Step
  BY <1>4, StepKnows
<1>5. CASE OfTheEvaluator \/ Execute
  <2>1. PICK op : At(op)
    BY <1>5, AtSomething
  <2>2. code # <<>> /\ Owned /\ Typed /\ Knows
    BY <2>1 DEF At, Sound
  <2>3. PICK P, Q : Describes(P) /\ Rule(P, I, Q) /\ Leads(Q, Tail(code), Rest)
    BY <2>2, NextStatement
  <2> QED  BY <1>2, <1>5, <2>2, <2>3, EvaluatorKnows, ExecuteKnows
<1> QED  BY <1>3, <1>4, <1>5 DEF Next, OfTheMemory

-----------------------------------------------------------------------------
(* Every statement that the evaluator and its host execute keeps the        *)
(* contract of the allocator: what it reads is there and of the type it is  *)
(* used as, what it releases or destroys has a pool and is on the arena, a  *)
(* PoolPtr that is written is empty, and no PoolPtr is left behind when the *)
(* arena is reset.  The compiler and the callers of memory.h are trusted    *)
(* with this; nothing at run time checks it.                                *)
THEOREM ContractIsKept ==
  Spec => []Contract
<1>1. Init => Sound
  BY SoundInit
<1>2. Sound /\ [Next]_vars => Sound'
  BY SoundStep
<1>3. Sound => Contract
  BY SoundKeepsContract
<1> QED  BY <1>1, <1>2, <1>3, PTL DEF Spec

(* The owners are what they should be.                                     *)
THEOREM AllocatorIsSound ==
  Spec => []Owned
<1>1. Init => Owned
  BY OwnedInit
<1>2. Owned /\ Contract /\ [Next]_vars => Owned'
  BY OwnedStep
<1> QED  BY <1>1, <1>2, ContractIsKept, PTL DEF Spec

(* No pool, PoolPtr or message is left with a pointer to what a Reset of   *)
(* PoolingArenaAllocator, or the end of the block of ctx_cpy, took away,   *)
(* and every pool hands out objects of its own type.                       *)
THEOREM PointersStayValid ==
  Spec => []PointersValid
<1>1. Owned => PointersValid
  BY ValidParts DEF Owned
<1> QED  BY <1>1, AllocatorIsSound, PTL

(* An object is never in a pool and in use, in a pool twice, or under two  *)
(* PoolPtrs or messages: what Pool::Remove hands out is nobody else's.     *)
THEOREM NobodyShares ==
  Spec => []OneOwner
<1>1. Owned => OneOwner
  BY UniqueIsOneOwner DEF Owned
<1> QED  BY <1>1, AllocatorIsSound, PTL

(* An object that has a pool and that a PoolPtr or a released pointer owns *)
(* stays with it or goes to another owner, a pool, a local or a message:   *)
(* no statement, Reset included, forgets it.                               *)
THEOREM NothingIsForgotten ==
  Spec => NothingForgotten
<1>1. Owned /\ Contract /\ [Next]_vars
        => [\A x \in held : type[reg[x]] \in Pooled =>
              reg[x] \in (InPools \cup InHands \cup InMessages)']_memVars
  BY NothingLost
<1> QED  BY <1>1, AllocatorIsSound, ContractIsKept, PTL DEF Spec, NothingForgotten
===============================================================================
