---------------------------- MODULE PointerProofs ----------------------------
(***************************************************************************)
(* Proofs about Pointer, for any finite set of Pointers and any sets of    *)
(* objects and counters.                                                   *)
(***************************************************************************)
EXTENDS Pointer, FiniteSetTheorems, TLAPS

-----------------------------------------------------------------------------
(***************************************************************************)
(* Types.                                                                  *)
(***************************************************************************)
LEMMA LivingType ==
  ASSUME TypeOK, NEW p \in Pointers, Lives(p)
  PROVE  /\ ptr[p] \in [data : Objects \cup {Nil}, ref : Refs]
         /\ ptr[p].data \in Objects \cup {Nil}
         /\ ptr[p].ref \in Refs
         /\ ~ Dangling(p) => cnt[ptr[p].ref] \in Int
<1>1. ptr[p] \in [data : Objects \cup {Nil}, ref : Refs]
  BY DEF TypeOK, Lives
<1>2. ptr[p].data \in Objects \cup {Nil} /\ ptr[p].ref \in Refs
  BY <1>1
<1>3. cnt[ptr[p].ref] \in Int \cup {Gone}
  BY <1>2 DEF TypeOK
<1> QED BY <1>1, <1>2, <1>3 DEF Dangling

LEMMA CountedNat == ASSUME NEW d PROVE Counted(d) \in {0, 1}
  BY DEF Counted

LEMMA CounterAfterType ==
  ASSUME NEW x \in [data : Objects \cup {Nil}, ref : Refs],
         NEW c \in [Refs -> Int \cup {Gone}],
         c[x.ref] \in Int
  PROVE  CounterAfter(x, c) \in [Refs -> Int \cup {Gone}]
  BY DEF CounterAfter

LEMMA ObjectsAfterType ==
  ASSUME NEW o \in SUBSET Objects, NEW x, NEW c
  PROVE  ObjectsAfter(x, c, o) \subseteq Objects
  BY DEF ObjectsAfter

LEMMA AssignFromType ==
  ASSUME TypeOK,
         NEW p \in Pointers,
         NEW x \in [data : Objects \cup {Nil}, ref : Refs],
         NEW c \in [Refs -> Int \cup {Gone}],
         NEW o \in SUBSET Objects,
         c[x.ref] \in Int,
         \A r \in Refs : cnt[r] \in Int => c[r] \in Int,
         AssignFrom(p, x, c, o)
  PROVE  TypeOK'
<1> USE DEF TypeOK
<1>1. Lives(p) /\ (Dangling(p) => ptr[p].data = Nil)
  BY DEF AssignFrom
<1>2. shared' \in BOOLEAN /\ broken' \in BOOLEAN
  BY Zenon DEF AssignFrom
<1>3. CASE ptr[p].data = x.data
  <2>1. /\ cnt' = CounterAfter(x, c)
        /\ objs' = ObjectsAfter(x, c, o)
        /\ ptr' = ptr /\ dropped' = dropped
    BY <1>3 DEF AssignFrom
  <2> QED BY <1>2, <2>1, CounterAfterType, ObjectsAfterType
<1>4. CASE ptr[p].data # x.data
  <2> DEFINE left  == IF ptr[p].data = Nil THEN c ELSE [c EXCEPT ![ptr[p].ref] = @ - 1]
             taken == [left EXCEPT ![x.ref] = @ + Counted(x.data)]
  <2>1. /\ ptr' = [ptr EXCEPT ![p] = x]
        /\ cnt' = CounterAfter(x, taken)
        /\ objs' = ObjectsAfter(x, taken, o)
        /\ dropped' = IF GivesUp(p) THEN dropped \cup {ptr[p].data} ELSE dropped
    BY <1>4 DEF AssignFrom
  <2>2. /\ left \in [Refs -> Int \cup {Gone}]
        /\ left[x.ref] \in Int
    <3>1. CASE ptr[p].data = Nil
      BY <3>1
    <3>2. CASE ptr[p].data # Nil
      <4>1. ptr[p].ref \in Refs /\ cnt[ptr[p].ref] \in Int
        BY <1>1, <3>2, LivingType
      <4>2. c[ptr[p].ref] \in Int
        BY <4>1
      <4>3. left = [c EXCEPT ![ptr[p].ref] = @ - 1]
        BY <3>2
      <4> QED BY <4>1, <4>2, <4>3
    <3> QED BY <3>1, <3>2
  <2> HIDE DEF left
  <2>3. /\ taken \in [Refs -> Int \cup {Gone}]
        /\ taken[x.ref] \in Int
    BY <2>2, CountedNat
  <2> HIDE DEF taken
  <2>4. dropped' \subseteq Objects
    BY <1>1, <2>1, LivingType DEF GivesUp
  <2> QED BY <1>2, <2>1, <2>3, <2>4, CounterAfterType, ObjectsAfterType
<1> QED BY <1>3, <1>4

LEMMA InitTypeOK == Init => TypeOK
  BY DEF Init, TypeOK

LEMMA NextTypeOK == TypeOK /\ [Next]_vars => TypeOK'
<1> SUFFICES ASSUME TypeOK, [Next]_vars PROVE TypeOK'
  OBVIOUS
<1>1. ASSUME NEW p \in Pointers, Destroy(p) PROVE TypeOK'
  <2>1. /\ Lives(p) /\ ~ Dangling(p)
        /\ ptr' = [ptr EXCEPT ![p] = Gone]
        /\ cnt' = CounterAfter(ptr[p], cnt)
        /\ objs' = ObjectsAfter(ptr[p], cnt, objs)
        /\ UNCHANGED <<dropped, shared, broken>>
    BY <1>1 DEF Destroy
  <2> QED BY <2>1, LivingType, CounterAfterType, ObjectsAfterType DEF TypeOK
<1>2. ASSUME NEW p \in Pointers, UseDeleted(p) PROVE TypeOK'
  BY <1>2 DEF UseDeleted, TypeOK
<1>3. ASSUME NEW p \in Pointers, NEW q \in Pointers, Copy(p, q) PROVE TypeOK'
  <2>1. /\ Lives(q)
        /\ ~ Dangling(q) \/ ptr[q].data = Nil
        /\ ptr' = [ptr EXCEPT ![p] = ptr[q]]
        /\ cnt' = IF ptr[q].data = Nil THEN cnt ELSE [cnt EXCEPT ![ptr[q].ref] = @ + 1]
        /\ UNCHANGED <<objs, dropped, broken>>
    BY <1>3 DEF Copy
  <2>2. shared' \in BOOLEAN
    BY <1>3, Zenon DEF Copy, TypeOK
  <2> QED BY <2>1, <2>2, LivingType DEF TypeOK
<1>4. ASSUME NEW p \in Pointers, NEW q \in Pointers, Assign(p, q) PROVE TypeOK'
  <2> DEFINE c == [cnt EXCEPT ![ptr[q].ref] = @ + Counted(ptr[q].data)]
  <2>1. Lives(q) /\ ~ Dangling(q) /\ AssignFrom(p, ptr[q], c, objs)
    BY <1>4 DEF Assign
  <2>2. /\ ptr[q] \in [data : Objects \cup {Nil}, ref : Refs]
        /\ ptr[q].ref \in Refs
        /\ cnt[ptr[q].ref] \in Int
    BY <2>1, LivingType
  <2>3. /\ c \in [Refs -> Int \cup {Gone}]
        /\ c[ptr[q].ref] \in Int
        /\ \A r \in Refs : cnt[r] \in Int => c[r] \in Int
    BY <2>2, CountedNat DEF TypeOK
  <2>4. objs \in SUBSET Objects
    BY DEF TypeOK
  <2> HIDE DEF c
  <2> QED BY <2>1, <2>2, <2>3, <2>4, AssignFromType
<1>5. ASSUME NEW p \in Pointers, NEW d \in Objects \cup {Nil}, Construct(p, d) PROVE TypeOK'
  <2>1. PICK r \in Refs : /\ ptr' = [ptr EXCEPT ![p] = To(d, r)]
                          /\ cnt' = [cnt EXCEPT ![r] = Counted(d)]
    BY <1>5 DEF Construct, FreeRefs
  <2>2. /\ objs' = (objs \cup {d}) \ {Nil}
        /\ UNCHANGED <<dropped, shared, broken>>
    BY <1>5 DEF Construct
  <2>3. To(d, r) \in [data : Objects \cup {Nil}, ref : Refs]
    BY DEF To
  <2> QED BY <2>1, <2>2, <2>3, CountedNat DEF TypeOK
<1>6. ASSUME NEW p \in Pointers, NEW d \in Objects \cup {Nil}, AssignNew(p, d) PROVE TypeOK'
  <2>1. PICK r \in Refs : AssignFrom(p, To(d, r), [cnt EXCEPT ![r] = Counted(d)],
                                     (objs \cup {d}) \ {Nil})
    BY <1>6 DEF AssignNew, FreeRefs
  <2> DEFINE c == [cnt EXCEPT ![r] = Counted(d)]
  <2>2. /\ To(d, r) \in [data : Objects \cup {Nil}, ref : Refs]
        /\ To(d, r).ref = r
    BY DEF To
  <2>3. /\ c \in [Refs -> Int \cup {Gone}]
        /\ c[r] \in Int
        /\ \A s \in Refs : cnt[s] \in Int => c[s] \in Int
    BY CountedNat DEF TypeOK
  <2>4. (objs \cup {d}) \ {Nil} \in SUBSET Objects
    BY DEF TypeOK
  <2> HIDE DEF c
  <2> QED BY <2>1, <2>2, <2>3, <2>4, AssignFromType DEF c
<1>7. ASSUME NEW p \in Pointers, NEW d \in Objects \cup {Nil}, Reset(p, d) PROVE TypeOK'
  <2> DEFINE left == [cnt EXCEPT ![ptr[p].ref] = @ - Counted(ptr[p].data)]
  <2>1. /\ Lives(p) /\ ~ Dangling(p)
        /\ IF left[ptr[p].ref] > 0
           THEN \E r \in FreeRefs : /\ ptr' = [ptr EXCEPT ![p] = To(d, r)]
                                    /\ cnt' = [left EXCEPT ![r] = 1]
           ELSE /\ ptr' = [ptr EXCEPT ![p] = To(d, ptr[p].ref)]
                /\ cnt' = [left EXCEPT ![ptr[p].ref] = @ + 1]
        /\ objs' = (objs \cup {d}) \ {Nil}
        /\ dropped' = IF GivesUp(p) THEN dropped \cup {ptr[p].data} ELSE dropped
        /\ UNCHANGED <<shared, broken>>
    BY <1>7 DEF Reset
  <2>2. /\ ptr[p] \in [data : Objects \cup {Nil}, ref : Refs]
        /\ ptr[p].data \in Objects \cup {Nil}
        /\ ptr[p].ref \in Refs
        /\ cnt[ptr[p].ref] \in Int
    BY <2>1, LivingType
  <2>3. left \in [Refs -> Int \cup {Gone}] /\ left[ptr[p].ref] \in Int
    BY <2>2, CountedNat DEF TypeOK
  <2> HIDE DEF left
  <2>4. cnt' \in [Refs -> Int \cup {Gone}]
    BY <2>1, <2>2, <2>3 DEF FreeRefs
  <2>5. ptr' \in [Pointers -> {Gone} \cup [data : Objects \cup {Nil}, ref : Refs]]
    BY <2>1, <2>2 DEF FreeRefs, TypeOK, To
  <2>6. objs' \subseteq Objects /\ dropped' \subseteq Objects
    BY <2>1, <2>2 DEF TypeOK, GivesUp
  <2> QED BY <2>1, <2>4, <2>5, <2>6 DEF TypeOK
<1>8. CASE UNCHANGED vars
  BY <1>8 DEF vars, TypeOK
<1> QED BY <1>1, <1>2, <1>3, <1>4, <1>5, <1>6, <1>7, <1>8 DEF Next

\* Every operation of Pointer keeps the Pointers, the counters and the
\* histories within their types, dangling or not.
THEOREM TypeCorrect == Spec => []TypeOK
  BY InitTypeOK, NextTypeOK, PTL DEF Spec

-----------------------------------------------------------------------------
(***************************************************************************)
(* The inductive invariant. Beyond the properties of Pointer it says that  *)
(* an object has one counter, so that what is deleted through one counter  *)
(* is held through no other, and that no counter in use is deleted.        *)
(***************************************************************************)
NoneDangles == \A p \in Pointers : Lives(p) => ~ Dangling(p)

OneObject == \A p, q \in Pointers :
    Lives(p) /\ Lives(q) /\ ptr[p].ref = ptr[q].ref =>
        ptr[p].data = ptr[q].data /\ (ptr[p].data = Nil => p = q)

OneCounter == \A p, q \in Pointers :
    Lives(p) /\ Lives(q) /\ ptr[p].data = ptr[q].data /\ ptr[p].data # Nil =>
        ptr[p].ref = ptr[q].ref

Exact == \A p \in Pointers : Lives(p) =>
    IF ptr[p].data = Nil THEN cnt[ptr[p].ref] \in {0, 1}
    ELSE cnt[ptr[p].ref] = Cardinality(Holders(ptr[p].ref))

HeldInMemory == \A p \in Pointers : Lives(p) /\ ptr[p].data # Nil => ptr[p].data \in objs

HeldOrDropped == \A d \in objs : d \in dropped \/ \E p \in Pointers : Lives(p) /\ ptr[p].data = d

Sound == /\ ~ broken
         /\ NoneDangles /\ OneObject /\ OneCounter /\ Exact
         /\ HeldInMemory /\ HeldOrDropped

IInv == TypeOK /\ (~ shared => Sound)

-----------------------------------------------------------------------------
(***************************************************************************)
(* Counting: what becomes of the holders when p comes to be x.             *)
(***************************************************************************)
LEMMA HoldersFinite ==
  ASSUME NEW r
  PROVE  /\ IsFiniteSet(Holders(r))
         /\ Cardinality(Holders(r)) \in Nat
<1>1. Holders(r) \in SUBSET Pointers
  BY DEF Holders
<1>2. IsFiniteSet(Holders(r))
  BY <1>1, FS_Subset, PointerAssumption
<1> QED BY <1>2, FS_CardinalityType

LEMMA HoldersAfter ==
  ASSUME NEW p \in Pointers, NEW x, NEW r, ptr'[p] = x,
         \A q \in Pointers \ {p} : ptr'[q] = ptr[q]
  PROVE  Cardinality(Holders(r))' =
            IF x # Gone /\ x.ref = r
            THEN IF p \in Holders(r) THEN Cardinality(Holders(r)) ELSE Cardinality(Holders(r)) + 1
            ELSE IF p \in Holders(r) THEN Cardinality(Holders(r)) - 1 ELSE Cardinality(Holders(r))
<1>1. CASE x # Gone /\ x.ref = r
  <2>1. Holders(r)' = Holders(r) \cup {p}
    BY <1>1 DEF Holders, Lives
  <2> QED BY <1>1, <2>1, HoldersFinite, FS_AddElement
<1>2. CASE ~ (x # Gone /\ x.ref = r)
  <2>1. Holders(r)' = Holders(r) \ {p}
    BY <1>2 DEF Holders, Lives
  <2> QED BY <1>2, <2>1, HoldersFinite, FS_RemoveElement
<1> QED BY <1>1, <1>2

\* A holder of a counter, and another one if there is more than one.
LEMMA HoldersMany ==
  ASSUME NEW p \in Pointers, Lives(p)
  PROVE  /\ p \in Holders(ptr[p].ref)
         /\ Cardinality(Holders(ptr[p].ref)) \in Nat \ {0}
         /\ Cardinality(Holders(ptr[p].ref)) # 1 =>
               \E q \in Pointers : q # p /\ Lives(q) /\ ptr[q].ref = ptr[p].ref
         /\ Cardinality(Holders(ptr[p].ref)) = 1 =>
               \A q \in Pointers : Lives(q) /\ ptr[q].ref = ptr[p].ref => q = p
<1> DEFINE H == Holders(ptr[p].ref)
<1>1. p \in H /\ H \subseteq Pointers
  BY DEF Holders
<1>2. IsFiniteSet(H) /\ Cardinality(H) \in Nat
  BY HoldersFinite
<1>3. Cardinality(H) # 0
  BY <1>1, <1>2, FS_EmptySet
<1>4. Cardinality(H) # 1 => H # {p}
  BY FS_Singleton
<1>5. Cardinality(H) = 1 => H = {p}
  BY <1>1, <1>2, FS_Singleton
<1>6. \A q : q \in H <=> q \in Pointers /\ Lives(q) /\ ptr[q].ref = ptr[p].ref
  BY DEF Holders
<1> HIDE DEF H
<1> QED BY <1>1, <1>2, <1>3, <1>4, <1>5, <1>6 DEF H

-----------------------------------------------------------------------------
(***************************************************************************)
(* Every operation makes one Pointer p come to be some x; the others are   *)
(* counted as the counters of x and of what p was require.                 *)
(***************************************************************************)
One(b) == IF b THEN 1 ELSE 0

LEMMA Move ==
  ASSUME TypeOK, Sound, broken' = broken,
         NEW p \in Pointers,
         NEW x \in {Gone} \cup [data : Objects \cup {Nil}, ref : Refs],
         ptr'[p] = x,
         \A q \in Pointers \ {p} : ptr'[q] = ptr[q],
         \A q \in Pointers \ {p} : Lives(q) =>
            cnt'[ptr[q].ref] = cnt[ptr[q].ref] + One(x # Gone /\ x.ref = ptr[q].ref)
                                 - One(Lives(p) /\ ptr[p].ref = ptr[q].ref),
         x # Gone => \A q \in Pointers \ {p} : Lives(q) =>
            (x.ref = ptr[q].ref <=> x.data = ptr[q].data /\ x.data # Nil),
         x # Gone /\ (\A q \in Pointers \ {p} : Lives(q) => ptr[q].ref # x.ref) =>
            cnt'[x.ref] = 1 \/ (x.data = Nil /\ cnt'[x.ref] = 0),
         \A q \in Pointers \ {p} : Lives(q) /\ ptr[q].data # Nil => ptr[q].data \in objs',
         x # Gone /\ x.data # Nil => x.data \in objs',
         \A d \in objs' : \/ d \in dropped'
                          \/ x # Gone /\ x.data = d
                          \/ \E q \in Pointers \ {p} : Lives(q) /\ ptr[q].data = d
  PROVE  Sound'
<1> USE DEF Sound
<1>0. /\ ptr'[p] = x /\ (Lives(p)' <=> x # Gone)
      /\ \A q \in Pointers \ {p} : ptr'[q] = ptr[q] /\ (Lives(q)' <=> Lives(q))
  BY DEF Lives
<1>1. \A q \in Pointers \ {p} : Lives(q) =>
         /\ ptr[q].data \in Objects \cup {Nil} /\ ptr[q].ref \in Refs
         /\ cnt[ptr[q].ref] \in Int
  BY LivingType DEF NoneDangles
<1>2. OneObject'
  BY <1>0 DEF OneObject
<1>3. OneCounter'
  BY <1>0 DEF OneCounter
<1>4. ASSUME NEW q \in Pointers, q # p, Lives(q)
      PROVE  IF ptr[q].data = Nil THEN cnt'[ptr[q].ref] \in {0, 1}
             ELSE cnt'[ptr[q].ref] = Cardinality(Holders(ptr[q].ref))'
  <2>0. PICK r \in Refs : r = ptr[q].ref
    BY <1>1, <1>4
  <2>1. cnt'[r] = cnt[r] + One(x # Gone /\ x.ref = r) - One(Lives(p) /\ ptr[p].ref = r)
    BY <1>4, <2>0
  <2>2. p \in Holders(r) <=> Lives(p) /\ ptr[p].ref = r
    BY DEF Holders
  <2>3. CASE ptr[q].data = Nil
    <3>1. ~ (x # Gone /\ x.ref = r)
      BY <1>4, <2>0, <2>3
    <3>2. ~ (Lives(p) /\ ptr[p].ref = r)
      BY <1>4, <2>0, <2>3 DEF OneObject
    <3>3. cnt[r] \in {0, 1}
      BY <1>4, <2>0, <2>3 DEF Exact
    <3> QED BY <2>0, <2>1, <2>3, <3>1, <3>2, <3>3 DEF One
  <2>4. CASE ptr[q].data # Nil
    <3>1. cnt[r] = Cardinality(Holders(r)) /\ Cardinality(Holders(r)) \in Nat
      BY <1>4, <2>0, <2>4, HoldersFinite DEF Exact
    <3>2. Cardinality(Holders(r))' = Cardinality(Holders(r)) + One(x # Gone /\ x.ref = r)
                                       - One(Lives(p) /\ ptr[p].ref = r)
      <4>1. Cardinality(Holders(r))' =
               IF x # Gone /\ x.ref = r
               THEN IF p \in Holders(r) THEN Cardinality(Holders(r)) ELSE Cardinality(Holders(r)) + 1
               ELSE IF p \in Holders(r) THEN Cardinality(Holders(r)) - 1 ELSE Cardinality(Holders(r))
        BY <1>0, HoldersAfter
      <4> QED BY <2>2, <3>1, <4>1 DEF One
    <3>3. Cardinality(Holders(ptr[q].ref))' = Cardinality(Holders(r))'
      BY <1>0, <1>4, <2>0
    <3> QED BY <1>0, <1>4, <2>0, <2>1, <2>4, <3>1, <3>2, <3>3
  <2> QED BY <2>3, <2>4
<1>5. \A q \in Pointers : q # p /\ Lives(q) =>
         ptr'[q] = ptr[q] /\ cnt'[ptr[q].ref] # Gone
  <2>1. ASSUME NEW q \in Pointers, q # p, Lives(q) PROVE cnt'[ptr[q].ref] \in Int
    BY <1>1, <2>1 DEF One
  <2> QED BY <1>0, <2>1, PointerAssumption
<1>6. ASSUME x # Gone
      PROVE  /\ cnt'[x.ref] # Gone
             /\ IF x.data = Nil THEN cnt'[x.ref] \in {0, 1}
                ELSE cnt'[x.ref] = Cardinality(Holders(x.ref))'
  <2>1. CASE \E q \in Pointers \ {p} : Lives(q) /\ ptr[q].ref = x.ref
    <3>1. PICK q \in Pointers \ {p} : Lives(q) /\ ptr[q].ref = x.ref
      BY <2>1
    <3>2. x.data = ptr[q].data /\ x.data # Nil
      BY <1>6, <3>1
    <3> QED BY <1>4, <1>5, <3>1, <3>2
  <2>2. CASE ~ \E q \in Pointers \ {p} : Lives(q) /\ ptr[q].ref = x.ref
    <3>1. cnt'[x.ref] = 1 \/ (x.data = Nil /\ cnt'[x.ref] = 0)
      BY <1>6, <2>2
    <3>2. Holders(x.ref)' = {p}
      BY <1>0, <1>6, <2>2 DEF Holders
    <3>3. Cardinality(Holders(x.ref))' = 1
      BY <3>2, FS_Singleton
    <3> QED BY <3>1, <3>3, PointerAssumption
  <2> QED BY <2>1, <2>2
<1>7. NoneDangles'
  BY <1>0, <1>5, <1>6 DEF NoneDangles, Dangling
<1>8. Exact'
  <2> SUFFICES ASSUME NEW q \in Pointers, Lives(q)'
               PROVE  IF ptr'[q].data = Nil THEN cnt'[ptr'[q].ref] \in {0, 1}
                      ELSE cnt'[ptr'[q].ref] = Cardinality(Holders(ptr[q].ref))'
    BY DEF Exact
  <2>1. CASE q = p
    <3>1. ptr'[q] = x /\ x # Gone
      BY <1>0, <2>1
    <3>2. Holders(ptr[q].ref)' = Holders(x.ref)'
      BY <3>1
    <3> QED BY <1>6, <3>1, <3>2
  <2>2. CASE q # p
    <3>1. ptr'[q] = ptr[q] /\ Lives(q)
      BY <1>0, <2>2
    <3>2. Holders(ptr[q].ref)' = {y \in Pointers : Lives(y)' /\ ptr'[y].ref = ptr[q].ref}
      BY <3>1 DEF Holders
    <3> QED BY <1>4, <2>2, <3>1, <3>2
  <2> QED BY <2>1, <2>2
<1>9. HeldInMemory' /\ HeldOrDropped'
  BY <1>0 DEF HeldInMemory, HeldOrDropped
<1> QED BY <1>2, <1>3, <1>7, <1>8, <1>9

-----------------------------------------------------------------------------
(***************************************************************************)
(* One lemma per operation: it keeps Sound, or shares a counter of nothing.*)
(***************************************************************************)
\* What Sound says of a Pointer p.
LEMMA SoundOf ==
  ASSUME TypeOK, Sound, NEW p \in Pointers, Lives(p)
  PROVE  /\ ptr[p] \in [data : Objects \cup {Nil}, ref : Refs]
         /\ ptr[p].data \in Objects \cup {Nil}
         /\ ptr[p].ref \in Refs
         /\ cnt[ptr[p].ref] \in Int
         /\ ptr[p].data # Nil => ptr[p].data \in objs
         /\ ptr[p].data # Nil => cnt[ptr[p].ref] > 0
         /\ ptr[p].data = Nil => cnt[ptr[p].ref] \in {0, 1}
         /\ cnt[ptr[p].ref] > 1 =>
               \E q \in Pointers \ {p} : Lives(q) /\ ptr[q].ref = ptr[p].ref /\ ptr[q].data = ptr[p].data
         /\ cnt[ptr[p].ref] <= 1 => \A q \in Pointers \ {p} : Lives(q) => ptr[q].ref # ptr[p].ref
<1> USE DEF Sound
<1>1. /\ ptr[p] \in [data : Objects \cup {Nil}, ref : Refs]
      /\ ptr[p].data \in Objects \cup {Nil}
      /\ ptr[p].ref \in Refs
      /\ cnt[ptr[p].ref] \in Int
  BY LivingType DEF NoneDangles
<1>2. ptr[p].data # Nil => ptr[p].data \in objs
  BY DEF HeldInMemory
<1>3. CASE ptr[p].data = Nil
  <2>1. cnt[ptr[p].ref] \in {0, 1}
    BY <1>3 DEF Exact
  <2>2. \A q \in Pointers \ {p} : Lives(q) => ptr[q].ref # ptr[p].ref
    BY <1>3 DEF OneObject
  <2> QED BY <1>1, <1>3, <2>1, <2>2
<1>4. CASE ptr[p].data # Nil
  <2>1. cnt[ptr[p].ref] = Cardinality(Holders(ptr[p].ref))
    BY <1>4 DEF Exact
  <2>2. cnt[ptr[p].ref] \in Nat \ {0}
    BY <2>1, HoldersMany
  <2>3. cnt[ptr[p].ref] > 1 =>
           \E q \in Pointers \ {p} : Lives(q) /\ ptr[q].ref = ptr[p].ref /\ ptr[q].data = ptr[p].data
    BY <2>1, <2>2, HoldersMany DEF OneObject
  <2>4. cnt[ptr[p].ref] <= 1 => \A q \in Pointers \ {p} : Lives(q) => ptr[q].ref # ptr[p].ref
    BY <2>1, <2>2, HoldersMany
  <2> QED BY <1>1, <1>2, <1>4, <2>2, <2>3, <2>4
<1> QED BY <1>3, <1>4

LEMMA ConstructSound ==
  ASSUME TypeOK, Sound, NEW p \in Pointers, NEW d \in Objects \cup {Nil}, Construct(p, d)
  PROVE  Sound'
<1>1. PICK r \in FreeRefs : /\ ptr' = [ptr EXCEPT ![p] = To(d, r)]
                            /\ cnt' = [cnt EXCEPT ![r] = Counted(d)]
  BY DEF Construct
<1>2. /\ ~ Lives(p) /\ d \notin objs
      /\ objs' = (objs \cup {d}) \ {Nil}
      /\ dropped' = dropped /\ broken' = broken
  BY DEF Construct, IsNew
<1>3. /\ r \in Refs
      /\ \A q \in Pointers : Lives(q) => ptr[q].ref # r
  BY DEF FreeRefs
<1> DEFINE x == To(d, r)
<1>4. /\ x \in [data : Objects \cup {Nil}, ref : Refs] /\ x # Gone
      /\ x.data = d /\ x.ref = r
  BY <1>3, PointerAssumption DEF To
<1>5. /\ ptr'[p] = x
      /\ \A q \in Pointers \ {p} : ptr'[q] = ptr[q]
      /\ \A s \in Refs \ {r} : cnt'[s] = cnt[s]
      /\ cnt'[r] = Counted(d)
  BY <1>1, <1>3 DEF TypeOK
<1> HIDE DEF x
<1>6. \A q \in Pointers : Lives(q) =>
         /\ ptr[q].ref \in Refs \ {r} /\ cnt[ptr[q].ref] \in Int
         /\ ptr[q].data # Nil => ptr[q].data \in objs
  BY <1>3, SoundOf
<1>7. ASSUME NEW q \in Pointers \ {p}, Lives(q)
      PROVE  /\ cnt'[ptr[q].ref] = cnt[ptr[q].ref] + One(x # Gone /\ x.ref = ptr[q].ref)
                                     - One(Lives(p) /\ ptr[p].ref = ptr[q].ref)
             /\ x.ref = ptr[q].ref <=> x.data = ptr[q].data /\ x.data # Nil
             /\ ptr[q].data # Nil => ptr[q].data \in objs'
  BY <1>2, <1>4, <1>5, <1>6, <1>7 DEF One
<1>8. cnt'[x.ref] = 1 \/ (x.data = Nil /\ cnt'[x.ref] = 0)
  BY <1>4, <1>5 DEF Counted
<1>9. x.data # Nil => x.data \in objs'
  BY <1>2, <1>4
<1>10. \A e \in objs' : \/ e \in dropped'
                        \/ x # Gone /\ x.data = e
                        \/ \E q \in Pointers \ {p} : Lives(q) /\ ptr[q].data = e
  BY <1>2, <1>4 DEF Sound, HeldOrDropped
<1> QED BY <1>2, <1>4, <1>5, <1>7, <1>8, <1>9, <1>10, Move

LEMMA CopySound ==
  ASSUME TypeOK, Sound, NEW p \in Pointers, NEW q \in Pointers, Copy(p, q), ~ shared'
  PROVE  Sound'
<1>1. /\ ~ Lives(p) /\ Lives(q) /\ ptr[q].data # Nil
      /\ ptr' = [ptr EXCEPT ![p] = ptr[q]]
      /\ cnt' = [cnt EXCEPT ![ptr[q].ref] = @ + 1]
      /\ objs' = objs /\ dropped' = dropped /\ broken' = broken
  BY DEF Copy
<1>2. PICK x \in [data : Objects \cup {Nil}, ref : Refs] : x = ptr[q] /\ x # Gone
  BY <1>1, SoundOf DEF Lives
<1>3. /\ ptr'[p] = x
      /\ \A y \in Pointers \ {p} : ptr'[y] = ptr[y]
      /\ \A s \in Refs \ {x.ref} : cnt'[s] = cnt[s]
      /\ cnt'[x.ref] = cnt[x.ref] + 1
  BY <1>1, <1>2 DEF TypeOK
<1>4. \A y \in Pointers : Lives(y) =>
         /\ ptr[y].ref \in Refs /\ cnt[ptr[y].ref] \in Int
         /\ ptr[y].data # Nil => ptr[y].data \in objs
  BY SoundOf
<1>5. q # p
  BY <1>1
<1>6. ASSUME NEW y \in Pointers \ {p}, Lives(y)
      PROVE  /\ cnt'[ptr[y].ref] = cnt[ptr[y].ref] + One(x # Gone /\ x.ref = ptr[y].ref)
                                     - One(Lives(p) /\ ptr[p].ref = ptr[y].ref)
             /\ x.ref = ptr[y].ref <=> x.data = ptr[y].data /\ x.data # Nil
             /\ ptr[y].data # Nil => ptr[y].data \in objs'
  <2>1. x.ref = ptr[y].ref <=> x.data = ptr[y].data /\ x.data # Nil
    BY <1>1, <1>2, <1>6 DEF Sound, OneObject, OneCounter
  <2> QED BY <1>1, <1>2, <1>3, <1>4, <1>6, <2>1 DEF One
<1>7. \A d \in objs' : d \in dropped' \/ \E y \in Pointers \ {p} : Lives(y) /\ ptr[y].data = d
  BY <1>1 DEF Sound, HeldOrDropped
<1> QED BY <1>1, <1>2, <1>3, <1>4, <1>5, <1>6, <1>7, Move

LEMMA DestroySound ==
  ASSUME TypeOK, Sound, NEW p \in Pointers, Destroy(p)
  PROVE  Sound'
<1> DEFINE r == ptr[p].ref
           last == cnt[r] <= 1
<1>1. /\ Lives(p)
      /\ ptr' = [ptr EXCEPT ![p] = Gone]
      /\ cnt' = [cnt EXCEPT ![r] = IF @ - 1 > 0 THEN @ - 1 ELSE Gone]
      /\ objs' = IF cnt[r] - 1 > 0 THEN objs ELSE objs \ {ptr[p].data}
      /\ dropped' = dropped /\ broken' = broken
  BY DEF Destroy, CounterAfter, ObjectsAfter
<1>2. /\ r \in Refs /\ cnt[r] \in Int
      /\ cnt[r] > 1 =>
            \E q \in Pointers \ {p} : Lives(q) /\ ptr[q].ref = r /\ ptr[q].data = ptr[p].data
      /\ last => \A q \in Pointers \ {p} : Lives(q) => ptr[q].ref # r
  BY <1>1, SoundOf
<1>3. /\ ptr'[p] = Gone
      /\ \A q \in Pointers \ {p} : ptr'[q] = ptr[q]
      /\ \A s \in Refs \ {r} : cnt'[s] = cnt[s]
      /\ ~ last => cnt'[r] = cnt[r] - 1 /\ objs' = objs
      /\ last => objs' = objs \ {ptr[p].data}
  BY <1>1, <1>2 DEF TypeOK
<1>4. \A q \in Pointers : Lives(q) =>
         /\ ptr[q].ref \in Refs /\ cnt[ptr[q].ref] \in Int
         /\ ptr[q].data # Nil => ptr[q].data \in objs
  BY SoundOf
<1>5. ASSUME NEW q \in Pointers \ {p}, Lives(q)
      PROVE  /\ cnt'[ptr[q].ref] = cnt[ptr[q].ref] + One(Gone # Gone /\ Gone.ref = ptr[q].ref)
                                     - One(Lives(p) /\ ptr[p].ref = ptr[q].ref)
             /\ ptr[q].data # Nil => ptr[q].data \in objs'
  <2>1. ~ (Gone # Gone /\ Gone.ref = ptr[q].ref)
    OBVIOUS
  <2>2. cnt'[ptr[q].ref] = cnt[ptr[q].ref] - One(Lives(p) /\ ptr[p].ref = ptr[q].ref)
    BY <1>1, <1>2, <1>3, <1>4, <1>5 DEF One
  <2>3. last /\ ptr[q].data # Nil => ptr[q].data # ptr[p].data
    BY <1>1, <1>2, <1>5 DEF Sound, OneCounter
  <2>4. ptr[q].data # Nil => ptr[q].data \in objs'
    BY <1>3, <1>4, <1>5, <2>3
  <2> QED BY <1>4, <1>5, <2>1, <2>2, <2>4 DEF One
<1>6. \A d \in objs' : d \in dropped' \/ \E q \in Pointers \ {p} : Lives(q) /\ ptr[q].data = d
  <2>1. ASSUME NEW d \in objs', d \notin dropped'
        PROVE  \E q \in Pointers \ {p} : Lives(q) /\ ptr[q].data = d
    <3>1. PICK q \in Pointers : Lives(q) /\ ptr[q].data = d
      BY <1>1, <2>1 DEF Sound, HeldOrDropped
    <3>2. CASE q = p
      <4>1. ~ last
        BY <1>3, <2>1, <3>1, <3>2
      <4> QED BY <1>2, <3>1, <3>2, <4>1
    <3> QED BY <3>1, <3>2
  <2> QED BY <2>1
<1> QED BY <1>1, <1>3, <1>5, <1>6, Move

\* operator= of other data: x takes the place of p's.
LEMMA AssignFromSound ==
  ASSUME TypeOK, Sound, NEW p \in Pointers,
         NEW x \in [data : Objects \cup {Nil}, ref : Refs],
         NEW c \in [Refs -> Int \cup {Gone}],
         NEW o \in SUBSET Objects,
         AssignFrom(p, x, c, o), ~ shared', ptr[p].data # x.data,
         c[x.ref] \in Int, c[x.ref] >= 1, x.ref # ptr[p].ref,
         \A s \in Refs \ {x.ref} : c[s] = cnt[s],
         objs \subseteq o, o \subseteq objs \cup {x.data}, x.data \in o,
         \A q \in Pointers \ {p} : Lives(q) =>
            /\ x.ref = ptr[q].ref <=> x.data = ptr[q].data
            /\ x.ref = ptr[q].ref => c[x.ref] = cnt[x.ref] + 1,
         (\A q \in Pointers \ {p} : Lives(q) => ptr[q].ref # x.ref) => c[x.ref] = 1
  PROVE  Sound'
<1> DEFINE r == ptr[p].ref
           left == IF ptr[p].data = Nil THEN c ELSE [c EXCEPT ![r] = @ - 1]
           taken == [left EXCEPT ![x.ref] = @ + Counted(x.data)]
<1>1. /\ Lives(p) /\ x.data # Nil
      /\ ptr' = [ptr EXCEPT ![p] = x]
      /\ cnt' = CounterAfter(x, taken)
      /\ objs' = ObjectsAfter(x, taken, o)
      /\ dropped' = IF GivesUp(p) THEN dropped \cup {ptr[p].data} ELSE dropped
      /\ broken' = broken
  BY DEF AssignFrom
<1>2. /\ x # Gone /\ Counted(x.data) = 1
      /\ r \in Refs /\ cnt[r] \in Int
      /\ ptr[p].data # Nil => cnt[r] > 0
      /\ cnt[r] > 1 =>
            \E q \in Pointers \ {p} : Lives(q) /\ ptr[q].ref = r /\ ptr[q].data = ptr[p].data
  BY <1>1, SoundOf, PointerAssumption DEF Counted
<1>3. /\ left \in [Refs -> Int \cup {Gone}]
      /\ left[x.ref] = c[x.ref]
      /\ \A s \in Refs \ {x.ref, r} : left[s] = cnt[s]
      /\ ptr[p].data = Nil => left[r] = cnt[r]
      /\ ptr[p].data # Nil => left[r] = cnt[r] - 1
  <2>1. CASE ptr[p].data = Nil
    BY <1>2, <2>1
  <2>2. CASE ptr[p].data # Nil
    <3>1. left = [c EXCEPT ![r] = @ - 1] /\ c[r] = cnt[r]
      BY <1>2, <2>2
    <3> QED BY <1>2, <2>2, <3>1
  <2> QED BY <2>1, <2>2
<1> HIDE DEF left
<1>4. /\ taken \in [Refs -> Int \cup {Gone}]
      /\ taken[x.ref] = c[x.ref] + 1
      /\ \A s \in Refs \ {x.ref} : taken[s] = left[s]
  BY <1>2, <1>3
<1> HIDE DEF taken
<1>5. /\ objs' = o
      /\ cnt'[x.ref] = c[x.ref]
      /\ \A s \in Refs \ {x.ref} : cnt'[s] = left[s]
  BY <1>1, <1>4 DEF CounterAfter, ObjectsAfter
<1>6. /\ ptr'[p] = x
      /\ \A q \in Pointers \ {p} : ptr'[q] = ptr[q]
  BY <1>1 DEF TypeOK
<1>7. \A q \in Pointers : Lives(q) =>
         /\ ptr[q].ref \in Refs /\ cnt[ptr[q].ref] \in Int
         /\ ptr[q].data # Nil => ptr[q].data \in objs
  BY SoundOf
<1>8. ASSUME NEW q \in Pointers \ {p}, Lives(q)
      PROVE  /\ cnt'[ptr[q].ref] = cnt[ptr[q].ref] + One(x # Gone /\ x.ref = ptr[q].ref)
                                     - One(Lives(p) /\ r = ptr[q].ref)
             /\ x.ref = ptr[q].ref <=> x.data = ptr[q].data /\ x.data # Nil
             /\ ptr[q].data # Nil => ptr[q].data \in objs'
  <2>1. CASE x.ref = ptr[q].ref
    BY <1>1, <1>2, <1>5, <1>7, <1>8, <2>1 DEF One
  <2>2. CASE x.ref # ptr[q].ref
    <3>1. r = ptr[q].ref => ptr[p].data # Nil
      BY <1>1, <1>8 DEF Sound, OneObject
    <3>2. cnt'[ptr[q].ref] = left[ptr[q].ref]
      BY <1>5, <1>7, <1>8, <2>2
    <3>3. left[ptr[q].ref] = cnt[ptr[q].ref] - One(Lives(p) /\ r = ptr[q].ref)
      BY <1>1, <1>3, <1>7, <1>8, <2>2, <3>1 DEF One
    <3> QED BY <1>1, <1>5, <1>7, <1>8, <2>2, <3>2, <3>3 DEF One
  <2> QED BY <2>1, <2>2
<1>9. (\A q \in Pointers \ {p} : Lives(q) => ptr[q].ref # x.ref) => cnt'[x.ref] = 1
  BY <1>5
<1>10. \A d \in objs' : \/ d \in dropped'
                        \/ x # Gone /\ x.data = d
                        \/ \E q \in Pointers \ {p} : Lives(q) /\ ptr[q].data = d
  <2>1. ASSUME NEW d \in objs', d \notin dropped', d # x.data
        PROVE  \E q \in Pointers \ {p} : Lives(q) /\ ptr[q].data = d
    <3>1. d \in objs /\ d \notin dropped /\ d # Nil
      BY <1>1, <1>5, <2>1, PointerAssumption DEF TypeOK
    <3>2. PICK q \in Pointers : Lives(q) /\ ptr[q].data = d
      BY <3>1 DEF Sound, HeldOrDropped
    <3>3. CASE q = p
      <4>1. ~ GivesUp(p)
        BY <1>1, <2>1, <3>2, <3>3
      <4>2. cnt[r] > 1
        BY <1>2, <3>1, <3>2, <3>3, <4>1 DEF GivesUp
      <4> QED BY <1>2, <3>2, <3>3, <4>2
    <3> QED BY <3>2, <3>3
  <2> QED BY <1>2, <2>1
<1> QED BY <1>1, <1>2, <1>5, <1>6, <1>8, <1>9, <1>10, Move

LEMMA AssignSound ==
  ASSUME TypeOK, Sound, NEW p \in Pointers, NEW q \in Pointers, Assign(p, q), ~ shared'
  PROVE  Sound'
<1> DEFINE c == [cnt EXCEPT ![ptr[q].ref] = @ + Counted(ptr[q].data)]
<1>1. Lives(q) /\ AssignFrom(p, ptr[q], c, objs)
  BY DEF Assign
<1>2. Lives(p) /\ ptr[q].data # Nil /\ broken' = broken /\ Counted(ptr[q].data) = 1
  BY <1>1 DEF AssignFrom, Counted
<1>3. PICK x \in [data : Objects \cup {Nil}, ref : Refs] : x = ptr[q]
  BY <1>1, SoundOf
<1>4. /\ x.ref \in Refs /\ cnt[x.ref] \in Int /\ cnt[x.ref] > 0 /\ x.data \in objs
  BY <1>1, <1>2, <1>3, SoundOf
<1>5. /\ c \in [Refs -> Int \cup {Gone}]
      /\ c[x.ref] = cnt[x.ref] + 1
      /\ \A s \in Refs \ {x.ref} : c[s] = cnt[s]
  BY <1>2, <1>3, <1>4 DEF TypeOK
<1>6. AssignFrom(p, x, c, objs)
  BY <1>1, <1>3
<1> HIDE DEF c
<1>7. CASE ptr[p].data = x.data
  <2>1. /\ cnt' = CounterAfter(x, c)
        /\ objs' = ObjectsAfter(x, c, objs)
        /\ ptr' = ptr /\ dropped' = dropped
    BY <1>6, <1>7 DEF AssignFrom
  <2>2. objs' = objs
    BY <1>4, <1>5, <2>1 DEF ObjectsAfter
  <2>3. cnt' \in [Refs -> Int \cup {Gone}] /\ \A s \in Refs : cnt'[s] = cnt[s]
    BY <1>4, <1>5, <2>1 DEF CounterAfter
  <2>4. cnt' = cnt
    BY <2>3 DEF TypeOK
  <2> QED BY <1>2, <2>1, <2>2, <2>4
       DEF Sound, NoneDangles, OneObject, OneCounter, Exact, HeldInMemory, HeldOrDropped,
           Lives, Dangling, Holders
<1>8. CASE ptr[p].data # x.data
  <2>1. p # q /\ x.ref # ptr[p].ref
    BY <1>1, <1>2, <1>3, <1>8 DEF Sound, OneObject
  <2>2. \A y \in Pointers \ {p} : Lives(y) => (x.ref = ptr[y].ref <=> x.data = ptr[y].data)
    BY <1>1, <1>2, <1>3 DEF Sound, OneObject, OneCounter
  <2>3. objs \in SUBSET Objects
    BY DEF TypeOK
  <2> QED BY <1>1, <1>3, <1>4, <1>5, <1>6, <1>8, <2>1, <2>2, <2>3, AssignFromSound
<1> QED BY <1>7, <1>8

LEMMA AssignNewSound ==
  ASSUME TypeOK, Sound, NEW p \in Pointers, NEW d \in Objects \cup {Nil}, AssignNew(p, d),
         ~ shared'
  PROVE  Sound'
<1>1. PICK r \in FreeRefs : AssignFrom(p, To(d, r), [cnt EXCEPT ![r] = Counted(d)],
                                       (objs \cup {d}) \ {Nil})
  BY DEF AssignNew
<1> DEFINE x == To(d, r)
           c == [cnt EXCEPT ![r] = Counted(d)]
           o == (objs \cup {d}) \ {Nil}
<1>2. /\ x \in [data : Objects \cup {Nil}, ref : Refs]
      /\ x.data = d /\ x.ref = r
      /\ r \in Refs /\ \A q \in Pointers : Lives(q) => ptr[q].ref # r
  BY DEF To, FreeRefs
<1>3. Lives(p) /\ d # Nil /\ d \notin objs
  BY <1>1, <1>2 DEF AssignFrom, AssignNew, IsNew
<1>4. \A q \in Pointers : Lives(q) => ptr[q].data # d
  BY <1>3, SoundOf
<1>5. /\ c \in [Refs -> Int \cup {Gone}]
      /\ c[x.ref] = 1
      /\ \A s \in Refs \ {x.ref} : c[s] = cnt[s]
  BY <1>2, <1>3 DEF TypeOK, Counted
<1>6. /\ o \in SUBSET Objects /\ objs \subseteq o /\ o \subseteq objs \cup {x.data}
      /\ x.data \in o
  BY <1>2, <1>3, PointerAssumption DEF TypeOK
<1>7. AssignFrom(p, x, c, o)
  BY <1>1
<1> HIDE DEF x, c, o
<1> QED BY <1>2, <1>3, <1>4, <1>5, <1>6, <1>7, AssignFromSound

LEMMA ResetSound ==
  ASSUME TypeOK, Sound, NEW p \in Pointers, NEW d \in Objects \cup {Nil}, Reset(p, d)
  PROVE  Sound'
<1> DEFINE r == ptr[p].ref
           left == [cnt EXCEPT ![r] = @ - Counted(ptr[p].data)]
<1>1. /\ Lives(p) /\ d \notin objs /\ ptr[p].data # d
      /\ IF left[r] > 0
         THEN \E s \in FreeRefs : /\ ptr' = [ptr EXCEPT ![p] = To(d, s)]
                                  /\ cnt' = [left EXCEPT ![s] = 1]
         ELSE /\ ptr' = [ptr EXCEPT ![p] = To(d, r)]
              /\ cnt' = [left EXCEPT ![r] = @ + 1]
      /\ objs' = (objs \cup {d}) \ {Nil}
      /\ dropped' = IF GivesUp(p) THEN dropped \cup {ptr[p].data} ELSE dropped
      /\ broken' = broken
  BY DEF Reset, IsNew
<1>2. /\ r \in Refs /\ cnt[r] \in Int
      /\ ptr[p].data # Nil => cnt[r] > 0
      /\ ptr[p].data = Nil => cnt[r] \in {0, 1}
      /\ cnt[r] > 1 =>
            \E q \in Pointers \ {p} : Lives(q) /\ ptr[q].ref = r /\ ptr[q].data = ptr[p].data
      /\ cnt[r] <= 1 => \A q \in Pointers \ {p} : Lives(q) => ptr[q].ref # r
  BY <1>1, SoundOf
<1>3. /\ left \in [Refs -> Int \cup {Gone}]
      /\ left[r] = cnt[r] - Counted(ptr[p].data)
      /\ \A s \in Refs \ {r} : left[s] = cnt[s]
  BY <1>2, CountedNat DEF TypeOK
<1> HIDE DEF left
<1>4. \A q \in Pointers : Lives(q) =>
         /\ ptr[q].ref \in Refs /\ cnt[ptr[q].ref] \in Int
         /\ ptr[q].data # Nil => ptr[q].data \in objs
         /\ ptr[q].data = d => d = Nil
         /\ q # p /\ ptr[q].ref = r => ptr[p].data # Nil
  BY <1>1, SoundOf DEF Sound, OneObject
<1>5. ASSUME NEW e \in objs', e \notin dropped', e # d
      PROVE  \E q \in Pointers \ {p} : Lives(q) /\ ptr[q].data = e
  <2>1. e \in objs /\ e \notin dropped /\ e # Nil
    BY <1>1, <1>5
  <2>2. PICK q \in Pointers : Lives(q) /\ ptr[q].data = e
    BY <2>1 DEF Sound, HeldOrDropped
  <2>3. CASE q = p
    <3>1. ~ GivesUp(p)
      BY <1>1, <1>5, <2>2, <2>3
    <3>2. cnt[r] > 1
      BY <1>2, <2>1, <2>2, <2>3, <3>1 DEF GivesUp
    <3> QED BY <1>2, <2>2, <2>3, <3>2
  <2> QED BY <2>2, <2>3
<1>6. ASSUME NEW s \in Refs,
             ptr'[p] = To(d, s),
             \A q \in Pointers \ {p} : ptr'[q] = ptr[q],
             \A q \in Pointers \ {p} : Lives(q) =>
                /\ ptr[q].ref # s
                /\ cnt'[ptr[q].ref] = left[ptr[q].ref],
             cnt'[s] = 1
      PROVE  Sound'
  <2> DEFINE x == To(d, s)
  <2>1. /\ x \in [data : Objects \cup {Nil}, ref : Refs] /\ x # Gone
        /\ x.data = d /\ x.ref = s
    BY PointerAssumption DEF To
  <2>2. /\ ptr'[p] = x
        /\ \A q \in Pointers \ {p} : ptr'[q] = ptr[q]
    BY <1>6
  <2> HIDE DEF x
  <2>3. ASSUME NEW q \in Pointers \ {p}, Lives(q)
        PROVE  /\ cnt'[ptr[q].ref] = cnt[ptr[q].ref] + One(x # Gone /\ x.ref = ptr[q].ref)
                                       - One(Lives(p) /\ r = ptr[q].ref)
               /\ x.ref = ptr[q].ref <=> x.data = ptr[q].data /\ x.data # Nil
               /\ ptr[q].data # Nil => ptr[q].data \in objs'
    <3>1. left[ptr[q].ref] = cnt[ptr[q].ref] - One(Lives(p) /\ r = ptr[q].ref)
      BY <1>1, <1>2, <1>3, <1>4, <2>3 DEF One, Counted
    <3> QED BY <1>1, <1>4, <1>6, <2>1, <2>3, <3>1 DEF One
  <2>4. \A e \in objs' : \/ e \in dropped'
                         \/ x # Gone /\ x.data = e
                         \/ \E q \in Pointers \ {p} : Lives(q) /\ ptr[q].data = e
    BY <1>5, <2>1
  <2> QED BY <1>1, <1>6, <2>1, <2>2, <2>3, <2>4, Move
<1>7. CASE left[r] > 0
  <2>1. PICK s \in FreeRefs : /\ ptr' = [ptr EXCEPT ![p] = To(d, s)]
                              /\ cnt' = [left EXCEPT ![s] = 1]
    BY <1>1, <1>7
  <2>2. /\ s \in Refs
        /\ \A q \in Pointers : Lives(q) => ptr[q].ref # s
    BY DEF FreeRefs
  <2>3. /\ ptr'[p] = To(d, s)
        /\ \A q \in Pointers \ {p} : ptr'[q] = ptr[q]
    BY <2>1 DEF TypeOK
  <2>4. /\ cnt'[s] = 1
        /\ \A q \in Pointers \ {p} : Lives(q) => cnt'[ptr[q].ref] = left[ptr[q].ref]
    BY <1>3, <1>4, <2>1, <2>2
  <2> QED BY <1>6, <2>2, <2>3, <2>4
<1>8. CASE ~ (left[r] > 0)
  <2>1. /\ ptr' = [ptr EXCEPT ![p] = To(d, r)]
        /\ cnt' = [left EXCEPT ![r] = @ + 1]
    BY <1>1, <1>8
  <2>2. left[r] = 0 /\ cnt[r] <= 1
    BY <1>2, <1>3, <1>8 DEF Counted
  <2>3. /\ ptr'[p] = To(d, r)
        /\ \A q \in Pointers \ {p} : ptr'[q] = ptr[q]
    BY <2>1 DEF TypeOK
  <2>4. /\ cnt'[r] = 1
        /\ \A q \in Pointers \ {p} : Lives(q) =>
              ptr[q].ref # r /\ cnt'[ptr[q].ref] = left[ptr[q].ref]
    BY <1>2, <1>3, <1>4, <2>1, <2>2
  <2> QED BY <1>2, <1>6, <2>3, <2>4
<1> QED BY <1>7, <1>8

-----------------------------------------------------------------------------
LEMMA InitIInv == Init => IInv
<1> SUFFICES ASSUME Init PROVE IInv
  OBVIOUS
<1>1. \A p \in Pointers : ~ Lives(p)
  BY DEF Init, Lives
<1>2. ~ broken /\ objs = {}
  BY DEF Init
<1> QED BY <1>1, <1>2, InitTypeOK
     DEF IInv, Sound, NoneDangles, OneObject, OneCounter, Exact, HeldInMemory, HeldOrDropped

LEMMA NextIInv == IInv /\ [Next]_vars => IInv'
<1> SUFFICES ASSUME IInv, [Next]_vars PROVE IInv'
  OBVIOUS
<1>1. TypeOK /\ TypeOK'
  BY NextTypeOK DEF IInv
<1> SUFFICES ASSUME ~ shared' PROVE Sound'
  BY <1>1 DEF IInv
<1>2. CASE UNCHANGED vars
  <2>1. Sound
    BY <1>2 DEF IInv, vars
  <2> QED BY <1>2, <2>1
       DEF vars, Sound, NoneDangles, OneObject, OneCounter, Exact, HeldInMemory, HeldOrDropped,
           Lives, Dangling, Holders
<1>3. ASSUME NEW p \in Pointers, Destroy(p) PROVE Sound'
  <2>1. Sound
    BY <1>3 DEF Destroy, IInv
  <2> QED BY <1>1, <1>3, <2>1, DestroySound
<1>4. ASSUME NEW p \in Pointers, UseDeleted(p) PROVE Sound'
  <2>1. Sound
    BY <1>4 DEF UseDeleted, IInv
  <2> QED BY <1>4, <2>1 DEF UseDeleted, Sound, NoneDangles
<1>5. ASSUME NEW p \in Pointers, NEW q \in Pointers, Copy(p, q) PROVE Sound'
  <2>1. Sound
    BY <1>5 DEF Copy, IInv
  <2> QED BY <1>1, <1>5, <2>1, CopySound
<1>6. ASSUME NEW p \in Pointers, NEW q \in Pointers, Assign(p, q) PROVE Sound'
  <2>1. Sound
    BY <1>6 DEF Assign, AssignFrom, IInv
  <2> QED BY <1>1, <1>6, <2>1, AssignSound
<1>7. ASSUME NEW p \in Pointers, NEW d \in Objects \cup {Nil}, Construct(p, d) PROVE Sound'
  <2>1. Sound
    BY <1>7 DEF Construct, IInv
  <2> QED BY <1>1, <1>7, <2>1, ConstructSound
<1>8. ASSUME NEW p \in Pointers, NEW d \in Objects \cup {Nil}, AssignNew(p, d) PROVE Sound'
  <2>1. Sound
    BY <1>8 DEF AssignNew, AssignFrom, IInv
  <2> QED BY <1>1, <1>8, <2>1, AssignNewSound
<1>9. ASSUME NEW p \in Pointers, NEW d \in Objects \cup {Nil}, Reset(p, d) PROVE Sound'
  <2>1. Sound
    BY <1>9 DEF Reset, IInv
  <2> QED BY <1>1, <1>9, <2>1, ResetSound
<1> QED BY <1>2, <1>3, <1>4, <1>5, <1>6, <1>7, <1>8, <1>9 DEF Next

\* As long as no counter of nothing is shared, the steps of Pointer keep Sound.
LEMMA Invariance == Spec => []IInv
  BY InitIInv, NextIInv, PTL DEF Spec

\* A counter counts the Pointers that share it, whatever copies, assignments,
\* Resets and destructors there were.
THEOREM CountsAreExact == Spec => []CountsHolders
<1>1. IInv => CountsHolders
  <2> SUFFICES ASSUME IInv, ~ shared, NEW r \in Refs, NEW p \in Holders(r)
               PROVE  \/ /\ cnt[r] = Cardinality(Holders(r))
                         /\ \A x, y \in Holders(r) : ptr[x].data = ptr[y].data
                      \/ /\ \E x \in Holders(r) : Holders(r) = {x} /\ ptr[x].data = Nil
                         /\ cnt[r] \in {0, 1}
    BY DEF CountsHolders
  <2>1. Sound
    BY DEF IInv
  <2>2. p \in Pointers /\ Lives(p) /\ ptr[p].ref = r
    BY DEF Holders
  <2>3. \A x \in Holders(r) : x \in Pointers /\ Lives(x) /\ ptr[x].ref = r
    BY DEF Holders
  <2>4. CASE ptr[p].data = Nil
    <3>1. Holders(r) = {p}
      BY <2>1, <2>2, <2>3, <2>4 DEF Sound, OneObject
    <3>2. cnt[r] \in {0, 1}
      BY <2>1, <2>2, <2>4 DEF Sound, Exact
    <3> QED BY <2>4, <3>1, <3>2
  <2>5. CASE ptr[p].data # Nil
    <3>1. cnt[r] = Cardinality(Holders(r))
      BY <2>1, <2>2, <2>5 DEF Sound, Exact
    <3>2. \A x, y \in Holders(r) : ptr[x].data = ptr[y].data
      BY <2>1, <2>3 DEF Sound, OneObject
    <3> QED BY <3>1, <3>2
  <2> QED BY <2>4, <2>5
<1> QED BY <1>1, Invariance, PTL

\* No object is deleted while a Pointer holds it, and no deleted counter is
\* used: the destructor's test of the counter is enough.
THEOREM HeldNotDeleted == Spec => []HeldIsAlive
<1>1. IInv => HeldIsAlive
  BY DEF IInv, Sound, HeldInMemory, HeldIsAlive
<1> QED BY <1>1, Invariance, PTL

\* Every object in memory has a Pointer, or was given up by operator= or Reset.
THEOREM NotLeaked == Spec => []DeletedWithLastHolder
<1>1. IInv => DeletedWithLastHolder
  BY DEF IInv, Sound, HeldOrDropped, DeletedWithLastHolder
<1> QED BY <1>1, Invariance, PTL
=============================================================================
