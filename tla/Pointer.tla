------------------------------ MODULE Pointer ------------------------------
(***************************************************************************)
(* Pointer<T> of kernel/include/pointer.hpp, which shares an object and    *)
(* deletes it with the last Pointer to it, and the counter Reference the   *)
(* Pointers to an object share. An action is one operation with the        *)
(* temporaries it makes and destroys.                                      *)
(***************************************************************************)
EXTENDS Integers, FiniteSets

CONSTANTS
    Pointers,  \* variables that may hold a Pointer
    Objects,   \* bound: objects of type T
    Refs,      \* bound: counters
    Nil,       \* nullptr
    Gone       \* what is not in memory

VARIABLES
    ptr,      \* the Pointers: m_data and m_ref, or Gone
    cnt,      \* the counters: m_cnt, or Gone
    objs,     \* objects in memory
    dropped,  \* history: objects given up by operator= or Reset
    shared,   \* history: a counter of no object has got a second holder
    broken    \* history: a deleted counter was used

vars == <<ptr, cnt, objs, dropped, shared, broken>>

ASSUME PointerAssumption == /\ IsFiniteSet(Pointers)
                            /\ Nil \notin Objects
                            /\ Gone \notin Int /\ Gone \notin Refs
                            /\ Gone \notin [data : Objects \cup {Nil}, ref : Refs]

To(data, ref) == [data |-> data, ref |-> ref]

Lives(p) == ptr[p] # Gone

\* Counters for a new Pointer.
FreeRefs == {r \in Refs : cnt[r] = Gone /\ \A p \in Pointers : Lives(p) => ptr[p].ref # r}

\* Callers pass nothing or an object they have just made.
IsNew(d) == d \notin objs

Counted(data) == IF data = Nil THEN 0 ELSE 1

Init == /\ ptr = [p \in Pointers |-> Gone]
        /\ cnt = [r \in Refs |-> Gone]
        /\ objs = {} /\ dropped = {}
        /\ shared = FALSE /\ broken = FALSE

(***************************************************************************)
(* Constructors: of nothing or of an object, and of another Pointer, whose *)
(* counter is taken even if there is nothing to count.                     *)
(***************************************************************************)
Construct(p, d) ==
    /\ ~ broken /\ ~ Lives(p) /\ IsNew(d)
    /\ \E r \in FreeRefs : /\ ptr' = [ptr EXCEPT ![p] = To(d, r)]
                           /\ cnt' = [cnt EXCEPT ![r] = Counted(d)]
    /\ objs' = (objs \cup {d}) \ {Nil}
    /\ UNCHANGED <<dropped, shared, broken>>

Dangling(p) == cnt[ptr[p].ref] = Gone

\* Mutant: the counter is not taken over.
CopyOfData(p, q) ==
    /\ ~ broken /\ ~ Lives(p) /\ Lives(q)
    /\ Dangling(q) => ptr[q].data = Nil
    /\ ptr' = [ptr EXCEPT ![p] = To(ptr[q].data, Gone)]
    /\ cnt' = IF ptr[q].data = Nil THEN cnt ELSE [cnt EXCEPT ![ptr[q].ref] = @ + 1]
    /\ shared' = (shared \/ ptr[q].data = Nil)
    /\ UNCHANGED <<objs, dropped, broken>>

Copy(p, q) ==
    /\ ~ broken /\ ~ Lives(p) /\ Lives(q)
    /\ Dangling(q) => ptr[q].data = Nil
    /\ ptr' = [ptr EXCEPT ![p] = ptr[q]]
    /\ cnt' = IF ptr[q].data = Nil THEN cnt ELSE [cnt EXCEPT ![ptr[q].ref] = @ + 1]
    /\ shared' = (shared \/ ptr[q].data = Nil)
    /\ UNCHANGED <<objs, dropped, broken>>

(***************************************************************************)
(* The destructor, in a memory c of counters and o of objects.             *)
(***************************************************************************)
CounterAfter(x, c) == [c EXCEPT ![x.ref] = IF @ - 1 > 0 THEN @ - 1 ELSE Gone]

\* Mutant: the last Pointer but one deletes.
ObjectsDeletedEarly(x, c, o) == IF c[x.ref] - 1 > 1 THEN o ELSE o \ {x.data}

\* Mutant: the last Pointer does not delete.
ObjectsNotDeleted(x, c, o) == IF c[x.ref] - 1 >= 0 THEN o ELSE o \ {x.data}

ObjectsAfter(x, c, o) == IF c[x.ref] - 1 > 0 THEN o ELSE o \ {x.data}

Destroy(p) == /\ ~ broken /\ Lives(p) /\ ~ Dangling(p)
              /\ ptr' = [ptr EXCEPT ![p] = Gone]
              /\ cnt' = CounterAfter(ptr[p], cnt)
              /\ objs' = ObjectsAfter(ptr[p], cnt, objs)
              /\ UNCHANGED <<dropped, shared, broken>>

(***************************************************************************)
(* operator=, whose argument x is a Pointer of its own: a copy, or what    *)
(* the expression made; it is destroyed in the end. c and o are the memory *)
(* with it. What the left side had is counted down and not deleted.        *)
(***************************************************************************)
GivesUp(p) == ptr[p].data # Nil /\ cnt[ptr[p].ref] = 1

\* Mutant: what the left side had is not counted down.
AssignUncounted(p, x, c, o) ==
    /\ ~ broken /\ Lives(p)
    /\ Dangling(p) => ptr[p].data = Nil
    /\ IF ptr[p].data = x.data
       THEN /\ cnt' = CounterAfter(x, c)
            /\ objs' = ObjectsAfter(x, c, o)
            /\ UNCHANGED <<ptr, dropped>>
       ELSE LET left  == c
                taken == [left EXCEPT ![x.ref] = @ + Counted(x.data)]
            IN  /\ ptr' = [ptr EXCEPT ![p] = x]
                /\ cnt' = CounterAfter(x, taken)
                /\ objs' = ObjectsAfter(x, taken, o)
                /\ dropped' = IF GivesUp(p) THEN dropped \cup {ptr[p].data} ELSE dropped
    /\ shared' = (shared \/ x.data = Nil)
    /\ UNCHANGED broken

AssignFrom(p, x, c, o) ==
    /\ ~ broken /\ Lives(p)
    /\ Dangling(p) => ptr[p].data = Nil
    /\ IF ptr[p].data = x.data
       THEN /\ cnt' = CounterAfter(x, c)
            /\ objs' = ObjectsAfter(x, c, o)
            /\ UNCHANGED <<ptr, dropped>>
       ELSE LET left  == IF ptr[p].data = Nil THEN c ELSE [c EXCEPT ![ptr[p].ref] = @ - 1]
                taken == [left EXCEPT ![x.ref] = @ + Counted(x.data)]
            IN  /\ ptr' = [ptr EXCEPT ![p] = x]
                /\ cnt' = CounterAfter(x, taken)
                /\ objs' = ObjectsAfter(x, taken, o)
                /\ dropped' = IF GivesUp(p) THEN dropped \cup {ptr[p].data} ELSE dropped
    /\ shared' = (shared \/ x.data = Nil)
    /\ UNCHANGED broken

Assign(p, q) ==
    /\ Lives(q) /\ ~ Dangling(q)
    /\ AssignFrom(p, ptr[q], [cnt EXCEPT ![ptr[q].ref] = @ + Counted(ptr[q].data)], objs)

AssignNew(p, d) ==
    /\ IsNew(d)
    /\ \E r \in FreeRefs :
          AssignFrom(p, To(d, r), [cnt EXCEPT ![r] = Counted(d)],
                     (objs \cup {d}) \ {Nil})

(***************************************************************************)
(* Reset. The counter is kept if nothing else counts on it, and counts the *)
(* new object, even if that is nothing.                                    *)
(***************************************************************************)
Reset(p, d) ==
    /\ ~ broken /\ Lives(p) /\ ~ Dangling(p)
    /\ ptr[p].data # d /\ IsNew(d)
    /\ LET left == [cnt EXCEPT ![ptr[p].ref] = @ - Counted(ptr[p].data)]
       IN  IF left[ptr[p].ref] > 0
           THEN \E r \in FreeRefs : /\ ptr' = [ptr EXCEPT ![p] = To(d, r)]
                                    /\ cnt' = [left EXCEPT ![r] = 1]
           ELSE /\ ptr' = [ptr EXCEPT ![p] = To(d, ptr[p].ref)]
                /\ cnt' = [left EXCEPT ![ptr[p].ref] = @ + 1]
    /\ objs' = (objs \cup {d}) \ {Nil}
    /\ dropped' = IF GivesUp(p) THEN dropped \cup {ptr[p].data} ELSE dropped
    /\ UNCHANGED <<shared, broken>>

\* Bound: a behaviour is followed up to the first use of a deleted counter.
UseDeleted(p) == /\ ~ broken /\ Lives(p) /\ Dangling(p)
                 /\ broken' = TRUE
                 /\ UNCHANGED <<ptr, cnt, objs, dropped, shared>>

Next == \E p \in Pointers :
            \/ Destroy(p) \/ UseDeleted(p)
            \/ \E q \in Pointers : Copy(p, q) \/ Assign(p, q)
            \/ \E d \in Objects \cup {Nil} : Construct(p, d) \/ AssignNew(p, d) \/ Reset(p, d)

Spec == Init /\ [][Next]_vars

(***************************************************************************)
(* Properties. Those after the first speak of Pointers to nothing that are *)
(* not copied and not assigned from: such a copy counts on a counter that  *)
(* does not count it.                                                      *)
(***************************************************************************)
\* Every variable has its type.
TypeOK == /\ ptr \in [Pointers -> {Gone} \cup [data : Objects \cup {Nil}, ref : Refs]]
          /\ cnt \in [Refs -> Int \cup {Gone}]
          /\ objs \subseteq Objects /\ dropped \subseteq Objects
          /\ shared \in BOOLEAN /\ broken \in BOOLEAN

Holders(r) == {p \in Pointers : Lives(p) /\ ptr[p].ref = r}

\* A counter counts the Pointers that share it, and these have one object; with
\* no object it has one Pointer (the constructors, operator= and Reset).
CountsHolders ==
    ~ shared => \A r \in Refs : Holders(r) # {} =>
        \/ /\ cnt[r] = Cardinality(Holders(r))
           /\ \A p, q \in Holders(r) : ptr[p].data = ptr[q].data
        \/ /\ \E p \in Holders(r) : Holders(r) = {p} /\ ptr[p].data = Nil
           /\ cnt[r] \in {0, 1}

\* An object is not deleted while a Pointer holds it, and no Pointer uses a
\* counter that another one has deleted (the destructor's test, after any
\* sequence of copies, assignments to itself or others, and Resets).
HeldIsAlive ==
    ~ shared => /\ ~ broken
                /\ \A p \in Pointers : Lives(p) /\ ptr[p].data # Nil => ptr[p].data \in objs

\* An object lives no longer than its last Pointer, unless operator= or Reset
\* took it from that one: they count it down and do not delete it.
DeletedWithLastHolder ==
    ~ shared => objs \subseteq {ptr[p].data : p \in {q \in Pointers : Lives(q)}} \cup dropped
=============================================================================
