-------------------------- MODULE InterruptsProofs --------------------------
(***************************************************************************)
(* Proofs about Interrupts, for any lines, vectors, callbacks and buffers, *)
(* and any number of interrupts.                                           *)
(***************************************************************************)
EXTENDS Interrupts, FiniteSetTheorems, SequenceTheorems, TLAPS

-----------------------------------------------------------------------------
(***************************************************************************)
(* The inductive invariant. TypeOK bounds the count of a list by its       *)
(* capacity, which the steps of a routine keep because no other routine    *)
(* works on the same list (Apart) and each step finds the list as the one  *)
(* before it left it (Working).                                            *)
(***************************************************************************)
PCs == {"idle", "add", "stuck", "grow", "store", "check", "tear", "copy", "uncount"}

Operations == [pc : PCs, v : Hooked \cup {None}, c : Cells \cup {None},
               i : Nat, j : Nat, buf : Buffers \cup {None}]

Vectors == [buf : Buffers \cup {None}, cap : 1..MaxCap, cnt : Nat]

Handled == [v : {PF} \cup {Stub(l) : l \in Lines}, it : Nat, risky : BOOLEAN, end : Nat,
            buf : Buffers \cup {None}, due : SUBSET Cells]

OpType == op \in [Flows -> Operations]

ListType == /\ list \in [Hooked -> {None} \cup Vectors]
            /\ \A v \in Hooked : list[v] # None => list[v].cnt <= list[v].cap

HType == h \in {None} \cup Handled

RestType == /\ irr \subseteq Lines /\ isr \subseteq Lines \cup {Cascade}
            /\ mem \in [Buffers -> [0..(MaxCap - 1) -> Cells]]
            /\ free \subseteq Buffers
            /\ asked \in 0..MaxAsked /\ wild \in BOOLEAN

Apart == op["isr"].pc # "idle" => Handling /\ op["isr"].v # op["main"].v

\* What a routine o finds of its list l.
Finds(o, l) ==
    /\ o.pc # "idle" => o.v \in Hooked /\ o.c \in Cells
    /\ o.pc \in {"add", "grow"} /\ l # None => l.cnt < MaxAdds[o.v]
    /\ o.pc = "grow" => l # None /\ l.cnt = l.cap
    /\ o.pc \in {"store", "tear", "copy", "uncount"} => l # None /\ l.cnt > 0

Working == \A f \in Flows : Finds(op[f], list[op[f].v])

ListInv == OpType /\ ListType /\ Apart /\ Working

IsList(l) == l \in {None} \cup Vectors /\ (l # None => l.cnt <= l.cap)

LEMMA MaxCapNat == MaxCap \in Nat /\ 1 <= MaxCap
  BY InterruptsAssumption

LEMMA VectorType ==
  ASSUME NEW l \in Vectors
  PROVE  /\ l.buf \in Buffers \cup {None} /\ l.cap \in 1..MaxCap /\ l.cap \in Nat
         /\ l.cnt \in Nat /\ l # None
<1>1. l.cap \in Nat
  BY MaxCapNat DEF Vectors
<1>2. l \in [buf : Buffers \cup {None}, cap : Nat, cnt : Nat]
  BY MaxCapNat DEF Vectors
<1> QED BY <1>1, <1>2, InterruptsAssumption DEF Vectors

\* A list that is shrunk keeps room for its elements, whatever its capacity.
LEMMA ShrunkRoom ==
  ASSUME NEW l \in Vectors, l.cnt <= l.cap, l.cnt > 0
  PROVE  Shrunk(l) \in 1..MaxCap /\ l.cnt <= Shrunk(l)
<1>1. l.cap \in Nat /\ l.cnt \in Nat /\ 1 <= l.cap /\ l.cap <= MaxCap /\ MaxCap \in Nat
  BY VectorType, MaxCapNat
<1>2. CASE ~ (l.cnt <= l.cap \div 4)
  BY <1>1, <1>2 DEF Shrunk
<1>3. CASE l.cnt <= l.cap \div 4
  <2>1. l.cap \div 4 <= l.cap \div 2 /\ l.cap \div 2 \in Nat /\ l.cap \div 2 <= l.cap
        /\ l.cap \div 4 \in Nat
    BY <1>1
  <2>2. Shrunk(l) = l.cap \div 2
    BY <1>3 DEF Shrunk
  <2> QED BY <1>1, <1>3, <2>1, <2>2
<1> QED BY <1>2, <1>3

LEMMA MaxAddsType ==
  \A v \in Hooked : MaxAdds[v] \in 1..MaxCap /\ 2 * (MaxAdds[v] - 1) <= MaxCap
  BY InterruptsAssumption

\* The two flows do not work on one list.
LEMMA OthersApart ==
  ASSUME Apart, NEW f \in Flows, Runs(f), op[f].pc # "idle",
         NEW g \in Flows \ {f}, op[g].pc # "idle"
  PROVE  op[g].v # op[f].v
  BY DEF Apart, Flows, Runs

-----------------------------------------------------------------------------
(***************************************************************************)
(* A step of a routine of f, which may change f's list and no other.       *)
(***************************************************************************)
LEMMA RoutineStep ==
  ASSUME ListInv, NEW f \in Flows, Runs(f), op[f].pc # "idle",
         NEW o \in Operations, op'[f] = o,
         \A g \in Flows \ {f} : op'[g] = op[g],
         op' \in [Flows -> Operations],
         o.pc # "idle" => o.v = op[f].v,
         list' \in [Hooked -> {None} \cup Vectors],
         IsList(list'[op[f].v]),
         \A v \in Hooked \ {op[f].v} : list'[v] = list[v],
         Finds(o, list'[op[f].v]),
         h' = h
  PROVE  ListInv'
<1> USE DEF ListInv
<1>1. OpType'
  BY DEF OpType
<1>2. ListType'
  BY DEF ListType, IsList
<1>3. Apart'
  <2>1. op'["isr"].pc # "idle" => op["isr"].pc # "idle" /\ op'["isr"].v = op["isr"].v
    BY DEF Flows
  <2>2. "isr" \in Flows /\ "main" \in Flows
    BY DEF Flows
  <2>3. CASE f = "main"
    <3>1. op["isr"].pc = "idle"
      BY <2>3 DEF Apart, Runs
    <3> QED BY <2>1, <3>1 DEF Apart
  <2>4. CASE f = "isr"
    <3>1. op'["main"] = op["main"]
      BY <2>2, <2>4
    <3> QED BY <2>1, <3>1 DEF Apart, Handling
  <2> QED BY <2>3, <2>4 DEF Flows
<1>4. Working'
  <2> SUFFICES ASSUME NEW g \in Flows PROVE Finds(op'[g], list'[op'[g].v])
    BY DEF Working, Finds
  <2>1. CASE g = f
    <3>1. CASE o.pc = "idle"
      BY <2>1, <3>1 DEF Finds
    <3>2. CASE o.pc # "idle"
      BY <2>1, <3>2
    <3> QED BY <3>1, <3>2
  <2>2. CASE g # f
    <3>1. Finds(op[g], list[op[g].v]) /\ op'[g] = op[g]
      BY <2>2 DEF Working
    <3>2. CASE op[g].pc = "idle"
      BY <3>1, <3>2 DEF Finds
    <3>3. CASE op[g].pc # "idle"
      <4>1. op[g].v # op[f].v
        BY <2>2, <3>3, OthersApart
      <4>2. op[g].v \in Hooked
        BY <3>1, <3>3 DEF Finds
      <4> QED BY <3>1, <4>1, <4>2
    <3> QED BY <3>2, <3>3
  <2> QED BY <2>1, <2>2
<1> QED BY <1>1, <1>2, <1>3, <1>4

\* What a step that has begun finds.
LEMMA Begun ==
  ASSUME ListInv, NEW f \in Flows, op[f].pc # "idle"
  PROVE  /\ op[f] \in Operations
         /\ op[f].v \in Hooked
         /\ IsList(Own(f))
         /\ Finds(op[f], Own(f))
<1>1. op[f] \in Operations
  BY DEF ListInv, OpType
<1>2. Finds(op[f], Own(f))
  BY DEF ListInv, Working, Own
<1>3. op[f].v \in Hooked
  BY <1>2 DEF Finds
<1> QED BY <1>1, <1>2, <1>3 DEF ListInv, ListType, IsList, Own

OpStep(f, o) == op' = [op EXCEPT ![f] = o]
ListStep(f, l) == list' = [list EXCEPT ![op[f].v] = l]

\* A step that leaves the lists alone and only moves on.
LEMMA MoveOn ==
  ASSUME ListInv, NEW f \in Flows, Runs(f), op[f].pc # "idle",
         NEW o \in Operations, OpStep(f, o),
         o.pc # "idle" => o.v = op[f].v,
         Finds(o, Own(f)),
         list' = list, h' = h
  PROVE  ListInv'
<1>1. /\ op' \in [Flows -> Operations]
      /\ op'[f] = o
      /\ \A g \in Flows \ {f} : op'[g] = op[g]
  BY DEF ListInv, OpType, OpStep
<1>2. /\ list' \in [Hooked -> {None} \cup Vectors]
      /\ list'[op[f].v] = Own(f)
  BY DEF ListInv, ListType, Own
<1>3. IsList(list'[op[f].v])
  BY <1>2, Begun
<1> QED BY <1>1, <1>2, <1>3, RoutineStep

\* A step that changes its own list to l.
LEMMA MoveOnWith ==
  ASSUME ListInv, NEW f \in Flows, Runs(f), op[f].pc # "idle",
         NEW o \in Operations, OpStep(f, o),
         o.pc # "idle" => o.v = op[f].v,
         NEW l \in Vectors, l.cnt <= l.cap, ListStep(f, l),
         Finds(o, l),
         h' = h
  PROVE  ListInv'
<1>1. /\ op' \in [Flows -> Operations]
      /\ op'[f] = o
      /\ \A g \in Flows \ {f} : op'[g] = op[g]
  BY DEF ListInv, OpType, OpStep
<1>2. op[f].v \in Hooked
  BY Begun
<1>3. /\ list' \in [Hooked -> {None} \cup Vectors]
      /\ list'[op[f].v] = l
      /\ \A v \in Hooked \ {op[f].v} : list'[v] = list[v]
  BY <1>2 DEF ListInv, ListType, ListStep
<1>4. IsList(list'[op[f].v])
  BY <1>3 DEF IsList
<1> QED BY <1>1, <1>3, <1>4, RoutineStep

LEMMA IdleType == Idle \in Operations /\ \A l : Finds(Idle, l)
  BY DEF Idle, Operations, PCs, Finds

LEMMA OpWithPc ==
  ASSUME NEW o \in Operations, NEW pc \in PCs
  PROVE  /\ [o EXCEPT !.pc = pc] \in Operations
         /\ [o EXCEPT !.pc = pc].pc = pc
         /\ [o EXCEPT !.pc = pc].v = o.v
         /\ [o EXCEPT !.pc = pc].c = o.c
  BY DEF Operations

LEMMA GoesOn ==
  ASSUME ListInv, NEW f \in Flows, Runs(f), op[f].pc # "idle",
         NEW pc \in PCs, Goto(f, pc)
  PROVE  \E o \in Operations : OpStep(f, o) /\ o.pc = pc /\ o.v = op[f].v /\ o.c = op[f].c
  BY OpWithPc, Begun DEF Goto, OpStep

\* AddCallback and what it calls.
LEMMA AddSteps ==
  ASSUME ListInv, free \subseteq Buffers, NEW f \in Flows,
         \/ HeapTakes(f) \/ NewVector(f) \/ NewFails(f)
         \/ ExpandInPlace(f) \/ ExpandMoves(f) \/ ExpandFails(f)
         \/ Grow(f) \/ CountElement(f) \/ StoreElement(f)
  PROVE  ListInv'
<1>0. /\ Runs(f) /\ op[f].pc # "idle"
      /\ h' = h
  BY DEF HeapTakes, NewVector, NewFails, ExpandInPlace, ExpandMoves, ExpandFails, Grow, CountElement,
         StoreElement, At
<1>1. /\ op[f] \in Operations /\ op[f].v \in Hooked /\ op[f].c \in Cells
      /\ IsList(Own(f)) /\ Finds(op[f], Own(f))
      /\ MaxAdds[op[f].v] \in 1..MaxCap /\ 2 * (MaxAdds[op[f].v] - 1) <= MaxCap
  BY <1>0, Begun, MaxAddsType DEF Finds
<1>2. CASE NewVector(f)
  <2>1. PICK b \in Buffers \cup {None} : ListStep(f, Vector(b, 1, 0))
    BY <1>2 DEF NewVector, Given, ListStep
  <2>2. Vector(b, 1, 0) \in Vectors /\ Vector(b, 1, 0).cnt = 0 /\ Vector(b, 1, 0).cap = 1
    BY MaxCapNat DEF Vector, Vectors
  <2>3. OpStep(f, op[f])
    BY <1>2 DEF NewVector, OpStep, ListInv, OpType
  <2>4. Finds(op[f], Vector(b, 1, 0))
    BY <1>1, <1>2, <2>2 DEF NewVector, Finds, At
  <2> QED BY <1>0, <1>1, <2>1, <2>2, <2>3, <2>4, MoveOnWith
<1>3. CASE NewFails(f)
  <2>1. PICK o \in Operations : OpStep(f, o) /\ o.pc = "stuck" /\ o.v = op[f].v /\ o.c = op[f].c
    BY <1>0, <1>3, GoesOn DEF NewFails, PCs
  <2> QED BY <1>0, <1>1, <1>3, <2>1, MoveOn DEF NewFails, Finds, Lists
<1>4. CASE ExpandInPlace(f) \/ ExpandMoves(f)
  <2>1. PICK b \in Buffers : op' = [op EXCEPT ![f].pc = "grow", ![f].buf = b]
    BY <1>1, <1>4 DEF ExpandInPlace, ExpandMoves, Given, IsFull, IsList, Vectors
  <2> DEFINE o == [op[f] EXCEPT !.pc = "grow", !.buf = b]
  <2>2. o \in Operations /\ o.pc = "grow" /\ o.v = op[f].v /\ o.c = op[f].c /\ OpStep(f, o)
    BY <1>1, <2>1 DEF Operations, PCs, OpStep
  <2>3. op[f].pc = "add" /\ IsFull(f) /\ list' = list
    BY <1>4 DEF ExpandInPlace, ExpandMoves, At, Lists
  <2> HIDE DEF o
  <2>4. Finds(o, Own(f))
    BY <1>1, <2>2, <2>3 DEF Finds, IsFull
  <2> QED BY <1>0, <2>2, <2>3, <2>4, MoveOn
<1>5. CASE ExpandFails(f)
  BY <1>0, <1>5, IdleType, MoveOn DEF ExpandFails, Ends, OpStep, Lists, Idle
<1>6. CASE Grow(f)
  <2> DEFINE l == Vector(op[f].buf, 2 * Own(f).cap, Own(f).cnt)
  <2>1. PICK o \in Operations : OpStep(f, o) /\ o.pc = "add" /\ o.v = op[f].v /\ o.c = op[f].c
    BY <1>0, <1>6, GoesOn DEF Grow, PCs
  <2>2. /\ Own(f) \in Vectors /\ Own(f).cnt = Own(f).cap /\ Own(f).cnt < MaxAdds[op[f].v]
        /\ ListStep(f, l)
    BY <1>1, <1>6 DEF Grow, At, Finds, IsList, ListStep
  <2>3. /\ Own(f).cap \in Nat /\ Own(f).cnt \in Nat /\ 2 * Own(f).cap \in 1..MaxCap
        /\ op[f].buf \in Buffers \cup {None}
    <3>1. /\ MaxAdds[op[f].v] \in Nat /\ 2 * (MaxAdds[op[f].v] - 1) <= MaxCap
          /\ Own(f).cap \in Nat /\ 1 <= Own(f).cap
      BY <1>1, <2>2, VectorType, MaxCapNat
    <3> QED BY <1>1, <2>2, <3>1, MaxCapNat DEF Operations
  <2>4. l \in Vectors /\ l.cnt = Own(f).cnt /\ l.cnt <= l.cap
    BY <2>2, <2>3, VectorType, MaxCapNat DEF Vector, Vectors
  <2> HIDE DEF l
  <2>5. Finds(o, l)
    BY <1>1, <2>1, <2>2, <2>4 DEF Finds
  <2> QED BY <1>0, <2>1, <2>2, <2>4, <2>5, MoveOnWith
<1>7. CASE CountElement(f)
  <2> DEFINE l == [Own(f) EXCEPT !.cnt = @ + 1]
             o == [op[f] EXCEPT !.pc = "store", !.i = Own(f).cnt]
  <2>1. /\ Own(f) \in Vectors /\ Own(f).cnt <= Own(f).cap /\ Own(f).cnt # Own(f).cap
        /\ ListStep(f, l) /\ OpStep(f, o)
    BY <1>1, <1>7 DEF CountElement, IsFull, IsList, ListStep, OpStep, Own
  <2>2. Own(f).cnt \in Nat /\ Own(f).cap \in Nat
    BY <2>1, VectorType
  <2>3. l \in Vectors /\ l.cnt = Own(f).cnt + 1 /\ l.cap = Own(f).cap
    BY <2>1, <2>2 DEF Vectors
  <2>4. o \in Operations /\ o.pc = "store" /\ o.v = op[f].v /\ o.c = op[f].c
    BY <1>1, <2>2 DEF Operations, PCs
  <2> HIDE DEF l, o
  <2>5. Finds(o, l) /\ l.cnt <= l.cap
    BY <1>1, <2>1, <2>2, <2>3, <2>4, VectorType DEF Finds
  <2> QED BY <1>0, <2>1, <2>3, <2>4, <2>5, MoveOnWith
<1>8. CASE StoreElement(f)
  BY <1>0, <1>8, IdleType, MoveOn DEF StoreElement, Ends, OpStep, Idle
<1>9. CASE HeapTakes(f)
  <2>1. OpStep(f, op[f]) /\ list' = list
    BY <1>9 DEF HeapTakes, OpStep, ListInv, OpType
  <2> QED BY <1>0, <1>1, <2>1, MoveOn
<1> QED BY <1>2, <1>3, <1>4, <1>5, <1>6, <1>7, <1>8, <1>9

\* RemoveCallback and what it calls.
LEMMA RemoveSteps ==
  ASSUME ListInv, NEW f \in Flows,
         \/ RemoveEnds(f) \/ CheckOther(f) \/ RemoveBegins(f)
         \/ TearCell(f) \/ CopyCell(f) \/ UncountElement(f)
  PROVE  ListInv'
<1>0. /\ Runs(f) /\ op[f].pc # "idle"
      /\ h' = h
  BY DEF RemoveEnds, CheckOther, RemoveBegins, TearCell, CopyCell, UncountElement, At
<1>1. /\ op[f] \in Operations /\ op[f].v \in Hooked /\ op[f].c \in Cells
      /\ op[f].i \in Nat /\ op[f].j \in Nat
      /\ IsList(Own(f)) /\ Finds(op[f], Own(f))
  BY <1>0, Begun DEF Operations, Finds
<1>2. Own(f) # None => /\ Own(f) \in Vectors /\ Own(f).cnt <= Own(f).cap
                       /\ Own(f).cnt \in Nat /\ Own(f).cap \in 1..MaxCap
  BY <1>1, VectorType DEF IsList
<1>3. CASE RemoveEnds(f)
  BY <1>0, <1>3, IdleType, MoveOn DEF RemoveEnds, Ends, OpStep, Idle, Lists
<1>4. CASE CheckOther(f)
  <2> DEFINE o == [op[f] EXCEPT !.i = @ + 1]
  <2>1. /\ o \in Operations /\ o.pc = "check" /\ o.v = op[f].v /\ o.c = op[f].c
        /\ OpStep(f, o) /\ list' = list
    BY <1>1, <1>4 DEF CheckOther, At, OpStep, Operations, PCs, Lists
  <2> HIDE DEF o
  <2> QED BY <1>0, <1>1, <2>1, MoveOn DEF Finds
<1>5. CASE RemoveBegins(f)
  <2> DEFINE l == [Own(f) EXCEPT !.cap = Shrunk(Own(f))]
             o == [op[f] EXCEPT !.pc = "tear", !.j = op[f].i]
  <2>1. /\ Own(f) # None /\ op[f].i < Own(f).cnt
        /\ ListStep(f, l) /\ OpStep(f, o)
    BY <1>5 DEF RemoveBegins, Inside, ListStep, OpStep, Own
  <2>2. Own(f).cnt > 0
    BY <1>1, <1>2, <2>1
  <2>3. Shrunk(Own(f)) \in 1..MaxCap /\ Own(f).cnt <= Shrunk(Own(f))
    BY <1>2, <2>1, <2>2, ShrunkRoom
  <2>4. l \in Vectors /\ l.cnt = Own(f).cnt /\ l.cap = Shrunk(Own(f))
    BY <1>2, <2>1, <2>3 DEF Vectors
  <2>5. o \in Operations /\ o.pc = "tear" /\ o.v = op[f].v /\ o.c = op[f].c
    BY <1>1 DEF Operations, PCs
  <2> HIDE DEF l, o
  <2>6. Finds(o, l)
    BY <1>1, <2>2, <2>4, <2>5, VectorType DEF Finds
  <2> QED BY <1>0, <2>1, <2>3, <2>4, <2>5, <2>6, MoveOnWith
<1>6. CASE TearCell(f)
  <2>1. PICK o \in Operations : OpStep(f, o) /\ o.pc = "copy" /\ o.v = op[f].v /\ o.c = op[f].c
    BY <1>0, <1>6, GoesOn DEF TearCell, PCs
  <2>2. Finds(o, Own(f)) /\ list' = list
    BY <1>1, <1>6, <2>1 DEF TearCell, Finds, At
  <2> QED BY <1>0, <2>1, <2>2, MoveOn
<1>7. CASE CopyCell(f)
  <2>1. PICK pc \in {"tear", "uncount"} :
           op' = [op EXCEPT ![f].j = op[f].j + 1, ![f].pc = pc]
    BY <1>7 DEF CopyCell
  <2> DEFINE o == [op[f] EXCEPT !.j = op[f].j + 1, !.pc = pc]
  <2>2. OpStep(f, o) /\ list' = list /\ op[f].pc = "copy"
    BY <1>7, <2>1 DEF CopyCell, OpStep, At
  <2>3. o \in Operations /\ o.pc = pc /\ o.v = op[f].v /\ o.c = op[f].c
    <3>1. pc \in PCs /\ op[f].j + 1 \in Nat
      BY <1>1 DEF PCs
    <3> QED BY <1>1, <3>1 DEF Operations
  <2> HIDE DEF o
  <2>4. Finds(o, Own(f))
    BY <1>1, <2>2, <2>3 DEF Finds
  <2> QED BY <1>0, <2>2, <2>3, <2>4, MoveOn
<1>8. CASE UncountElement(f)
  <2> DEFINE l == [Own(f) EXCEPT !.cnt = @ - 1]
  <2>1. PICK o \in Operations : OpStep(f, o) /\ o.pc = "check" /\ o.v = op[f].v /\ o.c = op[f].c
    BY <1>0, <1>8, GoesOn DEF UncountElement, PCs
  <2>2. /\ Own(f) # None /\ Own(f).cnt > 0
        /\ ListStep(f, l)
    BY <1>1, <1>8 DEF UncountElement, Finds, At, ListStep, Own
  <2>3. l \in Vectors /\ l.cnt = Own(f).cnt - 1 /\ l.cap = Own(f).cap
    BY <1>2, <2>2 DEF Vectors
  <2>4. l.cnt <= l.cap
    BY <1>2, <2>2, <2>3, MaxCapNat
  <2> HIDE DEF l
  <2>5. Finds(o, l)
    BY <1>1, <2>1 DEF Finds
  <2> QED BY <1>0, <2>1, <2>2, <2>3, <2>4, <2>5, MoveOnWith
<1> QED BY <1>3, <1>4, <1>5, <1>6, <1>7, <1>8

-----------------------------------------------------------------------------
(***************************************************************************)
(* The other steps: calls of AddCallback and RemoveCallback, by main and   *)
(* by a callback, and the handler.                                         *)
(***************************************************************************)
LEMMA CallStep ==
  ASSUME ListInv, NEW f \in Flows, op[f].pc = "idle",
         f = "isr" => Handling', f = "main" => ~ Handling,
         NEW v \in Hooked, NEW c \in Callbacks[v],
         f = "isr" => op["main"].v # v,
         \/ CallAdd(f, v, c) /\ CanAdd(v)
         \/ CallRemove(f, v, c)
  PROVE  ListInv'
<1> USE DEF ListInv
<1>1. PICK o \in Operations : /\ op' = [op EXCEPT ![f] = o]
                              /\ o.pc \in {"add", "check"} /\ o.v = v /\ o.c \in Cells
                              /\ o.pc = "add" => CanAdd(v)
  <2>1. c \in Cells
    BY DEF Cells
  <2> DEFINE a == [Idle EXCEPT !.pc = "add", !.v = v, !.c = c]
             r == [Idle EXCEPT !.pc = "check", !.v = v, !.c = c]
  <2>2. a \in Operations /\ r \in Operations
    BY <2>1 DEF Idle, Operations, PCs
  <2>3. a.pc = "add" /\ a.v = v /\ r.pc = "check" /\ r.v = v
    BY DEF Idle
  <2>5. a.c \in Cells /\ r.c \in Cells
    BY <2>1 DEF Idle
  <2>4. (CanAdd(v) /\ op' = [op EXCEPT ![f] = a]) \/ op' = [op EXCEPT ![f] = r]
    BY DEF CallAdd, CallRemove
  <2> HIDE DEF a, r
  <2> QED BY <2>2, <2>3, <2>4, <2>5
<1>2. list' = list
  BY DEF CallAdd, CallRemove, Lists
<1>3. /\ op' \in [Flows -> Operations]
      /\ op'[f] = o
      /\ \A g \in Flows \ {f} : op'[g] = op[g]
  BY <1>1 DEF OpType
<1>4. Apart'
  <2>1. "isr" \in Flows /\ "main" \in Flows
    BY DEF Flows
  <2>2. CASE f = "isr"
    BY <1>1, <1>3, <2>1, <2>2 DEF Apart
  <2>3. CASE f = "main"
    <3>1. op'["isr"].pc = "idle"
      BY <1>3, <2>1, <2>3 DEF Apart
    <3> QED BY <3>1 DEF Apart
  <2> QED BY <2>2, <2>3 DEF Flows
<1>5. Working'
  <2> SUFFICES ASSUME NEW g \in Flows PROVE Finds(op'[g], list[op'[g].v])
    BY <1>2 DEF Working, Finds
  <2>1. CASE g = f
    BY <1>1, <1>3, <2>1 DEF Finds, CanAdd
  <2>2. CASE g # f
    BY <1>3, <2>2 DEF Working
  <2> QED BY <2>1, <2>2
<1> QED BY <1>2, <1>3, <1>4, <1>5 DEF OpType, ListType

\* A step that leaves lists and routines alone, and does not end the handling
\* in the middle of one.
LEMMA OtherStep ==
  ASSUME ListInv, op' = op, list' = list, op["isr"].pc # "idle" => Handling'
  PROVE  ListInv'
  BY DEF ListInv, OpType, ListType, Apart, Working, Finds

LEMMA HandledType == None \notin Handled
<1>1. Handled \subseteq [v : Nat, it : Nat, risky : BOOLEAN, end : Nat,
                         buf : Buffers \cup {None}, due : SUBSET Cells]
  <2>1. \A l \in Lines : Stub(l) \in Nat
    BY InterruptsAssumption DEF Stub
  <2> QED BY <2>1 DEF Handled, PF
<1> QED BY <1>1, InterruptsAssumption

LEMMA EnterHandled ==
  ASSUME ListInv, NEW v \in {PF} \cup {Stub(l) : l \in Lines}, Enter(v)
  PROVE  h' \in Handled /\ h'.v = v
<1>1. HasList(v) => list[v] \in Vectors /\ list[v].cnt \in Nat /\ list[v].buf \in Buffers \cup {None}
  BY VectorType DEF HasList, ListInv, ListType
<1>2. v \in Hooked => Callbacks[v] \subseteq Cells
  BY DEF Cells
<1> DEFINE end == IF HasList(v) THEN list[v].cnt ELSE 0
           buf == IF HasList(v) THEN list[v].buf ELSE None
           due == IF v \in Hooked
                  THEN {c \in Callbacks[v] : \E i \in DOMAIN registered[v] :
                            registered[v][i] = c /\ ~ (op["main"].v = v /\ op["main"].c = c)}
                  ELSE {}
<1>3. h' = [v |-> v, it |-> 0, risky |-> InWindow(v), end |-> end, buf |-> buf, due |-> due]
  BY DEF Enter
<1>4. end \in Nat /\ buf \in Buffers \cup {None} /\ due \in SUBSET Cells /\ InWindow(v) \in BOOLEAN
  BY <1>1, <1>2 DEF InWindow
<1> HIDE DEF end, buf, due
<1> QED BY <1>3, <1>4 DEF Handled

LEMMA CallNextHandled ==
  ASSUME HType, CallNext
  PROVE  h \in Handled /\ h' \in Handled /\ h'.v = h.v
<1>1. h \in Handled
  BY DEF CallNext, Between, Runs, Handling, HType
<1>2. CASE h' = h
  BY <1>1, <1>2
<1>3. CASE h' # h
  <2>1. PICK c : h' = [h EXCEPT !.it = @ + 1, !.due = @ \ {c}]
    BY <1>3 DEF CallNext
  <2>2. h.it + 1 \in Nat /\ h.due \ {c} \in SUBSET Cells
    BY <1>1 DEF Handled
  <2> QED BY <1>1, <2>1, <2>2 DEF Handled
<1> QED BY <1>2, <1>3

LEMMA RemovesHandled ==
  ASSUME HType, NEW v, NEW c, CallbackRemoves(v, c)
  PROVE  h \in Handled /\ h' \in Handled /\ h'.v = h.v
<1>1. h \in Handled
  BY DEF CallbackRemoves, Changes, Between, Runs, Handling, HType
<1>2. PICK due \in SUBSET Cells, risky \in BOOLEAN :
         h' = [h EXCEPT !.due = due, !.risky = risky]
  BY <1>1 DEF CallbackRemoves, Handled
<1> QED BY <1>1, <1>2 DEF Handled

LEMMA NextHType ==
  ASSUME ListInv, HType, [Next]_vars
  PROVE  HType'
<1>1. ASSUME NEW f \in Flows, Routine(f) PROVE h' = h
  BY <1>1 DEF Routine, HeapTakes, NewVector, NewFails, ExpandInPlace, ExpandMoves, ExpandFails, Grow,
              CountElement, StoreElement, RemoveEnds, CheckOther, RemoveBegins, TearCell,
              CopyCell, UncountElement
<1>2. CASE CallNext
  BY <1>2, CallNextHandled DEF HType
<1>3. CASE Leave
  BY <1>3 DEF Leave, HType
<1>4. ASSUME NEW l \in Lines, Accept(l) PROVE HType'
  BY <1>4, EnterHandled DEF Accept, HType
<1>5. CASE Fault
  BY <1>5, EnterHandled DEF Fault, HType
<1>6. ASSUME NEW v \in Hooked, NEW c \in Callbacks[v], CallbackRemoves(v, c) PROVE HType'
  BY <1>6, RemovesHandled DEF HType
<1>7. ASSUME h' = h PROVE HType'
  BY <1>7 DEF HType
<1> QED BY <1>1, <1>2, <1>3, <1>4, <1>5, <1>6, <1>7
     DEF Next, Handler, Request, MainAdds, MainRemoves, CallbackAdds, vars

LEMMA NextListInv ==
  ASSUME ListInv, HType, free \subseteq Buffers, [Next]_vars
  PROVE  ListInv'
<1>1. ASSUME NEW f \in Flows, Routine(f) PROVE ListInv'
  BY <1>1, AddSteps, RemoveSteps DEF Routine
<1>2. CASE CallNext
  <2>1. op["isr"].pc = "idle" /\ op' = op /\ list' = list
    BY <1>2 DEF CallNext, Between, Idle, Lists
  <2> QED BY <2>1, OtherStep
<1>3. CASE Leave
  <2>1. op["isr"].pc = "idle" /\ op' = op /\ list' = list
    BY <1>3 DEF Leave, Between, Idle
  <2> QED BY <2>1, OtherStep
<1>4. ASSUME NEW l \in Lines, Accept(l) PROVE ListInv'
  <2>1. op["isr"].pc = "idle" /\ op' = op /\ list' = list
    BY <1>4 DEF Accept, ListInv, Apart, Lists
  <2> QED BY <2>1, OtherStep
<1>5. CASE Fault
  <2>1. op["isr"].pc = "idle" /\ op' = op /\ list' = list
    BY <1>5 DEF Fault, ListInv, Apart, Lists, Runs
  <2> QED BY <2>1, OtherStep
<1>6. ASSUME NEW l \in Lines, Request(l) PROVE ListInv'
  <2>1. op' = op /\ list' = list /\ h' = h
    BY <1>6 DEF Request, Lists
  <2>2. op["isr"].pc # "idle" => Handling'
    BY <2>1 DEF ListInv, Apart, Handling
  <2> QED BY <2>1, <2>2, OtherStep
<1>7. ASSUME NEW v \in Hooked, NEW c \in Callbacks[v], MainAdds(v, c) \/ MainRemoves(v, c)
      PROVE  ListInv'
  BY <1>7, CallStep DEF MainAdds, MainRemoves, Runs, Flows, Idle
<1>8. ASSUME NEW v \in Hooked, NEW c \in Callbacks[v], CallbackAdds(v, c) \/ CallbackRemoves(v, c)
      PROVE  ListInv'
  <2>1. op["isr"].pc = "idle" /\ h # None /\ op["main"].v # v
    BY <1>8 DEF CallbackAdds, CallbackRemoves, Changes, Between, Runs, Handling, Idle
  <2>2. Handling'
    <3>1. h' = h \/ h' \in Handled
      <4>1. CASE CallbackAdds(v, c)
        BY <4>1 DEF CallbackAdds
      <4>2. CASE CallbackRemoves(v, c)
        BY <4>2, RemovesHandled
      <4> QED BY <1>8, <4>1, <4>2
    <3> QED BY <2>1, <3>1, HandledType DEF Handling
  <2> QED BY <1>8, <2>1, <2>2, CallStep DEF CallbackAdds, CallbackRemoves, Flows
<1>9. CASE UNCHANGED vars
  <2>1. op' = op /\ list' = list /\ h' = h
    BY <1>9 DEF vars
  <2>2. op["isr"].pc # "idle" => Handling'
    BY <2>1 DEF ListInv, Apart, Handling
  <2> QED BY <2>1, <2>2, OtherStep
<1> QED BY <1>1, <1>2, <1>3, <1>4, <1>5, <1>6, <1>7, <1>8, <1>9 DEF Next, Handler

-----------------------------------------------------------------------------
(***************************************************************************)
(* The contents of the buffers.                                            *)
(***************************************************************************)
Memories == [Buffers -> [0..(MaxCap - 1) -> Cells]]

LEMMA BlankType == Junk \in Cells /\ Zero \in Cells /\ Blank \in [0..(MaxCap - 1) -> Cells]
<1>1. Junk \in Cells /\ Zero \in Cells
  BY DEF Cells
<1> QED BY <1>1 DEF Blank

LEMMA KnownType ==
  ASSUME NEW m \in Memories, NEW read
  PROVE  Known(m, read) \in Memories
  BY BlankType DEF Known, Memories

LEMMA ReadType ==
  ASSUME mem \in Memories, NEW b \in Buffers \cup {None}, NEW i \in Nat
  PROVE  Read(b, i) \in Cells
<1>1. CASE b = None \/ i >= MaxCap
  BY <1>1, BlankType DEF Read
<1>2. CASE ~ (b = None \/ i >= MaxCap)
  <2>1. b \in Buffers /\ i \in 0..(MaxCap - 1)
    BY <1>2, MaxCapNat
  <2> QED BY <1>2, <2>1 DEF Read, Memories
<1> QED BY <1>1, <1>2

\* Storing a buffer, and a cell.
LEMMA StoreType ==
  ASSUME NEW m \in Memories, NEW b
  PROVE  /\ \A new \in [0..(MaxCap - 1) -> Cells] : [m EXCEPT ![b] = new] \in Memories
         /\ \A j, c : c \in Cells => [m EXCEPT ![b][j] = c] \in Memories
  BY DEF Memories

LEMMA NextMemType ==
  ASSUME ListInv, mem \in Memories, free \subseteq Buffers, [Next]_vars
  PROVE  mem' \in Memories
<1>1. ASSUME NEW f \in Flows, NewVector(f) PROVE mem' \in Memories
  <2>1. CASE mem' = mem
    BY <2>1
  <2>2. CASE mem' # mem
    <3>1. PICK b : mem' = [mem EXCEPT ![b] = [i \in 0..(MaxCap - 1) |-> IF i = 0 THEN Zero ELSE Junk]]
      BY <1>1, <2>2 DEF NewVector
    <3>2. [i \in 0..(MaxCap - 1) |-> IF i = 0 THEN Zero ELSE Junk] \in [0..(MaxCap - 1) -> Cells]
      BY BlankType
    <3> QED BY <3>1, <3>2, StoreType
  <2> QED BY <2>1, <2>2
<1>2. ASSUME NEW f \in Flows, ExpandMoves(f) PROVE mem' \in Memories
  <2> DEFINE new == [i \in 0..(MaxCap - 1) |->
                        IF i < Own(f).cap THEN Read(Own(f).buf, i) ELSE Junk]
  <2>1. PICK b : mem' = [mem EXCEPT ![b] = new]
    BY <1>2 DEF ExpandMoves
  <2>2. Own(f).buf \in Buffers \cup {None}
    BY <1>2, Begun, VectorType DEF ExpandMoves, At, IsFull, IsList
  <2>3. \A i \in 0..(MaxCap - 1) : Read(Own(f).buf, i) \in Cells
    BY <2>2, ReadType, MaxCapNat
  <2>4. new \in [0..(MaxCap - 1) -> Cells]
    BY <2>3, BlankType
  <2> HIDE DEF new
  <2> QED BY <2>1, <2>4, StoreType
<1>3. ASSUME NEW f \in Flows, Grow(f) PROVE mem' \in Memories
  <2> DEFINE b == op[f].buf
             new == [i \in 0..(MaxCap - 1) |->
                        IF i \in Own(f).cnt..(2 * Own(f).cap - 1) THEN Zero ELSE mem[b][i]]
             m == [mem EXCEPT ![b] = new]
  <2>1. mem' = Known(m, Reads)
    BY <1>3 DEF Grow
  <2>2. m \in Memories
    <3>1. CASE b \in Buffers
      BY <3>1, BlankType DEF Memories
    <3>2. CASE b \notin Buffers
      <4>1. m = mem
        BY <3>2 DEF Memories
      <4> QED BY <4>1
    <3> QED BY <3>1, <3>2
  <2> HIDE DEF m
  <2> QED BY <2>1, <2>2, KnownType
<1>4. ASSUME NEW f \in Flows, StoreElement(f) PROVE mem' \in Memories
  <2>1. mem' = [mem EXCEPT ![Own(f).buf][op[f].i] = op[f].c]
    BY <1>4 DEF StoreElement
  <2>2. op[f].c \in Cells
    BY <1>4, Begun DEF StoreElement, At, Finds
  <2> QED BY <2>1, <2>2, StoreType
<1>5. ASSUME NEW f \in Flows, TearCell(f) \/ CopyCell(f) PROVE mem' \in Memories
  <2>1. Own(f).buf \in Buffers \cup {None} /\ op[f].j \in Nat
    BY <1>5, Begun, VectorType DEF TearCell, CopyCell, At, Finds, IsList, Operations
  <2>2. Read(Own(f).buf, op[f].j + 1) \in Cells
    BY <2>1, ReadType
  <2>3. \/ mem' = mem
        \/ \E c \in Cells : mem' = [mem EXCEPT ![Own(f).buf][op[f].j] = c]
    BY <1>5, <2>1, <2>2, BlankType DEF TearCell, CopyCell, Memories
  <2>4. CASE mem' # mem
    <3>1. PICK c \in Cells : mem' = [mem EXCEPT ![Own(f).buf][op[f].j] = c]
      BY <2>3, <2>4
    <3> QED BY <3>1, StoreType
  <2> QED BY <2>4
<1>6. CASE Leave
  BY <1>6, KnownType DEF Leave
<1>7. ASSUME NEW f \in Flows, Routine(f) PROVE mem' \in Memories
  <2>1. CASE \/ NewFails(f) \/ ExpandInPlace(f) \/ ExpandFails(f) \/ CountElement(f)
             \/ RemoveEnds(f) \/ CheckOther(f) \/ RemoveBegins(f) \/ UncountElement(f)
    BY <2>1 DEF NewFails, ExpandInPlace, ExpandFails, CountElement, RemoveEnds, CheckOther,
                RemoveBegins, UncountElement, Lists
  <2>2. CASE HeapTakes(f)
    BY <2>2, BlankType, StoreType DEF HeapTakes
  <2> QED BY <1>1, <1>2, <1>3, <1>4, <1>5, <1>7, <2>1, <2>2 DEF Routine
<1>8. ASSUME NEW v \in Hooked, NEW c \in Callbacks[v],
             \/ MainAdds(v, c) \/ MainRemoves(v, c) \/ CallbackAdds(v, c) \/ CallbackRemoves(v, c)
      PROVE  mem' \in Memories
  BY <1>8 DEF MainAdds, MainRemoves, CallbackAdds, CallbackRemoves, CallAdd, CallRemove, Lists
<1>9. ASSUME NEW l \in Lines, Accept(l) PROVE mem' \in Memories
  BY <1>9 DEF Accept, Lists
<1>10. ASSUME NEW l \in Lines, Request(l) PROVE mem' \in Memories
  BY <1>10 DEF Request, Lists
<1>11. CASE CallNext
  BY <1>11 DEF CallNext, Lists
<1>12. CASE Fault
  BY <1>12 DEF Fault, Lists
<1>13. CASE UNCHANGED vars
  BY <1>13 DEF vars
<1> QED BY <1>6, <1>7, <1>8, <1>9, <1>10, <1>11, <1>12, <1>13 DEF Next, Handler

-----------------------------------------------------------------------------
(***************************************************************************)
(* The controllers. While a line of the first one is handled, a cascade    *)
(* left in service comes after it, or it would not have been let through.  *)
(***************************************************************************)
LinesType == irr \subseteq Lines /\ isr \subseteq Lines \cup {Cascade}

Serves == Handling /\ h.v \in 32..39 /\ Cascade \in isr => h.v - 32 < Cascade

PicInv == LinesType /\ OnlyOwnLineInService /\ Serves

LEMMA LineType ==
  ASSUME NEW l \in Lines
  PROVE  l \in 0..15 /\ l # Cascade /\ Stub(l) = 32 + l /\ Stub(l) \in 32..47 /\ Stub(l) - 32 = l
  BY InterruptsAssumption DEF Stub

LEMMA HandledVector ==
  ASSUME HType, Handling
  PROVE  h.v = PF \/ \E l \in Lines : h.v = Stub(l)
  BY DEF HType, Handling, Handled

LEMMA AcceptPic ==
  ASSUME ListInv, PicInv, NEW l \in Lines, Accept(l)
  PROVE  PicInv'
<1> USE DEF PicInv
<1>1. h' \in Handled /\ h'.v = Stub(l)
  BY EnterHandled DEF Accept
<1>2. Handling'
  BY <1>1, HandledType DEF Handling
<1>3. isr \subseteq {Cascade}
  BY DEF Accept, OnlyOwnLineInService
<1>4. isr' = isr \cup (IF First(l) THEN {l} ELSE {l, Cascade}) /\ irr' = irr \ {l}
  BY DEF Accept
<1>5. LinesType'
  BY <1>4 DEF LinesType
<1>6. isr' \ {Cascade} = {l}
  BY <1>3, <1>4, LineType
<1>7. OnlyOwnLineInService'
  BY <1>1, <1>2, <1>6, LineType DEF OnlyOwnLineInService
<1>8. Serves'
  <2>1. CASE First(l)
    <3>1. Cascade \in isr' => Cascade \in isr
      BY <1>4, <2>1, LineType
    <3>2. Cascade \in isr => l < Cascade
      BY <2>1 DEF Accept, Raised, Passes, First, Cascade
    <3> QED BY <1>1, <3>1, <3>2, LineType DEF Serves
  <2>2. CASE ~ First(l)
    <3>1. h'.v \notin 32..39
      BY <1>1, <2>2, LineType DEF First
    <3> QED BY <3>1 DEF Serves
  <2> QED BY <2>1, <2>2
<1> QED BY <1>5, <1>7, <1>8

LEMMA LeavePic ==
  ASSUME HType, PicInv, Leave
  PROVE  PicInv'
<1> USE DEF PicInv
<1>1. Handling /\ isr' = clear_irq(h.v) /\ h' = None /\ irr' = irr
  BY DEF Leave, Between, Runs
<1>2. isr' \subseteq isr
  BY <1>1 DEF clear_irq, EndFirst
<1>3. isr' \subseteq {Cascade}
  <2>1. CASE h.v = PF
    <3>1. isr \ {Cascade} = {}
      BY <1>1, <2>1 DEF OnlyOwnLineInService, PF
    <3> QED BY <1>2, <3>1
  <2>2. CASE h.v # PF
    <3>1. PICK l \in Lines : h.v = Stub(l)
      BY <1>1, <2>2, HandledVector
    <3>2. isr \ {Cascade} = {l} /\ l \in 0..15 /\ h.v = 32 + l
      BY <1>1, <3>1, LineType DEF OnlyOwnLineInService
    <3>3. CASE l < 8
      <4>1. isr' = EndFirst({k \in isr : First(k)})
        BY <1>1, <3>2, <3>3 DEF clear_irq
      <4>2. \A k \in isr : First(k) => l <= k
        BY <1>1, <3>2, <3>3 DEF Serves, Cascade, First
      <4>3. l \notin isr'
        BY <3>2, <3>3, <4>1, <4>2 DEF EndFirst, First
      <4> QED BY <1>2, <3>2, <4>3
    <3>4. CASE ~ (l < 8)
      <4>1. isr' = EndFirst({k \in isr : ~ First(k)})
        BY <1>1, <3>2, <3>4 DEF clear_irq
      <4>2. \A k \in isr : ~ First(k) => k = l
        BY <3>2 DEF Cascade, First
      <4>3. l \notin isr'
        BY <3>2, <3>4, <4>1, <4>2 DEF EndFirst, First
      <4> QED BY <1>2, <3>2, <4>3
    <3> QED BY <3>3, <3>4, <3>2
  <2> QED BY <2>1, <2>2
<1>4. ~ Handling'
  BY <1>1 DEF Handling
<1>5. OnlyOwnLineInService'
  BY <1>3, <1>4 DEF OnlyOwnLineInService
<1> QED BY <1>1, <1>2, <1>4, <1>5 DEF LinesType, Serves

LEMMA FaultPic ==
  ASSUME ListInv, PicInv, Fault
  PROVE  PicInv'
<1> USE DEF PicInv
<1>1. h'.v = PF /\ isr' = isr /\ irr' = irr /\ ~ Handling
  BY EnterHandled DEF Fault, Runs
<1>2. ~ (h'.v >= 32) /\ h'.v \notin 32..39
  BY <1>1 DEF PF
<1> QED BY <1>1, <1>2 DEF LinesType, OnlyOwnLineInService, Serves

\* A step that leaves the controllers and the vector that is handled alone.
LEMMA OtherPic ==
  ASSUME PicInv, isr' = isr, irr' \subseteq Lines, Handling' <=> Handling, Handling => h'.v = h.v
  PROVE  PicInv'
  BY DEF PicInv, LinesType, OnlyOwnLineInService, Serves

LEMMA NextPic ==
  ASSUME ListInv, HType, PicInv, [Next]_vars, HType'
  PROVE  PicInv'
<1>0. irr \subseteq Lines
  BY DEF PicInv, LinesType
<1>1. ASSUME NEW f \in Flows, Routine(f) PROVE PicInv'
  <2>1. h' = h /\ isr' = isr /\ irr' = irr
    BY <1>1 DEF Routine, HeapTakes, NewVector, NewFails, ExpandInPlace, ExpandMoves, ExpandFails, Grow,
                CountElement, StoreElement, RemoveEnds, CheckOther, RemoveBegins, TearCell,
                CopyCell, UncountElement, Pic
  <2> QED BY <1>0, <2>1, OtherPic DEF Handling
<1>2. CASE CallNext
  <2>1. isr' = isr /\ irr' = irr
    BY <1>2 DEF CallNext, Pic
  <2> QED BY <1>0, <1>2, <2>1, CallNextHandled, HandledType, OtherPic DEF Handling
<1>3. ASSUME NEW l \in Lines, Request(l) PROVE PicInv'
  <2>1. h' = h /\ isr' = isr /\ irr' \subseteq Lines
    BY <1>0, <1>3 DEF Request
  <2> QED BY <2>1, OtherPic DEF Handling
<1>4. ASSUME NEW v \in Hooked, NEW c \in Callbacks[v], MainAdds(v, c) \/ MainRemoves(v, c)
      PROVE  PicInv'
  <2>1. h' = h /\ isr' = isr /\ irr' = irr
    BY <1>4 DEF MainAdds, MainRemoves, Pic
  <2> QED BY <1>0, <2>1, OtherPic DEF Handling
<1>5. ASSUME NEW v \in Hooked, NEW c \in Callbacks[v], CallbackAdds(v, c) PROVE PicInv'
  <2>1. h' = h /\ isr' = isr /\ irr' = irr
    BY <1>5 DEF CallbackAdds
  <2> QED BY <1>0, <2>1, OtherPic DEF Handling
<1>6. ASSUME NEW v \in Hooked, NEW c \in Callbacks[v], CallbackRemoves(v, c) PROVE PicInv'
  <2>1. isr' = isr /\ irr' = irr
    BY <1>6 DEF CallbackRemoves
  <2> QED BY <1>0, <1>6, <2>1, RemovesHandled, HandledType, OtherPic DEF Handling
<1>7. CASE UNCHANGED vars
  <2>1. h' = h /\ isr' = isr /\ irr' = irr
    BY <1>7 DEF vars
  <2> QED BY <1>0, <2>1, OtherPic DEF Handling
<1> QED BY <1>1, <1>2, <1>3, <1>4, <1>5, <1>6, <1>7, AcceptPic, LeavePic, FaultPic
     DEF Next, Handler

-----------------------------------------------------------------------------
RestInv == /\ mem \in Memories /\ free \subseteq Buffers /\ lent \in [Buffers -> Hooked \cup {None}]
           /\ asked \in 0..MaxAsked /\ wild \in BOOLEAN

IInv == ListInv /\ HType /\ PicInv /\ RestInv

LEMMA InitIInv == Init => IInv
<1> SUFFICES ASSUME Init PROVE IInv
  OBVIOUS
<1> USE DEF Init
<1>1. ListInv
  <2>1. OpType
    BY IdleType DEF OpType
  <2>2. ListType
    BY DEF ListType
  <2>3. \A f \in Flows : op[f] = Idle
    OBVIOUS
  <2>4. op["isr"].pc = "idle"
    BY DEF Flows, Idle
  <2> QED BY <2>1, <2>2, <2>3, <2>4, IdleType DEF ListInv, Apart, Working
<1>2. HType /\ PicInv
  BY DEF HType, PicInv, LinesType, OnlyOwnLineInService, Serves, Handling
<1>3. RestInv
  <2>1. mem \in Memories
    BY BlankType DEF Memories
  <2>2. asked \in 0..MaxAsked
    BY InterruptsAssumption
  <2>3. lent \in [Buffers -> Hooked \cup {None}]
    OBVIOUS
  <2> QED BY <2>1, <2>2, <2>3 DEF RestInv
<1> QED BY <1>1, <1>2, <1>3 DEF IInv

LEMMA NextRest ==
  ASSUME ListInv, RestInv, [Next]_vars
  PROVE  RestInv'
<1>1. mem' \in Memories
  BY NextMemType DEF RestInv
<1>2. free' \subseteq Buffers
  <2>1. ASSUME NEW f \in Flows, ExpandMoves(f) PROVE free' \subseteq Buffers
    <3>1. Own(f).buf \in Buffers \cup {None}
      BY <2>1, Begun, VectorType DEF ExpandMoves, At, IsFull, IsList
    <3> QED BY <2>1, <3>1 DEF ExpandMoves, RestInv
  <2>2. ASSUME NEW f \in Flows, Routine(f) PROVE free' \subseteq Buffers
    BY <2>1, <2>2
       DEF RestInv, Routine, HeapTakes, NewVector, NewFails, ExpandInPlace, ExpandFails, Grow,
           CountElement, StoreElement, RemoveEnds, CheckOther, RemoveBegins, TearCell,
           CopyCell, UncountElement, Lists
  <2>3. CASE free' = free
    BY <2>3 DEF RestInv
  <2> QED BY <2>2, <2>3
       DEF Next, Handler, CallNext, Leave, Accept, Fault, Request, MainAdds, MainRemoves,
           CallbackAdds, CallbackRemoves, CallAdd, CallRemove, Lists, vars
<1>3. asked' \in 0..MaxAsked
  <2>1. MaxAsked \in Nat /\ asked \in 0..MaxAsked
    BY InterruptsAssumption DEF RestInv
  <2>2. asked' = asked \/ (asked < MaxAsked /\ asked' = asked + 1)
    BY DEF Next, Handler, CallNext, Leave, Accept, Fault, Request, MainAdds, MainRemoves,
           CallbackAdds, CallbackRemoves, Changes, Pic, vars, Routine, HeapTakes, NewVector, NewFails,
           ExpandInPlace, ExpandMoves, ExpandFails, Grow, CountElement, StoreElement,
           RemoveEnds, CheckOther, RemoveBegins, TearCell, CopyCell, UncountElement
  <2> QED BY <2>1, <2>2
<1>4. wild' \in BOOLEAN
  <2>1. wild' = wild \/ wild' = TRUE
    BY DEF Next, Handler, CallNext, Leave, Accept, Fault, Request, MainAdds, MainRemoves,
           CallbackAdds, CallbackRemoves, vars, Routine, HeapTakes, NewVector, NewFails,
           ExpandInPlace, ExpandMoves, ExpandFails, Grow, CountElement, StoreElement,
           RemoveEnds, CheckOther, RemoveBegins, TearCell, CopyCell, UncountElement
  <2> QED BY <2>1 DEF RestInv
<1>5. lent' \in [Buffers -> Hooked \cup {None}]
  <2>1. ASSUME NEW f \in Flows, NEW b, op[f].pc # "idle", lent' = [lent EXCEPT ![b] = op[f].v]
        PROVE  lent' \in [Buffers -> Hooked \cup {None}]
    BY <2>1, Begun DEF RestInv
  <2>2. ASSUME NEW f \in Flows, NewVector(f) \/ ExpandMoves(f)
        PROVE  lent' = lent \/ \E b : lent' = [lent EXCEPT ![b] = op[f].v]
    BY <2>2 DEF NewVector, ExpandMoves
  <2>7. ASSUME NEW f \in Flows, Grow(f) \/ HeapTakes(f)
        PROVE  lent' \in [Buffers -> Hooked \cup {None}]
    BY <2>7 DEF Grow, HeapTakes, RestInv
  <2>3. ASSUME NEW f \in Flows, Routine(f), ~ (Grow(f) \/ HeapTakes(f))
        PROVE  lent' = lent \/ \E b : lent' = [lent EXCEPT ![b] = op[f].v]
    BY <2>2, <2>3
       DEF Routine, NewFails, ExpandInPlace, ExpandFails,
           CountElement, StoreElement, RemoveEnds, CheckOther, RemoveBegins, TearCell,
           CopyCell, UncountElement, Lists
  <2>4. ASSUME NEW f \in Flows, Routine(f) PROVE op[f].pc # "idle"
    BY <2>4
       DEF Routine, HeapTakes, NewVector, NewFails, ExpandInPlace, ExpandMoves, ExpandFails, Grow,
           CountElement, StoreElement, RemoveEnds, CheckOther, RemoveBegins, TearCell,
           CopyCell, UncountElement, At
  <2>5. CASE lent' = lent
    BY <2>5 DEF RestInv
  <2>6. ASSUME NEW f \in Flows, Routine(f) PROVE lent' \in [Buffers -> Hooked \cup {None}]
    BY <2>1, <2>3, <2>4, <2>5, <2>6, <2>7
  <2> QED BY <2>5, <2>6
       DEF Next, Handler, CallNext, Leave, Accept, Fault, Request, MainAdds, MainRemoves,
           CallbackAdds, CallbackRemoves, CallAdd, CallRemove, Lists, vars
<1> QED BY <1>1, <1>2, <1>3, <1>4, <1>5 DEF RestInv

LEMMA NextIInv == IInv /\ [Next]_vars => IInv'
<1> SUFFICES ASSUME IInv, [Next]_vars PROVE IInv'
  OBVIOUS
<1>1. ListInv' /\ HType'
  BY NextListInv, NextHType DEF IInv, RestInv
<1> QED BY <1>1, NextPic, NextRest DEF IInv

LEMMA Invariance == Spec => []IInv
  BY InitIInv, NextIInv, PTL DEF Spec

\* Whatever interrupts stop main and whatever callbacks add and remove, a list
\* counts no more than its capacity, and the capacity is one that Expand and
\* Shrink can make; the rest of the state keeps its type.
THEOREM TypeCorrect == Spec => []TypeOK
<1>1. IInv => TypeOK
  <2> SUFFICES ASSUME IInv, NEW v \in Hooked, list[v] # None
               PROVE  /\ list[v].buf \in Buffers \cup {None}
                      /\ list[v].cnt <= list[v].cap /\ list[v].cap \in 1..MaxCap
    BY DEF IInv, TypeOK, RestInv, PicInv, LinesType, Memories
  <2>1. list[v] \in Vectors /\ list[v].cnt <= list[v].cap
    BY DEF IInv, ListInv, ListType
  <2> QED BY <2>1, VectorType
<1> QED BY <1>1, Invariance, PTL

\* While an interrupt is handled only its own line is in service, but for the
\* cascade, and none afterwards: the end of interrupt InterruptHandler sends
\* never clears another line's.
THEOREM LinesAreEnded == Spec => []OnlyOwnLineInService
<1>1. IInv => OnlyOwnLineInService
  BY DEF IInv, PicInv
<1> QED BY <1>1, Invariance, PTL

-----------------------------------------------------------------------------
(***************************************************************************)
(* The registry. What RemoveCallback leaves of a sequence, element by      *)
(* element, and what a list holds while a routine is at work on it.        *)
(***************************************************************************)
\* Where the elements of s are that are not c, up to the n-th.
Others(s, c, n) == {i \in 1..n : s[i] # c}

\* The sequence of these elements, by their number among them.
Left(s, c, n) ==
    [k \in 1..Cardinality(Others(s, c, n)) |->
        s[CHOOSE i \in Others(s, c, n) : Cardinality(Others(s, c, i)) = k]]

LEMMA OthersFinite ==
  ASSUME NEW s, NEW c, NEW n \in Nat
  PROVE  IsFiniteSet(Others(s, c, n)) /\ Cardinality(Others(s, c, n)) \in Nat
<1>1. Others(s, c, n) \in SUBSET (1..n)
  BY DEF Others
<1>2. IsFiniteSet(1..n)
  BY FS_Interval
<1> QED BY <1>1, <1>2, FS_Subset, FS_CardinalityType

LEMMA OthersGrow ==
  ASSUME NEW s, NEW c, NEW n \in Nat, NEW i \in 0..n
  PROVE  Cardinality(Others(s, c, i)) <= Cardinality(Others(s, c, n))
<1>1. Others(s, c, i) \subseteq Others(s, c, n)
  BY DEF Others
<1> QED BY <1>1, OthersFinite, FS_Subset

LEMMA OneLonger ==
  ASSUME NEW N \in Nat, NEW l, NEW a,
         l = [k \in 1..N |-> l[k]], a = [k \in 1..(N + 1) |-> a[k]],
         \A k \in 1..N : a[k] = l[k]
  PROVE  a = Append(l, a[N + 1])
<1> DEFINE T == {a[k] : k \in 1..(N + 1)}
<1>1. \A k \in 1..(N + 1) : a[k] \in T
  OBVIOUS
<1>2. a \in [1..(N + 1) -> T]
  <2> HIDE DEF T
  <2> QED BY <1>1
<1>3. \A k \in 1..N : l[k] \in T
  BY <1>1
<1>4. l \in [1..N -> T]
  <2> HIDE DEF T
  <2> QED BY <1>3
<1> HIDE DEF T
<1>5. a \in Seq(T) /\ l \in Seq(T) /\ Len(l) = N /\ Len(a) = N + 1 /\ a[N + 1] \in T
  BY <1>1, <1>2, <1>4
<1> DEFINE b == Append(l, a[N + 1])
<1>6. b \in Seq(T) /\ Len(b) = N + 1 /\ b[N + 1] = a[N + 1] /\ \A k \in 1..N : b[k] = l[k]
  BY <1>5, AppendProperties
<1> HIDE DEF b
<1>7. \A k \in 1..(N + 1) : a[k] = b[k]
  <2> SUFFICES ASSUME NEW k \in 1..(N + 1) PROVE a[k] = b[k]
    OBVIOUS
  <2>1. CASE k \in 1..N
    BY <1>6, <2>1
  <2>2. CASE k = N + 1
    BY <1>6, <2>2
  <2> QED BY <2>1, <2>2
<1>8. a = b
  BY <1>5, <1>6, <1>7, SeqEqual
<1> QED BY <1>8 DEF b

LEMMA LeftStep ==
  ASSUME NEW S, NEW s \in Seq(S), NEW c, NEW n \in 0..(Len(s) - 1)
  PROVE  Left(s, c, n + 1) = IF s[n + 1] = c THEN Left(s, c, n)
                             ELSE Append(Left(s, c, n), s[n + 1])
<1> DEFINE A == Others(s, c, n)
           B == Others(s, c, n + 1)
           N == Cardinality(A)
<1>0. n \in Nat /\ n + 1 \in Nat
  OBVIOUS
<1>1. IsFiniteSet(A) /\ N \in Nat
  BY <1>0, OthersFinite
<1>2. CASE s[n + 1] = c
  <2>1. B = A
    BY <1>0, <1>2 DEF Others
  <2> HIDE DEF A, B
  <2>2. Left(s, c, n + 1) = [k \in 1..Cardinality(B) |-> s[CHOOSE i \in B : Cardinality(Others(s, c, i)) = k]]
    BY DEF Left, B
  <2>3. Left(s, c, n) = [k \in 1..Cardinality(A) |-> s[CHOOSE i \in A : Cardinality(Others(s, c, i)) = k]]
    BY DEF Left, A
  <2> QED BY <1>2, <2>1, <2>2, <2>3
<1>3. CASE s[n + 1] # c
  <2>1. B = A \cup {n + 1} /\ n + 1 \notin A
    BY <1>0, <1>3 DEF Others
  <2>2. Cardinality(B) = N + 1
    BY <1>1, <2>1, FS_AddElement
  <2>3. \A i \in A : Cardinality(Others(s, c, i)) <= N
    <3>1. \A i \in A : i \in 0..n
      BY <1>0 DEF Others
    <3> QED BY <1>0, <3>1, OthersGrow
  <2>4. \A k \in 1..N : (CHOOSE i \in B : Cardinality(Others(s, c, i)) = k)
                        = (CHOOSE i \in A : Cardinality(Others(s, c, i)) = k)
    <3> SUFFICES ASSUME NEW k \in 1..N
                 PROVE  (CHOOSE i \in B : Cardinality(Others(s, c, i)) = k)
                        = (CHOOSE i \in A : Cardinality(Others(s, c, i)) = k)
      OBVIOUS
    <3>1. \A i : (i \in B /\ Cardinality(Others(s, c, i)) = k)
                 <=> (i \in A /\ Cardinality(Others(s, c, i)) = k)
      BY <1>1, <2>1, <2>2
    <3> HIDE DEF A, B
    <3> QED BY <3>1
  <2>5. (CHOOSE i \in B : Cardinality(Others(s, c, i)) = N + 1) = n + 1
    BY <1>1, <2>1, <2>2, <2>3
  <2> HIDE DEF A, B, N
  <2>6. Left(s, c, n + 1) = [k \in 1..(N + 1) |-> s[CHOOSE i \in B : Cardinality(Others(s, c, i)) = k]]
    BY <2>2 DEF Left, B
  <2>7. Left(s, c, n) = [k \in 1..N |-> s[CHOOSE i \in A : Cardinality(Others(s, c, i)) = k]]
    BY DEF Left, A, N
  <2>8. \A k \in 1..N : Left(s, c, n + 1)[k] = Left(s, c, n)[k]
    <3> SUFFICES ASSUME NEW k \in 1..N PROVE Left(s, c, n + 1)[k] = Left(s, c, n)[k]
      OBVIOUS
    <3>1. k \in 1..(N + 1)
      BY <1>1
    <3>2. (CHOOSE i \in B : Cardinality(Others(s, c, i)) = k)
          = (CHOOSE i \in A : Cardinality(Others(s, c, i)) = k)
      BY <2>4
    <3>3. Left(s, c, n + 1)[k] = s[CHOOSE i \in B : Cardinality(Others(s, c, i)) = k]
      BY <2>6, <3>1
    <3>4. Left(s, c, n)[k] = s[CHOOSE i \in A : Cardinality(Others(s, c, i)) = k]
      BY <2>7
    <3> QED BY <3>2, <3>3, <3>4
  <2>9. Left(s, c, n + 1)[N + 1] = s[n + 1]
    <3>1. N + 1 \in 1..(N + 1)
      BY <1>1
    <3> QED BY <2>5, <2>6, <3>1
  <2>10. Left(s, c, n + 1) = Append(Left(s, c, n), s[n + 1])
    <3>1. /\ Left(s, c, n + 1) = [k \in 1..(N + 1) |-> Left(s, c, n + 1)[k]]
          /\ Left(s, c, n) = [k \in 1..N |-> Left(s, c, n)[k]]
      BY <2>6, <2>7
    <3> QED BY <1>1, <2>8, <2>9, <3>1, OneLonger
  <2> QED BY <1>3, <2>10
<1> QED BY <1>2, <1>3

LEMMA LeftNone == ASSUME NEW s, NEW c PROVE Left(s, c, 0) = << >>
<1>1. Others(s, c, 0) = {}
  BY DEF Others
<1>2. Cardinality(Others(s, c, 0)) = 0
  BY <1>1, FS_EmptySet
<1> QED BY <1>2 DEF Left

\* What Kept says of each element.
LEMMA KeptStep ==
  ASSUME NEW S, NEW s \in Seq(S), NEW c
  PROVE  /\ Kept(s, c)[0] = << >>
         /\ \A n \in 0..(Len(s) - 1) :
               Kept(s, c)[n + 1] = IF s[n + 1] = c THEN Kept(s, c)[n]
                                   ELSE Append(Kept(s, c)[n], s[n + 1])
<1> DEFINE Makes(g) == g = [n \in 0..Len(s) |-> IF n = 0 THEN << >>
                                 ELSE IF s[n] = c THEN g[n - 1]
                                 ELSE Append(g[n - 1], s[n])]
           g0 == [n \in 0..Len(s) |-> Left(s, c, n)]
<1>0. Len(s) \in Nat
  OBVIOUS
<1>1. \A n \in 0..Len(s) : g0[n] = IF n = 0 THEN << >>
                                 ELSE IF s[n] = c THEN g0[n - 1]
                                 ELSE Append(g0[n - 1], s[n])
  <2> SUFFICES ASSUME NEW n \in 0..Len(s), n # 0
               PROVE g0[n] = IF s[n] = c THEN g0[n - 1] ELSE Append(g0[n - 1], s[n])
    BY <1>0, LeftNone
  <2>1. n - 1 \in 0..(Len(s) - 1) /\ (n - 1) + 1 = n /\ n - 1 \in 0..Len(s)
    BY <1>0
  <2>2. g0[n] = Left(s, c, n) /\ g0[n - 1] = Left(s, c, n - 1)
    BY <2>1
  <2>3. Left(s, c, (n - 1) + 1) = IF s[(n - 1) + 1] = c THEN Left(s, c, n - 1)
                                  ELSE Append(Left(s, c, n - 1), s[(n - 1) + 1])
    BY <2>1, LeftStep
  <2> HIDE DEF g0
  <2> QED BY <2>1, <2>2, <2>3
<1>2. Makes(g0)
  <2>1. g0 = [n \in 0..Len(s) |-> g0[n]]
    OBVIOUS
  <2> HIDE DEF g0
  <2> QED BY <1>1, <2>1
<1>3. Kept(s, c) = CHOOSE g : Makes(g)
  BY DEF Kept
<1>4. Makes(Kept(s, c))
  <2> HIDE DEF Makes, g0
  <2> QED BY <1>2, <1>3
<1> DEFINE K == Kept(s, c)
<1> HIDE DEF K
<1>5. \A n \in 0..Len(s) : K[n] = IF n = 0 THEN << >>
                                 ELSE IF s[n] = c THEN K[n - 1]
                                 ELSE Append(K[n - 1], s[n])
  BY <1>4 DEF K
<1>6. K[0] = << >>
  BY <1>0, <1>5
<1>7. ASSUME NEW n \in 0..(Len(s) - 1)
      PROVE  K[n + 1] = IF s[n + 1] = c THEN K[n] ELSE Append(K[n], s[n + 1])
  <2>1. n + 1 \in 0..Len(s) /\ n + 1 # 0 /\ (n + 1) - 1 = n
    BY <1>0
  <2> QED BY <1>5, <2>1
<1> QED BY <1>6, <1>7 DEF K

-----------------------------------------------------------------------------
Elements(r) == {r[i] : i \in DOMAIN r}

\* The cells of m from a to b hold the elements of r that are d further on.
Lie(m, r, a, b, d) == \A k \in a..b : m[k] = r[k + d]

\* The first i cells hold what is left of the first e elements.
Passed(m, r, x, i, e) ==
    /\ Kept(r, x)[e] \in Seq(Elements(r))
    /\ Len(Kept(r, x)[e]) = i
    /\ Lie(m, Kept(r, x)[e], 0, i - 1, 1)
    /\ \A q \in 1..e : r[q] = x \/ \E k \in 0..(i - 1) : m[k] = r[q]

Whole(m, r, n) == n = Len(r) /\ Lie(m, r, 0, n - 1, 1)

\* RemoveCallback has removed d elements, and the rest lies d cells down, or one
\* more where Remove has been.
Removing(o, m, r, n, d) ==
    /\ d >= 0 /\ o.i <= n
    /\ Passed(m, r, o.c, o.i, o.i + d)
    /\ o.pc = "check" => Lie(m, r, o.i, n - 1, d + 1)
    /\ o.pc # "check" => o.i < n /\ r[o.i + d + 1] = o.c
    /\ o.pc \in {"tear", "copy"} => /\ o.i <= o.j /\ o.j < n
                                    /\ Lie(m, r, o.i, o.j - 1, d + 2)
    /\ o.pc = "tear" => Lie(m, r, o.j, n - 1, d + 1)
    /\ o.pc = "copy" => Lie(m, r, o.j + 1, n - 1, d + 1)
    /\ o.pc = "uncount" => Lie(m, r, o.i, n - 2, d + 2)

\* What a list of n elements in the cells m holds of the registered ones r when
\* routine o is at work on it.
Keeps(o, m, r, n) ==
    /\ o.pc \in {"idle", "add", "stuck", "grow"} => Whole(m, r, n)
    /\ o.pc = "store" => o.i = Len(r) /\ n = Len(r) + 1 /\ Lie(m, r, 0, o.i - 1, 1)
    /\ o.pc \in {"check", "tear", "copy", "uncount"} => Removing(o, m, r, n, Len(r) - n)

LEMMA PassedSame ==
  ASSUME NEW m, NEW m2, NEW r, NEW x, NEW i \in Nat, NEW e, Passed(m, r, x, i, e),
         \A k \in 0..(i - 1) : m2[k] = m[k]
  PROVE  Passed(m2, r, x, i, e)
  BY DEF Passed, Lie

LEMMA PassedNone ==
  ASSUME NEW S, NEW r \in Seq(S), NEW m, NEW x
  PROVE  Passed(m, r, x, 0, 0)
<1>1. Kept(r, x)[0] = << >>
  BY KeptStep
<1>2. << >> \in Seq(Elements(r)) /\ Len(<< >>) = 0
  OBVIOUS
<1>3. 0..(0 - 1) = {} /\ 1..0 = {}
  OBVIOUS
<1> QED BY <1>1, <1>2, <1>3 DEF Passed, Lie

\* The next element is another one: it is passed.
LEMMA PassedOther ==
  ASSUME NEW S, NEW r \in Seq(S), NEW m, NEW x, NEW i \in Nat, NEW e \in 0..(Len(r) - 1),
         Passed(m, r, x, i, e), m[i] = r[e + 1], r[e + 1] # x
  PROVE  Passed(m, r, x, i + 1, e + 1)
<1> DEFINE K == Kept(r, x)[e]
           L == Kept(r, x)[e + 1]
<1>1. L = Append(K, r[e + 1])
  <2>1. \A n \in 0..(Len(r) - 1) :
           Kept(r, x)[n + 1] = IF r[n + 1] = x THEN Kept(r, x)[n]
                               ELSE Append(Kept(r, x)[n], r[n + 1])
    BY KeptStep
  <2> QED BY <2>1
<1>2. r[e + 1] \in Elements(r)
  <2>1. e + 1 \in DOMAIN r
    OBVIOUS
  <2> QED BY <2>1 DEF Elements
<1>3. K \in Seq(Elements(r)) /\ Len(K) = i
  BY DEF Passed
<1> HIDE DEF K, L
<1>4. L \in Seq(Elements(r)) /\ Len(L) = i + 1 /\ L[i + 1] = r[e + 1]
      /\ \A k \in 1..i : L[k] = K[k]
  BY <1>1, <1>2, <1>3, AppendProperties
<1>5. Lie(m, L, 0, (i + 1) - 1, 1)
  <2>1. \A k \in 0..(i - 1) : m[k] = K[k + 1]
    BY DEF Passed, Lie, K
  <2>2. ASSUME NEW k \in 0..((i + 1) - 1) PROVE m[k] = L[k + 1]
    <3>1. CASE k = i
      BY <1>4, <3>1
    <3>2. CASE k \in 0..(i - 1)
      <4>1. k + 1 \in 1..i
        BY <3>2
      <4> QED BY <1>4, <2>1, <3>2, <4>1
    <3> QED BY <3>1, <3>2
  <2> QED BY <2>2 DEF Lie
<1>6. ASSUME NEW q \in 1..(e + 1), r[q] # x PROVE \E k \in 0..((i + 1) - 1) : m[k] = r[q]
  <2>1. CASE q = e + 1
    <3>1. i \in 0..((i + 1) - 1)
      OBVIOUS
    <3> QED BY <2>1, <3>1
  <2>2. CASE q \in 1..e
    <3>1. PICK k \in 0..(i - 1) : m[k] = r[q]
      BY <1>6, <2>2 DEF Passed
    <3>2. k \in 0..((i + 1) - 1)
      OBVIOUS
    <3> QED BY <3>1, <3>2
  <2> QED BY <2>1, <2>2
<1> QED BY <1>4, <1>5, <1>6 DEF Passed, L

\* The next element is the one that is removed.
LEMMA PassedRemoved ==
  ASSUME NEW S, NEW r \in Seq(S), NEW m, NEW x, NEW i \in Nat, NEW e \in 0..(Len(r) - 1),
         Passed(m, r, x, i, e), r[e + 1] = x
  PROVE  Passed(m, r, x, i, e + 1)
<1>1. Kept(r, x)[e + 1] = Kept(r, x)[e]
  BY KeptStep
<1>2. ASSUME NEW q \in 1..(e + 1), r[q] # x PROVE \E k \in 0..(i - 1) : m[k] = r[q]
  <2>1. q \in 1..e
    BY <1>2
  <2> QED BY <1>2, <2>1 DEF Passed
<1> QED BY <1>1, <1>2 DEF Passed

-----------------------------------------------------------------------------
(***************************************************************************)
(* What each step of a routine does to the cells.                          *)
(***************************************************************************)
LEMMA KeepsStored ==
  ASSUME NEW S, NEW r \in Seq(S), NEW x \in S, NEW n \in Nat, NEW o, NEW m, NEW m2,
         o.pc = "store", Keeps(o, m, r, n),
         \A k \in 0..(n - 2) : m2[k] = m[k], m2[n - 1] = x
  PROVE  Keeps(Idle, m2, Append(r, x), n)
<1>1. o.i = Len(r) /\ n = Len(r) + 1 /\ \A k \in 0..(o.i - 1) : m[k] = r[k + 1]
  BY DEF Keeps, Lie
<1>2. Len(Append(r, x)) = n /\ Append(r, x)[n] = x /\ \A k \in 1..(n - 1) : Append(r, x)[k] = r[k]
  BY <1>1, AppendProperties
<1>3. ASSUME NEW k \in 0..(n - 1) PROVE m2[k] = Append(r, x)[k + 1]
  <2>1. CASE k = n - 1
    BY <1>2, <2>1
  <2>2. CASE k \in 0..(n - 2)
    <3>1. k + 1 \in 1..(n - 1) /\ k \in 0..(o.i - 1)
      BY <1>1, <2>2
    <3> QED BY <1>1, <1>2, <2>2, <3>1
  <2>3. k = n - 1 \/ k \in 0..(n - 2)
    OBVIOUS
  <2> QED BY <2>1, <2>2, <2>3
<1>4. Idle.pc = "idle"
  BY DEF Idle
<1> QED BY <1>2, <1>3, <1>4 DEF Keeps, Whole, Lie

\* A step that only moves on between points where the list is whole.
LEMMA KeepsWhole ==
  ASSUME NEW o, NEW o2, NEW m, NEW m2, NEW r, NEW n \in Nat,
         o.pc \in {"idle", "add", "stuck", "grow"}, o2.pc \in {"idle", "add", "stuck", "grow"},
         Keeps(o, m, r, n), \A k \in 0..(n - 1) : m2[k] = m[k]
  PROVE  Keeps(o2, m2, r, n)
  BY DEF Keeps, Whole, Lie

LEMMA KeepsCounted ==
  ASSUME NEW S, NEW r \in Seq(S), NEW o, NEW o2, NEW m, NEW m2, NEW n \in Nat,
         o.pc = "add", o2.pc = "store", o2.i = n,
         Keeps(o, m, r, n), \A k \in 0..(n - 1) : m2[k] = m[k]
  PROVE  Keeps(o2, m2, r, n + 1)
<1>1. n = Len(r) /\ \A k \in 0..(n - 1) : m[k] = r[k + 1]
  BY DEF Keeps, Whole, Lie
<1> QED BY <1>1 DEF Keeps, Lie

LEMMA KeepsBeginning ==
  ASSUME NEW S, NEW r \in Seq(S), NEW o, NEW o2, NEW m, NEW n \in Nat,
         o.pc = "idle", o2.pc = "check", o2.i = 0,
         Keeps(o, m, r, n)
  PROVE  Keeps(o2, m, r, n)
<1>1. n = Len(r) /\ \A k \in 0..(n - 1) : m[k] = r[k + 1]
  BY DEF Keeps, Whole, Lie
<1>2. Len(r) - n = 0 /\ 0 <= n
  BY <1>1
<1>3. Passed(m, r, o2.c, 0, 0)
  BY PassedNone
<1>4. Removing(o2, m, r, n, 0)
  BY <1>1, <1>3 DEF Removing, Lie
<1> QED BY <1>2, <1>4 DEF Keeps

LEMMA KeepsChecked ==
  ASSUME NEW S, NEW r \in Seq(S), NEW o, NEW o2, NEW m, NEW n \in Nat,
         o.pc = "check", o2.pc = "check", o2.c = o.c, o.i \in Nat, o2.i = o.i + 1,
         o.i < n, m[o.i] # o.c,
         Keeps(o, m, r, n)
  PROVE  Keeps(o2, m, r, n)
<1> DEFINE d == Len(r) - n
<1>1. Removing(o, m, r, n, d)
  BY DEF Keeps
<1>2. d \in Nat /\ o.i + d \in 0..(Len(r) - 1) /\ d = Len(r) - n
  BY <1>1 DEF Removing
<1> HIDE DEF d
<1>3. \A k \in o.i..(n - 1) : m[k] = r[k + (d + 1)]
  BY <1>1 DEF Removing, Lie
<1>4. m[o.i] = r[(o.i + d) + 1]
  BY <1>2, <1>3
<1>5. Passed(m, r, o.c, o.i + 1, (o.i + d) + 1)
  BY <1>1, <1>2, <1>4, PassedOther DEF Removing
<1>6. Passed(m, r, o2.c, o2.i, o2.i + d)
  <2>1. o2.i + d = (o.i + d) + 1
    BY <1>2
  <2> QED BY <1>5, <2>1
<1>7. Lie(m, r, o2.i, n - 1, d + 1)
  BY <1>3 DEF Lie
<1>8. Removing(o2, m, r, n, d)
  BY <1>2, <1>6, <1>7 DEF Removing
<1> QED BY <1>2, <1>8 DEF Keeps

\* RemoveBegins: the element is found.
LEMMA KeepsFound ==
  ASSUME NEW S, NEW r \in Seq(S), NEW o, NEW o2, NEW m, NEW n \in Nat,
         o.pc = "check", o2.pc = "tear", o2.c = o.c, o.i \in Nat, o2.i = o.i, o2.j = o.i,
         o.i < n, m[o.i] = o.c,
         Keeps(o, m, r, n)
  PROVE  Keeps(o2, m, r, n)
<1> DEFINE d == Len(r) - n
<1>1. Removing(o, m, r, n, d)
  BY DEF Keeps
<1>2. d \in Nat /\ d = Len(r) - n
  BY <1>1 DEF Removing
<1> HIDE DEF d
<1>3. \A k \in o.i..(n - 1) : m[k] = r[k + (d + 1)]
  BY <1>1 DEF Removing, Lie
<1>4. r[o.i + d + 1] = o.c
  BY <1>2, <1>3
<1>5. Lie(m, r, o.i, o.i - 1, d + 2)
  BY DEF Lie
<1>6. Removing(o2, m, r, n, d)
  BY <1>1, <1>2, <1>4, <1>5 DEF Removing
<1> QED BY <1>2, <1>6 DEF Keeps

LEMMA KeepsTorn ==
  ASSUME NEW S, NEW r \in Seq(S), NEW o, NEW o2, NEW m, NEW m2, NEW n \in Nat,
         o.pc = "tear", o2.pc = "copy", o2.c = o.c, o.i \in Nat, o.j \in Nat,
         o2.i = o.i, o2.j = o.j,
         \A k \in 0..(n - 1) : k # o.j => m2[k] = m[k],
         Keeps(o, m, r, n)
  PROVE  Keeps(o2, m2, r, n)
<1> DEFINE d == Len(r) - n
<1>1. Removing(o, m, r, n, d)
  BY DEF Keeps
<1>2. d \in Nat /\ d = Len(r) - n /\ o.i <= o.j /\ o.j < n /\ o.i < n
  BY <1>1 DEF Removing
<1> HIDE DEF d
<1>3. /\ \A k \in o.i..(o.j - 1) : m[k] = r[k + (d + 2)]
      /\ \A k \in o.j..(n - 1) : m[k] = r[k + (d + 1)]
  BY <1>1 DEF Removing, Lie
<1>4. Lie(m2, r, o.i, o.j - 1, d + 2)
  <2>1. \A k \in o.i..(o.j - 1) : k \in 0..(n - 1) /\ k # o.j
    BY <1>2
  <2> QED BY <1>3, <2>1 DEF Lie
<1>5. Lie(m2, r, o.j + 1, n - 1, d + 1)
  <2>1. \A k \in (o.j + 1)..(n - 1) : k \in o.j..(n - 1) /\ k \in 0..(n - 1) /\ k # o.j
    BY <1>2
  <2>2. \A k \in (o.j + 1)..(n - 1) : m2[k] = m[k] /\ m[k] = r[k + (d + 1)]
    BY <1>3, <2>1
  <2> QED BY <2>2 DEF Lie
<1>6. Passed(m2, r, o.c, o.i, o.i + d)
  <2>1. \A k \in 0..(o.i - 1) : m2[k] = m[k]
    BY <1>2
  <2> QED BY <1>1, <2>1, PassedSame DEF Removing
<1>7. Removing(o2, m2, r, n, d)
  BY <1>1, <1>2, <1>4, <1>5, <1>6 DEF Removing
<1> QED BY <1>2, <1>7 DEF Keeps

LEMMA KeepsCopied ==
  ASSUME NEW S, NEW r \in Seq(S), NEW o, NEW o2, NEW m, NEW m2, NEW n \in Nat,
         o.pc = "copy", o2.pc = IF o.j + 1 < n THEN "tear" ELSE "uncount",
         o2.c = o.c, o.i \in Nat, o.j \in Nat,
         o2.i = o.i, o2.j = o.j + 1,
         \A k \in 0..(n - 1) : k # o.j => m2[k] = m[k],
         o.j + 1 < n => m2[o.j] = m[o.j + 1],
         Keeps(o, m, r, n)
  PROVE  Keeps(o2, m2, r, n)
<1> DEFINE d == Len(r) - n
<1>1. Removing(o, m, r, n, d)
  BY DEF Keeps
<1>2. d \in Nat /\ d = Len(r) - n /\ o.i <= o.j /\ o.j < n /\ o.i < n
  BY <1>1 DEF Removing
<1> HIDE DEF d
<1>3. /\ \A k \in o.i..(o.j - 1) : m[k] = r[k + (d + 2)]
      /\ \A k \in (o.j + 1)..(n - 1) : m[k] = r[k + (d + 1)]
  BY <1>1 DEF Removing, Lie
<1>4. Passed(m2, r, o.c, o.i, o.i + d)
  <2>1. \A k \in 0..(o.i - 1) : m2[k] = m[k]
    BY <1>2
  <2> QED BY <1>1, <2>1, PassedSame DEF Removing
<1>5. CASE o.j + 1 < n
  <2>1. m[o.j + 1] = r[o.j + (d + 2)]
    <3>1. m[o.j + 1] = r[(o.j + 1) + (d + 1)]
      <4>1. o.j + 1 \in (o.j + 1)..(n - 1)
        BY <1>5
      <4> QED BY <1>3, <4>1
    <3>2. (o.j + 1) + (d + 1) = o.j + (d + 2)
      BY <1>2
    <3> QED BY <3>1, <3>2
  <2>2. Lie(m2, r, o.i, (o.j + 1) - 1, d + 2)
    <3> SUFFICES ASSUME NEW k \in o.i..((o.j + 1) - 1) PROVE m2[k] = r[k + (d + 2)]
      BY DEF Lie
    <3>1. k = o.j \/ (k \in o.i..(o.j - 1) /\ k \in 0..(n - 1) /\ k # o.j)
      BY <1>2
    <3> QED BY <1>3, <1>5, <2>1, <3>1
  <2>3. Lie(m2, r, o.j + 1, n - 1, d + 1)
    BY <1>2, <1>3 DEF Lie
  <2>4. o2.pc = "tear"
    BY <1>5
  <2>5. o2.i <= o2.j /\ o2.j < n
    BY <1>2, <1>5
  <2>6. Removing(o2, m2, r, n, d)
    BY <1>1, <1>2, <1>4, <2>2, <2>3, <2>4, <2>5 DEF Removing
  <2> QED BY <1>2, <2>4, <2>6 DEF Keeps
<1>6. CASE ~ (o.j + 1 < n)
  <2>1. o.j - 1 = n - 2
    BY <1>2, <1>6
  <2>2. Lie(m2, r, o.i, n - 2, d + 2)
    <3> SUFFICES ASSUME NEW k \in o.i..(n - 2) PROVE m2[k] = r[k + (d + 2)]
      BY DEF Lie
    <3>1. k \in o.i..(o.j - 1) /\ k \in 0..(n - 1) /\ k # o.j
      BY <1>2, <2>1
    <3> QED BY <1>3, <3>1
  <2>3. o2.pc = "uncount"
    BY <1>6
  <2>4. Removing(o2, m2, r, n, d)
    BY <1>1, <1>2, <1>4, <2>2, <2>3 DEF Removing
  <2> QED BY <1>2, <2>3, <2>4 DEF Keeps
<1> QED BY <1>5, <1>6

LEMMA KeepsUncounted ==
  ASSUME NEW S, NEW r \in Seq(S), NEW o, NEW o2, NEW m, NEW n \in Nat,
         o.pc = "uncount", o2.pc = "check",
         o2.c = o.c, o.i \in Nat, o2.i = o.i,
         Keeps(o, m, r, n)
  PROVE  Keeps(o2, m, r, n - 1)
<1> DEFINE d == Len(r) - n
           e == o.i + d
<1>1. Removing(o, m, r, n, d)
  BY DEF Keeps
<1>2. d \in Nat /\ d = Len(r) - n /\ o.i < n
  BY <1>1 DEF Removing
<1>3. e \in 0..(Len(r) - 1) /\ e = o.i + d
  BY <1>2
<1> HIDE DEF d, e
<1>4. r[e + 1] = o.c
  BY <1>1, <1>2, <1>3 DEF Removing
<1>5. Passed(m, r, o.c, o.i, e + 1)
  BY <1>1, <1>3, <1>4, PassedRemoved DEF Removing
<1>6. Passed(m, r, o2.c, o2.i, o2.i + (d + 1))
  <2>1. o.i + (d + 1) = e + 1
    BY <1>2, <1>3
  <2> QED BY <1>5, <2>1
<1>7. Lie(m, r, o2.i, (n - 1) - 1, (d + 1) + 1)
  <2>1. Lie(m, r, o.i, n - 2, d + 2)
    BY <1>1 DEF Removing
  <2>2. (n - 1) - 1 = n - 2 /\ (d + 1) + 1 = d + 2
    BY <1>2
  <2> QED BY <2>1, <2>2
<1>8. d + 1 >= 0 /\ o2.i <= n - 1 /\ Len(r) - (n - 1) = d + 1
  BY <1>2
<1>9. Removing(o2, m, r, n - 1, d + 1)
  BY <1>6, <1>7, <1>8 DEF Removing
<1> QED BY <1>8, <1>9 DEF Keeps

\* RemoveEnds: what is left is what is registered from now on.
LEMMA KeepsEnding ==
  ASSUME NEW S, NEW r \in Seq(S), NEW o, NEW m, NEW n \in Nat,
         o.pc = "check", o.i \in Nat, ~ (o.i < n),
         Keeps(o, m, r, n)
  PROVE  Keeps(Idle, m, Without(r, o.c), n) /\ Without(r, o.c) \in Seq(S)
<1> DEFINE d == Len(r) - n
           K == Kept(r, o.c)[Len(r)]
<1>1. Removing(o, m, r, n, d)
  BY DEF Keeps
<1>2. o.i = n /\ o.i + d = Len(r)
  BY <1>1 DEF Removing
<1>3. Passed(m, r, o.c, n, Len(r))
  BY <1>1, <1>2 DEF Removing
<1>4. K \in Seq(Elements(r)) /\ Len(K) = n /\ Lie(m, K, 0, n - 1, 1)
  BY <1>3 DEF Passed
<1>5. Elements(r) \subseteq S
  BY DEF Elements
<1>6. Without(r, o.c) = K
  BY DEF Without
<1> HIDE DEF K
<1>7. Idle.pc = "idle" /\ K \in Seq(S)
  BY <1>4, <1>5 DEF Idle
<1> QED BY <1>4, <1>6, <1>7 DEF Keeps, Whole

-----------------------------------------------------------------------------
(***************************************************************************)
(* The lists and their buffers. A list lies in a buffer that the heap has  *)
(* given to it last, so that a step changes the cells of no other list.    *)
(***************************************************************************)
Size(l) == IF l = None THEN 0 ELSE l.cnt

\* The routine at work on the list of v, and the buffer that holds the list:
\* once realloc has moved it, the new one.
Doing(v) == IF op["main"].v = v THEN op["main"]
            ELSE IF op["isr"].v = v THEN op["isr"] ELSE Idle

Place(v) == IF Doing(v).pc = "grow" THEN Doing(v).buf
            ELSE IF list[v] = None THEN None ELSE list[v].buf

Held(v) == [k \in 0..(MaxCap - 1) |-> Read(Place(v), k)]

\* Without a buffer a list is empty, but for the element that is being stored.
Placed(v) ==
    /\ Place(v) # None => Place(v) \in Buffers \ free /\ lent[Place(v)] = v
    /\ Place(v) = None /\ Doing(v).pc # "store" => Size(list[v]) = 0

VecInv(v) == Placed(v) /\ Keeps(Doing(v), Held(v), registered[v], Size(list[v]))

Calls == \A f \in Flows : /\ op[f].pc = "idle" => op[f] = Idle
                          /\ op[f].pc # "idle" => op[f].c \in Callbacks[op[f].v]

Registered == /\ registered = [v \in Hooked |-> registered[v]]
              /\ \A v \in Hooked : registered[v] \in Seq(Callbacks[v])

KeepInv == Calls /\ Registered /\ \A v \in Hooked : VecInv(v)

\* What a step leaves alone that works on another list.
Untouched(w) == \A b \in Buffers : lent[b] = w /\ b \notin free =>
                   mem'[b] = mem[b] /\ lent'[b] = lent[b] /\ b \notin free'

LEMMA IdleIs == Idle.pc = "idle" /\ Idle.v = None /\ None \notin Hooked
<1>1. None \notin 0..47 /\ Hooked \subseteq 0..47
  BY InterruptsAssumption
<1> QED BY <1>1 DEF Idle

LEMMA DoingOwn ==
  ASSUME Apart, NEW f \in Flows, op[f].pc # "idle"
  PROVE  Doing(op[f].v) = op[f]
  BY DEF Doing, Apart, Flows

LEMMA SameVec ==
  ASSUME NEW w \in Hooked, VecInv(w), Doing(w)' = Doing(w), list'[w] = list[w],
         registered'[w] = registered[w], Untouched(w)
  PROVE  VecInv(w)'
<1>1. Place(w)' = Place(w)
  BY DEF Place
<1>2. Held(w)' = Held(w)
  <2> SUFFICES ASSUME NEW k \in 0..(MaxCap - 1) PROVE Read(Place(w), k)' = Read(Place(w), k)
    BY <1>1 DEF Held
  <2>1. CASE Place(w) = None
    BY <1>1, <2>1 DEF Read
  <2>2. CASE Place(w) # None
    <3>1. mem'[Place(w)] = mem[Place(w)]
      BY <2>2 DEF VecInv, Placed, Untouched
    <3> QED BY <1>1, <3>1 DEF Read
  <2> QED BY <2>1, <2>2
<1>3. Placed(w)'
  BY <1>1 DEF VecInv, Placed, Untouched
<1> QED BY <1>2, <1>3 DEF VecInv

\* A step of f on the list of v, and what it leaves alone.
LEMMA Elsewhere ==
  ASSUME OpType, NEW f \in Flows, NEW v, NEW o, OpStep(f, o), op[f].v \in {v, None}, o.v \in {v, None},
         NEW w \in Hooked \ {v}
  PROVE  Doing(w)' = Doing(w)
  BY IdleIs DEF Doing, OpStep, OpType, Flows

LEMMA DoingNow ==
  ASSUME OpType, Apart, Apart', Calls, NEW f \in Flows, NEW v \in Hooked, NEW o, OpStep(f, o),
         op[f].v = v \/ \A g \in Flows : op[g].v # v,
         o.v = v \/ o = Idle
  PROVE  Doing(v)' = o
<1>1. op'[f] = o /\ \A g \in Flows \ {f} : op'[g] = op[g]
  BY DEF OpStep, OpType
<1>2. ASSUME NEW g \in Flows \ {f} PROVE op[g].v # v
  <2>1. CASE op[f].v = v
    <3>1. op[f].pc # "idle"
      BY <2>1, IdleIs DEF Calls
    <3>2. op[g].pc = "idle" => op[g].v # v
      BY IdleIs DEF Calls
    <3> QED BY <2>1, <3>1, <3>2 DEF Apart, Flows
  <2> QED BY <2>1
<1> QED BY <1>1, <1>2, IdleIs DEF Doing, Flows

\* What a routine of f finds of its list.
LEMMA OwnFacts ==
  ASSUME ListInv, KeepInv, NEW f \in Flows, op[f].pc # "idle", NEW v, v = op[f].v
  PROVE  /\ v \in Hooked /\ Doing(v) = op[f]
         /\ op[f] \in Operations /\ op[f].i \in Nat /\ op[f].j \in Nat
         /\ op[f].c \in Callbacks[v] /\ registered[v] \in Seq(Callbacks[v])
         /\ Placed(v) /\ Keeps(op[f], Held(v), registered[v], Size(list[v]))
         /\ Size(list[v]) \in Nat /\ Size(list[v]) <= MaxCap
         /\ IsList(list[v]) /\ Finds(op[f], list[v])
<1>1. op[f] \in Operations /\ v \in Hooked /\ IsList(list[v]) /\ Finds(op[f], list[v])
  BY Begun DEF Own
<1>2. Doing(v) = op[f]
  BY DoingOwn DEF ListInv
<1>3. op[f].c \in Callbacks[v] /\ registered[v] \in Seq(Callbacks[v]) /\ VecInv(v)
  BY <1>1 DEF KeepInv, Calls, Registered
<1>4. op[f].i \in Nat /\ op[f].j \in Nat
  BY <1>1 DEF Operations
<1>5. Size(list[v]) \in Nat /\ Size(list[v]) <= MaxCap
  <2>1. CASE list[v] = None
    BY <2>1, MaxCapNat DEF Size
  <2>2. CASE list[v] # None
    <3>1. list[v].cnt \in Nat /\ list[v].cap \in 1..MaxCap /\ list[v].cnt <= list[v].cap
      BY <1>1, <2>2, VectorType DEF IsList
    <3> QED BY <2>2, <3>1, MaxCapNat DEF Size
  <2> QED BY <2>1, <2>2
<1> QED BY <1>1, <1>2, <1>3, <1>4, <1>5 DEF VecInv

LEMMA StepKeeps ==
  ASSUME ListInv, ListInv', KeepInv, NEW f \in Flows, NEW v \in Hooked, NEW o, OpStep(f, o),
         op[f].v = v \/ (op[f] = Idle /\ \A g \in Flows : op[g].v # v),
         o = Idle \/ (o.v = v /\ o.pc # "idle" /\ o.c \in Callbacks[v]),
         Registered',
         \A w \in Hooked \ {v} : list'[w] = list[w] /\ registered'[w] = registered[w] /\ Untouched(w),
         Placed(v)', Keeps(o, Held(v)', registered'[v], Size(list'[v]))
  PROVE  KeepInv'
<1>0. op'[f] = o /\ \A g \in Flows \ {f} : op'[g] = op[g]
  BY DEF OpStep, ListInv, OpType
<1>1. Calls'
  BY <1>0 DEF KeepInv, Calls, Idle
<1>2. Doing(v)' = o
  BY DoingNow DEF ListInv, KeepInv
<1>3. VecInv(v)'
  BY <1>2 DEF VecInv
<1>4. ASSUME NEW w \in Hooked \ {v} PROVE VecInv(w)'
  <2>1. Doing(w)' = Doing(w)
    <3>1. op[f].v \in {v, None} /\ o.v \in {v, None}
      BY IdleIs
    <3> QED BY <3>1, Elsewhere DEF ListInv
  <2> QED BY <2>1, SameVec DEF KeepInv
<1> QED BY <1>1, <1>3, <1>4 DEF KeepInv

\* A step that leaves the list in its buffer.
LEMMA Stays ==
  ASSUME NEW v \in Hooked, NEW o, Doing(v)' = o, Doing(v).pc # "grow", o.pc # "grow",
         \/ list'[v] = list[v]
         \/ list[v] # None /\ list'[v] # None /\ list'[v].buf = list[v].buf,
         free' = free, lent' = lent, Placed(v),
         Place(v) = None /\ o.pc # "store" => Size(list'[v]) = 0
  PROVE  Place(v)' = Place(v) /\ Placed(v)'
<1>1. Place(v)' = Place(v)
  BY DEF Place
<1> QED BY <1>1 DEF Placed

LEMMA HeldAs ==
  ASSUME NEW v, NEW k \in 0..(MaxCap - 1)
  PROVE  /\ Held(v)[k] = Read(Place(v), k)
         /\ Place(v) # None => Held(v)[k] = mem[Place(v)][k]
         /\ Place(v)' # None => Held(v)'[k] = mem'[Place(v)'][k]
  BY MaxCapNat DEF Held, Read

LEMMA UntouchedAll ==
  ASSUME NEW w, mem' = mem, lent' = lent, free' = free
  PROVE  Untouched(w)
  BY DEF Untouched

\* Steps that change no buffer, and no list but for its count and capacity.
LEMMA QuietStep ==
  ASSUME ListInv, ListInv', KeepInv, NEW f \in Flows, op[f].pc \notin {"idle", "grow"},
         NEW v, v = op[f].v, NEW o, OpStep(f, o),
         o = Idle \/ (o.v = v /\ o.pc \notin {"idle", "grow"} /\ o.c \in Callbacks[v]),
         Registered',
         \/ list' = list
         \/ \E l : list[v] # None /\ l # None /\ l.buf = list[v].buf /\ list' = [list EXCEPT ![v] = l],
         \A w \in Hooked \ {v} : registered'[w] = registered[w],
         mem' = mem, free' = free, lent' = lent,
         Place(v) = None /\ o.pc # "store" => Size(list'[v]) = 0,
         Held(v)' = Held(v) => Keeps(o, Held(v), registered'[v], Size(list'[v]))
  PROVE  KeepInv'
<1>1. v \in Hooked /\ Doing(v) = op[f] /\ Placed(v)
  BY OwnFacts
<1>2. Doing(v)' = o
  BY <1>1, DoingNow DEF ListInv, KeepInv
<1>3. o.pc # "grow"
  BY IdleIs
<1>4. /\ \/ list'[v] = list[v]
         \/ list[v] # None /\ list'[v] # None /\ list'[v].buf = list[v].buf
      /\ \A w \in Hooked \ {v} : list'[w] = list[w]
  BY <1>1 DEF ListInv, ListType
<1>5. Place(v)' = Place(v) /\ Placed(v)'
  BY <1>1, <1>2, <1>3, <1>4, Stays
<1>6. Held(v)' = Held(v)
  BY <1>5 DEF Held, Read
<1> QED BY <1>1, <1>4, <1>5, <1>6, UntouchedAll, StepKeeps, IdleIs

LEMMA RegisteredSame == ASSUME KeepInv, registered' = registered PROVE Registered'
  BY DEF KeepInv, Registered

LEMMA RegisteredNew ==
  ASSUME KeepInv, NEW v \in Hooked, NEW r \in Seq(Callbacks[v]),
         registered' = [registered EXCEPT ![v] = r]
  PROVE  Registered' /\ registered'[v] = r /\ \A w \in Hooked \ {v} : registered'[w] = registered[w]
<1>1. registered'[v] = r /\ \A w \in Hooked \ {v} : registered'[w] = registered[w]
  BY DEF KeepInv, Registered
<1>2. registered' = [w \in Hooked |-> registered'[w]]
  BY DEF KeepInv, Registered
<1> QED BY <1>1, <1>2 DEF KeepInv, Registered

\* Steps of AddCallback that move no element.
LEMMA AddQuiet ==
  ASSUME ListInv, ListInv', KeepInv, NEW f \in Flows,
         NewFails(f) \/ ExpandFails(f) \/ CountElement(f)
  PROVE  KeepInv'
<1> DEFINE v == op[f].v
<1>0. op[f].pc = "add" /\ registered' = registered /\ mem' = mem /\ free' = free /\ lent' = lent
  BY DEF NewFails, ExpandFails, CountElement, At, Lists
<1>1. /\ v \in Hooked /\ op[f] \in Operations /\ op[f].c \in Callbacks[v]
      /\ Keeps(op[f], Held(v), registered[v], Size(list[v])) /\ Size(list[v]) \in Nat
      /\ registered[v] \in Seq(Callbacks[v]) /\ Placed(v) /\ Doing(v) = op[f]
      /\ IsList(list[v])
  BY <1>0, OwnFacts
<1> HIDE DEF v
<1>2. v = op[f].v
  BY DEF v
<1>3. Registered' /\ \A w \in Hooked \ {v} : registered'[w] = registered[w]
  BY <1>0, RegisteredSame
<1>4. Place(v) = None => Size(list[v]) = 0
  BY <1>0, <1>1 DEF Placed
<1>5. CASE NewFails(f)
  <2> DEFINE o == [op[f] EXCEPT !.pc = "stuck"]
  <2>1. o.pc = "stuck" /\ o.v = v /\ o.c = op[f].c /\ OpStep(f, o) /\ list' = list
    BY <1>1, <1>2, <1>5, OpWithPc DEF NewFails, Goto, OpStep, Lists, PCs
  <2> HIDE DEF o
  <2>2. Keeps(o, Held(v), registered'[v], Size(list'[v]))
    BY <1>0, <1>1, <2>1, KeepsWhole
  <2> QED BY <1>0, <1>1, <1>2, <1>3, <1>4, <2>1, <2>2, QuietStep
<1>6. CASE ExpandFails(f)
  <2>1. OpStep(f, Idle) /\ list' = list
    BY <1>6 DEF ExpandFails, Ends, OpStep, Lists
  <2>2. Keeps(Idle, Held(v), registered'[v], Size(list'[v]))
    BY <1>0, <1>1, <2>1, KeepsWhole, IdleIs
  <2> QED BY <1>0, <1>1, <1>2, <1>3, <1>4, <2>1, <2>2, QuietStep
<1>7. CASE CountElement(f)
  <2> DEFINE o == [op[f] EXCEPT !.pc = "store", !.i = Own(f).cnt]
             l == [list[v] EXCEPT !.cnt = @ + 1]
  <2>1. /\ o.pc = "store" /\ o.v = v /\ o.c = op[f].c /\ OpStep(f, o)
        /\ o.i = list[v].cnt
        /\ list[v] # None
    BY <1>1, <1>2, <1>7 DEF CountElement, OpStep, Operations, Own
  <2>2. list' = [list EXCEPT ![v] = l]
    BY <1>2, <1>7 DEF CountElement
  <2>3. l \in Vectors /\ l # None /\ l.buf = list[v].buf /\ l.cnt = list[v].cnt + 1 /\ list[v] \in Vectors
    <3>1. list[v] \in Vectors /\ list[v].cnt \in Nat
      BY <1>1, <2>1, VectorType DEF IsList
    <3>2. l \in Vectors
      BY <3>1 DEF Vectors
    <3> QED BY <3>1, <3>2, VectorType DEF Vectors
  <2> HIDE DEF o, l
  <2>4. list'[v] = l
    BY <1>1, <2>2 DEF ListInv, ListType
  <2>5. Size(list'[v]) = Size(list[v]) + 1 /\ o.i = Size(list[v])
    BY <2>1, <2>3, <2>4 DEF Size
  <2>6. Keeps(o, Held(v), registered'[v], Size(list'[v]))
    BY <1>0, <1>1, <2>1, <2>5, KeepsCounted
  <2> QED BY <1>0, <1>1, <1>2, <1>3, <2>1, <2>2, <2>3, <2>6, QuietStep
<1> QED BY <1>5, <1>6, <1>7

\* Steps of RemoveCallback that move no element.
LEMMA RemoveQuiet ==
  ASSUME ListInv, ListInv', KeepInv, NEW f \in Flows,
         RemoveEnds(f) \/ CheckOther(f) \/ RemoveBegins(f) \/ UncountElement(f)
  PROVE  KeepInv'
<1> DEFINE v == op[f].v
<1>0. op[f].pc \in {"check", "uncount"} /\ mem' = mem /\ free' = free /\ lent' = lent
  BY DEF RemoveEnds, CheckOther, RemoveBegins, UncountElement, At, Lists
<1>1. /\ v \in Hooked /\ op[f] \in Operations /\ op[f].c \in Callbacks[v] /\ op[f].i \in Nat
      /\ Keeps(op[f], Held(v), registered[v], Size(list[v])) /\ Size(list[v]) \in Nat
      /\ registered[v] \in Seq(Callbacks[v]) /\ Placed(v) /\ Doing(v) = op[f]
      /\ IsList(list[v]) /\ Size(list[v]) <= MaxCap
  BY <1>0, OwnFacts
<1> HIDE DEF v
<1>2. v = op[f].v /\ Own(f) = list[v]
  BY DEF v, Own
<1>3. registered' = registered =>
          Registered' /\ \A w \in Hooked \ {v} : registered'[w] = registered[w]
  BY RegisteredSame
<1>4. Place(v) = None => Size(list[v]) = 0
  BY <1>0, <1>1 DEF Placed
<1>5. Inside(f) <=> op[f].i < Size(list[v])
  BY <1>1, <1>2 DEF Inside, Size
<1>6. op[f].i < Size(list[v]) => /\ list[v] # None /\ list[v] \in Vectors
                                 /\ list[v].cnt = Size(list[v])
                                 /\ list[v].buf = Place(v) /\ Place(v) # None
                                 /\ op[f].i \in 0..(MaxCap - 1)
                                 /\ Read(list[v].buf, op[f].i) = Held(v)[op[f].i]
  <2> SUFFICES ASSUME op[f].i < Size(list[v])
               PROVE  /\ list[v] # None /\ list[v] \in Vectors
                      /\ list[v].cnt = Size(list[v])
                      /\ list[v].buf = Place(v) /\ Place(v) # None
                      /\ op[f].i \in 0..(MaxCap - 1)
                      /\ Read(list[v].buf, op[f].i) = Held(v)[op[f].i]
    OBVIOUS
  <2>1. list[v] # None /\ list[v] \in Vectors
    BY <1>1 DEF Size, IsList
  <2>2. list[v].cnt = Size(list[v]) /\ list[v].buf = Place(v)
    BY <1>0, <1>1, <2>1 DEF Size, Place
  <2>3. Place(v) # None
    BY <1>1, <1>4
  <2>4. op[f].i \in 0..(MaxCap - 1)
    BY <1>1, MaxCapNat
  <2> QED BY <2>1, <2>2, <2>3, <2>4, HeldAs
<1>7. CASE RemoveEnds(f)
  <2> DEFINE r == Without(registered[v], op[f].c)
  <2>1. OpStep(f, Idle) /\ list' = list /\ registered' = [registered EXCEPT ![v] = r]
        /\ op[f].pc = "check" /\ ~ (op[f].i < Size(list[v]))
    BY <1>2, <1>5, <1>7 DEF RemoveEnds, Ends, OpStep, Lists, At
  <2>2. Keeps(Idle, Held(v), r, Size(list[v])) /\ r \in Seq(Callbacks[v])
    BY <1>1, <2>1, KeepsEnding
  <2> HIDE DEF r
  <2>3. Registered' /\ registered'[v] = r /\ \A w \in Hooked \ {v} : registered'[w] = registered[w]
    BY <1>1, <2>1, <2>2, RegisteredNew
  <2> QED BY <1>0, <1>1, <1>2, <1>4, <2>1, <2>2, <2>3, QuietStep
<1>8. CASE CheckOther(f)
  <2> DEFINE o == [op[f] EXCEPT !.i = @ + 1]
  <2>1. /\ OpStep(f, o) /\ list' = list /\ registered' = registered
        /\ op[f].pc = "check" /\ op[f].i < Size(list[v])
        /\ Read(list[v].buf, op[f].i) # op[f].c
    BY <1>2, <1>5, <1>8 DEF CheckOther, OpStep, Lists, At, Found
  <2>2. o.pc = "check" /\ o.v = v /\ o.c = op[f].c /\ o.i = op[f].i + 1
    BY <1>1, <1>2, <2>1 DEF Operations
  <2> HIDE DEF o
  <2>3. Keeps(o, Held(v), registered'[v], Size(list'[v]))
    BY <1>1, <1>6, <2>1, <2>2, KeepsChecked
  <2> QED BY <1>0, <1>1, <1>2, <1>3, <1>4, <2>1, <2>2, <2>3, QuietStep
<1>9. CASE RemoveBegins(f)
  <2> DEFINE o == [op[f] EXCEPT !.pc = "tear", !.j = op[f].i]
             l == [list[v] EXCEPT !.cap = Shrunk(Own(f))]
  <2>1. /\ OpStep(f, o) /\ list' = [list EXCEPT ![v] = l] /\ registered' = registered
        /\ op[f].pc = "check" /\ op[f].i < Size(list[v])
        /\ Read(list[v].buf, op[f].i) = op[f].c
    BY <1>2, <1>5, <1>9 DEF RemoveBegins, OpStep, At, Found
  <2>2. o.pc = "tear" /\ o.v = v /\ o.c = op[f].c /\ o.i = op[f].i /\ o.j = op[f].i
    BY <1>1, <1>2 DEF Operations
  <2>3. list'[v] = l /\ l.cnt = list[v].cnt /\ l.buf = list[v].buf
    BY <1>1, <1>6, <2>1 DEF ListInv, ListType, Vectors
  <2> HIDE DEF o, l
  <2>4. l # None
    <3>1. l \in [buf : Buffers \cup {None}, cap : Nat, cnt : Nat]
      <4>1. list' \in [Hooked -> {None} \cup Vectors]
        BY DEF ListInv, ListType
      <4>2. l \in {None} \cup Vectors
        BY <1>1, <2>3, <4>1
      <4>3. Shrunk(Own(f)) \in Nat
        <5>1. list[v].cap \in 1..MaxCap
          BY <1>6, <2>1, VectorType
        <5> QED BY <1>2, <5>1, MaxCapNat DEF Shrunk
      <4> QED BY <1>6, <2>1, <4>3, MaxCapNat DEF l, Vectors
    <3> QED BY <3>1, InterruptsAssumption
  <2>5. Size(list'[v]) = Size(list[v])
    BY <1>6, <2>1, <2>3, <2>4 DEF Size
  <2>6. Keeps(o, Held(v), registered'[v], Size(list'[v]))
    BY <1>1, <1>6, <2>1, <2>2, <2>5, KeepsFound
  <2> QED BY <1>0, <1>1, <1>2, <1>3, <1>4, <1>6, <2>1, <2>2, <2>3, <2>4, <2>5, <2>6, QuietStep
<1>10. CASE UncountElement(f)
  <2> DEFINE o == [op[f] EXCEPT !.pc = "check"]
             l == [list[v] EXCEPT !.cnt = @ - 1]
  <2>1. /\ OpStep(f, o) /\ list' = [list EXCEPT ![v] = l] /\ registered' = registered
        /\ op[f].pc = "uncount"
    BY <1>2, <1>10 DEF UncountElement, OpStep, At, Goto
  <2>2. o.pc = "check" /\ o.v = v /\ o.c = op[f].c /\ o.i = op[f].i
    BY <1>1, <1>2 DEF Operations
  <2>3. op[f].i < Size(list[v])
    BY <1>1, <2>1 DEF Keeps, Removing
  <2>4. list'[v] = l /\ l.cnt = list[v].cnt - 1 /\ l.buf = list[v].buf
    BY <1>1, <1>6, <2>1, <2>3 DEF ListInv, ListType, Vectors
  <2>5. l # None
    <3>1. l \in Vectors
      <4>1. list[v].cnt \in Nat /\ list[v].cnt > 0
        BY <1>1, <1>6, <2>3
      <4> QED BY <1>6, <2>3, <4>1 DEF Vectors
    <3> QED BY <3>1, VectorType
  <2> HIDE DEF o, l
  <2>6. Size(list'[v]) = Size(list[v]) - 1
    BY <1>6, <2>3, <2>4, <2>5 DEF Size
  <2>7. Keeps(o, Held(v), registered'[v], Size(list'[v]))
    BY <1>1, <2>1, <2>2, <2>6, KeepsUncounted
  <2> QED BY <1>0, <1>1, <1>2, <1>3, <1>6, <2>1, <2>2, <2>3, <2>4, <2>5, <2>7, QuietStep
<1> QED BY <1>7, <1>8, <1>9, <1>10

\* A buffer from the heap, and what lies in another one, is no list's.
LEMMA GivenIsFree == \A v : \A b \in Given(v) : b \in free
  BY DEF Given

LEMMA BufferType == ASSUME NEW b \in Buffers PROVE b # None
  BY InterruptsAssumption

LEMMA NewVectorKeeps ==
  ASSUME ListInv, ListInv', KeepInv, RestInv, NEW f \in Flows, NewVector(f)
  PROVE  KeepInv'
<1>v. PICK v : v = op[f].v
  OBVIOUS
<1>0. op[f].pc = "add" /\ registered' = registered /\ op' = op /\ list[v] = None
  BY <1>v DEF NewVector, At
<1>1. /\ v \in Hooked /\ op[f] \in Operations /\ op[f].c \in Callbacks[v]
      /\ Keeps(op[f], Held(v), registered[v], Size(list[v]))
      /\ Doing(v) = op[f]
  BY <1>0, <1>v, OwnFacts
<1>2. v = op[f].v
  BY <1>v
<1>3. Registered' /\ \A w \in Hooked \ {v} : registered'[w] = registered[w]
  BY <1>0, RegisteredSame
<1>4. OpStep(f, op[f])
  BY <1>0 DEF OpStep, ListInv, OpType
<1>5. PICK b \in Buffers \cup {None} :
        /\ list' = [list EXCEPT ![v] = Vector(b, 1, 0)]
        /\ b # None => b \in free /\ b \notin free' /\ lent' = [lent EXCEPT ![b] = v]
        /\ b = None => free' = free /\ lent' = lent /\ mem' = mem
        /\ \A q \in free : q # b => q \in free'
        /\ \A q \in Buffers : q # b => mem'[q] = mem[q]
        /\ \A q \in free' : q \in free
  <2>1. CASE \E b \in Given(v) :
            /\ list' = [list EXCEPT ![v] = Vector(b, 1, 0)]
            /\ mem' = [mem EXCEPT ![b] = [i \in 0..(MaxCap - 1) |->
                                             IF i = 0 THEN Zero ELSE Junk]]
            /\ free' = free \ {b}
            /\ lent' = [lent EXCEPT ![b] = v]
    <3>1. PICK b \in Given(v) :
            /\ list' = [list EXCEPT ![v] = Vector(b, 1, 0)]
            /\ \E y : mem' = [mem EXCEPT ![b] = y]
            /\ free' = free \ {b}
            /\ lent' = [lent EXCEPT ![b] = v]
      BY <2>1
    <3>2. b \in Buffers /\ b \in free /\ b # None
      BY GivenIsFree, BufferType DEF RestInv
    <3>3. \A q \in Buffers : q # b => mem'[q] = mem[q]
      BY <3>1, <3>2 DEF RestInv, Memories
    <3> QED BY <3>1, <3>2, <3>3
  <2>2. CASE list' = [list EXCEPT ![v] = Vector(None, 1, 0)] /\ UNCHANGED <<mem, free, lent>>
    BY <2>2
  <2> QED BY <1>2, <2>1, <2>2 DEF NewVector
<1>6. list'[v] = Vector(b, 1, 0) /\ \A w \in Hooked \ {v} : list'[w] = list[w]
  BY <1>1, <1>5 DEF ListInv, ListType
<1>7. ASSUME NEW w \in Hooked \ {v} PROVE Untouched(w)
  BY <1>5 DEF Untouched, RestInv
<1>8. Vector(b, 1, 0) # None /\ Vector(b, 1, 0).buf = b /\ Vector(b, 1, 0).cnt = 0
  BY InterruptsAssumption DEF Vector
<1>9. Doing(v)' = op[f]
  BY <1>1, <1>2, <1>4, DoingNow DEF ListInv, KeepInv
<1>10. Place(v)' = b /\ Size(list'[v]) = 0
  BY <1>0, <1>6, <1>8, <1>9 DEF Place, Size
<1>11. Placed(v)'
  BY <1>1, <1>5, <1>10 DEF Placed, RestInv
<1>12. Keeps(op[f], Held(v)', registered'[v], Size(list'[v]))
  <2>1. Size(list[v]) = 0
    BY <1>0 DEF Size
  <2> QED BY <1>0, <1>1, <1>10, <2>1, KeepsWhole
<1> QED BY <1>0, <1>1, <1>2, <1>3, <1>4, <1>6, <1>7, <1>11, <1>12, StepKeeps

LEMMA ExpandKeeps ==
  ASSUME ListInv, ListInv', KeepInv, RestInv, NEW f \in Flows, ExpandInPlace(f) \/ ExpandMoves(f)
  PROVE  KeepInv'
<1>v. PICK v : v = op[f].v
  OBVIOUS
<1>0. op[f].pc = "add" /\ registered' = registered /\ list' = list /\ IsFull(f)
  BY DEF ExpandInPlace, ExpandMoves, At, Lists
<1>1. /\ v \in Hooked /\ op[f] \in Operations /\ op[f].c \in Callbacks[v]
      /\ Keeps(op[f], Held(v), registered[v], Size(list[v]))
      /\ Doing(v) = op[f] /\ Placed(v) /\ IsList(list[v])
  BY <1>0, <1>v, OwnFacts
<1>2. v = op[f].v /\ Own(f) = list[v]
  BY <1>v DEF Own
<1>3. Registered' /\ \A w \in Hooked \ {v} : registered'[w] = registered[w]
  BY <1>0, RegisteredSame
<1>4. /\ list[v] # None /\ list[v].cnt = list[v].cap /\ list[v] \in Vectors
      /\ Place(v) = list[v].buf /\ Size(list[v]) = list[v].cap
      /\ list[v].cap \in 1..MaxCap
  <2>1. list[v] # None /\ list[v].cnt = list[v].cap /\ list[v] \in Vectors
    BY <1>0, <1>1, <1>2 DEF IsFull, IsList
  <2>2. list[v].cap \in 1..MaxCap
    BY <2>1, VectorType
  <2> QED BY <1>0, <1>1, <2>1, <2>2, MaxCapNat DEF Place, Size
<1>5. list[v].buf \in Buffers \ free /\ lent[list[v].buf] = v /\ list[v].buf # None
  BY <1>0, <1>1, <1>4 DEF Placed
<1>6. PICK b \in Buffers :
        /\ op' = [op EXCEPT ![f].pc = "grow", ![f].buf = b]
        /\ b \notin free' /\ lent'[b] = v
        /\ \A q \in Buffers \ free : q # list[v].buf => mem'[q] = mem[q] /\ lent'[q] = lent[q] /\ q \notin free'
        /\ \A k \in 0..(list[v].cap - 1) : mem'[b][k] = mem[list[v].buf][k]
  <2>1. CASE ExpandInPlace(f)
    BY <1>2, <1>5, <2>1 DEF ExpandInPlace, Lists
  <2>2. CASE ExpandMoves(f)
    <3>1. PICK b \in Given(v) :
         /\ mem' = [mem EXCEPT ![b] = [i \in 0..(MaxCap - 1) |->
                        IF i < list[v].cap THEN Read(list[v].buf, i) ELSE Junk]]
         /\ free' = (free \cup {list[v].buf}) \ {b, None}
         /\ lent' = [lent EXCEPT ![b] = v]
         /\ op' = [op EXCEPT ![f].pc = "grow", ![f].buf = b]
      BY <1>2, <2>2 DEF ExpandMoves
    <3>2. b \in Buffers /\ b \in free
      BY GivenIsFree DEF RestInv
    <3>3. ASSUME NEW k \in 0..(list[v].cap - 1) PROVE mem'[b][k] = mem[list[v].buf][k]
      <4>1. k \in 0..(MaxCap - 1) /\ k < list[v].cap /\ ~ (k >= MaxCap)
        BY <1>4, MaxCapNat
      <4>2. mem'[b][k] = Read(list[v].buf, k)
        BY <3>1, <3>2, <4>1 DEF RestInv, Memories
      <4> QED BY <1>5, <4>1, <4>2 DEF Read
    <3>4. lent'[b] = v /\ b \notin free'
      BY <3>1, <3>2 DEF RestInv
    <3>5. ASSUME NEW q \in Buffers \ free, q # list[v].buf
          PROVE  mem'[q] = mem[q] /\ lent'[q] = lent[q] /\ q \notin free'
      BY <3>1, <3>2, <3>5 DEF RestInv, Memories
    <3> QED BY <3>1, <3>2, <3>3, <3>4, <3>5
  <2> QED BY <2>1, <2>2
<1> DEFINE o == [op[f] EXCEPT !.pc = "grow", !.buf = b]
<1>7. OpStep(f, o) /\ o.pc = "grow" /\ o.buf = b /\ o.v = v /\ o.c = op[f].c
  BY <1>1, <1>2, <1>6 DEF OpStep, Operations
<1> HIDE DEF o
<1>8. Doing(v)' = o
  BY <1>1, <1>2, <1>7, DoingNow DEF ListInv, KeepInv
<1>9. Place(v)' = b
  BY <1>7, <1>8 DEF Place
<1>10. Placed(v)'
  BY <1>6, <1>9, BufferType DEF Placed
<1>11. \A k \in 0..(Size(list[v]) - 1) : Held(v)'[k] = Held(v)[k]
  <2> SUFFICES ASSUME NEW k \in 0..(Size(list[v]) - 1) PROVE Held(v)'[k] = Held(v)[k]
    OBVIOUS
  <2>1. k \in 0..(MaxCap - 1) /\ k \in 0..(list[v].cap - 1)
    BY <1>4, MaxCapNat
  <2> QED BY <1>4, <1>5, <1>6, <1>9, <2>1, HeldAs, BufferType
<1>12. Keeps(o, Held(v)', registered'[v], Size(list'[v]))
  <2>1. Size(list[v]) \in Nat
    BY <1>4
  <2> QED BY <1>0, <1>1, <1>7, <1>11, <2>1, KeepsWhole
<1>13. ASSUME NEW w \in Hooked \ {v} PROVE Untouched(w)
  BY <1>5, <1>6 DEF Untouched
<1> QED BY <1>0, <1>1, <1>2, <1>3, <1>7, <1>10, <1>12, <1>13, StepKeeps

LEMMA GrowKeeps ==
  ASSUME ListInv, ListInv', KeepInv, RestInv, NEW f \in Flows, Grow(f)
  PROVE  KeepInv'
<1>v. PICK v : v = op[f].v
  OBVIOUS
<1>b. PICK b : b = op[f].buf
  OBVIOUS
<1>0. op[f].pc = "grow" /\ registered' = registered /\ free' = free
  BY DEF Grow, At
<1>l. \A q \in Buffers \ free : lent'[q] = lent[q]
  BY DEF Grow, Forgotten
<1>1. /\ v \in Hooked /\ op[f] \in Operations /\ op[f].c \in Callbacks[v]
      /\ Keeps(op[f], Held(v), registered[v], Size(list[v]))
      /\ Doing(v) = op[f] /\ Placed(v) /\ IsList(list[v])
      /\ Size(list[v]) \in Nat /\ Size(list[v]) <= MaxCap
      /\ Finds(op[f], list[v])
  BY <1>0, <1>v, OwnFacts
<1>2. v = op[f].v /\ Own(f) = list[v] /\ b = op[f].buf
  BY <1>v, <1>b DEF Own
<1>3. Registered' /\ \A w \in Hooked \ {v} : registered'[w] = registered[w]
  BY <1>0, RegisteredSame
<1>4. list[v] # None /\ Size(list[v]) = list[v].cnt /\ list[v].cnt > 0
  <2>1. list[v] # None /\ list[v].cnt = list[v].cap /\ list[v] \in Vectors
    BY <1>0, <1>1 DEF Finds, IsList
  <2>2. list[v].cap > 0
    BY <2>1, VectorType, MaxCapNat
  <2> QED BY <2>1, <2>2 DEF Size
<1>5. b = Place(v) /\ b # None /\ b \in Buffers \ free /\ lent[b] = v
  <2>1. b = Place(v)
    BY <1>0, <1>1, <1>2 DEF Place
  <2> QED BY <1>0, <1>1, <1>4, <2>1 DEF Placed
<1> DEFINE l == Vector(b, 2 * list[v].cap, list[v].cnt)
           o == [op[f] EXCEPT !.pc = "add"]
           m == [mem EXCEPT ![b] = [i \in 0..(MaxCap - 1) |->
                   IF i \in list[v].cnt..(2 * list[v].cap - 1) THEN Zero ELSE @[i]]]
<1>6. list' = [list EXCEPT ![v] = l] /\ OpStep(f, o) /\ mem' = Known(m, Reads)
  BY <1>2 DEF Grow, OpStep, Goto
<1>7. o.pc = "add" /\ o.v = v /\ o.c = op[f].c
  BY <1>1, <1>2, OpWithPc DEF PCs
<1>8. l.buf = b /\ l.cnt = list[v].cnt
  BY DEF Vector
<1> HIDE DEF l, o
<1>9. list'[v] = l /\ \A w \in Hooked \ {v} : list'[w] = list[w]
  BY <1>1, <1>6 DEF ListInv, ListType
<1>10. l # None
  <2>1. list'[v] \in {None} \cup Vectors
    BY <1>1 DEF ListInv, ListType
  <2>2. list[v].cap \in Nat /\ list[v].cnt \in Nat
    BY <1>1, <1>4, VectorType DEF IsList
  <2>3. l \in [buf : Buffers \cup {None}, cap : Nat, cnt : Nat]
    BY <1>5, <2>2 DEF l, Vector
  <2> QED BY <2>3, InterruptsAssumption
<1>11. \A q \in Buffers \ free : mem'[q] = m[q]
  BY <1>6 DEF Known, Forgotten
<1>12. \A q \in Buffers : q # b => m[q] = mem[q]
  BY DEF RestInv, Memories
<1>13. \A k \in 0..(list[v].cnt - 1) : k \in 0..(MaxCap - 1) => m[b][k] = mem[b][k]
  <2>1. \A k \in 0..(list[v].cnt - 1) : k \notin list[v].cnt..(2 * list[v].cap - 1)
    <3>1. list[v].cap \in Nat /\ list[v].cnt \in Nat
      BY <1>1, <1>4, VectorType DEF IsList
    <3> QED BY <3>1
  <2>2. m[b] = [i \in 0..(MaxCap - 1) |->
                   IF i \in list[v].cnt..(2 * list[v].cap - 1) THEN Zero ELSE mem[b][i]]
    BY <1>5 DEF RestInv, Memories
  <2> HIDE DEF m
  <2> QED BY <2>1, <2>2
<1> HIDE DEF m
<1>14. Doing(v)' = o
  BY <1>1, <1>2, <1>6, <1>7, DoingNow DEF ListInv, KeepInv
<1>15. Place(v)' = b
  BY <1>7, <1>8, <1>9, <1>10, <1>14 DEF Place
<1>16. Placed(v)'
  BY <1>0, <1>l, <1>5, <1>15 DEF Placed
<1>17. Size(list'[v]) = Size(list[v])
  BY <1>4, <1>8, <1>9, <1>10 DEF Size
<1>18. \A k \in 0..(Size(list[v]) - 1) : Held(v)'[k] = Held(v)[k]
  <2> SUFFICES ASSUME NEW k \in 0..(Size(list[v]) - 1) PROVE Held(v)'[k] = Held(v)[k]
    OBVIOUS
  <2>1. k \in 0..(MaxCap - 1) /\ k \in 0..(list[v].cnt - 1)
    BY <1>1, <1>4, MaxCapNat
  <2>2. mem'[b][k] = mem[b][k]
    BY <1>5, <1>11, <1>13, <2>1
  <2>3. Held(v)'[k] = mem'[b][k]
    BY <1>5, <1>15, <2>1, HeldAs
  <2>4. Held(v)[k] = mem[b][k]
    BY <1>5, <2>1, HeldAs
  <2> QED BY <2>2, <2>3, <2>4
<1>19. Keeps(o, Held(v)', registered'[v], Size(list'[v]))
  BY <1>0, <1>1, <1>7, <1>17, <1>18, KeepsWhole
<1>20. ASSUME NEW w \in Hooked \ {v} PROVE Untouched(w)
  BY <1>0, <1>l, <1>5, <1>11, <1>12 DEF Untouched
<1> QED BY <1>0, <1>1, <1>2, <1>3, <1>6, <1>7, <1>9, <1>16, <1>19, <1>20, StepKeeps

\* The buffer that the heap takes is in no list.
LEMMA HeapTakesKeeps ==
  ASSUME KeepInv, RestInv, NEW f \in Flows, HeapTakes(f)
  PROVE  KeepInv'
<1>1. /\ op' = op /\ list' = list /\ registered' = registered
      /\ h.buf \in free /\ free' = free \ {h.buf}
      /\ \A b \in Buffers : b # h.buf => mem'[b] = mem[b] /\ lent'[b] = lent[b]
  BY DEF HeapTakes, RestInv, Memories
<1>2. ASSUME NEW w \in Hooked PROVE Untouched(w)
  BY <1>1 DEF Untouched
<1>3. ASSUME NEW w \in Hooked PROVE VecInv(w)'
  <2>1. Doing(w)' = Doing(w)
    BY <1>1 DEF Doing
  <2> QED BY <1>1, <1>2, <2>1, SameVec DEF KeepInv
<1>4. Calls' /\ Registered'
  BY <1>1 DEF KeepInv, Calls, Registered
<1> QED BY <1>3, <1>4 DEF KeepInv

\* A step writes the cell j of the buffer b, and with y in its cell j the list
\* holds what o finds.
WriteCell(b, j, y) == mem' = [mem EXCEPT ![b][j] = y]

Writes(o, m, j, y, r, n) ==
    \A m2 : /\ m2[j] = y
            /\ \A k \in 0..(MaxCap - 1) : k # j => m2[k] = m[k]
            => Keeps(o, m2, r, n)

\* Steps that write the cell j of the list they work on.
LEMMA WriteStep ==
  ASSUME ListInv, ListInv', KeepInv, RestInv, NEW f \in Flows, op[f].pc \notin {"idle", "grow"},
         NEW v, v = op[f].v, NEW o, OpStep(f, o),
         o = Idle \/ (o.v = v /\ o.pc \notin {"idle", "grow"} /\ o.c \in Callbacks[v]),
         Registered',
         \A w \in Hooked \ {v} : registered'[w] = registered[w],
         list' = list, free' = free, lent' = lent, Place(v) # None,
         NEW j \in 0..(MaxCap - 1), NEW y, WriteCell(Place(v), j, y),
         Writes(o, Held(v), j, y, registered'[v], Size(list[v]))
  PROVE  KeepInv'
<1>1. v \in Hooked /\ Doing(v) = op[f] /\ Placed(v)
  BY OwnFacts
<1>2. Doing(v)' = o
  BY <1>1, DoingNow DEF ListInv, KeepInv
<1>3. o.pc # "grow"
  BY IdleIs
<1>4. PICK b \in Buffers \ free : b = Place(v) /\ lent[b] = v
  BY <1>1 DEF Placed
<1>5. Place(v)' = Place(v) /\ Placed(v)'
  BY <1>1, <1>2, <1>3, Stays
<1>6. /\ \A q \in Buffers : q # b => mem'[q] = mem[q]
      /\ mem'[b][j] = y
      /\ \A k \in 0..(MaxCap - 1) : k # j => mem'[b][k] = mem[b][k]
  BY <1>4 DEF RestInv, Memories, WriteCell
<1>7. \A w \in Hooked \ {v} : Untouched(w)
  BY <1>4, <1>6 DEF Untouched
<1>8. ASSUME NEW k \in 0..(MaxCap - 1) PROVE Held(v)'[k] = mem'[b][k] /\ Held(v)[k] = mem[b][k]
  BY <1>4, <1>5, HeldAs
<1>9. /\ Held(v)'[j] = y
      /\ \A k \in 0..(MaxCap - 1) : k # j => Held(v)'[k] = Held(v)[k]
  BY <1>6, <1>8
<1>10. Keeps(o, Held(v)', registered'[v], Size(list'[v]))
  BY <1>9 DEF Writes
<1> QED BY <1>1, <1>5, <1>7, <1>10, StepKeeps, IdleIs

\* Own(f) is the list that v names, and it lies in a buffer.
LEMMA WriteFacts ==
  ASSUME ListInv, KeepInv, NEW f \in Flows, op[f].pc \in {"store", "tear", "copy"},
         op[f].pc = "store" => Own(f).buf # None, NEW v, v = op[f].v
  PROVE  /\ Own(f).buf = Place(v) /\ Place(v) # None
         /\ Own(f).cnt = Size(list[v])
         /\ op[f].i < Size(list[v])
         /\ op[f].pc # "store" => op[f].j < Size(list[v])
<1>1. /\ Doing(v) = op[f] /\ Placed(v) /\ IsList(list[v]) /\ Finds(op[f], list[v])
      /\ Keeps(op[f], Held(v), registered[v], Size(list[v])) /\ Size(list[v]) \in Nat
      /\ registered[v] \in Seq(Callbacks[v])
  BY OwnFacts
<1>2. list[v] # None /\ Own(f) = list[v] /\ list[v].cnt > 0
  BY <1>1 DEF Finds, Own
<1>3. Own(f).buf = Place(v) /\ Own(f).cnt = Size(list[v])
  BY <1>1, <1>2 DEF Place, Size
<1>4. Place(v) # None
  BY <1>1, <1>2, <1>3 DEF Placed
<1>5. op[f].i < Size(list[v])
  <2>1. CASE op[f].pc = "store"
    BY <1>1, <2>1 DEF Keeps
  <2>2. CASE op[f].pc # "store"
    BY <1>1, <2>2 DEF Keeps, Removing
  <2> QED BY <2>1, <2>2
<1>6. op[f].pc # "store" => op[f].j < Size(list[v])
  BY <1>1 DEF Keeps, Removing
<1> QED BY <1>3, <1>4, <1>5, <1>6

LEMMA StoreKeeps ==
  ASSUME ListInv, ListInv', KeepInv, RestInv, NEW f \in Flows, StoreElement(f)
  PROVE  KeepInv'
<1>v. PICK v : v = op[f].v
  OBVIOUS
<1>0. /\ op[f].pc = "store" /\ Own(f).buf # None
      /\ mem' = [mem EXCEPT ![Own(f).buf][op[f].i] = op[f].c]
      /\ registered' = [registered EXCEPT ![v] = Append(registered[v], op[f].c)]
      /\ OpStep(f, Idle) /\ list' = list /\ free' = free /\ lent' = lent
  BY <1>v DEF StoreElement, At, Ends, OpStep
<1>1. /\ v \in Hooked /\ op[f].c \in Callbacks[v] /\ op[f].i \in Nat
      /\ Keeps(op[f], Held(v), registered[v], Size(list[v]))
      /\ Size(list[v]) \in Nat /\ Size(list[v]) <= MaxCap
      /\ registered[v] \in Seq(Callbacks[v])
  BY <1>0, <1>v, OwnFacts
<1>2. Own(f).buf = Place(v) /\ Place(v) # None /\ op[f].i < Size(list[v])
  BY <1>0, <1>v, WriteFacts
<1>3. op[f].i = Size(list[v]) - 1 /\ op[f].i \in 0..(MaxCap - 1)
  BY <1>0, <1>1, <1>2, MaxCapNat DEF Keeps
<1>4. Append(registered[v], op[f].c) \in Seq(Callbacks[v])
  BY <1>1, AppendProperties
<1>5. Registered' /\ registered'[v] = Append(registered[v], op[f].c)
      /\ \A w \in Hooked \ {v} : registered'[w] = registered[w]
  BY <1>0, <1>1, <1>4, RegisteredNew
<1>6. ASSUME NEW m2, m2[op[f].i] = op[f].c,
             \A k \in 0..(MaxCap - 1) : k # op[f].i => m2[k] = Held(v)[k]
      PROVE  Keeps(Idle, m2, registered'[v], Size(list[v]))
  <2>1. \A k \in 0..(Size(list[v]) - 2) : k \in 0..(MaxCap - 1) /\ k # op[f].i
    BY <1>1, <1>3, MaxCapNat
  <2>2. \A k \in 0..(Size(list[v]) - 2) : m2[k] = Held(v)[k]
    BY <1>6, <2>1
  <2>3. m2[Size(list[v]) - 1] = op[f].c
    BY <1>3, <1>6
  <2> QED BY <1>0, <1>1, <1>5, <2>2, <2>3, KeepsStored
<1>7. WriteCell(Place(v), op[f].i, op[f].c)
  BY <1>0, <1>2 DEF WriteCell
<1>8. Writes(Idle, Held(v), op[f].i, op[f].c, registered'[v], Size(list[v]))
  BY <1>6 DEF Writes
<1> QED BY <1>0, <1>v, <1>2, <1>3, <1>5, <1>7, <1>8, WriteStep

LEMMA TearKeeps ==
  ASSUME ListInv, ListInv', KeepInv, RestInv, NEW f \in Flows, TearCell(f)
  PROVE  KeepInv'
<1>v. PICK v : v = op[f].v
  OBVIOUS
<1> DEFINE o == [op[f] EXCEPT !.pc = "copy"]
<1>0. /\ op[f].pc = "tear"
      /\ registered' = registered
      /\ OpStep(f, o) /\ list' = list /\ free' = free /\ lent' = lent
  BY DEF TearCell, At, Goto, OpStep
<1>1. /\ v \in Hooked /\ op[f] \in Operations /\ op[f].c \in Callbacks[v]
      /\ op[f].i \in Nat /\ op[f].j \in Nat
      /\ Keeps(op[f], Held(v), registered[v], Size(list[v]))
      /\ Size(list[v]) \in Nat /\ Size(list[v]) <= MaxCap
      /\ registered[v] \in Seq(Callbacks[v])
  BY <1>0, <1>v, OwnFacts
<1>2. Own(f).buf = Place(v) /\ Place(v) # None /\ op[f].j < Size(list[v])
  BY <1>0, <1>v, WriteFacts
<1>3. op[f].j \in 0..(MaxCap - 1)
  BY <1>1, <1>2, MaxCapNat
<1>4. PICK y : WriteCell(Place(v), op[f].j, y)
  <2>1. \E y : mem' = [mem EXCEPT ![Own(f).buf][op[f].j] = y]
    BY DEF TearCell
  <2> QED BY <1>2, <2>1 DEF WriteCell
<1>5. Registered' /\ \A w \in Hooked \ {v} : registered'[w] = registered[w]
  BY <1>0, RegisteredSame
<1>6. o.pc = "copy" /\ o.v = v /\ o.c = op[f].c /\ o.i = op[f].i /\ o.j = op[f].j
  BY <1>1, <1>v DEF Operations
<1> HIDE DEF o
<1>7. ASSUME NEW m2, m2[op[f].j] = y,
             \A k \in 0..(MaxCap - 1) : k # op[f].j => m2[k] = Held(v)[k]
      PROVE  Keeps(o, m2, registered'[v], Size(list[v]))
  <2>1. \A k \in 0..(Size(list[v]) - 1) : k \in 0..(MaxCap - 1)
    BY <1>1, MaxCapNat
  <2>2. \A k \in 0..(Size(list[v]) - 1) : k # op[f].j => m2[k] = Held(v)[k]
    BY <1>7, <2>1
  <2> QED BY <1>0, <1>1, <1>6, <2>2, KeepsTorn
<1>8. Writes(o, Held(v), op[f].j, y, registered'[v], Size(list[v]))
  BY <1>7 DEF Writes
<1> QED BY <1>0, <1>v, <1>1, <1>2, <1>3, <1>4, <1>5, <1>6, <1>8, WriteStep

LEMMA CopyKeeps ==
  ASSUME ListInv, ListInv', KeepInv, RestInv, NEW f \in Flows, CopyCell(f)
  PROVE  KeepInv'
<1>v. PICK v : v = op[f].v
  OBVIOUS
<1> DEFINE o == [op[f] EXCEPT !.j = op[f].j + 1,
                              !.pc = IF op[f].j + 1 < Own(f).cnt THEN "tear" ELSE "uncount"]
<1>0. /\ op[f].pc = "copy"
      /\ registered' = registered
      /\ OpStep(f, o) /\ list' = list /\ free' = free /\ lent' = lent
      /\ mem' = [mem EXCEPT ![Own(f).buf][op[f].j] = Read(Own(f).buf, op[f].j + 1)]
  BY DEF CopyCell, At, OpStep
<1>1. /\ v \in Hooked /\ op[f] \in Operations /\ op[f].c \in Callbacks[v]
      /\ op[f].i \in Nat /\ op[f].j \in Nat
      /\ Keeps(op[f], Held(v), registered[v], Size(list[v]))
      /\ Size(list[v]) \in Nat /\ Size(list[v]) <= MaxCap
      /\ registered[v] \in Seq(Callbacks[v])
  BY <1>0, <1>v, OwnFacts
<1>2. Own(f).buf = Place(v) /\ Place(v) # None /\ op[f].j < Size(list[v])
      /\ Own(f).cnt = Size(list[v])
  BY <1>0, <1>v, WriteFacts
<1>3. op[f].j \in 0..(MaxCap - 1)
  BY <1>1, <1>2, MaxCapNat
<1>4. PICK y : y = Read(Place(v), op[f].j + 1)
  OBVIOUS
<1>5. WriteCell(Place(v), op[f].j, y)
  BY <1>0, <1>2, <1>4 DEF WriteCell
<1>6. op[f].j + 1 < Size(list[v]) => y = Held(v)[op[f].j + 1]
  <2> SUFFICES ASSUME op[f].j + 1 < Size(list[v]) PROVE y = Held(v)[op[f].j + 1]
    OBVIOUS
  <2>1. op[f].j + 1 \in 0..(MaxCap - 1)
    BY <1>1, MaxCapNat
  <2> QED BY <1>4, <2>1, HeldAs
<1>7. Registered' /\ \A w \in Hooked \ {v} : registered'[w] = registered[w]
  BY <1>0, RegisteredSame
<1>8. /\ o.pc = IF op[f].j + 1 < Size(list[v]) THEN "tear" ELSE "uncount"
      /\ o.v = v /\ o.c = op[f].c /\ o.i = op[f].i /\ o.j = op[f].j + 1
  BY <1>1, <1>2, <1>v DEF Operations
<1> HIDE DEF o
<1>9. ASSUME NEW m2, m2[op[f].j] = y,
             \A k \in 0..(MaxCap - 1) : k # op[f].j => m2[k] = Held(v)[k]
      PROVE  Keeps(o, m2, registered'[v], Size(list[v]))
  <2>1. \A k \in 0..(Size(list[v]) - 1) : k \in 0..(MaxCap - 1)
    BY <1>1, MaxCapNat
  <2>2. \A k \in 0..(Size(list[v]) - 1) : k # op[f].j => m2[k] = Held(v)[k]
    BY <1>9, <2>1
  <2>3. op[f].j + 1 < Size(list[v]) => m2[op[f].j] = Held(v)[op[f].j + 1]
    BY <1>6, <1>9
  <2> QED BY <1>0, <1>1, <1>8, <2>2, <2>3, KeepsCopied
<1>10. o.v = v /\ o.pc \notin {"idle", "grow"} /\ o.c \in Callbacks[v]
  BY <1>1, <1>8
<1>11. Writes(o, Held(v), op[f].j, y, registered'[v], Size(list[v]))
  BY <1>9 DEF Writes
<1> QED BY <1>0, <1>v, <1>2, <1>3, <1>5, <1>7, <1>10, <1>11, WriteStep

\* AddCallback or RemoveCallback is called.
LEMMA CallKeeps ==
  ASSUME ListInv, ListInv', KeepInv, NEW f \in Flows, NEW v \in Hooked, NEW c \in Callbacks[v],
         CallAdd(f, v, c) \/ CallRemove(f, v, c),
         op[f] = Idle, \A g \in Flows : op[g].v # v
  PROVE  KeepInv'
<1>1. PICK o : /\ OpStep(f, o) /\ o.v = v /\ o.c = c /\ o.i = 0
               /\ o.pc = "add" \/ o.pc = "check"
  <2>1. CASE CallAdd(f, v, c)
    <3> DEFINE o == [Idle EXCEPT !.pc = "add", !.v = v, !.c = c]
    <3>1. OpStep(f, o) /\ o.v = v /\ o.c = c /\ o.i = 0 /\ o.pc = "add"
      BY <2>1 DEF CallAdd, OpStep, Idle
    <3> QED BY <3>1
  <2>2. CASE CallRemove(f, v, c)
    <3> DEFINE o == [Idle EXCEPT !.pc = "check", !.v = v, !.c = c]
    <3>1. OpStep(f, o) /\ o.v = v /\ o.c = c /\ o.i = 0 /\ o.pc = "check"
      BY <2>2 DEF CallRemove, OpStep, Idle
    <3> QED BY <3>1
  <2> QED BY <2>1, <2>2
<1>2. list' = list /\ mem' = mem /\ free' = free /\ lent' = lent /\ registered' = registered
  BY DEF CallAdd, CallRemove, Lists
<1>3. Doing(v) = Idle
  BY DEF Doing, Flows
<1>4. Doing(v)' = o
  BY <1>1, DoingNow DEF ListInv, KeepInv
<1>5. Placed(v) /\ Keeps(Idle, Held(v), registered[v], Size(list[v])) /\ registered[v] \in Seq(Callbacks[v])
  BY <1>3 DEF KeepInv, VecInv, Registered
<1>6. Size(list[v]) \in Nat
  <2>1. list[v] # None => list[v] \in Vectors
    BY DEF ListInv, ListType
  <2> QED BY <2>1, VectorType DEF Size
<1>7. Placed(v)' /\ Place(v)' = Place(v)
  <2>1. Place(v) = None => Size(list[v]) = 0
    BY <1>3, <1>5, IdleIs DEF Placed
  <2> QED BY <1>1, <1>2, <1>3, <1>4, <1>5, <2>1, IdleIs, Stays
<1>8. Held(v)' = Held(v)
  BY <1>2, <1>7 DEF Held, Read
<1>9. Keeps(o, Held(v), registered[v], Size(list[v]))
  <2>1. CASE o.pc = "add"
    BY <1>5, <1>6, <2>1, IdleIs, KeepsWhole
  <2>2. CASE o.pc = "check"
    BY <1>1, <1>5, <1>6, <2>2, IdleIs, KeepsBeginning
  <2> QED BY <1>1, <2>1, <2>2
<1>10. Registered'
  BY <1>2, RegisteredSame
<1>11. \A w \in Hooked \ {v} : list'[w] = list[w] /\ registered'[w] = registered[w] /\ Untouched(w)
  BY <1>2, UntouchedAll
<1>12. Keeps(o, Held(v)', registered'[v], Size(list'[v]))
  BY <1>2, <1>8, <1>9
<1>13. o.v = v /\ o.pc # "idle" /\ o.c \in Callbacks[v]
  BY <1>1
<1> QED BY <1>1, <1>7, <1>10, <1>11, <1>12, <1>13, StepKeeps

\* Steps that work on no list; Leave forgets what lies in free buffers.
LEMMA RestKeeps ==
  ASSUME KeepInv, op' = op, list' = list, registered' = registered, free' = free, lent' = lent,
         mem' = mem \/ mem' = Known(mem, None)
  PROVE  KeepInv'
<1>1. ASSUME NEW w \in Hooked PROVE Untouched(w)
  <2>1. \A b \in Buffers : b \notin free => mem'[b] = mem[b]
    BY DEF Known, Forgotten
  <2> QED BY <2>1 DEF Untouched
<1>2. ASSUME NEW w \in Hooked PROVE VecInv(w)'
  <2>1. Doing(w)' = Doing(w)
    BY DEF Doing
  <2> QED BY <1>1, <2>1, SameVec DEF KeepInv
<1>3. Calls' /\ Registered'
  BY DEF KeepInv, Calls, Registered
<1> QED BY <1>2, <1>3 DEF KeepInv

LEMMA NextKeep ==
  ASSUME IInv, IInv', KeepInv, [Next]_vars
  PROVE  KeepInv'
<1>0. ListInv /\ ListInv' /\ RestInv /\ Apart
  BY DEF IInv, ListInv
<1>1. ASSUME NEW f \in Flows, Routine(f) PROVE KeepInv'
  BY <1>0, <1>1, AddQuiet, RemoveQuiet, HeapTakesKeeps, NewVectorKeeps, ExpandKeeps, GrowKeeps, StoreKeeps,
     TearKeeps, CopyKeeps DEF Routine
<1>2. ASSUME NEW v \in Hooked, NEW c \in Callbacks[v], MainAdds(v, c) \/ MainRemoves(v, c)
      PROVE  KeepInv'
  <2>1. op["main"] = Idle /\ op["isr"] = Idle
    BY <1>0, <1>2 DEF MainAdds, MainRemoves, Runs, Apart, KeepInv, Calls, Flows
  <2>2. CallAdd("main", v, c) \/ CallRemove("main", v, c)
    BY <1>2 DEF MainAdds, MainRemoves
  <2>3. "main" \in Flows /\ \A g \in Flows : op[g].v # v
    BY <2>1, IdleIs DEF Flows
  <2> QED BY <1>0, <2>1, <2>2, <2>3, CallKeeps
<1>3. ASSUME NEW v \in Hooked, NEW c \in Callbacks[v], CallbackAdds(v, c) \/ CallbackRemoves(v, c)
      PROVE  KeepInv'
  <2>1. op["isr"] = Idle /\ op["main"].v # v
    BY <1>3 DEF CallbackAdds, CallbackRemoves, Changes, Between
  <2>2. CallAdd("isr", v, c) \/ CallRemove("isr", v, c)
    BY <1>3 DEF CallbackAdds, CallbackRemoves
  <2>3. "isr" \in Flows /\ \A g \in Flows : op[g].v # v
    BY <2>1, IdleIs DEF Flows
  <2> QED BY <1>0, <2>1, <2>2, <2>3, CallKeeps
<1>4. CASE \/ CallNext \/ Leave \/ Fault \/ (\E l \in Lines : Accept(l) \/ Request(l)) \/ UNCHANGED vars
  <2>1. /\ op' = op /\ list' = list /\ registered' = registered /\ free' = free /\ lent' = lent
        /\ mem' = mem \/ mem' = Known(mem, None)
    BY <1>4 DEF CallNext, Leave, Fault, Accept, Request, Lists, vars
  <2> QED BY <2>1, RestKeeps
<1> QED BY <1>1, <1>2, <1>3, <1>4 DEF Next, Handler

LEMMA InitKeep == Init => KeepInv
<1> SUFFICES ASSUME Init PROVE KeepInv
  OBVIOUS
<1> USE DEF Init
<1>1. Calls /\ Registered
  <2>1. Calls
    BY IdleIs DEF Calls
  <2>2. \A v \in Hooked : registered[v] = << >>
    OBVIOUS
  <2>3. \A v \in Hooked : << >> \in Seq(Callbacks[v])
    OBVIOUS
  <2> QED BY <2>1, <2>2, <2>3 DEF Registered
<1>2. ASSUME NEW v \in Hooked PROVE VecInv(v)
  <2>1. Doing(v) = Idle /\ list[v] = None /\ registered[v] = << >>
    BY DEF Doing, Flows
  <2>2. Place(v) = None /\ Size(list[v]) = 0
    BY <2>1, IdleIs DEF Place, Size
  <2>3. Keeps(Idle, Held(v), registered[v], Size(list[v]))
    BY <2>1, <2>2, IdleIs DEF Keeps, Whole, Lie
  <2> QED BY <2>1, <2>2, <2>3 DEF VecInv, Placed
<1> QED BY <1>1, <1>2 DEF KeepInv

LEMMA KeepInvariance == Spec => [](IInv /\ KeepInv)
<1>1. Init => IInv /\ KeepInv
  BY InitIInv, InitKeep
<1>2. IInv /\ KeepInv /\ [Next]_vars => (IInv /\ KeepInv)'
  BY NextIInv, NextKeep
<1> QED BY <1>1, <1>2, PTL DEF Spec

\* Whenever no routine is at work on a vector's list, it holds the callbacks that
\* were registered, in their order, and not those removed: AddCallback and
\* RemoveCallback of main and of callbacks keep it through every growth, move
\* and removal, wherever interrupts stop main.
THEOREM RegistryIsKept == Spec => []RegistryKept
<1>1. IInv /\ KeepInv => RegistryKept
  <2> SUFFICES ASSUME IInv, KeepInv, NEW v \in Hooked, \A f \in Flows : op[f].v # v
               PROVE  registered[v] = IF list[v] = None THEN << >> ELSE Content(v)
    BY DEF RegistryKept
  <2>1. Doing(v) = Idle
    BY DEF Doing, Flows
  <2>2. Whole(Held(v), registered[v], Size(list[v])) /\ registered[v] \in Seq(Callbacks[v])
    BY <2>1, IdleIs DEF KeepInv, VecInv, Keeps, Registered
  <2>3. CASE list[v] = None
    BY <2>2, <2>3 DEF Whole, Size
  <2>4. CASE list[v] # None
    <3>1. list[v].cnt \in Nat /\ list[v].cnt <= MaxCap /\ Size(list[v]) = list[v].cnt
      <4>1. list[v] \in Vectors /\ list[v].cnt <= list[v].cap
        BY <2>4 DEF IInv, ListInv, ListType
      <4>2. list[v].cap \in 1..MaxCap /\ list[v].cnt \in Nat
        BY <4>1, VectorType
      <4> QED BY <2>4, <4>1, <4>2, MaxCapNat DEF Size
    <3>2. Place(v) = list[v].buf
      BY <2>1, <2>4, IdleIs DEF Place
    <3>3. Len(registered[v]) = list[v].cnt
      BY <2>2, <3>1 DEF Whole
    <3>4. ASSUME NEW i \in 1..list[v].cnt PROVE registered[v][i] = Read(list[v].buf, i - 1)
      <4>1. i - 1 \in 0..(list[v].cnt - 1) /\ i - 1 \in 0..(MaxCap - 1) /\ (i - 1) + 1 = i
        BY <3>1, MaxCapNat
      <4>2. Held(v)[i - 1] = registered[v][(i - 1) + 1]
        BY <2>2, <3>1, <4>1 DEF Whole, Lie
      <4> QED BY <3>2, <4>1, <4>2, HeldAs
    <3>5. registered[v] = [i \in 1..list[v].cnt |-> registered[v][i]]
      BY <2>2, <3>1, <3>3
    <3> QED BY <2>4, <3>4, <3>5 DEF Content
  <2> QED BY <2>3, <2>4
<1> QED BY <1>1, KeepInvariance, PTL

-----------------------------------------------------------------------------
(***************************************************************************)
(* What the dispatch reads. It runs over the buffer that the list had when *)
(* it began; that one may be freed by a growth meanwhile, and be given to  *)
(* another list or back to this one.                                       *)
(***************************************************************************)
\* A list that is being grown has a buffer; if realloc has freed it, it still
\* holds the list until it is given away.
Stale(v) == Doing(v).pc = "grow" =>
    /\ list[v].buf # None
    /\ lent[list[v].buf] = v => Lie(mem[list[v].buf], registered[v], 0, Len(registered[v]) - 1, 1)

Running == Handling /\ ~ h.risky

\* Main was not at work on the list when the interrupt stopped it.
Alone == op["main"].v # h.v

\* The buffer has not been given to another list.
Relies == h.buf # None => lent[h.buf] = h.v

RunInv == Running =>
    /\ h.end <= MaxCap
    /\ h.end # 0 => h.buf # None /\ h.v \in Hooked /\ list[h.v] # None
    /\ op["isr"].v = h.v => op["isr"].pc \in {"idle", "add", "stuck", "grow", "store"}
    /\ Alone /\ h.end # 0 => h.end <= Len(registered[h.v])
    /\ Alone /\ h.end # 0 /\ Relies => Lie(mem[h.buf], registered[h.v], 0, h.end - 1, 1)
    /\ h.end # 0 /\ Relies =>
          \A k \in 0..(h.end - 1) : mem[h.buf][k] \in Elements(registered[h.v])

WildInv == wild => h.risky \/ (h.buf # None /\ lent[h.buf] # h.v)

\* What a cell of a buffer holds was put there for the list that has it.
CellOf(b, c) == c \in {Zero, Junk} \/ (lent[b] # None /\ c \in Callbacks[lent[b]])

OwnCells == \A b \in Buffers : \A k \in 0..(MaxCap - 1) : CellOf(b, mem[b][k])

DispatchInv == (\A v \in Hooked : Stale(v)) /\ RunInv /\ WildInv /\ OwnCells

\* Buffers that a step at the list of v must not disturb.
Watched(v, b) == \/ Handling /\ b = h.buf
                 \/ \E w \in Hooked \ {v} : list[w] # None /\ list[w].buf = b

Spares(v) == \A b \in Buffers : Watched(v, b) /\ lent'[b] \notin {v, None} =>
                mem'[b] = mem[b] /\ lent'[b] = lent[b]

LEMMA RoutineElsewhere ==
  ASSUME ListInv, KeepInv, RestInv, NEW f \in Flows, Routine(f), NEW v, v = op[f].v
  PROVE  Spares(v)
<1>0. op[f].pc # "idle"
  BY DEF Routine, HeapTakes, NewVector, NewFails, ExpandInPlace, ExpandMoves, ExpandFails, Grow, CountElement,
         StoreElement, RemoveEnds, CheckOther, RemoveBegins, TearCell, CopyCell, UncountElement, At
<1>1. v \in Hooked /\ Placed(v) /\ Doing(v) = op[f] /\ IsList(list[v]) /\ Finds(op[f], list[v])
  BY <1>0, OwnFacts
<1>2. CASE mem' = mem /\ lent' = lent
  BY <1>2 DEF Spares
<1>3. CASE NewVector(f) \/ ExpandMoves(f)
  <2>1. (mem' = mem /\ lent' = lent) \/ \E b, y : mem' = [mem EXCEPT ![b] = y] /\ lent' = [lent EXCEPT ![b] = v]
    BY <1>3 DEF NewVector, ExpandMoves
  <2>2. ASSUME NEW b, NEW y, mem' = [mem EXCEPT ![b] = y], lent' = [lent EXCEPT ![b] = v]
        PROVE  Spares(v)
    BY <2>2 DEF Spares, RestInv, Memories
  <2> QED BY <1>2, <2>1, <2>2
<1>4. CASE StoreElement(f) \/ TearCell(f) \/ CopyCell(f)
  <2>1. op[f].pc \in {"store", "tear", "copy"} /\ (op[f].pc = "store" => Own(f).buf # None)
    BY <1>4 DEF StoreElement, TearCell, CopyCell, At
  <2>2. Own(f).buf = Place(v) /\ Place(v) # None
    BY <2>1, WriteFacts
  <2>3. lent[Place(v)] = v /\ Place(v) \in Buffers
    BY <1>1, <2>2 DEF Placed
  <2>4. lent' = lent /\ \E j, y : mem' = [mem EXCEPT ![Place(v)][j] = y]
    <3>1. CASE StoreElement(f)
      BY <2>2, <3>1 DEF StoreElement
    <3>2. CASE TearCell(f)
      <4>1. lent' = lent /\ \E y : mem' = [mem EXCEPT ![Own(f).buf][op[f].j] = y]
        BY <3>2 DEF TearCell
      <4> QED BY <2>2, <4>1
    <3>3. CASE CopyCell(f)
      <4>1. lent' = lent /\ \E y : mem' = [mem EXCEPT ![Own(f).buf][op[f].j] = y]
        BY <3>3 DEF CopyCell
      <4> QED BY <2>2, <4>1
    <3> QED BY <1>4, <3>1, <3>2, <3>3
  <2>5. \A q \in Buffers : q # Place(v) => mem'[q] = mem[q]
    BY <2>4 DEF RestInv, Memories
  <2> QED BY <2>3, <2>4, <2>5 DEF Spares
<1>5. CASE Grow(f)
  <2>1. op[f].pc = "grow" /\ list[v] # None /\ list[v].cnt = list[v].cap /\ list[v] \in Vectors
    BY <1>1, <1>5 DEF Grow, At, Finds, IsList
  <2>2. Size(list[v]) # 0 /\ Place(v) = op[f].buf
    <3>1. list[v].cap # 0
      BY <2>1, VectorType, MaxCapNat
    <3> QED BY <1>1, <2>1, <3>1 DEF Size, Place
  <2>3. lent[op[f].buf] = v /\ op[f].buf \in Buffers
    BY <1>1, <2>1, <2>2 DEF Placed
  <2>4. PICK m : /\ mem' = Known(m, Reads)
                 /\ \E y : m = [mem EXCEPT ![op[f].buf] = y]
    BY <1>5 DEF Grow
  <2>5. \A q \in Buffers : q # op[f].buf => m[q] = mem[q]
    BY <2>4 DEF RestInv, Memories
  <2>6. \A w \in Hooked \ {v} : list'[w] = list[w]
    BY <1>1, <1>5 DEF Grow, ListInv, ListType
  <2>7. ASSUME NEW q \in Buffers, Watched(v, q) PROVE mem'[q] = m[q] /\ lent'[q] = lent[q]
    <3>1. ~ Forgotten(q, Reads)
      BY <2>6, <2>7 DEF Watched, Reads, Forgotten
    <3>2. lent'[q] = lent[q]
      BY <1>5, <3>1 DEF Grow
    <3> QED BY <2>4, <3>1, <3>2 DEF Known
  <2> QED BY <2>3, <2>5, <2>7 DEF Spares
<1>6. CASE HeapTakes(f)
  BY <1>6 DEF HeapTakes, Spares, RestInv, Memories
<1> QED BY <1>2, <1>3, <1>4, <1>5, <1>6
     DEF Routine, NewFails, ExpandInPlace, ExpandFails, CountElement,
         RemoveEnds, CheckOther, RemoveBegins, UncountElement, Lists

Expands(f) == ExpandInPlace(f) \/ ExpandMoves(f)

\* The routine that f goes on with, what changes at the list of v and nothing
\* at another one.
Within(f, v, o) ==
    /\ OpStep(f, o)
    /\ o = Idle \/ o.v = v
    /\ o.pc = "grow" => Expands(f)
    /\ o.pc = "check" => op[f].pc \in {"check", "uncount"}
    /\ o.pc \in {"tear", "copy", "uncount"} => op[f].pc \in {"check", "tear", "copy"}
    /\ \A w \in Hooked \ {v} : list'[w] = list[w] /\ registered'[w] = registered[w]
    /\ list[v] # None => list'[v] # None
    /\ h' = h /\ wild' = wild

LEMMA RoutineFrame ==
  ASSUME ListInv, ListInv', KeepInv, NEW f \in Flows, Routine(f), NEW v, v = op[f].v
  PROVE  v \in Hooked /\ op[f].pc # "idle" /\ Runs(f) /\ \E o : Within(f, v, o)
<1>0. op[f].pc # "idle" /\ Runs(f) /\ h' = h /\ wild' = wild
  BY DEF Routine, HeapTakes, NewVector, NewFails, ExpandInPlace, ExpandMoves, ExpandFails, Grow, CountElement,
         StoreElement, RemoveEnds, CheckOther, RemoveBegins, TearCell, CopyCell, UncountElement, At
<1>1. v \in Hooked /\ op[f] \in Operations
  BY <1>0, OwnFacts
<1>2. \A w \in Hooked \ {v} : registered'[w] = registered[w]
  <2>1. registered' = registered \/ \E r : registered' = [registered EXCEPT ![v] = r]
    BY DEF Routine, HeapTakes, NewVector, NewFails, ExpandInPlace, ExpandMoves, ExpandFails, Grow, CountElement,
         StoreElement, RemoveEnds, CheckOther, RemoveBegins, TearCell, CopyCell, UncountElement
  <2> QED BY <2>1 DEF KeepInv, Registered
<1>3. list' = list \/ \E l : list' = [list EXCEPT ![v] = l]
  <2>1. CASE CountElement(f) \/ RemoveBegins(f) \/ UncountElement(f)
    <3>1. \E l : list' = [list EXCEPT ![op[f].v] = l]
      BY <2>1 DEF CountElement, RemoveBegins, UncountElement
    <3> QED BY <3>1
  <2>2. CASE NewVector(f) \/ Grow(f)
    <3>1. \E l : list' = [list EXCEPT ![op[f].v] = l]
      BY <2>2 DEF NewVector, Grow
    <3> QED BY <3>1
  <2> QED BY <2>1, <2>2 DEF Routine, HeapTakes, NewFails, ExpandInPlace, ExpandMoves, ExpandFails,
         StoreElement, RemoveEnds, CheckOther, TearCell, CopyCell, Lists
<1>4. \A w \in Hooked \ {v} : list'[w] = list[w]
  BY <1>1, <1>3 DEF ListInv, ListType
<1>5. list[v] # None => list'[v] # None
  <2>1. ASSUME NEW l, list[v] # None, list' = [list EXCEPT ![v] = l],
               CountElement(f) \/ RemoveBegins(f) \/ UncountElement(f) \/ Grow(f)
        PROVE  list'[v] # None
    <3>1. list[v] \in Vectors /\ list[v].cnt \in Nat /\ list[v].cap \in Nat
      BY <1>1, <2>1, VectorType DEF ListInv, ListType
    <3>2. list'[v] \in [buf : Buffers \cup {None}, cap : Nat, cnt : Nat]
      <4>1. CASE CountElement(f)
        <5>1. list'[v] = [list[v] EXCEPT !.cnt = @ + 1]
          BY <1>1, <4>1 DEF CountElement, ListInv, ListType
        <5> QED BY <3>1, <5>1 DEF Vectors
      <4>2. CASE RemoveBegins(f)
        <5>1. list'[v] = [list[v] EXCEPT !.cap = Shrunk(list[v])]
          BY <1>1, <4>2 DEF RemoveBegins, ListInv, ListType, Own
        <5>2. Shrunk(list[v]) \in Nat
          <6>1. list[v].cap \in 1..MaxCap
            BY <3>1, VectorType
          <6> QED BY <6>1, MaxCapNat DEF Shrunk
        <5> QED BY <3>1, <5>1, <5>2 DEF Vectors
      <4>3. CASE UncountElement(f)
        <5>1. list'[v] = [list[v] EXCEPT !.cnt = @ - 1]
          BY <1>1, <4>3 DEF UncountElement, ListInv, ListType
        <5>2. list[v].cnt > 0
          BY <1>0, <4>3, OwnFacts DEF UncountElement, At, Finds
        <5> QED BY <3>1, <5>1, <5>2 DEF Vectors
      <4>4. CASE Grow(f)
        <5>1. list'[v] = Vector(op[f].buf, 2 * list[v].cap, list[v].cnt)
          BY <1>1, <4>4 DEF Grow, ListInv, ListType, Own
        <5>2. op[f].buf \in Buffers \cup {None}
          BY <1>1 DEF Operations
        <5> QED BY <3>1, <5>1, <5>2 DEF Vector
      <4> QED BY <2>1, <4>1, <4>2, <4>3, <4>4
    <3> QED BY <3>2, InterruptsAssumption
  <2>2. CASE list' = list
    BY <2>2
  <2>3. NewVector(f) => list[v] = None
    BY DEF NewVector
  <2>4. list' = list \/ NewVector(f) \/ CountElement(f) \/ RemoveBegins(f) \/ UncountElement(f) \/ Grow(f)
    BY DEF Routine, HeapTakes, NewFails, ExpandInPlace, ExpandMoves, ExpandFails,
           StoreElement, RemoveEnds, CheckOther, TearCell, CopyCell, Lists
  <2> QED BY <1>3, <2>1, <2>2, <2>3, <2>4
<1>6. \E o : /\ OpStep(f, o)
             /\ o = Idle \/ o.v = v
             /\ o.pc = "grow" => Expands(f)
             /\ o.pc = "check" => op[f].pc \in {"check", "uncount"}
             /\ o.pc \in {"tear", "copy", "uncount"} => op[f].pc \in {"check", "tear", "copy"}
  <2>1. ASSUME NEW pc \in PCs, Goto(f, pc)
        PROVE  \E o : OpStep(f, o) /\ o.v = v /\ o.pc = pc
    <3>1. OpStep(f, [op[f] EXCEPT !.pc = pc])
      BY <2>1 DEF Goto, OpStep
    <3>2. [op[f] EXCEPT !.pc = pc].v = v /\ [op[f] EXCEPT !.pc = pc].pc = pc
      BY <1>1, <2>1, OpWithPc
    <3> QED BY <3>1, <3>2
  <2>2. CASE NewFails(f)
    <3>1. Goto(f, "stuck")
      BY <2>2 DEF NewFails
    <3> QED BY <2>1, <3>1 DEF PCs
  <2>3. CASE Grow(f)
    <3>1. Goto(f, "add")
      BY <2>3 DEF Grow
    <3> QED BY <2>1, <3>1 DEF PCs
  <2>4. CASE TearCell(f)
    <3>1. Goto(f, "copy") /\ op[f].pc = "tear"
      BY <2>4 DEF TearCell, At
    <3> QED BY <2>1, <3>1 DEF PCs
  <2>5. CASE UncountElement(f)
    <3>1. Goto(f, "check") /\ op[f].pc = "uncount"
      BY <2>5 DEF UncountElement, At
    <3> QED BY <2>1, <3>1 DEF PCs
  <2>6. CASE ExpandFails(f) \/ StoreElement(f) \/ RemoveEnds(f)
    <3>1. OpStep(f, Idle)
      BY <2>6 DEF ExpandFails, StoreElement, RemoveEnds, Ends, OpStep
    <3> QED BY <3>1, IdleIs
  <2>7. CASE NewVector(f) \/ HeapTakes(f)
    <3>1. OpStep(f, op[f]) /\ op[f].pc = "add"
      BY <2>7 DEF NewVector, HeapTakes, At, OpStep, ListInv, OpType
    <3> QED BY <3>1
  <2>8. CASE Expands(f)
    <3>1. PICK b : op' = [op EXCEPT ![f].pc = "grow", ![f].buf = b]
      BY <2>8 DEF Expands, ExpandInPlace, ExpandMoves
    <3> DEFINE o == [op[f] EXCEPT !.pc = "grow", !.buf = b]
    <3>2. OpStep(f, o) /\ o.v = v /\ o.pc = "grow"
      BY <1>1, <3>1 DEF OpStep, Operations
    <3> QED BY <2>8, <3>2
  <2>9. CASE CountElement(f)
    <3> DEFINE o == [op[f] EXCEPT !.pc = "store", !.i = Own(f).cnt]
    <3>1. OpStep(f, o) /\ o.v = v /\ o.pc = "store"
      BY <1>1, <2>9 DEF CountElement, OpStep, Operations
    <3> QED BY <3>1
  <2>10. CASE CheckOther(f)
    <3> DEFINE o == [op[f] EXCEPT !.i = @ + 1]
    <3>1. OpStep(f, o) /\ o.v = v /\ o.pc = "check" /\ op[f].pc = "check"
      BY <1>1, <2>10 DEF CheckOther, At, OpStep, Operations
    <3> QED BY <3>1
  <2>11. CASE RemoveBegins(f)
    <3> DEFINE o == [op[f] EXCEPT !.pc = "tear", !.j = op[f].i]
    <3>1. OpStep(f, o) /\ o.v = v /\ o.pc = "tear" /\ op[f].pc = "check"
      BY <1>1, <2>11 DEF RemoveBegins, At, OpStep, Operations
    <3> QED BY <3>1
  <2>12. CASE CopyCell(f)
    <3> DEFINE pc == IF op[f].j + 1 < Own(f).cnt THEN "tear" ELSE "uncount"
               o == [op[f] EXCEPT !.j = op[f].j + 1, !.pc = pc]
    <3>1. OpStep(f, o) /\ op[f].pc = "copy"
      BY <2>12 DEF CopyCell, At, OpStep
    <3>2. o.v = v /\ o.pc = pc /\ pc \in {"tear", "uncount"}
      BY <1>1 DEF Operations
    <3> HIDE DEF o, pc
    <3>3. o.pc \in {"tear", "uncount"}
      BY <3>2
    <3> QED BY <3>1, <3>2, <3>3
  <2> QED BY <2>2, <2>3, <2>4, <2>5, <2>6, <2>7, <2>8, <2>9, <2>10, <2>11, <2>12 DEF Routine, Expands
<1> QED BY <1>0, <1>1, <1>2, <1>4, <1>5, <1>6 DEF Within

LEMMA ExpandFacts ==
  ASSUME ListInv, KeepInv, RestInv, NEW f \in Flows, Expands(f), NEW v, v = op[f].v
  PROVE  /\ registered' = registered /\ list' = list
         /\ list[v].buf \in Buffers \ free /\ mem'[list[v].buf] = mem[list[v].buf]
         /\ Lie(mem[list[v].buf], registered[v], 0, Len(registered[v]) - 1, 1)
         /\ \A b \in Buffers : lent'[b] = v =>
               \/ lent[b] = v /\ mem'[b] = mem[b]
               \/ Lie(mem'[b], registered[v], 0, Len(registered[v]) - 1, 1)
<1>0. op[f].pc = "add" /\ registered' = registered /\ list' = list /\ IsFull(f)
  BY DEF Expands, ExpandInPlace, ExpandMoves, At, Lists
<1>1. /\ v \in Hooked /\ Keeps(op[f], Held(v), registered[v], Size(list[v]))
      /\ Doing(v) = op[f] /\ Placed(v) /\ IsList(list[v])
  BY <1>0, OwnFacts
<1>2. Own(f) = list[v]
  BY DEF Own
<1>3. /\ list[v] # None /\ list[v].cnt = list[v].cap /\ list[v] \in Vectors
      /\ Place(v) = list[v].buf /\ Size(list[v]) = list[v].cap
      /\ list[v].cap \in 1..MaxCap
  <2>1. list[v] # None /\ list[v].cnt = list[v].cap /\ list[v] \in Vectors
    BY <1>0, <1>1, <1>2 DEF IsFull, IsList
  <2>2. list[v].cap \in 1..MaxCap
    BY <2>1, VectorType
  <2> QED BY <1>0, <1>1, <2>1, <2>2, MaxCapNat DEF Place, Size
<1>4. list[v].buf \in Buffers \ free /\ list[v].buf # None
  BY <1>0, <1>1, <1>3 DEF Placed
<1>5. PICK n : n = list[v].cap
  OBVIOUS
<1>6. Len(registered[v]) = n /\ n \in 1..MaxCap /\ \A k \in 0..(n - 1) : Held(v)[k] = registered[v][k + 1]
  BY <1>0, <1>1, <1>3, <1>5 DEF Keeps, Whole, Lie
<1>7. ASSUME NEW k \in 0..(n - 1)
      PROVE  k \in 0..(MaxCap - 1) /\ mem[list[v].buf][k] = registered[v][k + 1]
             /\ Read(list[v].buf, k) = registered[v][k + 1]
  <2>1. k \in 0..(MaxCap - 1)
    BY <1>6, MaxCapNat
  <2> QED BY <1>3, <1>4, <1>6, <2>1, HeldAs
<1>8. Lie(mem[list[v].buf], registered[v], 0, n - 1, 1)
  BY <1>7 DEF Lie
<1>9. CASE ExpandInPlace(f)
  <2>1. mem' = mem /\ lent' = lent
    BY <1>9 DEF ExpandInPlace, Lists
  <2> QED BY <1>0, <1>4, <1>6, <1>8, <2>1
<1>10. CASE ExpandMoves(f)
  <2>1. PICK b \in Given(v) :
         /\ mem' = [mem EXCEPT ![b] = [i \in 0..(MaxCap - 1) |->
                        IF i < n THEN Read(list[v].buf, i) ELSE Junk]]
         /\ lent' = [lent EXCEPT ![b] = v]
    <3>1. op[f].v = v /\ Own(f).cap = n /\ Own(f).buf = list[v].buf
      BY <1>2, <1>5
    <3> QED BY <1>10, <3>1 DEF ExpandMoves
  <2>2. b \in Buffers /\ b \in free
    BY GivenIsFree DEF RestInv
  <2>3. \A q \in Buffers : q # b => mem'[q] = mem[q] /\ lent'[q] = lent[q]
    BY <2>1, <2>2 DEF RestInv, Memories
  <2>4. ASSUME NEW k \in 0..(n - 1) PROVE mem'[b][k] = registered[v][k + 1]
    <3>1. k \in 0..(MaxCap - 1) /\ k < n
      BY <1>6, <1>7
    <3>2. mem'[b] = [i \in 0..(MaxCap - 1) |-> IF i < n THEN Read(list[v].buf, i) ELSE Junk]
      BY <2>1, <2>2 DEF RestInv, Memories
    <3> QED BY <1>7, <3>1, <3>2
  <2>5. Lie(mem'[b], registered[v], 0, n - 1, 1)
    BY <2>4 DEF Lie
  <2> QED BY <1>0, <1>4, <1>6, <1>8, <2>2, <2>3, <2>5
<1> QED BY <1>9, <1>10 DEF Expands

LEMMA RoutineStale ==
  ASSUME ListInv, ListInv', KeepInv, RestInv, \A w \in Hooked : Stale(w),
         NEW f \in Flows, Routine(f)
  PROVE  \A w \in Hooked : Stale(w)'
<1>v. PICK v : v = op[f].v
  OBVIOUS
<1>1. v \in Hooked /\ Runs(f) /\ op[f].pc # "idle"
  BY <1>v, RoutineFrame
<1>2. PICK o : Within(f, v, o)
  BY <1>v, RoutineFrame
<1>3. ASSUME NEW w \in Hooked \ {v} PROVE Stale(w)'
  <2>1. Doing(w)' = Doing(w)
    <3>1. op[f].v \in {v, None} /\ o.v \in {v, None}
      BY <1>v, <1>2, IdleIs DEF Within
    <3> QED BY <1>2, <3>1, Elsewhere DEF Within, ListInv
  <2>2. list'[w] = list[w] /\ registered'[w] = registered[w]
    BY <1>2 DEF Within
  <2> SUFFICES ASSUME Doing(w).pc = "grow"
               PROVE  /\ list[w].buf # None
                      /\ lent'[list[w].buf] = w =>
                            Lie(mem'[list[w].buf], registered[w], 0, Len(registered[w]) - 1, 1)
    BY <2>1, <2>2 DEF Stale
  <2>3. list[w].buf # None
    BY DEF Stale
  <2>4. list[w] # None /\ list[w].buf \in Buffers
    <3>1. PICK g \in Flows : Doing(w) = op[g] /\ op[g].v = w
      BY IdleIs DEF Doing, Flows
    <3>2. op[g].pc # "idle" /\ Finds(op[g], list[w])
      BY <3>1 DEF ListInv, Working
    <3>3. list[w] # None
      BY <3>1, <3>2 DEF Finds
    <3>4. list[w] \in Vectors
      BY <3>3 DEF ListInv, ListType
    <3> QED BY <2>3, <3>3, <3>4, VectorType
  <2> SUFFICES ASSUME lent'[list[w].buf] = w
               PROVE  Lie(mem'[list[w].buf], registered[w], 0, Len(registered[w]) - 1, 1)
    BY <2>3
  <2>5. Watched(v, list[w].buf)
    BY <2>4 DEF Watched
  <2>6. mem'[list[w].buf] = mem[list[w].buf] /\ lent[list[w].buf] = w
    BY <1>v, <2>4, <2>5, RoutineElsewhere, IdleIs DEF Spares
  <2> QED BY <2>6 DEF Stale
<1>4. Stale(v)'
  <2>1. Doing(v)' = o \/ o.v # v
    BY <1>v, <1>1, <1>2, DoingNow DEF ListInv, KeepInv, Within
  <2>2. o.v # v => Doing(v)'.pc # "grow"
    <3>1. op'[f] = o /\ \A g \in Flows \ {f} : op'[g] = op[g]
      BY <1>2 DEF Within, OpStep, ListInv, OpType
    <3>2. \A g \in Flows \ {f} : op[g].v # v
      <4>1. \A g \in Flows \ {f} : op[g].pc # "idle" => op[g].v # op[f].v
        BY <1>1, OthersApart DEF ListInv
      <4>2. \A g \in Flows \ {f} : op[g].pc = "idle" => op[g].v # v
        BY <1>1, IdleIs DEF KeepInv, Calls
      <4> QED BY <1>v, <4>1, <4>2
    <3> QED BY <3>1, <3>2, IdleIs DEF Doing, Flows
  <2>3. CASE Doing(v)'.pc # "grow"
    BY <2>3 DEF Stale
  <2>4. CASE Doing(v)'.pc = "grow"
    <3>1. Expands(f)
      BY <1>2, <2>1, <2>2, <2>4 DEF Within
    <3>2. /\ registered' = registered /\ list' = list
          /\ list[v].buf \in Buffers /\ mem'[list[v].buf] = mem[list[v].buf]
          /\ Lie(mem[list[v].buf], registered[v], 0, Len(registered[v]) - 1, 1)
      BY <1>v, <3>1, ExpandFacts
    <3> QED BY <3>2, BufferType DEF Stale
  <2> QED BY <2>3, <2>4
<1> QED BY <1>3, <1>4

LEMMA BlankCell == ASSUME NEW b, NEW k \in 0..(MaxCap - 1) PROVE CellOf(b, Blank[k]) /\ CellOf(b, Blank[k])'
  BY DEF CellOf, Blank

\* The cells of each buffer are those it had, for the same vector, or new ones
\* of the vector that it is for now.
LEMMA CellsChange ==
  ASSUME OwnCells,
         \A b \in Buffers : \A k \in 0..(MaxCap - 1) :
            (mem'[b][k] = mem[b][k] /\ lent'[b] = lent[b]) \/ CellOf(b, mem[b][k])'
  PROVE  OwnCells'
  BY DEF OwnCells, CellOf

LEMMA RoutineCells ==
  ASSUME ListInv, KeepInv, RestInv, OwnCells, NEW f \in Flows, Routine(f)
  PROVE  OwnCells'
<1>v. PICK v : v = op[f].v
  OBVIOUS
<1>0. op[f].pc # "idle"
  BY DEF Routine, HeapTakes, NewVector, NewFails, ExpandInPlace, ExpandMoves, ExpandFails, Grow, CountElement,
         StoreElement, RemoveEnds, CheckOther, RemoveBegins, TearCell, CopyCell, UncountElement, At
<1>1. /\ v \in Hooked /\ Placed(v) /\ Doing(v) = op[f] /\ IsList(list[v]) /\ Finds(op[f], list[v])
      /\ op[f].c \in Callbacks[v] /\ v # None
  BY <1>0, <1>v, OwnFacts, IdleIs
<1>2. CASE mem' = mem /\ lent' = lent
  BY <1>2, CellsChange
<1>3. ASSUME NEW b \in Buffers, NEW y, mem' = [mem EXCEPT ![b] = y], lent' = [lent EXCEPT ![b] = v],
             \A k \in 0..(MaxCap - 1) : y[k] \in {Zero, Junk} \cup Callbacks[v]
      PROVE  OwnCells'
  <2>1. \A q \in Buffers : q # b => mem'[q] = mem[q] /\ lent'[q] = lent[q]
    BY <1>3 DEF RestInv, Memories
  <2>2. mem'[b] = y /\ lent'[b] = v
    BY <1>3 DEF RestInv, Memories
  <2>3. \A k \in 0..(MaxCap - 1) : CellOf(b, mem[b][k])'
    BY <1>1, <1>3, <2>2 DEF CellOf
  <2> QED BY <2>1, <2>3, CellsChange
<1>4. CASE NewVector(f)
  <2>1. CASE mem' = mem /\ lent' = lent
    BY <1>2, <2>1
  <2>2. CASE \E b \in Given(v) : /\ mem' = [mem EXCEPT ![b] = [i \in 0..(MaxCap - 1) |->
                                             IF i = 0 THEN Zero ELSE Junk]]
                              /\ lent' = [lent EXCEPT ![b] = v]
    <3>1. PICK b \in Given(v) : /\ mem' = [mem EXCEPT ![b] = [i \in 0..(MaxCap - 1) |->
                                             IF i = 0 THEN Zero ELSE Junk]]
                             /\ lent' = [lent EXCEPT ![b] = v]
      BY <2>2
    <3>2. b \in Buffers
      BY GivenIsFree DEF RestInv
    <3> DEFINE y == [i \in 0..(MaxCap - 1) |-> IF i = 0 THEN Zero ELSE Junk]
    <3>3. \A k \in 0..(MaxCap - 1) : y[k] \in {Zero, Junk} \cup Callbacks[v]
      OBVIOUS
    <3> QED BY <1>3, <3>1, <3>2, <3>3
  <2> QED BY <1>v, <1>4, <2>1, <2>2 DEF NewVector
<1>5. CASE ExpandMoves(f)
  <2>1. PICK b \in Given(v) : /\ mem' = [mem EXCEPT ![b] = [i \in 0..(MaxCap - 1) |->
                                IF i < Own(f).cap THEN Read(Own(f).buf, i) ELSE Junk]]
                           /\ lent' = [lent EXCEPT ![b] = v]
    BY <1>v, <1>5 DEF ExpandMoves
  <2>2. b \in Buffers
    BY GivenIsFree DEF RestInv
  <2>3. Expands(f)
    BY <1>5 DEF Expands
  <2>4. list[v].buf \in Buffers /\ Own(f) = list[v]
    BY <1>v, <2>3, ExpandFacts DEF Own
  <2>5. lent[list[v].buf] = v
    <3>1. op[f].pc = "add" /\ IsFull(f)
      BY <1>5 DEF ExpandMoves, At
    <3>2. list[v] # None
      BY <2>4, <3>1 DEF IsFull
    <3>3. Place(v) = list[v].buf
      BY <1>1, <3>1, <3>2 DEF Place
    <3> QED BY <1>1, <2>4, <3>3, BufferType DEF Placed
  <2> DEFINE y == [i \in 0..(MaxCap - 1) |-> IF i < Own(f).cap THEN Read(Own(f).buf, i) ELSE Junk]
  <2>6. ASSUME NEW k \in 0..(MaxCap - 1) PROVE y[k] \in {Zero, Junk} \cup Callbacks[v]
    <3>1. CellOf(list[v].buf, mem[list[v].buf][k])
      BY <2>4 DEF OwnCells
    <3>2. Read(list[v].buf, k) = mem[list[v].buf][k] \/ Read(list[v].buf, k) = Junk
      BY DEF Read
    <3>3. y[k] = Read(list[v].buf, k) \/ y[k] = Junk
      BY <2>4
    <3> HIDE DEF y
    <3> QED BY <2>5, <3>1, <3>2, <3>3 DEF CellOf
  <2>7. mem' = [mem EXCEPT ![b] = y]
    BY <2>1
  <2> HIDE DEF y
  <2> QED BY <1>3, <2>1, <2>2, <2>6, <2>7
<1>6. CASE Grow(f)
  <2>1. lent' = [b \in Buffers |-> IF Forgotten(b, Reads) THEN None ELSE lent[b]]
    BY <1>6 DEF Grow
  <2>2. PICK m : /\ mem' = Known(m, Reads)
                 /\ m = [mem EXCEPT ![op[f].buf] = [i \in 0..(MaxCap - 1) |->
                   IF i \in Own(f).cnt..(2 * Own(f).cap - 1) THEN Zero ELSE @[i]]]
    BY <1>6 DEF Grow
  <2>3. ASSUME NEW b \in Buffers, NEW k \in 0..(MaxCap - 1)
        PROVE  (mem'[b][k] = mem[b][k] /\ lent'[b] = lent[b]) \/ CellOf(b, mem[b][k])'
    <3>1. mem'[b] = Blank \/ (mem'[b] = m[b] /\ lent'[b] = lent[b])
      BY <2>1, <2>2 DEF Known
    <3>2. m[b][k] = mem[b][k] \/ m[b][k] = Zero
      BY <2>2 DEF RestInv, Memories
    <3>3. CASE mem'[b] = Blank
      BY <3>3, BlankCell
    <3>4. CASE mem'[b] = m[b] /\ lent'[b] = lent[b]
      BY <3>2, <3>4 DEF CellOf
    <3> QED BY <3>1, <3>3, <3>4
  <2> QED BY <2>3, CellsChange
<1>7. ASSUME NEW j, NEW y, lent' = lent, mem' = [mem EXCEPT ![Place(v)][j] = y],
             y \in {Zero, Junk} \cup Callbacks[v], Place(v) # None
      PROVE  OwnCells'
  <2>1. lent[Place(v)] = v
    BY <1>1, <1>7 DEF Placed
  <2>2. ASSUME NEW b \in Buffers, NEW k \in 0..(MaxCap - 1)
        PROVE  (mem'[b][k] = mem[b][k] /\ lent'[b] = lent[b]) \/ CellOf(b, mem[b][k])'
    <3>1. mem'[b][k] = mem[b][k] \/ (b = Place(v) /\ mem'[b][k] = y)
      BY <1>7 DEF RestInv, Memories
    <3> QED BY <1>1, <1>7, <2>1, <3>1 DEF CellOf
  <2> QED BY <2>2, CellsChange
<1>8. CASE StoreElement(f) \/ TearCell(f) \/ CopyCell(f)
  <2>1. op[f].pc \in {"store", "tear", "copy"} /\ (op[f].pc = "store" => Own(f).buf # None)
    BY <1>8 DEF StoreElement, TearCell, CopyCell, At
  <2>2. Own(f).buf = Place(v) /\ Place(v) # None
    BY <1>v, <2>1, WriteFacts
  <2>3. lent[Place(v)] = v /\ Place(v) \in Buffers
    BY <1>1, <2>2 DEF Placed
  <2>4. ASSUME NEW j PROVE Read(Place(v), j) = Junk \/ (Read(Place(v), j) = mem[Place(v)][j] /\ ~ (j >= MaxCap))
    BY DEF Read
  <2>5. \A k \in 0..(MaxCap - 1) : mem[Place(v)][k] \in {Zero, Junk} \cup Callbacks[v]
    BY <2>3 DEF OwnCells, CellOf
  <2>6. CASE StoreElement(f)
    <3>1. lent' = lent /\ mem' = [mem EXCEPT ![Place(v)][op[f].i] = op[f].c]
      BY <2>2, <2>6 DEF StoreElement
    <3> QED BY <1>1, <1>7, <2>2, <3>1
  <2>7. CASE TearCell(f)
    <3> DEFINE j == op[f].j
               y == IF mem[Place(v)][j] = Read(Place(v), j + 1) THEN mem[Place(v)][j] ELSE Junk
    <3>1. lent' = lent /\ mem' = [mem EXCEPT ![Place(v)][j] = y]
      BY <2>2, <2>7 DEF TearCell
    <3>2. j \in 0..(MaxCap - 1)
      <4>1. op[f].pc # "store" /\ op[f].j \in Nat /\ Size(list[v]) \in Nat /\ Size(list[v]) <= MaxCap
        BY <1>0, <1>v, <2>7, OwnFacts DEF TearCell, At
      <4>2. op[f].j < Size(list[v])
        BY <1>v, <2>1, <4>1, WriteFacts
      <4> QED BY <4>1, <4>2, MaxCapNat
    <3>3. y \in {Zero, Junk} \cup Callbacks[v]
      BY <2>5, <3>2
    <3> HIDE DEF j, y
    <3> QED BY <1>7, <2>2, <3>1, <3>3
  <2>8. CASE CopyCell(f)
    <3> DEFINE j == op[f].j
               y == Read(Place(v), j + 1)
    <3>1. lent' = lent /\ mem' = [mem EXCEPT ![Place(v)][j] = y]
      BY <2>2, <2>8 DEF CopyCell
    <3>2. j \in Nat
      BY <1>0, <1>v, OwnFacts
    <3>3. y \in {Zero, Junk} \cup Callbacks[v]
      <4>1. CASE j + 1 >= MaxCap
        BY <4>1 DEF Read
      <4>2. CASE ~ (j + 1 >= MaxCap)
        <5>1. j + 1 \in 0..(MaxCap - 1)
          BY <3>2, <4>2, MaxCapNat
        <5>2. y = mem[Place(v)][j + 1]
          BY <2>2, <4>2 DEF Read
        <5> QED BY <2>5, <5>1, <5>2
      <4> QED BY <4>1, <4>2
    <3> HIDE DEF j, y
    <3> QED BY <1>7, <2>2, <3>1, <3>3
  <2> QED BY <1>8, <2>6, <2>7, <2>8
<1>9. CASE HeapTakes(f)
  <2>1. /\ \A b \in Buffers : b # h.buf => mem'[b] = mem[b] /\ lent'[b] = lent[b]
        /\ h.buf \in Buffers => mem'[h.buf] = Blank
    BY <1>9 DEF HeapTakes, RestInv, Memories
  <2>2. ASSUME NEW b \in Buffers, NEW k \in 0..(MaxCap - 1)
        PROVE  (mem'[b][k] = mem[b][k] /\ lent'[b] = lent[b]) \/ CellOf(b, mem[b][k])'
    BY <2>1, BlankCell
  <2> QED BY <2>2, CellsChange
<1> QED BY <1>2, <1>4, <1>5, <1>6, <1>8, <1>9
     DEF Routine, NewFails, ExpandInPlace, ExpandFails, CountElement,
         RemoveEnds, CheckOther, RemoveBegins, UncountElement, Lists

LEMMA LieElements ==
  ASSUME NEW S, NEW r \in Seq(S), NEW m, NEW e \in Nat, e <= Len(r), Lie(m, r, 0, e - 1, 1)
  PROVE  \A k \in 0..(e - 1) : m[k] \in Elements(r)
<1> SUFFICES ASSUME NEW k \in 0..(e - 1) PROVE m[k] \in Elements(r)
  OBVIOUS
<1>1. k + 1 \in DOMAIN r
  OBVIOUS
<1>2. m[k] = r[k + 1]
  BY DEF Lie
<1> QED BY <1>1, <1>2 DEF Elements

\* Grow keeps the elements, and what the dispatch runs over.
LEMMA GrowFacts ==
  ASSUME ListInv, KeepInv, RestInv, NEW f \in Flows, Grow(f), Handling, NEW b \in Buffers, b = h.buf,
         NEW v, v = op[f].v, NEW k \in 0..(MaxCap - 1), k < Len(registered[v])
  PROVE  mem'[b][k] = mem[b][k] /\ lent'[b] = lent[b]
<1>0. op[f].pc = "grow"
  BY DEF Grow, At
<1>1. /\ Doing(v) = op[f] /\ IsList(list[v]) /\ Finds(op[f], list[v])
      /\ Keeps(op[f], Held(v), registered[v], Size(list[v]))
  BY <1>0, OwnFacts
<1>2. Len(registered[v]) = list[v].cnt /\ list[v].cap \in Nat /\ list[v].cnt \in Nat
  <2>1. list[v] # None /\ list[v] \in Vectors
    BY <1>0, <1>1 DEF Finds, IsList
  <2>2. Size(list[v]) = Len(registered[v])
    BY <1>0, <1>1 DEF Keeps, Whole
  <2> QED BY <2>1, <2>2, VectorType DEF Size
<1>3. PICK m : /\ mem' = Known(m, Reads)
               /\ m = [mem EXCEPT ![op[f].buf] = [i \in 0..(MaxCap - 1) |->
                   IF i \in Own(f).cnt..(2 * Own(f).cap - 1) THEN Zero ELSE @[i]]]
  BY DEF Grow
<1>4. mem'[b] = m[b] /\ lent'[b] = lent[b]
  BY <1>3 DEF Grow, Known, Forgotten, Reads
<1>5. k \notin Own(f).cnt..(2 * Own(f).cap - 1)
  BY <1>2 DEF Own
<1>6. m[b][k] = mem[b][k]
  BY <1>3, <1>5 DEF RestInv, Memories
<1> QED BY <1>4, <1>6

\* A callback changes the list that the dispatch runs over, if it adds to it.
LEMMA AddsRun ==
  ASSUME ListInv, ListInv', KeepInv, RestInv, NEW f \in Flows, Routine(f), Handling, h.buf \in Buffers,
         NEW v \in Hooked, v = op[f].v, list[v] # None,
         op[f].pc \in {"idle", "add", "stuck", "grow", "store"},
         NEW e \in Nat, e <= Len(registered[v]), e <= MaxCap,
         lent[h.buf] = v => Lie(mem[h.buf], registered[v], 0, e - 1, 1),
         lent'[h.buf] = v
  PROVE  e <= Len(registered'[v]) /\ Lie(mem'[h.buf], registered'[v], 0, e - 1, 1)
<1>0. op[f].pc # "idle"
  BY RoutineFrame
<1>1. registered[v] \in Seq(Callbacks[v]) /\ op[f].c \in Callbacks[v]
  BY <1>0, OwnFacts
<1>2. CASE mem' = mem /\ lent' = lent /\ registered' = registered
  BY <1>2
<1>3. CASE Expands(f)
  <2>1. /\ registered' = registered
        /\ \/ lent[h.buf] = v /\ mem'[h.buf] = mem[h.buf]
           \/ Lie(mem'[h.buf], registered[v], 0, Len(registered[v]) - 1, 1)
    BY <1>3, ExpandFacts
  <2>2. CASE lent[h.buf] = v /\ mem'[h.buf] = mem[h.buf]
    BY <2>1, <2>2
  <2>3. CASE Lie(mem'[h.buf], registered[v], 0, Len(registered[v]) - 1, 1)
    <3>1. \A k \in 0..(e - 1) : k \in 0..(Len(registered[v]) - 1)
      BY <1>1
    <3> QED BY <2>1, <2>3, <3>1 DEF Lie
  <2> QED BY <2>1, <2>2, <2>3
<1>4. CASE Grow(f)
  <2>1. registered' = registered /\ lent'[h.buf] = lent[h.buf]
    BY <1>4 DEF Grow, Forgotten, Reads
  <2>2. ASSUME NEW k \in 0..(e - 1) PROVE mem'[h.buf][k] = mem[h.buf][k]
    <3>1. k \in 0..(MaxCap - 1) /\ k < Len(registered[v])
      BY <1>1, MaxCapNat
    <3> QED BY <1>4, <3>1, GrowFacts
  <2> QED BY <2>1, <2>2 DEF Lie
<1>5. CASE StoreElement(f)
  <2>1. /\ op[f].pc = "store" /\ lent' = lent
        /\ mem' = [mem EXCEPT ![Own(f).buf][op[f].i] = op[f].c]
        /\ registered' = [registered EXCEPT ![v] = Append(registered[v], op[f].c)]
    BY <1>5 DEF StoreElement, At
  <2>2. op[f].i = Len(registered[v])
    BY <1>0, <2>1, OwnFacts DEF Keeps
  <2>3. ASSUME NEW k \in 0..(e - 1) PROVE mem'[h.buf][k] = mem[h.buf][k]
    <3>1. k # op[f].i
      BY <1>1, <2>2
    <3> QED BY <2>1, <3>1 DEF RestInv, Memories
  <2>4. registered'[v] = Append(registered[v], op[f].c)
    BY <2>1 DEF KeepInv, Registered
  <2>5. /\ Len(registered'[v]) = Len(registered[v]) + 1
        /\ \A q \in 1..Len(registered[v]) : registered'[v][q] = registered[v][q]
    BY <1>1, <2>4, AppendProperties
  <2>6. \A k \in 0..(e - 1) : k + 1 \in 1..Len(registered[v])
    BY <1>1
  <2>7. Lie(mem[h.buf], registered[v], 0, e - 1, 1)
    BY <2>1
  <2>8. Lie(mem'[h.buf], registered'[v], 0, e - 1, 1)
    BY <2>3, <2>5, <2>6, <2>7 DEF Lie
  <2> QED BY <1>1, <2>5, <2>8
<1>6. CASE HeapTakes(f)
  <2>1. lent'[h.buf] = None
    BY <1>6 DEF HeapTakes, RestInv
  <2> QED BY <2>1, IdleIs
<1> QED BY <1>2, <1>3, <1>4, <1>5, <1>6
     DEF Expands, Routine, NewVector, NewFails, ExpandFails, CountElement, RemoveEnds, CheckOther,
         RemoveBegins, TearCell, CopyCell, UncountElement, At, Lists, Own

LEMMA RoutineRun ==
  ASSUME ListInv, ListInv', HType, KeepInv, KeepInv', RestInv, RunInv, NEW f \in Flows, Routine(f)
  PROVE  RunInv'
<1>v. PICK v : v = op[f].v
  OBVIOUS
<1>1. v \in Hooked /\ Runs(f) /\ op[f].pc # "idle"
  BY <1>v, RoutineFrame
<1>2. PICK o : Within(f, v, o)
  BY <1>v, RoutineFrame
<1>3. h' = h
  BY <1>2 DEF Within
<1> SUFFICES ASSUME Running PROVE RunInv'
  BY <1>3 DEF RunInv, Running, Handling
<1>4. f = "isr"
  BY <1>1 DEF Flows, Runs, Running
<1>5. op'["isr"] = o /\ op'["main"] = op["main"] /\ o \in Operations
  BY <1>2, <1>4 DEF Within, OpStep, ListInv, OpType, Flows
<1>6. Alone' <=> Alone
  BY <1>3, <1>5 DEF Alone
<1>7. /\ h.end <= MaxCap /\ h.end \in Nat
      /\ h.end # 0 => h.buf # None /\ h.v \in Hooked /\ list[h.v] # None /\ h.buf \in Buffers
  BY DEF RunInv, Running, Handling, HType, Handled
<1>8. op'["isr"].v = h.v => op'["isr"].pc \in {"idle", "add", "stuck", "grow", "store"}
  <2>1. CASE o = Idle
    BY <1>5, <2>1, IdleIs
  <2>2. CASE o.v = v /\ v = h.v
    <3>1. op[f].pc \in {"idle", "add", "stuck", "grow", "store"}
      BY <1>v, <1>4, <2>2 DEF RunInv
    <3>2. o.pc \in PCs
      BY <1>5 DEF Operations
    <3> QED BY <1>2, <1>5, <3>1, <3>2 DEF Within, PCs
  <2>3. CASE o.v = v /\ v # h.v
    BY <1>5, <2>3
  <2> QED BY <1>2, <2>1, <2>2, <2>3 DEF Within
<1>9. h.end # 0 => list'[h.v] # None
  BY <1>2, <1>7 DEF Within
<1>10. CASE h.end = 0
  BY <1>3, <1>7, <1>8, <1>10 DEF RunInv
<1>11. CASE h.end # 0 /\ v # h.v
  <2>1. registered'[h.v] = registered[h.v]
    BY <1>2, <1>7, <1>11 DEF Within
  <2>2. Relies' => Relies /\ mem'[h.buf] = mem[h.buf]
    <3>1. Watched(v, h.buf)
      BY DEF Watched, Running
    <3>2. lent'[h.buf] = h.v => mem'[h.buf] = mem[h.buf] /\ lent'[h.buf] = lent[h.buf]
      BY <1>v, <1>7, <1>11, <3>1, RoutineElsewhere, IdleIs DEF Spares
    <3> QED BY <1>3, <1>7, <1>11, <3>2 DEF Relies
  <2> QED BY <1>3, <1>6, <1>7, <1>8, <1>9, <1>11, <2>1, <2>2 DEF RunInv
<1>12. CASE h.end # 0 /\ v = h.v
  <2>1. Alone
    BY <1>v, <1>1, <1>4, <1>12 DEF Alone, ListInv, Apart
  <2>2. op[f].pc \in {"idle", "add", "stuck", "grow", "store"}
    BY <1>v, <1>4, <1>12 DEF RunInv
  <2>3. h.end <= Len(registered[v])
    BY <1>12, <2>1 DEF RunInv
  <2>4. lent[h.buf] = v => Lie(mem[h.buf], registered[v], 0, h.end - 1, 1)
    BY <1>12, <2>1 DEF RunInv, Relies
  <2>5. lent'[h.buf] = v => Lie(mem'[h.buf], registered'[v], 0, h.end - 1, 1)
    BY <1>v, <1>1, <1>7, <1>12, <2>2, <2>3, <2>4, AddsRun DEF Running
  <2>6. h.end <= Len(registered'[v])
    <3>1. registered[v] \in Seq(Callbacks[v])
      BY <1>1 DEF KeepInv, Registered
    <3>2. registered' = registered \/ registered' = [registered EXCEPT ![v] = Append(@, op[f].c)]
      BY <1>v, <2>2 DEF Routine, HeapTakes, NewVector, NewFails, ExpandInPlace, ExpandMoves, ExpandFails, Grow,
                 CountElement, StoreElement, RemoveEnds, CheckOther, RemoveBegins, TearCell,
                 CopyCell, UncountElement, At
    <3>3. op[f].c \in Callbacks[v]
      BY <1>v, <1>1, OwnFacts
    <3>4. Len(Append(registered[v], op[f].c)) = Len(registered[v]) + 1
      BY <3>1, <3>3, AppendProperties
    <3>5. Len(registered'[v]) = Len(registered[v]) \/ Len(registered'[v]) = Len(registered[v]) + 1
      BY <1>1, <3>2, <3>4 DEF KeepInv, Registered
    <3> QED BY <1>7, <2>3, <3>1, <3>5
  <2>7. registered'[v] \in Seq(Callbacks[v])
    BY <1>1 DEF KeepInv, Registered
  <2>8. lent'[h.buf] = v => \A k \in 0..(h.end - 1) : mem'[h.buf][k] \in Elements(registered'[v])
    BY <1>7, <2>5, <2>6, <2>7, LieElements
  <2> QED BY <1>3, <1>7, <1>8, <1>9, <1>12, <2>5, <2>6, <2>8 DEF RunInv, Relies
<1> QED BY <1>10, <1>11, <1>12

\* Outside the windows of InWindow, the cells of a list hold registered callbacks,
\* and all of them but the one that is being removed.
LEMMA KeepsShows ==
  ASSUME NEW S, NEW r \in Seq(S), NEW o, NEW m, NEW n \in Nat, o.i \in Nat, o.j \in Nat,
         o.pc \in {"idle", "add", "stuck", "grow", "check", "tear"}, Keeps(o, m, r, n)
  PROVE  /\ \A k \in 0..(n - 1) : m[k] \in Elements(r)
         /\ \A q \in 1..Len(r) : r[q] = o.c \/ \E k \in 0..(n - 1) : m[k] = r[q]
<1>0. \A q \in 1..Len(r) : r[q] \in Elements(r)
  BY DEF Elements
<1>1. CASE o.pc \in {"idle", "add", "stuck", "grow"}
  <2>1. n = Len(r) /\ \A k \in 0..(n - 1) : m[k] = r[k + 1]
    BY <1>1 DEF Keeps, Whole, Lie
  <2>2. ASSUME NEW k \in 0..(n - 1) PROVE m[k] \in Elements(r)
    <3>1. k + 1 \in 1..Len(r)
      BY <2>1
    <3> QED BY <1>0, <2>1, <3>1
  <2>3. ASSUME NEW q \in 1..Len(r) PROVE \E k \in 0..(n - 1) : m[k] = r[q]
    <3>1. q - 1 \in 0..(n - 1) /\ (q - 1) + 1 = q
      BY <2>1
    <3>2. m[q - 1] = r[q]
      BY <2>1, <3>1
    <3> QED BY <3>1, <3>2
  <2> QED BY <2>2, <2>3
<1>2. CASE o.pc \in {"check", "tear"}
  <2> DEFINE d == Len(r) - n
             x == o.c
             i == o.i
             j == IF o.pc = "check" THEN o.i ELSE o.j
  <2>1. Removing(o, m, r, n, d)
    BY <1>2 DEF Keeps
  <2>2. /\ d \in Nat /\ d = Len(r) - n /\ i \in Nat /\ j \in Nat /\ i <= j /\ j <= n
        /\ \A k \in i..(j - 1) : m[k] = r[k + (d + 2)]
        /\ \A k \in j..(n - 1) : m[k] = r[k + (d + 1)]
        /\ i < j => j < n /\ r[i + d + 1] = x
    <3>0. d = Len(r) - n /\ d \in Nat /\ i <= n
      BY <2>1 DEF Removing
    <3>1. CASE o.pc = "check"
      <4>1. j = i /\ Lie(m, r, i, n - 1, d + 1)
        BY <2>1, <3>1 DEF Removing
      <4>2. i..(j - 1) = {}
        BY <4>1
      <4> HIDE DEF d, j
      <4> QED BY <3>0, <4>1, <4>2 DEF Lie
    <3>2. CASE o.pc = "tear"
      <4>1. j = o.j /\ i <= j /\ j < n /\ r[i + d + 1] = x
        BY <2>1, <3>2 DEF Removing
      <4>2. Lie(m, r, i, j - 1, d + 2) /\ Lie(m, r, j, n - 1, d + 1)
        BY <2>1, <3>2 DEF Removing
      <4> HIDE DEF d, x, j
      <4> QED BY <3>0, <4>1, <4>2 DEF Lie
    <3> QED BY <1>2, <3>1, <3>2
  <2>3. Passed(m, r, x, i, i + d)
    BY <2>1 DEF Removing
  <2> DEFINE K == Kept(r, x)[i + d]
  <2>4. K \in Seq(Elements(r)) /\ Len(K) = i /\ \A k \in 0..(i - 1) : m[k] = K[k + 1]
    BY <2>3 DEF Passed, Lie
  <2>5. \A q \in 1..(i + d) : r[q] = x \/ \E k \in 0..(i - 1) : m[k] = r[q]
    BY <2>3 DEF Passed
  <2> HIDE DEF d, x, i, j, K
  <2>6. ASSUME NEW k \in 0..(n - 1) PROVE m[k] \in Elements(r)
    <3>1. CASE k \in 0..(i - 1)
      <4>1. k + 1 \in 1..Len(K)
        BY <2>2, <2>4, <3>1
      <4> QED BY <2>4, <3>1, <4>1
    <3>2. CASE k \in i..(j - 1)
      <4>1. k + (d + 2) \in 1..Len(r)
        BY <2>2, <3>2
      <4> QED BY <1>0, <2>2, <3>2, <4>1
    <3>3. CASE k \in j..(n - 1)
      <4>1. k + (d + 1) \in 1..Len(r)
        BY <2>2, <3>3
      <4> QED BY <1>0, <2>2, <3>3, <4>1
    <3>4. k \in 0..(i - 1) \/ k \in i..(j - 1) \/ k \in j..(n - 1)
      BY <2>2
    <3> QED BY <3>1, <3>2, <3>3, <3>4
  <2>7. ASSUME NEW q \in 1..Len(r), r[q] # x PROVE \E k \in 0..(n - 1) : m[k] = r[q]
    <3>1. CASE q \in 1..(i + d)
      <4>1. PICK k \in 0..(i - 1) : m[k] = r[q]
        BY <2>5, <2>7, <3>1
      <4>2. k \in 0..(n - 1)
        BY <2>2
      <4> QED BY <4>1, <4>2
    <3>2. CASE i + d + 2 <= q /\ q <= j + d + 1
      <4>1. q - (d + 2) \in i..(j - 1) /\ (q - (d + 2)) + (d + 2) = q /\ q - (d + 2) \in 0..(n - 1)
        BY <2>2, <3>2
      <4>2. m[q - (d + 2)] = r[q]
        BY <2>2, <4>1
      <4> QED BY <4>1, <4>2
    <3>3. CASE j + d + 1 <= q /\ (j = i \/ j + d + 2 <= q)
      <4>1. q - (d + 1) \in j..(n - 1) /\ (q - (d + 1)) + (d + 1) = q /\ q - (d + 1) \in 0..(n - 1)
        BY <2>2, <3>3
      <4>2. m[q - (d + 1)] = r[q]
        BY <2>2, <4>1
      <4> QED BY <4>1, <4>2
    <3>4. i < j => q # i + d + 1
      BY <2>2, <2>7
    <3>5. \/ q \in 1..(i + d)
          \/ i + d + 2 <= q /\ q <= j + d + 1
          \/ j + d + 1 <= q /\ (j = i \/ j + d + 2 <= q)
      <4>1. d \in Nat /\ i \in Nat /\ j \in Nat /\ i <= j /\ q \in Nat /\ 1 <= q
        BY <2>2
      <4>2. CASE i = j
        BY <4>1, <4>2
      <4>3. CASE i < j
        BY <3>4, <4>1, <4>3
      <4> QED BY <4>1, <4>2, <4>3
    <3> QED BY <3>1, <3>2, <3>3, <3>5
  <2> QED BY <2>6, <2>7 DEF x
<1> QED BY <1>1, <1>2

\* What the dispatch finds when it begins.
FoundAt(v) == IF list[v] = None THEN None ELSE list[v].buf

LEMMA EnterShows ==
  ASSUME ListInv, KeepInv, NEW v \in Hooked, Stale(v), ~ Handling, ~ InWindow(v),
         NEW n, n = Size(list[v]), NEW b, b = FoundAt(v), NEW r, r = registered[v]
  PROVE  /\ n \in Nat /\ n <= MaxCap
         /\ n # 0 => b # None /\ list[v] # None
         /\ n # 0 /\ lent[b] = v => \A k \in 0..(n - 1) : mem[b][k] \in Elements(r)
         /\ (b # None => lent[b] = v) =>
               \A q \in 1..Len(r) : r[q] = Doing(v).c \/ \E k \in 0..(n - 1) : Read(b, k) = r[q]
         /\ op["main"].v # v => n = Len(r) /\ (n # 0 => Lie(mem[b], r, 0, n - 1, 1))
         /\ b # None /\ lent[b] # v => n # 0
<1>0. op["isr"] = Idle
  BY DEF ListInv, Apart, KeepInv, Calls, Flows
<1>1. /\ Placed(v) /\ Keeps(Doing(v), Held(v), r, n) /\ r \in Seq(Callbacks[v])
  BY DEF KeepInv, VecInv, Registered
<1>2. Doing(v) \in Operations /\ Doing(v).i \in Nat /\ Doing(v).j \in Nat
  <2>1. Doing(v) \in Operations
    BY IdleType DEF Doing, ListInv, OpType, Flows
  <2> QED BY <2>1 DEF Operations
<1>3. IsList(list[v]) /\ Finds(Doing(v), list[v])
  <2>1. op["main"].v = v => Finds(Doing(v), list[v])
    BY DEF Doing, ListInv, Working, Flows
  <2>2. op["main"].v # v => Finds(Doing(v), list[v])
    BY <1>0, IdleType, IdleIs DEF Doing
  <2> QED BY <2>1, <2>2 DEF IsList, ListInv, ListType
<1>4. n \in Nat /\ n <= MaxCap
  <2>1. CASE list[v] = None
    BY <2>1, MaxCapNat DEF Size
  <2>2. CASE list[v] # None
    <3>1. list[v].cnt \in Nat /\ list[v].cap \in 1..MaxCap /\ list[v].cnt <= list[v].cap
      BY <1>3, <2>2, VectorType DEF IsList
    <3> QED BY <2>2, <3>1, MaxCapNat DEF Size
  <2> QED BY <2>1, <2>2
<1>5. Doing(v).pc \in {"idle", "add", "stuck", "grow", "check", "tear"}
  <2>1. op["main"].v = v => Doing(v) = op["main"] /\ Doing(v).pc \notin {"store", "copy", "uncount"}
    BY DEF Doing, InWindow
  <2>2. op["main"].v # v => Doing(v) = Idle
    BY <1>0, IdleIs DEF Doing
  <2>3. Doing(v).pc \in PCs
    BY <1>2 DEF Operations
  <2> QED BY <2>1, <2>2, <2>3, IdleIs DEF PCs
<1>6. n # 0 => list[v] # None
  BY DEF Size
<1>7. \A k \in 0..(n - 1) : k \in 0..(MaxCap - 1) /\ ~ (k >= MaxCap)
  BY <1>4, MaxCapNat
<1>8. op["main"].v # v => n = Len(r) /\ Doing(v) = Idle /\ Lie(Held(v), r, 0, n - 1, 1)
  BY <1>0, <1>1, IdleIs DEF Doing, Keeps, Whole
<1>9. CASE Doing(v).pc # "grow"
  <2>1. Place(v) = b
    BY <1>9 DEF Place, FoundAt
  <2>2. n # 0 => b # None
    BY <1>1, <1>5, <1>9, <2>1 DEF Placed
  <2>3. \A k \in 0..(n - 1) : Held(v)[k] = Read(b, k) /\ (b # None => Held(v)[k] = mem[b][k])
    BY <1>7, <2>1, HeldAs
  <2>4. /\ \A k \in 0..(n - 1) : Held(v)[k] \in Elements(r)
        /\ \A q \in 1..Len(r) : r[q] = Doing(v).c \/ \E k \in 0..(n - 1) : Held(v)[k] = r[q]
    BY <1>1, <1>2, <1>4, <1>5, KeepsShows
  <2>5. op["main"].v # v => n = Len(r) /\ (n # 0 => Lie(mem[b], r, 0, n - 1, 1))
    BY <1>8, <2>2, <2>3 DEF Lie
  <2>6. b # None => lent[b] = v
    BY <1>1, <2>1 DEF Placed
  <2> QED BY <1>4, <1>6, <2>2, <2>3, <2>4, <2>5, <2>6
<1>10. CASE Doing(v).pc = "grow"
  <2>1. list[v] # None /\ b = list[v].buf /\ b # None
    BY <1>3, <1>10 DEF Finds, Stale, FoundAt
  <2>2. n = Len(r) /\ n # 0
    <3>1. list[v].cnt = list[v].cap /\ list[v] \in Vectors
      BY <1>3, <1>10, <2>1 DEF Finds, IsList
    <3>2. list[v].cap # 0
      BY <3>1, VectorType, MaxCapNat
    <3>3. n # 0
      BY <2>1, <3>1, <3>2 DEF Size
    <3> QED BY <1>1, <1>10, <3>3 DEF Keeps, Whole
  <2>3. op["main"].v = v
    BY <1>8, <1>10, IdleIs
  <2>4. CASE lent[b] = v
    <3>1. Lie(mem[b], r, 0, n - 1, 1)
      BY <1>10, <2>1, <2>2, <2>4 DEF Stale
    <3>2. \A k \in 0..(n - 1) : mem[b][k] \in Elements(r)
      <4>1. n <= Len(r)
        BY <1>1, <2>2
      <4> QED BY <1>1, <1>4, <3>1, <4>1, LieElements
    <3>3. ASSUME NEW q \in 1..Len(r) PROVE \E k \in 0..(n - 1) : Read(b, k) = r[q]
      <4>1. q - 1 \in 0..(n - 1) /\ (q - 1) + 1 = q
        BY <1>4, <2>2
      <4>2. mem[b][q - 1] = r[q]
        BY <3>1, <4>1 DEF Lie
      <4> QED BY <1>7, <2>1, <4>1, <4>2 DEF Read
    <3> QED BY <1>4, <2>1, <2>2, <2>3, <3>2, <3>3
  <2>5. CASE lent[b] # v
    BY <1>4, <2>1, <2>2, <2>3, <2>5
  <2> QED BY <2>4, <2>5
<1> QED BY <1>9, <1>10

\* The callbacks that have to be called are still to come.
DueInv == Running =>
    /\ Alone => \A c \in h.due : \E k \in h.it..(h.end - 1) : registered[h.v][k + 1] = c
    /\ ~ Alone /\ Relies => \A c \in h.due : \E k \in h.it..(h.end - 1) : Read(h.buf, k) = c
    /\ ~ Alone /\ ~ Relies => h.it < h.end \/ h.due = {}

LEMMA EnterFields ==
  ASSUME NEW v, Enter(v)
  PROVE  /\ h'.v = v /\ h'.it = 0
         /\ h'.end = (IF HasList(v) THEN list[v].cnt ELSE 0)
         /\ h'.buf = (IF HasList(v) THEN list[v].buf ELSE None)
         /\ h'.due = (IF v \in Hooked
                      THEN {c \in Callbacks[v] : \E i \in DOMAIN registered[v] :
                            registered[v][i] = c /\ ~ (op["main"].v = v /\ op["main"].c = c)}
                      ELSE {})
  BY DEF Enter

LEMMA EnterRisky ==
  ASSUME NEW v, Enter(v), ~ h'.risky
  PROVE  ~ InWindow(v)
<1>1. h'.risky = InWindow(v)
  BY DEF Enter
<1> QED BY <1>1

LEMMA EnterRun ==
  ASSUME ListInv, KeepInv, \A w \in Hooked : Stale(w), ~ Handling, NEW v, Enter(v),
         op' = op, list' = list, mem' = mem, lent' = lent, registered' = registered
  PROVE  RunInv' /\ DueInv'
<1> SUFFICES ASSUME Running' PROVE RunInv' /\ DueInv'
  BY DEF RunInv, DueInv
<1>1. ~ InWindow(v)
  BY EnterRisky DEF Running
<1>2. op["isr"] = Idle
  BY DEF ListInv, Apart, KeepInv, Calls, Flows
<1>3. h'.v = v /\ h'.it = 0
  BY EnterFields
<1>4. op'["isr"].pc = "idle"
  BY <1>2, IdleIs
<1>5. Alone' <=> op["main"].v # v
  BY <1>3 DEF Alone
<1>6. CASE v \notin Hooked
  <2>1. h'.end = 0 /\ h'.buf = None /\ h'.due = {}
    BY <1>6, EnterFields DEF HasList
  <2> QED BY <1>4, <2>1, MaxCapNat DEF RunInv, DueInv, Relies
<1>7. CASE v \in Hooked
  <2>1. PICK n, b, r : n = Size(list[v]) /\ b = FoundAt(v) /\ r = registered[v]
    OBVIOUS
  <2>2. h'.end = n /\ h'.buf = b
    BY <1>7, <2>1, EnterFields DEF HasList, Size, FoundAt
  <2>3. /\ n \in Nat /\ n <= MaxCap
        /\ n # 0 => b # None /\ list[v] # None
        /\ n # 0 /\ lent[b] = v => \A k \in 0..(n - 1) : mem[b][k] \in Elements(r)
        /\ (b # None => lent[b] = v) =>
              \A q \in 1..Len(r) : r[q] = Doing(v).c \/ \E k \in 0..(n - 1) : Read(b, k) = r[q]
        /\ op["main"].v # v => n = Len(r) /\ (n # 0 => Lie(mem[b], r, 0, n - 1, 1))
        /\ b # None /\ lent[b] # v => n # 0
    BY <1>1, <1>7, <2>1, EnterShows
  <2>4. ASSUME NEW c \in h'.due
        PROVE  \E q \in 1..Len(r) : r[q] = c /\ c # Doing(v).c
    <3>0. h'.due = {x \in Callbacks[v] : \E i \in DOMAIN r :
                        r[i] = x /\ ~ (op["main"].v = v /\ op["main"].c = x)}
      BY <1>7, <2>1, EnterFields
    <3>1. /\ c \in Callbacks[v] /\ c # None
          /\ \E i \in DOMAIN r : r[i] = c /\ ~ (op["main"].v = v /\ op["main"].c = c)
      <4>1. c \in Callbacks[v] /\ \E i \in DOMAIN r : r[i] = c /\ ~ (op["main"].v = v /\ op["main"].c = c)
        BY <2>4, <3>0
      <4>2. {None, Zero, Junk} \cap Callbacks[v] = {}
        BY <1>7, InterruptsAssumption
      <4> QED BY <4>1, <4>2
    <3>2. DOMAIN r = 1..Len(r)
      BY <1>7, <2>1 DEF KeepInv, Registered
    <3>3. op["main"].v # v => Doing(v).c = None
      BY <1>2 DEF Doing, Idle
    <3>4. op["main"].v = v => Doing(v).c = op["main"].c
      BY DEF Doing
    <3> QED BY <3>1, <3>2, <3>3, <3>4
  <2>5. Relies' <=> (b # None => lent[b] = v)
    BY <1>3, <2>2 DEF Relies
  <2>6. RunInv'
    BY <1>3, <1>4, <1>5, <1>7, <2>1, <2>2, <2>3, <2>5 DEF RunInv
  <2>7. ASSUME Alone', NEW c \in h'.due
        PROVE  \E k \in 0..(n - 1) : registered[v][k + 1] = c
    <3>1. PICK q \in 1..Len(r) : r[q] = c
      BY <2>4
    <3>2. q - 1 \in 0..(n - 1) /\ (q - 1) + 1 = q
      BY <1>5, <2>3, <2>7
    <3>3. registered[v][(q - 1) + 1] = c
      BY <2>1, <3>1, <3>2
    <3> QED BY <3>2, <3>3
  <2>8. ASSUME Relies', NEW c \in h'.due
        PROVE  \E k \in 0..(n - 1) : Read(b, k) = c
    <3>1. PICK q \in 1..Len(r) : r[q] = c /\ c # Doing(v).c
      BY <2>4
    <3> QED BY <2>3, <2>5, <2>8, <3>1
  <2>9. ~ Relies' => 0 < n \/ h'.due = {}
    <3>1. ~ Relies' => n # 0
      BY <2>3, <2>5
    <3> QED BY <2>3, <3>1
  <2>10. DueInv'
    <3>1. \A k : Read(b, k)' = Read(b, k)
      BY DEF Read
    <3> QED BY <1>3, <2>2, <2>7, <2>8, <2>9, <3>1 DEF DueInv
  <2> QED BY <2>6, <2>10
<1> QED BY <1>6, <1>7

LEMMA AcceptFault ==
  ASSUME (\E l \in Lines : Accept(l)) \/ Fault
  PROVE  /\ \E v : Enter(v)
         /\ ~ Handling /\ wild' = wild /\ op' = op /\ list' = list /\ mem' = mem /\ lent' = lent
         /\ registered' = registered /\ free' = free
  BY DEF Accept, Fault, Runs, Lists

\* The fields of h that a step changes.
LEMMA CallNextFields ==
  ASSUME HType, CallNext
  PROVE  /\ Handling /\ h.it < h.end
         /\ h'.v = h.v /\ h'.end = h.end /\ h'.buf = h.buf /\ (h'.risky <=> h.risky) /\ Handling'
         /\ \/ /\ h'.it = h.it + 1 /\ h'.due = h.due \ {Read(h.buf, h.it)}
               /\ \E i \in DOMAIN registered[h.v] : registered[h.v][i] = Read(h.buf, h.it)
               /\ wild' = wild
            \/ /\ h' = h /\ wild' = TRUE
               /\ ~ \E i \in DOMAIN registered[h.v] : registered[h.v][i] = Read(h.buf, h.it)
<1> DEFINE c == Read(h.buf, h.it)
<1>1. h \in Handled /\ Handling /\ h.it < h.end
  BY DEF CallNext, Between, Runs, Handling, HType
<1>2. \/ /\ \E i \in DOMAIN registered[h.v] : registered[h.v][i] = c
         /\ h' = [h EXCEPT !.it = @ + 1, !.due = @ \ {c}] /\ wild' = wild
      \/ /\ ~ \E i \in DOMAIN registered[h.v] : registered[h.v][i] = c
         /\ h' = h /\ wild' = TRUE
  BY DEF CallNext
<1> HIDE DEF c
<1>3. Handling'
  BY CallNextHandled, HandledType DEF Handling
<1>4. CASE h' = h
  BY <1>1, <1>2, <1>3, <1>4 DEF c, Handled
<1>5. CASE h' = [h EXCEPT !.it = @ + 1, !.due = @ \ {c}]
  <2>1. h'.v = h.v /\ h'.end = h.end /\ h'.buf = h.buf /\ h'.it = h.it + 1 /\ h'.due = h.due \ {c}
    BY <1>1, <1>5 DEF Handled
  <2>2. h'.risky = h.risky
    BY <1>1, <1>5 DEF Handled
  <2> QED BY <1>1, <1>2, <1>3, <2>1, <2>2 DEF c
<1> QED BY <1>2, <1>4, <1>5

LEMMA CallNextRun ==
  ASSUME HType, RunInv, WildInv, CallNext
  PROVE  RunInv' /\ WildInv'
<1>1. op' = op /\ list' = list /\ mem' = mem /\ lent' = lent /\ registered' = registered
  BY DEF CallNext, Lists
<1>2. /\ h'.v = h.v /\ h'.end = h.end /\ h'.buf = h.buf /\ (Running' <=> Running)
  BY CallNextFields DEF Running
<1>3. RunInv'
  BY <1>1, <1>2 DEF RunInv, Alone, Relies
<1>4. WildInv'
  <2>1. CASE wild' = wild
    BY <1>1, <1>2, <2>1, CallNextFields DEF WildInv
  <2>2. CASE wild' # wild
    <3>1. ~ \E i \in DOMAIN registered[h.v] : registered[h.v][i] = Read(h.buf, h.it)
      BY <2>2, CallNextFields
    <3>2. CASE Running /\ Relies
      <4>0. h.it \in Nat /\ h.end \in Nat /\ h.it < h.end
        BY CallNextFields DEF HType, Handling, Handled
      <4>1. h.it \in 0..(h.end - 1) /\ h.end # 0 /\ h.end <= MaxCap
        BY <3>2, <4>0 DEF RunInv
      <4>2. mem[h.buf][h.it] \in Elements(registered[h.v]) /\ h.buf # None
        BY <3>2, <4>1 DEF RunInv
      <4>3. Read(h.buf, h.it) = mem[h.buf][h.it]
        <5>1. ~ (h.it >= MaxCap)
          BY <4>0, <4>1, MaxCapNat
        <5> QED BY <4>2, <5>1 DEF Read
      <4> QED BY <3>1, <4>2, <4>3 DEF Elements
    <3>3. CASE ~ (Running /\ Relies)
      <4>1. h.risky \/ (h.buf # None /\ lent[h.buf] # h.v)
        BY <3>3, CallNextFields DEF Running, Relies
      <4> QED BY <1>1, <1>2, <4>1, CallNextFields DEF WildInv
    <3> QED BY <3>2, <3>3
  <2> QED BY <2>1, <2>2
<1> QED BY <1>3, <1>4

LEMMA CallbackFields ==
  ASSUME HType, NEW v, NEW c, CallbackAdds(v, c) \/ CallbackRemoves(v, c)
  PROVE  /\ Handling /\ Handling' /\ wild' = wild /\ ~ wild
         /\ op["isr"] = Idle /\ op["main"].v # v
         /\ h'.v = h.v /\ h'.it = h.it /\ h'.end = h.end /\ h'.buf = h.buf /\ h'.due \subseteq h.due
         /\ ~ h'.risky => ~ h.risky /\ (v = h.v => CallAdd("isr", v, c))
<1>1. Handling /\ h \in Handled /\ wild' = wild /\ ~ wild /\ op["isr"] = Idle /\ op["main"].v # v
  BY DEF CallbackAdds, CallbackRemoves, Changes, Between, Runs, Handling, HType
<1>2. CASE CallbackAdds(v, c)
  <2>1. h' = h /\ CallAdd("isr", v, c)
    BY <1>2 DEF CallbackAdds
  <2> QED BY <1>1, <2>1 DEF Handling
<1>3. CASE CallbackRemoves(v, c)
  <2>1. Handling'
    BY <1>3, RemovesHandled, HandledType DEF Handling
  <2> DEFINE due == IF v = h.v THEN h.due \ {c} ELSE h.due
             risky == h.risky \/ v = h.v
  <2>2. h' = [h EXCEPT !.due = due, !.risky = risky] /\ due \subseteq h.due
    BY <1>3 DEF CallbackRemoves
  <2>3. h'.risky = risky
    BY <1>1, <2>2 DEF Handled
  <2>4. h'.v = h.v /\ h'.it = h.it /\ h'.end = h.end /\ h'.buf = h.buf /\ h'.due = due
    <3> HIDE DEF due, risky
    <3> QED BY <1>1, <2>2 DEF Handled
  <2>5. ~ h'.risky => ~ h.risky /\ v # h.v
    BY <2>3
  <2> HIDE DEF due, risky
  <2> QED BY <1>1, <2>1, <2>2, <2>4, <2>5
<1> QED BY <1>2, <1>3

\* A callback begins to change a list.
LEMMA CallbackRun ==
  ASSUME ListInv, HType, RunInv, NEW v \in Hooked, NEW c \in Callbacks[v],
         CallbackAdds(v, c) \/ CallbackRemoves(v, c)
  PROVE  RunInv' /\ (DueInv => DueInv')
<1>1. /\ list' = list /\ mem' = mem /\ lent' = lent /\ registered' = registered
      /\ CallAdd("isr", v, c) \/ CallRemove("isr", v, c)
  BY DEF CallbackAdds, CallbackRemoves, CallAdd, CallRemove, Lists
<1>2. op'["main"] = op["main"] /\ op'["isr"].v = v
  BY <1>1 DEF CallAdd, CallRemove, ListInv, OpType, Flows, Idle
<1> SUFFICES ASSUME Running' PROVE RunInv' /\ (DueInv => DueInv')
  BY DEF RunInv, DueInv
<1>3. /\ Running /\ (v = h.v => CallAdd("isr", v, c))
      /\ h'.v = h.v /\ h'.it = h.it /\ h'.end = h.end /\ h'.buf = h.buf /\ h'.due \subseteq h.due
  BY CallbackFields DEF Running
<1>4. v = h.v => op'["isr"].pc = "add"
  BY <1>3 DEF CallAdd, ListInv, OpType, Flows, Idle
<1>5. (Alone' <=> Alone) /\ (Relies' <=> Relies)
  BY <1>1, <1>2, <1>3 DEF Alone, Relies
<1>6. RunInv'
  BY <1>1, <1>2, <1>3, <1>4, <1>5 DEF RunInv
<1>7. ASSUME DueInv PROVE DueInv'
  <2>1. \A k : Read(h.buf, k)' = Read(h.buf, k)
    BY <1>1, <1>3 DEF Read
  <2>2. h'.due \subseteq h.due /\ h'.it = h.it /\ h'.end = h.end /\ h'.v = h.v /\ Running
    BY <1>3
  <2>3. Alone' => \A x \in h'.due : \E k \in h'.it..(h'.end - 1) : registered'[h'.v][k + 1] = x
    BY <1>1, <1>5, <1>7, <2>2 DEF DueInv
  <2>4. ~ Alone' /\ Relies' => \A x \in h'.due : \E k \in h'.it..(h'.end - 1) : Read(h.buf, k)' = x
    BY <1>5, <1>7, <2>1, <2>2 DEF DueInv
  <2>5. ~ Alone' /\ ~ Relies' => h'.it < h'.end \/ h'.due = {}
    BY <1>5, <1>7, <2>2 DEF DueInv
  <2> QED BY <2>3, <2>4, <2>5 DEF DueInv
<1> QED BY <1>6, <1>7

\* A list that is being grown is there.
LEMMA Growing ==
  ASSUME ListInv, NEW v \in Hooked, Doing(v).pc = "grow", Stale(v)
  PROVE  list[v] # None /\ list[v].buf \in Buffers
<1>1. list[v].buf # None
  BY DEF Stale
<1>2. PICK g \in Flows : Doing(v) = op[g] /\ op[g].v = v
  BY IdleIs DEF Doing, Flows
<1>3. Finds(op[g], list[v])
  BY <1>2 DEF ListInv, Working
<1>4. list[v] # None
  BY <1>2, <1>3 DEF Finds
<1>5. list[v] \in Vectors
  BY <1>4 DEF ListInv, ListType
<1> QED BY <1>1, <1>4, <1>5, VectorType

LEMMA StaleSame ==
  ASSUME ListInv, NEW v \in Hooked, Stale(v), Doing(v)'.pc = "grow" => Doing(v).pc = "grow",
         list' = list, registered' = registered, lent' = lent, mem' = mem \/ mem' = Known(mem, None)
  PROVE  Stale(v)'
<1> SUFFICES ASSUME Doing(v)'.pc = "grow" PROVE Stale(v)'
  BY DEF Stale
<1>1. list[v] # None /\ list[v].buf \in Buffers
  BY Growing
<1>2. mem'[list[v].buf] = mem[list[v].buf]
  BY <1>1 DEF Known, Forgotten
<1> QED BY <1>2 DEF Stale

LEMMA CellsSame ==
  ASSUME OwnCells, lent' = lent, mem' = mem \/ mem' = Known(mem, None)
  PROVE  OwnCells'
<1>1. ASSUME NEW b \in Buffers, NEW k \in 0..(MaxCap - 1)
      PROVE  (mem'[b][k] = mem[b][k] /\ lent'[b] = lent[b]) \/ CellOf(b, mem[b][k])'
  <2>1. mem'[b] = mem[b] \/ mem'[b] = Blank
    BY DEF Known
  <2> QED BY <2>1, BlankCell
<1> QED BY <1>1, CellsChange

LEMMA CallGrowsNot ==
  ASSUME OpType, NEW f \in Flows, op[f] = Idle, NEW v \in Hooked, NEW c,
         CallAdd(f, v, c) \/ CallRemove(f, v, c), NEW w \in Hooked
  PROVE  Doing(w)'.pc = "grow" => Doing(w).pc = "grow"
<1>1. op'[f].pc \in {"add", "check"} /\ op[f].v = None /\ \A g \in Flows \ {f} : op'[g] = op[g]
  BY IdleIs DEF CallAdd, CallRemove, OpType, Idle
<1> QED BY <1>1, IdleIs DEF Doing, Flows

LEMMA NextDispatch ==
  ASSUME IInv, IInv', KeepInv, KeepInv', DispatchInv, [Next]_vars
  PROVE  DispatchInv'
<1>0. /\ ListInv /\ ListInv' /\ RestInv /\ HType /\ RunInv /\ WildInv /\ OwnCells
      /\ \A w \in Hooked : Stale(w)
  BY DEF IInv, DispatchInv
<1>1. ASSUME NEW f \in Flows, Routine(f) PROVE DispatchInv'
  <2>1. ~ wild /\ wild' = wild
    BY <1>0, <1>1, RoutineFrame DEF Within, Runs
  <2>2. WildInv'
    BY <2>1 DEF WildInv
  <2>3. \A w \in Hooked : Stale(w)'
    BY <1>0, <1>1, RoutineStale
  <2>4. RunInv'
    BY <1>0, <1>1, RoutineRun
  <2>5. OwnCells'
    BY <1>0, <1>1, RoutineCells
  <2> QED BY <2>2, <2>3, <2>4, <2>5 DEF DispatchInv
<1>2. ASSUME list' = list, registered' = registered, lent' = lent, mem' = mem \/ mem' = Known(mem, None),
             \A w \in Hooked : Doing(w)'.pc = "grow" => Doing(w).pc = "grow"
      PROVE  (\A w \in Hooked : Stale(w)') /\ OwnCells'
  <2>1. OwnCells'
    BY <1>0, <1>2, CellsSame
  <2>2. ASSUME NEW w \in Hooked PROVE Stale(w)'
    BY <1>0, <1>2, StaleSame
  <2> QED BY <2>1, <2>2
<1>3. ASSUME op' = op PROVE \A w \in Hooked : Doing(w)'.pc = "grow" => Doing(w).pc = "grow"
  BY <1>3 DEF Doing
<1>4. CASE (\E l \in Lines : Accept(l)) \/ Fault
  <2>1. /\ ~ Handling /\ wild' = wild /\ op' = op /\ list' = list /\ mem' = mem /\ lent' = lent
        /\ registered' = registered
    BY <1>4, AcceptFault
  <2>2. PICK v : Enter(v)
    BY <1>4, AcceptFault
  <2>3. RunInv'
    BY <1>0, <2>1, <2>2, EnterRun
  <2>4. ~ wild
    BY <1>4 DEF Accept, Fault, Runs
  <2>5. WildInv'
    BY <2>1, <2>4 DEF WildInv
  <2>6. (\A w \in Hooked : Stale(w)') /\ OwnCells'
    BY <1>2, <1>3, <2>1
  <2> QED BY <2>3, <2>5, <2>6 DEF DispatchInv
<1>5. CASE CallNext
  <2>1. RunInv' /\ WildInv'
    BY <1>0, <1>5, CallNextRun
  <2>2. op' = op /\ list' = list /\ registered' = registered /\ lent' = lent /\ mem' = mem
    BY <1>5 DEF CallNext, Lists
  <2>3. (\A w \in Hooked : Stale(w)') /\ OwnCells'
    BY <1>2, <1>3, <2>2
  <2> QED BY <2>1, <2>3 DEF DispatchInv
<1>6. CASE Leave
  <2>1. /\ op' = op /\ list' = list /\ registered' = registered /\ lent' = lent
        /\ mem' = Known(mem, None) /\ wild' = wild /\ ~ wild /\ h' = None
    BY <1>6 DEF Leave, Between, Runs
  <2>2. RunInv' /\ WildInv'
    BY <2>1 DEF RunInv, WildInv, Running, Handling
  <2>3. (\A w \in Hooked : Stale(w)') /\ OwnCells'
    BY <1>2, <1>3, <2>1
  <2> QED BY <2>2, <2>3 DEF DispatchInv
<1>7. CASE (\E l \in Lines : Request(l)) \/ UNCHANGED vars
  <2>1. /\ op' = op /\ list' = list /\ registered' = registered /\ lent' = lent
        /\ mem' = mem /\ wild' = wild /\ h' = h
    BY <1>7 DEF Request, Lists, vars
  <2>2. RunInv' /\ WildInv'
    BY <1>0, <2>1 DEF RunInv, WildInv, Running, Handling, Alone, Relies
  <2>3. (\A w \in Hooked : Stale(w)') /\ OwnCells'
    BY <1>2, <1>3, <2>1
  <2> QED BY <2>2, <2>3 DEF DispatchInv
<1>8. ASSUME NEW v \in Hooked, NEW c \in Callbacks[v], MainAdds(v, c) \/ MainRemoves(v, c)
      PROVE  DispatchInv'
  <2>1. /\ op["main"] = Idle /\ ~ wild /\ wild' = wild /\ ~ Handling /\ h' = h
        /\ CallAdd("main", v, c) \/ CallRemove("main", v, c)
    BY <1>8 DEF MainAdds, MainRemoves, Runs
  <2>2. list' = list /\ registered' = registered /\ lent' = lent /\ mem' = mem
    BY <2>1 DEF CallAdd, CallRemove, Lists
  <2>3. RunInv' /\ WildInv'
    BY <2>1 DEF RunInv, WildInv, Running, Handling
  <2>4. \A w \in Hooked : Doing(w)'.pc = "grow" => Doing(w).pc = "grow"
    <3>1. OpType /\ "main" \in Flows
      BY <1>0 DEF ListInv, Flows
    <3> QED BY <2>1, <3>1, CallGrowsNot
  <2>5. (\A w \in Hooked : Stale(w)') /\ OwnCells'
    BY <1>2, <2>2, <2>4
  <2> QED BY <2>3, <2>5 DEF DispatchInv
<1>9. ASSUME NEW v \in Hooked, NEW c \in Callbacks[v], CallbackAdds(v, c) \/ CallbackRemoves(v, c)
      PROVE  DispatchInv'
  <2>1. op["isr"] = Idle /\ ~ wild /\ wild' = wild
    BY <1>0, <1>9, CallbackFields
  <2>2. CallAdd("isr", v, c) \/ CallRemove("isr", v, c)
    BY <1>9 DEF CallbackAdds, CallbackRemoves
  <2>3. list' = list /\ registered' = registered /\ lent' = lent /\ mem' = mem
    BY <2>2 DEF CallAdd, CallRemove, Lists
  <2>4. RunInv' /\ WildInv'
    BY <1>0, <1>9, <2>1, CallbackRun DEF WildInv
  <2>5. \A w \in Hooked : Doing(w)'.pc = "grow" => Doing(w).pc = "grow"
    <3>1. OpType /\ "isr" \in Flows
      BY <1>0 DEF ListInv, Flows
    <3> QED BY <2>1, <2>2, <3>1, CallGrowsNot
  <2>6. (\A w \in Hooked : Stale(w)') /\ OwnCells'
    BY <1>2, <2>3, <2>5
  <2> QED BY <2>4, <2>6 DEF DispatchInv
<1> QED BY <1>1, <1>4, <1>5, <1>6, <1>7, <1>8, <1>9 DEF Next, Handler

LEMMA InitDispatch == Init => DispatchInv
<1> SUFFICES ASSUME Init PROVE DispatchInv
  OBVIOUS
<1>1. RunInv /\ WildInv
  BY DEF Init, RunInv, WildInv, Running, Handling
<1>2. ASSUME NEW w \in Hooked PROVE Stale(w)
  <2>1. Doing(w) = Idle
    BY DEF Init, Doing, Flows
  <2> QED BY <2>1, IdleIs DEF Stale
<1>3. OwnCells
  BY BlankCell DEF Init, OwnCells
<1> QED BY <1>1, <1>2, <1>3 DEF DispatchInv

LEMMA DispatchInvariance == Spec => [](IInv /\ KeepInv /\ DispatchInv)
<1>1. Init => IInv /\ KeepInv /\ DispatchInv
  BY InitIInv, InitKeep, InitDispatch
<1>2. IInv /\ KeepInv /\ DispatchInv /\ [Next]_vars => (IInv /\ KeepInv /\ DispatchInv)'
  <2> SUFFICES ASSUME IInv, KeepInv, DispatchInv, [Next]_vars PROVE (IInv /\ KeepInv /\ DispatchInv)'
    OBVIOUS
  <2>1. IInv'
    BY NextIInv
  <2>2. KeepInv'
    BY <2>1, NextKeep
  <2> QED BY <2>1, <2>2, NextDispatch
<1> QED BY <1>1, <1>2, PTL DEF Spec

\* A dispatch calls what is registered for its vector and nothing else, unless
\* it began while main was storing an element or moving one out, one of its
\* callbacks removes from the list it runs over, or the buffer it runs over was
\* freed by realloc and given to another vector, to a Vector object or to
\* another block: wherever interrupts stop main, however the callbacks make
\* lists grow, and for lists of any capacity.
THEOREM DispatchIsExact == Spec => []OnlyRegisteredCalled
<1>1. DispatchInv => OnlyRegisteredCalled
  BY DEF DispatchInv, WildInv, OnlyRegisteredCalled
<1> QED BY <1>1, DispatchInvariance, PTL

\* No callback is written for two vectors.
CallbacksApart == \A v, w \in Hooked : v # w => Callbacks[v] \cap Callbacks[w] = {}

LEMMA RoutineDue ==
  ASSUME ListInv, ListInv', HType, KeepInv, RestInv, RunInv, DueInv, NEW f \in Flows, Routine(f)
  PROVE  DueInv'
<1>v. PICK v : v = op[f].v
  OBVIOUS
<1>1. v \in Hooked /\ Runs(f) /\ op[f].pc # "idle"
  BY <1>v, RoutineFrame
<1>2. PICK o : Within(f, v, o)
  BY <1>v, RoutineFrame
<1>3. h' = h
  BY <1>2 DEF Within
<1> SUFFICES ASSUME Running PROVE DueInv'
  BY <1>3 DEF DueInv, Running, Handling
<1>4. f = "isr"
  BY <1>1 DEF Flows, Runs, Running
<1>5. op'["main"] = op["main"]
  BY <1>2, <1>4 DEF Within, OpStep, ListInv, OpType, Flows
<1>6. Alone' <=> Alone
  BY <1>3, <1>5 DEF Alone
<1>7. /\ h.end \in Nat /\ h.it \in Nat /\ h.buf \in Buffers \cup {None}
      /\ h.end # 0 => h.v \in Hooked
  BY DEF RunInv, Running, Handling, HType, Handled
<1>8. ASSUME Alone, NEW c \in h.due
      PROVE  \E k \in h.it..(h.end - 1) : registered'[h.v][k + 1] = c
  <2>1. PICK k \in h.it..(h.end - 1) : registered[h.v][k + 1] = c
    BY <1>8 DEF DueInv
  <2>2. h.end # 0 /\ h.v \in Hooked
    BY <1>7
  <2>3. h.end <= Len(registered[h.v])
    BY <1>8, <2>2 DEF RunInv
  <2>4. CASE v # h.v
    <3>1. registered'[h.v] = registered[h.v]
      BY <1>2, <2>2, <2>4 DEF Within
    <3> QED BY <2>1, <3>1
  <2>5. CASE v = h.v
    <3>1. op[f].pc \in {"idle", "add", "stuck", "grow", "store"}
      BY <1>v, <1>4, <2>5 DEF RunInv
    <3>2. registered' = registered \/ registered' = [registered EXCEPT ![v] = Append(@, op[f].c)]
      BY <1>v, <3>1 DEF Routine, HeapTakes, NewVector, NewFails, ExpandInPlace, ExpandMoves, ExpandFails, Grow,
                 CountElement, StoreElement, RemoveEnds, CheckOther, RemoveBegins, TearCell,
                 CopyCell, UncountElement, At, Lists
    <3>3. registered[v] \in Seq(Callbacks[v]) /\ op[f].c \in Callbacks[v]
      BY <1>v, <1>1, OwnFacts
    <3>4. k + 1 \in 1..Len(registered[v])
      BY <1>7, <2>3, <2>5, <3>3
    <3>5. Append(registered[v], op[f].c)[k + 1] = registered[v][k + 1]
      BY <3>3, <3>4, AppendProperties
    <3>6. registered'[v][k + 1] = registered[v][k + 1]
      BY <1>1, <3>2, <3>5 DEF KeepInv, Registered
    <3> QED BY <2>1, <2>5, <3>6
  <2> QED BY <2>4, <2>5
<1>9. ASSUME ~ Alone
      PROVE  Relies' => Relies /\ \A k : Read(h.buf, k)' = Read(h.buf, k)
  <2>1. v # h.v
    BY <1>v, <1>1, <1>4, <1>9 DEF Alone, ListInv, Apart
  <2>2. CASE h.buf = None
    BY <1>3, <2>2 DEF Relies, Read
  <2>3. CASE h.buf # None
    <3>1. h.buf \in Buffers /\ Watched(v, h.buf)
      BY <1>7, <2>3 DEF Watched, Running
    <3>3. h.v # None
      <4>1. h.v \in Nat
        <5>1. h.v = PF \/ \E l \in Lines : h.v = Stub(l)
          BY HandledVector DEF Running
        <5> QED BY <5>1, LineType DEF PF
      <4> QED BY <4>1, InterruptsAssumption
    <3>2. lent'[h.buf] = h.v => mem'[h.buf] = mem[h.buf] /\ lent'[h.buf] = lent[h.buf]
      BY <1>v, <2>1, <3>1, <3>3, RoutineElsewhere DEF Spares
    <3> QED BY <1>3, <2>3, <3>2 DEF Relies, Read
  <2> QED BY <2>2, <2>3
<1>10. Alone' => \A c \in h'.due : \E k \in h'.it..(h'.end - 1) : registered'[h'.v][k + 1] = c
  BY <1>3, <1>6, <1>8
<1>11. ~ Alone' /\ Relies' => \A c \in h'.due : \E k \in h'.it..(h'.end - 1) : Read(h.buf, k)' = c
  BY <1>3, <1>6, <1>9 DEF DueInv
<1>12. ASSUME ~ Alone PROVE h.it < h.end \/ h.due = {}
  <2>1. CASE Relies
    <3>1. \A c \in h.due : \E k \in h.it..(h.end - 1) : Read(h.buf, k) = c
      BY <1>12, <2>1 DEF DueInv
    <3>2. ~ (h.it < h.end) => h.it..(h.end - 1) = {}
      BY <1>7
    <3> QED BY <3>1, <3>2
  <2>2. CASE ~ Relies
    BY <1>12, <2>2 DEF DueInv
  <2> QED BY <2>1, <2>2
<1> QED BY <1>3, <1>6, <1>10, <1>11, <1>12 DEF DueInv

\* A call that goes through is read from the list's own buffer.
LEMMA CallNextRelies ==
  ASSUME CallbacksApart, HType, KeepInv, RestInv, RunInv, OwnCells, Running, CallNext,
         \E i \in DOMAIN registered[h.v] : registered[h.v][i] = Read(h.buf, h.it)
  PROVE  Relies
<1> SUFFICES ASSUME h.buf # None, lent[h.buf] # h.v PROVE FALSE
  BY DEF Relies
<1>1. h.it \in Nat /\ h.end \in Nat /\ h.it < h.end /\ h.buf \in Buffers
  BY CallNextFields DEF HType, Handling, Handled
<1>2. h.v \in Hooked /\ h.end <= MaxCap
  BY <1>1 DEF RunInv
<1>3. h.it \in 0..(MaxCap - 1) /\ ~ (h.it >= MaxCap)
  BY <1>1, <1>2, MaxCapNat
<1>4. Read(h.buf, h.it) \in Callbacks[h.v]
  <2>1. registered[h.v] \in Seq(Callbacks[h.v])
    BY <1>2 DEF KeepInv, Registered
  <2> QED BY <2>1
<1>5. CellOf(h.buf, Read(h.buf, h.it))
  BY <1>1, <1>3 DEF OwnCells, Read
<1>6. Read(h.buf, h.it) \notin {Zero, Junk}
  BY <1>2, <1>4, InterruptsAssumption
<1>7. lent[h.buf] \in Hooked
  BY <1>1, <1>5, <1>6 DEF CellOf, RestInv
<1> QED BY <1>2, <1>4, <1>5, <1>6, <1>7 DEF CellOf, CallbacksApart

LEMMA CallNextDue ==
  ASSUME CallbacksApart, HType, KeepInv, RestInv, RunInv, OwnCells, DueInv, CallNext
  PROVE  DueInv'
<1>1. op' = op /\ list' = list /\ mem' = mem /\ lent' = lent /\ registered' = registered
  BY DEF CallNext, Lists
<1>2. /\ h'.v = h.v /\ h'.end = h.end /\ h'.buf = h.buf /\ (Running' <=> Running)
      /\ (Alone' <=> Alone) /\ (Relies' <=> Relies)
  BY <1>1, CallNextFields DEF Running, Alone, Relies
<1>3. \A k : Read(h.buf, k)' = Read(h.buf, k)
  BY <1>1, <1>2 DEF Read
<1> SUFFICES ASSUME Running PROVE DueInv'
  BY <1>2 DEF DueInv
<1>4. CASE h' = h
  BY <1>1, <1>2, <1>3, <1>4 DEF DueInv
<1>5. CASE h' # h
  <2> DEFINE c == Read(h.buf, h.it)
  <2>1. /\ h'.it = h.it + 1 /\ h'.due = h.due \ {c}
        /\ \E i \in DOMAIN registered[h.v] : registered[h.v][i] = c
    BY <1>5, CallNextFields
  <2>2. Relies
    BY <2>1, CallNextRelies
  <2>3. h.it \in Nat /\ h.end \in Nat /\ h.it < h.end
    BY CallNextFields DEF HType, Handling, Handled
  <2>4. \A k \in h.it..(h.end - 1) : k = h.it \/ k \in h'.it..(h'.end - 1)
    BY <1>2, <2>1, <2>3
  <2>5. ASSUME Alone PROVE registered[h.v][h.it + 1] = c
    <3>1. h.end # 0 /\ h.it \in 0..(h.end - 1)
      BY <2>3
    <3>2. Lie(mem[h.buf], registered[h.v], 0, h.end - 1, 1) /\ h.buf # None /\ h.end <= MaxCap
      BY <2>2, <2>5, <3>1 DEF RunInv
    <3>3. mem[h.buf][h.it] = registered[h.v][h.it + 1]
      BY <3>1, <3>2 DEF Lie
    <3>4. ~ (h.it >= MaxCap)
      BY <2>3, <3>2, MaxCapNat
    <3> QED BY <3>2, <3>3, <3>4 DEF Read
  <2> HIDE DEF c
  <2>6. ASSUME Alone, NEW x \in h'.due
        PROVE  \E k \in h'.it..(h'.end - 1) : registered[h.v][k + 1] = x
    <3>1. x \in h.due /\ x # c
      BY <2>1, <2>6
    <3>2. PICK k \in h.it..(h.end - 1) : registered[h.v][k + 1] = x
      BY <2>6, <3>1 DEF DueInv
    <3>3. k # h.it
      BY <2>5, <2>6, <3>1, <3>2
    <3> QED BY <2>4, <3>2, <3>3
  <2>7. ASSUME ~ Alone, NEW x \in h'.due
        PROVE  \E k \in h'.it..(h'.end - 1) : Read(h.buf, k) = x
    <3>1. x \in h.due /\ x # c
      BY <2>1, <2>7
    <3>2. PICK k \in h.it..(h.end - 1) : Read(h.buf, k) = x
      BY <2>2, <2>7, <3>1 DEF DueInv
    <3>3. k # h.it
      BY <3>1, <3>2 DEF c
    <3> QED BY <2>4, <3>2, <3>3
  <2> QED BY <1>1, <1>2, <1>3, <2>2, <2>6, <2>7 DEF DueInv
<1> QED BY <1>4, <1>5

LEMMA NextDue ==
  ASSUME CallbacksApart, IInv, IInv', KeepInv, DispatchInv, DueInv, [Next]_vars
  PROVE  DueInv'
<1>0. /\ ListInv /\ ListInv' /\ RestInv /\ HType /\ RunInv /\ OwnCells
      /\ \A w \in Hooked : Stale(w)
  BY DEF IInv, DispatchInv
<1>1. ASSUME NEW f \in Flows, Routine(f) PROVE DueInv'
  BY <1>0, <1>1, RoutineDue
<1>2. CASE (\E l \in Lines : Accept(l)) \/ Fault
  <2>1. /\ ~ Handling /\ op' = op /\ list' = list /\ mem' = mem /\ lent' = lent
        /\ registered' = registered
    BY <1>2, AcceptFault
  <2>2. PICK v : Enter(v)
    BY <1>2, AcceptFault
  <2> QED BY <1>0, <2>1, <2>2, EnterRun
<1>3. CASE CallNext
  BY <1>0, <1>3, CallNextDue
<1>4. CASE Leave
  <2>1. h' = None
    BY <1>4 DEF Leave
  <2> QED BY <2>1 DEF DueInv, Running, Handling
<1>5. CASE (\E l \in Lines : Request(l)) \/ UNCHANGED vars
  <2>1. /\ op' = op /\ registered' = registered /\ lent' = lent /\ mem' = mem /\ h' = h
    BY <1>5 DEF Request, Lists, vars
  <2>2. \A k : Read(h.buf, k)' = Read(h.buf, k)
    BY <2>1 DEF Read
  <2> QED BY <2>1, <2>2 DEF DueInv, Running, Handling, Alone, Relies
<1>6. ASSUME NEW v \in Hooked, NEW c \in Callbacks[v], MainAdds(v, c) \/ MainRemoves(v, c)
      PROVE  DueInv'
  <2>1. ~ Handling /\ h' = h
    BY <1>6 DEF MainAdds, MainRemoves, Runs
  <2> QED BY <2>1 DEF DueInv, Running, Handling
<1>7. ASSUME NEW v \in Hooked, NEW c \in Callbacks[v], CallbackAdds(v, c) \/ CallbackRemoves(v, c)
      PROVE  DueInv'
  BY <1>0, <1>7, CallbackRun
<1> QED BY <1>1, <1>2, <1>3, <1>4, <1>5, <1>6, <1>7 DEF Next, Handler

LEMMA HandlingStays ==
  ASSUME HType, Handling, h' = None, Next
  PROVE  Leave
<1>1. h' # h
  BY DEF Handling
<1>2. ASSUME NEW f \in Flows, Routine(f) PROVE h' = h
  BY <1>2 DEF Routine, HeapTakes, NewVector, NewFails, ExpandInPlace, ExpandMoves, ExpandFails, Grow,
              CountElement, StoreElement, RemoveEnds, CheckOther, RemoveBegins, TearCell,
              CopyCell, UncountElement
<1>3. CallNext => Handling'
  BY CallNextFields
<1>4. \A v, c : CallbackAdds(v, c) \/ CallbackRemoves(v, c) => Handling'
  BY CallbackFields
<1>5. ~ Handling'
  BY DEF Handling
<1> QED BY <1>1, <1>2, <1>3, <1>4, <1>5
     DEF Next, Handler, Accept, Fault, Runs, Request, MainAdds, MainRemoves

LEMMA DueInvariance ==
  ASSUME CallbacksApart
  PROVE  Spec => [](IInv /\ KeepInv /\ DispatchInv /\ DueInv)
<1>1. Init => IInv /\ KeepInv /\ DispatchInv /\ DueInv
  <2>1. Init => DueInv
    BY DEF Init, DueInv, Running, Handling
  <2> QED BY <2>1, InitIInv, InitKeep, InitDispatch
<1>2. IInv /\ KeepInv /\ DispatchInv /\ DueInv /\ [Next]_vars => (IInv /\ KeepInv /\ DispatchInv /\ DueInv)'
  <2> SUFFICES ASSUME IInv, KeepInv, DispatchInv, DueInv, [Next]_vars
               PROVE  (IInv /\ KeepInv /\ DispatchInv /\ DueInv)'
    OBVIOUS
  <2>1. IInv'
    BY NextIInv
  <2>2. KeepInv'
    BY <2>1, NextKeep
  <2> QED BY <2>1, <2>2, NextDispatch, NextDue
<1> QED BY <1>1, <1>2, PTL DEF Spec

\* A dispatch has called, when it ends, every callback that was registered when
\* it began and that nobody was removing, wherever it stopped main and whatever
\* the callbacks have added, unless it began in a window of InWindow or one of
\* them has removed from this very list; of callbacks written for one vector
\* each.
THEOREM NobodyIsMissed ==
  ASSUME CallbacksApart
  PROVE  Spec => NobodyMissed
<1>1. IInv /\ DueInv /\ [Next]_vars => [Handling /\ h' = None /\ ~ h.risky => h.due = {}]_vars
  <2> SUFFICES ASSUME IInv, DueInv, [Next]_vars, Handling, h' = None, ~ h.risky PROVE h.due = {}
    OBVIOUS
  <2>1. Next
    BY DEF vars, Handling
  <2>2. Leave /\ HType
    BY <2>1, HandlingStays DEF IInv
  <2>3. h.it = h.end /\ h.it \in Nat
    BY <2>2 DEF Leave, HType, Handling, Handled
  <2>4. h.it..(h.end - 1) = {} /\ ~ (h.it < h.end) /\ Running
    BY <2>3 DEF Running
  <2> QED BY <2>4 DEF DueInv
<1> QED BY <1>1, DueInvariance, PTL DEF Spec, NobodyMissed
=============================================================================
