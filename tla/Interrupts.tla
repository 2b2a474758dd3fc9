----------------------------- MODULE Interrupts -----------------------------
(***************************************************************************)
(* Interrupts of the kernel: the two interrupt controllers as              *)
(* init_interrupts sets them up, the stub and the handler every interrupt  *)
(* goes through, and the list of callbacks of each vector, a Vector of     *)
(* include/vector.hpp that AddCallback and RemoveCallback change while     *)
(* interrupts are enabled.                                                 *)
(*                                                                         *)
(* Two flows run the same routines: "main", which an interrupt stops       *)
(* between any two of its steps, and "isr", a callback called by the       *)
(* handler, with interrupts disabled (the gates are interrupt gates). A    *)
(* step of a routine is a store that the other flow can see; the steps     *)
(* are those of a build without optimisation, the default of the Makefile. *)
(***************************************************************************)
EXTENDS Naturals, Sequences

CONSTANTS
    Callbacks,    \* by vector, the callbacks written for it
    Lines,        \* interrupt lines with a device, 0..7 and 8..15
    Hooked,       \* bound: vectors whose list of callbacks changes
    Buffers,      \* bound: blocks the heap can give to a Vector
    Fit,          \* bound: by vector, how much larger than needed each is
    MaxAdds,      \* bound: by vector, the callbacks registered at a time
    MaxCap,       \* bound: the capacity that MaxAdds callbacks need
    MaxAsked,     \* bound: interrupts, faults and changes by callbacks
    None

VARIABLES
    irr,          \* lines requested and not yet in service
    isr,          \* lines in service, of both controllers
    list,         \* callbacks[vector]: None or the fields of a Vector
    mem,          \* contents of the buffers
    free,         \* buffers the heap can give away
    lent,         \* history: the vector each was last given to, None if another
    op,           \* the routine each flow is in
    h,            \* the interrupt being handled, None if there is none
    registered,   \* history: by vector, the callbacks that are registered
    asked,        \* history: how many of these there were
    wild          \* history: a dispatch called what is not registered

vars == <<irr, isr, list, mem, free, lent, op, h, registered, asked, wild>>

Cascade == 2
PF      == 14     \* page fault, raised by the main flow itself
Zero    == "zero" \* T{}
Junk    == "junk" \* what nobody can tell: a half-copied pointer, what lies
                  \* after a buffer, or what others have written into it
Flows   == {"main", "isr"}

Cells == {Zero, Junk} \cup UNION {Callbacks[v] : v \in Hooked}

ASSUME InterruptsAssumption ==
    /\ Lines \subseteq 0..15 \ {Cascade}
    /\ Buffers \subseteq Nat
    /\ Fit \in [Hooked -> [Buffers -> Nat]]
    /\ MaxCap \in Nat \ {0}
    /\ MaxAdds \in [Hooked -> 1..MaxCap]
    /\ \A v \in Hooked : 2 * (MaxAdds[v] - 1) <= MaxCap
    /\ MaxAsked \in Nat
    /\ Hooked \subseteq 0..47   \* vector < MAX_VECTORS
    /\ DOMAIN Callbacks = Hooked
    /\ \A v \in Hooked : {None, Zero, Junk} \cap Callbacks[v] = {}
    /\ None \notin Nat
    /\ None \notin [buf : Buffers \cup {None}, cap : Nat, cnt : Nat]
    /\ None \notin [v : Nat, it : Nat, risky : BOOLEAN, end : Nat,
                    buf : Buffers \cup {None}, due : SUBSET Cells]

Vector(buf, cap, cnt) == [buf |-> buf, cap |-> cap, cnt |-> cnt]

Idle == [pc |-> "idle", v |-> None, c |-> None, i |-> 0, j |-> 0, buf |-> None]

Blank == [i \in 0..(MaxCap - 1) |-> Junk]

\* What lies in a free buffer that nobody reads is forgotten.
Forgotten(b, read) == /\ b \in free /\ b # read
                      /\ \A v \in Hooked : list'[v] # None => list'[v].buf # b

Known(m, read) == [b \in Buffers |-> IF Forgotten(b, read) THEN Blank ELSE m[b]]

\* Vectors the interrupt descriptor table has a gate for.
Gates == 0..14 \cup 16..20 \cup {30} \cup 32..47

\* After init_interrupts: no line is masked, no callback is registered.
Init == /\ irr = {} /\ isr = {}
        /\ list = [v \in Hooked |-> None]
        /\ mem = [b \in Buffers |-> Blank]
        /\ free = Buffers
        /\ lent = [b \in Buffers |-> None]
        /\ op = [f \in Flows |-> Idle]
        /\ h = None
        /\ registered = [v \in Hooked |-> << >>]
        /\ asked = 0
        /\ wild = FALSE

Handling == h # None

Reads == IF Handling THEN h.buf ELSE None

First(l) == l < 8

\* The vector that the stub of a line pushes.
Stub(l) == 32 + l

Passes(l) == /\ \A k \in isr : First(k) => (IF First(l) THEN l ELSE Cascade) < k
             /\ ~ First(l) => \A k \in isr : First(k) \/ l < k

Rank(l) == IF First(l) THEN 10 * l ELSE 10 * Cascade + l - 7

Raised == {l \in irr : Passes(l)}

\* A flow runs: a callback within its call, main while nothing is handled and
\* no interrupt is to be taken, which comes before its next step. A behaviour
\* is followed up to its first wild call.
Runs(f) == ~ wild /\ IF f = "isr" THEN Handling ELSE ~ Handling /\ Raised = {}

At(f, pc) == Runs(f) /\ op[f].pc = pc

Goto(f, pc) == op' = [op EXCEPT ![f].pc = pc]

Ends(f) == op' = [op EXCEPT ![f] = Idle]

Read(b, i) == IF b = None \/ i >= MaxCap THEN Junk ELSE mem[b][i]

(***************************************************************************)
(* AddCallback: a new Vector for the first callback of a vector, then      *)
(* Push, which expands a full one, counts the element and stores it.       *)
(***************************************************************************)
Lists == <<list, mem, free, lent>>
Pic   == <<irr, isr, asked>>

\* The buffer the heap gives, if it has one: the one that a loop still reads, if
\* realloc has freed it, or the one that fits best.
Given(v) == (free \cap {Reads})
            \cup {b \in free : \A c \in free : Fit[v][b] <= Fit[v][c]}

CanAdd(v) == list[v] # None => list[v].cnt < MaxAdds[v]

CallAdd(f, v, c) ==
    /\ op' = [op EXCEPT ![f] = [Idle EXCEPT !.pc = "add", !.v = v, !.c = c]]
    /\ UNCHANGED <<Lists, registered>>

Own(f) == list[op[f].v]

\* Mutant: a Vector is expanded one element too late.
IsOverfull(f) == Own(f) # None /\ Own(f).cnt > Own(f).cap

IsFull(f) == Own(f) # None /\ Own(f).cnt = Own(f).cap

\* operator new puts a Vector itself into the buffer a loop still reads, or
\* realloc lets a block before it grow over it: it is no vector's from then on.
\* (Any other free buffer taken so is one buffer less, and malloc may fail.)
HeapTakes(f) ==
    /\ At(f, "add") /\ (Own(f) = None \/ IsFull(f))
    /\ Handling /\ h.buf \in free
    /\ mem' = [mem EXCEPT ![h.buf] = Blank]
    /\ free' = free \ {h.buf}
    /\ lent' = [lent EXCEPT ![h.buf] = None]
    /\ UNCHANGED <<Pic, list, op, h, registered, wild>>

\* The element's cell is the first one.
NewVector(f) ==
    /\ At(f, "add") /\ list[op[f].v] = None
    /\ \/ \E b \in Given(op[f].v) :
            /\ list' = [list EXCEPT ![op[f].v] = Vector(b, 1, 0)]
            /\ mem' = [mem EXCEPT ![b] = [i \in 0..(MaxCap - 1) |->
                                             IF i = 0 THEN Zero ELSE Junk]]
            /\ free' = free \ {b}
            /\ lent' = [lent EXCEPT ![b] = op[f].v]
       \/ /\ list' = [list EXCEPT ![op[f].v] = Vector(None, 1, 0)]
          /\ UNCHANGED <<mem, free, lent>>
    /\ UNCHANGED <<Pic, op, h, registered, wild>>

\* operator new gives nullptr, and the constructor faults on it for ever.
NewFails(f) == /\ At(f, "add") /\ list[op[f].v] = None
               /\ Goto(f, "stuck")
               /\ UNCHANGED <<Pic, Lists, h, registered, wild>>

\* realloc in Expand: in place, to another buffer, or not at all.
ExpandInPlace(f) == /\ At(f, "add") /\ IsFull(f) /\ Own(f).buf # None
                    /\ op' = [op EXCEPT ![f].pc = "grow", ![f].buf = Own(f).buf]
                    /\ UNCHANGED <<Pic, Lists, h, registered, wild>>

ExpandMoves(f) ==
    /\ At(f, "add") /\ IsFull(f)
    /\ \E b \in Given(op[f].v) :
         /\ mem' = [mem EXCEPT ![b] = [i \in 0..(MaxCap - 1) |->
                        IF i < Own(f).cap THEN Read(Own(f).buf, i) ELSE Junk]]
         /\ free' = (free \cup {Own(f).buf}) \ {b, None}
         /\ lent' = [lent EXCEPT ![b] = op[f].v]
         /\ op' = [op EXCEPT ![f].pc = "grow", ![f].buf = b]
    /\ UNCHANGED <<Pic, list, h, registered, wild>>

ExpandFails(f) == /\ At(f, "add") /\ IsFull(f)
                  /\ Ends(f)
                  /\ UNCHANGED <<Pic, Lists, h, registered, wild>>

\* Mutant: every cell is cleared, not those gained alone.
GrowAndClear(f) ==
    /\ At(f, "grow")
    /\ list' = [list EXCEPT ![op[f].v] = Vector(op[f].buf, 2 * Own(f).cap, Own(f).cnt)]
    /\ mem' = Known([mem EXCEPT ![op[f].buf] = [i \in 0..(MaxCap - 1) |->
                   IF i \in 0..(2 * Own(f).cap - 1) THEN Zero ELSE @[i]]],
                     Reads)
    /\ lent' = [b \in Buffers |-> IF Forgotten(b, Reads) THEN None ELSE lent[b]]
    /\ Goto(f, "add")
    /\ UNCHANGED <<Pic, free, h, registered, wild>>

\* Expand takes the buffer over and clears the cells it has gained.
Grow(f) ==
    /\ At(f, "grow")
    /\ list' = [list EXCEPT ![op[f].v] = Vector(op[f].buf, 2 * Own(f).cap, Own(f).cnt)]
    /\ mem' = Known([mem EXCEPT ![op[f].buf] = [i \in 0..(MaxCap - 1) |->
                   IF i \in Own(f).cnt..(2 * Own(f).cap - 1) THEN Zero ELSE @[i]]],
                     Reads)
    /\ lent' = [b \in Buffers |-> IF Forgotten(b, Reads) THEN None ELSE lent[b]]
    /\ Goto(f, "add")
    /\ UNCHANGED <<Pic, free, h, registered, wild>>

CountElement(f) ==
    /\ At(f, "add") /\ Own(f) # None /\ ~ IsFull(f)
    /\ list' = [list EXCEPT ![op[f].v].cnt = @ + 1]
    /\ op' = [op EXCEPT ![f].pc = "store", ![f].i = Own(f).cnt]
    /\ UNCHANGED <<Pic, mem, free, lent, h, registered, wild>>

\* Without a buffer the store faults, for ever.
StoreElement(f) ==
    /\ At(f, "store") /\ Own(f).buf # None
    /\ mem' = [mem EXCEPT ![Own(f).buf][op[f].i] = op[f].c]
    /\ registered' = [registered EXCEPT ![op[f].v] = Append(@, op[f].c)]
    /\ Ends(f)
    /\ UNCHANGED <<Pic, list, free, lent, h, wild>>

(***************************************************************************)
(* RemoveCallback, which removes every occurrence of the callback: Remove  *)
(* moves the elements after it down, a byte at a time, and one more cell   *)
(* that lies after them.                                                   *)
(***************************************************************************)
CallRemove(f, v, c) ==
    /\ op' = [op EXCEPT ![f] = [Idle EXCEPT !.pc = "check", !.v = v, !.c = c]]
    /\ UNCHANGED <<Lists, registered>>

Inside(f) == Own(f) # None /\ op[f].i < Own(f).cnt

\* What is left, without c, of the first n elements of s, and of all.
Kept(s, c) ==
    LET kept[n \in 0..Len(s)] == IF n = 0 THEN << >>
                                 ELSE IF s[n] = c THEN kept[n - 1]
                                 ELSE Append(kept[n - 1], s[n])
    IN  kept

Without(s, c) == Kept(s, c)[Len(s)]

RemoveEnds(f) ==
    /\ At(f, "check") /\ ~ Inside(f)
    /\ registered' = [registered EXCEPT ![op[f].v] = Without(@, op[f].c)]
    /\ Ends(f)
    /\ UNCHANGED <<Pic, Lists, h, wild>>

Found(f) == Read(Own(f).buf, op[f].i) = op[f].c

CheckOther(f) == /\ At(f, "check") /\ Inside(f) /\ ~ Found(f)
                 /\ op' = [op EXCEPT ![f].i = @ + 1]
                 /\ UNCHANGED <<Pic, Lists, h, registered, wild>>

\* realloc in Shrink gives the end of the buffer back and does not move it.
Shrunk(l) == IF l.cnt <= l.cap \div 4 THEN l.cap \div 2 ELSE l.cap

\* Mutant: the element is uncounted before it is moved out.
RemoveUncounts(f) ==
    /\ At(f, "check") /\ Inside(f) /\ Found(f)
    /\ list' = [list EXCEPT ![op[f].v].cnt = @ - 1, ![op[f].v].cap = Shrunk(Own(f))]
    /\ op' = [op EXCEPT ![f].pc = "tear", ![f].j = op[f].i]
    /\ UNCHANGED <<Pic, mem, free, lent, h, registered, wild>>

RemoveBegins(f) ==
    /\ At(f, "check") /\ Inside(f) /\ Found(f)
    /\ list' = [list EXCEPT ![op[f].v].cap = Shrunk(Own(f))]
    /\ op' = [op EXCEPT ![f].pc = "tear", ![f].j = op[f].i]
    /\ UNCHANGED <<Pic, mem, free, lent, h, registered, wild>>

\* The cell that is being written holds a part of two pointers.
TearCell(f) ==
    /\ At(f, "tear")
    /\ LET b == Own(f).buf
           j == op[f].j
       IN  mem' = [mem EXCEPT ![b][j] = IF @ = Read(b, j + 1) THEN @ ELSE Junk]
    /\ Goto(f, "copy")
    /\ UNCHANGED <<Pic, list, free, lent, h, registered, wild>>

CopyCell(f) ==
    /\ At(f, "copy")
    /\ LET b == Own(f).buf
           j == op[f].j
       IN  /\ mem' = [mem EXCEPT ![b][j] = Read(b, j + 1)]
           /\ op' = [op EXCEPT ![f].j = j + 1,
                               ![f].pc = IF j + 1 < Own(f).cnt THEN "tear" ELSE "uncount"]
    /\ UNCHANGED <<Pic, list, free, lent, h, registered, wild>>

\* Mutant: the loop goes on past the element that has moved up.
UncountAndPass(f) ==
    /\ At(f, "uncount")
    /\ list' = [list EXCEPT ![op[f].v].cnt = @ - 1]
    /\ op' = [op EXCEPT ![f].pc = "check", ![f].i = @ + 1]
    /\ UNCHANGED <<Pic, mem, free, lent, h, registered, wild>>

UncountElement(f) ==
    /\ At(f, "uncount")
    /\ list' = [list EXCEPT ![op[f].v].cnt = @ - 1]
    /\ Goto(f, "check")
    /\ UNCHANGED <<Pic, mem, free, lent, h, registered, wild>>

(***************************************************************************)
(* The controllers. Line 2 of the first one is the output of the second.   *)
(* A line is served when no line of its controller that comes before it is *)
(* in service, nor it itself; 0 comes first.                               *)
(***************************************************************************)
Request(l) == /\ ~ wild /\ l \notin irr
              /\ asked < MaxAsked
              /\ asked' = asked + 1
              /\ irr' = irr \cup {l}
              /\ UNCHANGED <<isr, Lists, op, h, registered, wild>>

\* A non-specific end of interrupt: of the lines in service, the first one.
EndFirst(lines) == isr \ {l \in lines : \A k \in lines : l <= k}

\* Mutants: the first controller alone is told; the second vector is left out.
clear_irq_first(v) == IF v \in 32..47 THEN EndFirst({l \in isr : First(l)}) ELSE isr

clear_irq_late(v) == CASE v \in 34..39 -> EndFirst({l \in isr : First(l)})
                  [] v \in 40..47 -> EndFirst({l \in isr : ~ First(l)})
                  [] OTHER -> isr

clear_irq(v) == CASE v \in 32..39 -> EndFirst({l \in isr : First(l)})
                  [] v \in 40..47 -> EndFirst({l \in isr : ~ First(l)})
                  [] OTHER -> isr

(***************************************************************************)
(* The handler: begin() and end() are read once, when the loop begins. due *)
(* and risky are histories: the callbacks this dispatch has to call, and   *)
(* whether the list is not to be relied on.                                *)
(***************************************************************************)
\* Main has counted an element it has not stored, is copying a cell, or has
\* not yet uncounted the cell behind the last one.
InWindow(v) == op["main"].v = v /\ op["main"].pc \in {"store", "copy", "uncount"}

HasList(v) == v \in Hooked /\ list[v] # None

Enter(v) ==
    h' = [v |-> v, it |-> 0, risky |-> InWindow(v),
          end |-> IF HasList(v) THEN list[v].cnt ELSE 0,
          buf |-> IF HasList(v) THEN list[v].buf ELSE None,
          due |-> IF v \in Hooked
                  THEN {c \in Callbacks[v] : \E i \in DOMAIN registered[v] :
                            registered[v][i] = c /\ ~ (op["main"].v = v /\ op["main"].c = c)}
                  ELSE {}]

Accept(l) == /\ ~ wild /\ ~ Handling /\ l \in Raised
             /\ \A k \in Raised : Rank(l) <= Rank(k)
             /\ Stub(l) \in Gates
             /\ irr' = irr \ {l}
             /\ isr' = isr \cup (IF First(l) THEN {l} ELSE {l, Cascade})
             /\ Enter(Stub(l))
             /\ UNCHANGED <<Lists, op, registered, asked, wild>>

\* An exception is no business of the controllers.
Fault == /\ Runs("main")
         /\ asked < MaxAsked
         /\ asked' = asked + 1
         /\ Enter(PF)
         /\ UNCHANGED <<irr, isr, Lists, op, registered, wild>>

Between == Runs("isr") /\ op["isr"] = Idle

CallNext == /\ Between /\ h.it < h.end
            /\ LET c == Read(h.buf, h.it)
               IN  IF \E i \in DOMAIN registered[h.v] : registered[h.v][i] = c
                   THEN /\ h' = [h EXCEPT !.it = @ + 1, !.due = @ \ {c}]
                        /\ UNCHANGED wild
                   ELSE wild' = TRUE /\ UNCHANGED h
            /\ UNCHANGED <<Pic, Lists, op, registered>>

\* A callback adds or removes callbacks. Bound: not in a list that main is
\* changing.
Changes(v) == /\ Between /\ h.it > 0
              /\ op["main"].v # v
              /\ asked < MaxAsked
              /\ asked' = asked + 1

CallbackAdds(v, c) == /\ Changes(v) /\ CanAdd(v)
                      /\ CallAdd("isr", v, c)
                      /\ UNCHANGED <<irr, isr, h, wild>>

CallbackRemoves(v, c) ==
    /\ Changes(v)
    /\ CallRemove("isr", v, c)
    /\ h' = [h EXCEPT !.due = IF v = h.v THEN @ \ {c} ELSE @,
                      !.risky = @ \/ v = h.v]
    /\ UNCHANGED <<irr, isr, wild>>

\* After the last callback: end of interrupt, and back to main.
Leave == /\ Between /\ h.it = h.end
         /\ isr' = clear_irq(h.v)
         /\ h' = None
         /\ UNCHANGED list
         /\ mem' = Known(mem, None)
         /\ UNCHANGED <<irr, free, lent, op, registered, asked, wild>>

MainAdds(v, c) == /\ Runs("main") /\ op["main"] = Idle /\ CanAdd(v)
                  /\ CallAdd("main", v, c)
                  /\ UNCHANGED <<Pic, h, wild>>

MainRemoves(v, c) == /\ Runs("main") /\ op["main"] = Idle
                     /\ CallRemove("main", v, c)
                     /\ UNCHANGED <<Pic, h, wild>>

Routine(f) == \/ HeapTakes(f) \/ NewVector(f) \/ NewFails(f)
              \/ ExpandInPlace(f) \/ ExpandMoves(f) \/ ExpandFails(f) \/ Grow(f)
              \/ CountElement(f) \/ StoreElement(f)
              \/ RemoveEnds(f) \/ CheckOther(f) \/ RemoveBegins(f)
              \/ TearCell(f) \/ CopyCell(f) \/ UncountElement(f)

Handler == CallNext \/ Leave \/ \E l \in Lines : Accept(l)

Next == \/ \E f \in Flows : Routine(f)
        \/ Handler \/ Fault
        \/ \E l \in Lines : Request(l)
        \/ \E v \in Hooked : \E c \in Callbacks[v] :
              \/ MainAdds(v, c) \/ MainRemoves(v, c)
              \/ CallbackAdds(v, c) \/ CallbackRemoves(v, c)

\* The processor goes on: it takes an interrupt it is offered, runs the handler
\* and whatever a callback has begun.
Spec == Init /\ [][Next]_vars /\ WF_vars(Handler \/ Routine("isr"))

(***************************************************************************)
(* Properties. All but the last hold of every behaviour up to its first    *)
(* wild call.                                                              *)
(***************************************************************************)
\* Every variable has its type, and a list counts no more than its capacity.
TypeOK ==
    /\ irr \subseteq Lines /\ isr \subseteq Lines \cup {Cascade}
    /\ \A v \in Hooked : list[v] = None \/
          /\ list[v].buf \in Buffers \cup {None}
          /\ list[v].cnt <= list[v].cap /\ list[v].cap \in 1..MaxCap
    /\ mem \in [Buffers -> [0..(MaxCap - 1) -> Cells]]
    /\ free \subseteq Buffers /\ lent \in [Buffers -> Hooked \cup {None}]
    /\ asked \in 0..MaxAsked /\ wild \in BOOLEAN

\* While an interrupt is handled its line is in service, and no other line but
\* the cascade is in service then or left in service afterwards: each end of
\* interrupt clears the line it is for (clear_irq, at either controller).
OnlyOwnLineInService ==
    isr \ {Cascade} = IF Handling /\ h.v >= 32 THEN {h.v - 32} ELSE {}

\* Whenever no routine is at work on a vector's list, it holds the callbacks
\* that were registered, in their order, and not those removed: through
\* growing, shrinking and moving (Push, Remove, Expand and Shrink), with
\* interrupts between any two steps.
Content(v) == [i \in 1..list[v].cnt |-> Read(list[v].buf, i - 1)]

RegistryKept ==
    ~ wild => \A v \in Hooked : (\A f \in Flows : op[f].v # v) =>
                 registered[v] = IF list[v] = None THEN << >> ELSE Content(v)

\* A dispatch has called, when it ends, every callback that was registered when
\* it began and that nobody was removing, wherever it stopped main (but for
\* the windows above) and whatever the callbacks have added, unless one has
\* removed from this very list (InterruptHandler's loop).
NobodyMissed ==
    [][Handling /\ h' = None /\ ~ h.risky => h.due = {}]_vars

\* A dispatch calls what is registered for its vector and nothing else, unless
\* it began within one of the windows above, one of its callbacks removes
\* from the list it runs over, or the buffer it runs over was freed by realloc
\* and given to another vector, to a Vector object or to another block: the
\* growth of a list is no such window, nor are the checks of RemoveCallback.
OnlyRegisteredCalled ==
    wild => h.risky \/ (h.buf # None /\ lent[h.buf] # h.v)

\* A callback has faulted for ever on a Vector without memory.
Stopped == \/ wild
           \/ op["isr"].pc = "stuck"
           \/ op["isr"].pc = "store" /\ Own("isr").buf = None

\* A request on a line before the cascade is served, unless the handler never
\* returns, whatever the second controller is left in and however lists change.
\* (On the other lines it need not be: IrqsServed.)
RequestsServed ==
    \A l \in {k \in Lines : k < Cascade} : l \in irr ~> l \notin irr \/ Stopped

\* Every request is served: the controllers are told that an interrupt has been
\* handled ("Tell the PIC that the interrupt has been handled",
\* interrupts.s:131).
IrqsServed == \A l \in Lines : l \in irr ~> l \notin irr \/ Stopped
=============================================================================
