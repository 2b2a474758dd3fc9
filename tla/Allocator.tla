------------------------------ MODULE Allocator ------------------------------
(***************************************************************************)
(* What malloc, realloc and free promise to their callers, without the     *)
(* headers and the list behind them (lib/include/stdlib.h): an owner has a *)
(* range of cells inside the heap, and no cell is in two ranges. A call    *)
(* changes the range it names and no other; a call that fails changes none.*)
(***************************************************************************)
EXTENDS Integers

CONSTANTS
    Region,  \* cells of the heap
    Sizes,   \* the sizes asked for
    Owners   \* one for each range that is in use at a time

VARIABLE owned  \* <<a, n>> for a range of n cells from a on, << >> for none

Range(a, n) == a..(a + n - 1)

Held(o) == IF owned[o] = << >> THEN {} ELSE Range(owned[o][1], owned[o][2])

\* The range is in the heap and apart from those of all owners but o.
Fits(o, a, n) == /\ Range(a, n) \subseteq Region
                 /\ \A p \in Owners \ {o} : Range(a, n) \cap Held(p) = {}

Init == owned = [o \in Owners |-> << >>]

\* malloc, or realloc of no range.
Give(o, a, n) == /\ owned[o] = << >>
                 /\ Fits(o, a, n)
                 /\ owned' = [owned EXCEPT ![o] = <<a, n>>]

\* free, or realloc to nothing.
Take(o) == /\ owned[o] # << >>
           /\ owned' = [owned EXCEPT ![o] = << >>]

\* realloc, in place or to another range.
Resize(o, a, n) == /\ owned[o] # << >>
                   /\ Fits(o, a, n)
                   /\ owned' = [owned EXCEPT ![o] = <<a, n>>]

Next == \E o \in Owners :
            \/ Take(o)
            \/ \E a \in Region, n \in Sizes : Give(o, a, n) \/ Resize(o, a, n)

Spec == Init /\ [][Next]_owned
=============================================================================
