---------------------------- MODULE AddressSpace ----------------------------
(***************************************************************************)
(* What Memory::Allocate and Memory::Free promise to a caller, without the *)
(* page tables and the frame stack behind them (kernel/include/memory.hpp).*)
(* A page is mapped to at most one frame, and a frame serves at most one   *)
(* page. A call changes the page it names and no other; a call that fails  *)
(* with ENOMEM changes none.                                               *)
(***************************************************************************)
EXTENDS Naturals

CONSTANTS
    ClientPages, \* pages that callers may map
    Frame        \* frames of physical memory they may be given

VARIABLE space   \* <<f>> for a page mapped to frame f, << >> for one that is not

\* The frames in use.
Taken == {f \in Frame : \E v \in ClientPages : space[v] = <<f>>}

Init == space = [v \in ClientPages |-> << >>]

\* Allocate returned OK and the page was not mapped before.
Map(v) == /\ space[v] = << >>
          /\ \E f \in Frame \ Taken : space' = [space EXCEPT ![v] = <<f>>]

\* Free of a mapped page.
Unmap(v) == /\ space[v] # << >>
            /\ space' = [space EXCEPT ![v] = << >>]

Next == \E v \in ClientPages : Map(v) \/ Unmap(v)

Spec == Init /\ [][Next]_space
=============================================================================
