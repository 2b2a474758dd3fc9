---------------------------- MODULE MCInterrupts ----------------------------
(***************************************************************************)
(* The keyboard's line, with a list of up to three callbacks, which grows  *)
(* to four cells and shrinks again, a page fault with a list of one, and a *)
(* line of the second controller. Three buffers: one for each list and the *)
(* one that a list has moved from, which a Vector may take, or its memory. *)
(***************************************************************************)
EXTENDS Interrupts, TLC

CONSTANTS c1, c2, c3

MCHooked == {14, 33}
MCCallbacks == 14 :> {c3} @@ 33 :> {c1, c2}
MCMaxAdds == 14 :> 1 @@ 33 :> 3
MCBuffers == {1, 2, 3}
\* The third buffer fits the list of 14 best, the first one that of 33.
MCFit == 14 :> <<2, 3, 1>> @@ 33 :> <<1, 2, 3>>
MCLines == {1, 8}

\* The controllers alone: keyboard, serial port and clock, and no callbacks.
EoiHooked == {}
EoiCallbacks == << >>
EoiLines == {1, 4, 8}
=============================================================================
