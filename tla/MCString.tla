------------------------------ MODULE MCString ------------------------------
(***************************************************************************)
(* Two Strings and texts of up to two characters: one character appended   *)
(* to another fills or outgrows a buffer, and capacities of two are more   *)
(* than a text needs, or none is enough.                                   *)
(***************************************************************************)
EXTENDS String, TLC

MCLiterals == {<<"a">>, <<"b", "a">>}

Symmetry == Permutations(Strings)
=============================================================================
