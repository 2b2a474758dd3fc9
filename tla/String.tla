------------------------------- MODULE String -------------------------------
(***************************************************************************)
(* The strings of the kernel, kernel/string.cpp and include/string.hpp,    *)
(* with the functions of the C library they are built from.                *)
(*                                                                         *)
(* A buffer of cap + 1 bytes is held as body, the bytes before its first   *)
(* zero. A body of cap + 1 bytes has no zero: who reads on finds what lies *)
(* behind. Memory that malloc gives has its first zero anywhere.           *)
(***************************************************************************)
EXTENDS Integers, Sequences, FiniteSetsExt

CONSTANTS
    Strings,   \* the Strings there may be
    None,      \* one that is not there
    Char,      \* characters
    Junk,      \* a byte nobody wrote, not zero
    Nul,       \* zero
    Literals,  \* the texts that callers pass
    Counts,    \* capacities, positions and lengths that callers pass
    SizeMax,   \* the largest size_t
    MaxLen,    \* bound: longest text that is passed or made
    Unknown    \* a text that is none

VARIABLES
    str,     \* the Strings: m_str (null, body), m_cap and m_len
    text,    \* history: what a String has been given to hold
    fault,   \* a call that touched address zero, and never returns
    victim,  \* the String behind whose buffer a call has written
    refused  \* history: the Strings that were made as a part, without memory

vars == <<str, text, fault, victim, refused>>

Texts == Seq(Char \cup {Junk})

ASSUME StringAssumption ==
    /\ None \notin Strings /\ Nul \notin Char /\ Junk \notin Char
    /\ Literals \subseteq Seq(Char)
    /\ SizeMax \in Nat /\ MaxLen \in Nat /\ 2 * MaxLen <= SizeMax
    /\ Counts \subseteq 0..(SizeMax - 1)
    /\ Unknown \notin Texts
    /\ None \notin [null : BOOLEAN, cap : Nat, len : Nat, body : Texts]

Object == [null : BOOLEAN, cap : 0..SizeMax, len : 0..SizeMax, body : Texts]

Init == /\ str = [s \in Strings |-> None]
        /\ text = [s \in Strings |-> Unknown]
        /\ fault = FALSE
        /\ victim = None
        /\ refused = {}

Running == ~ fault /\ victim = None

Made(s) == Running /\ str[s] # None

Unmade(s) == Running /\ str[s] = None

Sets(s, o, x) == str' = [str EXCEPT ![s] = o] /\ text' = [text EXCEPT ![s] = x]

Junks(n) == [i \in 1..n |-> Junk]

\* Up to any of the c + 1 bytes.
Blank(c) == {Junks(n) : n \in 0..(c + 1)}

NoBuffer(c, l) == [null |-> TRUE, cap |-> c, len |-> l, body |-> << >>]

Buffer(c, l, b) == [null |-> FALSE, cap |-> c, len |-> l, body |-> b]

(***************************************************************************)
(* What begin() of a String is read as; strlen is its length. Behind a     *)
(* buffer without a zero the next byte is one, or the byte after it.       *)
(***************************************************************************)
Terminated(o) == Len(o.body) <= o.cap

CStr(o) == IF Terminated(o) THEN {o.body} ELSE {o.body \o Junks(n) : n \in 0..1}

TextsOf(S) ==
    {x \in Literals \cup UNION {CStr(str[t]) :
                               t \in {u \in S : str[u] # None /\ ~ str[u].null}} :
        Len(x) <= MaxLen}

\* What strncpy stores of x, a zero behind it.
Strncpy(x, n) == SubSeq(x, 1, Min({Len(x), n}))

\* memchr stores the character, from the last of cnt + 1 bytes down to the
\* second one.
Memchr(c, cnt) == {<< >>, <<Junk>> \o [i \in 1..cnt |-> c]}

(***************************************************************************)
(* Constructors. The one of a capacity writes nothing, and goes on without *)
(* memory when malloc refuses it.                                          *)
(***************************************************************************)
Reserve(s, n) ==
    /\ Unmade(s)
    /\ \E o \in {NoBuffer(n, 0)} \cup {Buffer(n, 0, b) : b \in Blank(n)} :
           Sets(s, o, Unknown)
    /\ UNCHANGED <<fault, victim, refused>>

Fill(s, c, n) ==
    /\ Unmade(s)
    /\ \E b \in Memchr(c, n) : Sets(s, Buffer(n, n, b), Unknown)
    /\ UNCHANGED <<fault, victim, refused>>

\* Of a text, or of a String through its begin(): strcpy.
FromText(s) ==
    /\ Unmade(s)
    /\ \E x \in TextsOf(Strings) : Sets(s, Buffer(Len(x), Len(x), x), x)
    /\ UNCHANGED <<fault, victim, refused>>

Behind(x, n) == SubSeq(x, n + 1, Len(x))

\* Memory refused to a part, whose length is kept without it.
Refuses(s, n) == /\ Sets(s, NoBuffer(n, n), Unknown)
                 /\ refused' = refused \cup {s}

\* Of the characters of t from position spos up to position slen: strncpy.
\* Behind the first zero of t it reads what nobody can tell.
FromPart(s, t, spos, slen) ==
    LET stop == Min({slen, str[t].len})
        n    == stop - spos
    IN  /\ Unmade(s) /\ Made(t) /\ ~ str[t].null
        /\ spos <= stop
        /\ \/ Refuses(s, n)
           \/ /\ spos <= Len(str[t].body)
              /\ \E x \in CStr(str[t]) :
                     Sets(s, Buffer(n, n, Strncpy(Behind(x, spos), n)),
                          IF text[t] = Unknown THEN Unknown
                          ELSE Strncpy(Behind(text[t], spos), n))
              /\ refused' = refused
           \/ /\ spos > Len(str[t].body)
              /\ \E k \in 0..n : Sets(s, Buffer(n, n, Junks(k)), Unknown)
              /\ refused' = refused
        /\ UNCHANGED <<fault, victim>>

\* The difference wraps: malloc of 0, or of a size that wraps once more in the
\* heap and is met by a small block, which strncpy overruns.
FromPartBeyond(s, t, spos, slen) ==
    LET stop == Min({slen, str[t].len})
        n    == SizeMax + 1 - (spos - stop)
    IN  /\ Unmade(s) /\ Made(t) /\ ~ str[t].null
        /\ spos > stop
        /\ \/ Refuses(s, n) /\ victim' = victim
           \/ n < SizeMax /\ victim' = s /\ UNCHANGED <<str, text, refused>>
        /\ fault' = fault

Destroy(s) == /\ Made(s) /\ Sets(s, None, Unknown)
              /\ refused' = refused \ {s}
              /\ UNCHANGED <<fault, victim>>

(***************************************************************************)
(* Expand: what a String may become. A refused realloc changes nothing.    *)
(***************************************************************************)
Expanded(o, c) ==
    IF c <= o.cap THEN {o}
    ELSE {o} \cup {[o EXCEPT !.null = FALSE, !.cap = c, !.body = b] :
                      b \in IF Terminated(o) /\ ~ o.null THEN {o.body}
                            ELSE {o.body \o Junks(n) : n \in 0..(c + 1 - Len(o.body))}}

Granted(o, c, x) == IF o.cap < c THEN Unknown ELSE x

\* Mutant: the text that is there is not counted.
AppendedCapText(o, x) == Len(x)

AppendedCap(o, x) == (o.len + Len(x)) % (SizeMax + 1)

\* Mutant: room is kept for two zeros.
ConcatenatedShort(o, x) ==
    o.body \o Strncpy(x, o.cap - Len(o.body) - 1)

\* strncat appends up to m_cap characters, whatever there is room for.
Concatenated(o, x) == o.body \o Strncpy(x, o.cap)

AppendText(s, x) ==
    /\ Made(s) /\ Len(str[s].body) + Len(x) <= MaxLen
    /\ LET c == AppendedCap(str[s], x)
       IN  \E o \in Expanded(str[s], c) :
             /\ ~ o.null
             /\ LET b == Concatenated(o, x)
                IN  IF Len(b) > o.cap THEN victim' = s /\ str' = str
                    ELSE /\ str' = [str EXCEPT ![s] = [o EXCEPT !.body = b, !.len = Len(b)]]
                         /\ victim' = victim
             /\ text' = [text EXCEPT ![s] = IF @ = Unknown THEN Unknown
                                            ELSE Granted(o, c, @ \o x)]
    /\ UNCHANGED <<fault, refused>>

\* The text is the String's own: its first character overwrites the zero that
\* ends it, and strncat goes on for m_cap characters, unless realloc has moved
\* the buffer and the text is read from the old one.
AppendOwn(s) ==
    /\ Made(s) /\ ~ str[s].null
    /\ LET o == str[s]
           c == AppendedCap(o, o.body)
       IN  \/ /\ o.body = << >>
              /\ Sets(s, [o EXCEPT !.len = 0], text[s])
              /\ victim' = victim
           \/ o.body # << >> /\ victim' = s /\ str' = str
              /\ text' = [text EXCEPT ![s] = Unknown]
           \/ /\ o.body # << >> /\ Terminated(o) /\ c > o.cap /\ 2 * Len(o.body) <= MaxLen
              /\ Sets(s, Buffer(c, 2 * Len(o.body), o.body \o o.body),
                      IF text[s] = Unknown THEN Unknown ELSE text[s] \o text[s])
              /\ victim' = victim
    /\ UNCHANGED <<fault, refused>>

\* Mutants: strcpy in place of strncpy; the length is that of the text passed.
AssignTextWhole(s, x) ==
    /\ Made(s)
    /\ \E o \in Expanded(str[s], Len(x)) :
          /\ ~ o.null
          /\ Sets(s, [o EXCEPT !.body = x, !.len = Len(x)], Granted(o, Len(x), x))
    /\ UNCHANGED <<fault, victim, refused>>

AssignTextLengthPassed(s, x) ==
    /\ Made(s)
    /\ \E o \in Expanded(str[s], Len(x)) :
          /\ ~ o.null
          /\ Sets(s, [o EXCEPT !.body = Strncpy(x, o.cap), !.len = Len(x)],
                  Granted(o, Len(x), x))
    /\ UNCHANGED <<fault, victim, refused>>

\* strncpy, which always ends the text: of what does not fit, the first part.
AssignText(s, x) ==
    /\ Made(s)
    /\ \E o \in Expanded(str[s], Len(x)) :
          /\ ~ o.null
          /\ LET b == Strncpy(x, o.cap)
             IN  Sets(s, [o EXCEPT !.body = b, !.len = Len(b)], Granted(o, Len(x), x))
    /\ UNCHANGED <<fault, victim, refused>>

Clear(s) == /\ Made(s) /\ ~ str[s].null
            /\ Sets(s, [str[s] EXCEPT !.body = << >>, !.len = 0], << >>)
            /\ UNCHANGED <<fault, victim, refused>>

\* A character, or zero, stored through operator[] or begin(): m_len stays.
Stored(b, i, c) == IF c = Nul THEN SubSeq(b, 1, i - 1) ELSE [b EXCEPT ![i] = c]

Store(s, i, c) ==
    /\ Made(s) /\ i <= Len(str[s].body) /\ Terminated(str[s])
    /\ Sets(s, [str[s] EXCEPT !.body = Stored(@, i, c)],
            IF text[s] = Unknown THEN Unknown ELSE Stored(text[s], i, c))
    /\ UNCHANGED <<fault, victim, refused>>

\* Without memory, a constructor from a text or a character and a call that
\* needs the characters there are touch address zero.
Fault(s) == /\ Running
            /\ str[s] # None => str[s].null
            /\ fault' = TRUE
            /\ UNCHANGED <<str, text, victim, refused>>

Next == \E s \in Strings :
    \/ \E n \in Counts : Reserve(s, n)
    \/ \E n \in Counts, c \in Char : Fill(s, c, n)
    \/ FromText(s)
    \/ \E t \in Strings, p, n \in Counts : FromPart(s, t, p, n)
    \/ \E t \in Strings, p, n \in Counts : FromPartBeyond(s, t, p, n)
    \/ Destroy(s)
    \/ \E x \in TextsOf(Strings \ {s}) : AppendText(s, x)
    \/ AppendOwn(s)
    \/ \E x \in TextsOf(Strings) : AssignText(s, x)
    \/ Clear(s)
    \/ \E i \in Counts \ {0}, c \in Char \cup {Nul} : Store(s, i, c)
    \/ Fault(s)

Spec == Init /\ [][Next]_vars

(***************************************************************************)
(* Properties.                                                             *)
(***************************************************************************)
\* Every variable has its type, and a body lies in the bytes of its buffer.
TypeOK == /\ str \in [Strings -> Object \cup {None}]
          /\ text \in [Strings -> Texts \cup {Unknown}]
          /\ fault \in BOOLEAN
          /\ victim \in Strings \cup {None}
          /\ refused \subseteq Strings
          /\ \A s \in Strings : str[s] # None => Len(str[s].body) <= str[s].cap + 1

\* A String holds the text it has been given, through every Append, Assign,
\* copy and store, in a buffer with room for it; Length() is no less.
TextKept ==
    \A s \in Strings : str[s] # None /\ text[s] # Unknown =>
        /\ ~ str[s].null /\ str[s].body = text[s]
        /\ Len(text[s]) <= str[s].len /\ str[s].len <= str[s].cap

\* A call writes behind the buffer only of a String that was made without a
\* text or from positions that wrap, was refused memory or appended to itself:
\* what Expand makes room for is what strncat stores.
OverrunExplained == victim # None => text[victim] = Unknown

\* end() lies in the buffer of every String that has one, whatever realloc
\* refused. One that has none is empty, and end() is begin(), unless it was
\* made as a part of another and malloc refused it: only that constructor
\* counts the characters first.
EndInBuffer ==
    \A s \in Strings : str[s] # None =>
        \/ ~ str[s].null /\ str[s].len <= str[s].cap
        \/ str[s].null /\ (str[s].len = 0 \/ s \in refused)
=============================================================================
