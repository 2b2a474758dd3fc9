---------------------------- MODULE StringProofs ----------------------------
(***************************************************************************)
(* Proofs about String, for any Strings, texts and positions that satisfy  *)
(* the assumptions of that module.                                         *)
(***************************************************************************)
EXTENDS String, SequenceTheorems, TLAPS

-----------------------------------------------------------------------------
(***************************************************************************)
(* The invariant, String by String. Besides the properties it says that    *)
(* m_len counts every character that is there, unless nothing has been     *)
(* written since the buffer was reserved, or there is no zero: an Append   *)
(* of a String to itself makes room by m_len.                              *)
(***************************************************************************)
Stands(o) == /\ o \in Object
             /\ Len(o.body) <= o.cap + 1
             /\ o.len <= o.cap
             /\ \/ o.len = 0
                \/ Len(o.body) <= o.len
                \/ Len(o.body) > o.cap

Holds(o, x) == /\ o.null = FALSE
               /\ o.body = x
               /\ Len(x) <= o.len

Fits(o, x) == /\ x \in Texts \cup {Unknown}
              /\ o = None => x = Unknown
              /\ o # None => Stands(o)
              /\ o # None /\ x # Unknown => Holds(o, x)

StringInv == /\ str \in [Strings -> Object \cup {None}]
             /\ text \in [Strings -> Texts \cup {Unknown}]
             /\ fault \in BOOLEAN
             /\ victim \in Strings \cup {None}
             /\ \A s \in Strings : Fits(str[s], text[s])
             /\ OverrunExplained

-----------------------------------------------------------------------------
(***************************************************************************)
(* Texts, and the functions of the C library.                              *)
(***************************************************************************)
LEMMA NoneIsNoObject == None \notin Object
  BY StringAssumption DEF Object

LEMMA MinOfTwo ==
  ASSUME NEW a \in Int, NEW b \in Int
  PROVE  Min({a, b}) = IF a <= b THEN a ELSE b
  BY DEF Min

LEMMA PrefixOfText ==
  ASSUME NEW x \in Texts, NEW n \in 0..Len(x)
  PROVE  /\ SubSeq(x, 1, n) \in Texts
         /\ Len(SubSeq(x, 1, n)) = n
<1>1. \A i \in 1..n : x[i] \in Char \cup {Junk}
  BY ElementOfSeq DEF Texts
<1> QED BY <1>1, SubSeqProperties DEF Texts

LEMMA StrncpyText ==
  ASSUME NEW x \in Texts, NEW n \in Nat
  PROVE  /\ Strncpy(x, n) \in Texts
         /\ Len(Strncpy(x, n)) = IF Len(x) <= n THEN Len(x) ELSE n
         /\ Len(x) <= n => Strncpy(x, n) = x
<1>1. Len(x) \in Nat
  BY DEF Texts
<1>2. Min({Len(x), n}) = IF Len(x) <= n THEN Len(x) ELSE n
  BY <1>1, MinOfTwo
<1>3. Strncpy(x, n) = SubSeq(x, 1, IF Len(x) <= n THEN Len(x) ELSE n)
  BY <1>2 DEF Strncpy
<1>4. SubSeq(x, 1, Len(x)) = x
  BY SubSeqFull DEF Texts
<1>5. CASE Len(x) <= n
  BY <1>1, <1>3, <1>4, <1>5, PrefixOfText
<1>6. CASE ~ (Len(x) <= n)
  BY <1>1, <1>3, <1>6, PrefixOfText
<1> QED BY <1>5, <1>6

LEMMA JunksText ==
  ASSUME NEW n \in Nat
  PROVE  Junks(n) \in Texts /\ Len(Junks(n)) = n
<1>1. Junks(n) \in [1..n -> Char \cup {Junk}]
  BY DEF Junks
<1> QED BY <1>1 DEF Texts

LEMMA BehindText ==
  ASSUME NEW x \in Texts, NEW n \in Nat
  PROVE  Behind(x, n) \in Texts
<1>1. Len(x) \in Nat
  BY DEF Texts
<1>2. \A i \in n + 1..Len(x) : x[i] \in Char \cup {Junk}
  BY <1>1, ElementOfSeq DEF Texts
<1> QED BY <1>1, <1>2, SubSeqProperties DEF Behind, Texts

LEMMA JoinedText ==
  ASSUME NEW x \in Texts, NEW y \in Texts
  PROVE  /\ x \o y \in Texts
         /\ Len(x \o y) = Len(x) + Len(y)
         /\ Len(x) \in Nat /\ Len(y) \in Nat
  BY ConcatProperties, LenProperties DEF Texts

LEMMA StoredText ==
  ASSUME NEW b \in Texts, NEW i \in 1..Len(b), NEW c \in Char \cup {Nul}
  PROVE  /\ Stored(b, i, c) \in Texts
         /\ Len(Stored(b, i, c)) <= Len(b)
<1>1. Len(b) \in Nat
  BY DEF Texts
<1>2. CASE c = Nul
  BY <1>1, <1>2, PrefixOfText DEF Stored
<1>3. CASE c # Nul
  BY <1>1, <1>3, ExceptSeq DEF Stored, Texts
<1> QED BY <1>2, <1>3

\* What begin() of a String is read as is a text, and the String's own body
\* when it ends with a zero.
LEMMA CStrText ==
  ASSUME NEW o, Stands(o), NEW x \in CStr(o)
  PROVE  /\ x \in Texts
         /\ Terminated(o) => x = o.body
<1>1. o.body \in Texts
  BY DEF Stands, Object
<1>2. CASE Terminated(o)
  BY <1>1, <1>2 DEF CStr
<1>3. CASE ~ Terminated(o)
  <2>1. PICK n \in 0..1 : x = o.body \o Junks(n)
    BY <1>3 DEF CStr
  <2>2. Junks(n) \in Texts
    BY JunksText
  <2> QED BY <1>1, <1>3, <2>1, <2>2, JoinedText
<1> QED BY <1>2, <1>3

LEMMA PassedText ==
  ASSUME StringInv, NEW S \in SUBSET Strings, NEW x \in TextsOf(S)
  PROVE  x \in Texts /\ Len(x) \in Nat /\ Len(x) <= MaxLen
<1>1. Len(x) <= MaxLen
  BY DEF TextsOf
<1>2. CASE x \in Literals
  <2>1. x \in Seq(Char)
    BY <1>2, StringAssumption
  <2> QED BY <1>1, <2>1, SeqMonotonic DEF Texts
<1>3. ASSUME NEW t \in S, str[t] # None, x \in CStr(str[t])
      PROVE  x \in Texts
  <2>1. Stands(str[t])
    BY <1>3 DEF StringInv, Fits
  <2> QED BY <1>3, <2>1, CStrText
<1>4. x \in Texts
  BY <1>2, <1>3 DEF TextsOf
<1> QED BY <1>1, <1>4 DEF Texts

-----------------------------------------------------------------------------
(***************************************************************************)
(* One String at a time.                                                   *)
(***************************************************************************)
LEMMA SetsInv ==
  ASSUME StringInv, Running, NEW s \in Strings, NEW o, NEW x, Fits(o, x),
         Sets(s, o, x), UNCHANGED <<fault, victim>>
  PROVE  StringInv'
<1>1. o \in Object \cup {None} /\ x \in Texts \cup {Unknown}
  BY DEF Fits, Stands
<1>2. /\ str' \in [Strings -> Object \cup {None}]
      /\ text' \in [Strings -> Texts \cup {Unknown}]
  BY <1>1 DEF Sets, StringInv
<1>3. \A t \in Strings : Fits(str'[t], text'[t])
  BY DEF Sets, StringInv
<1>4. victim' = None
  BY DEF Running
<1> QED BY <1>2, <1>3, <1>4 DEF StringInv, OverrunExplained

LEMMA NoBufferFits ==
  ASSUME NEW c \in 0..SizeMax, NEW l \in 0..c
  PROVE  Fits(NoBuffer(c, l), Unknown)
<1>1. << >> \in Texts /\ Len(<< >>) = 0
  BY DEF Texts
<1>2. NoBuffer(c, l) \in Object
  BY <1>1, StringAssumption DEF NoBuffer, Object
<1>3. Stands(NoBuffer(c, l))
  BY <1>1, <1>2, StringAssumption DEF NoBuffer, Stands
<1> QED BY <1>2, <1>3, NoneIsNoObject DEF Fits

LEMMA BufferFits ==
  ASSUME NEW c \in 0..SizeMax, NEW l \in 0..c, NEW b \in Texts,
         Len(b) <= c + 1,
         l = 0 \/ Len(b) <= l \/ Len(b) > c,
         NEW x, x = Unknown \/ (x = b /\ Len(b) <= l)
  PROVE  Fits(Buffer(c, l, b), x)
<1>1. Buffer(c, l, b) \in Object
  BY StringAssumption DEF Buffer, Object
<1>2. Stands(Buffer(c, l, b))
  BY <1>1 DEF Buffer, Stands
<1>3. x # Unknown => Holds(Buffer(c, l, b), x)
  BY DEF Buffer, Holds
<1> QED BY <1>1, <1>2, <1>3, NoneIsNoObject DEF Fits

LEMMA InitInv == Init => StringInv
  BY DEF Init, StringInv, Fits, OverrunExplained

-----------------------------------------------------------------------------
(***************************************************************************)
(* Constructors.                                                           *)
(***************************************************************************)
LEMMA CountsBound ==
  ASSUME NEW n \in Counts
  PROVE  n \in 0..SizeMax /\ n \in Nat /\ n < SizeMax
  BY StringAssumption

LEMMA ReserveInv ==
  ASSUME StringInv, NEW s \in Strings, NEW n \in Counts, Reserve(s, n)
  PROVE  StringInv'
<1>1. n \in 0..SizeMax /\ n \in Nat /\ 0 \in 0..n
  BY CountsBound
<1>2. CASE Sets(s, NoBuffer(n, 0), Unknown)
  <2>1. Fits(NoBuffer(n, 0), Unknown)
    BY <1>1, NoBufferFits
  <2> QED BY <1>2, <2>1, SetsInv DEF Reserve, Unmade
<1>3. ASSUME NEW b \in Blank(n), Sets(s, Buffer(n, 0, b), Unknown)
      PROVE  StringInv'
  <2>1. PICK k \in 0..(n + 1) : b = Junks(k)
    BY DEF Blank
  <2>2. b \in Texts /\ Len(b) <= n + 1
    BY <1>1, <2>1, JunksText
  <2>3. Fits(Buffer(n, 0, b), Unknown)
    BY <1>1, <2>2, BufferFits
  <2> QED BY <1>3, <2>3, SetsInv DEF Reserve, Unmade
<1> QED BY <1>2, <1>3 DEF Reserve

LEMMA FillInv ==
  ASSUME StringInv, NEW s \in Strings, NEW n \in Counts, NEW c \in Char,
         Fill(s, c, n)
  PROVE  StringInv'
<1>1. n \in 0..SizeMax /\ n \in Nat /\ n \in 0..n
  BY CountsBound
<1>2. PICK b \in Memchr(c, n) : Sets(s, Buffer(n, n, b), Unknown)
  BY DEF Fill
<1>3. b \in Texts /\ Len(b) <= n + 1 /\ (Len(b) <= n \/ Len(b) > n)
  <2>1. CASE b = << >>
    BY <1>1, <2>1 DEF Texts
  <2>2. CASE b = <<Junk>> \o [i \in 1..n |-> c]
    <3>1. <<Junk>> \in Texts /\ Len(<<Junk>>) = 1
      BY DEF Texts
    <3>2. [i \in 1..n |-> c] \in [1..n -> Char \cup {Junk}]
      OBVIOUS
    <3>3. [i \in 1..n |-> c] \in Texts /\ Len([i \in 1..n |-> c]) = n
      BY <1>1, <3>2 DEF Texts
    <3> QED BY <1>1, <2>2, <3>1, <3>3, JoinedText
  <2> QED BY <2>1, <2>2 DEF Memchr
<1>4. Fits(Buffer(n, n, b), Unknown)
  BY <1>1, <1>3, BufferFits
<1> QED BY <1>2, <1>4, SetsInv DEF Fill, Unmade

LEMMA FromTextInv ==
  ASSUME StringInv, NEW s \in Strings, FromText(s)
  PROVE  StringInv'
<1>1. PICK x \in TextsOf(Strings) : Sets(s, Buffer(Len(x), Len(x), x), x)
  BY DEF FromText
<1>2. x \in Texts /\ Len(x) \in Nat /\ Len(x) <= MaxLen
  BY PassedText
<1>3. Len(x) \in 0..SizeMax /\ Len(x) \in 0..Len(x)
  BY <1>2, StringAssumption
<1>4. Fits(Buffer(Len(x), Len(x), x), x)
  BY <1>2, <1>3, BufferFits
<1> QED BY <1>1, <1>4, SetsInv DEF FromText, Unmade

\* A part of a String whose text is known is that part of the text.
LEMMA FromPartInv ==
  ASSUME StringInv, NEW s \in Strings, NEW t \in Strings,
         NEW p \in Counts, NEW q \in Counts, FromPart(s, t, p, q)
  PROVE  StringInv'
<1> DEFINE stop == Min({q, str[t].len})
           n    == stop - p
<1>1. Stands(str[t]) /\ str[t].body \in Texts /\ str[t].len \in 0..SizeMax
  BY DEF FromPart, Made, StringInv, Fits, Stands, Object
<1>2. p \in 0..SizeMax /\ q \in 0..SizeMax /\ SizeMax \in Nat
  BY CountsBound, StringAssumption
<1>3. stop \in 0..SizeMax
  BY <1>1, <1>2, MinOfTwo
<1>4. p <= stop
  BY DEF FromPart
<1>5. n \in 0..SizeMax /\ n \in Nat /\ n \in 0..n
  BY <1>2, <1>3, <1>4
<1>6. CASE Refuses(s, n)
  <2>1. Fits(NoBuffer(n, n), Unknown)
    BY <1>5, NoBufferFits
  <2> QED BY <1>6, <2>1, SetsInv DEF FromPart, Unmade, Refuses
<1>7. ASSUME NEW x \in CStr(str[t]),
             Sets(s, Buffer(n, n, Strncpy(Behind(x, p), n)),
                  IF text[t] = Unknown THEN Unknown
                  ELSE Strncpy(Behind(text[t], p), n))
      PROVE  StringInv'
  <2> DEFINE b == Strncpy(Behind(x, p), n)
             y == IF text[t] = Unknown THEN Unknown
                  ELSE Strncpy(Behind(text[t], p), n)
  <2>1. x \in Texts /\ (Terminated(str[t]) => x = str[t].body)
    BY <1>1, CStrText
  <2>2. b \in Texts /\ Len(b) <= n
    <3>1. Behind(x, p) \in Texts
      BY <1>2, <2>1, BehindText
    <3>2. Len(Behind(x, p)) \in Nat
      BY <3>1 DEF Texts
    <3> QED BY <1>5, <3>1, <3>2, StrncpyText
  <2>3. text[t] # Unknown => x = text[t]
    <3>1. text[t] # Unknown => Holds(str[t], text[t])
      BY DEF FromPart, Made, StringInv, Fits
    <3>2. text[t] # Unknown => Terminated(str[t])
      <4>1. Len(str[t].body) \in Nat /\ str[t].len <= str[t].cap
            /\ str[t].cap \in Nat
        BY <1>1 DEF Stands, Object, Texts
      <4> QED BY <1>1, <3>1, <4>1 DEF Holds, Terminated
    <3> QED BY <2>1, <3>1, <3>2 DEF Holds
  <2>4. y = Unknown \/ y = b
    BY <2>3
  <2>5. Fits(Buffer(n, n, b), y)
    <3>1. Len(b) \in Nat
      BY <2>2 DEF Texts
    <3> HIDE DEF b, y, n
    <3> QED BY <1>5, <2>2, <2>4, <3>1, BufferFits
  <2> HIDE DEF b, y, n
  <2>6. Sets(s, Buffer(n, n, b), y)
    BY <1>7 DEF b, y
  <2> QED BY <2>5, <2>6, SetsInv DEF FromPart, Unmade
<1>8. ASSUME NEW k \in 0..n, Sets(s, Buffer(n, n, Junks(k)), Unknown)
      PROVE  StringInv'
  <2>1. Junks(k) \in Texts /\ Len(Junks(k)) <= n
    BY <1>5, JunksText
  <2>2. Fits(Buffer(n, n, Junks(k)), Unknown)
    <3>1. Len(Junks(k)) \in Nat
      BY <2>1 DEF Texts
    <3> HIDE DEF n
    <3> QED BY <1>5, <2>1, <3>1, BufferFits
  <2> QED BY <1>8, <2>2, SetsInv DEF FromPart, Unmade
<1> QED BY <1>6, <1>7, <1>8 DEF FromPart

\* A write behind a block is to a String that is not made yet, and has no text.
LEMMA FromPartBeyondInv ==
  ASSUME StringInv, NEW s \in Strings, NEW t \in Strings,
         NEW p \in Counts, NEW q \in Counts, FromPartBeyond(s, t, p, q)
  PROVE  StringInv'
<1> DEFINE stop == Min({q, str[t].len})
           n    == SizeMax + 1 - (p - stop)
<1>1. str[t].len \in 0..SizeMax
  BY DEF FromPartBeyond, Made, StringInv, Fits, Stands, Object
<1>2. p \in 0..SizeMax /\ q \in 0..SizeMax /\ SizeMax \in Nat
  BY CountsBound, StringAssumption
<1>3. stop \in 0..SizeMax
  BY <1>1, <1>2, MinOfTwo
<1>4. p > stop
  BY DEF FromPartBeyond
<1>5. n \in 0..SizeMax /\ n \in 0..n
  BY <1>2, <1>3, <1>4
<1>6. CASE Refuses(s, n) /\ victim' = victim
  <2>1. Fits(NoBuffer(n, n), Unknown)
    BY <1>5, NoBufferFits
  <2> QED BY <1>6, <2>1, SetsInv DEF FromPartBeyond, Unmade, Refuses
<1>7. CASE victim' = s /\ UNCHANGED <<str, text>>
  <2>1. text[s] = Unknown /\ UNCHANGED fault
    BY DEF FromPartBeyond, Unmade, StringInv, Fits
  <2> QED BY <1>7, <2>1 DEF StringInv, OverrunExplained
<1> QED BY <1>6, <1>7 DEF FromPartBeyond

LEMMA DestroyInv ==
  ASSUME StringInv, NEW s \in Strings, Destroy(s)
  PROVE  StringInv'
<1>1. Fits(None, Unknown)
  BY DEF Fits
<1> QED BY <1>1, SetsInv DEF Destroy, Made

-----------------------------------------------------------------------------
(***************************************************************************)
(* Expand, and the functions that make room by it.                         *)
(***************************************************************************)
LEMMA ObjectFields ==
  ASSUME NEW o, Stands(o)
  PROVE  /\ o \in Object
         /\ o.null \in BOOLEAN
         /\ o.cap \in 0..SizeMax /\ o.len \in 0..SizeMax
         /\ o.cap \in Nat /\ o.len \in Nat /\ SizeMax \in Nat
         /\ o.body \in Texts /\ Len(o.body) \in Nat
         /\ o.len <= o.cap /\ Len(o.body) <= o.cap + 1
<1>1. SizeMax \in Nat
  BY StringAssumption
<1> QED BY <1>1 DEF Stands, Object, Texts

\* A realloc that is not refused makes the room that was asked for; whatever
\* comes of it, the text that was there still is.
Grown(o, c, e) == /\ e \in Object
                  /\ e.cap \in 0..SizeMax /\ e.cap \in Nat
                  /\ e.body \in Texts /\ Len(e.body) \in Nat
                  /\ o.cap <= e.cap
                  /\ e.cap < c => e = o
                  /\ c <= o.cap => e = o
                  /\ o.null = FALSE /\ Terminated(o) => e.body = o.body

LEMMA ExpandedObject ==
  ASSUME NEW o, Stands(o), NEW c \in 0..SizeMax, NEW e \in Expanded(o, c)
  PROVE  Grown(o, c, e)
<1>1. /\ o \in Object /\ o.cap \in Nat /\ c \in Nat /\ o.body \in Texts
      /\ Len(o.body) \in Nat /\ Len(o.body) <= o.cap + 1 /\ SizeMax \in Nat
  BY ObjectFields
<1>2. CASE e = o
  BY <1>1, <1>2, ObjectFields DEF Grown
<1>3. ASSUME e # o PROVE c > o.cap
  <2>1. c <= o.cap => Expanded(o, c) = {o}
    BY Zenon DEF Expanded
  <2> QED BY <1>1, <1>3, <2>1
<1>4. ASSUME NEW b \in Texts,
             e = [o EXCEPT !.null = FALSE, !.cap = c, !.body = b],
             o.null = FALSE /\ Terminated(o) => b = o.body,
             c > o.cap
      PROVE  Grown(o, c, e)
  <2>1. e = [null |-> FALSE, cap |-> c, len |-> o.len, body |-> b]
    BY <1>1, <1>4 DEF Object
  <2>2. e \in Object
    BY <1>1, <2>1 DEF Object
  <2>3. Len(b) \in Nat
    BY DEF Texts
  <2>4. e.body = b /\ e.cap = c
    BY <2>1
  <2> QED BY <1>1, <1>4, <2>2, <2>3, <2>4 DEF Grown
<1>5. CASE e # o
  <2>1. c > o.cap
    BY <1>3, <1>5
  <2> DEFINE B == IF Terminated(o) /\ ~ o.null THEN {o.body}
                   ELSE {o.body \o Junks(n) : n \in 0..(c + 1 - Len(o.body))}
  <2>2. PICK b \in B : e = [o EXCEPT !.null = FALSE, !.cap = c, !.body = b]
    <3>1. Expanded(o, c) = {o} \cup {[o EXCEPT !.null = FALSE, !.cap = c, !.body = b] : b \in B}
      <4>1. ~ (c <= o.cap)
        BY <1>1, <2>1
      <4> QED BY <4>1, Zenon DEF Expanded
    <3> HIDE DEF B
    <3> QED BY <1>5, <3>1
  <2>3. CASE o.null = FALSE /\ Terminated(o)
    BY <1>1, <1>4, <2>1, <2>2, <2>3
  <2>4. CASE ~ (o.null = FALSE /\ Terminated(o))
    <3>1. PICK n \in 0..(c + 1 - Len(o.body)) : b = o.body \o Junks(n)
      BY <1>1, <2>2, <2>4, ObjectFields
    <3>2. Junks(n) \in Texts
      BY JunksText
    <3>3. b \in Texts
      BY <1>1, <3>1, <3>2, JoinedText
    <3> QED BY <1>4, <2>1, <2>2, <2>4, <3>3
  <2> QED BY <2>3, <2>4
<1> QED BY <1>2, <1>5

LEMMA RewrittenFits ==
  ASSUME NEW e \in Object, NEW b \in Texts, Len(b) <= e.cap, e.null = FALSE,
         NEW x, x = Unknown \/ x = b
  PROVE  Fits([e EXCEPT !.body = b, !.len = Len(b)], x)
<1> DEFINE r == [e EXCEPT !.body = b, !.len = Len(b)]
<1>1. Len(b) \in Nat /\ e.cap \in 0..SizeMax /\ SizeMax \in Nat
  BY StringAssumption DEF Object, Texts
<1>2. Len(b) \in 0..SizeMax
  BY <1>1
<1>3. r \in Object
  BY <1>2 DEF Object
<1>4. r.cap = e.cap /\ r.len = Len(b) /\ r.body = b
  BY DEF Object
<1>5. r.null = FALSE
  BY Zenon DEF Object
<1> HIDE DEF r
<1>6. Stands(r)
  BY <1>1, <1>3, <1>4 DEF Stands
<1>7. x # Unknown => Holds(r, x)
  BY <1>1, <1>4, <1>5 DEF Holds
<1>8. x \in Texts \cup {Unknown} /\ r # None
  BY <1>3, NoneIsNoObject
<1>9. Fits(r, x)
  BY <1>6, <1>7, <1>8 DEF Fits
<1> QED BY <1>9 DEF r

LEMMA AssignTextInv ==
  ASSUME StringInv, NEW s \in Strings, NEW x \in TextsOf(Strings),
         AssignText(s, x)
  PROVE  StringInv'
<1>1. x \in Texts /\ Len(x) \in 0..SizeMax /\ Len(x) \in Nat
  BY PassedText, StringAssumption
<1>2. Stands(str[s])
  BY DEF AssignText, Made, StringInv, Fits
<1>3. PICK e \in Expanded(str[s], Len(x)) :
        /\ ~ e.null
        /\ LET b == Strncpy(x, e.cap)
           IN  Sets(s, [e EXCEPT !.body = b, !.len = Len(b)], Granted(e, Len(x), x))
  BY DEF AssignText
<1> DEFINE b == Strncpy(x, e.cap)
<1>4. e \in Object /\ e.cap \in Nat
  <2>1. e \in Expanded(str[s], Len(x))
    BY <1>3
  <2>2. Grown(str[s], Len(x), e)
    BY <1>1, <1>2, <2>1, ExpandedObject
  <2> QED BY <2>2 DEF Grown
<1>5. e.null = FALSE
  BY <1>3, <1>4 DEF Object
<1>6. b \in Texts /\ Len(b) <= e.cap /\ (Len(x) <= e.cap => b = x)
  BY <1>1, <1>4, StrncpyText
<1>7. Granted(e, Len(x), x) = Unknown \/ Granted(e, Len(x), x) = b
  BY <1>1, <1>4, <1>6 DEF Granted
<1> HIDE DEF b
<1>8. Fits([e EXCEPT !.body = b, !.len = Len(b)], Granted(e, Len(x), x))
  BY <1>4, <1>5, <1>6, <1>7, RewrittenFits
<1>9. Sets(s, [e EXCEPT !.body = b, !.len = Len(b)], Granted(e, Len(x), x))
  BY <1>3 DEF b
<1> QED BY <1>8, <1>9, SetsInv DEF AssignText, Made

LEMMA WrappedOnce ==
  ASSUME NEW a \in Nat, NEW m \in Nat, m > 0, a < 2 * m
  PROVE  a % m = IF a < m THEN a ELSE a - m
  OBVIOUS

\* A String's length and that of what is appended wrap once at most.
LEMMA SumWrapsOnce ==
  ASSUME NEW l \in Nat, NEW k \in Nat, NEW m \in Nat, NEW n \in Nat,
         l <= m, k <= n, 2 * n <= m
  PROVE  /\ l + k < 2 * (m + 1) /\ l + k \in Nat
         /\ m + 1 \in Nat /\ m + 1 > 0
  OBVIOUS

\* When the room that Append asked for is there, the text fits: the sum that
\* wraps is that of a length far beyond what is appended.
LEMMA RoomIsMade ==
  ASSUME NEW o, Stands(o), NEW t \in Texts, Holds(o, t),
         NEW x \in Texts, Len(o.body) + Len(x) <= MaxLen,
         NEW e \in Expanded(o, AppendedCap(o, x)),
         ~ (e.cap < AppendedCap(o, x))
  PROVE  /\ Concatenated(e, x) = t \o x
         /\ Len(t \o x) <= e.cap
<1> DEFINE c == AppendedCap(o, x)
<1>1. /\ o.cap \in Nat /\ o.len \in Nat /\ o.len <= o.cap /\ o.cap <= SizeMax
      /\ SizeMax \in Nat /\ MaxLen \in Nat /\ 2 * MaxLen <= SizeMax
      /\ Len(o.body) \in Nat /\ Len(x) \in Nat
  BY ObjectFields, StringAssumption DEF Texts
<1>2. o.body = t /\ Len(t) <= o.len /\ o.null = FALSE
  BY DEF Holds
<1>3. Terminated(o)
  BY <1>1, <1>2 DEF Terminated
<1>4. c \in 0..SizeMax
  BY <1>1 DEF AppendedCap
<1>5. e.cap \in Nat /\ e.body = t /\ (c <= o.cap => e = o) /\ c <= e.cap
  <2>1. e \in Expanded(o, c) /\ ~ (e.cap < c)
    OBVIOUS
  <2> HIDE DEF c
  <2>2. Grown(o, c, e)
    BY <1>4, <2>1, ExpandedObject
  <2>3. e.cap \in Nat /\ (c <= o.cap => e = o) /\ c <= e.cap
    BY <1>4, <2>1, <2>2 DEF Grown
  <2>4. e.body = t
    BY <1>2, <1>3, <2>2, Zenon DEF Grown
  <2> QED BY <2>3, <2>4
<1>6. Len(t) + Len(x) <= e.cap
  <2>1. CASE o.len + Len(x) <= SizeMax
    <3>1. c = o.len + Len(x)
      <4>1. o.len + Len(x) < SizeMax + 1 /\ o.len + Len(x) < 2 * (SizeMax + 1)
        BY <1>1, <2>1
      <4>2. o.len + Len(x) \in Nat /\ SizeMax + 1 \in Nat /\ SizeMax + 1 > 0
        BY <1>1
      <4> QED BY <4>1, <4>2, WrappedOnce DEF AppendedCap
    <3> HIDE DEF c
    <3> QED BY <1>1, <1>2, <1>5, <3>1
  <2>2. CASE ~ (o.len + Len(x) <= SizeMax)
    <3> DEFINE a == o.len + Len(x)
               m == SizeMax + 1
    <3>1. ~ (a < m) /\ a < 2 * m /\ a \in Nat /\ m \in Nat /\ m > 0
      <4>1. o.len <= SizeMax /\ Len(x) <= MaxLen
        BY <1>1
      <4>2. ~ (a < m)
        BY <1>1, <2>2
      <4> QED BY <1>1, <4>1, <4>2, SumWrapsOnce
    <3>2. c = a % m
      BY DEF AppendedCap
    <3>3. Len(x) <= MaxLen
      BY <1>1
    <3>4. a - m <= o.cap
      BY <1>1, <3>3
    <3> HIDE DEF a, m, c
    <3>5. c = a - m
      BY <3>1, <3>2, WrappedOnce
    <3>6. e = o
      BY <1>5, <3>4, <3>5
    <3> QED BY <1>1, <1>2, <2>2, <3>3, <3>6
  <2> QED BY <2>1, <2>2
<1>7. Strncpy(x, e.cap) = x
  <2>1. Len(x) <= e.cap
    BY <1>1, <1>2, <1>5, <1>6
  <2> QED BY <1>5, <2>1, StrncpyText
<1>8. Len(t \o x) = Len(t) + Len(x)
  BY JoinedText
<1> QED BY <1>5, <1>6, <1>7, <1>8 DEF Concatenated

\* What strncat is given room for it stores; it writes behind the buffer of
\* a String only whose text nobody has set.
LEMMA AppendTextInv ==
  ASSUME StringInv, NEW s \in Strings, NEW x \in TextsOf(Strings \ {s}),
         AppendText(s, x)
  PROVE  StringInv'
<1> DEFINE o == str[s]
           c == AppendedCap(o, x)
<1>1. x \in Texts /\ Len(x) \in Nat
  BY PassedText
<1>2. Running /\ o # None /\ o \in Object /\ Stands(o) /\ Len(o.body) + Len(x) <= MaxLen
  BY DEF AppendText, Made, StringInv, Fits, Stands
<1>3. text[s] # Unknown => text[s] \in Texts /\ Holds(o, text[s])
  BY <1>2 DEF StringInv, Fits
<1>4. PICK e \in Expanded(o, c) :
        /\ ~ e.null
        /\ IF Len(Concatenated(e, x)) > e.cap THEN victim' = s /\ str' = str
           ELSE /\ str' = [str EXCEPT ![s] =
                              [e EXCEPT !.body = Concatenated(e, x),
                                        !.len = Len(Concatenated(e, x))]]
                /\ victim' = victim
        /\ text' = [text EXCEPT ![s] = IF @ = Unknown THEN Unknown
                                       ELSE Granted(e, c, @ \o x)]
  BY DEF AppendText
<1> DEFINE b == Concatenated(e, x)
           y == IF text[s] = Unknown THEN Unknown ELSE Granted(e, c, text[s] \o x)
<1>5. c \in 0..SizeMax
  BY <1>1, <1>2, ObjectFields DEF AppendedCap
<1>6. Grown(o, c, e)
  BY <1>2, <1>4, <1>5, ExpandedObject
<1>7. e \in Object /\ e.cap \in Nat /\ e.body \in Texts
  BY <1>6 DEF Grown
<1>8. e.null = FALSE
  BY <1>4, <1>7 DEF Object
<1>9. b \in Texts /\ Len(b) \in Nat
  <2>1. Strncpy(x, e.cap) \in Texts
    BY <1>1, <1>7, StrncpyText
  <2>2. b \in Texts
    BY <1>7, <2>1, JoinedText DEF Concatenated
  <2> QED BY <2>2 DEF Texts
<1>10. ASSUME y # Unknown PROVE y = b /\ Len(b) <= e.cap
  <2>1. text[s] # Unknown /\ ~ (e.cap < c)
    BY <1>10 DEF Granted
  <2>2. /\ Concatenated(e, x) = text[s] \o x
        /\ Len(text[s] \o x) <= e.cap
    BY <1>1, <1>2, <1>3, <1>4, <2>1, RoomIsMade
  <2> QED BY <2>1, <2>2 DEF Granted
<1>11. fault' = fault /\ s \in DOMAIN text
  BY DEF AppendText, StringInv
<1>12. text' = [text EXCEPT ![s] = y]
  BY <1>4, <1>11
<1>13. CASE Len(b) > e.cap
  <2>1. y = Unknown
    BY <1>7, <1>9, <1>10, <1>13
  <2>2. victim' = s /\ str' = str
    BY <1>4, <1>13
  <2>3. \A t \in Strings : text'[t] = IF t = s THEN Unknown ELSE text[t]
    BY <1>12, <2>1 DEF StringInv
  <2>4. text' \in [Strings -> Texts \cup {Unknown}]
    BY <1>12, <2>1 DEF StringInv
  <2>5. \A t \in Strings : Fits(str'[t], text'[t])
    BY <2>2, <2>3 DEF StringInv, Fits
  <2> QED BY <1>11, <2>2, <2>3, <2>4, <2>5 DEF StringInv, OverrunExplained
<1>14. CASE ~ (Len(b) > e.cap)
  <2>1. Fits([e EXCEPT !.body = b, !.len = Len(b)], y)
    <3> HIDE DEF b, y
    <3>1. Len(b) <= e.cap /\ (y = Unknown \/ y = b)
      BY <1>7, <1>9, <1>10, <1>14
    <3> QED BY <1>7, <1>8, <1>9, <3>1, RewrittenFits
  <2>2. Sets(s, [e EXCEPT !.body = b, !.len = Len(b)], y)
    <3>1. str' = [str EXCEPT ![s] = [e EXCEPT !.body = b, !.len = Len(b)]]
      BY <1>4, <1>14
    <3> HIDE DEF b, y
    <3> QED BY <1>12, <3>1 DEF Sets
  <2>3. UNCHANGED <<fault, victim>>
    BY <1>4, <1>11, <1>14
  <2> HIDE DEF b, y
  <2> QED BY <1>2, <2>1, <2>2, <2>3, SetsInv
<1> QED BY <1>13, <1>14

\* An Append of a String to itself that does not run over has moved the
\* buffer; the room that m_len asks for is then the room for twice the text.
LEMMA AppendOwnInv ==
  ASSUME StringInv, NEW s \in Strings, AppendOwn(s)
  PROVE  StringInv'
<1> DEFINE o == str[s]
           c == AppendedCap(o, o.body)
           b == o.body \o o.body
           y == IF text[s] = Unknown THEN Unknown ELSE text[s] \o text[s]
<1>1. Running /\ o # None /\ Stands(o)
  BY DEF AppendOwn, Made, StringInv, Fits
<1>2. /\ o.cap \in Nat /\ o.len \in Nat /\ o.len <= o.cap /\ o.cap <= SizeMax
      /\ SizeMax \in Nat /\ MaxLen \in Nat /\ 2 * MaxLen <= SizeMax
      /\ o.body \in Texts /\ Len(o.body) \in Nat
  BY <1>1, ObjectFields, StringAssumption
<1>3. fault' = fault
  BY DEF AppendOwn
<1>4. CASE /\ o.body = << >>
           /\ Sets(s, [o EXCEPT !.len = 0], text[s])
           /\ victim' = victim
  <2> DEFINE e == [o EXCEPT !.len = 0]
  <2>1. Fits(e, text[s])
    <3>1. Fits(o, text[s]) /\ o \in Object
      BY <1>1, ObjectFields DEF StringInv
    <3> HIDE DEF o
    <3>2. e \in Object /\ e.cap = o.cap /\ e.len = 0 /\ e.body = o.body
      BY <1>2, <3>1 DEF Object
    <3>3. o.null = FALSE => e.null = FALSE
      BY <3>1, Zenon DEF Object
    <3>4. Len(o.body) = 0
      BY <1>4
    <3> HIDE DEF e
    <3>5. Stands(e)
      BY <1>1, <1>2, <3>2 DEF Stands
    <3> QED BY <1>1, <3>1, <3>2, <3>3, <3>4, <3>5, NoneIsNoObject DEF Fits, Holds
  <2>2. Sets(s, e, text[s]) /\ UNCHANGED <<fault, victim>>
    BY <1>3, <1>4
  <2> HIDE DEF e
  <2> QED BY <1>1, <2>1, <2>2, SetsInv
<1>5. CASE /\ victim' = s /\ str' = str
           /\ text' = [text EXCEPT ![s] = Unknown]
  <2>1. \A t \in Strings : text'[t] = IF t = s THEN Unknown ELSE text[t]
    BY <1>5 DEF StringInv
  <2>2. text' \in [Strings -> Texts \cup {Unknown}]
    BY <1>5 DEF StringInv
  <2>3. \A t \in Strings : Fits(str'[t], text'[t])
    BY <1>5, <2>1 DEF StringInv, Fits
  <2> QED BY <1>3, <1>5, <2>1, <2>2, <2>3 DEF StringInv, OverrunExplained
<1>6. CASE /\ o.body # << >> /\ Terminated(o) /\ c > o.cap /\ 2 * Len(o.body) <= MaxLen
           /\ Sets(s, Buffer(c, 2 * Len(o.body), b), y)
           /\ victim' = victim
  <2>1. Len(o.body) <= o.cap
    BY <1>6 DEF Terminated
  <2>2. c = o.len + Len(o.body)
    <3> DEFINE a == o.len + Len(o.body)
               m == SizeMax + 1
    <3>1. a < 2 * m /\ a \in Nat /\ m \in Nat /\ m > 0
      <4>1. 2 * Len(o.body) <= MaxLen
        BY <1>6
      <4> HIDE DEF o
      <4>2. o.len <= SizeMax /\ Len(o.body) <= MaxLen
        BY <1>2, <4>1
      <4> QED BY <1>2, <4>2, SumWrapsOnce
    <3>2. c = a % m
      BY DEF AppendedCap
    <3>3. a - m <= Len(o.body)
      BY <1>2
    <3>4. c > o.cap
      BY <1>6
    <3> HIDE DEF a, m, c
    <3>5. c = IF a < m THEN a ELSE a - m
      BY <3>1, <3>2, WrappedOnce
    <3>6. c = a
      BY <1>2, <2>1, <3>1, <3>3, <3>4, <3>5
    <3> QED BY <3>6 DEF a
  <2>3. Len(o.body) <= o.len
    <3>1. o.len # 0
      BY <1>2, <1>6, <2>1, <2>2
    <3> QED BY <1>1, <1>2, <2>1, <3>1 DEF Stands
  <2>4. b \in Texts /\ Len(b) = 2 * Len(o.body)
    <3>1. b \in Texts /\ Len(b) = Len(o.body) + Len(o.body)
      BY <1>2, JoinedText
    <3> QED BY <1>2, <3>1
  <2>5. c \in 0..SizeMax /\ 2 * Len(o.body) \in 0..c
    <3>1. c \in 0..SizeMax
      BY <1>2 DEF AppendedCap
    <3> HIDE DEF c
    <3> QED BY <1>2, <2>2, <2>3, <3>1
  <2>6. y = Unknown \/ y = b
    BY DEF AppendOwn, Made, StringInv, Fits, Holds
  <2>7. Fits(Buffer(c, 2 * Len(o.body), b), y)
    <3>1. Len(b) <= c + 1 /\ Len(b) <= 2 * Len(o.body)
      <4> HIDE DEF b, c
      <4> QED BY <1>2, <2>4, <2>5
    <3> HIDE DEF b, c, y
    <3> QED BY <2>4, <2>5, <2>6, <3>1, BufferFits
  <2>8. Sets(s, Buffer(c, 2 * Len(o.body), b), y) /\ UNCHANGED <<fault, victim>>
    BY <1>3, <1>6
  <2> HIDE DEF b, c, y
  <2> QED BY <1>1, <2>7, <2>8, SetsInv
<1> QED BY <1>4, <1>5, <1>6 DEF AppendOwn

LEMMA ClearInv ==
  ASSUME StringInv, NEW s \in Strings, Clear(s)
  PROVE  StringInv'
<1>1. str[s] # None /\ Stands(str[s]) /\ str[s] \in Object /\ ~ str[s].null
  BY DEF Clear, Made, StringInv, Fits, Stands
<1>2. str[s].null = FALSE
  BY <1>1 DEF Object
<1>3. << >> \in Texts /\ Len(<< >>) = 0 /\ 0 <= str[s].cap
  BY <1>1, ObjectFields DEF Texts
<1>4. Fits([str[s] EXCEPT !.body = << >>, !.len = Len(<< >>)], << >>)
  BY <1>1, <1>2, <1>3, RewrittenFits
<1>5. Fits([str[s] EXCEPT !.body = << >>, !.len = 0], << >>)
  BY <1>3, <1>4
<1> QED BY <1>5, SetsInv DEF Clear, Made

LEMMA StoreInv ==
  ASSUME StringInv, NEW s \in Strings, NEW i \in Counts \ {0},
         NEW c \in Char \cup {Nul}, Store(s, i, c)
  PROVE  StringInv'
<1> DEFINE o == str[s]
           b == Stored(o.body, i, c)
           e == [o EXCEPT !.body = b]
           y == IF text[s] = Unknown THEN Unknown ELSE Stored(text[s], i, c)
<1>1. o # None /\ Stands(o) /\ Terminated(o)
  BY DEF Store, Made, StringInv, Fits
<1>2. /\ o \in Object /\ o.cap \in Nat /\ o.len \in Nat
      /\ o.body \in Texts /\ Len(o.body) \in Nat
      /\ o.len <= o.cap /\ Len(o.body) <= o.cap
  BY <1>1, ObjectFields DEF Terminated
<1>3. i \in 1..Len(o.body)
  BY <1>2, CountsBound DEF Store
<1>4. b \in Texts /\ Len(b) <= Len(o.body)
  BY <1>2, <1>3, StoredText
<1>5. Len(b) \in Nat
  BY <1>4 DEF Texts
<1>6. ASSUME text[s] # Unknown
      PROVE  o.null = FALSE /\ y = b /\ Len(o.body) <= o.len
  BY <1>1, <1>6 DEF StringInv, Fits, Holds
<1> HIDE DEF b
<1>7. e \in Object /\ e.cap = o.cap /\ e.len = o.len /\ e.body = b
  BY <1>2, <1>4 DEF Object
<1>8. o.null = FALSE => e.null = FALSE
  BY <1>2, Zenon DEF Object
<1> HIDE DEF e
<1>9. Stands(e)
  BY <1>1, <1>2, <1>4, <1>5, <1>7 DEF Stands
<1>10. ASSUME y # Unknown PROVE Holds(e, y)
  <2>1. text[s] # Unknown
    BY <1>10
  <2>2. o.null = FALSE /\ y = b /\ Len(o.body) <= o.len
    BY <1>6, <2>1
  <2> HIDE DEF y
  <2>3. Len(b) <= e.len
    BY <1>2, <1>4, <1>5, <1>7, <2>2
  <2>4. e.null = FALSE
    BY <1>8, <2>2
  <2> QED BY <1>7, <2>2, <2>3, <2>4 DEF Holds
<1>11. y \in Texts \cup {Unknown}
  BY <1>4, <1>6
<1> HIDE DEF y
<1>12. Fits(e, y)
  BY <1>7, <1>9, <1>10, <1>11, NoneIsNoObject DEF Fits
<1>13. Sets(s, e, y)
  BY DEF Store, e, y, b
<1> QED BY <1>12, <1>13, SetsInv DEF Store, Made

-----------------------------------------------------------------------------
(***************************************************************************)
(* Every step.                                                             *)
(***************************************************************************)
LEMMA NextInv == StringInv /\ [Next]_vars => StringInv'
<1> SUFFICES ASSUME StringInv, [Next]_vars PROVE StringInv'
  OBVIOUS
<1>1. ASSUME NEW s \in Strings, NEW n \in Counts, Reserve(s, n)
      PROVE  StringInv'
  BY <1>1, ReserveInv
<1>2. ASSUME NEW s \in Strings, NEW n \in Counts, NEW c \in Char, Fill(s, c, n)
      PROVE  StringInv'
  BY <1>2, FillInv
<1>3. ASSUME NEW s \in Strings, FromText(s) PROVE StringInv'
  BY <1>3, FromTextInv
<1>4. ASSUME NEW s \in Strings, NEW t \in Strings, NEW p \in Counts, NEW n \in Counts,
             FromPart(s, t, p, n)
      PROVE  StringInv'
  BY <1>4, FromPartInv
<1>5. ASSUME NEW s \in Strings, NEW t \in Strings, NEW p \in Counts, NEW n \in Counts,
             FromPartBeyond(s, t, p, n)
      PROVE  StringInv'
  BY <1>5, FromPartBeyondInv
<1>6. ASSUME NEW s \in Strings, Destroy(s) PROVE StringInv'
  BY <1>6, DestroyInv
<1>7. ASSUME NEW s \in Strings, NEW x \in TextsOf(Strings \ {s}), AppendText(s, x)
      PROVE  StringInv'
  BY <1>7, AppendTextInv
<1>8. ASSUME NEW s \in Strings, AppendOwn(s) PROVE StringInv'
  BY <1>8, AppendOwnInv
<1>9. ASSUME NEW s \in Strings, NEW x \in TextsOf(Strings), AssignText(s, x)
      PROVE  StringInv'
  BY <1>9, AssignTextInv
<1>10. ASSUME NEW s \in Strings, Clear(s) PROVE StringInv'
  BY <1>10, ClearInv
<1>11. ASSUME NEW s \in Strings, NEW i \in Counts \ {0}, NEW c \in Char \cup {Nul},
              Store(s, i, c)
       PROVE  StringInv'
  BY <1>11, StoreInv
<1>12. ASSUME NEW s \in Strings, Fault(s) PROVE StringInv'
  BY <1>12 DEF Fault, StringInv, OverrunExplained
<1>13. CASE UNCHANGED vars
  BY <1>13 DEF vars, StringInv, OverrunExplained
<1> QED BY <1>1, <1>2, <1>3, <1>4, <1>5, <1>6, <1>7, <1>8, <1>9, <1>10,
           <1>11, <1>12, <1>13 DEF Next

LEMMA StringInvariant == Spec => []StringInv
  BY InitInv, NextInv, PTL DEF Spec

-----------------------------------------------------------------------------
(***************************************************************************)
(* A String without a buffer. No call but the constructor of a part sets   *)
(* the length of one: every other needs the buffer, and makes one or ends  *)
(* in a fault.                                                             *)
(***************************************************************************)
Counted(s) == str[s] # None /\ str[s].null => str[s].len = 0 \/ s \in refused

NullInv == /\ refused \subseteq Strings
           /\ \A s \in Strings : Counted(s)

\* What is set has a buffer, is empty, or is no String any more.
LEMMA SetsCounted ==
  ASSUME StringInv, NullInv, NEW s \in Strings, NEW o,
         str' = [str EXCEPT ![s] = o],
         refused \ {s} \subseteq refused', refused' \subseteq Strings,
         o = None \/ o.null = FALSE \/ o.len = 0 \/ s \in refused'
  PROVE  NullInv'
<1>1. \A t \in Strings : str'[t] = IF t = s THEN o ELSE str[t]
  BY DEF StringInv
<1>2. ASSUME NEW t \in Strings PROVE Counted(t)'
  <2>1. CASE t = s
    BY <1>1, <2>1 DEF Counted
  <2>2. CASE t # s
    BY <1>1, <2>2 DEF Counted, NullInv
  <2> QED BY <2>1, <2>2
<1> QED BY <1>2 DEF NullInv

\* What Expand has made room for, or found, has a buffer.
LEMMA ExpandedHasBuffer ==
  ASSUME StringInv, NEW s \in Strings, str[s] # None, NEW c \in 0..SizeMax,
         NEW e \in Expanded(str[s], c), ~ e.null, NEW b, NEW l
  PROVE  [e EXCEPT !.body = b, !.len = l].null = FALSE
<1>1. Stands(str[s])
  BY DEF StringInv, Fits
<1>2. e \in Object
  BY <1>1, ExpandedObject DEF Grown
<1> QED BY <1>2, Zenon DEF Object

LEMMA AppendTextCounted ==
  ASSUME StringInv, NullInv, NEW s \in Strings, NEW x \in TextsOf(Strings \ {s}),
         AppendText(s, x)
  PROVE  NullInv'
<1> DEFINE c == AppendedCap(str[s], x)
<1>1. /\ Len(x) \in Nat /\ str[s] # None /\ Stands(str[s])
      /\ refused' = refused /\ refused \subseteq Strings
  BY PassedText DEF AppendText, Made, StringInv, Fits, NullInv
<1>2. c \in 0..SizeMax
  <2>1. str[s].len \in Nat /\ SizeMax \in Nat
    BY <1>1, ObjectFields
  <2> QED BY <1>1, <2>1 DEF AppendedCap
<1>3. PICK e \in Expanded(str[s], c) :
        /\ ~ e.null
        /\ LET b == Concatenated(e, x)
           IN  \/ str' = str
               \/ str' = [str EXCEPT ![s] = [e EXCEPT !.body = b, !.len = Len(b)]]
  BY DEF AppendText
<1> DEFINE b == Concatenated(e, x)
           o == [e EXCEPT !.body = b, !.len = Len(b)]
<1>4. CASE str' = str
  BY <1>1, <1>4 DEF NullInv, Counted
<1>5. CASE str' = [str EXCEPT ![s] = o]
  <2>1. o.null = FALSE
    BY <1>1, <1>2, <1>3, ExpandedHasBuffer
  <2> HIDE DEF o
  <2> QED BY <1>1, <1>5, <2>1, SetsCounted
<1> QED BY <1>3, <1>4, <1>5

LEMMA AssignTextCounted ==
  ASSUME StringInv, NullInv, NEW s \in Strings, NEW x \in TextsOf(Strings),
         AssignText(s, x)
  PROVE  NullInv'
<1>1. /\ Len(x) \in 0..SizeMax
      /\ str[s] # None /\ Stands(str[s])
      /\ refused' = refused /\ refused \subseteq Strings
  BY PassedText, StringAssumption DEF AssignText, Made, StringInv, Fits, NullInv
<1>2. PICK e \in Expanded(str[s], Len(x)) :
        /\ ~ e.null
        /\ str' = [str EXCEPT ![s] = [e EXCEPT !.body = Strncpy(x, e.cap),
                                             !.len = Len(Strncpy(x, e.cap))]]
  BY DEF AssignText, Sets
<1> DEFINE o == [e EXCEPT !.body = Strncpy(x, e.cap), !.len = Len(Strncpy(x, e.cap))]
<1>3. o.null = FALSE
  BY <1>1, <1>2, ExpandedHasBuffer
<1>4. str' = [str EXCEPT ![s] = o]
  BY <1>2
<1> HIDE DEF o
<1> QED BY <1>1, <1>3, <1>4, SetsCounted

\* A character stored changes neither m_str nor m_len.
LEMMA StoreCounted ==
  ASSUME StringInv, NullInv, NEW s \in Strings, NEW i, NEW c, Store(s, i, c)
  PROVE  NullInv'
<1> DEFINE o == [str[s] EXCEPT !.body = Stored(@, i, c)]
<1>1. str[s] # None /\ str[s] \in Object /\ refused' = refused
  BY DEF Store, Made, StringInv
<1>2. o.null = str[s].null /\ o.len = str[s].len
  BY <1>1 DEF Object
<1>3. str' = [str EXCEPT ![s] = o]
  BY DEF Store, Sets
<1> HIDE DEF o
<1>4. \A t \in Strings : str'[t] = IF t = s THEN o ELSE str[t]
  BY <1>3 DEF StringInv
<1> QED BY <1>1, <1>2, <1>4 DEF NullInv, Counted

LEMMA NextCounted == StringInv /\ NullInv /\ [Next]_vars => NullInv'
<1> SUFFICES ASSUME StringInv, NullInv, [Next]_vars PROVE NullInv'
  OBVIOUS
<1> USE DEF Sets
<1>1. ASSUME NEW s \in Strings, NEW n \in Counts, Reserve(s, n)
      PROVE  NullInv'
  <2>1. PICK o \in {NoBuffer(n, 0)} \cup {Buffer(n, 0, b) : b \in Blank(n)} :
             str' = [str EXCEPT ![s] = o]
    BY <1>1 DEF Reserve
  <2>2. o.len = 0
    BY <2>1 DEF NoBuffer, Buffer
  <2> QED BY <1>1, <2>1, <2>2, SetsCounted DEF Reserve, NullInv
<1>2. ASSUME NEW s \in Strings, NEW n \in Counts, NEW c \in Char, Fill(s, c, n)
      PROVE  NullInv'
  <2>1. PICK b \in Memchr(c, n) : str' = [str EXCEPT ![s] = Buffer(n, n, b)]
    BY <1>2 DEF Fill
  <2>2. Buffer(n, n, b).null = FALSE
    BY DEF Buffer
  <2> QED BY <1>2, <2>1, <2>2, SetsCounted DEF Fill, NullInv
<1>3. ASSUME NEW s \in Strings, FromText(s) PROVE NullInv'
  <2>1. PICK x \in TextsOf(Strings) : str' = [str EXCEPT ![s] = Buffer(Len(x), Len(x), x)]
    BY <1>3 DEF FromText
  <2>2. Buffer(Len(x), Len(x), x).null = FALSE
    BY DEF Buffer
  <2> QED BY <1>3, <2>1, <2>2, SetsCounted DEF FromText, NullInv
<1>4. ASSUME NEW s \in Strings, NEW t \in Strings, NEW p \in Counts, NEW n \in Counts,
             FromPart(s, t, p, n)
      PROVE  NullInv'
  <2>1. PICK o : /\ str' = [str EXCEPT ![s] = o]
                 /\ \/ o.null = FALSE /\ refused' = refused
                    \/ refused' = refused \cup {s}
    BY <1>4 DEF FromPart, Refuses, Buffer
  <2> QED BY <2>1, SetsCounted DEF NullInv
<1>5. ASSUME NEW s \in Strings, NEW t \in Strings, NEW p \in Counts, NEW n \in Counts,
             FromPartBeyond(s, t, p, n)
      PROVE  NullInv'
  <2>1. CASE UNCHANGED <<str, refused>>
    BY <2>1 DEF NullInv, Counted
  <2>2. CASE ~ UNCHANGED <<str, refused>>
    <3>1. PICK o : str' = [str EXCEPT ![s] = o] /\ refused' = refused \cup {s}
      BY <1>5, <2>2 DEF FromPartBeyond, Refuses
    <3> QED BY <3>1, SetsCounted DEF NullInv
  <2> QED BY <2>1, <2>2
<1>6. ASSUME NEW s \in Strings, Destroy(s) PROVE NullInv'
  <2>1. str' = [str EXCEPT ![s] = None] /\ refused' = refused \ {s}
    BY <1>6 DEF Destroy
  <2> QED BY <2>1, SetsCounted DEF NullInv
<1>7. ASSUME NEW s \in Strings, NEW x \in TextsOf(Strings \ {s}), AppendText(s, x)
      PROVE  NullInv'
  BY <1>7, AppendTextCounted
<1>8. ASSUME NEW s \in Strings, AppendOwn(s) PROVE NullInv'
  <2>1. CASE str' = str
    BY <1>8, <2>1 DEF AppendOwn, NullInv, Counted
  <2>2. CASE str' # str
    <3>1. str[s] \in Object /\ refused' = refused /\ refused \subseteq Strings
      BY <1>8 DEF AppendOwn, Made, StringInv, NullInv
    <3>2. PICK o : str' = [str EXCEPT ![s] = o] /\ (o.len = 0 \/ o.null = FALSE)
      <4>1. [str[s] EXCEPT !.len = 0].len = 0
        BY <3>1 DEF Object
      <4> QED BY <1>8, <2>2, <4>1 DEF AppendOwn, Buffer
    <3> QED BY <3>1, <3>2, SetsCounted
  <2> QED BY <2>1, <2>2
<1>9. ASSUME NEW s \in Strings, NEW x \in TextsOf(Strings), AssignText(s, x)
      PROVE  NullInv'
  BY <1>9, AssignTextCounted
<1>10. ASSUME NEW s \in Strings, Clear(s) PROVE NullInv'
  <2>1. str[s] \in Object /\ refused' = refused /\ refused \subseteq Strings
    BY <1>10 DEF Clear, Made, StringInv, NullInv
  <2>2. PICK o : str' = [str EXCEPT ![s] = o] /\ o.len = 0
    <3>1. [str[s] EXCEPT !.body = << >>, !.len = 0].len = 0
      BY <2>1 DEF Object
    <3> QED BY <1>10, <3>1 DEF Clear
  <2> QED BY <2>1, <2>2, SetsCounted
<1>11. ASSUME NEW s \in Strings, NEW i \in Counts \ {0}, NEW c \in Char \cup {Nul},
              Store(s, i, c)
       PROVE  NullInv'
  BY <1>11, StoreCounted
<1>12. ASSUME NEW s \in Strings, Fault(s) PROVE NullInv'
  BY <1>12 DEF Fault, NullInv, Counted
<1>13. CASE UNCHANGED vars
  BY <1>13 DEF vars, NullInv, Counted
<1> QED BY <1>1, <1>2, <1>3, <1>4, <1>5, <1>6, <1>7, <1>8, <1>9, <1>10,
           <1>11, <1>12, <1>13 DEF Next

LEMMA NullInvariant == Spec => []NullInv
<1>1. Init => NullInv
  BY DEF Init, NullInv, Counted
<1> QED BY <1>1, NextCounted, StringInvariant, PTL DEF Spec

-----------------------------------------------------------------------------
\* A capacity, a length and a body stay what they can be, and a body within
\* the bytes of its buffer: no constructor, Append, Assign or store of these
\* classes makes one that does not fit.
THEOREM TypeCorrect == Spec => []TypeOK
<1>1. StringInv /\ NullInv => TypeOK
  BY DEF StringInv, NullInv, TypeOK, Fits, Stands
<1> QED BY <1>1, StringInvariant, NullInvariant, PTL

\* A String that was given a text holds it, whole and with room for it,
\* through every Append, Assign, copy and store, for texts of every length up
\* to half of the largest size: an Expand that does not wrap makes room for
\* all that strncat stores.
THEOREM TextsAreKept == Spec => []TextKept
<1>1. StringInv => TextKept
  BY DEF StringInv, TextKept, Fits, Stands, Holds
<1> QED BY <1>1, StringInvariant, PTL

\* Nothing is written behind the buffer of a String whose text is known.
THEOREM OverrunsAreExplained == Spec => []OverrunExplained
<1>1. StringInv => OverrunExplained
  BY DEF StringInv
<1> QED BY <1>1, StringInvariant, PTL

\* end() lies in the buffer of every String that has one, and is begin() of
\* one that has none, but of the part to which malloc refused its memory:
\* a refused Expand moves no length, and a call that sets one has a buffer.
THEOREM EndsAreInBuffers == Spec => []EndInBuffer
<1>1. StringInv /\ NullInv => EndInBuffer
  <2> SUFFICES ASSUME StringInv, NullInv, NEW s \in Strings, str[s] # None
               PROVE  \/ ~ str[s].null /\ str[s].len <= str[s].cap
                      \/ str[s].null /\ (str[s].len = 0 \/ s \in refused)
    BY DEF EndInBuffer
  <2>1. Stands(str[s]) /\ str[s].null \in BOOLEAN
    BY ObjectFields DEF StringInv, Fits
  <2>2. str[s].null => str[s].len = 0 \/ s \in refused
    BY DEF NullInv, Counted
  <2> QED BY <2>1, <2>2 DEF Stands
<1> QED BY <1>1, StringInvariant, NullInvariant, PTL
=============================================================================
