-------------------------- MODULE MemoryTreeProofs --------------------------
(***************************************************************************)
(* Proofs that the page tables of Memory form a tree whose counts are      *)
(* exact, although a full table and an empty one both count 0; that the    *)
(* frame stack stays on mapped pages and frames are kept; and that callers *)
(* see an address space.                                                   *)
(***************************************************************************)
EXTENDS MemoryProofs

-----------------------------------------------------------------------------
(***************************************************************************)
(* The tree of present entries, for any contents pt of the tables.         *)
(***************************************************************************)
PresentIn(pt) == {s \in Slots : pt[s].present}

Rooted(pt) == \A s \in PresentIn(pt) : s[1] < 4 => Parent(s) \in PresentIn(pt)

Counted(pt) == \A s \in PresentIn(pt) : s[1] > 1 =>
                  pt[s].count = Cardinality(Below(s) \cap PresentIn(pt)) % Entries

\* Every present table holds a present entry.
Filled4(pt) == \A s \in PresentIn(pt) : s[1] > 1 => Below(s) \cap PresentIn(pt) # {}

LEMMA Levels ==
  /\ \A s \in Slots : s[1] \in 1..4
  /\ \A s \in Slots : s[1] = 1 \/ s[1] = 2 \/ s[1] = 3 \/ s[1] = 4
<1>1. \A s \in Slots : s[1] \in 1..4
  BY SlotWalk
<1> QED BY <1>1

\* Above a present entry of a walk all entries are present.
LEMMA WalkUp ==
  ASSUME NEW pt, Rooted(pt), NEW v \in Page, NEW x \in 1..4, NEW y \in x..4,
         Walk(v)[x] \in PresentIn(pt)
  PROVE  Walk(v)[y] \in PresentIn(pt)
<1> DEFINE Up(i) == Walk(v)[i] \in PresentIn(pt)
<1>1. ASSUME NEW i \in 1..3, Up(i) PROVE Up(i + 1)
  <2>1. Walk(v)[i][1] = i /\ i < 4
    BY WalkSlot
  <2>2. Parent(Walk(v)[i]) \in PresentIn(pt)
    BY <1>1, <2>1 DEF Rooted
  <2> QED BY <2>2, WalkParent
<1>2. Up(1) => Up(2)
  BY <1>1
<1>3. Up(2) => Up(3)
  BY <1>1
<1>4. Up(3) => Up(4)
  BY <1>1
<1>5. /\ x = 1 \/ x = 2 \/ x = 3 \/ x = 4
      /\ y = 1 \/ y = 2 \/ y = 3 \/ y = 4
      /\ x <= y
  OBVIOUS
<1>6. Up(x)
  OBVIOUS
<1> HIDE DEF Up
<1>7. Up(y)
  BY <1>2, <1>3, <1>4, <1>5, <1>6
<1> QED BY <1>7 DEF Up

\* Below no entry lies more than a table.
LEMMA BelowCard ==
  ASSUME NEW s \in Slots
  PROVE  /\ IsFiniteSet(Below(s))
         /\ Cardinality(Below(s)) <= Entries
<1> DEFINE f == [t \in Below(s) |-> t[2] % Entries]
           R == 0..(Entries - 1)
<1>1. Entries \in Nat /\ Entries > 1
  BY KernelAssumption
<1>2. ASSUME NEW t \in Below(s)
      PROVE  /\ t[2] \in Nat /\ t[2] \div Entries = s[2]
             /\ t = <<s[1] - 1, t[2]>>
             /\ t[2] % Entries \in R
  <2>1. t \in Slots /\ Parent(t) = s
    BY DEF Below
  <2>2. PICK v \in Page : t = Walk(v)[t[1]]
    BY <2>1, SlotWalk
  <2>3. t[1] \in 1..4
    BY <2>1, Levels
  <2>4. t[2] \in Nat
    BY <2>2, <2>3, WalkSlot
  <2>5. s[1] = t[1] + 1 /\ s[2] = t[2] \div Entries
    BY <2>1 DEF Parent
  <2>6. t = <<t[1], t[2]>>
    <3>1. t[1] = 1 \/ t[1] = 2 \/ t[1] = 3 \/ t[1] = 4
      BY <2>3
    <3> QED BY <2>2, <3>1 DEF Walk
  <2> QED BY <1>1, <2>3, <2>4, <2>5, <2>6
<1>3. \A a, b \in Nat : a \div Entries = b \div Entries /\ a % Entries = b % Entries
                           => a = b
  BY <1>1
<1>4. f \in Injection(Below(s), R)
  <2>1. f \in [Below(s) -> R]
    BY <1>2
  <2>2. ASSUME NEW t \in Below(s), NEW u \in Below(s), f[t] = f[u]
        PROVE  t = u
    <3>1. t[2] = u[2]
      BY <1>2, <1>3, <2>2
    <3> QED BY <1>2, <3>1
  <2> QED BY <2>1, <2>2 DEF Injection, IsInjective
<1>5. IsFiniteSet(R) /\ Cardinality(R) = Entries
  <2>1. 0 \in Int /\ Entries - 1 \in Int /\ ~ (0 > Entries - 1)
    BY <1>1
  <2>2. /\ IsFiniteSet(0..(Entries - 1))
        /\ Cardinality(0..(Entries - 1)) = (Entries - 1) - 0 + 1
    BY <2>1, FS_Interval
  <2> QED BY <1>1, <2>2
<1> HIDE DEF R, f
<1> QED BY <1>4, <1>5, FS_Injection

\* Arithmetic of a counter as wide as the index of a table.
LEMMA ModOfSum ==
  ASSUME NEW q \in Nat, NEW r \in Nat, r < Entries
  PROVE  (q * Entries + r) % Entries = r
<1>1. Entries \in Nat /\ Entries > 1
  BY KernelAssumption
<1>2. (q * Entries + r) \div Entries = q
  BY DivOfSum
<1> DEFINE a == q * Entries + r
<1>3. a \in Nat /\ a = (a \div Entries) * Entries + (a % Entries)
  BY <1>1
<1>4. a % Entries = a - q * Entries /\ q * Entries \in Nat
  BY <1>1, <1>2, <1>3
<1> QED BY <1>4

LEMMA SmallMod ==
  /\ \A r \in Nat : r < Entries => r % Entries = r
  /\ \A r \in Nat : r < Entries => (Entries + r) % Entries = r
<1>1. Entries \in Nat /\ Entries > 1
  BY KernelAssumption
<1> SUFFICES ASSUME NEW r \in Nat, r < Entries
             PROVE  r % Entries = r /\ (Entries + r) % Entries = r
  OBVIOUS
<1>2. (0 * Entries + r) % Entries = r /\ (1 * Entries + r) % Entries = r
  BY ModOfSum
<1>3. 0 * Entries + r = r /\ 1 * Entries + r = Entries + r
  BY <1>1
<1> QED BY <1>2, <1>3

LEMMA CountUp ==
  ASSUME NEW c \in 0..Entries, c + 1 <= Entries
  PROVE  ((c % Entries) + 1) % Entries = (c + 1) % Entries
<1>1. Entries \in Nat /\ Entries > 1 /\ c \in Nat /\ c < Entries
  BY KernelAssumption
<1>2. c % Entries = c
  BY <1>1, SmallMod
<1> QED BY <1>2

LEMMA CountDown ==
  ASSUME NEW c \in 1..Entries
  PROVE  /\ ((c % Entries) + (Entries - 1)) % Entries = c - 1
         /\ (c - 1) % Entries = c - 1
<1>1. Entries \in Nat /\ Entries > 1 /\ c \in Nat /\ c - 1 \in Nat /\ c - 1 < Entries
  BY KernelAssumption
<1>2. (c - 1) % Entries = c - 1 /\ (Entries + (c - 1)) % Entries = c - 1
  BY <1>1, SmallMod
<1>3. CASE c < Entries
  <2>1. c % Entries = c
    BY <1>1, <1>3, SmallMod
  <2>2. c + (Entries - 1) = Entries + (c - 1)
    BY <1>1
  <2> QED BY <1>2, <2>1, <2>2
<1>4. CASE c = Entries
  <2>1. c % Entries = 0
    <3>1. 0 \in Nat /\ 0 < Entries /\ Entries + 0 = Entries
      BY <1>1
    <3> QED BY <1>4, <3>1, SmallMod
  <2>2. 0 + (Entries - 1) = c - 1
    BY <1>1, <1>4
  <2> QED BY <1>2, <2>1, <2>2
<1> QED BY <1>1, <1>3, <1>4

-----------------------------------------------------------------------------
(***************************************************************************)
(* MapPage grows the tree.                                                 *)
(***************************************************************************)
\* Entries that MapPage adds, as a property that the lemmas below share: the
\* levels from last + 1 to top of the walk of v, none of which was present.
Grows(pt, qt, v, last, top, new) ==
  /\ pt \in [Slots -> Entry] /\ qt \in [Slots -> Entry]
  /\ top \in 0..4 /\ last \in 0..top
  /\ new \subseteq Slots
  /\ \A s \in Slots : s \in new <=> s = Walk(v)[s[1]] /\ last < s[1] /\ s[1] <= top
  /\ new \cap PresentIn(pt) = {}
  /\ PresentIn(qt) = PresentIn(pt) \cup new
  /\ \A s \in new : qt[s].count = IF s[1] = last + 1 THEN 0 ELSE 1
  /\ \A s \in PresentIn(pt) :
        qt[s] = IF last < top /\ top < 4 /\ s = Walk(v)[top + 1]
                THEN IncEntryCount(pt[s]) ELSE pt[s]

LEMMA MapPageGrows ==
  ASSUME NEW pt \in [Slots -> Entry], Rooted(pt), NEW v \in Page,
         NEW flags, IsFlags(flags), NEW src \in Seq(Nat)
  PROVE  Grows(pt, MapPage(pt, v, flags, src).pte, v,
               LastFilled(pt, v, Len(src)), Missing(pt, v), Filled(pt, v, Len(src)))
<1> DEFINE m    == MapPage(pt, v, flags, src)
           top  == Missing(pt, v)
           last == LastFilled(pt, v, Len(src))
           new  == Filled(pt, v, Len(src))
<1>1. /\ top \in 0..4 /\ last \in 0..top
      /\ m.pte \in [Slots -> Entry]
      /\ new \subseteq Slots
      /\ \A s \in Slots : s \in new <=> /\ s = Walk(v)[s[1]]
                                        /\ last < s[1] /\ s[1] <= top
      /\ \A s \in new : m.pte[s].present
      /\ \A s \in new : m.pte[s].count = IF s[1] = last + 1 THEN 0 ELSE 1
      /\ \A s \in Slots \ new :
            IF Parent(s) \in new
            THEN m.pte[s] = NotPresent
            ELSE IF last < top /\ top < 4 /\ s = Walk(v)[top + 1]
                 THEN m.pte[s] = IncEntryCount(pt[s])
                 ELSE m.pte[s] = pt[s]
  BY MapPageResult
<1>2. top > 0 => Walk(v)[top] \notin PresentIn(pt)
  BY MissingDef DEF PresentIn
<1> HIDE DEF m, top, last, new
<1>3. ASSUME NEW s \in new, s \in PresentIn(pt) PROVE FALSE
  <2>1. s \in Slots /\ s = Walk(v)[s[1]] /\ s[1] <= top
    BY <1>1, <1>3
  <2>2. s[1] \in 1..4 /\ top \in 1..4 /\ top \in s[1]..4 /\ top > 0
    BY <1>1, <2>1, Levels
  <2>3. Walk(v)[s[1]] \in PresentIn(pt)
    BY <1>3, <2>1
  <2>4. Walk(v)[top] \in PresentIn(pt)
    BY <2>2, <2>3, WalkUp
  <2> QED BY <1>2, <2>2, <2>4
<1>4. ASSUME NEW s \in PresentIn(pt)
      PROVE  m.pte[s] = IF last < top /\ top < 4 /\ s = Walk(v)[top + 1]
                        THEN IncEntryCount(pt[s]) ELSE pt[s]
  <2>1. s \in Slots \ new
    BY <1>3 DEF PresentIn
  <2>2. Parent(s) \notin new
    <3> SUFFICES ASSUME Parent(s) \in new PROVE FALSE
      OBVIOUS
    <3>1. Parent(s)[1] = s[1] + 1 /\ Parent(s)[1] \in 1..4
      BY <1>1, Levels DEF Parent
    <3>2. s[1] < 4
      BY <2>1, <3>1, Levels
    <3> QED BY <1>3, <3>2 DEF Rooted
  <2> QED BY <1>1, <2>1, <2>2
<1>5. PresentIn(m.pte) = PresentIn(pt) \cup new
  <2>1. ASSUME NEW s \in Slots, s \notin new, m.pte[s].present PROVE pt[s].present
    <3>1. m.pte[s] = NotPresent \/ m.pte[s] = pt[s] \/ m.pte[s] = IncEntryCount(pt[s])
      BY <1>1, <2>1
    <3>2. pt[s] \in Entry
      OBVIOUS
    <3> QED BY <2>1, <3>1, <3>2, IncEntryCountType DEF NotPresent
  <2>2. ASSUME NEW s \in PresentIn(pt) PROVE m.pte[s].present
    <3>1. pt[s] \in Entry /\ pt[s].present
      BY DEF PresentIn
    <3> QED BY <1>4, <3>1, IncEntryCountType
  <2> QED BY <1>1, <2>1, <2>2 DEF PresentIn
<1>6. new \cap PresentIn(pt) = {}
  BY <1>3
<1>7. Grows(pt, m.pte, v, last, top, new)
  BY <1>1, <1>4, <1>5, <1>6 DEF Grows
<1> QED BY <1>7 DEF m, last, top, new

\* What lies below an entry is one level down, and below an entry of a walk
\* the only entry of that walk is the next.
LEMMA BelowLevel ==
  ASSUME NEW s \in Slots, NEW t \in Below(s)
  PROVE  t \in Slots /\ t[1] \in 1..3 /\ s[1] = t[1] + 1 /\ s = Parent(t)
<1>1. t \in Slots /\ Parent(t) = s
  BY DEF Below
<1>2. s[1] = t[1] + 1
  BY <1>1 DEF Parent
<1> QED BY <1>1, <1>2, Levels

LEMMA BelowWalk ==
  ASSUME NEW v \in Page, NEW s \in Slots, NEW t \in Below(s), t = Walk(v)[t[1]]
  PROVE  s = Walk(v)[t[1] + 1] /\ s = Walk(v)[s[1]] /\ t = Walk(v)[s[1] - 1]
<1>1. t[1] \in 1..3 /\ s[1] = t[1] + 1 /\ s = Parent(t)
  BY BelowLevel
<1>2. Parent(Walk(v)[t[1]]) = Walk(v)[t[1] + 1]
  BY <1>1, WalkParent
<1>3. s[1] - 1 = t[1]
  BY <1>1
<1> QED BY <1>1, <1>2, <1>3

LEMMA WalkBelow ==
  ASSUME NEW v \in Page, NEW x \in 1..3
  PROVE  Walk(v)[x] \in Below(Walk(v)[x + 1])
BY WalkParent, WalkSlot DEF Below

\* The tree stays one.
LEMMA GrowsRooted ==
  ASSUME NEW pt, NEW qt, NEW v \in Page, NEW last, NEW top, NEW new,
         Grows(pt, qt, v, last, top, new), Rooted(pt),
         \A x \in (top + 1)..4 : Walk(v)[x] \in PresentIn(pt)
  PROVE  Rooted(qt)
<1> SUFFICES ASSUME NEW s \in PresentIn(qt), s[1] < 4
             PROVE  Parent(s) \in PresentIn(qt)
  BY DEF Rooted
<1>1. CASE s \in PresentIn(pt)
  BY <1>1 DEF Rooted, Grows
<1>2. CASE s \in new
  <2>1. s \in Slots /\ s = Walk(v)[s[1]] /\ last < s[1] /\ s[1] <= top
        /\ s[1] \in 1..3 /\ top \in 0..4 /\ last \in 0..top
    <3>1. s \in Slots /\ s[1] \in 1..4
      BY Levels DEF PresentIn
    <3> QED BY <1>2, <3>1 DEF Grows
  <2>2. Parent(s) = Walk(v)[s[1] + 1] /\ s[1] + 1 \in 1..4
    BY <2>1, WalkParent
  <2>3. Parent(s) \in Slots /\ Parent(s)[1] = s[1] + 1
    BY <2>2, WalkSlot
  <2>4. CASE s[1] = top
    <3>1. s[1] + 1 \in (top + 1)..4
      BY <2>1, <2>4
    <3> QED BY <2>2, <3>1 DEF Grows
  <2>5. CASE s[1] < top
    <3>1. last < s[1] + 1 /\ s[1] + 1 <= top
      BY <2>1, <2>5
    <3>2. Parent(s) \in new
      BY <2>2, <2>3, <3>1 DEF Grows
    <3> QED BY <3>2 DEF Grows
  <2> QED BY <2>1, <2>4, <2>5
<1> QED BY <1>1, <1>2 DEF Grows

\* Every count stays exact: a new table counts the new entry below it, and the
\* table that the topmost new entry lies in counts one more.
LEMMA GrowsCounted ==
  ASSUME NEW pt, NEW qt, NEW v \in Page, NEW last, NEW top, NEW new,
         Grows(pt, qt, v, last, top, new), Rooted(pt), Counted(pt)
  PROVE  Counted(qt)
<1> DEFINE P == PresentIn(pt)
           Q == PresentIn(qt)
<1>1. /\ top \in 0..4 /\ last \in 0..top
      /\ \A s \in Slots : s \in new <=> s = Walk(v)[s[1]] /\ last < s[1] /\ s[1] <= top
      /\ new \subseteq Slots /\ new \cap P = {} /\ Q = P \cup new
      /\ \A s \in new : qt[s].count = IF s[1] = last + 1 THEN 0 ELSE 1
      /\ \A s \in P : qt[s] = IF last < top /\ top < 4 /\ s = Walk(v)[top + 1]
                              THEN IncEntryCount(pt[s]) ELSE pt[s]
      /\ pt \in [Slots -> Entry]
  BY DEF Grows
<1>2. P \subseteq Slots
  BY DEF PresentIn
<1>3. \A t \in P : t[1] < 4 => Parent(t) \in P
  BY DEF Rooted
<1> HIDE DEF P, Q
<1> SUFFICES ASSUME NEW s \in Q, s[1] > 1
             PROVE  qt[s].count = Cardinality(Below(s) \cap Q) % Entries
  BY DEF Counted, Q
<1>5. s \in Slots /\ s[1] \in 2..4 /\ s[1] - 1 \in 1..3
  <2>1. s \in Slots
    BY <1>1, <1>2
  <2> QED BY <2>1, Levels
<1>6. \A t \in Below(s) \cap new : t = Walk(v)[s[1] - 1] /\ s = Walk(v)[s[1]]
                                   /\ last < s[1] - 1 /\ s[1] - 1 <= top
  <2> SUFFICES ASSUME NEW t \in Below(s), t \in new
               PROVE  t = Walk(v)[s[1] - 1] /\ s = Walk(v)[s[1]]
                      /\ last < s[1] - 1 /\ s[1] - 1 <= top
    OBVIOUS
  <2>1. t \in Slots /\ t = Walk(v)[t[1]] /\ last < t[1] /\ t[1] <= top
    BY <1>1
  <2>2. t[1] = s[1] - 1
    BY <1>5, BelowLevel
  <2> QED BY <1>5, <2>1, <2>2, BelowWalk
<1>7. IsFiniteSet(Below(s)) /\ Cardinality(Below(s)) <= Entries
      /\ Entries \in Nat /\ Entries > 1
  BY <1>5, BelowCard, KernelAssumption
<1>8. CASE s \in new
  <2>1. s = Walk(v)[s[1]] /\ last < s[1] /\ s[1] <= top
    BY <1>1, <1>5, <1>8
  <2>2. Below(s) \cap P = {}
    <3> SUFFICES ASSUME NEW t \in Below(s), t \in P PROVE FALSE
      OBVIOUS
    <3>1. t[1] < 4 /\ s = Parent(t)
      BY <1>5, BelowLevel
    <3> QED BY <1>1, <1>3, <1>8, <3>1
  <2>3. CASE s[1] = last + 1
    <3>1. Below(s) \cap Q = {}
      BY <1>1, <1>5, <1>6, <2>2, <2>3
    <3>2. Cardinality({}) = 0 /\ 0 % Entries = 0
      BY <1>7, FS_EmptySet
    <3> QED BY <1>1, <1>8, <2>3, <3>1, <3>2
  <2>4. CASE s[1] # last + 1
    <3> DEFINE w == Walk(v)[s[1] - 1]
    <3>1. last < s[1] - 1 /\ s[1] - 1 <= top
      BY <1>1, <1>5, <2>1, <2>4
    <3>2. w \in Slots /\ w[1] = s[1] - 1 /\ w \in Below(s)
      <4>1. (s[1] - 1) + 1 = s[1]
        BY <1>5
      <4>2. w \in Below(Walk(v)[(s[1] - 1) + 1])
        BY <1>5, WalkBelow
      <4> QED BY <1>5, <2>1, <4>1, <4>2, WalkSlot
    <3>3. w \in new
      BY <1>1, <3>1, <3>2
    <3> HIDE DEF w
    <3>4. Below(s) \cap Q = {w}
      BY <1>1, <1>6, <2>2, <3>2, <3>3 DEF w
    <3>5. Cardinality({w}) = 1 /\ 1 % Entries = 1
      BY <1>7, FS_Singleton, SmallMod
    <3> QED BY <1>1, <1>8, <2>4, <3>4, <3>5
  <2> QED BY <2>3, <2>4
<1>9. CASE s \in P
  <2> DEFINE c == Cardinality(Below(s) \cap P)
  <2>1. pt[s] \in Entry /\ pt[s].count = c % Entries
    BY <1>5, <1>9, <1>1 DEF Counted, P
  <2>2. IsFiniteSet(Below(s) \cap P) /\ c \in Nat /\ c <= Entries
    <3>1. Below(s) \cap P \in SUBSET Below(s)
      OBVIOUS
    <3>2. IsFiniteSet(Below(s) \cap P) /\ c <= Cardinality(Below(s))
      BY <1>7, <3>1, FS_Subset
    <3> QED BY <1>7, <3>2, FS_CardinalityType
  <2>3. CASE last < top /\ top < 4 /\ s = Walk(v)[top + 1]
    <3> DEFINE w == Walk(v)[top]
    <3>1. top \in 1..3
      BY <1>1, <2>3
    <3>2. w \in Below(s) /\ w \in Slots /\ w[1] = top
      BY <2>3, <3>1, WalkBelow, WalkSlot
    <3>3. w \in new /\ w \notin P
      BY <1>1, <2>3, <3>1, <3>2
    <3>4. s[1] = top + 1
      BY <2>3, <3>1, WalkSlot
    <3>5. s[1] - 1 = top
      BY <3>1, <3>4
    <3> HIDE DEF w
    <3>6. Below(s) \cap Q = (Below(s) \cap P) \cup {w}
      BY <1>1, <1>6, <3>2, <3>3, <3>5 DEF w
    <3>7. Cardinality(Below(s) \cap Q) = c + 1
      BY <2>2, <3>3, <3>6, FS_AddElement
    <3>8. c + 1 <= Entries
      <4>1. Below(s) \cap Q \in SUBSET Below(s)
        OBVIOUS
      <4>2. Cardinality(Below(s) \cap Q) <= Cardinality(Below(s))
        BY <1>7, <4>1, FS_Subset
      <4> QED BY <1>7, <2>2, <3>7, <4>2, FS_CardinalityType
    <3> HIDE DEF c
    <3>9. qt[s].count = (pt[s].count + 1) % Entries
      BY <1>1, <1>9, <2>1, <2>3, IncEntryCountType
    <3>10. c \in 0..Entries
      BY <1>7, <2>2
    <3> QED BY <2>1, <3>7, <3>8, <3>9, <3>10, CountUp
  <2>4. CASE ~ (last < top /\ top < 4 /\ s = Walk(v)[top + 1])
    <3>1. Below(s) \cap new = {}
      <4> SUFFICES ASSUME NEW t \in Below(s), t \in new PROVE FALSE
        OBVIOUS
      <4>1. s = Walk(v)[s[1]] /\ last < s[1] - 1 /\ s[1] - 1 <= top
        BY <1>6
      <4>2. ~ (s[1] <= top)
        BY <1>1, <1>5, <1>9, <4>1
      <4>3. s[1] = top + 1 /\ last < top /\ top < 4
        BY <1>1, <1>5, <4>1, <4>2
      <4> QED BY <2>4, <4>1, <4>3
    <3>2. Below(s) \cap Q = Below(s) \cap P
      BY <1>1, <3>1
    <3>3. qt[s] = pt[s]
      BY <1>1, <1>9, <2>4
    <3> QED BY <2>1, <3>2, <3>3
  <2> QED BY <2>3, <2>4
<1> QED BY <1>1, <1>8, <1>9

-----------------------------------------------------------------------------
(***************************************************************************)
(* UnmapPage prunes the tree: the tables it clears held nothing else.      *)
(***************************************************************************)
LEMMA PresentDef == Present = PresentIn(pte)
BY DEF Present, PresentIn

\* UnmapPage goes on to the level above just if the entry it has cleared was
\* the last one of its table, a full table's count of 0 notwithstanding.
LEMMA LastBelow ==
  ASSUME TypeOK, Counted(pte), NEW s \in Present, s[1] > 1,
         Below(s) \cap Present # {}
  PROVE  LET c == Cardinality(Below(s) \cap Present)
         IN  /\ IsFiniteSet(Below(s) \cap Present) /\ c \in 1..Entries
             /\ DecEntryCount(pte[s]).count = c - 1
             /\ HasEntries(DecEntryCount(pte[s])) <=> c > 1
<1> DEFINE B == Below(s) \cap Present
           c == Cardinality(B)
<1>1. s \in Slots /\ pte[s] \in Entry
  BY DEF Present, TypeOK
<1>2. IsFiniteSet(Below(s)) /\ Cardinality(Below(s)) <= Entries
      /\ Entries \in Nat /\ Entries > 1
  BY <1>1, BelowCard, KernelAssumption
<1>3. IsFiniteSet(B) /\ c <= Cardinality(Below(s))
  <2>1. B \in SUBSET Below(s)
    OBVIOUS
  <2> QED BY <1>2, <2>1, FS_Subset
<1>4. c \in Nat /\ c # 0
  BY <1>3, FS_CardinalityType, FS_EmptySet
<1>5. c \in 1..Entries
  BY <1>2, <1>3, <1>4, FS_CardinalityType
<1>6. pte[s].count = c % Entries
  BY PresentDef DEF Counted
<1> HIDE DEF B, c
<1>7. DecEntryCount(pte[s]).count = c - 1
  <2>1. DecEntryCount(pte[s]).count = (pte[s].count + (Entries - 1)) % Entries
    BY <1>1, DecEntryCountType
  <2> QED BY <1>5, <1>6, <2>1, CountDown
<1>8. HasEntries(DecEntryCount(pte[s])) <=> c > 1
  BY <1>5, <1>7 DEF HasEntries
<1> QED BY <1>3, <1>5, <1>7, <1>8 DEF B, c

Gone(v) == {Walk(v)[x] : x \in 1..Cleared(v)}

\* All levels of the walk of a page that is mapped are present.
LEMMA WalkPresent ==
  ASSUME NEW v \in Page, Missing(pte, v) = 0, NEW x \in 1..4
  PROVE  Walk(v)[x] \in Present
<1>1. x \in (Missing(pte, v) + 1)..4
  OBVIOUS
<1> QED BY <1>1, MissingDef, WalkSlot DEF Present

LEMMA UnmappedPresent ==
  ASSUME TypeOK, NEW v \in Page
  PROVE  /\ PresentIn(Unmapped(v)) = Present \ Gone(v)
         /\ \A s \in Present \ Gone(v) :
               Unmapped(v)[s] = IF Cleared(v) < 4 /\ s = Walk(v)[Cleared(v) + 1]
                                THEN DecEntryCount(pte[s]) ELSE pte[s]
         /\ \A s \in Slots : s \in Gone(v) <=> s = Walk(v)[s[1]] /\ s[1] <= Cleared(v)
<1> DEFINE c == Cleared(v)
           qt == Unmapped(v)
<1>1. c \in 1..4
  BY ClearedDef
<1>2. \A s \in Slots :
         IF s = Walk(v)[s[1]] /\ s[1] <= c + 1
         THEN IF s[1] <= c THEN qt[s] = NotPresent ELSE qt[s] = DecEntryCount(pte[s])
         ELSE qt[s] = pte[s]
  BY UnmappedResult
<1> HIDE DEF qt, c
<1>3. ASSUME NEW s \in Slots
      PROVE  s \in Gone(v) <=> s = Walk(v)[s[1]] /\ s[1] <= c
  <2>1. \A x \in 1..c : x \in 1..4 /\ Walk(v)[x][1] = x
    BY <1>1, WalkSlot
  <2>2. s[1] \in 1..4
    BY Levels
  <2> QED BY <1>1, <2>1, <2>2 DEF Gone, c
<1>4. ASSUME NEW s \in Slots, s \notin Gone(v)
      PROVE  qt[s] = IF c < 4 /\ s = Walk(v)[c + 1] THEN DecEntryCount(pte[s])
                                                   ELSE pte[s]
  <2>1. s[1] \in 1..4
    BY Levels
  <2>2. CASE c < 4 /\ s = Walk(v)[c + 1]
    <3>1. s[1] = c + 1
      BY <1>1, <2>2, WalkSlot
    <3> QED BY <1>1, <1>2, <2>2, <3>1
  <2>3. CASE ~ (c < 4 /\ s = Walk(v)[c + 1])
    <3>1. ~ (s = Walk(v)[s[1]] /\ s[1] <= c + 1)
      BY <1>1, <1>3, <1>4, <2>1, <2>3
    <3> QED BY <1>2, <2>3, <3>1
  <2> QED BY <2>2, <2>3
<1>5. ASSUME NEW s \in Slots PROVE qt[s].present <=> pte[s].present /\ s \notin Gone(v)
  <2>1. CASE s \in Gone(v)
    <3>1. s = Walk(v)[s[1]] /\ s[1] <= c /\ s[1] <= c + 1
      BY <1>1, <1>3, <2>1, Levels
    <3> QED BY <1>2, <2>1, <3>1 DEF NotPresent
  <2>2. CASE s \notin Gone(v)
    <3>1. pte[s] \in Entry
      BY DEF TypeOK
    <3> QED BY <1>4, <2>2, <3>1, DecEntryCountType
  <2> QED BY <2>1, <2>2
<1>6. PresentIn(qt) = Present \ Gone(v)
  BY <1>5 DEF PresentIn, Present
<1>7. \A s \in Present : s \in Slots
  BY DEF Present
<1> QED BY <1>3, <1>4, <1>6, <1>7 DEF qt, c

\* Below an entry that is cleared above the first level lies nothing else.
LEMMA GoneAlone ==
  ASSUME TypeOK, Counted(pte), NEW v \in Page, Missing(pte, v) = 0,
         NEW x \in 2..Cleared(v)
  PROVE  Below(Walk(v)[x]) \cap Present = {Walk(v)[x - 1]}
<1>1. Cleared(v) \in 1..4 /\ ~ HasEntries(DecEntryCount(pte[Walk(v)[x]]))
  BY ClearedDef
<1>2. x \in 2..4 /\ x - 1 \in 1..3 /\ (x - 1) + 1 = x
  BY <1>1
<1> DEFINE s == Walk(v)[x]
           w == Walk(v)[x - 1]
           B == Below(s) \cap Present
<1>3. s \in Present /\ s[1] = x /\ w \in Present
  BY <1>2, WalkPresent, WalkSlot
<1>4. w \in B
  BY <1>2, <1>3, WalkBelow
<1>5. IsFiniteSet(B) /\ Cardinality(B) \in 1..Entries /\ ~ (Cardinality(B) > 1)
  <2>1. ~ HasEntries(DecEntryCount(pte[s]))
    BY <1>1
  <2> HIDE DEF s, w
  <2>2. s[1] > 1 /\ B # {}
    BY <1>2, <1>3, <1>4
  <2> QED BY <1>3, <2>1, <2>2, LastBelow
<1> HIDE DEF s, w
<1>6. Cardinality(B) = 1
  BY <1>5
<1>7. PICK y : B = {y}
  BY <1>5, <1>6, FS_Singleton
<1> QED BY <1>4, <1>7 DEF s, w

LEMMA UnmappedRooted ==
  ASSUME TypeOK, Rooted(pte), Counted(pte), NEW v \in Page, Missing(pte, v) = 0
  PROVE  Rooted(Unmapped(v))
<1> SUFFICES ASSUME NEW s \in Present, s \notin Gone(v), s[1] < 4
             PROVE  Parent(s) \in Present /\ Parent(s) \notin Gone(v)
  BY UnmappedPresent DEF Rooted
<1>1. Parent(s) \in Present /\ s \in Slots
  BY PresentDef DEF Rooted, Present
<1>2. SUFFICES ASSUME Parent(s) \in Gone(v) PROVE FALSE
  BY <1>1
<1>3. PICK x \in 1..Cleared(v) : Parent(s) = Walk(v)[x]
  BY <1>2 DEF Gone
<1>4. Cleared(v) \in 1..4 /\ x \in 1..4
  BY ClearedDef
<1>5. x = s[1] + 1 /\ s[1] \in 1..4
  <2>1. Parent(s)[1] = x
    BY <1>3, <1>4, WalkSlot
  <2> QED BY <1>1, <2>1, Levels DEF Parent
<1>6. x \in 2..Cleared(v) /\ x - 1 \in 1..Cleared(v)
  BY <1>4, <1>5
<1>7. s \in Below(Walk(v)[x]) \cap Present
  BY <1>1, <1>3 DEF Below
<1>8. s = Walk(v)[x - 1]
  BY <1>6, <1>7, GoneAlone
<1> QED BY <1>6, <1>8 DEF Gone

\* The counts of what is left are exact, and the table that UnmapPage stops at
\* holds an entry still.
LEMMA UnmappedCounted ==
  ASSUME TypeOK, Rooted(pte), Counted(pte), NEW v \in Page, Missing(pte, v) = 0
  PROVE  /\ Counted(Unmapped(v))
         /\ \A s \in Present \ Gone(v) : s[1] > 1 =>
              \/ Below(s) \cap PresentIn(Unmapped(v)) # {}
              \/ Below(s) \cap Present = {}
<1> DEFINE c  == Cleared(v)
           qt == Unmapped(v)
           Q  == PresentIn(qt)
<1>1. /\ c \in 1..4
      /\ c < 4 => HasEntries(DecEntryCount(pte[Walk(v)[c + 1]]))
  BY ClearedDef
<1>2. /\ Q = Present \ Gone(v)
      /\ \A s \in Present \ Gone(v) :
            qt[s] = IF c < 4 /\ s = Walk(v)[c + 1] THEN DecEntryCount(pte[s])
                                                  ELSE pte[s]
      /\ \A s \in Slots : s \in Gone(v) <=> s = Walk(v)[s[1]] /\ s[1] <= c
  BY UnmappedPresent
<1> HIDE DEF c, qt, Q
<1>3. ASSUME NEW s \in Present \ Gone(v), s[1] > 1
      PROVE  /\ qt[s].count = Cardinality(Below(s) \cap Q) % Entries
             /\ Below(s) \cap Q # {} \/ Below(s) \cap Present = {}
  <2>1. s \in Slots /\ s[1] \in 2..4
    BY <1>3, Levels DEF Present
  <2>2. CASE c < 4 /\ s = Walk(v)[c + 1]
    <3> DEFINE w == Walk(v)[c]
               B == Below(s) \cap Present
    <3>1. c \in 1..3
      BY <1>1, <2>2
    <3>2. w \in Below(s) /\ w \in Slots /\ w[1] = c /\ w \in Present
      BY <2>2, <3>1, WalkBelow, WalkSlot, WalkPresent
    <3>3. w \in Gone(v)
      BY <1>2, <3>1, <3>2
    <3> HIDE DEF w
    <3>4. Below(s) \cap Q = B \ {w}
      <4>1. ASSUME NEW t \in Below(s), t \in Gone(v) PROVE t = w
        <5>1. t \in Slots /\ s[1] = t[1] + 1 /\ t[1] \in 1..3
          BY <2>1, BelowLevel
        <5>2. t = Walk(v)[t[1]]
          BY <1>2, <4>1, <5>1
        <5>3. s[1] = c + 1
          BY <2>2, <3>1, WalkSlot
        <5>4. t[1] = c
          BY <3>1, <5>1, <5>3
        <5> QED BY <5>2, <5>4 DEF w
      <4> QED BY <1>2, <3>3, <4>1
    <3>5. B # {}
      BY <3>2
    <3>6. /\ IsFiniteSet(B) /\ Cardinality(B) \in 1..Entries
          /\ DecEntryCount(pte[s]).count = Cardinality(B) - 1
          /\ Cardinality(B) > 1
      BY <1>1, <1>3, <2>2, <3>5, LastBelow
    <3>7. Cardinality(B \ {w}) = Cardinality(B) - 1 /\ IsFiniteSet(B \ {w})
      BY <3>2, <3>6, FS_RemoveElement
    <3>8. B \ {w} # {}
      <4>1. Cardinality(B \ {w}) # 0
        BY <3>6, <3>7
      <4> QED BY <4>1, FS_EmptySet
    <3>9. (Cardinality(B) - 1) % Entries = Cardinality(B) - 1
      BY <3>6, CountDown
    <3>10. qt[s].count = Cardinality(B) - 1
      BY <1>2, <1>3, <2>2, <3>6
    <3> HIDE DEF B
    <3> QED BY <3>4, <3>7, <3>8, <3>9, <3>10
  <2>3. CASE ~ (c < 4 /\ s = Walk(v)[c + 1])
    <3>1. ASSUME NEW t \in Below(s), t \in Gone(v) PROVE FALSE
      <4>1. t \in Slots /\ s[1] = t[1] + 1 /\ t[1] \in 1..3
        BY <2>1, BelowLevel
      <4>2. t = Walk(v)[t[1]] /\ t[1] <= c
        BY <1>2, <3>1, <4>1
      <4>3. s = Walk(v)[s[1]] /\ s = Walk(v)[t[1] + 1]
        BY <2>1, <4>2, BelowWalk
      <4>4. ~ (s[1] <= c)
        BY <1>2, <1>3, <2>1, <4>3
      <4>5. t[1] = c /\ c < 4
        BY <1>1, <4>1, <4>2, <4>4
      <4> QED BY <2>3, <4>3, <4>5
    <3>2. Below(s) \cap Q = Below(s) \cap Present
      BY <1>2, <3>1
    <3>3. qt[s] = pte[s]
      BY <1>2, <1>3, <2>3
    <3>4. pte[s].count = Cardinality(Below(s) \cap Present) % Entries
      BY <1>3, PresentDef DEF Counted
    <3> QED BY <3>2, <3>3, <3>4
  <2> QED BY <2>2, <2>3
<1> QED BY <1>2, <1>3 DEF Counted, Q, qt

-----------------------------------------------------------------------------
(***************************************************************************)
(* The invariant: the tree, and who may write through it.                  *)
(***************************************************************************)
Writable(pt) == \A s \in PresentIn(pt) : s[1] > 1 => pt[s].write

PagesWritable ==
    \A v \in Page \ KernelPage : <<1, v>> \in Present =>
        pte[<<1, v>>].write = (IF v \in ClientPages THEN req[v].write ELSE TRUE)

TreeInv ==
    /\ Rooted(pte)
    /\ ~ stuck => Counted(pte) /\ Writable(pte)
    /\ \A s \in Present : s[1] < 4 => pte[Parent(s)].write
    /\ KernelSlots \subseteq Present
    /\ NoEmptyTables
    /\ PagesWritable
    /\ phase = "init" => /\ ~ stuck
                         /\ \A v \in ClientPages : <<1, v>> \notin Present

\* What MapPage does to the tree.
LEMMA MapPageTree ==
  ASSUME NEW pt \in [Slots -> Entry], Rooted(pt), Counted(pt), NEW v \in Page,
         NEW flags, IsFlags(flags), NEW src \in Seq(Nat)
  PROVE  LET qt == MapPage(pt, v, flags, src).pte
         IN  /\ Rooted(qt) /\ Counted(qt)
             /\ PresentIn(pt) \subseteq PresentIn(qt)
             /\ \A s \in PresentIn(pt) : qt[s].write = pt[s].write
             /\ Writable(pt) /\ (flags.write \/ Missing(pt, v) < 2 \/ Len(src) = 0)
                  => Writable(qt)
             /\ Filled4(pt) /\ LastFilled(pt, v, Len(src)) = 0 => Filled4(qt)
             /\ \A u \in Page : <<1, u>> \in PresentIn(qt) \ PresentIn(pt) =>
                   /\ u = v /\ LastFilled(pt, v, Len(src)) = 0
                   /\ qt[<<1, u>>].write = flags.write
<1> DEFINE qt   == MapPage(pt, v, flags, src).pte
           top  == Missing(pt, v)
           last == LastFilled(pt, v, Len(src))
           new  == Filled(pt, v, Len(src))
<1>1. Grows(pt, qt, v, last, top, new)
  BY MapPageGrows
<1>2. \A x \in (top + 1)..4 : Walk(v)[x] \in PresentIn(pt)
  <2>1. top \in 0..4 /\ \A x \in (top + 1)..4 : pt[Walk(v)[x]].present
    BY MissingDef
  <2>2. \A x \in (top + 1)..4 : x \in 1..4
    BY <2>1
  <2> QED BY <2>1, <2>2, WalkSlot DEF PresentIn
<1>3. \A s \in new : qt[s].write = flags.write
  BY MapPageResult
<1>4. Len(src) = 0 => last = top
  BY <1>1 DEF LastFilled, Grows
<1> HIDE DEF qt, top, last, new
<1>5. Rooted(qt)
  BY <1>1, <1>2, GrowsRooted
<1>6. Counted(qt)
  BY <1>1, GrowsCounted
<1>7. /\ top \in 0..4 /\ last \in 0..top /\ new \subseteq Slots
      /\ \A s \in Slots : s \in new <=> s = Walk(v)[s[1]] /\ last < s[1] /\ s[1] <= top
      /\ PresentIn(qt) = PresentIn(pt) \cup new
      /\ \A s \in PresentIn(pt) : qt[s] = pt[s] \/ qt[s] = IncEntryCount(pt[s])
  BY <1>1 DEF Grows
<1>8. \A s \in PresentIn(pt) : s \in Slots /\ pt[s] \in Entry
  BY DEF PresentIn
<1>9. \A s \in PresentIn(pt) : qt[s].write = pt[s].write
  BY <1>7, <1>8, IncEntryCountType
<1>10. ASSUME Writable(pt), flags.write \/ top < 2 \/ Len(src) = 0
       PROVE  Writable(qt)
  <2> SUFFICES ASSUME NEW s \in PresentIn(qt), s[1] > 1 PROVE qt[s].write
    BY DEF Writable
  <2>1. CASE s \in PresentIn(pt)
    BY <1>9, <1>10, <2>1 DEF Writable
  <2>2. CASE s \in new
    <3>1. s[1] \in 1..4 /\ last < s[1] /\ s[1] <= top
      BY <1>7, <2>2, Levels
    <3>2. ~ (top < 2) /\ ~ (Len(src) = 0)
      BY <1>4, <1>7, <3>1
    <3>3. flags.write
      BY <1>10, <3>2
    <3> QED BY <1>3, <2>2, <3>3
  <2> QED BY <1>7, <2>1, <2>2
<1>11. ASSUME Filled4(pt), last = 0
       PROVE  Filled4(qt)
  <2> SUFFICES ASSUME NEW s \in PresentIn(qt), s[1] > 1
               PROVE  Below(s) \cap PresentIn(qt) # {}
    BY DEF Filled4
  <2>1. CASE s \in PresentIn(pt)
    BY <1>7, <1>11, <2>1 DEF Filled4
  <2>2. CASE s \in new
    <3>1. s \in Slots /\ s[1] \in 2..4 /\ s[1] <= top /\ s = Walk(v)[s[1]]
      <4>1. s \in Slots /\ s[1] \in 1..4
        BY <1>7, <2>2, Levels
      <4> QED BY <1>7, <2>2, <4>1
    <3> DEFINE w == Walk(v)[s[1] - 1]
    <3>2. s[1] - 1 \in 1..3 /\ (s[1] - 1) + 1 = s[1]
      BY <3>1
    <3>3. w \in Below(s) /\ w \in Slots /\ w[1] = s[1] - 1
      BY <3>1, <3>2, WalkBelow, WalkSlot
    <3>4. last < w[1] /\ w[1] <= top /\ w = Walk(v)[w[1]]
      BY <1>7, <1>11, <3>1, <3>2, <3>3
    <3> HIDE DEF w
    <3>5. w \in new
      BY <1>7, <3>3, <3>4
    <3> QED BY <1>7, <3>3, <3>5
  <2> QED BY <1>7, <2>1, <2>2
<1>12. ASSUME NEW u \in Page, <<1, u>> \in PresentIn(qt) \ PresentIn(pt)
       PROVE  u = v /\ last = 0 /\ qt[<<1, u>>].write = flags.write
  <2> DEFINE s == <<1, u>>
  <2>1. s[1] = 1
    OBVIOUS
  <2>2. s \in new /\ s \in Slots
    BY <1>7, <1>12
  <2> HIDE DEF s
  <2>3. s = Walk(v)[1] /\ last < 1
    BY <1>7, <2>1, <2>2
  <2>4. u = v
    BY <2>3, FirstSlot DEF s
  <2> QED BY <1>3, <1>7, <2>2, <2>3, <2>4 DEF s
<1>13. /\ Rooted(qt) /\ Counted(qt)
       /\ PresentIn(pt) \subseteq PresentIn(qt)
       /\ Writable(pt) /\ (flags.write \/ top < 2 \/ Len(src) = 0) => Writable(qt)
       /\ Filled4(pt) /\ last = 0 => Filled4(qt)
  BY <1>5, <1>6, <1>7, <1>10, <1>11
<1> QED BY <1>9, <1>12, <1>13 DEF qt, top, last

LEMMA TablesOfPresent ==
  ASSUME Rooted(pte), Writable(pte), NEW s \in Present, s[1] < 4
  PROVE  pte[Parent(s)].write
<1>1. Parent(s) \in PresentIn(pte) /\ Parent(s)[1] = s[1] + 1 /\ s[1] \in 1..4
  BY PresentDef, Levels DEF Rooted, Parent, Present
<1>2. Parent(s)[1] > 1
  BY <1>1
<1> QED BY <1>1, <1>2 DEF Writable

\* The common part of a round of Initialize's loop and of Allocate.
LEMMA MapStep ==
  ASSUME TypeOK, TreeInv, ~ stuck, NEW v \in Page \ KernelPage,
         NEW flags, IsFlags(flags), NEW src \in Seq(Nat),
         flags.write \/ Missing(pte, v) < 2 \/ Len(src) = 0,
         pte' = MapPage(pte, v, flags, src).pte, stuck' = stuck,
         enomem' = (enomem \/ ~ (LastFilled(pte, v, Len(src)) = 0)),
         \A u \in ClientPages :
             \/ req'[u].write = req[u].write
             \/ u = v /\ req'[v].write = flags.write /\ <<1, v>> \notin Present,
         v \in ClientPages /\ LastFilled(pte, v, Len(src)) = 0
             /\ <<1, v>> \notin Present => req'[v].write = flags.write,
         v \notin ClientPages => flags.write = TRUE
  PROVE  /\ Rooted(pte') /\ Counted(pte') /\ Writable(pte')
         /\ \A s \in Present' : s[1] < 4 => pte'[Parent(s)].write
         /\ KernelSlots \subseteq Present'
         /\ NoEmptyTables'
         /\ PagesWritable'
         /\ \A u \in Page : <<1, u>> \in Present' => u = v \/ <<1, u>> \in Present
<1>1. /\ pte \in [Slots -> Entry] /\ Rooted(pte) /\ Counted(pte) /\ Writable(pte)
      /\ KernelSlots \subseteq Present /\ NoEmptyTables /\ PagesWritable
  BY DEF TypeOK, TreeInv
<1> DEFINE qt == MapPage(pte, v, flags, src).pte
           done == LastFilled(pte, v, Len(src)) = 0
<1>2. /\ Rooted(qt) /\ Counted(qt) /\ Writable(qt)
      /\ PresentIn(pte) \subseteq PresentIn(qt)
      /\ \A s \in PresentIn(pte) : qt[s].write = pte[s].write
      /\ Filled4(pte) /\ done => Filled4(qt)
      /\ \A u \in Page : <<1, u>> \in PresentIn(qt) \ PresentIn(pte) =>
            u = v /\ done /\ qt[<<1, u>>].write = flags.write
  BY <1>1, MapPageTree
<1> HIDE DEF qt
<1>3. /\ pte' = qt /\ Present = PresentIn(pte) /\ Present' = PresentIn(qt)
  BY DEF qt, Present, PresentIn
<1>4. \A s \in Present' : s[1] < 4 => pte'[Parent(s)].write
  <2> SUFFICES ASSUME NEW s \in PresentIn(qt), s[1] < 4 PROVE qt[Parent(s)].write
    BY <1>3
  <2>1. Parent(s) \in PresentIn(qt) /\ Parent(s)[1] = s[1] + 1 /\ s[1] \in 1..4
    BY <1>2, Levels DEF Rooted, Parent, PresentIn
  <2>2. Parent(s)[1] > 1
    BY <2>1
  <2> QED BY <1>2, <2>1, <2>2 DEF Writable
<1>5. NoEmptyTables'
  <2>1. ~ enomem' => ~ enomem /\ done
    OBVIOUS
  <2>2. ~ enomem => Filled4(pte)
    BY <1>1, <1>3 DEF NoEmptyTables, Filled4
  <2>3. ~ enomem' => Filled4(qt)
    BY <1>2, <2>1, <2>2
  <2> QED BY <1>3, <2>3 DEF NoEmptyTables, Filled4
<1> HIDE DEF done
<1>6. PagesWritable'
  <2> SUFFICES ASSUME NEW u \in Page \ KernelPage, <<1, u>> \in Present'
               PROVE  pte'[<<1, u>>].write = (IF u \in ClientPages THEN req'[u].write
                                                                   ELSE TRUE)
    BY DEF PagesWritable
  <2>1. CASE <<1, u>> \in Present
    <3>1. pte'[<<1, u>>].write = pte[<<1, u>>].write
      BY <1>2, <1>3, <2>1
    <3>2. pte[<<1, u>>].write = (IF u \in ClientPages THEN req[u].write ELSE TRUE)
      BY <1>1, <2>1 DEF PagesWritable
    <3>3. u \in ClientPages => req'[u].write = req[u].write
      BY <2>1
    <3> QED BY <3>1, <3>2, <3>3
  <2>2. CASE <<1, u>> \notin Present
    <3>1. u = v /\ done /\ pte'[<<1, u>>].write = flags.write
      BY <1>2, <1>3, <2>2
    <3>2. u \in ClientPages => req'[u].write = flags.write
      BY <2>2, <3>1 DEF done
    <3> QED BY <3>1, <3>2
  <2> QED BY <2>1, <2>2
<1>7. KernelSlots \subseteq Present'
  BY <1>1, <1>2, <1>3
<1>8. \A u \in Page : <<1, u>> \in Present' => u = v \/ <<1, u>> \in Present
  BY <1>2, <1>3
<1> QED BY <1>2, <1>3, <1>4, <1>5, <1>6, <1>7, <1>8

LEMMA KernelFirst ==
  ASSUME NEW u, <<1, u>> \in KernelSlots
  PROVE  u \in KernelPage
<1>1. PICK v \in KernelPage, x \in 1..4 : <<1, u>> = Walk(v)[x]
  BY DEF KernelSlots
<1>2. v \in Page /\ Walk(v)[x][1] = x
  BY <1>1, WalkSlot, PageAssumption
<1>3. x = 1
  BY <1>1, <1>2
<1> QED BY <1>1, <1>3, FirstSlot

LEMMA InitTree == Init => TreeInv
<1> SUFFICES ASSUME Init PROVE TreeInv
  OBVIOUS
<1>1. KernelSlots \subseteq Slots
  BY KernelSlotsInSlots
<1>2. /\ Present = KernelSlots /\ PresentIn(pte) = KernelSlots
      /\ \A s \in KernelSlots : pte[s] = KernelEntry(s)
  <2>1. \A s \in KernelSlots : KernelEntry(s).present
    BY KernelEntryType
  <2>2. pte = [s \in Slots |-> IF s \in KernelSlots THEN KernelEntry(s) ELSE NotPresent]
    BY DEF Init
  <2> QED BY <1>1, <2>1, <2>2, PresentDef DEF Present, NotPresent
<1>3. ASSUME NEW s \in KernelSlots
      PROVE  /\ s[1] \in 1..4
             /\ s[1] < 4 => Parent(s) \in KernelSlots
             /\ s[1] > 1 => /\ KernelEntry(s).write
                            /\ KernelEntry(s).count
                                 = Cardinality(Below(s) \cap KernelSlots) % Entries
                            /\ Below(s) \cap KernelSlots # {}
  <2>1. PICK v \in KernelPage, x \in 1..4 : s = Walk(v)[x]
    BY DEF KernelSlots
  <2>2. v \in Page /\ s[1] = x
    BY <2>1, WalkSlot, PageAssumption
  <2>3. x < 4 => Parent(s) \in KernelSlots
    <3> SUFFICES ASSUME x < 4 PROVE Parent(s) \in KernelSlots
      OBVIOUS
    <3>1. Parent(s) = Walk(v)[x + 1] /\ x + 1 \in 1..4
      BY <2>1, <2>2, WalkParent
    <3> QED BY <3>1 DEF KernelSlots
  <2>4. x > 1 => Below(s) \cap KernelSlots # {}
    <3> SUFFICES ASSUME x > 1 PROVE Below(s) \cap KernelSlots # {}
      OBVIOUS
    <3>1. x - 1 \in 1..3 /\ x - 1 \in 1..4 /\ (x - 1) + 1 = x
      OBVIOUS
    <3>2. Walk(v)[x - 1] \in Below(Walk(v)[(x - 1) + 1])
      BY <2>2, <3>1, WalkBelow
    <3>3. Walk(v)[x - 1] \in KernelSlots
      BY <3>1 DEF KernelSlots
    <3> QED BY <2>1, <3>1, <3>2, <3>3
  <2> QED BY <2>2, <2>3, <2>4 DEF KernelEntry
<1>4. Rooted(pte) /\ Counted(pte) /\ Writable(pte)
  BY <1>2, <1>3 DEF Rooted, Counted, Writable
<1>5. \A s \in Present : s[1] < 4 => pte[Parent(s)].write
  BY <1>4, TablesOfPresent
<1>6. NoEmptyTables
  BY <1>2, <1>3 DEF NoEmptyTables
<1>7. \A u \in Page \ KernelPage : <<1, u>> \notin Present
  BY <1>2, KernelFirst
<1>8. PagesWritable /\ \A v \in ClientPages : <<1, v>> \notin Present
  BY <1>7, PageAssumption DEF PagesWritable
<1> QED BY <1>2, <1>4, <1>5, <1>6, <1>8 DEF TreeInv, Init

LEMMA PushMapFrameTree ==
  ASSUME TypeOK, RamBound, TreeInv, PushMapFrame
  PROVE  TreeInv'
<1> DEFINE v == StackPage(Len(stack))
           src == Tail(pool)
<1>1. v \in Page \ ClientPages
  BY StackPageType DEF PushMapFrame
<1>2. v \notin KernelPage
  <2>1. Len(stack) \div Entries \in Nat
    BY DivLess DEF TypeOK
  <2> QED BY <2>1, KernelEndType, KernelAssumption DEF StackPage
<1>3. src \in Seq(Nat) /\ pte \in [Slots -> Entry]
  BY DEF TypeOK, PushMapFrame
<1>4. IsFlags(StackFlags) /\ StackFlags.write = TRUE
  BY DEF IsFlags, StackFlags
<1>5. /\ pte' = MapPage(pte, v, StackFlags, src).pte
      /\ enomem' = (enomem \/ ~ MapPage(pte, v, StackFlags, src).ok)
      /\ phase' = phase /\ req' = req /\ stuck' = stuck /\ ~ stuck /\ phase = "init"
  BY DEF PushMapFrame, TreeInv
<1> HIDE DEF v, src
<1>6. enomem' = (enomem \/ ~ (LastFilled(pte, v, Len(src)) = 0))
  <2>1. MapPage(pte, v, StackFlags, src).ok <=> LastFilled(pte, v, Len(src)) = 0
    BY <1>1, <1>3, <1>4, MapPageType
  <2> QED BY <1>5, <2>1
<1>7. \A u \in ClientPages :
         \/ req'[u].write = req[u].write
         \/ u = v /\ req'[v].write = StackFlags.write /\ <<1, v>> \notin Present
  BY <1>5
<1>8. /\ Rooted(pte') /\ Counted(pte') /\ Writable(pte')
      /\ \A s \in Present' : s[1] < 4 => pte'[Parent(s)].write
      /\ KernelSlots \subseteq Present'
      /\ NoEmptyTables'
      /\ PagesWritable'
      /\ \A u \in Page : <<1, u>> \in Present' => u = v \/ <<1, u>> \in Present
  BY <1>1, <1>2, <1>3, <1>4, <1>5, <1>6, <1>7, MapStep
<1>9. \A u \in ClientPages : <<1, u>> \notin Present'
  BY <1>1, <1>5, <1>8, PageAssumption DEF TreeInv
<1> QED BY <1>5, <1>8, <1>9 DEF TreeInv

LEMMA AllocateTree ==
  ASSUME TypeOK, TreeInv, NEW v \in ClientPages, NEW r \in Requests, Allocate(v, r)
  PROVE  TreeInv'
<1> DEFINE flags == AllocateFlags(r)
           m == MapPage(pte, v, flags, Pops)
           done == LastFilled(pte, v, Len(Pops)) = 0
<1>1. v \in Page \ KernelPage /\ v \in Page /\ r \in Request /\ pte \in [Slots -> Entry]
  BY PageAssumption DEF TypeOK
<1>2. Pops \in Seq(Nat) /\ Len(Pops) = Len(stack) /\ stack \in Seq(Nat)
  BY PopsSeq DEF TypeOK
<1>3. IsFlags(flags) /\ flags.write = r.write
  BY <1>1 DEF IsFlags, AllocateFlags, Request
<1>4. /\ pte' = m.pte
      /\ req' = IF m.ok /\ m.taken > 0 THEN [req EXCEPT ![v] = r] ELSE req
      /\ enomem' = (enomem \/ ~ m.ok)
      /\ phase' = phase /\ phase = "run" /\ stuck' = stuck /\ ~ stuck
      /\ r.write \/ Missing(pte, v) < 2 \/ stack = << >>
  BY DEF Allocate, CanZeroTable
<1> HIDE DEF flags
<1>5. m.ok <=> done
  BY <1>1, <1>2, <1>3, MapPageType
<1>6. m.taken > 0 /\ done => <<1, v>> \notin Present
  <2> SUFFICES ASSUME m.taken > 0, <<1, v>> \in Present PROVE FALSE
    OBVIOUS
  <2> DEFINE top == Missing(pte, v)
  <2>1. top \in 0..4 /\ LastFilled(pte, v, Len(Pops)) \in 0..top
        /\ m.taken = top - LastFilled(pte, v, Len(Pops))
    BY <1>1, <1>2, <1>3, MapPageResult
  <2> HIDE DEF m
  <2>2. top > 0 /\ top \in 1..4
    BY <2>1
  <2>3. Walk(v)[1] \in PresentIn(pte)
    BY PresentDef, FirstSlot
  <2>4. Walk(v)[top] \in PresentIn(pte)
    BY <1>1, <2>2, <2>3, WalkUp DEF TreeInv
  <2> QED BY <2>2, <2>4, MissingDef DEF PresentIn
<1>7. done /\ <<1, v>> \notin Present => m.taken > 0
  <2> SUFFICES ASSUME done, <<1, v>> \notin Present PROVE m.taken > 0
    OBVIOUS
  <2>1. /\ Missing(pte, v) \in 0..4
        /\ m.taken = Missing(pte, v) - LastFilled(pte, v, Len(Pops))
    BY <1>1, <1>2, <1>3, MapPageResult
  <2>2. Missing(pte, v) # 0
    BY <1>1, FirstSlot, WalkPresent
  <2> HIDE DEF m
  <2> QED BY <2>1, <2>2
<1> DEFINE changed == m.ok /\ m.taken > 0
<1>8. changed <=> done /\ <<1, v>> \notin Present
  BY <1>5, <1>6, <1>7
<1>9. req' = IF changed THEN [req EXCEPT ![v] = r] ELSE req
  BY <1>4
<1> HIDE DEF m, changed, done
<1>10. /\ changed => req'[v] = r
       /\ \A u \in ClientPages : u # v \/ ~ changed => req'[u] = req[u]
  BY <1>9 DEF TypeOK
<1>11. \A u \in ClientPages :
             \/ req'[u].write = req[u].write
             \/ u = v /\ req'[v].write = flags.write /\ <<1, v>> \notin Present
  BY <1>3, <1>8, <1>10
<1>12. v \in ClientPages /\ LastFilled(pte, v, Len(Pops)) = 0
             /\ <<1, v>> \notin Present => req'[v].write = flags.write
  BY <1>3, <1>8, <1>10 DEF done
<1>13. flags.write \/ Missing(pte, v) < 2 \/ Len(Pops) = 0
  BY <1>2, <1>3, <1>4
<1>14. /\ pte' = MapPage(pte, v, flags, Pops).pte
       /\ enomem' = (enomem \/ ~ (LastFilled(pte, v, Len(Pops)) = 0))
  BY <1>4, <1>5 DEF m, done
<1>15. /\ Rooted(pte') /\ Counted(pte') /\ Writable(pte')
       /\ \A s \in Present' : s[1] < 4 => pte'[Parent(s)].write
       /\ KernelSlots \subseteq Present'
       /\ NoEmptyTables'
       /\ PagesWritable'
  BY <1>1, <1>2, <1>3, <1>4, <1>11, <1>12, <1>13, <1>14, MapStep
<1> QED BY <1>4, <1>15 DEF TreeInv

LEMMA AllocateFaultsOnTableTree ==
  ASSUME TypeOK, TreeInv, NEW v \in ClientPages, NEW r \in Requests,
         AllocateFaultsOnTable(v, r)
  PROVE  TreeInv'
<1> DEFINE x == Missing(pte, v)
           s0 == Walk(v)[x]
<1>1. v \in Page /\ v \notin KernelPage
  BY PageAssumption
<1>2. /\ x \in 2..4 /\ ~ pte[Walk(v)[x]].present
      /\ \A y \in (x + 1)..4 : pte[Walk(v)[y]].present
  <2>1. x \in 0..4 /\ ~ (x < 2)
    BY MissingDef DEF AllocateFaultsOnTable, CanZeroTable
  <2> QED BY <2>1, MissingDef
<1>3. s0 \in Slots /\ s0[1] = x /\ s0 \notin Present
  BY <1>1, <1>2, WalkSlot DEF Present
<1>4. x < 4 => Parent(s0) \in Present /\ Parent(s0)[1] > 1
  <2> SUFFICES ASSUME x < 4 PROVE Parent(s0) \in Present /\ Parent(s0)[1] > 1
    OBVIOUS
  <2>1. x \in 1..3 /\ x + 1 \in (x + 1)..4 /\ x + 1 \in 1..4
    BY <1>2
  <2>2. Parent(s0) = Walk(v)[x + 1]
    BY <1>1, <2>1, WalkParent
  <2> QED BY <1>1, <1>2, <2>1, <2>2, WalkSlot DEF Present
<1>5. /\ pte' = [pte EXCEPT ![s0] =
                   [NotPresent EXCEPT !.present = TRUE, !.frame = Head(Pops),
                                      !.user = r.user]]
      /\ stuck' /\ ~ stuck /\ phase' = "run" /\ req' = req
  BY DEF AllocateFaultsOnTable
<1> HIDE DEF x, s0
<1>6. /\ pte'[s0].present
      /\ \A s \in Slots : s # s0 => pte'[s] = pte[s]
  BY <1>3, <1>5 DEF TypeOK, NotPresent
<1>7. Present' = Present \cup {s0} /\ PresentIn(pte)' = Present'
      /\ Present \subseteq Slots /\ PresentIn(pte) = Present
  BY <1>3, <1>6 DEF Present, PresentIn
<1>8. Rooted(pte) /\ Writable(pte)
      /\ (\A s \in Present : s[1] < 4 => Parent(s) \in Present /\ pte[Parent(s)].write)
      /\ KernelSlots \subseteq Present /\ PagesWritable
  BY <1>5, PresentDef DEF TreeInv, Rooted
<1>9. \A s \in Present' : s[1] < 4 => Parent(s) \in Present /\ pte'[Parent(s)].write
  <2> SUFFICES ASSUME NEW s \in Present', s[1] < 4
               PROVE  Parent(s) \in Present /\ pte[Parent(s)].write
    BY <1>3, <1>6, <1>7
  <2>1. CASE s \in Present
    BY <1>8, <2>1
  <2>2. CASE s = s0
    <3>1. Parent(s) \in Present /\ Parent(s)[1] > 1
      BY <1>3, <1>4, <2>2
    <3> QED BY <1>7, <1>8, <3>1 DEF Writable
  <2> QED BY <1>7, <2>1, <2>2
<1>10. Rooted(pte')
  BY <1>7, <1>9 DEF Rooted
<1>11. PagesWritable'
  <2> SUFFICES ASSUME NEW u \in Page \ KernelPage, <<1, u>> \in Present'
               PROVE  pte'[<<1, u>>].write = (IF u \in ClientPages THEN req[u].write
                                                                   ELSE TRUE)
    BY <1>5 DEF PagesWritable
  <2>1. <<1, u>> # s0
    BY <1>2, <1>3
  <2>2. <<1, u>> \in Present /\ pte'[<<1, u>>] = pte[<<1, u>>]
    BY <1>6, <1>7, <2>1
  <2> QED BY <1>8, <2>2 DEF PagesWritable
<1> QED BY <1>5, <1>7, <1>8, <1>9, <1>10, <1>11 DEF TreeInv, NoEmptyTables

LEMMA FreeTree ==
  ASSUME TypeOK, TreeInv, NEW v \in ClientPages, Free(v)
  PROVE  TreeInv'
<1> DEFINE qt == Unmapped(v)
<1>1. v \in Page /\ v \notin KernelPage
  BY PageAssumption
<1>2. /\ pte' = qt /\ Missing(pte, v) = 0 /\ ~ stuck /\ stuck' = stuck
      /\ phase' = phase /\ phase = "run" /\ enomem' = enomem
      /\ req' = [req EXCEPT ![v] = NoRequest]
  BY DEF Free
<1>3. /\ Rooted(pte) /\ Counted(pte) /\ Writable(pte)
      /\ KernelSlots \subseteq Present /\ NoEmptyTables /\ PagesWritable
  BY <1>2 DEF TreeInv
<1>4. /\ PresentIn(qt) = Present \ Gone(v)
      /\ \A s \in Present \ Gone(v) :
               qt[s] = IF Cleared(v) < 4 /\ s = Walk(v)[Cleared(v) + 1]
                       THEN DecEntryCount(pte[s]) ELSE pte[s]
      /\ \A s \in Slots : s \in Gone(v) <=> s = Walk(v)[s[1]] /\ s[1] <= Cleared(v)
  BY <1>1, UnmappedPresent
<1>5. Rooted(qt)
  BY <1>1, <1>2, <1>3, UnmappedRooted
<1>6. /\ Counted(qt)
      /\ \A s \in Present \ Gone(v) : s[1] > 1 =>
              \/ Below(s) \cap PresentIn(qt) # {}
              \/ Below(s) \cap Present = {}
  BY <1>1, <1>2, <1>3, UnmappedCounted
<1> HIDE DEF qt
<1>7. Present' = Present \ Gone(v) /\ PresentIn(qt) = Present'
  BY <1>2, <1>4 DEF Present, PresentIn
<1>8. \A s \in Present' : s \in Present /\ s \in Slots /\ pte'[s].write = pte[s].write
  <2> SUFFICES ASSUME NEW s \in Present'
               PROVE  s \in Present /\ s \in Slots /\ pte'[s].write = pte[s].write
    OBVIOUS
  <2>1. s \in Present \ Gone(v)
    BY <1>7
  <2>2. s \in Slots /\ pte[s] \in Entry
    BY <2>1 DEF Present, TypeOK
  <2>3. qt[s] = pte[s] \/ qt[s] = DecEntryCount(pte[s])
    BY <1>4, <2>1
  <2> QED BY <1>2, <2>1, <2>2, <2>3, DecEntryCountType
<1>9. Writable(pte')
  BY <1>2, <1>3, <1>7, <1>8, PresentDef DEF Writable
<1>10. \A s \in Present' : s[1] < 4 => pte'[Parent(s)].write
  <2> SUFFICES ASSUME NEW s \in Present', s[1] < 4 PROVE qt[Parent(s)].write
    BY <1>2
  <2>1. Parent(s) \in PresentIn(qt) /\ Parent(s)[1] = s[1] + 1 /\ s[1] \in 1..4
    BY <1>5, <1>7, <1>8, Levels DEF Rooted, Parent
  <2>2. Parent(s)[1] > 1
    BY <2>1
  <2> QED BY <1>2, <1>9, <2>1, <2>2 DEF Writable
<1>11. Walk(v)[1] \in Gone(v) /\ \A u \in Page : <<1, u>> \in Gone(v) => u = v
  <2>1. Cleared(v) \in 1..4
    BY ClearedDef
  <2>2. Walk(v)[1] \in Gone(v)
    BY <2>1 DEF Gone
  <2>3. ASSUME NEW u \in Page, <<1, u>> \in Gone(v) PROVE u = v
    <3>1. <<1, u>> \in Slots
      BY FirstSlot, WalkSlot
    <3>2. <<1, u>> = Walk(v)[1]
      BY <1>4, <2>3, <3>1
    <3> QED BY <3>2, FirstSlot
  <2> QED BY <2>2, <2>3
<1>12. KernelSlots \subseteq Present'
  <2> SUFFICES ASSUME NEW u \in KernelPage, NEW x \in 1..4
               PROVE  Walk(u)[x] \in PresentIn(qt)
    BY <1>7 DEF KernelSlots
  <2>1. u \in Page /\ u # v
    BY <1>1, PageAssumption
  <2>2. Walk(u)[1] \in PresentIn(qt)
    <3>1. Walk(u)[1] \in KernelSlots
      BY DEF KernelSlots
    <3> QED BY <1>3, <1>4, <1>11, <2>1, <3>1, FirstSlot
  <2>3. 1 \in 1..4 /\ x \in 1..4
    OBVIOUS
  <2> QED BY <1>5, <2>1, <2>2, <2>3, WalkUp
<1>13. NoEmptyTables'
  BY <1>2, <1>3, <1>6, <1>7 DEF NoEmptyTables
<1>14. PagesWritable'
  <2> SUFFICES ASSUME NEW u \in Page \ KernelPage, <<1, u>> \in Present'
               PROVE  pte'[<<1, u>>].write = (IF u \in ClientPages THEN req'[u].write
                                                                   ELSE TRUE)
    BY DEF PagesWritable
  <2>1. u # v
    BY <1>7, <1>11, FirstSlot
  <2>2. <<1, u>> \in Present /\ pte'[<<1, u>>].write = pte[<<1, u>>].write
    BY <1>8
  <2>3. u \in ClientPages => req'[u] = req[u]
    BY <1>2, <2>1 DEF TypeOK
  <2> QED BY <1>3, <2>2, <2>3 DEF PagesWritable
<1> QED BY <1>2, <1>5, <1>6, <1>9, <1>10, <1>12, <1>13, <1>14 DEF TreeInv

LEMMA UnchangedTree ==
  ASSUME TreeInv, pte' = pte, req' = req, enomem' = enomem,
         stuck' = stuck \/ stuck' = TRUE, phase' = phase \/ phase' = "run",
         phase' = "init" => stuck' = stuck
  PROVE  TreeInv'
<1>1. Present' = Present
  BY DEF Present
<1>2. NoEmptyTables' /\ PagesWritable'
  BY <1>1 DEF TreeInv, NoEmptyTables, PagesWritable
<1> QED BY <1>1, <1>2 DEF TreeInv

LEMMA NextTree == TypeOK /\ RamBound /\ TreeInv /\ [Next]_vars => TreeInv'
<1> SUFFICES ASSUME TypeOK, RamBound, TreeInv, [Next]_vars PROVE TreeInv'
  OBVIOUS
<1>1. CASE PushMapFrame
  BY <1>1, PushMapFrameTree
<1>2. CASE EndInitialize
  BY <1>2, UnchangedTree DEF EndInitialize
<1>3. ASSUME NEW v \in ClientPages, NEW r \in Requests, Allocate(v, r)
      PROVE  TreeInv'
  BY <1>3, AllocateTree
<1>4. ASSUME NEW v \in ClientPages, NEW r \in Requests,
             AllocateFaultsOnTable(v, r)
      PROVE  TreeInv'
  BY <1>4, AllocateFaultsOnTableTree
<1>5. ASSUME NEW v \in ClientPages, AllocateFaults(v) \/ FreeFaults(v)
      PROVE  TreeInv'
  BY <1>5, UnchangedTree DEF AllocateFaults, FreeFaults
<1>6. ASSUME NEW v \in ClientPages, Free(v)
      PROVE  TreeInv'
  BY <1>6, FreeTree
<1>7. CASE UNCHANGED vars
  BY <1>7, UnchangedTree DEF vars
<1> QED BY <1>1, <1>2, <1>3, <1>4, <1>5, <1>6, <1>7 DEF Next

-----------------------------------------------------------------------------
(***************************************************************************)
(* What the tree promises.                                                 *)
(***************************************************************************)
LEMMA TreeHolds == Spec => [](TypeOK /\ RamBound /\ TreeInv)
<1>1. Init => TypeOK /\ RamBound /\ TreeInv
  BY InitType, InitTree
<1>2. TypeOK /\ RamBound /\ TreeInv /\ [Next]_vars => (TypeOK /\ RamBound /\ TreeInv)'
  BY NextType, NextTree
<1> QED BY <1>1, <1>2, PTL DEF Spec

\* Until a call has faulted for good, the count kept in each table's entry is
\* the number of entries present in the table, up to the width of the field:
\* through every sequence of MapPage and UnmapPage, no matter how many pages
\* share a table, and although MapPage may run out of frames half way.
THEOREM CountsAreExact == Spec => []CountsExact
<1>1. TreeInv => CountsExact
  BY PresentDef DEF TreeInv, CountsExact, Counted
<1> QED BY <1>1, TreeHolds, PTL

\* A present entry always lies in a table that is present: UnmapPage gives
\* away no table in use, although a full one counts 0 like an empty one.
THEOREM NothingOrphaned == Spec => []NoOrphans
<1>1. TreeInv => NoOrphans
  BY PresentDef DEF TreeInv, NoOrphans, Rooted
<1> QED BY <1>1, TreeHolds, PTL

\* While memory has never run out and no call has faulted for good, each table
\* that is present holds an entry: UnmapPage gives back every table it empties.
THEOREM TablesAreInUse == Spec => []NoEmptyTables
<1>1. TreeInv => NoEmptyTables
  BY DEF TreeInv
<1> QED BY <1>1, TreeHolds, PTL

\* A mapped client page can be written just if the request it was mapped under
\* says so, whatever other pages asked for while they shared its tables.
THEOREM WritesAreHonoured == Spec => []WriteHonoured
<1>1. TypeOK /\ TreeInv => WriteHonoured
  <2> SUFFICES ASSUME TypeOK, TreeInv, NEW v \in ClientPages,
                      pte[Walk(v)[1]].present
               PROVE  (\A x \in 1..4 : pte[Walk(v)[x]].write) <=> req[v].write
    BY DEF WriteHonoured
  <2>1. v \in Page /\ v \notin KernelPage
    BY PageAssumption
  <2>2. Walk(v)[1] \in PresentIn(pte) /\ <<1, v>> \in Present
    BY <2>1, WalkSlot, FirstSlot DEF PresentIn, Present
  <2>3. pte[Walk(v)[1]].write = req[v].write
    BY <2>1, <2>2, FirstSlot DEF TreeInv, PagesWritable
  <2>4. ASSUME NEW x \in 1..3 PROVE pte[Walk(v)[x + 1]].write
    <3>1. Walk(v)[x] \in Present /\ Walk(v)[x][1] < 4
      <4>1. x \in 1..4 /\ 1 \in 1..4 /\ x \in 1..4
        OBVIOUS
      <4>2. Walk(v)[x] \in PresentIn(pte)
        BY <2>1, <2>2, <4>1, WalkUp DEF TreeInv
      <4> QED BY <2>1, <4>1, <4>2, WalkSlot, PresentDef
    <3> QED BY <2>1, <3>1, WalkParent DEF TreeInv
  <2>5. \A x \in 1..4 : x = 1 \/ (x - 1 \in 1..3 /\ (x - 1) + 1 = x)
    OBVIOUS
  <2>6. \A x \in 1..4 : x = 1 \/ pte[Walk(v)[x]].write
    BY <2>4, <2>5
  <2>7. req[v].write \in BOOLEAN /\ pte[Walk(v)[1]].write \in BOOLEAN
    BY <2>1, WalkSlot DEF TypeOK, Request, Entry
  <2> QED BY <2>3, <2>6, <2>7
<1> QED BY <1>1, TreeHolds, PTL

-----------------------------------------------------------------------------
(***************************************************************************)
(* The frame stack. It has n pages, one after the other behind the kernel, *)
(* and what else is present beyond the kernel's own entries took a frame   *)
(* of the memory map each: the frames that callers free fit on the stack.  *)
(***************************************************************************)
StackSlots(n) == {Walk(KernelEnd + k)[x] : k \in 0..(n - 1), x \in 1..4}

Extra(n) == Present \ (KernelSlots \cup StackSlots(n))

StackPages(n) ==
    /\ \A k \in 0..(n - 1) : /\ KernelEnd + k \in Page \ ClientPages
                             /\ <<1, KernelEnd + k>> \in Present
    /\ \A v \in Page \ ClientPages : v >= KernelEnd + n => <<1, v>> \notin Present

StackShape(n) ==
    /\ StackPages(n)
    /\ Len(stack) <= Entries * n
    /\ Cardinality(Extra(n)) + Len(stack) + n + Len(pool) <= Len(ram)

LEMMA SubsetPlus ==
  ASSUME NEW A, NEW B, NEW C, IsFiniteSet(A), IsFiniteSet(B), C \subseteq A \cup B
  PROVE  /\ IsFiniteSet(C) /\ Cardinality(C) \in Nat
         /\ Cardinality(C) <= Cardinality(A) + Cardinality(B)
<1>1. IsFiniteSet(A \cup B)
      /\ Cardinality(A \cup B) = Cardinality(A) + Cardinality(B) - Cardinality(A \cap B)
  BY FS_Union
<1>2. IsFiniteSet(A \cap B)
  <2>1. A \cap B \in SUBSET A
    OBVIOUS
  <2> QED BY <2>1, FS_Subset
<1>3. IsFiniteSet(C) /\ Cardinality(C) <= Cardinality(A \cup B)
  <2>1. C \in SUBSET (A \cup B)
    OBVIOUS
  <2> QED BY <1>1, <2>1, FS_Subset
<1>4. Cardinality(A) \in Nat /\ Cardinality(B) \in Nat /\ Cardinality(C) \in Nat
      /\ Cardinality(A \cap B) \in Nat /\ Cardinality(A \cup B) \in Nat
  BY <1>1, <1>2, <1>3, FS_CardinalityType
<1> QED BY <1>1, <1>3, <1>4

LEMMA SubsetMinus ==
  ASSUME NEW A, NEW B, IsFiniteSet(A), B \subseteq A
  PROVE  /\ IsFiniteSet(A \ B)
         /\ Cardinality(A \ B) = Cardinality(A) - Cardinality(B)
<1>1. IsFiniteSet(A \ B)
      /\ Cardinality(A \ B) = Cardinality(A) - Cardinality(A \cap B)
  BY FS_Difference
<1>2. A \cap B = B
  OBVIOUS
<1> QED BY <1>1, <1>2

LEMMA ExtraFinite ==
  ASSUME NEW n
  PROVE  /\ IsFiniteSet(Present)
         /\ IsFiniteSet(Extra(n)) /\ Cardinality(Extra(n)) \in Nat
<1>1. Present \in SUBSET Slots
  BY DEF Present
<1>2. IsFiniteSet(Present)
  BY <1>1, SlotsFinite, FS_Subset
<1>3. Extra(n) \in SUBSET Present
  BY DEF Extra
<1> QED BY <1>2, <1>3, FS_Subset, FS_CardinalityType

\* MapPage fills as many entries as it takes frames.
LEMMA FilledCard ==
  ASSUME NEW v \in Page, NEW a \in 0..4, NEW b \in 0..4, a <= b
  PROVE  LET S == {Walk(v)[x] : x \in (a + 1)..b}
         IN  IsFiniteSet(S) /\ Cardinality(S) = b - a
<1> DEFINE S == {Walk(v)[x] : x \in (a + 1)..b}
           D == (a + 1)..b
           f == [x \in D |-> Walk(v)[x]]
<1>1. IsFiniteSet(D) /\ Cardinality(D) = b - a
  <2>1. a + 1 \in Int /\ b \in Int /\ b - (a + 1) + 1 = b - a
    OBVIOUS
  <2>2. IsFiniteSet((a + 1)..b)
        /\ Cardinality((a + 1)..b) = IF a + 1 > b THEN 0 ELSE b - (a + 1) + 1
    BY <2>1, FS_Interval
  <2>3. (IF a + 1 > b THEN 0 ELSE b - (a + 1) + 1) = b - a
    BY <2>1
  <2> QED BY <2>2, <2>3
<1>2. \A x \in D : x \in 1..4 /\ Walk(v)[x][1] = x
  BY WalkSlot
<1>3. \A s \in S : \E x \in D : s = f[x]
  OBVIOUS
<1>4. \A x \in D : f[x] = Walk(v)[x] /\ f[x] \in S
  OBVIOUS
<1>5. f \in [D -> S]
  BY <1>4
<1> HIDE DEF f, D, S
<1>6. f \in Surjection(D, S)
  BY <1>3, <1>5 DEF Surjection
<1>7. f \in Injection(D, S)
  BY <1>2, <1>4, <1>5 DEF Injection, IsInjective
<1>8. IsFiniteSet(S) /\ Cardinality(S) = Cardinality(D)
  BY <1>1, <1>6, <1>7, FS_Surjection
<1> QED BY <1>1, <1>8 DEF S

\* The frames that MapPage takes are in entries that are new.
LEMMA MapPageExtra ==
  ASSUME TypeOK, TreeInv, NEW v \in Page, NEW flags, IsFlags(flags),
         NEW src \in Seq(Nat), pte' = MapPage(pte, v, flags, src).pte, NEW n \in Nat
  PROVE  /\ Missing(pte, v) - LastFilled(pte, v, Len(src)) \in 0..4
         /\ Cardinality(Extra(n)') <= Cardinality(Extra(n))
                + (Missing(pte, v) - LastFilled(pte, v, Len(src)))
         /\ v = KernelEnd + n =>
               Cardinality(Extra(n + 1)') <= Cardinality(Extra(n))
         /\ Missing(pte, v) = LastFilled(pte, v, Len(src)) => Present' = Present
<1> DEFINE top  == Missing(pte, v)
           last == LastFilled(pte, v, Len(src))
           new  == Filled(pte, v, Len(src))
           qt   == MapPage(pte, v, flags, src).pte
<1>1. Grows(pte, qt, v, last, top, new)
  BY MapPageGrows DEF TypeOK, TreeInv
<1>2. /\ top \in 0..4 /\ last \in 0..top /\ PresentIn(qt) = PresentIn(pte) \cup new
  BY <1>1 DEF Grows
<1>3. Present' = Present \cup new
  <2> HIDE DEF top, last, new
  <2> QED BY <1>2, PresentDef DEF Present, PresentIn
<1>4. IsFiniteSet(new) /\ Cardinality(new) = top - last /\ top - last \in 0..4
  <2>1. last \in 0..4 /\ last <= top /\ top - last \in 0..4
    BY <1>2
  <2>2. new = {Walk(v)[x] : x \in (last + 1)..top}
    BY DEF Filled
  <2> HIDE DEF new, last, top
  <2> QED BY <1>2, <2>1, <2>2, FilledCard
<1>5. v = KernelEnd + n => new \subseteq StackSlots(n + 1)
  <2> SUFFICES ASSUME v = KernelEnd + n, NEW x \in (last + 1)..top
               PROVE  Walk(v)[x] \in StackSlots(n + 1)
    BY DEF Filled
  <2>1. x \in 1..4 /\ n \in 0..((n + 1) - 1)
    BY <1>2
  <2> QED BY <2>1 DEF StackSlots
<1> HIDE DEF new, last, top
<1>6. IsFiniteSet(Extra(n)) /\ Cardinality(Extra(n)) \in Nat
  BY ExtraFinite
<1>7. Extra(n)' \subseteq Extra(n) \cup new
  BY <1>3 DEF Extra
<1>8. Cardinality(Extra(n)') <= Cardinality(Extra(n)) + Cardinality(new)
  BY <1>4, <1>6, <1>7, SubsetPlus
<1>9. v = KernelEnd + n => Cardinality(Extra(n + 1)') <= Cardinality(Extra(n))
  <2> SUFFICES ASSUME v = KernelEnd + n
               PROVE  Cardinality(Extra(n + 1)') <= Cardinality(Extra(n))
    OBVIOUS
  <2>1. StackSlots(n) \subseteq StackSlots(n + 1)
    <3>1. \A k \in 0..(n - 1) : k \in 0..((n + 1) - 1)
      OBVIOUS
    <3> QED BY <3>1 DEF StackSlots
  <2>2. Extra(n + 1)' \in SUBSET Extra(n)
    BY <1>3, <1>5, <2>1 DEF Extra
  <2> QED BY <1>6, <2>2, FS_Subset
<1>10. top = last => Present' = Present
  <2>1. top = last => new = {}
    BY <1>2 DEF Filled, new, top, last
  <2> QED BY <1>3, <2>1
<1> QED BY <1>4, <1>8, <1>9, <1>10 DEF top, last

\* The only page that MapPage maps is the one it is asked for.
LEMMA MapPageNew ==
  ASSUME TypeOK, TreeInv, ~ stuck, NEW v \in Page, NEW flags, IsFlags(flags),
         NEW src \in Seq(Nat), pte' = MapPage(pte, v, flags, src).pte
  PROVE  /\ Present \subseteq Present'
         /\ \A u \in Page : <<1, u>> \in Present' =>
               \/ <<1, u>> \in Present
               \/ u = v /\ LastFilled(pte, v, Len(src)) = 0
<1> DEFINE qt == MapPage(pte, v, flags, src).pte
           last == LastFilled(pte, v, Len(src))
<1>1. pte \in [Slots -> Entry] /\ Rooted(pte) /\ Counted(pte)
  BY DEF TypeOK, TreeInv
<1>2. /\ PresentIn(pte) \subseteq PresentIn(qt)
      /\ \A u \in Page : <<1, u>> \in PresentIn(qt) \ PresentIn(pte) =>
            u = v /\ last = 0 /\ qt[<<1, u>>].write = flags.write
  BY <1>1, MapPageTree
<1> HIDE DEF qt, last
<1>3. Present' = PresentIn(qt)
  BY DEF Present, PresentIn, qt
<1>4. /\ Present \subseteq Present'
      /\ \A u \in Page : <<1, u>> \in Present' =>
               <<1, u>> \in Present \/ (u = v /\ last = 0)
  BY <1>2, <1>3, PresentDef
<1> QED BY <1>4 DEF last

\* The page that the stack grows into, with n pages in use.
LEMMA StackDiv ==
  ASSUME NEW n \in Nat, NEW i \in Nat
  PROVE  /\ i \div Entries \in Nat
         /\ i < Entries * n => i \div Entries \in 0..(n - 1)
         /\ StackPage(Entries * n) = KernelEnd + n
         /\ Entries * n \in Nat
<1>1. Entries \in Nat /\ Entries > 1 /\ Entries * n \in Nat
  BY KernelAssumption
<1>2. i \div Entries \in Nat /\ (i < Entries * n => i \div Entries < n)
  BY DivLess
<1>3. (Entries * n) \div Entries = n
  BY <1>1, DivLess
<1> QED BY <1>1, <1>2, <1>3 DEF StackPage

\* One round of Initialize's loop: either the stack has room, or it gets a new
\* page, or the memory map has ended.
PushCases(n, m) ==
    \/ /\ Len(stack) < Entries * n /\ m = n
       /\ Present' = Present /\ stack' = Append(stack, Head(pool))
       /\ enomem' = enomem
    \/ /\ Len(stack) = Entries * n /\ m = n + 1
       /\ stack' = Append(stack, Head(pool))
       /\ Cardinality(Extra(m)') <= Cardinality(Extra(n))
       /\ enomem' = enomem
    \/ /\ Len(stack) = Entries * n /\ m = n
       /\ stack' = stack /\ pool' = << >>
       /\ Cardinality(Extra(m)') <= Cardinality(Extra(n)) + 3
       /\ enomem' = TRUE

LEMMA PushShape ==
  ASSUME TypeOK, RamBound, TreeInv, NEW n \in Nat, StackShape(n), PushMapFrame
  PROVE  \E m \in Nat : StackShape(m)' /\ PushCases(n, m)
<1> DEFINE v == StackPage(Len(stack))
           src == Tail(pool)
           top == Missing(pte, v)
           last == LastFilled(pte, v, Len(src))
           mp == MapPage(pte, v, StackFlags, src)
           k == Len(stack) \div Entries
<1>1. /\ v \in Page \ ClientPages /\ v \in Page
      /\ pte \in [Slots -> Entry] /\ IsFlags(StackFlags)
      /\ src \in Seq(Nat) /\ Len(src) \in Nat /\ Len(pool) = Len(src) + 1
      /\ Head(pool) \in Nat /\ stack \in Seq(Nat) /\ Len(stack) \in Nat
      /\ Len(ram) \in Nat
  BY StackPageType DEF PushMapFrame, TypeOK, IsFlags, StackFlags
<1>2. /\ pte' = mp.pte
      /\ pool' = SubSeq(src, mp.taken + 1, Len(src))
      /\ stack' = IF mp.ok THEN Append(stack, Head(pool)) ELSE stack
      /\ enomem' = (enomem \/ ~ mp.ok)
      /\ ram' = ram
  BY DEF PushMapFrame
<1>3. v = KernelEnd + k
  BY DEF StackPage
<1>4. Rooted(pte) /\ Counted(pte) /\ ~ stuck
  BY DEF TreeInv, PushMapFrame
<1> HIDE DEF v, src, k
<1>5. /\ mp.taken = top - last /\ mp.taken \in 0..4 /\ mp.taken <= Len(src)
      /\ mp.ok <=> last = 0
  <2>1. mp.ok <=> last = 0
    BY <1>1, MapPageType
  <2> QED BY <1>1, <2>1, MapPageResult
<1>6. /\ top - last \in 0..4
      /\ Cardinality(Extra(n)') <= Cardinality(Extra(n)) + (top - last)
      /\ v = KernelEnd + n => Cardinality(Extra(n + 1)') <= Cardinality(Extra(n))
      /\ top = last => Present' = Present
  BY <1>1, <1>2, MapPageExtra
<1>7. /\ Present \subseteq Present'
      /\ \A u \in Page : <<1, u>> \in Present' => <<1, u>> \in Present \/ (u = v /\ last = 0)
  BY <1>1, <1>2, <1>4, MapPageNew
<1>8. last = 0 => <<1, v>> \in Present'
  <2> SUFFICES ASSUME last = 0 PROVE <<1, v>> \in Present'
    OBVIOUS
  <2>1. 1 \in 1..4
    OBVIOUS
  <2>2. mp.pte[Walk(v)[1]].present
    BY <1>1, <2>1, MapPageOk
  <2>3. Walk(v)[1] \in Slots
    BY <1>1, <2>1, WalkSlot
  <2> HIDE DEF mp
  <2> QED BY <1>2, <2>2, <2>3, FirstSlot DEF Present
<1>9. <<1, v>> \in Present => top = 0
  <2> SUFFICES ASSUME <<1, v>> \in Present, top # 0 PROVE FALSE
    OBVIOUS
  <2>1. top \in 0..4
    BY MissingDef
  <2>2. top \in 1..4 /\ 1 \in 1..4 /\ top > 0
    BY <2>1
  <2>3. Walk(v)[1] \in PresentIn(pte)
    BY PresentDef, FirstSlot
  <2>4. Walk(v)[top] \in PresentIn(pte)
    BY <1>1, <1>4, <2>2, <2>3, WalkUp
  <2> QED BY <2>2, <2>4, MissingDef DEF PresentIn
<1>10. top \in 0..4 /\ last \in 0..top
       /\ (last # 0 => top - last = Len(src))
  <2>1. top \in 0..4
    BY MissingDef
  <2> HIDE DEF top
  <2> QED BY <1>1, <2>1, SMTT(30) DEF LastFilled, top
<1> HIDE DEF top, last
<1> DEFINE taken == mp.taken
           ok == mp.ok
<1>11. /\ pool' \in Seq(Nat) /\ Len(pool') = Len(src) - taken
       /\ taken \in Nat /\ taken = top - last
       /\ (last = 0 => ok) /\ (last # 0 => ~ ok)
       /\ stack' = IF ok THEN Append(stack, Head(pool)) ELSE stack
       /\ enomem' = (enomem \/ ~ ok)
  <2>1. taken \in 0..Len(src)
    BY <1>1, <1>5
  <2> HIDE DEF mp
  <2> QED BY <1>1, <1>2, <1>5, <2>1, DropSeq
<1> HIDE DEF mp, taken, ok
<1>12. last = 0 => stack' = Append(stack, Head(pool)) /\ Len(stack') = Len(stack) + 1
                   /\ enomem' = enomem
  <2> SUFFICES ASSUME last = 0
               PROVE  /\ stack' = Append(stack, Head(pool))
                      /\ Len(stack') = Len(stack) + 1
                      /\ enomem' = enomem
    OBVIOUS
  <2>1. ok
    BY <1>11
  <2>2. stack' = Append(stack, Head(pool))
    BY <1>11, <2>1
  <2>3. enomem' = enomem
    BY <1>11, <2>1 DEF TypeOK
  <2> QED BY <1>1, <2>2, <2>3
<1>13. last # 0 => stack' = stack /\ enomem' = TRUE
  BY <1>11
<1>14. /\ StackPages(n) /\ Len(stack) <= Entries * n
       /\ Cardinality(Extra(n)) + Len(stack) + n + Len(pool) <= Len(ram)
  BY DEF StackShape
<1>15. /\ Cardinality(Extra(n)) \in Nat
       /\ Cardinality(Extra(n)') \in Nat
       /\ Cardinality(Extra(n + 1)') \in Nat
  <2>1. \A j : Cardinality(Extra(j)) \in Nat
    BY ExtraFinite
  <2>2. \A j : Cardinality(Extra(j)') \in Nat
    <3> SUFFICES ASSUME NEW j PROVE Cardinality(Extra(j)') \in Nat
      OBVIOUS
    <3>1. Extra(j)' \in SUBSET Slots
      BY DEF Extra, Present
    <3> QED BY <3>1, SlotsFinite, FS_Subset, FS_CardinalityType
  <2> QED BY <2>1, <2>2
<1>16. /\ Entries \in Nat /\ Entries > 1 /\ Entries * n \in Nat
       /\ Entries * (n + 1) = Entries * n + Entries
       /\ KernelEnd \in Nat
       /\ Len(stack) < Entries * n => k \in 0..(n - 1)
       /\ Len(stack) = Entries * n => k = n
  <2>1. Entries \in Nat /\ Entries > 1
    BY KernelAssumption
  <2>2. Entries * n \in Nat /\ Entries * (n + 1) = Entries * n + Entries
    BY <2>1
  <2>3. Len(stack) < Entries * n => k \in 0..(n - 1)
    BY <1>1, StackDiv DEF k
  <2>4. Len(stack) = Entries * n => k = n
    BY <1>1, DivLess DEF k
  <2> QED BY <2>1, <2>2, <2>3, <2>4, KernelEndType
<1> DEFINE x  == Cardinality(Extra(n))
           y0 == Cardinality(Extra(n)')
           y1 == Cardinality(Extra(n + 1)')
           l  == Len(stack)
           s  == Len(src)
           q  == Len(pool')
           r  == Len(ram)
<1>20. /\ x \in Nat /\ y0 \in Nat /\ y1 \in Nat /\ l \in Nat /\ s \in Nat /\ r \in Nat
       /\ q = s - taken /\ taken \in Nat /\ x + l + n + (s + 1) <= r
       /\ Len(ram') = r
  BY <1>1, <1>2, <1>11, <1>14, <1>15
<1>17. CASE Len(stack) < Entries * n
  <2>1. <<1, v>> \in Present
    BY <1>3, <1>14, <1>16, <1>17 DEF StackPages
  <2>2. top = 0 /\ last = 0 /\ Present' = Present /\ taken = 0
    BY <1>6, <1>9, <1>10, <1>11, <2>1
  <2>3. Extra(n)' = Extra(n) /\ StackPages(n)'
    BY <1>14, <2>2 DEF Extra, StackPages
  <2>4. Cardinality(Extra(n)') = Cardinality(Extra(n))
    BY <2>3
  <2>5. Len(stack') <= Entries * n
    BY <1>1, <1>12, <1>16, <1>17, <2>2
  <2>6. Cardinality(Extra(n)') + Len(stack') + n + Len(pool') <= Len(ram')
    <3>1. Len(stack') = Len(stack) + 1
      BY <1>12, <2>2
    <3>2. y0 = x /\ taken = 0
      BY <2>2, <2>4
    <3> HIDE DEF x, y0, l, s, q, r
    <3>3. y0 + (l + 1) + n + q <= r
      BY <1>20, <3>2
    <3> QED BY <1>20, <3>1, <3>3 DEF y0, l, q
  <2>7. StackShape(n)'
    BY <2>3, <2>5, <2>6 DEF StackShape
  <2>8. PushCases(n, n)
    BY <1>12, <1>17, <2>2 DEF PushCases
  <2> QED BY <2>7, <2>8
<1>18. CASE Len(stack) = Entries * n /\ last = 0
  <2>1. v = KernelEnd + n
    BY <1>3, <1>16, <1>18
  <2>2. <<1, v>> \notin Present
    BY <1>1, <1>14, <1>16, <2>1 DEF StackPages
  <2>3. taken >= 1
    BY <1>6, <1>8, <1>11, <1>18, <2>2
  <2>4. StackPages(n + 1)'
    <3>1. ASSUME NEW j \in 0..((n + 1) - 1)
          PROVE  KernelEnd + j \in Page \ ClientPages /\ <<1, KernelEnd + j>> \in Present'
      <4>1. CASE j = n
        BY <1>1, <1>8, <1>18, <2>1, <4>1
      <4>2. CASE j # n
        <5>1. j \in 0..(n - 1)
          BY <4>2
        <5> QED BY <1>7, <1>14, <5>1 DEF StackPages
      <4> QED BY <4>1, <4>2
    <3>2. ASSUME NEW u \in Page \ ClientPages, u >= KernelEnd + (n + 1)
          PROVE  <<1, u>> \notin Present'
      <4>1. u \in Nat /\ u >= KernelEnd + n /\ u # v
        BY <1>16, <2>1, <3>2, PageAssumption
      <4> QED BY <1>7, <1>14, <4>1 DEF StackPages
    <3> QED BY <3>1, <3>2 DEF StackPages
  <2>5. Len(stack') <= Entries * (n + 1)
    BY <1>1, <1>12, <1>16, <1>18
  <2>6. Cardinality(Extra(n + 1)') + Len(stack') + (n + 1) + Len(pool') <= Len(ram')
    <3>1. Len(stack') = Len(stack) + 1
          /\ Cardinality(Extra(n + 1)') <= Cardinality(Extra(n))
      BY <1>6, <1>12, <1>18, <2>1
    <3>2. y1 <= x
      BY <3>1
    <3> HIDE DEF x, y1, l, s, q, r
    <3>3. y1 + (l + 1) + (n + 1) + q <= r
      BY <1>20, <2>3, <3>2
    <3> QED BY <1>20, <3>1, <3>3 DEF y1, l, q
  <2>7. StackShape(n + 1)'
    BY <2>4, <2>5, <2>6 DEF StackShape
  <2>8. PushCases(n, n + 1)
    BY <1>6, <1>12, <1>18, <2>1 DEF PushCases
  <2>9. n + 1 \in Nat
    OBVIOUS
  <2> QED BY <2>7, <2>8, <2>9
<1>19. CASE last # 0
  <2>1. ~ (Len(stack) < Entries * n)
    <3> SUFFICES ASSUME Len(stack) < Entries * n PROVE FALSE
      OBVIOUS
    <3>1. <<1, v>> \in Present
      BY <1>3, <1>14, <1>16 DEF StackPages
    <3> QED BY <1>9, <1>10, <1>19, <3>1
  <2>2. Len(stack) = Entries * n
    BY <1>1, <1>14, <1>16, <2>1
  <2>3. taken = Len(src) /\ taken <= 3
    BY <1>10, <1>11, <1>19
  <2>4. pool' = << >>
    BY <1>1, <1>11, <2>3
  <2>5. StackPages(n)'
    BY <1>7, <1>14, <1>19 DEF StackPages
  <2>6. Cardinality(Extra(n)') <= Cardinality(Extra(n)) + 3
    BY <1>6, <1>11, <1>15, <2>3
  <2>7. Cardinality(Extra(n)') + Len(stack') + n + Len(pool') <= Len(ram')
    <3>1. stack' = stack /\ Cardinality(Extra(n)') <= Cardinality(Extra(n)) + taken
      BY <1>6, <1>11, <1>13, <1>19
    <3>2. y0 <= x + taken
      BY <3>1
    <3> HIDE DEF x, y0, l, s, q, r
    <3>3. y0 + l + n + q <= r
      BY <1>20, <3>2
    <3> QED BY <1>20, <3>1, <3>3 DEF y0, l, q
  <2>8. StackShape(n)'
    BY <1>13, <1>14, <1>19, <2>5, <2>7 DEF StackShape
  <2>9. PushCases(n, n)
    BY <1>13, <1>19, <2>2, <2>4, <2>6 DEF PushCases
  <2> QED BY <2>8, <2>9
<1> QED BY <1>1, <1>14, <1>16, <1>17, <1>18, <1>19

\* A step that moves frames between the stack and entries that are no part of
\* the stack's pages.
LEMMA ShapeKept ==
  ASSUME TypeOK, NEW n \in Nat, StackShape(n), StackPages(n)', stack' \in Seq(Nat),
         Len(stack') <= Entries * n, pool' = pool, ram' = ram,
         Cardinality(Extra(n)') + Len(stack') <= Cardinality(Extra(n)) + Len(stack),
         Cardinality(Extra(n)') \in Nat
  PROVE  StackShape(n)'
<1> DEFINE x == Cardinality(Extra(n))
           y == Cardinality(Extra(n)')
           l == Len(stack)
           k == Len(stack')
           q == Len(pool)
           r == Len(ram)
<1>1. /\ x \in Nat /\ y \in Nat /\ l \in Nat /\ k \in Nat /\ q \in Nat /\ r \in Nat
      /\ x + l + n + q <= r /\ y + k <= x + l
  BY ExtraFinite DEF TypeOK, StackShape
<1>2. Len(pool') = q /\ Len(ram') = r
  OBVIOUS
<1> HIDE DEF x, y, l, k, q, r
<1>3. y + k + n + q <= r
  BY <1>1
<1> QED BY <1>2, <1>3 DEF StackShape, y, k

LEMMA ExtraNext == \A n : Cardinality(Extra(n)') \in Nat
<1> SUFFICES ASSUME NEW n PROVE Cardinality(Extra(n)') \in Nat
  OBVIOUS
<1>1. Extra(n)' \in SUBSET Slots
  BY DEF Extra, Present
<1> QED BY <1>1, SlotsFinite, FS_Subset, FS_CardinalityType

LEMMA AllocateShape ==
  ASSUME TypeOK, TreeInv, NEW n \in Nat, StackShape(n),
         NEW v \in ClientPages, NEW r \in Requests, Allocate(v, r)
  PROVE  /\ StackShape(n)'
         /\ Cardinality(Extra(n)') + Len(stack') <= Cardinality(Extra(n)) + Len(stack)
<1> DEFINE flags == AllocateFlags(r)
           mp == MapPage(pte, v, flags, Pops)
           top == Missing(pte, v)
           last == LastFilled(pte, v, Len(Pops))
           taken == mp.taken
           x == Cardinality(Extra(n))
           y == Cardinality(Extra(n)')
           l == Len(stack)
<1>1. v \in Page /\ r \in Request /\ pte \in [Slots -> Entry]
  BY PageAssumption DEF TypeOK
<1>2. Pops \in Seq(Nat) /\ Len(Pops) = l /\ stack \in Seq(Nat) /\ l \in Nat
  BY PopsSeq DEF TypeOK
<1>3. IsFlags(flags)
  BY <1>1 DEF IsFlags, AllocateFlags, Request
<1>4. /\ pte' = mp.pte /\ pool' = pool /\ ram' = ram /\ ~ stuck
      /\ stack' = SubSeq(stack, 1, l - taken)
  BY DEF Allocate
<1> HIDE DEF flags
<1>5. taken = top - last /\ taken \in 0..4 /\ taken <= l
  BY <1>1, <1>2, <1>3, MapPageResult
<1>6. y <= x + (top - last)
  BY <1>1, <1>2, <1>3, <1>4, MapPageExtra
<1>7. /\ Present \subseteq Present'
      /\ \A u \in Page : <<1, u>> \in Present' => <<1, u>> \in Present \/ u = v
  BY <1>1, <1>2, <1>3, <1>4, MapPageNew
<1> HIDE DEF mp, top, last, taken
<1>8. l - taken \in 0..l
  BY <1>2, <1>5
<1>9. stack' \in Seq(Nat) /\ Len(stack') = l - taken
  <2>1. l - taken \in 0..Len(stack)
    BY <1>8
  <2> HIDE DEF l
  <2> QED BY <1>2, <1>4, <2>1, TakeSeq
<1>10. StackPages(n) /\ l <= Entries * n /\ Entries * n \in Nat
  BY StackDiv DEF StackShape
<1>11. StackPages(n)'
  BY <1>7, <1>10 DEF StackPages
<1>12. x \in Nat /\ y \in Nat
  BY ExtraFinite, ExtraNext
<1> HIDE DEF x, y, l
<1>13. y + (l - taken) <= x + l /\ l - taken <= Entries * n
  BY SMTT(30), <1>2, <1>5, <1>6, <1>10, <1>12
<1>14. Cardinality(Extra(n)') + Len(stack') <= Cardinality(Extra(n)) + Len(stack)
       /\ Len(stack') <= Entries * n /\ Cardinality(Extra(n)') \in Nat
  BY <1>9, <1>12, <1>13 DEF x, y, l
<1>15. StackShape(n)'
  BY <1>4, <1>9, <1>11, <1>14, ShapeKept
<1> QED BY <1>14, <1>15

LEMMA AllocateFaultsOnTableShape ==
  ASSUME TypeOK, TreeInv, NEW n \in Nat, StackShape(n),
         NEW v \in ClientPages, NEW r \in Requests, AllocateFaultsOnTable(v, r)
  PROVE  /\ StackShape(n)'
         /\ Cardinality(Extra(n)') + Len(stack') <= Cardinality(Extra(n)) + Len(stack)
<1> DEFINE s0 == Walk(v)[Missing(pte, v)]
           x == Cardinality(Extra(n))
           y == Cardinality(Extra(n)')
           l == Len(stack)
<1>1. v \in Page
  BY PageAssumption
<1>2. Missing(pte, v) \in 2..4
  <2>1. Missing(pte, v) \in 0..4 /\ ~ (Missing(pte, v) < 2)
    BY MissingDef DEF AllocateFaultsOnTable, CanZeroTable
  <2> QED BY <2>1
<1>3. s0 \in Slots /\ s0[1] \in 2..4
  <2>1. Missing(pte, v) \in 1..4
    BY <1>2
  <2> QED BY <1>1, <1>2, <2>1, WalkSlot
<1>4. /\ stack \in Seq(Nat) /\ l \in Nat /\ l > 0
      /\ stack' = SubSeq(stack, 1, l - 1) /\ pool' = pool /\ ram' = ram
      /\ pte' = [pte EXCEPT ![s0] =
                   [NotPresent EXCEPT !.present = TRUE, !.frame = Head(Pops),
                                      !.user = r.user]]
  BY DEF TypeOK, AllocateFaultsOnTable, CanZeroTable
<1> HIDE DEF s0
<1>5. Present' = Present \cup {s0}
  BY <1>3, <1>4 DEF Present, TypeOK, NotPresent
<1>6. stack' \in Seq(Nat) /\ Len(stack') = l - 1
  <2>1. l - 1 \in 0..Len(stack)
    BY <1>4
  <2> HIDE DEF l
  <2> QED BY <1>4, <2>1, TakeSeq
<1>7. y <= x + 1
  <2>1. IsFiniteSet({s0}) /\ Cardinality({s0}) = 1
    BY FS_Singleton
  <2>2. IsFiniteSet(Extra(n)) /\ Extra(n)' \subseteq Extra(n) \cup {s0}
    BY <1>5, ExtraFinite DEF Extra
  <2>3. Cardinality(Extra(n)') <= Cardinality(Extra(n)) + Cardinality({s0})
    BY <2>1, <2>2, SubsetPlus
  <2> QED BY <2>1, <2>3
<1>8. StackPages(n) /\ l <= Entries * n /\ Entries * n \in Nat
  BY StackDiv DEF StackShape
<1>9. StackPages(n)'
  <2>1. \A u : <<1, u>> # s0
    BY <1>3
  <2> QED BY <1>5, <1>8, <2>1 DEF StackPages
<1>10. x \in Nat /\ y \in Nat
  BY ExtraFinite, ExtraNext
<1> HIDE DEF x, y, l
<1>11. y + (l - 1) <= x + l /\ l - 1 <= Entries * n
  BY <1>4, <1>7, <1>8, <1>10
<1>12. Cardinality(Extra(n)') + Len(stack') <= Cardinality(Extra(n)) + Len(stack)
       /\ Len(stack') <= Entries * n /\ Cardinality(Extra(n)') \in Nat
  BY <1>6, <1>10, <1>11 DEF x, y, l
<1>13. StackShape(n)'
  BY <1>4, <1>6, <1>9, <1>12, ShapeKept
<1> QED BY <1>12, <1>13

\* The entries that Free clears are none of the stack's or the kernel's.
LEMMA GoneExtra ==
  ASSUME TypeOK, TreeInv, NEW n \in Nat, StackPages(n),
         NEW v \in ClientPages, Free(v)
  PROVE  /\ Present' = Present \ Gone(v)
         /\ Gone(v) \subseteq Extra(n)
         /\ Extra(n)' = Extra(n) \ Gone(v)
         /\ IsFiniteSet(Gone(v)) /\ Cardinality(Gone(v)) = Cleared(v)
         /\ StackPages(n)'
<1>1. v \in Page /\ v \notin KernelPage /\ Cleared(v) \in 1..4
  BY PageAssumption, ClearedDef
<1>2. pte' = Unmapped(v) /\ Missing(pte, v) = 0
  BY DEF Free
<1>3. TreeInv'
  BY FreeTree
<1>4. /\ PresentIn(Unmapped(v)) = Present \ Gone(v)
      /\ \A s \in Slots : s \in Gone(v) <=> s = Walk(v)[s[1]] /\ s[1] <= Cleared(v)
  BY <1>1, UnmappedPresent
<1>5. Present' = Present \ Gone(v) /\ PresentIn(pte') = Present'
  BY <1>2, <1>4 DEF Present, PresentIn
<1>6. Gone(v) \subseteq Present
  <2> SUFFICES ASSUME NEW x \in 1..Cleared(v) PROVE Walk(v)[x] \in Present
    BY DEF Gone
  <2>1. x \in 1..4
    BY <1>1
  <2> QED BY <1>1, <1>2, <2>1, WalkPresent
<1>7. \A u \in Page : <<1, u>> \in Present /\ u # v => <<1, u>> \in Present'
  <2> SUFFICES ASSUME NEW u \in Page, <<1, u>> \in Gone(v) PROVE u = v
    BY <1>5
  <2>1. <<1, u>> \in Slots
    BY FirstSlot, WalkSlot
  <2>2. <<1, u>> = Walk(v)[1]
    BY <1>4, <2>1
  <2> QED BY <2>2, FirstSlot
<1>8. KernelSlots \subseteq Present'
  BY <1>3 DEF TreeInv
<1>9. ASSUME NEW k \in 0..(n - 1)
      PROVE  /\ KernelEnd + k \in Page \ ClientPages
             /\ <<1, KernelEnd + k>> \in Present'
  BY <1>7 DEF StackPages
<1>10. StackSlots(n) \subseteq Present'
  <2> SUFFICES ASSUME NEW k \in 0..(n - 1), NEW x \in 1..4
               PROVE  Walk(KernelEnd + k)[x] \in Present'
    BY DEF StackSlots
  <2> DEFINE u == KernelEnd + k
  <2>1. u \in Page /\ <<1, u>> \in Present'
    BY <1>9
  <2>2. Rooted(pte')
    BY <1>3 DEF TreeInv
  <2> HIDE DEF u
  <2>3. Walk(u)[1] \in PresentIn(pte') /\ 1 \in 1..4 /\ x \in 1..4
    BY <1>5, <2>1, FirstSlot
  <2>4. Walk(u)[x] \in PresentIn(pte')
    BY <2>1, <2>2, <2>3, WalkUp
  <2> QED BY <1>5, <2>4 DEF u
<1>11. Gone(v) \subseteq Extra(n) /\ Extra(n)' = Extra(n) \ Gone(v)
  BY <1>5, <1>6, <1>8, <1>10 DEF Extra
<1>12. IsFiniteSet(Gone(v)) /\ Cardinality(Gone(v)) = Cleared(v)
  <2> DEFINE c == Cleared(v)
  <2>1. c \in 0..4 /\ 0 \in 0..4 /\ 0 <= c /\ 0 + 1 = 1 /\ c - 0 = c
    BY <1>1
  <2> HIDE DEF c
  <2> DEFINE S == {Walk(v)[x] : x \in (0 + 1)..c}
  <2>2. IsFiniteSet(S) /\ Cardinality(S) = c - 0
    BY <1>1, <2>1, FilledCard
  <2>3. S = Gone(v)
    BY <2>1 DEF Gone, c
  <2> QED BY <2>1, <2>2, <2>3 DEF c
<1>13. StackPages(n)'
  BY <1>5, <1>9 DEF StackPages
<1> QED BY <1>5, <1>11, <1>12, <1>13

\* Free fills the stack up to the last address of its pages at most.
LEMMA KeptBound ==
  ASSUME TypeOK, RamBound, NEW n \in Nat, StackShape(n), NEW c \in 0..4,
         c <= Cardinality(Extra(n))
  PROVE  /\ Kept(c) \in 0..c
         /\ Len(stack) + Kept(c) <= Entries * n
         /\ Kept(c) < c => Len(stack) + Kept(c) = Entries * n
<1> DEFINE k == Kept(c)
           l == Len(stack)
           t == Entries * n
           x == Cardinality(Extra(n))
           q == Len(pool)
           r == Len(ram)
<1>1. /\ k \in 0..c
      /\ \A i \in 1..k : StackMapped(l + i - 1)
      /\ k < c => ~ StackMapped(l + k)
  BY KeptDef DEF TypeOK
<1>2. /\ l \in Nat /\ q \in Nat /\ r \in Nat /\ x \in Nat /\ t \in Nat
      /\ l <= t /\ x + l + n + q <= r /\ c <= x
  <2>1. l \in Nat /\ q \in Nat /\ r \in Nat
    BY DEF TypeOK
  <2>2. x \in Nat
    BY ExtraFinite
  <2>3. t \in Nat
    BY KernelAssumption
  <2>4. l <= t /\ x + l + n + q <= r /\ c <= x
    BY DEF StackShape
  <2> QED BY <2>1, <2>2, <2>3, <2>4
<1>3. StackPages(n) /\ ram \in Maps
  BY DEF StackShape, RamBound
<1>4. ASSUME StackMapped(t), t < l + c PROVE FALSE
  <2>1. t \div Entries = n /\ StackPage(t) = KernelEnd + n
    BY <1>2, StackDiv, DivLess
  <2>2. t + n < r
    <3> HIDE DEF t, l, x, q, r
    <3> QED BY <1>2, <1>4
  <2>3. t \in 0..Len(ram) /\ t + t \div Entries < Len(ram)
    <3>1. t \in 0..r
      <4> HIDE DEF t, l, x, q, r
      <4> QED BY <1>2, <2>2
    <3>2. t + t \div Entries < r
      <4> HIDE DEF t, r
      <4> QED BY <2>1, <2>2
    <3> QED BY <3>1, <3>2
  <2>4. KernelEnd + t \div Entries \in Page \ ClientPages
    BY <1>3, <2>3, StackAssumption
  <2>5. KernelEnd + n \in Page \ ClientPages
    <3> HIDE DEF t
    <3> QED BY <2>1, <2>4
  <2>6. <<1, KernelEnd + n>> \notin Present
    BY <1>3, <2>5, KernelEndType DEF StackPages
  <2>7. Walk(KernelEnd + n)[1] \in Slots /\ Walk(KernelEnd + n)[1] = <<1, KernelEnd + n>>
    BY <2>5, WalkSlot, FirstSlot
  <2>8. pte[Walk(StackPage(t))[1]].present
    BY <1>4 DEF StackMapped
  <2> QED BY <2>1, <2>6, <2>7, <2>8 DEF Present
<1>5. ASSUME NEW i \in Nat, i < t PROVE StackMapped(i)
  <2>1. i \div Entries \in 0..(n - 1)
    BY <1>5, StackDiv
  <2>2. StackPage(i) \in Page /\ <<1, StackPage(i)>> \in Present
    BY <1>3, <2>1 DEF StackPages, StackPage
  <2> QED BY <2>2, FirstSlot DEF StackMapped, Present
<1> HIDE DEF k, l, t, x, q, r
<1>6. l + k <= t
  <2> SUFFICES ASSUME l + k > t PROVE FALSE
    BY <1>1, <1>2
  <2> DEFINE i == t - l + 1
  <2>1. i \in 1..k /\ l + i - 1 = t
    BY <1>1, <1>2
  <2>2. t < l + c
    BY <1>1, <1>2
  <2> HIDE DEF i
  <2>3. StackMapped(l + i - 1)
    BY <1>1, <2>1
  <2> QED BY <1>4, <2>1, <2>2, <2>3
<1>7. k < c => l + k = t
  <2> SUFFICES ASSUME k < c, l + k < t PROVE FALSE
    BY <1>1, <1>2, <1>6
  <2>1. l + k \in Nat
    BY <1>1, <1>2
  <2> QED BY <1>1, <1>5, <2>1
<1> QED BY <1>1, <1>6, <1>7 DEF k, l, t

LEMMA FreeShape ==
  ASSUME TypeOK, RamBound, TreeInv, NEW n \in Nat, StackShape(n),
         NEW v \in ClientPages, Free(v)
  PROVE  LET c == Cleared(v)
         IN  /\ StackShape(n)'
             /\ Cardinality(Extra(n)') = Cardinality(Extra(n)) - c
             /\ c <= Cardinality(Extra(n))
             /\ Kept(c) \in 0..c
             /\ Len(stack') = Len(stack) + Kept(c)
             /\ Kept(c) < c => Len(stack') = Entries * n
<1> DEFINE c == Cleared(v)
           k == Kept(c)
           x == Cardinality(Extra(n))
           y == Cardinality(Extra(n)')
           l == Len(stack)
           more == SubSeq(Freed(v), 1, k)
<1>1. v \in Page /\ c \in 1..4 /\ c \in 0..4
  BY PageAssumption, ClearedDef
<1>2. /\ Gone(v) \subseteq Extra(n) /\ Extra(n)' = Extra(n) \ Gone(v)
      /\ IsFiniteSet(Gone(v)) /\ Cardinality(Gone(v)) = c
      /\ StackPages(n)'
  BY GoneExtra DEF StackShape
<1>3. IsFiniteSet(Extra(n)) /\ x \in Nat /\ y \in Nat
  BY ExtraFinite, ExtraNext
<1>4. y = x - c
  BY <1>2, <1>3, SubsetMinus
<1>5. c <= x
  <2>1. Gone(v) \in SUBSET Extra(n)
    BY <1>2
  <2> QED BY <1>2, <1>3, <2>1, FS_Subset
<1> HIDE DEF c
<1>6. /\ k \in 0..c /\ l + k <= Entries * n
      /\ k < c => l + k = Entries * n
  BY <1>1, <1>5, KeptBound
<1>7. Freed(v) \in Seq(Nat) /\ Len(Freed(v)) = c
  BY <1>1, FreedSeq DEF c
<1>8. more \in Seq(Nat) /\ Len(more) = k
  BY <1>6, <1>7, TakeSeq
<1>9. stack' = stack \o more /\ pool' = pool /\ ram' = ram /\ stack \in Seq(Nat)
      /\ l \in Nat
  BY <1>7 DEF Free, TypeOK
<1>10. stack' \in Seq(Nat) /\ Len(stack') = l + k
  <2> HIDE DEF more, k
  <2> QED BY <1>8, <1>9, ConcatProperties
<1> HIDE DEF k, more, x, y, l
<1>11. y + (l + k) <= x + l
  BY <1>1, <1>3, <1>4, <1>6, <1>9
<1>12. Cardinality(Extra(n)') + Len(stack') <= Cardinality(Extra(n)) + Len(stack)
       /\ Len(stack') <= Entries * n /\ Cardinality(Extra(n)') \in Nat
  BY <1>3, <1>6, <1>10, <1>11 DEF x, y, l
<1>13. StackShape(n)'
  BY <1>2, <1>9, <1>10, <1>12, ShapeKept
<1> QED BY <1>4, <1>5, <1>6, <1>10, <1>13 DEF c, k, x, y, l

StackInv == \E n \in Nat : StackShape(n)

LEMMA InitShape == Init => StackShape(0) /\ Extra(0) = {}
<1> SUFFICES ASSUME Init PROVE StackShape(0) /\ Extra(0) = {}
  OBVIOUS
<1>1. /\ stack = << >> /\ pool = ram /\ ram \in Seq(Nat)
      /\ Len(stack) = 0 /\ Len(pool) = Len(ram) /\ Len(ram) \in Nat
  BY MapAssumption DEF Init
<1>2. Present \subseteq KernelSlots
  BY DEF Init, Present, NotPresent
<1>3. Extra(0) = {}
  BY <1>2 DEF Extra
<1>4. StackPages(0)
  <2>1. ASSUME NEW v \in Page \ ClientPages, v >= KernelEnd + 0
        PROVE  <<1, v>> \notin Present
    <3>1. v \notin KernelPage
      BY <2>1, KernelEndType, PageAssumption, KernelAssumption
    <3> QED BY <1>2, <3>1, KernelFirst
  <2> QED BY <2>1 DEF StackPages
<1>5. Len(stack) <= Entries * 0
      /\ Cardinality(Extra(0)) + Len(stack) + 0 + Len(pool) <= Len(ram)
  BY <1>1, <1>3, FS_EmptySet, KernelAssumption
<1> QED BY <1>3, <1>4, <1>5 DEF StackShape

LEMMA UnchangedShape ==
  ASSUME NEW n \in Nat, StackShape(n), pte' = pte, stack' = stack, pool' = pool, ram' = ram
  PROVE  StackShape(n)' /\ Extra(n)' = Extra(n) /\ Present' = Present
BY DEF StackShape, StackPages, Extra, Present

LEMMA NextStackInv ==
  TypeOK /\ RamBound /\ TreeInv /\ StackInv /\ [Next]_vars => StackInv'
<1> SUFFICES ASSUME TypeOK, RamBound, TreeInv, NEW n \in Nat, StackShape(n), [Next]_vars
             PROVE  \E m \in Nat : StackShape(m)'
  BY DEF StackInv
<1>1. CASE PushMapFrame
  BY <1>1, PushShape
<1>2. CASE EndInitialize
  BY <1>2, UnchangedShape DEF EndInitialize
<1>3. ASSUME NEW v \in ClientPages, NEW r \in Requests, Allocate(v, r)
      PROVE  \E m \in Nat : StackShape(m)'
  BY <1>3, AllocateShape
<1>4. ASSUME NEW v \in ClientPages, NEW r \in Requests,
             AllocateFaultsOnTable(v, r)
      PROVE  \E m \in Nat : StackShape(m)'
  BY <1>4, AllocateFaultsOnTableShape
<1>5. ASSUME NEW v \in ClientPages, AllocateFaults(v) \/ FreeFaults(v)
      PROVE  \E m \in Nat : StackShape(m)'
  BY <1>5, UnchangedShape DEF AllocateFaults, FreeFaults
<1>6. ASSUME NEW v \in ClientPages, Free(v)
      PROVE  \E m \in Nat : StackShape(m)'
  BY <1>6, FreeShape
<1>7. CASE UNCHANGED vars
  BY <1>7, UnchangedShape DEF vars
<1> QED BY <1>1, <1>2, <1>3, <1>4, <1>5, <1>6, <1>7 DEF Next

\* Every address of the frame stack is on a page that is mapped writable at
\* all four levels, whatever callers map and free in the meantime: no push and
\* no pop of a frame faults. Callers never get hold of the stack's tables, and
\* the stack never has more frames than its pages hold.
THEOREM StackStaysMapped == Spec => []StackIsMapped
<1>1. Spec => [](TypeOK /\ RamBound /\ TreeInv)
  BY TreeHolds
<1>2. Init => StackInv
  BY InitShape DEF StackInv
<1>3. TypeOK /\ TreeInv /\ StackInv => StackIsMapped
  <2> SUFFICES ASSUME TypeOK, TreeInv, NEW n \in Nat, StackShape(n),
                      NEW i \in 0..(Len(stack) - 1)
               PROVE  StackMapped(i) /\ \A x \in 1..4 : pte[Walk(StackPage(i))[x]].write
    BY DEF StackIsMapped, StackInv
  <2>1. i \in Nat /\ i < Entries * n
    <3>1. Len(stack) \in Nat /\ Entries * n \in Nat /\ Len(stack) <= Entries * n
      BY KernelAssumption DEF TypeOK, StackShape
    <3> QED BY <3>1
  <2>2. i \div Entries \in 0..(n - 1)
    BY <2>1, StackDiv
  <2> DEFINE u == StackPage(i)
  <2>3. u \in Page \ ClientPages /\ <<1, u>> \in Present /\ u \in Page
    BY <2>2 DEF StackShape, StackPages, StackPage
  <2>4. u \notin KernelPage
    BY <2>2, KernelEndType, KernelAssumption DEF StackPage
  <2> HIDE DEF u
  <2>5. pte[<<1, u>>].write
    BY <2>3, <2>4 DEF TreeInv, PagesWritable
  <2>6. ASSUME NEW x \in 1..3 PROVE pte[Walk(u)[x + 1]].write
    <3>1. x \in 1..4 /\ 1 \in 1..4 /\ x \in 1..4 /\ x < 4
      OBVIOUS
    <3>2. Walk(u)[x] \in PresentIn(pte)
      BY <2>3, <3>1, WalkUp, PresentDef, FirstSlot DEF TreeInv
    <3>3. Walk(u)[x] \in Present /\ Walk(u)[x][1] < 4
      BY <2>3, <3>1, <3>2, WalkSlot, PresentDef
    <3> QED BY <2>3, <3>3, WalkParent DEF TreeInv
  <2>7. \A x \in 1..4 : x = 1 \/ (x - 1 \in 1..3 /\ (x - 1) + 1 = x)
    OBVIOUS
  <2>8. \A x \in 1..4 : x = 1 \/ pte[Walk(u)[x]].write
    BY <2>6, <2>7
  <2>9. \A x \in 1..4 : pte[Walk(u)[x]].write
    BY <2>5, <2>8, FirstSlot
  <2>10. StackMapped(i)
    BY <2>3, FirstSlot DEF StackMapped, Present, u
  <2> QED BY <2>9, <2>10 DEF u
<1> QED BY <1>1, <1>2, <1>3, NextStackInv, PTL DEF Spec

-----------------------------------------------------------------------------
(***************************************************************************)
(* Frames that are lost. Every step is described by where each frame goes: *)
(* the converse of what the proof that frames are exclusive needs.         *)
(***************************************************************************)
Owned(f) == \/ \E i \in 1..Len(stack) : stack[i] = f
            \/ \E i \in 1..Len(pool) : pool[i] = f
            \/ \E s \in Present : pte[s].frame = f

LEMMA ToSetDef ==
  ASSUME NEW q \in Seq(Nat)
  PROVE  ToSet(q) = {q[i] : i \in 1..Len(q)}
<1>1. DOMAIN q = 1..Len(q)
  OBVIOUS
<1> QED BY <1>1, Zenon DEF ToSet

LEMMA UnownedDef ==
  ASSUME stack \in Seq(Nat), pool \in Seq(Nat)
  PROVE  Unowned = {f \in ToSet(ram) : ~ Owned(f)}
<1>1. /\ ToSet(stack) = {stack[i] : i \in 1..Len(stack)}
      /\ ToSet(pool) = {pool[i] : i \in 1..Len(pool)}
  BY ToSetDef
<1>2. ASSUME NEW f
      PROVE  Owned(f) <=> ~ (/\ f \notin ToSet(stack) \cup ToSet(pool)
                             /\ \A s \in Present : pte[s].frame # f)
  BY <1>1 DEF Owned
<1> QED BY <1>2 DEF Unowned

LEMMA UnownedFinite ==
  ASSUME ram \in Seq(Nat)
  PROVE  IsFiniteSet(Unowned) /\ Cardinality(Unowned) \in Nat
<1> DEFINE D == 1..Len(ram)
<1>1. IsFiniteSet(D)
  <2>1. 1 \in Int /\ Len(ram) \in Int
    OBVIOUS
  <2> QED BY <2>1, FS_Interval
<1>2. ToSet(ram) = {ram[i] : i \in D}
  BY ToSetDef
<1> DEFINE f == [i \in D |-> ram[i]]
<1>3. f \in Surjection(D, ToSet(ram))
  BY <1>2 DEF Surjection
<1> HIDE DEF f, D
<1>4. IsFiniteSet(ToSet(ram))
  BY <1>1, <1>3, FS_Surjection
<1>5. Unowned \in SUBSET ToSet(ram)
  BY DEF Unowned
<1> QED BY <1>4, <1>5, FS_Subset, FS_CardinalityType

\* No frame that an entry of pt holds is lost in qt, and entries of qt hold
\* the first k frames of src.
Holds(pt, qt) == \A s \in PresentIn(pt) : /\ s \in PresentIn(qt)
                                          /\ qt[s].frame = pt[s].frame

HoldsTaken(qt, k, src) ==
    \A i \in 1..k : \E s \in PresentIn(qt) : qt[s].frame = src[i]

\* MapPage loses no frame: what was held is held, and what it takes is held.
LEMMA MapPageHolds ==
  ASSUME NEW pt \in [Slots -> Entry], Rooted(pt), NEW v \in Page,
         NEW flags, IsFlags(flags), NEW src \in Seq(Nat)
  PROVE  LET m == MapPage(pt, v, flags, src)
         IN  Holds(pt, m.pte) /\ HoldsTaken(m.pte, m.taken, src)
<1> DEFINE m    == MapPage(pt, v, flags, src)
           top  == Missing(pt, v)
           last == LastFilled(pt, v, Len(src))
           new  == Filled(pt, v, Len(src))
           qt   == m.pte
<1>1. Grows(pt, qt, v, last, top, new)
  BY MapPageGrows
<1>2. /\ m.taken = top - last
      /\ \A s \in new : qt[s].frame = src[top - s[1] + 1]
  BY MapPageResult
<1> HIDE DEF m, top, last, new, qt
<1>3. /\ top \in 0..4 /\ last \in 0..top /\ PresentIn(qt) = PresentIn(pt) \cup new
      /\ \A s \in Slots : s \in new <=> s = Walk(v)[s[1]] /\ last < s[1] /\ s[1] <= top
      /\ \A s \in PresentIn(pt) : qt[s] = pt[s] \/ qt[s] = IncEntryCount(pt[s])
  BY <1>1 DEF Grows
<1>4. \A s \in PresentIn(pt) : s \in PresentIn(qt) /\ qt[s].frame = pt[s].frame
  <2> SUFFICES ASSUME NEW s \in PresentIn(pt)
               PROVE  s \in PresentIn(qt) /\ qt[s].frame = pt[s].frame
    OBVIOUS
  <2>1. pt[s] \in Entry
    BY DEF PresentIn
  <2> QED BY <1>3, <2>1, IncEntryCountType
<1>5. ASSUME NEW i \in 1..(top - last)
      PROVE  \E s \in PresentIn(qt) : qt[s].frame = src[i]
  <2> DEFINE x == top - i + 1
             s == Walk(v)[x]
  <2>1. x \in 1..4 /\ last < x /\ x <= top /\ top - x + 1 = i
    BY <1>3
  <2> HIDE DEF x
  <2>2. s \in Slots /\ s[1] = x
    BY <2>1, WalkSlot
  <2>3. s \in new
    BY <1>3, <2>1, <2>2
  <2> HIDE DEF s
  <2>4. qt[s].frame = src[i]
    BY <1>2, <2>1, <2>2, <2>3
  <2> QED BY <1>3, <2>3, <2>4
<1>6. Holds(pt, qt) /\ HoldsTaken(qt, top - last, src)
  BY <1>4, <1>5 DEF Holds, HoldsTaken
<1> QED BY <1>2, <1>6 DEF m, qt

LEMMA PushUnowned ==
  ASSUME TypeOK, RamBound, TreeInv, PushMapFrame
  PROVE  /\ stack' # stack => Unowned' \subseteq Unowned
         /\ Unowned' \subseteq Unowned \cup {Head(pool)}
<1> DEFINE v == StackPage(Len(stack))
           src == Tail(pool)
           mp == MapPage(pte, v, StackFlags, src)
           k == mp.taken
<1>1. /\ v \in Page /\ pte \in [Slots -> Entry] /\ IsFlags(StackFlags)
      /\ src \in Seq(Nat) /\ Len(src) \in Nat /\ Len(pool) = Len(src) + 1
      /\ Head(pool) = pool[1] /\ Head(pool) \in Nat
      /\ stack \in Seq(Nat) /\ Len(stack) \in Nat /\ pool \in Seq(Nat)
      /\ \A i \in 1..Len(src) : src[i] = pool[i + 1]
  BY StackPageType DEF PushMapFrame, TypeOK, IsFlags, StackFlags
<1>2. /\ pte' = mp.pte
      /\ pool' = SubSeq(src, k + 1, Len(src))
      /\ stack' = Append(stack, Head(pool)) \/ stack' = stack
      /\ ram' = ram
  BY DEF PushMapFrame
<1> HIDE DEF v, src
<1>3. Holds(pte, mp.pte) /\ HoldsTaken(mp.pte, k, src)
  <2>1. Rooted(pte)
    BY DEF TreeInv
  <2> QED BY <1>1, <2>1, MapPageHolds
<1>4. k \in 0..Len(src)
  BY <1>1, MapPageType
<1>5. /\ \A s \in Present : s \in Present' /\ pte'[s].frame = pte[s].frame
      /\ \A i \in 1..k : \E s \in Present' : pte'[s].frame = src[i]
  <2>1. Present' = PresentIn(mp.pte)
    BY <1>2 DEF Present, PresentIn
  <2> HIDE DEF mp, k
  <2> QED BY <1>2, <1>3, <2>1, PresentDef DEF Holds, HoldsTaken
<1> HIDE DEF mp, k
<1>6. /\ pool' \in Seq(Nat) /\ Len(pool') = Len(src) - k
      /\ \A i \in 1..(Len(src) - k) : pool'[i] = src[k + i]
  BY <1>1, <1>2, <1>4, DropSeq
<1>7. /\ stack' \in Seq(Nat)
      /\ \A i \in 1..Len(stack) : i \in 1..Len(stack') /\ stack'[i] = stack[i]
      /\ stack' # stack => /\ Len(stack) + 1 \in 1..Len(stack')
                           /\ stack'[Len(stack) + 1] = Head(pool)
  <2>1. CASE stack' = stack
    BY <1>1, <2>1
  <2>2. ASSUME stack' = Append(stack, Head(pool))
        PROVE  /\ stack' \in Seq(Nat) /\ Len(stack') = Len(stack) + 1
               /\ \A i \in 1..Len(stack) : stack'[i] = stack[i]
               /\ stack'[Len(stack) + 1] = Head(pool)
    BY <1>1, <2>2
  <2>3. CASE stack' = Append(stack, Head(pool))
    BY <1>1, <2>2, <2>3
  <2> QED BY <1>2, <2>1, <2>3
<1>8. ASSUME NEW f, Owned(f), f # Head(pool) \/ stack' # stack
      PROVE  Owned(f)'
  <2>1. CASE \E i \in 1..Len(stack) : stack[i] = f
    BY <1>7, <2>1 DEF Owned
  <2>2. ASSUME NEW i \in 1..Len(pool), pool[i] = f
        PROVE  Owned(f)'
    <3>1. CASE i = 1
      BY <1>1, <1>7, <1>8, <2>2, <3>1 DEF Owned
    <3>2. CASE i # 1
      <4> DEFINE j == i - 1
      <4>1. j \in 1..Len(src) /\ j + 1 = i
        BY <1>1, <3>2
      <4> HIDE DEF j
      <4>2. src[j] = f
        BY <1>1, <2>2, <4>1
      <4>3. CASE j \in 1..k
        BY <1>5, <4>2, <4>3 DEF Owned
      <4>4. CASE j \notin 1..k
        <5>1. j - k \in 1..(Len(src) - k) /\ k + (j - k) = j
          BY <1>1, <1>4, <4>1, <4>4
        <5>2. pool'[j - k] = f
          BY <1>6, <4>2, <5>1
        <5> QED BY <1>6, <5>1, <5>2 DEF Owned
      <4> QED BY <4>3, <4>4
    <3> QED BY <3>1, <3>2
  <2>3. CASE \E s \in Present : pte[s].frame = f
    BY <1>5, <2>3 DEF Owned
  <2> QED BY <1>8, <2>1, <2>2, <2>3 DEF Owned
<1>9. Unowned = {f \in ToSet(ram) : ~ Owned(f)}
  BY <1>1, UnownedDef
<1>10. Unowned' = {f \in ToSet(ram') : ~ Owned(f)'}
  <2>1. (stack \in Seq(Nat) /\ pool \in Seq(Nat) => Unowned = {f \in ToSet(ram) : ~ Owned(f)})'
    BY UnownedDef, PTL
  <2> QED BY <1>6, <1>7, <2>1
<1> QED BY <1>2, <1>8, <1>9, <1>10

LEMMA UnownedNext ==
  ASSUME stack \in Seq(Nat), pool \in Seq(Nat), stack' \in Seq(Nat),
         pool' \in Seq(Nat), ram' = ram, NEW D,
         \A f : Owned(f) => Owned(f)' \/ f \in D
  PROVE  Unowned' \subseteq Unowned \cup D
<1>1. Unowned = {f \in ToSet(ram) : ~ Owned(f)}
  BY UnownedDef
<1>2. Unowned' = {f \in ToSet(ram') : ~ Owned(f)'}
  <2>1. (stack \in Seq(Nat) /\ pool \in Seq(Nat) => Unowned = {f \in ToSet(ram) : ~ Owned(f)})'
    BY UnownedDef, PTL
  <2> QED BY <2>1
<1> QED BY <1>1, <1>2

LEMMA AllocateUnowned ==
  ASSUME TypeOK, TreeInv, NEW v \in ClientPages, NEW r \in Requests, Allocate(v, r)
  PROVE  Unowned' \subseteq Unowned
<1> DEFINE flags == AllocateFlags(r)
           mp == MapPage(pte, v, flags, Pops)
           k == mp.taken
           n == Len(stack)
<1>1. /\ v \in Page /\ r \in Request /\ pte \in [Slots -> Entry]
      /\ stack \in Seq(Nat) /\ n \in Nat /\ pool \in Seq(Nat)
  BY PageAssumption DEF TypeOK
<1>2. /\ Pops \in Seq(Nat) /\ Len(Pops) = n
      /\ \A i \in 1..n : Pops[i] = stack[n - i + 1]
  BY <1>1, PopsSeq
<1>3. IsFlags(flags)
  BY <1>1 DEF IsFlags, AllocateFlags, Request
<1>4. /\ pte' = mp.pte /\ pool' = pool /\ ram' = ram
      /\ stack' = SubSeq(stack, 1, n - k)
  BY DEF Allocate
<1> HIDE DEF flags, n
<1>5. k \in 0..4 /\ k <= n
  BY <1>1, <1>2, <1>3, MapPageResult
<1>6. Holds(pte, mp.pte) /\ HoldsTaken(mp.pte, k, Pops)
  <2>1. Rooted(pte)
    BY DEF TreeInv
  <2> QED BY <1>1, <1>2, <1>3, <2>1, MapPageHolds
<1>7. Present' = PresentIn(mp.pte)
  BY <1>4 DEF Present, PresentIn
<1> HIDE DEF mp, k
<1>8. /\ stack' \in Seq(Nat) /\ Len(stack') = n - k
      /\ \A i \in 1..(n - k) : stack'[i] = stack[i]
  <2>1. n - k \in 0..Len(stack)
    BY <1>1, <1>5 DEF n
  <2> QED BY <1>1, <1>4, <2>1, TakeSeq
<1>9. ASSUME NEW f, Owned(f)
      PROVE  Owned(f)'
  <2>1. ASSUME NEW i \in 1..n, stack[i] = f
        PROVE  Owned(f)'
    <3>1. CASE i \in 1..(n - k)
      BY <1>8, <2>1, <3>1 DEF Owned
    <3>2. CASE i \notin 1..(n - k)
      <4>1. n - i + 1 \in 1..k /\ n - i + 1 \in 1..n /\ n - (n - i + 1) + 1 = i
        BY <1>1, <1>5, <3>2
      <4>2. Pops[n - i + 1] = f
        BY <1>2, <2>1, <4>1
      <4>3. PICK s \in PresentIn(mp.pte) : mp.pte[s].frame = f
        BY <1>6, <4>1, <4>2 DEF HoldsTaken
      <4> QED BY <1>4, <1>7, <4>3 DEF Owned
    <3> QED BY <3>1, <3>2
  <2>2. CASE \E i \in 1..Len(pool) : pool[i] = f
    BY <1>4, <2>2 DEF Owned
  <2>3. ASSUME NEW s \in Present, pte[s].frame = f
        PROVE  Owned(f)'
    <3>1. s \in PresentIn(mp.pte) /\ mp.pte[s].frame = f
      BY <1>6, <2>3, PresentDef DEF Holds
    <3> QED BY <1>4, <1>7, <3>1 DEF Owned
  <2> QED BY <1>9, <2>1, <2>2, <2>3 DEF Owned, n
<1>10. Unowned' \subseteq Unowned \cup {}
  <2>1. \A f : Owned(f) => Owned(f)' \/ f \in {}
    BY <1>9
  <2> QED BY <1>1, <1>4, <1>8, <2>1, UnownedNext
<1> QED BY <1>10

LEMMA AllocateFaultsOnTableUnowned ==
  ASSUME TypeOK, NEW v \in ClientPages, NEW r \in Requests,
         AllocateFaultsOnTable(v, r)
  PROVE  Unowned' \subseteq Unowned
<1> DEFINE s0 == Walk(v)[Missing(pte, v)]
           n == Len(stack)
<1>1. Missing(pte, v) \in 2..4 /\ Missing(pte, v) \in 1..4
  <2>1. Missing(pte, v) \in 0..4 /\ ~ (Missing(pte, v) < 2)
    BY PageAssumption, MissingDef DEF AllocateFaultsOnTable, CanZeroTable
  <2> QED BY <2>1
<1>2. s0 \in Slots /\ ~ pte[s0].present
  <2>1. v \in Page
    BY PageAssumption
  <2>2. Missing(pte, v) > 0
    BY <1>1
  <2> QED BY <1>1, <2>1, <2>2, MissingDef, WalkSlot
<1>3. /\ stack \in Seq(Nat) /\ n \in Nat /\ n > 0 /\ pool \in Seq(Nat)
      /\ stack' = SubSeq(stack, 1, n - 1) /\ pool' = pool /\ ram' = ram
      /\ pte' = [pte EXCEPT ![s0] =
                   [NotPresent EXCEPT !.present = TRUE, !.frame = Head(Pops),
                                      !.user = r.user]]
      /\ pte \in [Slots -> Entry]
  BY DEF TypeOK, AllocateFaultsOnTable, CanZeroTable
<1> HIDE DEF s0, n
<1>4. Head(Pops) = stack[n]
  <2>1. 1 \in 1..n /\ n - 1 + 1 = n
    BY <1>3
  <2>2. Pops \in Seq(Nat) /\ Len(Pops) = n /\ Pops[1] = stack[n - 1 + 1]
    BY <1>3, <2>1, PopsSeq DEF n
  <2> QED BY <2>1, <2>2
<1>5. /\ s0 \in Present' /\ pte'[s0].frame = stack[n]
      /\ \A s \in Present : s \in Present' /\ pte'[s].frame = pte[s].frame
  BY <1>2, <1>3, <1>4 DEF Present, NotPresent
<1>6. /\ stack' \in Seq(Nat) /\ Len(stack') = n - 1
      /\ \A i \in 1..(n - 1) : stack'[i] = stack[i]
  <2>1. n - 1 \in 0..Len(stack)
    BY <1>3 DEF n
  <2> QED BY <1>3, <2>1, TakeSeq
<1>7. ASSUME NEW f, Owned(f)
      PROVE  Owned(f)'
  <2>1. ASSUME NEW i \in 1..n, stack[i] = f
        PROVE  Owned(f)'
    <3>1. i = n \/ i \in 1..(n - 1)
      BY <1>3
    <3> QED BY <1>5, <1>6, <2>1, <3>1 DEF Owned
  <2>2. CASE \E i \in 1..Len(pool) : pool[i] = f
    BY <1>3, <2>2 DEF Owned
  <2>3. CASE \E s \in Present : pte[s].frame = f
    BY <1>5, <2>3 DEF Owned
  <2> QED BY <1>7, <2>1, <2>2, <2>3 DEF Owned, n
<1>8. Unowned' \subseteq Unowned \cup {}
  <2>1. \A f : Owned(f) => Owned(f)' \/ f \in {}
    BY <1>7
  <2> QED BY <1>3, <1>6, <2>1, UnownedNext
<1> QED BY <1>8

\* Free loses the frames that the stack has no room for, and no other.
LEMMA FreeUnowned ==
  ASSUME TypeOK, RamBound, TreeInv, FrameInv, NEW n \in Nat, StackShape(n),
         NEW v \in ClientPages, Free(v)
  PROVE  \E D : /\ Unowned' \subseteq Unowned \cup D
                /\ IsFiniteSet(D)
                /\ Cardinality(D) <= Cleared(v) - Kept(Cleared(v))
<1> DEFINE c == Cleared(v)
           k == Kept(c)
           l == Len(stack)
           w(i) == Walk(v)[i]
           more == SubSeq(Freed(v), 1, k)
           I == (k + 1)..c
           d == [i \in I |-> pte[w(i)].frame]
           D == {pte[w(i)].frame : i \in I}
<1>1. v \in Page /\ c \in 1..4 /\ c \in Nat
  BY PageAssumption, ClearedDef
<1>2. k \in 0..c
  BY FreeShape
<1>3. Freed(v) \in Seq(Nat) /\ Len(Freed(v)) = c
      /\ \A i \in 1..c : Freed(v)[i] = pte[w(i)].frame % FrameLimit
  BY <1>1, FreedSeq
<1>4. \A i \in 1..c : Freed(v)[i] = pte[w(i)].frame
  <2> SUFFICES ASSUME NEW i \in 1..c PROVE Freed(v)[i] = pte[w(i)].frame
    OBVIOUS
  <2>1. i \in 1..4
    BY <1>1
  <2>2. w(i) \in Present
    BY <1>1, <2>1, WalkPresent DEF Free
  <2>3. pte[w(i)].frame \in Nat /\ pte[w(i)].frame < FrameLimit
    BY <2>2 DEF FrameInv, FramesBelow, Present, TypeOK, Entry
  <2>4. pte[w(i)].frame % FrameLimit = pte[w(i)].frame
    BY <2>3, KernelAssumption
  <2> QED BY <1>3, <2>4
<1>5. /\ stack' = stack \o more /\ pool' = pool /\ ram' = ram
      /\ pte' = Unmapped(v)
      /\ stack \in Seq(Nat) /\ l \in Nat /\ pool \in Seq(Nat)
  BY <1>3 DEF Free, TypeOK
<1>6. PresentIn(Unmapped(v)) = Present \ Gone(v)
      /\ \A s \in Present \ Gone(v) :
            Unmapped(v)[s] = DecEntryCount(pte[s]) \/ Unmapped(v)[s] = pte[s]
  BY <1>1, UnmappedPresent
<1>7. \A s \in Present \ Gone(v) : s \in Present' /\ pte'[s].frame = pte[s].frame
  <2>1. Present' = Present \ Gone(v)
    BY <1>5, <1>6 DEF Present, PresentIn
  <2>2. \A s \in Present : pte[s] \in Entry
    BY DEF Present, TypeOK
  <2> QED BY <1>5, <1>6, <2>1, <2>2, DecEntryCountType
<1>8. \A s \in Gone(v) : \E i \in 1..c : s = w(i)
  BY DEF Gone
<1> HIDE DEF c, k, l, w
<1>9. /\ more \in Seq(Nat) /\ Len(more) = k
      /\ \A i \in 1..k : more[i] = pte[w(i)].frame
  <2>1. more \in Seq(Nat) /\ Len(more) = k
        /\ \A i \in 1..k : more[i] = Freed(v)[i] /\ i \in 1..c
    BY <1>2, <1>3, TakeSeq
  <2> QED BY <1>4, <2>1
<1> HIDE DEF more
<1>10. /\ stack' \in Seq(Nat) /\ Len(stack') = l + k
       /\ \A i \in 1..l : stack'[i] = stack[i]
       /\ \A i \in 1..k : stack'[l + i] = more[i]
  <2>1. /\ stack' \in Seq(Nat) /\ Len(stack') = Len(stack) + Len(more)
        /\ \A i \in 1..(Len(stack) + Len(more)) :
              stack'[i] = IF i <= Len(stack) THEN stack[i] ELSE more[i - Len(stack)]
    BY <1>5, <1>9, ConcatProperties
  <2>2. /\ \A i \in 1..l : i \in 1..(l + k) /\ i <= l
        /\ \A i \in 1..k : l + i \in 1..(l + k) /\ ~ (l + i <= l) /\ (l + i) - l = i
    BY <1>1, <1>2, <1>5
  <2> QED BY <1>9, <2>1, <2>2 DEF l
<1>11. ASSUME NEW f, Owned(f)
       PROVE  Owned(f)' \/ f \in D
  <2>1. ASSUME NEW i \in 1..l, stack[i] = f
        PROVE  Owned(f)'
    <3>1. i \in 1..(l + k) /\ stack'[i] = f
      BY <1>1, <1>2, <1>5, <1>10, <2>1, SMTT(30)
    <3> QED BY <1>10, <3>1 DEF Owned
  <2>2. CASE \E i \in 1..Len(pool) : pool[i] = f
    BY <1>5, <2>2 DEF Owned
  <2>3. ASSUME NEW s \in Present, pte[s].frame = f
        PROVE  Owned(f)' \/ f \in D
    <3>1. CASE s \notin Gone(v)
      BY <1>7, <2>3, <3>1 DEF Owned
    <3>2. CASE s \in Gone(v)
      <4>1. PICK i \in 1..c : s = w(i)
        BY <1>8, <3>2
      <4>2. CASE i \in 1..k
        <5>1. l + i \in 1..(l + k)
          BY <1>1, <1>2, <1>5, <4>2
        <5>2. stack'[l + i] = f
          BY <1>9, <1>10, <2>3, <4>1, <4>2
        <5> QED BY <1>10, <5>1, <5>2 DEF Owned
      <4>3. CASE i \notin 1..k
        <5>1. i \in I
          BY <1>1, <1>2, <4>3
        <5> QED BY <2>3, <4>1, <5>1
      <4> QED BY <4>2, <4>3
    <3> QED BY <3>1, <3>2
  <2> QED BY <1>11, <2>1, <2>2, <2>3 DEF Owned, l
<1>12. Unowned' \subseteq Unowned \cup D
  <2> HIDE DEF D
  <2> QED BY <1>5, <1>10, <1>11, UnownedNext
<1>13. IsFiniteSet(I) /\ Cardinality(I) = c - k
  <2>1. k + 1 \in Int /\ c \in Int /\ c - (k + 1) + 1 = c - k
        /\ (k + 1 > c => c - k = 0)
    BY <1>1, <1>2
  <2>2. IsFiniteSet(I)
        /\ Cardinality(I) = IF k + 1 > c THEN 0 ELSE c - (k + 1) + 1
    BY <2>1, FS_Interval
  <2> QED BY <2>1, <2>2
<1>14. d \in Surjection(I, D)
  BY DEF Surjection
<1> HIDE DEF d, D, I
<1>15. IsFiniteSet(D) /\ Cardinality(D) <= c - k
  BY <1>13, <1>14, FS_Surjection
<1> QED BY <1>12, <1>15 DEF c, k

\* What may be lost, with memory run out or not.
Loss == IF enomem THEN 4 ELSE 0

\* The stack has room for every frame that is neither on it nor lost. While
\* Initialize goes on, memory has not run out and nothing else is mapped.
Budget(n) ==
    /\ Cardinality(Unowned) + Cardinality(Extra(n)) + Len(stack)
         <= Entries * n + Loss
    /\ FramesKept
    /\ phase = "init" /\ ~ enomem => Extra(n) = {}
    /\ phase = "init" /\ enomem => pool = << >>

BudgetInv == \E n \in Nat : StackShape(n) /\ Budget(n)

\* The quantities of the budget, before and after a step.
LEMMA BudgetType ==
  ASSUME TypeOK, NEW n \in Nat
  PROVE  /\ IsFiniteSet(Unowned) /\ Cardinality(Unowned) \in Nat
         /\ Cardinality(Extra(n)) \in Nat
         /\ Len(stack) \in Nat /\ Entries * n \in Nat /\ Loss \in {0, 4}
<1>1. /\ IsFiniteSet(Unowned) /\ Cardinality(Unowned) \in Nat
      /\ Cardinality(Extra(n)) \in Nat
  BY UnownedFinite, ExtraFinite DEF TypeOK
<1>2. Len(stack) \in Nat /\ Entries * n \in Nat
  BY KernelAssumption DEF TypeOK
<1>3. Loss \in {0, 4}
  BY DEF Loss
<1> QED BY <1>1, <1>2, <1>3

LEMMA BudgetTypeNext ==
  ASSUME TypeOK', NEW n \in Nat
  PROVE  /\ IsFiniteSet(Unowned') /\ Cardinality(Unowned') \in Nat
         /\ Cardinality(Extra(n)') \in Nat /\ Len(stack') \in Nat
<1>1. IsFiniteSet(Unowned') /\ Cardinality(Unowned') \in Nat
  <2>1. (ram \in Seq(Nat) => IsFiniteSet(Unowned) /\ Cardinality(Unowned) \in Nat)'
    BY UnownedFinite, PTL
  <2> QED BY <2>1 DEF TypeOK
<1>2. Len(stack') \in Nat
  BY DEF TypeOK
<1> QED BY <1>1, <1>2, ExtraNext

\* A step that loses nothing and moves frames between entries and the stack.
LEMMA BudgetKept ==
  ASSUME TypeOK, TypeOK', NEW n \in Nat, Budget(n), Unowned' \subseteq Unowned,
         Cardinality(Extra(n)') + Len(stack') <= Cardinality(Extra(n)) + Len(stack),
         enomem => enomem', phase' = "init" => FALSE
  PROVE  Budget(n)'
<1> DEFINE u == Cardinality(Unowned)
           w == Cardinality(Unowned')
           x == Cardinality(Extra(n))
           y == Cardinality(Extra(n)')
           l == Len(stack)
           k == Len(stack')
           t == Entries * n
           a == Loss
           b == Loss'
<1>1. /\ u \in Nat /\ w \in Nat /\ x \in Nat /\ y \in Nat /\ l \in Nat /\ k \in Nat
      /\ t \in Nat /\ a \in {0, 4}
  BY BudgetType, BudgetTypeNext
<1>2. b \in {0, 4} /\ a <= b
  BY DEF Loss
<1>3. w <= u
  <2>1. Unowned' \in SUBSET Unowned /\ IsFiniteSet(Unowned)
    BY BudgetType
  <2> QED BY <2>1, FS_Subset
<1>4. u + x + l <= t + a /\ u <= a /\ y + k <= x + l
  BY DEF Budget, FramesKept, Loss
<1> HIDE DEF u, w, x, y, l, k, t, a, b
<1>5. w + y + k <= t + b /\ w <= b
  BY <1>1, <1>2, <1>3, <1>4
<1>6. FramesKept'
  BY <1>5 DEF FramesKept, w, b, Loss
<1>7. Cardinality(Unowned') + Cardinality(Extra(n)') + Len(stack')
        <= Entries * n + Loss'
  BY <1>5 DEF w, y, k, t, b
<1> QED BY <1>6, <1>7 DEF Budget

LEMMA InitBudget == Init => Budget(0)
<1> SUFFICES ASSUME Init PROVE Budget(0)
  OBVIOUS
<1>1. /\ stack = << >> /\ pool = ram /\ ram \in Seq(Nat) /\ ~ enomem
      /\ stack \in Seq(Nat) /\ pool \in Seq(Nat)
  BY MapAssumption DEF Init
<1>2. \A f \in ToSet(ram) : Owned(f)
  BY <1>1, ToSetDef DEF Owned
<1>3. Unowned = {}
  BY <1>1, <1>2, UnownedDef
<1>4. Extra(0) = {}
  BY InitShape
<1>5. Len(stack) = 0 /\ Loss = 0 /\ Cardinality({}) = 0 /\ Entries * 0 = 0
  BY <1>1, FS_EmptySet, KernelAssumption DEF Loss
<1>6. FramesKept
  BY <1>1, <1>3, <1>5 DEF FramesKept
<1>7. Cardinality(Unowned) + Cardinality(Extra(0)) + Len(stack)
        <= Entries * 0 + Loss
  <2>1. Cardinality(Unowned) = 0 /\ Cardinality(Extra(0)) = 0
    BY <1>3, <1>4, <1>5
  <2> DEFINE u == Cardinality(Unowned)
             x == Cardinality(Extra(0))
             l == Len(stack)
             t == Entries * 0
  <2>2. u = 0 /\ x = 0 /\ l = 0 /\ t = 0 /\ Loss = 0
    BY <1>5, <2>1
  <2> HIDE DEF u, x, l, t
  <2>3. u + x + l <= t + Loss
    BY <2>2
  <2> QED BY <2>3 DEF u, x, l, t
<1> QED BY <1>1, <1>4, <1>6, <1>7 DEF Budget

LEMMA PushBudget ==
  ASSUME TypeOK, TypeOK', RamBound, TreeInv, NEW n \in Nat, StackShape(n), Budget(n),
         PushMapFrame
  PROVE  \E m \in Nat : StackShape(m)' /\ Budget(m)'
<1>1. PICK m \in Nat : StackShape(m)' /\ PushCases(n, m)
  BY PushShape
<1>2. ~ enomem /\ phase' = "init" /\ Extra(n) = {} /\ Head(pool) \in Nat
  BY DEF Budget, PushMapFrame, TypeOK
<1> DEFINE u == Cardinality(Unowned)
           w == Cardinality(Unowned')
           y == Cardinality(Extra(m)')
           l == Len(stack)
           k == Len(stack')
           t == Entries * n
           z == Entries * m
<1>3. /\ u \in Nat /\ w \in Nat /\ y \in Nat /\ l \in Nat /\ k \in Nat
      /\ t \in Nat /\ z \in Nat
  BY BudgetType, BudgetTypeNext
<1>4. u = 0 /\ Unowned = {}
  <2>1. u <= 0
    BY <1>2 DEF Budget, FramesKept
  <2>2. u = 0
    BY <1>3, <2>1
  <2> QED BY <2>2, BudgetType, FS_EmptySet
<1>5. Cardinality(Extra(n)) = 0
  BY <1>2, FS_EmptySet
<1>6. CASE stack' = Append(stack, Head(pool)) /\ enomem' = enomem /\ l + 1 <= z /\ y = 0
  <2>1. k = l + 1 /\ stack' # stack
    <3>1. stack \in Seq(Nat)
      BY DEF TypeOK
    <3>2. k = l + 1
      BY <1>2, <1>6, <3>1
    <3> QED BY <1>3, <3>2
  <2>2. Unowned' = {}
    BY <1>4, <2>1, PushUnowned
  <2>3. w = 0 /\ Loss' = 0
    BY <1>2, <1>6, <2>2, FS_EmptySet DEF Loss
  <2>4. Extra(m)' = {}
    <3>1. IsFiniteSet(Extra(m)')
      <4>1. Extra(m)' \in SUBSET Slots
        BY DEF Extra, Present
      <4> QED BY <4>1, SlotsFinite, FS_Subset
    <3> QED BY <1>6, <3>1, FS_EmptySet
  <2> HIDE DEF w, y, l, k, z
  <2>5. w + y + k <= z + 0
    BY <1>3, <1>6, <2>1, <2>3
  <2>6. Cardinality(Unowned') + Cardinality(Extra(m)') + Len(stack')
          <= Entries * m + Loss'
    BY <2>3, <2>5 DEF w, y, k, z
  <2>7. FramesKept'
    BY <1>2, <1>6, <2>3 DEF FramesKept, w
  <2>8. Budget(m)'
    BY <1>2, <1>6, <2>4, <2>6, <2>7 DEF Budget
  <2> QED BY <1>1, <2>8
<1>7. CASE stack' = stack /\ pool' = << >> /\ enomem' = TRUE /\ l = z /\ y <= 3
  <2>1. IsFiniteSet({Head(pool)}) /\ Cardinality({Head(pool)}) = 1
    BY FS_Singleton
  <2>2. w <= 1
    <3>1. Unowned' \in SUBSET {Head(pool)}
      BY <1>4, PushUnowned
    <3> QED BY <2>1, <3>1, FS_Subset
  <2>3. k = l /\ Loss' = 4
    BY <1>7 DEF Loss
  <2> HIDE DEF w, y, l, k, z
  <2>4. w + y + k <= z + 4 /\ w <= 4
    BY <1>3, <1>7, <2>2, <2>3
  <2>5. Cardinality(Unowned') + Cardinality(Extra(m)') + Len(stack')
          <= Entries * m + Loss'
    BY <2>3, <2>4 DEF w, y, k, z
  <2>6. FramesKept'
    BY <1>7, <2>4 DEF FramesKept, w
  <2>7. Budget(m)'
    BY <1>7, <2>5, <2>6 DEF Budget
  <2> QED BY <1>1, <2>7
<1>8. \/ stack' = Append(stack, Head(pool)) /\ enomem' = enomem /\ l + 1 <= z /\ y = 0
      \/ stack' = stack /\ pool' = << >> /\ enomem' = TRUE /\ l = z /\ y <= 3
  <2>1. CASE /\ Len(stack) < Entries * n /\ m = n
             /\ Present' = Present /\ stack' = Append(stack, Head(pool))
             /\ enomem' = enomem
    <3>1. Extra(m)' = {}
      BY <1>2, <2>1 DEF Extra
    <3>2. y = 0
      BY <3>1, FS_EmptySet
    <3>3. l + 1 <= z
      BY <1>3, <2>1
    <3> QED BY <2>1, <3>2, <3>3
  <2>2. CASE /\ Len(stack) = Entries * n /\ m = n + 1
             /\ stack' = Append(stack, Head(pool))
             /\ Cardinality(Extra(m)') <= Cardinality(Extra(n))
             /\ enomem' = enomem
    <3>1. y = 0
      BY <1>3, <1>5, <2>2
    <3>2. z = t + Entries /\ Entries \in Nat /\ Entries > 1
      BY <2>2, KernelAssumption
    <3>3. l = t
      BY <2>2
    <3>4. l + 1 <= z
      <4> HIDE DEF l, z, t
      <4> QED BY <1>3, <3>2, <3>3
    <3> QED BY <2>2, <3>1, <3>4
  <2>3. CASE /\ Len(stack) = Entries * n /\ m = n
             /\ stack' = stack /\ pool' = << >>
             /\ Cardinality(Extra(m)') <= Cardinality(Extra(n)) + 3
             /\ enomem' = TRUE
    <3>1. y <= 3
      BY <1>3, <1>5, <2>3
    <3> QED BY <2>3, <3>1
  <2> QED BY <1>1, <2>1, <2>2, <2>3 DEF PushCases
<1> QED BY <1>6, <1>7, <1>8

LEMMA FreeBudget ==
  ASSUME TypeOK, TypeOK', RamBound, TreeInv, FrameInv, NEW n \in Nat, StackShape(n),
         Budget(n), NEW v \in ClientPages, Free(v)
  PROVE  Budget(n)'
<1> DEFINE u == Cardinality(Unowned)
           w == Cardinality(Unowned')
           x == Cardinality(Extra(n))
           y == Cardinality(Extra(n)')
           l == Len(stack)
           k == Len(stack')
           t == Entries * n
           a == Loss
           c == Cleared(v)
           j == Kept(c)
<1>1. /\ u \in Nat /\ w \in Nat /\ x \in Nat /\ y \in Nat /\ l \in Nat /\ k \in Nat
      /\ t \in Nat /\ a \in {0, 4}
  BY BudgetType, BudgetTypeNext
<1>2. c \in 1..4
  BY PageAssumption, ClearedDef
<1>3. y = x - c /\ j \in 0..c /\ k = l + j /\ (j < c => k = t)
  BY FreeShape
<1>4. PICK D : /\ Unowned' \subseteq Unowned \cup D
               /\ IsFiniteSet(D)
               /\ Cardinality(D) <= c - j
  BY FreeUnowned
<1>5. w <= u + Cardinality(D) /\ Cardinality(D) \in Nat
  BY <1>4, BudgetType, SubsetPlus, FS_CardinalityType
<1>6. Loss' = a /\ enomem' = enomem /\ phase' = "run"
  BY DEF Free, Loss
<1>7. u + x + l <= t + a /\ u <= a
  BY DEF Budget, FramesKept, Loss
<1> HIDE DEF u, w, x, y, l, k, t, a, c, j
<1>8. w <= u + (c - j)
  BY <1>1, <1>2, <1>3, <1>4, <1>5
<1>9. w + y + k <= t + a
  BY <1>1, <1>2, <1>3, <1>7, <1>8
<1>10. w <= a
  <2>1. CASE j = c
    BY <1>1, <1>2, <1>3, <1>7, <1>8, <2>1
  <2>2. CASE j < c
    BY <1>1, <1>3, <1>9, <2>2
  <2> QED BY <1>2, <1>3, <2>1, <2>2
<1>11. FramesKept'
  BY <1>6, <1>10 DEF FramesKept, w, a, Loss
<1>12. Cardinality(Unowned') + Cardinality(Extra(n)') + Len(stack')
         <= Entries * n + Loss'
  BY <1>6, <1>9 DEF w, y, k, t, a
<1> QED BY <1>6, <1>11, <1>12 DEF Budget

LEMMA UnchangedBudget ==
  ASSUME NEW n \in Nat, StackShape(n), Budget(n), pte' = pte, stack' = stack,
         pool' = pool, ram' = ram, enomem' = enomem,
         phase' = phase \/ phase' = "run"
  PROVE  StackShape(n)' /\ Budget(n)'
<1>1. StackShape(n)' /\ Extra(n)' = Extra(n) /\ Present' = Present
  BY UnchangedShape
<1>2. Unowned' = Unowned /\ Loss' = Loss
  BY <1>1 DEF Unowned, Loss
<1> QED BY <1>1, <1>2 DEF Budget, FramesKept

LEMMA NextBudget ==
  TypeOK /\ RamBound /\ TreeInv /\ FrameInv /\ BudgetInv /\ [Next]_vars => BudgetInv'
<1> SUFFICES ASSUME TypeOK, RamBound, TreeInv, FrameInv, NEW n \in Nat,
                    StackShape(n), Budget(n), [Next]_vars
             PROVE  \E m \in Nat : StackShape(m)' /\ Budget(m)'
  BY DEF BudgetInv
<1>1. TypeOK'
  BY NextType
<1>2. CASE PushMapFrame
  BY <1>1, <1>2, PushBudget
<1>3. CASE EndInitialize
  BY <1>3, UnchangedBudget DEF EndInitialize
<1>4. ASSUME NEW v \in ClientPages, NEW r \in Requests, Allocate(v, r)
      PROVE  StackShape(n)' /\ Budget(n)'
  <2>1. phase' = "run" /\ (enomem => enomem')
    BY <1>4 DEF Allocate
  <2> QED BY <1>1, <1>4, <2>1, AllocateShape, AllocateUnowned, BudgetKept
<1>5. ASSUME NEW v \in ClientPages, NEW r \in Requests,
             AllocateFaultsOnTable(v, r)
      PROVE  StackShape(n)' /\ Budget(n)'
  <2>1. phase' = "run" /\ (enomem => enomem')
    BY <1>5 DEF AllocateFaultsOnTable
  <2> QED BY <1>1, <1>5, <2>1, AllocateFaultsOnTableShape,
             AllocateFaultsOnTableUnowned, BudgetKept
<1>6. ASSUME NEW v \in ClientPages, AllocateFaults(v) \/ FreeFaults(v)
      PROVE  StackShape(n)' /\ Budget(n)'
  BY <1>6, UnchangedBudget DEF AllocateFaults, FreeFaults
<1>7. ASSUME NEW v \in ClientPages, Free(v)
      PROVE  StackShape(n)' /\ Budget(n)'
  BY <1>1, <1>7, FreeShape, FreeBudget
<1>8. CASE UNCHANGED vars
  BY <1>8, UnchangedBudget DEF vars
<1> QED BY <1>2, <1>3, <1>4, <1>5, <1>6, <1>7, <1>8 DEF Next

\* On a machine with less than 2 GiB of memory no frame is ever lost, unless
\* memory has run out once, and then four at most: what callers map and free,
\* tables included, always fits on the stack again.
THEOREM FramesAreKept == ASSUME LowMemory PROVE Spec => []FramesKept
<1>1. Spec => [](TypeOK /\ RamBound /\ TreeInv)
  BY TreeHolds
<1>2. Init => FrameInv /\ BudgetInv
  BY InitFrameInv, InitShape, InitBudget DEF BudgetInv
<1>3. TypeOK /\ RamBound /\ TreeInv /\ FrameInv /\ BudgetInv /\ [Next]_vars
        => FrameInv' /\ BudgetInv'
  BY NextFrameInv, NextBudget
<1>4. BudgetInv => FramesKept
  BY DEF BudgetInv, Budget
<1> QED BY <1>1, <1>2, <1>3, <1>4, PTL DEF Spec

-----------------------------------------------------------------------------
(***************************************************************************)
(* Callers see an address space. What they get are frames of the machine's *)
(* memory map: those outside the kernel's own entries never leave it.      *)
(***************************************************************************)
Movable(f) == \/ \E i \in 1..Len(stack) : stack[i] = f
              \/ \E i \in 1..Len(pool) : pool[i] = f
              \/ \E s \in Present \ KernelSlots : pte[s].frame = f

RamInv == \A f : Movable(f) => f \in ToSet(ram)

LEMMA InitRam == Init => RamInv
<1> SUFFICES ASSUME Init PROVE RamInv
  OBVIOUS
<1>1. stack = << >> /\ pool = ram /\ Len(stack) = 0
  BY DEF Init
<1>2. Present \subseteq KernelSlots
  BY DEF Init, Present, NotPresent
<1>3. ToSet(ram) = {ram[i] : i \in 1..Len(ram)}
  BY ToSetDef, MapAssumption DEF Init
<1> QED BY <1>1, <1>2, <1>3 DEF RamInv, Movable

LEMMA PushMovable ==
  ASSUME TypeOK, RamBound, TreeInv, PushMapFrame
  PROVE  \A f : Movable(f)' => Movable(f)
<1> DEFINE v == StackPage(Len(stack))
           src == Tail(pool)
           mp == MapPage(pte, v, StackFlags, src)
           k == mp.taken
<1>1. /\ v \in Page /\ pte \in [Slots -> Entry] /\ IsFlags(StackFlags)
      /\ src \in Seq(Nat) /\ Len(src) \in Nat /\ Len(pool) = Len(src) + 1
      /\ Head(pool) = pool[1] /\ Head(pool) \in Nat
      /\ stack \in Seq(Nat) /\ Len(stack) \in Nat /\ pool \in Seq(Nat)
      /\ \A i \in 1..Len(src) : src[i] = pool[i + 1]
  BY StackPageType DEF PushMapFrame, TypeOK, IsFlags, StackFlags
<1>2. /\ pte' = mp.pte
      /\ pool' = SubSeq(src, k + 1, Len(src))
      /\ stack' = Append(stack, Head(pool)) \/ stack' = stack
  BY DEF PushMapFrame
<1> HIDE DEF v, src
<1>3. \A s \in Slots : mp.pte[s].present =>
         \/ pte[s].present /\ mp.pte[s].frame = pte[s].frame
         \/ \E i \in 1..k : mp.pte[s].frame = src[i]
  BY <1>1, MapPageFrames
<1>4. k \in 0..Len(src)
  BY <1>1, MapPageType
<1> HIDE DEF mp, k
<1>5. /\ Len(pool') = Len(src) - k
      /\ \A i \in 1..(Len(src) - k) : pool'[i] = src[k + i] /\ k + i \in 1..Len(src)
  BY <1>1, <1>2, <1>4, DropSeq
<1>6. \A i \in 1..Len(src) : Movable(src[i])
  <2> SUFFICES ASSUME NEW i \in 1..Len(src) PROVE Movable(src[i])
    OBVIOUS
  <2>1. i + 1 \in 1..Len(pool)
    BY <1>1
  <2> QED BY <1>1, <2>1 DEF Movable
<1>7. Movable(Head(pool))
  <2>1. 1 \in 1..Len(pool)
    BY <1>1
  <2> QED BY <1>1, <2>1 DEF Movable
<1>8. \A i \in 1..Len(stack') : stack'[i] = Head(pool)
                                \/ (i \in 1..Len(stack) /\ stack'[i] = stack[i])
  <2>1. CASE stack' = stack
    BY <2>1
  <2>2. ASSUME stack' = Append(stack, Head(pool)), NEW i \in 1..Len(stack')
        PROVE  \/ stack'[i] = Head(pool)
               \/ i \in 1..Len(stack) /\ stack'[i] = stack[i]
    <3>1. Len(stack') = Len(stack) + 1
      BY <1>1, <2>2
    <3>2. CASE i = Len(stack) + 1
      BY <1>1, <2>2, <3>2
    <3>3. CASE i \in 1..Len(stack)
      BY <1>1, <2>2, <3>3
    <3>4. i = Len(stack) + 1 \/ i \in 1..Len(stack)
      BY <1>1, <2>2, <3>1
    <3> QED BY <3>2, <3>3, <3>4
  <2> QED BY <1>2, <2>1, <2>2
<1>9. ASSUME NEW f, Movable(f)'
      PROVE  Movable(f)
  <2>1. CASE \E i \in 1..Len(stack') : stack'[i] = f
    BY <1>7, <1>8, <2>1 DEF Movable
  <2>2. CASE \E i \in 1..Len(pool') : pool'[i] = f
    BY <1>5, <1>6, <2>2
  <2>3. ASSUME NEW s \in Present' \ KernelSlots, pte'[s].frame = f
        PROVE  Movable(f)
    <3>1. s \in Slots /\ mp.pte[s].present /\ mp.pte[s].frame = f
      BY <1>2, <2>3 DEF Present
    <3>2. CASE pte[s].present /\ mp.pte[s].frame = pte[s].frame
      BY <2>3, <3>1, <3>2 DEF Movable, Present
    <3>3. CASE \E i \in 1..k : mp.pte[s].frame = src[i]
      <4>1. 1..k \subseteq 1..Len(src)
        BY <1>1, <1>4
      <4> QED BY <1>6, <3>1, <3>3, <4>1
    <3> QED BY <1>3, <3>1, <3>2, <3>3
  <2> QED BY <1>9, <2>1, <2>2, <2>3 DEF Movable
<1> QED BY <1>9

LEMMA AllocateMovable ==
  ASSUME TypeOK, NEW v \in ClientPages, NEW r \in Requests, Allocate(v, r)
  PROVE  \A f : Movable(f)' => Movable(f)
<1> DEFINE flags == AllocateFlags(r)
           mp == MapPage(pte, v, flags, Pops)
           k == mp.taken
           n == Len(stack)
<1>1. /\ v \in Page /\ r \in Request /\ pte \in [Slots -> Entry]
      /\ stack \in Seq(Nat) /\ n \in Nat /\ pool \in Seq(Nat)
  BY PageAssumption DEF TypeOK
<1>2. /\ Pops \in Seq(Nat) /\ Len(Pops) = n
      /\ \A i \in 1..n : Pops[i] = stack[n - i + 1]
  BY <1>1, PopsSeq
<1>3. IsFlags(flags)
  BY <1>1 DEF IsFlags, AllocateFlags, Request
<1>4. /\ pte' = mp.pte /\ pool' = pool
      /\ stack' = SubSeq(stack, 1, n - k)
  BY DEF Allocate
<1> HIDE DEF flags, n
<1>5. k \in 0..4 /\ k <= n
  BY <1>1, <1>2, <1>3, MapPageResult
<1>6. \A s \in Slots : mp.pte[s].present =>
         \/ pte[s].present /\ mp.pte[s].frame = pte[s].frame
         \/ \E i \in 1..k : mp.pte[s].frame = Pops[i]
  <2> SUFFICES ASSUME NEW s \in Slots, mp.pte[s].present
               PROVE  \/ pte[s].present /\ mp.pte[s].frame = pte[s].frame
                      \/ \E i \in 1..k : mp.pte[s].frame = Pops[i]
    OBVIOUS
  <2>1. \/ pte[s].present /\ mp.pte[s].frame = pte[s].frame
        \/ \E i \in 1..k : /\ mp.pte[s].frame = Pops[i]
                            /\ s = Walk(v)[Missing(pte, v) - i + 1]
    BY <1>1, <1>2, <1>3, MapPageFrames
  <2> QED BY <2>1
<1> HIDE DEF mp, k
<1>7. \A i \in 1..Len(stack') : i \in 1..n /\ stack'[i] = stack[i]
  <2>1. n - k \in 0..Len(stack)
    BY <1>1, <1>5 DEF n
  <2> QED BY <1>1, <1>4, <2>1, TakeSeq DEF n
<1>8. \A i \in 1..k : Movable(Pops[i])
  <2> SUFFICES ASSUME NEW i \in 1..k PROVE Movable(Pops[i])
    OBVIOUS
  <2>1. i \in 1..n /\ n - i + 1 \in 1..n
    BY <1>1, <1>5
  <2> QED BY <1>2, <2>1 DEF Movable, n
<1>9. ASSUME NEW f, Movable(f)'
      PROVE  Movable(f)
  <2>1. CASE \E i \in 1..Len(stack') : stack'[i] = f
    BY <1>7, <2>1 DEF Movable, n
  <2>2. CASE \E i \in 1..Len(pool') : pool'[i] = f
    BY <1>4, <2>2 DEF Movable
  <2>3. ASSUME NEW s \in Present' \ KernelSlots, pte'[s].frame = f
        PROVE  Movable(f)
    <3>1. s \in Slots /\ mp.pte[s].present /\ mp.pte[s].frame = f
      BY <1>4, <2>3 DEF Present
    <3>2. CASE pte[s].present /\ mp.pte[s].frame = pte[s].frame
      BY <2>3, <3>1, <3>2 DEF Movable, Present
    <3>3. CASE \E i \in 1..k : mp.pte[s].frame = Pops[i]
      BY <1>8, <3>1, <3>3
    <3> QED BY <1>6, <3>1, <3>2, <3>3
  <2> QED BY <1>9, <2>1, <2>2, <2>3 DEF Movable
<1> QED BY <1>9

LEMMA AllocateFaultsOnTableMovable ==
  ASSUME TypeOK, NEW v \in ClientPages, NEW r \in Requests,
         AllocateFaultsOnTable(v, r)
  PROVE  \A f : Movable(f)' => Movable(f)
<1> DEFINE s0 == Walk(v)[Missing(pte, v)]
           n == Len(stack)
<1>1. /\ stack \in Seq(Nat) /\ n \in Nat /\ n > 0
      /\ stack' = SubSeq(stack, 1, n - 1) /\ pool' = pool
      /\ pte' = [pte EXCEPT ![s0] =
                   [NotPresent EXCEPT !.present = TRUE, !.frame = Head(Pops),
                                      !.user = r.user]]
      /\ pte \in [Slots -> Entry]
  BY DEF TypeOK, AllocateFaultsOnTable, CanZeroTable
<1> HIDE DEF s0, n
<1>2. Head(Pops) = stack[n] /\ n \in 1..Len(stack)
  <2>1. 1 \in 1..n /\ n - 1 + 1 = n /\ n \in 1..n
    BY <1>1
  <2>2. Pops \in Seq(Nat) /\ Len(Pops) = n /\ Pops[1] = stack[n - 1 + 1]
    BY <1>1, <2>1, PopsSeq DEF n
  <2> QED BY <2>1, <2>2 DEF n
<1>3. \A s \in Present' : \/ s \in Present /\ pte'[s].frame = pte[s].frame
                          \/ pte'[s].frame = stack[n]
  <2> SUFFICES ASSUME NEW s \in Slots, pte'[s].present
               PROVE  \/ pte[s].present /\ pte'[s].frame = pte[s].frame
                      \/ pte'[s].frame = stack[n]
    BY DEF Present
  <2>1. CASE s = s0
    BY <1>1, <1>2, <2>1 DEF NotPresent
  <2>2. CASE s # s0
    BY <1>1, <2>2
  <2> QED BY <2>1, <2>2
<1>4. \A i \in 1..Len(stack') : i \in 1..Len(stack) /\ stack'[i] = stack[i]
  <2>1. n - 1 \in 0..Len(stack)
    BY <1>1 DEF n
  <2> QED BY <1>1, <2>1, TakeSeq
<1> QED BY <1>1, <1>2, <1>3, <1>4 DEF Movable

LEMMA FreeMovable ==
  ASSUME TypeOK, TreeInv, FrameInv, NEW n \in Nat, StackPages(n),
         NEW v \in ClientPages, Free(v)
  PROVE  \A f : Movable(f)' => Movable(f)
<1> DEFINE c == Cleared(v)
           k == Kept(Len(Freed(v)))
           l == Len(stack)
           w(i) == Walk(v)[i]
           more == SubSeq(Freed(v), 1, k)
<1>1. v \in Page /\ c \in 1..4
  BY PageAssumption, ClearedDef
<1>2. /\ Freed(v) \in Seq(Nat) /\ Len(Freed(v)) = c
      /\ \A i \in 1..c : Freed(v)[i] = pte[w(i)].frame % FrameLimit
  BY <1>1, FreedSeq
<1>3. k \in 0..c
  <2>1. Len(Freed(v)) \in 0..4
    BY <1>1, <1>2
  <2> QED BY <1>2, <2>1, KeptDef DEF TypeOK
<1>4. \A i \in 1..c : Freed(v)[i] = pte[w(i)].frame /\ w(i) \in Present \ KernelSlots
  <2> SUFFICES ASSUME NEW i \in 1..c
               PROVE  Freed(v)[i] = pte[w(i)].frame /\ w(i) \in Present \ KernelSlots
    OBVIOUS
  <2>1. w(i) \in Gone(v)
    BY DEF Gone
  <2>2. w(i) \in Extra(n)
    BY <2>1, GoneExtra
  <2>3. w(i) \in Present \ KernelSlots
    BY <2>2 DEF Extra
  <2>4. pte[w(i)].frame \in Nat /\ pte[w(i)].frame < FrameLimit
    BY <2>3 DEF FrameInv, FramesBelow, Present, TypeOK, Entry
  <2>5. pte[w(i)].frame % FrameLimit = pte[w(i)].frame
    BY <2>4, KernelAssumption
  <2> QED BY <1>2, <2>3, <2>5
<1>5. /\ stack' = stack \o more /\ pool' = pool /\ pte' = Unmapped(v)
      /\ stack \in Seq(Nat) /\ l \in Nat
  BY DEF Free, TypeOK
<1>6. \A s \in Present' : s \in Present /\ pte'[s].frame = pte[s].frame
  <2>1. /\ PresentIn(Unmapped(v)) = Present \ Gone(v)
        /\ \A s \in Present \ Gone(v) :
              Unmapped(v)[s] = DecEntryCount(pte[s]) \/ Unmapped(v)[s] = pte[s]
    BY <1>1, UnmappedPresent
  <2>2. Present' = Present \ Gone(v)
    BY <1>5, <2>1 DEF Present, PresentIn
  <2>3. \A s \in Present : pte[s] \in Entry
    BY DEF Present, TypeOK
  <2> QED BY <1>5, <2>1, <2>2, <2>3, DecEntryCountType
<1> HIDE DEF c, k, l, w
<1>7. /\ more \in Seq(Nat) /\ Len(more) = k
      /\ \A i \in 1..k : i \in 1..c /\ more[i] = pte[w(i)].frame
  <2>1. more \in Seq(Nat) /\ Len(more) = k
        /\ \A i \in 1..k : more[i] = Freed(v)[i] /\ i \in 1..c
    BY <1>2, <1>3, TakeSeq
  <2> QED BY <1>4, <2>1
<1> HIDE DEF more
<1>8. \A i \in 1..Len(stack') : \/ i \in 1..l /\ stack'[i] = stack[i]
                                \/ i - l \in 1..k /\ stack'[i] = more[i - l]
  <2>1. /\ Len(stack') = Len(stack) + Len(more)
        /\ \A i \in 1..(Len(stack) + Len(more)) :
              stack'[i] = IF i <= Len(stack) THEN stack[i] ELSE more[i - Len(stack)]
    BY <1>5, <1>7, ConcatProperties
  <2>2. \A i \in 1..(l + k) : /\ i <= l => i \in 1..l
                              /\ ~ (i <= l) => i - l \in 1..k
    BY <1>1, <1>3, <1>5
  <2> QED BY <1>7, <2>1, <2>2 DEF l
<1>9. \A i \in 1..k : Movable(more[i])
  BY <1>4, <1>7 DEF Movable
<1>10. ASSUME NEW f, Movable(f)'
       PROVE  Movable(f)
  <2>1. CASE \E i \in 1..Len(stack') : stack'[i] = f
    <3>1. PICK i \in 1..Len(stack') : stack'[i] = f
      BY <2>1
    <3>2. CASE i \in 1..l /\ stack'[i] = stack[i]
      BY <3>1, <3>2 DEF Movable, l
    <3>3. CASE i - l \in 1..k /\ stack'[i] = more[i - l]
      BY <1>9, <3>1, <3>3
    <3> QED BY <1>8, <3>1, <3>2, <3>3
  <2>2. CASE \E i \in 1..Len(pool') : pool'[i] = f
    BY <1>5, <2>2 DEF Movable
  <2>3. CASE \E s \in Present' \ KernelSlots : pte'[s].frame = f
    BY <1>6, <2>3 DEF Movable
  <2> QED BY <1>10, <2>1, <2>2, <2>3 DEF Movable
<1> QED BY <1>10

LEMMA NextRam ==
  TypeOK /\ RamBound /\ TreeInv /\ FrameInv /\ StackInv /\ RamInv /\ [Next]_vars => RamInv'
<1> SUFFICES ASSUME TypeOK, RamBound, TreeInv, FrameInv, StackInv, RamInv, [Next]_vars
             PROVE  RamInv'
  OBVIOUS
<1>1. CASE PushMapFrame
  BY <1>1, PushMovable DEF RamInv, PushMapFrame
<1>2. CASE EndInitialize
  BY <1>2 DEF EndInitialize, RamInv, Movable, Present
<1>3. ASSUME NEW v \in ClientPages, NEW r \in Requests, Allocate(v, r)
      PROVE  RamInv'
  <2>1. ram' = ram
    BY <1>3 DEF Allocate
  <2> QED BY <1>3, <2>1, AllocateMovable DEF RamInv
<1>4. ASSUME NEW v \in ClientPages, NEW r \in Requests,
             AllocateFaultsOnTable(v, r)
      PROVE  RamInv'
  <2>1. ram' = ram
    BY <1>4 DEF AllocateFaultsOnTable
  <2> QED BY <1>4, <2>1, AllocateFaultsOnTableMovable DEF RamInv
<1>5. ASSUME NEW v \in ClientPages, AllocateFaults(v) \/ FreeFaults(v)
      PROVE  RamInv'
  BY <1>5 DEF AllocateFaults, FreeFaults, RamInv, Movable, Present
<1>6. ASSUME NEW v \in ClientPages, Free(v)
      PROVE  RamInv'
  <2>1. ram' = ram
    BY <1>6 DEF Free
  <2>2. PICK n \in Nat : StackPages(n)
    BY DEF StackInv, StackShape
  <2> QED BY <1>6, <2>1, <2>2, FreeMovable DEF RamInv
<1>7. CASE UNCHANGED vars
  BY <1>7 DEF vars, RamInv, Movable, Present
<1> QED BY <1>1, <1>2, <1>3, <1>4, <1>5, <1>6, <1>7 DEF Next

\* What a step does to the pages of the callers.
LEMMA MappingNext ==
  ASSUME NEW D, D \subseteq ClientPages,
         \A u \in ClientPages \ D :
            /\ <<1, u>> \in Present' <=> <<1, u>> \in Present
            /\ <<1, u>> \in Present => pte'[<<1, u>>].frame = pte[<<1, u>>].frame
  PROVE  \A u \in ClientPages \ D : Mapping'[u] = Mapping[u]
<1> SUFFICES ASSUME NEW u \in ClientPages \ D PROVE Mapping'[u] = Mapping[u]
  OBVIOUS
<1>1. <<1, u>> \in Slots
  BY FirstSlot, WalkSlot, PageAssumption
<1>2. pte'[<<1, u>>].present <=> pte[<<1, u>>].present
  BY <1>1 DEF Present
<1>3. pte[<<1, u>>].present => pte'[<<1, u>>].frame = pte[<<1, u>>].frame
  BY <1>1 DEF Present
<1> QED BY <1>2, <1>3 DEF Mapping

LEMMA MappingStutters ==
  ASSUME \A u \in ClientPages :
            /\ <<1, u>> \in Present' <=> <<1, u>> \in Present
            /\ <<1, u>> \in Present => pte'[<<1, u>>].frame = pte[<<1, u>>].frame
  PROVE  Mapping' = Mapping
<1>1. \A u \in ClientPages \ {} : Mapping'[u] = Mapping[u]
  BY MappingNext
<1>2. /\ Mapping = [u \in ClientPages |-> Mapping[u]]
      /\ Mapping' = [u \in ClientPages |-> Mapping'[u]]
  BY DEF Mapping
<1> QED BY <1>1, <1>2

\* A client page has the frame of its P1 entry.
LEMMA MappingDef ==
  ASSUME NEW u \in ClientPages
  PROVE  /\ <<1, u>> \in Present => Mapping[u] = <<pte[<<1, u>>].frame>>
         /\ <<1, u>> \notin Present => Mapping[u] = << >>
<1>1. <<1, u>> \in Slots
  BY FirstSlot, WalkSlot, PageAssumption
<1> QED BY <1>1 DEF Mapping, Present

LEMMA MappingDefNext ==
  ASSUME NEW u \in ClientPages
  PROVE  /\ <<1, u>> \in Present' => Mapping'[u] = <<pte'[<<1, u>>].frame>>
         /\ <<1, u>> \notin Present' => Mapping'[u] = << >>
<1>1. <<1, u>> \in Slots
  BY FirstSlot, WalkSlot, PageAssumption
<1> QED BY <1>1 DEF Mapping, Present

LEMMA PushMapping ==
  ASSUME TreeInv, TreeInv', PushMapFrame
  PROVE  Mapping' = Mapping
<1>1. \A u \in ClientPages : <<1, u>> \notin Present /\ <<1, u>> \notin Present'
  BY DEF TreeInv, PushMapFrame
<1> QED BY <1>1, MappingStutters

\* Allocate maps the page it is called with to a frame that no caller has.
LEMMA AllocateMapping ==
  ASSUME TypeOK, RamBound, TreeInv, FrameInv', RamInv', NEW v \in ClientPages,
         NEW r \in Requests, Allocate(v, r)
  PROVE  [Client!Next]_Mapping
<1> DEFINE flags == AllocateFlags(r)
           mp == MapPage(pte, v, flags, Pops)
<1>1. /\ v \in Page /\ r \in Request /\ pte \in [Slots -> Entry]
      /\ stack \in Seq(Nat) /\ Pops \in Seq(Nat)
  BY PageAssumption, PopsSeq DEF TypeOK
<1>2. IsFlags(flags)
  BY <1>1 DEF IsFlags, AllocateFlags, Request
<1>3. pte' = mp.pte /\ ram' = ram /\ ~ stuck
  BY DEF Allocate
<1> HIDE DEF flags
<1>4. Holds(pte, mp.pte)
  <2>1. Rooted(pte)
    BY DEF TreeInv
  <2> QED BY <1>1, <1>2, <2>1, MapPageHolds
<1>5. /\ Present \subseteq Present'
      /\ \A u \in Page : <<1, u>> \in Present' => <<1, u>> \in Present \/ u = v
  BY <1>1, <1>2, <1>3, MapPageNew
<1> HIDE DEF mp
<1>6. \A s \in Present : s \in Present' /\ pte'[s].frame = pte[s].frame
  BY <1>3, <1>4, <1>5, PresentDef DEF Holds
<1>7. \A u \in ClientPages \ {v} :
         /\ <<1, u>> \in Present' <=> <<1, u>> \in Present
         /\ <<1, u>> \in Present => pte'[<<1, u>>].frame = pte[<<1, u>>].frame
  BY <1>5, <1>6, PageAssumption
<1>8. CASE <<1, v>> \in Present \/ <<1, v>> \notin Present'
  <2>1. Mapping' = Mapping
    BY <1>6, <1>7, <1>8, MappingStutters
  <2> QED BY <2>1
<1>9. CASE <<1, v>> \notin Present /\ <<1, v>> \in Present'
  <2> DEFINE f == pte'[<<1, v>>].frame
  <2>1. Mapping[v] = << >>
    BY <1>9, MappingDef
  <2>2. Mapping'[v] = <<f>>
    BY <1>9, MappingDefNext
  <2>3. \A u \in ClientPages \ {v} : Mapping'[u] = Mapping[u]
    <3>1. {v} \subseteq ClientPages
      OBVIOUS
    <3> QED BY <1>7, <3>1, MappingNext
  <2>4. Mapping' = [Mapping EXCEPT ![v] = <<f>>]
    <3>1. /\ Mapping = [u \in ClientPages |-> Mapping[u]]
          /\ Mapping' = [u \in ClientPages |-> Mapping'[u]]
      BY DEF Mapping
    <3> QED BY <2>2, <2>3, <3>1
  <2>5. f \in UNION {ToSet(m) : m \in Maps}
    <3> SUFFICES ASSUME NEW g, g = f PROVE g \in UNION {ToSet(m) : m \in Maps}
      OBVIOUS
    <3>1. <<1, v>> \notin KernelSlots
      BY PageAssumption, KernelFirst
    <3>2. Movable(g)'
      BY <1>9, <3>1 DEF Movable
    <3>3. g \in ToSet(ram) /\ ram \in Maps
      BY <1>3, <3>2 DEF RamInv, RamBound
    <3> QED BY <3>3
  <2>6. \A u \in ClientPages : Mapping[u] # <<f>>
    <3> SUFFICES ASSUME NEW u \in ClientPages, Mapping[u] = <<f>> PROVE FALSE
      OBVIOUS
    <3>1. <<1, u>> \in Present /\ pte[<<1, u>>].frame = f
      BY MappingDef
    <3>2. <<1, u>> \in Present' /\ pte'[<<1, u>>].frame = f
      BY <1>6, <3>1
    <3>3. <<1, u>> = <<1, v>>
      BY <1>9, <3>2 DEF FrameInv, FramesExclusive, EntriesApart
    <3> QED BY <1>9, <3>1, <3>3
  <2> HIDE DEF f
  <2>7. Client!Map(v)
    BY <2>1, <2>4, <2>5, <2>6 DEF Client!Map, Client!Taken
  <2> QED BY <2>7 DEF Client!Next
<1> QED BY <1>8, <1>9

\* A table that faults is no page of a caller.
LEMMA AllocateFaultsOnTableMapping ==
  ASSUME TypeOK, NEW v \in ClientPages, NEW r \in Requests,
         AllocateFaultsOnTable(v, r)
  PROVE  Mapping' = Mapping
<1> DEFINE s0 == Walk(v)[Missing(pte, v)]
<1>1. Missing(pte, v) \in 2..4 /\ Missing(pte, v) \in 1..4
  <2>1. Missing(pte, v) \in 0..4 /\ ~ (Missing(pte, v) < 2)
    BY PageAssumption, MissingDef DEF AllocateFaultsOnTable, CanZeroTable
  <2> QED BY <2>1
<1>2. s0[1] \in 2..4
  BY <1>1, PageAssumption, WalkSlot
<1>3. pte' = [pte EXCEPT ![s0] =
                [NotPresent EXCEPT !.present = TRUE, !.frame = Head(Pops),
                                   !.user = r.user]]
  BY DEF AllocateFaultsOnTable
<1> HIDE DEF s0
<1>4. \A u : <<1, u>> # s0
  BY <1>2
<1>5. \A u \in ClientPages : pte'[<<1, u>>] = pte[<<1, u>>]
  BY <1>3, <1>4 DEF TypeOK
<1> QED BY <1>5, MappingStutters DEF Present

\* Free unmaps the page it is called with.
LEMMA FreeMapping ==
  ASSUME TypeOK, NEW v \in ClientPages, Free(v)
  PROVE  Client!Next
<1>1. v \in Page /\ Missing(pte, v) = 0 /\ pte' = Unmapped(v)
  BY PageAssumption DEF Free
<1>2. /\ PresentIn(Unmapped(v)) = Present \ Gone(v)
      /\ \A s \in Present \ Gone(v) :
            Unmapped(v)[s] = DecEntryCount(pte[s]) \/ Unmapped(v)[s] = pte[s]
      /\ \A s \in Slots : s \in Gone(v) <=> s = Walk(v)[s[1]] /\ s[1] <= Cleared(v)
  BY <1>1, UnmappedPresent
<1>3. Present' = Present \ Gone(v)
  BY <1>1, <1>2 DEF Present, PresentIn
<1>4. <<1, v>> \in Present /\ <<1, v>> \in Gone(v)
  <2>1. 1 \in 1..4 /\ 1 \in 1..Cleared(v)
    BY <1>1, ClearedDef
  <2> QED BY <1>1, <2>1, WalkPresent, FirstSlot DEF Gone
<1>5. \A u \in ClientPages \ {v} : <<1, u>> \notin Gone(v)
  <2> SUFFICES ASSUME NEW u \in ClientPages, <<1, u>> \in Gone(v) PROVE u = v
    OBVIOUS
  <2>1. <<1, u>> \in Slots
    BY FirstSlot, WalkSlot, PageAssumption
  <2>2. <<1, u>> = Walk(v)[1]
    BY <1>2, <2>1
  <2> QED BY <2>2, FirstSlot
<1>6. \A s \in Present \ Gone(v) : pte'[s].frame = pte[s].frame
  <2>1. \A s \in Present : pte[s] \in Entry
    BY DEF Present, TypeOK
  <2> QED BY <1>1, <1>2, <2>1, DecEntryCountType
<1>7. \A u \in ClientPages \ {v} : Mapping'[u] = Mapping[u]
  <2>1. {v} \subseteq ClientPages
    OBVIOUS
  <2> QED BY <1>3, <1>5, <1>6, <2>1, MappingNext
<1>8. Mapping'[v] = << >>
  BY <1>3, <1>4, MappingDefNext
<1>9. Mapping[v] # << >>
  BY <1>4, MappingDef
<1>10. Mapping' = [Mapping EXCEPT ![v] = << >>]
  <2>1. /\ Mapping = [u \in ClientPages |-> Mapping[u]]
        /\ Mapping' = [u \in ClientPages |-> Mapping'[u]]
    BY DEF Mapping
  <2> QED BY <1>7, <1>8, <2>1
<1> QED BY <1>9, <1>10 DEF Client!Next, Client!Unmap

LEMMA NextMapping ==
  /\ TypeOK /\ RamBound /\ TreeInv
  /\ TreeInv' /\ FrameInv' /\ RamInv'
  /\ [Next]_vars
  => [Client!Next]_Mapping
<1> SUFFICES ASSUME TypeOK, RamBound, TreeInv, TreeInv', FrameInv', RamInv', [Next]_vars
             PROVE  [Client!Next]_Mapping
  OBVIOUS
<1>1. CASE PushMapFrame
  BY <1>1, PushMapping
<1>2. CASE EndInitialize
  BY <1>2 DEF EndInitialize, Mapping
<1>3. ASSUME NEW v \in ClientPages, NEW r \in Requests, Allocate(v, r)
      PROVE  [Client!Next]_Mapping
  BY <1>3, AllocateMapping
<1>4. ASSUME NEW v \in ClientPages, NEW r \in Requests,
             AllocateFaultsOnTable(v, r)
      PROVE  [Client!Next]_Mapping
  BY <1>4, AllocateFaultsOnTableMapping
<1>5. ASSUME NEW v \in ClientPages, AllocateFaults(v) \/ FreeFaults(v)
      PROVE  [Client!Next]_Mapping
  BY <1>5 DEF AllocateFaults, FreeFaults, Mapping
<1>6. ASSUME NEW v \in ClientPages, Free(v)
      PROVE  [Client!Next]_Mapping
  BY <1>6, FreeMapping
<1>7. CASE UNCHANGED vars
  BY <1>7 DEF vars, Mapping
<1> QED BY <1>1, <1>2, <1>3, <1>4, <1>5, <1>6, <1>7 DEF Next

LEMMA InitMapping == ASSUME Init PROVE Client!Init
<1>1. Present \subseteq KernelSlots
  BY DEF Init, Present, NotPresent
<1>2. \A u \in ClientPages : <<1, u>> \notin Present
  BY <1>1, PageAssumption, KernelFirst
<1>3. \A u \in ClientPages : Mapping[u] = << >>
  BY <1>2, MappingDef
<1>4. Mapping = [u \in ClientPages |-> Mapping[u]]
  BY DEF Mapping
<1> QED BY <1>3, <1>4 DEF Client!Init

\* The page tables and the frame stack implement what memory.hpp promises: a
\* call changes the page it names and no other, and what it maps is a frame of
\* the machine that no other caller's page has. All the work on tables, counts
\* and the stack, calls that fail and calls that fault are invisible.
THEOREM AddressSpaceImplemented ==
  ASSUME LowMemory PROVE Spec => ImplementsAddressSpace
<1>1. Spec => [](TypeOK /\ RamBound /\ TreeInv)
  BY TreeHolds
<1>2. Init => FrameInv /\ StackInv /\ RamInv
  BY InitFrameInv, InitShape, InitRam DEF StackInv
<1>3. TypeOK /\ RamBound /\ TreeInv /\ FrameInv /\ StackInv /\ RamInv /\ [Next]_vars
        => FrameInv' /\ StackInv' /\ RamInv'
  BY NextFrameInv, NextStackInv, NextRam
<1>4. Init => Client!Init
  BY InitMapping
<1> QED BY <1>1, <1>2, <1>3, <1>4, NextMapping, PTL
        DEF Spec, ImplementsAddressSpace, Client!Spec
=============================================================================
