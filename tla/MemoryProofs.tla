---------------------------- MODULE MemoryProofs ----------------------------
(***************************************************************************)
(* Proofs about Memory, for tables of any size, any kernel, machine and    *)
(* client pages that satisfy the assumptions of that module.               *)
(***************************************************************************)
EXTENDS Memory, FiniteSetTheorems, SequenceTheorems, TLAPS

-----------------------------------------------------------------------------
(***************************************************************************)
(* Slots: the entries that translate a page, and the tree they form.       *)
(***************************************************************************)
LEMMA WalkSlot ==
  ASSUME NEW v \in Page, NEW x \in 1..4
  PROVE  /\ Walk(v)[x] \in Slots
         /\ Walk(v)[x][1] = x
         /\ Walk(v)[x][2] \in Nat
<1>1. /\ Entries \in Nat /\ Entries > 1 /\ v \in Nat
  BY KernelAssumption, PageAssumption
<1>2. /\ v \div Entries \in Nat
      /\ (v \div Entries) \div Entries \in Nat
      /\ ((v \div Entries) \div Entries) \div Entries \in Nat
  BY <1>1
<1>3. x = 1 \/ x = 2 \/ x = 3 \/ x = 4
  OBVIOUS
<1>4. Walk(v)[x] \in Slots
  BY DEF Slots
<1> QED BY <1>1, <1>2, <1>3, <1>4 DEF Walk

\* The entry above in a walk is the parent.
LEMMA WalkParent ==
  ASSUME NEW v \in Page, NEW x \in 1..3
  PROVE  Parent(Walk(v)[x]) = Walk(v)[x + 1]
<1>1. x = 1 \/ x = 2 \/ x = 3
  OBVIOUS
<1> QED BY <1>1 DEF Walk, Parent

\* Every slot is the slot of some page, at its own level.
LEMMA SlotWalk ==
  ASSUME NEW s \in Slots
  PROVE  /\ s[1] \in 1..4
         /\ \E v \in Page : s = Walk(v)[s[1]]
         /\ s[1] < 4 => Parent(s) \in Slots /\ Parent(s)[1] = s[1] + 1
<1>1. PICK v \in Page, x \in 1..4 : s = Walk(v)[x]
  BY DEF Slots
<1>2. s[1] = x
  BY <1>1, WalkSlot
<1>3. s[1] < 4 => Parent(s) = Walk(v)[x + 1] /\ x + 1 \in 1..4
  BY <1>1, <1>2, WalkParent
<1> QED BY <1>1, <1>2, <1>3, WalkSlot

LEMMA SlotsFinite == IsFiniteSet(Slots)
<1> DEFINE f(x) == [v \in Page |-> Walk(v)[x]]
           At(x) == {f(x)[v] : v \in Page}
<1>1. ASSUME NEW x PROVE IsFiniteSet(At(x))
  <2>1. f(x) \in Surjection(Page, At(x))
    BY DEF Surjection
  <2> QED BY <2>1, FS_Surjection, PageAssumption
<1>2. Slots = At(1) \cup At(2) \cup At(3) \cup At(4)
  <2>1. 1..4 = {1, 2, 3, 4}
    OBVIOUS
  <2> QED BY <2>1 DEF Slots
<1> HIDE DEF At
<1> QED BY <1>1, <1>2, FS_Union

-----------------------------------------------------------------------------
(***************************************************************************)
(* MapPage.                                                                *)
(***************************************************************************)
IsFlags(f) == f.write \in BOOLEAN /\ f.user \in BOOLEAN /\ f.nx \in BOOLEAN

\* Missing is the lowest level without an entry, all above it having one.
LEMMA MissingDef ==
  ASSUME NEW pt, NEW v
  PROVE  /\ Missing(pt, v) \in 0..4
         /\ \A x \in (Missing(pt, v) + 1)..4 : pt[Walk(v)[x]].present
         /\ Missing(pt, v) > 0 => ~ pt[Walk(v)[Missing(pt, v)]].present
<1> DEFINE P(x) == pt[Walk(v)[x]].present
           IsMissing(m) == /\ \A x \in (m + 1)..4 : P(x)
                           /\ m > 0 => ~ P(m)
<1>1. \E m \in 0..4 : IsMissing(m)
  <2>1. CASE ~ P(4)
    <3>1. IsMissing(4)
      BY <2>1
    <3> QED BY <3>1
  <2>2. CASE P(4) /\ ~ P(3)
    <3>1. IsMissing(3)
      BY <2>2
    <3> QED BY <3>1
  <2>3. CASE P(4) /\ P(3) /\ ~ P(2)
    <3>1. \A x \in 3..4 : x = 3 \/ x = 4
      OBVIOUS
    <3>2. IsMissing(2)
      BY <2>3, <3>1
    <3> QED BY <3>2
  <2>4. CASE P(4) /\ P(3) /\ P(2) /\ ~ P(1)
    <3>1. \A x \in 2..4 : x = 2 \/ x = 3 \/ x = 4
      OBVIOUS
    <3>2. IsMissing(1)
      BY <2>4, <3>1
    <3> QED BY <3>2
  <2>5. CASE P(4) /\ P(3) /\ P(2) /\ P(1)
    <3>1. \A x \in 1..4 : x = 1 \/ x = 2 \/ x = 3 \/ x = 4
      OBVIOUS
    <3>2. IsMissing(0)
      BY <2>5, <3>1
    <3> QED BY <3>2
  <2> QED BY <2>1, <2>2, <2>3, <2>4, <2>5
<1> QED BY <1>1 DEF Missing

LEMMA IncEntryCountType ==
  ASSUME NEW e \in Entry
  PROVE  /\ IncEntryCount(e) \in Entry
         /\ IncEntryCount(e).present = e.present
         /\ IncEntryCount(e).frame = e.frame
         /\ IncEntryCount(e).write = e.write
         /\ IncEntryCount(e).count = (e.count + 1) % Entries
<1>1. e.count \in 0..(Entries - 1)
  BY DEF Entry
<1>2. (e.count + 1) % Entries \in 0..(Entries - 1)
  BY <1>1, KernelAssumption
<1> QED BY <1>1, <1>2 DEF Entry, IncEntryCount

\* The entries that MapPage fills, with f frames to be had.
LastFilled(pt, v, f) == IF f < Missing(pt, v) THEN Missing(pt, v) - f ELSE 0

Filled(pt, v, f) == {Walk(v)[x] : x \in (LastFilled(pt, v, f) + 1)..Missing(pt, v)}

LEMMA FillArithmetic ==
  ASSUME NEW t \in 0..4, NEW f \in Nat
  PROVE  LET k == IF f < t THEN f ELSE t
             l == IF f < t THEN t - f ELSE 0
         IN  l = t - k /\ k \in 0..4 /\ k <= f
<1>1. CASE f < t
  BY <1>1
<1>2. CASE ~ (f < t)
  BY <1>2
<1> QED BY <1>1, <1>2

LEMMA FillIndex ==
  ASSUME NEW t \in 0..4, NEW k \in 0..4, NEW n \in Nat, k <= n,
         NEW x \in 1..4, t - k < x, x <= t
  PROVE  t - x + 1 \in 1..n
  OBVIOUS

\* What MapPage returns. The levels it fills get the frames of src in order,
\* what lies below a new table is cleared, the entry above the topmost new one
\* counts it, and nothing else changes.
LEMMA MapPageResult ==
  ASSUME NEW pt \in [Slots -> Entry], NEW v \in Page,
         NEW flags, IsFlags(flags), NEW src \in Seq(Nat)
  PROVE  LET m    == MapPage(pt, v, flags, src)
             top  == Missing(pt, v)
             last == LastFilled(pt, v, Len(src))
             new  == Filled(pt, v, Len(src))
         IN  /\ top \in 0..4 /\ last \in 0..top
             /\ m.taken \in 0..4 /\ m.taken <= Len(src)
             /\ m.taken = top - last
             /\ m.ok = (last = 0)
             /\ m.pte \in [Slots -> Entry]
             /\ new \subseteq Slots
             /\ \A s \in Slots : s \in new <=> /\ s = Walk(v)[s[1]]
                                              /\ last < s[1] /\ s[1] <= top
             /\ \A s \in new : /\ m.pte[s].present
                               /\ m.pte[s].frame = src[top - s[1] + 1]
                               /\ top - s[1] + 1 \in 1..m.taken
                               /\ m.pte[s].write = flags.write
                               /\ m.pte[s].count = IF s[1] = last + 1 THEN 0
                                                                      ELSE 1
             /\ \A s \in Slots \ new :
                   IF Parent(s) \in new
                   THEN m.pte[s] = NotPresent
                   ELSE IF last < top /\ top < 4 /\ s = Walk(v)[top + 1]
                        THEN m.pte[s] = IncEntryCount(pt[s])
                        ELSE m.pte[s] = pt[s]
<1> DEFINE m    == MapPage(pt, v, flags, src)
           top  == Missing(pt, v)
           last == LastFilled(pt, v, Len(src))
           new  == Filled(pt, v, Len(src))
           taken == IF Len(src) < top THEN Len(src) ELSE top
           New(s)   == last < s[1] /\ s[1] <= top /\ s = Walk(v)[s[1]]
           Fresh(x) == [present |-> TRUE, frame |-> src[top - x + 1],
                        write |-> flags.write, user |-> flags.user,
                        nx |-> flags.nx, count |-> 0]
           After(s) ==
             CASE New(s) /\ s[1] > last + 1 -> IncEntryCount(Fresh(s[1]))
               [] New(s) /\ s[1] = last + 1 -> Fresh(s[1])
               [] ~ New(s) /\ New(Parent(s)) -> NotPresent
               [] ~ New(s) /\ taken > 0 /\ top < 4
                    /\ s = Walk(v)[top + 1] -> IncEntryCount(pt[s])
               [] OTHER -> pt[s]
<1>1. top \in 0..4 /\ Len(src) \in Nat /\ last \in 0..4 /\ last <= top
  BY MissingDef DEF LastFilled
<1>2. last = top - taken /\ taken \in 0..4 /\ taken <= Len(src)
  BY <1>1, FillArithmetic DEF LastFilled
<1>3. /\ m.taken = taken
      /\ m.ok = (taken = top)
      /\ m.pte = [s \in Slots |-> After(s)]
  BY <1>1, <1>2 DEF MapPage
<1>4. \A s \in Slots : s[1] \in 1..4
  BY SlotWalk
<1>5. \A s : s[1] \in 1..5 => (New(s) <=> s \in new)
  <2>1. \A x \in (last + 1)..top : x \in 1..4 /\ Walk(v)[x][1] = x
    BY <1>1, WalkSlot
  <2> QED BY <1>1, <2>1 DEF Filled
<1>6. \A s \in Slots : /\ New(s) <=> s \in new
                       /\ New(Parent(s)) <=> Parent(s) \in new
  <2> HIDE DEF New, new
  <2>1. \A s \in Slots : s[1] \in 1..5 /\ Parent(s)[1] \in 1..5
    BY <1>4 DEF Parent
  <2> QED BY <1>5, <2>1
<1> HIDE DEF taken, m, top, new, last, New
<1>7. \A s \in Slots : s \in new => last < s[1] /\ s[1] <= top
  BY <1>6 DEF New
<1>8. ASSUME NEW s \in new, s \in Slots
      PROVE  /\ After(s) \in Entry
             /\ After(s).present
             /\ After(s).frame = src[top - s[1] + 1]
             /\ top - s[1] + 1 \in 1..taken
             /\ After(s).write = flags.write
             /\ After(s).count = IF s[1] = last + 1 THEN 0 ELSE 1
  <2>1. last < s[1] /\ s[1] <= top /\ s[1] \in 1..4
    BY <1>4, <1>7, <1>8
  <2>2. /\ top - s[1] + 1 \in 1..Len(src)
        /\ top - s[1] + 1 \in 1..taken
    <3>1. taken <= taken /\ taken \in Nat
      BY <1>2
    <3> QED BY <1>1, <1>2, <2>1, <3>1, FillIndex
  <2>3. Fresh(s[1]) \in Entry
    BY <2>2, KernelAssumption DEF Entry, IsFlags
  <2>4. (0 + 1) % Entries = 1 /\ 1 \in 0..(Entries - 1)
    BY KernelAssumption
  <2> DEFINE e == Fresh(s[1])
  <2>5. /\ IncEntryCount(e) \in Entry
        /\ IncEntryCount(e).count = 1
    BY <2>3, <2>4 DEF Entry, IncEntryCount
  <2>6. After(s) = IF s[1] = last + 1 THEN e ELSE IncEntryCount(e)
    <3>1. New(s)
      BY <1>6, <1>8
    <3>2. s[1] = last + 1 \/ s[1] > last + 1
      BY <1>1, <2>1
    <3> HIDE DEF New
    <3> QED BY <1>1, <3>1, <3>2, <2>1
  <2>7. CASE s[1] = last + 1
    BY <2>2, <2>3, <2>6, <2>7
  <2>8. CASE s[1] # last + 1
    <3>1. After(s) = IncEntryCount(e)
      BY <2>6, <2>8
    <3> QED BY <2>2, <2>5, <2>8, <3>1 DEF IncEntryCount
  <2> QED BY <2>7, <2>8
<1>9. ASSUME NEW s \in Slots, s \notin new, Parent(s) \in new
      PROVE  After(s) = NotPresent
  <2>1. ~ New(s) /\ New(Parent(s))
    BY <1>6, <1>9
  <2>2. ~ (top < 4 /\ s = Walk(v)[top + 1])
    <3> SUFFICES ASSUME top < 4, s = Walk(v)[top + 1] PROVE FALSE
      OBVIOUS
    <3>1. s[1] = top + 1
      BY <1>1, WalkSlot
    <3>2. Parent(s)[1] = top + 2
      BY <1>1, <3>1 DEF Parent
    <3> QED BY <1>1, <2>1, <3>2 DEF New
  <2> HIDE DEF New
  <2> QED BY <2>1, <2>2
<1>10. ASSUME NEW s \in Slots, s \notin new, Parent(s) \notin new
       PROVE  After(s) = IF last < top /\ top < 4 /\ s = Walk(v)[top + 1]
                         THEN IncEntryCount(pt[s]) ELSE pt[s]
  <2>1. ~ New(s) /\ ~ New(Parent(s))
    BY <1>6, <1>10
  <2>2. taken > 0 <=> last < top
    BY <1>1, <1>2
  <2> HIDE DEF New
  <2> QED BY <2>1, <2>2
<1> HIDE DEF After
<1>11. \A s \in Slots : m.pte[s] = After(s)
  BY <1>3
<1>12. new \subseteq Slots
  <2>1. (last + 1)..top \subseteq 1..4
    BY <1>1
  <2> QED BY <2>1, WalkSlot DEF new, Filled, last, top
<1>13. \A s \in Slots : s \in new <=> /\ s = Walk(v)[s[1]]
                                     /\ last < s[1] /\ s[1] <= top
  BY <1>6 DEF New
<1>14. \A s \in Slots : After(s) \in Entry
  <2> SUFFICES ASSUME NEW s \in Slots PROVE After(s) \in Entry
    OBVIOUS
  <2>1. CASE s \in new
    BY <1>8, <2>1
  <2>2. CASE s \notin new /\ Parent(s) \in new
    <3>1. NotPresent \in Entry
      BY KernelAssumption DEF NotPresent, Entry
    <3> QED BY <1>9, <2>2, <3>1
  <2>3. CASE s \notin new /\ Parent(s) \notin new
    BY <1>10, <2>3, IncEntryCountType
  <2> QED BY <2>1, <2>2, <2>3
<1>15. m.pte \in [Slots -> Entry]
  BY <1>3, <1>14
<1>16. m.ok = (last = 0)
  BY <1>1, <1>2, <1>3
<1>17. \A s \in new : /\ m.pte[s].present
                      /\ m.pte[s].frame = src[top - s[1] + 1]
                      /\ top - s[1] + 1 \in 1..m.taken
                      /\ m.pte[s].write = flags.write
                      /\ m.pte[s].count = IF s[1] = last + 1 THEN 0 ELSE 1
  BY <1>3, <1>8, <1>11, <1>12
<1>18. \A s \in Slots \ new :
          IF Parent(s) \in new
          THEN m.pte[s] = NotPresent
          ELSE IF last < top /\ top < 4 /\ s = Walk(v)[top + 1]
               THEN m.pte[s] = IncEntryCount(pt[s])
               ELSE m.pte[s] = pt[s]
  BY <1>9, <1>10, <1>11
<1>19. /\ top \in 0..4 /\ last \in 0..top
       /\ m.taken \in 0..4 /\ m.taken <= Len(src)
       /\ m.taken = top - last
  BY <1>1, <1>2, <1>3
<1> QED
  BY <1>12, <1>13, <1>15, <1>16, <1>17, <1>18, <1>19 DEF m, top, last, new

\* The part of it that type correctness needs.
LEMMA MapPageType ==
  ASSUME NEW pt \in [Slots -> Entry], NEW v \in Page,
         NEW flags, IsFlags(flags), NEW src \in Seq(Nat)
  PROVE  /\ MapPage(pt, v, flags, src).pte \in [Slots -> Entry]
         /\ MapPage(pt, v, flags, src).ok \in BOOLEAN
         /\ MapPage(pt, v, flags, src).ok <=> LastFilled(pt, v, Len(src)) = 0
         /\ MapPage(pt, v, flags, src).taken \in 0..Len(src)
<1> DEFINE m == MapPage(pt, v, flags, src)
<1>1. /\ m.pte \in [Slots -> Entry]
      /\ m.taken \in 0..4 /\ m.taken <= Len(src)
      /\ m.ok = (LastFilled(pt, v, Len(src)) = 0)
  BY MapPageResult
<1> HIDE DEF m
<1>2. m.taken \in 0..Len(src)
  <2>1. Len(src) \in Nat
    OBVIOUS
  <2> QED BY <1>1, <2>1
<1> QED BY <1>1, <1>2 DEF m

-----------------------------------------------------------------------------
(***************************************************************************)
(* Sequences: what is left of one when its first k or all but its first k  *)
(* elements are dropped.                                                   *)
(***************************************************************************)
LEMMA DropSeq ==
  ASSUME NEW s \in Seq(Nat), NEW k \in 0..Len(s)
  PROVE  /\ SubSeq(s, k + 1, Len(s)) \in Seq(Nat)
         /\ Len(SubSeq(s, k + 1, Len(s))) = Len(s) - k
         /\ \A i \in 1..(Len(s) - k) :
               /\ SubSeq(s, k + 1, Len(s))[i] = s[k + i]
               /\ k + i \in 1..Len(s)
<1>1. Len(s) \in Nat /\ k \in Nat /\ k <= Len(s)
  OBVIOUS
<1>2. \A i \in (k + 1)..Len(s) : s[i] \in Nat
  BY <1>1
<1>3. \A i \in 1..(Len(s) - k) : (k + 1) + i - 1 = k + i /\ k + i \in 1..Len(s)
  BY <1>1
<1>4. Len(s) - (k + 1) + 1 = Len(s) - k
  BY <1>1
<1>5. (IF k + 1 <= Len(s) THEN Len(s) - (k + 1) + 1 ELSE 0) = Len(s) - k
  BY <1>1
<1> DEFINE t == SubSeq(s, k + 1, Len(s))
<1>6. /\ t \in Seq(Nat)
      /\ Len(t) = IF k + 1 <= Len(s) THEN Len(s) - (k + 1) + 1 ELSE 0
      /\ \A i \in 1..(Len(s) - (k + 1) + 1) : t[i] = s[(k + 1) + i - 1]
  BY <1>1, <1>2, SubSeqProperties
<1> HIDE DEF t
<1>7. t \in Seq(Nat) /\ Len(t) = Len(s) - k
  BY <1>5, <1>6
<1>8. \A i \in 1..(Len(s) - k) : t[i] = s[k + i] /\ k + i \in 1..Len(s)
  BY <1>3, <1>4, <1>6
<1> QED BY <1>7, <1>8 DEF t

LEMMA TakeSeq ==
  ASSUME NEW s \in Seq(Nat), NEW k \in 0..Len(s)
  PROVE  /\ SubSeq(s, 1, k) \in Seq(Nat)
         /\ Len(SubSeq(s, 1, k)) = k
         /\ \A i \in 1..k : SubSeq(s, 1, k)[i] = s[i] /\ i \in 1..Len(s)
<1>1. Len(s) \in Nat /\ k \in Nat /\ k <= Len(s)
  OBVIOUS
<1>2. \A i \in 1..k : s[i] \in Nat /\ i \in 1..Len(s) /\ 1 + i - 1 = i
  BY <1>1
<1>3. k - 1 + 1 = k /\ (IF 1 <= k THEN k - 1 + 1 ELSE 0) = k
  BY <1>1
<1> QED BY <1>1, <1>2, <1>3, SubSeqProperties

-----------------------------------------------------------------------------
(***************************************************************************)
(* The frame stack and the tables that Initialize builds.                  *)
(***************************************************************************)
\* Pops lists the stack from its top.
LEMMA PopsSeq ==
  ASSUME stack \in Seq(Nat)
  PROVE  /\ Pops \in Seq(Nat)
         /\ Len(Pops) = Len(stack)
         /\ \A i \in 1..Len(stack) : Pops[i] = stack[Len(stack) - i + 1]
<1> DEFINE n == Len(stack)
           Popped(i) == stack[n - i + 1]
<1>1. n \in Nat
  OBVIOUS
<1>2. \A i \in 1..n : n - i + 1 \in 1..n
  BY <1>1
<1>3. \A i \in 1..n : Popped(i) \in Nat
  BY <1>2
<1>4. Pops = [i \in 1..n |-> Popped(i)]
  BY DEF Pops, Reverse
<1> HIDE DEF n, Popped
<1>5. Pops \in Seq(Nat) /\ Len(Pops) = n
  BY <1>1, <1>3, <1>4
<1> QED BY <1>4, <1>5 DEF n, Popped

\* How many levels UnmapPage clears.
LEMMA ClearedDef ==
  ASSUME NEW v
  PROVE  /\ Cleared(v) \in 1..4
         /\ \A x \in 2..Cleared(v) : ~ HasEntries(DecEntryCount(pte[Walk(v)[x]]))
         /\ Cleared(v) < 4 =>
               HasEntries(DecEntryCount(pte[Walk(v)[Cleared(v) + 1]]))
<1> DEFINE H(x) == HasEntries(DecEntryCount(pte[Walk(v)[x]]))
           IsCleared(c) == (\A x \in 2..c : ~ H(x)) /\ (c < 4 => H(c + 1))
<1>1. \E c \in 1..4 : IsCleared(c)
  <2> HIDE DEF H
  <2>1. CASE H(2)
    <3>1. IsCleared(1)
      BY <2>1
    <3> QED BY <3>1
  <2>2. CASE ~ H(2) /\ H(3)
    <3>1. \A x \in 2..2 : x = 2
      OBVIOUS
    <3>2. IsCleared(2)
      BY <2>2, <3>1
    <3> QED BY <3>2
  <2>3. CASE ~ H(2) /\ ~ H(3) /\ H(4)
    <3>1. \A x \in 2..3 : x = 2 \/ x = 3
      OBVIOUS
    <3>2. IsCleared(3)
      BY <2>3, <3>1
    <3> QED BY <3>2
  <2>4. CASE ~ H(2) /\ ~ H(3) /\ ~ H(4)
    <3>1. \A x \in 2..4 : x = 2 \/ x = 3 \/ x = 4
      OBVIOUS
    <3>2. IsCleared(4)
      BY <2>4, <3>1
    <3> QED BY <3>2
  <2> QED BY <2>1, <2>2, <2>3, <2>4
<1> QED BY <1>1 DEF Cleared

\* How many of n pushes are kept.
LEMMA KeptDef ==
  ASSUME stack \in Seq(Nat), NEW n \in 0..4
  PROVE  /\ Kept(n) \in 0..n
         /\ \A i \in 1..Kept(n) : StackMapped(Len(stack) + i - 1)
         /\ Kept(n) < n => ~ StackMapped(Len(stack) + Kept(n))
<1> DEFINE S(j) == StackMapped(Len(stack) + j)
           IsKept(k) == /\ \A i \in 1..k : StackMapped(Len(stack) + i - 1)
                        /\ k < n => ~ S(k)
<1>1. \A i \in 1..4 : Len(stack) + i - 1 = Len(stack) + (i - 1)
  OBVIOUS
<1>2. ASSUME NEW k \in 0..n, \A j \in 0..(k - 1) : S(j), k < n => ~ S(k)
      PROVE  IsKept(k)
  <2>1. ASSUME NEW i \in 1..k PROVE StackMapped(Len(stack) + i - 1)
    <3>1. i - 1 \in 0..(k - 1) /\ i \in 1..4
      OBVIOUS
    <3>2. S(i - 1)
      BY <1>2, <3>1
    <3> QED BY <1>1, <3>1, <3>2
  <2> QED BY <1>2, <2>1
<1> HIDE DEF S
<1>3. \E k \in 0..n : (\A j \in 0..(k - 1) : S(j)) /\ (k < n => ~ S(k))
  <2>1. CASE n > 0 /\ ~ S(0)
    <3>a. 0 \in 0..n
      BY <2>1
    <3> WITNESS 0 \in 0..n
    <3> QED BY <2>1
  <2>2. CASE n > 1 /\ S(0) /\ ~ S(1)
    <3>a. 1 \in 0..n
      BY <2>2
    <3> WITNESS 1 \in 0..n
    <3>1. \A j \in 0..(1 - 1) : j = 0
      OBVIOUS
    <3> QED BY <2>2, <3>1
  <2>3. CASE n > 2 /\ S(0) /\ S(1) /\ ~ S(2)
    <3>a. 2 \in 0..n
      BY <2>3
    <3> WITNESS 2 \in 0..n
    <3>1. \A j \in 0..(2 - 1) : j = 0 \/ j = 1
      OBVIOUS
    <3> QED BY <2>3, <3>1
  <2>4. CASE n > 3 /\ S(0) /\ S(1) /\ S(2) /\ ~ S(3)
    <3>a. 3 \in 0..n
      BY <2>4
    <3> WITNESS 3 \in 0..n
    <3>1. \A j \in 0..(3 - 1) : j = 0 \/ j = 1 \/ j = 2
      OBVIOUS
    <3> QED BY <2>4, <3>1
  <2>5. CASE \A j \in 0..(n - 1) : S(j)
    <3> WITNESS n \in 0..n
    <3> QED BY <2>5
  <2>6. n = 0 \/ n = 1 \/ n = 2 \/ n = 3 \/ n = 4
    OBVIOUS
  <2>7. \A j \in 0..(n - 1) : \/ n > 0 /\ j = 0
                              \/ n > 1 /\ j = 1
                              \/ n > 2 /\ j = 2
                              \/ n > 3 /\ j = 3
    BY <2>6
  <2> QED BY <2>1, <2>2, <2>3, <2>4, <2>5, <2>6, <2>7
<1>4. \E k \in 0..n : IsKept(k)
  BY <1>2, <1>3
<1>5. \E k \in 0..n : /\ \A i \in 1..k : StackMapped(Len(stack) + i - 1)
                      /\ k < n => ~ StackMapped(Len(stack) + k)
  BY <1>4 DEF S
<1> QED BY <1>5 DEF Kept

LEMMA DivMono ==
  ASSUME NEW a \in Nat, NEW b \in Nat, a <= b
  PROVE  a \div Entries <= b \div Entries
<1>1. Entries \in Nat /\ Entries > 0
  BY KernelAssumption
<1> QED BY <1>1

\* The tables that Initialize builds hold entries.
LEMMA KernelEntryType ==
  ASSUME NEW s \in KernelSlots
  PROVE  KernelEntry(s) \in Entry /\ KernelEntry(s).present
<1>1. PICK v \in KernelPage, x \in 1..4 : s = Walk(v)[x]
  BY DEF KernelSlots
<1>2. v \in Page /\ v \in Nat /\ v >= KernelBase /\ KernelBase \in Nat
  BY KernelAssumption, PageAssumption DEF KernelPage
<1>3. s[1] = x /\ s[2] \in Nat
  BY <1>1, <1>2, WalkSlot
<1>4. CASE x = 1
  <2>1. s[2] = v
    BY <1>1, <1>4 DEF Walk
  <2> QED
    BY <1>2, <1>3, <1>4, <2>1, KernelAssumption DEF KernelEntry, Entry
<1>5. CASE x # 1
  <2>1. KernelTableFrame(s) \in Nat
    <3>1. CASE x = 2
      <4>1. s[2] = v \div Entries
        BY <1>1, <3>1 DEF Walk
      <4>2. /\ KernelBase \div Entries <= v \div Entries
            /\ KernelBase \div Entries \in Nat /\ v \div Entries \in Nat
        BY <1>2, DivMono, KernelAssumption
      <4> QED
        BY <1>3, <3>1, <4>1, <4>2, KernelAssumption DEF KernelTableFrame
    <3>2. CASE x = 3 \/ x = 4
      BY <1>3, <3>2, KernelAssumption DEF KernelTableFrame
    <3> QED BY <1>5, <3>1, <3>2
  <2>2. Cardinality(Below(s) \cap KernelSlots) \in Nat
    <3>1. Below(s) \cap KernelSlots \subseteq Slots
      BY DEF Below
    <3> QED BY <3>1, SlotsFinite, FS_Subset, FS_CardinalityType
  <2>3. Cardinality(Below(s) \cap KernelSlots) % Entries \in 0..(Entries - 1)
    BY <2>2, KernelAssumption
  <2> QED BY <1>3, <1>5, <2>1, <2>3 DEF KernelEntry, Entry
<1> QED BY <1>4, <1>5

LEMMA KernelSlotsInSlots == KernelSlots \subseteq Slots
<1> SUFFICES ASSUME NEW s \in KernelSlots PROVE s \in Slots
  OBVIOUS
<1>1. PICK v \in KernelPage, x \in 1..4 : s = Walk(v)[x]
  BY DEF KernelSlots
<1>2. v \in Page
  BY PageAssumption
<1> QED BY <1>1, <1>2, WalkSlot

-----------------------------------------------------------------------------
(***************************************************************************)
(* Types. While Initialize pushes frames, the n pages of the stack have    *)
(* each cost a frame, so that it stays on the pages set aside for it.      *)
(***************************************************************************)
StackBound(n) == /\ Len(stack) <= Entries * n
                 /\ Len(stack) + n + Len(pool) <= Len(ram)
                 /\ \A v \in Page : v >= KernelEnd + n => ~ pte[<<1, v>>].present

RamBound == /\ ram \in Maps
            /\ phase = "init" => \E n \in Nat : StackBound(n)

LEMMA DivLess ==
  ASSUME NEW a \in Nat, NEW n \in Nat
  PROVE  /\ a \div Entries \in Nat
         /\ a <= Entries * n => a \div Entries <= n
         /\ a < Entries * n => a \div Entries < n
         /\ a = Entries * n => a \div Entries = n
<1>1. Entries \in Nat /\ Entries > 1
  BY KernelAssumption
<1> DEFINE q == a \div Entries
<1>2. q \in Nat /\ Entries * q <= a /\ a < Entries * q + Entries
  BY <1>1
<1> HIDE DEF q
<1>3. q >= n + 1 => Entries * q >= Entries * n + Entries
  BY <1>1, <1>2
<1>4. q >= n => Entries * q >= Entries * n
  BY <1>1, <1>2
<1>5. q < n => Entries * q + Entries <= Entries * n
  <2> SUFFICES ASSUME q + 1 <= n PROVE Entries * (q + 1) <= Entries * n
    BY <1>1, <1>2
  <2> QED BY <1>1, <1>2
<1>6. Entries * q \in Nat /\ Entries * n \in Nat
  BY <1>1, <1>2
<1>7. (a <= Entries * n => q <= n) /\ (a < Entries * n => q < n)
      /\ (a = Entries * n => q = n)
  BY <1>1, <1>2, <1>3, <1>4, <1>5, <1>6
<1> QED BY <1>2, <1>7 DEF q

LEMMA StackPageType ==
  ASSUME TypeOK, RamBound, phase = "init", pool # << >>
  PROVE  StackPage(Len(stack)) \in Page \ ClientPages
<1>1. /\ Len(stack) \in Nat /\ Len(pool) \in Nat /\ Len(pool) > 0
      /\ Len(ram) \in Nat /\ ram \in Maps
  BY DEF TypeOK, RamBound
<1>2. PICK n \in Nat : StackBound(n)
  BY DEF RamBound
<1>3. Len(stack) \div Entries \in Nat /\ Len(stack) \div Entries <= n
  BY <1>1, <1>2, DivLess DEF StackBound
<1>4. Len(stack) \in 0..Len(ram) /\ Len(stack) + Len(stack) \div Entries < Len(ram)
  BY <1>1, <1>2, <1>3 DEF StackBound
<1> QED BY <1>1, <1>4, StackAssumption DEF StackPage

LEMMA FirstSlot == \A v : Walk(v)[1] = <<1, v>>
BY DEF Walk

LEMMA KernelEndType == KernelEnd \in Nat /\ KernelPage = KernelBase..(KernelEnd - 1)
BY KernelAssumption DEF KernelEnd, KernelPage

LEMMA InitType == Init => TypeOK /\ RamBound
<1> SUFFICES ASSUME Init PROVE TypeOK /\ RamBound
  OBVIOUS
<1>1. ram \in Seq(Nat) /\ pool = ram /\ stack = << >>
  BY MapAssumption DEF Init
<1>2. pte \in [Slots -> Entry]
  <2>1. NotPresent \in Entry
    BY KernelAssumption DEF NotPresent, Entry
  <2> QED BY <2>1, KernelEntryType DEF Init
<1>3. req \in [ClientPages -> Request]
  BY DEF Init, NoRequest, Request
<1>4. StackBound(0)
  <2>1. ASSUME NEW v \in Page, v >= KernelEnd PROVE ~ pte[<<1, v>>].present
    <3>1. v \notin KernelPage /\ v \in Nat
      BY <2>1, KernelEndType, PageAssumption, KernelAssumption
    <3>2. <<1, v>> \in Slots
      BY FirstSlot, WalkSlot
    <3>3. <<1, v>> \notin KernelSlots
      <4> SUFFICES ASSUME NEW u \in KernelPage, NEW x \in 1..4, <<1, v>> = Walk(u)[x]
                   PROVE  FALSE
        BY DEF KernelSlots
      <4>1. u \in Page /\ x = 1
        BY PageAssumption, WalkSlot
      <4> QED BY <3>1, <4>1, FirstSlot
    <3> QED BY <3>2, <3>3 DEF Init, NotPresent
  <2>2. Len(stack) = 0 /\ Len(pool) = Len(ram) /\ Len(ram) \in Nat
    BY <1>1
  <2> QED BY <2>1, <2>2, KernelAssumption, KernelEndType DEF StackBound
<1>5. TypeOK
  <2>1. /\ phase = "init" /\ enomem = FALSE /\ stuck = FALSE
        /\ stack \in Seq(Nat)
    BY <1>1 DEF Init
  <2> QED BY <1>1, <1>2, <1>3, <2>1 DEF TypeOK
<1>6. 0 \in Nat
  OBVIOUS
<1> QED BY <1>4, <1>5, <1>6 DEF Init, RamBound

\* A call that succeeds leaves every level of the walk present.
LEMMA MapPageOk ==
  ASSUME NEW pt \in [Slots -> Entry], NEW v \in Page,
         NEW flags, IsFlags(flags), NEW src \in Seq(Nat),
         LastFilled(pt, v, Len(src)) = 0, NEW x \in 1..4
  PROVE  MapPage(pt, v, flags, src).pte[Walk(v)[x]].present
<1> DEFINE m    == MapPage(pt, v, flags, src)
           top  == Missing(pt, v)
           last == LastFilled(pt, v, Len(src))
           new  == Filled(pt, v, Len(src))
           s    == Walk(v)[x]
<1>1. s \in Slots /\ s[1] = x /\ (x < 4 => Parent(s) = Walk(v)[x + 1])
  BY WalkSlot, WalkParent
<1> HIDE DEF s
<1>2. /\ top \in 0..4
      /\ \A t \in Slots : t \in new <=> /\ t = Walk(v)[t[1]]
                                        /\ last < t[1] /\ t[1] <= top
      /\ \A t \in new : m.pte[t].present
      /\ \A t \in Slots \ new :
            IF Parent(t) \in new
            THEN m.pte[t] = NotPresent
            ELSE IF last < top /\ top < 4 /\ t = Walk(v)[top + 1]
                 THEN m.pte[t] = IncEntryCount(pt[t])
                 ELSE m.pte[t] = pt[t]
  BY MapPageResult
<1>3. last = 0
  OBVIOUS
<1>4. CASE x <= top
  <2>1. s \in new
    BY <1>1, <1>2, <1>3, <1>4 DEF s
  <2> QED BY <1>2, <2>1 DEF s
<1>5. CASE ~ (x <= top)
  <2>1. pt[s].present
    <3>1. x \in (top + 1)..4
      BY <1>2, <1>5
    <3> QED BY <3>1, MissingDef DEF s
  <2>2. s \notin new
    BY <1>1, <1>2, <1>5
  <2>3. Parent(s) \notin new
    <3> SUFFICES ASSUME Parent(s) \in new PROVE FALSE
      OBVIOUS
    <3>1. new \subseteq Slots
      BY MapPageResult
    <3>2. Parent(s)[1] <= top
      BY <1>2, <3>1
    <3>3. Parent(s)[1] = x + 1
      BY <1>1 DEF Parent
    <3> QED BY <1>2, <1>5, <3>2, <3>3
  <2>4. m.pte[s] = pt[s] \/ m.pte[s] = IncEntryCount(pt[s])
    BY <1>1, <1>2, <2>2, <2>3
  <2> QED BY <1>1, <2>1, <2>4, IncEntryCountType DEF s
<1> QED BY <1>4, <1>5

\* The only page that MapPage maps is the one it is asked for, and only when
\* it says so; the call takes a frame for it.
LEMMA MapPageFirst ==
  ASSUME NEW pt \in [Slots -> Entry], NEW v \in Page,
         NEW flags, IsFlags(flags), NEW src \in Seq(Nat),
         NEW u \in Page, MapPage(pt, v, flags, src).pte[<<1, u>>].present,
         ~ pt[<<1, u>>].present
  PROVE  /\ u = v /\ LastFilled(pt, v, Len(src)) = 0
         /\ MapPage(pt, v, flags, src).taken > 0
<1> DEFINE m    == MapPage(pt, v, flags, src)
           top  == Missing(pt, v)
           last == LastFilled(pt, v, Len(src))
           new  == Filled(pt, v, Len(src))
           s    == <<1, u>>
<1>1. /\ top \in 0..4 /\ last \in 0..top
      /\ m.taken = top - last
      /\ \A t \in Slots : t \in new <=> /\ t = Walk(v)[t[1]]
                                        /\ last < t[1] /\ t[1] <= top
      /\ \A t \in Slots \ new :
            IF Parent(t) \in new
            THEN m.pte[t] = NotPresent
            ELSE IF last < top /\ top < 4 /\ t = Walk(v)[top + 1]
                 THEN m.pte[t] = IncEntryCount(pt[t])
                 ELSE m.pte[t] = pt[t]
  BY MapPageResult
<1>2. m.pte[s].present /\ s[1] = 1
  OBVIOUS
<1>3. s = Walk(u)[1] /\ s \in Slots
  <2>1. Walk(u)[1] \in Slots /\ Walk(u)[1] = <<1, u>>
    BY FirstSlot, WalkSlot
  <2> QED BY <2>1
<1>4. pt[s] \in Entry /\ ~ pt[s].present
  BY <1>3
<1> HIDE DEF m, top, last, new, s
<1>5. s \in new
  <2> SUFFICES ASSUME s \notin new PROVE FALSE
    OBVIOUS
  <2>1. Parent(s) \notin new
    BY <1>1, <1>2, <1>3 DEF NotPresent
  <2>2. m.pte[s] = pt[s] \/ m.pte[s] = IncEntryCount(pt[s])
    BY <1>1, <1>3, <2>1
  <2> QED BY <1>2, <1>4, <2>2, IncEntryCountType
<1>6. s = Walk(v)[1] /\ last < 1 /\ 1 <= top
  BY <1>1, <1>2, <1>3, <1>5
<1>7. u = v
  BY <1>6, FirstSlot DEF s
<1>8. last = 0 /\ m.taken > 0
  BY <1>1, <1>6
<1> QED BY <1>7, <1>8 DEF m, last

LEMMA PushMapFrameType ==
  ASSUME TypeOK, RamBound, PushMapFrame
  PROVE  TypeOK' /\ RamBound'
<1> DEFINE v == StackPage(Len(stack))
           m == MapPage(pte, v, StackFlags, Tail(pool))
           rest == Tail(pool)
<1>1. v \in Page
  BY StackPageType DEF PushMapFrame
<1>2. /\ rest \in Seq(Nat) /\ Head(pool) \in Nat
      /\ Len(rest) \in Nat /\ Len(pool) = Len(rest) + 1
  BY DEF TypeOK, PushMapFrame
<1>3. IsFlags(StackFlags)
  BY DEF IsFlags, StackFlags
<1>4. /\ m.pte \in [Slots -> Entry]
      /\ m.ok \in BOOLEAN
      /\ m.taken \in 0..Len(rest)
  BY <1>1, <1>2, <1>3, MapPageType DEF TypeOK
<1> DEFINE done == LastFilled(pte, v, Len(rest)) = 0
<1>5. /\ m.ok <=> done
      /\ \A u \in Page : m.pte[<<1, u>>].present =>
            pte[<<1, u>>].present \/ (u = v /\ done /\ m.taken > 0)
      /\ done => m.pte[<<1, v>>].present
  <2>1. pte \in [Slots -> Entry] /\ 1 \in 1..4 /\ Walk(v)[1] = <<1, v>>
    BY FirstSlot DEF TypeOK
  <2>2. m.ok <=> done
    BY <1>1, <1>2, <1>3, <2>1, MapPageType
  <2>3. \A u \in Page : m.pte[<<1, u>>].present =>
            pte[<<1, u>>].present \/ (u = v /\ done /\ m.taken > 0)
    BY <1>1, <1>2, <1>3, <2>1, MapPageFirst
  <2>4. done => m.pte[<<1, v>>].present
    BY <1>1, <1>2, <1>3, <2>1, MapPageOk
  <2> QED BY <2>2, <2>3, <2>4
<1> HIDE DEF m, v, done
<1>6. /\ pte' = m.pte
      /\ pool' = SubSeq(rest, m.taken + 1, Len(rest))
      /\ stack' = IF m.ok THEN Append(stack, Head(pool)) ELSE stack
      /\ enomem' = (enomem \/ ~ m.ok)
      /\ UNCHANGED <<ram, phase, req, stuck>>
  BY DEF PushMapFrame, m, v
<1> HIDE DEF rest
<1>7. pool' \in Seq(Nat) /\ Len(pool') = Len(rest) - m.taken
  BY <1>2, <1>4, <1>6, DropSeq
<1>8. /\ stack' \in Seq(Nat) /\ Len(stack) \in Nat
      /\ Len(stack') = IF m.ok THEN Len(stack) + 1 ELSE Len(stack)
  BY <1>2, <1>6 DEF TypeOK
<1>9. TypeOK'
  BY <1>4, <1>6, <1>7, <1>8 DEF TypeOK
<1>10. PICK n \in Nat : StackBound(n)
  BY DEF RamBound, PushMapFrame
<1> DEFINE k == Len(stack) \div Entries
<1>11. /\ k \in Nat /\ k <= n /\ v = KernelEnd + k
       /\ Len(stack) < Entries * n => k < n
       /\ Len(stack) = Entries * n => k = n
  BY <1>8, <1>10, DivLess DEF StackBound, StackPage, v
<1>12. /\ Entries \in Nat /\ Entries > 1 /\ KernelEnd \in Nat /\ Len(ram) \in Nat
       /\ m.taken \in Nat /\ m.taken <= Len(rest)
       /\ Len(pool') = Len(rest) - m.taken /\ Len(stack') \in Nat
  BY <1>2, <1>4, <1>7, <1>8, KernelAssumption, KernelEndType DEF TypeOK
<1>13. Entries * n \in Nat /\ Entries * (n + 1) = Entries * n + Entries
  BY <1>12
<1> HIDE DEF k
<1>14. /\ Len(stack) <= Entries * n
       /\ Len(stack) + n + (Len(rest) + 1) <= Len(ram)
       /\ \A u \in Page : u >= KernelEnd + n => ~ pte[<<1, u>>].present
  BY <1>2, <1>10 DEF StackBound
<1>15. \E j \in Nat : StackBound(j)'
  <2>1. CASE ~ m.ok
    <3>1. /\ Len(stack') <= Entries * n
          /\ Len(stack') + n + Len(pool') <= Len(ram')
      BY SMTT(30), <1>6, <1>8, <1>12, <1>14, <2>1
    <3>2. \A u \in Page : u >= KernelEnd + n => ~ pte'[<<1, u>>].present
      BY <1>5, <1>6, <1>14, <2>1
    <3> QED BY <3>1, <3>2 DEF StackBound
  <2>2. CASE m.ok /\ Len(stack) < Entries * n
    <3>1. /\ Len(stack') <= Entries * n
          /\ Len(stack') + n + Len(pool') <= Len(ram')
      BY SMTT(30), <1>6, <1>8, <1>12, <1>13, <1>14, <2>2
    <3>2. \A u \in Page : u >= KernelEnd + n => ~ pte'[<<1, u>>].present
      <4> SUFFICES ASSUME NEW u \in Page, u >= KernelEnd + n, pte'[<<1, u>>].present
                   PROVE  FALSE
        OBVIOUS
      <4>1. u = v
        BY <1>5, <1>6, <1>14
      <4> QED BY <1>11, <1>12, <2>2, <4>1
    <3> QED BY <3>1, <3>2 DEF StackBound
  <2>3. CASE m.ok /\ Len(stack) = Entries * n
    <3>1. /\ Len(stack') <= Entries * (n + 1)
      BY <1>8, <1>12, <1>13, <2>3
    <3>2. m.taken > 0
      <4>1. ~ pte[<<1, v>>].present
        BY <1>1, <1>11, <1>12, <1>14, <2>3
      <4>2. pte'[<<1, v>>].present
        BY <1>5, <1>6, <2>3
      <4> QED BY <1>1, <1>5, <1>6, <4>1, <4>2
    <3>3. Len(stack') + (n + 1) + Len(pool') <= Len(ram')
      BY SMTT(30), <1>6, <1>8, <1>12, <1>14, <2>3, <3>2
    <3>4. \A u \in Page : u >= KernelEnd + (n + 1) => ~ pte'[<<1, u>>].present
      <4> SUFFICES ASSUME NEW u \in Page, u >= KernelEnd + (n + 1),
                          pte'[<<1, u>>].present
                   PROVE  FALSE
        OBVIOUS
      <4>1. u \in Nat /\ u >= KernelEnd + n
        BY <1>12, PageAssumption
      <4>2. u = v
        BY <1>5, <1>6, <1>14, <4>1
      <4> QED BY <1>11, <1>12, <2>3, <4>2
    <3> QED BY <3>1, <3>3, <3>4 DEF StackBound
  <2> QED BY <1>4, <1>8, <1>13, <1>14, <2>1, <2>2, <2>3
<1> QED BY <1>6, <1>9, <1>15 DEF RamBound

LEMMA AllocateType ==
  ASSUME TypeOK, RamBound, NEW v \in ClientPages, NEW r \in Requests,
         Allocate(v, r)
  PROVE  TypeOK' /\ RamBound'
<1> DEFINE m == MapPage(pte, v, AllocateFlags(r), Pops)
<1>1. v \in Page /\ r \in Request
  BY PageAssumption
<1>2. Pops \in Seq(Nat) /\ Len(Pops) = Len(stack) /\ Len(stack) \in Nat
  BY PopsSeq DEF TypeOK
<1>3. IsFlags(AllocateFlags(r))
  BY <1>1 DEF IsFlags, AllocateFlags, Request
<1>4. /\ m.pte \in [Slots -> Entry]
      /\ m.ok \in BOOLEAN
      /\ m.taken \in 0..Len(stack)
  <2>1. m.taken \in 0..Len(Pops)
    BY <1>1, <1>2, <1>3, MapPageType DEF TypeOK
  <2> QED BY <1>1, <1>2, <1>3, <2>1, MapPageType DEF TypeOK
<1> HIDE DEF m
<1>5. /\ pte' = m.pte
      /\ stack' = SubSeq(stack, 1, Len(stack) - m.taken)
      /\ req' = IF m.ok /\ m.taken > 0 THEN [req EXCEPT ![v] = r] ELSE req
      /\ enomem' = (enomem \/ ~ m.ok)
      /\ phase = "run"
      /\ UNCHANGED <<ram, phase, pool, stuck>>
  BY DEF Allocate, m
<1>6. stack' \in Seq(Nat)
  <2>1. Len(stack) - m.taken \in 0..Len(stack)
    BY <1>2, <1>4
  <2> QED BY <1>5, <2>1, TakeSeq DEF TypeOK
<1>7. req' \in [ClientPages -> Request]
  BY <1>1, <1>5 DEF TypeOK
<1> QED BY <1>4, <1>5, <1>6, <1>7 DEF TypeOK, RamBound

LEMMA AllocateFaultsOnTableType ==
  ASSUME TypeOK, RamBound, NEW v \in ClientPages, NEW r \in Requests,
         AllocateFaultsOnTable(v, r)
  PROVE  TypeOK' /\ RamBound'
<1> DEFINE e == [NotPresent EXCEPT !.present = TRUE, !.frame = Head(Pops),
                                   !.user = r.user]
<1>1. r.user \in BOOLEAN
  BY PageAssumption DEF Request
<1>2. stack # << >> /\ stack \in Seq(Nat) /\ Len(stack) \in Nat /\ Len(stack) > 0
  BY DEF TypeOK, AllocateFaultsOnTable, CanZeroTable
<1>3. Head(Pops) \in Nat
  BY <1>2, PopsSeq
<1>4. e \in Entry
  <2>1. 0 \in 0..(Entries - 1)
    BY KernelAssumption
  <2> HIDE DEF NotPresent
  <2>2. NotPresent \in Entry
    BY <2>1 DEF NotPresent, Entry
  <2> QED BY <1>1, <1>3, <2>2 DEF Entry
<1>5. pte' \in [Slots -> Entry]
  BY <1>4 DEF TypeOK, AllocateFaultsOnTable
<1>6. stack' \in Seq(Nat)
  <2>1. Len(stack) - 1 \in 0..Len(stack)
    BY <1>2
  <2>2. stack' = SubSeq(stack, 1, Len(stack) - 1)
    BY DEF AllocateFaultsOnTable
  <2> QED BY <1>2, <2>1, <2>2, TakeSeq
<1>7. /\ UNCHANGED <<ram, phase, pool, req, enomem>>
      /\ stuck' = TRUE /\ phase = "run"
  BY DEF AllocateFaultsOnTable
<1> QED BY <1>5, <1>6, <1>7 DEF TypeOK, RamBound

\* The frames that UnmapPage pushes, lowest level first.
LEMMA FreedSeq ==
  ASSUME TypeOK, NEW v \in Page
  PROVE  /\ Freed(v) \in Seq(Nat)
         /\ Len(Freed(v)) = Cleared(v)
         /\ \A i \in 1..Cleared(v) :
               Freed(v)[i] = pte[Walk(v)[i]].frame % FrameLimit
<1> DEFINE f(x) == pte[Walk(v)[x]].frame % FrameLimit
<1>1. Cleared(v) \in 1..4
  BY ClearedDef
<1>2. ASSUME NEW x \in 1..Cleared(v) PROVE f(x) \in Nat
  <2>1. Walk(v)[x] \in Slots
    BY <1>1, WalkSlot
  <2>2. pte[Walk(v)[x]].frame \in Nat
    BY <2>1 DEF TypeOK, Entry
  <2> QED BY <2>2, KernelAssumption
<1>3. Freed(v) = [x \in 1..Cleared(v) |-> f(x)]
  BY DEF Freed
<1> HIDE DEF f
<1>4. Freed(v) \in Seq(Nat) /\ Len(Freed(v)) = Cleared(v)
  BY <1>1, <1>2, <1>3
<1> QED BY <1>3, <1>4 DEF f

LEMMA DecEntryCountType ==
  ASSUME NEW e \in Entry
  PROVE  /\ DecEntryCount(e) \in Entry
         /\ DecEntryCount(e).present = e.present
         /\ DecEntryCount(e).frame = e.frame
         /\ DecEntryCount(e).write = e.write
         /\ DecEntryCount(e).count = (e.count + (Entries - 1)) % Entries
<1>1. e.count \in 0..(Entries - 1) /\ e.nx \in BOOLEAN
  BY DEF Entry
<1>2. (e.count + (Entries - 1)) % Entries \in 0..(Entries - 1)
  BY <1>1, KernelAssumption
<1> DEFINE c == (e.count + (Entries - 1)) % Entries
           b == e.nx \/ e.count = 0
<1>3. c \in 0..(Entries - 1) /\ b \in BOOLEAN
  BY <1>2
<1>4. DecEntryCount(e) = [e EXCEPT !.count = c, !.nx = b]
  BY DEF DecEntryCount
<1> HIDE DEF c, b
<1>5. /\ DecEntryCount(e) \in Entry
      /\ DecEntryCount(e).present = e.present
      /\ DecEntryCount(e).frame = e.frame
      /\ DecEntryCount(e).write = e.write
      /\ DecEntryCount(e).count = c
  BY <1>3, <1>4 DEF Entry
<1> QED BY <1>5 DEF c

\* What UnmapPage leaves of the tables.
LEMMA UnmappedResult ==
  ASSUME TypeOK, NEW v \in Page
  PROVE  /\ Unmapped(v) \in [Slots -> Entry]
         /\ \A s \in Slots :
              IF s = Walk(v)[s[1]] /\ s[1] <= Cleared(v) + 1
              THEN IF s[1] <= Cleared(v)
                   THEN Unmapped(v)[s] = NotPresent
                   ELSE Unmapped(v)[s] = DecEntryCount(pte[s])
              ELSE Unmapped(v)[s] = pte[s]
<1> DEFINE c == Cleared(v)
           After(s) == CASE s[1] <= c /\ s = Walk(v)[s[1]] -> NotPresent
                         [] s[1] = c + 1 /\ s = Walk(v)[s[1]]
                              -> DecEntryCount(pte[s])
                         [] OTHER -> pte[s]
<1>1. c \in 1..4
  BY ClearedDef
<1>2. Unmapped(v) = [s \in Slots |-> After(s)]
  BY DEF Unmapped
<1>3. ASSUME NEW s \in Slots
      PROVE  /\ After(s) \in Entry
             /\ IF s = Walk(v)[s[1]] /\ s[1] <= c + 1
                THEN IF s[1] <= c THEN After(s) = NotPresent
                                  ELSE After(s) = DecEntryCount(pte[s])
                ELSE After(s) = pte[s]
  <2>1. s[1] \in 1..4
    BY SlotWalk
  <2>2. /\ NotPresent \in Entry
        /\ pte[s] \in Entry
        /\ DecEntryCount(pte[s]) \in Entry
    <3>1. NotPresent \in Entry
      BY KernelAssumption DEF NotPresent, Entry
    <3> QED BY <3>1, DecEntryCountType DEF TypeOK
  <2> HIDE DEF c
  <2>3. CASE s[1] <= c
    <3>1. ~ (s[1] = c + 1)
      BY <1>1, <2>1, <2>3
    <3> QED BY <1>1, <2>1, <2>2, <2>3, <3>1
  <2>4. CASE s[1] = c + 1
    <3>1. ~ (s[1] <= c)
      BY <1>1, <2>1, <2>4
    <3> QED BY <1>1, <2>1, <2>2, <2>4, <3>1
  <2>5. CASE s[1] > c + 1
    <3>1. ~ (s[1] <= c) /\ ~ (s[1] = c + 1) /\ ~ (s[1] <= c + 1)
      BY <1>1, <2>1, <2>5
    <3> QED BY <2>2, <3>1
  <2> QED BY <1>1, <2>1, <2>3, <2>4, <2>5
<1> HIDE DEF After
<1>4. Unmapped(v) \in [Slots -> Entry]
  BY <1>2, <1>3
<1>5. \A s \in Slots : Unmapped(v)[s] = After(s)
  BY <1>2
<1> QED BY <1>3, <1>4, <1>5

LEMMA FreeType ==
  ASSUME TypeOK, RamBound, NEW v \in ClientPages, Free(v)
  PROVE  TypeOK' /\ RamBound'
<1>1. v \in Page
  BY PageAssumption
<1>2. pte' \in [Slots -> Entry]
  BY <1>1, UnmappedResult DEF Free
<1>3. stack' \in Seq(Nat)
  <2>1. Freed(v) \in Seq(Nat) /\ Len(Freed(v)) \in 1..4
    BY <1>1, FreedSeq, ClearedDef
  <2>2. Kept(Len(Freed(v))) \in 0..Len(Freed(v))
    <3>1. Len(Freed(v)) \in 0..4
      BY <2>1
    <3> QED BY <3>1, KeptDef DEF TypeOK
  <2>3. SubSeq(Freed(v), 1, Kept(Len(Freed(v)))) \in Seq(Nat)
    BY <2>1, <2>2, TakeSeq
  <2> QED BY <2>3 DEF TypeOK, Free
<1>4. req' \in [ClientPages -> Request]
  BY DEF TypeOK, Free, NoRequest, Request
<1>5. phase = "run" /\ UNCHANGED <<ram, phase, pool, enomem, stuck>>
  BY DEF Free
<1> QED BY <1>2, <1>3, <1>4, <1>5 DEF TypeOK, RamBound

LEMMA NextType == TypeOK /\ RamBound /\ [Next]_vars => TypeOK' /\ RamBound'
<1> SUFFICES ASSUME TypeOK, RamBound, [Next]_vars PROVE TypeOK' /\ RamBound'
  OBVIOUS
<1>1. CASE PushMapFrame
  BY <1>1, PushMapFrameType
<1>2. CASE EndInitialize
  BY <1>2 DEF EndInitialize, TypeOK, RamBound
<1>3. ASSUME NEW v \in ClientPages, NEW r \in Requests, Allocate(v, r)
      PROVE  TypeOK' /\ RamBound'
  BY <1>3, AllocateType
<1>4. ASSUME NEW v \in ClientPages, NEW r \in Requests,
             AllocateFaultsOnTable(v, r)
      PROVE  TypeOK' /\ RamBound'
  BY <1>4, AllocateFaultsOnTableType
<1>5. ASSUME NEW v \in ClientPages, AllocateFaults(v) \/ FreeFaults(v)
      PROVE  TypeOK' /\ RamBound'
  BY <1>5 DEF AllocateFaults, FreeFaults, TypeOK, RamBound
<1>6. ASSUME NEW v \in ClientPages, Free(v)
      PROVE  TypeOK' /\ RamBound'
  BY <1>6, FreeType
<1>7. CASE UNCHANGED vars
  BY <1>7 DEF vars, TypeOK, RamBound, StackBound
<1> QED BY <1>1, <1>2, <1>3, <1>4, <1>5, <1>6, <1>7 DEF Next

\* Memory is type correct: whatever the machine and the calls, each entry
\* stays an entry, its count within the field's width, and while Initialize
\* pushes frames the stack stays within the addresses set aside for it.
THEOREM TypeCorrect == Spec => [](TypeOK /\ RamBound)
  BY InitType, NextType, PTL DEF Spec

-----------------------------------------------------------------------------
(***************************************************************************)
(* No frame ever has two owners.                                           *)
(***************************************************************************)
\* All of the machine's memory is below 2 GiB: the mask that UnmapPage applies
\* to an entry keeps every frame number.
LowMemory == /\ KernelTop <= FrameLimit
             /\ \A m \in Maps : \A i \in 1..Len(m) : m[i] < FrameLimit

\* The invariant that is inductive with FramesExclusive.
FramesBelow == /\ \A s \in Present : pte[s].frame < FrameLimit
               /\ \A i \in 1..Len(stack) : stack[i] < FrameLimit
               /\ \A i \in 1..Len(pool) : pool[i] < FrameLimit

FrameInv == FramesExclusive /\ FramesBelow

-----------------------------------------------------------------------------
(***************************************************************************)
(* The frames that Initialize gives to the kernel and its tables.          *)
(***************************************************************************)
\* Page and index of a number and back.
LEMMA DivOfSum ==
  ASSUME NEW q \in Nat, NEW r \in Nat, r < Entries
  PROVE  (q * Entries + r) \div Entries = q
  BY KernelAssumption

LEMMA DivBound ==
  ASSUME NEW d \in Nat, d < Entries * Entries
  PROVE  d \div Entries < Entries
  BY KernelAssumption

LEMMA RegroupSum ==
  ASSUME NEW a \in Nat, NEW b \in Nat, NEW c \in Nat, NEW n \in Nat
  PROVE  a * (n * n) + (b * n + c) = (a * n + b) * n + c
  OBVIOUS

\* The kernel's pages lie below one P3 entry.
LEMMA KernelOneTable ==
  ASSUME NEW v \in KernelPage
  PROVE  (v \div Entries) \div Entries = (KernelBase \div Entries) \div Entries
<1> DEFINE E == Entries
           q == KernelBase \div (E * E)
           d == v - KernelBase
<1>1. /\ E \in Nat /\ E > 1 /\ E * E \in Nat /\ E * E > 0
      /\ KernelBase \in Nat
      /\ KernelPages \in Nat /\ KernelPages <= E * E
      /\ KernelBase % (E * E) = 0
  BY KernelAssumption
<1>2. q \in Nat /\ KernelBase = q * (E * E)
  BY <1>1
<1>3. d \in Nat /\ d < E * E /\ v = KernelBase + d
  BY <1>1 DEF KernelPage, KernelEnd
<1>4. ASSUME NEW e \in Nat, e < E * E
      PROVE  ((KernelBase + e) \div E) \div E = q
  <2> DEFINE a == e \div E
             r == e % E
  <2>1. a \in Nat /\ r \in Nat /\ r < E /\ e = a * E + r
    BY <1>1
  <2>2. a < E
    BY <1>4, DivBound
  <2> HIDE DEF a, r, q
  <2>3. KernelBase + e = (q * E + a) * E + r
    BY <1>1, <1>2, <2>1, RegroupSum
  <2>4. q * E + a \in Nat
    BY <1>1, <1>2, <2>1
  <2>5. (KernelBase + e) \div E = q * E + a
    BY <2>1, <2>3, <2>4, DivOfSum
  <2> QED BY <1>2, <2>1, <2>2, <2>5, DivOfSum
<1>5. (v \div E) \div E = q
  BY <1>3, <1>4
<1>6. ((KernelBase + 0) \div E) \div E = q /\ KernelBase + 0 = KernelBase
  BY <1>1, <1>4
<1> QED BY <1>5, <1>6

\* Every kernel slot is identified by its frame, which is one of the kernel's.
LEMMA KernelFrames ==
  ASSUME NEW s \in KernelSlots
  PROVE  /\ KernelEntry(s).frame \in Nat
         /\ KernelEntry(s).frame < KernelTop
         /\ s[1] \in 1..4
         /\ s[1] = 1 => /\ KernelEntry(s).frame < KernelPages
                        /\ s = <<1, KernelBase + KernelEntry(s).frame>>
         /\ s[1] = 2 => /\ KernelEntry(s).frame >= KernelPages + 3
                        /\ s = <<2, KernelBase \div Entries
                                    + (KernelEntry(s).frame - (KernelPages + 3))>>
         /\ s[1] = 3 => /\ KernelEntry(s).frame = KernelPages + 2
                        /\ s = <<3, (KernelBase \div Entries) \div Entries>>
         /\ s[1] = 4 => /\ KernelEntry(s).frame = KernelPages + 1
                        /\ s = <<4, ((KernelBase \div Entries) \div Entries)
                                      \div Entries>>
<1>1. PICK v \in KernelPage, x \in 1..4 : s = Walk(v)[x]
  BY DEF KernelSlots
<1>2. /\ v \in Page /\ v \in Nat /\ v >= KernelBase /\ v <= KernelEnd - 1
      /\ KernelBase \in Nat /\ KernelPages \in Nat /\ KernelEnd - 1 \in Nat
  BY KernelAssumption, PageAssumption DEF KernelPage, KernelEnd
<1>3. s[1] = x /\ s[2] \in Nat
  BY <1>1, <1>2, WalkSlot
<1> DEFINE b == KernelBase \div Entries
           p == v \div Entries
           t == (KernelEnd - 1) \div Entries
<1>4. b \in Nat /\ p \in Nat /\ t \in Nat /\ b <= p /\ p <= t
  BY <1>2, DivMono, KernelAssumption
<1>5. KernelTop = KernelPages + 3 + (t - b) + 1
  BY DEF KernelTop
<1>6. KernelTop \in Nat /\ KernelTop > KernelPages + 3
  BY <1>2, <1>4, <1>5
<1>7. CASE x = 1
  <2>1. s = <<1, v>>
    BY <1>1, <1>7 DEF Walk
  <2>2. KernelEntry(s).frame = v - KernelBase
    BY <2>1 DEF KernelEntry
  <2>3. /\ v - KernelBase \in Nat /\ v - KernelBase < KernelPages
        /\ KernelBase + (v - KernelBase) = v
    BY <1>2 DEF KernelEnd
  <2> QED BY <1>2, <1>6, <2>1, <2>2, <2>3
<1>8. CASE x = 2
  <2>1. s = <<2, p>>
    BY <1>1, <1>8 DEF Walk
  <2>2. KernelEntry(s).frame = KernelPages + 3 + (p - b)
    BY <2>1 DEF KernelEntry, KernelTableFrame
  <2> HIDE DEF b, p, t
  <2>3. /\ KernelPages + 3 + (p - b) \in Nat
        /\ KernelPages + 3 + (p - b) < KernelTop
        /\ KernelPages + 3 + (p - b) >= KernelPages + 3
        /\ b + ((KernelPages + 3 + (p - b)) - (KernelPages + 3)) = p
    BY <1>2, <1>4, <1>5
  <2> QED BY <2>1, <2>2, <2>3 DEF b
<1>9. CASE x = 3
  <2>1. s = <<3, (KernelBase \div Entries) \div Entries>>
    BY <1>1, <1>9, KernelOneTable DEF Walk
  <2>2. KernelEntry(s).frame = KernelPages + 2
    BY <2>1 DEF KernelEntry, KernelTableFrame
  <2> QED BY <1>2, <1>6, <2>1, <2>2
<1>10. CASE x = 4
  <2>1. s = <<4, ((KernelBase \div Entries) \div Entries) \div Entries>>
    BY <1>1, <1>10, KernelOneTable DEF Walk
  <2>2. KernelEntry(s).frame = KernelPages + 1
    BY <2>1 DEF KernelEntry, KernelTableFrame
  <2> QED BY <1>2, <1>6, <2>1, <2>2
<1> QED BY <1>7, <1>8, <1>9, <1>10

LEMMA InitFrameInv == ASSUME LowMemory PROVE Init => FrameInv
<1> SUFFICES ASSUME Init PROVE FrameInv
  OBVIOUS
<1>1. /\ ram \in Seq(Nat) /\ pool = ram /\ stack = << >> /\ Len(stack) = 0
      /\ \A i \in 1..Len(pool) : pool[i] >= KernelTop /\ pool[i] < FrameLimit
      /\ \A i \in 1..Len(pool) : pool[i] \in Nat
      /\ AllDifferent(pool)
  BY MapAssumption DEF Init, LowMemory, AllDifferent
<1>2. /\ KernelTop \in Nat /\ KernelPages \in Nat
      /\ FrameLimit \in Nat /\ KernelTop <= FrameLimit
  <2>1. KernelBase \in KernelPage
    BY KernelAssumption DEF KernelPage, KernelEnd
  <2>2. /\ KernelBase \in Nat /\ KernelEnd - 1 \in Nat
        /\ KernelBase <= KernelEnd - 1 /\ Entries \in Nat /\ Entries > 1
    BY KernelAssumption DEF KernelEnd
  <2>3. /\ KernelBase \div Entries \in Nat
        /\ (KernelEnd - 1) \div Entries \in Nat
        /\ KernelBase \div Entries <= (KernelEnd - 1) \div Entries
    BY <2>2, DivMono
  <2> QED BY <2>3, KernelAssumption DEF KernelTop, LowMemory
<1>3. \A s \in Present : s \in KernelSlots /\ pte[s].frame = KernelEntry(s).frame
  BY DEF Init, Present, NotPresent
<1>4. EntriesApart
  <2> SUFFICES ASSUME NEW s \in Present, NEW t \in Present,
                      pte[s].frame = pte[t].frame
               PROVE  s = t
    BY DEF EntriesApart
  <2>1. /\ s \in KernelSlots /\ t \in KernelSlots
        /\ KernelEntry(s).frame = KernelEntry(t).frame
    BY <1>3
  <2> DEFINE f == KernelEntry(s).frame
  <2>2. f \in Nat
    BY <2>1, KernelFrames
  <2>3. s[1] = t[1]
    <3> HIDE DEF f
    <3>1. /\ s[1] \in 1..4
          /\ s[1] = 1 => f < KernelPages
          /\ s[1] = 2 => f >= KernelPages + 3
          /\ s[1] = 3 => f = KernelPages + 2
          /\ s[1] = 4 => f = KernelPages + 1
      BY <2>1, KernelFrames DEF f
    <3>2. /\ t[1] \in 1..4
          /\ t[1] = 1 => f < KernelPages
          /\ t[1] = 2 => f >= KernelPages + 3
          /\ t[1] = 3 => f = KernelPages + 2
          /\ t[1] = 4 => f = KernelPages + 1
      BY <2>1, KernelFrames DEF f
    <3> QED BY <1>2, <2>2, <3>1, <3>2
  <2>4. s[1] = 1 \/ s[1] = 2 \/ s[1] = 3 \/ s[1] = 4
    BY <2>1, KernelFrames
  <2> QED BY <2>1, <2>3, <2>4, KernelFrames
<1>5. NotHeld(pool)
  BY <1>1, <1>2, <1>3, KernelFrames DEF NotHeld
<1>6. AllDifferent(stack) /\ NotHeld(stack)
  BY <1>1 DEF AllDifferent, NotHeld
<1>7. FramesBelow
  BY <1>1, <1>2, <1>3, KernelFrames DEF FramesBelow
<1> QED BY <1>1, <1>4, <1>5, <1>6, <1>7 DEF FrameInv, FramesExclusive

-----------------------------------------------------------------------------
(***************************************************************************)
(* Steps. Every frame that changes hands has one owner before and one      *)
(* after: each step is described by where the frames come from.            *)
(***************************************************************************)
\* An entry present after MapPage was there before or holds one of the frames
\* taken, the i-th one at the i-th level from the top that was missing.
LEMMA MapPageFrames ==
  ASSUME NEW pt \in [Slots -> Entry], NEW v \in Page,
         NEW flags, IsFlags(flags), NEW src \in Seq(Nat),
         NEW s \in Slots, MapPage(pt, v, flags, src).pte[s].present
  PROVE  \/ /\ pt[s].present
            /\ MapPage(pt, v, flags, src).pte[s].frame = pt[s].frame
         \/ \E i \in 1..MapPage(pt, v, flags, src).taken :
               /\ MapPage(pt, v, flags, src).pte[s].frame = src[i]
               /\ s = Walk(v)[Missing(pt, v) - i + 1]
<1> DEFINE m    == MapPage(pt, v, flags, src)
           top  == Missing(pt, v)
           last == LastFilled(pt, v, Len(src))
           new  == Filled(pt, v, Len(src))
<1>1. /\ top \in 0..4 /\ new \subseteq Slots
      /\ \A t \in Slots : t \in new => t = Walk(v)[t[1]]
      /\ \A t \in new : /\ m.pte[t].frame = src[top - t[1] + 1]
                        /\ top - t[1] + 1 \in 1..m.taken
      /\ \A t \in Slots \ new :
            IF Parent(t) \in new
            THEN m.pte[t] = NotPresent
            ELSE IF last < top /\ top < 4 /\ t = Walk(v)[top + 1]
                 THEN m.pte[t] = IncEntryCount(pt[t])
                 ELSE m.pte[t] = pt[t]
  BY MapPageResult
<1> HIDE DEF m, top, last, new
<1>2. m.pte[s].present
  BY DEF m
<1>3. CASE s \in new
  <2>1. top - (top - s[1] + 1) + 1 = s[1]
    <3>1. s[1] \in 1..4
      BY SlotWalk
    <3>2. \A a \in 0..4, b \in 1..4 : a - (a - b + 1) + 1 = b
      OBVIOUS
    <3> QED BY <1>1, <3>1, <3>2
  <2>2. /\ m.pte[s].frame = src[top - s[1] + 1]
        /\ top - s[1] + 1 \in 1..m.taken
        /\ s = Walk(v)[top - (top - s[1] + 1) + 1]
    BY <1>1, <1>3, <2>1
  <2> QED BY <2>2 DEF m, top
<1>4. CASE s \notin new
  <2>1. Parent(s) \notin new
    BY <1>1, <1>2, <1>4 DEF NotPresent
  <2>2. m.pte[s] = pt[s] \/ m.pte[s] = IncEntryCount(pt[s])
    BY <1>1, <1>4, <2>1
  <2>3. pt[s] \in Entry
    OBVIOUS
  <2> QED BY <1>2, <2>2, <2>3, IncEntryCountType DEF m
<1> QED BY <1>3, <1>4

LEMMA PushMapFrameFrames ==
  ASSUME TypeOK, RamBound, FrameInv, PushMapFrame
  PROVE  FrameInv'
<1> DEFINE v == StackPage(Len(stack))
           rest == Tail(pool)
           m == MapPage(pte, v, StackFlags, rest)
           k == m.taken
           Level(i) == Missing(pte, v) - i + 2
<1>1. v \in Page /\ pte \in [Slots -> Entry] /\ IsFlags(StackFlags)
  BY StackPageType DEF PushMapFrame, TypeOK, IsFlags, StackFlags
<1>2. /\ rest \in Seq(Nat) /\ Len(rest) \in Nat
      /\ Len(pool) = Len(rest) + 1 /\ Head(pool) = pool[1] /\ pool[1] \in Nat
      /\ \A i \in 1..Len(rest) : rest[i] = pool[i + 1]
      /\ \A i \in 1..Len(pool) : pool[i] \in Nat
      /\ \A i \in 1..Len(stack) : stack[i] \in Nat
      /\ Len(stack) \in Nat
  BY SMTT(30) DEF TypeOK, PushMapFrame
<1>3. k \in 0..Len(rest) /\ m.ok \in BOOLEAN
  BY <1>1, <1>2, MapPageType
<1>4. \A s \in Slots : m.pte[s].present =>
         \/ pte[s].present /\ m.pte[s].frame = pte[s].frame
         \/ \E i \in 1..k : /\ m.pte[s].frame = rest[i]
                            /\ s = Walk(v)[Missing(pte, v) - i + 1]
  <2> SUFFICES ASSUME NEW s \in Slots, m.pte[s].present
               PROVE  \/ pte[s].present /\ m.pte[s].frame = pte[s].frame
                      \/ \E i \in 1..k :
                            /\ m.pte[s].frame = rest[i]
                            /\ s = Walk(v)[Missing(pte, v) - i + 1]
    OBVIOUS
  <2> HIDE DEF v, rest
  <2> QED BY <1>1, <1>2, MapPageFrames
<1>5. /\ pte' = m.pte
      /\ pool' = SubSeq(rest, k + 1, Len(rest))
      /\ stack' = IF m.ok THEN Append(stack, Head(pool)) ELSE stack
  BY DEF PushMapFrame
<1>6. Missing(pte, v) \in 0..4
  BY MissingDef
<1> HIDE DEF m, v, k
\* Where entries, stack and pool have their frames from.
<1>7. \A s \in Present' :
         \/ s \in Present /\ pte'[s].frame = pte[s].frame
         \/ \E i \in 2..(k + 1) : /\ pte'[s].frame = pool[i]
                                  /\ s = Walk(v)[Level(i)]
  <2> SUFFICES ASSUME NEW s \in Slots, pte'[s].present,
                      NEW i \in 1..k, pte'[s].frame = rest[i],
                      s = Walk(v)[Missing(pte, v) - i + 1]
               PROVE  \E j \in 2..(k + 1) : /\ pte'[s].frame = pool[j]
                                            /\ s = Walk(v)[Level(j)]
    BY <1>4, <1>5 DEF Present
  <2>1. /\ i + 1 \in 2..(k + 1)
        /\ i \in 1..Len(rest)
        /\ Level(i + 1) = Missing(pte, v) - i + 1
    <3>1. \A a \in 0..4, n, t \in Nat : \A b \in 1..t :
             t <= n => /\ b + 1 \in 2..(t + 1)
                       /\ b \in 1..n
                       /\ a - (b + 1) + 2 = a - b + 1
      BY SMTT(30)
    <3>2. k \in Nat /\ k <= Len(rest)
      BY <1>2, <1>3
    <3> HIDE DEF rest
    <3> QED BY <1>2, <1>6, <3>1, <3>2 DEF Level
  <2>2. rest[i] = pool[i + 1]
    BY <1>2, <2>1
  <2> QED BY <2>1, <2>2
<1> HIDE DEF Level
<1>8. \A i \in 2..(k + 1) : i \in 1..Len(pool) /\ i # 1
  BY <1>2, <1>3
<1>9. \A i \in 1..Len(stack') :
         \/ i \in 1..Len(stack) /\ stack'[i] = stack[i]
         \/ i = Len(stack) + 1 /\ stack'[i] = pool[1]
  BY <1>2, <1>5 DEF TypeOK
<1>10. \A i \in 1..Len(pool') :
          /\ pool'[i] = pool[k + 1 + i]
          /\ k + 1 + i \in 1..Len(pool)
          /\ k + 1 + i \notin 1..(k + 1)
  <2> SUFFICES ASSUME NEW i \in 1..(Len(rest) - k)
               PROVE  /\ pool'[i] = pool[k + 1 + i]
                      /\ k + 1 + i \in 1..Len(pool)
                      /\ k + 1 + i \notin 1..(k + 1)
    BY <1>2, <1>3, <1>5, DropSeq
  <2>1. pool'[i] = rest[k + i] /\ k + i \in 1..Len(rest)
    BY <1>2, <1>3, <1>5, DropSeq
  <2>2. (k + i) + 1 = k + 1 + i
    BY <1>2, <1>3
  <2>3. rest[k + i] = pool[k + 1 + i]
    BY <1>2, <2>1, <2>2
  <2> QED BY <1>2, <1>3, <2>1, <2>3
<1> HIDE DEF rest
<1>11. 1 \in 1..Len(pool) /\ k \in Nat
  BY <1>2, <1>3
<1>12. AllDifferent(pool) /\ AllDifferent(stack) /\ NotHeld(pool) /\ NotHeld(stack)
       /\ EntriesApart
       /\ \A i \in 1..Len(stack), j \in 1..Len(pool) : stack[i] # pool[j]
  BY DEF FrameInv, FramesExclusive
<1>13. EntriesApart'
  <2> SUFFICES ASSUME NEW s \in Present', NEW t \in Present',
                      pte'[s].frame = pte'[t].frame
               PROVE  s = t
    BY DEF EntriesApart
  <2>1. CASE s \in Present /\ pte'[s].frame = pte[s].frame
    <3>1. \A i \in 2..(k + 1) : pte'[t].frame # pool[i]
      BY <1>8, <1>12, <2>1 DEF NotHeld
    <3>2. t \in Present /\ pte'[t].frame = pte[t].frame
      BY <1>7, <3>1
    <3> QED BY <1>12, <2>1, <3>2 DEF EntriesApart
  <2>2. CASE t \in Present /\ pte'[t].frame = pte[t].frame
    <3>1. \A i \in 2..(k + 1) : pte'[s].frame # pool[i]
      BY <1>8, <1>12, <2>2 DEF NotHeld
    <3>2. s \in Present /\ pte'[s].frame = pte[s].frame
      BY <1>7, <3>1
    <3> QED BY <1>12, <2>2, <3>2 DEF EntriesApart
  <2>3. CASE /\ ~ (s \in Present /\ pte'[s].frame = pte[s].frame)
             /\ ~ (t \in Present /\ pte'[t].frame = pte[t].frame)
    <3>1. PICK i \in 2..(k + 1) : pte'[s].frame = pool[i] /\ s = Walk(v)[Level(i)]
      BY <1>7, <2>3
    <3>2. PICK j \in 2..(k + 1) : pte'[t].frame = pool[j] /\ t = Walk(v)[Level(j)]
      BY <1>7, <2>3
    <3>3. i \in 1..Len(pool) /\ j \in 1..Len(pool) /\ pool[i] = pool[j]
      BY <1>8, <3>1, <3>2
    <3>4. i = j
      BY <1>12, <3>3 DEF AllDifferent
    <3> QED BY <3>1, <3>2, <3>4
  <2> QED BY <2>1, <2>2, <2>3
<1>14. AllDifferent(stack)'
  <2> SUFFICES ASSUME NEW i \in 1..Len(stack'), NEW j \in 1..Len(stack'),
                      stack'[i] = stack'[j]
               PROVE  i = j
    BY DEF AllDifferent
  <2>1. CASE i \in 1..Len(stack) /\ stack'[i] = stack[i]
    BY <1>9, <1>11, <1>12, <2>1 DEF AllDifferent
  <2>2. CASE j \in 1..Len(stack) /\ stack'[j] = stack[j]
    BY <1>9, <1>11, <1>12, <2>2 DEF AllDifferent
  <2>3. CASE i = Len(stack) + 1 /\ j = Len(stack) + 1
    BY <2>3
  <2> QED BY <1>9, <2>1, <2>2, <2>3
<1>15. AllDifferent(pool)'
  <2> SUFFICES ASSUME NEW i \in 1..Len(pool'), NEW j \in 1..Len(pool'),
                      pool'[i] = pool'[j]
               PROVE  i = j
    BY DEF AllDifferent
  <2>1. k + 1 + i = k + 1 + j
    BY <1>10, <1>12 DEF AllDifferent
  <2> QED BY <1>11, <2>1
<1>16. \A i \in 1..Len(stack'), j \in 1..Len(pool') : stack'[i] # pool'[j]
  <2> SUFFICES ASSUME NEW i \in 1..Len(stack'), NEW j \in 1..Len(pool')
               PROVE  stack'[i] # pool'[j]
    OBVIOUS
  <2>1. k + 1 + j # 1
    BY <1>10, <1>11
  <2> QED BY <1>9, <1>10, <1>11, <1>12, <2>1 DEF AllDifferent
<1>17. NotHeld(stack)'
  BY <1>7, <1>8, <1>9, <1>11, <1>12 DEF NotHeld, AllDifferent
<1>18. NotHeld(pool)'
  <2> SUFFICES ASSUME NEW s \in Present', NEW j \in 1..Len(pool')
               PROVE  pte'[s].frame # pool'[j]
    BY DEF NotHeld
  <2>1. \A i \in 2..(k + 1) : k + 1 + j # i
    BY <1>10, <1>11
  <2> QED BY <1>7, <1>8, <1>10, <1>12, <2>1 DEF NotHeld, AllDifferent
<1>19. FramesBelow'
  <2>1. FramesBelow
    BY DEF FrameInv
  <2>2. \A s \in Present' : pte'[s].frame < FrameLimit
    BY <1>7, <1>8, <2>1 DEF FramesBelow
  <2>3. \A i \in 1..Len(stack') : stack'[i] < FrameLimit
    BY <1>9, <1>11, <2>1 DEF FramesBelow
  <2>4. \A i \in 1..Len(pool') : pool'[i] < FrameLimit
    BY <1>10, <2>1 DEF FramesBelow
  <2> QED BY <2>2, <2>3, <2>4 DEF FramesBelow
<1> QED
  BY <1>13, <1>14, <1>15, <1>16, <1>17, <1>18, <1>19 DEF FrameInv, FramesExclusive

\* The general form of a step that moves frames from the stack to entries:
\* each frame taken goes to one entry, and the rest of the stack stays.
Takes(K, top, slot) ==
    /\ 1..Len(stack') \subseteq 1..Len(stack)
    /\ \A i \in 1..Len(stack') : stack'[i] = stack[i]
    /\ \A i \in K : top[i] \in 1..Len(stack) /\ top[i] \notin 1..Len(stack')
    /\ \A i, j \in K : top[i] = top[j] => i = j
    /\ pool' = pool
    /\ \A s \in Present' :
          \/ s \in Present /\ pte'[s].frame = pte[s].frame
          \/ \E i \in K : pte'[s].frame = stack[top[i]] /\ s = slot[i]

LEMMA TakenFrames ==
  ASSUME FrameInv, NEW K, NEW top, NEW slot, Takes(K, top, slot)
  PROVE  FrameInv'
<1> SUFFICES ASSUME 1..Len(stack') \subseteq 1..Len(stack),
                    \A i \in 1..Len(stack') : stack'[i] = stack[i],
                    \A i \in K : /\ top[i] \in 1..Len(stack)
                                 /\ top[i] \notin 1..Len(stack'),
                    \A i \in K, j \in K : top[i] = top[j] => i = j,
                    pool' = pool,
                    \A s \in Present' :
                       \/ s \in Present /\ pte'[s].frame = pte[s].frame
                       \/ \E i \in K : pte'[s].frame = stack[top[i]] /\ s = slot[i]
             PROVE  FrameInv'
  BY DEF Takes
<1>1. /\ AllDifferent(pool)
      /\ \A i \in 1..Len(stack), j \in 1..Len(stack) : stack[i] = stack[j] => i = j
      /\ NotHeld(pool)
      /\ \A s \in Present : \A i \in 1..Len(stack) : pte[s].frame # stack[i]
      /\ EntriesApart
      /\ \A i \in 1..Len(stack), j \in 1..Len(pool) : stack[i] # pool[j]
  BY DEF FrameInv, FramesExclusive, AllDifferent, NotHeld
<1>2. EntriesApart'
  <2> SUFFICES ASSUME NEW s \in Present', NEW t \in Present',
                      pte'[s].frame = pte'[t].frame
               PROVE  s = t
    BY DEF EntriesApart
  <2>1. CASE s \in Present /\ pte'[s].frame = pte[s].frame
    <3>1. \A i \in K : pte'[t].frame # stack[top[i]]
      BY <1>1, <2>1
    <3>2. t \in Present /\ pte'[t].frame = pte[t].frame
      BY <3>1, Zenon
    <3>3. pte[s].frame = pte[t].frame
      BY <2>1, <3>2
    <3> QED BY <1>1, <2>1, <3>2, <3>3, Zenon DEF EntriesApart
  <2>2. CASE t \in Present /\ pte'[t].frame = pte[t].frame
    <3>1. \A i \in K : pte'[s].frame # stack[top[i]]
      BY <1>1, <2>2
    <3>2. s \in Present /\ pte'[s].frame = pte[s].frame
      BY <3>1, Zenon
    <3>3. pte[s].frame = pte[t].frame
      BY <2>2, <3>2
    <3> QED BY <1>1, <2>2, <3>2, <3>3, Zenon DEF EntriesApart
  <2>3. CASE /\ ~ (s \in Present /\ pte'[s].frame = pte[s].frame)
             /\ ~ (t \in Present /\ pte'[t].frame = pte[t].frame)
    <3>1. PICK i \in K : pte'[s].frame = stack[top[i]] /\ s = slot[i]
      BY <2>3
    <3>2. PICK j \in K : pte'[t].frame = stack[top[j]] /\ t = slot[j]
      BY <2>3
    <3>3. stack[top[i]] = stack[top[j]]
      BY <3>1, <3>2
    <3>4. top[i] \in 1..Len(stack) /\ top[j] \in 1..Len(stack)
      BY Zenon
    <3>5. top[i] = top[j]
      BY <1>1, <3>3, <3>4, Zenon
    <3>6. i = j
      BY <3>5, Zenon
    <3> QED BY <3>1, <3>2, <3>6
  <2> QED BY <2>1, <2>2, <2>3
<1>3. AllDifferent(stack)'
  <2> SUFFICES ASSUME NEW i \in 1..Len(stack'), NEW j \in 1..Len(stack'),
                      stack'[i] = stack'[j]
               PROVE  i = j
    BY Zenon DEF AllDifferent
  <2>1. i \in 1..Len(stack) /\ j \in 1..Len(stack) /\ stack[i] = stack[j]
    BY Zenon
  <2> QED BY <1>1, <2>1, Zenon
<1>4. AllDifferent(pool)'
  BY <1>1
<1>5. \A i \in 1..Len(stack'), j \in 1..Len(pool') : stack'[i] # pool'[j]
  <2> SUFFICES ASSUME NEW i \in 1..Len(stack'), NEW j \in 1..Len(pool)
               PROVE  stack'[i] # pool[j]
    OBVIOUS
  <2>1. stack'[i] = stack[i] /\ i \in 1..Len(stack)
    OBVIOUS
  <2> QED BY <1>1, <2>1
<1>6. NotHeld(stack)'
  <2> SUFFICES ASSUME NEW s \in Present', NEW j \in 1..Len(stack')
               PROVE  pte'[s].frame # stack'[j]
    BY DEF NotHeld
  <2>1. stack'[j] = stack[j] /\ j \in 1..Len(stack)
    BY Zenon
  <2>2. CASE s \in Present /\ pte'[s].frame = pte[s].frame
    BY <1>1, <2>1, <2>2
  <2>3. ASSUME NEW i \in K, pte'[s].frame = stack[top[i]]
        PROVE  pte'[s].frame # stack'[j]
    <3>1. top[i] \in 1..Len(stack) /\ top[i] # j
      BY Zenon
    <3> QED BY <1>1, <2>1, <2>3, <3>1, Zenon
  <2> QED BY <2>2, <2>3, Zenon
<1>7. NotHeld(pool)'
  <2> SUFFICES ASSUME NEW s \in Present', NEW j \in 1..Len(pool)
               PROVE  pte'[s].frame # pool[j]
    BY DEF NotHeld
  <2>1. CASE s \in Present /\ pte'[s].frame = pte[s].frame
    BY <1>1, <2>1 DEF NotHeld
  <2>2. ASSUME NEW i \in K, pte'[s].frame = stack[top[i]]
        PROVE  pte'[s].frame # pool[j]
    <3>1. top[i] \in 1..Len(stack)
      BY Zenon
    <3>2. stack[top[i]] # pool[j]
      BY <1>1, <3>1, Zenon
    <3> QED BY <2>2, <3>2
  <2> QED BY <2>1, <2>2, Zenon
<1>8. FramesBelow'
  <2>1. FramesBelow
    BY DEF FrameInv
  <2>2. \A s \in Present' : pte'[s].frame < FrameLimit
    BY <2>1 DEF FramesBelow
  <2>3. \A i \in 1..Len(stack') : stack'[i] < FrameLimit
    BY <2>1 DEF FramesBelow
  <2> QED BY <2>1, <2>2, <2>3 DEF FramesBelow
<1> QED
  BY <1>2, <1>3, <1>4, <1>5, <1>6, <1>7, <1>8, Zenon DEF FrameInv, FramesExclusive

\* The k frames taken are those on top of the stack.
LEMMA TakenFromStack ==
  ASSUME TypeOK, FrameInv, NEW k \in 0..Len(stack), NEW slot,
         stack' = SubSeq(stack, 1, Len(stack) - k),
         pool' = pool,
         \A s \in Present' :
            \/ s \in Present /\ pte'[s].frame = pte[s].frame
            \/ \E i \in 1..k : /\ pte'[s].frame = stack[Len(stack) - i + 1]
                               /\ s = slot[i]
  PROVE  FrameInv'
<1> DEFINE n == Len(stack)
           top == [i \in 1..k |-> n - i + 1]
<1>1. n \in Nat /\ k \in 0..n /\ n - k \in 0..n /\ stack \in Seq(Nat)
  BY DEF TypeOK
<1>2. Len(stack') = n - k /\ \A i \in 1..(n - k) : stack'[i] = stack[i]
  BY <1>1, TakeSeq
<1>3. \A i \in 1..k : top[i] = n - i + 1
  OBVIOUS
<1>4. \A i \in 1..k : top[i] \in 1..n /\ top[i] \notin 1..(n - k)
  BY <1>1, <1>3
<1>5. \A i \in 1..k, j \in 1..k : top[i] = top[j] => i = j
  BY <1>1, <1>3
<1>6. 1..(n - k) \subseteq 1..n
  BY <1>1
<1>7. \A s \in Present' :
            \/ s \in Present /\ pte'[s].frame = pte[s].frame
            \/ \E i \in 1..k : pte'[s].frame = stack[top[i]] /\ s = slot[i]
  BY <1>3
<1> HIDE DEF top
<1>8. /\ 1..Len(stack') \subseteq 1..Len(stack)
      /\ \A i \in 1..Len(stack') : stack'[i] = stack[i]
      /\ \A i \in 1..k : top[i] \in 1..Len(stack) /\ top[i] \notin 1..Len(stack')
  BY <1>2, <1>4, <1>6
<1>9. Takes(1..k, top, slot)
  BY <1>5, <1>7, <1>8 DEF Takes
<1> QED BY <1>9, TakenFrames

LEMMA AllocateFrames ==
  ASSUME TypeOK, FrameInv, NEW v \in ClientPages, NEW r \in Requests,
         Allocate(v, r)
  PROVE  FrameInv'
<1> DEFINE m == MapPage(pte, v, AllocateFlags(r), Pops)
           slot == [i \in 1..m.taken |-> Walk(v)[Missing(pte, v) - i + 1]]
<1>1. v \in Page /\ r \in Request /\ pte \in [Slots -> Entry]
  BY PageAssumption DEF TypeOK
<1>2. /\ Pops \in Seq(Nat) /\ Len(Pops) = Len(stack) /\ Len(stack) \in Nat
      /\ \A i \in 1..Len(stack) : Pops[i] = stack[Len(stack) - i + 1]
  BY PopsSeq DEF TypeOK
<1>3. IsFlags(AllocateFlags(r))
  BY <1>1 DEF IsFlags, AllocateFlags, Request
<1>4. m.taken \in 0..Len(stack)
  <2>1. m.taken \in 0..Len(Pops)
    BY <1>1, <1>2, <1>3, MapPageType
  <2> QED BY <1>2, <2>1
<1>5. \A s \in Slots : m.pte[s].present =>
         \/ pte[s].present /\ m.pte[s].frame = pte[s].frame
         \/ \E i \in 1..m.taken : /\ m.pte[s].frame = Pops[i]
                                  /\ s = Walk(v)[Missing(pte, v) - i + 1]
  BY <1>1, <1>2, <1>3, MapPageFrames
<1>6. /\ pte' = m.pte /\ pool' = pool
      /\ stack' = SubSeq(stack, 1, Len(stack) - m.taken)
  BY DEF Allocate
<1>7. \A i \in 1..m.taken : slot[i] = Walk(v)[Missing(pte, v) - i + 1]
  OBVIOUS
<1> DEFINE k == m.taken
<1> HIDE DEF slot, k, m
<1>8. ASSUME NEW s \in Present'
      PROVE  \/ s \in Present /\ pte'[s].frame = pte[s].frame
             \/ \E i \in 1..k : /\ pte'[s].frame = stack[Len(stack) - i + 1]
                                /\ s = slot[i]
  <2>1. s \in Slots /\ m.pte[s].present
    BY <1>6 DEF Present
  <2>2. CASE pte[s].present /\ m.pte[s].frame = pte[s].frame
    BY <1>6, <2>1, <2>2 DEF Present
  <2>3. ASSUME NEW i \in 1..k, m.pte[s].frame = Pops[i],
               s = Walk(v)[Missing(pte, v) - i + 1]
        PROVE  \E j \in 1..k : /\ pte'[s].frame = stack[Len(stack) - j + 1]
                               /\ s = slot[j]
    <3>1. i \in 1..Len(stack)
      BY <1>2, <1>4 DEF k
    <3>2. s = slot[i]
      BY <1>7, <2>3 DEF k
    <3>3. pte'[s].frame = stack[Len(stack) - i + 1]
      BY <1>2, <1>6, <2>3, <3>1
    <3> QED BY <3>2, <3>3
  <2> QED BY <1>5, <2>1, <2>2, <2>3 DEF k
<1>9. k \in 0..Len(stack) /\ stack' = SubSeq(stack, 1, Len(stack) - k)
  BY <1>4, <1>6 DEF k
<1>10. \A s \in Present' :
          \/ s \in Present /\ pte'[s].frame = pte[s].frame
          \/ \E i \in 1..k : /\ pte'[s].frame = stack[Len(stack) - i + 1]
                             /\ s = slot[i]
  BY <1>8
<1>11. pool' = pool
  BY <1>6
<1> QED BY <1>9, <1>10, <1>11, TakenFromStack

LEMMA AllocateFaultsOnTableFrames ==
  ASSUME TypeOK, FrameInv, NEW v \in ClientPages, NEW r \in Requests,
         AllocateFaultsOnTable(v, r)
  PROVE  FrameInv'
<1> DEFINE s0 == Walk(v)[Missing(pte, v)]
           slot == [i \in 1..1 |-> s0]
<1>1. /\ stack # << >> /\ stack \in Seq(Nat)
      /\ Len(stack) \in Nat /\ Len(stack) > 0
  BY DEF TypeOK, AllocateFaultsOnTable, CanZeroTable
<1>2. Head(Pops) = stack[Len(stack) - 1 + 1]
  <2>1. /\ Pops \in Seq(Nat) /\ Len(Pops) = Len(stack)
        /\ \A i \in 1..Len(stack) : Pops[i] = stack[Len(stack) - i + 1]
    BY <1>1, PopsSeq
  <2>2. 1 \in 1..Len(stack) /\ Pops # << >>
    BY <1>1, <2>1
  <2> QED BY <2>1, <2>2
<1>3. /\ pte' = [pte EXCEPT ![s0] =
                   [NotPresent EXCEPT !.present = TRUE, !.frame = Head(Pops),
                                      !.user = r.user]]
      /\ stack' = SubSeq(stack, 1, Len(stack) - 1)
      /\ pool' = pool
  BY DEF AllocateFaultsOnTable
<1>4. \A s \in Present' :
         \/ s \in Present /\ pte'[s].frame = pte[s].frame
         \/ \E i \in 1..1 : /\ pte'[s].frame = stack[Len(stack) - i + 1]
                            /\ s = slot[i]
  <2> SUFFICES ASSUME NEW s \in Slots, pte'[s].present
               PROVE  \/ pte[s].present /\ pte'[s].frame = pte[s].frame
                      \/ /\ pte'[s].frame = stack[Len(stack) - 1 + 1]
                         /\ s = slot[1]
    BY DEF Present
  <2>1. CASE s = s0
    BY <1>2, <1>3, <2>1 DEF TypeOK, NotPresent
  <2>2. CASE s # s0
    BY <1>3, <2>2 DEF TypeOK
  <2> QED BY <2>1, <2>2
<1>5. 1 \in 0..Len(stack)
  BY <1>1
<1> HIDE DEF slot, s0
<1> QED BY <1>3, <1>4, <1>5, TakenFromStack

LEMMA FreeFrames ==
  ASSUME TypeOK, FrameInv, NEW v \in ClientPages, Free(v)
  PROVE  FrameInv'
<1> DEFINE c == Cleared(v)
           w(i) == Walk(v)[i]
           k == Kept(Len(Freed(v)))
           n == Len(stack)
           more == SubSeq(Freed(v), 1, k)
<1>1. v \in Page
  BY PageAssumption
<1>2. c \in 1..4 /\ Freed(v) \in Seq(Nat) /\ Len(Freed(v)) = c
      /\ \A i \in 1..c : Freed(v)[i] = pte[w(i)].frame % FrameLimit
  BY <1>1, ClearedDef, FreedSeq
<1>3. k \in 0..c
  <2>1. Len(Freed(v)) \in 0..4
    BY <1>2
  <2> QED BY <1>2, <2>1, KeptDef DEF TypeOK
<1>4. \A i \in 1..c : w(i) \in Present /\ w(i)[1] = i
  <2> SUFFICES ASSUME NEW i \in 1..c PROVE w(i) \in Present /\ w(i)[1] = i
    OBVIOUS
  <2>1. i \in 1..4 /\ i \in (0 + 1)..4
    BY <1>2
  <2>2. pte[w(i)].present
    BY <2>1, MissingDef DEF Free
  <2> QED BY <1>1, <2>1, <2>2, WalkSlot DEF Present
<1>5. \A i \in 1..c, j \in 1..c : w(i) = w(j) => i = j
  BY <1>4
<1>6. \A i \in 1..c : Freed(v)[i] = pte[w(i)].frame
  <2> SUFFICES ASSUME NEW i \in 1..c PROVE Freed(v)[i] = pte[w(i)].frame
    OBVIOUS
  <2>1. pte[w(i)].frame \in Nat /\ pte[w(i)].frame < FrameLimit
    BY <1>4 DEF FrameInv, FramesBelow, Present, TypeOK, Entry
  <2>2. pte[w(i)].frame % FrameLimit = pte[w(i)].frame
    BY <2>1, KernelAssumption
  <2> QED BY <1>2, <2>2
<1>7. /\ more \in Seq(Nat) /\ Len(more) = k
      /\ \A i \in 1..k : more[i] = pte[w(i)].frame /\ i \in 1..c
  <2>1. \A i \in 1..k : more[i] = Freed(v)[i] /\ i \in 1..c
    BY <1>2, <1>3, TakeSeq
  <2> QED BY <1>2, <1>3, <1>6, <2>1, TakeSeq
<1>8. \A s \in Present' : /\ s \in Present /\ pte'[s].frame = pte[s].frame
                          /\ \A i \in 1..c : s # w(i)
  <2> SUFFICES ASSUME NEW s \in Slots, pte'[s].present
               PROVE  /\ pte[s].present /\ pte'[s].frame = pte[s].frame
                      /\ \A i \in 1..c : s # w(i)
    BY DEF Present
  <2>1. pte' = Unmapped(v)
    BY DEF Free
  <2>2. ~ (s = Walk(v)[s[1]] /\ s[1] <= c)
    <3>1. CASE s = Walk(v)[s[1]] /\ s[1] <= c
      <4>1. s[1] <= c + 1
        BY <1>2, <3>1, SlotWalk
      <4>2. pte'[s] = NotPresent
        BY <1>1, <2>1, <3>1, <4>1, UnmappedResult
      <4> QED BY <4>2 DEF NotPresent
    <3> QED BY <3>1
  <2>3. pte'[s] = pte[s] \/ pte'[s] = DecEntryCount(pte[s])
    BY <1>1, <2>1, <2>2, UnmappedResult
  <2>4. pte[s].present /\ pte'[s].frame = pte[s].frame
    BY <2>3, DecEntryCountType DEF TypeOK
  <2>5. \A i \in 1..c : s # w(i)
    BY <1>2, <1>4, <2>2
  <2> QED BY <2>4, <2>5
<1>9. stack' = stack \o more /\ pool' = pool /\ n \in Nat
  BY DEF Free, TypeOK
<1> HIDE DEF c, w, k, more
<1>10. /\ Len(stack') = n + k
       /\ \A i \in 1..n : stack'[i] = stack[i]
       /\ \A i \in 1..k : stack'[n + i] = pte[w(i)].frame
  <2>1. stack \in Seq(Nat) /\ more \in Seq(Nat)
    BY <1>7 DEF TypeOK
  <2>2. /\ Len(stack') = n + k
        /\ \A i \in 1..(n + k) :
              stack'[i] = IF i <= n THEN stack[i] ELSE more[i - n]
    BY <1>7, <1>9, <2>1, ConcatProperties
  <2> HIDE DEF n
  <2>3. k \in Nat
    BY <1>2, <1>3
  <2>4. \A i \in 1..n : i \in 1..(n + k) /\ i <= n
    BY <1>9, <2>3
  <2>5. \A i \in 1..k : /\ n + i \in 1..(n + k)
                        /\ ~ (n + i <= n)
                        /\ (n + i) - n = i
    BY <1>9, <2>3
  <2> QED BY <1>7, <2>2, <2>4, <2>5, SMTT(30)
<1> HIDE DEF n
<1>11. \A i \in 1..Len(stack') :
          \/ i \in 1..n /\ stack'[i] = stack[i]
          \/ \E j \in 1..k : i = n + j /\ stack'[i] = pte[w(j)].frame
  <2> SUFFICES ASSUME NEW i \in 1..(n + k), i \notin 1..n
               PROVE  \E j \in 1..k : i = n + j /\ stack'[i] = pte[w(j)].frame
    BY <1>10
  <2>1. i - n \in 1..k /\ n + (i - n) = i
    <3>1. k \in Nat
      BY <1>2, <1>3
    <3> QED BY <1>9, <3>1
  <2> QED BY <1>10, <2>1
<1>12. /\ AllDifferent(pool)
       /\ \A i \in 1..n, j \in 1..n : stack[i] = stack[j] => i = j
       /\ NotHeld(pool)
       /\ \A s \in Present : \A i \in 1..n : pte[s].frame # stack[i]
       /\ EntriesApart
       /\ \A i \in 1..n, j \in 1..Len(pool) : stack[i] # pool[j]
  BY DEF FrameInv, FramesExclusive, AllDifferent, NotHeld, n
<1>13. EntriesApart'
  BY <1>8, <1>12 DEF EntriesApart
<1>14. AllDifferent(stack)'
  <2> SUFFICES ASSUME NEW i \in 1..Len(stack'), NEW j \in 1..Len(stack'),
                      stack'[i] = stack'[j]
               PROVE  i = j
    BY DEF AllDifferent
  <2>1. CASE i \in 1..n /\ stack'[i] = stack[i]
    <3>1. \A b \in 1..k : stack'[j] # pte[w(b)].frame
      BY <1>4, <1>7, <1>12, <2>1
    <3> QED BY <1>11, <1>12, <2>1, <3>1
  <2>2. CASE j \in 1..n /\ stack'[j] = stack[j]
    <3>1. \A b \in 1..k : stack'[i] # pte[w(b)].frame
      BY <1>4, <1>7, <1>12, <2>2
    <3> QED BY <1>11, <1>12, <2>2, <3>1
  <2>3. ASSUME NEW a \in 1..k, i = n + a, stack'[i] = pte[w(a)].frame,
               NEW b \in 1..k, j = n + b, stack'[j] = pte[w(b)].frame
        PROVE  i = j
    <3>1. a \in 1..c /\ b \in 1..c
      BY <1>7
    <3>2. w(a) = w(b)
      BY <1>4, <1>12, <2>3, <3>1 DEF EntriesApart
    <3> QED BY <1>5, <2>3, <3>1, <3>2
  <2> QED BY <1>11, <2>1, <2>2, <2>3
<1>15. AllDifferent(pool)'
  BY <1>9, <1>12 DEF AllDifferent
<1>16. \A i \in 1..Len(stack'), j \in 1..Len(pool') : stack'[i] # pool'[j]
  <2> SUFFICES ASSUME NEW i \in 1..Len(stack'), NEW j \in 1..Len(pool)
               PROVE  stack'[i] # pool[j]
    BY <1>9
  <2>1. \A b \in 1..k : pte[w(b)].frame # pool[j]
    BY <1>4, <1>7, <1>12 DEF NotHeld
  <2> QED BY <1>11, <1>12, <2>1
<1>17. NotHeld(stack)'
  <2> SUFFICES ASSUME NEW s \in Present', NEW i \in 1..Len(stack')
               PROVE  pte'[s].frame # stack'[i]
    BY DEF NotHeld
  <2>1. CASE i \in 1..n /\ stack'[i] = stack[i]
    BY <1>8, <1>12, <2>1
  <2>2. ASSUME NEW j \in 1..k, stack'[i] = pte[w(j)].frame
        PROVE  pte'[s].frame # stack'[i]
    BY <1>4, <1>7, <1>8, <1>12, <2>2 DEF EntriesApart
  <2> QED BY <1>11, <2>1, <2>2
<1>18. NotHeld(pool)'
  BY <1>8, <1>9, <1>12 DEF NotHeld
<1>19. FramesBelow'
  <2>1. FramesBelow
    BY DEF FrameInv
  <2>2. \A s \in Present' : pte'[s].frame < FrameLimit
    BY <1>8, <2>1 DEF FramesBelow
  <2>3. \A i \in 1..Len(stack') : stack'[i] < FrameLimit
    BY <1>4, <1>7, <1>11, <2>1 DEF FramesBelow, n
  <2>4. \A i \in 1..Len(pool') : pool'[i] < FrameLimit
    BY <1>9, <2>1 DEF FramesBelow
  <2> QED BY <2>2, <2>3, <2>4 DEF FramesBelow
<1> QED
  BY <1>13, <1>14, <1>15, <1>16, <1>17, <1>18, <1>19 DEF FrameInv, FramesExclusive

LEMMA UnchangedFrames ==
  ASSUME FrameInv, pte' = pte, stack' = stack, pool' = pool
  PROVE  FrameInv'
<1>1. Present' = Present
  BY DEF Present
<1>2. FramesExclusive'
  BY <1>1 DEF FrameInv, FramesExclusive, EntriesApart, AllDifferent, NotHeld
<1>3. FramesBelow'
  BY <1>1 DEF FrameInv, FramesBelow
<1> QED BY <1>2, <1>3 DEF FrameInv

LEMMA NextFrameInv ==
  TypeOK /\ RamBound /\ FrameInv /\ [Next]_vars => FrameInv'
<1> SUFFICES ASSUME TypeOK, RamBound, FrameInv, [Next]_vars PROVE FrameInv'
  OBVIOUS
<1>1. CASE PushMapFrame
  BY <1>1, PushMapFrameFrames
<1>2. CASE EndInitialize
  BY <1>2, UnchangedFrames DEF EndInitialize
<1>3. ASSUME NEW v \in ClientPages, NEW r \in Requests, Allocate(v, r)
      PROVE  FrameInv'
  BY <1>3, AllocateFrames
<1>4. ASSUME NEW v \in ClientPages, NEW r \in Requests,
             AllocateFaultsOnTable(v, r)
      PROVE  FrameInv'
  BY <1>4, AllocateFaultsOnTableFrames
<1>5. ASSUME NEW v \in ClientPages, AllocateFaults(v) \/ FreeFaults(v)
      PROVE  FrameInv'
  BY <1>5, UnchangedFrames DEF AllocateFaults, FreeFaults
<1>6. ASSUME NEW v \in ClientPages, Free(v)
      PROVE  FrameInv'
  BY <1>6, FreeFrames
<1>7. CASE UNCHANGED vars
  BY <1>7, UnchangedFrames DEF vars
<1> QED BY <1>1, <1>2, <1>3, <1>4, <1>5, <1>6, <1>7 DEF Next

\* On a machine with less than 2 GiB of memory, a frame is never in two
\* places: no two pages or tables share one, and none that is in use is on
\* the stack or still to come from the memory map, through every sequence of
\* Initialize, Allocate and Free, failed and faulting calls included.
THEOREM FramesAreExclusive == ASSUME LowMemory PROVE Spec => []FramesExclusive
<1>1. Spec => [](TypeOK /\ RamBound)
  BY TypeCorrect
<1>2. Init => FrameInv
  BY InitFrameInv
<1>3. FrameInv => FramesExclusive
  BY DEF FrameInv
<1> QED BY <1>1, <1>2, <1>3, NextFrameInv, PTL DEF Spec
=============================================================================
