----------------------------- MODULE HeapProofs -----------------------------
(***************************************************************************)
(* Proofs about Heap, for a region of any size and any sizes of requests,  *)
(* up to the first corruption: its types, that the blocks tile the region, *)
(* that callers own the blocks in use, that contents are kept, and that it *)
(* implements Allocator.                                                   *)
(***************************************************************************)
EXTENDS Heap, SequenceTheorems, TLAPS

(***************************************************************************)
(* The list B of blocks in memory m, which tile the region.                *)
(***************************************************************************)
Linked(m, B, b) ==
    IF m[b + 1].next = Null THEN b + m[b].size = End
    ELSE m[b + 1].next \in B /\ b + m[b].size = m[b + 1].next

Header(m, B, b) ==
    /\ b \in First..Cells /\ m[b].sign = TRUE
    /\ m[b].size >= H /\ b + m[b].size <= End
    /\ m[b].tag = NoTag /\ m[b + 1].tag = NoTag
    /\ Linked(m, B, b)

Apart(m, B) == \A b, c \in B : b < c => b + m[b].size <= c

Reached(m, B) == \A b \in B \ {First} : \E c \in B : m[c + 1].next = b

List(m, B) == /\ First \in B
              /\ \A b \in B : Header(m, B, b)
              /\ Apart(m, B) /\ Reached(m, B)

\* Before the first call of malloc there is no list.
NoList(m, B, lv) == B = {} /\ m[First].sign = FALSE /\ \A a \in Addr : lv[a] = NotOwned

(***************************************************************************)
(* The blocks in use are those that callers own, and the one that is being *)
(* given to them or taken from them (fresh); an owner whose block has been *)
(* freed is gone.                                                          *)
(***************************************************************************)
Owners(lv) == {a \in Addr : lv[a].size > 0}

InUse(m, B, lv, fresh, gone) ==
    /\ \A b \in B : m[b].free = FALSE <=> b \in fresh \/ b + H \in Owners(lv) \ gone
    /\ \A a \in Owners(lv) \ gone : a - H \in B
    /\ fresh \subseteq B /\ \A b \in fresh : b + H \notin Owners(lv)

LiveOK(lv) ==
    /\ \A a \in Addr : IF lv[a].size = 0 THEN lv[a] = NotOwned
                       ELSE lv[a].tag \in Tags /\ lv[a].kept <= lv[a].size
    /\ \A a, c \in Owners(lv) : lv[a].tag = lv[c].tag => a = c

\* Owner a has the room it asked for, and what it wrote.
Whole(m, lv, a) ==
    /\ m[a - H].size >= H + lv[a].size
    /\ \A i \in 0..(lv[a].kept - 1) : m[a + i].tag = lv[a].tag

Links(m) == \A a \in Addr : m[a].next \in 0..Cells /\ m[a].prev \in 0..Cells

\* The owners in hot are in the middle of a realloc.
Good(m, B, lv, fresh, gone, hot) ==
    /\ NoList(m, B, lv) \/ List(m, B)
    /\ InUse(m, B, lv, fresh, gone)
    /\ LiveOK(lv)
    /\ \A a \in Owners(lv) \ hot : Whole(m, lv, a)

\* Block b is what a call for n cells, by owner p or by nobody yet, returns.
Ready(m, lv, b, p, n) ==
    /\ n > 0 /\ m[b].size >= H + n
    /\ p # Null => \A i \in 0..(lv[p].kept - 1) : i < n => m[b + H + i].tag = lv[p].tag

(***************************************************************************)
(* The call stack.                                                         *)
(***************************************************************************)
Ptr == Addr \cup {Null}

Then(c, r) == <<c>> \o r

Asked == Sizes \cup {0}

DataOf == Do("data", Null, 0, Null)

DoneWith(p, n) == Then(Do("done", p, n, Null), << >>)

ReallocEnd(p, n) == Then(DataOf, DoneWith(p, n))

\* What realloc copies: all that is kept, and no more than there is.
CopiesFrom(p, o) == o \in Nat /\ H + live[p].kept <= o /\ p - H + o <= End

\* What is left to do when malloc returns.
MallocTo(r, p, n) ==
    \/ p = Null /\ FreeTags # {} /\ r = DoneWith(Null, n)
    \/ /\ p \in Owned /\ n > 0
       /\ \E o \in 0..End : CopiesFrom(p, o) /\ r = Then(Do("move", p - H, n, o), ReallocEnd(p, n))

\* What is left when shrink_block returns b, in memory m.
ShrinkTo(s, m, b, p, n) ==
    /\ b \in blocks /\ n \in Asked /\ n > 0 /\ m[b].size >= H + n
    /\ \/ /\ Good(m, blocks, live, {b}, {}, {})
          /\ \E r \in Seq(Call) : s = Then(DataOf, r) /\ MallocTo(r, p, n)
       \/ /\ p \in Owned /\ b = p - H
          /\ Good(m, blocks, live, {}, {}, {p})
          /\ Ready(m, live, b, p, n)
          /\ s = ReallocEnd(p, n)

\* The list as Cut will leave it.
CutAt(b, n) == [mem EXCEPT ![b].size = H + n, ![b + 1].next = b + H + n]

Calm == Good(mem, blocks, live, {}, {}, {})

Fresh(b) == Good(mem, blocks, live, {b}, {}, {})

Moved(b, p, n) == /\ p \in Owned /\ n \in Asked
                  /\ Good(mem, blocks, live, {b}, {p}, {p}) /\ Ready(mem, live, b, p, n)

(***************************************************************************)
(* The states a routine is found in.                                       *)
(***************************************************************************)
InClient == todo = << >> /\ Calm

InMalloc == \E r \in Seq(Call), p \in Ptr, n \in Asked :
    /\ todo = Then(Do("malloc", Null, n, Null), r) /\ MallocTo(r, p, n)
    /\ Calm

InFind == \E r \in Seq(Call), p \in Ptr, n \in Asked, b, best \in blocks \cup {Null} :
    /\ todo = Then(Do("find", b, n, best), r) /\ MallocTo(r, p, n) /\ n > 0
    /\ best # Null => mem[best].free = TRUE /\ mem[best].size >= H + n
    /\ Calm

InShrink == \E s \in Seq(Call), p \in Ptr, n \in Asked, b \in blocks, x \in 0..End :
    todo = Then(Do("shrink", b, n, x), s) /\ ShrinkTo(s, mem, b, p, n)

InCut(s, p, n, b) == /\ ShrinkTo(s, CutAt(b, n), b, p, n)
                     /\ b + H + n \in blocks /\ mem[b].size <= Cells

InSplit == \E s \in Seq(Call), p \in Ptr, n \in Asked, b \in blocks :
    /\ todo = Then(Do("defrag", b + H + n, 0, Null), Then(Do("cut", b, n, b + H + n), s))
    /\ InCut(s, p, n, b)

AtCut == \E s \in Seq(Call), p \in Ptr, n \in Asked, b \in blocks :
    todo = Then(Do("cut", b, n, b + H + n), s) /\ InCut(s, p, n, b)

AtData == \E p \in Ptr, n \in Asked :
    \/ ShrinkTo(todo, mem, ret, p, n)
    \/ todo = ReallocEnd(p, n) /\ ret = Null /\ Calm
    \/ todo = ReallocEnd(p, n) /\ Moved(ret, p, n)

AtDone == \E p \in Ptr, n \in Asked :
    /\ todo = DoneWith(p, n)
    /\ \/ ret = Null /\ Calm
       \/ \E b \in blocks : /\ ret = b + H /\ p = Null /\ FreeTags # {} /\ Fresh(b)
                            /\ n > 0 /\ mem[b].size >= H + n
       \/ /\ ret = p /\ p \in Owned /\ Good(mem, blocks, live, {}, {}, {p})
          /\ Ready(mem, live, p - H, p, n)
       \/ \E b \in blocks : ret = b + H /\ Moved(b, p, n)

AtMove == \E p \in Owned, n \in Asked, o \in 0..End :
    /\ todo = Then(Do("move", p - H, n, o), ReallocEnd(p, n)) /\ CopiesFrom(p, o) /\ n > 0
    /\ \/ ret = Null /\ Calm
       \/ \E b \in blocks : ret = b + H /\ Fresh(b) /\ mem[b].size >= H + n

\* What is left when free returns, to a caller or to realloc(p, 0).
FreeTo(r) == \/ r = << >>
             \/ ret = Null /\ \E p \in Ptr, n \in Asked : r = DoneWith(p, n)

InFree == \E r \in Seq(Call), a \in Ptr :
    /\ todo = Then(Do("free", a, 0, Null), r)
    /\ \/ a = Null /\ r = << >> /\ Calm
       \/ \E b \in blocks : a = b + H /\ Fresh(b) /\ FreeTo(r)
       \/ /\ a \in Owned /\ Fresh(ret)
          /\ \E n \in Asked : r = ReallocEnd(a, n) /\ Ready(mem, live, ret, a, n)

InDefrag == \E r \in Seq(Call), b \in blocks :
    /\ todo = Then(Do("defrag", b, 0, Null), r)
    /\ \/ Calm /\ FreeTo(r)
       \/ \E p \in Owned, n \in Asked : Moved(ret, p, n) /\ r = ReallocEnd(p, n)

InRealloc == \E p \in Ptr, n \in Asked :
    /\ todo = Then(Do("realloc", p, n, Null), DoneWith(p, n))
    /\ \/ Calm /\ ((p = Null /\ FreeTags # {}) \/ (p \in Owned /\ n > 0))
       \/ n = 0 /\ \E b \in blocks : p = b + H /\ Fresh(b)

InExpand == \E p \in Owned, n \in Asked, o \in 0..End :
    /\ todo = Then(Do("expand", p - H, n, o), ReallocEnd(p, n))
    /\ CopiesFrom(p, o) /\ n > 0 /\ Calm

States == \/ InClient \/ InMalloc \/ InFind \/ InShrink \/ InSplit \/ AtCut \/ AtData
          \/ AtDone \/ AtMove \/ InFree \/ InDefrag \/ InRealloc \/ InExpand

Types == /\ mem \in [Addr -> Cell]
         /\ todo \in Seq(Call)
         /\ ret \in Addr \cup {Null}
         /\ live \in [Addr -> [size : Asked, tag : Tags \cup {NoTag}, kept : Asked]]
         /\ blocks \subseteq Addr
         /\ corrupt \in BOOLEAN

IInv == Types /\ (Sound => Links(mem) /\ States)

-----------------------------------------------------------------------------
(***************************************************************************)
(* Lists of blocks.                                                        *)
(***************************************************************************)
USE DEF H, Null, First, End, Addr

Memories == [Addr -> Cell]

LEMMA CellsNat == Cells \in Nat /\ Cells >= 2 /\ NoTag \notin Tags /\ Sizes \subseteq Nat
  BY HeapAssumption

LEMMA CellType ==
  ASSUME NEW m \in Memories, NEW a \in Addr
  PROVE  /\ m[a] \in Cell
         /\ m[a].size \in Nat /\ m[a].next \in Nat /\ m[a].prev \in Nat
         /\ m[a].sign \in BOOLEAN /\ m[a].free \in BOOLEAN
  BY DEF Memories, Cell

\* What is known of a block, its numbers typed.
LEMMA BlockFacts ==
  ASSUME NEW m \in Memories, NEW B, List(m, B), NEW b \in B
  PROVE  /\ b \in Nat /\ b >= 1 /\ b <= Cells - 1 /\ b \in Addr /\ b + 1 \in Addr
         /\ m[b].size \in Nat /\ m[b].size >= 2 /\ b + m[b].size <= Cells + 1
         /\ m[b].sign = TRUE /\ m[b].tag = NoTag /\ m[b + 1].tag = NoTag
         /\ m[b + 1].next \in Nat
         /\ \/ m[b + 1].next = 0 /\ b + m[b].size = Cells + 1
            \/ m[b + 1].next # 0 /\ m[b + 1].next \in B /\ b + m[b].size = m[b + 1].next
<1>1. Header(m, B, b)
  BY DEF List
<1>2. b \in 1..Cells /\ b \in Addr /\ b + 1 \in Addr
  BY <1>1, CellsNat DEF Header
<1>3. m[b].size \in Nat /\ m[b + 1].next \in Nat
  BY <1>2, CellType
<1> QED BY <1>1, <1>2, <1>3, CellsNat DEF Header, Linked

LEMMA BlocksDiffer ==
  ASSUME NEW m \in Memories, NEW B, List(m, B), NEW b \in B, NEW c \in B, b # c
  PROVE  b + m[b].size <= c \/ c + m[c].size <= b
<1>1. b \in Nat
  BY BlockFacts
<1>2. c \in Nat
  BY BlockFacts
<1>3. b < c \/ c < b
  BY <1>1, <1>2
<1> QED BY <1>3 DEF List, Apart

\* A list is a list still when its headers are the same.
LEMMA SameList ==
  ASSUME NEW m \in Memories, NEW B, List(m, B), NEW w \in Memories,
         \A b \in B : /\ w[b].sign = m[b].sign /\ w[b].size = m[b].size
                      /\ w[b].tag = m[b].tag /\ w[b + 1].tag = m[b + 1].tag
                      /\ w[b + 1].next = m[b + 1].next
  PROVE  List(w, B)
<1>1. ASSUME NEW b \in B PROVE Header(w, B, b)
  BY <1>1 DEF List, Header, Linked
<1>2. Apart(w, B)
  BY DEF List, Apart
<1>3. Reached(w, B)
  BY DEF List, Reached
<1> QED BY <1>1, <1>2, <1>3 DEF List

\* Split and Cut: block x behind the first n cells of data of b.
Splits(m, w, b, n, x) ==
    /\ 2 + n < m[b].size /\ m[b].size - (2 + n) >= 2
    /\ w[x].sign = TRUE /\ w[x].free = TRUE /\ w[x].tag = NoTag
    /\ w[x].size = m[b].size - (2 + n)
    /\ w[x + 1].tag = NoTag /\ w[x + 1].next = m[b + 1].next
    /\ w[b].sign = m[b].sign /\ w[b].free = m[b].free /\ w[b].tag = m[b].tag
    /\ w[b].size = 2 + n
    /\ w[b + 1].tag = m[b + 1].tag /\ w[b + 1].next = x
    /\ \A a \in Addr \ {b, b + 1, x, x + 1} : w[a] = m[a]

LEMMA SplitList ==
  ASSUME NEW m \in Memories, NEW B, List(m, B), NEW b \in B, NEW n \in Nat,
         NEW x, x = b + 2 + n, NEW w \in Memories, Splits(m, w, b, n, x)
  PROVE  /\ List(w, B \cup {x}) /\ x \notin B
         /\ \A c \in B \ {b} : w[c] = m[c] /\ w[c + 1] = m[c + 1]
<1> USE DEF Splits
<1>1. /\ b \in Nat /\ b >= 1 /\ b <= Cells - 1 /\ m[b].size \in Nat
      /\ b + m[b].size <= Cells + 1 /\ x \in Nat /\ x + 2 <= b + m[b].size /\ Cells \in Nat
  <2>1. /\ b \in Nat /\ b >= 1 /\ b <= Cells - 1 /\ m[b].size \in Nat
        /\ b + m[b].size <= Cells + 1
    BY BlockFacts
  <2> QED BY <2>1, CellsNat
<1>2. ASSUME NEW c \in B, c # b
      PROVE  /\ c \in Nat /\ m[c].size \in Nat /\ m[c].size >= 2 /\ c \in Addr /\ c + 1 \in Addr
             /\ c + m[c].size <= b \/ b + m[b].size <= c
             /\ w[c] = m[c] /\ w[c + 1] = m[c + 1]
  <2>1. /\ c \in Nat /\ m[c].size \in Nat /\ m[c].size >= 2 /\ c \in Addr /\ c + 1 \in Addr
        /\ c + m[c].size <= b \/ b + m[b].size <= c
    BY <1>2, BlockFacts, BlocksDiffer
  <2>2. c \notin {b, b + 1, x, x + 1} /\ c + 1 \notin {b, b + 1, x, x + 1}
    BY <1>1, <2>1
  <2> QED BY <2>1, <2>2
<1>3. x \notin B
  <2>1. ASSUME x \in B PROVE FALSE
    BY <1>1, <1>2, <2>1
  <2> QED BY <2>1
<1>4. First \in B \cup {x}
  BY DEF List
<1>5. Header(w, B \cup {x}, b)
  <2>1. m[b].sign = TRUE /\ m[b].tag = NoTag /\ m[b + 1].tag = NoTag
    BY BlockFacts
  <2>2. Linked(w, B \cup {x}, b)
    BY <1>1 DEF Linked
  <2> QED BY <1>1, <2>1, <2>2 DEF Header
<1>6. Header(w, B \cup {x}, x)
  <2>1. Linked(m, B, b)
    BY DEF List, Header
  <2>2. Linked(w, B \cup {x}, x)
    BY <1>1, <2>1 DEF Linked
  <2> QED BY <1>1, <2>2 DEF Header
<1>7. ASSUME NEW c \in B, c # b PROVE Header(w, B \cup {x}, c)
  <2>1. Header(m, B, c)
    BY DEF List
  <2> QED BY <1>2, <1>7, <2>1 DEF Header, Linked
<1>8. Apart(w, B \cup {x})
  <2> SUFFICES ASSUME NEW c \in B \cup {x}, NEW d \in B \cup {x}, c < d
               PROVE  c + w[c].size <= d
    BY DEF Apart
  <2>1. CASE c \in B \ {b} /\ d \in B \ {b}
    BY <1>2, <2>1 DEF List, Apart
  <2>2. CASE c \in B \ {b} /\ d \in {b, x}
    BY <1>1, <1>2, <2>2
  <2>3. CASE c \in {b, x} /\ d \in B \ {b}
    BY <1>1, <1>2, <2>3
  <2>4. CASE c \in {b, x} /\ d \in {b, x}
    BY <1>1, <2>4
  <2> QED BY <2>1, <2>2, <2>3, <2>4
<1>9. Reached(w, B \cup {x})
  <2> SUFFICES ASSUME NEW d \in (B \cup {x}) \ {First}
               PROVE  \E c \in B \cup {x} : w[c + 1].next = d
    BY DEF Reached
  <2>1. CASE d = x
    BY <2>1
  <2>2. CASE d # x
    <3>1. PICK c \in B : m[c + 1].next = d
      BY <2>2 DEF List, Reached
    <3>2. CASE c = b
      BY <3>1, <3>2
    <3>3. CASE c # b
      BY <1>2, <3>1, <3>3
    <3> QED BY <3>2, <3>3
  <2> QED BY <2>1, <2>2
<1> QED BY <1>2, <1>3, <1>4, <1>5, <1>6, <1>7, <1>8, <1>9 DEF List

FreeIn(m, b) == m[b].free = TRUE

\* Block b takes in x, the one after it.
Merges(m, w, b, x) ==
    /\ x = m[b + 1].next /\ x # 0
    /\ w[b].sign = m[b].sign /\ w[b].free = m[b].free /\ w[b].tag = m[b].tag
    /\ w[b].size = m[b].size + m[x].size
    /\ w[b + 1].tag = m[b + 1].tag /\ w[b + 1].next = m[x + 1].next
    /\ \A a \in Addr \ {b, b + 1} : w[a] = m[a]

Merged(m, w, B, b, x) ==
    /\ List(w, B \ {x}) /\ x \in B /\ x # b
    /\ \A c \in B \ {b} : w[c] = m[c] /\ w[c + 1] = m[c + 1]

LEMMA MergeList ==
  ASSUME NEW m \in Memories, NEW B, List(m, B), NEW b \in B,
         NEW x, NEW w \in Memories, Merges(m, w, b, x)
  PROVE  Merged(m, w, B, b, x)
<1>1. /\ b \in Nat /\ b >= 1 /\ m[b].size \in Nat /\ m[b].size >= 2
      /\ x \in B /\ x = b + m[b].size /\ x \in Nat /\ x # b /\ Cells \in Nat
  <2>1. /\ b \in Nat /\ b >= 1 /\ m[b].size \in Nat /\ m[b].size >= 2
        /\ m[b + 1].next # 0 => m[b + 1].next \in B /\ m[b + 1].next = b + m[b].size
    BY BlockFacts
  <2> QED BY <2>1, CellsNat DEF Merges
<1>2. /\ m[x].size \in Nat /\ m[x].size >= 2 /\ x + m[x].size <= Cells + 1 /\ Linked(m, B, x)
      /\ m[x + 1].next \in Nat
  <2>1. Header(m, B, x)
    BY <1>1 DEF List
  <2> QED BY <1>1, <2>1, BlockFacts DEF Header
<1>3. ASSUME NEW c \in B, c # b
      PROVE  /\ c \in Nat /\ m[c].size \in Nat /\ m[c].size >= 2 /\ c \in Addr /\ c + 1 \in Addr
             /\ c + m[c].size <= b \/ b + m[b].size <= c
             /\ w[c] = m[c] /\ w[c + 1] = m[c + 1]
  <2>1. /\ c \in Nat /\ m[c].size \in Nat /\ m[c].size >= 2 /\ c \in Addr /\ c + 1 \in Addr
        /\ c + m[c].size <= b \/ b + m[b].size <= c
    BY <1>3, BlockFacts, BlocksDiffer
  <2>2. c \notin {b, b + 1} /\ c + 1 \notin {b, b + 1}
    BY <1>1, <2>1
  <2> QED BY <2>1, <2>2 DEF Merges
<1>4. First \in B \ {x}
  BY <1>1, CellsNat DEF List
<1>5. m[x + 1].next # x /\ \A c \in B : m[c + 1].next = x => c = b
  <2>1. m[x + 1].next # x
    BY <1>1, <1>2 DEF Linked, Merges
  <2>2. ASSUME NEW c \in B, m[c + 1].next = x PROVE c = b
    <3>1. x # 0
      BY <1>1
    <3>2. /\ c \in Nat
          /\ m[c + 1].next # 0 => c + m[c].size = m[c + 1].next
      BY BlockFacts
    <3>3. c + m[c].size = x
      BY <2>2, <3>1, <3>2
    <3> QED BY <1>1, <1>3, <3>2, <3>3
  <2> QED BY <2>1, <2>2
<1>6. Header(w, B \ {x}, b)
  <2>1. Linked(w, B \ {x}, b)
    BY <1>1, <1>2, <1>5 DEF Linked, Merges
  <2>2. /\ m[b].sign = TRUE /\ m[b].tag = NoTag /\ m[b + 1].tag = NoTag /\ b <= Cells - 1
    <3>1. Header(m, B, b)
      BY DEF List
    <3> QED BY <1>1, <1>2, <3>1, CellsNat DEF Header
  <2> QED BY <1>1, <1>2, <2>1, <2>2 DEF Header, Merges
<1>7. ASSUME NEW c \in B \ {x}, c # b PROVE Header(w, B \ {x}, c)
  <2>1. Header(m, B, c) /\ m[c + 1].next # x
    BY <1>5, <1>7 DEF List
  <2> QED BY <1>3, <1>7, <2>1 DEF Header, Linked
<1>8. Apart(w, B \ {x})
  <2> SUFFICES ASSUME NEW c \in B \ {x}, NEW d \in B \ {x}, c < d
               PROVE  c + w[c].size <= d
    BY DEF Apart
  <2>1. CASE c # b
    BY <1>3, <2>1 DEF List, Apart
  <2>2. CASE c = b
    <3>1. d \in Nat /\ x < d
      BY <1>1, <1>3, <2>2
    <3>2. x + m[x].size <= d
      BY <1>1, <3>1 DEF List, Apart
    <3> QED BY <1>1, <1>2, <2>2, <3>2 DEF Merges
  <2> QED BY <2>1, <2>2
<1>9. Reached(w, B \ {x})
  <2> SUFFICES ASSUME NEW d \in (B \ {x}) \ {First}
               PROVE  \E c \in B \ {x} : w[c + 1].next = d
    BY DEF Reached
  <2>1. PICK c \in B : m[c + 1].next = d
    BY DEF List, Reached
  <2>2. CASE c = x
    BY <1>1, <2>1, <2>2 DEF Merges
  <2>3. CASE c # x /\ c # b
    BY <1>3, <2>1, <2>3
  <2>4. CASE c = b
    BY <1>1, <1>5, <2>1, <2>4 DEF Merges
  <2> QED BY <2>2, <2>3, <2>4
<1> QED BY <1>1, <1>3, <1>4, <1>6, <1>7, <1>8, <1>9 DEF List, Merged

-----------------------------------------------------------------------------
(***************************************************************************)
(* Owners and blocks in use.                                               *)
(***************************************************************************)
Lives == [Addr -> [size : Asked, tag : Tags \cup {NoTag}, kept : Asked]]

LEMMA LiveType ==
  ASSUME NEW lv \in Lives, NEW a \in Addr
  PROVE  /\ lv[a].size \in Nat /\ lv[a].kept \in Nat
         /\ lv[a].size \in Asked /\ lv[a].kept \in Asked /\ lv[a].tag \in Tags \cup {NoTag}
         /\ lv[a] \in [size : Asked, tag : Tags \cup {NoTag}, kept : Asked]
         /\ LiveOK(lv) => lv[a].kept <= lv[a].size
<1>1. lv[a] \in [size : Asked, tag : Tags \cup {NoTag}, kept : Asked]
  BY DEF Lives
<1>2. Asked \subseteq Nat
  BY CellsNat DEF Asked
<1>3. LiveOK(lv) /\ lv[a].size = 0 => lv[a].kept = 0
  BY DEF LiveOK, NotOwned
<1>4. /\ lv[a].size \in Asked /\ lv[a].kept \in Asked /\ lv[a].tag \in Tags \cup {NoTag}
  BY <1>1
<1>5. LiveOK(lv) => lv[a].kept <= lv[a].size
  BY <1>2, <1>3, <1>4 DEF LiveOK
<1> QED BY <1>1, <1>2, <1>4, <1>5

\* The cells an owner has written are in its block's data, and no other block's.
LEMMA OwnerCells ==
  ASSUME NEW m \in Memories, NEW B, List(m, B), NEW lv \in Lives, LiveOK(lv),
         NEW a \in Owners(lv), a - 2 \in B, Whole(m, lv, a),
         NEW i \in 0..(lv[a].kept - 1)
  PROVE  /\ a + i \in Addr /\ a + i >= (a - 2) + 2 /\ a + i < (a - 2) + m[a - 2].size
         /\ \A b \in B : b # a - 2 => a + i < b \/ a + i >= b + m[b].size
<1>1. /\ a \in Nat /\ i \in Nat /\ i < lv[a].size /\ m[a - 2].size >= 2 + lv[a].size
      /\ lv[a].size \in Nat /\ lv[a].kept \in Nat
  BY LiveType DEF Whole, Owners
<1>2. /\ a - 2 \in Nat /\ a - 2 >= 1 /\ m[a - 2].size \in Nat
      /\ a - 2 + m[a - 2].size <= Cells + 1
  BY BlockFacts
<1>3. a + i \in Addr
  BY <1>1, <1>2, CellsNat
<1>4. ASSUME NEW b \in B, b # a - 2 PROVE a + i < b \/ a + i >= b + m[b].size
  <2>1. b + m[b].size <= a - 2 \/ a - 2 + m[a - 2].size <= b
    BY <1>4, BlocksDiffer
  <2>2. b \in Nat /\ m[b].size \in Nat
    BY BlockFacts
  <2> QED BY <1>1, <1>2, <2>1, <2>2
<1> QED BY <1>1, <1>2, <1>3, <1>4

LEMMA OwnedBlock ==
  ASSUME NEW m, NEW B, NEW lv, NEW fresh, NEW gone, NEW hot,
         Good(m, B, lv, fresh, gone, hot), NEW a \in Owners(lv) \ gone
  PROVE  a - 2 \in B /\ m[a - 2].free = FALSE /\ List(m, B)
<1>1. a - 2 \in B
  BY DEF Good, InUse
<1>2. (a - 2) + 2 = a
  BY DEF Owners
<1>3. List(m, B)
  BY <1>1 DEF Good, NoList
<1> QED BY <1>1, <1>2, <1>3 DEF Good, InUse

LEMMA GoodSplit ==
  ASSUME NEW m \in Memories, NEW B, NEW lv \in Lives, NEW fresh, NEW hot,
         Good(m, B, lv, fresh, {}, hot), NEW b \in B, NEW n \in Nat,
         b + 2 \in Owners(lv) => b + 2 \in hot,
         NEW x, x = b + 2 + n, NEW w \in Memories, Splits(m, w, b, n, x)
  PROVE  Good(w, B \cup {x}, lv, fresh, {}, hot)
<1>1. List(m, B) /\ LiveOK(lv) /\ InUse(m, B, lv, fresh, {})
  BY DEF Good, NoList
<1>2. /\ List(w, B \cup {x}) /\ x \notin B
      /\ \A c \in B \ {b} : w[c] = m[c] /\ w[c + 1] = m[c + 1]
  BY <1>1, SplitList
<1>3. b \in Nat /\ b >= 1 /\ m[b].size \in Nat /\ b + m[b].size <= Cells + 1
  BY <1>1, BlockFacts
<1>4. InUse(w, B \cup {x}, lv, fresh, {})
  <2>1. x \notin fresh /\ fresh \subseteq B
    BY <1>1, <1>2 DEF InUse
  <2>2. x + 2 \notin Owners(lv)
    <3>1. (x + 2) - 2 = x
      BY <1>3
    <3> QED BY <1>1, <1>2, <3>1 DEF InUse
  <2>3. \A c \in B : w[c].free = m[c].free
    BY <1>2 DEF Splits
  <2>4. w[x].free = TRUE
    BY DEF Splits
  <2> QED BY <1>1, <2>1, <2>2, <2>3, <2>4 DEF InUse
<1>5. ASSUME NEW a \in Owners(lv) \ hot PROVE Whole(w, lv, a)
  <2>0. a \in Owners(lv) \ {}
    OBVIOUS
  <2>1. a - 2 \in B /\ Whole(m, lv, a)
    BY <2>0, OwnedBlock DEF Good
  <2>2. a \in Addr /\ a - 2 # b
    BY <1>3 DEF Owners
  <2>3. w[a - 2] = m[a - 2]
    BY <1>2, <2>1, <2>2
  <2>4. ASSUME NEW i \in 0..(lv[a].kept - 1) PROVE w[a + i] = m[a + i]
    <3>1. a + i \in Addr /\ (a + i < b \/ a + i >= b + m[b].size)
      BY <1>1, <2>1, <2>2, OwnerCells
    <3>2. a + i \notin {b, b + 1, x, x + 1}
      BY <1>3, <3>1 DEF Splits
    <3> QED BY <3>1, <3>2 DEF Splits
  <2> QED BY <2>1, <2>3, <2>4 DEF Whole
<1> QED BY <1>1, <1>2, <1>4, <1>5 DEF Good

LEMMA GoodMerge ==
  ASSUME NEW m \in Memories, NEW B, NEW lv \in Lives, NEW fresh, NEW gone, NEW hot,
         Good(m, B, lv, fresh, gone, hot), gone \subseteq hot, NEW b \in B,
         NEW x, NEW w \in Memories, Merges(m, w, b, x), FreeIn(m, x)
  PROVE  Good(w, B \ {x}, lv, fresh, gone, hot)
<1>1. List(m, B) /\ LiveOK(lv) /\ InUse(m, B, lv, fresh, gone)
  BY DEF Good, NoList
<1>2. /\ List(w, B \ {x}) /\ x \in B /\ x # b
      /\ \A c \in B \ {b} : w[c] = m[c] /\ w[c + 1] = m[c + 1]
  <2>1. Merged(m, w, B, b, x)
    BY <1>1, MergeList
  <2> QED BY <2>1 DEF Merged
<1>3. b \in Nat /\ b >= 1 /\ m[b].size \in Nat /\ m[b].size >= 2 /\ b + m[b].size <= Cells + 1
  BY <1>1, BlockFacts
<1>4. x \in Nat /\ m[x].size \in Nat
  BY <1>1, <1>2, BlockFacts
<1>5. x \notin fresh /\ x + 2 \notin Owners(lv) \ gone
  BY <1>1, <1>2 DEF InUse, FreeIn
<1>6. InUse(w, B \ {x}, lv, fresh, gone)
  <2>1. \A c \in B : w[c].free = m[c].free
    BY <1>2 DEF Merges
  <2>2. \A a \in Owners(lv) \ gone : a - 2 # x
    BY <1>4, <1>5 DEF Owners
  <2> QED BY <1>1, <1>5, <2>1, <2>2 DEF InUse
<1>7. ASSUME NEW a \in Owners(lv) \ hot PROVE Whole(w, lv, a)
  <2>1. a - 2 \in B /\ Whole(m, lv, a)
    BY OwnedBlock DEF Good
  <2>2. a \in Addr /\ lv[a].size \in Nat
    BY LiveType DEF Owners
  <2>3. /\ w[a - 2].size >= m[a - 2].size
        /\ m[a - 2].size \in Nat /\ w[a - 2].size \in Nat
    <3>1. m[a - 2].size \in Nat
      BY <1>1, <2>1, BlockFacts
    <3>2. CASE a - 2 = b
      BY <1>3, <1>4, <3>2 DEF Merges
    <3>3. CASE a - 2 # b
      BY <1>2, <2>1, <3>1, <3>3
    <3> QED BY <3>1, <3>2, <3>3
  <2>4. ASSUME NEW i \in 0..(lv[a].kept - 1) PROVE w[a + i] = m[a + i]
    <3>1. /\ a + i \in Addr /\ a + i >= (a - 2) + 2
          /\ a - 2 # b => a + i < b \/ a + i >= b + m[b].size
      BY <1>1, <2>1, <2>2, OwnerCells
    <3>2. a + i \notin {b, b + 1}
      BY <1>3, <3>1
    <3> QED BY <3>1, <3>2 DEF Merges
  <2>5. w[a - 2].size >= 2 + lv[a].size
    <3>1. m[a - 2].size >= 2 + lv[a].size
      BY <2>1 DEF Whole
    <3> QED BY <2>2, <2>3, <3>1
  <2> QED BY <2>1, <2>4, <2>5 DEF Whole
<1> QED BY <1>1, <1>2, <1>4, <1>5, <1>6, <1>7 DEF Good

\* Setting the free attribute of a block changes nothing else.
Takes(m, w, b) == w = [m EXCEPT ![b].free = FALSE]

Frees(m, w, b) == w = [m EXCEPT ![b].free = TRUE]

SameBut(m, w, b) ==
    \A c \in Addr : /\ w[c].sign = m[c].sign /\ w[c].size = m[c].size
                    /\ w[c].tag = m[c].tag /\ w[c].next = m[c].next
                    /\ c # b => w[c].free = m[c].free

LEMMA FreeSet ==
  ASSUME NEW m \in Memories, NEW b \in Addr, NEW w, Takes(m, w, b) \/ Frees(m, w, b)
  PROVE  /\ w \in Memories /\ (Links(m) => Links(w)) /\ SameBut(m, w, b)
         /\ Takes(m, w, b) => w[b].free = FALSE
         /\ Frees(m, w, b) => FreeIn(w, b)
<1>0. PICK v \in BOOLEAN : w = [m EXCEPT ![b].free = v]
  BY DEF Takes, Frees
<1>1. w = [m EXCEPT ![b] = [m[b] EXCEPT !.free = v]]
  BY <1>0
<1>2. m[b] \in Cell
  BY CellType
<1>3. [m[b] EXCEPT !.free = v] \in Cell
  BY <1>2 DEF Cell
<1>4. w \in Memories
  BY <1>1, <1>3 DEF Memories
<1>5. ASSUME NEW c \in Addr
      PROVE  /\ w[c].sign = m[c].sign /\ w[c].size = m[c].size
             /\ w[c].tag = m[c].tag /\ w[c].next = m[c].next /\ w[c].prev = m[c].prev
             /\ c # b => w[c].free = m[c].free
  <2>1. CASE c = b
    <3>1. w[c] = [m[b] EXCEPT !.free = v]
      BY <1>1, <2>1 DEF Memories
    <3> QED BY <1>2, <2>1, <3>1 DEF Cell
  <2>2. CASE c # b
    BY <1>1, <2>2 DEF Memories
  <2> QED BY <2>1, <2>2
<1>6. Takes(m, w, b) => w[b].free = FALSE
  BY <1>2 DEF Takes, Memories, Cell
<1>7. Frees(m, w, b) => FreeIn(w, b)
  BY <1>2 DEF Frees, FreeIn, Memories, Cell
<1>8. Links(m) => Links(w)
  BY <1>5 DEF Links
<1>9. SameBut(m, w, b)
  BY <1>5 DEF SameBut
<1> QED BY <1>4, <1>6, <1>7, <1>8, <1>9

\* What an owner has stays whole when sizes and marks stay as they are.
LEMMA WholeKept ==
  ASSUME NEW m \in Memories, NEW B, List(m, B), NEW lv \in Lives, LiveOK(lv),
         NEW a \in Owners(lv), a - 2 \in B, Whole(m, lv, a), NEW w \in Memories,
         \A c \in Addr : w[c].size = m[c].size /\ w[c].tag = m[c].tag
  PROVE  Whole(w, lv, a)
<1>1. w[a - 2].size = m[a - 2].size
  BY BlockFacts
<1>2. ASSUME NEW i \in 0..(lv[a].kept - 1) PROVE w[a + i].tag = m[a + i].tag
  BY OwnerCells
<1> QED BY <1>1, <1>2 DEF Whole

LEMMA GoodTake ==
  ASSUME NEW m \in Memories, NEW B, NEW lv \in Lives, Good(m, B, lv, {}, {}, {}),
         NEW b \in B, FreeIn(m, b), NEW w, Takes(m, w, b)
  PROVE  Good(w, B, lv, {b}, {}, {}) /\ w \in Memories /\ w[b].size = m[b].size
<1>1. List(m, B) /\ LiveOK(lv) /\ InUse(m, B, lv, {}, {})
  BY DEF Good, NoList
<1>2. b \in Addr /\ \A c \in B : c \in Addr /\ c + 1 \in Addr
  BY <1>1, BlockFacts
<1>3. w \in Memories /\ SameBut(m, w, b) /\ w[b].free = FALSE
  BY <1>2, FreeSet
<1>4. List(w, B)
  <2>1. \A c \in B : /\ w[c].sign = m[c].sign /\ w[c].size = m[c].size
                     /\ w[c].tag = m[c].tag /\ w[c + 1].tag = m[c + 1].tag
                     /\ w[c + 1].next = m[c + 1].next
    BY <1>2, <1>3 DEF SameBut
  <2>2. m \in Memories /\ w \in Memories /\ List(m, B)
    BY <1>1, <1>3
  <2> QED BY ONLY <2>1, <2>2, SameList
<1>5. InUse(w, B, lv, {b}, {})
  BY <1>1, <1>2, <1>3 DEF InUse, FreeIn, SameBut
<1>6. ASSUME NEW a \in Owners(lv) \ {} PROVE Whole(w, lv, a)
  <2>1. a - 2 \in B /\ Whole(m, lv, a)
    BY OwnedBlock DEF Good
  <2> QED BY <1>1, <1>3, <2>1, WholeKept DEF SameBut
<1> QED BY <1>1, <1>2, <1>3, <1>4, <1>5, <1>6 DEF Good, SameBut

\* The block of a caller, or of an owner that a move left behind, is free.
LEMMA GoodFree ==
  ASSUME NEW m \in Memories, NEW B, NEW lv \in Lives, NEW F, NEW G, NEW K,
         Good(m, B, lv, F, {}, {}), NEW b \in B, NEW w, Frees(m, w, b),
         \/ F = {b} /\ K = {} /\ G = {}
         \/ K = F /\ b + 2 \in Owners(lv) /\ G = {b + 2}
  PROVE  Good(w, B, lv, K, G, G) /\ w \in Memories
<1>1. List(m, B) /\ LiveOK(lv) /\ InUse(m, B, lv, F, {})
  BY DEF Good, NoList
<1>2. b \in Addr /\ b \in Nat /\ \A c \in B : c \in Addr /\ c + 1 \in Addr /\ c \in Nat
  BY <1>1, BlockFacts
<1>3. w \in Memories /\ SameBut(m, w, b) /\ FreeIn(w, b)
  BY <1>2, FreeSet
<1>4. List(w, B)
  <2>1. \A c \in B : /\ w[c].sign = m[c].sign /\ w[c].size = m[c].size
                     /\ w[c].tag = m[c].tag /\ w[c + 1].tag = m[c + 1].tag
                     /\ w[c + 1].next = m[c + 1].next
    BY <1>2, <1>3 DEF SameBut
  <2>2. m \in Memories /\ w \in Memories /\ List(m, B)
    BY <1>1, <1>3
  <2> QED BY ONLY <2>1, <2>2, SameList
<1>5. InUse(w, B, lv, K, G)
  <2>1. ASSUME NEW c \in B PROVE w[c].free = FALSE <=> c \in K \/ c + 2 \in Owners(lv) \ G
    <3>1. CASE c = b
      BY <1>1, <1>3, <3>1 DEF InUse, FreeIn
    <3>2. CASE c # b
      <4>1. w[c].free = m[c].free /\ c + 2 # b + 2
        BY <1>2, <1>3, <3>2 DEF SameBut
      <4> QED BY <1>1, <3>2, <4>1 DEF InUse
    <3> QED BY <3>1, <3>2
  <2> QED BY <1>1, <2>1 DEF InUse
<1>6. ASSUME NEW a \in Owners(lv) \ G PROVE Whole(w, lv, a)
  <2>0. a \in Owners(lv) \ {}
    OBVIOUS
  <2>1. a - 2 \in B /\ Whole(m, lv, a)
    BY <2>0, OwnedBlock DEF Good
  <2> QED BY <1>1, <1>3, <2>1, WholeKept DEF SameBut
<1> QED BY <1>1, <1>3, <1>4, <1>5, <1>6 DEF Good

\* The first call of malloc makes one block of the region.
LEMMA GoodFirst ==
  ASSUME NEW m \in Memories, NEW B, NEW lv \in Lives, Good(m, B, lv, {}, {}, {}),
         m[1].sign = FALSE, NEW w \in Memories,
         w[1] = [Blank EXCEPT !.sign = TRUE, !.free = TRUE, !.size = Cells],
         w[2].next = 0, w[2].tag = NoTag
  PROVE  Good(w, {1}, lv, {}, {}, {})
<1>1. NoList(m, B, lv) /\ LiveOK(lv)
  <2>1. List(m, B) => m[1].sign = TRUE
    BY DEF List, Header
  <2> QED BY <2>1 DEF Good
<1>2. Owners(lv) = {}
  BY <1>1 DEF NoList, Owners, NotOwned
<1>3. /\ w[1].sign = TRUE /\ w[1].free = TRUE /\ w[1].size = Cells /\ w[1].tag = NoTag
      /\ w[1 + 1].next = 0 /\ w[1 + 1].tag = NoTag
  BY DEF Blank
<1>4. List(w, {1})
  <2>1. Header(w, {1}, 1)
    BY <1>3, CellsNat DEF Header, Linked
  <2> QED BY <2>1 DEF List, Apart, Reached
<1>5. InUse(w, {1}, lv, {}, {})
  BY <1>2, <1>3 DEF InUse
<1> QED BY <1>1, <1>2, <1>4, <1>5 DEF Good

\* What is written into the data of a block that is in nobody's hands yet.
OnlyData(m, w, b) == \A c \in Addr : c < b + 2 \/ c >= b + m[b].size => w[c] = m[c]

LEMMA GoodCopy ==
  ASSUME NEW m \in Memories, NEW B, NEW lv \in Lives, NEW b \in B,
         Good(m, B, lv, {b}, {}, {}), NEW w \in Memories,
         OnlyData(m, w, b)
  PROVE  Good(w, B, lv, {b}, {}, {}) /\ w[b].size = m[b].size
<1>1. List(m, B) /\ LiveOK(lv) /\ InUse(m, B, lv, {b}, {})
  BY DEF Good, NoList
<1>2. b \in Nat /\ b \in Addr /\ m[b].size \in Nat /\ m[b].size >= 2
  BY <1>1, BlockFacts
<1>3. ASSUME NEW c \in B PROVE w[c] = m[c] /\ w[c + 1] = m[c + 1]
  <2>1. c \in Nat /\ c \in Addr /\ c + 1 \in Addr /\ m[c].size \in Nat /\ m[c].size >= 2
    BY <1>1, BlockFacts
  <2>2. c = b \/ c + m[c].size <= b \/ b + m[b].size <= c
    BY <1>1, BlocksDiffer
  <2> QED BY <1>2, <2>1, <2>2 DEF OnlyData
<1>4. List(w, B)
  BY <1>1, <1>3, SameList
<1>5. InUse(w, B, lv, {b}, {})
  BY <1>1, <1>3 DEF InUse
<1>6. ASSUME NEW a \in Owners(lv) \ {} PROVE Whole(w, lv, a)
  <2>1. a - 2 \in B /\ Whole(m, lv, a)
    BY OwnedBlock DEF Good
  <2>2. a - 2 # b
    BY <1>1 DEF InUse, Owners
  <2>3. ASSUME NEW i \in 0..(lv[a].kept - 1) PROVE w[a + i] = m[a + i]
    <3>1. a + i \in Addr /\ (a + i < b \/ a + i >= b + m[b].size)
      BY <1>1, <2>1, <2>2, OwnerCells
    <3> QED BY <1>2, <3>1 DEF OnlyData
  <2> QED BY <1>3, <2>1, <2>3 DEF Whole
<1> QED BY <1>1, <1>3, <1>4, <1>5, <1>6 DEF Good

\* A caller gives up the block of p, whose mark is forgotten.
GivesUp(m, w, t) == \A c \in Addr : w[c] = IF m[c].tag = t THEN Blank ELSE m[c]

Releases(lv, lw, p) == \A a \in Addr : lw[a] = IF a = p THEN NotOwned ELSE lv[a]

LEMMA GoodGiveUp ==
  ASSUME NEW m \in Memories, NEW B, NEW lv \in Lives, NEW p \in Owners(lv),
         Good(m, B, lv, {}, {}, {}), NEW w \in Memories, NEW lw \in Lives,
         GivesUp(m, w, lv[p].tag), Releases(lv, lw, p)
  PROVE  p - 2 \in B /\ Good(w, B, lw, {p - 2}, {}, {})
<1>0. p \in Owners(lv) \ {}
  OBVIOUS
<1>1. List(m, B) /\ LiveOK(lv) /\ InUse(m, B, lv, {}, {})
  <2>1. List(m, B)
    BY <1>0, OwnedBlock
  <2> QED BY <2>1 DEF Good
<1>2. p \in Addr /\ lv[p].size # 0 /\ p - 2 \in B /\ p - 2 \in Nat /\ (p - 2) + 2 = p
  <2>1. p \in Addr /\ p \in Nat /\ lv[p].size # 0
    BY LiveType DEF Owners
  <2>2. p - 2 \in B
    BY <1>0, OwnedBlock
  <2>3. p - 2 \in Nat
    BY <1>1, <2>2, BlockFacts
  <2> QED BY <2>1, <2>2, <2>3
<1>3. lv[p].tag \in Tags /\ lv[p].tag # NoTag
  BY <1>1, <1>2, CellsNat DEF LiveOK
<1>4. ASSUME NEW c \in B PROVE w[c] = m[c] /\ w[c + 1] = m[c + 1]
  <2>1. c \in Addr /\ c + 1 \in Addr /\ m[c].tag = NoTag /\ m[c + 1].tag = NoTag
    BY <1>1, BlockFacts
  <2> QED BY <1>3, <2>1 DEF GivesUp
<1>5. List(w, B)
  BY <1>1, <1>4, SameList
<1>6. Owners(lw) = Owners(lv) \ {p} /\ \A a \in Owners(lw) : lw[a] = lv[a]
  <2>1. lw[p].size = 0
    BY <1>2 DEF Releases, NotOwned
  <2> QED BY <2>1 DEF Owners, Releases
<1>7. LiveOK(lw)
  <2>1. ASSUME NEW a \in Addr
        PROVE  IF lw[a].size = 0 THEN lw[a] = NotOwned
               ELSE lw[a].tag \in Tags /\ lw[a].kept <= lw[a].size
    <3>1. CASE a = p
      BY <3>1 DEF Releases, NotOwned
    <3>2. CASE a # p
      BY <1>1, <3>2 DEF Releases, LiveOK
    <3> QED BY <3>1, <3>2
  <2> QED BY <1>1, <1>6, <2>1 DEF LiveOK
<1>8. InUse(w, B, lw, {p - 2}, {})
  <2>1. ASSUME NEW c \in B PROVE w[c].free = FALSE <=> c \in {p - 2} \/ c + 2 \in Owners(lw) \ {}
    <3>1. c \in Nat
      BY <1>1, BlockFacts
    <3>2. c + 2 = p <=> c = p - 2
      BY <1>2, <3>1
    <3> QED BY <1>1, <1>4, <1>6, <3>2 DEF InUse
  <2> QED BY <1>1, <1>2, <1>6, <2>1 DEF InUse
<1>9. ASSUME NEW a \in Owners(lw) \ {} PROVE Whole(w, lw, a)
  <2>1. a \in Owners(lv) /\ a # p /\ a \in Owners(lv) \ {} /\ lw[a] = lv[a]
    BY <1>6
  <2>2. a - 2 \in B /\ Whole(m, lv, a)
    BY <2>1, OwnedBlock DEF Good
  <2>3. lv[a].tag # lv[p].tag
    BY <1>1, <2>1 DEF LiveOK
  <2>4. ASSUME NEW i \in 0..(lv[a].kept - 1) PROVE w[a + i].tag = lv[a].tag
    <3>1. a + i \in Addr
      BY <1>1, <2>1, <2>2, OwnerCells
    <3>2. m[a + i].tag = lv[a].tag
      BY <2>2 DEF Whole
    <3> QED BY <2>3, <3>1, <3>2 DEF GivesUp
  <2> QED BY <1>4, <2>1, <2>2, <2>4 DEF Whole
<1> QED BY <1>1, <1>2, <1>5, <1>7, <1>8, <1>9 DEF Good

\* A call that succeeds gives the data of block b to its caller: to a new one
\* (p is Null), to the owner of b, or to p, whose old block is free.
Gives(lv, lw, p, a, n, t, k) ==
    \A c \in Addr : lw[c] = IF c = a THEN [size |-> n, tag |-> t, kept |-> k]
                            ELSE IF c = p THEN NotOwned ELSE lv[c]

Settles(lv, F, G, K, b, p) ==
    \/ p = 0 /\ F = {b} /\ G = {} /\ K = {}
    \/ p = b + 2 /\ p \in Owners(lv) /\ F = {} /\ G = {} /\ K = {p}
    \/ p \in Owners(lv) /\ F = {b} /\ G = {p} /\ K = {p}

Writes(m, w, a, n, t) ==
    \A c \in Addr : w[c] = IF c \in a..(a + n - 1) THEN [Blank EXCEPT !.tag = t]
                           ELSE IF m[c].tag = t THEN Blank ELSE m[c]

MarkedOrNot(m, w, a, n, t, k) ==
    \/ w = m /\ \A i \in 0..(k - 1) : m[a + i].tag = t
    \/ Writes(m, w, a, n, t)

NewTag(lv, t, p) == t \in Tags /\ \A c \in Owners(lv) \ {p} : lv[c].tag # t

LEMMA GoodDone ==
  ASSUME NEW m \in Memories, NEW B, NEW lv \in Lives, NEW F, NEW G, NEW K, NEW b \in B, NEW p,
         Good(m, B, lv, F, G, K), Settles(lv, F, G, K, b, p),
         NEW n \in Nat, n > 0, m[b].size >= 2 + n, NEW k \in Nat, k <= n,
         NEW t, NewTag(lv, t, p), NEW lw \in Lives, Gives(lv, lw, p, b + 2, n, t, k),
         NEW w \in Memories, MarkedOrNot(m, w, b + 2, n, t, k)
  PROVE  Good(w, B, lw, {}, {}, {})
<1>1. List(m, B) /\ LiveOK(lv) /\ InUse(m, B, lv, F, G) /\ t \in Tags /\ t # NoTag
  BY CellsNat DEF Good, NoList, NewTag
<1>2. /\ b \in Nat /\ b >= 1 /\ m[b].size \in Nat /\ b + m[b].size <= Cells + 1
      /\ b + 2 \in Addr /\ Cells \in Nat
  <2>1. b \in Nat /\ b >= 1 /\ b <= Cells - 1 /\ m[b].size \in Nat /\ b + m[b].size <= Cells + 1
    BY <1>1, BlockFacts
  <2> QED BY <2>1, CellsNat
<1>3. ASSUME NEW c \in B PROVE w[c] = m[c] /\ w[c + 1] = m[c + 1] /\ c \in Nat
  <2>1. /\ c \in Nat /\ c \in Addr /\ c + 1 \in Addr /\ m[c].tag = NoTag /\ m[c + 1].tag = NoTag
        /\ m[c].size \in Nat /\ m[c].size >= 2
    BY <1>1, BlockFacts
  <2>2. c = b \/ c + m[c].size <= b \/ b + m[b].size <= c
    BY <1>1, BlocksDiffer
  <2>3. c \notin (b + 2)..(b + 2 + n - 1) /\ c + 1 \notin (b + 2)..(b + 2 + n - 1)
    BY <1>2, <2>1, <2>2
  <2> QED BY <1>1, <2>1, <2>3 DEF MarkedOrNot, Writes
<1>4. List(w, B)
  BY <1>1, <1>3, SameList
<1>5. /\ lw[b + 2] = [size |-> n, tag |-> t, kept |-> k] /\ b + 2 \in Owners(lw)
      /\ Owners(lw) = (Owners(lv) \ {p}) \cup {b + 2}
      /\ \A c \in Owners(lw) : c # b + 2 => lw[c] = lv[c]
  <2>1. lw[b + 2] = [size |-> n, tag |-> t, kept |-> k]
    BY <1>2 DEF Gives
  <2>2. \A c \in Addr : c # b + 2 => lw[c] = IF c = p THEN NotOwned ELSE lv[c]
    BY DEF Gives
  <2>3. lw[b + 2].size = n
    BY <2>1
  <2>4. \A c \in Addr : c # b + 2 => (lw[c].size > 0 <=> c # p /\ lv[c].size > 0)
    BY <2>2 DEF NotOwned
  <2>5. \A c \in Addr : c \in Owners(lw) <=> c = b + 2 \/ (c # p /\ c \in Owners(lv))
    BY <1>2, <2>3, <2>4 DEF Owners
  <2>6. Owners(lw) \subseteq Addr /\ Owners(lv) \subseteq Addr
    BY DEF Owners
  <2>7. Owners(lw) = (Owners(lv) \ {p}) \cup {b + 2}
    BY <1>2, <2>5, <2>6
  <2> QED BY <1>2, <2>1, <2>2, <2>5, <2>6, <2>7
<1>6. LiveOK(lw)
  <2>1. ASSUME NEW a \in Addr
        PROVE  IF lw[a].size = 0 THEN lw[a] = NotOwned
               ELSE lw[a].tag \in Tags /\ lw[a].kept <= lw[a].size
    <3>1. CASE a = b + 2
      BY <1>1, <1>5, <3>1
    <3>2. CASE a # b + 2 /\ a = p
      BY <3>2 DEF Gives, NotOwned
    <3>3. CASE a # b + 2 /\ a # p
      BY <1>1, <3>3 DEF Gives, LiveOK
    <3> QED BY <3>1, <3>2, <3>3
  <2>2. ASSUME NEW a \in Owners(lw), NEW c \in Owners(lw), lw[a].tag = lw[c].tag PROVE a = c
    <3>1. CASE a # b + 2 /\ c # b + 2
      BY <1>1, <1>5, <2>2, <3>1 DEF LiveOK
    <3>2. ASSUME NEW d \in Owners(lw), d # b + 2 PROVE lw[d].tag # t
      BY <1>5, <3>2 DEF NewTag
    <3>3. lw[b + 2].tag = t
      BY <1>5
    <3> QED BY <2>2, <3>1, <3>2, <3>3
  <2> QED BY <2>1, <2>2 DEF LiveOK
<1>7. InUse(w, B, lw, {}, {})
  <2>1. ASSUME NEW c \in B PROVE m[c].free = FALSE <=> c + 2 \in Owners(lw)
    <3>1. c \in Nat /\ (c + 2 = b + 2 <=> c = b)
      BY <1>2, <1>3
    <3>2. m[c].free = FALSE <=> c \in F \/ c + 2 \in Owners(lv) \ G
      BY <1>1 DEF InUse
    <3>3. c + 2 # 0
      BY <3>1
    <3>4. CASE p = 0 /\ F = {b} /\ G = {}
      BY <1>5, <3>1, <3>2, <3>3, <3>4
    <3>5. CASE p = b + 2 /\ p \in Owners(lv) /\ F = {} /\ G = {}
      BY <1>5, <3>1, <3>2, <3>5
    <3>6. CASE p \in Owners(lv) /\ F = {b} /\ G = {p}
      BY <1>5, <3>1, <3>2, <3>6
    <3> QED BY <3>4, <3>5, <3>6 DEF Settles
  <2>2. ASSUME NEW a \in Owners(lw) PROVE a - 2 \in B
    <3>1. CASE a = b + 2
      BY <1>2, <3>1
    <3>2. CASE a # b + 2
      <4>1. a \in Owners(lv) \ G
        BY <1>5, <3>2 DEF Settles
      <4> QED BY <1>1, <4>1 DEF InUse
    <3> QED BY <3>1, <3>2
  <2> QED BY <1>3, <2>1, <2>2 DEF InUse
<1>8. Whole(w, lw, b + 2)
  <2>1. lw[b + 2].size = n /\ lw[b + 2].kept = k /\ lw[b + 2].tag = t /\ (b + 2) - 2 = b
    BY <1>2, <1>5
  <2>2. ASSUME NEW i \in 0..(k - 1) PROVE w[b + 2 + i].tag = t
    <3>1. CASE w = m /\ \A j \in 0..(k - 1) : m[b + 2 + j].tag = t
      BY <3>1
    <3>2. CASE Writes(m, w, b + 2, n, t)
      <4>1. b + 2 + i \in Addr /\ b + 2 + i \in (b + 2)..(b + 2 + n - 1)
        BY <1>2
      <4>2. w[b + 2 + i] = [Blank EXCEPT !.tag = t]
        BY <3>2, <4>1 DEF Writes
      <4> QED BY <4>2 DEF Blank
    <3> QED BY <3>1, <3>2 DEF MarkedOrNot
  <2> QED BY <1>3, <2>1, <2>2 DEF Whole
<1>9. ASSUME NEW a \in Owners(lw) \ {}, a # b + 2 PROVE Whole(w, lw, a)
  <2>1. /\ a \in Owners(lv) /\ a # p /\ lw[a] = lv[a] /\ a \in Owners(lv) \ G
        /\ a \in Owners(lv) \ K
    BY <1>5, <1>9 DEF Settles
  <2>2. a - 2 \in B /\ Whole(m, lv, a)
    BY <2>1, OwnedBlock DEF Good
  <2>3. lv[a].tag # t /\ a - 2 # b
    BY <1>9, <2>1 DEF NewTag, Owners
  <2>4. ASSUME NEW i \in 0..(lv[a].kept - 1) PROVE w[a + i].tag = lv[a].tag
    <3>1. a + i \in Addr /\ (a + i < b \/ a + i >= b + m[b].size)
      BY <1>1, <2>1, <2>2, <2>3, OwnerCells
    <3>2. m[a + i].tag = lv[a].tag
      BY <2>2 DEF Whole
    <3>3. a + i \notin (b + 2)..(b + 2 + n - 1)
      BY <1>2, <3>1
    <3> QED BY <2>3, <3>1, <3>2, <3>3 DEF MarkedOrNot, Writes
  <2> QED BY <1>3, <2>1, <2>2, <2>4 DEF Whole
<1> QED BY <1>4, <1>6, <1>7, <1>8, <1>9 DEF Good

-----------------------------------------------------------------------------
(***************************************************************************)
(* The call stack: what runs, and in which state it is found.              *)
(***************************************************************************)
LEMMA PtrNat == Ptr \subseteq Nat /\ Asked \subseteq Nat /\ 0 \in Asked /\ Owned \subseteq Addr
  BY CellsNat DEF Ptr, Asked, Owned

LEMMA CallType ==
  ASSUME NEW at \in Routines, NEW b \in Nat, NEW n \in Nat, NEW x \in Nat
  PROVE  /\ Do(at, b, n, x) \in Call
         /\ Do(at, b, n, x).at = at /\ Do(at, b, n, x).blk = b
         /\ Do(at, b, n, x).size = n /\ Do(at, b, n, x).aux = x
  BY DEF Do, Call

LEMMA Stack ==
  ASSUME NEW c \in Call, NEW r \in Seq(Call)
  PROVE  /\ Then(c, r) \in Seq(Call) /\ Then(c, r) # << >>
         /\ Head(Then(c, r)) = c /\ Tail(Then(c, r)) = r
<1>1. <<c>> \in Seq(Call) /\ Len(<<c>>) = 1 /\ <<c>>[1] = c
  OBVIOUS
<1>2. Then(c, r) \in Seq(Call) /\ Len(Then(c, r)) = Len(r) + 1
  BY <1>1 DEF Then
<1>3. Then(c, r)[1] = c /\ \A i \in 1..Len(r) : Then(c, r)[i + 1] = r[i]
  BY <1>1 DEF Then
<1>4. Then(c, r) # << >> /\ Head(Then(c, r)) = c
  BY <1>2, <1>3
<1>5. Tail(Then(c, r)) \in Seq(Call) /\ Len(Tail(Then(c, r))) = Len(r)
      /\ \A i \in 1..Len(r) : Tail(Then(c, r))[i] = Then(c, r)[i + 1]
  BY <1>2, <1>4
<1>6. Tail(Then(c, r)) = r
  BY <1>3, <1>5
<1> QED BY <1>2, <1>4, <1>6

\* Two calls before the rest are one call before the other and the rest.
LEMMA TwoCalls ==
  ASSUME NEW c \in Call, NEW d \in Call, NEW r \in Seq(Call)
  PROVE  /\ <<c, d>> \o r = Then(c, Then(d, r))
         /\ << >> \o r = r /\ <<c>> \o r = Then(c, r)
         /\ <<c, d>> = Then(c, Then(d, << >>))
<1>1. <<c, d>> = <<c>> \o <<d>>
  <2>1. <<c>> \in Seq(Call) /\ <<d>> \in Seq(Call) /\ <<c, d>> \in Seq(Call)
    OBVIOUS
  <2>2. Len(<<c>>) = 1 /\ <<c>>[1] = c /\ Len(<<d>>) = 1 /\ <<d>>[1] = d
    OBVIOUS
  <2>3. Len(<<c, d>>) = 2 /\ <<c, d>>[1] = c /\ <<c, d>>[2] = d
    OBVIOUS
  <2>4. /\ <<c>> \o <<d>> \in Seq(Call) /\ Len(<<c>> \o <<d>>) = 2
        /\ (<<c>> \o <<d>>)[1] = c /\ (<<c>> \o <<d>>)[2] = d
    BY <2>1, <2>2
  <2> DEFINE s == <<c>> \o <<d>>
             u == <<c, d>>
  <2>5. s \in Seq(Call) /\ u \in Seq(Call) /\ Len(s) = Len(u) /\ \A i \in 1..Len(s) : s[i] = u[i]
    <3>1. Len(s) = 2 /\ Len(u) = 2
      BY <2>3, <2>4
    <3>2. \A i \in 1..2 : i = 1 \/ i = 2
      OBVIOUS
    <3> QED BY <2>1, <2>3, <2>4, <3>1, <3>2
  <2> HIDE DEF s, u
  <2>6. s = u
    BY <2>5, SeqEqual
  <2> QED BY <2>6 DEF s, u
<1>2. (<<c>> \o <<d>>) \o r = <<c>> \o (<<d>> \o r)
  OBVIOUS
<1>3. << >> \o r = r /\ <<d>> \o << >> = <<d>>
  OBVIOUS
<1> QED BY <1>1, <1>2, <1>3 DEF Then

LEMMA Ends ==
  ASSUME NEW p \in Ptr, NEW n \in Asked
  PROVE  /\ DataOf \in Call /\ << >> \in Seq(Call) /\ DoneWith(p, n) \in Seq(Call)
         /\ ReallocEnd(p, n) \in Seq(Call) /\ Do("done", p, n, 0) \in Call
<1>1. p \in Nat /\ n \in Nat
  BY PtrNat
<1>2. DataOf \in Call /\ Do("done", p, n, 0) \in Call
  BY <1>1 DEF DataOf, Do, Call, Routines
<1>3. << >> \in Seq(Call)
  OBVIOUS
<1>4. DoneWith(p, n) \in Seq(Call)
  BY <1>2, <1>3, Stack DEF DoneWith
<1> QED BY <1>2, <1>3, <1>4, Stack DEF ReallocEnd

\* The routine that runs, when it is known.
LEMMA Top ==
  ASSUME NEW at \in Routines, NEW b \in Nat, NEW n \in Nat, NEW x \in Nat, NEW r \in Seq(Call),
         todo = Then(Do(at, b, n, x), r)
  PROVE  /\ todo # << >> /\ Head(todo).at = at /\ Tail(todo) = r
         /\ blk = b /\ size = n /\ aux = x
<1>1. Do(at, b, n, x) \in Call
  BY CallType
<1>2. todo # << >> /\ Head(todo) = Do(at, b, n, x) /\ Tail(todo) = r
  BY <1>1, Stack
<1> QED BY <1>2, CallType DEF blk, size, aux

LEMMA OwnedIs == Owned = Owners(live)
  BY DEF Owned, Owners

LEMMA BlocksNat ==
  ASSUME Types
  PROVE  /\ blocks \subseteq Addr /\ blocks \subseteq Nat /\ blocks \subseteq Ptr
         /\ mem \in Memories /\ live \in Lives /\ 0 \notin blocks /\ ret \in Nat
         /\ \A p \in Owned : p \in Ptr /\ p \in Addr /\ p \in Nat /\ p # 0
  BY CellsNat DEF Types, Memories, Lives, Ptr, Owned

\* The block of an owner, in the calm and in the middle of a realloc.
LEMMA OwnerBlock ==
  ASSUME Types, NEW F, NEW K, Good(mem, blocks, live, F, {}, K), NEW p \in Owned
  PROVE  /\ p - 2 \in blocks /\ p - 2 \in Nat /\ (p - 2) + 2 = p /\ mem[p - 2].free = FALSE
         /\ mem[p - 2].sign = TRUE /\ List(mem, blocks) /\ p \in Owners(live) /\ p \in Nat
<1>1. p \in Owners(live) \ {}
  BY OwnedIs
<1>2. p - 2 \in blocks /\ mem[p - 2].free = FALSE /\ List(mem, blocks)
  BY <1>1, OwnedBlock
<1>3. mem[p - 2].sign = TRUE
  BY <1>2 DEF List, Header
<1> QED BY <1>1, <1>2, <1>3, BlocksNat

Runs(at) == todo # << >> /\ Head(todo).at = at

LEMMA Found ==
  ASSUME Types, States
  PROVE  /\ InClient => todo = << >>
         /\ InMalloc => Runs("malloc")
         /\ InFind => Runs("find")
         /\ InShrink => Runs("shrink")
         /\ InSplit => Runs("defrag")
         /\ AtCut => Runs("cut")
         /\ AtData => Runs("data")
         /\ AtDone => Runs("done")
         /\ AtMove => Runs("move")
         /\ InFree => Runs("free")
         /\ InDefrag => Runs("defrag")
         /\ InRealloc => Runs("realloc")
         /\ InExpand => Runs("expand")
<1> USE DEF Runs
<1>0. /\ Ptr \subseteq Nat /\ Asked \subseteq Nat /\ blocks \subseteq Nat /\ 0..End \subseteq Nat
      /\ Owned \subseteq Ptr /\ 0 \in Nat
  BY PtrNat, BlocksNat, CellsNat
<1>00. /\ "malloc" \in Routines /\ "find" \in Routines /\ "shrink" \in Routines
       /\ "defrag" \in Routines /\ "cut" \in Routines /\ "data" \in Routines
       /\ "done" \in Routines /\ "move" \in Routines /\ "free" \in Routines
       /\ "realloc" \in Routines /\ "expand" \in Routines
  BY DEF Routines
<1>1. InClient => todo = << >>
  BY DEF InClient
<1>2. InMalloc => Runs("malloc")
  BY <1>0, <1>00, Top DEF InMalloc
<1>3. InFind => Runs("find")
  <2>1. ASSUME NEW r \in Seq(Call), NEW n \in Asked, NEW b \in blocks \cup {Null},
               NEW best \in blocks \cup {Null}, todo = Then(Do("find", b, n, best), r)
        PROVE  Runs("find")
    <3>1. b \in Nat /\ n \in Nat /\ best \in Nat
      BY <1>0
    <3> QED BY <1>00, <2>1, <3>1, Top
  <2> QED BY <2>1 DEF InFind
<1>4. InShrink => Runs("shrink")
  <2>1. ASSUME NEW r \in Seq(Call), NEW n \in Asked, NEW b \in blocks, NEW x \in 0..End,
               todo = Then(Do("shrink", b, n, x), r)
        PROVE  Runs("shrink")
    <3>1. b \in Nat /\ n \in Nat /\ x \in Nat
      BY <1>0
    <3> QED BY <1>00, <2>1, <3>1, Top
  <2> QED BY <2>1 DEF InShrink
<1>5. ASSUME NEW s \in Seq(Call), NEW n \in Asked, NEW b \in blocks
      PROVE  /\ b \in Nat /\ n \in Nat /\ b + 2 + n \in Nat
             /\ Then(Do("cut", b, n, b + 2 + n), s) \in Seq(Call)
  <2>1. b \in Nat /\ n \in Nat /\ b + 2 + n \in Nat
    BY <1>0
  <2>2. Do("cut", b, n, b + 2 + n) \in Call
    BY <1>00, <2>1, CallType
  <2> QED BY <2>1, <2>2, Stack
<1>6. InSplit => Runs("defrag")
  <2>1. ASSUME NEW s \in Seq(Call), NEW n \in Asked, NEW b \in blocks,
               todo = Then(Do("defrag", b + 2 + n, 0, 0), Then(Do("cut", b, n, b + 2 + n), s))
        PROVE  Runs("defrag")
    BY <1>00, <1>5, <2>1, Top
  <2> QED BY <2>1 DEF InSplit
<1>7. AtCut => Runs("cut")
  <2>1. ASSUME NEW s \in Seq(Call), NEW n \in Asked, NEW b \in blocks,
               todo = Then(Do("cut", b, n, b + 2 + n), s)
        PROVE  Runs("cut")
    BY <1>00, <1>5, <2>1, Top
  <2> QED BY <2>1 DEF AtCut
<1>8. ASSUME NEW r \in Seq(Call), todo = Then(DataOf, r) PROVE Runs("data")
  BY <1>00, <1>0, <1>8, Top DEF DataOf
<1>9. ASSUME NEW p \in Ptr, NEW n \in Asked, todo = ReallocEnd(p, n) PROVE Runs("data")
  BY <1>8, <1>9, Ends DEF ReallocEnd
<1>10. AtData => Runs("data")
  BY <1>8, <1>9 DEF AtData, ShrinkTo
<1>11. AtDone => Runs("done")
  <2>1. ASSUME NEW p \in Ptr, NEW n \in Asked, todo = DoneWith(p, n) PROVE Runs("done")
    <3>1. p \in Nat /\ n \in Nat /\ << >> \in Seq(Call)
      BY <1>0
    <3> QED BY <1>00, <1>0, <2>1, <3>1, Top DEF DoneWith
  <2> QED BY <2>1 DEF AtDone
<1>12. AtMove => Runs("move")
  <2> SUFFICES ASSUME AtMove PROVE Runs("move")
    OBVIOUS
  <2>1. PICK p \in Owned, n \in Asked, o \in 0..End :
           /\ todo = Then(Do("move", p - 2, n, o), ReallocEnd(p, n))
           /\ Calm \/ \E b \in blocks : Fresh(b)
    BY DEF AtMove
  <2>2. p - 2 \in Nat
    BY <2>1, OwnerBlock DEF Calm, Fresh
  <2>3. n \in Nat /\ o \in Nat /\ ReallocEnd(p, n) \in Seq(Call)
    BY <1>0, Ends
  <2> QED BY <1>00, <2>1, <2>2, <2>3, Top
<1>13. InFree => Runs("free")
  BY <1>0, <1>00, Top DEF InFree
<1>14. InDefrag => Runs("defrag")
  BY <1>0, <1>00, Top DEF InDefrag
<1>15. InRealloc => Runs("realloc")
  <2>1. ASSUME NEW p \in Ptr, NEW n \in Asked,
               todo = Then(Do("realloc", p, n, 0), DoneWith(p, n))
        PROVE  Runs("realloc")
    <3>1. p \in Nat /\ n \in Nat /\ DoneWith(p, n) \in Seq(Call)
      BY <1>0, Ends
    <3> QED BY <1>00, <1>0, <2>1, <3>1, Top
  <2> QED BY <2>1 DEF InRealloc
<1>16. InExpand => Runs("expand")
  <2> SUFFICES ASSUME InExpand PROVE Runs("expand")
    OBVIOUS
  <2>1. PICK p \in Owned, n \in Asked, o \in 0..End :
           todo = Then(Do("expand", p - 2, n, o), ReallocEnd(p, n)) /\ Calm
    BY DEF InExpand
  <2>2. p - 2 \in Nat
    BY <2>1, OwnerBlock DEF Calm
  <2>3. n \in Nat /\ o \in Nat /\ ReallocEnd(p, n) \in Seq(Call)
    BY <1>0, Ends
  <2> QED BY <1>00, <2>1, <2>2, <2>3, Top
<1> QED BY <1>1, <1>2, <1>3, <1>4, <1>6, <1>7, <1>10, <1>11, <1>12, <1>13, <1>14, <1>15, <1>16

\* Which state a routine is in when it takes a step.
LEMMA Which ==
  ASSUME IInv, Sound
  PROVE  /\ Types /\ Links(mem)
         /\ Idle => InClient
         /\ At("malloc") => InMalloc
         /\ At("find") => InFind
         /\ At("shrink") => InShrink
         /\ At("cut") => AtCut
         /\ At("data") => AtData
         /\ At("done") => AtDone
         /\ At("move") => AtMove
         /\ At("free") => InFree
         /\ At("defrag") => InSplit \/ InDefrag
         /\ At("realloc") => InRealloc
         /\ At("expand") => InExpand
<1>1. Types /\ Links(mem) /\ States
  BY DEF IInv
<1>2. \A at : At(at) => Runs(at)
  BY DEF At, Idle, Runs
<1>3. \A a, b : Runs(a) /\ Runs(b) => a = b
  BY DEF Runs
<1>4. Idle => \A a : ~ Runs(a)
  BY DEF Idle, Runs
<1>5. InClient => \A a : ~ Runs(a)
  BY <1>1, Found DEF Runs
<1>6. Idle => InClient
  BY <1>1, <1>4, Found DEF States
<1>7. At("malloc") => InMalloc
  BY <1>1, <1>2, <1>3, <1>5, Found DEF States
<1>8. At("find") => InFind
  BY <1>1, <1>2, <1>3, <1>5, Found DEF States
<1>9. At("shrink") => InShrink
  BY <1>1, <1>2, <1>3, <1>5, Found DEF States
<1>10. At("cut") => AtCut
  BY <1>1, <1>2, <1>3, <1>5, Found DEF States
<1>11. At("data") => AtData
  BY <1>1, <1>2, <1>3, <1>5, Found DEF States
<1>12. At("done") => AtDone
  BY <1>1, <1>2, <1>3, <1>5, Found DEF States
<1>13. At("move") => AtMove
  BY <1>1, <1>2, <1>3, <1>5, Found DEF States
<1>14. At("free") => InFree
  BY <1>1, <1>2, <1>3, <1>5, Found DEF States
<1>15. At("defrag") => InSplit \/ InDefrag
  BY <1>1, <1>2, <1>3, <1>5, Found DEF States
<1>16. At("realloc") => InRealloc
  BY <1>1, <1>2, <1>3, <1>5, Found DEF States
<1>17. At("expand") => InExpand
  BY <1>1, <1>2, <1>3, <1>5, Found DEF States
<1> QED BY <1>1, <1>6, <1>7, <1>8, <1>9, <1>10, <1>11, <1>12, <1>13, <1>14, <1>15, <1>16, <1>17

\* What is to be done is the same as long as callers own the same.
LEMMA SameRest ==
  ASSUME live' = live, NEW r, NEW p, NEW n
  PROVE  /\ MallocTo(r, p, n) => MallocTo(r, p, n)'
         /\ \A o : CopiesFrom(p, o) => CopiesFrom(p, o)'
         /\ p \in Owned => p \in Owned'
  BY DEF MallocTo, FreeTags, Owned, CopiesFrom

\* One step replaces the call that runs by others, or by nothing.
LEMMA Continued ==
  ASSUME NEW r \in Seq(Call), Tail(todo) = r, NEW c \in Call, NEW d \in Call
  PROVE  /\ Continue(<< >>) => todo' = r
         /\ Continue(<<c>>) => todo' = Then(c, r) /\ todo' \in Seq(Call)
         /\ Continue(<<c, d>>) => todo' = Then(c, Then(d, r)) /\ todo' \in Seq(Call)
<1>1. << >> \o r = r /\ <<c>> \o r = Then(c, r) /\ <<c, d>> \o r = Then(c, Then(d, r))
  BY TwoCalls
<1>2. Then(d, r) \in Seq(Call)
  BY Stack
<1>3. Then(c, r) \in Seq(Call) /\ Then(c, Then(d, r)) \in Seq(Call)
  BY <1>2, Stack
<1> QED BY <1>1, <1>3 DEF Continue

LEMMA Returned ==
  ASSUME NEW r \in Seq(Call), Tail(todo) = r, Continue(<< >>)
  PROVE  todo' = r
  BY DEF Continue

-----------------------------------------------------------------------------
(***************************************************************************)
(* malloc keeps the invariant.                                             *)
(***************************************************************************)
LEMMA StepMallocNothing == ASSUME IInv, MallocNothing PROVE IInv'
<1>1. Types /\ Links(mem) /\ InMalloc /\ Sound
  BY Which DEF MallocNothing, At
<1>2. PICK r \in Seq(Call), p \in Ptr, n \in Asked :
         todo = Then(Do("malloc", 0, n, 0), r) /\ MallocTo(r, p, n) /\ Calm
  BY <1>1 DEF InMalloc
<1>3. Tail(todo) = r /\ size = n
  BY <1>2, PtrNat, Top DEF Routines
<1>4. n = 0 /\ r = DoneWith(0, 0)
  BY <1>2, <1>3 DEF MallocNothing, MallocTo
<1>5. todo' = r /\ ret' = 0 /\ UNCHANGED <<mem, live, blocks, corrupt>>
  BY <1>3, Returned DEF MallocNothing, Return
<1>6. Types'
  BY <1>1, <1>5 DEF Types
<1>7. AtDone'
  <2>1. Calm'
    BY <1>2, <1>5 DEF Calm
  <2>2. 0 \in Ptr /\ 0 \in Asked
    BY DEF Ptr, Asked
  <2> QED BY <1>4, <1>5, <2>1, <2>2 DEF AtDone, DoneWith
<1> QED BY <1>1, <1>5, <1>6, <1>7 DEF IInv, Sound, States

\* A new header of a free block at x: its size n, its links y and z.
Makes(m, w, x, n, y, z) ==
    w = [m EXCEPT ![x] = [Blank EXCEPT !.sign = TRUE, !.free = TRUE, !.size = n],
                  ![x + 1] = [Blank EXCEPT !.next = y, !.prev = z]]

HeaderAt(w, x, n, y, z) ==
    /\ w[x] = [Blank EXCEPT !.sign = TRUE, !.free = TRUE, !.size = n]
    /\ w[x + 1] = [Blank EXCEPT !.next = y, !.prev = z]

LEMMA HeaderMade ==
  ASSUME NEW m \in Memories, NEW x \in Addr, x + 1 \in Addr, NEW n \in Nat, NEW y \in Nat,
         NEW z \in Nat, NEW w, Makes(m, w, x, n, y, z)
  PROVE  /\ w \in Memories /\ HeaderAt(w, x, n, y, z)
         /\ \A a \in Addr \ {x, x + 1} : w[a] = m[a]
         /\ Links(m) /\ y \in 0..Cells /\ z \in 0..Cells => Links(w)
<1> DEFINE h == [Blank EXCEPT !.sign = TRUE, !.free = TRUE, !.size = n]
           g == [Blank EXCEPT !.next = y, !.prev = z]
<1>1. h \in Cell /\ g \in Cell
  BY DEF Blank, Cell
<1>2. h.next = 0 /\ h.prev = 0 /\ g.next = y /\ g.prev = z
  BY DEF Blank
<1>0. w = [m EXCEPT ![x] = h, ![x + 1] = g]
  BY DEF Makes
<1> HIDE DEF h, g
<1>3. x # x + 1
  BY CellsNat
<1>4. w \in Memories /\ w[x] = h /\ w[x + 1] = g /\ \A a \in Addr \ {x, x + 1} : w[a] = m[a]
  BY <1>0, <1>1, <1>3 DEF Memories
<1>5. Links(m) /\ y \in 0..Cells /\ z \in 0..Cells => Links(w)
  <2> SUFFICES ASSUME Links(m), y \in 0..Cells, z \in 0..Cells, NEW a \in Addr
               PROVE  w[a].next \in 0..Cells /\ w[a].prev \in 0..Cells
    BY DEF Links
  <2>1. CASE a \notin {x, x + 1}
    BY <1>4, <2>1 DEF Links
  <2>2. CASE a = x
    BY <1>2, <1>4, <2>2, CellsNat
  <2>3. CASE a = x + 1
    BY <1>2, <1>4, <2>3
  <2> QED BY <2>1, <2>2, <2>3
<1> QED BY <1>4, <1>5 DEF h, g, HeaderAt

LEMMA StepMallocBegins == ASSUME IInv, MallocBegins PROVE IInv'
<1>1. Types /\ Links(mem) /\ InMalloc /\ Sound
  BY Which DEF MallocBegins, At
<1>2. PICK r \in Seq(Call), p \in Ptr, n \in Asked :
         todo = Then(Do("malloc", 0, n, 0), r) /\ MallocTo(r, p, n) /\ Calm
  BY <1>1 DEF InMalloc
<1>3. Tail(todo) = r /\ size = n /\ n \in Nat
  BY <1>2, PtrNat, Top DEF Routines
<1>4. n > 0 /\ UNCHANGED <<ret, live, corrupt>>
  BY <1>3 DEF MallocBegins
<1>5. todo' = Then(Do("find", 1, n, 0), r) /\ todo' \in Seq(Call)
  <2>1. Do("find", 1, n, 0) \in Call
    BY <1>3, CallType DEF Routines
  <2> QED BY <1>3, <2>1, Continued DEF MallocBegins
<1>6. mem \in Memories /\ live \in Lives
  BY <1>1, BlocksNat
<1>7. mem' \in Memories /\ blocks' \subseteq Addr /\ 1 \in blocks' /\ Links(mem') /\ Calm'
  <2>1. CASE IS_VALID(1)
    <3>1. mem' = mem /\ blocks' = blocks
      BY <2>1 DEF MallocBegins
    <3>2. mem[1].sign = TRUE
      BY <2>1 DEF IS_VALID
    <3>3. List(mem, blocks)
      BY <1>2, <3>2 DEF Calm, Good, NoList
    <3>4. 1 \in blocks
      BY <3>3 DEF List
    <3> QED BY <1>1, <1>2, <1>4, <1>6, <3>1, <3>4 DEF Calm, Types
  <2>2. CASE ~ IS_VALID(1)
    <3>1. mem' = WithHeader(1, (Cells + 1) - 1, 0, 0) /\ blocks' = {1}
      BY <2>2 DEF MallocBegins
    <3>2. 1 \in Addr /\ 1 + 1 \in Addr /\ (Cells + 1) - 1 = Cells /\ Cells \in Nat
      BY CellsNat
    <3>3. Makes(mem, mem', 1, Cells, 0, 0)
      BY <3>1, <3>2 DEF WithHeader, Makes
    <3>4. mem' \in Memories /\ HeaderAt(mem', 1, Cells, 0, 0) /\ Links(mem')
      BY <1>1, <1>6, <3>2, <3>3, HeaderMade
    <3>5. /\ mem'[1] = [Blank EXCEPT !.sign = TRUE, !.free = TRUE, !.size = Cells]
          /\ mem'[2].next = 0 /\ mem'[2].tag = NoTag
      <4>1. 1 + 1 = 2
        OBVIOUS
      <4> QED BY <3>4, <4>1 DEF HeaderAt, Blank
    <3>6. mem[1].sign = FALSE
      <4>1. mem[1].sign \in BOOLEAN
        BY <1>6, <3>2, CellType
      <4> QED BY <2>2, <4>1 DEF IS_VALID
    <3>7. Good(mem', {1}, live, {}, {}, {})
      BY <1>2, <1>6, <3>4, <3>5, <3>6, GoodFirst DEF Calm
    <3> QED BY <1>4, <3>1, <3>2, <3>4, <3>7 DEF Calm
  <2> QED BY <2>1, <2>2
<1>8. Types'
  BY <1>1, <1>4, <1>5, <1>7 DEF Types, Memories
<1>9. InFind'
  <2>1. MallocTo(r, p, n)'
    BY <1>2, <1>4, SameRest
  <2> QED BY <1>2, <1>4, <1>5, <1>7, <2>1 DEF InFind
<1> QED BY <1>7, <1>8, <1>9 DEF IInv, States

\* The walk of find_best_fit: where it is, and the best block so far.
Finding(r, p, n, b, best) ==
    /\ todo = Then(Do("find", b, n, best), r) /\ MallocTo(r, p, n) /\ n > 0
    /\ best # 0 => mem[best].free = TRUE /\ mem[best].size >= H + n
    /\ Calm

LEMMA FindTop ==
  ASSUME Types, NEW r \in Seq(Call), NEW p \in Ptr, NEW n \in Asked, NEW b \in blocks \cup {0},
         NEW best \in blocks \cup {0}, Finding(r, p, n, b, best)
  PROVE  /\ Tail(todo) = r /\ blk = b /\ size = n /\ aux = best
         /\ b \in Nat /\ n \in Nat /\ best \in Nat
         /\ b # 0 => IS_VALID(b) /\ List(mem, blocks)
<1>1. b \in Nat /\ n \in Nat /\ best \in Nat /\ "find" \in Routines
  BY BlocksNat, PtrNat DEF Routines
<1>2. todo = Then(Do("find", b, n, best), r) /\ Calm
  BY DEF Finding
<1>3. b # 0 => List(mem, blocks) /\ b \in blocks
  BY <1>2 DEF Calm, Good, NoList
<1>4. b # 0 => IS_VALID(b)
  BY <1>3 DEF List, Header, IS_VALID
<1> QED BY <1>1, <1>2, <1>3, <1>4, Top

LEMMA FindState ==
  ASSUME InFind
  PROVE  \E r \in Seq(Call), p \in Ptr, n \in Asked, b \in blocks \cup {0},
            best \in blocks \cup {0} : Finding(r, p, n, b, best)
  BY DEF InFind, Finding

LEMMA StepFindNext == ASSUME IInv, FindNext PROVE IInv'
<1>1. Types /\ Links(mem) /\ InFind /\ Sound
  BY Which DEF FindNext, At
<1>2. PICK r \in Seq(Call), p \in Ptr, n \in Asked, b \in blocks \cup {0},
           best \in blocks \cup {0} : Finding(r, p, n, b, best)
  BY <1>1, FindState
<1>3. /\ Tail(todo) = r /\ blk = b /\ size = n /\ aux = best
      /\ b \in Nat /\ n \in Nat /\ best \in Nat
      /\ b # 0 => IS_VALID(b) /\ List(mem, blocks)
  BY <1>1, <1>2, FindTop
<1>4. b # 0 /\ b \in blocks /\ List(mem, blocks) /\ UNCHANGED <<mem, ret, live, blocks, corrupt>>
  BY <1>3 DEF FindNext, IS_VALID
<1> DEFINE next == Next_(b)
           fit  == IF FitsBetter(b) THEN b ELSE best
<1>5. next \in blocks \cup {0} /\ next \in Nat
  <2>1. mem[b + 1].next \in blocks \cup {0} /\ mem[b + 1].next \in Nat
    BY <1>1, <1>4, BlocksNat, BlockFacts
  <2> QED BY <2>1 DEF Next_
<1>6. /\ fit \in blocks \cup {0} /\ fit \in Nat
      /\ fit # 0 => mem[fit].free = TRUE /\ mem[fit].size >= 2 + n
  <2>1. CASE FitsBetter(b)
    BY <1>3, <1>4, <2>1 DEF FitsBetter, IS_FREE
  <2>2. CASE ~ FitsBetter(b)
    BY <1>2, <1>3, <2>2 DEF Finding
  <2> QED BY <2>1, <2>2
<1> HIDE DEF next
<1>7. todo' = Then(Do("find", next, n, fit), r) /\ todo' \in Seq(Call)
  <2> HIDE DEF fit
  <2>1. Do("find", next, n, fit) \in Call
    BY <1>3, <1>5, <1>6, CallType DEF Routines
  <2>2. Continue(<<Do("find", next, n, fit)>>)
    BY <1>3 DEF FindNext, next, fit
  <2> QED BY <1>3, <2>1, <2>2, Continued
<1> HIDE DEF fit
<1>8. Types'
  BY <1>1, <1>4, <1>7 DEF Types
<1>9. InFind'
  <2>1. MallocTo(r, p, n)'
    BY <1>2, <1>4, SameRest DEF Finding
  <2>2. Calm' /\ n > 0
    BY <1>2, <1>4 DEF Finding, Calm
  <2>3. /\ next \in blocks' \cup {0} /\ fit \in blocks' \cup {0}
        /\ fit # 0 => mem'[fit].free = TRUE /\ mem'[fit].size >= 2 + n
    BY <1>4, <1>5, <1>6
  <2> QED BY <1>7, <2>1, <2>2, <2>3 DEF InFind
<1> QED BY <1>1, <1>4, <1>8, <1>9 DEF IInv, States

LEMMA StepFindNothing == ASSUME IInv, FindNothing PROVE IInv'
<1>1. Types /\ Links(mem) /\ InFind /\ Sound
  BY Which DEF FindNothing, At
<1>2. PICK r \in Seq(Call), p \in Ptr, n \in Asked, b \in blocks \cup {0},
           best \in blocks \cup {0} : Finding(r, p, n, b, best)
  BY <1>1, FindState
<1>3. Tail(todo) = r /\ n \in Nat
  BY <1>1, <1>2, FindTop
<1>4. todo' = r /\ ret' = 0 /\ UNCHANGED <<mem, live, blocks, corrupt>>
  BY <1>3, Returned DEF FindNothing, Return
<1>5. Types'
  BY <1>1, <1>4 DEF Types
<1>6. Calm' /\ n > 0 /\ MallocTo(r, p, n)
  BY <1>2, <1>4 DEF Finding, Calm
<1>7. AtDone' \/ AtMove'
  <2>1. CASE r = DoneWith(0, n)
    <3>1. 0 \in Ptr
      BY DEF Ptr
    <3> QED BY <1>4, <1>6, <2>1, <3>1 DEF AtDone, DoneWith
  <2>2. CASE p \in Owned /\ \E o \in 0..End : CopiesFrom(p, o)
             /\ r = Then(Do("move", p - 2, n, o), ReallocEnd(p, n))
    <3>1. PICK o \in 0..End : CopiesFrom(p, o)
               /\ r = Then(Do("move", p - 2, n, o), ReallocEnd(p, n))
      BY <2>2
    <3>2. CopiesFrom(p, o)' /\ p \in Owned'
      BY <1>4, <2>2, <3>1, SameRest
    <3> QED BY <1>4, <1>6, <3>1, <3>2 DEF AtMove
  <2> QED BY <1>6, <2>1, <2>2 DEF MallocTo
<1> QED BY <1>1, <1>4, <1>5, <1>7 DEF IInv, States

LEMMA StepFindBest == ASSUME IInv, FindBest PROVE IInv'
<1>1. Types /\ Links(mem) /\ InFind /\ Sound
  BY Which DEF FindBest, At
<1>2. PICK r \in Seq(Call), p \in Ptr, n \in Asked, b \in blocks \cup {0},
           best \in blocks \cup {0} : Finding(r, p, n, b, best)
  BY <1>1, FindState
<1>3. Tail(todo) = r /\ size = n /\ aux = best /\ n \in Nat /\ best \in Nat
  BY <1>1, <1>2, FindTop
<1>4. /\ best # 0 /\ best \in blocks /\ n > 0 /\ FreeIn(mem, best) /\ mem[best].size >= 2 + n
      /\ Good(mem, blocks, live, {}, {}, {}) /\ MallocTo(r, p, n)
  BY <1>2, <1>3 DEF FindBest, Finding, FreeIn, Calm
<1>5. Takes(mem, mem', best) /\ UNCHANGED <<ret, live, blocks, corrupt>>
  BY <1>3 DEF FindBest, Takes
<1>6. mem \in Memories /\ live \in Lives /\ best \in Addr
  BY <1>1, <1>4, BlocksNat
<1>7. Good(mem', blocks, live, {best}, {}, {}) /\ mem' \in Memories
      /\ mem'[best].size = mem[best].size
  BY <1>4, <1>5, <1>6, GoodTake
<1>8. Links(mem')
  BY <1>1, <1>5, <1>6, FreeSet
<1>9. todo' = Then(Do("shrink", best, n, 0), Then(DataOf, r)) /\ todo' \in Seq(Call)
  <2>1. Do("shrink", best, n, 0) \in Call /\ DataOf \in Call
    BY <1>3, CallType DEF Routines, DataOf
  <2>2. Continue(<<Do("shrink", best, n, 0), DataOf>>)
    BY <1>3 DEF FindBest, DataOf
  <2> QED BY <1>3, <2>1, <2>2, Continued
<1>10. Types'
  BY <1>1, <1>5, <1>7, <1>9 DEF Types, Memories
<1>11. InShrink'
  <2>1. Then(DataOf, r) \in Seq(Call)
    BY Stack, CallType DEF Routines, DataOf
  <2>2. MallocTo(r, p, n)'
    BY <1>4, <1>5, SameRest
  <2>3. ShrinkTo(Then(DataOf, r), mem, best, p, n)'
    BY <1>4, <1>5, <1>7, <2>2 DEF ShrinkTo
  <2>4. 0 \in 0..End
    BY CellsNat
  <2> QED BY <1>4, <1>5, <1>9, <2>1, <2>3, <2>4 DEF InShrink
<1> QED BY <1>8, <1>10, <1>11 DEF IInv, States

LEMMA StepGetBlockData == ASSUME IInv, GetBlockData PROVE IInv'
<1>1. Types /\ Links(mem) /\ AtData /\ Sound
  BY Which DEF GetBlockData, At
<1>2. PICK p \in Ptr, n \in Asked :
         \/ ShrinkTo(todo, mem, ret, p, n)
         \/ todo = ReallocEnd(p, n) /\ ret = 0 /\ Calm
         \/ todo = ReallocEnd(p, n) /\ Moved(ret, p, n)
  BY <1>1 DEF AtData
<1>3. /\ ret' = (IF IS_VALID(ret) THEN ret + 2 ELSE 0)
      /\ todo' = Tail(todo) /\ UNCHANGED <<mem, live, blocks, corrupt>>
  <2>1. Tail(todo) \in Seq(Call)
    <3>1. todo # << >> /\ todo \in Seq(Call)
      BY <1>1 DEF GetBlockData, At, Idle, Types
    <3> QED BY <3>1
  <2> QED BY <2>1 DEF GetBlockData, Return, Continue
<1>4. mem \in Memories /\ live \in Lives /\ ret \in Nat /\ blocks \subseteq Addr
  BY <1>1, BlocksNat
<1>5. ASSUME ret \in blocks, List(mem, blocks) PROVE ret' = ret + 2 /\ ret + 2 \in Addr
  <2>1. mem[ret].sign = TRUE /\ ret # 0 /\ ret <= Cells - 1 /\ ret \in Nat
    <3>1. ret \in Nat /\ ret >= 1 /\ ret <= Cells - 1 /\ mem[ret].sign = TRUE
      BY <1>4, <1>5, BlockFacts
    <3> QED BY <3>1
  <2> QED BY <1>3, <2>1, CellsNat DEF IS_VALID
<1>6. ASSUME NEW r \in Seq(Call), todo = Then(DataOf, r) PROVE todo' = r
  <2>1. DataOf \in Call
    BY CallType DEF Routines, DataOf
  <2> QED BY <1>3, <1>6, <2>1, Stack
<1>7. ASSUME todo = ReallocEnd(p, n) PROVE todo' = DoneWith(p, n)
  BY <1>6, <1>7, Ends DEF ReallocEnd
<1>8. todo' \in Seq(Call)
  <2>1. todo # << >> /\ todo \in Seq(Call)
    BY <1>1 DEF GetBlockData, At, Idle, Types
  <2> QED BY <1>3, <2>1
<1>9. ret' \in Ptr /\ (AtDone' \/ AtMove')
  <2>1. CASE ShrinkTo(todo, mem, ret, p, n)
    <3>1. ret \in blocks /\ n > 0 /\ mem[ret].size >= 2 + n
      BY <2>1 DEF ShrinkTo
    <3>2. CASE /\ Good(mem, blocks, live, {ret}, {}, {})
               /\ \E r \in Seq(Call) : todo = Then(DataOf, r) /\ MallocTo(r, p, n)
      <4>1. PICK r \in Seq(Call) : todo = Then(DataOf, r) /\ MallocTo(r, p, n)
        BY <3>2
      <4>2. todo' = r /\ ret' = ret + 2 /\ ret + 2 \in Addr
        <5>1. List(mem, blocks)
          BY <3>1, <3>2 DEF Good, NoList
        <5> QED BY <1>5, <1>6, <3>1, <4>1, <5>1
      <4>3. /\ ret \in blocks' /\ mem'[ret].size >= 2 + n
            /\ Good(mem', blocks', live', {ret}, {}, {})
        BY <1>3, <3>1, <3>2
      <4>4. CASE r = DoneWith(0, n) /\ FreeTags # {}
        <5>1. 0 \in Ptr /\ FreeTags' # {}
          BY <1>3, <4>4 DEF Ptr, FreeTags, Owned
        <5> QED BY <3>1, <4>2, <4>3, <4>4, <5>1 DEF AtDone, Fresh, Ptr
      <4>5. CASE p \in Owned /\ \E o \in 0..End : CopiesFrom(p, o)
                 /\ r = Then(Do("move", p - 2, n, o), ReallocEnd(p, n))
        <5>1. PICK o \in 0..End : CopiesFrom(p, o)
                   /\ r = Then(Do("move", p - 2, n, o), ReallocEnd(p, n))
          BY <4>5
        <5>2. CopiesFrom(p, o)' /\ p \in Owned'
          BY <1>3, <4>5, <5>1, SameRest
        <5> QED BY <3>1, <4>2, <4>3, <5>1, <5>2 DEF AtMove, Fresh, Ptr
      <4> QED BY <4>1, <4>4, <4>5 DEF MallocTo
    <3>3. CASE /\ p \in Owned /\ ret = p - 2 /\ Good(mem, blocks, live, {}, {}, {p})
               /\ Ready(mem, live, ret, p, n) /\ todo = ReallocEnd(p, n)
      <4>1. (p - 2) + 2 = p /\ List(mem, blocks)
        BY <1>1, <3>3, OwnerBlock
      <4>2. ret' = p /\ p \in Ptr /\ todo' = DoneWith(p, n)
        BY <1>5, <1>7, <3>1, <3>3, <4>1
      <4>3. p \in Owned' /\ Good(mem', blocks', live', {}, {}, {p})
            /\ Ready(mem', live', p - 2, p, n)
        BY <1>3, <3>3 DEF Owned
      <4> QED BY <4>2, <4>3 DEF AtDone
    <3> QED BY <2>1, <3>2, <3>3 DEF ShrinkTo
  <2>2. CASE todo = ReallocEnd(p, n) /\ ret = 0 /\ Calm
    <3>1. ret' = 0 /\ todo' = DoneWith(p, n) /\ Calm'
      BY <1>3, <1>7, <2>2 DEF IS_VALID, Calm
    <3> QED BY <3>1 DEF AtDone, Ptr
  <2>3. CASE todo = ReallocEnd(p, n) /\ Moved(ret, p, n)
    <3>1. ret \in blocks /\ Good(mem, blocks, live, {ret}, {p}, {p})
      BY <2>3 DEF Moved, Good, InUse
    <3>2. List(mem, blocks)
      BY <3>1 DEF Good, NoList
    <3>3. ret' = ret + 2 /\ ret + 2 \in Addr /\ todo' = DoneWith(p, n)
      BY <1>5, <1>7, <2>3, <3>1, <3>2
    <3>4. Moved(ret, p, n) => ret \in blocks' /\ p \in Owned' /\ n \in Asked
                              /\ Good(mem', blocks', live', {ret}, {p}, {p})
                              /\ Ready(mem', live', ret, p, n)
      BY <1>3, <3>1 DEF Moved, Owned
    <3> QED BY <2>3, <3>3, <3>4 DEF AtDone, Moved, Ptr
  <2> QED BY <1>2, <2>1, <2>2, <2>3
<1>10. Types'
  BY <1>1, <1>3, <1>8, <1>9 DEF Types, Ptr
<1> QED BY <1>1, <1>3, <1>9, <1>10 DEF IInv, States

-----------------------------------------------------------------------------
(***************************************************************************)
(* shrink_block keeps the invariant.                                       *)
(***************************************************************************)
LEMMA ShrinkTop ==
  ASSUME Types, NEW s \in Seq(Call), NEW p \in Ptr, NEW n \in Asked, NEW b \in blocks,
         NEW x \in 0..End, todo = Then(Do("shrink", b, n, x), s)
  PROVE  Tail(todo) = s /\ blk = b /\ size = n /\ n \in Nat /\ b \in Nat /\ b \in Addr
<1>1. b \in Nat /\ n \in Nat /\ x \in Nat /\ "shrink" \in Routines /\ b \in Addr
  BY BlocksNat, PtrNat, CellsNat DEF Routines
<1> QED BY <1>1, Top

LEMMA StepShrinkNothing == ASSUME IInv, ShrinkNothing PROVE IInv'
<1>1. Types /\ Links(mem) /\ InShrink /\ Sound
  BY Which DEF ShrinkNothing, At
<1>2. PICK s \in Seq(Call), p \in Ptr, n \in Asked, b \in blocks, x \in 0..End :
         todo = Then(Do("shrink", b, n, x), s) /\ ShrinkTo(s, mem, b, p, n)
  BY <1>1 DEF InShrink
<1>3. Tail(todo) = s /\ blk = b /\ b \in Addr
  BY <1>1, <1>2, ShrinkTop
<1>4. todo' = s /\ ret' = b /\ UNCHANGED <<mem, live, blocks, corrupt>>
  BY <1>3, Returned DEF ShrinkNothing, Return
<1>5. Types'
  BY <1>1, <1>3, <1>4 DEF Types
<1>6. \A r : MallocTo(r, p, n) => MallocTo(r, p, n)'
  BY <1>4, SameRest
<1>7. ShrinkTo(s, mem, b, p, n)'
  BY <1>2, <1>4, <1>6 DEF ShrinkTo, Owned
<1>8. AtData'
  <2>1. ShrinkTo(todo, mem, ret, p, n)'
    BY <1>4, <1>7 DEF ShrinkTo
  <2> QED BY <2>1 DEF AtData
<1> QED BY <1>1, <1>4, <1>5, <1>8 DEF IInv, States

\* The list as it will be after the cut, in any memory.
CutIn(m, b, n) == [m EXCEPT ![b].size = H + n, ![b + 1].next = b + H + n]

\* A block is given another size and another next block.
Resizes(m, w, b, k, z) == w = [m EXCEPT ![b].size = k, ![b + 1].next = z]

Resized(m, w, b, k, z) ==
    /\ w[b] = [m[b] EXCEPT !.size = k] /\ w[b + 1] = [m[b + 1] EXCEPT !.next = z]
    /\ w[b].sign = m[b].sign /\ w[b].free = m[b].free /\ w[b].tag = m[b].tag /\ w[b].size = k
    /\ w[b + 1].tag = m[b + 1].tag /\ w[b + 1].next = z
    /\ \A a \in Addr \ {b, b + 1} : w[a] = m[a]

LEMMA ResizeMade ==
  ASSUME NEW m \in Memories, NEW b \in Addr, b + 1 \in Addr, NEW k \in Nat, NEW z \in Nat,
         NEW w, Resizes(m, w, b, k, z)
  PROVE  /\ w \in Memories /\ Resized(m, w, b, k, z)
         /\ Links(m) /\ z \in 0..Cells => Links(w)
<1> DEFINE h == [m[b] EXCEPT !.size = k]
           g == [m[b + 1] EXCEPT !.next = z]
<1>0. b # b + 1
  BY CellsNat
<1>1. w = [m EXCEPT ![b] = h, ![b + 1] = g]
  BY <1>0 DEF Resizes
<1>2. m[b] \in Cell /\ m[b + 1] \in Cell
  BY CellType
<1>3. /\ h \in Cell /\ h.size = k /\ h.sign = m[b].sign /\ h.free = m[b].free
      /\ h.tag = m[b].tag /\ h.next = m[b].next /\ h.prev = m[b].prev
  BY <1>2 DEF Cell
<1>4. /\ g \in Cell /\ g.next = z /\ g.tag = m[b + 1].tag /\ g.prev = m[b + 1].prev
  BY <1>2 DEF Cell
<1> HIDE DEF h, g
<1>5. w \in Memories /\ w[b] = h /\ w[b + 1] = g /\ \A a \in Addr \ {b, b + 1} : w[a] = m[a]
  BY <1>0, <1>1, <1>3, <1>4 DEF Memories
<1>6. Links(m) /\ z \in 0..Cells => Links(w)
  BY <1>3, <1>4, <1>5 DEF Links
<1> QED BY <1>3, <1>4, <1>5, <1>6 DEF h, g, Resized

LEMMA ReadySame ==
  ASSUME NEW m, NEW w, NEW lv \in Lives, NEW b \in Nat, NEW p, NEW n \in Nat,
         Ready(m, lv, b, p, n), w[b].size >= 2 + n,
         p # 0 => p \in Addr /\ \A i \in Nat : i < n /\ i < lv[p].kept
                     => w[b + 2 + i].tag = m[b + 2 + i].tag
  PROVE  Ready(w, lv, b, p, n)
<1>1. ASSUME p # 0, NEW i \in 0..(lv[p].kept - 1), i < n PROVE w[b + 2 + i].tag = lv[p].tag
  <2>1. i \in Nat /\ i < lv[p].kept
    BY <1>1, LiveType
  <2> QED BY <1>1, <2>1 DEF Ready
<1> QED BY <1>1 DEF Ready

LEMMA StepSplit == ASSUME IInv, Split PROVE IInv'
<1>1. Types /\ Links(mem) /\ InShrink /\ Sound
  BY Which DEF Split, At
<1>2. PICK s \in Seq(Call), p \in Ptr, n \in Asked, b \in blocks, y \in 0..End :
         todo = Then(Do("shrink", b, n, y), s) /\ ShrinkTo(s, mem, b, p, n)
  BY <1>1 DEF InShrink
<1>3. Tail(todo) = s /\ blk = b /\ size = n /\ b \in Addr /\ b \in Nat /\ n \in Nat
  BY <1>1, <1>2, ShrinkTop
<1>4. mem \in Memories /\ live \in Lives /\ blocks \subseteq Addr
  BY <1>1, BlocksNat
<1>5. List(mem, blocks)
  BY <1>2 DEF ShrinkTo, Good, NoList
<1>6. /\ b >= 1 /\ b <= Cells - 1 /\ mem[b].size \in Nat /\ b + mem[b].size <= Cells + 1
      /\ Cells \in Nat /\ b + 1 \in Addr
  BY <1>4, <1>5, BlockFacts, CellsNat
<1> DEFINE x == b + 2 + n
<1>7. 2 + n < mem[b].size /\ mem[b].size - (2 + n) >= 2
  BY <1>3 DEF Split, CanSplit
<1>8. /\ mem' = WithHeader(x, mem[b].size - (2 + n), Next_(b), b)
      /\ blocks' = blocks \cup {x} /\ UNCHANGED <<ret, live, corrupt>>
      /\ Continue(<<Do("defrag", x, 0, 0), Do("cut", b, n, x)>>)
  BY <1>3 DEF Split
<1>9. /\ x \in Nat /\ x \in Addr /\ x + 1 \in Addr /\ x + 2 <= b + mem[b].size /\ x >= b + 2
      /\ mem[b].size - (2 + n) \in Nat /\ x \in 0..Cells /\ x = b + 2 + n
      /\ mem[b].size <= Cells
      /\ x <= Cells - 1
  <2>1. PICK z \in Nat : z = mem[b].size
    BY <1>6
  <2>2. /\ x \in Nat /\ x + 2 <= b + z /\ x >= b + 2 /\ z - (2 + n) \in Nat /\ x = b + 2 + n
        /\ x <= Cells - 1 /\ z <= Cells
    <3>1. /\ b \in Nat /\ b >= 1 /\ n \in Nat /\ b + z <= Cells + 1 /\ Cells \in Nat
          /\ 2 + n < z /\ z - (2 + n) >= 2
      BY <1>3, <1>6, <1>7, <2>1
    <3>2. PICK u \in Nat : u = x
      BY <3>1
    <3> QED BY ONLY <3>1, <3>2, z \in Nat, x = b + 2 + n
  <2> HIDE DEF x
  <2>3. x \in Addr /\ x + 1 \in Addr /\ x \in 0..Cells
    BY <1>3, <1>6, <2>2
  <2> QED BY <2>1, <2>2, <2>3
<1> HIDE DEF x
<1>10. Next_(b) \in Nat /\ Next_(b) \in 0..Cells /\ Next_(b) = mem[b + 1].next /\ b \in 0..Cells
  <2>1. mem[b + 1].next \in 0..Cells /\ mem[b + 1].next \in Nat
    BY <1>1, <1>4, <1>6, CellType DEF Links
  <2>2. b \in 0..Cells
    BY <1>3, <1>6
  <2> QED BY <2>1, <2>2 DEF Next_
<1> DEFINE left == mem[b].size - (2 + n)
<1>11. Makes(mem, mem', x, left, Next_(b), b) /\ left \in Nat
  BY <1>8, <1>9 DEF WithHeader, Makes
<1> HIDE DEF left
<1>12. /\ mem' \in Memories /\ HeaderAt(mem', x, left, Next_(b), b)
       /\ \A a \in Addr \ {x, x + 1} : mem'[a] = mem[a]
       /\ Links(mem')
  <2>1. /\ mem \in Memories /\ x \in Addr /\ x + 1 \in Addr /\ left \in Nat
        /\ Next_(b) \in Nat /\ b \in Nat /\ Makes(mem, mem', x, left, Next_(b), b)
    BY <1>3, <1>4, <1>9, <1>10, <1>11
  <2>2. mem' \in Memories /\ HeaderAt(mem', x, left, Next_(b), b)
    BY ONLY <2>1, HeaderMade
  <2>3. \A a \in Addr \ {x, x + 1} : mem'[a] = mem[a]
    BY ONLY <2>1, HeaderMade
  <2>4. Links(mem) /\ Next_(b) \in 0..Cells /\ b \in 0..Cells => Links(mem')
    BY ONLY <2>1, HeaderMade
  <2> QED BY <1>1, <1>10, <2>2, <2>3, <2>4
<1> DEFINE w == CutIn(mem', b, n)
<1>13. /\ w \in Memories /\ x \in Nat
       /\ w[b].sign = mem'[b].sign /\ w[b].free = mem'[b].free
       /\ w[b].tag = mem'[b].tag /\ w[b].size = 2 + n
       /\ w[b + 1].tag = mem'[b + 1].tag /\ w[b + 1].next = x
       /\ \A a \in Addr \ {b, b + 1} : w[a] = mem'[a]
  <2>1. Resizes(mem', w, b, 2 + n, x) /\ 2 + n \in Nat /\ x \in Nat
    BY <1>3, <1>9 DEF Resizes, CutIn
  <2>2. w \in Memories /\ Resized(mem', w, b, 2 + n, x)
    BY <1>3, <1>6, <1>12, <2>1, ResizeMade
  <2> QED BY <2>1, <2>2 DEF Resized
<1>14. w = CutAt(b, n)'
  BY DEF CutAt, CutIn
<1> HIDE DEF w
<1>15. mem'[b] = mem[b] /\ mem'[b + 1] = mem[b + 1] /\ w[x] = mem'[x] /\ w[x + 1] = mem'[x + 1]
  <2>1. b \notin {x, x + 1} /\ b + 1 \notin {x, x + 1} /\ x \notin {b, b + 1}
        /\ x + 1 \notin {b, b + 1}
    BY <1>3, <1>9
  <2> QED BY <1>3, <1>6, <1>9, <1>12, <1>13, <2>1
<1>16. \A a \in Addr \ {b, b + 1, x, x + 1} : w[a] = mem[a]
  BY <1>12, <1>13
<1>17. Splits(mem, w, b, n, x)
  <2>1. /\ w[x].sign = TRUE /\ w[x].free = TRUE /\ w[x].tag = NoTag
        /\ w[x].size = mem[b].size - (2 + n)
    BY <1>12, <1>15 DEF HeaderAt, Blank, left
  <2>2. w[x + 1].tag = NoTag /\ w[x + 1].next = mem[b + 1].next
    BY <1>10, <1>12, <1>15 DEF HeaderAt, Blank
  <2> QED BY <1>7, <1>13, <1>15, <1>16, <2>1, <2>2 DEF Splits
<1>18. n > 0 /\ w[b].size >= 2 + n
  BY <1>2, <1>3, <1>13 DEF ShrinkTo
<1>19. todo' = Then(Do("defrag", x, 0, 0), Then(Do("cut", b, n, x), s)) /\ todo' \in Seq(Call)
  <2>1. Do("defrag", x, 0, 0) \in Call /\ Do("cut", b, n, x) \in Call
    BY <1>3, <1>9, CallType DEF Routines
  <2> QED BY <1>3, <1>8, <2>1, Continued
<1>20. ShrinkTo(s, CutAt(b, n), b, p, n)'
  <2>1. CASE /\ Good(mem, blocks, live, {b}, {}, {})
             /\ \E r \in Seq(Call) : s = Then(DataOf, r) /\ MallocTo(r, p, n)
    <3>1. b + 2 \notin Owners(live)
      BY <2>1 DEF Good, InUse
    <3>2. Good(w, blocks \cup {x}, live, {b}, {}, {})
      BY <1>3, <1>4, <1>9, <1>13, <1>17, <2>1, <3>1, GoodSplit
    <3>3. \A r : MallocTo(r, p, n) => MallocTo(r, p, n)'
      BY <1>8, SameRest
    <3> QED BY <1>8, <1>14, <1>18, <2>1, <3>2, <3>3 DEF ShrinkTo
  <2>2. CASE /\ p \in Owned /\ b = p - 2 /\ Good(mem, blocks, live, {}, {}, {p})
             /\ Ready(mem, live, b, p, n) /\ s = ReallocEnd(p, n)
    <3>1. b + 2 = p /\ p \in Addr
      BY <1>1, <1>3, <2>2, BlocksNat
    <3>2. Good(w, blocks \cup {x}, live, {}, {}, {p})
      BY <1>3, <1>4, <1>9, <1>13, <1>17, <2>2, <3>1, GoodSplit
    <3>3. ASSUME NEW i \in Nat, i < n PROVE w[b + 2 + i].tag = mem[b + 2 + i].tag
      <4>1. b + 2 + i \in Addr /\ b + 2 + i \notin {b, b + 1, x, x + 1}
        <5> DEFINE a == b + 2 + i
        <5>1. a \in Nat /\ a < x /\ a >= b + 2
          <6>1. x = b + 2 + n /\ b \in Nat /\ n \in Nat /\ i \in Nat /\ i < n
            BY <1>3, <1>9, <3>3
          <6> QED BY ONLY <6>1
        <5> HIDE DEF a
        <5>2. x <= Cells - 1 /\ x \in Nat /\ Cells \in Nat /\ b \in Nat
          BY <1>3, <1>6, <1>9
        <5>3. a >= 1 /\ a <= Cells + 2 /\ a # b /\ a # b + 1 /\ a # x /\ a # x + 1
          BY ONLY <5>1, <5>2
        <5>4. a \in Addr
          BY <5>1, <5>3, CellsNat
        <5> QED BY <5>3, <5>4 DEF a
      <4> QED BY <1>16, <4>1
    <3>4. Ready(w, live, b, p, n)
      BY <1>3, <1>4, <1>18, <2>2, <3>1, <3>3, ReadySame, ZenonT(60)
    <3>5. p \in Owned'
      BY <1>8, <2>2, SameRest
    <3> QED BY <1>8, <1>14, <1>18, <2>2, <3>2, <3>4, <3>5 DEF ShrinkTo
  <2> QED BY <1>2, <2>1, <2>2 DEF ShrinkTo
<1>21. InSplit'
  <2>1. InCut(s, p, n, b)'
    <3>1. b + 2 + n \in blocks' /\ mem'[b].size <= Cells
      BY <1>8, <1>9, <1>15
    <3> QED BY <1>20, <3>1 DEF InCut
  <2> QED BY <1>8, <1>9, <1>19, <2>1 DEF InSplit
<1>22. Types'
  BY <1>1, <1>8, <1>9, <1>12, <1>19 DEF Types, Memories
<1> QED BY <1>12, <1>21, <1>22 DEF IInv, States

LEMMA StepCut == ASSUME IInv, Cut PROVE IInv'
<1>1. Types /\ Links(mem) /\ AtCut /\ Sound
  BY Which DEF Cut, At
<1>2. PICK s \in Seq(Call), p \in Ptr, n \in Asked, b \in blocks :
         todo = Then(Do("cut", b, n, b + 2 + n), s) /\ InCut(s, p, n, b)
  BY <1>1 DEF AtCut
<1>3. mem \in Memories /\ blocks \subseteq Addr /\ b \in Nat /\ b \in Addr /\ n \in Nat
      /\ b + 2 + n \in Nat
  BY <1>1, BlocksNat, PtrNat
<1>4. Tail(todo) = s /\ blk = b /\ size = n /\ aux = b + 2 + n
  BY <1>2, <1>3, Top DEF Routines
<1>5. /\ Resizes(mem, mem', b, 2 + n, b + 2 + n) /\ mem' = CutAt(b, n)
      /\ Return(b) /\ UNCHANGED <<live, blocks, corrupt>>
  BY <1>4 DEF Cut, Resizes, CutAt
<1>6. todo' = s /\ ret' = b
  BY <1>4, <1>5, Returned DEF Return
<1>7. ShrinkTo(s, mem', b, p, n) /\ b + 2 + n \in blocks
  BY <1>2, <1>5 DEF InCut
<1>8. List(mem', blocks)
  BY <1>7 DEF ShrinkTo, Good, NoList
<1>9. mem' \in Memories /\ Links(mem')
  <2>1. b + 1 \in Addr /\ b + 2 + n \in 0..Cells
    <3>1. b + 1 <= Cells
      <4>1. Header(mem', blocks, b)
        BY <1>8 DEF List
      <4>2. Header(mem', blocks, b + 2 + n)
        BY <1>7, <1>8 DEF List
      <4>3. b + 2 + n <= Cells
        BY <4>2, CellsNat DEF Header
      <4> QED BY <1>3, <4>3, CellsNat
    <3>2. b + 2 + n <= Cells
      <4>1. Header(mem', blocks, b + 2 + n)
        BY <1>7, <1>8 DEF List
      <4> QED BY <4>1, CellsNat DEF Header
    <3> QED BY <1>3, <3>1, <3>2, CellsNat
  <2>2. 2 + n \in Nat
    BY <1>3
  <2> QED BY <1>1, <1>3, <1>5, <2>1, <2>2, ResizeMade
<1>10. Types'
  BY <1>1, <1>3, <1>5, <1>6, <1>9 DEF Types, Memories
<1>11. AtData'
  <2>1. \A r : MallocTo(r, p, n) => MallocTo(r, p, n)'
    BY <1>5, SameRest
  <2>2. p \in Owned => p \in Owned'
    BY <1>5, SameRest
  <2>3. ShrinkTo(todo, mem, ret, p, n)'
    BY <1>5, <1>6, <1>7, <2>1, <2>2 DEF ShrinkTo
  <2> QED BY <2>3 DEF AtData
<1> QED BY <1>9, <1>10, <1>11 DEF IInv, States

-----------------------------------------------------------------------------
(***************************************************************************)
(* defrag_blocks keeps the invariant.                                      *)
(***************************************************************************)
LEMMA SplitTop ==
  ASSUME Types, NEW s \in Seq(Call), NEW p \in Ptr, NEW n \in Asked, NEW b \in blocks,
         todo = Then(Do("defrag", b + 2 + n, 0, 0), Then(Do("cut", b, n, b + 2 + n), s)),
         InCut(s, p, n, b)
  PROVE  /\ Tail(todo) = Then(Do("cut", b, n, b + 2 + n), s) /\ Tail(todo) \in Seq(Call)
         /\ blk = b + 2 + n /\ b + 2 + n \in blocks
         /\ b \in Nat /\ n \in Nat /\ b \in Addr /\ b + 1 \in Addr /\ b + 2 + n \in Nat
         /\ b + 2 + n <= Cells - 1 /\ n > 0
         /\ CutAt(b, n) \in Memories /\ Resized(mem, CutAt(b, n), b, 2 + n, b + 2 + n)
         /\ List(CutAt(b, n), blocks)
<1>1. b \in Nat /\ n \in Nat /\ b \in Addr /\ b + 2 + n \in Nat /\ mem \in Memories
  BY BlocksNat, PtrNat
<1>2. Then(Do("cut", b, n, b + 2 + n), s) \in Seq(Call)
  <2>1. Do("cut", b, n, b + 2 + n) \in Call
    BY <1>1, CallType DEF Routines
  <2> QED BY <2>1, Stack
<1>3. Tail(todo) = Then(Do("cut", b, n, b + 2 + n), s) /\ blk = b + 2 + n
  BY <1>1, <1>2, Top DEF Routines
<1>4. b + 2 + n \in blocks /\ List(CutAt(b, n), blocks) /\ n > 0
  BY DEF InCut, ShrinkTo, Good, NoList
<1>5. b + 1 \in Addr
  <2>1. Header(CutAt(b, n), blocks, b)
    BY <1>4 DEF List
  <2> QED BY <1>1, <2>1, CellsNat DEF Header
<1>6. CutAt(b, n) \in Memories /\ Resized(mem, CutAt(b, n), b, 2 + n, b + 2 + n)
  <2>1. Resizes(mem, CutAt(b, n), b, 2 + n, b + 2 + n) /\ 2 + n \in Nat
    BY <1>1 DEF CutAt, Resizes
  <2> QED BY <1>1, <1>5, <2>1, ResizeMade
<1>7. b + 2 + n <= Cells - 1
  BY <1>4, <1>6, BlockFacts
<1> QED BY <1>1, <1>2, <1>3, <1>4, <1>5, <1>6, <1>7

\* The merge of block x with the next one, y.
LEMMA NextMerged ==
  ASSUME NEW m \in Memories, Links(m), NEW x \in Addr, x + 1 \in Addr,
         NEW y, y = m[x + 1].next, y # 0,
         NEW w, Resizes(m, w, x, m[x].size + m[y].size, m[y + 1].next)
  PROVE  /\ w \in Memories /\ Links(w) /\ Merges(m, w, x, y)
         /\ Resized(m, w, x, m[x].size + m[y].size, m[y + 1].next)
<1>1. y \in Addr /\ y + 1 \in Addr
  BY CellsNat DEF Links
<1>2. m[x].size \in Nat /\ m[y].size \in Nat /\ m[x].size + m[y].size \in Nat
  <2>1. m[x].size \in Nat
    BY CellType
  <2>2. m[y].size \in Nat
    BY <1>1, CellType
  <2> QED BY <2>1, <2>2
<1>3. m[y + 1].next \in Nat /\ m[y + 1].next \in 0..Cells
  BY <1>1, CellType DEF Links
<1>4. /\ w \in Memories /\ Links(w)
      /\ Resized(m, w, x, m[x].size + m[y].size, m[y + 1].next)
  BY <1>2, <1>3, ResizeMade
<1> QED BY <1>4 DEF Merges, Resized

LEMMA MergeNextMem ==
  ASSUME MergeNext, Types, Links(mem), NEW x, blk = x, x \in Addr, x + 1 \in Addr
  PROVE  \E y : /\ y = mem[x + 1].next /\ y # 0 /\ FreeIn(mem, y)
                /\ mem' \in Memories /\ Links(mem') /\ Merges(mem, mem', x, y)
                /\ Resized(mem, mem', x, mem[x].size + mem[y].size, mem[y + 1].next)
                /\ blocks' = blocks \ {y} /\ UNCHANGED <<todo, ret, live, corrupt>>
<1> DEFINE y == mem[x + 1].next
<1>1. y # 0 /\ FreeIn(mem, y)
  <2>1. y # 0 /\ mem[y].free /\ y \in Addr
    BY CellsNat DEF MergeNext, NextIsFree, IS_VALID, IS_FREE, Next_, Links
  <2>2. mem[y].free \in BOOLEAN
    BY <2>1, BlocksNat, CellType
  <2> QED BY <2>1, <2>2 DEF FreeIn
<1>2. Resizes(mem, mem', x, mem[x].size + mem[y].size, mem[y + 1].next)
  BY DEF MergeNext, WithNextMerged, Next_, Resizes
<1>3. mem \in Memories
  BY BlocksNat
<1>4. blocks' = blocks \ {y} /\ UNCHANGED <<todo, ret, live, corrupt>>
  BY DEF MergeNext, Next_
<1> HIDE DEF y
<1>5. y = mem[x + 1].next
  BY DEF y
<1>6. /\ mem' \in Memories /\ Links(mem') /\ Merges(mem, mem', x, y)
      /\ Resized(mem, mem', x, mem[x].size + mem[y].size, mem[y + 1].next)
  BY <1>1, <1>2, <1>3, <1>5, NextMerged
<1> QED BY <1>1, <1>4, <1>5, <1>6

LEMMA DefragTop ==
  ASSUME Types, NEW r \in Seq(Call), NEW b \in blocks, todo = Then(Do("defrag", b, 0, 0), r),
         (Calm \/ \E p \in Owned, n \in Asked : Moved(ret, p, n))
  PROVE  /\ Tail(todo) = r /\ blk = b /\ b \in Nat /\ b \in Addr /\ b + 1 \in Addr
         /\ List(mem, blocks) /\ mem \in Memories /\ live \in Lives
<1>1. b \in Nat /\ mem \in Memories /\ live \in Lives
  BY BlocksNat
<1>2. List(mem, blocks)
  BY DEF Calm, Moved, Good, NoList
<1>3. b \in Addr /\ b + 1 \in Addr
  BY <1>1, <1>2, BlockFacts
<1> QED BY <1>1, <1>2, <1>3, Top DEF Routines

LEMMA MergeInDefrag == ASSUME IInv, MergeNext, InDefrag PROVE IInv'
<1>1. Types /\ Links(mem) /\ Sound
  BY Which DEF MergeNext, At
<1>2. PICK r \in Seq(Call), b \in blocks :
         /\ todo = Then(Do("defrag", b, 0, 0), r)
         /\ \/ Calm /\ FreeTo(r)
            \/ \E p \in Owned, n \in Asked : Moved(ret, p, n) /\ r = ReallocEnd(p, n)
  BY DEF InDefrag
<1>3. /\ Tail(todo) = r /\ blk = b /\ b \in Nat /\ b \in Addr /\ b + 1 \in Addr
      /\ List(mem, blocks) /\ mem \in Memories /\ live \in Lives
  BY <1>1, <1>2, DefragTop
<1>4. PICK y : /\ y = mem[b + 1].next /\ y # 0 /\ FreeIn(mem, y)
               /\ mem' \in Memories /\ Links(mem') /\ Merges(mem, mem', b, y)
               /\ Resized(mem, mem', b, mem[b].size + mem[y].size, mem[y + 1].next)
               /\ blocks' = blocks \ {y} /\ UNCHANGED <<todo, ret, live, corrupt>>
  BY <1>1, <1>3, MergeNextMem
<1>5. Types'
  BY <1>1, <1>4 DEF Types, Memories
<1>6. /\ y # b /\ b \in blocks' /\ y \in blocks
      /\ \A c \in blocks \ {b} : mem'[c] = mem[c] /\ mem'[c + 1] = mem[c + 1]
  <2>1. /\ mem \in Memories /\ List(mem, blocks) /\ b \in blocks /\ mem' \in Memories
        /\ Merges(mem, mem', b, y)
    BY <1>3, <1>4
  <2>2. Merged(mem, mem', blocks, b, y)
    BY <2>1, MergeList
  <2> QED BY <1>4, <2>2 DEF Merged
<1>7. InDefrag'
  <2>1. CASE Calm /\ FreeTo(r)
    <3>1. Good(mem', blocks \ {y}, live, {}, {}, {})
      <4>1. /\ mem \in Memories /\ live \in Lives /\ Good(mem, blocks, live, {}, {}, {})
            /\ {} \subseteq {} /\ b \in blocks /\ mem' \in Memories /\ Merges(mem, mem', b, y)
            /\ FreeIn(mem, y)
        BY <1>3, <1>4, <2>1 DEF Calm
      <4> QED BY ONLY <4>1, GoodMerge
    <3>2. Calm' /\ FreeTo(r)'
      BY <1>4, <2>1, <3>1 DEF Calm, FreeTo
    <3> QED BY <1>2, <1>4, <1>6, <3>2 DEF InDefrag
  <2>2. CASE \E p \in Owned, n \in Asked : Moved(ret, p, n) /\ r = ReallocEnd(p, n)
    <3>1. PICK p \in Owned, n \in Asked : Moved(ret, p, n) /\ r = ReallocEnd(p, n)
      BY <2>2
    <3>2. /\ Good(mem, blocks, live, {ret}, {p}, {p}) /\ Ready(mem, live, ret, p, n)
          /\ ret \in blocks /\ p \in Addr /\ n \in Nat
      BY <1>1, <3>1, BlocksNat, PtrNat DEF Moved, Good, InUse
    <3>3. Good(mem', blocks \ {y}, live, {ret}, {p}, {p})
      <4>1. /\ mem \in Memories /\ live \in Lives /\ Good(mem, blocks, live, {ret}, {p}, {p})
            /\ {p} \subseteq {p} /\ b \in blocks /\ mem' \in Memories /\ Merges(mem, mem', b, y)
            /\ FreeIn(mem, y)
        BY <1>3, <1>4, <3>2
      <4> QED BY ONLY <4>1, GoodMerge
    <3>4. /\ ret \in Nat /\ ret \in Addr /\ mem[ret].size \in Nat
          /\ ret + mem[ret].size <= Cells + 1
          /\ ret = b \/ ret + mem[ret].size <= b \/ b + mem[b].size <= ret
          /\ mem[b].size \in Nat /\ mem[b].size >= 2
      <4>1. /\ ret \in Nat /\ ret \in Addr /\ mem[ret].size \in Nat
            /\ ret + mem[ret].size <= Cells + 1
        BY <1>3, <3>2, BlockFacts
      <4>2. mem[b].size \in Nat /\ mem[b].size >= 2
        BY <1>3, BlockFacts
      <4> QED BY <1>3, <3>2, <4>1, <4>2, BlocksDiffer
    <3>5. mem[ret].size >= 2 + n
      BY <3>2 DEF Ready
    <3>6. mem'[ret].size >= 2 + n
      <4>1. CASE ret = b
        <5>1. mem'[b].size = mem[b].size + mem[y].size
          BY <1>4 DEF Resized
        <5>2. y \in blocks
          BY <1>6
        <5>3. mem[y].size \in Nat
          BY <1>3, <5>2, BlockFacts
        <5> QED BY <3>2, <3>4, <3>5, <4>1, <5>1, <5>3
      <4>2. CASE ret # b
        <5>1. mem'[ret] = mem[ret]
          BY <1>6, <3>2, <4>2
        <5> QED BY <3>5, <5>1
      <4> QED BY <4>1, <4>2
    <3>7. ASSUME NEW i \in Nat, i < n PROVE mem'[ret + 2 + i] = mem[ret + 2 + i]
      <4> DEFINE a == ret + 2 + i
      <4>1. a \in Nat /\ a >= ret + 2 /\ a < ret + mem[ret].size
        BY <3>2, <3>4, <3>5, <3>7
      <4> HIDE DEF a
      <4>2. a \in Addr /\ a \notin {b, b + 1}
        <5>1. PICK k \in Nat, l \in Nat : k = mem[ret].size /\ l = mem[b].size
          BY <3>4
        <5>2. a \in Addr
          BY <3>4, <4>1, <5>1, CellsNat
        <5>3. a # b /\ a # b + 1
          <6>1. /\ a \in Nat /\ ret \in Nat /\ b \in Nat /\ k \in Nat /\ l \in Nat /\ l >= 2
                /\ a >= ret + 2 /\ a < ret + k
                /\ ret = b \/ ret + k <= b \/ b + l <= ret
            BY <1>3, <3>4, <4>1, <5>1
          <6> QED BY ONLY <6>1
        <5> QED BY <5>2, <5>3
      <4>3. mem'[a] = mem[a]
        BY <1>4, <4>2 DEF Resized
      <4> QED BY <4>3 DEF a
    <3>8. Ready(mem', live, ret, p, n)
      BY <1>3, <3>2, <3>4, <3>6, <3>7, ReadySame
    <3>9. /\ p \in Owned' /\ n \in Asked /\ Good(mem', blocks', live', {ret'}, {p}, {p})
          /\ Ready(mem', live', ret', p, n) /\ todo' = Then(Do("defrag", b, 0, 0), ReallocEnd(p, n))
          /\ r = ReallocEnd(p, n)
      BY <1>2, <1>4, <3>1, <3>3, <3>8 DEF Owned
    <3> QED BY <1>6, <3>9 DEF InDefrag, Moved
  <2> QED BY <1>2, <2>1, <2>2
<1> QED BY <1>4, <1>5, <1>7 DEF IInv, States

LEMMA MergeInSplit == ASSUME IInv, MergeNext, InSplit PROVE IInv'
<1>1. Types /\ Links(mem) /\ Sound
  BY Which DEF MergeNext, At
<1>2. PICK s \in Seq(Call), p \in Ptr, n \in Asked, b \in blocks :
         /\ todo = Then(Do("defrag", b + 2 + n, 0, 0), Then(Do("cut", b, n, b + 2 + n), s))
         /\ InCut(s, p, n, b)
  BY DEF InSplit
<1> DEFINE x == b + 2 + n
           m == CutAt(b, n)
           w == CutIn(mem', b, n)
<1>3. /\ blk = x /\ x \in blocks /\ b \in Nat /\ n \in Nat /\ b \in Addr /\ b + 1 \in Addr
      /\ x \in Nat /\ x <= Cells - 1 /\ n > 0 /\ x = b + 2 + n
      /\ m \in Memories /\ Resized(mem, m, b, 2 + n, x) /\ List(m, blocks)
  BY <1>1, <1>2, SplitTop
<1>4. w = CutAt(b, n)'
  BY DEF CutAt, CutIn
<1>5. Resizes(mem', w, b, 2 + n, x) /\ 2 + n \in Nat
  BY <1>3 DEF CutIn, Resizes
<1>6. ShrinkTo(s, m, b, p, n) /\ mem[b].size <= Cells /\ mem \in Memories /\ live \in Lives
  BY <1>1, <1>2, BlocksNat DEF InCut
<1> HIDE DEF x, m, w
<1>7. x \in Addr /\ x + 1 \in Addr /\ Cells \in Nat
  BY <1>3, CellsNat
<1>8. PICK y : /\ y = mem[x + 1].next /\ y # 0 /\ FreeIn(mem, y)
               /\ mem' \in Memories /\ Links(mem') /\ Merges(mem, mem', x, y)
               /\ Resized(mem, mem', x, mem[x].size + mem[y].size, mem[y + 1].next)
               /\ blocks' = blocks \ {y} /\ UNCHANGED <<todo, ret, live, corrupt>>
  BY <1>1, <1>3, <1>7, MergeNextMem
<1>9. w \in Memories /\ Resized(mem', w, b, 2 + n, x)
  BY <1>3, <1>5, <1>8, ResizeMade
<1>10. x \notin {b, b + 1} /\ x + 1 \notin {b, b + 1}
  BY <1>3
<1>11. m[x] = mem[x] /\ m[x + 1] = mem[x + 1]
  BY <1>3, <1>7, <1>10 DEF Resized
<1>12. y \in blocks /\ y \in Nat /\ y \in Addr /\ y + 1 \in Addr /\ y > x
  <2>1. y \in blocks /\ y = x + m[x].size /\ m[x].size \in Nat /\ m[x].size >= 2
    <3>1. /\ m[x].size \in Nat /\ m[x].size >= 2
          /\ m[x + 1].next # 0 => m[x + 1].next \in blocks /\ x + m[x].size = m[x + 1].next
      BY <1>3, BlockFacts
    <3> QED BY <1>8, <1>11, <3>1
  <2>2. y \in Nat /\ y \in Addr /\ y + 1 \in Addr
    BY <1>3, <2>1, BlockFacts
  <2> QED BY <1>3, <2>1, <2>2
<1>13. y \notin {b, b + 1} /\ y + 1 \notin {b, b + 1}
  BY <1>3, <1>12
<1>14. m[y] = mem[y] /\ m[y + 1] = mem[y + 1]
  BY <1>3, <1>12, <1>13 DEF Resized
<1>15. mem'[b] = mem[b] /\ mem'[b + 1] = mem[b + 1]
  <2>1. b \notin {x, x + 1} /\ b + 1 \notin {x, x + 1}
    BY <1>3
  <2> QED BY <1>3, <1>8, <2>1 DEF Resized
<1>16. w[b] = m[b] /\ w[b + 1] = m[b + 1]
  BY <1>3, <1>9, <1>15 DEF Resized
<1>17. w[x] = mem'[x] /\ w[x + 1] = mem'[x + 1]
  BY <1>7, <1>9, <1>10 DEF Resized
<1>18. \A a \in Addr \ {x, x + 1} : w[a] = m[a]
  <2> SUFFICES ASSUME NEW a \in Addr \ {x, x + 1} PROVE w[a] = m[a]
    OBVIOUS
  <2>1. mem'[a] = mem[a]
    BY <1>8 DEF Resized
  <2>2. CASE a \in {b, b + 1}
    BY <1>16, <2>2
  <2>3. CASE a \notin {b, b + 1}
    BY <1>3, <1>9, <2>1, <2>3 DEF Resized
  <2> QED BY <2>2, <2>3
<1>19. Merges(m, w, x, y) /\ FreeIn(m, y)
  BY <1>8, <1>11, <1>14, <1>17, <1>18 DEF Merges, FreeIn
<1>20. b \in blocks' /\ x \in blocks' /\ mem'[b].size <= Cells
  BY <1>3, <1>6, <1>8, <1>12, <1>13, <1>15
<1>21. n > 0 /\ w[b].size >= 2 + n /\ n \in Asked
  BY <1>3, <1>5, <1>9 DEF Resized
<1>22. ShrinkTo(s, CutAt(b, n), b, p, n)'
  <2>1. CASE /\ Good(m, blocks, live, {b}, {}, {})
             /\ \E r \in Seq(Call) : s = Then(DataOf, r) /\ MallocTo(r, p, n)
    <3>1. Good(w, blocks \ {y}, live, {b}, {}, {})
      <4>1. /\ m \in Memories /\ live \in Lives /\ Good(m, blocks, live, {b}, {}, {})
            /\ {} \subseteq {} /\ x \in blocks /\ w \in Memories /\ Merges(m, w, x, y)
            /\ FreeIn(m, y)
        BY <1>3, <1>6, <1>9, <1>19, <2>1
      <4> QED BY ONLY <4>1, GoodMerge
    <3>2. \A r : MallocTo(r, p, n) => MallocTo(r, p, n)'
      BY <1>8, SameRest
    <3> QED BY <1>4, <1>8, <1>20, <1>21, <2>1, <3>1, <3>2 DEF ShrinkTo
  <2>2. CASE /\ p \in Owned /\ b = p - 2 /\ Good(m, blocks, live, {}, {}, {p})
             /\ Ready(m, live, b, p, n) /\ s = ReallocEnd(p, n)
    <3>1. Good(w, blocks \ {y}, live, {}, {}, {p})
      <4>1. /\ m \in Memories /\ live \in Lives /\ Good(m, blocks, live, {}, {}, {p})
            /\ {} \subseteq {p} /\ x \in blocks /\ w \in Memories /\ Merges(m, w, x, y)
            /\ FreeIn(m, y)
        BY <1>3, <1>6, <1>9, <1>19, <2>2
      <4> QED BY ONLY <4>1, GoodMerge
    <3>2. ASSUME NEW i \in Nat, i < n PROVE w[b + 2 + i] = m[b + 2 + i]
      <4> DEFINE a == b + 2 + i
      <4>1. a \in Nat /\ a >= b + 2 /\ a < x
        BY <1>3, <3>2
      <4> HIDE DEF a
      <4>2. a \in Addr /\ a \notin {x, x + 1}
        BY <1>3, <1>7, <4>1
      <4> QED BY <1>18, <4>2 DEF a
    <3>3. p \in Addr /\ p \in Owned'
      BY <1>8, <2>2, SameRest DEF Owned
    <3>4. Ready(w, live, b, p, n)
      BY <1>3, <1>6, <1>21, <2>2, <3>2, <3>3, ReadySame
    <3> QED BY <1>4, <1>8, <1>20, <1>21, <2>2, <3>1, <3>3, <3>4 DEF ShrinkTo
  <2> QED BY <1>6, <2>1, <2>2 DEF ShrinkTo
<1>23. InSplit'
  <2>1. InCut(s, p, n, b)'
    BY <1>20, <1>22 DEF InCut, x
  <2> QED BY <1>2, <1>8, <1>20, <2>1 DEF InSplit
<1>24. Types'
  BY <1>1, <1>8 DEF Types, Memories
<1> QED BY <1>8, <1>23, <1>24 DEF IInv, States

LEMMA StepMergeNext == ASSUME IInv, MergeNext PROVE IInv'
  BY Which, MergeInDefrag, MergeInSplit DEF MergeNext, At

\* Whichever block is being merged, its header is two cells of the region.
LEMMA DefragBlock ==
  ASSUME Types, InSplit \/ InDefrag
  PROVE  blk \in Addr /\ blk + 1 \in Addr
<1>1. ASSUME NEW s \in Seq(Call), NEW p \in Ptr, NEW n \in Asked, NEW b \in blocks,
             todo = Then(Do("defrag", b + 2 + n, 0, 0), Then(Do("cut", b, n, b + 2 + n), s)),
             InCut(s, p, n, b)
      PROVE  blk \in Addr /\ blk + 1 \in Addr
  <2>1. blk = b + 2 + n /\ b + 2 + n <= Cells - 1 /\ b \in Nat /\ n \in Nat
    BY <1>1, SplitTop
  <2> QED BY <2>1, CellsNat
<1>2. InSplit => blk \in Addr /\ blk + 1 \in Addr
  BY <1>1 DEF InSplit
<1>3. InDefrag => blk \in Addr /\ blk + 1 \in Addr
  BY DefragTop DEF InDefrag
<1> QED BY <1>2, <1>3

\* The merge with the block before corrupts the heap, and ends what is followed.
LEMMA StepMergePrev == ASSUME IInv, MergePrev PROVE IInv'
<1>1. Types /\ Links(mem) /\ blk \in Addr /\ blk + 1 \in Addr /\ mem \in Memories
  BY Which, DefragBlock, BlocksNat DEF MergePrev, At
<1> DEFINE b == blk
           v == Prev(b)
           k == mem[b].size + mem[v].size
           z == Prev(v)
<1>2. v \in Addr /\ v + 1 \in Addr
  <2>1. v # 0 /\ v \in 0..Cells
    BY <1>1 DEF MergePrev, PrevIsFree, IS_VALID, Prev, Links
  <2> QED BY <2>1, CellsNat
<1>3. k \in Nat /\ z \in Nat
  <2>1. mem[b].size \in Nat
    BY <1>1, CellType
  <2>2. mem[v].size \in Nat /\ mem[v + 1].prev \in Nat
    BY <1>1, <1>2, CellType
  <2> QED BY <2>1, <2>2 DEF Prev
<1>4. mem' = [mem EXCEPT ![b].size = k, ![b + 1].prev = z] /\ corrupt' = TRUE
      /\ UNCHANGED <<todo, ret, live, blocks>>
  BY DEF MergePrev
<1> HIDE DEF k, z, v
<1>5. mem' \in Memories
  <2> DEFINE h == [mem[b] EXCEPT !.size = k]
             g == [mem[b + 1] EXCEPT !.prev = z]
  <2>1. h \in Cell /\ g \in Cell
    <3>1. mem[b] \in Cell /\ mem[b + 1] \in Cell
      BY <1>1, CellType
    <3> QED BY <1>3, <3>1 DEF Cell
  <2>2. b # b + 1
    BY <1>1, CellsNat
  <2>3. mem' = [mem EXCEPT ![b] = h, ![b + 1] = g]
    BY <1>4, <2>2
  <2> HIDE DEF h, g
  <2> QED BY <1>1, <2>1, <2>3 DEF Memories
<1>6. Types'
  BY <1>1, <1>4, <1>5 DEF Types, Memories
<1> QED BY <1>4, <1>6 DEF IInv, Sound

LEMMA StepDefragEnd == ASSUME IInv, DefragEnd PROVE IInv'
<1>1. Types /\ Links(mem) /\ (InSplit \/ InDefrag) /\ Sound
  BY Which DEF DefragEnd, At
<1>2. UNCHANGED <<mem, ret, live, blocks, corrupt>> /\ Continue(<< >>)
  BY DEF DefragEnd
<1>3. ASSUME InSplit PROVE todo' \in Seq(Call) /\ AtCut'
  <2>1. PICK s \in Seq(Call), p \in Ptr, n \in Asked, b \in blocks :
           /\ todo = Then(Do("defrag", b + 2 + n, 0, 0), Then(Do("cut", b, n, b + 2 + n), s))
           /\ InCut(s, p, n, b)
    BY <1>3 DEF InSplit
  <2>2. Tail(todo) = Then(Do("cut", b, n, b + 2 + n), s) /\ Tail(todo) \in Seq(Call)
    BY <1>1, <2>1, SplitTop
  <2>3. todo' = Then(Do("cut", b, n, b + 2 + n), s) /\ todo' \in Seq(Call)
    BY <1>2, <2>2, Returned
  <2>4. InCut(s, p, n, b)'
    <3>1. \A r : MallocTo(r, p, n) => MallocTo(r, p, n)'
      BY <1>2, SameRest
    <3> QED BY <1>2, <2>1, <3>1 DEF InCut, ShrinkTo, CutAt, Owned
  <2> QED BY <1>2, <2>3, <2>4 DEF AtCut
<1>4. ASSUME InDefrag PROVE todo' \in Seq(Call) /\ (InClient' \/ AtDone' \/ AtData')
  <2>1. PICK r \in Seq(Call), b \in blocks :
           /\ todo = Then(Do("defrag", b, 0, 0), r)
           /\ \/ Calm /\ FreeTo(r)
              \/ \E p \in Owned, n \in Asked : Moved(ret, p, n) /\ r = ReallocEnd(p, n)
    BY <1>4 DEF InDefrag
  <2>2. Tail(todo) = r
    BY <1>1, <2>1, DefragTop
  <2>3. todo' = r /\ todo' \in Seq(Call)
    BY <1>2, <2>2, Returned
  <2>4. CASE Calm /\ r = << >>
    BY <1>2, <2>3, <2>4 DEF InClient, Calm
  <2>5. CASE Calm /\ ret = 0 /\ \E p \in Ptr, n \in Asked : r = DoneWith(p, n)
    BY <1>2, <2>3, <2>5 DEF AtDone, Calm
  <2>6. CASE \E p \in Owned, n \in Asked : Moved(ret, p, n) /\ r = ReallocEnd(p, n)
    <3>1. PICK p \in Owned, n \in Asked : Moved(ret, p, n) /\ r = ReallocEnd(p, n)
      BY <2>6
    <3>2. p \in Ptr /\ Moved(ret, p, n)'
      BY <1>1, <1>2, <3>1, BlocksNat DEF Moved, Owned
    <3>3. todo' = ReallocEnd(p, n)
      BY <2>3, <3>1
    <3> QED BY <2>3, <3>2, <3>3 DEF AtData, Moved
  <2>7. CASE Calm /\ FreeTo(r)
    <3>1. r = << >> \/ (ret = 0 /\ \E p \in Ptr, n \in Asked : r = DoneWith(p, n))
      BY <2>7 DEF FreeTo
    <3> QED BY <2>3, <2>4, <2>5, <2>7, <3>1
  <2> QED BY <2>1, <2>3, <2>6, <2>7
<1>5. Types'
  BY <1>1, <1>2, <1>3, <1>4 DEF Types
<1> QED BY <1>1, <1>2, <1>3, <1>4, <1>5 DEF IInv, States

-----------------------------------------------------------------------------
(***************************************************************************)
(* free keeps the invariant.                                               *)
(***************************************************************************)
Releasing(r, a) ==
    \/ a = 0 /\ r = << >> /\ Calm
    \/ \E b \in blocks : a = b + 2 /\ Fresh(b) /\ FreeTo(r)
    \/ a \in Owned /\ Fresh(ret) /\ \E n \in Asked : r = ReallocEnd(a, n)
       /\ Ready(mem, live, ret, a, n)

\* A pointer that is passed to free is Null, or that of a block in use.
LEMMA FreeTop ==
  ASSUME Types, NEW r \in Seq(Call), NEW a \in Ptr, todo = Then(Do("free", a, 0, 0), r),
         Releasing(r, a)
  PROVE  /\ Tail(todo) = r /\ blk = a
         /\ a # 0 => /\ CanFree /\ a - 2 \in blocks /\ (a - 2) + 2 = a /\ a - 2 \in Addr
                     /\ mem \in Memories /\ live \in Lives
         /\ a = 0 => ~ CanFree /\ r = << >> /\ Calm
<1>1. a \in Nat /\ mem \in Memories /\ live \in Lives /\ blocks \subseteq Addr
      /\ blocks \subseteq Nat
  BY PtrNat, BlocksNat
<1>2. Tail(todo) = r /\ blk = a
  BY <1>1, Top DEF Routines
<1>3. ASSUME a # 0
      PROVE  /\ a - 2 \in blocks /\ (a - 2) + 2 = a /\ mem[a - 2].sign = TRUE
                /\ mem[a - 2].free = FALSE
             /\ a - 2 # 0
  <2>1. CASE \E b \in blocks : a = b + 2 /\ Fresh(b) /\ FreeTo(r)
    <3>1. PICK b \in blocks : a = b + 2 /\ Fresh(b)
      BY <2>1
    <3>2. a - 2 = b /\ b # 0
      BY <1>1, <3>1, BlocksNat
    <3>3. List(mem, blocks) /\ InUse(mem, blocks, live, {b}, {})
      BY <3>1 DEF Fresh, Good, NoList
    <3>4. mem[b].sign = TRUE /\ mem[b].free = FALSE
      BY <3>3 DEF List, Header, InUse
    <3> QED BY <3>1, <3>2, <3>4
  <2>2. CASE a \in Owned /\ Fresh(ret)
    <3>1. /\ a - 2 \in blocks /\ (a - 2) + 2 = a /\ mem[a - 2].free = FALSE
          /\ mem[a - 2].sign = TRUE
      BY <2>2, OwnerBlock DEF Fresh
    <3> QED BY <3>1, BlocksNat
  <2> QED BY <1>3, <2>1, <2>2 DEF Releasing
<1>4. a # 0 => CanFree
  BY <1>2, <1>3 DEF CanFree, IS_VALID, IS_FREE
<1>5. a = 0 => ~ CanFree /\ r = << >> /\ Calm
  <2>1. ASSUME a = 0, NEW b \in blocks PROVE a # b + 2
    BY <1>1, <2>1
  <2>2. a = 0 => a \notin Owned
    BY BlocksNat
  <2> QED BY <1>2, <2>1, <2>2 DEF CanFree, Releasing
<1> QED BY <1>1, <1>2, <1>3, <1>4, <1>5

LEMMA FreeState ==
  ASSUME InFree
  PROVE  \E r \in Seq(Call), a \in Ptr : todo = Then(Do("free", a, 0, 0), r) /\ Releasing(r, a)
  BY DEF InFree, Releasing

LEMMA StepFreeNothing == ASSUME IInv, FreeNothing PROVE IInv'
<1>1. Types /\ Links(mem) /\ InFree /\ Sound
  BY Which DEF FreeNothing, At
<1>2. PICK r \in Seq(Call), a \in Ptr : todo = Then(Do("free", a, 0, 0), r) /\ Releasing(r, a)
  BY <1>1, FreeState
<1>3. Tail(todo) = r /\ r = << >> /\ Calm
  BY <1>1, <1>2, FreeTop DEF FreeNothing
<1>4. todo' = << >> /\ UNCHANGED <<mem, ret, live, blocks, corrupt>>
  BY <1>3, Returned DEF FreeNothing
<1>5. Types' /\ InClient'
  BY <1>1, <1>3, <1>4 DEF Types, InClient, Calm
<1> QED BY <1>1, <1>4, <1>5 DEF IInv, States

LEMMA StepFreeBlock == ASSUME IInv, FreeBlock PROVE IInv'
<1>1. Types /\ Links(mem) /\ InFree /\ Sound
  BY Which DEF FreeBlock, At
<1>2. PICK r \in Seq(Call), a \in Ptr : todo = Then(Do("free", a, 0, 0), r) /\ Releasing(r, a)
  BY <1>1, FreeState
<1> DEFINE b == a - 2
<1>3. /\ Tail(todo) = r /\ blk = a /\ a # 0
      /\ b \in blocks /\ b + 2 = a /\ b \in Addr /\ b \in Nat
      /\ mem \in Memories /\ live \in Lives
  <2>1. Tail(todo) = r /\ blk = a /\ a # 0
    BY <1>1, <1>2, FreeTop DEF FreeBlock
  <2>2. /\ a - 2 \in blocks /\ (a - 2) + 2 = a /\ a - 2 \in Addr
        /\ mem \in Memories /\ live \in Lives
    BY <1>1, <1>2, <2>1, FreeTop
  <2> QED BY <1>1, <2>1, <2>2, BlocksNat
<1>4. /\ Frees(mem, mem', b) /\ UNCHANGED <<ret, live, blocks, corrupt>>
      /\ Continue(<<Do("defrag", b, 0, 0)>>)
  BY <1>3 DEF FreeBlock, Frees
<1> HIDE DEF b
<1>5. mem' \in Memories /\ Links(mem') /\ SameBut(mem, mem', b)
  BY <1>1, <1>3, <1>4, FreeSet
<1>6. todo' = Then(Do("defrag", b, 0, 0), r) /\ todo' \in Seq(Call)
  <2>1. Do("defrag", b, 0, 0) \in Call
    BY <1>3, CallType DEF Routines
  <2> QED BY <1>3, <1>4, <2>1, Continued
<1>7. Types'
  BY <1>1, <1>4, <1>5, <1>6 DEF Types, Memories
<1>8. InDefrag'
  <2>1. CASE \E c \in blocks : a = c + 2 /\ Fresh(c) /\ FreeTo(r)
    <3>1. Good(mem, blocks, live, {b}, {}, {}) /\ FreeTo(r)
      <4>1. PICK c \in blocks : a = c + 2 /\ Fresh(c) /\ FreeTo(r)
        BY <2>1
      <4>2. c = b
        BY <1>1, <1>3, <4>1, BlocksNat
      <4> QED BY <4>1, <4>2 DEF Fresh
    <3>2. Good(mem', blocks, live, {}, {}, {})
      BY <1>3, <1>4, <3>1, GoodFree
    <3>3. Calm' /\ FreeTo(r)'
      BY <1>4, <3>1, <3>2 DEF Calm, FreeTo
    <3> QED BY <1>3, <1>4, <1>6, <3>3 DEF InDefrag
  <2>2. CASE a \in Owned /\ Fresh(ret) /\ \E n \in Asked : r = ReallocEnd(a, n)
             /\ Ready(mem, live, ret, a, n)
    <3>1. PICK n \in Asked : r = ReallocEnd(a, n) /\ Ready(mem, live, ret, a, n)
      BY <2>2
    <3>2. Good(mem, blocks, live, {ret}, {}, {}) /\ b + 2 \in Owners(live) /\ a \in Addr
      BY <1>3, <2>2, OwnedIs, BlocksNat, <1>1 DEF Fresh
    <3>3. Good(mem', blocks, live, {ret}, {a}, {a})
      BY <1>3, <1>4, <3>2, GoodFree
    <3>4. ret \in blocks /\ List(mem, blocks)
      BY <3>2 DEF Good, InUse, NoList
    <3>5. /\ ret \in Nat /\ ret \in Addr /\ n \in Nat /\ mem[ret].size \in Nat
          /\ ret + mem[ret].size <= Cells + 1 /\ mem[ret].size >= 2 + n
             /\ mem'[ret].size = mem[ret].size
      <4>1. /\ ret \in Nat /\ ret \in Addr /\ mem[ret].size \in Nat
            /\ ret + mem[ret].size <= Cells + 1
        BY <1>3, <3>4, BlockFacts
      <4>2. mem[ret].size >= 2 + n /\ n \in Nat
        BY <3>1, PtrNat DEF Ready
      <4> QED BY <1>5, <4>1, <4>2 DEF SameBut
    <3>6. ASSUME NEW i \in Nat, i < n PROVE mem'[ret + 2 + i].tag = mem[ret + 2 + i].tag
      <4>1. ret + 2 + i \in Addr
        <5>1. PICK k \in Nat : k = mem[ret].size
          BY <3>5
        <5>2. /\ ret \in Nat /\ ret \in Addr /\ n \in Nat /\ i \in Nat /\ i < n
              /\ ret + k <= Cells + 1 /\ k >= 2 + n /\ Cells \in Nat
          BY <3>5, <3>6, <5>1, CellsNat
        <5> QED BY ONLY <5>2, k \in Nat
      <4> QED BY <1>5, <4>1 DEF SameBut
    <3>7. mem'[ret].size >= 2 + n
      BY <3>5
    <3>8. Ready(mem', live, ret, a, n)
      BY <1>3, <3>1, <3>2, <3>5, <3>6, <3>7, ReadySame
    <3>9. Moved(ret, a, n)' /\ a \in Owned'
      BY <1>4, <2>2, <3>3, <3>8 DEF Moved, Owned
    <3> QED BY <1>3, <1>4, <1>6, <3>1, <3>9 DEF InDefrag, Moved
  <2> QED BY <1>2, <1>3, <2>1, <2>2 DEF Releasing
<1> QED BY <1>5, <1>7, <1>8 DEF IInv, States

-----------------------------------------------------------------------------
(***************************************************************************)
(* realloc and expand_block keep the invariant.                            *)
(***************************************************************************)
\* An owner's block as realloc finds it.
LEMMA Calmly ==
  ASSUME Types, Calm, NEW p \in Owned
  PROVE  /\ p \in Nat /\ p \in Addr /\ p \in Ptr /\ p # 0 /\ p - 2 \in blocks /\ p - 2 \in Nat
         /\ (p - 2) + 2 = p /\ p - 2 \in Addr /\ p - 1 \in Addr /\ (p - 2) + 1 = p - 1
         /\ mem[p - 2].size \in Nat /\ (p - 2) + mem[p - 2].size <= Cells + 1
         /\ mem[p - 2].size >= 2 + live[p].size /\ live[p].kept \in Nat
         /\ live[p].kept <= live[p].size /\ live[p].size \in Nat
         /\ Whole(mem, live, p) /\ List(mem, blocks) /\ p \in Owners(live)
<1>1. Good(mem, blocks, live, {}, {}, {})
  BY DEF Calm
<1>2. /\ p - 2 \in blocks /\ p - 2 \in Nat /\ (p - 2) + 2 = p /\ List(mem, blocks)
      /\ p \in Owners(live) /\ p \in Nat /\ p \in Addr /\ p \in Ptr /\ p # 0
  BY <1>1, OwnerBlock, BlocksNat
<1>3. mem \in Memories /\ live \in Lives
  BY BlocksNat
<1>4. p - 2 \in Addr /\ (p - 2) + 1 \in Addr /\ mem[p - 2].size \in Nat
      /\ (p - 2) + mem[p - 2].size <= Cells + 1
  BY <1>2, <1>3, BlockFacts
<1>5. Whole(mem, live, p)
  BY <1>1, <1>2 DEF Good
<1>6. live[p].kept \in Nat /\ live[p].kept <= live[p].size /\ live[p].size \in Nat
  BY <1>1, <1>2, <1>3, LiveType DEF Good
<1>7. mem[p - 2].size >= 2 + live[p].size
  BY <1>5 DEF Whole
<1>8. (p - 2) + 1 = p - 1
  BY <1>2
<1> QED BY <1>2, <1>4, <1>5, <1>6, <1>7, <1>8

\* All that an owner's block holds is ready for a call that needs no more room.
LEMMA CalmReady ==
  ASSUME Types, Calm, NEW p \in Owned, NEW n \in Asked, n > 0, mem[p - 2].size >= 2 + n
  PROVE  Good(mem, blocks, live, {}, {}, {p}) /\ Ready(mem, live, p - 2, p, n)
<1>1. Whole(mem, live, p) /\ (p - 2) + 2 = p /\ p \in Nat
  BY Calmly
<1>2. Ready(mem, live, p - 2, p, n)
  BY <1>1 DEF Ready, Whole
<1> QED BY <1>2 DEF Calm, Good

LEMMA StepReallocBegins == ASSUME IInv, ReallocBegins PROVE IInv'
<1>1. Types /\ Links(mem) /\ InRealloc /\ Sound
  BY Which DEF ReallocBegins, At
<1>2. PICK p \in Ptr, n \in Asked :
         /\ todo = Then(Do("realloc", p, n, 0), DoneWith(p, n))
         /\ \/ Calm /\ ((p = 0 /\ FreeTags # {}) \/ (p \in Owned /\ n > 0))
            \/ n = 0 /\ \E b \in blocks : p = b + 2 /\ Fresh(b)
  BY <1>1 DEF InRealloc
<1>3. p \in Nat /\ n \in Nat /\ DoneWith(p, n) \in Seq(Call) /\ 0 \in Nat
  BY PtrNat, Ends
<1>4. Tail(todo) = DoneWith(p, n) /\ blk = p /\ size = n
  BY <1>2, <1>3, Top DEF Routines
<1>5. ret' = 0 /\ UNCHANGED <<mem, live, blocks, corrupt>>
  BY DEF ReallocBegins
<1>6. CASE p = 0 /\ FreeTags # {} /\ Calm
  <2>1. Continue(<<Do("malloc", 0, n, 0)>>)
    BY <1>4, <1>6 DEF ReallocBegins
  <2>2. Do("malloc", 0, n, 0) \in Call
    BY <1>3, CallType DEF Routines
  <2>3. todo' = Then(Do("malloc", 0, n, 0), DoneWith(p, n)) /\ todo' \in Seq(Call)
    BY <1>3, <1>4, <2>1, <2>2, Continued
  <2>4. MallocTo(DoneWith(0, n), 0, n)'
    BY <1>5, <1>6 DEF MallocTo, FreeTags, Owned
  <2>5. InMalloc'
    BY <1>3, <1>5, <1>6, <2>3, <2>4 DEF InMalloc, Calm
  <2>6. Types'
    BY <1>1, <1>5, <2>3 DEF Types
  <2> QED BY <1>1, <1>5, <2>5, <2>6 DEF IInv, States
<1>7. CASE n = 0 /\ \E b \in blocks : p = b + 2 /\ Fresh(b)
  <2>0. PICK b \in blocks : p = b + 2 /\ Fresh(b)
    BY <1>7
  <2>1. p # 0
    BY <1>1, <2>0, BlocksNat
  <2>2. Continue(<<Do("free", p, 0, 0)>>)
    BY <1>4, <1>7, <2>1 DEF ReallocBegins
  <2>3. Do("free", p, 0, 0) \in Call
    BY <1>3, CallType DEF Routines
  <2>4. todo' = Then(Do("free", p, 0, 0), DoneWith(p, n)) /\ todo' \in Seq(Call)
    BY <1>3, <1>4, <2>2, <2>3, Continued
  <2>5. FreeTo(DoneWith(p, n))'
    BY <1>5 DEF FreeTo
  <2>6. InFree'
    BY <1>3, <1>5, <2>0, <2>4, <2>5 DEF InFree, Fresh
  <2>7. Types'
    BY <1>1, <1>5, <2>4 DEF Types
  <2> QED BY <1>1, <1>5, <2>6, <2>7 DEF IInv, States
<1>8. CASE p \in Owned /\ n > 0 /\ Calm
  <2>0. PICK o : o = mem[p - 2].size
    OBVIOUS
  <2> DEFINE at == IF o > n + 2 THEN "shrink" ELSE "expand"
  <2>1. /\ p # 0 /\ p - 2 \in Nat /\ p - 2 \in blocks /\ o \in Nat /\ (p - 2) + o <= Cells + 1
        /\ o >= 2 + live[p].size /\ live[p].kept \in Nat /\ live[p].kept <= live[p].size
        /\ live[p].size \in Nat /\ p \in Ptr /\ p - 2 >= 1 /\ p - 2 \in Addr
    BY <1>1, <1>8, <2>0, Calmly
  <2>2. Continue(<<Do(at, p - 2, n, o), DataOf>>)
    BY <1>4, <1>8, <2>0, <2>1 DEF ReallocBegins, DataOf
  <2>3. at \in Routines /\ DataOf \in Call
    BY CallType DEF Routines, DataOf
  <2>4. Do(at, p - 2, n, o) \in Call
    BY <1>3, <2>1, <2>3, CallType
  <2> HIDE DEF at
  <2>5. todo' = Then(Do(at, p - 2, n, o), ReallocEnd(p, n)) /\ todo' \in Seq(Call)
    BY <1>3, <1>4, <2>2, <2>3, <2>4, Continued DEF ReallocEnd
  <2>6. Types'
    BY <1>1, <1>5, <2>5 DEF Types
  <2>7. o \in 0..End /\ ReallocEnd(p, n) \in Seq(Call) /\ p \in Owned'
    BY <1>5, <1>8, <2>1, CellsNat, Ends DEF Owned
  <2>8. CASE o > n + 2
    <3>1. o >= 2 + n
      BY <1>3, <2>1, <2>8
    <3>2. Good(mem, blocks, live, {}, {}, {p}) /\ Ready(mem, live, p - 2, p, n)
      BY <1>1, <1>8, <2>0, <3>1, CalmReady
    <3>3. ShrinkTo(ReallocEnd(p, n), mem, p - 2, p, n)'
      BY <1>5, <1>8, <2>0, <2>1, <2>7, <3>1, <3>2 DEF ShrinkTo
    <3>4. todo' = Then(Do("shrink", p - 2, n, o), ReallocEnd(p, n)) /\ p - 2 \in blocks'
      BY <1>5, <2>1, <2>5, <2>8 DEF at
    <3>5. InShrink'
      BY <2>1, <2>7, <3>3, <3>4 DEF InShrink
    <3> QED BY <1>1, <1>5, <2>6, <3>5 DEF IInv, States
  <2>9. CASE ~ (o > n + 2)
    <3>1. todo' = Then(Do("expand", p - 2, n, o), ReallocEnd(p, n))
      BY <2>5, <2>9 DEF at
    <3>2. 2 + live[p].kept <= o
      <4>1. PICK k \in Nat, l \in Nat : k = live[p].kept /\ l = live[p].size
        BY <2>1
      <4> QED BY <2>1, <4>1
    <3>3. CopiesFrom(p, o)
      BY <2>1, <3>2 DEF CopiesFrom
    <3>4. CopiesFrom(p, o)'
      BY <1>5, <3>3, SameRest
    <3>5. Calm'
      BY <1>5, <1>8 DEF Calm
    <3>6. InExpand'
      <4>1. p \in Owned' /\ n \in Asked /\ o \in 0..End /\ n > 0
        BY <1>8, <2>7
      <4> QED BY <3>1, <3>4, <3>5, <4>1 DEF InExpand
    <3> QED BY <1>1, <1>5, <2>6, <3>6 DEF IInv, States
  <2> QED BY <2>8, <2>9
<1> QED BY <1>2, <1>6, <1>7, <1>8

\* The state of expand_block.
LEMMA ExpandTop ==
  ASSUME Types, NEW p \in Owned, NEW n \in Asked, NEW o \in 0..End, Calm,
         todo = Then(Do("expand", p - 2, n, o), ReallocEnd(p, n))
  PROVE  /\ Tail(todo) = ReallocEnd(p, n) /\ ReallocEnd(p, n) \in Seq(Call)
         /\ blk = p - 2 /\ size = n /\ aux = o
         /\ n \in Nat /\ o \in Nat /\ p \in Ptr /\ p - 2 \in Nat /\ p - 2 \in blocks
         /\ p - 2 \in Addr /\ (p - 2) + 1 \in Addr
         /\ List(mem, blocks) /\ mem \in Memories /\ live \in Lives
<1>1. /\ p \in Ptr /\ p - 2 \in Nat /\ p - 2 \in blocks /\ p - 2 \in Addr
      /\ (p - 2) + 1 \in Addr /\ List(mem, blocks)
  BY Calmly
<1>2. n \in Nat /\ o \in Nat /\ ReallocEnd(p, n) \in Seq(Call)
  BY <1>1, PtrNat, CellsNat, Ends
<1> QED BY <1>1, <1>2, Top, BlocksNat DEF Routines

ExpandState(p, n, o) ==
    /\ todo = Then(Do("expand", p - 2, n, o), ReallocEnd(p, n))
    /\ CopiesFrom(p, o) /\ n > 0 /\ Calm

LEMMA StepExpandAppends == ASSUME IInv, ExpandAppends PROVE IInv'
<1>1. Types /\ Links(mem) /\ InExpand /\ Sound
  BY Which DEF ExpandAppends, At
<1>2. PICK p \in Owned, n \in Asked, o \in 0..End : ExpandState(p, n, o)
  BY <1>1 DEF InExpand, ExpandState
<1> DEFINE b == p - 2
           y == mem[b + 1].next
<1>3. /\ blk = b /\ b \in Nat /\ b \in blocks /\ b \in Addr /\ b + 1 \in Addr
      /\ List(mem, blocks) /\ mem \in Memories /\ live \in Lives
  BY <1>1, <1>2, ExpandTop DEF ExpandState
<1>4. /\ Resizes(mem, mem', b, mem[b].size + mem[y].size, mem[y + 1].next)
      /\ blocks' = blocks \ {y} /\ UNCHANGED <<todo, ret, live, corrupt>>
  BY <1>3 DEF ExpandAppends, WithNextMerged, Next_, Resizes
<1>5. y # 0 /\ FreeIn(mem, y)
  <2>1. y # 0 /\ mem[y].free /\ y \in Addr
    BY <1>1, <1>3, CellsNat DEF ExpandAppends, CanAppend, IS_FREE, Next_, Links
  <2>2. mem[y].free \in BOOLEAN
    BY <1>3, <2>1, CellType
  <2> QED BY <2>1, <2>2 DEF FreeIn
<1> HIDE DEF b, y
<1>6. y = mem[b + 1].next
  BY DEF y
<1>7. mem' \in Memories /\ Links(mem') /\ Merges(mem, mem', b, y)
  BY <1>1, <1>3, <1>4, <1>5, <1>6, NextMerged
<1>8. Good(mem', blocks \ {y}, live, {}, {}, {})
  <2>1. /\ mem \in Memories /\ live \in Lives /\ Good(mem, blocks, live, {}, {}, {})
        /\ {} \subseteq {} /\ b \in blocks /\ mem' \in Memories /\ Merges(mem, mem', b, y)
        /\ FreeIn(mem, y)
    BY <1>2, <1>3, <1>5, <1>7 DEF ExpandState, Calm
  <2> QED BY ONLY <2>1, GoodMerge
<1>9. Types'
  BY <1>1, <1>4, <1>7 DEF Types, Memories
<1>10. InExpand'
  <2>1. CopiesFrom(p, o)' /\ p \in Owned'
    BY <1>2, <1>4, SameRest DEF ExpandState
  <2>2. Calm' /\ n > 0 /\ todo' = Then(Do("expand", p - 2, n, o), ReallocEnd(p, n))
    BY <1>2, <1>4, <1>8 DEF ExpandState, Calm
  <2> QED BY <2>1, <2>2 DEF InExpand
<1> QED BY <1>7, <1>9, <1>10 DEF IInv, States

LEMMA StepExpandFits == ASSUME IInv, ExpandFits PROVE IInv'
<1>1. Types /\ Links(mem) /\ InExpand /\ Sound
  BY Which DEF ExpandFits, At
<1>2. PICK p \in Owned, n \in Asked, o \in 0..End : ExpandState(p, n, o)
  BY <1>1 DEF InExpand, ExpandState
<1>3. /\ Tail(todo) = ReallocEnd(p, n) /\ ReallocEnd(p, n) \in Seq(Call)
      /\ blk = p - 2 /\ size = n /\ n \in Nat /\ p - 2 \in Nat /\ p - 2 \in blocks /\ p \in Ptr
  BY <1>1, <1>2, ExpandTop DEF ExpandState
<1>4. /\ mem[p - 2].size >= 2 + n /\ UNCHANGED <<mem, ret, live, blocks, corrupt>>
      /\ Continue(<<Do("shrink", p - 2, n, 0)>>)
  BY <1>3 DEF ExpandFits
<1>5. todo' = Then(Do("shrink", p - 2, n, 0), ReallocEnd(p, n)) /\ todo' \in Seq(Call)
  <2>1. Do("shrink", p - 2, n, 0) \in Call
    BY <1>3, CallType DEF Routines
  <2> QED BY <1>3, <1>4, <2>1, Continued
<1>6. Types'
  BY <1>1, <1>4, <1>5 DEF Types
<1>7. n > 0 /\ Good(mem, blocks, live, {}, {}, {p}) /\ Ready(mem, live, p - 2, p, n)
  BY <1>1, <1>2, <1>4, CalmReady DEF ExpandState
<1>8. ShrinkTo(ReallocEnd(p, n), mem, p - 2, p, n)'
  <2>1. p \in Owned'
    BY <1>4 DEF Owned
  <2> QED BY <1>3, <1>4, <1>7, <2>1 DEF ShrinkTo
<1>9. InShrink'
  <2>1. 0 \in 0..End
    BY CellsNat
  <2> QED BY <1>3, <1>4, <1>5, <1>8, <2>1 DEF InShrink
<1> QED BY <1>1, <1>4, <1>6, <1>9 DEF IInv, States

LEMMA StepExpandMoves == ASSUME IInv, ExpandMoves PROVE IInv'
<1>1. Types /\ Links(mem) /\ InExpand /\ Sound
  BY Which DEF ExpandMoves, At
<1>2. PICK p \in Owned, n \in Asked, o \in 0..End : ExpandState(p, n, o)
  BY <1>1 DEF InExpand, ExpandState
<1>3. /\ Tail(todo) = ReallocEnd(p, n) /\ ReallocEnd(p, n) \in Seq(Call)
      /\ blk = p - 2 /\ size = n /\ aux = o /\ n \in Nat /\ o \in Nat /\ p - 2 \in Nat /\ p \in Ptr
  BY <1>1, <1>2, ExpandTop DEF ExpandState
<1> DEFINE r == Then(Do("move", p - 2, n, o), ReallocEnd(p, n))
<1>4. /\ UNCHANGED <<mem, ret, live, blocks, corrupt>>
      /\ Continue(<<Do("malloc", 0, n, 0), Do("move", p - 2, n, o)>>)
  BY <1>3 DEF ExpandMoves
<1>5. /\ todo' = Then(Do("malloc", 0, n, 0), r) /\ todo' \in Seq(Call) /\ r \in Seq(Call)
  <2>1. Do("malloc", 0, n, 0) \in Call /\ Do("move", p - 2, n, o) \in Call
    BY <1>3, CallType DEF Routines
  <2> QED BY <1>3, <1>4, <2>1, Continued, Stack
<1>6. Types'
  BY <1>1, <1>4, <1>5 DEF Types
<1>7. MallocTo(r, p, n)'
  <2>1. CopiesFrom(p, o)' /\ p \in Owned' /\ n > 0
    BY <1>2, <1>4, SameRest DEF ExpandState
  <2> QED BY <2>1 DEF MallocTo
<1>8. InMalloc'
  <2>1. Calm'
    BY <1>2, <1>4 DEF ExpandState, Calm
  <2> HIDE DEF r
  <2> QED BY <1>3, <1>5, <1>7, <2>1 DEF InMalloc
<1> QED BY <1>1, <1>4, <1>6, <1>8 DEF IInv, States

MoveState(p, n, o) ==
    /\ todo = Then(Do("move", p - 2, n, o), ReallocEnd(p, n)) /\ CopiesFrom(p, o) /\ n > 0
    /\ \/ ret = 0 /\ Calm
       \/ \E b \in blocks : ret = b + 2 /\ Fresh(b) /\ mem[b].size >= 2 + n

LEMMA MoveTop ==
  ASSUME Types, NEW p \in Owned, NEW n \in Asked, NEW o \in 0..End, MoveState(p, n, o)
  PROVE  /\ Tail(todo) = ReallocEnd(p, n) /\ ReallocEnd(p, n) \in Seq(Call)
         /\ blk = p - 2 /\ size = n /\ aux = o /\ n \in Nat /\ o \in Nat /\ n > 0
         /\ p \in Ptr /\ p \in Addr /\ p \in Nat /\ p - 2 \in Nat /\ (p - 2) + 2 = p
         /\ mem \in Memories /\ live \in Lives /\ blocks \subseteq Nat
<1>1. n \in Nat /\ o \in Nat /\ p \in Ptr /\ p \in Addr /\ p \in Nat
      /\ ReallocEnd(p, n) \in Seq(Call)
  BY BlocksNat, PtrNat, CellsNat, Ends
<1>2. p - 2 \in Nat /\ (p - 2) + 2 = p
  BY OwnerBlock DEF MoveState, Calm, Fresh
<1>3. todo = Then(Do("move", p - 2, n, o), ReallocEnd(p, n)) /\ n > 0
  BY DEF MoveState
<1> QED BY <1>1, <1>2, <1>3, Top, BlocksNat DEF Routines

LEMMA StepMoveNothing == ASSUME IInv, MoveNothing PROVE IInv'
<1>1. Types /\ Links(mem) /\ AtMove /\ Sound
  BY Which DEF MoveNothing, At
<1>2. PICK p \in Owned, n \in Asked, o \in 0..End : MoveState(p, n, o)
  BY <1>1 DEF AtMove, MoveState
<1>3. Tail(todo) = ReallocEnd(p, n) /\ ReallocEnd(p, n) \in Seq(Call) /\ p \in Ptr
  BY <1>1, <1>2, MoveTop
<1>4. ret = 0 /\ todo' = ReallocEnd(p, n) /\ ret' = 0 /\ UNCHANGED <<mem, live, blocks, corrupt>>
  BY <1>3, Returned DEF MoveNothing, Return
<1>5. Calm
  <2>1. ASSUME NEW b \in blocks, ret = b + 2 PROVE FALSE
    BY <1>1, <1>4, <2>1, BlocksNat
  <2> QED BY <1>2, <2>1 DEF MoveState
<1>6. Types' /\ AtData'
  BY <1>1, <1>3, <1>4, <1>5 DEF Types, AtData, Calm
<1> QED BY <1>1, <1>4, <1>6 DEF IInv, States

\* The copy of o cells from address f to address g.
Copies(m, w, g, f, o) ==
    w = [a \in Addr |-> IF a \in g..(g + o - 1) THEN m[f + (a - g)] ELSE m[a]]

WasCopied(m, w, g, f, o) ==
    /\ \A a \in Addr : a < g \/ a >= g + o => w[a] = m[a]
    /\ \A i \in Nat : i < o /\ g + i \in Addr => w[g + i] = m[f + i]

LEMMA CopyMade ==
  ASSUME NEW m \in Memories, NEW g \in Nat, NEW f \in Nat, NEW o \in Nat, f >= 1,
         f + o <= Cells + 3, NEW w, Copies(m, w, g, f, o)
  PROVE  w \in Memories /\ (Links(m) => Links(w)) /\ WasCopied(m, w, g, f, o)
<1> USE CellsNat
<1>1. ASSUME NEW a \in Addr, a \in g..(g + o - 1) PROVE f + (a - g) \in Addr
      /\ w[a] = m[f + (a - g)]
  BY <1>1 DEF Copies
<1>2. ASSUME NEW a \in Addr, a \notin g..(g + o - 1) PROVE w[a] = m[a]
  BY <1>2 DEF Copies
<1>3. \A a \in Addr : \E c \in Addr : w[a] = m[c]
  BY <1>1, <1>2
<1>4. w \in Memories
  <2>1. \A a \in Addr : w[a] \in Cell
    BY <1>3, CellType
  <2> QED BY <2>1 DEF Copies, Memories
<1>5. Links(m) => Links(w)
  BY <1>3 DEF Links
<1>6. \A a \in Addr : a < g \/ a >= g + o => w[a] = m[a]
  BY <1>2
<1>7. ASSUME NEW i \in Nat, i < o, g + i \in Addr PROVE w[g + i] = m[f + i]
  <2>1. g + i \in g..(g + o - 1) /\ f + ((g + i) - g) = f + i
    BY <1>7
  <2> QED BY <1>1, <1>7, <2>1
<1> QED BY <1>4, <1>5, <1>6, <1>7 DEF WasCopied

LEMMA StepMove == ASSUME IInv, Move PROVE IInv'
<1>1. Types /\ Links(mem) /\ AtMove /\ Sound
  BY Which DEF Move, At
<1>2. PICK p \in Owned, n \in Asked, o \in 0..End : MoveState(p, n, o)
  BY <1>1 DEF AtMove, MoveState
<1>3. /\ Tail(todo) = ReallocEnd(p, n) /\ ReallocEnd(p, n) \in Seq(Call)
      /\ blk = p - 2 /\ size = n /\ aux = o /\ n \in Nat /\ o \in Nat /\ n > 0
      /\ p \in Ptr /\ p \in Addr /\ p \in Nat /\ p - 2 \in Nat /\ (p - 2) + 2 = p
      /\ mem \in Memories /\ live \in Lives /\ blocks \subseteq Nat
  BY <1>1, <1>2, MoveTop
<1>4. PICK b \in blocks : ret = b + 2 /\ Fresh(b) /\ mem[b].size >= 2 + n
  BY <1>2 DEF MoveState, Move
<1>5. /\ List(mem, blocks) /\ b \in Nat /\ b \in Addr /\ mem[b].size \in Nat
      /\ b + mem[b].size <= Cells + 1 /\ ret - 2 = b /\ Cells \in Nat
  <2>1. List(mem, blocks)
    BY <1>4 DEF Fresh, Good, NoList
  <2>2. b \in Nat /\ b \in Addr /\ mem[b].size \in Nat /\ b + mem[b].size <= Cells + 1
    BY <1>3, <2>1, BlockFacts
  <2> QED BY <1>4, <2>1, <2>2, CellsNat
<1>6. /\ Copies(mem, mem', b + 2, p, o) /\ corrupt' = (o > mem[b].size - 2)
      /\ Continue(<<Do("free", p, 0, 0)>>) /\ ret' = b /\ UNCHANGED <<live, blocks>>
  BY <1>3, <1>4, <1>5 DEF Move, Copied, Copies
<1>7. /\ mem' \in Memories /\ Links(mem')
      /\ \A a \in Addr : a < b + 2 \/ a >= b + 2 + o => mem'[a] = mem[a]
      /\ \A i \in Nat : i < o /\ b + 2 + i \in Addr => mem'[b + 2 + i] = mem[p + i]
  <2>1. p >= 1 /\ p + o <= Cells + 3 /\ b + 2 \in Nat
    <3>1. p - 2 + o <= Cells + 1
      BY <1>2 DEF MoveState, CopiesFrom
    <3>2. p \in Addr /\ p \in Nat /\ o \in Nat /\ Cells \in Nat /\ b \in Nat
      BY <1>3, <1>5
    <3> QED BY ONLY <3>1, <3>2
  <2>2. mem' \in Memories /\ (Links(mem) => Links(mem')) /\ WasCopied(mem, mem', b + 2, p, o)
    BY <1>3, <1>6, <2>1, CopyMade
  <2> QED BY <1>1, <2>2 DEF WasCopied
<1>8. todo' = Then(Do("free", p, 0, 0), ReallocEnd(p, n)) /\ todo' \in Seq(Call)
  <2>1. Do("free", p, 0, 0) \in Call
    BY <1>3, CallType DEF Routines
  <2> QED BY <1>3, <1>6, <2>1, Continued
<1>9. Types'
  BY <1>1, <1>5, <1>6, <1>7, <1>8 DEF Types, Memories
<1>10. ASSUME o <= mem[b].size - 2 PROVE InFree'
  <2>1. OnlyData(mem, mem', b)
    <3>1. PICK k \in Nat : k = mem[b].size
      BY <1>5
    <3>2. \A c \in Addr : c >= b + k => c >= b + 2 + o
      <4>1. o <= k - 2 /\ b \in Nat /\ o \in Nat /\ Cells \in Nat
        BY <1>3, <1>5, <1>10, <3>1
      <4> QED BY ONLY <4>1, k \in Nat
    <3> QED BY <1>7, <3>1, <3>2 DEF OnlyData
  <2>2. Good(mem, blocks, live, {b}, {}, {})
    BY <1>4 DEF Fresh
  <2>3. Good(mem', blocks, live, {b}, {}, {}) /\ mem'[b].size = mem[b].size
    BY <1>3, <1>7, <2>1, <2>2, GoodCopy
  <2>4. p \in Owners(live) /\ p \in Owners(live) \ {} /\ Whole(mem, live, p)
    BY <2>2, OwnedIs DEF Good
  <2>5. live[p].kept \in Nat /\ live[p].kept <= live[p].size /\ live[p].size \in Nat
        /\ 2 + live[p].kept <= o
    <3>1. LiveOK(live)
      BY <2>2 DEF Good
    <3> QED BY <1>2, <1>3, <3>1, LiveType DEF MoveState, CopiesFrom
  <2>6. ASSUME NEW i \in 0..(live[p].kept - 1) PROVE mem'[b + 2 + i].tag = live[p].tag
    <3>1. i \in Nat /\ i < o
      BY <1>3, <2>5
    <3>2. b + 2 + i \in Addr
      <4>1. PICK k \in Nat : k = mem[b].size
        BY <1>5
      <4>2. /\ o <= k - 2 /\ b + k <= Cells + 1 /\ b \in Nat /\ o \in Nat /\ i \in Nat
            /\ i < o /\ Cells \in Nat
        BY <1>3, <1>5, <1>10, <3>1, <4>1
      <4> QED BY ONLY <4>2, k \in Nat
    <3>3. mem'[b + 2 + i] = mem[p + i]
      BY <1>7, <3>1, <3>2
    <3> QED BY <2>4, <3>3 DEF Whole
  <2>7. Ready(mem', live, b, p, n)
    BY <1>3, <1>4, <2>3, <2>6 DEF Ready
  <2>8. p \in Owned' /\ Fresh(ret)' /\ Ready(mem', live', ret', p, n) /\ n \in Asked
    BY <1>6, <2>3, <2>7 DEF Owned, Fresh
  <2> QED BY <1>3, <1>8, <2>8 DEF InFree
<1>11. corrupt' = FALSE => o <= mem[b].size - 2
  <2>1. corrupt' = FALSE => ~ (o > mem[b].size - 2)
    BY <1>6
  <2>2. PICK k \in Nat : k = mem[b].size
    BY <1>5
  <2> QED BY <1>3, <2>1, <2>2
<1> QED BY <1>6, <1>7, <1>9, <1>10, <1>11 DEF IInv, Sound, States

-----------------------------------------------------------------------------
(***************************************************************************)
(* Callers keep the invariant.                                             *)
(***************************************************************************)
LEMMA Marking ==
  ASSUME Types, NEW a \in Nat, NEW n \in Nat, NEW t \in Tags, mem' = Marked(a, n, t)
  PROVE  /\ mem' \in Memories /\ (Links(mem) => Links(mem')) /\ Writes(mem, mem', a, n, t)
         /\ n = 0 => GivesUp(mem, mem', t)
<1>1. mem \in Memories
  BY BlocksNat
<1>2. ASSUME NEW c \in Addr
      PROVE  mem'[c] = IF c \in a..(a + n - 1) THEN [Blank EXCEPT !.tag = t]
                       ELSE IF mem[c].tag = t THEN Blank ELSE mem[c]
  <2>1. mem'[c] = CASE c \in a..(a + n - 1) -> [Blank EXCEPT !.tag = t]
                    [] c \notin a..(a + n - 1) /\ mem[c].tag = t -> Blank
                    [] OTHER -> mem[c]
    BY DEF Marked
  <2> QED BY <2>1
<1>3. Writes(mem, mem', a, n, t)
  BY <1>2 DEF Writes
<1>4. Blank \in Cell /\ [Blank EXCEPT !.tag = t] \in Cell
  BY DEF Blank, Cell
<1>5. mem' \in Memories
  <2>1. \A c \in Addr : mem'[c] \in Cell
    BY <1>1, <1>2, <1>4, CellType
  <2> QED BY <2>1 DEF Marked, Memories
<1>6. Links(mem) => Links(mem')
  <2>1. /\ Blank.next = 0 /\ Blank.prev = 0 /\ [Blank EXCEPT !.tag = t].next = 0
        /\ [Blank EXCEPT !.tag = t].prev = 0 /\ 0 \in 0..Cells
    BY CellsNat DEF Blank
  <2> SUFFICES ASSUME Links(mem), NEW c \in Addr
               PROVE  mem'[c].next \in 0..Cells /\ mem'[c].prev \in 0..Cells
    BY DEF Links
  <2>2. mem[c].next \in 0..Cells /\ mem[c].prev \in 0..Cells
    BY DEF Links
  <2>3. CASE c \in a..(a + n - 1)
    BY <1>2, <2>1, <2>3
  <2>4. CASE c \notin a..(a + n - 1) /\ mem[c].tag = t
    BY <1>2, <2>1, <2>4
  <2>5. CASE c \notin a..(a + n - 1) /\ mem[c].tag # t
    BY <1>2, <2>2, <2>5
  <2> QED BY <2>3, <2>4, <2>5
<1>7. n = 0 => GivesUp(mem, mem', t)
  BY <1>2 DEF GivesUp
<1> QED BY <1>3, <1>5, <1>6, <1>7

LEMMA GivenUp ==
  ASSUME Types, Links(mem), Calm, NEW a \in Owned, GiveUp(a), blocks' = blocks
  PROVE  /\ mem' \in Memories /\ Links(mem') /\ live' \in Lives
         /\ a - 2 \in blocks /\ (a - 2) + 2 = a
         /\ Good(mem', blocks', live', {a - 2}, {}, {})
<1>1. /\ a \in Nat /\ a \in Addr /\ a \in Owners(live) /\ (a - 2) + 2 = a
      /\ mem \in Memories /\ live \in Lives
  BY Calmly, BlocksNat
<1>2. live[a].tag \in Tags /\ live[a].size # 0
  <2>1. LiveOK(live) /\ live[a].size > 0 /\ live[a].size \in Nat
    BY <1>1, LiveType DEF Calm, Good, Owners
  <2>2. live[a].size # 0
    BY <2>1
  <2> QED BY <1>1, <2>1, <2>2 DEF LiveOK
<1>3. mem' = Marked(a, 0, live[a].tag) /\ live' = [live EXCEPT ![a] = NotOwned]
  BY DEF GiveUp
<1>4. mem' \in Memories /\ Links(mem') /\ GivesUp(mem, mem', live[a].tag)
  BY <1>1, <1>2, <1>3, Marking
<1>5. live' \in Lives /\ Releases(live, live', a)
  <2>1. NotOwned \in [size : Asked, tag : Tags \cup {NoTag}, kept : Asked]
    BY DEF NotOwned, Asked
  <2> QED BY <1>1, <1>3, <2>1 DEF Lives, Releases
<1>6. a - 2 \in blocks /\ Good(mem', blocks, live', {a - 2}, {}, {})
  BY <1>1, <1>4, <1>5, GoodGiveUp DEF Calm
<1> QED BY <1>1, <1>4, <1>5, <1>6

LEMMA StepCallMalloc == ASSUME IInv, NEW n \in Sizes \cup {0}, CallMalloc(n) PROVE IInv'
<1>1. Types /\ Links(mem) /\ InClient /\ Sound
  BY Which DEF CallMalloc
<1>2. n \in Asked /\ n \in Nat /\ 0 \in Ptr /\ DoneWith(0, n) \in Seq(Call)
  BY PtrNat, Ends DEF Asked, Ptr
<1>3. /\ todo' = <<Do("malloc", 0, n, 0), Do("done", 0, n, 0)>> /\ FreeTags # {}
      /\ UNCHANGED <<mem, ret, live, blocks, corrupt>>
  BY DEF CallMalloc
<1>4. todo' = Then(Do("malloc", 0, n, 0), DoneWith(0, n)) /\ todo' \in Seq(Call)
  <2>1. Do("malloc", 0, n, 0) \in Call /\ Do("done", 0, n, 0) \in Call /\ << >> \in Seq(Call)
    BY <1>2, CallType DEF Routines
  <2>2. todo' = Then(Do("malloc", 0, n, 0), Then(Do("done", 0, n, 0), << >>))
    BY <1>3, <2>1, TwoCalls
  <2> QED BY <1>2, <2>1, <2>2, Stack DEF DoneWith
<1>5. Types'
  BY <1>1, <1>3, <1>4 DEF Types
<1>6. InMalloc'
  <2>1. MallocTo(DoneWith(0, n), 0, n)'
    BY <1>3 DEF MallocTo, FreeTags, Owned
  <2>2. Calm'
    BY <1>1, <1>3 DEF InClient, Calm
  <2> QED BY <1>2, <1>4, <2>1, <2>2 DEF InMalloc
<1> QED BY <1>1, <1>3, <1>5, <1>6 DEF IInv, States

LEMMA StepCallRealloc ==
  ASSUME IInv, NEW a \in Owned \cup {0}, NEW n \in Sizes \cup {0}, CallRealloc(a, n)
  PROVE  IInv'
<1>1. Types /\ Links(mem) /\ Calm /\ Sound
  BY Which DEF CallRealloc, InClient
<1>2. n \in Asked /\ n \in Nat /\ a \in Ptr /\ a \in Nat
  BY <1>1, PtrNat, BlocksNat DEF Asked, Ptr
<1>3. /\ todo' = <<Do("realloc", a, n, 0), Do("done", a, n, 0)>>
      /\ UNCHANGED <<ret, blocks, corrupt>>
  BY DEF CallRealloc
<1>4. todo' = Then(Do("realloc", a, n, 0), DoneWith(a, n)) /\ todo' \in Seq(Call)
  <2>1. Do("realloc", a, n, 0) \in Call /\ Do("done", a, n, 0) \in Call /\ << >> \in Seq(Call)
    BY <1>2, CallType DEF Routines
  <2>2. todo' = Then(Do("realloc", a, n, 0), Then(Do("done", a, n, 0), << >>))
    BY <1>3, <2>1, TwoCalls
  <2>3. DoneWith(a, n) \in Seq(Call)
    BY <1>2, Ends
  <2> QED BY <2>1, <2>2, <2>3, Stack DEF DoneWith
<1>5. CASE a # 0 /\ n = 0
  <2>1. GiveUp(a) /\ a \in Owned
    BY <1>5 DEF CallRealloc
  <2>2. /\ mem' \in Memories /\ Links(mem') /\ live' \in Lives
        /\ a - 2 \in blocks /\ (a - 2) + 2 = a
        /\ Good(mem', blocks', live', {a - 2}, {}, {})
    BY <1>1, <1>3, <2>1, GivenUp
  <2>3. Types'
    BY <1>1, <1>3, <1>4, <2>2 DEF Types, Memories, Lives
  <2>4. InRealloc'
    BY <1>2, <1>3, <1>4, <1>5, <2>2 DEF InRealloc, Fresh
  <2> QED BY <2>2, <2>3, <2>4 DEF IInv, States
<1>6. CASE ~ (a # 0 /\ n = 0)
  <2>1. UNCHANGED <<mem, live>> /\ (a = 0 => FreeTags # {})
    BY <1>6 DEF CallRealloc
  <2>2. Types'
    BY <1>1, <1>3, <1>4, <2>1 DEF Types
  <2>3. Calm'
    BY <1>1, <1>3, <2>1 DEF Calm
  <2>4. (a = 0 /\ FreeTags' # {}) \/ (a \in Owned' /\ n > 0)
    BY <1>2, <1>6, <2>1 DEF FreeTags, Owned
  <2>5. InRealloc'
    BY <1>2, <1>4, <2>3, <2>4 DEF InRealloc
  <2> QED BY <1>1, <2>1, <2>2, <2>5 DEF IInv, States
<1> QED BY <1>5, <1>6

LEMMA StepCallFree == ASSUME IInv, NEW a \in Owned \cup {0}, CallFree(a) PROVE IInv'
<1>1. Types /\ Links(mem) /\ Calm /\ Sound
  BY Which DEF CallFree, InClient
<1>2. a \in Ptr /\ a \in Nat
  BY <1>1, PtrNat, BlocksNat DEF Ptr
<1>3. todo' = <<Do("free", a, 0, 0)>> /\ UNCHANGED <<ret, blocks, corrupt>>
  BY DEF CallFree
<1>4. todo' = Then(Do("free", a, 0, 0), << >>) /\ todo' \in Seq(Call) /\ << >> \in Seq(Call)
  <2>1. Do("free", a, 0, 0) \in Call /\ << >> \in Seq(Call)
    BY <1>2, CallType DEF Routines
  <2>2. <<Do("free", a, 0, 0)>> \o << >> = <<Do("free", a, 0, 0)>>
    BY <2>1
  <2> QED BY <1>3, <2>1, <2>2, Stack DEF Then
<1>5. CASE a # 0
  <2>1. GiveUp(a) /\ a \in Owned
    BY <1>5 DEF CallFree
  <2>2. /\ mem' \in Memories /\ Links(mem') /\ live' \in Lives
        /\ a - 2 \in blocks /\ (a - 2) + 2 = a
        /\ Good(mem', blocks', live', {a - 2}, {}, {})
    BY <1>1, <1>3, <2>1, GivenUp
  <2>3. Types'
    BY <1>1, <1>3, <1>4, <2>2 DEF Types, Memories, Lives
  <2>4. FreeTo(<< >>)'
    BY DEF FreeTo
  <2>5. InFree'
    BY <1>2, <1>3, <1>4, <2>2, <2>4 DEF InFree, Fresh
  <2> QED BY <2>2, <2>3, <2>5 DEF IInv, States
<1>6. CASE a = 0
  <2>1. UNCHANGED <<mem, live>>
    BY <1>6 DEF CallFree
  <2>2. Types'
    BY <1>1, <1>3, <1>4, <2>1 DEF Types
  <2>3. Calm'
    BY <1>1, <1>3, <2>1 DEF Calm
  <2>4. InFree'
    BY <1>2, <1>4, <1>6, <2>3 DEF InFree
  <2> QED BY <1>1, <2>1, <2>2, <2>4 DEF IInv, States
<1> QED BY <1>5, <1>6
LEMMA DoneTop ==
  ASSUME NEW p \in Ptr, NEW n \in Asked, todo = DoneWith(p, n)
  PROVE  Tail(todo) = << >> /\ blk = p /\ size = n /\ p \in Nat /\ n \in Nat
<1>1. p \in Nat /\ n \in Nat /\ << >> \in Seq(Call) /\ "done" \in Routines /\ 0 \in Nat
  BY PtrNat DEF Routines
<1> QED BY <1>1, Top DEF DoneWith

LEMMA StepFailed == ASSUME IInv, Failed PROVE IInv'
<1>1. Types /\ Links(mem) /\ AtDone /\ Sound
  BY Which DEF Failed, At
<1>2. Calm
  <2>1. ret = 0 /\ \A b \in blocks : b + 2 # 0
    BY <1>1, BlocksNat DEF Failed
  <2>2. \A p \in Owned : p # 0
    BY <1>1, BlocksNat
  <2> QED BY <1>1, <2>1, <2>2 DEF AtDone, Moved
<1>3. todo' = << >> /\ UNCHANGED <<mem, ret, live, blocks, corrupt>>
  <2>1. PICK p \in Ptr, n \in Asked : todo = DoneWith(p, n)
    BY <1>1 DEF AtDone
  <2>2. Tail(todo) = << >> /\ << >> \in Seq(Call)
    BY <2>1, DoneTop
  <2> QED BY <2>2, Returned DEF Failed
<1>4. << >> \in Seq(Call)
  OBVIOUS
<1>5. Types'
  BY <1>1, <1>3, <1>4 DEF Types
<1>6. Calm'
  BY <1>2, <1>3 DEF Calm
<1> QED BY <1>1, <1>3, <1>5, <1>6 DEF IInv, States, InClient

\* The call for n cells by p ends with block b: who it leaves with it, with which
\* tag t and how many cells k of its data that hold it.
Ended(w, lw, b, p, n, t, k) ==
    /\ Gives(live, lw, p, b + 2, n, t, k) /\ lw \in Lives
    /\ MarkedOrNot(mem, w, b + 2, n, t, k) /\ w \in Memories /\ Links(w)
    /\ NewTag(live, t, p) /\ k \in Nat /\ k <= n
    /\ p # 0 => t = live[p].tag

DoneAt(F, G, K, b, p, n) ==
    /\ Good(mem, blocks, live, F, G, K) /\ Settles(live, F, G, K, b, p)
    /\ Ready(mem, live, b, p, n) /\ todo = DoneWith(p, n) /\ ret = b + 2
    /\ p = 0 => FreeTags # {}

LEMMA DoneEnds ==
  ASSUME Types, Links(mem), NEW F, NEW G, NEW K, NEW b \in blocks, NEW p \in Ptr,
         NEW n \in Asked, DoneAt(F, G, K, b, p, n), NEW mark \in BOOLEAN, Done(mark)
  PROVE  \E t, k : Ended(mem', live', b, p, n, t, k)
<1>1. /\ mem \in Memories /\ live \in Lives /\ b \in Nat /\ p \in Nat /\ n \in Nat /\ n > 0
      /\ blk = p /\ size = n /\ ret = b + 2 /\ ret \in Addr /\ LiveOK(live)
  <2>1. mem \in Memories /\ live \in Lives /\ b \in Nat
    BY BlocksNat
  <2>2. p \in Nat /\ n \in Nat /\ blk = p /\ size = n
    BY DoneTop DEF DoneAt
  <2>3. ret # 0 /\ ret \in Addr
    BY DEF Types, Done
  <2> QED BY <2>1, <2>2, <2>3 DEF DoneAt, Ready, Good
<1> DEFINE t == IF p = 0 THEN CHOOSE t \in FreeTags : TRUE ELSE live[p].tag
           o == IF p = 0 THEN 0 ELSE live[p].kept
           k == IF mark = TRUE THEN n ELSE IF o < n THEN o ELSE n
<1>2. p # 0 => p \in Owners(live) /\ p \in Addr
  <2>1. b + 2 # 0
    BY <1>1
  <2> QED BY <2>1 DEF DoneAt, Settles, Owners
<1>3. NewTag(live, t, p)
  <2>1. CASE p = 0
    <3>1. t \in FreeTags
      BY <2>1 DEF DoneAt
    <3>2. \A c \in Owners(live) : live[c].tag # t
      BY <3>1, OwnedIs DEF FreeTags
    <3> QED BY <3>1, <3>2 DEF NewTag, FreeTags
  <2>2. CASE p # 0
    <3>1. t = live[p].tag /\ p \in Owners(live) /\ p \in Addr /\ live[p].size # 0
      <4>1. live[p].size \in Nat /\ live[p].size > 0
        BY <1>1, <1>2, <2>2, LiveType DEF Owners
      <4> QED BY <1>2, <2>2, <4>1
    <3> QED BY <1>1, <3>1 DEF LiveOK, NewTag
  <2> QED BY <2>1, <2>2
<1>4. o \in Asked /\ o \in Nat /\ k \in Asked /\ k \in Nat /\ k <= n
  <2>1. CASE p = 0
    BY <1>1, <2>1 DEF Asked
  <2>2. CASE p # 0
    <3>1. o \in Asked /\ o \in Nat
      BY <1>1, <1>2, <2>2, LiveType
    <3> QED BY <1>1, <3>1
  <2> QED BY <2>1, <2>2
<1>5. live' = [IF p = 0 THEN live ELSE [live EXCEPT ![p] = NotOwned]
               EXCEPT ![b + 2] = [size |-> n, tag |-> t, kept |-> k]]
  <2>1. CASE p = 0
    BY <1>1, <2>1 DEF Done, NotOwned
  <2>2. CASE p # 0
    BY <1>1, <2>2 DEF Done, NotOwned
  <2> QED BY <2>1, <2>2
<1>6. mem' = IF mark = TRUE THEN Marked(b + 2, n, t) ELSE mem
  <2>1. CASE p = 0
    BY <1>1, <2>1 DEF Done, NotOwned
  <2>2. CASE p # 0
    BY <1>1, <2>2 DEF Done, NotOwned
  <2> QED BY <2>1, <2>2
<1>7. ~ mark => \A i \in 0..(k - 1) : mem[b + 2 + i].tag = t
  <2>1. CASE p = 0
    BY <1>1, <2>1
  <2>2. CASE p # 0
    BY <1>1, <1>4, <2>2 DEF DoneAt, Ready
  <2> QED BY <2>1, <2>2
<1>8. t \in Tags /\ (p # 0 => t = live[p].tag)
  BY <1>3 DEF NewTag
<1> HIDE DEF t, o, k
<1>9. Gives(live, live', p, b + 2, n, t, k) /\ live' \in Lives
  <2> DEFINE e == [size |-> n, tag |-> t, kept |-> k]
             T == [size : Asked, tag : Tags \cup {NoTag}, kept : Asked]
  <2>1. e \in T /\ NotOwned \in T
    BY <1>1, <1>4, <1>8, PtrNat DEF NotOwned
  <2>2. live \in [Addr -> T] /\ (p \notin Addr <=> p = 0)
    BY <1>1, <1>2 DEF Lives
  <2> HIDE DEF T
  <2>3. \A c \in Addr : live'[c] = IF c = b + 2 THEN e ELSE IF c = p THEN NotOwned ELSE live[c]
    BY <1>1, <1>2, <1>5, <2>2
  <2>4. live' \in [Addr -> T]
    BY <1>1, <1>5, <2>1, <2>2
  <2> QED BY <2>3, <2>4 DEF Gives, Lives, T
<1>10. MarkedOrNot(mem, mem', b + 2, n, t, k) /\ mem' \in Memories /\ Links(mem')
  <2>1. CASE mark = TRUE
    <3>1. mem' = Marked(b + 2, n, t) /\ b + 2 \in Nat
      BY <1>1, <1>6, <2>1
    <3> QED BY <1>1, <1>8, <3>1, Marking DEF MarkedOrNot
  <2>2. CASE mark = FALSE
    BY <1>1, <1>6, <1>7, <2>2 DEF MarkedOrNot
  <2> QED BY <2>1, <2>2
<1> QED BY <1>3, <1>4, <1>8, <1>9, <1>10 DEF Ended

LEMMA DoneGives ==
  ASSUME Types, Links(mem), NEW F, NEW G, NEW K, NEW b \in blocks, NEW p \in Ptr,
         NEW n \in Asked, DoneAt(F, G, K, b, p, n), NEW mark \in BOOLEAN, Done(mark)
  PROVE  IInv' /\ Good(mem', blocks, live', {}, {}, {})
<1>1. PICK t, k : Ended(mem', live', b, p, n, t, k)
  BY DoneEnds
<1>2. n \in Nat /\ mem \in Memories /\ live \in Lives /\ Tail(todo) = << >>
  BY DoneTop, BlocksNat DEF DoneAt
<1>3. Good(mem', blocks, live', {}, {}, {})
  <2>1. Good(mem, blocks, live, F, G, K) /\ Settles(live, F, G, K, b, p)
    BY DEF DoneAt
  <2>2. n > 0 /\ mem[b].size >= 2 + n
    BY DEF DoneAt, Ready
  <2>3. k \in Nat /\ k <= n /\ NewTag(live, t, p)
    BY <1>1 DEF Ended
  <2>4. live' \in Lives /\ Gives(live, live', p, b + 2, n, t, k)
    BY <1>1 DEF Ended
  <2>5. mem' \in Memories /\ MarkedOrNot(mem, mem', b + 2, n, t, k)
    BY <1>1 DEF Ended
  <2> QED BY ONLY <1>2, <2>1, <2>2, <2>3, <2>4, <2>5, b \in blocks, GoodDone
<1>4. todo' = << >> /\ << >> \in Seq(Call) /\ ret' = 0 /\ UNCHANGED <<blocks, corrupt>>
  <2>1. Continue(<< >>) /\ ret' = 0 /\ UNCHANGED <<blocks, corrupt>>
    BY DEF Done
  <2>2. << >> \in Seq(Call)
    OBVIOUS
  <2>3. todo' = << >>
    BY <1>2, <2>1, <2>2, Returned
  <2> QED BY <2>1, <2>2, <2>3
<1>5. Types'
  BY <1>1, <1>4 DEF Types, Ended, Memories, Lives
<1>6. Calm'
  BY <1>3, <1>4 DEF Calm
<1> QED BY <1>1, <1>3, <1>4, <1>5, <1>6 DEF IInv, States, InClient, Ended

LEMMA DoneIs ==
  ASSUME IInv, NEW mark \in BOOLEAN, Done(mark)
  PROVE  /\ Types /\ Links(mem)
         /\ \E b \in blocks, p \in Ptr, n \in Asked : \E F, G, K : DoneAt(F, G, K, b, p, n)
<1>1. Types /\ Links(mem) /\ AtDone /\ ret # 0
  BY Which DEF Done, At
<1>2. PICK p \in Ptr, n \in Asked :
         /\ todo = DoneWith(p, n)
         /\ \/ \E b \in blocks : /\ ret = b + 2 /\ p = 0 /\ FreeTags # {} /\ Fresh(b)
                                 /\ n > 0 /\ mem[b].size >= 2 + n
            \/ /\ ret = p /\ p \in Owned /\ Good(mem, blocks, live, {}, {}, {p})
               /\ Ready(mem, live, p - 2, p, n)
            \/ \E b \in blocks : ret = b + 2 /\ Moved(b, p, n)
  BY <1>1 DEF AtDone
<1>3. CASE \E b \in blocks : /\ ret = b + 2 /\ p = 0 /\ FreeTags # {} /\ Fresh(b)
                             /\ n > 0 /\ mem[b].size >= 2 + n
  <2>1. PICK b \in blocks : /\ ret = b + 2 /\ p = 0 /\ FreeTags # {} /\ Fresh(b)
                            /\ n > 0 /\ mem[b].size >= 2 + n
    BY <1>3
  <2>2. DoneAt({b}, {}, {}, b, p, n)
    BY <1>2, <2>1 DEF DoneAt, Settles, Ready, Fresh
  <2> QED BY <1>1, <2>2
<1>4. CASE /\ ret = p /\ p \in Owned /\ Good(mem, blocks, live, {}, {}, {p})
           /\ Ready(mem, live, p - 2, p, n)
  <2>1. p - 2 \in blocks /\ (p - 2) + 2 = p /\ p \in Owners(live) /\ p # 0
    BY <1>1, <1>4, OwnerBlock, BlocksNat
  <2>2. DoneAt({}, {}, {p}, p - 2, p, n)
    BY <1>2, <1>4, <2>1 DEF DoneAt, Settles
  <2> QED BY <1>1, <2>1, <2>2
<1>5. CASE \E b \in blocks : ret = b + 2 /\ Moved(b, p, n)
  <2>1. PICK b \in blocks : ret = b + 2 /\ Moved(b, p, n)
    BY <1>5
  <2>2. p \in Owners(live) /\ p # 0
    BY <1>1, <2>1, OwnedIs, BlocksNat DEF Moved
  <2>3. DoneAt({b}, {p}, {p}, b, p, n)
    BY <1>2, <2>1, <2>2 DEF DoneAt, Settles, Moved
  <2> QED BY <1>1, <2>3
<1> QED BY <1>2, <1>3, <1>4, <1>5

LEMMA StepDone == ASSUME IInv, NEW mark \in BOOLEAN, Done(mark) PROVE IInv'
  BY DoneIs, DoneGives

-----------------------------------------------------------------------------
(***************************************************************************)
(* The invariant, and what it says between calls.                          *)
(***************************************************************************)
LEMMA Starts == ASSUME Init PROVE IInv
<1>1. /\ mem = [a \in Addr |-> Blank] /\ todo = << >> /\ ret = 0 /\ blocks = {}
      /\ live = [a \in Addr |-> NotOwned] /\ corrupt = FALSE
  BY DEF Init
<1>2. Blank \in Cell /\ Blank.sign = FALSE /\ Blank.next = 0 /\ Blank.prev = 0
  BY DEF Blank, Cell
<1>3. NotOwned \in [size : Asked, tag : Tags \cup {NoTag}, kept : Asked] /\ NotOwned.size = 0
  BY DEF NotOwned, Asked
<1>4. \A a \in Addr : mem[a] = Blank /\ live[a] = NotOwned
  BY <1>1
<1>5. 1 \in Addr /\ 0 \in 0..Cells
  BY CellsNat
<1>6. Types
  <2>1. mem \in [Addr -> Cell]
    BY <1>1, <1>2
  <2>2. live \in [Addr -> [size : Asked, tag : Tags \cup {NoTag}, kept : Asked]]
    BY <1>1, <1>3
  <2>3. todo \in Seq(Call) /\ ret \in Addr \cup {0} /\ blocks \subseteq Addr
    BY <1>1
  <2>4. corrupt \in BOOLEAN
    BY <1>1
  <2> QED BY <2>1, <2>2, <2>3, <2>4 DEF Types
<1>7. Links(mem)
  BY <1>2, <1>4, <1>5 DEF Links
<1>8. Owners(live) = {}
  BY <1>3, <1>4 DEF Owners
<1>9. Calm
  <2>1. NoList(mem, blocks, live)
    BY <1>1, <1>2, <1>4, <1>5 DEF NoList
  <2>2. InUse(mem, blocks, live, {}, {})
    BY <1>1, <1>8 DEF InUse
  <2>3. LiveOK(live)
    BY <1>3, <1>4, <1>8 DEF LiveOK
  <2> QED BY <1>8, <2>1, <2>2, <2>3 DEF Calm, Good
<1> QED BY <1>1, <1>6, <1>7, <1>9 DEF IInv, States, InClient

LEMMA Stutters == ASSUME IInv, UNCHANGED vars PROVE IInv'
<1>1. UNCHANGED <<mem, todo, ret, live, blocks, corrupt>>
  BY DEF vars
<1>2. Types' /\ (Sound' => Sound /\ Links(mem'))
  BY <1>1 DEF IInv, Types, Sound
<1>3. /\ Calm' = Calm /\ Owned' = Owned /\ FreeTags' = FreeTags
      /\ \A b : Fresh(b)' = Fresh(b)
      /\ \A b, p, n : Moved(b, p, n)' = Moved(b, p, n)
      /\ \A p, o : CopiesFrom(p, o)' = CopiesFrom(p, o)
  BY <1>1 DEF Calm, Fresh, Moved, CopiesFrom, FreeTags, Owned
<1>4. \A r, p, n : MallocTo(r, p, n)' = MallocTo(r, p, n)
  BY <1>3 DEF MallocTo
<1>5. \A s, b, p, n : ShrinkTo(s, mem, b, p, n)' = ShrinkTo(s, mem, b, p, n)
  BY <1>1, <1>3, <1>4 DEF ShrinkTo
<1>6. \A s, b, p, n : InCut(s, p, n, b)' = InCut(s, p, n, b)
  BY <1>1, <1>3, <1>4 DEF InCut, ShrinkTo, CutAt
<1>7. \A r : FreeTo(r)' = FreeTo(r)
  BY <1>1 DEF FreeTo
<1>8. /\ InClient' = InClient /\ InMalloc' = InMalloc /\ InFind' = InFind
      /\ InShrink' = InShrink /\ InSplit' = InSplit /\ AtCut' = AtCut
  BY <1>1, <1>3, <1>4, <1>5, <1>6
     DEF InClient, InMalloc, InFind, InShrink, InSplit, AtCut
<1>9. AtData' = AtData /\ AtDone' = AtDone /\ AtMove' = AtMove
  <2>1. AtData' = AtData
    BY <1>1, <1>3, <1>5 DEF AtData
  <2>2. AtDone' = AtDone
    BY <1>1, <1>3 DEF AtDone
  <2>3. AtMove' = AtMove
    BY <1>1, <1>3 DEF AtMove
  <2> QED BY <2>1, <2>2, <2>3
<1>10. InFree' = InFree /\ InDefrag' = InDefrag
  BY <1>1, <1>3, <1>7 DEF InFree, InDefrag
<1>11. InRealloc' = InRealloc /\ InExpand' = InExpand
  BY <1>1, <1>3 DEF InRealloc, InExpand
<1> QED BY <1>2, <1>8, <1>9, <1>10, <1>11 DEF IInv, States

LEMMA Steps == ASSUME IInv, Next PROVE IInv'
<1>1. CASE Client
  <2>1. CASE \E n \in Sizes \cup {0} : CallMalloc(n)
    BY <2>1, StepCallMalloc
  <2>2. CASE \E a \in Owned \cup {0}, n \in Sizes \cup {0} : CallRealloc(a, n)
    BY <2>2, StepCallRealloc
  <2>3. CASE \E a \in Owned \cup {0} : CallFree(a)
    BY <2>3, StepCallFree
  <2> QED BY <1>1, <2>1, <2>2, <2>3 DEF Client
<1>2. CASE Routine
  <2>1. CASE MallocNothing \/ MallocBegins
    BY <2>1, StepMallocNothing, StepMallocBegins
  <2>2. CASE FindNext \/ FindNothing \/ FindBest \/ GetBlockData
    BY <2>2, StepFindNext, StepFindNothing, StepFindBest, StepGetBlockData
  <2>3. CASE ShrinkNothing \/ Split \/ Cut
    BY <2>3, StepShrinkNothing, StepSplit, StepCut
  <2>4. CASE MergeNext \/ MergePrev \/ DefragEnd
    BY <2>4, StepMergeNext, StepMergePrev, StepDefragEnd
  <2>5. CASE FreeNothing \/ FreeBlock \/ ReallocBegins
    BY <2>5, StepFreeNothing, StepFreeBlock, StepReallocBegins
  <2>6. CASE ExpandAppends \/ ExpandFits \/ ExpandMoves
    BY <2>6, StepExpandAppends, StepExpandFits, StepExpandMoves
  <2>7. CASE MoveNothing \/ Move \/ Failed
    BY <2>7, StepMoveNothing, StepMove, StepFailed
  <2>8. CASE \E mark \in BOOLEAN : Done(mark)
    BY <2>8, StepDone
  <2> QED BY <1>2, <2>1, <2>2, <2>3, <2>4, <2>5, <2>6, <2>7, <2>8 DEF Routine
<1> QED BY <1>1, <1>2 DEF Next

\* The list and its owners stay what they should be in the middle of every
\* call too: the invariant that the four below come from (all of heap.c).
THEOREM Invariant == Spec => []IInv
<1>1. Init => IInv
  BY Starts
<1>2. IInv /\ [Next]_vars => IInv'
  BY Steps, Stutters
<1> QED BY <1>1, <1>2, PTL DEF Spec
LEMMA ListSizes ==
  ASSUME NEW m \in Memories, NEW B, NEW lv, NEW F, NEW G, NEW K, Good(m, B, lv, F, G, K),
         NEW b \in B
  PROVE  m[b].size <= Cells
<1>1. List(m, B)
  BY DEF Good, NoList
<1>2. b \in Nat /\ b >= 1 /\ m[b].size \in Nat /\ b + m[b].size <= Cells + 1
  BY <1>1, BlockFacts
<1> QED BY <1>2, CellsNat

LEMMA CutSizes ==
  ASSUME Types, NEW s, NEW p, NEW n \in Asked, NEW b \in blocks, InCut(s, p, n, b),
         NEW c \in blocks
  PROVE  mem[c].size <= Cells
<1>1. CASE c = b
  BY <1>1 DEF InCut
<1>2. CASE c # b
  <2> DEFINE w == CutAt(b, n)
  <2>1. /\ mem \in Memories /\ b \in Addr /\ b + 1 \in Addr /\ 2 + n \in Nat
        /\ b + 2 + n \in Nat /\ c \in Addr
    <3>1. b \in Addr /\ c \in Addr /\ n \in Nat /\ b \in Nat /\ mem \in Memories
      BY PtrNat, BlocksNat
    <3>2. b <= Cells
      <4>1. mem[b].size <= Cells /\ b + 2 + n \in blocks
        BY DEF InCut
      <4>2. b + 2 + n \in Addr
        BY <4>1, BlocksNat
      <4> QED BY <3>1, <4>2, CellsNat
    <3> QED BY <3>1, <3>2, CellsNat
  <2>2. w \in Memories /\ w[c].size = mem[c].size
    <3>1. Resizes(mem, w, b, 2 + n, b + 2 + n)
      BY DEF Resizes, CutAt
    <3> HIDE DEF w
    <3>2. w \in Memories /\ Resized(mem, w, b, 2 + n, b + 2 + n)
      BY <2>1, <3>1, ResizeMade
    <3>3. CASE c = b + 1
      <4>1. w[c] = [mem[c] EXCEPT !.next = b + 2 + n] /\ mem[c] \in Cell
        BY <2>1, <3>2, <3>3, CellType DEF Resized
      <4>2. w[c].size = mem[c].size
        BY <4>1 DEF Cell
      <4> QED BY <3>2, <4>2
    <3>4. CASE c # b + 1
      BY <1>2, <2>1, <3>2, <3>4 DEF Resized
    <3> QED BY <3>3, <3>4
  <2>3. ShrinkTo(s, w, b, p, n)
    BY DEF InCut
  <2> HIDE DEF w
  <2> QED BY <2>2, <2>3, ListSizes DEF ShrinkTo
<1> QED BY <1>1, <1>2

\* The variables have their types, and no block is larger than the region (the
\* sizes that malloc, shrink_block and the merges write).
THEOREM TypeCorrect == Spec => []TypeOK
<1>1. ASSUME IInv PROVE TypeOK
  <2>1. ASSUME Sound, NEW b \in blocks PROVE mem[b].size <= Cells
    <3>1. Types /\ States /\ mem \in Memories
      BY <1>1, <2>1, BlocksNat DEF IInv
    <3>2. CASE InSplit \/ AtCut
      BY <2>1, <3>1, <3>2, CutSizes DEF InSplit, AtCut
    <3>3. CASE InShrink \/ AtData
      BY <2>1, <3>1, <3>3, ListSizes, ZenonT(60) DEF InShrink, AtData, ShrinkTo, Calm, Moved
    <3>4. CASE InClient \/ InMalloc \/ InFind \/ InRealloc \/ InExpand
      BY <2>1, <3>1, <3>4, ListSizes
         DEF InClient, InMalloc, InFind, InRealloc, InExpand, Calm, Fresh
    <3>5. CASE AtDone \/ AtMove
      BY <2>1, <3>1, <3>5, ListSizes DEF AtDone, AtMove, Calm, Fresh, Moved
    <3>6. CASE InFree \/ InDefrag
      BY <2>1, <3>1, <3>6, ListSizes DEF InFree, InDefrag, Calm, Fresh, Moved
    <3> QED BY <3>1, <3>2, <3>3, <3>4, <3>5, <3>6 DEF States
  <2> QED BY <1>1, <2>1 DEF IInv, Types, TypeOK, Asked
<1> QED BY <1>1, Invariant, PTL

\* What is known between calls.
LEMMA Between ==
  ASSUME IInv, Idle, Sound
  PROVE  Types /\ Calm /\ mem \in Memories /\ live \in Lives /\ Owned = Owners(live)
  BY Which, BlocksNat, OwnedIs DEF InClient

\* The blocks of the list tile the region between calls, whatever its size and
\* that of the requests (free, shrink_block and expand_block).
THEOREM BlocksTiled == Spec => []BlocksTile
<1>1. ASSUME IInv PROVE BlocksTile
  <2> SUFFICES ASSUME Idle, Sound, IS_VALID(1)
      PROVE  /\ 1 \in blocks
             /\ \A b \in blocks :
                   /\ IS_VALID(b) /\ mem[b].size >= 2
                   /\ \/ Next_(b) = 0 /\ b + mem[b].size = End
                      \/ Next_(b) \in blocks /\ b + mem[b].size = Next_(b)
             /\ \A b \in blocks \ {1} : \E c \in blocks : Next_(c) = b
    BY DEF BlocksTile
  <2>1. mem \in Memories /\ List(mem, blocks)
    BY <1>1, Between DEF Calm, Good, NoList, IS_VALID
  <2>2. ASSUME NEW b \in blocks
        PROVE  /\ IS_VALID(b) /\ mem[b].size >= 2
               /\ \/ Next_(b) = 0 /\ b + mem[b].size = End
                  \/ Next_(b) \in blocks /\ b + mem[b].size = Next_(b)
    <3>1. /\ b \in Nat /\ b >= 1 /\ mem[b].sign = TRUE /\ mem[b].size >= 2
          /\ \/ mem[b + 1].next = 0 /\ b + mem[b].size = Cells + 1
             \/ /\ mem[b + 1].next # 0 /\ mem[b + 1].next \in blocks
                /\ b + mem[b].size = mem[b + 1].next
      BY <2>1, BlockFacts
    <3>2. b # 0
      BY <3>1
    <3> QED BY <3>1, <3>2 DEF IS_VALID, Next_
  <2> QED BY <2>1, <2>2 DEF List, Reached, Next_
<1> QED BY <1>1, Invariant, PTL

\* The blocks in use are those that callers own, with room for what was asked
\* for (malloc, realloc and free, those that fail too).
THEOREM BlocksOwned == Spec => []BlocksAreOwned
<1>1. ASSUME IInv PROVE BlocksAreOwned
  <2> SUFFICES ASSUME Idle, Sound
      PROVE  /\ {b \in blocks : ~ IS_FREE(b)} = {a - 2 : a \in Owned}
             /\ \A a \in Owned : mem[a - 2].size >= 2 + live[a].size
    BY DEF BlocksAreOwned
  <2>1. Types /\ Calm /\ mem \in Memories /\ Owned = Owners(live)
    BY <1>1, Between
  <2>2. ASSUME NEW a \in Owned PROVE a - 2 \in blocks /\ ~ IS_FREE(a - 2)
    BY <2>1, OwnerBlock DEF Calm, IS_FREE
  <2>3. ASSUME NEW b \in blocks, ~ IS_FREE(b) PROVE b + 2 \in Owned /\ b = (b + 2) - 2
    <3>1. b \in Nat /\ b # 0 /\ b \in Addr
      BY <2>1, BlocksNat
    <3>2. mem[b].free = FALSE
      BY <2>1, <2>3, <3>1, CellType DEF IS_FREE
    <3> QED BY <2>1, <3>1, <3>2 DEF Calm, Good, InUse
  <2>4. \A a \in Owned : mem[a - 2].size >= 2 + live[a].size
    BY <2>1 DEF Calm, Good, Whole
  <2> QED BY <2>2, <2>3, <2>4
<1> QED BY <1>1, Invariant, PTL

\* What a caller wrote stays as it is until it frees it or cuts it off, up to
\* the first corruption (the memmove and the headers of heap.c).
THEOREM ContentsAreKept == Spec => []ContentsKept
<1>1. ASSUME IInv PROVE ContentsKept
  BY <1>1, Between DEF ContentsKept, Calm, Good, Whole, Holds
<1> QED BY <1>1, Invariant, PTL
-----------------------------------------------------------------------------
(***************************************************************************)
(* The heap implements Allocator: a range is where its mark is in live.    *)
(***************************************************************************)
RangeIn(lv, t) == LET at == {a \in Addr : lv[a].tag = t}
                  IN  IF at = {} THEN << >>
                      ELSE LET a == CHOOSE a \in at : TRUE IN <<a, lv[a].size>>

LEMMA RangeIs ==
  ASSUME NEW lv \in Lives, LiveOK(lv), NEW t \in Tags
  PROVE  /\ \A a \in Owners(lv) : lv[a].tag = t => RangeIn(lv, t) = <<a, lv[a].size>>
         /\ (\A a \in Owners(lv) : lv[a].tag # t) => RangeIn(lv, t) = << >>
         /\ \A a \in Addr : lv[a].tag = t => a \in Owners(lv)
<1>1. ASSUME NEW a \in Addr, lv[a].tag = t PROVE a \in Owners(lv)
  <2>1. lv[a].size # 0
    BY <1>1, CellsNat DEF LiveOK, NotOwned
  <2>2. lv[a].size \in Nat
    BY LiveType
  <2> QED BY <2>1, <2>2 DEF Owners
<1>2. ASSUME NEW a \in Owners(lv), lv[a].tag = t PROVE RangeIn(lv, t) = <<a, lv[a].size>>
  <2>1. {c \in Addr : lv[c].tag = t} = {a}
    BY <1>1, <1>2 DEF LiveOK, Owners
  <2>2. (CHOOSE c \in {a} : TRUE) = a
    OBVIOUS
  <2> QED BY <2>1, <2>2 DEF RangeIn
<1>3. ASSUME \A a \in Owners(lv) : lv[a].tag # t PROVE RangeIn(lv, t) = << >>
  <2>1. {c \in Addr : lv[c].tag = t} = {}
    BY <1>1, <1>3
  <2> QED BY <2>1 DEF RangeIn
<1> QED BY <1>1, <1>2, <1>3

LEMMA RangeSame ==
  ASSUME NEW lv, NEW lw, NEW t,
         \A c \in Addr : /\ lv[c].tag = t <=> lw[c].tag = t
                         /\ lv[c].tag = t => lw[c].size = lv[c].size
  PROVE  RangeIn(lw, t) = RangeIn(lv, t)
<1> DEFINE at == {c \in Addr : lv[c].tag = t}
           ut == {c \in Addr : lw[c].tag = t}
           a  == CHOOSE c \in at : TRUE
           u  == CHOOSE c \in ut : TRUE
<1>1. ut = at
  OBVIOUS
<1>2. RangeIn(lv, t) = IF at = {} THEN << >> ELSE <<a, lv[a].size>>
  BY DEF RangeIn
<1>3. RangeIn(lw, t) = IF ut = {} THEN << >> ELSE <<u, lw[u].size>>
  BY DEF RangeIn
<1>4. u = a
  BY <1>1
<1>5. at # {} => lw[a].size = lv[a].size
  <2>1. at # {} => a \in at
    OBVIOUS
  <2> QED BY <2>1
<1> HIDE DEF at, ut, a, u
<1> QED BY <1>1, <1>2, <1>3, <1>4, <1>5

\* What owners hold is inside the region and apart.
LEMMA HeldApart ==
  ASSUME NEW m \in Memories, NEW B, NEW lv \in Lives, Good(m, B, lv, {}, {}, {}),
         NEW a \in Owners(lv)
  PROVE  /\ a \in 1..Cells /\ a..(a + lv[a].size - 1) \subseteq 1..Cells
         /\ \A c \in Owners(lv) \ {a} :
               a..(a + lv[a].size - 1) \cap c..(c + lv[c].size - 1) = {}
<1>1. ASSUME NEW c \in Owners(lv)
      PROVE  /\ c \in Nat /\ c - 2 \in B /\ c - 2 \in Nat /\ c - 2 >= 1
             /\ m[c - 2].size \in Nat /\ lv[c].size \in Nat /\ lv[c].size >= 1
             /\ m[c - 2].size >= 2 + lv[c].size /\ (c - 2) + m[c - 2].size <= Cells + 1
             /\ List(m, B)
  <2>1. c \in Owners(lv) \ {} /\ c \in Addr
    BY DEF Owners
  <2>2. c - 2 \in B /\ List(m, B) /\ m[c - 2].size >= 2 + lv[c].size
    BY <2>1, OwnedBlock DEF Good, Whole
  <2>3. lv[c].size \in Nat /\ lv[c].size >= 1
    BY <2>1, LiveType DEF Owners
  <2>4. /\ c - 2 \in Nat /\ c - 2 >= 1 /\ m[c - 2].size \in Nat
        /\ (c - 2) + m[c - 2].size <= Cells + 1
    BY <2>2, BlockFacts
  <2> QED BY <2>1, <2>2, <2>3, <2>4
<1>2. PICK n \in Nat : n = lv[a].size
  BY <1>1
<1>3. PICK x \in Nat : x = m[a - 2].size
  BY <1>1
<1>4. /\ a \in Nat /\ a - 2 >= 1 /\ n >= 1 /\ x >= 2 + n /\ (a - 2) + x <= Cells + 1
      /\ Cells \in Nat
  BY <1>1, <1>2, <1>3, CellsNat
<1>5. a \in 1..Cells /\ a..(a + n - 1) \subseteq 1..Cells
  BY <1>4
<1>6. ASSUME NEW c \in Owners(lv) \ {a}
      PROVE  a..(a + n - 1) \cap c..(c + lv[c].size - 1) = {}
  <2>1. PICK k \in Nat : k = lv[c].size
    BY <1>1
  <2>2. PICK y \in Nat : y = m[c - 2].size
    BY <1>1
  <2>3. c \in Nat /\ y >= 2 + k /\ c - 2 \in B /\ a - 2 \in B /\ List(m, B) /\ c # a
    BY <1>1, <2>1, <2>2
  <2>4. a - 2 # c - 2
    BY <1>4, <2>3
  <2>5. (a - 2) + x <= c - 2 \/ (c - 2) + y <= a - 2
    BY <1>3, <2>2, <2>3, <2>4, BlocksDiffer
  <2>6. a..(a + n - 1) \cap c..(c + k - 1) = {}
    BY <1>4, <2>3, <2>5
  <2> QED BY <2>1, <2>6
<1> QED BY <1>2, <1>5, <1>6

LEMMA OwnedRange == \A t \in Tags : RangeOf(t) = RangeIn(live, t)
  BY DEF RangeOf, RangeIn
LEMMA TakesRange ==
  ASSUME Types, Links(mem), Calm, NEW a \in Owned, GiveUp(a), UNCHANGED blocks
  PROVE  \E o \in Tags : Ranges!Take(o)
<1>1. /\ live \in Lives /\ live' \in Lives /\ a \in Owners(live) /\ a \in Addr
      /\ LiveOK(live) /\ LiveOK(live') /\ Releases(live, live', a)
  <2>1. live \in Lives /\ a \in Owners(live) /\ a \in Addr /\ LiveOK(live)
    BY BlocksNat, OwnedIs DEF Calm, Good
  <2>2. live' \in Lives /\ LiveOK(live')
    BY GivenUp DEF Good
  <2>3. Releases(live, live', a)
    BY <2>1 DEF GiveUp, Releases, Lives
  <2> QED BY <2>1, <2>2, <2>3
<1>2. PICK o : o = live[a].tag
  OBVIOUS
<1>3. o \in Tags
  <2>1. live[a].size # 0
    BY <1>1, LiveType DEF Owners
  <2> QED BY <1>1, <1>2, <2>1 DEF LiveOK
<1>4. RangeIn(live, o) = <<a, live[a].size>>
  BY <1>1, <1>2, <1>3, RangeIs
<1>5. ASSUME NEW c \in Addr, c # a PROVE live[c].tag # o
  <2>1. ASSUME live[c].tag = o PROVE FALSE
    <3>1. c \in Owners(live)
      BY <1>1, <1>3, <2>1, RangeIs
    <3> QED BY <1>1, <1>2, <1>5, <2>1, <3>1 DEF LiveOK
  <2> QED BY <2>1
<1>6. /\ \A c \in Addr : live'[c].tag # o
      /\ \A c \in Addr : live'[c].tag # NoTag => live'[c] = live[c] /\ c # a
  <2>1. NotOwned.tag = NoTag /\ NoTag # o
    BY <1>3, CellsNat DEF NotOwned
  <2> QED BY <1>1, <1>5, <2>1 DEF Releases
<1>7. RangeIn(live', o) = << >>
  BY <1>1, <1>3, <1>6, RangeIs DEF Owners
<1>8. ASSUME NEW t \in Tags, t # o PROVE RangeIn(live', t) = RangeIn(live, t)
  <2>1. NotOwned.tag # t
    BY CellsNat DEF NotOwned
  <2>2. \A c \in Addr : /\ live[c].tag = t <=> live'[c].tag = t
                        /\ live[c].tag = t => live'[c].size = live[c].size
    BY <1>1, <1>2, <1>8, <2>1 DEF Releases
  <2> QED BY <2>2, RangeSame
<1>9. \A t \in Tags : RangeOf(t) = RangeIn(live, t)
  BY OwnedRange
<1>10. \A t \in Tags : RangeOf(t)' = RangeIn(live', t)
  BY DEF RangeOf, RangeIn
<1> DEFINE O == [t \in Tags |-> RangeOf(t)]
<1>11. O[o] # << >>
  BY <1>3, <1>4, <1>9
<1>12. O' = [O EXCEPT ![o] = << >>]
  BY <1>3, <1>7, <1>8, <1>9, <1>10
<1> QED BY <1>3, <1>11, <1>12 DEF Ranges!Take
\* Where the range of a call that succeeds goes, and that the others stay.
RangesGiven(b, p, n, t) ==
    /\ RangeIn(live', t) = <<b + 2, n>>
    /\ RangeIn(live, t) = << >> <=> p = 0
    /\ \A o \in Tags \ {t} : RangeIn(live', o) = RangeIn(live, o)

LEMMA GivesRanges ==
  ASSUME IInv, Links(mem), NEW F, NEW G, NEW K, NEW b \in blocks, NEW p \in Ptr,
         NEW n \in Asked, DoneAt(F, G, K, b, p, n), NEW t, NEW k, NEW w,
         Ended(w, live', b, p, n, t, k), LiveOK(live')
  PROVE  t \in Tags /\ t # NoTag /\ RangesGiven(b, p, n, t)
<1>1. /\ live \in Lives /\ live' \in Lives /\ LiveOK(live) /\ b \in Nat /\ b + 2 \in Addr
      /\ n \in Nat /\ n > 0 /\ InUse(mem, blocks, live, F, G)
  <2>1. Types /\ Good(mem, blocks, live, F, G, K) /\ n > 0 /\ ret = b + 2
    BY DEF IInv, DoneAt, Ready
  <2>2. b + 2 \in Addr
    <3>1. b \in Nat /\ b + 2 # 0 /\ ret \in Addr \cup {0}
      BY <2>1, BlocksNat DEF Types
    <3> QED BY <2>1, <3>1
  <2> QED BY <2>1, <2>2, BlocksNat, PtrNat DEF Ended, Good
<1>2. t \in Tags /\ t # NoTag /\ NewTag(live, t, p) /\ Gives(live, live', p, b + 2, n, t, k)
  BY CellsNat DEF Ended, NewTag
<1>3. p = 0 \/ (p \in Owners(live) /\ p \in Addr /\ p # 0 /\ live[p].tag = t)
  BY CellsNat DEF DoneAt, Settles, Ended, Owners
<1>4. b + 2 = p \/ live[b + 2] = NotOwned
  <2>1. CASE b \in F
    <3>1. b + 2 \notin Owners(live)
      BY <1>1, <2>1 DEF InUse
    <3>2. live[b + 2].size = 0
      BY <1>1, <3>1, LiveType DEF Owners
    <3> QED BY <1>1, <3>2 DEF LiveOK
  <2>2. CASE b \notin F
    BY <2>2 DEF DoneAt, Settles
  <2> QED BY <2>1, <2>2
<1>5. live'[b + 2] = [size |-> n, tag |-> t, kept |-> k] /\ b + 2 \in Owners(live')
  <2>1. live'[b + 2] = [size |-> n, tag |-> t, kept |-> k]
    BY <1>1, <1>2 DEF Gives
  <2>2. live'[b + 2].size = n
    BY <2>1
  <2> QED BY <1>1, <2>1, <2>2 DEF Owners
<1>6. RangeIn(live', t) = <<b + 2, n>>
  <2>1. live'[b + 2].tag = t /\ live'[b + 2].size = n
    BY <1>5
  <2> QED BY <1>1, <1>2, <1>5, <2>1, RangeIs
<1>7. RangeIn(live, t) = << >> <=> p = 0
  <2>1. CASE p = 0
    <3>1. \A a \in Owners(live) : a # 0
      BY DEF Owners
    <3>2. \A a \in Owners(live) : live[a].tag # t
      BY <1>2, <2>1, <3>1 DEF NewTag
    <3> QED BY <1>1, <1>2, <2>1, <3>2, RangeIs
  <2>2. CASE p # 0
    <3>1. RangeIn(live, t) = <<p, live[p].size>>
      BY <1>1, <1>2, <1>3, <2>2, RangeIs
    <3> QED BY <2>2, <3>1
  <2> QED BY <2>1, <2>2
<1>8. ASSUME NEW o \in Tags \ {t} PROVE RangeIn(live', o) = RangeIn(live, o)
  <2>1. NotOwned.tag # o /\ o # t
    BY CellsNat DEF NotOwned
  <2>2. ASSUME NEW c \in Addr
        PROVE  /\ live[c].tag = o <=> live'[c].tag = o
               /\ live[c].tag = o => live'[c].size = live[c].size
    <3>1. CASE c = b + 2
      <4>1. live'[c].tag # o
        BY <1>5, <2>1, <3>1
      <4>2. live[c].tag # o
        BY <1>3, <1>4, <2>1, <3>1, <1>1
      <4> QED BY <4>1, <4>2
    <3>2. CASE c # b + 2 /\ c = p
      <4>1. live'[c] = NotOwned /\ live[c].tag = t
        BY <1>2, <1>3, <3>2 DEF Gives
      <4> QED BY <2>1, <4>1
    <3>3. CASE c # b + 2 /\ c # p
      BY <1>2, <3>3 DEF Gives
    <3> QED BY <3>1, <3>2, <3>3
  <2> QED BY <2>2, RangeSame
<1> QED BY <1>2, <1>6, <1>7, <1>8 DEF RangesGiven

LEMMA GivesRange ==
  ASSUME IInv, NEW mark \in BOOLEAN, Done(mark)
  PROVE  \E o \in Tags, a \in 1..Cells, n \in Sizes :
            Ranges!Give(o, a, n) \/ Ranges!Resize(o, a, n)
<1>1. PICK b \in blocks, p \in Ptr, n \in Asked : \E F, G, K : DoneAt(F, G, K, b, p, n)
  BY DoneIs
<1>2. PICK F, G, K : DoneAt(F, G, K, b, p, n)
  BY <1>1
<1>3. Types /\ Links(mem)
  BY DoneIs
<1>4. PICK t, k : Ended(mem', live', b, p, n, t, k)
  BY <1>2, <1>3, DoneEnds
<1>5. Good(mem', blocks, live', {}, {}, {})
  BY <1>2, <1>3, DoneGives
<1>6. LiveOK(live') /\ live' \in Lives /\ mem' \in Memories
  BY <1>4, <1>5 DEF Good, Ended
<1>7. t \in Tags /\ t # NoTag /\ RangesGiven(b, p, n, t)
  BY <1>2, <1>3, <1>4, <1>6, GivesRanges
<1>8. \A o \in Tags : RangeOf(o) = RangeIn(live, o)
  BY OwnedRange
<1>9. \A o \in Tags : RangeOf(o)' = RangeIn(live', o)
  BY DEF RangeOf, RangeIn
<1> DEFINE O == [o \in Tags |-> RangeOf(o)]
           a == b + 2
<1>10. b \in Nat /\ n \in Nat /\ n > 0 /\ n \in Sizes /\ a \in Addr
  <2>1. n > 0 /\ ret = b + 2 /\ ret # 0 /\ ret \in Addr \cup {0}
    BY <1>2, <1>3 DEF DoneAt, Ready, Done, Types
  <2> QED BY <1>3, <2>1, BlocksNat, PtrNat DEF Asked
<1>11. a \in Owners(live') /\ live'[a].size = n /\ live'[a].tag = t
  <2>1. live'[a] = [size |-> n, tag |-> t, kept |-> k]
    BY <1>4, <1>10 DEF Ended, Gives
  <2>2. live'[a].size = n /\ live'[a].tag = t
    BY <2>1
  <2> QED BY <1>10, <2>2 DEF Owners
<1>12. a \in 1..Cells /\ a..(a + n - 1) \subseteq 1..Cells
  BY <1>5, <1>6, <1>11, HeldApart
<1>13. ASSUME NEW o \in Tags \ {t}, RangeIn(live, o) # << >>
       PROVE  \E c \in Owners(live') \ {a} : RangeIn(live, o) = <<c, live'[c].size>>
  <2>1. RangeIn(live', o) = RangeIn(live, o)
    BY <1>7 DEF RangesGiven
  <2>2. PICK c \in Owners(live') : live'[c].tag = o
    BY <1>6, <1>13, <2>1, RangeIs
  <2>3. RangeIn(live', o) = <<c, live'[c].size>> /\ c # a
    BY <1>6, <1>11, <2>2, RangeIs
  <2> QED BY <2>1, <2>3
<1> HIDE DEF a
<1>14. ASSUME NEW o \in Tags \ {t} PROVE a..(a + n - 1) \cap Ranges!Held(o) = {}
  <2>1. CASE RangeIn(live, o) = << >>
    BY <1>8, <2>1 DEF Ranges!Held
  <2>2. CASE RangeIn(live, o) # << >>
    <3>1. PICK c \in Owners(live') \ {a} : RangeIn(live, o) = <<c, live'[c].size>>
      BY <1>13, <2>2
    <3>2. a..(a + n - 1) \cap c..(c + live'[c].size - 1) = {}
      BY <1>5, <1>6, <1>11, <3>1, HeldApart
    <3>3. O[o] = <<c, live'[c].size>> /\ O[o] # << >>
      <4>1. o \in Tags /\ O[o] = RangeOf(o)
        OBVIOUS
      <4>2. O[o] = RangeIn(live, o)
        BY <1>8, <4>1
      <4> HIDE DEF O
      <4> QED BY <2>2, <3>1, <4>2
    <3>4. Ranges!Held(o) = Ranges!Range(O[o][1], O[o][2])
      BY <3>3 DEF Ranges!Held
    <3>5. Ranges!Held(o) = c..(c + live'[c].size - 1)
      BY <3>3, <3>4 DEF Ranges!Range
    <3> QED BY <3>2, <3>5
  <2> QED BY <2>1, <2>2
<1>15. Ranges!Fits(t, a, n)
  BY <1>12, <1>14 DEF Ranges!Fits, Ranges!Range
<1>16. O' = [O EXCEPT ![t] = <<a, n>>]
  <2>1. \A o \in Tags : RangeOf(o)' = IF o = t THEN <<a, n>> ELSE RangeOf(o)
    BY <1>7, <1>8, <1>9 DEF RangesGiven, a
  <2> QED BY <2>1
<1>17. CASE p = 0
  <2>1. O[t] = << >>
    BY <1>7, <1>8, <1>17 DEF RangesGiven
  <2> QED BY <1>7, <1>10, <1>12, <1>15, <1>16, <2>1 DEF Ranges!Give
<1>18. CASE p # 0
  <2>1. O[t] # << >>
    BY <1>7, <1>8, <1>18 DEF RangesGiven
  <2> QED BY <1>7, <1>10, <1>12, <1>15, <1>16, <2>1 DEF Ranges!Resize
<1> QED BY <1>17, <1>18

\* Callers see ranges that stay apart and that change by their own calls only:
\* each step up to the first corruption is a stutter or a step of Allocator
\* (malloc, realloc and free, and every routine below them).
THEOREM AllocatorImplemented == Spec => ImplementsAllocator
<1> DEFINE O == [t \in Tags |-> RangeOf(t)]
<1>1. Init => Ranges!Init
  <2> SUFFICES ASSUME Init, NEW t \in Tags PROVE RangeOf(t) = << >>
    BY DEF Ranges!Init
  <2>1. \A a \in Addr : live[a].tag = NoTag
    BY DEF Init, NotOwned
  <2>2. {a \in Addr : live[a].tag = t} = {}
    BY <2>1, CellsNat
  <2> QED BY <2>2 DEF RangeOf
<1>2. ASSUME UNCHANGED live PROVE UNCHANGED O
  BY <1>2 DEF RangeOf
<1>3. ASSUME IInv, NEW a \in Owned, Idle, Sound, GiveUp(a), UNCHANGED blocks
      PROVE  Ranges!Next
  <2>1. Types /\ Links(mem) /\ Calm
    BY <1>3, Which DEF InClient
  <2>2. \E o \in Tags : Ranges!Take(o)
    BY <1>3, <2>1, TakesRange
  <2> QED BY <2>2 DEF Ranges!Next
<1>4. ASSUME IInv, Client PROVE Ranges!Next \/ UNCHANGED O
  <2>1. CASE \E n \in Sizes \cup {0} : CallMalloc(n)
    BY <1>2, <2>1 DEF CallMalloc
  <2>2. CASE \E a \in Owned \cup {0}, n \in Sizes \cup {0} : CallRealloc(a, n)
    BY <1>2, <1>3, <1>4, <2>2 DEF CallRealloc
  <2>3. CASE \E a \in Owned \cup {0} : CallFree(a)
    BY <1>2, <1>3, <1>4, <2>3 DEF CallFree
  <2> QED BY <1>4, <2>1, <2>2, <2>3 DEF Client
<1>5. ASSUME IInv, Routine PROVE Ranges!Next \/ UNCHANGED O
  <2>1. CASE \E mark \in BOOLEAN : Done(mark)
    BY <1>5, <2>1, GivesRange DEF Ranges!Next
  <2>2. CASE MallocNothing \/ MallocBegins \/ FindNext \/ FindNothing \/ FindBest
    BY <1>2, <2>2 DEF MallocNothing, MallocBegins, FindNext, FindNothing, FindBest
  <2>3. CASE GetBlockData \/ ShrinkNothing \/ Split \/ Cut
    BY <1>2, <2>3 DEF GetBlockData, ShrinkNothing, Split, Cut
  <2>4. CASE MergeNext \/ MergePrev \/ DefragEnd \/ FreeNothing \/ FreeBlock
    BY <1>2, <2>4 DEF MergeNext, MergePrev, DefragEnd, FreeNothing, FreeBlock
  <2>5. CASE ReallocBegins \/ ExpandAppends \/ ExpandFits \/ ExpandMoves
    BY <1>2, <2>5 DEF ReallocBegins, ExpandAppends, ExpandFits, ExpandMoves
  <2>6. CASE MoveNothing \/ Move \/ Failed
    BY <1>2, <2>6 DEF MoveNothing, Move, Failed
  <2> QED BY <1>5, <2>1, <2>2, <2>3, <2>4, <2>5, <2>6 DEF Routine
<1>6. IInv /\ [Next]_vars => Ranges!Next \/ UNCHANGED O
  BY <1>2, <1>4, <1>5 DEF Next, vars
<1> QED BY <1>1, <1>6, Invariant, PTL DEF Spec, ImplementsAllocator, Ranges!Spec
=============================================================================
