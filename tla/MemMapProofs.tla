---------------------------- MODULE MemMapProofs ----------------------------
(***************************************************************************)
(* Proofs about MemMap, for every page size, kernel and memory map.        *)
(***************************************************************************)
EXTENDS MemMap, TLAPS

\* ALIGN keeps an address that is a multiple of the page size, and yields a
\* natural number.
LEMMA ALIGNNat == ASSUME NEW x \in Nat PROVE ALIGN(x) \in Nat
  BY MemMapAssumption DEF ALIGN

LEMMA ALIGNOfAligned ==
  ASSUME NEW x \in Nat, x % PageBytes = 0
  PROVE  ALIGN(x) = x
<1> DEFINE q == x \div PageBytes
<1>1. q \in Nat /\ x = q * PageBytes
  BY MemMapAssumption
<1>2. (x + (PageBytes - 1)) \div PageBytes = q
  BY <1>1, MemMapAssumption
<1> QED BY <1>1, <1>2 DEF ALIGN

\* What MemMapAssumption says of an entry other than the last.
LEMMA EntryNotLast ==
  ASSUME NEW m \in MemoryMaps, NEW i \in 1..Len(m), m[i].type # 0
  PROVE  /\ i + 1 \in 1..Len(m)
         /\ i \in 1..(Len(m) - 1)
         /\ m[i] \in MapEntry
         /\ m[i + 1] \in MapEntry
<1>1. m \in Seq(MapEntry) /\ Len(m) \in Nat
  BY MemMapAssumption
<1>2. i # Len(m)
  BY MemMapAssumption
<1> QED BY <1>1, <1>2

-----------------------------------------------------------------------------
(***************************************************************************)
(* Types: the walk never leaves the map, and size never goes below zero.   *)
(***************************************************************************)
LEMMA InitTypeOK == Init => TypeOK
<1> SUFFICES ASSUME Init PROVE TypeOK
  OBVIOUS
<1>1. map \in Seq(MapEntry) /\ Len(map) \in Nat /\ Len(map) > 0
  BY MemMapAssumption DEF Init
<1>2. map[1].base \in Nat /\ map[1].size \in Nat
  <2>1. map[1] \in MapEntry
    BY <1>1
  <2> QED BY <2>1 DEF MapEntry
<1>3. addr \in Nat
  BY <1>2, ALIGNNat DEF Init
<1> QED BY <1>1, <1>2, <1>3 DEF Init, TypeOK

LEMMA NextTypeOK == TypeOK /\ [Next]_vars => TypeOK'
<1> SUFFICES ASSUME TypeOK, [Next]_vars PROVE TypeOK'
  OBVIOUS
<1> USE DEF TypeOK
<1>0. PageBytes \in Nat /\ map \in Seq(MapEntry) /\ Len(map) \in Nat
  BY MemMapAssumption
<1>1. CASE SkipEntry
  <2>1. entry \in 1..Len(map)
    BY <1>0, <1>1 DEF SkipEntry, InEntry
  <2>2. entry + 1 \in 1..Len(map) /\ map[entry + 1] \in MapEntry
    BY <1>1, <2>1, EntryNotLast DEF SkipEntry, InEntry
  <2> QED BY <1>0, <1>1, <2>2 DEF SkipEntry, MapEntry
<1>2. CASE SkipFrame
  BY <1>0, <1>2 DEF SkipFrame, HasFrame, Advance
<1>3. CASE ReturnFrame
  BY <1>0, <1>3 DEF ReturnFrame, HasFrame, Advance
<1>4. CASE Exhaust
  BY <1>0, <1>4 DEF Exhaust
<1>5. CASE UNCHANGED vars
  BY <1>5 DEF vars
<1> QED BY <1>1, <1>2, <1>3, <1>4, <1>5 DEF Next

\* The walk over the memory map is type correct: in particular mmap_entry
\* never passes the last entry and mmap_size never wraps below zero.
THEOREM TypeCorrect == Spec => []TypeOK
  BY InitTypeOK, NextTypeOK, PTL DEF Spec

-----------------------------------------------------------------------------
(***************************************************************************)
(* No frame twice. The inductive invariant adds that every frame returned  *)
(* ends at or before addr.                                                 *)
(***************************************************************************)
FramesBelowAddr == \A i \in 1..Len(frames) : frames[i] + PageBytes <= addr

LEMMA InitFramesDistinct == Init => FramesDistinct /\ FramesBelowAddr
<1> SUFFICES ASSUME Init PROVE FramesDistinct /\ FramesBelowAddr
  OBVIOUS
<1>1. Len(frames) = 0
  BY DEF Init
<1> QED BY <1>1 DEF FramesDistinct, FramesBelowAddr

LEMMA NextFramesDistinct ==
  TypeOK /\ FramesDistinct /\ FramesBelowAddr /\ [Next]_vars
    => FramesDistinct' /\ FramesBelowAddr'
<1> SUFFICES ASSUME TypeOK, FramesDistinct, FramesBelowAddr, [Next]_vars
             PROVE  FramesDistinct' /\ FramesBelowAddr'
  OBVIOUS
<1> USE DEF TypeOK
<1>0. PageBytes \in Nat /\ KernelTop \in Nat
  BY MemMapAssumption
<1>1. CASE frames' = frames /\ addr' \in Nat /\ addr' >= addr
  <2>1. FramesDistinct'
    BY <1>1 DEF FramesDistinct
  <2>2. FramesBelowAddr'
    BY <1>0, <1>1 DEF FramesBelowAddr
  <2> QED BY <2>1, <2>2
<1>2. CASE ReturnFrame
  <2>1. /\ frames' = Append(frames, addr)
        /\ addr >= KernelTop
        /\ addr' = addr + PageBytes
    BY <1>2 DEF ReturnFrame, Advance
  <2>2. /\ Len(frames') = Len(frames) + 1
        /\ frames'[Len(frames) + 1] = addr
        /\ \A i \in 1..Len(frames) : frames'[i] = frames[i]
    BY <2>1
  <2>3. FramesBelowAddr'
    BY <1>0, <2>1, <2>2 DEF FramesBelowAddr
  <2>4. FramesDistinct'
    <3> SUFFICES ASSUME NEW i \in 1..Len(frames')
                 PROVE  /\ frames'[i] >= KernelTop
                        /\ \A j \in 1..Len(frames') :
                             i < j => frames'[i] + PageBytes <= frames'[j]
      BY DEF FramesDistinct
    <3>1. CASE i \in 1..Len(frames)
      <4>1. frames'[i] >= KernelTop
        BY <2>2, <3>1 DEF FramesDistinct
      <4>2. ASSUME NEW j \in 1..Len(frames'), i < j
            PROVE  frames'[i] + PageBytes <= frames'[j]
        <5>1. CASE j \in 1..Len(frames)
          BY <2>2, <3>1, <4>2, <5>1 DEF FramesDistinct
        <5>2. CASE j = Len(frames) + 1
          BY <2>2, <3>1, <5>2 DEF FramesBelowAddr
        <5> QED BY <2>2, <5>1, <5>2
      <4> QED BY <4>1, <4>2
    <3>2. CASE i = Len(frames) + 1
      BY <1>0, <2>1, <2>2, <3>2
    <3> QED BY <2>2, <3>1, <3>2
  <2> QED BY <2>3, <2>4
<1>3. CASE SkipEntry \/ Exhaust \/ UNCHANGED vars
  BY <1>1, <1>3 DEF SkipEntry, Exhaust, vars
<1>4. CASE SkipFrame
  BY <1>0, <1>1, <1>4 DEF SkipFrame, Advance
<1> QED BY <1>2, <1>3, <1>4 DEF Next

\* PopMemMapFrame never returns overlapping frames, nor one of the kernel's,
\* whatever map the loader hands over.
THEOREM FramesAreDistinct == Spec => []FramesDistinct
<1>1. Spec => [](FramesDistinct /\ FramesBelowAddr)
  BY TypeCorrect, InitFramesDistinct, NextFramesDistinct, PTL DEF Spec
<1> QED BY <1>1, PTL

-----------------------------------------------------------------------------
(***************************************************************************)
(* Frames lie in available memory. The inductive invariant says where addr *)
(* is: never so far that what is left of an available entry would end past *)
(* the region, nor past the base of an entry that will be skipped.         *)
(***************************************************************************)
LowMap == /\ Sorted(map)
          /\ KernelRegionLast(map)
          /\ map[1].base % PageBytes = 0

AddrLags ==
    InEntry => IF map[entry].type = MAP_AVAILABLE
               THEN addr + size <= End(map[entry])
               ELSE addr <= map[entry].base

LagInv == LowMap => AddrLags /\ FramesAvailable

LEMMA InitLagInv == Init => LagInv
<1> SUFFICES ASSUME Init, LowMap PROVE AddrLags /\ FramesAvailable
  BY DEF LagInv
<1>1. map \in Seq(MapEntry) /\ Len(map) \in Nat /\ Len(map) > 0
  BY MemMapAssumption DEF Init
<1>2. map[1].base \in Nat /\ map[1].size \in Nat
  <2>1. map[1] \in MapEntry
    BY <1>1
  <2> QED BY <2>1 DEF MapEntry
<1>3. addr = map[1].base
  BY <1>2, ALIGNOfAligned DEF Init, LowMap
<1>4. AddrLags
  BY <1>2, <1>3 DEF Init, AddrLags, InEntry, End
<1>5. FramesAvailable
  BY DEF Init, FramesAvailable
<1> QED BY <1>4, <1>5

LEMMA NextLagInv == TypeOK /\ LagInv /\ [Next]_vars => LagInv'
<1> SUFFICES ASSUME TypeOK, LagInv, [Next]_vars, LowMap'
             PROVE  AddrLags' /\ FramesAvailable'
  BY DEF LagInv
<1> USE DEF TypeOK
<1>0. /\ PageBytes \in Nat /\ KernelTop \in Nat
      /\ map \in Seq(MapEntry) /\ Len(map) \in Nat
  BY MemMapAssumption
<1>1. map' = map
  BY DEF Next, SkipEntry, SkipFrame, ReturnFrame, Exhaust, vars
<1>2. LowMap /\ AddrLags /\ FramesAvailable
  BY <1>1 DEF LowMap, Sorted, KernelRegionLast, End, LagInv
<1>3. CASE SkipEntry
  <2>1. /\ entry \in 1..(Len(map) - 1)
        /\ entry + 1 \in 1..Len(map)
        /\ map[entry] \in MapEntry
        /\ map[entry + 1] \in MapEntry
    BY <1>0, <1>3, EntryNotLast DEF SkipEntry, InEntry
  <2>2. addr <= End(map[entry])
    <3>1. \/ addr + size <= map[entry].base + map[entry].size
          \/ addr <= map[entry].base
      BY <1>2, <1>3 DEF SkipEntry, AddrLags, End
    <3>2. /\ map[entry].base \in Nat /\ map[entry].size \in Nat
          /\ addr \in Nat /\ size \in Nat
      BY <2>1 DEF MapEntry
    <3> QED BY <3>1, <3>2 DEF End
  <2>3. AddrLags'
    <3> SUFFICES ASSUME InEntry'
                 PROVE  addr + map[entry + 1].size <= End(map[entry + 1])
                        /\ addr <= map[entry + 1].base
      BY <1>1, <1>3 DEF SkipEntry, AddrLags
    <3>1. entry + 1 \in 1..(Len(map) - 1)
      BY <1>1, <1>3, <2>1, EntryNotLast DEF SkipEntry, InEntry
    <3>2. End(map[entry]) <= map[entry + 1].base
      BY <1>0, <1>2, <2>1, <3>1 DEF LowMap, Sorted
    <3>3. /\ map[entry + 1].base \in Nat /\ map[entry + 1].size \in Nat
          /\ End(map[entry]) \in Nat /\ addr \in Nat
      BY <2>1 DEF End, MapEntry
    <3> QED BY <2>2, <3>2, <3>3 DEF End
  <2>4. FramesAvailable'
    BY <1>1, <1>2, <1>3 DEF SkipEntry, FramesAvailable, LowMap
  <2> QED BY <2>3, <2>4
<1>4. CASE SkipFrame \/ ReturnFrame
  <2>1. /\ entry \in 1..Len(map) /\ map[entry] \in MapEntry
        /\ map[entry].type = MAP_AVAILABLE /\ size >= PageBytes
        /\ entry' = entry
        /\ addr' = addr + PageBytes /\ size' = size - PageBytes
    BY <1>0, <1>4 DEF SkipFrame, ReturnFrame, InEntry, HasFrame, Advance
  <2>2. addr + size <= End(map[entry])
    BY <1>2, <1>4, <2>1 DEF AddrLags, SkipFrame, ReturnFrame
  <2>3. AddrLags'
    BY <1>0, <1>1, <2>1, <2>2 DEF AddrLags, End, MapEntry
  <2>4. FramesAvailable'
    <3>1. CASE SkipFrame
      BY <1>1, <1>2, <3>1 DEF SkipFrame, FramesAvailable, LowMap
    <3>2. CASE ReturnFrame
      <4>1. /\ map[entry].base <= KernelTop /\ KernelTop <= addr
            /\ frames' = Append(frames, addr)
        BY <1>2, <2>1, <3>2 DEF LowMap, KernelRegionLast, ReturnFrame
      <4>2. Inside(addr, map[entry])
        <5>1. map[entry].base \in Nat /\ map[entry].size \in Nat
          BY <2>1 DEF MapEntry
        <5>2. map[entry].base <= addr
          BY <1>0, <4>1, <5>1
        <5>3. addr + PageBytes <= End(map[entry])
          BY <1>0, <2>1, <2>2, <5>1 DEF End
        <5> QED BY <5>2, <5>3 DEF Inside
      <4>3. \A i \in 1..Len(frames) : \E k \in 1..Len(map) :
              map[k].type = MAP_AVAILABLE /\ Inside(frames[i], map[k])
        BY <1>2 DEF FramesAvailable, LowMap
      <4>4. \A i \in 1..Len(frames') : \E k \in 1..Len(map) :
              map[k].type = MAP_AVAILABLE /\ Inside(frames'[i], map[k])
        BY <2>1, <4>1, <4>2, <4>3
      <4> QED BY <1>1, <4>4 DEF FramesAvailable, Inside, End
    <3> QED BY <1>4, <3>1, <3>2
  <2> QED BY <2>3, <2>4
<1>5. CASE Exhaust
  BY <1>1, <1>2, <1>5 DEF Exhaust, AddrLags, InEntry, FramesAvailable, LowMap
<1>6. CASE UNCHANGED vars
  BY <1>2, <1>6 DEF vars, AddrLags, InEntry, End, FramesAvailable, LowMap
<1> QED BY <1>3, <1>4, <1>5, <1>6 DEF Next

\* On a machine whose usable regions all start below the end of the kernel,
\* every frame PopMemMapFrame returns is available memory.
THEOREM FramesAreAvailable == Spec => []FramesAvailable
<1>1. Spec => []LagInv
  BY TypeCorrect, InitLagInv, NextLagInv, PTL DEF Spec
<1>2. LagInv => FramesAvailable
  BY DEF LagInv, FramesAvailable, LowMap
<1> QED BY <1>1, <1>2, PTL
=============================================================================
