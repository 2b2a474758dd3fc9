------------------------------- MODULE Memory -------------------------------
(***************************************************************************)
(* The physical and virtual memory manager of the kernel,                  *)
(* kernel/arch/x86_64/memory.cpp: the stack of free frames and the         *)
(* four-level page tables, through Initialize, Allocate and Free.          *)
(*                                                                         *)
(* A virtual address is its page number v. The entry that translates v at  *)
(* level x (4 for P4 ... 1 for P1) is the slot <<x, n>> where n is what    *)
(* the address keeps above that level's index: the same pair of a table    *)
(* and an index that GetPxTable(v) and GetPxEntryIndex(v) compute. The     *)
(* tables are pte, a function from slots to entries; a slot whose parent   *)
(* is not present has no memory behind it and is held as NotPresent.       *)
(***************************************************************************)
EXTENDS Naturals, FiniteSets, Sequences, SequencesExt

CONSTANTS
    Entries,      \* entries of a page table and addresses of a stack page (512)
    Page,         \* page numbers of the virtual addresses that are ever used
    LowerHalfEnd, \* first page of the higher half of the address space
    KernelBase,   \* page that physical address 0 is mapped to
    KernelPages,  \* pages mapped from KernelBase on: up to ALIGN(kernel_end)
    CodePages,    \* those of them from kernel_start up to kernel_data
    ClientPages,  \* pages that callers pass to Allocate and Free
    Requests,     \* the (exec, write, user) arguments callers pass
    FrameLimit,   \* frame numbers the mask 0x7FFFF000 keeps are below this
    Maps          \* what PopMemMapFrame may return over time (module MemMap)

VARIABLES
    ram,     \* the frames of this machine's memory map, which never change
    phase,   \* "init" inside Initialize's last loop, then "run"
    pool,    \* the part of ram that PopMemMapFrame has yet to return
    stack,   \* contents of the frame stack, top last
    pte,     \* every page table entry
    req,     \* history: the request under which a client page was mapped
    enomem,  \* history: MapPage has run out of frames once
    stuck    \* a fault whose handler returned to the faulting instruction

vars == <<ram, phase, pool, stack, pte, req, enomem, stuck>>

Request == [exec : BOOLEAN, write : BOOLEAN, user : BOOLEAN]

NoRequest == [exec |-> FALSE, write |-> FALSE, user |-> FALSE]

(***************************************************************************)
(* The entries that translate a page, one for each level, and the tree     *)
(* they form.                                                              *)
(***************************************************************************)
Walk(v) == LET E == Entries
           IN  << <<1, v>>,
                  <<2, v \div E>>,
                  <<3, (v \div E) \div E>>,
                  <<4, ((v \div E) \div E) \div E>> >>

Slots == {Walk(v)[x] : v \in Page, x \in 1..4}

Parent(s) == <<s[1] + 1, s[2] \div Entries>>

\* The entries of the table that entry s points at.
Below(s) == {t \in Slots : Parent(t) = s}

(***************************************************************************)
(* Entries. The count of present entries lies in bits 52-60 of the entry   *)
(* above, as wide as the index: a full table counts as 0. Decrementing     *)
(* that 0 leaves ones above the field, where bit 63 is PAGE_NOEXECUTE.     *)
(***************************************************************************)
NotPresent == [present |-> FALSE, frame |-> 0, write |-> FALSE,
               user |-> FALSE, nx |-> FALSE, count |-> 0]

Entry == [present : BOOLEAN, frame : Nat, write : BOOLEAN,
          user : BOOLEAN, nx : BOOLEAN, count : 0..(Entries - 1)]

\* Mutants: the count leaves its field; a full table keeps the count below.
IncEntryCountWide(e) == [e EXCEPT !.count = e.count + 1]

IncEntryCountSaturated(e) ==
    [e EXCEPT !.count = IF e.count = Entries - 1 THEN e.count ELSE e.count + 1]

IncEntryCount(e) == [e EXCEPT !.count = (e.count + 1) % Entries]

\* Mutant: 0 is taken for an empty table, a full one included.
DecEntryCountFloored(e) ==
    [e EXCEPT !.count = IF e.count = 0 THEN 0 ELSE e.count - 1]

DecEntryCount(e) == [e EXCEPT !.count = (e.count + (Entries - 1)) % Entries,
                              !.nx    = e.nx \/ e.count = 0]

\* Mutant: off by one.
HasMoreEntries(e) == e.count > 1

HasEntries(e) == e.count # 0

(***************************************************************************)
(* What Initialize maps before its last loop: the pages of the kernel to   *)
(* the frames from 0 on, with P4, P3, P2 and then each P1 table in the     *)
(* frames after them. All kernel pages lie below one P3 entry.             *)
(***************************************************************************)
KernelEnd == KernelBase + KernelPages

KernelPage == KernelBase..(KernelEnd - 1)

KernelSlots == {Walk(v)[x] : v \in KernelPage, x \in 1..4}

P4Frame == KernelPages

KernelTableFrame(s) ==
    CASE s[1] = 4 -> KernelPages + 1
      [] s[1] = 3 -> KernelPages + 2
      [] s[1] = 2 -> KernelPages + 3 + (s[2] - KernelBase \div Entries)

KernelEntry(s) ==
    IF s[1] = 1
    THEN [present |-> TRUE, frame |-> s[2] - KernelBase,
          write |-> s[2] \notin CodePages, user |-> FALSE,
          nx |-> s[2] \notin CodePages, count |-> 0]
    ELSE [present |-> TRUE, frame |-> KernelTableFrame(s), write |-> TRUE,
          user |-> FALSE, nx |-> FALSE,
          count |-> Cardinality(Below(s) \cap KernelSlots) % Entries]

\* PADDR(kernel_page_table_end): the first frame that is not the kernel's.
KernelTop == KernelPages + 3
             + ((KernelEnd - 1) \div Entries - KernelBase \div Entries) + 1

\* Sizes, and a kernel image that fits below one P3 entry, as kernel.ld links it.
ASSUME KernelAssumption ==
    /\ Entries \in Nat /\ Entries > 1
    /\ KernelBase \in Nat /\ KernelPages \in Nat /\ KernelPages > 0
    /\ KernelBase % (Entries * Entries) = 0
    /\ KernelPages <= Entries * Entries
    /\ CodePages \subseteq KernelPage
    /\ LowerHalfEnd \in Nat
    /\ FrameLimit \in Nat /\ FrameLimit > 0

ASSUME PageAssumption ==
    /\ Page \subseteq Nat /\ IsFiniteSet(Page)
    /\ KernelPage \subseteq Page
    /\ ClientPages \subseteq Page \ KernelPage
    /\ Requests \subseteq Request

\* Module MemMap shows that PopMemMapFrame never returns a frame twice, nor
\* one of the kernel's.
ASSUME MapAssumption ==
    /\ Maps \subseteq Seq(Nat)
    /\ \A m \in Maps : \A i \in 1..Len(m) : m[i] >= KernelTop
    /\ \A m \in Maps : \A i, j \in 1..Len(m) : m[i] = m[j] => i = j

\* Callers stay clear of the addresses the frame stack grows into: n frames on
\* it have cost a frame for each of its pages that is full.
ASSUME StackAssumption ==
    \A m \in Maps : \A n \in 0..Len(m) : n + n \div Entries < Len(m) =>
        KernelEnd + n \div Entries \in Page \ ClientPages

(***************************************************************************)
(* MapPage. The levels without a present entry are filled from the top     *)
(* one down, each with the next frame that pop returns: src lists what pop *)
(* returns, in order. A new table is zeroed, and each fill below the top   *)
(* level is counted in the entry above. Running out leaves the levels      *)
(* filled so far, and ok is FALSE (ENOMEM).                                *)
(***************************************************************************)
Missing(pt, v) ==
    CHOOSE m \in 0..4 : /\ \A x \in (m + 1)..4 : pt[Walk(v)[x]].present
                        /\ m > 0 => ~ pt[Walk(v)[m]].present

MapPage(pt, v, flags, src) ==
    LET top      == Missing(pt, v)
        taken    == IF Len(src) < top THEN Len(src) ELSE top
        last     == top - taken
        New(s)   == last < s[1] /\ s[1] <= top /\ s = Walk(v)[s[1]]
        Fresh(x) == [present |-> TRUE, frame |-> src[top - x + 1],
                     write |-> flags.write, user |-> flags.user,
                     nx |-> flags.nx, count |-> 0]
    IN  [ok    |-> taken = top,
         taken |-> taken,
         pte   |-> [s \in Slots |->
                      CASE New(s) /\ s[1] > last + 1 -> IncEntryCount(Fresh(s[1]))
                        [] New(s) /\ s[1] = last + 1 -> Fresh(s[1])
                        [] ~ New(s) /\ New(Parent(s)) -> NotPresent
                        [] ~ New(s) /\ taken > 0 /\ top < 4
                             /\ s = Walk(v)[top + 1] -> IncEntryCount(pt[s])
                        [] OTHER -> pt[s]]]

(***************************************************************************)
(* The frame stack starts right after the kernel and grows up by one       *)
(* address per push.                                                       *)
(***************************************************************************)
StackPage(n) == KernelEnd + n \div Entries

StackMapped(n) == /\ StackPage(n) \in Page
                  /\ pte[Walk(StackPage(n))[1]].present

StackFlags == [write |-> TRUE, user |-> FALSE, nx |-> FALSE]

\* What PopStackFrame returns, call after call.
Pops == Reverse(stack)

(***************************************************************************)
(* Initialize.                                                             *)
(***************************************************************************)
Init == /\ ram \in Maps
        /\ phase = "init"
        /\ pool = ram
        /\ stack = << >>
        /\ pte = [s \in Slots |-> IF s \in KernelSlots THEN KernelEntry(s)
                                                       ELSE NotPresent]
        /\ req = [v \in ClientPages |-> NoRequest]
        /\ enomem = FALSE
        /\ stuck = FALSE

\* Mutants: PushStackFrame stores the frame when MapPage failed; a frame that
\* cannot be pushed is tried again.
PushMapFrameUnchecked ==
    /\ phase = "init"
    /\ pool # << >>
    /\ LET m == MapPage(pte, StackPage(Len(stack)), StackFlags, Tail(pool))
       IN  /\ pte' = m.pte
           /\ pool' = SubSeq(Tail(pool), m.taken + 1, Len(Tail(pool)))
           /\ stack' = Append(stack, Head(pool))
           /\ enomem' = (enomem \/ ~ m.ok)
    /\ UNCHANGED <<ram, phase, req, stuck>>

PushMapFrameAgain ==
    /\ phase = "init"
    /\ pool # << >>
    /\ LET m == MapPage(pte, StackPage(Len(stack)), StackFlags, Tail(pool))
       IN  /\ pte' = m.pte
           /\ pool' = IF m.ok THEN SubSeq(pool, m.taken + 2, Len(pool)) ELSE pool
           /\ stack' = IF m.ok THEN Append(stack, Head(pool)) ELSE stack
           /\ enomem' = (enomem \/ ~ m.ok)
    /\ UNCHANGED <<ram, phase, req, stuck>>

\* One round of Initialize's loop: PushStackFrame of the next frame of the
\* memory map. The stack page takes its own frames from the map too. When
\* they run out, the frame to be pushed is dropped.
PushMapFrame ==
    /\ phase = "init"
    /\ pool # << >>
    /\ LET m == MapPage(pte, StackPage(Len(stack)), StackFlags, Tail(pool))
       IN  /\ pte' = m.pte
           /\ pool' = SubSeq(Tail(pool), m.taken + 1, Len(Tail(pool)))
           /\ stack' = IF m.ok THEN Append(stack, Head(pool)) ELSE stack
           /\ enomem' = (enomem \/ ~ m.ok)
    /\ UNCHANGED <<ram, phase, req, stuck>>

\* The memory map has no frame left and Initialize returns.
EndInitialize ==
    /\ phase = "init"
    /\ pool = << >>
    /\ phase' = "run"
    /\ UNCHANGED <<ram, pool, stack, pte, req, enomem, stuck>>

(***************************************************************************)
(* Allocate. PAGE_NOEXECUTE is bit 63 and flags is an int, which loses it. *)
(***************************************************************************)
AllocateFlags(r) == [write |-> r.write, user |-> r.user, nx |-> FALSE]

\* GetPxTable keeps the sign of the address but sets the index 510 above it:
\* in the lower half the window on the tables is not a canonical address.
CanReachTables(v) == v >= LowerHalfEnd

\* Mutant: the kernel writes to read-only pages (CR0.WP clear).
CanZeroAnyTable(v, r) == TRUE

\* memset on a new table goes through its own new entry, and the processor
\* honours a clear PAGE_WRITE there (stage 2 of the loader sets CR0.WP).
CanZeroTable(v, r) == r.write \/ Missing(pte, v) < 2 \/ stack = << >>

Allocate(v, r) ==
    /\ phase = "run" /\ ~ stuck
    /\ CanReachTables(v)
    /\ CanZeroTable(v, r)
    /\ LET m == MapPage(pte, v, AllocateFlags(r), Pops)
       IN  /\ pte' = m.pte
           /\ stack' = SubSeq(stack, 1, Len(stack) - m.taken)
           /\ req' = IF m.ok /\ m.taken > 0 THEN [req EXCEPT ![v] = r] ELSE req
           /\ enomem' = (enomem \/ ~ m.ok)
    /\ UNCHANGED <<ram, phase, pool, stuck>>

\* The write of memset faults, PageFaultHandler returns, the write is tried
\* again: the table's entry is in place and its frame is off the stack.
AllocateFaultsOnTable(v, r) ==
    /\ phase = "run" /\ ~ stuck
    /\ CanReachTables(v)
    /\ ~ CanZeroTable(v, r)
    /\ pte' = [pte EXCEPT ![Walk(v)[Missing(pte, v)]] =
                 [NotPresent EXCEPT !.present = TRUE, !.frame = Head(Pops),
                                    !.user = r.user]]
    /\ stack' = SubSeq(stack, 1, Len(stack) - 1)
    /\ stuck' = TRUE
    /\ UNCHANGED <<ram, phase, pool, req, enomem>>

AllocateFaults(v) ==
    /\ phase = "run" /\ ~ stuck
    /\ ~ CanReachTables(v)
    /\ stuck' = TRUE
    /\ UNCHANGED <<ram, phase, pool, stack, pte, req, enomem>>

(***************************************************************************)
(* Free. UnmapPage clears the P1 entry, counts it off in the P2 entry,     *)
(* clears that one if it has no entries left, and so on up to P4. The      *)
(* frame of each cleared entry is pushed on the stack: with the memory map *)
(* used up, a push that would need a new stack page drops its frame.       *)
(***************************************************************************)
\* Mutant: UnmapPage stops below P4.
ClearedBelowP4(v) ==
    CHOOSE c \in 1..3 :
        /\ \A x \in 2..c : ~ HasEntries(DecEntryCount(pte[Walk(v)[x]]))
        /\ c < 3 => HasEntries(DecEntryCount(pte[Walk(v)[c + 1]]))

Cleared(v) ==
    CHOOSE c \in 1..4 :
        /\ \A x \in 2..c : ~ HasEntries(DecEntryCount(pte[Walk(v)[x]]))
        /\ c < 4 => HasEntries(DecEntryCount(pte[Walk(v)[c + 1]]))

\* Mutant: the entry of an emptied table is left present.
UnmappedPageOnly(v) ==
    [s \in Slots |-> IF s = Walk(v)[1] THEN NotPresent
                     ELSE IF s \in {Walk(v)[x] : x \in 2..4} THEN DecEntryCount(pte[s])
                     ELSE pte[s]]

Unmapped(v) ==
    LET c == Cleared(v)
    IN  [s \in Slots |->
           CASE s[1] <= c /\ s = Walk(v)[s[1]] -> NotPresent
             [] s[1] = c + 1 /\ s = Walk(v)[s[1]] -> DecEntryCount(pte[s])
             [] OTHER -> pte[s]]

\* Mutant: the frames of emptied tables are not pushed.
FreedPageOnly(v) == <<pte[Walk(v)[1]].frame % FrameLimit>>

Freed(v) == [x \in 1..Cleared(v) |-> pte[Walk(v)[x]].frame % FrameLimit]

Kept(n) == CHOOSE k \in 0..n :
             /\ \A i \in 1..k : StackMapped(Len(stack) + i - 1)
             /\ k < n => ~ StackMapped(Len(stack) + k)

\* With no P1 entry present, Free returns OK and changes nothing.
Free(v) ==
    /\ phase = "run" /\ ~ stuck
    /\ CanReachTables(v)
    /\ Missing(pte, v) = 0
    /\ pte' = Unmapped(v)
    /\ stack' = stack \o SubSeq(Freed(v), 1, Kept(Len(Freed(v))))
    /\ req' = [req EXCEPT ![v] = NoRequest]
    /\ UNCHANGED <<ram, phase, pool, enomem, stuck>>

\* UnmapPage reads the P1 entry first, present or not its table.
FreeFaults(v) ==
    /\ phase = "run" /\ ~ stuck
    /\ CanReachTables(v) => Missing(pte, v) > 1
    /\ stuck' = TRUE
    /\ UNCHANGED <<ram, phase, pool, stack, pte, req, enomem>>

Next == \/ PushMapFrame
        \/ EndInitialize
        \/ \E v \in ClientPages, r \in Requests : Allocate(v, r)
        \/ \E v \in ClientPages, r \in Requests : AllocateFaultsOnTable(v, r)
        \/ \E v \in ClientPages : AllocateFaults(v)
        \/ \E v \in ClientPages : Free(v)
        \/ \E v \in ClientPages : FreeFaults(v)

\* Initialize runs on the boot processor with nothing to wait for.
Spec == Init /\ [][Next]_vars /\ WF_vars(PushMapFrame \/ EndInitialize)

-----------------------------------------------------------------------------
(***************************************************************************)
(* Properties.                                                             *)
(***************************************************************************)
Present == {s \in Slots : pte[s].present}

\* Every variable holds a value of its kind.
TypeOK == /\ ram \in Seq(Nat)
          /\ phase \in {"init", "run"}
          /\ pool \in Seq(Nat)
          /\ stack \in Seq(Nat)
          /\ pte \in [Slots -> Entry]
          /\ req \in [ClientPages -> Request]
          /\ enomem \in BOOLEAN
          /\ stuck \in BOOLEAN

\* No two present entries hold the same frame.
EntriesApart == \A s, t \in Present : pte[s].frame = pte[t].frame => s = t

AllDifferent(q) == \A i, j \in 1..Len(q) : q[i] = q[j] => i = j

\* No present entry holds a frame of q.
NotHeld(q) == \A s \in Present : \A i \in 1..Len(q) : pte[s].frame # q[i]

\* A frame has one owner: no two entries hold the same frame, the frames on
\* the stack and those still to come from the memory map are all different,
\* and none of them is held by an entry (MapPage, UnmapPage, PushStackFrame
\* and PopStackFrame together).
FramesExclusive ==
    /\ EntriesApart
    /\ AllDifferent(stack)
    /\ AllDifferent(pool)
    /\ \A i \in 1..Len(stack), j \in 1..Len(pool) : stack[i] # pool[j]
    /\ NotHeld(stack)
    /\ NotHeld(pool)

\* The count in an entry is the number of present entries of the table it
\* points at, up to the width of the field (IncEntryCount, DecEntryCount).
CountsExact ==
    \A s \in Present : s[1] > 1 /\ ~ stuck =>
        pte[s].count = Cardinality(Below(s) \cap Present) % Entries

\* A table that holds a present entry is itself present: although a full
\* table counts as 0, UnmapPage never gives away the frame of a table in use.
NoOrphans == \A s \in Present : s[1] < 4 => Parent(s) \in Present

\* Every address of the frame stack lies on a page that is mapped writable,
\* so PopStackFrame and the store in PushStackFrame do not fault.
StackIsMapped ==
    \A n \in 0..(Len(stack) - 1) :
        StackMapped(n) /\ \A x \in 1..4 : pte[Walk(StackPage(n))[x]].write

\* Free returns every frame, those of emptied tables included, and failed
\* calls of Allocate lose none. A memory map that ends while it is pushed can
\* cost four: the frame that was to be pushed, and the three tables added for
\* a stack page that never came. If Free clears one of these, the stack has
\* no room for its frame.
Unowned == {f \in ToSet(ram) :
              /\ f \notin ToSet(stack) \cup ToSet(pool)
              /\ \A s \in Present : pte[s].frame # f}

FramesKept == Cardinality(Unowned) <= (IF enomem THEN 4 ELSE 0)

\* Unless memory ran out, a table is kept only while it holds an entry: the
\* tables that MapPage added go back to the stack with the last page below.
NoEmptyTables ==
    ~ enomem /\ ~ stuck =>
        \A s \in Present : s[1] > 1 => Below(s) \cap Present # {}

\* Whether a mapped client page can be written is what its caller asked for,
\* whatever pages share its tables (the flags that MapPage gives to tables).
WriteHonoured ==
    \A v \in ClientPages : pte[Walk(v)[1]].present =>
        ((\A x \in 1..4 : pte[Walk(v)[x]].write) <=> req[v].write)

\* A page that was mapped for execution stays executable while others come
\* and go: PAGE_NOEXECUTE is set for pages only, as their callers asked.
ExecKept ==
    \A v \in ClientPages : pte[Walk(v)[1]].present /\ req[v].exec =>
        \A x \in 1..4 : ~ pte[Walk(v)[x]].nx

\* Initialize's loop comes to an end.
InitializeReturns == <>(phase = "run")

(***************************************************************************)
(* What callers may rely on: the pages they map, each to a frame of its    *)
(* own, and nothing of the stack or the tables.                            *)
(***************************************************************************)
Mapping == [v \in ClientPages |->
              IF pte[<<1, v>>].present THEN <<pte[<<1, v>>].frame>> ELSE << >>]

Client == INSTANCE AddressSpace WITH space <- Mapping,
                                     Frame <- UNION {ToSet(m) : m \in Maps}

\* The page tables and the frame stack implement an address space.
ImplementsAddressSpace == Client!Spec
=============================================================================
