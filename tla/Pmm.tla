-------------------------------- MODULE Pmm --------------------------------
(***************************************************************************)
(* The physical memory manager, kernel/mm/pmm.c: pmm_init builds the       *)
(* bitmap from the E820 map the boot loader left in memory, after which    *)
(* drivers and the page-table code take pages from it and give them back.  *)
(*                                                                         *)
(* Addresses and byte counts are those of the code, scaled by the          *)
(* constants.  `owner' and `reserved' are history variables: the pages     *)
(* each caller has been given and not returned, and the pages withheld by  *)
(* pmm_mark_used.                                                          *)
(***************************************************************************)
EXTENDS PmmBitmap, Sequences, FiniteSets

CONSTANTS
    PageSize,      \* PAGE_SIZE
    UptrMod,       \* 2^(width of unsigned long and uptr): 2^32 or 2^64
    Maps,          \* the E820 maps considered: sequences of entries
    LowEnd,        \* 0x100000, the end of the low megabyte
    KernelStart,   \* 0x10000, where the kernel image starts
    KernelEnd,     \* _bss_end
    BmStart,       \* address of the bitmap array
    BmSize,        \* sizeof(bitmap)
    MarkRanges,    \* <<start, end>> ranges a driver may reserve
    Clients        \* callers of the allocator

Addr == 0 .. UptrMod - 1
E820_TYPE_USABLE == 1
Entry == [base : Nat, length : Nat, type : Nat]

ASSUME PmmAssumption ==
    /\ PageSize \in Nat \ {0}
    /\ UptrMod \in Nat \ {0}
    /\ Maps \subseteq Seq(Entry)
    /\ {LowEnd, KernelStart, KernelEnd, BmStart} \subseteq Addr
    /\ BmSize \in Nat
    /\ MarkRanges \subseteq Addr \X Addr

VARIABLES
    map,           \* the E820 map passed to pmm_init
    i,             \* pmm_init's loop index (entries handled so far)
    up,            \* pmm_init has returned
    bitmap, total_bytes, used_bytes,
    owner,         \* history: pages held by each client
    reserved       \* history: pages withheld by pmm_mark_used

vars == <<map, i, up, bitmap, total_bytes, used_bytes, owner, reserved>>

-----------------------------------------------------------------------------
(* PAGE_ALIGN(a) and `a & ~(PAGE_SIZE - 1)'.  PAGE_SIZE is an unsigned     *)
(* long, so its complement has the width of uptr: the mask also clears     *)
(* every bit of a 64-bit address above that width.                         *)
PageFloor(a) == ((a \div PageSize) * PageSize) % UptrMod
PageAlign(a) == PageFloor(a + PageSize - 1)

addr_to_page(a) == a \div PageSize

(* Does not stop at the end of the bitmap.                                 *)
PageRangeUnbounded(lo, hi) == lo .. hi - 1

(* Bits of the bitmap from page index lo up to (not including) hi.         *)
PageRange(lo, hi) == {p \in Pages : lo <= p /\ p < hi}

(* The pages pmm_mark_used(start, end) sets.                               *)
MarkedPages(start, end) ==
    PageRange(addr_to_page(start), addr_to_page(PageAlign(end)))

(* The three pmm_mark_used calls of pmm_init.                              *)
BootReserved ==
    MarkedPages(0, LowEnd)
      \cup MarkedPages(KernelStart, PageAlign(KernelEnd))
      \cup MarkedPages(BmStart, PageAlign(BmStart + BmSize))

-----------------------------------------------------------------------------
(* pmm_init has run its memset: every bit is set.                          *)
Init ==
    /\ map \in Maps
    /\ i = 0
    /\ up = FALSE
    /\ bitmap = Pages
    /\ total_bytes = 0
    /\ used_bytes = 0
    /\ owner = [c \in Clients |-> {}]
    /\ reserved = {}

(* Rounds a usable entry outwards instead of inwards.                      *)
InitEntryRoundOut ==
    /\ ~up
    /\ i < Len(map)
    /\ i' = i + 1
    /\ LET e     == map[i + 1]
           start == PageFloor(e.base)
           end   == PageAlign(e.base + e.length)
       IN  IF e.type # E820_TYPE_USABLE \/ end <= start
           THEN UNCHANGED <<bitmap, total_bytes>>
           ELSE /\ total_bytes' = total_bytes + (end - start)
                /\ bitmap' = bitmap \ PageRange(addr_to_page(start),
                                                addr_to_page(end))
    /\ UNCHANGED <<map, up, used_bytes, owner, reserved>>

(* One iteration of pmm_init's loop over the E820 entries.                 *)
InitEntry ==
    /\ ~up
    /\ i < Len(map)
    /\ i' = i + 1
    /\ LET e     == map[i + 1]
           start == PageAlign(e.base)
           end   == PageFloor(e.base + e.length)
       IN  IF e.type # E820_TYPE_USABLE \/ end <= start
           THEN UNCHANGED <<bitmap, total_bytes>>
           ELSE /\ total_bytes' = total_bytes + (end - start)
                /\ bitmap' = bitmap \ PageRange(addr_to_page(start),
                                                addr_to_page(end))
    /\ UNCHANGED <<map, up, used_bytes, owner, reserved>>

(* The rest of pmm_init: reserve, then count the set bits.                 *)
InitFinish ==
    /\ ~up
    /\ i = Len(map)
    /\ up' = TRUE
    /\ bitmap' = bitmap \cup BootReserved
    /\ reserved' = BootReserved
    /\ used_bytes' = PageSize * Cardinality(bitmap')
    /\ UNCHANGED <<map, i, total_bytes, owner>>

(* Hands a run out without setting its bits.                               *)
TakeUnmarked(c, run) ==
    /\ used_bytes' = used_bytes + PageSize * Cardinality(run)
    /\ owner' = [owner EXCEPT ![c] = @ \cup run]
    /\ UNCHANGED bitmap

(* set_page on each page of a run, with its used_bytes update, for c.      *)
Take(c, run) ==
    /\ bitmap' = bitmap \cup run
    /\ used_bytes' = used_bytes + PageSize * Cardinality(run)
    /\ owner' = [owner EXCEPT ![c] = @ \cup run]

(* pmm_alloc_n(n), which returns 0 for n = 0 or when no run is found.  The *)
(* loop that finds the run is module PmmScan.                              *)
pmm_alloc_n(c, n) ==
    /\ up
    /\ \/ /\ n > 0
          /\ \E s \in Pages : IsFirstFit(bitmap, s, n) /\ Take(c, Run(s, n))
       \/ (n = 0 \/ NoFit(bitmap, n)) /\ UNCHANGED <<bitmap, used_bytes, owner>>
    /\ UNCHANGED <<map, i, up, total_bytes, reserved>>

(* pmm_alloc: the lowest clear bit other than bit 0.                       *)
pmm_alloc(c) ==
    /\ up
    /\ \/ \E s \in Pages : IsFirstFit(bitmap, s, 1) /\ Take(c, {s})
       \/ NoFit(bitmap, 1) /\ UNCHANGED <<bitmap, used_bytes, owner>>
    /\ UNCHANGED <<map, i, up, total_bytes, reserved>>

(* Frees without looking at the page's bit.                                *)
pmm_free_untested(c, idx) ==
    /\ up
    /\ IF idx >= MaxPages
       THEN UNCHANGED <<bitmap, used_bytes, owner>>
       ELSE /\ bitmap' = bitmap \ {idx}
            /\ used_bytes' = used_bytes - PageSize
            /\ owner' = [owner EXCEPT ![c] = @ \ {idx}]
    /\ UNCHANGED <<map, i, up, total_bytes, reserved>>

(* pmm_free(idx * PAGE_SIZE): ignored beyond the bitmap and for a page     *)
(* whose bit is already clear.                                             *)
pmm_free(c, idx) ==
    /\ up
    /\ IF idx >= MaxPages \/ idx \notin bitmap
       THEN UNCHANGED <<bitmap, used_bytes, owner>>
       ELSE /\ bitmap' = bitmap \ {idx}
            /\ used_bytes' = used_bytes - PageSize
            /\ owner' = [owner EXCEPT ![c] = @ \ {idx}]
    /\ UNCHANGED <<map, i, up, total_bytes, reserved>>

(* Frees the page after the run too: i <= n for i < n.                     *)
pmm_free_n_one_more(c, s, n) ==
    /\ up
    /\ LET freed == Run(s, n + 1) \cap bitmap
       IN  /\ bitmap' = bitmap \ freed
           /\ used_bytes' = used_bytes - PageSize * Cardinality(freed)
           /\ owner' = [owner EXCEPT ![c] = @ \ freed]
    /\ UNCHANGED <<map, i, up, total_bytes, reserved>>

(* pmm_free_n: pmm_free on each page of the run.                           *)
pmm_free_n(c, s, n) ==
    /\ up
    /\ LET freed == Run(s, n) \cap bitmap
       IN  /\ bitmap' = bitmap \ freed
           /\ used_bytes' = used_bytes - PageSize * Cardinality(freed)
           /\ owner' = [owner EXCEPT ![c] = @ \ freed]
    /\ UNCHANGED <<map, i, up, total_bytes, reserved>>

(* pmm_mark_used after boot.                                               *)
pmm_mark_used(start, end) ==
    /\ up
    /\ LET new == MarkedPages(start, end) \ bitmap
       IN  /\ bitmap' = bitmap \cup new
           /\ used_bytes' = used_bytes + PageSize * Cardinality(new)
    /\ reserved' = reserved \cup MarkedPages(start, end)
    /\ UNCHANGED <<map, i, up, total_bytes, owner>>

-----------------------------------------------------------------------------
Owned == UNION {owner[c] : c \in Clients}

(* Callers return only pages they hold, or a page that is already free or  *)
(* out of range (a repeated or mistaken free the code is meant to ignore), *)
(* and reserve only ranges nobody has been given.                          *)
FreePage(c) ==
    \E idx \in owner[c] \cup ((Pages \cup {MaxPages}) \ bitmap) :
        pmm_free(c, idx)

FreeRun(c, n) ==
    \E s \in Pages : Run(s, n) \subseteq owner[c] /\ pmm_free_n(c, s, n)

MarkRange ==
    \E r \in MarkRanges :
        MarkedPages(r[1], r[2]) \cap Owned = {} /\ pmm_mark_used(r[1], r[2])

Next ==
    \/ InitEntry
    \/ InitFinish
    \/ MarkRange
    \/ \E c \in Clients :
          \/ pmm_alloc(c)
          \/ FreePage(c)
          \/ \E n \in 0 .. MaxPages : pmm_alloc_n(c, n) \/ FreeRun(c, n)

Spec == Init /\ [][Next]_vars

-----------------------------------------------------------------------------
(* The bitmap and the histories hold pages only, although frees and        *)
(* reservations may name addresses beyond it, and used_bytes, an unsigned  *)
(* counter, is never decremented below zero.                               *)
TypeOK ==
    /\ map \in Maps
    /\ i \in 0 .. Len(map)
    /\ up \in BOOLEAN
    /\ bitmap \in SUBSET Pages
    /\ total_bytes \in Nat
    /\ used_bytes \in Nat
    /\ owner \in [Clients -> SUBSET Pages]
    /\ reserved \in SUBSET Pages

(* No page is ever held by two callers at once, whatever the order of      *)
(* allocations, frees and ignored double frees: the reason DMA rings, page *)
(* tables and USB context arrays can share one allocator.                  *)
ExclusiveOwnership ==
    \A c, d \in Clients : c # d => owner[c] \cap owner[d] = {}

(* A page held by a caller or withheld by pmm_mark_used keeps its bit set, *)
(* and the two never overlap: a free of one caller's page cannot expose    *)
(* another's, the kernel image, or the bitmap itself.                      *)
HeldPagesMarked ==
    /\ Owned \subseteq bitmap
    /\ Owned \cap reserved = {}
    /\ reserved \subseteq bitmap

(* used_bytes, updated incrementally by every operation, always equals     *)
(* what recounting the bitmap (as pmm_init does) would give.               *)
UsedBytesExact == up => used_bytes = PageSize * Cardinality(bitmap)

(* Pages wholly inside a usable E820 entry.                                *)
UsablePages ==
    {p \in Pages : \E k \in DOMAIN map :
        /\ map[k].type = E820_TYPE_USABLE
        /\ map[k].base <= p * PageSize
        /\ (p + 1) * PageSize <= map[k].base + map[k].length}

(* Every page handed out is real memory: wholly inside a usable entry of   *)
(* the boot loader's map.                                                  *)
OnlyUsableHandedOut == Owned \subseteq UsablePages

(* No E820 entry reaches the top of the machine's address space, so the    *)
(* rounding of pmm_init loses no address bits.                             *)
NoWrap ==
    \A m \in Maps : \A k \in DOMAIN m :
        m[k].base + m[k].length + PageSize <= UptrMod

(* Strengthens OnlyUsableHandedOut: the free pages are usable too.         *)
UsableInv == OnlyUsableHandedOut /\ Pages \ bitmap \subseteq UsablePages

(* Nothing is handed out or withheld before pmm_init has counted the       *)
(* bitmap.                                                                 *)
NothingBeforeUp == ~up => reserved = {} /\ \A c \in Clients : owner[c] = {}

(* The inductive invariant of the proofs in PmmProofs.                     *)
Inv ==
    /\ TypeOK
    /\ NothingBeforeUp
    /\ ExclusiveOwnership
    /\ HeldPagesMarked
    /\ UsedBytesExact
=============================================================================
