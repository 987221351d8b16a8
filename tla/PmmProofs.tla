----------------------------- MODULE PmmProofs -----------------------------
(* Proofs about the physical memory manager, for every bitmap length, page *)
(* size, E820 map and set of callers, and about the page tables above it,  *)
(* for tables of any size.                                                 *)
EXTENDS Vmm, FiniteSetTheorems, FunctionTheorems, WellFoundedInduction, TLAPS

-----------------------------------------------------------------------------
(* Counting bits.                                                          *)

(* A set of pages is finite.                                               *)
LEMMA CardPages == ASSUME NEW S \in SUBSET Pages
                   PROVE  IsFiniteSet(S) /\ Cardinality(S) \in Nat
  <1>1. IsFiniteSet(Pages)
      BY FS_Interval, MaxPagesAssumption DEF Pages
  <1> QED
      BY <1>1, FS_Subset, FS_CardinalityType

(* Setting clear bits adds their number to the count.                      *)
LEMMA CardAdd ==
  ASSUME NEW S \in SUBSET Pages, NEW T \in SUBSET Pages, S \cap T = {}
  PROVE  Cardinality(S \cup T) = Cardinality(S) + Cardinality(T)
  <1>1. Cardinality(S \cup T)
          = Cardinality(S) + Cardinality(T) - Cardinality(S \cap T)
      BY FS_Union, CardPages
  <1> QED
      BY <1>1, FS_EmptySet, CardPages

(* Multiplication distributes over addition.                               *)
LEMMA Distrib ==
  ASSUME NEW a \in Nat, NEW b \in Nat, NEW c \in Nat
  PROVE  /\ a * (b + c) = a * b + a * c
         /\ a * b \in Nat
  OBVIOUS

(* The same for bytes: setting clear bits ...                              *)
LEMMA BytesAdd ==
  ASSUME NEW S \in SUBSET Pages, NEW T \in SUBSET Pages, S \cap T = {}
  PROVE  PageSize * Cardinality(S \cup T)
           = PageSize * Cardinality(S) + PageSize * Cardinality(T)
  BY CardAdd, CardPages, Distrib, PmmAssumption

(* ... and clearing set ones.                                              *)
LEMMA BytesRemove ==
  ASSUME NEW S \in SUBSET Pages, NEW T \in SUBSET S
  PROVE  PageSize * Cardinality(S \ T)
           = PageSize * Cardinality(S) - PageSize * Cardinality(T)
  <1>1. (S \ T) \cup T = S /\ (S \ T) \cap T = {}
      OBVIOUS
  <1>2. PageSize * Cardinality(S)
          = PageSize * Cardinality(S \ T) + PageSize * Cardinality(T)
      BY <1>1, BytesAdd
  <1>3. /\ PageSize * Cardinality(S \ T) \in Nat
        /\ PageSize * Cardinality(T) \in Nat
      BY CardPages, Distrib, PmmAssumption
  <1> QED
      BY <1>2, <1>3

(* The bytes of a set of pages are a natural number.                       *)
LEMMA BytesNat == ASSUME NEW S \in SUBSET Pages
                  PROVE  PageSize * Cardinality(S) \in Nat
  BY CardPages, Distrib, PmmAssumption

-----------------------------------------------------------------------------
(* Rounding down gives an address.                                         *)
LEMMA PageFloorNat == ASSUME NEW a \in Nat PROVE PageFloor(a) \in Nat
  <1>1. a \div PageSize \in Nat
      BY PmmAssumption
  <1>2. (a \div PageSize) * PageSize \in Nat
      BY <1>1, PmmAssumption
  <1> QED
      BY <1>2, PmmAssumption DEF PageFloor

(* pmm_mark_used stops at the end of the bitmap.                           *)
LEMMA MarkedInPages == ASSUME NEW a, NEW b
                       PROVE  MarkedPages(a, b) \in SUBSET Pages
  BY DEF MarkedPages, PageRange

(* So do the three calls of pmm_init.                                      *)
LEMMA BootReservedInPages == BootReserved \in SUBSET Pages
  BY MarkedInPages DEF BootReserved

-----------------------------------------------------------------------------
(* The initial state, and what each operation preserves.                   *)

(* The bitmap after memset satisfies the invariant.                        *)
LEMMA InvInit == Init => Inv
  <1> SUFFICES ASSUME Init PROVE Inv
      OBVIOUS
  <1>1. i \in 0 .. Len(map)
      BY PmmAssumption DEF Init
  <1>2. up \in BOOLEAN /\ ~up
      BY DEF Init
  <1>3. TypeOK
      BY <1>1, <1>2 DEF Init, TypeOK
  <1>4. Owned = {}
      BY DEF Init, Owned
  <1>5. NothingBeforeUp /\ ExclusiveOwnership
      BY DEF Init, NothingBeforeUp, ExclusiveOwnership
  <1>6. HeldPagesMarked
      BY <1>4 DEF Init, HeldPagesMarked
  <1>7. UsedBytesExact
      BY <1>2 DEF UsedBytesExact
  <1> QED
      BY <1>3, <1>5, <1>6, <1>7 DEF Inv

(* Handling one E820 entry preserves it.                                   *)
LEMMA InvInitEntry == Inv /\ InitEntry => Inv'
  <1> SUFFICES ASSUME Inv, InitEntry PROVE Inv'
      OBVIOUS
  <1>1. map \in Seq(Entry) /\ i + 1 \in 1 .. Len(map)
      BY PmmAssumption DEF Inv, TypeOK, InitEntry
  <1>2. map[i + 1] \in Entry
      BY <1>1
  <1> DEFINE e     == map[i + 1]
             start == PageAlign(e.base)
             end   == PageFloor(e.base + e.length)
  <1>3. start \in Nat /\ end \in Nat
    <2>1. e.base + PageSize - 1 \in Nat /\ e.base + e.length \in Nat
        BY <1>2, PmmAssumption DEF Entry
    <2> QED
        BY <2>1, PageFloorNat DEF PageAlign
  <1>4. \/ bitmap' = bitmap /\ total_bytes' = total_bytes
        \/ /\ end > start
           /\ total_bytes' = total_bytes + (end - start)
           /\ bitmap' = bitmap \ PageRange(addr_to_page(start), addr_to_page(end))
      BY <1>3 DEF InitEntry
  <1> HIDE DEF start, end
  <1>5. bitmap' \in SUBSET Pages /\ total_bytes' \in Nat
      BY <1>3, <1>4 DEF Inv, TypeOK
  <1>6. TypeOK'
      BY <1>1, <1>5 DEF Inv, TypeOK, InitEntry
  <1>7. ~up /\ ~up' /\ reserved' = {} /\ owner' = owner
          /\ \A c \in Clients : owner'[c] = {}
      BY DEF InitEntry, Inv, NothingBeforeUp
  <1>8. Owned' = {}
      BY <1>7 DEF Owned
  <1>9. NothingBeforeUp' /\ ExclusiveOwnership'
      BY <1>7 DEF NothingBeforeUp, ExclusiveOwnership
  <1>10. HeldPagesMarked'
      BY <1>7, <1>8 DEF HeldPagesMarked
  <1>11. UsedBytesExact'
      BY <1>7 DEF UsedBytesExact
  <1> QED
      BY <1>6, <1>9, <1>10, <1>11 DEF Inv

(* Reserving and counting establish the part about used_bytes.             *)
LEMMA InvInitFinish == Inv /\ InitFinish => Inv'
  <1> SUFFICES ASSUME Inv, InitFinish PROVE Inv'
      OBVIOUS
  <1>1. bitmap' \in SUBSET Pages /\ reserved' \in SUBSET Pages
      BY BootReservedInPages DEF Inv, TypeOK, InitFinish
  <1>2. used_bytes' = PageSize * Cardinality(bitmap') /\ used_bytes' \in Nat
      BY <1>1, BytesNat DEF InitFinish
  <1>3. up' = TRUE /\ up' \in BOOLEAN
      BY DEF InitFinish
  <1>4. TypeOK'
      BY <1>1, <1>2, <1>3 DEF Inv, TypeOK, InitFinish
  <1>5. owner' = owner /\ \A c \in Clients : owner'[c] = {}
      BY DEF InitFinish, Inv, NothingBeforeUp
  <1>6. Owned' = {}
      BY <1>5 DEF Owned
  <1>7. NothingBeforeUp' /\ ExclusiveOwnership'
      BY <1>3, <1>5 DEF NothingBeforeUp, ExclusiveOwnership
  <1>8. HeldPagesMarked'
      BY <1>6 DEF HeldPagesMarked, InitFinish
  <1>9. UsedBytesExact'
      BY <1>2 DEF UsedBytesExact
  <1> QED
      BY <1>4, <1>7, <1>8, <1>9 DEF Inv

(* The pages taken were free, so nobody held them.                         *)
LEMMA InvTake ==
  ASSUME Inv, up, NEW c \in Clients, NEW run \in SUBSET Pages,
         run \cap bitmap = {}, Take(c, run),
         UNCHANGED <<map, i, up, total_bytes, reserved>>
  PROVE  Inv'
  <1>1. /\ bitmap' = bitmap \cup run
        /\ owner' \in [Clients -> SUBSET Pages]
        /\ owner'[c] = owner[c] \cup run
        /\ \A d \in Clients : d # c => owner'[d] = owner[d]
      BY DEF Take, Inv, TypeOK
  <1>2. used_bytes' = PageSize * Cardinality(bitmap')
      BY <1>1, BytesAdd DEF Take, Inv, TypeOK, UsedBytesExact
  <1>3. bitmap' \in SUBSET Pages /\ used_bytes' \in Nat
      BY <1>1, <1>2, BytesNat DEF Inv, TypeOK
  <1>4. TypeOK'
      BY <1>1, <1>3 DEF Inv, TypeOK
  <1>5. NothingBeforeUp' /\ UsedBytesExact'
      BY <1>2 DEF NothingBeforeUp, UsedBytesExact
  <1>6. \A d \in Clients : owner[d] \cap run = {}
      BY DEF Inv, HeldPagesMarked, Owned
  <1>7. ExclusiveOwnership'
      BY <1>1, <1>6 DEF Inv, ExclusiveOwnership
  <1>8. Owned' = Owned \cup run
      BY <1>1 DEF Owned
  <1>9. HeldPagesMarked'
      BY <1>1, <1>8 DEF Inv, HeldPagesMarked
  <1> QED
      BY <1>4, <1>5, <1>7, <1>9 DEF Inv

(* A step that changes nothing preserves it.                               *)
LEMMA InvUnchanged == Inv /\ UNCHANGED vars => Inv'
  <1> SUFFICES ASSUME Inv, UNCHANGED vars PROVE Inv'
      OBVIOUS
  <1>1. Owned' = Owned
      BY DEF vars, Owned
  <1> QED
      BY <1>1 DEF vars, Inv, TypeOK, NothingBeforeUp, ExclusiveOwnership,
                  HeldPagesMarked, UsedBytesExact

(* pmm_alloc_n preserves it.                                               *)
LEMMA InvAllocN ==
  ASSUME Inv, NEW c \in Clients, NEW n \in Nat, pmm_alloc_n(c, n)
  PROVE  Inv'
  <1>1. CASE n > 0 /\ \E s \in Pages : IsFirstFit(bitmap, s, n) /\ Take(c, Run(s, n))
    <2>1. PICK s \in Pages : IsFirstFit(bitmap, s, n) /\ Take(c, Run(s, n))
        BY <1>1
    <2>2. Run(s, n) \in SUBSET Pages /\ Run(s, n) \cap bitmap = {}
        BY <2>1, MaxPagesAssumption DEF IsFirstFit, IsFreeRun, Run, Pages
    <2> QED
        BY <2>1, <2>2, InvTake DEF pmm_alloc_n
  <1>2. CASE UNCHANGED <<bitmap, used_bytes, owner>>
      BY <1>2, InvUnchanged DEF pmm_alloc_n, vars
  <1> QED
      BY <1>1, <1>2 DEF pmm_alloc_n

(* pmm_alloc preserves it.                                                 *)
LEMMA InvAlloc ==
  ASSUME Inv, NEW c \in Clients, pmm_alloc(c)
  PROVE  Inv'
  <1>1. CASE \E s \in Pages : IsFirstFit(bitmap, s, 1) /\ Take(c, {s})
    <2>1. PICK s \in Pages : IsFirstFit(bitmap, s, 1) /\ Take(c, {s})
        BY <1>1
    <2>2. s \in Run(s, 1)
        BY MaxPagesAssumption DEF Run, Pages
    <2>3. {s} \in SUBSET Pages /\ {s} \cap bitmap = {}
        BY <2>1, <2>2 DEF IsFirstFit, IsFreeRun
    <2> QED
        BY <2>1, <2>3, InvTake DEF pmm_alloc
  <1>2. CASE UNCHANGED <<bitmap, used_bytes, owner>>
      BY <1>2, InvUnchanged DEF pmm_alloc, vars
  <1> QED
      BY <1>1, <1>2 DEF pmm_alloc

(* What one caller gives back was only its own.                            *)
LEMMA InvGive ==
  ASSUME Inv, up, NEW c \in Clients, NEW freed \in SUBSET owner[c],
         bitmap' = bitmap \ freed,
         used_bytes' = used_bytes - PageSize * Cardinality(freed),
         owner' = [owner EXCEPT ![c] = @ \ freed],
         UNCHANGED <<map, i, up, total_bytes, reserved>>
  PROVE  Inv'
  <1>1. freed \in SUBSET bitmap /\ freed \in SUBSET Owned
      BY DEF Inv, HeldPagesMarked, Owned
  <1>2. /\ owner' \in [Clients -> SUBSET Pages]
        /\ owner'[c] = owner[c] \ freed
        /\ \A d \in Clients : d # c => owner'[d] = owner[d]
      BY DEF Inv, TypeOK
  <1>3. used_bytes' = PageSize * Cardinality(bitmap')
      BY <1>1, BytesRemove DEF Inv, TypeOK, UsedBytesExact
  <1>4. bitmap' \in SUBSET Pages /\ used_bytes' \in Nat
      BY <1>3, BytesNat DEF Inv, TypeOK
  <1>5. TypeOK'
      BY <1>2, <1>4 DEF Inv, TypeOK
  <1>6. NothingBeforeUp' /\ UsedBytesExact'
      BY <1>3 DEF NothingBeforeUp, UsedBytesExact
  <1>7. ExclusiveOwnership'
      BY <1>2 DEF Inv, ExclusiveOwnership
  <1>8. \A d \in Clients : owner'[d] \subseteq Owned \ freed
      BY <1>2 DEF Inv, ExclusiveOwnership, Owned
  <1>9. Owned' \subseteq Owned \ freed
      BY <1>8 DEF Owned
  <1>10. HeldPagesMarked'
      BY <1>1, <1>9 DEF Inv, HeldPagesMarked
  <1> QED
      BY <1>5, <1>6, <1>7, <1>10 DEF Inv

(* pmm_free preserves it, also when it ignores its argument.               *)
LEMMA InvFreePage ==
  ASSUME Inv, NEW c \in Clients, FreePage(c)
  PROVE  Inv'
  <1>1. PICK idx \in owner[c] \cup ((Pages \cup {MaxPages}) \ bitmap) : pmm_free(c, idx)
      BY DEF FreePage
  <1>2. CASE idx >= MaxPages \/ idx \notin bitmap
      BY <1>1, <1>2, InvUnchanged DEF pmm_free, vars
  <1>3. CASE ~ (idx >= MaxPages \/ idx \notin bitmap)
    <2>1. {idx} \in SUBSET owner[c]
        BY <1>1, <1>3
    <2>2. PageSize * Cardinality({idx}) = PageSize
      <3>1. Cardinality({idx}) = 1
          BY FS_Singleton, Zenon
      <3> QED
          BY <3>1, PmmAssumption
    <2>3. /\ up
          /\ bitmap' = bitmap \ {idx}
          /\ used_bytes' = used_bytes - PageSize * Cardinality({idx})
          /\ owner' = [owner EXCEPT ![c] = @ \ {idx}]
          /\ UNCHANGED <<map, i, up, total_bytes, reserved>>
        BY <1>1, <1>3, <2>2 DEF pmm_free
    <2> QED
        BY <2>1, <2>3, InvGive
  <1> QED
      BY <1>2, <1>3

(* pmm_free_n preserves it.                                                *)
LEMMA InvFreeRun ==
  ASSUME Inv, NEW c \in Clients, NEW n \in Nat, FreeRun(c, n)
  PROVE  Inv'
  <1>1. PICK s \in Pages : Run(s, n) \subseteq owner[c] /\ pmm_free_n(c, s, n)
      BY DEF FreeRun
  <1> DEFINE freed == Run(s, n) \cap bitmap
  <1>2. freed \in SUBSET owner[c]
      BY <1>1
  <1>3. /\ up
        /\ bitmap' = bitmap \ freed
        /\ used_bytes' = used_bytes - PageSize * Cardinality(freed)
        /\ owner' = [owner EXCEPT ![c] = @ \ freed]
        /\ UNCHANGED <<map, i, up, total_bytes, reserved>>
      BY <1>1 DEF pmm_free_n
  <1> HIDE DEF freed
  <1> QED
      BY <1>2, <1>3, InvGive

(* pmm_mark_used after boot preserves it.                                  *)
LEMMA InvMarkRange == Inv /\ MarkRange => Inv'
  <1> SUFFICES ASSUME Inv, MarkRange PROVE Inv'
      OBVIOUS
  <1>1. PICK r \in MarkRanges : /\ MarkedPages(r[1], r[2]) \cap Owned = {}
                                /\ pmm_mark_used(r[1], r[2])
      BY DEF MarkRange
  <1> DEFINE marked == MarkedPages(r[1], r[2])
             new    == marked \ bitmap
  <1>2. marked \in SUBSET Pages /\ new \in SUBSET Pages /\ bitmap \cap new = {}
      BY MarkedInPages
  <1>3. /\ up
        /\ bitmap' = bitmap \cup new
        /\ used_bytes' = used_bytes + PageSize * Cardinality(new)
        /\ reserved' = reserved \cup marked
        /\ UNCHANGED <<map, i, up, total_bytes, owner>>
      BY <1>1 DEF pmm_mark_used
  <1>4. used_bytes' = PageSize * Cardinality(bitmap')
    <2> HIDE DEF new
    <2> QED
        BY <1>2, <1>3, BytesAdd DEF Inv, TypeOK, UsedBytesExact
  <1>5. bitmap' \in SUBSET Pages /\ reserved' \in SUBSET Pages /\ used_bytes' \in Nat
      BY <1>2, <1>3, <1>4, BytesNat DEF Inv, TypeOK
  <1>6. TypeOK'
      BY <1>3, <1>5 DEF Inv, TypeOK
  <1>7. NothingBeforeUp' /\ UsedBytesExact' /\ ExclusiveOwnership'
      BY <1>3, <1>4 DEF Inv, NothingBeforeUp, UsedBytesExact, ExclusiveOwnership
  <1>8. Owned' = Owned
      BY <1>3 DEF Owned
  <1>9. HeldPagesMarked'
      BY <1>1, <1>3, <1>8 DEF Inv, HeldPagesMarked
  <1> QED
      BY <1>6, <1>7, <1>9 DEF Inv

(* Every step preserves it.                                                *)
LEMMA InvNext == Inv /\ [Next]_vars => Inv'
  <1> SUFFICES ASSUME Inv, [Next]_vars PROVE Inv'
      OBVIOUS
  <1>1. CASE InitEntry
      BY <1>1, InvInitEntry
  <1>2. CASE InitFinish
      BY <1>2, InvInitFinish
  <1>3. CASE MarkRange
      BY <1>3, InvMarkRange
  <1>4. CASE \E c \in Clients : pmm_alloc(c)
      BY <1>4, InvAlloc
  <1>5. CASE \E c \in Clients : FreePage(c)
      BY <1>5, InvFreePage
  <1>6. CASE \E c \in Clients : \E n \in 0 .. MaxPages : pmm_alloc_n(c, n)
      BY <1>6, InvAllocN, MaxPagesAssumption
  <1>7. CASE \E c \in Clients : \E n \in 0 .. MaxPages : FreeRun(c, n)
      BY <1>7, InvFreeRun, MaxPagesAssumption
  <1>8. CASE UNCHANGED vars
      BY <1>8, InvUnchanged
  <1> QED
      BY <1>1, <1>2, <1>3, <1>4, <1>5, <1>6, <1>7, <1>8 DEF Next

-----------------------------------------------------------------------------
(* The conjunction of type correctness, ownership and the byte count is an *)
(* inductive invariant of pmm.c.                                           *)
THEOREM PmmInvariant == Spec => []Inv
  BY InvInit, InvNext, PTL DEF Spec

(* Every counter and bitmap stays in its range, and used_bytes never goes  *)
(* below zero.                                                             *)
THEOREM PmmTypeCorrect == Spec => []TypeOK
  <1>1. Inv => TypeOK
      BY DEF Inv
  <1> QED
      BY PmmInvariant, <1>1, PTL

(* No page has two owners, for any number of callers and any bitmap.       *)
THEOREM PmmExclusive == Spec => []ExclusiveOwnership
  <1>1. Inv => ExclusiveOwnership
      BY DEF Inv
  <1> QED
      BY PmmInvariant, <1>1, PTL

(* Pages held or withheld keep their bit set, and are never both.          *)
THEOREM PmmHeldMarked == Spec => []HeldPagesMarked
  <1>1. Inv => HeldPagesMarked
      BY DEF Inv
  <1> QED
      BY PmmInvariant, <1>1, PTL

(* The incremental used_bytes counter never drifts from the bitmap.        *)
THEOREM PmmUsedBytes == Spec => []UsedBytesExact
  <1>1. Inv => UsedBytesExact
      BY DEF Inv
  <1> QED
      BY PmmInvariant, <1>1, PTL

-----------------------------------------------------------------------------
(* Rounding: a page of the range pmm_init clears for an entry lies inside  *)
(* that entry, as long as no address of the entry wraps.                   *)

(* Rounding down to a multiple of b loses less than b.                     *)
LEMMA DivMul ==
  ASSUME NEW a \in Nat, NEW b \in Nat \ {0}
  PROVE  /\ a \div b \in Nat
         /\ (a \div b) * b <= a
         /\ a < (a \div b) * b + b
  OBVIOUS

(* PageFloor of an address that does not wrap.                             *)
LEMMA FloorOfNat ==
  ASSUME NEW a \in Nat, a < UptrMod
  PROVE  PageFloor(a) = (a \div PageSize) * PageSize
  <1>1. (a \div PageSize) * PageSize \in 0 .. UptrMod - 1
      BY DivMul, PmmAssumption
  <1> QED
      BY <1>1, PmmAssumption DEF PageFloor

(* Dividing a multiple is exact.                                           *)
LEMMA DivExact ==
  ASSUME NEW q \in Nat, NEW b \in Nat \ {0}
  PROVE  (q * b) \div b = q
  OBVIOUS

(* Multiplication is monotonic.                                            *)
LEMMA MulMono ==
  ASSUME NEW a \in Nat, NEW b \in Nat, a <= b, NEW c \in Nat
  PROVE  a * c <= b * c
  OBVIOUS

(* A page that pmm_init clears for an entry lies inside the entry.         *)
LEMMA ClearedInEntry ==
  ASSUME NEW base \in Nat, NEW length \in Nat,
         base + length + PageSize <= UptrMod,
         NEW p \in PageRange(addr_to_page(PageAlign(base)),
                             addr_to_page(PageFloor(base + length)))
  PROVE  /\ base <= p * PageSize
         /\ (p + 1) * PageSize <= base + length
  <1> DEFINE qs == (base + PageSize - 1) \div PageSize
             qe == (base + length) \div PageSize
  <1>1. /\ base + PageSize - 1 \in Nat /\ base + length \in Nat
        /\ base + PageSize - 1 < UptrMod /\ base + length < UptrMod
      BY PmmAssumption
  <1>2. /\ qs \in Nat /\ base + PageSize - 1 < qs * PageSize + PageSize
        /\ qe \in Nat /\ qe * PageSize <= base + length
      BY <1>1, DivMul, PmmAssumption
  <1>3. PageAlign(base) = qs * PageSize /\ PageFloor(base + length) = qe * PageSize
      BY <1>1, FloorOfNat DEF PageAlign
  <1> HIDE DEF qs, qe
  <1>4. /\ addr_to_page(PageAlign(base)) = qs
        /\ addr_to_page(PageFloor(base + length)) = qe
      BY <1>2, <1>3, DivExact, PmmAssumption DEF addr_to_page
  <1>5. p \in Nat /\ qs <= p /\ p + 1 <= qe
      BY <1>2, <1>4, MaxPagesAssumption DEF PageRange, Pages
  <1>6. qs * PageSize <= p * PageSize /\ (p + 1) * PageSize <= qe * PageSize
      BY <1>2, <1>5, MulMono, PmmAssumption
  <1>7. /\ qs * PageSize \in Nat /\ qe * PageSize \in Nat
        /\ p * PageSize \in Nat /\ (p + 1) * PageSize \in Nat
      BY <1>2, <1>5, PmmAssumption
  <1>8. base <= p * PageSize
      BY <1>2, <1>6, <1>7, PmmAssumption
  <1>9. (p + 1) * PageSize <= base + length
      BY <1>1, <1>2, <1>6, <1>7
  <1> QED
      BY <1>8, <1>9

(* So handling an entry frees only pages of usable memory.                 *)
LEMMA UsableEntry ==
  ASSUME NoWrap, Inv, UsableInv, InitEntry
  PROVE  UsableInv'
  <1>1. map \in Seq(Entry) /\ i + 1 \in 1 .. Len(map) /\ map \in Maps
      BY PmmAssumption DEF Inv, TypeOK, InitEntry
  <1>2. map[i + 1] \in Entry /\ i + 1 \in DOMAIN map
      BY <1>1
  <1> DEFINE e       == map[i + 1]
             cleared == PageRange(addr_to_page(PageAlign(e.base)),
                                  addr_to_page(PageFloor(e.base + e.length)))
  <1>3. e.base \in Nat /\ e.length \in Nat /\ e.base + e.length + PageSize <= UptrMod
      BY <1>1, <1>2 DEF Entry, NoWrap
  <1>4. bitmap' = bitmap \/ (e.type = E820_TYPE_USABLE /\ bitmap' = bitmap \ cleared)
      BY DEF InitEntry
  <1>5. e.type = E820_TYPE_USABLE => cleared \subseteq UsablePages
    <2> SUFFICES ASSUME e.type = E820_TYPE_USABLE, NEW p \in cleared
                 PROVE  p \in UsablePages
        OBVIOUS
    <2>1. e.base <= p * PageSize /\ (p + 1) * PageSize <= e.base + e.length
        BY <1>3, ClearedInEntry
    <2>2. p \in Pages
        BY DEF PageRange
    <2> QED
        BY <1>2, <2>1, <2>2 DEF UsablePages
  <1>6. Owned' = Owned /\ UsablePages' = UsablePages
      BY DEF InitEntry, Owned, UsablePages
  <1> HIDE DEF e, cleared
  <1> QED
      BY <1>4, <1>5, <1>6 DEF UsableInv, OnlyUsableHandedOut

(* Every other operation moves pages between the free and the held ones.   *)
LEMMA UsableMove ==
  ASSUME UsableInv, map' = map,
         Owned' \cup (Pages \ bitmap') \subseteq Owned \cup (Pages \ bitmap)
  PROVE  UsableInv'
  <1>1. UsablePages' = UsablePages
      BY DEF UsablePages
  <1> QED
      BY <1>1 DEF UsableInv, OnlyUsableHandedOut

(* Taking a run adds at most that run to what is held.                     *)
LEMMA OwnedTake ==
  ASSUME Inv, NEW c \in Clients, NEW run, Take(c, run)
  PROVE  Owned' \subseteq Owned \cup run /\ bitmap' = bitmap \cup run
  BY DEF Take, Owned, Inv, TypeOK

(* Giving pages back adds nothing to it.                                   *)
LEMMA OwnedGive ==
  ASSUME Inv, NEW c \in Clients, NEW freed,
         owner' = [owner EXCEPT ![c] = @ \ freed]
  PROVE  Owned' \subseteq Owned
  BY DEF Owned, Inv, TypeOK

(* Free pages and held pages stay inside usable memory.                    *)
LEMMA UsableNext == ASSUME NoWrap, Inv, UsableInv, [Next]_vars
                    PROVE  UsableInv'
  <1>1. CASE InitEntry
      BY <1>1, UsableEntry
  <1>2. CASE InitFinish
      BY <1>2, UsableMove DEF InitFinish, Owned
  <1>3. CASE MarkRange
      BY <1>3, UsableMove DEF MarkRange, pmm_mark_used, Owned
  <1>4. ASSUME NEW c \in Clients, pmm_alloc(c)
        PROVE  UsableInv'
    <2>1. CASE \E s \in Pages : IsFirstFit(bitmap, s, 1) /\ Take(c, {s})
      <3>1. PICK s \in Pages : IsFirstFit(bitmap, s, 1) /\ Take(c, {s})
          BY <2>1
      <3>2. s \in Pages \ bitmap
          BY <3>1, MaxPagesAssumption DEF IsFirstFit, IsFreeRun, Run, Pages
      <3> QED
          BY <1>4, <3>1, <3>2, OwnedTake, UsableMove DEF pmm_alloc
    <2>2. CASE UNCHANGED <<bitmap, used_bytes, owner>>
        BY <1>4, <2>2, UsableMove DEF pmm_alloc, Owned
    <2> QED
        BY <1>4, <2>1, <2>2 DEF pmm_alloc
  <1>5. ASSUME NEW c \in Clients, NEW n \in 0 .. MaxPages, pmm_alloc_n(c, n)
        PROVE  UsableInv'
    <2>1. CASE n > 0 /\ \E s \in Pages : IsFirstFit(bitmap, s, n) /\ Take(c, Run(s, n))
      <3>1. PICK s \in Pages : IsFirstFit(bitmap, s, n) /\ Take(c, Run(s, n))
          BY <2>1
      <3>2. Run(s, n) \subseteq Pages \ bitmap
          BY <3>1, MaxPagesAssumption DEF IsFirstFit, IsFreeRun, Run, Pages
      <3> QED
          BY <1>5, <3>1, <3>2, OwnedTake, UsableMove DEF pmm_alloc_n
    <2>2. CASE UNCHANGED <<bitmap, used_bytes, owner>>
        BY <1>5, <2>2, UsableMove DEF pmm_alloc_n, Owned
    <2> QED
        BY <1>5, <2>1, <2>2 DEF pmm_alloc_n
  <1>6. ASSUME NEW c \in Clients, FreePage(c)
        PROVE  UsableInv'
    <2>1. PICK idx \in owner[c] \cup ((Pages \cup {MaxPages}) \ bitmap) : pmm_free(c, idx)
        BY <1>6 DEF FreePage
    <2>2. CASE UNCHANGED <<bitmap, used_bytes, owner>>
        BY <2>1, <2>2, UsableMove DEF pmm_free, Owned
    <2>3. CASE /\ idx \in bitmap
               /\ bitmap' = bitmap \ {idx}
               /\ owner' = [owner EXCEPT ![c] = @ \ {idx}]
      <3>1. idx \in Owned
          BY <2>1, <2>3 DEF Owned
      <3> QED
          BY <2>1, <2>3, <3>1, OwnedGive, UsableMove DEF pmm_free
    <2> QED
        BY <2>1, <2>2, <2>3 DEF pmm_free
  <1>7. ASSUME NEW c \in Clients, NEW n \in 0 .. MaxPages, FreeRun(c, n)
        PROVE  UsableInv'
    <2>1. PICK s \in Pages : Run(s, n) \subseteq owner[c] /\ pmm_free_n(c, s, n)
        BY <1>7 DEF FreeRun
    <2>2. Run(s, n) \subseteq Owned
        BY <2>1 DEF Owned
    <2> DEFINE freed == Run(s, n) \cap bitmap
    <2>3. /\ bitmap' = bitmap \ freed
          /\ owner' = [owner EXCEPT ![c] = @ \ freed]
          /\ map' = map
        BY <2>1 DEF pmm_free_n
    <2> QED
        BY <2>2, <2>3, OwnedGive, UsableMove
  <1>8. CASE UNCHANGED vars
      BY <1>8, UsableMove DEF vars, Owned
  <1> QED
      BY <1>1, <1>2, <1>3, <1>4, <1>5, <1>6, <1>7, <1>8 DEF Next

(* If no E820 entry wraps the address type, every page pmm_alloc and       *)
(* pmm_alloc_n hand out lies wholly inside usable RAM.                     *)
THEOREM PmmOnlyUsable == ASSUME NoWrap PROVE Spec => []OnlyUsableHandedOut
  <1>1. Init => UsableInv
      BY DEF Init, UsableInv, OnlyUsableHandedOut, Owned
  <1>2. Inv /\ UsableInv /\ [Next]_vars => UsableInv'
      BY UsableNext
  <1>3. UsableInv => OnlyUsableHandedOut
      BY DEF UsableInv
  <1> QED
      BY PmmInvariant, <1>1, <1>2, <1>3, PTL DEF Spec

-----------------------------------------------------------------------------
(* The page tables.  What a build's tables hold is a function of the build *)
(* and of the contents of the tables, so the lemmas below are about any    *)
(* contents tb of a build b.                                               *)

Builds == {"x86", "x86_64"}
Levels(b) == IF b = "x86" THEN 2 ELSE 4

(* The walk's steps, as the model defines them.                            *)
IndexOf(b, v, l) == (v \div Spans[b][l]) % Fans[b][l]
Below(tb, t, k) == IF t = NoTable \/ tb[t][k].kind # "small" THEN NoTable ELSE tb[t][k].to

IsPath(b, tb, v, T) ==
    T = [l \in 1 .. Levels(b) |-> IF l = 1 THEN Root ELSE Below(tb, T[l - 1], IndexOf(b, v, l - 1))]
PathOf(b, tb, v) == CHOOSE T : IsPath(b, tb, v, T)

PhysOf(b, tb, v) ==
    LET dir == PathOf(b, tb, v)[Levels(b) - 1]
        e   == tb[dir][IndexOf(b, v, Levels(b) - 1)]
    IN  IF dir = NoTable THEN 0
        ELSE CASE e.kind = "none" -> 0
               [] e.kind = "huge" -> e.to + IndexOf(b, v, Levels(b))
               [] OTHER -> tb[e.to][IndexOf(b, v, Levels(b))].to

(* Sizes of the tables.                                                    *)
LEMMA BuildIs ==
  ASSUME NEW b \in Builds
  PROVE  /\ b \in DOMAIN Fans /\ Levels(b) \in {2, 4} /\ Len(Fans[b]) = Levels(b)
         /\ DOMAIN Fans[b] = 1 .. Levels(b)
         /\ \A l \in 1 .. Levels(b) : Fans[b][l] \in Nat \ {0} /\ 0 .. Fans[b][l] - 1 \subseteq Slots
  <1>1. b \in DOMAIN Fans /\ Levels(b) \in {2, 4}
      BY VmmAssumption DEF Builds, Levels
  <1>2. Fans[b] \in [1 .. Levels(b) -> Nat \ {0}]
    <2>1. CASE b = "x86"
        BY <2>1, VmmAssumption DEF Levels
    <2>2. CASE b = "x86_64"
        BY <2>2, VmmAssumption DEF Levels
    <2> QED
        BY <2>1, <2>2 DEF Builds
  <1>3. Len(Fans[b]) = Levels(b)
    <2> DEFINE f == Fans[b]
               n == Levels(b)
    <2>1. f \in [1 .. n -> Nat \ {0}] /\ n \in Nat
        BY <1>1, <1>2
    <2> HIDE DEF f, n
    <2>2. Len(f) = n
        BY <2>1
    <2> QED
        BY <2>2 DEF f, n
  <1>4. ASSUME NEW l \in 1 .. Levels(b) PROVE 0 .. Fans[b][l] - 1 \subseteq Slots
    <2>1. l \in DOMAIN Fans[b]
        BY <1>2
    <2> QED
        BY <1>1, <2>1 DEF Slots
  <1> QED
      BY <1>1, <1>2, <1>3, <1>4

(* The model's walk is this walk.                                          *)
LEMMA ModelWalk ==
  /\ Build \in Builds /\ Depth = Levels(Build)
  /\ \A v, l : Index(v, l) = IndexOf(Build, v, l)
  /\ \A v : Path(v) = PathOf(Build, tab, v)
  /\ \A v : vmm_phys(v) = PhysOf(Build, tab, v)
  <1>1. Build \in Builds
      BY DEF Build, Builds
  <1>2. Depth = Levels(Build)
      BY <1>1, BuildIs DEF Depth
  <1>3. ASSUME NEW v, NEW l PROVE Index(v, l) = IndexOf(Build, v, l)
      BY DEF Index, IndexOf, Span, Fan
  <1>4. ASSUME NEW v PROVE Path(v) = PathOf(Build, tab, v)
      BY <1>2 DEF Path, PathOf, IsPath, Below, Index, IndexOf, Span, Fan
  <1>5. ASSUME NEW v PROVE vmm_phys(v) = PhysOf(Build, tab, v)
      BY <1>2, <1>3, <1>4 DEF vmm_phys, PhysOf
  <1> QED
      BY <1>1, <1>2, <1>3, <1>4, <1>5

(* The walk from the root.                                                 *)
LEMMA PathIs ==
  ASSUME NEW b \in Builds, NEW tb, NEW v
  PROVE  /\ PathOf(b, tb, v)[1] = Root
         /\ \A l \in 2 .. Levels(b) :
              PathOf(b, tb, v)[l] = Below(tb, PathOf(b, tb, v)[l - 1], IndexOf(b, v, l - 1))
  <1> DEFINE t1 == Root
             t2 == Below(tb, t1, IndexOf(b, v, 1))
             t3 == Below(tb, t2, IndexOf(b, v, 2))
             t4 == Below(tb, t3, IndexOf(b, v, 3))
             f == [l \in 1 .. Levels(b) |-> IF l = 1 THEN t1 ELSE IF l = 2 THEN t2
                                           ELSE IF l = 3 THEN t3 ELSE t4]
             n == Levels(b)
  <1>1. n \in {2, 4}
      BY BuildIs
  <1>2. IsPath(b, tb, v, f)
    <2> DEFINE g == [l \in 1 .. n |-> IF l = 1 THEN Root ELSE Below(tb, f[l - 1], IndexOf(b, v, l - 1))]
    <2>1. ASSUME NEW l \in 1 .. n PROVE g[l] = f[l]
      <3>1. CASE l = 1
          BY <3>1
      <3>2. CASE l = 2
        <4>1. f[1] = t1 /\ f[2] = t2 /\ l - 1 = 1
            BY <1>1, <3>2
        <4> QED
            BY <3>2, <4>1
      <3>3. CASE l = 3
        <4>1. f[2] = t2 /\ f[3] = t3 /\ l - 1 = 2
            BY <1>1, <3>3
        <4> QED
            BY <3>3, <4>1
      <3>4. CASE l = 4
        <4>1. f[3] = t3 /\ f[4] = t4 /\ l - 1 = 3
            BY <1>1, <3>4
        <4> QED
            BY <3>4, <4>1
      <3> QED
          BY <1>1, <3>1, <3>2, <3>3, <3>4
    <2>2. f = g
        BY <2>1
    <2> QED
        BY <2>2 DEF IsPath
  <1> DEFINE T == PathOf(b, tb, v)
  <1>3. IsPath(b, tb, v, T)
    <2> HIDE DEF f
    <2> QED
        BY <1>2 DEF PathOf
  <1> HIDE DEF T, f
  <1>4. T = [l \in 1 .. n |-> IF l = 1 THEN Root ELSE Below(tb, T[l - 1], IndexOf(b, v, l - 1))]
      BY <1>3 DEF IsPath
  <1>5. T[1] = Root
    <2>1. 1 \in 1 .. n
        BY <1>1
    <2> QED
        BY <1>4, <2>1
  <1>6. ASSUME NEW l \in 2 .. n PROVE T[l] = Below(tb, T[l - 1], IndexOf(b, v, l - 1))
    <2>1. l \in 1 .. n /\ l # 1
        BY <1>1
    <2> QED
        BY <1>4, <2>1
  <1> QED
      BY <1>5, <1>6 DEF T

(* Sizes below an entry.                                                   *)
LEMMA SpansAre ==
  ASSUME NEW b \in Builds
  PROVE  /\ Spans[b][Levels(b)] = 1
         /\ \A l \in 1 .. Levels(b) - 1 : Spans[b][l] = Fans[b][l + 1] * Spans[b][l + 1]
         /\ \A l \in 1 .. Levels(b) : Spans[b][l] \in Nat \ {0}
  <1> DEFINE n == Levels(b)
             F == Fans[b]
             IsSpan(P) == P = [l \in 1 .. n |-> IF l = n THEN 1 ELSE F[l + 1] * P[l + 1]]
             S == CHOOSE P : IsSpan(P)
  <1>1. n \in {2, 4} /\ \A l \in 1 .. n : F[l] \in Nat \ {0}
      BY BuildIs
  <1>2. Spans[b] = S
    <2>1. Len(Fans[b]) = n /\ b \in DOMAIN Fans
        BY BuildIs
    <2> HIDE DEF n
    <2> QED
        BY <2>1 DEF Spans
  <1>3. \E P : IsSpan(P)
    <2>1. CASE n = 2
      <3> DEFINE P == [l \in 1 .. 2 |-> IF l = 2 THEN 1 ELSE F[2] * 1]
      <3>1. P[2] = 1
          OBVIOUS
      <3>2. IsSpan(P)
        <4>1. ASSUME NEW l \in 1 .. 2 PROVE P[l] = IF l = 2 THEN 1 ELSE F[l + 1] * P[l + 1]
          <5>1. CASE l = 1
              BY <3>1, <5>1
          <5>2. CASE l = 2
              BY <3>1, <5>2
          <5> QED
              BY <5>1, <5>2
        <4> DEFINE g == [l \in 1 .. 2 |-> IF l = 2 THEN 1 ELSE F[l + 1] * P[l + 1]]
        <4>2. P = g
            BY <4>1
        <4>3. n = 2
            BY <2>1
        <4> HIDE DEF P, n, F
        <4> QED
            BY <4>2, <4>3
      <3> QED
          BY <3>2
    <2>2. CASE n = 4
      <3> DEFINE p3 == F[4] * 1
                 p2 == F[3] * p3
                 p1 == F[2] * p2
                 P == [l \in 1 .. 4 |-> IF l = 4 THEN 1 ELSE IF l = 3 THEN p3 ELSE IF l = 2 THEN p2 ELSE p1]
      <3>1. P[4] = 1 /\ P[3] = p3 /\ P[2] = p2 /\ P[1] = p1
          OBVIOUS
      <3>2. IsSpan(P)
        <4>1. ASSUME NEW l \in 1 .. 4 PROVE P[l] = IF l = 4 THEN 1 ELSE F[l + 1] * P[l + 1]
          <5>1. CASE l = 1
            <6>1. l + 1 = 2
                BY <5>1
            <6> QED
                BY <3>1, <5>1, <6>1
          <5>2. CASE l = 2
            <6>1. l + 1 = 3
                BY <5>2
            <6> QED
                BY <3>1, <5>2, <6>1
          <5>3. CASE l = 3
            <6>1. l + 1 = 4
                BY <5>3
            <6> QED
                BY <3>1, <5>3, <6>1
          <5>4. CASE l = 4
              BY <3>1, <5>4
          <5> QED
              BY <5>1, <5>2, <5>3, <5>4
        <4> DEFINE g == [l \in 1 .. 4 |-> IF l = 4 THEN 1 ELSE F[l + 1] * P[l + 1]]
        <4>2. P = g
            BY <4>1
        <4>3. n = 4
            BY <2>2
        <4> HIDE DEF P, n, F
        <4> QED
            BY <4>2, <4>3
      <3> QED
          BY <3>2
    <2> QED
        BY <1>1, <2>1, <2>2
  <1>4. IsSpan(S)
    <2> HIDE DEF IsSpan
    <2> QED
        BY <1>3
  <1> HIDE DEF S, n, F
  <1>5. S[n] = 1
      BY <1>1, <1>4
  <1>6. ASSUME NEW l \in 1 .. n - 1 PROVE S[l] = F[l + 1] * S[l + 1]
    <2>1. l \in 1 .. n /\ l # n
        BY <1>1
    <2> QED
        BY <1>4, <2>1
  <1>7. \A l \in 1 .. n : S[l] \in Nat \ {0}
    <2>1. ASSUME NEW l \in 1 .. n - 1, S[l + 1] \in Nat \ {0} PROVE S[l] \in Nat \ {0}
      <3>1. l + 1 \in 1 .. n
          BY <1>1
      <3>2. F[l + 1] \in Nat \ {0}
          BY <1>1, <3>1
      <3> QED
          BY <1>6, <2>1, <3>2
    <2>2. CASE n = 2
      <3>1. S[2] \in Nat \ {0}
          BY <1>5, <2>2
      <3>2. S[1] \in Nat \ {0}
        <4>1. 1 \in 1 .. n - 1 /\ 1 + 1 = 2
            BY <2>2
        <4> QED
            BY <2>1, <3>1, <4>1
      <3>3. \A l \in 1 .. n : l = 1 \/ l = 2
          BY <2>2
      <3> QED
          BY <3>1, <3>2, <3>3
    <2>3. CASE n = 4
      <3>1. S[4] \in Nat \ {0}
          BY <1>5, <2>3
      <3>2. S[3] \in Nat \ {0}
        <4>1. 3 \in 1 .. n - 1 /\ 3 + 1 = 4
            BY <2>3
        <4> QED
            BY <2>1, <3>1, <4>1
      <3>3. S[2] \in Nat \ {0}
        <4>1. 2 \in 1 .. n - 1 /\ 2 + 1 = 3
            BY <2>3
        <4> QED
            BY <2>1, <3>2, <4>1
      <3>4. S[1] \in Nat \ {0}
        <4>1. 1 \in 1 .. n - 1 /\ 1 + 1 = 2
            BY <2>3
        <4> QED
            BY <2>1, <3>3, <4>1
      <3>5. \A l \in 1 .. n : l = 1 \/ l = 2 \/ l = 3 \/ l = 4
          BY <2>3
      <3> QED
          BY <3>1, <3>2, <3>3, <3>4, <3>5
    <2> QED
        BY <1>1, <2>2, <2>3
  <1> QED
      BY <1>2, <1>5, <1>6, <1>7 DEF n, F

(* Division with remainder.                                                *)
LEMMA DivRest ==
  ASSUME NEW x \in Nat, NEW a \in Nat \ {0}
  PROVE  x = a * (x \div a) + (x % a) /\ x % a \in 0 .. a - 1 /\ x \div a \in Nat
  OBVIOUS

(* There is only one quotient and remainder.                               *)
LEMMA DivOnly ==
  ASSUME NEW a \in Nat \ {0}, NEW q \in Nat, NEW m \in Nat, m < a, NEW x \in Nat, x = q * a + m
  PROVE  x \div a = q /\ x % a = m
  <1> DEFINE p == x \div a
             n == x % a
  <1>1. x = a * p + n /\ n \in 0 .. a - 1 /\ p \in Nat
      BY DivRest
  <1> HIDE DEF p, n
  <1>2. a * p = p * a
      BY <1>1
  <1>3. CASE p < q
    <2>1. (p + 1) * a <= q * a /\ (p + 1) * a = p * a + a
        BY <1>1, <1>3
    <2> QED
        BY <1>1, <1>2, <2>1
  <1>4. CASE q < p
    <2>1. (q + 1) * a <= p * a /\ (q + 1) * a = q * a + a
        BY <1>1, <1>4
    <2> QED
        BY <1>1, <1>2, <2>1
  <1>5. p = q /\ n = m
      BY <1>1, <1>2, <1>3, <1>4
  <1> QED
      BY <1>5 DEF p, n

(* Dividing twice.                                                         *)
LEMMA DivTwice ==
  ASSUME NEW x \in Nat, NEW a \in Nat \ {0}, NEW f \in Nat \ {0}
  PROVE  (x \div a) \div f = x \div (f * a)
  <1> DEFINE q == x \div a
             m == x % a
             p == q \div f
             e == q % f
             c == f * a
             d == e * a + m
  <1>1. x = a * q + m /\ m \in 0 .. a - 1 /\ q \in Nat
      BY DivRest
  <1> HIDE DEF q, m
  <1>2. q = f * p + e /\ e \in 0 .. f - 1 /\ p \in Nat
      BY <1>1, DivRest
  <1> HIDE DEF p, e
  <1>3. c \in Nat \ {0}
      OBVIOUS
  <1>4. d \in Nat /\ d < c
    <2>1. e * a \in Nat /\ (e + 1) * a = e * a + a
        BY <1>2
    <2>2. (e + 1) * a <= f * a
        BY <1>2
    <2> QED
        BY <1>1, <2>1, <2>2
  <1>5. x = p * c + d
    <2>1. a * q = a * (f * p) + a * e
        BY <1>1, <1>2
    <2>2. a * (f * p) = p * (f * a) /\ a * e = e * a
        BY <1>2
    <2> QED
        BY <1>1, <1>2, <2>1, <2>2
  <1> HIDE DEF c, d
  <1>6. x \div c = p
      BY <1>2, <1>3, <1>4, <1>5, DivOnly
  <1> QED
      BY <1>6 DEF c, p, q

(* An index is one of a table's slots.                                     *)
LEMMA IndexIs ==
  ASSUME NEW b \in Builds, NEW v \in Nat, NEW l \in 1 .. Levels(b)
  PROVE  IndexOf(b, v, l) \in 0 .. Fans[b][l] - 1 /\ IndexOf(b, v, l) \in Slots
         /\ v \div Spans[b][l] \in Nat
  <1> DEFINE S == Spans[b][l]
             F == Fans[b][l]
             q == v \div S
  <1>1. S \in Nat \ {0} /\ F \in Nat \ {0} /\ 0 .. F - 1 \subseteq Slots
      BY BuildIs, SpansAre
  <1> HIDE DEF S, F
  <1>2. q \in Nat
      BY <1>1, DivRest
  <1> HIDE DEF q
  <1>3. q % F \in 0 .. F - 1
      BY <1>1, <1>2, DivRest
  <1> QED
      BY <1>1, <1>2, <1>3 DEF IndexOf, S, F, q

(* The number of a page, one index at a time.                              *)
LEMMA NextIndex ==
  ASSUME NEW b \in Builds, NEW v \in Nat, NEW l \in 1 .. Levels(b) - 1
  PROVE  v \div Spans[b][l + 1] = (v \div Spans[b][l]) * Fans[b][l + 1] + IndexOf(b, v, l + 1)
  <1> DEFINE S == Spans[b][l + 1]
             F == Fans[b][l + 1]
             q == v \div S
  <1>1. l + 1 \in 1 .. Levels(b) /\ l \in 1 .. Levels(b)
      BY BuildIs
  <1>2. S \in Nat \ {0} /\ F \in Nat \ {0} /\ Spans[b][l] = F * S
      BY <1>1, BuildIs, SpansAre
  <1> HIDE DEF S, F
  <1>3. q \in Nat
      BY <1>2, DivRest
  <1>4. q \div F = v \div (F * S)
      BY <1>2, DivTwice
  <1> HIDE DEF q
  <1>5. q = F * (q \div F) + (q % F) /\ q \div F \in Nat
      BY <1>2, <1>3, DivRest
  <1>6. q = (q \div F) * F + (q % F)
    <2> DEFINE p == q \div F
               e == q % F
    <2>1. q = F * p + e /\ p \in Nat
        BY <1>5
    <2> HIDE DEF p, e
    <2>2. F * p = p * F
        BY <1>2, <2>1
    <2>3. q = p * F + e
        BY <2>1, <2>2
    <2> QED
        BY <2>3 DEF p, e
  <1> QED
      BY <1>2, <1>4, <1>6 DEF IndexOf, S, F, q

(* A virtual page is below the root entry of its first index.              *)
LEMMA TopIndex ==
  ASSUME NEW b \in Builds, NEW v \in Virt
  PROVE  v \in Nat /\ IndexOf(b, v, 1) = v \div Spans[b][1]
  <1> DEFINE S == Spans[b][1]
             F == Fans[b][1]
             q == v \div S
  <1>1. 1 \in 1 .. Levels(b) /\ S \in Nat \ {0} /\ F \in Nat \ {0}
      BY BuildIs, SpansAre
  <1>2. v \in Nat /\ v < F * S
    <2>1. NVirt \in Nat /\ NVirt <= F * S /\ b \in DOMAIN Fans
        BY VmmAssumption, BuildIs
    <2>2. F * S \in Nat
        BY <1>1
    <2> HIDE DEF S, F
    <2> QED
        BY <2>1, <2>2 DEF Virt
  <1> HIDE DEF S, F
  <1>3. q \in Nat /\ v = S * q + (v % S) /\ v % S \in 0 .. S - 1
      BY <1>1, <1>2, DivRest
  <1> HIDE DEF q
  <1>4. q < F
    <2> SUFFICES ASSUME q >= F PROVE FALSE
        BY <1>1, <1>3
    <2>1. S * q >= S * F /\ S * F = F * S
        BY <1>1, <1>3
    <2> DEFINE z == v % S
    <2>2. z \in Nat /\ v = S * q + z
        BY <1>1, <1>3
    <2> HIDE DEF z
    <2>3. S * q \in Nat /\ F * S \in Nat
        BY <1>1, <1>3
    <2> QED
        BY <1>2, <2>1, <2>2, <2>3
  <1>5. q % F = q
      BY ONLY <1>1, <1>3, <1>4
  <1> QED
      BY <1>2, <1>5 DEF IndexOf, S, F, q

(* Two virtual pages with the same indices are the same.                   *)
LEMMA IndicesTell ==
  ASSUME NEW b \in Builds, NEW v \in Virt, NEW w \in Virt,
         \A l \in 1 .. Levels(b) : IndexOf(b, v, l) = IndexOf(b, w, l)
  PROVE  v = w
  <1> DEFINE n == Levels(b)
             Same(l) == v \div Spans[b][l] = w \div Spans[b][l]
  <1>1. n \in {2, 4} /\ v \in Nat /\ w \in Nat
      BY BuildIs, TopIndex
  <1>2. Same(1)
    <2>1. 1 \in 1 .. n
        BY <1>1
    <2> QED
        BY <2>1, TopIndex
  <1>3. ASSUME NEW l \in 1 .. n - 1, Same(l) PROVE Same(l + 1)
    <2>1. l + 1 \in 1 .. n
        BY <1>1
    <2>2. IndexOf(b, v, l + 1) = IndexOf(b, w, l + 1)
        BY <2>1
    <2>3. v \div Spans[b][l + 1] = (v \div Spans[b][l]) * Fans[b][l + 1] + IndexOf(b, v, l + 1)
        BY <1>1, NextIndex
    <2>4. w \div Spans[b][l + 1] = (w \div Spans[b][l]) * Fans[b][l + 1] + IndexOf(b, w, l + 1)
        BY <1>1, NextIndex
    <2> QED
        BY ONLY <1>3, <2>2, <2>3, <2>4, Zenon
  <1> HIDE DEF Same
  <1>4. Same(n)
    <2>1. CASE n = 2
      <3>1. 1 \in 1 .. n - 1 /\ 1 + 1 = 2
          BY <2>1
      <3> QED
          BY <1>2, <1>3, <2>1, <3>1
    <2>2. CASE n = 4
      <3>1. 1 \in 1 .. n - 1 /\ 1 + 1 = 2 /\ 2 \in 1 .. n - 1 /\ 2 + 1 = 3 /\ 3 \in 1 .. n - 1 /\ 3 + 1 = 4
          BY <2>2
      <3>2. Same(2)
          BY <1>2, <1>3, <3>1
      <3>3. Same(3)
          BY <1>3, <3>1, <3>2
      <3>4. Same(4)
          BY <1>3, <3>1, <3>3
      <3> QED
          BY <2>2, <3>4
    <2> QED
        BY <1>1, <2>1, <2>2
  <1>5. Spans[b][n] = 1
      BY SpansAre
  <1>6. v \div 1 = w \div 1
      BY <1>4, <1>5 DEF Same
  <1> QED
      BY <1>1, <1>6

(* The entries of tables, and what memory may hold.                        *)
TableEntries == [to : Nat, kind : {"none", "small", "huge"}]
Contents == [Pages \cup {Root} -> [Slots -> TableEntries]]

IsLink(b, tb, lev, t, k) == lev[t] < Levels(b) /\ tb[t][k].kind = "small"

(* The tables H, with their levels, are a tree: the links lead to tables   *)
(* of the next level, each table but the root has one, and large pages are *)
(* found only in the tables above the last.                                *)
Tree(b, tb, H, lev) ==
    /\ tb \in Contents
    /\ Root \in H /\ H \subseteq Pages \cup {Root}
    /\ lev \in [H -> 1 .. Levels(b)] /\ lev[Root] = 1
    /\ \A t \in H, k \in Slots : IsLink(b, tb, lev, t, k) =>
           tb[t][k].to \in H \ {Root} /\ lev[tb[t][k].to] = lev[t] + 1
    /\ \A t, u \in H, k, m \in Slots :
           IsLink(b, tb, lev, t, k) /\ IsLink(b, tb, lev, u, m) /\ tb[t][k].to = tb[u][m].to
               => t = u /\ k = m
    /\ \A p \in H \ {Root} : \E t \in H, k \in Slots :
           IsLink(b, tb, lev, t, k) /\ tb[t][k].to = p
    /\ \A t \in H, k \in Slots : tb[t][k].kind = "huge" => lev[t] = Levels(b) - 1

(* ub is tb with page t made a table below a free entry of u.              *)
Extends(b, tb, H, lev, u, k, t, ub) ==
    /\ Tree(b, tb, H, lev) /\ u \in H /\ k \in Slots
    /\ lev[u] < Levels(b) /\ tb[u][k].kind = "none"
    /\ t \in Pages \ H /\ ub \in Contents /\ ub[u][k].to = t /\ ub[u][k].kind = "small"
    /\ \A m \in Slots : ub[t][m].kind # "small"
    /\ \A m \in Slots : ub[t][m].kind = "huge" => lev[u] + 1 = Levels(b) - 1
    /\ \A x \in H, m \in Slots : ~ (x = u /\ m = k) => ub[x][m] = tb[x][m]

(* Neither the root nor the mark for no table is a page.                   *)
LEMMA NotPages == Root \notin Pages /\ NoTable \notin Pages /\ NoTable # Root
                  /\ Pages \subseteq Nat
  BY MaxPagesAssumption DEF Root, NoTable, Pages

(* What holds at the root and is passed down holds on every level.         *)
LEMMA LevelInduction ==
  ASSUME NEW b \in Builds, NEW S, 1 \in S, \A l \in 1 .. Levels(b) - 1 : l \in S => l + 1 \in S
  PROVE  \A l \in 1 .. Levels(b) : l \in S
  <1> DEFINE n == Levels(b)
  <1>1. n \in {2, 4}
      BY BuildIs
  <1> HIDE DEF n
  <1>2. CASE n = 2
    <2>1. 1 \in 1 .. n - 1 /\ 1 + 1 = 2 /\ 1 .. n = {1, 2}
        BY <1>2
    <2>2. 2 \in S
        BY <2>1 DEF n
    <2> QED
        BY <2>1, <2>2 DEF n
  <1>3. CASE n = 4
    <2>1. /\ 1 \in 1 .. n - 1 /\ 1 + 1 = 2 /\ 2 \in 1 .. n - 1 /\ 2 + 1 = 3
          /\ 3 \in 1 .. n - 1 /\ 3 + 1 = 4 /\ 1 .. n = {1, 2, 3, 4}
        BY <1>3
    <2>2. 2 \in S
        BY <2>1 DEF n
    <2>3. 3 \in S
        BY <2>1, <2>2 DEF n
    <2>4. 4 \in S
        BY <2>1, <2>3 DEF n
    <2> QED
        BY <2>1, <2>2, <2>3, <2>4 DEF n
  <1> QED
      BY <1>1, <1>2, <1>3

(* A table's entries.                                                      *)
LEMMA EntryIs ==
  ASSUME NEW tb \in Contents, NEW t \in Pages \cup {Root}, NEW k \in Slots
  PROVE  tb[t][k] \in TableEntries /\ tb[t][k].to \in Nat /\ tb[t][k].kind \in {"none", "small", "huge"}
  BY DEF Contents, TableEntries

(* The tables on the way are tables of the tree, on their levels.          *)
LEMMA PathLevels ==
  ASSUME NEW b \in Builds, NEW tb, NEW H, NEW lev, Tree(b, tb, H, lev), NEW v \in Nat
  PROVE  \A l \in 1 .. Levels(b) : PathOf(b, tb, v)[l] # NoTable =>
             PathOf(b, tb, v)[l] \in H /\ lev[PathOf(b, tb, v)[l]] = l
  <1> DEFINE T == PathOf(b, tb, v)
             n == Levels(b)
             S == {l \in 1 .. n : T[l] # NoTable => T[l] \in H /\ lev[T[l]] = l}
  <1>1. n \in {2, 4}
      BY BuildIs
  <1>2. 1 \in S
      BY <1>1, PathIs DEF Tree
  <1>3. ASSUME NEW l \in 1 .. n - 1, l \in S PROVE l + 1 \in S
    <2> DEFINE k == IndexOf(b, v, l)
    <2>1. l \in 1 .. n /\ l + 1 \in 2 .. n /\ l + 1 \in 1 .. n /\ (l + 1) - 1 = l
        BY <1>1
    <2>2. T[l + 1] = Below(tb, T[l], k)
        BY <2>1, PathIs
    <2>3. k \in Slots
        BY <2>1, IndexIs
    <2> HIDE DEF k, T, n
    <2>4. ASSUME T[l + 1] # NoTable PROVE T[l + 1] \in H /\ lev[T[l + 1]] = l + 1
      <3>1. T[l] # NoTable /\ tb[T[l]][k].kind = "small" /\ T[l + 1] = tb[T[l]][k].to
          BY <2>2, <2>4 DEF Below
      <3>2. T[l] \in H /\ lev[T[l]] = l
          BY <1>3, <3>1
      <3>3. l < n
          BY <1>1
      <3>4. IsLink(b, tb, lev, T[l], k)
          BY <3>1, <3>2, <3>3 DEF IsLink, n
      <3> QED
          BY <2>3, <3>1, <3>2, <3>4 DEF Tree
    <2> QED
        BY <2>1, <2>4
  <1> HIDE DEF S
  <1>4. \A l \in 1 .. n : l \in S
      BY <1>2, <1>3, LevelInduction
  <1> QED
      BY <1>4 DEF S

(* A table made for a free entry belongs to the tree.                      *)
LEMMA AddTable ==
  ASSUME NEW b \in Builds, NEW tb, NEW H, NEW lev, NEW u, NEW k, NEW t, NEW ub,
         Extends(b, tb, H, lev, u, k, t, ub),
         NEW lev2 \in [H \cup {t} -> 1 .. Levels(b)], lev2[t] = lev[u] + 1,
         \A x \in H : lev2[x] = lev[x]
  PROVE  Tree(b, ub, H \cup {t}, lev2)
  <1> USE DEF Extends
  <1> DEFINE G == H \cup {t}
             n == Levels(b)
             Linked(x, m) == IsLink(b, ub, lev2, x, m)
             Was(x, m) == x \in H /\ ~ (x = u /\ m = k) /\ IsLink(b, tb, lev, x, m)
  <1>1. /\ Root \in H /\ H \subseteq Pages \cup {Root}
        /\ lev \in [H -> 1 .. n] /\ lev[Root] = 1 /\ n \in {2, 4}
      BY BuildIs DEF Tree
  <1>2. t # u /\ t # Root /\ t \in G /\ u \in G
      BY <1>1, NotPages
  <1>3. ASSUME NEW x \in G, NEW m \in Slots PROVE Linked(x, m) <=> (x = u /\ m = k) \/ Was(x, m)
    <2>1. CASE x = t
        BY <1>2, <2>1 DEF IsLink
    <2>2. CASE x = u /\ m = k
        BY <2>2 DEF IsLink
    <2>3. CASE x \in H /\ ~ (x = u /\ m = k)
      <3>1. ub[x][m] = tb[x][m] /\ lev2[x] = lev[x]
          BY <2>3
      <3> QED
          BY ONLY <2>3, <3>1 DEF IsLink
    <2> QED
        BY <2>1, <2>2, <2>3
  <1>4. ASSUME NEW x, NEW m \in Slots, Was(x, m)
        PROVE  /\ ub[x][m] = tb[x][m] /\ tb[x][m].to \in H \ {Root} /\ tb[x][m].to # t
               /\ lev2[tb[x][m].to] = lev2[x] + 1 /\ x \in G
    <2>1. ub[x][m] = tb[x][m]
        BY <1>4
    <2>2. tb[x][m].to \in H \ {Root} /\ lev[tb[x][m].to] = lev[x] + 1
        BY <1>4 DEF Tree
    <2>3. lev2[tb[x][m].to] = lev[tb[x][m].to] /\ lev2[x] = lev[x]
        BY <1>4, <2>2
    <2> QED
        BY <1>4, <2>1, <2>2, <2>3
  <1> HIDE DEF Linked, Was
  <1>5. \A x \in G, m \in Slots :
            Linked(x, m) => ub[x][m].to \in G \ {Root} /\ lev2[ub[x][m].to] = lev2[x] + 1
    <2> SUFFICES ASSUME NEW x \in G, NEW m \in Slots, Linked(x, m)
                 PROVE  ub[x][m].to \in G \ {Root} /\ lev2[ub[x][m].to] = lev2[x] + 1
        OBVIOUS
    <2>1. CASE x = u /\ m = k
        BY <1>2, <2>1
    <2>2. CASE Was(x, m)
        BY <1>4, <2>2
    <2> QED
        BY <1>3, <2>1, <2>2
  <1>6. \A x, y \in G, m, j \in Slots :
            Linked(x, m) /\ Linked(y, j) /\ ub[x][m].to = ub[y][j].to => x = y /\ m = j
    <2> SUFFICES ASSUME NEW x \in G, NEW y \in G, NEW m \in Slots, NEW j \in Slots,
                        Linked(x, m), Linked(y, j), ub[x][m].to = ub[y][j].to
                 PROVE  x = y /\ m = j
        OBVIOUS
    <2>1. ((x = u /\ m = k) \/ Was(x, m)) /\ ((y = u /\ j = k) \/ Was(y, j))
        BY <1>3
    <2>2. CASE x = u /\ m = k
      <3>1. ub[y][j].to = t
          BY <2>2
      <3>2. ~ Was(y, j)
          BY <1>4, <3>1
      <3> QED
          BY <2>1, <2>2, <3>2
    <2>3. CASE y = u /\ j = k
      <3>1. ub[x][m].to = t
          BY <2>3
      <3>2. ~ Was(x, m)
          BY <1>4, <3>1
      <3> QED
          BY <2>1, <2>3, <3>2
    <2>4. CASE Was(x, m) /\ Was(y, j)
      <3>1. tb[x][m].to = tb[y][j].to
        <4>1. ub[x][m] = tb[x][m] /\ ub[y][j] = tb[y][j]
            BY <1>4, <2>4
        <4> QED
            BY <4>1
      <3>2. x \in H /\ y \in H /\ IsLink(b, tb, lev, x, m) /\ IsLink(b, tb, lev, y, j)
          BY <2>4 DEF Was
      <3> QED
          BY <3>1, <3>2 DEF Tree
    <2> QED
        BY <2>1, <2>2, <2>3, <2>4
  <1>7. \A p \in G \ {Root} : \E x \in G, m \in Slots : Linked(x, m) /\ ub[x][m].to = p
    <2> SUFFICES ASSUME NEW p \in G \ {Root}
                 PROVE  \E x \in G, m \in Slots : Linked(x, m) /\ ub[x][m].to = p
        OBVIOUS
    <2>1. CASE p = t
      <3>1. Linked(u, k) /\ ub[u][k].to = p
          BY <1>2, <1>3, <2>1
      <3> QED
          BY <1>2, <3>1
    <2>2. CASE p # t
      <3>1. PICK x \in H, m \in Slots : IsLink(b, tb, lev, x, m) /\ tb[x][m].to = p
          BY <2>2 DEF Tree
      <3>2. Was(x, m)
          BY <3>1 DEF IsLink, Was
      <3>3. Linked(x, m) /\ ub[x][m].to = p /\ x \in G
          BY <1>3, <1>4, <3>1, <3>2
      <3> QED
          BY <3>3
    <2> QED
        BY <2>1, <2>2
  <1>8. \A x \in G, m \in Slots : ub[x][m].kind = "huge" => lev2[x] = n - 1
    <2> SUFFICES ASSUME NEW x \in G, NEW m \in Slots, ub[x][m].kind = "huge"
                 PROVE  lev2[x] = n - 1
        OBVIOUS
    <2>1. CASE x = t
        BY <2>1
    <2>2. CASE x \in H
      <3>1. ub[x][m] = tb[x][m] /\ lev2[x] = lev[x]
          BY <2>2
      <3>2. tb[x][m].kind = "huge"
          BY <3>1
      <3> QED
          BY <2>2, <3>1, <3>2 DEF Tree
    <2> QED
        BY <2>1, <2>2
  <1>9. Root \in G /\ G \subseteq Pages \cup {Root} /\ lev2 \in [G -> 1 .. n] /\ lev2[Root] = 1
      BY <1>1
  <1> HIDE DEF G
  <1>10. Tree(b, ub, G, lev2)
      BY ONLY <1>5, <1>6, <1>7, <1>8, <1>9, ub \in Contents DEF Tree, Linked, n
  <1> QED
      BY <1>10 DEF G

(* An entry of a table of the last level is no link.                       *)
LEMMA SetLeaf ==
  ASSUME NEW b \in Builds, NEW tb, NEW H, NEW lev, Tree(b, tb, H, lev),
         NEW u \in H, NEW k \in Slots, lev[u] = Levels(b),
         NEW ub \in Contents, ub[u][k].kind # "huge",
         \A x \in H, m \in Slots : ~ (x = u /\ m = k) => ub[x][m] = tb[x][m]
  PROVE  Tree(b, ub, H, lev)
  <1>1. H \subseteq Pages \cup {Root} /\ lev \in [H -> 1 .. Levels(b)] /\ Levels(b) \in {2, 4}
      BY BuildIs DEF Tree
  <1>2. ASSUME NEW x \in H, NEW m \in Slots
        PROVE  /\ IsLink(b, ub, lev, x, m) <=> IsLink(b, tb, lev, x, m)
               /\ IsLink(b, tb, lev, x, m) => ub[x][m] = tb[x][m]
    <2>1. CASE x = u
        BY <2>1, <1>1 DEF IsLink
    <2>2. CASE x # u
        BY <2>2 DEF IsLink
    <2> QED
        BY <2>1, <2>2
  <1>3. \A x \in H, m \in Slots : ub[x][m].kind = "huge" => lev[x] = Levels(b) - 1
    <2> SUFFICES ASSUME NEW x \in H, NEW m \in Slots, ub[x][m].kind = "huge"
                 PROVE  lev[x] = Levels(b) - 1
        OBVIOUS
    <2>1. ub[x][m] = tb[x][m]
        OBVIOUS
    <2> QED
        BY <2>1 DEF Tree
  <1>4. \A p \in H \ {Root} : \E x \in H, m \in Slots : IsLink(b, ub, lev, x, m) /\ ub[x][m].to = p
    <2> SUFFICES ASSUME NEW p \in H \ {Root}
                 PROVE  \E x \in H, m \in Slots : IsLink(b, ub, lev, x, m) /\ ub[x][m].to = p
        OBVIOUS
    <2>1. PICK x \in H, m \in Slots : IsLink(b, tb, lev, x, m) /\ tb[x][m].to = p
        BY DEF Tree
    <2> QED
        BY <1>2, <2>1
  <1>5. \A x \in H, m \in Slots : IsLink(b, ub, lev, x, m) =>
            ub[x][m].to \in H \ {Root} /\ lev[ub[x][m].to] = lev[x] + 1
      BY <1>2 DEF Tree
  <1>6. \A x, y \in H, m, j \in Slots :
            IsLink(b, ub, lev, x, m) /\ IsLink(b, ub, lev, y, j) /\ ub[x][m].to = ub[y][j].to
                => x = y /\ m = j
    <2> SUFFICES ASSUME NEW x \in H, NEW y \in H, NEW m \in Slots, NEW j \in Slots,
                        IsLink(b, ub, lev, x, m), IsLink(b, ub, lev, y, j), ub[x][m].to = ub[y][j].to
                 PROVE  x = y /\ m = j
        OBVIOUS
    <2>1. IsLink(b, tb, lev, x, m) /\ IsLink(b, tb, lev, y, j) /\ tb[x][m].to = tb[y][j].to
        BY <1>2
    <2> QED
        BY <2>1 DEF Tree
  <1> QED
      BY <1>3, <1>4, <1>5, <1>6 DEF Tree

(* The root alone.                                                         *)
LEMMA RootAlone ==
  ASSUME NEW b \in Builds, NEW tb \in Contents, \A k \in Slots : tb[Root][k].kind # "small",
         \A k \in Slots : tb[Root][k].kind = "huge" => Levels(b) = 2
  PROVE  Tree(b, tb, {Root}, [x \in {Root} |-> 1])
  <1> DEFINE lev == [x \in {Root} |-> 1]
  <1>1. Levels(b) \in {2, 4}
      BY BuildIs
  <1>2. lev \in [{Root} -> 1 .. Levels(b)] /\ lev[Root] = 1
      BY <1>1
  <1>3. \A x \in {Root}, k \in Slots : ~ IsLink(b, tb, lev, x, k)
      BY DEF IsLink
  <1>4. \A x \in {Root}, k \in Slots : tb[x][k].kind = "huge" => lev[x] = Levels(b) - 1
      BY <1>2
  <1> HIDE DEF lev
  <1>5. Tree(b, tb, {Root}, lev)
      BY <1>2, <1>3, <1>4 DEF Tree
  <1> QED
      BY <1>5 DEF lev

(* The two entries of a page: of the directory, and of the last table.     *)
DirectoryEntry(b, tb, v) ==
    LET dir == PathOf(b, tb, v)[Levels(b) - 1]
    IN  IF dir = NoTable THEN NoEntry ELSE tb[dir][IndexOf(b, v, Levels(b) - 1)]
LastEntry(b, tb, v) ==
    LET last == PathOf(b, tb, v)[Levels(b)]
    IN  IF last = NoTable THEN NoEntry ELSE tb[last][IndexOf(b, v, Levels(b))]

(* What they say of it.                                                    *)
LEMMA PhysIs ==
  ASSUME NEW b \in Builds, NEW tb, NEW H, NEW lev, Tree(b, tb, H, lev), NEW v \in Nat
  PROVE  /\ DirectoryEntry(b, tb, v).kind = "huge" =>
                PhysOf(b, tb, v) = DirectoryEntry(b, tb, v).to + IndexOf(b, v, Levels(b))
         /\ DirectoryEntry(b, tb, v).kind # "small" => PathOf(b, tb, v)[Levels(b)] = NoTable
         /\ DirectoryEntry(b, tb, v).kind # "huge" => PhysOf(b, tb, v) = LastEntry(b, tb, v).to
  <1> DEFINE n == Levels(b)
             T == PathOf(b, tb, v)
             dir == T[n - 1]
             k == IndexOf(b, v, n - 1)
             e == tb[dir][k]
  <1>1. n \in {2, 4} /\ n - 1 \in 1 .. n /\ n \in 2 .. n /\ n \in 1 .. n
      BY BuildIs
  <1>2. T[n] = Below(tb, dir, k)
      BY <1>1, PathIs
  <1>3. k \in Slots
      BY <1>1, IndexIs
  <1>4. NoEntry.kind = "none" /\ NoEntry.to = 0
      BY DEF NoEntry
  <1>5. CASE dir = NoTable
    <2>1. T[n] = NoTable /\ PhysOf(b, tb, v) = 0
        BY <1>2, <1>5 DEF Below, PhysOf
    <2> QED
        BY <1>4, <1>5, <2>1 DEF DirectoryEntry, LastEntry
  <1>6. CASE dir # NoTable
    <2>1. dir \in Pages \cup {Root} /\ tb \in Contents
        BY <1>1, <1>6, PathLevels DEF Tree
    <2>2. e.kind \in {"none", "small", "huge"}
        BY <1>3, <2>1, EntryIs
    <2>3. DirectoryEntry(b, tb, v) = e
        BY <1>6 DEF DirectoryEntry
    <2>4. PhysOf(b, tb, v) = CASE e.kind = "none" -> 0
                               [] e.kind = "huge" -> e.to + IndexOf(b, v, n)
                               [] OTHER -> tb[e.to][IndexOf(b, v, n)].to
        BY <1>6 DEF PhysOf
    <2>5. T[n] = IF e.kind # "small" THEN NoTable ELSE e.to
        BY <1>2, <1>6 DEF Below
    <2>6. LastEntry(b, tb, v) = IF T[n] = NoTable THEN NoEntry ELSE tb[T[n]][IndexOf(b, v, n)]
        BY DEF LastEntry
    <2>7. e.kind = "small" => e.to # NoTable
      <3>1. e.to \in Nat
          BY <1>3, <2>1, EntryIs
      <3> QED
          BY <3>1 DEF NoTable
    <2> HIDE DEF e, n, T
    <2> QED
        BY <1>4, <2>2, <2>3, <2>4, <2>5, <2>6, <2>7 DEF n, T
  <1> QED
      BY <1>5, <1>6

(* No two ways lead to the same table.                                     *)
LEMMA OneWay ==
  ASSUME NEW b \in Builds, NEW tb, NEW H, NEW lev, Tree(b, tb, H, lev), NEW v \in Nat, NEW w \in Nat
  PROVE  \A l \in 1 .. Levels(b) :
             PathOf(b, tb, v)[l] = PathOf(b, tb, w)[l] /\ PathOf(b, tb, v)[l] # NoTable =>
                 \A m \in 1 .. l - 1 : IndexOf(b, v, m) = IndexOf(b, w, m)
  <1> DEFINE n == Levels(b)
             T == PathOf(b, tb, v)
             U == PathOf(b, tb, w)
             Same(l) == T[l] = U[l] /\ T[l] # NoTable =>
                            \A m \in 1 .. l - 1 : IndexOf(b, v, m) = IndexOf(b, w, m)
             S == {l \in 1 .. n : Same(l)}
  <1>1. n \in {2, 4}
      BY BuildIs
  <1>2. 1 \in S
    <2>1. 1 \in 1 .. n /\ 1 .. 1 - 1 = {}
        BY <1>1
    <2> QED
        BY <2>1
  <1>3. ASSUME NEW l \in 1 .. n - 1, l \in S PROVE l + 1 \in S
    <2> DEFINE k == IndexOf(b, v, l)
               j == IndexOf(b, w, l)
    <2>1. l \in 1 .. n /\ l + 1 \in 2 .. n /\ l + 1 \in 1 .. n /\ (l + 1) - 1 = l /\ l < n
        BY <1>1
    <2>2. T[l + 1] = Below(tb, T[l], k) /\ U[l + 1] = Below(tb, U[l], j)
        BY <2>1, PathIs
    <2>3. k \in Slots /\ j \in Slots
        BY <2>1, IndexIs
    <2>4. /\ T[l] # NoTable => T[l] \in H /\ lev[T[l]] = l
          /\ U[l] # NoTable => U[l] \in H /\ lev[U[l]] = l
        BY <2>1, PathLevels
    <2>5. Same(l)
        BY <1>3
    <2>6. ASSUME T[l + 1] = U[l + 1], T[l + 1] # NoTable
          PROVE  \A m \in 1 .. l : IndexOf(b, v, m) = IndexOf(b, w, m)
      <3> HIDE DEF T, U, k, j, n
      <3>1. /\ T[l] # NoTable /\ tb[T[l]][k].kind = "small" /\ T[l + 1] = tb[T[l]][k].to
            /\ U[l] # NoTable /\ tb[U[l]][j].kind = "small" /\ U[l + 1] = tb[U[l]][j].to
          BY <2>2, <2>6 DEF Below
      <3>2. IsLink(b, tb, lev, T[l], k) /\ IsLink(b, tb, lev, U[l], j)
          BY <2>1, <2>4, <3>1 DEF IsLink, n
      <3>3. T[l] = U[l] /\ k = j
        <4>1. T[l] \in H /\ U[l] \in H /\ tb[T[l]][k].to = tb[U[l]][j].to
            BY <2>4, <2>6, <3>1
        <4>2. \A x, y \in H, m, i2 \in Slots :
                 IsLink(b, tb, lev, x, m) /\ IsLink(b, tb, lev, y, i2) /\ tb[x][m].to = tb[y][i2].to
                     => x = y /\ m = i2
            BY DEF Tree
        <4> QED
            BY ONLY <2>3, <3>2, <4>1, <4>2
      <3>4. \A m \in 1 .. l - 1 : IndexOf(b, v, m) = IndexOf(b, w, m)
          BY <2>5, <3>1, <3>3
      <3>5. \A m \in 1 .. l : m \in 1 .. l - 1 \/ m = l
          BY <2>1
      <3> QED
          BY <3>3, <3>4, <3>5 DEF k, j
    <2>7. Same(l + 1)
        BY <2>1, <2>6
    <2> QED
        BY <2>1, <2>7
  <1> HIDE DEF S
  <1>4. \A l \in 1 .. n : l \in S
      BY <1>2, <1>3, LevelInduction
  <1> QED
      BY <1>4 DEF S

(* Two pages share no entry of a last table.                               *)
LEMMA OneEntry ==
  ASSUME NEW b \in Builds, NEW tb, NEW H, NEW lev, Tree(b, tb, H, lev), NEW v \in Virt, NEW w \in Virt,
         PathOf(b, tb, v)[Levels(b)] # NoTable,
         PathOf(b, tb, v)[Levels(b)] = PathOf(b, tb, w)[Levels(b)],
         IndexOf(b, v, Levels(b)) = IndexOf(b, w, Levels(b))
  PROVE  v = w
  <1> DEFINE n == Levels(b)
  <1>1. n \in {2, 4} /\ n \in 1 .. n
      BY BuildIs
  <1>2. v \in Nat /\ w \in Nat
      BY TopIndex
  <1>3. \A m \in 1 .. n - 1 : IndexOf(b, v, m) = IndexOf(b, w, m)
      BY <1>1, <1>2, OneWay
  <1>4. \A m \in 1 .. n : IndexOf(b, v, m) = IndexOf(b, w, m)
    <2>1. \A m \in 1 .. n : m \in 1 .. n - 1 \/ m = n
        BY <1>1
    <2> QED
        BY <1>3, <2>1
  <1> QED
      BY <1>4, IndicesTell

(* A write to a last table leaves every way as it is, and the entries of   *)
(* every other page.                                                       *)
LEMMA LeafWays ==
  ASSUME NEW b \in Builds, NEW tb, NEW H, NEW lev, Tree(b, tb, H, lev),
         NEW u \in H, NEW k \in Slots, lev[u] = Levels(b), NEW ub,
         \A x \in H, m \in Slots : ~ (x = u /\ m = k) => ub[x][m] = tb[x][m], NEW v \in Nat
  PROVE  /\ \A l \in 1 .. Levels(b) : PathOf(b, ub, v)[l] = PathOf(b, tb, v)[l]
         /\ DirectoryEntry(b, ub, v) = DirectoryEntry(b, tb, v)
         /\ ~ (PathOf(b, tb, v)[Levels(b)] = u /\ IndexOf(b, v, Levels(b)) = k)
                => LastEntry(b, ub, v) = LastEntry(b, tb, v)
  <1> DEFINE n == Levels(b)
             T == PathOf(b, tb, v)
             U == PathOf(b, ub, v)
             S == {l \in 1 .. n : U[l] = T[l]}
  <1>1. n \in {2, 4}
      BY BuildIs
  <1>2. 1 \in S
      BY <1>1, PathIs
  <1>3. ASSUME NEW l \in 1 .. n - 1, T[l] # NoTable, NEW m \in Slots
        PROVE  ub[T[l]][m] = tb[T[l]][m]
    <2>1. T[l] \in H /\ lev[T[l]] = l /\ l < n
        BY <1>1, <1>3, PathLevels
    <2> QED
        BY <2>1
  <1>4. ASSUME NEW l \in 1 .. n - 1, l \in S PROVE l + 1 \in S
    <2> DEFINE j == IndexOf(b, v, l)
    <2>1. l \in 1 .. n /\ l + 1 \in 2 .. n /\ l + 1 \in 1 .. n /\ (l + 1) - 1 = l
        BY <1>1
    <2>2. T[l + 1] = Below(tb, T[l], j) /\ U[l + 1] = Below(ub, U[l], j)
        BY <2>1, PathIs
    <2>3. j \in Slots /\ U[l] = T[l]
        BY <1>4, <2>1, IndexIs
    <2> HIDE DEF j, T, U, n
    <2>4. U[l + 1] = T[l + 1]
        BY <1>3, <2>2, <2>3 DEF Below
    <2> QED
        BY <2>1, <2>4
  <1> HIDE DEF S
  <1>5. \A l \in 1 .. n : l \in S
      BY <1>2, <1>4, LevelInduction
  <1>6. \A l \in 1 .. n : U[l] = T[l]
      BY <1>5 DEF S
  <1>7. n - 1 \in 1 .. n - 1 /\ n - 1 \in 1 .. n /\ n \in 1 .. n
      BY <1>1
  <1>8. DirectoryEntry(b, ub, v) = DirectoryEntry(b, tb, v)
    <2> DEFINE j == IndexOf(b, v, n - 1)
    <2>1. j \in Slots /\ U[n - 1] = T[n - 1]
        BY <1>6, <1>7, IndexIs
    <2>2. T[n - 1] # NoTable => ub[T[n - 1]][j] = tb[T[n - 1]][j]
        BY <1>3, <1>7, <2>1
    <2> QED
        BY ONLY <2>1, <2>2 DEF DirectoryEntry
  <1>9. ~ (T[n] = u /\ IndexOf(b, v, n) = k) => LastEntry(b, ub, v) = LastEntry(b, tb, v)
    <2> DEFINE j == IndexOf(b, v, n)
    <2>1. j \in Slots /\ U[n] = T[n]
        BY <1>6, <1>7, IndexIs
    <2>2. T[n] # NoTable => T[n] \in H
        BY <1>7, PathLevels
    <2>3. T[n] # NoTable /\ ~ (T[n] = u /\ j = k) => ub[T[n]][j] = tb[T[n]][j]
        BY <2>1, <2>2
    <2> QED
        BY ONLY <2>1, <2>3 DEF LastEntry
  <1> QED
      BY <1>6, <1>8, <1>9

(* An empty table brings no mapping of its own.                            *)
LEMMA TableWays ==
  ASSUME NEW b \in Builds, NEW tb, NEW H, NEW lev, NEW u, NEW k, NEW t, NEW ub,
         Extends(b, tb, H, lev, u, k, t, ub), \A m \in Slots : ub[t][m] = NoEntry, NEW v \in Nat
  PROVE  /\ \A l \in 1 .. Levels(b) :
               PathOf(b, tb, v)[l] # NoTable => PathOf(b, ub, v)[l] = PathOf(b, tb, v)[l]
         /\ \/ DirectoryEntry(b, ub, v) = DirectoryEntry(b, tb, v)
            \/ DirectoryEntry(b, ub, v).kind # "huge" /\ DirectoryEntry(b, tb, v).kind # "huge"
         /\ LastEntry(b, ub, v) = LastEntry(b, tb, v)
  <1> USE DEF Extends
  <1> DEFINE n == Levels(b)
             T == PathOf(b, tb, v)
             U == PathOf(b, ub, v)
             Kept(l) == U[l] = T[l] \/ (T[l] = NoTable /\ U[l] = t)
             S == {l \in 1 .. n : Kept(l)}
  <1>1. n \in {2, 4} /\ t # NoTable /\ NoEntry.kind = "none"
      BY BuildIs, NotPages DEF NoEntry
  <1>2. 1 \in S
      BY <1>1, PathIs
  <1>3. ASSUME NEW l \in 1 .. n, T[l] # NoTable, NEW m \in Slots
        PROVE  ub[T[l]][m] = tb[T[l]][m] \/ (T[l] = u /\ m = k)
      BY <1>3, PathLevels
  <1>4. ASSUME NEW l \in 1 .. n - 1, l \in S PROVE l + 1 \in S
    <2> DEFINE j == IndexOf(b, v, l)
    <2>1. l \in 1 .. n /\ l + 1 \in 2 .. n /\ l + 1 \in 1 .. n /\ (l + 1) - 1 = l
        BY <1>1
    <2>2. T[l + 1] = Below(tb, T[l], j) /\ U[l + 1] = Below(ub, U[l], j)
        BY <2>1, PathIs
    <2>3. j \in Slots /\ Kept(l)
        BY <1>4, <2>1, IndexIs
    <2> HIDE DEF j, T, U, n
    <2>4. CASE T[l] = NoTable
      <3>1. T[l + 1] = NoTable
          BY <2>2, <2>4 DEF Below
      <3>2. U[l] = NoTable \/ ub[U[l]][j].kind = "none"
          BY <1>1, <2>3, <2>4
      <3>3. U[l + 1] = NoTable
          BY <2>2, <3>2 DEF Below
      <3> QED
          BY <2>1, <3>1, <3>3
    <2>5. CASE T[l] # NoTable /\ T[l] = u /\ j = k
      <3>1. T[l + 1] = NoTable /\ U[l + 1] = t
          BY <2>2, <2>3, <2>5 DEF Below
      <3> QED
          BY <2>1, <3>1
    <2>6. CASE T[l] # NoTable /\ ~ (T[l] = u /\ j = k)
      <3>1. U[l] = T[l] /\ ub[T[l]][j] = tb[T[l]][j]
          BY <1>3, <2>1, <2>3, <2>6
      <3>2. U[l + 1] = T[l + 1]
          BY ONLY <2>2, <3>1 DEF Below
      <3> QED
          BY <2>1, <3>2
    <2> QED
        BY <2>4, <2>5, <2>6
  <1> HIDE DEF S
  <1>5. \A l \in 1 .. n : l \in S
      BY <1>2, <1>4, LevelInduction
  <1>6. \A l \in 1 .. n : Kept(l)
      BY <1>5 DEF S
  <1>7. n - 1 \in 1 .. n - 1 /\ n - 1 \in 1 .. n /\ n \in 1 .. n
      BY <1>1
  <1>8. \/ DirectoryEntry(b, ub, v) = DirectoryEntry(b, tb, v)
        \/ DirectoryEntry(b, ub, v).kind # "huge" /\ DirectoryEntry(b, tb, v).kind # "huge"
    <2> DEFINE j == IndexOf(b, v, n - 1)
               dir == T[n - 1]
    <2>1. j \in Slots /\ Kept(n - 1)
        BY <1>6, <1>7, IndexIs
    <2>2. dir # NoTable => ub[dir][j] = tb[dir][j] \/ (dir = u /\ j = k)
        BY <1>3, <1>7, <2>1
    <2>3. /\ DirectoryEntry(b, tb, v) = IF dir = NoTable THEN NoEntry ELSE tb[dir][j]
          /\ DirectoryEntry(b, ub, v) = IF U[n - 1] = NoTable THEN NoEntry ELSE ub[U[n - 1]][j]
        BY DEF DirectoryEntry
    <2> HIDE DEF j, T, U, n
    <2>4. CASE dir = NoTable
        BY <1>1, <2>1, <2>3, <2>4
    <2>5. CASE dir # NoTable
        BY <1>1, <2>1, <2>2, <2>3, <2>5
    <2> QED
        BY <2>4, <2>5
  <1>9. LastEntry(b, ub, v) = LastEntry(b, tb, v)
    <2> DEFINE j == IndexOf(b, v, n)
               last == T[n]
    <2>1. j \in Slots /\ Kept(n)
        BY <1>6, <1>7, IndexIs
    <2>2. last # NoTable => ub[last][j] = tb[last][j]
      <3>1. last # NoTable => last # u
          BY <1>7, PathLevels
      <3> QED
          BY <1>3, <1>7, <2>1, <3>1
    <2>3. /\ LastEntry(b, tb, v) = IF last = NoTable THEN NoEntry ELSE tb[last][j]
          /\ LastEntry(b, ub, v) = IF U[n] = NoTable THEN NoEntry ELSE ub[U[n]][j]
        BY DEF LastEntry
    <2> HIDE DEF j, T, U, n
    <2> QED
        BY <1>1, <2>1, <2>2, <2>3
  <1> QED
      BY <1>6, <1>8, <1>9

(* The tables the model finds level by level are the tree's.               *)
LEMMA TablesAtIs ==
  ASSUME NEW lev, Tree(Build, tab, owner[PageTables] \cup {Root}, lev)
  PROVE  \A l \in 1 .. Depth : TablesAt[l] = {t \in owner[PageTables] \cup {Root} : lev[t] = l}
  <1> DEFINE n == Depth
             H == owner[PageTables] \cup {Root}
             Next1(ts) == {p \in Pages : \E t \in ts, k \in Slots : tab[t][k] = Small(p)}
             On(l) == {t \in H : lev[t] = l}
             IsAt(A) == A = [l \in 1 .. n |-> IF l = 1 THEN {Root} ELSE Next1(A[l - 1])]
             f == [l \in 1 .. n |-> On(l)]
             A == CHOOSE g : IsAt(g)
  <1>1. Build \in Builds /\ n = Levels(Build) /\ n \in {2, 4}
      BY ModelWalk, BuildIs
  <1>2. /\ tab \in Contents /\ H \subseteq Pages \cup {Root} /\ Root \in H
        /\ lev \in [H -> 1 .. n] /\ lev[Root] = 1
      BY <1>1 DEF Tree
  <1>3. On(1) = {Root}
    <2>1. ASSUME NEW t \in H, t # Root PROVE lev[t] # 1
      <3>1. PICK x \in H, k \in Slots : IsLink(Build, tab, lev, x, k) /\ tab[x][k].to = t
          BY <2>1 DEF Tree
      <3>2. lev[t] = lev[x] + 1
          BY <3>1 DEF Tree
      <3>3. lev[x] \in 1 .. n
          BY <1>2
      <3> QED
          BY <1>1, <3>2, <3>3
    <2> QED
        BY <1>2, <2>1
  <1>4. ASSUME NEW l \in 1 .. n - 1 PROVE Next1(On(l)) = On(l + 1)
    <2>0. l < n /\ l \in Nat /\ l + 1 # 1
        BY <1>1
    <2>1. ASSUME NEW p \in Next1(On(l)) PROVE p \in On(l + 1)
      <3>1. PICK t \in On(l), k \in Slots : tab[t][k] = Small(p)
          OBVIOUS
      <3>2. tab[t][k].kind = "small" /\ tab[t][k].to = p
          BY <3>1 DEF Small
      <3>3. IsLink(Build, tab, lev, t, k)
          BY <1>1, <2>0, <3>2 DEF IsLink
      <3>4. p \in H /\ lev[p] = l + 1
          BY <3>2, <3>3 DEF Tree
      <3> QED
          BY <3>4
    <2>2. ASSUME NEW p \in On(l + 1) PROVE p \in Next1(On(l))
      <3>1. p # Root /\ p \in H /\ p \in Pages /\ lev[p] = l + 1
          BY <1>2, <2>0
      <3>2. PICK x \in H, k \in Slots : IsLink(Build, tab, lev, x, k) /\ tab[x][k].to = p
          BY <3>1 DEF Tree
      <3>3. lev[p] = lev[x] + 1 /\ lev[x] \in 1 .. n
          BY <1>2, <3>2 DEF Tree
      <3>4. x \in On(l)
          BY <1>1, <2>0, <3>1, <3>3
      <3>5. tab[x][k] = Small(p)
        <4>1. tab[x][k] \in TableEntries
            BY <1>2, EntryIs
        <4>2. tab[x][k].kind = "small" /\ tab[x][k].to = p
            BY <3>2 DEF IsLink
        <4> QED
            BY <4>1, <4>2 DEF TableEntries, Small
      <3> QED
          BY <3>1, <3>4, <3>5
    <2> QED
        BY <2>1, <2>2
  <1> HIDE DEF On, Next1
  <1>5. IsAt(f)
    <2>1. ASSUME NEW l \in 1 .. n
          PROVE  f[l] = IF l = 1 THEN {Root} ELSE Next1(f[l - 1])
      <3>1. CASE l = 1
          BY <1>3, <3>1
      <3>2. CASE l # 1
        <4>1. l - 1 \in 1 .. n - 1 /\ l - 1 \in 1 .. n /\ (l - 1) + 1 = l
            BY <1>1, <3>2
        <4>2. Next1(On(l - 1)) = On(l)
            BY <1>4, <4>1
        <4> QED
            BY <3>2, <4>1, <4>2
      <3> QED
          BY <3>1, <3>2
    <2> DEFINE g == [l \in 1 .. n |-> IF l = 1 THEN {Root} ELSE Next1(f[l - 1])]
    <2>2. f = g
        BY <2>1
    <2> QED
        BY <2>2
  <1>6. IsAt(A)
    <2> HIDE DEF IsAt, f
    <2> QED
        BY <1>5
  <1>7. TablesAt = A
      BY DEF TablesAt, Next1
  <1> HIDE DEF A
  <1>8. A = [l \in 1 .. n |-> IF l = 1 THEN {Root} ELSE Next1(A[l - 1])]
      BY <1>6
  <1> HIDE DEF IsAt, f, n
  <1> DEFINE S == {l \in 1 .. n : A[l] = On(l)}
  <1>9. 1 \in S
    <2>1. 1 \in 1 .. n
        BY <1>1
    <2>2. A[1] = {Root}
        BY <1>8, <2>1
    <2> QED
        BY <1>3, <2>1, <2>2
  <1>10. ASSUME NEW l \in 1 .. n - 1, l \in S PROVE l + 1 \in S
    <2>1. l + 1 \in 1 .. n /\ l + 1 # 1 /\ (l + 1) - 1 = l
        BY <1>1
    <2>2. A[l + 1] = Next1(A[l])
        BY <1>8, <2>1
    <2> QED
        BY <1>4, <1>10, <2>1, <2>2
  <1> HIDE DEF S
  <1>11. \A l \in 1 .. n : l \in S
      BY <1>1, <1>9, <1>10, LevelInduction
  <1> QED
      BY <1>7, <1>11 DEF S, On, n

(* A tree of exactly the pages allocated for tables is private.            *)
LEMMA TreePrivate ==
  ASSUME TypeOK, NEW lev, Tree(Build, tab, owner[PageTables] \cup {Root}, lev)
  PROVE  TablesPrivate
  <1> DEFINE own == owner[PageTables]
             H == own \cup {Root}
             links == {x \in H \X Slots :
                         /\ \E l \in 1 .. Depth - 1 : x[1] \in TablesAt[l]
                         /\ tab[x[1]][x[2]].kind = "small"}
             f == [x \in links |-> tab[x[1]][x[2]].to]
  <1>1. Build \in Builds /\ Depth = Levels(Build) /\ Depth \in {2, 4}
      BY ModelWalk, BuildIs
  <1>2. own \subseteq Pages /\ Root \notin own /\ H \ {Root} = own
    <2>1. PageTables \in Clients
        BY VmmAssumption
    <2> QED
        BY <2>1, NotPages DEF TypeOK
  <1>3. \A t \in H : (\E l \in 1 .. Depth - 1 : t \in TablesAt[l]) <=> lev[t] < Depth
    <2> SUFFICES ASSUME NEW t \in H
                 PROVE  (\E l \in 1 .. Depth - 1 : t \in TablesAt[l]) <=> lev[t] < Depth
        OBVIOUS
    <2>1. lev[t] \in 1 .. Depth
        BY <1>1 DEF Tree
    <2>2. \A l \in 1 .. Depth - 1 : TablesAt[l] = {x \in H : lev[x] = l}
      <3>1. \A l \in 1 .. Depth - 1 : l \in 1 .. Depth
          BY <1>1
      <3> QED
          BY <3>1, TablesAtIs
    <2>3. lev[t] < Depth => lev[t] \in 1 .. Depth - 1
        BY <1>1, <2>1
    <2>4. \A l \in 1 .. Depth - 1 : l < Depth
        BY <1>1
    <2> QED
        BY <2>2, <2>3, <2>4
  <1>4. \A x : x \in links <=> x \in H \X Slots /\ IsLink(Build, tab, lev, x[1], x[2])
      BY <1>1, <1>3 DEF IsLink
  <1> HIDE DEF links
  <1>5. ASSUME NEW x \in links PROVE f[x] \in own
    <2>1. x[1] \in H /\ x[2] \in Slots /\ IsLink(Build, tab, lev, x[1], x[2])
        BY <1>4
    <2>2. tab[x[1]][x[2]].to \in H \ {Root}
        BY <2>1 DEF Tree
    <2> QED
        BY <1>2, <2>2
  <1>6. ASSUME NEW p \in own PROVE \E x \in links : f[x] = p
    <2>1. PICK t \in H, k \in Slots : IsLink(Build, tab, lev, t, k) /\ tab[t][k].to = p
        BY <1>2 DEF Tree
    <2>2. <<t, k>> \in links /\ f[<<t, k>>] = p
        BY <1>4, <2>1
    <2> QED
        BY <2>2
  <1>7. ASSUME NEW x \in links, NEW y \in links, f[x] = f[y] PROVE x = y
    <2>1. /\ x \in H \X Slots /\ y \in H \X Slots /\ tab[x[1]][x[2]].to = tab[y[1]][y[2]].to
          /\ IsLink(Build, tab, lev, x[1], x[2]) /\ IsLink(Build, tab, lev, y[1], y[2])
        BY <1>4, <1>7
    <2>2. x[1] = y[1] /\ x[2] = y[2]
      <3>1. x[1] \in H /\ x[2] \in Slots /\ y[1] \in H /\ y[2] \in Slots
          BY <2>1
      <3>2. \A t, u \in H, k, m \in Slots :
               IsLink(Build, tab, lev, t, k) /\ IsLink(Build, tab, lev, u, m) /\ tab[t][k].to = tab[u][m].to
                   => t = u /\ k = m
          BY DEF Tree
      <3> QED
          BY ONLY <2>1, <3>1, <3>2
    <2> QED
        BY <2>1, <2>2
  <1>8. f \in Bijection(links, own)
    <2>1. f \in [links -> own]
        BY <1>5
    <2>2. \A x, y \in links : f[x] = f[y] => x = y
        BY <1>7
    <2>3. \A p \in own : \E x \in links : f[x] = p
        BY <1>6
    <2> HIDE DEF f
    <2> QED
        BY <2>1, <2>2, <2>3, Fun_IsBij
  <1>9. Cardinality(links) = Cardinality(own)
    <2>1. IsFiniteSet(own)
        BY <1>2, CardPages
    <2>2. ExistsBijection(links, own)
        BY <1>8 DEF ExistsBijection
    <2>3. ExistsBijection(own, links)
        BY <2>2, Fun_ExistsBijSymmetric
    <2>4. IsFiniteSet(links) /\ Cardinality(links) = Cardinality(own)
        BY <2>1, <2>3, FS_Bijection, Zenon
    <2> QED
        BY <2>4
  <1>10. {tab[x[1]][x[2]].to : x \in links} = own
      BY <1>5, <1>6
  <1> QED
      BY <1>9, <1>10 DEF TablesPrivate, links

(* The entries vmm_init and vmm_map write.                                 *)
LEMMA EntriesAre ==
  /\ NoEntry \in TableEntries /\ NoEntry.kind = "none" /\ NoEntry.to = 0
  /\ \A p \in Nat : /\ Small(p) \in TableEntries /\ Small(p).kind = "small" /\ Small(p).to = p
                    /\ Huge(p) \in TableEntries /\ Huge(p).kind = "huge" /\ Huge(p).to = p
  BY DEF NoEntry, Small, Huge, TableEntries

(* The tables made after r pdpts with all their directories, and m tables  *)
(* of the next.                                                            *)
PdptMade(r, m, q) == q < r \/ (q = r /\ m > 0)
DirMade(r, m, q, j) == j < Fans["x86_64"][2] /\ (q < r \/ (q = r /\ j + 1 < m))

(* What a directory of large pages holds.                                  *)
Large(b, first, n) ==
    [k \in Slots |-> IF k < n THEN Huge(first + k * Fans[b][Levels(b)]) ELSE NoEntry]
LowDirectory(q, j) ==
    Large("x86_64", q * Spans["x86_64"][1] + j * Spans["x86_64"][2], Fans["x86_64"][3])

BootTables(tb, r, m) ==
    /\ \A q \in Slots : IF PdptMade(r, m, q) THEN tb[Root][q].kind = "small" ELSE tb[Root][q] = NoEntry
    /\ \A q, j \in Slots : PdptMade(r, m, q) =>
           IF DirMade(r, m, q, j)
           THEN /\ tb[tb[Root][q].to][j].kind = "small"
                /\ tb[tb[tb[Root][q].to][j].to] = LowDirectory(q, j)
           ELSE tb[tb[Root][q].to][j] = NoEntry

(* Tables of large pages have room for what they hold.                     *)
LEMMA SlotsNat == Slots \subseteq Nat
  BY VmmAssumption, BuildIs DEF Slots, Builds

LEMMA LargeIs ==
  ASSUME NEW b \in Builds, NEW first \in Nat, NEW n \in Nat
  PROVE  /\ Large(b, first, n) \in [Slots -> TableEntries]
         /\ \A k \in Slots : Large(b, first, n)[k].kind # "small"
         /\ \A k \in Slots : k < n => Large(b, first, n)[k] = Huge(first + k * Fans[b][Levels(b)])
         /\ \A k \in Slots : ~ (k < n) => Large(b, first, n)[k] = NoEntry
  <1> DEFINE F == Fans[b][Levels(b)]
             E(k) == IF k < n THEN Huge(first + k * F) ELSE NoEntry
  <1>1. F \in Nat
      BY BuildIs
  <1>2. ASSUME NEW k \in Slots PROVE E(k) \in TableEntries /\ E(k).kind # "small"
    <2>1. k \in Nat
        BY SlotsNat
    <2> HIDE DEF F
    <2>2. first + k * F \in Nat
        BY <1>1, <2>1
    <2> QED
        BY <2>2, EntriesAre
  <1> HIDE DEF F
  <1>3. Large(b, first, n) = [k \in Slots |-> E(k)]
      BY DEF Large, F
  <1>4. \A k \in Slots : (k < n => E(k) = Huge(first + k * F)) /\ (~ (k < n) => E(k) = NoEntry)
      OBVIOUS
  <1> HIDE DEF E
  <1> QED
      BY <1>2, <1>3, <1>4 DEF F

(* The low pages are the ones below the first root entries.                *)
LEMMA LowIs ==
  ASSUME NEW b \in Builds, NEW v \in Virt
  PROVE  /\ v < IdentityRoots[b] * Spans[b][1] <=> IndexOf(b, v, 1) < IdentityRoots[b]
         /\ IdentityRoots[b] \in Nat \ {0} /\ IdentityRoots[b] <= Fans[b][1]
  <1> DEFINE S == Spans[b][1]
             R == IdentityRoots[b]
             q == v \div S
             z == v % S
  <1>1. S \in Nat \ {0} /\ v \in Nat /\ IndexOf(b, v, 1) = q
      BY BuildIs, SpansAre, TopIndex
  <1>2. R \in Nat \ {0} /\ R <= Fans[b][1]
    <2>1. R \in 1 .. Fans[b][1] /\ 1 \in 1 .. Levels(b)
        BY VmmAssumption, BuildIs
    <2>2. Fans[b][1] \in Nat
        BY <2>1, BuildIs
    <2> QED
        BY <2>1, <2>2
  <1> HIDE DEF S, R
  <1>3. v = S * q + z /\ z \in 0 .. S - 1 /\ q \in Nat
      BY <1>1, DivRest
  <1> HIDE DEF q, z
  <1>4. ASSUME q < R PROVE v < R * S
    <2>1. (q + 1) * S <= R * S /\ (q + 1) * S = S * q + S
        BY <1>1, <1>2, <1>3, <1>4
    <2> QED
        BY <1>1, <1>2, <1>3, <2>1
  <1>5. ASSUME ~ (q < R) PROVE ~ (v < R * S)
    <2>1. R * S <= S * q
        BY <1>1, <1>2, <1>3, <1>5
    <2>2. R * S \in Nat /\ S * q \in Nat
        BY <1>1, <1>2, <1>3
    <2> QED
        BY <1>1, <1>3, <2>1, <2>2
  <1> QED
      BY <1>1, <1>2, <1>4, <1>5 DEF S, R

(* A large page and the page's place in it.                                *)
LEMMA LastIndex ==
  ASSUME NEW b \in Builds, NEW v \in Nat
  PROVE  /\ v = (v \div Spans[b][Levels(b) - 1]) * Fans[b][Levels(b)] + IndexOf(b, v, Levels(b))
         /\ Spans[b][Levels(b) - 1] = Fans[b][Levels(b)]
  <1> DEFINE n == Levels(b)
             F == Fans[b][n]
  <1>1. n \in {2, 4} /\ n - 1 \in 1 .. n - 1 /\ n \in 1 .. n /\ (n - 1) + 1 = n
      BY BuildIs
  <1>2. Spans[b][n] = 1 /\ Spans[b][n - 1] = F * Spans[b][n] /\ F \in Nat
    <2>1. Spans[b][n] = 1
        BY SpansAre
    <2>2. Spans[b][n - 1] = Fans[b][(n - 1) + 1] * Spans[b][(n - 1) + 1]
        BY <1>1, SpansAre
    <2>3. F \in Nat
        BY <1>1, BuildIs
    <2> QED
        BY <1>1, <2>1, <2>2, <2>3
  <1>3. v \div Spans[b][n] = (v \div Spans[b][n - 1]) * F + IndexOf(b, v, n)
      BY <1>1, NextIndex
  <1>4. v \div Spans[b][n] = v
      BY <1>2
  <1>5. Spans[b][n - 1] = F
    <2> HIDE DEF F
    <2> QED
        BY <1>2
  <1> HIDE DEF F, n
  <1> QED
      BY <1>3, <1>4, <1>5 DEF F, n

(* The low pages of x86, right after vmm_init.                             *)
LEMMA LowX86 ==
  ASSUME NEW tb, tb[Root] = Large("x86", 0, IdentityRoots["x86"]), NEW v \in Virt
  PROVE  IF v < IdentityRoots["x86"] * Spans["x86"][1]
         THEN /\ DirectoryEntry("x86", tb, v).kind = "huge"
              /\ DirectoryEntry("x86", tb, v).to + IndexOf("x86", v, Levels("x86")) = v
         ELSE DirectoryEntry("x86", tb, v) = NoEntry
  <1> DEFINE b == "x86"
             R == IdentityRoots[b]
             q == IndexOf(b, v, 1)
             F == Fans[b][2]
             i2 == IndexOf(b, v, 2)
  <1>1. b \in Builds /\ Levels(b) = 2 /\ 1 \in 1 .. 2 /\ 2 - 1 = 1
      BY DEF Builds, Levels
  <1>2. v \in Nat /\ q = v \div Spans[b][1]
      BY <1>1, TopIndex
  <1>3. q \in Slots /\ q \in Nat /\ F \in Nat
    <2>1. 2 \in 1 .. 2
        OBVIOUS
    <2>2. q \in Slots
        BY <1>1, <1>2, IndexIs
    <2>3. F \in Nat
        BY <1>1, <2>1, BuildIs
    <2> QED
        BY <2>2, <2>3, SlotsNat
  <1>4. v < R * Spans[b][1] <=> q < R
      BY <1>1, LowIs
  <1>5. R \in Nat
      BY <1>1, LowIs
  <1>6. DirectoryEntry(b, tb, v) = tb[Root][q]
    <2>1. PathOf(b, tb, v)[1] = Root /\ Root # NoTable
        BY <1>1, PathIs, NotPages
    <2> QED
        BY <1>1, <2>1 DEF DirectoryEntry
  <1>7. v = q * F + i2
      BY <1>1, <1>2, LastIndex
  <1>8. /\ q < R => tb[Root][q] = Huge(0 + q * Fans[b][Levels(b)])
        /\ ~ (q < R) => tb[Root][q] = NoEntry
      BY <1>1, <1>3, <1>5, LargeIs
  <1> HIDE DEF R, q, F, i2
  <1>9. q < R => tb[Root][q] = Huge(q * F)
    <2>1. q * F \in Nat /\ 0 + q * F = q * F
        BY <1>3
    <2> QED
        BY <1>1, <1>8, <2>1 DEF F
  <1>10. q * F \in Nat
      BY <1>3
  <1> DEFINE z == q * F
             d == DirectoryEntry(b, tb, v)
  <1>11. /\ q < R => d.kind = "huge" /\ d.to = z
         /\ ~ (q < R) => d = NoEntry
      BY <1>6, <1>8, <1>9, <1>10, EntriesAre
  <1> HIDE DEF z, d
  <1>12. q < R => d.kind = "huge" /\ d.to + i2 = v
      BY <1>7, <1>11 DEF z
  <1> QED
      BY <1>1, <1>4, <1>11, <1>12 DEF d, R, i2

(* A number from its digits.                                               *)
LEMMA Digits ==
  ASSUME NEW i1 \in Nat, NEW i2 \in Nat, NEW i3 \in Nat, NEW F2 \in Nat, NEW F3 \in Nat, NEW F4 \in Nat
  PROVE  i1 * (F2 * (F3 * F4)) + i2 * (F3 * F4) + i3 * F4 = ((i1 * F2 + i2) * F3 + i3) * F4
  <1> DEFINE a == i1 * F2 + i2
             c == a * F3
             g == F3 * F4
  <1>1. a \in Nat /\ c \in Nat /\ g \in Nat
      OBVIOUS
  <1>2. (c + i3) * F4 = c * F4 + i3 * F4
      BY <1>1
  <1>3. c * F4 = a * g
      BY <1>1
  <1>4. a * g = i1 * (F2 * g) + i2 * g
      BY <1>1
  <1> HIDE DEF a, c, g
  <1> QED
      BY <1>1, <1>2, <1>3, <1>4 DEF a, c, g

(* The low pages of x86_64, right after vmm_init.                          *)
LEMMA LowX64 ==
  ASSUME NEW tb, NEW H, NEW lev, Tree("x86_64", tb, H, lev),
         BootTables(tb, IdentityRoots["x86_64"], 0), NEW v \in Virt
  PROVE  IF v < IdentityRoots["x86_64"] * Spans["x86_64"][1]
         THEN /\ DirectoryEntry("x86_64", tb, v).kind = "huge"
              /\ DirectoryEntry("x86_64", tb, v).to + IndexOf("x86_64", v, Levels("x86_64")) = v
         ELSE DirectoryEntry("x86_64", tb, v) = NoEntry
  <1> DEFINE b == "x86_64"
             R == IdentityRoots[b]
             T == PathOf(b, tb, v)
             i1 == IndexOf(b, v, 1)
             i2 == IndexOf(b, v, 2)
             i3 == IndexOf(b, v, 3)
             i4 == IndexOf(b, v, 4)
             F2 == Fans[b][2]
             F3 == Fans[b][3]
             F4 == Fans[b][4]
             S1 == Spans[b][1]
             S2 == Spans[b][2]
             d == DirectoryEntry(b, tb, v)
  <1>1. b \in Builds /\ Levels(b) = 4 /\ \A l \in {1, 2, 3, 4} : l \in 1 .. 4
      BY DEF Builds, Levels
  <1>2. v \in Nat /\ i1 = v \div S1
      BY <1>1, TopIndex
  <1>3. i1 \in Slots /\ i2 \in Slots /\ i3 \in Slots
      BY <1>1, <1>2, IndexIs
  <1>4. F2 \in Nat /\ F3 \in Nat /\ F4 \in Nat
      BY <1>1, BuildIs
  <1>5. i1 \in Nat /\ i2 \in Nat /\ i3 \in Nat /\ i2 < F2 /\ i3 < F3
    <2>1. i2 \in 0 .. F2 - 1 /\ i3 \in 0 .. F3 - 1
        BY <1>1, <1>2, IndexIs
    <2> HIDE DEF i1, i2, i3, F2, F3
    <2> QED
        BY <1>3, <1>4, <2>1, SlotsNat
  <1>6. (v < R * S1 <=> i1 < R) /\ R \in Nat
      BY <1>1, LowIs
  <1>7. T[1] = Root /\ T[2] = Below(tb, Root, i1) /\ T[3] = Below(tb, T[2], i2)
    <2>1. 2 \in 2 .. 4 /\ 3 \in 2 .. 4 /\ 2 - 1 = 1 /\ 3 - 1 = 2
        OBVIOUS
    <2> QED
        BY <1>1, <2>1, PathIs
  <1>8. d = IF T[3] = NoTable THEN NoEntry ELSE tb[T[3]][i3]
    <2>1. 4 - 1 = 3
        OBVIOUS
    <2> QED
        BY <1>1, <2>1 DEF DirectoryEntry
  <1> HIDE DEF T, d
  <1>9. ASSUME ~ (i1 < R) PROVE d = NoEntry
    <2>1. tb[Root][i1] = NoEntry
      <3>1. ~ PdptMade(R, 0, i1)
          BY <1>5, <1>6, <1>9 DEF PdptMade
      <3> QED
          BY <1>3, <3>1 DEF BootTables
    <2>2. T[2] = NoTable
        BY <1>7, <2>1, EntriesAre DEF Below
    <2>3. T[3] = NoTable
        BY <1>7, <2>2 DEF Below
    <2> QED
        BY <1>8, <2>3
  <1>10. ASSUME i1 < R PROVE d.kind = "huge" /\ d.to + i4 = v
    <2>1. PdptMade(R, 0, i1) /\ DirMade(R, 0, i1, i2)
        BY <1>5, <1>10 DEF PdptMade, DirMade, F2
    <2>2. /\ tb[Root][i1].kind = "small"
          /\ tb[tb[Root][i1].to][i2].kind = "small"
          /\ tb[tb[tb[Root][i1].to][i2].to] = LowDirectory(i1, i2)
        BY <1>3, <2>1 DEF BootTables
    <2>3. T[2] = tb[Root][i1].to
        BY <1>7, <2>2, NotPages DEF Below
    <2>4. T[2] # NoTable
      <3>1. tb \in Contents
          BY DEF Tree
      <3>2. T[2] \in Nat
          BY <1>3, <2>3, <3>1, EntryIs
      <3> QED
          BY <3>2 DEF NoTable
    <2>5. T[3] = tb[T[2]][i2].to
        BY <1>7, <2>2, <2>3, <2>4 DEF Below
    <2>6. T[3] # NoTable
      <3>1. T[2] \in Pages \cup {Root} /\ tb \in Contents
        <4>1. T[2] \in H
            BY <1>1, <1>2, <2>4, PathLevels DEF T
        <4> QED
            BY <4>1 DEF Tree
      <3>2. T[3] \in Nat
          BY <1>3, <2>5, <3>1, EntryIs
      <3> QED
          BY <3>2 DEF NoTable
    <2>7. d = LowDirectory(i1, i2)[i3]
        BY <1>8, <2>2, <2>3, <2>5, <2>6
    <2> DEFINE first == i1 * S1 + i2 * S2
    <2>8. S1 \in Nat /\ S2 \in Nat /\ S1 = F2 * S2 /\ S2 = F3 * F4
      <3>1. /\ 1 \in 1 .. 4 - 1 /\ 1 + 1 = 2 /\ 2 \in 1 .. 4 - 1 /\ 2 + 1 = 3 /\ 4 - 1 = 3
            /\ 1 \in 1 .. 4 /\ 2 \in 1 .. 4
          OBVIOUS
      <3>2. S1 \in Nat /\ S2 \in Nat
          BY <1>1, <3>1, SpansAre
      <3>3. S1 = F2 * S2 /\ S2 = F3 * Spans[b][3]
          BY <1>1, <3>1, SpansAre
      <3>4. Spans[b][3] = F4
          BY <1>1, <1>2, <3>1, LastIndex
      <3> QED
          BY <3>2, <3>3, <3>4
    <2>9. LowDirectory(i1, i2) = Large(b, first, F3)
        BY DEF LowDirectory
    <2>10. v = ((i1 * F2 + i2) * F3 + i3) * F4 + i4
      <3>1. /\ 1 \in 1 .. 4 - 1 /\ 1 + 1 = 2 /\ 2 \in 1 .. 4 - 1 /\ 2 + 1 = 3 /\ 4 - 1 = 3
          OBVIOUS
      <3>2. v \div S2 = i1 * F2 + i2
          BY <1>1, <1>2, <3>1, NextIndex
      <3>3. v \div Spans[b][3] = (v \div S2) * F3 + i3
          BY <1>1, <1>2, <3>1, NextIndex
      <3>4. v = (v \div Spans[b][3]) * F4 + i4
          BY <1>1, <1>2, <3>1, LastIndex
      <3> HIDE DEF i1, i2, i3, i4, F2, F3, F4, S2
      <3> QED
          BY <3>2, <3>3, <3>4
    <2>11. LowDirectory(i1, i2)[i3] = Huge(first + i3 * F4)
      <3> HIDE DEF first, i1, i2, i3
      <3>1. first \in Nat
          BY <1>5, <2>8 DEF first
      <3>2. Large(b, first, F3)[i3] = Huge(first + i3 * Fans[b][Levels(b)])
        <4> HIDE DEF F3
        <4> QED
            BY <1>1, <1>3, <1>4, <1>5, <3>1, LargeIs
      <3> QED
          BY <1>1, <2>9, <3>2
    <2> DEFINE z == first + i3 * F4
    <2>12. z \in Nat /\ v = z + i4
      <3> HIDE DEF i1, i2, i3, i4, F2, F3, F4, S1, S2
      <3>1. first \in Nat /\ i3 * F4 \in Nat
          BY <1>4, <1>5, <2>8
      <3>2. z = i1 * (F2 * (F3 * F4)) + i2 * (F3 * F4) + i3 * F4
          BY <2>8
      <3>3. z = ((i1 * F2 + i2) * F3 + i3) * F4
          BY <1>4, <1>5, <3>2, Digits
      <3> QED
          BY <2>10, <3>1, <3>3
    <2> HIDE DEF z
    <2>13. d = Huge(z)
        BY <2>7, <2>11 DEF z
    <2>14. d.kind = "huge" /\ d.to = z
        BY <2>12, <2>13, EntriesAre
    <2> QED
        BY <2>12, <2>14
  <1> QED
      BY <1>1, <1>6, <1>9, <1>10 DEF d

(* What vmm_init has linked so far, on x86_64.                             *)
LEMMA BootLinks ==
  ASSUME NEW tb, NEW H, NEW lev, Tree("x86_64", tb, H, lev), NEW r \in Nat, NEW m \in Nat,
         BootTables(tb, r, m), NEW q \in Slots, PdptMade(r, m, q)
  PROVE  /\ tb[Root][q].kind = "small" /\ tb[Root][q].to \in H \ {Root} /\ lev[tb[Root][q].to] = 2
         /\ IsLink("x86_64", tb, lev, Root, q)
         /\ \A j \in Slots : DirMade(r, m, q, j) =>
               /\ tb[tb[Root][q].to][j].kind = "small"
               /\ tb[tb[Root][q].to][j].to \in H \ {Root}
               /\ lev[tb[tb[Root][q].to][j].to] = 3
               /\ tb[tb[tb[Root][q].to][j].to] = LowDirectory(q, j)
         /\ \A j \in Slots : ~ DirMade(r, m, q, j) => tb[tb[Root][q].to][j] = NoEntry
  <1> DEFINE D == tb[Root][q].to
  <1>1. Root \in H /\ lev[Root] = 1 /\ Levels("x86_64") = 4
      BY DEF Tree, Levels
  <1>2. tb[Root][q].kind = "small"
      BY DEF BootTables
  <1>3. IsLink("x86_64", tb, lev, Root, q)
      BY <1>1, <1>2 DEF IsLink
  <1>4. D \in H \ {Root} /\ lev[D] = 2
    <2>1. D \in H \ {Root} /\ lev[D] = lev[Root] + 1
        BY <1>1, <1>3 DEF Tree
    <2> QED
        BY <1>1, <2>1
  <1>5. \A j \in Slots : IF DirMade(r, m, q, j)
                         THEN tb[D][j].kind = "small" /\ tb[tb[D][j].to] = LowDirectory(q, j)
                         ELSE tb[D][j] = NoEntry
      BY DEF BootTables
  <1> HIDE DEF D
  <1>6. ASSUME NEW j \in Slots, DirMade(r, m, q, j)
        PROVE  tb[D][j].to \in H \ {Root} /\ lev[tb[D][j].to] = 3
    <2>1. IsLink("x86_64", tb, lev, D, j)
        BY <1>1, <1>4, <1>5, <1>6 DEF IsLink
    <2>2. tb[D][j].to \in H \ {Root} /\ lev[tb[D][j].to] = lev[D] + 1
        BY <1>4, <2>1 DEF Tree
    <2> QED
        BY <1>4, <2>2
  <1> QED
      BY <1>2, <1>3, <1>4, <1>5, <1>6 DEF D

(* Memory is equal where its entries are.                                  *)
LEMMA SameTable ==
  ASSUME NEW tb \in Contents, NEW ub \in Contents, NEW x \in Pages \cup {Root},
         \A m \in Slots : ub[x][m] = tb[x][m]
  PROVE  ub[x] = tb[x]
  <1>1. tb[x] \in [Slots -> TableEntries] /\ ub[x] \in [Slots -> TableEntries]
      BY DEF Contents
  <1> QED
      BY <1>1

(* vmm_init makes a pdpt.                                                  *)
LEMMA BootPdpt ==
  ASSUME NEW tb, NEW H, NEW lev, NEW r, NEW t, NEW ub, BootTables(tb, r, 0),
         Extends("x86_64", tb, H, lev, Root, r, t, ub), \A m \in Slots : ub[t][m] = NoEntry
  PROVE  BootTables(ub, r, 1)
  <1> USE DEF Extends
  <1>1. r \in Nat /\ Slots \subseteq Nat /\ Root \in H /\ H \subseteq Pages \cup {Root} /\ tb \in Contents
      BY SlotsNat DEF Tree
  <1>2. ASSUME NEW q \in Slots
        PROVE  (PdptMade(r, 1, q) <=> PdptMade(r, 0, q) \/ q = r) /\ ~ PdptMade(r, 0, r)
      BY <1>1 DEF PdptMade
  <1>3. ASSUME NEW q \in Slots, NEW j \in Slots
        PROVE  (DirMade(r, 1, q, j) <=> DirMade(r, 0, q, j)) /\ ~ DirMade(r, 1, r, j)
      BY <1>1 DEF DirMade
  <1>4. \A x \in H : x # Root => ub[x] = tb[x]
      BY <1>1, SameTable
  <1>5. \A q \in Slots : IF PdptMade(r, 1, q) THEN ub[Root][q].kind = "small" ELSE ub[Root][q] = NoEntry
    <2> SUFFICES ASSUME NEW q \in Slots, q # r
                 PROVE  IF PdptMade(r, 1, q) THEN ub[Root][q].kind = "small" ELSE ub[Root][q] = NoEntry
        BY <1>2
    <2>1. ub[Root][q] = tb[Root][q]
        BY <1>1
    <2>2. IF PdptMade(r, 0, q) THEN tb[Root][q].kind = "small" ELSE tb[Root][q] = NoEntry
        BY DEF BootTables
    <2> QED
        BY <1>2, <2>1, <2>2
  <1>6. ASSUME NEW q \in Slots, NEW j \in Slots, PdptMade(r, 1, q)
        PROVE  IF DirMade(r, 1, q, j)
               THEN /\ ub[ub[Root][q].to][j].kind = "small"
                    /\ ub[ub[ub[Root][q].to][j].to] = LowDirectory(q, j)
               ELSE ub[ub[Root][q].to][j] = NoEntry
    <2>1. CASE q = r
        BY <1>3, <2>1
    <2>2. CASE q # r
      <3> DEFINE D == tb[Root][q].to
                 E == tb[D][j].to
      <3>1. PdptMade(r, 0, q) /\ 0 \in Nat
          BY <1>2, <1>6, <2>2
      <3>2. /\ D \in H \ {Root}
            /\ DirMade(r, 0, q, j) => /\ tb[D][j].kind = "small" /\ E \in H \ {Root}
                                      /\ tb[E] = LowDirectory(q, j)
            /\ ~ DirMade(r, 0, q, j) => tb[D][j] = NoEntry
          BY <1>1, <3>1, BootLinks
      <3>3. ub[Root][q] = tb[Root][q]
          BY <1>1, <2>2
      <3> HIDE DEF D, E
      <3>4. ub[D] = tb[D] /\ (E \in H \ {Root} => ub[E] = tb[E])
          BY <1>4, <3>2
      <3> QED
          BY <1>3, <3>2, <3>3, <3>4 DEF D, E
    <2> QED
        BY <2>1, <2>2
  <1> QED
      BY <1>5, <1>6 DEF BootTables

(* It makes a directory below the last pdpt.                               *)
LEMMA BootDirectory ==
  ASSUME NEW tb, NEW H, NEW lev, NEW r \in Slots, NEW m \in Nat \ {0}, NEW t, NEW ub,
         BootTables(tb, r, m), m <= Fans["x86_64"][2],
         Extends("x86_64", tb, H, lev, tb[Root][r].to, m - 1, t, ub), ub[t] = LowDirectory(r, m - 1)
  PROVE  BootTables(ub, r, m + 1)
  <1> USE DEF Extends
  <1> DEFINE F == Fans["x86_64"][2]
             D == tb[Root][r].to
  <1>1. r \in Nat /\ Slots \subseteq Nat /\ Root \in H /\ H \subseteq Pages \cup {Root} /\ tb \in Contents
      BY SlotsNat DEF Tree
  <1>2. ASSUME NEW q \in Slots
        PROVE  (PdptMade(r, m + 1, q) <=> PdptMade(r, m, q)) /\ PdptMade(r, m, r)
      BY <1>1 DEF PdptMade
  <1>3. F \in Nat
    <2>1. 2 \in 1 .. Levels("x86_64") /\ "x86_64" \in Builds
        BY DEF Builds, Levels
    <2> QED
        BY <2>1, BuildIs
  <1>4. ASSUME NEW q \in Slots, NEW j \in Slots
        PROVE  DirMade(r, m + 1, q, j) <=> DirMade(r, m, q, j) \/ (q = r /\ j = m - 1)
      BY <1>1, <1>3, <1>4 DEF DirMade
  <1>5. D \in H \ {Root} /\ lev[D] = 2 /\ IsLink("x86_64", tb, lev, Root, r)
      BY <1>1, <1>2, BootLinks
  <1> HIDE DEF D
  <1>6. \A x \in H : x # D => ub[x] = tb[x]
      BY <1>1, SameTable DEF D
  <1>7. \A q \in Slots : IF PdptMade(r, m + 1, q) THEN ub[Root][q].kind = "small" ELSE ub[Root][q] = NoEntry
      BY <1>1, <1>2, <1>5, <1>6 DEF BootTables
  <1>8. ASSUME NEW q \in Slots, NEW j \in Slots, PdptMade(r, m + 1, q)
        PROVE  IF DirMade(r, m + 1, q, j)
               THEN /\ ub[ub[Root][q].to][j].kind = "small"
                    /\ ub[ub[ub[Root][q].to][j].to] = LowDirectory(q, j)
               ELSE ub[ub[Root][q].to][j] = NoEntry
    <2> DEFINE C == tb[Root][q].to
               E == tb[C][j].to
    <2>1. PdptMade(r, m, q)
        BY <1>2, <1>8
    <2>2. /\ C \in H \ {Root} /\ IsLink("x86_64", tb, lev, Root, q)
          /\ DirMade(r, m, q, j) => /\ tb[C][j].kind = "small" /\ E \in H \ {Root} /\ lev[E] = 3
                                    /\ tb[E] = LowDirectory(q, j)
          /\ ~ DirMade(r, m, q, j) => tb[C][j] = NoEntry
        BY <1>1, <2>1, BootLinks
    <2>3. ub[Root][q].to = C
        BY <1>1, <1>5, <1>6
    <2>4. CASE q = r /\ j = m - 1
      <3>1. C = D
          BY <2>4 DEF D
      <3>2. ub[C][j].kind = "small" /\ ub[C][j].to = t /\ ub[t] = LowDirectory(q, j)
          BY <2>4, <3>1 DEF D
      <3>3. DirMade(r, m + 1, q, j)
          BY <1>4, <2>4
      <3> HIDE DEF C
      <3> QED
          BY <2>3, <3>2, <3>3
    <2>5. CASE ~ (q = r /\ j = m - 1)
      <3>1. C = D => q = r
          BY <1>1, <1>5, <2>2 DEF Tree, D
      <3>2. ub[C][j] = tb[C][j]
          BY <2>2, <2>5, <3>1 DEF D
      <3>3. DirMade(r, m + 1, q, j) <=> DirMade(r, m, q, j)
          BY <1>4, <2>5
      <3> HIDE DEF C, E
      <3>4. DirMade(r, m, q, j) => ub[E] = tb[E]
        <4>1. DirMade(r, m, q, j) => E \in H /\ E # D
            BY <1>5, <2>2
        <4> QED
            BY <1>6, <4>1
      <3> QED
          BY <2>2, <2>3, <3>2, <3>3, <3>4 DEF E
    <2> QED
        BY <2>4, <2>5
  <1> QED
      BY <1>7, <1>8 DEF BootTables

(* The last directory of a pdpt completes it.                              *)
LEMMA BootCarry ==
  ASSUME NEW tb, NEW r \in Nat, BootTables(tb, r, Fans["x86_64"][2] + 1)
  PROVE  BootTables(tb, r + 1, 0)
  <1> DEFINE F == Fans["x86_64"][2]
  <1>1. F \in Nat /\ Slots \subseteq Nat
    <2>1. 2 \in 1 .. Levels("x86_64") /\ "x86_64" \in Builds
        BY DEF Builds, Levels
    <2> QED
        BY <2>1, BuildIs, SlotsNat
  <1>2. ASSUME NEW q \in Slots PROVE PdptMade(r, F + 1, q) <=> PdptMade(r + 1, 0, q)
    <2> HIDE DEF F
    <2> QED
        BY <1>1 DEF PdptMade
  <1>3. ASSUME NEW q \in Slots, NEW j \in Slots PROVE DirMade(r, F + 1, q, j) <=> DirMade(r + 1, 0, q, j)
    <2>1. q \in Nat /\ j \in Nat
        BY <1>1
    <2>2. /\ DirMade(r, F + 1, q, j) <=> j < F /\ (q < r \/ (q = r /\ j + 1 < F + 1))
          /\ DirMade(r + 1, 0, q, j) <=> j < F /\ (q < r + 1 \/ (q = r + 1 /\ j + 1 < 0))
        BY DEF DirMade
    <2> HIDE DEF F
    <2> QED
        BY <1>1, <2>1, <2>2
  <1> HIDE DEF F
  <1> QED
      BY <1>2, <1>3 DEF BootTables, F

-----------------------------------------------------------------------------
(* The inductive invariant of the page tables.                             *)

(* The pages allocated for tables are a tree below the root.               *)
HasTree == \E lev : Tree(Build, tab, owner[PageTables] \cup {Root}, lev)

(* vmm_init is in the middle of its tables.                                *)
Booting ==
    IF Build = "x86" THEN owner[PageTables] = {}
    ELSE /\ filled \in Nat /\ filled < IdentityRoots["x86_64"] * (1 + Fans["x86_64"][2])
         /\ BootTables(tab, filled \div (1 + Fans["x86_64"][2]), filled % (1 + Fans["x86_64"][2]))

(* vmm_map has come down its page's way.                                   *)
OnTheWay ==
    /\ walk \in [v : Virt, p : Nat, t : Pages \cup {Root}, l : 1 .. Levels(Build)]
    /\ walk.t = PathOf(Build, tab, walk.v)[walk.l]

(* The low pages, and no others, are in large pages.                       *)
LowMapped ==
    \A v \in Virt :
        IF v < IdentityRoots[Build] * Spans[Build][1]
        THEN /\ DirectoryEntry(Build, tab, v).kind = "huge"
             /\ DirectoryEntry(Build, tab, v).to + IndexOf(Build, v, Levels(Build)) = v
        ELSE DirectoryEntry(Build, tab, v).kind # "huge"

VmmInv ==
    /\ vpc \in {"off", "idle", "walk", "stopped"} /\ tab \in Contents
    /\ vpc # "stopped" => HasTree
    /\ vpc = "off" => Booting
    /\ vpc = "walk" => OnTheWay
    /\ vpc \in {"idle", "walk"} => LowMapped

(* The machine's memory when vmm_init begins.                              *)
LEMMA VmmInvInit == MInit => VmmInv
  <1> SUFFICES ASSUME MInit PROVE VmmInv
      OBVIOUS
  <1>1. Build \in Builds /\ PageTables \in Clients
      BY ModelWalk, VmmAssumption
  <1>2. tab \in Contents /\ \A k \in Slots : tab[Root][k] = NoEntry
    <2>1. Junk \in [Slots -> TableEntries] /\ ZeroTable \in [Slots -> TableEntries]
        BY EntriesAre DEF Junk, ZeroTable
    <2>2. tab = [t \in Pages \cup {Root} |-> IF t = Root THEN ZeroTable ELSE Junk]
        BY DEF MInit
    <2> QED
        BY <2>1, <2>2 DEF Contents, ZeroTable
  <1>3. owner[PageTables] = {} /\ vpc = "off" /\ filled = 0
      BY <1>1 DEF MInit, Init
  <1>4. HasTree
    <2>1. Tree(Build, tab, {Root}, [x \in {Root} |-> 1])
        BY <1>1, <1>2, EntriesAre, RootAlone
    <2>2. owner[PageTables] \cup {Root} = {Root}
        BY <1>3
    <2> QED
        BY <2>1, <2>2 DEF HasTree
  <1>5. Booting
    <2> DEFINE b == "x86_64"
               F == 1 + Fans[b][2]
               R == IdentityRoots[b]
    <2>1. F \in Nat \ {0} /\ R \in Nat \ {0}
      <3>1. b \in Builds /\ 2 \in 1 .. Levels(b) /\ b \in DOMAIN Fans /\ 1 \in 1 .. Levels(b)
          BY BuildIs DEF Builds, Levels
      <3>2. Fans[b][2] \in Nat /\ Fans[b][1] \in Nat
          BY <3>1, BuildIs
      <3>3. R \in 1 .. Fans[b][1]
          BY <3>1, VmmAssumption
      <3> QED
          BY <3>2, <3>3
    <2> HIDE DEF F, R
    <2>2. 0 < R * F /\ 0 \div F = 0 /\ 0 % F = 0
      <3>1. R * F \in Nat \ {0}
          BY <2>1
      <3>2. 0 = 0 * F + 0
          BY <2>1
      <3>3. 0 \div F = 0 /\ 0 % F = 0
          BY <2>1, <3>2, DivOnly
      <3> QED
          BY <3>1, <3>3
    <2>3. BootTables(tab, 0, 0)
      <3>1. \A q \in Slots : ~ PdptMade(0, 0, q)
          BY SlotsNat DEF PdptMade
      <3> QED
          BY <1>2, <3>1 DEF BootTables
    <2> QED
        BY <1>3, <2>2, <2>3 DEF Booting, F, R
  <1> QED
      BY <1>2, <1>3, <1>4, <1>5 DEF VmmInv

(* What VmmInv speaks of.                                                  *)
LEMMA VmmInvSame ==
  ASSUME VmmInv, UNCHANGED <<map, tab, vpc, filled, walk>>, owner'[PageTables] = owner[PageTables]
  PROVE  VmmInv'
  <1>1. Build' = Build
      BY DEF Build
  <1> QED
      BY <1>1 DEF VmmInv, HasTree, Booting, OnTheWay, LowMapped

(* The page pmm_alloc gave for a table.                                    *)
LEMMA Fresh ==
  ASSUME TypeOK, pmm_alloc(PageTables)
  PROVE  /\ owner'[PageTables] = owner[PageTables] \cup Allocated /\ Allocated \subseteq Pages
         /\ \A t, u \in Allocated : t = u
         /\ \A t \in Allocated : t \notin owner[PageTables] \cup {Root}
         /\ map' = map
  <1>1. PageTables \in Clients /\ owner \in [Clients -> SUBSET Pages] /\ Root \notin Pages
      BY VmmAssumption, NotPages DEF TypeOK
  <1>2. CASE \E s \in Pages : IsFirstFit(bitmap, s, 1) /\ Take(PageTables, {s})
    <2>1. PICK s \in Pages : Take(PageTables, {s})
        BY <1>2
    <2>2. owner'[PageTables] = owner[PageTables] \cup {s}
        BY <1>1, <2>1 DEF Take
    <2> QED
        BY <1>1, <2>2 DEF Allocated, pmm_alloc
  <1>3. CASE owner' = owner
      BY <1>1, <1>3 DEF Allocated, pmm_alloc
  <1> QED
      BY <1>2, <1>3 DEF pmm_alloc

(* ModelWalk, after a step.                                                *)
LEMMA ModelWalkNext ==
  /\ Build' \in Builds /\ Depth' = Levels(Build')
  /\ \A v : vmm_phys(v)' = PhysOf(Build', tab', v)
  <1>1. (/\ Build \in Builds /\ Depth = Levels(Build)
         /\ \A v : vmm_phys(v) = PhysOf(Build, tab, v))'
    <2>1. /\ Build \in Builds /\ Depth = Levels(Build)
          /\ \A v : vmm_phys(v) = PhysOf(Build, tab, v)
        BY ModelWalk
    <2> QED
        BY <2>1, PTL
  <1> QED
      BY <1>1

(* Some levels go with the new table.                                      *)
LEMMA AddedTable ==
  ASSUME NEW b \in Builds, NEW tb, NEW H, NEW lev, NEW u, NEW k, NEW t, NEW ub,
         Extends(b, tb, H, lev, u, k, t, ub)
  PROVE  \E lev2 : Tree(b, ub, H \cup {t}, lev2)
  <1> DEFINE f == [x \in H \cup {t} |-> IF x = t THEN lev[u] + 1 ELSE lev[x]]
  <1>1. lev \in [H -> 1 .. Levels(b)] /\ Levels(b) \in {2, 4}
      BY BuildIs DEF Tree, Extends
  <1>2. lev[u] + 1 \in 1 .. Levels(b)
      BY <1>1 DEF Extends
  <1>3. f \in [H \cup {t} -> 1 .. Levels(b)] /\ f[t] = lev[u] + 1 /\ \A x \in H : f[x] = lev[x]
      BY <1>1, <1>2 DEF Extends
  <1> HIDE DEF f
  <1>4. Tree(b, ub, H \cup {t}, f)
      BY <1>3, AddTable
  <1> QED
      BY <1>4

(* One table of vmm_init on x86_64, when r pdpts are complete and m tables *)
(* of the next are made.                                                   *)
BootWrite(tb, r, m, t) ==
    IF m - 1 < 0 THEN [tb EXCEPT ![Root][r] = Small(t), ![t] = ZeroTable]
    ELSE [tb EXCEPT ![tb[Root][r].to][m - 1] = Small(t), ![t] = LowDirectory(r, m - 1)]

LEMMA BootStep ==
  ASSUME NEW tb, NEW H, NEW lev, Tree("x86_64", tb, H, lev), NEW r \in Slots, NEW m \in Nat,
         m <= Fans["x86_64"][2], BootTables(tb, r, m), NEW t \in Pages \ H,
         NEW ub, ub = BootWrite(tb, r, m, t)
  PROVE  /\ ub \in Contents /\ BootTables(ub, r, m + 1)
         /\ \E lev2 : Tree("x86_64", ub, H \cup {t}, lev2)
  <1> DEFINE b == "x86_64"
             F == Fans[b][2]
  <1>1. b \in Builds /\ Levels(b) = 4
      BY DEF Builds, Levels
  <1>2. F \in Nat \ {0}
    <2>1. 2 \in 1 .. 4
        OBVIOUS
    <2> QED
        BY <1>1, <2>1, BuildIs
  <1>4. m <= F /\ r \in Nat
      BY SlotsNat
  <1> HIDE DEF F
  <1>6. /\ Root \in H /\ H \subseteq Pages \cup {Root} /\ tb \in Contents /\ lev[Root] = 1
        /\ t \in Pages \cup {Root} /\ t \in Nat
      BY NotPages DEF Tree
  <1>8. Small(t) \in TableEntries /\ Small(t).kind = "small" /\ Small(t).to = t
      BY <1>6, EntriesAre
  <1>9. CASE m = 0
    <2>1. ub = [tb EXCEPT ![Root][r] = Small(t), ![t] = ZeroTable]
        BY <1>9 DEF BootWrite
    <2>2. ZeroTable \in [Slots -> TableEntries] /\ \A k \in Slots : ZeroTable[k] = NoEntry
        BY EntriesAre DEF ZeroTable
    <2>3. /\ ub \in Contents /\ ub[t] = ZeroTable /\ ub[Root][r] = Small(t)
          /\ \A x \in H, k \in Slots : ~ (x = Root /\ k = r) => ub[x][k] = tb[x][k]
      <3>1. t # Root /\ \A x \in H : x # t
          BY <1>6
      <3>2. /\ ub \in Contents /\ ub[t] = ZeroTable /\ ub[Root][r] = Small(t)
            /\ \A x \in Pages \cup {Root}, k \in Slots : x # t /\ ~ (x = Root /\ k = r) => ub[x][k] = tb[x][k]
          BY ONLY <1>6, <1>8, <2>1, <2>2, <3>1, r \in Slots DEF Contents
      <3> QED
          BY <1>6, <3>1, <3>2
    <2>4. tb[Root][r].kind = "none"
      <3>1. ~ PdptMade(r, 0, r)
          BY <1>4 DEF PdptMade
      <3> QED
          BY <1>9, <3>1, EntriesAre DEF BootTables
    <2>5. Extends(b, tb, H, lev, Root, r, t, ub) /\ \A k \in Slots : ub[t][k] = NoEntry
      <3>1. lev[Root] < Levels(b) /\ \A k \in Slots : ub[t][k] = NoEntry /\ ub[t][k].kind = "none"
          BY <1>1, <1>6, <2>2, <2>3, EntriesAre
      <3> QED
          BY <1>6, <1>8, <2>3, <2>4, <3>1 DEF Extends
    <2>6. BootTables(ub, r, 1) /\ \E lev2 : Tree(b, ub, H \cup {t}, lev2)
      <3>1. BootTables(tb, r, 0)
          BY <1>9
      <3> QED
          BY <1>1, <2>5, <3>1, BootPdpt, AddedTable
    <2>7. m + 1 = 1
        BY <1>9
    <2> QED
        BY <2>3, <2>6, <2>7
  <1>10. CASE m # 0
    <2> DEFINE j == m - 1
               D == tb[Root][r].to
               first == r * Spans[b][1] + j * Spans[b][2]
    <2>1. m \in Nat \ {0} /\ m <= F /\ j \in Nat /\ ~ (m - 1 < 0)
        BY <1>2, <1>4, <1>10
    <2>2. j \in Slots
      <3>1. j \in 0 .. F - 1
          BY <1>2, <2>1
      <3>2. 2 \in 1 .. 4
          OBVIOUS
      <3> QED
          BY <1>1, <3>1, <3>2, BuildIs DEF F
    <2>3. ub = [tb EXCEPT ![D][j] = Small(t), ![t] = LowDirectory(r, j)]
        BY <2>1 DEF BootWrite
    <2>4. D \in H \ {Root} /\ lev[D] = 2 /\ tb[D][j].kind = "none"
      <3>1. PdptMade(r, m, r) /\ ~ DirMade(r, m, r, j)
          BY <1>4, <2>1 DEF PdptMade, DirMade
      <3> QED
        <4>1. D \in H \ {Root} /\ lev[D] = 2 /\ tb[D][j] = NoEntry
            BY <1>4, <2>1, <2>2, <3>1, BootLinks
        <4> QED
            BY <4>1, EntriesAre
    <2>5. /\ LowDirectory(r, j) \in [Slots -> TableEntries]
          /\ \A k \in Slots : LowDirectory(r, j)[k].kind # "small"
      <3>1. LowDirectory(r, j) = Large(b, first, Fans[b][3])
          BY DEF LowDirectory
      <3>2. 1 \in 1 .. 4 /\ 2 \in 1 .. 4 /\ 3 \in 1 .. 4
          OBVIOUS
      <3>3. Spans[b][1] \in Nat /\ Spans[b][2] \in Nat /\ Fans[b][3] \in Nat
          BY <1>1, <3>2, SpansAre, BuildIs
      <3>4. first \in Nat
          BY <1>4, <2>1, <3>3
      <3> DEFINE n3 == Fans[b][3]
      <3> HIDE DEF first, n3
      <3>5. b \in Builds /\ n3 \in Nat
          BY <1>1, <3>3 DEF n3
      <3>6. /\ Large(b, first, n3) \in [Slots -> TableEntries]
            /\ \A k \in Slots : Large(b, first, n3)[k].kind # "small"
          BY ONLY <3>4, <3>5, LargeIs
      <3> QED
          BY <3>1, <3>6 DEF n3
    <2> HIDE DEF D, j
    <2>6. /\ ub \in Contents /\ ub[t] = LowDirectory(r, j) /\ ub[D][j] = Small(t)
          /\ \A x \in H, k \in Slots : ~ (x = D /\ k = j) => ub[x][k] = tb[x][k]
      <3>1. t # D /\ D \in Pages \cup {Root} /\ \A x \in H : x # t
          BY <1>6, <2>4
      <3>2. /\ ub \in Contents /\ ub[t] = LowDirectory(r, j) /\ ub[D][j] = Small(t)
            /\ \A x \in Pages \cup {Root}, k \in Slots : x # t /\ ~ (x = D /\ k = j) => ub[x][k] = tb[x][k]
          BY ONLY <1>6, <1>8, <2>2, <2>3, <2>5, <3>1 DEF Contents
      <3> QED
          BY <1>6, <3>1, <3>2
    <2>7. Extends(b, tb, H, lev, D, j, t, ub)
      <3>1. /\ lev[D] < Levels(b) /\ lev[D] + 1 = Levels(b) - 1
            /\ \A k \in Slots : ub[t][k].kind # "small"
          BY <1>1, <2>4, <2>5, <2>6
      <3>2. D \in H /\ ub[D][j].to = t /\ ub[D][j].kind = "small"
          BY <1>8, <2>4, <2>6
      <3> QED
          BY <2>2, <2>4, <2>6, <3>1, <3>2 DEF Extends
    <2>8. BootTables(ub, r, m + 1) /\ \E lev2 : Tree(b, ub, H \cup {t}, lev2)
      <3>1. m <= Fans["x86_64"][2] /\ ub[t] = LowDirectory(r, m - 1)
          BY <2>1, <2>6 DEF F, j
      <3>2. Extends("x86_64", tb, H, lev, tb[Root][r].to, m - 1, t, ub)
          BY <2>7 DEF D, j
      <3> QED
          BY <1>1, <2>1, <2>7, <3>1, <3>2, BootDirectory, AddedTable
    <2> QED
        BY <2>6, <2>8
  <1> QED
      BY <1>9, <1>10

(* Counting the tables made.                                               *)
LEMMA BootCount ==
  ASSUME NEW c \in Nat, NEW per, per = 1 + Fans["x86_64"][2], c < IdentityRoots["x86_64"] * per
  PROVE  /\ per \in Nat \ {0} /\ c \div per \in Slots /\ c % per \in Nat /\ c % per <= Fans["x86_64"][2]
         /\ \A ub : BootTables(ub, c \div per, (c % per) + 1) => BootTables(ub, (c + 1) \div per, (c + 1) % per)
         /\ c + 1 = IdentityRoots["x86_64"] * per =>
                (c + 1) \div per = IdentityRoots["x86_64"] /\ (c + 1) % per = 0
         /\ c + 1 # IdentityRoots["x86_64"] * per => c + 1 < IdentityRoots["x86_64"] * per
  <1> DEFINE b == "x86_64"
             F == Fans[b][2]
             R == IdentityRoots[b]
             r == c \div per
             m == c % per
  <1>1. b \in Builds /\ Levels(b) = 4
      BY DEF Builds, Levels
  <1>2. F \in Nat \ {0} /\ per = F + 1 /\ per \in Nat \ {0}
    <2>1. 2 \in 1 .. 4
        OBVIOUS
    <2>2. F \in Nat \ {0}
        BY <1>1, <2>1, BuildIs
    <2>3. per = 1 + F
        OBVIOUS
    <2> HIDE DEF F
    <2> QED
        BY ONLY <2>2, <2>3
  <1>3. R \in Nat /\ R <= Fans[b][1] /\ Fans[b][1] \in Nat /\ 0 .. Fans[b][1] - 1 \subseteq Slots
    <2>1. 1 \in 1 .. 4 /\ b \in DOMAIN Fans
        BY <1>1, BuildIs
    <2>2. Fans[b][1] \in Nat /\ 0 .. Fans[b][1] - 1 \subseteq Slots
        BY <1>1, <2>1, BuildIs
    <2>3. R \in 1 .. Fans[b][1]
        BY <2>1, VmmAssumption
    <2> QED
        BY <2>2, <2>3
  <1>4. c = per * r + m /\ m \in 0 .. per - 1 /\ r \in Nat
      BY <1>2, DivRest
  <1> HIDE DEF F, R, r, m
  <1>5. r \in Slots
    <2>1. ASSUME r >= R PROVE FALSE
      <3>1. per * r >= R * per /\ R * per \in Nat /\ per * r \in Nat
          BY <1>2, <1>3, <1>4, <2>1
      <3>2. c < R * per
          BY DEF R
      <3> QED
          BY <1>2, <1>4, <3>1, <3>2
    <2>2. r \in 0 .. Fans[b][1] - 1
        BY <1>3, <1>4, <2>1
    <2> QED
        BY <1>3, <2>2
  <1>6. c = r * per + m /\ m \in Nat /\ c \in Nat /\ (r + 1) * per = r * per + per /\ r * per \in Nat
    <2>1. per * r = r * per /\ (r + 1) * per = r * per + per /\ r * per \in Nat
        BY ONLY <1>2, <1>4
    <2>2. m \in Nat
        BY ONLY <1>2, <1>4
    <2> QED
        BY ONLY <1>4, <2>1, <2>2, c \in Nat
  <1>7. ASSUME NEW ub, BootTables(ub, r, m + 1)
        PROVE  BootTables(ub, (c + 1) \div per, (c + 1) % per)
    <2>1. CASE m + 1 < per
      <3>1. c + 1 = r * per + (m + 1) /\ c + 1 \in Nat /\ m + 1 \in Nat
          BY ONLY <1>6
      <3>2. (c + 1) \div per = r /\ (c + 1) % per = m + 1
        <4> DEFINE z == c + 1
                   d == m + 1
        <4>1. z = r * per + d /\ z \in Nat /\ d \in Nat /\ d < per
            BY ONLY <2>1, <3>1
        <4> HIDE DEF z, d
        <4>2. z \div per = r /\ z % per = d
            BY ONLY <1>2, <1>4, <4>1, DivOnly
        <4> QED
            BY ONLY <4>2 DEF z, d
      <3> QED
          BY <1>7, <3>2
    <2>2. CASE ~ (m + 1 < per)
      <3>1. m + 1 = per /\ m = F
          BY ONLY <1>2, <1>4, <1>6, <2>2
      <3>2. c + 1 = (r + 1) * per + 0 /\ c + 1 \in Nat /\ r + 1 \in Nat /\ 0 \in Nat /\ 0 < per
          BY ONLY <1>2, <1>4, <1>6, <3>1
      <3>3. (c + 1) \div per = r + 1 /\ (c + 1) % per = 0
          BY ONLY <1>2, <3>2, DivOnly
      <3>4. BootTables(ub, r + 1, 0)
        <4>1. BootTables(ub, r, Fans["x86_64"][2] + 1)
            BY <1>7, <3>1 DEF F
        <4> QED
            BY ONLY <1>4, <4>1, BootCarry
      <3> QED
          BY <3>3, <3>4
    <2> QED
        BY <2>1, <2>2
  <1>8. ASSUME c + 1 = R * per PROVE (c + 1) \div per = R /\ (c + 1) % per = 0
    <2> DEFINE z == c + 1
               o == 0
    <2>1. z = R * per + o /\ z \in Nat /\ o \in Nat /\ o < per
      <3>1. R * per \in Nat
          BY ONLY <1>2, <1>3
      <3> QED
          BY ONLY <1>2, <1>8, <1>6, <3>1
    <2> HIDE DEF z, o
    <2>2. R \in Nat /\ per \in Nat \ {0}
        BY ONLY <1>2, <1>3
    <2>3. z \div per = R /\ z % per = o
        BY ONLY <2>1, <2>2, DivOnly
    <2> QED
        BY ONLY <2>3 DEF z, o
  <1>9. c < R * per /\ R * per \in Nat
      BY <1>2, <1>3 DEF R
  <1>10. c + 1 # R * per => c + 1 < R * per
    <2> DEFINE z == R * per
    <2>1. c < z /\ z \in Nat
        BY <1>9
    <2> HIDE DEF z
    <2>2. c + 1 # z => c + 1 < z
        BY <2>1
    <2> QED
        BY <2>2 DEF z
  <1>11. m \in Nat /\ m <= F
      BY <1>2, <1>4
  <1> QED
      BY <1>2, <1>5, <1>7, <1>8, <1>10, <1>11 DEF r, m, R, F

(* What is seen of a step in AddressSpace.                                 *)
LEMMA SpaceIs ==
  ASSUME map' = map
  PROVE  /\ Low' = Low /\ Build' = Build /\ Build \in Builds /\ Depth = Levels(Build)
         /\ \A v \in Virt : v \in Low <=> v < IdentityRoots[Build] * Spans[Build][1]
         /\ Mapping = [v \in Virt |-> IF vpc = "off" THEN 0 ELSE PhysOf(Build, tab, v)]
         /\ Mapping' = [v \in Virt |-> IF vpc' = "off" THEN 0 ELSE PhysOf(Build, tab', v)]
  <1>1. Build' = Build /\ Build \in Builds /\ Depth = Levels(Build)
      BY ModelWalk DEF Build
  <1>2. Low' = Low
      BY <1>1 DEF Low, Span
  <1>3. ASSUME NEW v \in Virt PROVE v \in Low <=> v < IdentityRoots[Build] * Spans[Build][1]
    <2> DEFINE z == IdentityRoots[Build] * Spans[Build][1]
    <2>1. v \in Nat /\ Spans[Build][1] \in Nat /\ IdentityRoots[Build] \in Nat
        BY <1>1, BuildIs, SpansAre, TopIndex, LowIs
    <2>2. z \in Nat /\ Low = 0 .. z - 1
        BY <2>1 DEF Low, Span
    <2> HIDE DEF z
    <2>3. v \in Low <=> v < z
        BY <2>1, <2>2
    <2> QED
        BY <2>3 DEF z
  <1>4. Mapping = [v \in Virt |-> IF vpc = "off" THEN 0 ELSE PhysOf(Build, tab, v)]
      BY ModelWalk DEF Mapping
  <1>5. Mapping' = [v \in Virt |-> IF vpc' = "off" THEN 0 ELSE PhysOf(Build, tab', v)]
    <2>1. Mapping' = [v \in Virt |-> IF vpc' = "off" THEN 0 ELSE vmm_phys(v)']
        BY DEF Mapping
    <2>2. \A v : vmm_phys(v)' = PhysOf(Build, tab', v)
        BY <1>1, ModelWalkNext
    <2> QED
        BY <2>1, <2>2
  <1> QED
      BY <1>1, <1>2, <1>3, <1>4, <1>5

(* A call that finds no memory or no way ends the promise.                 *)
LEMMA StopStep ==
  ASSUME VmmInv, vpc # "stopped", vpc' = "stopped", map' = map, tab' \in Contents
  PROVE  VmmInv' /\ Space!ASNext
  <1>1. Low' = Low
      BY SpaceIs
  <1>2. Mode # "stopped" /\ Mode' = "stopped"
      BY DEF Mode, VmmInv
  <1>3. Space!Stop
      BY <1>2 DEF Space!Stop
  <1> QED
      BY <1>1, <1>3 DEF Space!ASNext, VmmInv

(* vmm_init is done.                                                       *)
LEMMA EnableStep ==
  ASSUME VmmInv, vpc = "off", vpc' = "idle", map' = map, tab' \in Contents, HasTree',
         \A v \in Virt :
             IF v < IdentityRoots[Build] * Spans[Build][1]
             THEN /\ DirectoryEntry(Build, tab', v).kind = "huge"
                  /\ DirectoryEntry(Build, tab', v).to + IndexOf(Build, v, Levels(Build)) = v
             ELSE DirectoryEntry(Build, tab', v) = NoEntry
  PROVE  VmmInv' /\ Space!ASNext
  <1>1. Low' = Low /\ Build' = Build /\ Build \in Builds
      BY SpaceIs
  <1>2. PICK H, lev : Tree(Build, tab', H, lev)
      BY <1>1 DEF HasTree
  <1>3. ASSUME NEW v \in Virt PROVE PhysOf(Build, tab', v) = IF v \in Low THEN v ELSE 0
    <2>1. v \in Nat /\ Levels(Build) \in Nat
        BY <1>1, TopIndex, BuildIs
    <2>2. CASE v \in Low
      <3>1. v < IdentityRoots[Build] * Spans[Build][1]
          BY <2>2, SpaceIs
      <3>2. /\ DirectoryEntry(Build, tab', v).kind = "huge"
            /\ DirectoryEntry(Build, tab', v).to + IndexOf(Build, v, Levels(Build)) = v
          BY <3>1
      <3>3. PhysOf(Build, tab', v) = DirectoryEntry(Build, tab', v).to + IndexOf(Build, v, Levels(Build))
          BY <1>1, <1>2, <2>1, <3>2, PhysIs
      <3> QED
          BY <2>2, <3>2, <3>3
    <2>3. CASE v \notin Low
      <3>1. ~ (v < IdentityRoots[Build] * Spans[Build][1])
          BY <2>3, SpaceIs
      <3>2. DirectoryEntry(Build, tab', v) = NoEntry
          BY <3>1
      <3>3. DirectoryEntry(Build, tab', v).kind = "none"
          BY <3>2, EntriesAre
      <3>4. PhysOf(Build, tab', v) = LastEntry(Build, tab', v).to /\ PathOf(Build, tab', v)[Levels(Build)] = NoTable
          BY <1>1, <1>2, <2>1, <3>3, PhysIs
      <3>5. LastEntry(Build, tab', v).to = 0
          BY <3>4, EntriesAre DEF LastEntry
      <3> QED
          BY <2>3, <3>4, <3>5
    <2> QED
        BY <2>2, <2>3
  <1>4. Mapping' = [v \in Virt |-> IF v \in Low THEN v ELSE 0]
    <2>1. Mapping' = [v \in Virt |-> IF vpc' = "off" THEN 0 ELSE PhysOf(Build, tab', v)]
        BY SpaceIs
    <2> QED
        BY <1>3, <2>1
  <1>5. Mode = "off" /\ Mode' = "on" /\ Asked' = Asked
      BY DEF Mode, Asked
  <1>6. Space!ASNext
      BY <1>1, <1>4, <1>5 DEF Space!ASNext, Space!Enable
  <1>7. LowMapped'
    <2>1. \A v \in Virt :
             IF v < IdentityRoots[Build] * Spans[Build][1]
             THEN /\ DirectoryEntry(Build, tab', v).kind = "huge"
                  /\ DirectoryEntry(Build, tab', v).to + IndexOf(Build, v, Levels(Build)) = v
             ELSE DirectoryEntry(Build, tab', v).kind # "huge"
        BY EntriesAre
    <2> QED
        BY <1>1, <2>1 DEF LowMapped
  <1> QED
      BY <1>6, <1>7 DEF VmmInv

(* vmm_init on x86.                                                        *)
LEMMA InitX86Step ==
  ASSUME TypeOK, VmmInv, InitX86
  PROVE  VmmInv' /\ Space!ASNext
  <1> DEFINE R == IdentityRoots["x86"]
  <1>1. /\ Build = "x86" /\ vpc = "off" /\ vpc' = "idle" /\ map' = map /\ owner' = owner
        /\ tab' = [tab EXCEPT ![Root] = IdentityTable(0, R)]
      BY DEF InitX86, vars
  <1>2. Build \in Builds /\ Depth = Levels(Build) /\ Levels("x86") = 2 /\ Build' = Build
      BY <1>1, SpaceIs DEF Levels
  <1>3. IdentityTable(0, R) = Large("x86", 0, R)
      BY <1>1, <1>2 DEF IdentityTable, Large, Fan
  <1>4. R \in Nat
    <2>1. "x86" \in DOMAIN Fans /\ Fans["x86"][1] \in Nat
        BY <1>1, <1>2, VmmAssumption
    <2> QED
        BY <2>1, VmmAssumption
  <1> HIDE DEF R
  <1>5. /\ Large("x86", 0, R) \in [Slots -> TableEntries]
        /\ \A k \in Slots : Large("x86", 0, R)[k].kind # "small"
      BY <1>1, <1>2, <1>4, LargeIs
  <1>6. tab' \in Contents /\ tab'[Root] = Large("x86", 0, R)
    <2>1. tab \in Contents
        BY DEF VmmInv
    <2> QED
        BY <1>1, <1>3, <1>5, <2>1 DEF Contents
  <1>7. HasTree'
    <2>1. owner'[PageTables] \cup {Root} = {Root}
        BY <1>1 DEF VmmInv, Booting
    <2>2. Tree("x86", tab', {Root}, [x \in {Root} |-> 1])
        BY <1>1, <1>2, <1>5, <1>6, RootAlone
    <2> QED
        BY <1>1, <1>2, <2>1, <2>2 DEF HasTree
  <1>8. \A v \in Virt :
             IF v < IdentityRoots[Build] * Spans[Build][1]
             THEN /\ DirectoryEntry(Build, tab', v).kind = "huge"
                  /\ DirectoryEntry(Build, tab', v).to + IndexOf(Build, v, Levels(Build)) = v
             ELSE DirectoryEntry(Build, tab', v) = NoEntry
      BY <1>1, <1>6, LowX86 DEF R
  <1> QED
      BY <1>1, <1>6, <1>7, <1>8, EnableStep

(* One table of vmm_init on x86_64.                                        *)
LEMMA InitX64Step ==
  ASSUME TypeOK, VmmInv, InitX64
  PROVE  VmmInv' /\ [Space!ASNext]_<<Low, Mapping, Asked, Mode>>
  <1> DEFINE F == Fans["x86_64"][2]
             per == 1 + F
             r == filled \div per
             m == filled % per
             R == IdentityRoots["x86_64"]
             H == owner[PageTables] \cup {Root}
  <1>1. /\ Build = "x86_64" /\ vpc = "off" /\ pmm_alloc(PageTables)
        /\ tab \in Contents /\ HasTree /\ Booting
      BY DEF InitX64, VmmInv
  <1>2. map' = map /\ Build' = Build /\ Build \in Builds /\ Depth = Levels(Build) /\ Levels(Build) = 4
      BY <1>1, Fresh, SpaceIs DEF Levels
  <1>3. CASE Allocated = {}
    <2>1. vpc' = "stopped" /\ tab' = tab
        BY <1>3 DEF InitX64
    <2> QED
        BY <1>1, <1>2, <2>1, StopStep
  <1>4. CASE Allocated # {}
    <2>1. PICK t \in Allocated :
             tab' = IF m - 1 < 0 THEN [tab EXCEPT ![Root][r] = Small(t), ![t] = Cleared(t)]
                    ELSE [tab EXCEPT ![tab[Root][r].to][m - 1] = Small(t),
                             ![t] = IdentityTable(r * Span(1) + (m - 1) * Span(2), Fan(3))]
        BY ONLY InitX64, <1>1, <1>4, Zenon DEF InitX64, Fan
    <2>2. filled' = filled + 1 /\ vpc' = IF filled + 1 = R * per THEN "idle" ELSE "off"
        BY ONLY InitX64, <1>1, <1>4, Zenon DEF InitX64, Fan
    <2>3. owner'[PageTables] \cup {Root} = H \cup {t} /\ t \in Pages \ H
        BY <1>1, Fresh
    <2>4. tab' = BootWrite(tab, r, m, t)
      <3>1. IdentityTable(r * Span(1) + (m - 1) * Span(2), Fan(3)) = LowDirectory(r, m - 1)
          BY <1>1, <1>2 DEF IdentityTable, LowDirectory, Large, Fan, Span
      <3> HIDE DEF r, m
      <3> QED
          BY <2>1, <3>1 DEF BootWrite, Cleared
    <2>5. filled \in Nat /\ filled < R * per /\ BootTables(tab, r, m)
        BY <1>1 DEF Booting
    <2>6. PICK lev : Tree("x86_64", tab, H, lev)
        BY <1>1 DEF HasTree
    <2>7. /\ r \in Slots /\ m \in Nat /\ m <= F
          /\ \A ub : BootTables(ub, r, m + 1) => BootTables(ub, (filled + 1) \div per, (filled + 1) % per)
          /\ filled + 1 = R * per => (filled + 1) \div per = R /\ (filled + 1) % per = 0
          /\ filled + 1 # R * per => filled + 1 < R * per
        BY <2>5, BootCount
    <2> HIDE DEF r, m, F, R
    <2>8. /\ tab' \in Contents /\ BootTables(tab', r, m + 1)
          /\ \E lev2 : Tree("x86_64", tab', H \cup {t}, lev2)
        BY <2>3, <2>4, <2>5, <2>6, <2>7, BootStep DEF F
    <2>9. HasTree'
        BY <1>1, <1>2, <2>3, <2>8 DEF HasTree
    <2>10. BootTables(tab', (filled + 1) \div per, (filled + 1) % per)
        BY <2>7, <2>8
    <2>11. CASE filled + 1 = R * per
      <3>1. BootTables(tab', R, 0)
          BY <2>7, <2>10, <2>11
      <3>2. PICK lev2 : Tree("x86_64", tab', H \cup {t}, lev2)
          BY <2>8
      <3>3. \A v \in Virt :
              IF v < IdentityRoots[Build] * Spans[Build][1]
              THEN /\ DirectoryEntry(Build, tab', v).kind = "huge"
                   /\ DirectoryEntry(Build, tab', v).to + IndexOf(Build, v, Levels(Build)) = v
              ELSE DirectoryEntry(Build, tab', v) = NoEntry
          BY <1>1, <3>1, <3>2, LowX64 DEF R
      <3> QED
          BY <1>1, <1>2, <2>2, <2>8, <2>9, <2>11, <3>3, EnableStep
    <2>12. CASE filled + 1 # R * per
      <3>1. vpc' = "off" /\ filled' = filled + 1 /\ filled + 1 < R * per /\ filled + 1 \in Nat
          BY <2>2, <2>5, <2>7, <2>12
      <3>2. Booting'
        <4>1. /\ filled' \in Nat /\ filled' < IdentityRoots["x86_64"] * (1 + Fans["x86_64"][2])
              /\ BootTables(tab', filled' \div (1 + Fans["x86_64"][2]), filled' % (1 + Fans["x86_64"][2]))
            BY <2>10, <3>1 DEF R, F
        <4>2. Build' # "x86"
            BY <1>1, <1>2
        <4> QED
            BY <4>1, <4>2 DEF Booting
      <3>3. VmmInv'
          BY <2>8, <2>9, <3>1, <3>2 DEF VmmInv
      <3>4. Mapping = [v \in Virt |-> 0] /\ Mapping' = [v \in Virt |-> 0]
          BY <1>1, <1>2, <3>1, SpaceIs
      <3>5. Low' = Low /\ Mode' = Mode /\ Asked' = Asked
          BY <1>1, <1>2, <3>1, SpaceIs DEF Mode, Asked
      <3> QED
          BY <3>3, <3>4, <3>5
    <2> QED
        BY ONLY <2>11, <2>12, Zenon
  <1> QED
      BY <1>3, <1>4

(* ub is tb with the entry of page v in its last table set to e.           *)
Rewrites(b, tb, H, lev, v, e, ub) ==
    LET u == PathOf(b, tb, v)[Levels(b)]
        k == IndexOf(b, v, Levels(b))
    IN  /\ Tree(b, tb, H, lev) /\ u # NoTable
        /\ ub \in Contents /\ ub[u][k] = e /\ e.kind # "huge"
        /\ \A x \in H, m \in Slots : ~ (x = u /\ m = k) => ub[x][m] = tb[x][m]

(* One page changes its mapping.                                           *)
OneMapping(b, tb, v, e, ub) ==
    \A w \in Virt : /\ DirectoryEntry(b, ub, w) = DirectoryEntry(b, tb, w)
                     /\ PhysOf(b, ub, w) = IF w = v THEN e.to ELSE PhysOf(b, tb, w)

LEMMA LeafStep ==
  ASSUME NEW b \in Builds, NEW tb, NEW H, NEW lev, NEW v \in Virt, NEW e, NEW ub,
         Rewrites(b, tb, H, lev, v, e, ub)
  PROVE  /\ Tree(b, ub, H, lev) /\ DirectoryEntry(b, tb, v).kind # "huge"
         /\ OneMapping(b, tb, v, e, ub)
  <1> DEFINE n == Levels(b)
             u == PathOf(b, tb, v)[n]
             k == IndexOf(b, v, n)
  <1>1. n \in {2, 4} /\ n \in 1 .. n /\ v \in Nat
      BY BuildIs, TopIndex
  <1>2. /\ Tree(b, tb, H, lev) /\ u # NoTable /\ ub \in Contents /\ ub[u][k] = e /\ e.kind # "huge"
        /\ \A x \in H, m \in Slots : ~ (x = u /\ m = k) => ub[x][m] = tb[x][m]
      BY DEF Rewrites
  <1>3. u \in H /\ lev[u] = n /\ k \in Slots
    <2>1. u \in H /\ lev[u] = n
        BY <1>1, <1>2, PathLevels
    <2>2. k \in Slots
        BY <1>1, IndexIs
    <2> QED
        BY <2>1, <2>2
  <1>4. DirectoryEntry(b, tb, v).kind = "small"
      BY <1>1, <1>2, PhysIs
  <1> HIDE DEF u, k
  <1>5. Tree(b, ub, H, lev)
      BY <1>2, <1>3, SetLeaf
  <1>6. ASSUME NEW w \in Virt
        PROVE  /\ DirectoryEntry(b, ub, w) = DirectoryEntry(b, tb, w)
               /\ PhysOf(b, ub, w) = IF w = v THEN e.to ELSE PhysOf(b, tb, w)
    <2>1. w \in Nat
        BY TopIndex
    <2>2. /\ \A l \in 1 .. n : PathOf(b, ub, w)[l] = PathOf(b, tb, w)[l]
          /\ DirectoryEntry(b, ub, w) = DirectoryEntry(b, tb, w)
          /\ ~ (PathOf(b, tb, w)[n] = u /\ IndexOf(b, w, n) = k) => LastEntry(b, ub, w) = LastEntry(b, tb, w)
        BY <1>2, <1>3, <2>1, LeafWays
    <2>3. CASE w = v
      <3>1. PathOf(b, ub, v)[n] = u
          BY <1>1, <2>2, <2>3 DEF u
      <3>2. LastEntry(b, ub, v) = e
          BY <1>2, <3>1 DEF LastEntry, k
      <3>3. DirectoryEntry(b, ub, v).kind # "huge"
          BY <1>4, <2>2, <2>3
      <3>4. PhysOf(b, ub, v) = LastEntry(b, ub, v).to
          BY <1>1, <1>5, <3>3, PhysIs
      <3> QED
          BY <2>2, <2>3, <3>2, <3>4
    <2>4. CASE w # v
      <3>1. ~ (PathOf(b, tb, w)[n] = u /\ IndexOf(b, w, n) = k)
          BY <1>2, <2>4, OneEntry DEF u, k
      <3>2. LastEntry(b, ub, w) = LastEntry(b, tb, w)
          BY <2>2, <3>1
      <3>3. CASE DirectoryEntry(b, tb, w).kind = "huge"
        <4>1. /\ PhysOf(b, ub, w) = DirectoryEntry(b, ub, w).to + IndexOf(b, w, n)
              /\ PhysOf(b, tb, w) = DirectoryEntry(b, tb, w).to + IndexOf(b, w, n)
            BY <1>2, <1>5, <2>1, <2>2, <3>3, PhysIs
        <4> QED
            BY <2>2, <2>4, <4>1
      <3>4. CASE DirectoryEntry(b, tb, w).kind # "huge"
        <4>1. /\ PhysOf(b, ub, w) = LastEntry(b, ub, w).to
              /\ PhysOf(b, tb, w) = LastEntry(b, tb, w).to
            BY <1>2, <1>5, <2>1, <2>2, <3>4, PhysIs
        <4> QED
            BY <2>2, <2>4, <3>2, <4>1
      <3> QED
          BY <3>3, <3>4
    <2> QED
        BY <2>3, <2>4
  <1> QED
      BY <1>4, <1>5, <1>6 DEF OneMapping

(* A table without entries changes no mapping.                             *)
SameMappings(b, tb, ub) ==
    \A v \in Virt :
        /\ PhysOf(b, ub, v) = PhysOf(b, tb, v)
        /\ \/ DirectoryEntry(b, ub, v) = DirectoryEntry(b, tb, v)
           \/ DirectoryEntry(b, ub, v).kind # "huge" /\ DirectoryEntry(b, tb, v).kind # "huge"
        /\ \A l \in 1 .. Levels(b) :
              PathOf(b, tb, v)[l] # NoTable => PathOf(b, ub, v)[l] = PathOf(b, tb, v)[l]

LEMMA TableStep ==
  ASSUME NEW b \in Builds, NEW tb, NEW H, NEW lev, NEW u, NEW k, NEW t, NEW ub,
         Extends(b, tb, H, lev, u, k, t, ub), \A m \in Slots : ub[t][m] = NoEntry
  PROVE  SameMappings(b, tb, ub) /\ \E lev2 : Tree(b, ub, H \cup {t}, lev2)
  <1> DEFINE G == H \cup {t}
  <1>1. PICK lev2 : Tree(b, ub, G, lev2)
      BY AddedTable
  <1>2. Tree(b, tb, H, lev)
      BY DEF Extends
  <1> HIDE DEF G
  <1>3. ASSUME NEW v \in Virt
        PROVE  /\ PhysOf(b, ub, v) = PhysOf(b, tb, v)
               /\ \/ DirectoryEntry(b, ub, v) = DirectoryEntry(b, tb, v)
                  \/ DirectoryEntry(b, ub, v).kind # "huge" /\ DirectoryEntry(b, tb, v).kind # "huge"
               /\ \A l \in 1 .. Levels(b) :
                     PathOf(b, tb, v)[l] # NoTable => PathOf(b, ub, v)[l] = PathOf(b, tb, v)[l]
    <2>1. v \in Nat
        BY TopIndex
    <2>2. /\ \A l \in 1 .. Levels(b) :
               PathOf(b, tb, v)[l] # NoTable => PathOf(b, ub, v)[l] = PathOf(b, tb, v)[l]
          /\ \/ DirectoryEntry(b, ub, v) = DirectoryEntry(b, tb, v)
             \/ DirectoryEntry(b, ub, v).kind # "huge" /\ DirectoryEntry(b, tb, v).kind # "huge"
          /\ LastEntry(b, ub, v) = LastEntry(b, tb, v)
        BY <2>1, TableWays
    <2>3. CASE DirectoryEntry(b, tb, v).kind = "huge"
      <3>1. DirectoryEntry(b, ub, v) = DirectoryEntry(b, tb, v)
          BY <2>2, <2>3
      <3>2. /\ PhysOf(b, ub, v) = DirectoryEntry(b, ub, v).to + IndexOf(b, v, Levels(b))
            /\ PhysOf(b, tb, v) = DirectoryEntry(b, tb, v).to + IndexOf(b, v, Levels(b))
          BY <1>1, <1>2, <2>1, <2>3, <3>1, PhysIs
      <3> QED
          BY <2>2, <3>1, <3>2
    <2>4. CASE DirectoryEntry(b, tb, v).kind # "huge"
      <3>1. DirectoryEntry(b, ub, v).kind # "huge"
          BY <2>2, <2>4
      <3>2. /\ PhysOf(b, ub, v) = LastEntry(b, ub, v).to
            /\ PhysOf(b, tb, v) = LastEntry(b, tb, v).to
          BY <1>1, <1>2, <2>1, <2>4, <3>1, PhysIs
      <3> QED
          BY <2>2, <3>2
    <2> QED
        BY <2>3, <2>4
  <1> QED
      BY <1>1, <1>3 DEF G, SameMappings

(* vmm_map begins at the root.                                             *)
LEMMA StartMapStep ==
  ASSUME VmmInv, NEW q \in Requests, StartMap(q[1], q[2])
  PROVE  VmmInv' /\ Space!ASNext
  <1>1. /\ vpc = "idle" /\ vpc' = "walk" /\ map' = map /\ owner' = owner /\ tab' = tab
        /\ walk' = [NoWalk EXCEPT !.v = q[1], !.p = q[2]]
      BY DEF StartMap, vars
  <1>2. q[1] \in Virt /\ q[2] \in Nat
      BY VmmAssumption
  <1>3. /\ Low' = Low /\ Build' = Build /\ Build \in Builds
        /\ Mapping = [v \in Virt |-> IF vpc = "off" THEN 0 ELSE PhysOf(Build, tab, v)]
        /\ Mapping' = [v \in Virt |-> IF vpc' = "off" THEN 0 ELSE PhysOf(Build, tab', v)]
      BY <1>1, SpaceIs
  <1>4. walk' = [v |-> q[1], p |-> q[2], t |-> Root, l |-> 1]
      BY <1>1 DEF NoWalk
  <1>5. OnTheWay'
    <2>1. 1 \in 1 .. Levels(Build) /\ PathOf(Build, tab, q[1])[1] = Root
        BY <1>3, BuildIs, PathIs
    <2>2. walk' \in [v : Virt, p : Nat, t : Pages \cup {Root}, l : 1 .. Levels(Build)]
        BY <1>2, <1>4, <2>1
    <2>3. walk'.t = PathOf(Build, tab, walk'.v)[walk'.l]
        BY <1>4, <2>1
    <2> QED
        BY <1>1, <1>3, <2>2, <2>3 DEF OnTheWay
  <1>6. VmmInv'
      BY <1>1, <1>3, <1>5 DEF VmmInv, HasTree, LowMapped
  <1>7. Asked = <<>> /\ Asked' # <<>> /\ Mode' = Mode
    <2>1. Asked' = <<walk'.v, walk'.p>>
        BY <1>1 DEF Asked
    <2> QED
        BY <1>1, <2>1 DEF Asked, Mode
  <1>8. Mapping' = Mapping
      BY <1>1, <1>3
  <1> QED
      BY <1>3, <1>6, <1>7, <1>8 DEF Space!ASNext, Space!Ask

(* Where vmm_map is.                                                       *)
LEMMA WalkIs ==
  ASSUME VmmInv, vpc = "walk", NEW lev, Tree(Build, tab, owner[PageTables] \cup {Root}, lev)
  PROVE  /\ walk \in [v : Virt, p : Nat, t : Pages \cup {Root}, l : 1 .. Levels(Build)]
         /\ walk.v \in Nat /\ Build \in Builds /\ Depth = Levels(Build) /\ Depth \in {2, 4}
         /\ walk.t \in owner[PageTables] \cup {Root} /\ lev[walk.t] = walk.l
         /\ walk.t = PathOf(Build, tab, walk.v)[walk.l] /\ walk.t # NoTable
         /\ Slot = IndexOf(Build, walk.v, walk.l) /\ Slot \in Slots
         /\ tab \in Contents /\ Found \in TableEntries
  <1>1. Build \in Builds /\ Depth = Levels(Build) /\ Depth \in {2, 4}
      BY ModelWalk, BuildIs
  <1>2. /\ walk \in [v : Virt, p : Nat, t : Pages \cup {Root}, l : 1 .. Levels(Build)]
        /\ walk.t = PathOf(Build, tab, walk.v)[walk.l]
        /\ tab \in Contents
      BY DEF VmmInv, OnTheWay
  <1>3. walk.v \in Virt /\ walk.t \in Pages \cup {Root} /\ walk.l \in 1 .. Levels(Build)
      BY <1>2
  <1>4. walk.v \in Nat
      BY <1>1, <1>3, TopIndex
  <1>5. walk.t # NoTable
      BY <1>3, NotPages
  <1>6. walk.t \in owner[PageTables] \cup {Root} /\ lev[walk.t] = walk.l
      BY <1>1, <1>2, <1>3, <1>4, <1>5, PathLevels
  <1>7. Slot = IndexOf(Build, walk.v, walk.l)
      BY ModelWalk DEF Slot
  <1>8. Slot \in Slots
      BY <1>1, <1>3, <1>4, <1>7, IndexIs
  <1>9. Found \in TableEntries
      BY <1>2, <1>3, <1>8, EntryIs DEF Found
  <1> QED
      BY <1>1, <1>2, <1>4, <1>5, <1>6, <1>7, <1>8, <1>9

(* The table below.                                                        *)
LEMMA DownStep ==
  ASSUME VmmInv, vpc = "walk", NEW t \in Pages \cup {Root}, Down(t), walk.l < Depth, map' = map,
         tab' \in Contents,
         vpc' # "stopped" => HasTree' /\ LowMapped',
         vpc' # "stopped" => \A v \in Virt : PhysOf(Build, tab', v) = PhysOf(Build, tab, v),
         vpc' # "stopped" => PathOf(Build, tab', walk.v)[walk.l + 1] = t
  PROVE  VmmInv' /\ [Space!ASNext]_<<Low, Mapping, Asked, Mode>>
  <1>1. CASE vpc' = "stopped"
      BY <1>1, StopStep
  <1>2. CASE vpc' # "stopped"
    <2>1. vpc' = "walk" /\ walk' = [walk EXCEPT !.t = t, !.l = @ + 1]
        BY <1>2 DEF Down
    <2>2. walk \in [v : Virt, p : Nat, t : Pages \cup {Root}, l : 1 .. Levels(Build)]
        BY DEF VmmInv, OnTheWay
    <2>3. Build' = Build /\ Build \in Builds /\ Depth = Levels(Build) /\ Levels(Build) \in {2, 4}
        BY SpaceIs, BuildIs
    <2>4. walk.l + 1 \in 1 .. Levels(Build)
        BY <2>2, <2>3
    <2>5. /\ walk' \in [v : Virt, p : Nat, t : Pages \cup {Root}, l : 1 .. Levels(Build)]
          /\ walk'.v = walk.v /\ walk'.p = walk.p /\ walk'.t = t /\ walk'.l = walk.l + 1
        BY <2>1, <2>2, <2>4
    <2>6. OnTheWay'
        BY <1>2, <2>3, <2>5 DEF OnTheWay
    <2>7. VmmInv'
        BY <1>2, <2>1, <2>6 DEF VmmInv
    <2>8. Low' = Low /\ Mapping' = Mapping
        BY <1>2, <2>1, SpaceIs
    <2>9. Asked' = Asked /\ Mode' = Mode
        BY <2>1, <2>5 DEF Asked, Mode
    <2> QED
        BY <2>7, <2>8, <2>9
  <1> QED
      BY <1>1, <1>2

LEMMA MapDownStep ==
  ASSUME VmmInv, MapDown
  PROVE  VmmInv' /\ [Space!ASNext]_<<Low, Mapping, Asked, Mode>>
  <1>1. /\ vpc = "walk" /\ walk.l < Depth /\ Found.kind = "small" /\ Down(Found.to)
        /\ map' = map /\ owner' = owner /\ tab' = tab
      BY DEF MapDown, vars
  <1>2. PICK lev : Tree(Build, tab, owner[PageTables] \cup {Root}, lev)
      BY <1>1 DEF VmmInv, HasTree
  <1>3. /\ walk.l \in 1 .. Levels(Build) /\ Build \in Builds /\ Depth = Levels(Build) /\ Depth \in {2, 4}
        /\ walk.t \in owner[PageTables] \cup {Root} /\ lev[walk.t] = walk.l /\ walk.v \in Nat
        /\ walk.t = PathOf(Build, tab, walk.v)[walk.l] /\ walk.t # NoTable
        /\ Slot = IndexOf(Build, walk.v, walk.l) /\ Slot \in Slots /\ tab \in Contents
      BY <1>1, <1>2, WalkIs
  <1>4. Found.to \in Pages \cup {Root}
    <2>1. IsLink(Build, tab, lev, walk.t, Slot)
        BY <1>1, <1>3 DEF IsLink, Found
    <2> QED
        BY <1>2, <1>3, <2>1 DEF Tree, Found
  <1>5. PathOf(Build, tab, walk.v)[walk.l + 1] = Found.to
    <2>1. walk.l + 1 \in 2 .. Levels(Build) /\ (walk.l + 1) - 1 = walk.l
        BY <1>1, <1>3
    <2>2. PathOf(Build, tab, walk.v)[walk.l + 1] = Below(tab, walk.t, Slot)
        BY <1>3, <2>1, PathIs
    <2> QED
        BY <1>1, <1>3, <2>2 DEF Below, Found
  <1>6. HasTree' /\ LowMapped'
    <2>1. Build' = Build
        BY <1>1, SpaceIs
    <2> QED
        BY <1>1, <2>1 DEF VmmInv, HasTree, LowMapped
  <1> QED
      BY <1>1, <1>3, <1>4, <1>5, <1>6, DownStep

(* vmm_map leaves a large page alone.                                      *)
LEMMA MapHugeStep ==
  ASSUME VmmInv, MapHuge
  PROVE  VmmInv' /\ Space!ASNext
  <1>1. /\ vpc = "walk" /\ walk.l < Depth /\ Found.kind = "huge"
        /\ vpc' = IF Build = "x86" THEN "stopped" ELSE "idle"
        /\ map' = map /\ owner' = owner /\ tab' = tab /\ tab \in Contents /\ LowMapped
      BY DEF MapHuge, vars, VmmInv
  <1>2. CASE vpc' = "stopped"
      BY <1>1, <1>2, StopStep
  <1>3. CASE vpc' # "stopped"
    <2>1. vpc' = "idle"
        BY <1>1, <1>3
    <2>2. PICK lev : Tree(Build, tab, owner[PageTables] \cup {Root}, lev)
        BY <1>1 DEF VmmInv, HasTree
    <2>3. /\ walk.l \in 1 .. Levels(Build) /\ Build \in Builds /\ walk.v \in Virt
          /\ walk.t \in owner[PageTables] \cup {Root} /\ lev[walk.t] = walk.l
          /\ walk.t = PathOf(Build, tab, walk.v)[walk.l] /\ walk.t # NoTable
          /\ Slot = IndexOf(Build, walk.v, walk.l) /\ Slot \in Slots
        BY <1>1, <2>2, WalkIs
    <2>4. walk.l = Levels(Build) - 1
        BY <1>1, <2>2, <2>3 DEF Tree, Found
    <2>5. DirectoryEntry(Build, tab, walk.v).kind = "huge"
        BY <1>1, <2>3, <2>4 DEF DirectoryEntry, Found
    <2>6. walk.v \in Low /\ Low' = Low /\ Build' = Build
        BY <1>1, <2>3, <2>5, SpaceIs DEF LowMapped
    <2>7. VmmInv'
        BY <1>1, <2>1, <2>6 DEF VmmInv, HasTree, LowMapped
    <2>8. Asked = <<walk.v, walk.p>> /\ Asked' = <<>> /\ Mode' = Mode
        BY <1>1, <2>1 DEF Asked, Mode
    <2>9. Asked # <<>> /\ Asked[1] \in Low
        BY <2>6, <2>8
    <2>10. Mapping' = Mapping
        BY <1>1, <2>1, SpaceIs
    <2> QED
        BY <2>6, <2>7, <2>8, <2>9, <2>10 DEF Space!ASNext, Space!Map
  <1> QED
      BY <1>2, <1>3

(* vmm_map makes a table.                                                  *)
LEMMA MapNewStep ==
  ASSUME TypeOK, VmmInv, MapNew
  PROVE  VmmInv' /\ [Space!ASNext]_<<Low, Mapping, Asked, Mode>>
  <1> DEFINE H == owner[PageTables] \cup {Root}
  <1>1. /\ vpc = "walk" /\ walk.l < Depth /\ Found.kind = "none" /\ pmm_alloc(PageTables)
        /\ tab \in Contents /\ LowMapped
      BY DEF MapNew, VmmInv
  <1>2. map' = map /\ Build' = Build /\ Build \in Builds
      BY <1>1, Fresh, SpaceIs
  <1>3. CASE Allocated = {}
    <2>1. vpc' = "stopped" /\ tab' = tab
        BY <1>3 DEF MapNew
    <2> QED
        BY <1>1, <1>2, <2>1, StopStep
  <1>4. CASE Allocated # {}
    <2>1. PICK t \in Allocated : Down(t) /\ tab' = IF Reachable(t) THEN Link(t) ELSE tab
        BY <1>4, Zenon DEF MapNew
    <2>2. owner'[PageTables] \cup {Root} = H \cup {t} /\ t \in Pages \ H
        BY <1>1, Fresh
    <2>3. CASE ~ Reachable(t)
      <3>1. vpc' = "stopped" /\ tab' = tab
          BY <2>1, <2>3 DEF Down
      <3> QED
          BY <1>1, <1>2, <3>1, StopStep
    <2>4. CASE Reachable(t)
      <3>1. PICK lev : Tree(Build, tab, H, lev)
          BY <1>1 DEF VmmInv, HasTree
      <3>2. /\ walk.l \in 1 .. Levels(Build) /\ walk.v \in Virt /\ walk.v \in Nat
            /\ walk.t \in H /\ lev[walk.t] = walk.l
            /\ walk.t = PathOf(Build, tab, walk.v)[walk.l] /\ walk.t # NoTable
            /\ Slot = IndexOf(Build, walk.v, walk.l) /\ Slot \in Slots
            /\ Depth = Levels(Build) /\ Depth \in {2, 4}
          BY <1>1, <3>1, WalkIs
      <3>3. tab' = [tab EXCEPT ![t] = ZeroTable, ![walk.t][Slot] = Small(t)]
          BY <2>1, <2>4 DEF Link, Cleared
      <3>4. /\ Small(t) \in TableEntries /\ Small(t).kind = "small" /\ Small(t).to = t
            /\ NoEntry.kind = "none" /\ t \in Pages \cup {Root} /\ walk.t # t
            /\ walk.t \in Pages \cup {Root} /\ H \subseteq Pages \cup {Root} /\ \A x \in H : x # t
        <4>1. t \in Nat
            BY <2>2, NotPages
        <4> QED
            BY <2>2, <3>1, <3>2, <4>1, EntriesAre DEF Tree
      <3>5. ZeroTable \in [Slots -> TableEntries] /\ \A m \in Slots : ZeroTable[m] = NoEntry
          BY EntriesAre DEF ZeroTable
      <3>6. /\ tab' \in Contents /\ tab'[t] = ZeroTable /\ tab'[walk.t][Slot] = Small(t)
            /\ \A x \in Pages \cup {Root}, m \in Slots :
                  x # t /\ ~ (x = walk.t /\ m = Slot) => tab'[x][m] = tab[x][m]
          BY ONLY <1>1, <3>2, <3>3, <3>4, <3>5 DEF Contents
      <3>7. Extends(Build, tab, H, lev, walk.t, Slot, t, tab') /\ \A m \in Slots : tab'[t][m] = NoEntry
        <4>1. \A m \in Slots : tab'[t][m] = NoEntry /\ tab'[t][m].kind = "none"
            BY <3>4, <3>5, <3>6
        <4>2. \A x \in H, m \in Slots : ~ (x = walk.t /\ m = Slot) => tab'[x][m] = tab[x][m]
            BY <3>4, <3>6
        <4>3. lev[walk.t] < Levels(Build) /\ tab[walk.t][Slot].kind = "none"
            BY <1>1, <3>2 DEF Found
        <4>4. tab'[walk.t][Slot].to = t /\ tab'[walk.t][Slot].kind = "small"
            BY <3>4, <3>6
        <4> QED
            BY ONLY <2>2, <3>1, <3>2, <3>6, <4>1, <4>2, <4>3, <4>4 DEF Extends
      <3>8. SameMappings(Build, tab, tab') /\ \E lev2 : Tree(Build, tab', H \cup {t}, lev2)
          BY ONLY <1>2, <3>7, TableStep
      <3>9. HasTree'
          BY <1>2, <2>2, <3>8 DEF HasTree
      <3>10. LowMapped'
        <4> SUFFICES ASSUME NEW v \in Virt
                     PROVE  IF v < IdentityRoots[Build] * Spans[Build][1]
                            THEN /\ DirectoryEntry(Build, tab', v).kind = "huge"
                                 /\ DirectoryEntry(Build, tab', v).to + IndexOf(Build, v, Levels(Build)) = v
                            ELSE DirectoryEntry(Build, tab', v).kind # "huge"
            BY <1>2 DEF LowMapped
        <4>1. IF v < IdentityRoots[Build] * Spans[Build][1]
              THEN /\ DirectoryEntry(Build, tab, v).kind = "huge"
                   /\ DirectoryEntry(Build, tab, v).to + IndexOf(Build, v, Levels(Build)) = v
              ELSE DirectoryEntry(Build, tab, v).kind # "huge"
            BY <1>1 DEF LowMapped
        <4>2. \/ DirectoryEntry(Build, tab', v) = DirectoryEntry(Build, tab, v)
              \/ DirectoryEntry(Build, tab', v).kind # "huge" /\ DirectoryEntry(Build, tab, v).kind # "huge"
            BY <3>8 DEF SameMappings
        <4> QED
            BY ONLY <4>1, <4>2
      <3>11. PathOf(Build, tab', walk.v)[walk.l + 1] = t
        <4>1. walk.l + 1 \in 2 .. Levels(Build) /\ (walk.l + 1) - 1 = walk.l
            BY <1>1, <3>2
        <4>2. PathOf(Build, tab', walk.v)[walk.l] = walk.t
            BY <3>2, <3>8 DEF SameMappings
        <4>3. PathOf(Build, tab', walk.v)[walk.l + 1] = Below(tab', walk.t, Slot)
            BY <1>2, <3>2, <4>1, <4>2, PathIs
        <4> QED
            BY <3>2, <3>4, <3>6, <4>3 DEF Below
      <3>12. \A v \in Virt : PhysOf(Build, tab', v) = PhysOf(Build, tab, v)
          BY <3>8 DEF SameMappings
      <3> QED
          BY <1>1, <1>2, <2>1, <3>4, <3>6, <3>9, <3>10, <3>11, <3>12, DownStep
    <2> QED
        BY <2>3, <2>4
  <1> QED
      BY <1>3, <1>4

(* A write to the entry of page v, by vmm_map or vmm_unmap.                *)
LastSet(b, tb, v, e) == [tb EXCEPT ![PathOf(b, tb, v)[Levels(b)]][IndexOf(b, v, Levels(b))] = e]

LEMMA LastWrite ==
  ASSUME VmmInv, vpc \in {"idle", "walk"}, vpc' = "idle", map' = map, owner' = owner,
         NEW v \in Virt, PathOf(Build, tab, v)[Levels(Build)] # NoTable,
         NEW e \in TableEntries, e.kind # "huge",
         NEW ub, ub = LastSet(Build, tab, v, e), tab' = ub
  PROVE  VmmInv' /\ v \notin Low /\ Low' = Low /\ Mapping' = [Mapping EXCEPT ![v] = e.to]
  <1> DEFINE n == Levels(Build)
             H == owner[PageTables] \cup {Root}
             u == PathOf(Build, tab, v)[n]
             k == IndexOf(Build, v, n)
  <1>1. /\ Build \in Builds /\ Build' = Build /\ Low' = Low /\ n \in {2, 4} /\ n \in 1 .. n
        /\ \A w \in Virt : w \in Low <=> w < IdentityRoots[Build] * Spans[Build][1]
        /\ Mapping = [w \in Virt |-> IF vpc = "off" THEN 0 ELSE PhysOf(Build, tab, w)]
        /\ Mapping' = [w \in Virt |-> IF vpc' = "off" THEN 0 ELSE PhysOf(Build, tab', w)]
      BY SpaceIs, BuildIs
  <1>2. PICK lev : Tree(Build, tab, H, lev)
      BY DEF VmmInv, HasTree
  <1>3. tab \in Contents /\ LowMapped /\ H \subseteq Pages \cup {Root}
      BY <1>2 DEF VmmInv, Tree
  <1>4. u \in H /\ k \in Slots
    <2>1. v \in Nat
        BY <1>1, TopIndex
    <2>2. u \in H
        BY <1>1, <1>2, <2>1, PathLevels
    <2>3. k \in Slots
        BY <1>1, <2>1, IndexIs
    <2> QED
        BY <2>2, <2>3
  <1>5. Rewrites(Build, tab, H, lev, v, e, ub)
    <2>1. /\ ub \in Contents /\ ub[u][k] = e
          /\ \A x \in Pages \cup {Root}, m \in Slots : ~ (x = u /\ m = k) => ub[x][m] = tab[x][m]
      <3>1. ub = [tab EXCEPT ![u][k] = e]
          BY DEF LastSet
      <3>2. u \in Pages \cup {Root} /\ e \in TableEntries
          BY <1>3, <1>4
      <3> HIDE DEF u, k
      <3> QED
          BY ONLY <1>3, <1>4, <3>1, <3>2 DEF Contents
    <2>2. \A x \in H, m \in Slots : ~ (x = u /\ m = k) => ub[x][m] = tab[x][m]
        BY <1>3, <2>1
    <2> QED
        BY <1>2, <2>1, <2>2 DEF Rewrites
  <1>6. /\ Tree(Build, ub, H, lev) /\ DirectoryEntry(Build, tab, v).kind # "huge"
        /\ \A w \in Virt : /\ DirectoryEntry(Build, ub, w) = DirectoryEntry(Build, tab, w)
                           /\ PhysOf(Build, ub, w) = IF w = v THEN e.to ELSE PhysOf(Build, tab, w)
    <2>1. /\ Tree(Build, ub, H, lev) /\ DirectoryEntry(Build, tab, v).kind # "huge"
          /\ OneMapping(Build, tab, v, e, ub)
        BY <1>1, <1>5, LeafStep
    <2> QED
        BY ONLY <2>1 DEF OneMapping
  <1>7. v \notin Low
      BY <1>1, <1>3, <1>6 DEF LowMapped
  <1>8. VmmInv'
    <2>1. HasTree'
        BY <1>1, <1>6 DEF HasTree
    <2>2. LowMapped'
        BY <1>1, <1>3, <1>6 DEF LowMapped
    <2>3. tab' \in Contents
        BY <1>6 DEF Tree
    <2> QED
        BY <2>1, <2>2, <2>3 DEF VmmInv
  <1>9. Mapping' = [Mapping EXCEPT ![v] = e.to]
    <2>1. /\ Mapping = [w \in Virt |-> PhysOf(Build, tab, w)]
          /\ Mapping' = [w \in Virt |-> PhysOf(Build, ub, w)]
        BY <1>1
    <2> QED
        BY <1>6, <2>1
  <1> QED
      BY <1>1, <1>7, <1>8, <1>9

(* vmm_map writes the entry it was asked for.                              *)
LEMMA MapSetStep ==
  ASSUME VmmInv, MapSet
  PROVE  VmmInv' /\ Space!ASNext
  <1>1. /\ vpc = "walk" /\ vpc' = "idle" /\ walk.l = Depth /\ map' = map /\ owner' = owner
        /\ tab' = [tab EXCEPT ![walk.t][Slot] = Small(walk.p)]
      BY DEF MapSet, vars
  <1>2. PICK lev : Tree(Build, tab, owner[PageTables] \cup {Root}, lev)
      BY <1>1 DEF VmmInv, HasTree
  <1>3. /\ walk.v \in Virt /\ walk.p \in Nat /\ Depth = Levels(Build)
        /\ walk.t = PathOf(Build, tab, walk.v)[Levels(Build)] /\ walk.t # NoTable
        /\ Slot = IndexOf(Build, walk.v, Levels(Build))
      BY <1>1, <1>2, WalkIs
  <1>4. /\ Small(walk.p) \in TableEntries /\ Small(walk.p).kind # "huge"
        /\ Small(walk.p).to = walk.p
      BY <1>3, EntriesAre
  <1>5. tab' = LastSet(Build, tab, walk.v, Small(walk.p))
      BY <1>1, <1>3 DEF LastSet
  <1>6. /\ VmmInv' /\ walk.v \notin Low /\ Low' = Low
        /\ Mapping' = [Mapping EXCEPT ![walk.v] = walk.p]
      BY <1>1, <1>3, <1>4, <1>5, LastWrite
  <1>7. Asked = <<walk.v, walk.p>> /\ Asked' = <<>> /\ Mode' = Mode
      BY <1>1 DEF Asked, Mode
  <1>8. Space!Map
    <2>1. Asked # <<>> /\ Asked[1] = walk.v /\ Asked[2] = walk.p
        BY <1>7
    <2> QED
        BY <1>6, <1>7, <2>1 DEF Space!Map
  <1> QED
      BY <1>6, <1>8 DEF Space!ASNext

(* A step that touches no table and no walk.                               *)
LEMMA IdleStep ==
  ASSUME VmmInv, UNCHANGED <<map, tab, vpc, filled, walk>>, owner'[PageTables] = owner[PageTables]
  PROVE  VmmInv' /\ [Space!ASNext]_<<Low, Mapping, Asked, Mode>>
  <1>1. VmmInv'
      BY VmmInvSame
  <1>2. Low' = Low /\ Mapping' = Mapping
      BY SpaceIs
  <1>3. Asked' = Asked /\ Mode' = Mode
      BY DEF Asked, Mode
  <1> QED
      BY <1>1, <1>2, <1>3

(* vmm_unmap.                                                              *)
LEMMA UnmapStep ==
  ASSUME VmmInv, NEW q \in Requests, vmm_unmap(q[1])
  PROVE  VmmInv' /\ [Space!ASNext]_<<Low, Mapping, Asked, Mode>>
  <1> DEFINE v == q[1]
             u == PathOf(Build, tab, v)[Levels(Build)]
  <1>1. /\ vpc = "idle" /\ map' = map /\ owner' = owner /\ filled' = filled /\ walk' = walk
        /\ tab \in Contents /\ v \in Virt
      BY VmmAssumption DEF vmm_unmap, vars, VmmInv
  <1>2. /\ Depth = Levels(Build) /\ Path(v) = PathOf(Build, tab, v)
        /\ Index(v, Depth) = IndexOf(Build, v, Levels(Build))
      BY ModelWalk
  <1>3. \/ vpc' = "stopped" /\ tab' = tab
        \/ /\ vpc' = vpc
           /\ tab' = IF u = NoTable THEN tab ELSE [tab EXCEPT ![u][IndexOf(Build, v, Levels(Build))] = NoEntry]
      BY <1>2 DEF vmm_unmap
  <1>4. CASE vpc' = "stopped" /\ tab' = tab
      BY <1>1, <1>4, StopStep
  <1>5. CASE vpc' = vpc /\ u = NoTable
      BY <1>1, <1>3, <1>5, IdleStep
  <1>6. CASE vpc' = vpc /\ u # NoTable
    <2>1. tab' = LastSet(Build, tab, v, NoEntry)
        BY <1>1, <1>3, <1>6 DEF LastSet
    <2>2. /\ VmmInv' /\ v \notin Low /\ Low' = Low
          /\ Mapping' = [Mapping EXCEPT ![v] = NoEntry.to]
        BY <1>1, <1>6, <2>1, EntriesAre, LastWrite
    <2>3. NoEntry.to = 0 /\ Mode = "on" /\ Asked = <<>> /\ Asked' = Asked /\ Mode' = Mode
        BY <1>1, <1>6, EntriesAre DEF Mode, Asked
    <2>4. Space!Unmap(v)
        BY <2>2, <2>3 DEF Space!Unmap
    <2> QED
        BY <1>1, <2>2, <2>4 DEF Space!ASNext
  <1> QED
      BY <1>1, <1>3, <1>4, <1>5, <1>6

(* The other callers of the allocator leave the tables their pages.        *)
LEMMA OthersStep ==
  ASSUME TypeOK, VmmInv, Others
  PROVE  VmmInv' /\ [Space!ASNext]_<<Low, Mapping, Asked, Mode>>
  <1>1. PageTables \in Clients /\ owner \in [Clients -> SUBSET Pages]
      BY VmmAssumption DEF TypeOK
  <1>2. map' = map /\ owner'[PageTables] = owner[PageTables]
    <2>1. CASE MarkRange
        BY <2>1 DEF MarkRange, pmm_mark_used
    <2>2. ASSUME NEW c \in Clients \ {PageTables},
                 pmm_alloc(c) \/ FreePage(c)
                   \/ \E n \in 0 .. MaxPages : pmm_alloc_n(c, n) \/ FreeRun(c, n)
          PROVE  map' = map /\ owner'[PageTables] = owner[PageTables]
      <3>1. CASE pmm_alloc(c)
          BY <1>1, <3>1 DEF pmm_alloc, Take
      <3>2. CASE FreePage(c)
          BY <1>1, <3>2 DEF FreePage, pmm_free
      <3>3. CASE \E n \in 0 .. MaxPages : pmm_alloc_n(c, n)
          BY <1>1, <3>3 DEF pmm_alloc_n, Take
      <3>4. CASE \E n \in 0 .. MaxPages : FreeRun(c, n)
          BY <1>1, <3>4 DEF FreeRun, pmm_free_n
      <3> QED
          BY <2>2, <3>1, <3>2, <3>3, <3>4
    <2> QED
        BY <2>1, <2>2 DEF Others
  <1> QED
      BY <1>2, IdleStep DEF Others, vmmVars

(* To the allocator, the page tables are one of its callers.               *)
LEMMA TablesAreClient == [MNext]_mvars => [Next]_vars
  <1> SUFFICES ASSUME [MNext]_mvars PROVE [Next]_vars
      OBVIOUS
  <1>1. PageTables \in Clients
      BY VmmAssumption
  <1>2. CASE PmmInit
    <2>1. InitEntry \/ InitFinish
        BY <1>2 DEF PmmInit
    <2> QED
        BY ONLY <2>1 DEF Next
  <1>3. CASE InitX64 \/ MapNew
      BY <1>1, <1>3 DEF InitX64, MapNew, Next
  <1>4. CASE Others
    <2>1. CASE MarkRange
        BY <2>1 DEF Next
    <2>2. CASE \E c \in Clients \ {PageTables} :
                  \/ pmm_alloc(c)
                  \/ FreePage(c)
                  \/ \E n \in 0 .. MaxPages : pmm_alloc_n(c, n) \/ FreeRun(c, n)
        BY <2>2, Zenon DEF Next
    <2> QED
        BY <1>4, <2>1, <2>2 DEF Others
  <1>5. CASE InitX86 \/ MapDown \/ MapHuge \/ MapSet \/ UNCHANGED mvars
      BY <1>5 DEF InitX86, MapDown, MapHuge, MapSet, mvars
  <1>6. CASE \E q \in Requests : StartMap(q[1], q[2]) \/ vmm_unmap(q[1])
      BY <1>6 DEF StartMap, vmm_unmap
  <1> QED
      BY <1>2, <1>3, <1>4, <1>5, <1>6 DEF MNext

(* Every step keeps the invariant, and is a step of AddressSpace or none.  *)
LEMMA VmmNext ==
  Inv /\ VmmInv /\ [MNext]_mvars =>
      Inv' /\ VmmInv' /\ [Space!ASNext]_<<Low, Mapping, Asked, Mode>>
  <1> SUFFICES ASSUME Inv, VmmInv, [MNext]_mvars
               PROVE  Inv' /\ VmmInv' /\ [Space!ASNext]_<<Low, Mapping, Asked, Mode>>
      OBVIOUS
  <1>1. TypeOK /\ Inv'
      BY TablesAreClient, InvNext DEF Inv
  <1> DEFINE G == VmmInv' /\ [Space!ASNext]_<<Low, Mapping, Asked, Mode>>
  <1>2. ASSUME PmmInit PROVE G
      BY <1>2, IdleStep DEF PmmInit, InitEntry, InitFinish, vmmVars
  <1>3. ASSUME InitX86 PROVE G
      BY <1>1, <1>3, InitX86Step
  <1>4. ASSUME InitX64 PROVE G
      BY <1>1, <1>4, InitX64Step
  <1>5. ASSUME Others PROVE G
      BY <1>1, <1>5, OthersStep
  <1>6. ASSUME MapDown PROVE G
      BY <1>6, MapDownStep
  <1>7. ASSUME MapHuge PROVE G
      BY <1>7, MapHugeStep
  <1>8. ASSUME MapNew PROVE G
      BY <1>1, <1>8, MapNewStep
  <1>9. ASSUME MapSet PROVE G
      BY <1>9, MapSetStep
  <1>10. ASSUME NEW q \in Requests, StartMap(q[1], q[2]) PROVE G
      BY <1>10, StartMapStep
  <1>11. ASSUME NEW q \in Requests, vmm_unmap(q[1]) PROVE G
      BY <1>11, UnmapStep
  <1>12. ASSUME UNCHANGED mvars PROVE G
      BY <1>12, IdleStep DEF mvars, vars, vmmVars
  <1>13. G
    <2> HIDE DEF G
    <2> QED
        BY <1>2, <1>3, <1>4, <1>5, <1>6, <1>7, <1>8, <1>9, <1>10, <1>11, <1>12, Zenon DEF MNext
  <1> QED
      BY <1>1, <1>13

(* The initial state.                                                      *)
LEMMA VmmInit == MInit => Inv /\ VmmInv /\ Space!ASInit
  <1>1. MInit => Mode = "off" /\ Asked = <<>>
      BY DEF MInit, Mode, Asked
  <1> QED
      BY <1>1, InvInit, VmmInvInit DEF MInit, Space!ASInit

(* In both builds, for tables of any size, any memory and any calls, the   *)
(* pages allocated for tables are a tree below the root.                   *)
THEOREM VmmTablesPrivate == MSpec => []TablesPrivate
  <1>1. Inv /\ VmmInv => TablesPrivate
    <2> SUFFICES ASSUME Inv, VmmInv PROVE TablesPrivate
        OBVIOUS
    <2>1. CASE vpc = "stopped"
        BY <2>1 DEF TablesPrivate
    <2>2. CASE vpc # "stopped"
      <3>1. PICK lev : Tree(Build, tab, owner[PageTables] \cup {Root}, lev)
          BY <2>2 DEF VmmInv, HasTree
      <3> QED
          BY <3>1, TreePrivate DEF Inv
    <2> QED
        BY <2>1, <2>2
  <1> QED
      BY <1>1, VmmInit, VmmNext, PTL DEF MSpec

(* vmm_init, vmm_map and vmm_unmap of both builds implement AddressSpace:  *)
(* each changes the mapping of one page, and the low pages stay.           *)
THEOREM VmmAddressSpace == MSpec => IsAddressSpace
  BY VmmInit, VmmNext, PTL DEF MSpec, IsAddressSpace, Space!ASSpec
=============================================================================
