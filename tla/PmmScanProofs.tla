--------------------------- MODULE PmmScanProofs ---------------------------
(* For every bitmap length, bitmap and request: pmm_alloc_n's scan returns *)
(* the first fit.                                                          *)
EXTENDS PmmScan, TLAPS

(* The loop invariant holds before the first page is looked at.            *)
LEMMA ScanInit == Init => ScanInv
  <1> SUFFICES ASSUME Init PROVE ScanInv
      OBVIOUS
  <1> USE MaxPagesAssumption, RequestsAssumption
  <1>1. TypeOK /\ FirstFit
    <2>1. done \in BOOLEAN
        BY DEF Init
    <2>2. TypeOK
        BY <2>1 DEF Init, TypeOK
    <2>3. FirstFit
        BY DEF Init, FirstFit
    <2> QED
        BY <2>2, <2>3
  <1>2. i = 1 /\ run = 0 /\ n \in Nat \ {0}
      BY DEF Init
  <1>3. \A s \in 1 .. MaxPages : ~ (s + n <= i)
      BY <1>2
  <1> QED
      BY <1>1, <1>2, <1>3 DEF ScanInv

(* The branch for a clear page preserves it, or returns the first fit.     *)
LEMMA ScanClear == ScanInv /\ ~done /\ i < MaxPages /\ ClearBit
                     /\ UNCHANGED <<bitmap, n>> => ScanInv'
  <1> SUFFICES ASSUME ScanInv, ~done, i < MaxPages, ClearBit,
                      UNCHANGED <<bitmap, n>>
               PROVE  ScanInv'
      OBVIOUS
  <1> USE MaxPagesAssumption, RequestsAssumption
  <1>1. TypeOK'
    <2>1. /\ i' \in 1 .. MaxPages
          /\ run' \in Nat
          /\ start' \in Nat
        BY DEF ScanInv, TypeOK, ClearBit
    <2>2. done' \in BOOLEAN /\ ret' \in Nat
        BY <2>1 DEF ScanInv, TypeOK, ClearBit
    <2> QED
        BY <2>1, <2>2 DEF ScanInv, TypeOK
  <1>2. start' = i - run /\ start' \in Nat \ {0}
      BY DEF ScanInv, TypeOK, ClearBit
  <1>3. \A p \in i - run .. i : p \notin bitmap
      BY DEF ScanInv, TypeOK, ClearBit
  <1>4. CASE run' = n
    <2>1. i - run + n = i + 1
        BY <1>4 DEF ScanInv, TypeOK, ClearBit
    <2>2. IsFreeRun(bitmap, start', n)
        BY <1>2, <1>3, <2>1 DEF IsFreeRun, Run, ScanInv, TypeOK
    <2>3. \A r \in 1 .. start' - 1 : ~ IsFreeRun(bitmap, r, n)
        BY <1>2, <2>1 DEF ScanInv, TypeOK
    <2>4. FirstFit'
        BY <1>2, <1>4, <2>2, <2>3 DEF FirstFit, IsFirstFit, ClearBit, IsFreeRun
    <2> QED
        BY <1>1, <1>4, <2>4 DEF ScanInv, ClearBit
  <1>5. CASE run' # n
    <2>1. ~done' /\ i' = i + 1 /\ run' = run + 1 /\ bitmap' = bitmap /\ n' = n
        BY <1>5 DEF ClearBit
    <2>2. FirstFit'
        BY <2>1 DEF FirstFit
    <2>3. ASSUME NEW s \in 1 .. MaxPages, s + n <= i'
          PROVE  ~ IsFreeRun(bitmap, s, n)
      <3>1. CASE s + n <= i
          BY <3>1 DEF ScanInv
      <3>2. CASE s + n = i + 1
        <4>1. s < i - run
            BY <3>2, <1>5 DEF ScanInv, TypeOK, ClearBit
        <4>2. i - run > 1 /\ (i - run) - 1 \in bitmap
            BY <4>1 DEF ScanInv, TypeOK
        <4>3. (i - run) - 1 \in Run(s, n)
            BY <4>1, <3>2 DEF Run, ScanInv, TypeOK
        <4> QED
            BY <4>2, <4>3 DEF IsFreeRun
      <3> QED
          BY <2>1, <2>3, <3>1, <3>2 DEF ScanInv, TypeOK
    <2>4. run' < n' /\ run' < i' /\ (run' > 0 => start' = i' - run')
        BY <1>2, <1>5, <2>1 DEF ScanInv, TypeOK, ClearBit
    <2>5. i' - run' = i - run /\ i' - 1 = i
        BY <2>1 DEF ScanInv, TypeOK
    <2>6. i - run > 1 => (i - run) - 1 \in bitmap
        BY DEF ScanInv
    <2> QED
        BY <1>1, <1>3, <2>1, <2>2, <2>3, <2>4, <2>5, <2>6 DEF ScanInv
  <1> QED
      BY <1>4, <1>5

(* The branch for a used page preserves it: no run crosses that page.      *)
LEMMA ScanSet == ScanInv /\ ~done /\ i < MaxPages /\ SetBit
                   /\ UNCHANGED <<bitmap, n>> => ScanInv'
  <1> SUFFICES ASSUME ScanInv, ~done, i < MaxPages, SetBit,
                      UNCHANGED <<bitmap, n>>
               PROVE  ScanInv'
      OBVIOUS
  <1> USE MaxPagesAssumption, RequestsAssumption
  <1>1. TypeOK' /\ FirstFit'
      BY DEF ScanInv, TypeOK, FirstFit, SetBit
  <1>2. ASSUME NEW s \in 1 .. MaxPages, s + n <= i + 1
        PROVE  ~ IsFreeRun(bitmap, s, n)
    <2>1. CASE s + n <= i
        BY <2>1 DEF ScanInv
    <2>2. CASE s + n = i + 1
        BY <2>2 DEF IsFreeRun, Run, SetBit, ScanInv, TypeOK
    <2> QED
        BY <1>2, <2>1, <2>2 DEF ScanInv, TypeOK
  <1> QED
      BY <1>1, <1>2 DEF ScanInv, TypeOK, SetBit

(* At the end of the bitmap there is no run to be found.                   *)
LEMMA ScanFail == ScanInv /\ ~done /\ Fail /\ UNCHANGED <<bitmap, n>> => ScanInv'
  <1> SUFFICES ASSUME ScanInv, ~done, Fail, UNCHANGED <<bitmap, n>>
               PROVE  ScanInv'
      OBVIOUS
  <1> USE MaxPagesAssumption, RequestsAssumption
  <1>1. i = MaxPages
      BY DEF ScanInv, TypeOK, Fail
  <1>2. NoFit(bitmap, n)
      BY <1>1 DEF NoFit, ScanInv, IsFreeRun
  <1> QED
      BY <1>2 DEF ScanInv, TypeOK, FirstFit, Fail

(* The loop invariant of pmm_alloc_n is inductive.                         *)
THEOREM ScanInvariant == Spec => []ScanInv
  <1>1. ScanInv /\ [Next]_vars => ScanInv'
    <2>1. CASE Next
        BY <2>1, ScanClear, ScanSet, ScanFail DEF Next, Step
    <2>2. CASE UNCHANGED vars
        BY <2>2 DEF vars, ScanInv, TypeOK, FirstFit
    <2> QED
        BY <2>1, <2>2
  <1> QED
      BY ScanInit, <1>1, PTL DEF Spec

(* Whatever the bitmap and the request, pmm_alloc_n returns the lowest run *)
(* of n clear pages, or 0 exactly when there is none.                      *)
THEOREM ScanFirstFit == Spec => []FirstFit
  <1>1. ScanInv => FirstFit
      BY DEF ScanInv
  <1> QED
      BY ScanInvariant, <1>1, PTL
=============================================================================
