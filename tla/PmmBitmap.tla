----------------------------- MODULE PmmBitmap -----------------------------
(***************************************************************************)
(* The page bitmap of kernel/mm/pmm.c, as the set of the indices whose bit *)
(* is 1 (page in use).  set_page, clear_page and test_page are union, set  *)
(* difference and membership.                                              *)
(***************************************************************************)
EXTENDS Integers

CONSTANT MaxPages          \* MAX_PAGES: the bitmap's length in bits

ASSUME MaxPagesAssumption == MaxPages \in Nat \ {0}

Pages == 0 .. MaxPages - 1

(* Pages s .. s+n-1, the run that pmm_alloc_n(n) returns when it stops at  *)
(* start = s.                                                              *)
Run(s, n) == s .. s + n - 1

(* What pmm_alloc and pmm_alloc_n promise their callers: s starts the      *)
(* lowest run of n clear bits.  Page 0 is never returned, since 0 is the   *)
(* failure value.                                                          *)
IsFreeRun(bm, s, n) ==
    /\ s \in Nat \ {0}
    /\ s + n <= MaxPages
    /\ \A p \in Run(s, n) : p \notin bm

IsFirstFit(bm, s, n) ==
    /\ IsFreeRun(bm, s, n)
    /\ \A r \in 1 .. s - 1 : ~ IsFreeRun(bm, r, n)

NoFit(bm, n) == \A s \in 1 .. MaxPages : ~ IsFreeRun(bm, s, n)
=============================================================================
