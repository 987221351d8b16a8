------------------------------ MODULE PmmScan ------------------------------
(***************************************************************************)
(* The search loop of pmm_alloc_n in kernel/mm/pmm.c, one iteration at a   *)
(* time: a single left-to-right pass that keeps only the length of the run *)
(* of clear bits ending at the current page and where that run began.      *)
(* Module Pmm uses what this loop is shown here to compute: the first fit. *)
(***************************************************************************)
EXTENDS PmmBitmap

CONSTANT Requests          \* the arguments n considered; 0 returns at once

ASSUME RequestsAssumption == Requests \subseteq Nat \ {0}

VARIABLES bitmap, n, i, run, start, done, ret

vars == <<bitmap, n, i, run, start, done, ret>>

Init ==
    /\ bitmap \in SUBSET Pages
    /\ n \in Requests
    /\ i = 1
    /\ run = 0
    /\ start = 0
    /\ done = FALSE
    /\ ret = 0

(* The branch for a clear bit: extend the run, and stop once it is long    *)
(* enough.                                                                 *)
ClearBit ==
    /\ i \notin bitmap
    /\ run' = run + 1
    /\ start' = IF run = 0 THEN i ELSE start
    /\ IF run' = n
       THEN ret' = start' /\ done' = TRUE /\ i' = i
       ELSE i' = i + 1 /\ UNCHANGED <<ret, done>>

(* Forgets to end the run at a used page.                                  *)
SetBitNoReset ==
    /\ i \in bitmap
    /\ i' = i + 1
    /\ UNCHANGED <<run, start, ret, done>>

(* The branch for a set bit: the run ends.                                 *)
SetBit ==
    /\ i \in bitmap
    /\ run' = 0
    /\ i' = i + 1
    /\ UNCHANGED <<start, ret, done>>

Step == i < MaxPages /\ (ClearBit \/ SetBit)

(* The loop ends without a run: return 0.                                  *)
Fail ==
    /\ i >= MaxPages
    /\ ret' = 0
    /\ done' = TRUE
    /\ UNCHANGED <<i, run, start>>

Next == ~done /\ (Step \/ Fail) /\ UNCHANGED <<bitmap, n>>

Spec == Init /\ [][Next]_vars

-----------------------------------------------------------------------------
(* The loop never looks beyond the last bit of the bitmap.                 *)
TypeOK ==
    /\ bitmap \in SUBSET Pages
    /\ n \in Requests
    /\ i \in 1 .. MaxPages
    /\ run \in Nat
    /\ start \in Nat
    /\ done \in BOOLEAN
    /\ ret \in Nat

(* When pmm_alloc_n returns, its result is the lowest run of n clear pages *)
(* if there is one and 0 only if there is none: one pass that restarts its *)
(* count at every used page misses no run and never returns one that is    *)
(* too short, overlaps a used page or passes the end of the bitmap.        *)
FirstFit ==
    done => IF ret # 0 THEN IsFirstFit(bitmap, ret, n) ELSE NoFit(bitmap, n)

(* The loop's invariant: run pages before i are clear, the one before them *)
(* is not (or is page 0), and no run of n pages ends before i.             *)
ScanInv ==
    /\ TypeOK
    /\ FirstFit
    /\ ~done =>
        /\ run < n
        /\ run < i
        /\ run > 0 => start = i - run
        /\ \A p \in i - run .. i - 1 : p \notin bitmap
        /\ i - run > 1 => (i - run) - 1 \in bitmap
        /\ \A s \in 1 .. MaxPages : s + n <= i => ~ IsFreeRun(bitmap, s, n)
=============================================================================
