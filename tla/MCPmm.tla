------------------------------- MODULE MCPmm -------------------------------
(* Pmm with 2-byte pages and a 10-page bitmap.                             *)
EXTENDS Pmm, TLC

E(b, l, t) == [base |-> b, length |-> l, type |-> t]

(* A PC's map in miniature: low memory, a reserved hole, main memory whose *)
(* ends are not page aligned; one with the hole in the middle of main      *)
(* memory and RAM beyond the bitmap; an entry too small to hold a page.    *)
MCMaps == {
    <<E(0, 2, 1), E(2, 2, 2), E(3, 15, 1)>>,
    <<E(0, 11, 1), E(11, 2, 2), E(13, 11, 1)>>,
    <<E(0, 15, 1), E(15, 1, 1), E(16, 4, 3)>> }

(* RAM below and, separated by a hole, RAM that starts above UptrMod.      *)
MCHighMaps == { <<E(0, 8, 1), E(8, 24, 2), E(32, 14, 1)>> }

MCMarkRanges == { <<9, 11>>, <<17, 23>> }
ClientSymmetry == Permutations(Clients)
=============================================================================
