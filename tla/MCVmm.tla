------------------------------- MODULE MCVmm -------------------------------
(* Vmm with both builds in miniature: the first 6 of 16 pages mapped to    *)
(* themselves on x86, which leaves two physical pages out, the first 8 on  *)
(* x86_64.                                                                 *)
EXTENDS Vmm, MCPmm

D(s, n, t) == [start |-> s, pages |-> n, type |-> t]

(* A loader in the middle of free memory, and a map with one descriptor    *)
(* too many.                                                               *)
MCDescriptors == {
    <<D(0, 2, "Conventional"), D(4, 3, "LoaderData"), D(10, 3, "Conventional")>>,
    <<D(0, 6, "Conventional"), D(14, 1, "LoaderCode"), D(16, 1, "BootServices"),
      D(12, 1, "Conventional")>> }

MCAllMaps == MCMaps \cup EfiMaps

MCFans == [x86 |-> <<8, 2>>, x86_64 |-> <<2, 2, 2, 2>>]
MCRoots == [x86 |-> 3, x86_64 |-> 1]

(* A page inside the low ones; one that holds a table on x86; two for the  *)
(* same place and one that needs other tables.                             *)
MCRequests == {<<3, 5>>, <<6, 6>>, <<9, 2>>, <<9, 7>>, <<13, 4>>}
=============================================================================
