---------------------------- MODULE AddressSpace ----------------------------
(***************************************************************************)
(* What the page tables promise: from vmm_init on, the low pages are where *)
(* they physically are, and every other page is where the last vmm_map put *)
(* it, or nowhere (0) after vmm_unmap.  A call that finds no memory or no  *)
(* way to its tables ends the promise.                                     *)
(***************************************************************************)
EXTENDS Naturals

CONSTANT Virt              \* page numbers

VARIABLES
    low,           \* the pages vmm_init maps to themselves
    space,         \* what each page is mapped to
    asked,         \* the <<virt, phys>> of the vmm_map that is under way, or <<>>
    mode           \* "off", "on" or "stopped"

ASInit == mode = "off" /\ asked = <<>>

Enable ==
    /\ mode = "off" /\ mode' = "on"
    /\ asked' = asked
    /\ space' = [v \in Virt |-> IF v \in low THEN v ELSE 0]

Ask == asked = <<>> /\ asked' # <<>> /\ space' = space /\ mode' = mode

(* An address inside the low pages is left alone.                          *)
Map ==
    /\ asked # <<>> /\ asked' = <<>>
    /\ space' = IF asked[1] \in low THEN space ELSE [space EXCEPT ![asked[1]] = asked[2]]
    /\ mode' = mode

Unmap(v) ==
    /\ mode = "on" /\ asked = <<>>
    /\ space' = [space EXCEPT ![v] = 0]
    /\ UNCHANGED <<asked, mode>>

Stop == mode # "stopped" /\ mode' = "stopped"

ASNext ==
    /\ low' = low
    /\ Enable \/ Ask \/ Map \/ Stop \/ \E v \in Virt \ low : Unmap(v)

ASSpec == ASInit /\ [][ASNext]_<<low, space, asked, mode>>
=============================================================================
