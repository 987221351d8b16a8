------------------------------- MODULE MCNic -------------------------------
(* Nic with lengths divided by about fourteen and a ring for two frames,   *)
(* on small machines.                                                      *)
EXTENDS Nic

F(kind, src, toUs, len, ihl) ==
    [kind |-> kind, src |-> src, sha |-> src, toUs |-> toUs, len |-> len, ihl |-> ihl]

(* An ARP request of a length that is not a multiple of four, an echo      *)
(* request with IPv4 options, and a frame of the greatest length.          *)
MCFrames == {F("arp_request", "m1", TRUE, 61, 20), F("echo_request", "m2", TRUE, 99, 24),
             F("other", "m1", FALSE, 114, 20)}

Fn(kind, at) ==
    CASE kind = "none"   -> NoFn
      [] kind = "rtl"    -> [at |-> at, class |-> "ethernet", rtl |-> TRUE, bar0 |-> "io"]
      [] kind = "rtlmem" -> [at |-> at, class |-> "ethernet", rtl |-> TRUE, bar0 |-> "memory"]
      [] kind = "e1000"  -> [at |-> at, class |-> "ethernet", rtl |-> FALSE, bar0 |-> "memory"]
      [] kind = "xhci"   -> [at |-> at, class |-> "xhci", rtl |-> FALSE, bar0 |-> "memory"]
      [] kind = "xhciio" -> [at |-> at, class |-> "xhci", rtl |-> FALSE, bar0 |-> "io"]
      [] kind = "nobar"  -> [at |-> at, class |-> "xhci", rtl |-> FALSE, bar0 |-> "none"]
      [] kind = "bt"     -> [at |-> at, class |-> "bluetooth", rtl |-> FALSE, bar0 |-> "none"]

(* Three slots with two functions each, of the given kinds.                *)
Machine(multi, kinds) ==
    [s \in 1 .. 3 |->
        [multi |-> multi[s],
         fns   |-> [f \in Fns |-> Fn(kinds[s][f + 1], s * PCI_FNS + f)]]]

(* With a card that is used: behind devices that answer twice; last in the *)
(* table, behind a device whose first function is missing.                 *)
WithCard ==
    {Machine(<<FALSE, FALSE, FALSE>>, <<<<"xhci", "none">>, <<"bt", "none">>, <<"rtl", "none">>>>),
     Machine(<<TRUE, TRUE, FALSE>>, <<<<"xhci", "xhci">>, <<"none", "e1000">>, <<"rtl", "none">>>>)}

(* Without: every way to fill a multi-function and a simple slot before a  *)
(* card, in which some other Ethernet controller, or too many functions,   *)
(* come before it.                                                         *)
WithoutCard ==
    {m \in {Machine(<<TRUE, FALSE, FALSE>>, <<<<a, b>>, <<c, "none">>, <<"rtl", "none">>>>) :
                a, b, c \in {"none", "rtlmem", "e1000", "xhci", "xhciio", "nobar", "bt"}} :
        \/ \E f \in Real(m) : f.class = "ethernet" /\ ~ f.bar0 = "io"
        \/ Cardinality(Real(m)) > PCI_MAX_DEVICES}

MCMachines == WithCard \cup WithoutCard
=============================================================================
