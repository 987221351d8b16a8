-------------------------------- MODULE Pci --------------------------------
(***************************************************************************)
(* drivers/bus/pci.c and the drivers that look a device up in its table:   *)
(* usb/xhci.c, usb/bluetooth.c and, in module Nic, net/rtl8139.c.          *)
(*                                                                         *)
(* A machine is the sequence of its slots in the order of the two loops of *)
(* pci_init over buses and devices.  A slot has functions, some of them    *)
(* not there, and says whether it is a multi-function device.  A function  *)
(* is abstracted to what the drivers look at and to its place `at' in the  *)
(* machine.                                                                *)
(***************************************************************************)
EXTENDS Integers, Sequences, FiniteSets

CONSTANTS
    PCI_MAX_DEVICES,   \* 64
    PCI_FNS,           \* 8, the functions of a device
    Machines

Fns == 0 .. PCI_FNS - 1
NoFn == [class |-> "none"]   \* vendor 0xFFFF

ASSUME PciAssumption ==
    /\ PCI_MAX_DEVICES \in Nat /\ PCI_FNS \in Nat \ {0}
    /\ \A m \in Machines :
        /\ Len(m) \in Nat /\ DOMAIN m = 1 .. Len(m)
        /\ \A s \in DOMAIN m :
            /\ m[s].multi \in BOOLEAN
            /\ \A f \in Fns : m[s].fns[f] = NoFn \/ m[s].fns[f].at = s * PCI_FNS + f

VARIABLES
    machine,
    place,       \* the functions that the loops of pci_init have passed
    devices,     \* the table, of length ndevices
    bound,       \* the function each driver found and uses, or NoFn
    stage        \* what kmain calls next
pciVars == <<machine, place, devices, bound, stage>>

PciInit ==
    /\ machine \in Machines
    /\ place = 0
    /\ devices = <<>>
    /\ bound = [xhci |-> NoFn, bluetooth |-> NoFn, rtl8139 |-> NoFn]
    /\ stage = "pci"

(* The configuration space: a device with one function need not look at    *)
(* the function number, and then answers at each of them.                  *)
pci_read(m, s, f) == IF m[s].multi THEN m[s].fns[f] ELSE m[s].fns[0]

probe(id) ==
    IF id = NoFn \/ Len(devices) >= PCI_MAX_DEVICES THEN devices ELSE Append(devices, id)

(* Looks at all functions of every device.                                 *)
ProbedAlways(m, s, f) == pci_read(m, s, 0) # NoFn

Probed(m, s, f) ==
    /\ pci_read(m, s, 0) # NoFn
    /\ f = 0 \/ m[s].multi

(* The places of a machine in the order of the loops.                      *)
Places(m) == Len(m) * PCI_FNS
SlotAt(k) == (k \div PCI_FNS) + 1
FnAt(k) == k % PCI_FNS

ProbeNext ==
    /\ stage = "pci" /\ place < Places(machine)
    /\ devices' = IF Probed(machine, SlotAt(place), FnAt(place))
                  THEN probe(pci_read(machine, SlotAt(place), FnAt(place))) ELSE devices
    /\ place' = place + 1
    /\ UNCHANGED <<machine, bound, stage>>

ProbeEnd ==
    /\ stage = "pci" /\ place = Places(machine)
    /\ stage' = "xhci"
    /\ UNCHANGED <<machine, place, devices, bound>>

pci_init == ProbeNext \/ ProbeEnd

(* The first entry of the class; the programming interface is part of it   *)
(* for xHCI, and is not looked at for the other two.                       *)
pci_find_class(class) ==
    LET of == {k \in DOMAIN devices : devices[k].class = class}
    IN  IF of = {} THEN NoFn ELSE devices[CHOOSE k \in of : \A j \in of : k <= j]

(* A controller without an address in its first register is left alone;    *)
(* otherwise it is reset and started, be the address one of memory or of   *)
(* I/O: the waits are bounded and their outcome is not looked at, nor is a *)
(* page missing for the device contexts an error.                          *)
xhci_init ==
    LET d == pci_find_class("xhci")
    IN  /\ stage = "xhci"
        /\ bound' = IF d = NoFn \/ d.bar0 = "none" THEN bound ELSE [bound EXCEPT !.xhci = d]
        /\ stage' = "bluetooth"
        /\ UNCHANGED <<machine, place, devices>>

bluetooth_detect ==
    /\ stage = "bluetooth"
    /\ bound' = [bound EXCEPT !.bluetooth = pci_find_class("bluetooth")]
    /\ stage' = "net"
    /\ UNCHANGED <<machine, place, devices>>

-----------------------------------------------------------------------------
(* What the machine is made of, each function once, and which of it fits   *)
(* in the table.                                                           *)
Present(m) ==
    {m[s].fns[f] : s \in {s \in DOMAIN m : m[s].fns[0] # NoFn}, f \in Fns} \ {NoFn}
Real(m) == {f \in Present(m) : f.at % PCI_FNS = 0 \/ m[f.at \div PCI_FNS].multi}
Listed(m) == {f \in Real(m) : Cardinality({g \in Real(m) : g.at <= f.at}) <= PCI_MAX_DEVICES}

(* Function f is the first of its class among those with a place.          *)
IsFirst(f, class) ==
    /\ f \in Listed(machine) /\ f.class = class
    /\ \A g \in Listed(machine) : g.class = class => f.at <= g.at

(* Driver d uses the first function of the class if it is drivable.        *)
Uses(d, class, drivable) ==
    IF \E f \in drivable : IsFirst(f, class) THEN IsFirst(bound[d], class)
                                            ELSE bound[d] = NoFn

(* Each driver uses the first function of its class, if that is one it can *)
(* drive, and none otherwise: neither the places at which a device answers *)
(* a second time nor what lies behind a missing first function count, and  *)
(* only functions beyond the table's capacity are overlooked.              *)
DriversBind ==
    /\ stage \in {"bluetooth", "net", "done"} =>
           Uses("xhci", "xhci", {f \in Listed(machine) : f.bar0 # "none"})
    /\ stage \in {"net", "done"} => Uses("bluetooth", "bluetooth", Listed(machine))
    /\ stage = "done" =>
           Uses("rtl8139", "ethernet", {f \in Listed(machine) : f.rtl /\ f.bar0 = "io"})
=============================================================================
