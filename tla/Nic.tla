-------------------------------- MODULE Nic --------------------------------
(***************************************************************************)
(* The network path: drivers/net/rtl8139.c, kernel/net/net.c, and the      *)
(* packet code of rust/crates/aerogel-core.  kmain's idle loop polls the   *)
(* card, whose interrupt line is never unmasked; the card stores frames in *)
(* a ring that rtl8139_poll empties, and sends from four buffers that      *)
(* rtl8139_send fills in turn.  Card and driver run concurrently.          *)
(*                                                                         *)
(* The card (Arrive, Transmit) is external, modelled from the registers    *)
(* the driver uses: it drops a frame its ring has no room for and keeps    *)
(* the others until CAPR passes them.  `arrived', `received', `sent',      *)
(* `wire' and `overrun' are history variables.                             *)
(***************************************************************************)
EXTENDS Pci

CONSTANTS
    RX_RING,       \* 8192, the receive ring
    PTR_MOD,       \* 2^16, the width of rx_ptr and CAPR
    MAX_PLEN,      \* 1514, the longest length rtl8139_poll accepts
    NET_MTU,       \* 1514, the longest frame
    TX_MAX,        \* 1500, the longest frame rtl8139_send accepts
    TX_BUFS,       \* 4
    Frames,        \* the frames other hosts send
    OurMac,
    MaxFrames      \* bound on the frames that arrive

ETH_HLEN == 14     \* what ethernet::write_frame puts before a packet
IP_HLEN == 20      \* what ipv4::write puts before a message
ARP_LEN == ETH_HLEN + 28

Kinds == {"arp_request", "echo_request", "other"}

ASSUME NicAssumption ==
    /\ RX_RING \in Nat \ {0} /\ RX_RING % 4 = 0
    /\ PTR_MOD \in Nat \ {0} /\ PTR_MOD % RX_RING = 0
    /\ {MAX_PLEN, NET_MTU, TX_MAX, MaxFrames} \subseteq Nat
    /\ TX_BUFS \in Nat \ {0}
    /\ \A f \in Frames :
        /\ f.kind \in Kinds
        /\ f.toUs \in BOOLEAN
        /\ f.len \in ETH_HLEN .. NET_MTU
        /\ f.ihl \in 0 .. 60       \* the length the IPv4 header claims

NoFrame == [kind |-> "none", dst |-> OurMac, len |-> 0]

VARIABLES
    present,       \* "booting", "absent" or "present"
    isr,           \* the card's interrupt status bits
    ring, wp,      \* frames in the card's ring, each with where it starts,
                   \* and where the card writes next
    capr,          \* the CAPR register
    rx_ptr,
    pc, status,    \* where rtl8139_poll is, and its local isr
    tx_own,        \* the transmit buffers for which pmm_alloc has a page; the others
                   \* are all at address 0
    tx_cur,
    txbuf, busy,   \* what is in the pages of the buffers, and which buffers the card owns
    txd,           \* the buffer the card sends from next
    arrived, received,
    sent, wire,    \* the frames that rtl8139_send took, and that left the card
    overrun        \* has a page been written that a buffer of the card is in?

devVars == <<isr, ring, wp>>
sendVars == <<tx_cur, txbuf, busy, sent, overrun>>
txVars == <<tx_own, sendVars, txd, wire>>
nicVars == <<present, devVars, capr, rx_ptr, pc, status, txVars, arrived, received>>
vars == <<pciVars, nicVars>>

Slots == 0 .. TX_BUFS - 1

Init ==
    /\ PciInit
    /\ present = "booting"
    /\ isr = {}
    /\ ring = <<>>
    /\ wp = 0
    /\ capr = (0 - 16) % PTR_MOD
    /\ rx_ptr = 0
    /\ pc = "idle"
    /\ status = {}
    /\ tx_own \in 0 .. TX_BUFS
    /\ tx_cur = 0
    /\ txbuf = [k \in Slots |-> NoFrame]
    /\ busy = [k \in Slots |-> FALSE]
    /\ txd = 0
    /\ arrived = <<>>
    /\ received = <<>>
    /\ sent = <<>>
    /\ wire = <<>>
    /\ overrun = FALSE

-----------------------------------------------------------------------------
(* The ICMP message is what follows the IPv4 header, to the frame's end.   *)
IcmpLen(f) == f.len - ETH_HLEN - f.ihl

(* ARP requests for our address are answered to the sender the packet      *)
(* names, echo requests to our address to the station the frame came from, *)
(* with a header of 20 bytes.                                              *)
ArpAnswers(f) == f.kind = "arp_request" /\ f.len >= ARP_LEN

IcmpAnswers(f) ==
    /\ f.kind = "echo_request"
    /\ f.len >= ETH_HLEN + 20
    /\ IcmpLen(f) >= 8
    /\ ETH_HLEN + IP_HLEN + IcmpLen(f) <= NET_MTU

Answered(f) == f.toUs /\ (ArpAnswers(f) \/ IcmpAnswers(f))

net_process_packet(f) ==
    IF ~ Answered(f) THEN NoFrame
    ELSE IF f.kind = "arp_request"
         THEN [kind |-> "arp_reply", dst |-> f.sha, len |-> ARP_LEN]
         ELSE [kind |-> "echo_reply", dst |-> f.src, 
              len |-> ETH_HLEN + IP_HLEN + IcmpLen(f)]

(* net_arp_announce runs a request of its own through the ARP code, whose  *)
(* answer goes to that request's sender.                                   *)
net_arp_announce ==
    net_process_packet([kind |-> "arp_request", src |-> OurMac, sha |-> OurMac,
                        toUs |-> TRUE, len |-> ARP_LEN, ihl |-> 0])

(* Never uses the last buffer, from which the card sends in its turn.      *)
NextBufferSkipsLast == (tx_cur + 1) % (TX_BUFS - 1)

NextBuffer == (tx_cur + 1) % TX_BUFS

(* The page that transmit buffer k is in.                                  *)
Page(k) == IF k < tx_own THEN k ELSE tx_own

(* rtl8139_send does not look whether the card still owns the buffer.      *)
rtl8139_send(f) ==
    IF f.len > TX_MAX
    THEN UNCHANGED sendVars
    ELSE /\ txbuf' = [txbuf EXCEPT ![Page(tx_cur)] = f]
         /\ busy' = [busy EXCEPT ![tx_cur] = TRUE]
         /\ tx_cur' = NextBuffer
         /\ sent' = Append(sent, f)
         /\ overrun' = (overrun \/ \E k \in Slots : busy[k] /\ Page(k) = Page(tx_cur))

(* rtl_rx up to the transmission of the answer, if there is one.           *)
rtl_rx(f) ==
    IF net_process_packet(f) = NoFrame
    THEN UNCHANGED sendVars
    ELSE rtl8139_send(net_process_packet(f))

(* Only the first Ethernet controller is looked at.  Without memory for    *)
(* the ring there is no interface; if there is, its receiver starts at the *)
(* ring's beginning.  Whether the transmit buffers got pages is not tested *)
(* (tx_own).                                                               *)
rtl8139_init ==
    LET d == pci_find_class("ethernet")
        found == d # NoFn /\ d.rtl /\ d.bar0 = "io"
    IN  /\ bound' = IF found THEN [bound EXCEPT !.rtl8139 = d] ELSE bound
        /\ \/ present' = "absent" /\ UNCHANGED rx_ptr
           \/ found /\ present' = "present" /\ rx_ptr' = 0

(* net_configure sends the announcement.                                   *)
net_bring_up ==
    /\ stage = "net"
    /\ stage' = "done"
    /\ rtl8139_init
    /\ IF present' = "present" THEN rtl8139_send(net_arp_announce)
                               ELSE UNCHANGED sendVars
    /\ UNCHANGED <<machine, place, devices, devVars, capr, pc, status, tx_own, txd, wire,
                   arrived, received>>

-----------------------------------------------------------------------------
(* rtl8139_poll.                                                           *)

ReadIsr ==
    /\ present = "present"
    /\ pc = "idle"
    /\ isr # {}
    /\ status' = isr
    /\ pc' = "ack"
    /\ UNCHANGED <<pciVars, present, devVars, capr, rx_ptr, txVars, arrived, received>>

(* Clears every bit, those set since the read included.                    *)
RemainingNone == {}

(* Writing the bits read clears them.                                      *)
Remaining == isr \ status

AckIsr ==
    /\ pc = "ack"
    /\ isr' = Remaining
    /\ pc' = IF "ROK" \in status THEN "drain" ELSE "idle"
    /\ UNCHANGED <<pciVars, present, ring, wp, capr, rx_ptr, status, txVars, arrived, received>>

(* The length the card stores includes the frame's four-byte checksum.     *)
Plen(f) == f.len + 4
RoundUp4(n) == ((n + 3) \div 4) * 4

(* What the driver finds at rx_ptr: the first frame, if that is where it   *)
(* starts.                                                                 *)
AtFrame == ring # <<>> /\ Head(ring).at = rx_ptr % RX_RING

BufferEmpty == wp = (capr + 16) % RX_RING

(* The loop ends when the card says that its ring is empty ...             *)
DrainEnd ==
    /\ pc = "drain"
    /\ BufferEmpty
    /\ pc' = "idle"
    /\ UNCHANGED <<pciVars, present, devVars, capr, rx_ptr, status, txVars, arrived, received>>

(* ... or at a length that cannot be right, where it stays.                *)
DrainBreak ==
    /\ pc = "drain"
    /\ ~ BufferEmpty
    /\ AtFrame => Plen(Head(ring).frame) > MAX_PLEN
    /\ pc' = "idle"
    /\ UNCHANGED <<pciVars, present, devVars, capr, rx_ptr, status, txVars, arrived, received>>

(* Gives the frame's place back to the card before the callback reads it.  *)
CallbackFreesFirst ==
    /\ pc = "drain"
    /\ ~ BufferEmpty
    /\ AtFrame
    /\ Plen(Head(ring).frame) <= MAX_PLEN
    /\ received' = Append(received, Head(ring).frame)
    /\ rtl_rx(Head(ring).frame)
    /\ capr' = (RoundUp4(rx_ptr + Plen(Head(ring).frame) + 4) - 16) % PTR_MOD
    /\ pc' = "advance"
    /\ UNCHANGED <<pciVars, present, devVars, rx_ptr, status, tx_own, txd, wire, arrived>>

(* The frame stays in the ring while rtl_rx reads it, and pc = "advance".  *)
Callback ==
    /\ pc = "drain"
    /\ ~ BufferEmpty
    /\ AtFrame
    /\ Plen(Head(ring).frame) <= MAX_PLEN
    /\ received' = Append(received, Head(ring).frame)
    /\ rtl_rx(Head(ring).frame)
    /\ pc' = "advance"
    /\ UNCHANGED <<pciVars, present, devVars, capr, rx_ptr, status, tx_own, txd, wire, arrived>>

(* Forgets the four bytes of the header the card stores before a frame.    *)
NextPtrNoHeader(p, f) == RoundUp4(p + Plen(f)) % PTR_MOD

NextPtr(p, f) == RoundUp4(p + Plen(f) + 4) % PTR_MOD

Advance ==
    /\ pc = "advance"
    /\ rx_ptr' = NextPtr(rx_ptr, Head(ring).frame)
    /\ capr' = (rx_ptr' - 16) % PTR_MOD
    /\ ring' = Tail(ring)
    /\ pc' = "drain"
    /\ UNCHANGED <<pciVars, present, isr, wp, status, txVars, arrived, received>>

Poll == ReadIsr \/ AckIsr \/ DrainEnd \/ DrainBreak \/ Callback \/ Advance

-----------------------------------------------------------------------------
(* The card.                                                               *)

Used == (wp - (capr + 16)) % RX_RING

Arrive(f) ==
    LET size == RoundUp4(Plen(f) + 4)
    IN  /\ present = "present"
        /\ Len(arrived) < MaxFrames
        /\ Used + size < RX_RING
        /\ ring' = Append(ring, [frame |-> f, at |-> wp])
        /\ wp' = (wp + size) % RX_RING
        /\ isr' = isr \cup {"ROK"}
        /\ arrived' = Append(arrived, f)
        /\ UNCHANGED <<pciVars, present, capr, rx_ptr, pc, status, txVars, received>>

Transmit ==
    /\ busy[txd]
    /\ wire' = Append(wire, txbuf[Page(txd)])
    /\ busy' = [busy EXCEPT ![txd] = FALSE]
    /\ txd' = (txd + 1) % TX_BUFS
    /\ isr' = isr \cup {"TOK"}
    /\ UNCHANGED <<pciVars, present, ring, wp, capr, rx_ptr, pc, status, tx_own, tx_cur,
                   txbuf, sent, overrun, arrived, received>>

Next ==
    \/ pci_init /\ UNCHANGED nicVars
    \/ xhci_init /\ UNCHANGED nicVars
    \/ bluetooth_detect /\ UNCHANGED nicVars
    \/ net_bring_up
    \/ Poll
    \/ Transmit
    \/ \E f \in Frames : Arrive(f)

(* The idle loop keeps polling (module Kernel) and the card keeps sending. *)
Spec == Init /\ [][Next]_vars /\ WF_vars(Poll) /\ WF_vars(Transmit)

-----------------------------------------------------------------------------
(* Frames are handed to the network code once, in the order in which they  *)
(* came, and never from a place in the ring where none starts: rx_ptr,     *)
(* which the driver computes, stays in step with the card's own pointer.   *)
ReceiveInOrder ==
    /\ (pc = "drain" /\ ring # <<>>) => AtFrame
    /\ pc = "drain" => (BufferEmpty <=> ring = <<>>)
    /\ LET seen == IF pc = "advance" THEN 1 ELSE 0
       IN  arrived = received \o [k \in 1 .. Len(ring) - seen |-> ring[k + seen].frame]

(* Frame a ends before frame b begins, going round the ring from a.        *)
EndsBefore(a, b) == (b.at - a.at) % RX_RING >= RoundUp4(Plen(a.frame) + 4)

(* The card never writes over the frame that rtl_rx is looking at, nor     *)
(* over one still to come: rtl8139_poll moves CAPR after the callback.     *)
FramesStable ==
    \A j, k \in DOMAIN ring : j # k => EndsBefore(ring[j], ring[k])

(* A frame that reached the card's ring is received, although it may come  *)
(* between the poll's look at the status, its acknowledgement and the end  *)
(* of its loop; unless it, or one before it, is of the few greatest        *)
(* lengths, at which rtl8139_poll stops for good.                          *)
EventuallyReceived ==
    \A n \in 1 .. MaxFrames :
        (Len(arrived) >= n /\ \A k \in 1 .. n : Plen(arrived[k]) <= MAX_PLEN) ~>
            Len(received) >= n

(* As long as rtl8139_send has not written over a frame that was waiting,  *)
(* the frames leave the card in the order in which it was called, each     *)
(* once and as it was given, and those that have not left yet are in the   *)
(* buffers from which the card will take them next.                        *)
SentInOrder ==
    ~ overrun =>
        /\ Len(wire) <= Len(sent)
        /\ \A j \in 1 .. Len(wire) : wire[j] = sent[j]
        /\ \A j \in Len(wire) + 1 .. Len(sent) :
               LET k == (txd + (j - Len(wire)) - 1) % TX_BUFS
               IN  busy[k] /\ txbuf[Page(k)] = sent[j]

Count(s, f) == Cardinality({k \in DOMAIN s : s[k] = f})

(* Every answer that net_process_packet makes leaves the machine, unless   *)
(* it is longer than rtl8139_send takes, or rtl8139_send was ever called   *)
(* while the card had not yet sent what was in the buffer.                 *)
RepliesSent ==
    \A n \in 1 .. MaxFrames, f \in {f \in Frames : Answered(f)} :
        LET reply == net_process_packet(f)
        IN  (reply.len <= TX_MAX /\ Count(received, f) >= n) ~>
                (overrun \/ Count(wire, reply) >= n)
=============================================================================
