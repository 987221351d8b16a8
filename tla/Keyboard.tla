------------------------------ MODULE Keyboard ------------------------------
(***************************************************************************)
(* drivers/input/ps2_keyboard.c with the reader that drains it during      *)
(* first-boot setup, readln of userspace/setup/setup.c.                    *)
(*                                                                         *)
(* The interrupt handler fills a ring that the reader empties without      *)
(* disabling interrupts, so IRQ1 and IRQ0 may arrive between any two steps *)
(* of the reader.  The handler itself is atomic: it runs with interrupts   *)
(* off.  kbuf is not volatile, khead and ktail are: the compiler may move  *)
(* keyboard_poll's copy of the event past its store to ktail, and both     *)
(* orders are modelled.                                                    *)
(***************************************************************************)
EXTENDS Naturals, Sequences

CONSTANTS
    KEY_BUF_SIZE,          \* slots of the ring
    LINE_MAX,              \* 63: characters readln keeps
    Keys,                  \* scan codes of keys that are not modifiers
    ModKeys,               \* scan codes of modifier keys in use
    sc_ascii, sc_shift,    \* the translation tables
    NoEvent                \* a slot, or an event, never written

ModifierKey == {"LSHIFT", "RSHIFT", "CTRL", "ALT", "CAPS"}
Char == 0 .. 127
NL == 10
CR == 13
BS == 8

ASSUME KeyboardAssumption ==
    /\ KEY_BUF_SIZE \in Nat \ {0, 1}
    /\ LINE_MAX \in Nat
    /\ ModKeys \subseteq ModifierKey
    /\ Keys \cap ModifierKey = {}
    /\ sc_ascii \in [Keys -> Char]
    /\ sc_shift \in [Keys -> Char]

ModifierBit(code) ==
    CASE code \in {"LSHIFT", "RSHIFT"} -> "KEY_MOD_SHIFT"
      [] code = "CTRL" -> "KEY_MOD_CTRL"
      [] code = "ALT"  -> "KEY_MOD_ALT"
      [] code = "CAPS" -> "KEY_MOD_CAPS"

(* Which character a key gives.  With Caps Lock the second conversion also *)
(* sees the result of the first.                                           *)
Translate(code, mods) ==
    LET c0 == IF "KEY_MOD_SHIFT" \in mods THEN sc_shift[code] ELSE sc_ascii[code]
        caps == "KEY_MOD_CAPS" \in mods
        c1 == IF caps /\ c0 \in 97 .. 122 THEN c0 - 32 ELSE c0
    IN  IF caps /\ c1 \in 65 .. 90 THEN c1 + 32 ELSE c1

Modifier == {ModifierBit(code) : code \in ModKeys}

KeyEvent(code, mods) ==
    [scancode  |-> code,
     ascii     |-> Translate(code, mods),
     modifiers |-> mods]

Event == {KeyEvent(code, mods) : code \in Keys, mods \in SUBSET Modifier}

ASSUME NoEventAssumption == NoEvent \notin Event

Slots == 0 .. KEY_BUF_SIZE - 1

VARIABLES
    khead, ktail, kbuf, modifiers, extended,
    rpc,           \* where the reader is in keyboard_poll and readln
    tmp,           \* the event copied before ktail was advanced
    slot,          \* the slot still to be copied after ktail was advanced
    evt,           \* readln's e: the last event keyboard_poll returned
    line,          \* readln_buf[0 .. readln_len-1]
    parity         \* keys pressed, modulo 2: history, no step depends on it

vars == <<khead, ktail, kbuf, modifiers, extended, rpc, tmp, slot, evt, line, parity>>
devVars == <<khead, kbuf, modifiers, extended, parity>>

Init ==
    /\ khead = 0
    /\ ktail = 0
    /\ kbuf = [s \in Slots |-> NoEvent]
    /\ modifiers = {}
    /\ extended = FALSE
    /\ rpc = "poll"
    /\ tmp = NoEvent
    /\ slot = 0
    /\ evt = NoEvent
    /\ line = <<>>
    /\ parity = 0

Advance(x) == (x + 1) % KEY_BUF_SIZE

-----------------------------------------------------------------------------
(* The interrupt handler, IRQ1.                                            *)

(* Uses the slot kept free to tell a full ring from an empty one.          *)
kbuf_push_no_spare(e) ==
    /\ kbuf' = [kbuf EXCEPT ![khead] = e]
    /\ khead' = Advance(khead)

kbuf_push(e) ==
    IF Advance(khead) = ktail
    THEN UNCHANGED <<kbuf, khead>>
    ELSE /\ kbuf' = [kbuf EXCEPT ![khead] = e]
         /\ khead' = Advance(khead)

NewModifiers(code, pressed) ==
    LET bit == ModifierBit(code)
    IN  IF code = "CAPS"
        THEN IF ~pressed THEN modifiers
             ELSE IF bit \in modifiers THEN modifiers \ {bit}
             ELSE modifiers \cup {bit}
        ELSE IF pressed THEN modifiers \cup {bit} ELSE modifiers \ {bit}

(* hlt ends with any interrupt.                                            *)
Wake == rpc' = IF rpc = "halted" THEN "poll" ELSE rpc

kb_prefix ==
    /\ extended' = TRUE
    /\ UNCHANGED <<khead, kbuf, modifiers, parity>>

kb_modifier(code, pressed) ==
    /\ extended' = FALSE
    /\ modifiers' = NewModifiers(code, pressed)
    /\ UNCHANGED <<khead, kbuf, parity>>

kb_release ==
    /\ extended' = FALSE
    /\ UNCHANGED <<khead, kbuf, modifiers, parity>>

kb_press(code) ==
    /\ extended' = FALSE
    /\ kbuf_push(KeyEvent(code, modifiers))
    /\ parity' = 1 - parity
    /\ UNCHANGED modifiers

kb_handler ==
    /\ \/ kb_prefix
       \/ \E code \in ModKeys, pressed \in BOOLEAN : kb_modifier(code, pressed)
       \/ kb_release
       \/ \E code \in Keys : kb_press(code)
    /\ Wake
    /\ UNCHANGED <<ktail, tmp, slot, evt, line>>

(* The timer does not end hlt: IRQ0 left masked.                           *)
pit_handler_masked == FALSE /\ UNCHANGED vars

(* IRQ0.  Its tick counter is not used here.                               *)
pit_handler ==
    /\ rpc = "halted"
    /\ Wake
    /\ UNCHANGED <<devVars, ktail, tmp, slot, evt, line>>

-----------------------------------------------------------------------------
(* The reader: keyboard_poll, one memory access at a time ...              *)

PollEmpty ==
    /\ rpc = "poll"
    /\ khead = ktail
    /\ rpc' = "empty"
    /\ UNCHANGED <<devVars, ktail, tmp, slot, evt, line>>

PollNonEmpty ==
    /\ rpc = "poll"
    /\ khead # ktail
    /\ rpc' = "some"
    /\ UNCHANGED <<devVars, ktail, tmp, slot, evt, line>>

(* ... in program order ...                                                *)
CopyEarly ==
    /\ rpc = "some"
    /\ tmp' = kbuf[ktail]
    /\ rpc' = "copied"
    /\ UNCHANGED <<devVars, ktail, slot, evt, line>>

AdvanceLate ==
    /\ rpc = "copied"
    /\ ktail' = Advance(ktail)
    /\ evt' = tmp
    /\ tmp' = NoEvent
    /\ rpc' = "got"
    /\ UNCHANGED <<devVars, slot, line>>

(* ... or with the copy moved after the volatile store.                    *)
AdvanceEarly ==
    /\ rpc = "some"
    /\ slot' = ktail
    /\ ktail' = Advance(ktail)
    /\ rpc' = "advanced"
    /\ UNCHANGED <<devVars, tmp, evt, line>>

CopyLate ==
    /\ rpc = "advanced"
    /\ evt' = kbuf[slot]
    /\ slot' = 0
    /\ rpc' = "got"
    /\ UNCHANGED <<devVars, ktail, tmp, line>>

(* readln found nothing and executes hlt.                                  *)
Hlt ==
    /\ rpc = "empty"
    /\ rpc' = "halted"
    /\ UNCHANGED <<devVars, ktail, tmp, slot, evt, line>>

(* readln handles the event.  After a newline the next call starts with an *)
(* empty buffer; a backspace on an empty line is kept like any character.  *)
ReadKey ==
    /\ rpc = "got"
    /\ rpc' = "poll"
    /\ LET c == evt.ascii
       IN  line' = IF c \in {NL, CR} THEN <<>>
                   ELSE IF c = BS /\ line # <<>>
                        THEN SubSeq(line, 1, Len(line) - 1)
                   ELSE IF c # 0 /\ Len(line) < LINE_MAX THEN Append(line, c)
                   ELSE line
    /\ UNCHANGED <<devVars, ktail, tmp, slot, evt>>

Reader ==
    \/ PollEmpty \/ PollNonEmpty \/ CopyEarly \/ AdvanceLate
    \/ AdvanceEarly \/ CopyLate \/ Hlt \/ ReadKey

Next == kb_handler \/ pit_handler \/ Reader

SafeSpec == Init /\ [][Next]_vars

(* The CPU keeps executing the reader between interrupts, and the timer    *)
(* keeps ticking.  Nothing is assumed about the user's typing.             *)
Spec == SafeSpec /\ WF_vars(Reader) /\ WF_vars(pit_handler)

-----------------------------------------------------------------------------
(* The indices stay inside the ring, events are well formed and readln_buf *)
(* never overflows.                                                        *)
TypeOK ==
    /\ khead \in Slots
    /\ ktail \in Slots
    /\ kbuf \in [Slots -> Event \cup {NoEvent}]
    /\ modifiers \in SUBSET Modifier
    /\ extended \in BOOLEAN
    /\ rpc \in {"poll", "empty", "halted", "some", "copied", "advanced", "got"}
    /\ tmp \in Event \cup {NoEvent}
    /\ slot \in Slots
    /\ evt \in Event \cup {NoEvent}
    /\ line \in Seq(Char) /\ Len(line) <= LINE_MAX
    /\ parity \in 0 .. 1

(* The events in the ring, oldest first.                                   *)
Count == IF khead >= ktail THEN khead - ktail ELSE khead + KEY_BUF_SIZE - ktail
SlotOf(k) == IF ktail + k - 1 < KEY_BUF_SIZE THEN ktail + k - 1
             ELSE ktail + k - 1 - KEY_BUF_SIZE
Contents == [k \in 1 .. Count |-> kbuf[SlotOf(k)]]

(* The event keyboard_poll has been committed to since it advanced ktail.  *)
Delivered == IF rpc = "advanced" THEN kbuf[slot] ELSE evt

Queue == INSTANCE KeyQueue WITH
    Capacity <- KEY_BUF_SIZE - 1, q <- Contents, last <- Delivered

(* The ring is a bounded FIFO queue: whatever interrupts land inside       *)
(* keyboard_poll, and in whichever order the compiler left its copy and    *)
(* its store to ktail, no event is duplicated, reordered or overwritten    *)
(* while it is being copied, and none is dropped while fewer than          *)
(* KEY_BUF_SIZE - 1 others wait.                                           *)
IsFifo == Queue!Spec

(* A key that is in the ring is eventually read, although the interrupt    *)
(* that queued it may come after the poll that found nothing and before    *)
(* the hlt.                                                                *)
EventuallyRead == khead # ktail ~> rpc = "got"

(* Between the steps of keyboard_poll: the ring it found non-empty stays   *)
(* so, an event copied early is still the oldest, and the slot of one to   *)
(* be copied late is the spare slot, which kbuf_push never writes.         *)
CopyCurrent ==
    /\ rpc \in {"some", "copied"} => khead # ktail
    /\ rpc = "copied" => tmp = kbuf[ktail]
    /\ rpc = "advanced" => ktail = Advance(slot)

(* Every slot the reader can reach has been written.                       *)
SlotsWritten ==
    /\ \A k \in 1 .. Count : kbuf[SlotOf(k)] \in Event
    /\ rpc = "copied" => tmp \in Event
    /\ rpc = "advanced" => kbuf[slot] \in Event
    /\ rpc = "got" => evt \in Event

(* The inductive invariant behind IsFifo.                                  *)
Inv ==
    /\ TypeOK
    /\ CopyCurrent
    /\ SlotsWritten
=============================================================================
