--------------------------- MODULE KeyboardProofs ---------------------------
(* For every ring size, set of keys and interleaving: the keyboard ring    *)
(* implements the bounded FIFO queue KeyQueue.                             *)
EXTENDS Keyboard, SequenceTheorems, TLAPS

USE DEF Slots

(* Index arithmetic of the ring.                                           *)

(* Advancing an index of the ring without the remainder.                   *)
LEMMA AdvanceIs ==
  ASSUME NEW x \in Slots
  PROVE  Advance(x) = IF x = KEY_BUF_SIZE - 1 THEN 0 ELSE x + 1
  BY KeyboardAssumption DEF Advance

(* An advanced index is an index.                                          *)
LEMMA AdvanceType ==
  ASSUME NEW x \in Slots
  PROVE  Advance(x) \in Slots
  BY AdvanceIs, KeyboardAssumption

(* Two indices that advance to the same one are equal.                     *)
LEMMA AdvanceInjective ==
  ASSUME NEW x \in Slots, NEW y \in Slots, Advance(x) = Advance(y)
  PROVE  x = y
  BY AdvanceIs, KeyboardAssumption

(* The number of events in the ring, and which slots hold them.            *)
LEMMA CountType ==
  ASSUME khead \in Slots, ktail \in Slots
  PROVE  /\ Count \in 0 .. KEY_BUF_SIZE - 1
         /\ Count = 0 <=> khead = ktail
         /\ Count = KEY_BUF_SIZE - 1 <=> Advance(khead) = ktail
         /\ \A k \in 1 .. Count : SlotOf(k) \in Slots /\ SlotOf(k) # khead
         /\ Count < KEY_BUF_SIZE - 1 => SlotOf(Count + 1) = khead
         /\ SlotOf(1) = ktail
  BY AdvanceIs, KeyboardAssumption DEF Count, SlotOf

-----------------------------------------------------------------------------
(* Events are well formed.                                                 *)

(* The table lookups and the Caps Lock conversions give a character.       *)
LEMMA TranslateType ==
  ASSUME NEW code \in Keys, NEW mods
  PROVE  Translate(code, mods) \in Char
  <1>1. sc_shift[code] \in Char /\ sc_ascii[code] \in Char
      BY KeyboardAssumption
  <1> DEFINE c0 == IF "KEY_MOD_SHIFT" \in mods THEN sc_shift[code] ELSE sc_ascii[code]
             c1 == IF "KEY_MOD_CAPS" \in mods /\ c0 \in 97 .. 122 THEN c0 - 32 ELSE c0
  <1>2. c0 \in Char
      BY <1>1
  <1>3. c1 \in Char
      BY <1>2 DEF Char
  <1>4. Translate(code, mods)
          = IF "KEY_MOD_CAPS" \in mods /\ c1 \in 65 .. 90 THEN c1 + 32 ELSE c1
      BY DEF Translate
  <1> HIDE DEF c1
  <1> QED
      BY <1>3, <1>4 DEF Char

(* What kb_handler builds for a key press is an event.                     *)
LEMMA EventType ==
  ASSUME NEW code \in Keys, NEW mods \in SUBSET Modifier
  PROVE  KeyEvent(code, mods) \in Event
  BY DEF Event

(* The character of an event is one.                                       *)
LEMMA EventAscii == ASSUME NEW e \in Event PROVE e.ascii \in Char
  BY TranslateType DEF Event, KeyEvent

(* A modifier key leaves a set of modifiers.                               *)
LEMMA ModifiersType ==
  ASSUME modifiers \in SUBSET Modifier, NEW code \in ModKeys, NEW pressed
  PROVE  NewModifiers(code, pressed) \in SUBSET Modifier
  BY DEF NewModifiers, Modifier

-----------------------------------------------------------------------------
(* What the two sides do to the ring.                                      *)

(* kbuf_push fills the slot after the last event, or the ring is full.     *)
LEMMA PushRing ==
  ASSUME Inv, NEW e \in Event, kbuf_push(e), UNCHANGED ktail
  PROVE  /\ khead' \in Slots
         /\ kbuf' \in [Slots -> Event \cup {NoEvent}]
         /\ \/ Count = KEY_BUF_SIZE - 1 /\ UNCHANGED <<kbuf, khead>>
            \/ /\ Count < KEY_BUF_SIZE - 1
               /\ Count' = Count + 1
               /\ \A k \in 1 .. Count : kbuf'[SlotOf(k)'] = kbuf[SlotOf(k)]
               /\ kbuf'[SlotOf(Count)'] = e
               /\ \A s \in Slots : s # khead => kbuf'[s] = kbuf[s]
  <1>1. khead \in Slots /\ ktail \in Slots /\ kbuf \in [Slots -> Event \cup {NoEvent}]
      BY DEF Inv, TypeOK
  <1>2. CASE Advance(khead) = ktail
      BY <1>1, <1>2, CountType DEF kbuf_push
  <1>3. CASE Advance(khead) # ktail
    <2>1. khead' = Advance(khead) /\ kbuf' = [kbuf EXCEPT ![khead] = e]
        BY <1>3 DEF kbuf_push
    <2>2. khead' \in Slots /\ kbuf' \in [Slots -> Event \cup {NoEvent}]
        BY <1>1, <2>1, AdvanceType
    <2>3. Count < KEY_BUF_SIZE - 1
        BY <1>1, <1>3, CountType, KeyboardAssumption
    <2>4. Count' = Count + 1
        BY <1>1, <1>3, <2>1, AdvanceIs, KeyboardAssumption DEF Count
    <2>5. \A k \in Nat : SlotOf(k)' = SlotOf(k)
        BY DEF SlotOf
    <2>6. \A k \in 1 .. Count : kbuf'[SlotOf(k)'] = kbuf[SlotOf(k)]
        BY <1>1, <2>1, <2>5, CountType
    <2>7. kbuf'[SlotOf(Count)'] = e
      <3>1. Count + 1 \in Nat /\ SlotOf(Count + 1) = khead
          BY <1>1, <2>3, CountType, KeyboardAssumption
      <3>2. SlotOf(Count)' = SlotOf(Count + 1)
          BY <2>4, <3>1 DEF SlotOf
      <3> QED
          BY <1>1, <2>1, <3>1, <3>2
    <2> QED
        BY <1>1, <2>1, <2>2, <2>3, <2>4, <2>6, <2>7
  <1> QED
      BY <1>2, <1>3

(* Advancing ktail drops the oldest event and keeps the others.            *)
LEMMA PopRing ==
  ASSUME Inv, khead # ktail, ktail' = Advance(ktail), UNCHANGED <<khead, kbuf>>
  PROVE  /\ ktail' \in Slots
         /\ Count > 0
         /\ Count' = Count - 1
         /\ \A k \in 1 .. Count' : SlotOf(k)' = SlotOf(k + 1)
  <1>1. khead \in Slots /\ ktail \in Slots
      BY DEF Inv, TypeOK
  <1>2. ktail' \in Slots
      BY <1>1, AdvanceType
  <1>3. Count > 0 /\ Count' = Count - 1
      BY <1>1, AdvanceIs, KeyboardAssumption DEF Count
  <1>4. \A k \in 1 .. Count' : SlotOf(k)' = SlotOf(k + 1)
      BY <1>1, <1>3, CountType, AdvanceIs, KeyboardAssumption DEF SlotOf
  <1> QED
      BY <1>2, <1>3, <1>4

-----------------------------------------------------------------------------
(* The inductive invariant.                                                *)

(* The empty ring satisfies the invariant.                                 *)
LEMMA InvInit == Init => Inv
  <1> SUFFICES ASSUME Init PROVE Inv
      OBVIOUS
  <1> USE KeyboardAssumption
  <1>1. extended \in BOOLEAN
      BY DEF Init
  <1>2. line \in Seq(Char) /\ Len(line) <= LINE_MAX
      BY DEF Init
  <1>3. TypeOK
      BY <1>1, <1>2 DEF Init, TypeOK
  <1>4. CopyCurrent
      BY DEF Init, CopyCurrent
  <1>5. Count = 0
      BY DEF Init, Count
  <1>6. SlotsWritten
      BY <1>5 DEF Init, SlotsWritten
  <1> QED
      BY <1>3, <1>4, <1>6 DEF Inv

(* IRQ1 preserves the invariant wherever the reader is.                    *)
LEMMA InvHandler == Inv /\ kb_handler => Inv'
  <1> SUFFICES ASSUME Inv, kb_handler PROVE Inv'
      OBVIOUS
  <1>1. /\ UNCHANGED <<ktail, tmp, slot, evt, line>>
        /\ rpc' \in {"poll", "empty", "halted", "some", "copied", "advanced", "got"}
        /\ rpc' # "poll" => rpc' = rpc
      BY DEF kb_handler, Wake, Inv, TypeOK
  <1>2. extended' \in BOOLEAN /\ modifiers' \in SUBSET Modifier /\ parity' \in 0 .. 1
    <2>1. extended' \in BOOLEAN
        BY DEF kb_handler, kb_prefix, kb_modifier, kb_release, kb_press
    <2>2. modifiers' \in SUBSET Modifier
        BY ModifiersType DEF Inv, TypeOK,
              kb_handler, kb_prefix, kb_modifier, kb_release, kb_press
    <2>3. parity' \in 0 .. 1
        BY DEF Inv, TypeOK,
              kb_handler, kb_prefix, kb_modifier, kb_release, kb_press
    <2> QED
        BY <2>1, <2>2, <2>3
  <1>3. CASE UNCHANGED <<khead, kbuf>>
    <2>1. Count' = Count /\ \A k \in 1 .. Count : SlotOf(k)' = SlotOf(k)
        BY <1>1, <1>3 DEF Count, SlotOf
    <2>2. TypeOK'
        BY <1>1, <1>2, <1>3 DEF Inv, TypeOK
    <2>3. CopyCurrent'
        BY <1>1, <1>3 DEF Inv, CopyCurrent, Advance
    <2>4. SlotsWritten'
        BY <1>1, <1>3, <2>1 DEF Inv, SlotsWritten
    <2> QED
        BY <2>2, <2>3, <2>4 DEF Inv
  <1>4. ASSUME NEW code \in Keys, kb_press(code), ~ UNCHANGED <<khead, kbuf>>
        PROVE  Inv'
    <2> DEFINE e == KeyEvent(code, modifiers)
    <2>1. e \in Event
      <3>1. modifiers \in SUBSET Modifier
          BY DEF Inv, TypeOK
      <3> QED
          BY <3>1, EventType
    <2>2. kbuf_push(e)
        BY <1>4 DEF kb_press
    <2> HIDE DEF e
    <2>3. /\ khead' \in Slots
          /\ kbuf' \in [Slots -> Event \cup {NoEvent}]
          /\ Count < KEY_BUF_SIZE - 1
          /\ Count' = Count + 1
          /\ \A k \in 1 .. Count : kbuf'[SlotOf(k)'] = kbuf[SlotOf(k)]
          /\ kbuf'[SlotOf(Count)'] = e
          /\ \A s \in Slots : s # khead => kbuf'[s] = kbuf[s]
        BY <1>1, <1>4, <2>1, <2>2, PushRing
    <2>4. Advance(khead) # ktail /\ khead' = Advance(khead)
        BY <1>4, <2>2 DEF kbuf_push
    <2>5. khead \in Slots /\ ktail \in Slots /\ slot \in Slots
        BY DEF Inv, TypeOK
    <2>6. TypeOK'
        BY <1>1, <1>2, <2>3 DEF Inv, TypeOK
    <2>7. rpc = "advanced" => slot # khead
        BY <2>4 DEF Inv, CopyCurrent
    <2>8. rpc = "copied" => ktail # khead
        BY DEF Inv, CopyCurrent
    <2>9. CopyCurrent'
        BY <1>1, <2>3, <2>4, <2>5, <2>8 DEF Inv, CopyCurrent, Advance
    <2>10. \A k \in 1 .. Count' : kbuf'[SlotOf(k)'] \in Event
      <3>1. Count \in Nat
          BY <2>5, CountType, KeyboardAssumption
      <3>2. ASSUME NEW k \in 1 .. Count' PROVE kbuf'[SlotOf(k)'] \in Event
        <4>1. CASE k \in 1 .. Count
            BY <4>1, <2>3 DEF Inv, SlotsWritten
        <4>2. CASE k = Count'
            BY <4>2, <2>1, <2>3
        <4> QED
            BY <2>3, <3>1, <4>1, <4>2
      <3> QED
          BY <3>2
    <2>11. SlotsWritten'
        BY <1>1, <2>3, <2>5, <2>7, <2>10 DEF Inv, SlotsWritten
    <2> QED
        BY <2>6, <2>9, <2>11 DEF Inv
  <1> QED
      BY <1>3, <1>4 DEF kb_handler, kb_prefix, kb_modifier, kb_release

(* A step that advances ktail preserves the invariant.                     *)
LEMMA InvPop ==
  ASSUME Inv, khead # ktail, ktail' = Advance(ktail), UNCHANGED <<devVars, line>>,
         tmp' \in Event \cup {NoEvent}, slot' \in Slots, evt' \in Event \cup {NoEvent},
         \/ rpc' = "got" /\ evt' = kbuf[ktail]
         \/ rpc' = "advanced" /\ slot' = ktail
  PROVE  Inv'
  <1>1. khead \in Slots /\ ktail \in Slots
      BY DEF Inv, TypeOK
  <1>2. /\ ktail' \in Slots
        /\ Count > 0
        /\ Count' = Count - 1
        /\ \A k \in 1 .. Count' : SlotOf(k)' = SlotOf(k + 1)
      BY PopRing DEF devVars
  <1>3. Count \in Nat /\ SlotOf(1) = ktail
      BY <1>1, CountType, KeyboardAssumption
  <1>4. TypeOK'
      BY <1>2 DEF Inv, TypeOK, devVars
  <1>5. CopyCurrent'
      BY DEF CopyCurrent, Advance
  <1>6. \A k \in 1 .. Count' : kbuf'[SlotOf(k)'] \in Event
      BY <1>2, <1>3 DEF Inv, SlotsWritten, devVars
  <1>7. kbuf[ktail] \in Event
      BY <1>2, <1>3 DEF Inv, SlotsWritten
  <1>8. SlotsWritten'
      BY <1>6, <1>7 DEF SlotsWritten, devVars
  <1> QED
      BY <1>4, <1>5, <1>8 DEF Inv

(* Steps that leave the ring as it is.                                     *)
LEMMA InvStay ==
  ASSUME Inv, UNCHANGED <<devVars, ktail, slot>>,
         rpc' \in {"poll", "empty", "halted", "some", "copied", "got"},
         rpc' = "some" => khead # ktail,
         rpc' = "copied" => khead # ktail /\ tmp' = kbuf[ktail],
         rpc' = "got" => evt' \in Event,
         tmp' \in Event \cup {NoEvent}, evt' \in Event \cup {NoEvent},
         line' \in Seq(Char), Len(line') <= LINE_MAX
  PROVE  Inv'
  <1>1. khead \in Slots /\ ktail \in Slots
      BY DEF Inv, TypeOK
  <1>2. Count' = Count /\ \A k \in 1 .. Count : SlotOf(k)' = SlotOf(k)
      BY DEF Count, SlotOf, devVars
  <1>3. khead # ktail => kbuf[ktail] \in Event
    <2>1. Count \in Nat /\ SlotOf(1) = ktail /\ (khead # ktail => Count # 0)
        BY <1>1, CountType, KeyboardAssumption
    <2> QED
        BY <2>1 DEF Inv, SlotsWritten
  <1>4. TypeOK'
      BY DEF Inv, TypeOK, devVars
  <1>5. CopyCurrent'
      BY DEF CopyCurrent, devVars
  <1>6. SlotsWritten'
      BY <1>2, <1>3 DEF Inv, SlotsWritten, devVars
  <1> QED
      BY <1>4, <1>5, <1>6 DEF Inv

(* So does readln when it handles the event.                               *)
LEMMA InvReadKey == Inv /\ ReadKey => Inv'
  <1> SUFFICES ASSUME Inv, ReadKey PROVE Inv'
      OBVIOUS
  <1>1. evt.ascii \in Char
      BY EventAscii DEF Inv, SlotsWritten, ReadKey
  <1>2. line \in Seq(Char) /\ Len(line) <= LINE_MAX /\ LINE_MAX \in Nat
      BY KeyboardAssumption DEF Inv, TypeOK
  <1>3. CASE line' = <<>>
      BY <1>2, <1>3, InvStay DEF ReadKey, Inv, TypeOK
  <1>4. CASE line # <<>> /\ line' = SubSeq(line, 1, Len(line) - 1)
    <2>1. Len(line) \in Nat \ {0}
        BY <1>2, <1>4, EmptySeq
    <2>2. \A k \in 1 .. Len(line) - 1 : line[k] \in Char
        BY <1>2, <2>1
    <2>3. line' \in Seq(Char) /\ Len(line') = Len(line) - 1
      <3> DEFINE m == Len(line) - 1
      <3>1. 1 \in Int /\ m \in Int /\ m >= 0
          BY <2>1
      <3>2. line' = SubSeq(line, 1, m) /\ \A k \in 1 .. m : line[k] \in Char
          BY <1>4, <2>2
      <3> HIDE DEF m
      <3>3. line' \in Seq(Char) /\ Len(line') = IF 1 <= m THEN m - 1 + 1 ELSE 0
          BY <3>1, <3>2, SubSeqProperties
      <3>4. Len(line') = m
          BY <3>1, <3>3
      <3> QED
          BY <3>3, <3>4 DEF m
    <2> QED
        BY <1>2, <2>1, <2>3, InvStay DEF ReadKey, Inv, TypeOK
  <1>5. CASE Len(line) < LINE_MAX /\ line' = Append(line, evt.ascii)
    <2>1. line' \in Seq(Char) /\ Len(line') = Len(line) + 1
        BY <1>1, <1>2, <1>5
    <2> QED
        BY <1>2, <1>5, <2>1, InvStay DEF ReadKey, Inv, TypeOK
  <1>6. CASE line' = line
      BY <1>2, <1>6, InvStay DEF ReadKey, Inv, TypeOK
  <1> QED
      BY <1>3, <1>4, <1>5, <1>6 DEF ReadKey

(* Every step preserves the invariant.                                     *)
LEMMA InvNext == Inv /\ [Next]_vars => Inv'
  <1> SUFFICES ASSUME Inv, [Next]_vars PROVE Inv'
      OBVIOUS
  <1>0. /\ tmp \in Event \cup {NoEvent} /\ evt \in Event \cup {NoEvent}
        /\ line \in Seq(Char) /\ Len(line) <= LINE_MAX
        /\ khead \in Slots /\ ktail \in Slots /\ slot \in Slots /\ 0 \in Slots
        /\ kbuf \in [Slots -> Event \cup {NoEvent}]
      BY KeyboardAssumption DEF Inv, TypeOK
  <1>1. CASE kb_handler
      BY <1>1, InvHandler
  <1>2. CASE pit_handler
      BY <1>0, <1>2, InvStay DEF pit_handler, Wake
  <1>3. CASE PollEmpty
      BY <1>0, <1>3, InvStay DEF PollEmpty
  <1>4. CASE PollNonEmpty
      BY <1>0, <1>4, InvStay DEF PollNonEmpty
  <1>5. CASE CopyEarly
    <2>1. khead # ktail
        BY <1>5 DEF Inv, CopyCurrent, CopyEarly
    <2>2. tmp' \in Event \cup {NoEvent}
        BY <1>0, <1>5 DEF CopyEarly
    <2> QED
        BY <1>0, <1>5, <2>1, <2>2, InvStay DEF CopyEarly
  <1>6. CASE AdvanceLate
    <2>1. khead # ktail /\ tmp = kbuf[ktail]
        BY <1>6 DEF Inv, CopyCurrent, AdvanceLate
    <2> QED
        BY <1>0, <1>6, <2>1, InvPop DEF AdvanceLate
  <1>7. CASE AdvanceEarly
    <2>1. khead # ktail
        BY <1>7 DEF Inv, CopyCurrent, AdvanceEarly
    <2> QED
        BY <1>0, <1>7, <2>1, InvPop DEF AdvanceEarly
  <1>8. CASE CopyLate
    <2>1. kbuf[slot] \in Event
        BY <1>8 DEF Inv, SlotsWritten, CopyLate
    <2>2. Count' = Count /\ \A k \in 1 .. Count : SlotOf(k)' = SlotOf(k)
        BY <1>8 DEF Count, SlotOf, CopyLate, devVars
    <2>3. TypeOK'
        BY <1>0, <1>8, <2>1 DEF Inv, TypeOK, CopyLate, devVars
    <2>4. CopyCurrent'
        BY <1>8 DEF CopyCurrent, CopyLate
    <2>5. SlotsWritten'
        BY <1>8, <2>1, <2>2 DEF Inv, SlotsWritten, CopyLate, devVars
    <2> QED
        BY <2>3, <2>4, <2>5 DEF Inv
  <1>9. CASE Hlt
      BY <1>0, <1>9, InvStay DEF Hlt
  <1>10. CASE ReadKey
      BY <1>10, InvReadKey
  <1>11. CASE UNCHANGED vars
    <2>1. Count' = Count /\ \A k \in 1 .. Count : SlotOf(k)' = SlotOf(k)
        BY <1>11 DEF Count, SlotOf, vars
    <2> QED
        BY <1>11, <2>1 DEF vars, Inv, TypeOK, CopyCurrent, SlotsWritten, Advance
  <1> QED
      BY <1>1, <1>2, <1>3, <1>4, <1>5, <1>6, <1>7, <1>8, <1>9, <1>10, <1>11
      DEF Next, Reader

(* The invariant holds for every ring size: the indices stay in range,     *)
(* keyboard_poll never reads a slot that was not written, and no interrupt *)
(* reuses the slot of the event that keyboard_poll is copying.             *)
THEOREM KeyboardInvariant == SafeSpec => []Inv
  BY InvInit, InvNext, PTL DEF SafeSpec

-----------------------------------------------------------------------------
(* Refinement.                                                             *)

(* The ring read from ktail is a sequence of Count events.                 *)
LEMMA ContentsSeq == Inv => Contents \in Seq(Event) /\ Len(Contents) = Count
  <1> SUFFICES ASSUME Inv PROVE Contents \in Seq(Event) /\ Len(Contents) = Count
      OBVIOUS
  <1>1. Count \in Nat
      BY CountType, KeyboardAssumption DEF Inv, TypeOK
  <1>2. Contents \in [1 .. Count -> Event]
      BY DEF Contents, Inv, SlotsWritten
  <1> QED
      BY <1>1, <1>2

(* The same after a step.                                                  *)
LEMMA ContentsSeqNext == Inv' => (Contents \in Seq(Event) /\ Len(Contents) = Count)'
  BY ContentsSeq, PTL

(* The empty ring is the empty queue.                                      *)
LEMMA RefineInit == Init => Queue!Init
  <1> SUFFICES ASSUME Init PROVE Queue!Init
      OBVIOUS
  <1>1. Count = 0
      BY KeyboardAssumption DEF Init, Count
  <1>2. Contents = <<>>
      BY <1>1 DEF Contents
  <1>3. Delivered = NoEvent
      BY DEF Init, Delivered
  <1> QED
      BY <1>2, <1>3 DEF Init, Queue!Init

(* An event pushed into a ring that is not full is appended; only into a   *)
(* full one is it dropped.                                                 *)
LEMMA RefinePush ==
  ASSUME Inv, Inv', NEW e \in Event, kbuf_push(e),
         parity' = 1 - parity, UNCHANGED <<ktail, slot, evt>>,
         rpc' = rpc \/ (rpc = "halted" /\ rpc' = "poll")
  PROVE  Queue!Put(e)
  <1>1. Delivered' = Delivered
    <2>1. khead \in Slots /\ slot \in Slots /\ kbuf \in [Slots -> Event \cup {NoEvent}]
        BY DEF Inv, TypeOK
    <2>2. rpc = "advanced" => kbuf'[slot] = kbuf[slot]
        BY <2>1 DEF kbuf_push, Inv, CopyCurrent
    <2> QED
        BY <2>2 DEF Delivered
  <1>2. CASE Count = KEY_BUF_SIZE - 1 /\ UNCHANGED <<kbuf, khead>>
    <2>1. Contents' = Contents
        BY <1>2 DEF Contents, Count, SlotOf
    <2>2. ~ (Len(Contents) < KEY_BUF_SIZE - 1)
        BY <1>2, ContentsSeq, KeyboardAssumption
    <2> QED
        BY <1>1, <2>1, <2>2 DEF Queue!Put
  <1>3. CASE /\ Count < KEY_BUF_SIZE - 1
             /\ Count' = Count + 1
             /\ \A k \in 1 .. Count : kbuf'[SlotOf(k)'] = kbuf[SlotOf(k)]
             /\ kbuf'[SlotOf(Count)'] = e
    <2>1. /\ Contents \in Seq(Event) /\ Len(Contents) = Count
          /\ Contents' \in Seq(Event) /\ Len(Contents') = Count'
        BY ContentsSeq, ContentsSeqNext
    <2>2. Count \in Nat
        BY <2>1
    <2>3. /\ Append(Contents, e) \in Seq(Event)
          /\ Len(Append(Contents, e)) = Count + 1
          /\ \A k \in 1 .. Count : Append(Contents, e)[k] = Contents[k]
          /\ Append(Contents, e)[Count + 1] = e
        BY <2>1, AppendProperties
    <2>4. \A k \in 1 .. Count + 1 : Contents'[k] = Append(Contents, e)[k]
      <3>1. ASSUME NEW k \in 1 .. Count + 1
            PROVE  Contents'[k] = Append(Contents, e)[k]
        <4>1. Contents'[k] = kbuf'[SlotOf(k)']
            BY <1>3 DEF Contents
        <4>2. CASE k \in 1 .. Count
          <5>1. Contents[k] = kbuf[SlotOf(k)]
              BY <4>2 DEF Contents
          <5> QED
              BY <1>3, <2>3, <4>1, <4>2, <5>1
        <4>3. CASE k = Count + 1
          <5>1. SlotOf(k)' = SlotOf(Count)'
              BY <1>3, <4>3 DEF SlotOf
          <5> QED
              BY <1>3, <2>3, <4>1, <4>3, <5>1
        <4>4. k \in 1 .. Count \/ k = Count + 1
            BY <2>2
        <4> QED
            BY <4>2, <4>3, <4>4
      <3> QED
          BY <3>1
    <2>5. Contents' = Append(Contents, e)
        BY <1>3, <2>1, <2>3, <2>4, SeqEqual
    <2> QED
        BY <1>1, <1>3, <2>1, <2>5 DEF Queue!Put
  <1> QED
      BY <1>2, <1>3, PushRing

(* Advancing ktail removes the oldest event and commits to delivering it.  *)
LEMMA RefinePop ==
  ASSUME Inv, Inv', khead # ktail, ktail' = Advance(ktail), UNCHANGED devVars,
         Delivered' = kbuf[ktail]
  PROVE  Queue!Get
  <1>1. /\ Contents \in Seq(Event) /\ Len(Contents) = Count
        /\ Contents' \in Seq(Event) /\ Len(Contents') = Count'
      BY ContentsSeq, ContentsSeqNext
  <1>2. /\ Count > 0
        /\ Count' = Count - 1
        /\ \A k \in 1 .. Count' : SlotOf(k)' = SlotOf(k + 1)
      BY PopRing DEF devVars
  <1>3. Count \in Nat /\ SlotOf(1) = ktail
      BY CountType, KeyboardAssumption DEF Inv, TypeOK
  <1>4. Contents # <<>> /\ Head(Contents) = Contents[1]
      BY <1>1, <1>2, EmptySeq
  <1>5. Contents[1] = kbuf[ktail]
      BY <1>2, <1>3 DEF Contents
  <1>6. /\ Tail(Contents) \in Seq(Event)
        /\ Len(Tail(Contents)) = Count - 1
        /\ \A k \in 1 .. Count - 1 : Tail(Contents)[k] = Contents[k + 1]
      BY <1>1, <1>4, HeadTailProperties
  <1>7. \A k \in 1 .. Count' : Contents'[k] = Tail(Contents)[k]
    <2>1. ASSUME NEW k \in 1 .. Count'
          PROVE  Contents'[k] = Tail(Contents)[k]
      <3>1. Contents'[k] = kbuf'[SlotOf(k)']
          BY DEF Contents
      <3>2. k + 1 \in 1 .. Count
          BY <1>2, <1>3
      <3>3. Contents[k + 1] = kbuf[SlotOf(k + 1)]
          BY <3>2 DEF Contents
      <3> QED
          BY <1>2, <1>6, <3>1, <3>3 DEF devVars
    <2> QED
        BY <2>1
  <1>8. Contents' = Tail(Contents)
      BY <1>1, <1>2, <1>6, <1>7, SeqEqual
  <1> QED
      BY <1>4, <1>5, <1>8 DEF Queue!Get, devVars

(* A step that leaves the ring alone is a stutter of the queue.            *)
LEMMA RefineStay ==
  ASSUME UNCHANGED <<khead, kbuf, ktail, parity>>, Delivered' = Delivered
  PROVE  UNCHANGED <<Contents, Delivered, parity>>
  BY DEF Contents, Count, SlotOf

(* Every step is a step of the queue or a stutter.                         *)
LEMMA RefineNext ==
  Inv /\ Inv' /\ [Next]_vars => [Queue!Next]_<<Contents, Delivered, parity>>
  <1> SUFFICES ASSUME Inv, Inv', [Next]_vars
               PROVE  [Queue!Next]_<<Contents, Delivered, parity>>
      OBVIOUS
  <1>1. CASE kb_handler
    <2>1. UNCHANGED <<ktail, slot, evt>> /\ (rpc' = rpc \/ (rpc = "halted" /\ rpc' = "poll"))
        BY <1>1 DEF kb_handler, Wake
    <2>2. CASE UNCHANGED <<khead, kbuf, parity>>
        BY <2>1, <2>2, RefineStay DEF Delivered
    <2>3. ASSUME NEW code \in Keys, kb_press(code)
          PROVE  [Queue!Next]_<<Contents, Delivered, parity>>
      <3>1. KeyEvent(code, modifiers) \in Event
          BY EventType DEF Inv, TypeOK
      <3> QED
          BY <2>1, <2>3, <3>1, RefinePush DEF kb_press, Queue!Next
    <2> QED
        BY <1>1, <2>2, <2>3 DEF kb_handler, kb_prefix, kb_modifier, kb_release
  <1>2. CASE AdvanceLate
    <2>1. khead # ktail /\ Delivered' = kbuf[ktail]
        BY <1>2 DEF AdvanceLate, Inv, CopyCurrent, Delivered
    <2> QED
        BY <1>2, <2>1, RefinePop DEF AdvanceLate, Queue!Next
  <1>3. CASE AdvanceEarly
    <2>1. khead # ktail /\ Delivered' = kbuf[ktail]
        BY <1>3 DEF AdvanceEarly, Inv, CopyCurrent, Delivered, devVars
    <2> QED
        BY <1>3, <2>1, RefinePop DEF AdvanceEarly, Queue!Next
  <1>4. CASE pit_handler \/ PollEmpty \/ PollNonEmpty \/ CopyEarly \/ Hlt \/ ReadKey
    <2>1. /\ UNCHANGED <<khead, kbuf, ktail, evt, parity>>
          /\ rpc # "advanced" /\ rpc' # "advanced"
        BY <1>4 DEF pit_handler, Wake, PollEmpty, PollNonEmpty, CopyEarly, Hlt,
                    ReadKey, devVars
    <2> QED
        BY <2>1, RefineStay DEF Delivered
  <1>5. CASE CopyLate
      BY <1>5, RefineStay DEF CopyLate, Delivered, devVars
  <1>6. CASE UNCHANGED vars
      BY <1>6, RefineStay DEF vars, Delivered
  <1> QED
      BY <1>1, <1>2, <1>3, <1>4, <1>5, <1>6 DEF Next, Reader

(* keyboard_poll and the interrupt handler implement a bounded FIFO queue, *)
(* for every ring size and every interleaving, with keyboard_poll's copy   *)
(* on either side of its store to ktail.                                   *)
THEOREM KeyboardFifo == SafeSpec => IsFifo
  BY KeyboardInvariant, RefineInit, RefineNext, PTL
  DEF SafeSpec, IsFifo, Queue!Spec
=============================================================================
