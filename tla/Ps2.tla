-------------------------------- MODULE Ps2 --------------------------------
(***************************************************************************)
(* The PS/2 controller that the keyboard and the mouse share, and what     *)
(* keyboard_init (drivers/input/ps2_keyboard.c) and mouse_init             *)
(* (drivers/input/ps2_mouse.c) do to it: both poll its data port, through  *)
(* which replies of the controller, of the keyboard and of the mouse come  *)
(* as well as scan codes.  Once IRQ1 is live, kb_handler reads it too.     *)
(*                                                                         *)
(* The controller and its devices are external.  They answer every command *)
(* in their own time; the controller's own bytes come before those of the  *)
(* keyboard, and these before those of the mouse.  A byte is what it       *)
(* stands for.                                                             *)
(***************************************************************************)
EXTENDS Integers, Sequences

CONSTANT MaxDue            \* key presses the keyboard holds back before it drops them

None == "none"

VARIABLES
    cfg,           \* the configuration: bits 0x01, 0x10 and 0x02
    outk, outa,    \* the byte to be read next from keyboard or controller, from the mouse
    duec, duek, duea,      \* bytes that controller, keyboard and mouse are yet to send
    stolen,        \* history: kb_handler took the reply that mouse_init waits for
    mistaken       \* history: mouse_init took something else for it

devVars == <<outk, outa, duec, duek, duea>>
ps2Vars == <<cfg, devVars, stolen, mistaken>>

ConfigBits == {"kbd_int", "kbd_off", "aux_int"}

(* As the firmware leaves it: a key may have been pressed.                 *)
Ps2Init ==
    /\ cfg \in SUBSET {"kbd_int", "kbd_off"}
    /\ outk \in {None, "key"}
    /\ outa = None
    /\ duec = <<>> /\ duek = <<>> /\ duea = <<>>
    /\ stolen = FALSE /\ mistaken = FALSE

-----------------------------------------------------------------------------
(* What the devices answer.                                                *)
CtlReply(cmd) ==
    CASE cmd = "read_config"   -> <<"config">>
      [] cmd = "self_test"     -> <<"passed">>
      [] cmd = "test_port"     -> <<"zero">>
      [] OTHER                 -> <<>>

KbdReply(data) == IF data = "reset" THEN <<"ack", "done">> ELSE <<"ack">>
MouseReply(data) == IF data = "reset" THEN <<"ack", "done", "id">> ELSE <<"ack">>

CtlSend ==
    /\ outk = None /\ duec # <<>>
    /\ outk' = Head(duec) /\ duec' = Tail(duec)
    /\ UNCHANGED <<outa, duek, duea>>

KbdSend ==
    /\ outk = None /\ duec = <<>> /\ duek # <<>> /\ "kbd_off" \notin cfg
    /\ outk' = Head(duek) /\ duek' = Tail(duek)
    /\ UNCHANGED <<outa, duec, duea>>

MouseSend ==
    /\ outa = None /\ duea # <<>>
    /\ outa' = Head(duea) /\ duea' = Tail(duea)
    /\ UNCHANGED <<outk, duec, duek>>

KeyPress ==
    /\ duek' = IF Len(duek) < MaxDue THEN Append(duek, "key") ELSE duek
    /\ UNCHANGED <<outk, outa, duec, duea>>

-----------------------------------------------------------------------------
(* The driver's side.  The waits for bit 1 of the status port are for the  *)
(* controller to accept a byte, which it is assumed to do.                 *)

ps2_send_cmd(cmd) ==
    /\ cfg' = CASE cmd = "keyboard_off" -> cfg \cup {"kbd_off"}
                [] cmd = "keyboard_on"  -> cfg \ {"kbd_off"}
                [] OTHER                -> cfg
    /\ duec' = duec \o CtlReply(cmd)
    /\ UNCHANGED <<outk, outa, duek, duea>>

ps2_send_data(data) ==
    duek' = duek \o KbdReply(data) /\ UNCHANGED <<outk, outa, duec, duea>>

mouse_write(data) ==
    duea' = duea \o MouseReply(data) /\ UNCHANGED <<outk, outa, duec, duek>>

(* Bit 0 of the status port, and a read of the data port.                  *)
OutputFull == outk # None \/ outa # None
DataByte == IF outk # None THEN outk ELSE outa
TakeByte ==
    /\ IF outk # None THEN outk' = None /\ UNCHANGED outa
                      ELSE outa' = None /\ UNCHANGED outk
    /\ UNCHANGED <<duec, duek, duea>>

(* The configuration that a byte stands for, if it is used as one.         *)
Configs(byte) == IF byte = "config" THEN {cfg} ELSE SUBSET ConfigBits

KeyboardConfig(bits) == (bits \cup {"kbd_int"}) \ {"kbd_off"}

(* Writes a configuration of its own.                                      *)
MouseConfigNew(bits) == {"aux_int"}

MouseConfig(bits) == bits \cup {"aux_int"}

(* IRQ1, and what kb_handler makes of the byte: a reply with its top bit   *)
(* set is the release of a key.                                            *)
KeyIrqLine == outk # None /\ "kbd_int" \in cfg
IsPress(byte) == byte \in {"key", "config", "passed", "zero"}

-----------------------------------------------------------------------------
(* keyboard_init and mouse_init, as the steps they take.                   *)

(* Drains the port before it waits for the keyboard's last answer.         *)
KeyboardSettleFlushFirst == << <<"flush">>, <<"read">> >>

KeyboardSettle == << <<"read">>, <<"flush">> >>

(* Lets IRQ1 through before its handler is in the table.                   *)
KeyboardAttachUnmaskFirst == << <<"unmask", 1>>, <<"register", 1, "kb_handler">> >>

KeyboardAttach == << <<"register", 1, "kb_handler">>, <<"unmask", 1>> >>

KeyboardInit ==
    << <<"cmd", "keyboard_off">>, <<"cmd", "mouse_off">>, <<"flush">>,
       <<"cmd", "read_config">>, <<"keyboard_config">>,
       <<"cmd", "self_test">>, <<"read">>, <<"cmd", "test_port">>, <<"read">>,
       <<"cmd", "keyboard_on">>, <<"keyboard", "reset">>, <<"read">>,
       <<"keyboard", "set_codes">>, <<"keyboard", "set_1">> >>
    \o KeyboardSettle \o KeyboardAttach

MouseInit == <<
    <<"cmd", "mouse_on">>, <<"cmd", "read_config">>, <<"mouse_config">>,
    <<"mouse", "reset">>, <<"read">>, <<"mouse", "defaults">>, <<"read">>,
    <<"mouse", "report">>, <<"read">>,
    <<"register", 12, "mouse_handler">>, <<"unmask", 12>> >>
=============================================================================
