----------------------------- MODULE MCKeyboard -----------------------------
(* A ring of 3 slots; a letter, Backspace and Enter.       *)
EXTENDS Keyboard, TLC

MCAscii == ("A" :> 97) @@ ("BKSP" :> 8) @@ ("ENTER" :> 10)
MCShift == ("A" :> 65) @@ ("BKSP" :> 8) @@ ("ENTER" :> 10)
=============================================================================
