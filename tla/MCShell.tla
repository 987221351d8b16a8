------------------------------ MODULE MCShell ------------------------------
(* Shell with a screen of 3 rows and a window of 3, and lines of up to 6   *)
(* characters.                                                             *)
EXTENDS Shell, MCVfs, TLC

B == Blank

(* Each command, with arguments and without; slips that are corrected; a   *)
(* backspace on an empty line; a line that wraps and one that fills the    *)
(* buffer.                                                                 *)
MCTypings == {keys \o <<"LF">> : keys \in {
    <<"ls">>, <<"ls", B, "/e">>, <<B, "cat", B, B, "/v">>, <<"cat">>, <<"ls", B, "x">>,
    <<"clear">>, <<"help">>, <<"reboot">>, <<>>, <<"echo", B, "a", B, "b", "c", "a">>,
    <<"cat", "BS", "ls">>, <<"BS", "BS", "ls">>, <<"BS", "ls">>,
    <<"a", "a", "a", "a", "a", "BS", "BS", "BS", "b">>, <<"HT", "ls">>}}
MCPathOf == (<<"/v">> :> P(<<"version">>)) @@ (<<"/e">> :> P(<<"etc">>))
MCInfo == {<<"help">>}
=============================================================================
