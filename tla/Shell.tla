------------------------------- MODULE Shell -------------------------------
(***************************************************************************)
(* The shell thread, userspace/shell/shell.c: it prompts, reads a line     *)
(* from the keyboard, splits it and runs the command, over the file system *)
(* of module Vfs and the two consoles of module Console, between which     *)
(* kmain has chosen.  kmain starts it when setup is over; calls of         *)
(* vfs_write, which nothing makes yet, are explored without it.            *)
(***************************************************************************)
EXTENDS Vfs, Console

CONSTANTS
    CMD_BUF, MAX_ARGS,     \* 256 and 16
    Typings,               \* what may be typed at a prompt: key by key, with Enter at the end
    InfoCommands,          \* help, ps, mem, uptime, ifconfig and netpoll
    PathOf,                \* the paths that words of the command line stand for
    MaxLines               \* bound on the lines typed

Enter == {"LF", "CR"}
Keys == UNION {{keys[k] : k \in DOMAIN keys} : keys \in Typings}

ASSUME ShellAssumption ==
    /\ {CMD_BUF, MAX_ARGS, MaxLines} \subseteq Nat \ {0}
    /\ \A keys \in Typings : keys \in Seq(Keys) /\ keys # <<>> /\ keys[Len(keys)] \in Enter
    /\ \A w \in DOMAIN PathOf : PathOf[w] \in PathType

VARIABLES
    spc,           \* where the shell is: "off", "start", "prompt", "read",
                   \* "dispatch", "command" or "halted"
    use_fb,        \* kmain's choice
    vga, win,      \* the screen and the terminal window
    paper,         \* history: what a printer would have put on paper
    todo,          \* keys that will be typed at this prompt
    buf,           \* buf[0 .. buf_len - 1]
    start,         \* history: the column at which the line starts; -1 once a control
                   \* character is in it or it has reached the next row
    lines          \* lines read so far

conVars == <<vga, win, paper>>
shellVars == <<spc, use_fb, conVars, todo, buf, start, lines>>
svars == <<vars, shellVars>>

(* What kmain and setup print before the shell starts is left out.         *)
SInit ==
    /\ Init
    /\ spc = "off"
    /\ use_fb \in BOOLEAN
    /\ vga = vga_clear /\ win = TermWin /\ paper = NoPaper
    /\ todo = <<>> /\ buf = <<>> /\ start = 0
    /\ lines = 0

-----------------------------------------------------------------------------
PutVga(text) ==
    /\ vga' = vga_puts(vga, text)
    /\ paper' = paper_puts(paper, text)
    /\ UNCHANGED win

(* kprintf's backend: kprint_fb or kprint_vga.                             *)
kprintf(text) ==
    IF use_fb THEN win' = gui_window_print(win, text) /\ UNCHANGED <<vga, paper>>
    ELSE PutVga(text)

Prompt == <<">", Blank>>

(* kmain makes the file systems; after setup it starts the shell.          *)
Boot ==
    \/ (BootFs \/ MountData) /\ UNCHANGED shellVars
    \/ /\ \E typed \in Hostnames : setup_run(typed)
       /\ spc' \in {"off", "start"}
       /\ UNCHANGED <<use_fb, conVars, todo, buf, start, lines>>

OtherCallers ==
    /\ spc = "off"
    /\ \/ LsEntry \/ CatChunk
       \/ \E path \in Paths : cmd_ls(path) \/ cmd_cat(path)
       \/ \E path \in WritePaths, off \in Offsets, b \in Buffers :
             vfs_write(resolve(node, path), off, b)
    /\ UNCHANGED shellVars

-----------------------------------------------------------------------------
(* shell_run.                                                              *)
Banner ==
    /\ spc = "start" /\ spc' = "prompt"
    /\ kprintf(<<"LF", "Aerogel", "LF">>)
    /\ UNCHANGED <<vars, use_fb, todo, buf, start, lines>>

(* The prompt, and readline's fresh buffer.                                *)
ShowPrompt ==
    /\ spc = "prompt" /\ lines < MaxLines
    /\ spc' = "read"
    /\ kprintf(Prompt)
    /\ buf' = <<>>
    /\ todo' \in Typings
    /\ start' = vga'.col
    /\ UNCHANGED <<vars, use_fb, lines>>

(* Drops the character from the line only.                                 *)
EraseEchoMissing == <<>>

EraseEcho == <<"BS">>

(* readline: the echo goes to the VGA screen also when the prompt does     *)
(* not.  A backspace with nothing to erase is a character like any other.  *)
ReadKey ==
  LET key == Head(todo) IN
    /\ spc = "read"
    /\ todo' = Tail(todo)
    /\ CASE key \in Enter ->
               spc' = "dispatch" /\ lines' = lines + 1 /\ PutVga(<<"LF">>) /\ UNCHANGED buf
         [] key = "BS" /\ buf # <<>> ->
               buf' = SubSeq(buf, 1, Len(buf) - 1) /\ PutVga(EraseEcho) /\ UNCHANGED <<spc, lines>>
         [] OTHER ->
               /\ IF Len(buf) < CMD_BUF - 1 THEN buf' = Append(buf, key) /\ PutVga(<<key>>)
                                            ELSE UNCHANGED <<buf, conVars>>
               /\ UNCHANGED <<spc, lines>>
    /\ start' = IF key = "HT" \/ (key = "BS" /\ buf = <<>>) \/ start + Len(buf') >= COLS
                THEN -1 ELSE start
    /\ UNCHANGED <<vars, use_fb>>

(* The next place at or after p that is a space, or is not.                *)
UpTo(s, p, space) ==
    LET stop == {q \in p .. Len(s) : (s[q] = Blank) = space}
    IN  IF stop = {} THEN Len(s) + 1 ELSE CHOOSE q \in stop : \A r \in stop : q <= r

(* From[n][p]: the arguments from place p on, with room for n of them.     *)
parse_args(s) ==
    LET From[n \in 0 .. MAX_ARGS] ==
          [p \in 1 .. Len(s) + 1 |->
            IF p > Len(s) \/ n = 0 THEN <<>>
            ELSE LET end == UpTo(s, p, TRUE)
                 IN  <<SubSeq(s, p, end - 1)>> \o From[n - 1][UpTo(s, end, FALSE)]]
    IN  From[MAX_ARGS][UpTo(s, 1, FALSE)]

-----------------------------------------------------------------------------
(* dispatch.  The commands that print figures print a line.                *)
args == parse_args(buf)
Command == IF args = <<>> THEN <<>> ELSE args[1]

WordPath(w) == IF w \in DOMAIN PathOf THEN PathOf[w] ELSE [absolute |-> FALSE, names |-> <<>>]

(* The argument of ls, or the root; the argument of cat.                   *)
PathArg == IF Len(args) > 1 THEN WordPath(args[2]) ELSE Path(<<>>)

Finds(path, kinds) == resolve(node, path) # NULL /\ node[resolve(node, path)].kind \in kinds

RunLs ==
    /\ Command = <<"ls">>
    /\ IF Finds(PathArg, {"dir", "file"})
       THEN cmd_ls(PathArg) /\ spc' = "command" /\ UNCHANGED conVars
       ELSE kprintf(<<"no_such_directory", "LF">>) /\ spc' = "prompt" /\ UNCHANGED vars

RunCat ==
    /\ Command = <<"cat">>
    /\ IF Len(args) > 1 /\ Finds(PathArg, {"file"})
       THEN cmd_cat(PathArg) /\ spc' = "command" /\ UNCHANGED conVars
       ELSE kprintf(<<"not_found", "LF">>) /\ spc' = "prompt" /\ UNCHANGED vars

RunClear ==
    /\ Command = <<"clear">>
    /\ vga' = vga_clear /\ paper' = NoPaper
    /\ spc' = "prompt"
    /\ UNCHANGED <<vars, win>>

(* reboot asks the keyboard controller to reset the processor.             *)
RunReboot ==
    /\ Command = <<"reboot">>
    /\ kprintf(<<"Rebooting", "LF">>)
    /\ spc' = "halted"
    /\ UNCHANGED vars

(* echo: the arguments, with a space between any two.                      *)
Echo ==
    LET Upto[k \in 0 .. Len(args) - 1] ==
            IF k = 0 THEN <<>>
            ELSE Upto[k - 1] \o args[k + 1] \o IF k + 1 < Len(args) THEN <<Blank>> ELSE <<>>
    IN  Upto[Len(args) - 1] \o <<"LF">>

(* What echo, the commands that print a figure, and an unknown one print.  *)
Reply ==
    IF Command = <<"echo">> THEN Echo
    ELSE IF Command \in InfoCommands THEN <<"text", "LF">>
    ELSE Command \o <<"command_not_found", "LF">>

RunOther ==
    /\ Command \notin {<<>>, <<"ls">>, <<"cat">>, <<"clear">>, <<"reboot">>}
    /\ kprintf(Reply)
    /\ spc' = "prompt"
    /\ UNCHANGED vars

RunNothing == Command = <<>> /\ spc' = "prompt" /\ UNCHANGED <<vars, conVars>>

dispatch ==
    /\ spc = "dispatch"
    /\ RunLs \/ RunCat \/ RunClear \/ RunReboot \/ RunOther \/ RunNothing
    /\ UNCHANGED <<use_fb, todo, buf, start, lines>>

(* ls and cat go on, and print what they show.                             *)
InCommand ==
    /\ spc = "command"
    /\ LsEntry \/ CatChunk
    /\ kprintf(IF pc = "cat"
               THEN [k \in 1 .. Len(shown') - Len(shown) |->
                        node[file].data[shown'[Len(shown) + k]]]
               ELSE IF shown' = shown THEN <<>>
               ELSE <<Blank, node[shown'[Len(shown')]].name, "LF">>)
    /\ spc' = IF pc' \in {"ls", "cat"} THEN "command" ELSE "prompt"
    /\ UNCHANGED <<use_fb, todo, buf, start, lines>>

SNext ==
    \/ Boot \/ OtherCallers \/ Banner \/ ShowPrompt \/ ReadKey \/ dispatch \/ InCommand

SSpec == SInit /\ [][SNext]_svars

-----------------------------------------------------------------------------
(* However much is printed and erased, wherever lines break, the screen    *)
(* shows the end of what was written since it was last cleared, and the    *)
(* cursor is where the next character would go.                            *)
ScreenIsTail == ShowsEnd(vga, paper)

(* The line that will be run is the one on the screen behind the prompt,   *)
(* after any typing and erasing, as long as no control character went into *)
(* it and it has not reached the next row, from which a backspace does not *)
(* return; on a framebuffer the echo is not visible.                       *)
LineShown ==
    spc = "read" /\ ~ use_fb /\ start >= 0 =>
        \A c \in start .. COLS - 1 :
            vga.cells[vga.row][c] = IF c < start + Len(buf) THEN buf[c - start + 1] ELSE Blank

(* The window shows all that was printed since its page was last turned,   *)
(* in order, and printing never leaves the area inside title and border.   *)
PageShown == ShowsPage(win) /\ InsideFrame(win)
=============================================================================
