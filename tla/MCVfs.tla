------------------------------- MODULE MCVfs -------------------------------
(* Vfs with files of a few bytes.                                          *)
EXTENDS Vfs

P(names) == Path(names)

MCHostnames == {<<>>, <<"h", "i">>}
MCDefaultHostname == <<"a", "i">>
MCVersion == <<"h", "i", "a">>
MCOsRelease == <<"a", "a", "h", NUL>>

(* Directories, files, a path that goes through a file, one that ends in a *)
(* slash, one with a slash too many, a relative one and one that leads     *)
(* nowhere.                                                                *)
MCPaths == {P(<<>>), P(<<"etc">>), P(<<"etc", "">>), P(<<"", "etc">>), P(<<"etc", "hostname">>),
            P(<<"etc", "os-release">>), P(<<"version">>), P(<<"version", "etc">>),
            P(<<"data">>), [absolute |-> FALSE, names |-> <<"etc">>]}

MCWritePaths == {P(<<"version">>)}
MCBuffers == {<<"a">>, <<NUL, "i">>}
=============================================================================
