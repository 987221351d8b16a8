-------------------------------- MODULE Vfs --------------------------------
(***************************************************************************)
(* kernel/fs/vfs.c and kernel/fs/tmpfs.c with their users: kmain, which    *)
(* makes the root file system and mounts the FAT32 volume, the first-boot  *)
(* setup, and the shell's ls and cat.  A node is known by its number, in   *)
(* the order of creation; 0 is NULL.                                       *)
(***************************************************************************)
EXTENDS Integers, Sequences, FiniteSets

CONSTANTS
    MAX_MOUNTS,    \* 16
    FIRST_CAP,     \* 4, the entries a directory first has room for
    CHUNK,         \* 63, the bytes cat asks for
    U32,           \* 2^32: offsets in a file are cut to 32 bits
    Bytes,
    Hostnames,     \* what is typed at setup; <<>> is an empty line
    DefaultHostname, VersionText, OsReleaseText,    \* the texts of the files
    Paths,         \* arguments of ls and cat
    WritePaths, Offsets, Buffers     \* arguments of writes

NULL == 0
NUL == "NUL"       \* the byte 0, which ends a string
Junk == "junk"     \* a byte from krealloc that nothing has set and that is not 0

(* A path: whether it begins with a slash, and what stands between its     *)
(* slashes.                                                                *)
PathType == [absolute : BOOLEAN, names : Seq(STRING)]

ASSUME VfsAssumption ==
    /\ {MAX_MOUNTS, FIRST_CAP, CHUNK, U32} \subseteq Nat \ {0} /\ MAX_MOUNTS >= 2
    /\ NUL \in Bytes /\ Junk \notin Bytes
    /\ Hostnames \subseteq Seq(Bytes) /\ DefaultHostname # <<>>
    /\ {DefaultHostname, VersionText, OsReleaseText} \cup Buffers \subseteq Seq(Bytes)
    /\ Offsets \subseteq Nat
    /\ Paths \cup WritePaths \subseteq PathType

VARIABLES
    node,          \* the nodes: name, kind, entries and cap, or data
    mounts,        \* the paths and roots of the mount table
    vfs_root,
    pc,            \* what runs: a stage of kmain, "idle", or a command of the shell;
                   \* "wild" once a write has gone outside the memory of its file
    file,          \* the node that the command opened
    at,            \* its offset or index
    shown,         \* what it has printed: ls the nodes, cat the places in the file
    hostname

fsVars == <<node, mounts, vfs_root>>
cmdVars == <<file, at, shown>>
vars == <<fsVars, pc, cmdVars, hostname>>

(* vfs_init.                                                               *)
Init ==
    /\ node = <<>>
    /\ mounts = <<>>
    /\ vfs_root = NULL
    /\ pc = "boot"
    /\ file = NULL /\ at = 0 /\ shown = <<>>
    /\ hostname = <<>>

-----------------------------------------------------------------------------
(* tmpfs, as functions of the nodes ns.                                    *)

tmpfs_readdir(ns, dir, idx) ==
    IF idx < Len(ns[dir].entries) THEN ns[dir].entries[idx + 1] ELSE NULL

tmpfs_finddir(ns, dir, name) ==
    LET found == {k \in DOMAIN ns[dir].entries : ns[ns[dir].entries[k]].name = name}
    IN  IF found = {} THEN NULL
        ELSE ns[dir].entries[CHOOSE k \in found : \A j \in found : k <= j]

(* Takes new memory for the entries and forgets the old ones.              *)
dir_add_fresh(d, n) ==
    IF Len(d.entries) >= d.cap
    THEN [d EXCEPT !.cap = IF @ = 0 THEN FIRST_CAP ELSE 2 * @, !.entries = <<n>>]
    ELSE [d EXCEPT !.entries = Append(@, n)]

dir_add(d, n) ==
    LET grown == IF Len(d.entries) >= d.cap
                 THEN [d EXCEPT !.cap = IF @ = 0 THEN FIRST_CAP ELSE 2 * @]
                 ELSE d
    IN  [grown EXCEPT !.entries = Append(@, n)]

Dir(name) == [name |-> name, kind |-> "dir", entries |-> <<>>, cap |-> 0]
File(name, data) == [name |-> name, kind |-> "file", data |-> data]

tmpfs_create(ns, name) == Append(ns, Dir(name))

AddTo(ns, parent, new) ==
    Append([ns EXCEPT ![parent] = dir_add(@, Len(ns) + 1)], new)

tmpfs_mkdir(ns, parent, name) == AddTo(ns, parent, Dir(name))
tmpfs_mkfile(ns, parent, name, data) == AddTo(ns, parent, File(name, data))

(* Stops one byte early at the end of the file.                            *)
tmpfs_read_short(data, off, sz) ==
    LET last == IF off + sz > Len(data) THEN Len(data) - 1 ELSE off + sz
    IN  IF off >= Len(data) THEN <<>> ELSE SubSeq(data, off + 1, last)

tmpfs_read(data, off, sz) ==
    LET last == IF off + sz > Len(data) THEN Len(data) ELSE off + sz
    IN  IF off >= Len(data) THEN <<>> ELSE SubSeq(data, off + 1, last)

(* The file after a write at pos that its memory has room for: krealloc    *)
(* keeps what was there and sets nothing else, so that gap lies between    *)
(* the old end and pos.                                                    *)
tmpfs_write(data, pos, buf, gap) ==
    LET size == IF pos + Len(buf) > Len(data) THEN pos + Len(buf) ELSE Len(data)
    IN  [k \in 1 .. size |->
            IF k \in pos + 1 .. pos + Len(buf) THEN buf[k - pos]
            ELSE IF k <= Len(data) THEN data[k] ELSE gap[k]]

-----------------------------------------------------------------------------
(* vfs.c.                                                                  *)

vfs_finddir(ns, n, name) ==
    IF n = NULL \/ ns[n].kind # "dir" THEN NULL ELSE tmpfs_finddir(ns, n, name)

(* The components of a path that are looked up: all but an empty last one, *)
(* behind a slash.                                                         *)
PathLen(path) ==
    LET n == Len(path.names)
    IN  IF n > 0 /\ path.names[n] = "" THEN n - 1 ELSE n

(* From the root of the first file system mounted at "/", whatever else is *)
(* mounted.                                                                *)
resolve(ns, path) ==
    LET walk[k \in 0 .. PathLen(path)] ==
            IF k = 0 THEN vfs_root ELSE vfs_finddir(ns, walk[k - 1], path.names[k])
    IN  IF path.absolute THEN walk[PathLen(path)] ELSE NULL

vfs_mount(path, root) ==
    IF Len(mounts) >= MAX_MOUNTS THEN UNCHANGED <<mounts, vfs_root>>
    ELSE /\ mounts' = Append(mounts, [path |-> path, root |-> root])
         /\ vfs_root' = IF vfs_root = NULL /\ path.names = <<>> THEN root ELSE vfs_root

Path(names) == [absolute |-> TRUE, names |-> names]

vfs_readdir(ns, n, idx) ==
    IF n = NULL \/ ns[n].kind # "dir" THEN NULL ELSE tmpfs_readdir(ns, n, idx)

-----------------------------------------------------------------------------
(* kmain.                                                                  *)

BootFs ==
    LET n1 == tmpfs_create(<<>>, "root")
        n2 == tmpfs_mkdir(n1, 1, "dev")
        n3 == tmpfs_mkdir(n2, 1, "tmp")
        n4 == tmpfs_mkdir(n3, 1, "etc")
        n5 == tmpfs_mkdir(n4, 1, "boot")
    IN  /\ pc = "boot"
        /\ node' = tmpfs_mkfile(n5, 1, "version", VersionText)
        /\ vfs_mount(Path(<<>>), 1)
        /\ pc' = "mount"
        /\ UNCHANGED <<cmdVars, hostname>>

(* fat32_mount may fail; the root it returns is not loaded.                *)
MountData ==
    /\ pc = "mount"
    /\ \/ UNCHANGED fsVars
       \/ /\ node' = Append(node, Dir("fat32"))
          /\ vfs_mount(Path(<<"data">>), Len(node'))
    /\ pc' = "setup"
    /\ UNCHANGED <<cmdVars, hostname>>

HostnamePath == Path(<<"etc", "hostname">>)

setup_needed == resolve(node, HostnamePath) = NULL

(* Makes a second /etc, which the first one hides.                         *)
SetupFilesNewEtc(ns, root, name) ==
    LET n1 == tmpfs_mkdir(ns, root, "etc")
        n2 == tmpfs_mkdir(n1, root, "home")
        n3 == tmpfs_mkdir(n2, root, "proc")
        n4 == tmpfs_mkfile(n3, Len(n1), "hostname", name)
    IN  tmpfs_mkfile(n4, Len(n1), "os-release", OsReleaseText)

SetupFiles(ns, root, name) ==
    LET old == vfs_finddir(ns, root, "etc")
        n1 == IF old = NULL THEN tmpfs_mkdir(ns, root, "etc") ELSE ns
        etc == IF old = NULL THEN Len(n1) ELSE old
        n2 == tmpfs_mkdir(n1, root, "home")
        n3 == tmpfs_mkdir(n2, root, "proc")
        n4 == tmpfs_mkfile(n3, etc, "hostname", name)
    IN  tmpfs_mkfile(n4, etc, "os-release", OsReleaseText)

setup_run(typed) ==
    /\ pc = "setup"
    /\ IF setup_needed
       THEN /\ hostname' = IF typed = <<>> THEN DefaultHostname ELSE typed
            /\ node' = IF vfs_root = NULL THEN node
                       ELSE SetupFiles(node, vfs_root, hostname')
       ELSE UNCHANGED <<hostname, node>>
    /\ pc' = "idle"
    /\ UNCHANGED <<mounts, vfs_root, cmdVars>>

-----------------------------------------------------------------------------
(* The shell, and vfs_write, which it does not use yet.                    *)

Idle == pc \in {"idle", "listed", "printed"}

cmd_ls(path) ==
    /\ Idle
    /\ resolve(node, path) # NULL
    /\ file' = resolve(node, path)
    /\ at' = 0
    /\ shown' = <<>>
    /\ pc' = "ls"
    /\ UNCHANGED <<fsVars, hostname>>

LsEntry ==
    LET e == vfs_readdir(node, file, at)
    IN  /\ pc = "ls"
        /\ IF e # NULL
           THEN /\ shown' = Append(shown, e)
                /\ at' = at + 1
                /\ UNCHANGED pc
           ELSE pc' = "listed" /\ UNCHANGED <<shown, at>>
        /\ UNCHANGED <<fsVars, file, hostname>>

cmd_cat(path) ==
    LET f == resolve(node, path)
    IN  /\ Idle
        /\ f # NULL
        /\ node[f].kind = "file"
        /\ file' = f
        /\ at' = 0
        /\ shown' = <<>>
        /\ pc' = "cat"
        /\ UNCHANGED <<fsVars, hostname>>

(* The length of the string that s holds.                                  *)
strlen(s) ==
    LET ends == {k \in DOMAIN s : s[k] = NUL}
    IN  IF ends = {} THEN Len(s) ELSE (CHOOSE k \in ends : \A j \in ends : k <= j) - 1

(* The chunk is printed as a string, up to its first 0; all of it is       *)
(* skipped.                                                                *)
CatChunk ==
    LET got == tmpfs_read(node[file].data, at, CHUNK)
    IN  /\ pc = "cat"
        /\ shown' = shown \o [k \in 1 .. strlen(got) |-> at + k]
        /\ at' = at + Len(got)
        /\ pc' = IF got = <<>> THEN "printed" ELSE "cat"
        /\ UNCHANGED <<fsVars, file, hostname>>

(* tmpfs_write cuts the offset to 32 bits.  A write beyond the end goes    *)
(* outside the file's memory when the end does not fit 32 bits, or         *)
(* krealloc returns NULL, which is not tested; what it hits is not         *)
(* modelled, and nothing follows.                                          *)
vfs_write(n, off, buf) ==
  LET pos == off % U32
      end == pos + Len(buf)
  IN
    /\ Idle
    /\ n # NULL
    /\ node[n].kind = "file"
    /\ \/ /\ end < U32
          /\ \E gap \in [Len(node[n].data) + 1 .. pos -> {NUL, Junk}] :
                node' = [node EXCEPT ![n].data = tmpfs_write(@, pos, buf, gap)]
          /\ pc' = "idle"
       \/ /\ end > Len(node[n].data)
          /\ UNCHANGED node
          /\ pc' = "wild"
    /\ file' = NULL /\ at' = 0 /\ shown' = <<>>
    /\ UNCHANGED <<mounts, vfs_root, hostname>>

Next ==
    \/ BootFs \/ MountData
    \/ \E typed \in Hostnames : setup_run(typed)
    \/ \E path \in Paths : cmd_ls(path) \/ cmd_cat(path)
    \/ LsEntry \/ CatChunk
    \/ \E path \in WritePaths, off \in Offsets, buf \in Buffers :
            vfs_write(resolve(node, path), off, buf)

Spec == Init /\ [][Next]_vars

-----------------------------------------------------------------------------
Roots == {mounts[k].root : k \in DOMAIN mounts}

IsEntry(ns, d, k, n) ==
    ns[d].kind = "dir" /\ k \in DOMAIN ns[d].entries /\ ns[d].entries[k] = n

Places(n) == {x \in (DOMAIN node) \X (1 .. Len(node)) : IsEntry(node, x[1], x[2], n)}

(* The nodes form trees: every one but the roots of file systems is an     *)
(* entry of exactly one directory, exactly once, and no directory has more *)
(* entries than dir_add has made room for.                                 *)
TreeOK ==
    /\ \A n \in DOMAIN node : Cardinality(Places(n)) = IF n \in Roots THEN 0 ELSE 1
    /\ \A n \in DOMAIN node : node[n].kind = "dir" => Len(node[n].entries) <= node[n].cap

(* Once the system is set up, the path by which it is asked for the host   *)
(* name leads to the name that was given, and setup is not needed again.   *)
SetupTakesEffect ==
    pc \notin {"boot", "mount", "setup", "wild"} =>
        /\ ~ setup_needed
        /\ LET f == resolve(node, HostnamePath)
           IN  node[f].kind = "file" /\ node[f].data = hostname

(* Byte k of a file is behind a 0, or is one, in the chunk that cat has it *)
(* in.                                                                     *)
Hidden(data, k) ==
    \E j \in 1 .. k : data[j] = NUL /\ (j - 1) \div CHUNK = (k - 1) \div CHUNK

(* The bytes that cat should show of the first n.                          *)
Visible(data, n) == {k \in 1 .. n : ~ Hidden(data, k)}

(* The places p are those of S, each once, from the front to the back.     *)
InOrder(p, S) ==
    /\ {p[k] : k \in DOMAIN p} = S
    /\ \A j, k \in DOMAIN p : j < k => p[j] < p[k]

(* When ls has ended it has shown all entries of the directory, in order.  *)
(* When cat has ended it has shown the file, in order and each byte once,  *)
(* however many chunks that took: all that no 0 hides in its own chunk, so *)
(* a text with at most a 0 at its end is shown whole.                      *)
CommandShows ==
    /\ pc = "printed" => InOrder(shown, Visible(node[file].data, Len(node[file].data)))
    /\ pc = "listed" => shown = IF node[file].kind = "dir" THEN node[file].entries ELSE <<>>

(* What is mounted at a path is found at that path.                        *)
MountsReachable == \A k \in DOMAIN mounts : resolve(node, mounts[k].path) = mounts[k].root
=============================================================================
