------------------------------- MODULE Fat32 -------------------------------
(***************************************************************************)
(* kernel/fs/fat32.c over drivers/storage/ata.c: the mount, the loading of *)
(* a directory and the reading of a file, one call of read_sector at a     *)
(* time.  All of them share the sector buffer of the volume, and none of   *)
(* them looks at what read_sector returns: after a failed read they go on  *)
(* with whatever the buffer holds.                                         *)
(*                                                                         *)
(* A byte is named by its place on the disk, the contents of a sector by   *)
(* the sector.  What the contents of another sector mean when they are     *)
(* taken for a FAT or a directory is any of GarbageClusters, or            *)
(* GarbageDirents.                                                         *)
(***************************************************************************)
EXTENDS Ata, Sequences, FiniteSets

CONSTANTS
    SECTOR,        \* 512 bytes
    FAT_ENTRIES,   \* 128, entries in a sector of the FAT
    DIRENTS,       \* 16, entries in a sector of a directory
    MAX_LFN,       \* 20, the long-name entries load_dir keeps
    PART_LBA,      \* 2048, where the volume starts
    FAT_EOC,       \* 0x0FFFFFF8
    Bpb,           \* the fields of the volume's first sector
    FAT,           \* FAT[c] is the entry of cluster c
    Dirs,          \* Dirs[lba] is the sequence of entries in a directory's sector
    Offsets, Sizes,     \* arguments of fat32_read_file
    GarbageClusters, GarbageDirents,
    MaxEntries     \* bound on the entries of a directory

sectors_per_cluster == Bpb.sectors_per_cluster
bytes_per_cluster == sectors_per_cluster * SECTOR
fat_lba == PART_LBA + Bpb.reserved_sectors
data_lba == fat_lba + Bpb.num_fats * Bpb.fat_size_32

Kinds == {"end", "deleted", "lfn", "volid", "dot", "file", "dir"}

(* The fields of a directory's entry that are numbers are unsigned.        *)
IsDirent(de) == de.kind \in Kinds /\ de.start \in Nat /\ de.size \in Nat

ASSUME Fat32Assumption ==
    /\ {SECTOR, FAT_ENTRIES, DIRENTS, MAX_LFN, sectors_per_cluster} \subseteq Nat \ {0}
    /\ {PART_LBA, FAT_EOC} \subseteq Nat
    /\ {Bpb.reserved_sectors, Bpb.num_fats, Bpb.fat_size_32, Bpb.root_cluster} \subseteq Nat
    /\ \A c \in 0 .. Bpb.fat_size_32 * FAT_ENTRIES - 1 : FAT[c] \in Nat
    /\ \A lba \in DOMAIN Dirs : \A k \in 1 .. DIRENTS : IsDirent(Dirs[lba][k])
    /\ \A de \in GarbageDirents : IsDirent(de)
    /\ GarbageClusters \subseteq Nat
    /\ Offsets \subseteq Nat /\ Sizes \subseteq Nat

VARIABLES
    fpc,           \* where the file system is, waiting for read_sector or not
    r,             \* the local variables of fat32_read_file
    out,           \* the bytes it has copied
    cluster, s, i, \* the local variables of load_dir
    lfns,          \* the long-name pieces it has kept
    entries,       \* the nodes of the root directory
    faulted,       \* has a read failed since the call began?
    loadFaulted    \* did one while the directory was loaded?

dirVars == <<cluster, s, i, lfns, entries, loadFaulted>>
readVars == <<r, out>>
vars == <<ataVars, fpc, readVars, dirVars, faulted>>

Init ==
    /\ AtaInit
    /\ fpc = "unmounted"
    /\ r = [cluster |-> 0, skip |-> 0, off |-> 0, size |-> 0, start |-> 0, file_size |-> 0,
            in_cluster |-> 0, total |-> 0, chunk |-> 0, wrote |-> 0, sec_off |-> 0,
            byte_off |-> 0, want |-> 0]
    /\ out = <<>>
    /\ cluster = 0 /\ s = 0 /\ i = 0
    /\ lfns = <<>>
    /\ entries = <<>>
    /\ faulted = FALSE
    /\ loadFaulted = FALSE

-----------------------------------------------------------------------------
Smaller(a, b) == IF a < b THEN a ELSE b

cluster_to_lba(c) == data_lba + (c - 2) * sectors_per_cluster

FatSector(c) == fat_lba + (c \div FAT_ENTRIES)

(* What next_cluster may return for c once its read has ended: the entry   *)
(* at c's place in whichever sector the buffer holds.                      *)
NextClusters(c) ==
    LET first == (sector_buf - fat_lba) * FAT_ENTRIES
    IN  IF sector_buf \in fat_lba .. fat_lba + Bpb.fat_size_32 - 1
        THEN {FAT[first + (c % FAT_ENTRIES)]}
        ELSE GarbageClusters

read_sector(lba, then) == ata_read(lba) /\ fpc' = then

(* The read that k waits for has ended.                                    *)
Ended(k) == fpc = k /\ apc = "idle"

NowFaulted == faulted \/ ret = -1

Returned == {"mounted", "loaded", "read"}

-----------------------------------------------------------------------------
fat32_mount ==
    /\ fpc = "unmounted"
    /\ read_sector(PART_LBA, "mount")
    /\ UNCHANGED <<readVars, dirVars, faulted>>

(* The buffer was cleared, so a failed read looks like a bad sector size.  *)
MountEnd ==
    /\ Ended("mount")
    /\ fpc' = IF sector_buf = PART_LBA /\ Bpb.bytes_per_sector = SECTOR
              THEN "mounted" ELSE "failed"
    /\ UNCHANGED <<ataVars, readVars, dirVars, faulted>>

-----------------------------------------------------------------------------
(* load_dir, called by fat32_finddir and fat32_readdir when the directory  *)
(* has not been loaded.                                                    *)

(* The end of load_dir, and of its local variables.                        *)
LoadDone ==
    /\ fpc' = "loaded"
    /\ cluster' = 0 /\ s' = 0 /\ i' = 0
    /\ lfns' = <<>>
    /\ UNCHANGED ataVars

LoadCluster(c) ==
    IF c < FAT_EOC
    THEN /\ cluster' = c
         /\ s' = 0 /\ i' = 0
         /\ UNCHANGED lfns
         /\ read_sector(cluster_to_lba(c), "dir_sector")
    ELSE LoadDone

load_dir ==
    /\ fpc = "mounted"
    /\ LoadCluster(Bpb.root_cluster)
    /\ entries' = <<>>
    /\ faulted' = FALSE
    /\ UNCHANGED <<readVars, loadFaulted>>

SectorEnd ==
    /\ Ended("dir_sector")
    /\ faulted' = NowFaulted
    /\ loadFaulted' = NowFaulted
    /\ i' = 1
    /\ fpc' = "scan"
    /\ UNCHANGED <<ataVars, readVars, cluster, s, lfns, entries>>

DirentsAt(k) == IF sector_buf \in DOMAIN Dirs THEN {Dirs[sector_buf][k]} ELSE GarbageDirents

(* The next entry, the next sector of the cluster, or the next cluster.    *)
NextDirent ==
    IF i < DIRENTS
    THEN i' = i + 1 /\ UNCHANGED <<ataVars, fpc, cluster, s>>
    ELSE /\ i' = 0
         /\ UNCHANGED cluster
         /\ s' = s + 1
         /\ IF s' < sectors_per_cluster
            THEN read_sector(cluster_to_lba(cluster) + s', "dir_sector")
            ELSE read_sector(FatSector(cluster), "dir_next")

ScanEnd(de) ==
    /\ de.kind = "end"
    /\ LoadDone
    /\ UNCHANGED entries

ScanSkip(de) ==
    /\ de.kind \in {"deleted", "volid", "dot"}
    /\ lfns' = <<>>
    /\ NextDirent
    /\ UNCHANGED entries

ScanLfn(de) ==
    /\ de.kind = "lfn"
    /\ lfns' = IF Len(lfns) < MAX_LFN THEN Append(lfns, de.name) ELSE lfns
    /\ NextDirent
    /\ UNCHANGED entries

(* The pieces of a long name, which stand on the disk in reverse order.    *)
parse_lfn(ps) == [k \in 1 .. Len(ps) |-> ps[Len(ps) + 1 - k]]

parse_83(de) == <<de.name>>

make_dir_node(name, start) == [name |-> name, kind |-> "dir", start |-> start, size |-> 0]

Node(de, ps) ==
    LET name == IF ps = <<>> THEN parse_83(de) ELSE parse_lfn(ps)
    IN  IF de.kind = "dir" THEN make_dir_node(name, de.start)
        ELSE [name |-> name, kind |-> "file", start |-> de.start, size |-> de.size]

(* Leaves the pieces of the long name for the entries that follow.         *)
ScanNodeKeepsLfns(de) ==
    /\ de.kind \in {"file", "dir"}
    /\ Len(entries) < MaxEntries
    /\ entries' = Append(entries, Node(de, lfns))
    /\ UNCHANGED lfns
    /\ NextDirent

ScanNode(de) ==
    /\ de.kind \in {"file", "dir"}
    /\ Len(entries) < MaxEntries
    /\ entries' = Append(entries, Node(de, lfns))
    /\ lfns' = <<>>
    /\ NextDirent

Scan ==
    /\ fpc = "scan"
    /\ \E de \in DirentsAt(i) :
        ScanEnd(de) \/ ScanSkip(de) \/ ScanLfn(de) \/ ScanNode(de)
    /\ UNCHANGED <<readVars, faulted, loadFaulted>>

DirNext ==
    /\ Ended("dir_next")
    /\ faulted' = NowFaulted
    /\ loadFaulted' = NowFaulted
    /\ \E c \in NextClusters(cluster) : LoadCluster(c)
    /\ UNCHANGED <<readVars, entries>>

-----------------------------------------------------------------------------
(* fat32_read_file.                                                        *)

(* The head of the loop over clusters, with local variables x.             *)
ReadCluster(x) ==
    IF x.total < x.size /\ x.cluster < FAT_EOC
    THEN LET y == [x EXCEPT !.chunk = Smaller(x.size - x.total,
                                              bytes_per_cluster - x.in_cluster),
                            !.wrote = 0,
                            !.sec_off = x.in_cluster \div SECTOR,
                            !.byte_off = x.in_cluster % SECTOR]
         IN  /\ r' = y
             /\ read_sector(cluster_to_lba(y.cluster) + y.sec_off, "data")
    ELSE r' = x /\ fpc' = "read" /\ UNCHANGED ataVars

(* Forgets that only a part of what was asked for may be left.             *)
ClampNone(off, size, file_size) == size

Clamp(off, size, file_size) == IF off + size > file_size THEN file_size - off ELSE size

fat32_read_file(node, off, size) ==
    LET x == [cluster |-> node.start, skip |-> off \div bytes_per_cluster,
              off |-> off, size |-> Clamp(off, size, node.size),
              start |-> node.start, file_size |-> node.size,
              in_cluster |-> off % bytes_per_cluster,
              total |-> 0, chunk |-> 0, wrote |-> 0, sec_off |-> 0, byte_off |-> 0,
              want |-> size]
    IN  /\ fpc \in {"loaded", "read"}
        /\ node.kind = "file"
        /\ off < node.size
        /\ out' = <<>>
        /\ faulted' = FALSE
        /\ IF x.skip > 0 THEN r' = x /\ read_sector(FatSector(x.cluster), "skip")
                         ELSE ReadCluster(x)
        /\ UNCHANGED dirVars

SkipEnd ==
    /\ Ended("skip")
    /\ faulted' = NowFaulted
    /\ \E c \in NextClusters(r.cluster) :
        LET x == [r EXCEPT !.cluster = c, !.skip = r.skip - 1]
        IN  CASE c >= FAT_EOC -> r' = x /\ fpc' = "read" /\ UNCHANGED ataVars
              [] c < FAT_EOC /\ x.skip > 0 -> r' = x /\ read_sector(FatSector(c), "skip")
              [] OTHER -> ReadCluster(x)
    /\ UNCHANGED <<out, dirVars>>

(* Bytes off .. off + n - 1 of the sector in the buffer.                   *)
Bytes(off, n) == [k \in 1 .. n |-> <<sector_buf, off + k - 1>>]

(* Goes on in the next cluster as far from its start as in this one.       *)
ConsumedKeepsOffset(x) == [x EXCEPT !.total = @ + x.chunk]

Consumed(x) == [x EXCEPT !.total = @ + x.chunk, !.in_cluster = 0]

DataEnd ==
    LET take == Smaller(SECTOR - r.byte_off, r.chunk - r.wrote)
        x == [r EXCEPT !.wrote = @ + take, !.sec_off = @ + 1, !.byte_off = 0]
    IN  /\ Ended("data")
        /\ faulted' = NowFaulted
        /\ out' = out \o Bytes(r.byte_off, take)
        /\ IF x.wrote < x.chunk
           THEN r' = x /\ read_sector(cluster_to_lba(x.cluster) + x.sec_off, "data")
           ELSE /\ r' = Consumed(x)
                /\ read_sector(FatSector(x.cluster), "next")
        /\ UNCHANGED dirVars

NextEnd ==
    /\ Ended("next")
    /\ faulted' = NowFaulted
    /\ \E c \in NextClusters(r.cluster) : ReadCluster([r EXCEPT !.cluster = c])
    /\ UNCHANGED <<out, dirVars>>

-----------------------------------------------------------------------------
FsStep == \/ fat32_mount \/ MountEnd
          \/ load_dir \/ SectorEnd \/ Scan \/ DirNext
          \/ SkipEnd \/ DataEnd \/ NextEnd

Driver == AtaStep /\ UNCHANGED <<fpc, readVars, dirVars, faulted>>

Drive == Answer /\ UNCHANGED <<fpc, readVars, dirVars, faulted>>

Read == \E k \in DOMAIN entries, off \in Offsets, size \in Sizes :
            fat32_read_file(entries[k], off, size)

Next == FsStep \/ Driver \/ Drive \/ Read

(* The processor keeps executing; the drive may stop answering.            *)
Spec == Init /\ [][Next]_vars /\ WF_vars(FsStep \/ Driver)

-----------------------------------------------------------------------------
(* The k-th cluster of the chain that starts at c, or FAT_EOC.             *)
Nth(c, k) ==
    LET nth[j \in 0 .. k] == IF j = 0 THEN c
                             ELSE IF nth[j - 1] >= FAT_EOC THEN FAT_EOC ELSE FAT[nth[j - 1]]
    IN  nth[k]

(* Where byte k of the file that starts at cluster c lies on the disk.     *)
Place(c, k) ==
    LET cl == Nth(c, k \div bytes_per_cluster)
        at == k % bytes_per_cluster
    IN  <<cluster_to_lba(cl) + (at \div SECTOR), at % SECTOR>>

(* As many bytes as were asked for, or up to the end of the file or of its *)
(* chain.                                                                  *)
Expected ==
    LET n == CHOOSE n \in 0 .. r.want :
                /\ n = r.want \/ r.off + n >= r.file_size \/
                     Nth(r.start, (r.off + n) \div bytes_per_cluster) >= FAT_EOC
                /\ \A m \in 0 .. n - 1 :
                     /\ r.off + m < r.file_size
                     /\ Nth(r.start, (r.off + m) \div bytes_per_cluster) < FAT_EOC
    IN  [k \in 1 .. n |-> Place(r.start, r.off + k - 1)]

(* A read during which the drive did not fail returns the bytes of the     *)
(* file, whatever the offset and the size, across sectors and clusters     *)
(* that are not neighbours, with one buffer for data and FAT.              *)
ReadsFile == (fpc = "read" /\ ~ faulted) => out = Expected

(* Entry k of the whole chain of the root directory.                       *)
DirCluster(k) == Nth(Bpb.root_cluster, (k \div DIRENTS) \div sectors_per_cluster)
DirSector(k) == cluster_to_lba(DirCluster(k)) + ((k \div DIRENTS) % sectors_per_cluster)
DirEntry(k) == IF DirCluster(k) >= FAT_EOC THEN [kind |-> "end"]
               ELSE Dirs[DirSector(k)][(k % DIRENTS) + 1]

(* The directory ends with its chain, or where an entry says so.           *)
IsEnd(k) == DirEntry(k).kind = "end" /\ \A j \in 0 .. k - 1 : DirEntry(j).kind # "end"
DirLength == CHOOSE k \in 0 .. Cardinality(DOMAIN Dirs) * DIRENTS : IsEnd(k)

(* The long name of entry j is in the entries right before it, the first   *)
(* piece nearest to j.                                                     *)
Pieces(j) == {m \in 0 .. j - 1 : \A q \in m .. j - 1 : DirEntry(q).kind = "lfn"}
FullName(j) == IF Pieces(j) = {} THEN <<DirEntry(j).name>>
               ELSE [q \in 1 .. Cardinality(Pieces(j)) |-> DirEntry(j - q).name]

NodeAt(j) ==
    [name |-> FullName(j), kind |-> DirEntry(j).kind, start |-> DirEntry(j).start,
     size |-> IF DirEntry(j).kind = "dir" THEN 0 ELSE DirEntry(j).size]

(* The files and directories in the order of the disk, up to the end.      *)
NodesBefore(k) == {j \in 0 .. k - 1 : DirEntry(j).kind \in {"file", "dir"}}
NthNode(k) == CHOOSE j \in NodesBefore(DirLength) : Cardinality(NodesBefore(j)) = k - 1
Listing == [k \in 1 .. Cardinality(NodesBefore(DirLength)) |-> NodeAt(NthNode(k))]

(* A directory loaded while the drive did not fail lists every file and    *)
(* directory once, with its own long name, also where a long name begins   *)
(* in one sector or cluster and ends in the next.                          *)
LoadsDirectory == (fpc \in {"loaded", "read"} /\ ~ loadFaulted) => entries = Listing

(* fat32_read_file never writes past the caller's buffer or past the end   *)
(* of the file, even when the drive fails and the chain it follows is made *)
(* of stale data.                                                          *)
NoOverrun ==
    /\ Len(out) <= r.want
    /\ fpc \in {"skip", "data", "next", "read"} => Len(out) <= r.file_size - r.off

(* Every call ends although the drive may stop answering: reads always,    *)
(* the loading of a directory unless a read failed.                        *)
CallsEnd ==
    /\ fpc \in {"mount", "skip", "data", "next"} ~> fpc \in {"mounted", "failed", "read"}
    /\ fpc \in {"dir_sector", "scan", "dir_next"} ~> (fpc = "loaded" \/ faulted)
=============================================================================
