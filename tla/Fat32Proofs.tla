---------------------------- MODULE Fat32Proofs ----------------------------
(***************************************************************************)
(* Proofs about the FAT32 reader over the ATA driver, for every volume,    *)
(* drive and sequence of requests.                                         *)
(***************************************************************************)
EXTENDS Fat32, SequenceTheorems, FiniteSetTheorems, WellFoundedInduction, TLAPS

-----------------------------------------------------------------------------
(* The driver.                                                             *)

(* A command that has been issued and has not failed is the one ata_read   *)
(* waits for: a late answer to an earlier one is seen before it is issued. *)
AtaInv ==
    /\ SectorAsAsked
    /\ apc \in {"idle", "wait_busy", "wait_drq"}
    /\ ret \in {0, -1}
    /\ apc = "wait_drq" /\ ~ err => serving = req

(* What a step of the driver, the drive or the file system is to the drive *)
(* and to the driver.                                                      *)
AtaNext == AtaStep \/ Answer \/ (\E lba : ata_read(lba)) \/ UNCHANGED ataVars

(* The driver's invariant is inductive whatever its caller does.           *)
LEMMA AtaNextInv == AtaInv /\ AtaNext => AtaInv'
  <1> SUFFICES ASSUME AtaInv, AtaNext PROVE AtaInv'
      OBVIOUS
  <1>1. CASE WaitBusy
      BY <1>1 DEF WaitBusy, MayIssue, Issue, Command, Return, Repoll, driveVars, AtaInv, SectorAsAsked
  <1>2. CASE WaitDrq
      BY <1>2 DEF WaitDrq, Return, Repoll, driveVars, AtaInv, SectorAsAsked
  <1>3. CASE Answer
      BY <1>3 DEF Answer, AtaInv, SectorAsAsked
  <1>4. ASSUME NEW lba, ata_read(lba) PROVE AtaInv'
      BY <1>4 DEF ata_read, driveVars, AtaInv, SectorAsAsked
  <1>5. CASE UNCHANGED ataVars
      BY <1>5 DEF ataVars, driveVars, AtaInv, SectorAsAsked
  <1> QED
      BY <1>1, <1>2, <1>3, <1>4, <1>5 DEF AtaNext, AtaStep

(* The file system uses the driver only through ata_read.                  *)
LEMMA FsUsesAta == [Next]_vars => AtaNext
  <1> SUFFICES ASSUME [Next]_vars PROVE AtaNext
      OBVIOUS
  <1>1. CASE fat32_mount \/ MountEnd
      BY <1>1 DEF fat32_mount, MountEnd, read_sector, AtaNext
  <1>2. ASSUME NEW c, LoadCluster(c) PROVE AtaNext
      BY <1>2 DEF LoadCluster, LoadDone, read_sector, AtaNext
  <1>3. CASE load_dir \/ SectorEnd \/ DirNext
      BY <1>2, <1>3 DEF load_dir, SectorEnd, DirNext, AtaNext
  <1>4. CASE Scan
    <2>1. CASE NextDirent
        BY <2>1 DEF NextDirent, read_sector, AtaNext
    <2>2. CASE LoadDone
        BY <2>2 DEF LoadDone, AtaNext
    <2> QED
        BY <1>4, <2>1, <2>2 DEF Scan, ScanEnd, ScanSkip, ScanLfn, ScanNode
  <1>5. ASSUME NEW x, ReadCluster(x) PROVE AtaNext
      BY <1>5 DEF ReadCluster, read_sector, AtaNext
  <1>6. CASE SkipEnd
    <2>1. PICK c, x : \/ UNCHANGED ataVars
                      \/ read_sector(FatSector(c), "skip")
                      \/ ReadCluster(x)
        BY <1>6 DEF SkipEnd
    <2> QED
        BY <1>5, <2>1 DEF read_sector, AtaNext
  <1>7. CASE DataEnd \/ NextEnd
      BY <1>5, <1>7 DEF DataEnd, NextEnd, read_sector, AtaNext
  <1>8. CASE Read
      BY <1>5, <1>8 DEF Read, fat32_read_file, read_sector, AtaNext
  <1>9. CASE Driver \/ Drive
      BY <1>9 DEF Driver, Drive, AtaNext
  <1>10. CASE UNCHANGED vars
      BY <1>10 DEF vars, AtaNext
  <1> QED
      BY <1>1, <1>3, <1>4, <1>6, <1>7, <1>8, <1>9, <1>10 DEF Next, FsStep

(* The driver's invariant holds in every state.                            *)
LEMMA Fat32Ata == Spec => []AtaInv
  <1>1. Init => AtaInv
      BY DEF Init, AtaInit, AtaInv, SectorAsAsked
  <1>2. AtaInv /\ [Next]_vars => AtaInv'
      BY AtaNextInv, FsUsesAta
  <1> QED
      BY <1>1, <1>2, PTL DEF Spec

(* When ata_read returns 0 the buffer holds the sector that was asked for, *)
(* however late the drive answered commands that had been given up.        *)
THEOREM Fat32Sectors == Spec => []SectorAsAsked
  <1>1. AtaInv => SectorAsAsked
      BY DEF AtaInv
  <1> QED
      BY <1>1, Fat32Ata, PTL

-----------------------------------------------------------------------------
(* The reader's local variables.                                           *)

Locals == [cluster : Nat, skip : Nat, off : Nat, size : Nat, start : Nat, file_size : Nat,
           in_cluster : Nat, total : Nat, chunk : Nat, wrote : Nat, sec_off : Nat,
           byte_off : Nat, want : Nat]

Reading == {"skip", "data", "next", "read"}
Waiting == {"unmounted", "mount", "mounted", "failed", "dir_sector", "scan", "dir_next", "loaded"}

IsSeq(q) == \E S : q \in Seq(S)

(* At every point of fat32_read_file.                                      *)
Asked(x) ==
    /\ x \in Locals
    /\ x.off < x.file_size
    /\ x.size = Clamp(x.off, x.want, x.file_size)
    /\ x.total <= x.size
    /\ x.in_cluster < bytes_per_cluster

(* In the loop over the sectors of a cluster.                              *)
InData(x) ==
    /\ x.total < x.size
    /\ x.chunk = Smaller(x.size - x.total, bytes_per_cluster - x.in_cluster)
    /\ x.wrote < x.chunk
    /\ x.sec_off * SECTOR + x.byte_off = x.in_cluster + x.wrote
    /\ x.byte_off < SECTOR

(* What has been copied fits what was asked for, and the read under way is *)
(* of the sector the local variables name.                                 *)
ReadInv ==
    /\ r \in Locals /\ IsSeq(out)
    /\ fpc \in Reading \cup Waiting
    /\ fpc \in Waiting => out = <<>>
    /\ fpc \in Reading => Asked(r)
    /\ fpc \in {"skip", "next", "read"} => Len(out) = r.total
    /\ fpc = "skip" => /\ r.total = 0 /\ r.skip > 0 /\ r.skip <= r.off \div bytes_per_cluster
                       /\ r.in_cluster = r.off % bytes_per_cluster
    /\ fpc = "data" => InData(r) /\ Len(out) = r.total + r.wrote
    /\ fpc = "next" => r.in_cluster = 0
    /\ fpc = "data" => req = cluster_to_lba(r.cluster) + r.sec_off
    /\ fpc \in {"skip", "next"} => req = FatSector(r.cluster)

(* The directory holds what load_dir made of entries.                      *)
EntriesInv ==
    /\ IsSeq(entries)
    /\ \A k \in DOMAIN entries : entries[k].start \in Nat /\ entries[k].size \in Nat
    /\ fpc = "scan" => i \in 1 .. DIRENTS

(* Sizes of the volume are positive.                                       *)
LEMMA Sizes0 ==
  /\ SECTOR \in Nat \ {0} /\ FAT_ENTRIES \in Nat \ {0} /\ sectors_per_cluster \in Nat \ {0}
  /\ bytes_per_cluster \in Nat \ {0} /\ FAT_EOC \in Nat /\ DIRENTS \in Nat \ {0}
  /\ fat_lba \in Nat /\ data_lba \in Nat
  <1>1. /\ SECTOR \in Nat \ {0} /\ FAT_ENTRIES \in Nat \ {0} /\ sectors_per_cluster \in Nat \ {0}
        /\ FAT_EOC \in Nat /\ DIRENTS \in Nat \ {0} /\ PART_LBA \in Nat
        /\ Bpb.reserved_sectors \in Nat /\ Bpb.num_fats \in Nat /\ Bpb.fat_size_32 \in Nat
      BY Fat32Assumption
  <1>2. bytes_per_cluster \in Nat \ {0}
    <2> HIDE DEF sectors_per_cluster
    <2> QED
        BY <1>1 DEF bytes_per_cluster
  <1>3. fat_lba \in Nat
      BY <1>1 DEF fat_lba
  <1>4. Bpb.num_fats * Bpb.fat_size_32 \in Nat
      BY <1>1
  <1>5. data_lba \in Nat
      BY <1>3, <1>4 DEF data_lba
  <1> QED
      BY <1>1, <1>2, <1>3, <1>5

(* Division with remainder.                                                *)
LEMMA DivMod ==
  ASSUME NEW x \in Nat, NEW a \in Nat \ {0}
  PROVE  x = a * (x \div a) + (x % a) /\ x % a \in 0 .. a - 1 /\ x \div a \in Nat
  OBVIOUS

(* What next_cluster returns is a number, whatever the buffer holds.       *)
LEMMA NextClustersNat ==
  ASSUME NEW c \in Nat PROVE NextClusters(c) \subseteq Nat
  <1> DEFINE n == Bpb.fat_size_32
             k == sector_buf - fat_lba
  <1>1. CASE sector_buf \in fat_lba .. fat_lba + n - 1
    <2>1. n \in Nat /\ k \in 0 .. n - 1 /\ FAT_ENTRIES \in Nat \ {0} /\ c % FAT_ENTRIES \in 0 .. FAT_ENTRIES - 1
        BY <1>1, Sizes0, DivMod, Fat32Assumption
    <2>2. (k + 1) * FAT_ENTRIES <= n * FAT_ENTRIES /\ (k + 1) * FAT_ENTRIES = k * FAT_ENTRIES + FAT_ENTRIES
      <3> HIDE DEF k, n
      <3> QED
          BY <2>1
    <2>3. k * FAT_ENTRIES + (c % FAT_ENTRIES) \in 0 .. n * FAT_ENTRIES - 1
      <3> HIDE DEF k, n
      <3> QED
          BY <2>1, <2>2
    <2>4. FAT[k * FAT_ENTRIES + (c % FAT_ENTRIES)] \in Nat
        BY <2>3, Fat32Assumption
    <2> QED
        BY <1>1, <2>4 DEF NextClusters
  <1>2. CASE sector_buf \notin fat_lba .. fat_lba + n - 1
      BY <1>2, Fat32Assumption DEF NextClusters
  <1> QED
      BY <1>1, <1>2

(* The local variables that tell what is being read and how far it got.    *)
SamePlace(x, y) ==
    /\ y.off = x.off /\ y.want = x.want /\ y.size = x.size
    /\ y.start = x.start /\ y.file_size = x.file_size
    /\ y.total = x.total /\ y.cluster = x.cluster /\ y.in_cluster = x.in_cluster

(* The head of the loop over clusters starts on a cluster, or is the end.  *)
LEMMA ReadClusterIs ==
  ASSUME NEW x, Asked(x), ReadCluster(x)
  PROVE  \/ /\ x.total < x.size /\ x.cluster < FAT_EOC
            /\ fpc' = "data" /\ Asked(r') /\ InData(r') /\ SamePlace(x, r') /\ r'.wrote = 0
            /\ req' = cluster_to_lba(r'.cluster) + r'.sec_off
         \/ /\ x.total = x.size \/ x.cluster >= FAT_EOC
            /\ fpc' = "read" /\ r' = x
  <1>1. CASE x.total < x.size /\ x.cluster < FAT_EOC
    <2> DEFINE ch == Smaller(x.size - x.total, bytes_per_cluster - x.in_cluster)
               so == x.in_cluster \div SECTOR
               bo == x.in_cluster % SECTOR
               y == [x EXCEPT !.chunk = ch, !.wrote = 0, !.sec_off = so, !.byte_off = bo]
    <2>1. r' = y /\ req' = cluster_to_lba(y.cluster) + y.sec_off /\ fpc' = "data"
        BY <1>1 DEF ReadCluster, read_sector, ata_read
    <2>2. x \in Locals /\ x.total \in Nat /\ x.size \in Nat /\ x.in_cluster \in Nat
        BY DEF Asked, Locals
    <2>3. ch \in Nat /\ ch > 0
        BY <1>1, <2>2, Sizes0 DEF Smaller, Asked
    <2>4. so \in Nat /\ bo \in Nat /\ bo < SECTOR /\ so * SECTOR + bo = x.in_cluster
      <3>1. x.in_cluster = SECTOR * so + bo /\ bo \in 0 .. SECTOR - 1 /\ so \in Nat
          BY <2>2, Sizes0, DivMod
      <3> HIDE DEF so, bo
      <3> QED
          BY <2>2, <3>1, Sizes0
    <2> HIDE DEF ch, so, bo
    <2>5. y \in Locals
        BY <2>2, <2>3, <2>4 DEF Locals
    <2>6. /\ SamePlace(x, y) /\ y.wrote = 0 /\ y.chunk = ch /\ y.sec_off = so /\ y.byte_off = bo
        BY <2>2 DEF SamePlace, Locals
    <2> HIDE DEF y
    <2>7. Asked(y)
        BY <2>5, <2>6 DEF Asked, SamePlace
    <2>8. InData(y)
        BY <1>1, <2>2, <2>3, <2>4, <2>6 DEF InData, SamePlace, ch
    <2> QED
        BY <1>1, <2>1, <2>6, <2>7, <2>8
  <1>2. CASE ~ (x.total < x.size /\ x.cluster < FAT_EOC)
    <2>1. r' = x /\ fpc' = "read"
        BY <1>2 DEF ReadCluster
    <2>2. x.total \in Nat /\ x.size \in Nat /\ x.cluster \in Nat /\ x.total <= x.size /\ FAT_EOC \in Nat
        BY Sizes0 DEF Asked, Locals
    <2> QED
        BY <1>2, <2>1, <2>2
  <1> QED
      BY <1>1, <1>2

(* The file to read, and how fat32_read_file enters its loops.             *)
Entered(node, off, size) ==
    [cluster |-> node.start, skip |-> off \div bytes_per_cluster,
     off |-> off, size |-> Clamp(off, size, node.size),
     start |-> node.start, file_size |-> node.size,
     in_cluster |-> off % bytes_per_cluster,
     total |-> 0, chunk |-> 0, wrote |-> 0, sec_off |-> 0, byte_off |-> 0,
     want |-> size]

(* The local variables when fat32_read_file begins.                        *)
LEMMA EnteredAsked ==
  ASSUME NEW node, node.start \in Nat, node.size \in Nat, NEW off \in Nat, NEW size \in Nat,
         off < node.size, NEW x, x = Entered(node, off, size)
  PROVE  /\ Asked(x) /\ x.skip = off \div bytes_per_cluster /\ x.total = 0
         /\ x.in_cluster = x.off % bytes_per_cluster /\ x.off = off
         /\ x.cluster = node.start /\ x.start = node.start
  <1>1. /\ off \div bytes_per_cluster \in Nat
        /\ off % bytes_per_cluster \in Nat /\ off % bytes_per_cluster < bytes_per_cluster
    <2>1. bytes_per_cluster \in Nat \ {0}
        BY Sizes0
    <2> HIDE DEF bytes_per_cluster
    <2>2. off % bytes_per_cluster \in 0 .. bytes_per_cluster - 1 /\ off \div bytes_per_cluster \in Nat
        BY <2>1, DivMod
    <2> QED
        BY <2>1, <2>2
  <1>2. Clamp(off, size, node.size) \in Nat
      BY DEF Clamp
  <1>3. x \in Locals
    <2> HIDE DEF Clamp, bytes_per_cluster
    <2> QED
        BY <1>1, <1>2 DEF Entered, Locals
  <1>4. /\ x.off = off /\ x.file_size = node.size /\ x.want = size /\ x.total = 0
        /\ x.size = Clamp(off, size, node.size) /\ x.in_cluster = off % bytes_per_cluster
        /\ x.skip = off \div bytes_per_cluster /\ x.cluster = node.start /\ x.start = node.start
      BY DEF Entered
  <1> QED
      BY <1>1, <1>2, <1>3, <1>4 DEF Asked

(* One sector's worth of bytes.                                            *)
Take == Smaller(SECTOR - r.byte_off, r.chunk - r.wrote)

(* A sector gives at least one byte, and no more than the chunk or the     *)
(* sector has left.                                                        *)
LEMMA TakeIs ==
  ASSUME Asked(r), InData(r)
  PROVE  /\ Take \in Nat /\ Take > 0
         /\ r.wrote + Take <= r.chunk /\ r.byte_off + Take <= SECTOR
         /\ r.wrote + Take < r.chunk => r.byte_off + Take = SECTOR
         /\ r.total + r.chunk <= r.size
         /\ r.in_cluster + r.chunk <= bytes_per_cluster
  BY Sizes0 DEF Take, Smaller, Asked, InData, Locals

(* Two sequences with one domain have one length.                          *)
LEMMA SameLength ==
  ASSUME NEW m \in Nat, NEW n \in Nat, 1 .. m = 1 .. n PROVE m = n
  <1>1. CASE m < n
    <2>1. n \in 1 .. n /\ n \notin 1 .. m
        BY <1>1
    <2> QED
        BY <2>1
  <1>2. CASE n < m
    <2>1. m \in 1 .. m /\ m \notin 1 .. n
        BY <1>2
    <2> QED
        BY <2>1
  <1> QED
      BY <1>1, <1>2

(* out followed by n bytes of the sector in the buffer, from off.          *)
Extended(o, off, n) ==
    /\ \A k \in 1 .. Len(out) : o[k] = out[k]
    /\ \A k \in Len(out) + 1 .. Len(out) + n : o[k] = <<sector_buf, off + (k - Len(out)) - 1>>

(* Copying a sector appends that many bytes.                               *)
LEMMA BytesAppended ==
  ASSUME IsSeq(out), NEW off \in Nat, NEW n \in Nat, NEW o, o = out \o Bytes(off, n)
  PROVE  IsSeq(o) /\ Len(out) \in Nat /\ Len(o) = Len(out) + n /\ Extended(o, off, n)
  <1>1. PICK S : out \in Seq(S)
      BY DEF IsSeq
  <1> DEFINE T == S \cup ({sector_buf} \X Int)
             b == Bytes(off, n)
  <1>2. \A k \in 1 .. n : <<sector_buf, off + k - 1>> \in T
      OBVIOUS
  <1>3. b = [k \in 1 .. n |-> <<sector_buf, off + k - 1>>]
      BY DEF Bytes
  <1>4. out \in Seq(T)
      BY <1>1
  <1> HIDE DEF T, b
  <1>5. b \in Seq(T) /\ Len(b) = n
    <2>1. b \in [1 .. n -> T]
        BY <1>2, <1>3
    <2>2. b \in Seq(T)
        BY <2>1, SeqDef
    <2>3. DOMAIN b = 1 .. Len(b) /\ Len(b) \in Nat /\ DOMAIN b = 1 .. n
        BY <2>1, <2>2, LenProperties
    <2>4. Len(b) = n
        BY <2>3, SameLength
    <2> QED
        BY <2>2, <2>4
  <1>6. o = out \o b
      BY DEF b
  <1>7. /\ o \in Seq(T) /\ Len(o) = Len(out) + n /\ Len(out) \in Nat
        /\ \A k \in 1 .. Len(out) + n : o[k] = IF k <= Len(out) THEN out[k] ELSE b[k - Len(out)]
    <2>1. Len(out) \in Nat
        BY <1>4
    <2>2. /\ out \o b \in Seq(T) /\ Len(out \o b) = Len(out) + Len(b)
          /\ \A k \in 1 .. Len(out) + Len(b) :
               (out \o b)[k] = IF k <= Len(out) THEN out[k] ELSE b[k - Len(out)]
        BY <1>4, <1>5, ConcatProperties
    <2> QED
        BY <1>5, <1>6, <2>1, <2>2
  <1>8. ASSUME NEW k \in Len(out) + 1 .. Len(out) + n
        PROVE  o[k] = <<sector_buf, off + (k - Len(out)) - 1>>
    <2>1. k - Len(out) \in 1 .. n /\ k \in 1 .. Len(out) + n /\ ~ (k <= Len(out))
        BY <1>7
    <2> QED
        BY <1>3, <1>7, <2>1
  <1>9. \A k \in 1 .. Len(out) : o[k] = out[k]
      BY <1>7
  <1> QED
      BY <1>7, <1>8, <1>9 DEF IsSeq, Extended

-----------------------------------------------------------------------------
(* The steps of fat32_read_file preserve ReadInv.                          *)

(* Entering the loop over clusters, with what has been copied so far.      *)
LEMMA ReadClusterInv ==
  ASSUME NEW x, Asked(x), ReadCluster(x), IsSeq(out'), Len(out') = x.total
  PROVE  ReadInv'
  <1>1. CASE /\ fpc' = "data" /\ Asked(r') /\ InData(r') /\ SamePlace(x, r') /\ r'.wrote = 0
             /\ req' = cluster_to_lba(r'.cluster) + r'.sec_off
    <2>1. r' \in Locals /\ r'.total \in Nat
        BY <1>1 DEF Asked, Locals
    <2>2. Len(out') = r'.total + r'.wrote
        BY <1>1, <2>1 DEF SamePlace
    <2> QED
        BY <1>1, <2>1, <2>2 DEF ReadInv, Reading, Waiting
  <1>2. CASE fpc' = "read" /\ r' = x
      BY <1>2 DEF ReadInv, Reading, Waiting, Asked
  <1> QED
      BY <1>1, <1>2, ReadClusterIs

(* fat32_read_file is called.                                              *)
LEMMA ReadFileInv ==
  ASSUME ReadInv, EntriesInv, NEW k \in DOMAIN entries, NEW off \in Offsets, NEW size \in Sizes,
         fat32_read_file(entries[k], off, size)
  PROVE  ReadInv'
  <1> DEFINE node == entries[k]
             x == Entered(node, off, size)
  <1>1. /\ node.start \in Nat /\ node.size \in Nat /\ off \in Nat /\ size \in Nat /\ off < node.size
        /\ out' = <<>>
      BY Fat32Assumption DEF EntriesInv, fat32_read_file
  <1>2. \/ x.skip > 0 /\ r' = x /\ read_sector(FatSector(x.cluster), "skip")
        \/ ~ (x.skip > 0) /\ ReadCluster(x)
      BY DEF fat32_read_file, Entered
  <1> HIDE DEF node
  <1>3. /\ Asked(x) /\ x.skip = x.off \div bytes_per_cluster /\ x.total = 0
        /\ x.in_cluster = x.off % bytes_per_cluster
      BY <1>1, EnteredAsked
  <1> HIDE DEF x
  <1>4. IsSeq(out') /\ Len(out') = x.total
      BY <1>1, <1>3 DEF IsSeq
  <1>5. CASE x.skip > 0 /\ r' = x /\ read_sector(FatSector(x.cluster), "skip")
    <2>1. fpc' = "skip" /\ req' = FatSector(r'.cluster)
        BY <1>5 DEF read_sector, ata_read
    <2>2. x.skip \in Nat /\ x \in Locals
        BY <1>3 DEF Asked, Locals
    <2> QED
        BY <1>3, <1>4, <1>5, <2>1, <2>2 DEF ReadInv, Reading, Waiting
  <1>6. CASE ReadCluster(x)
      BY <1>3, <1>4, <1>6, ReadClusterInv
  <1> QED
      BY <1>2, <1>5, <1>6

(* It follows the chain to the cluster of the offset.                      *)
LEMMA SkipEndInv ==
  ASSUME ReadInv, SkipEnd
  PROVE  ReadInv'
  <1>0. fpc = "skip" /\ r \in Locals /\ Asked(r) /\ r.cluster \in Nat /\ r.skip \in Nat \ {0}
      BY DEF SkipEnd, Ended, ReadInv, Reading, Locals
  <1>1. PICK c \in NextClusters(r.cluster) :
          LET x == [r EXCEPT !.cluster = c, !.skip = r.skip - 1]
          IN  CASE c >= FAT_EOC -> r' = x /\ fpc' = "read" /\ UNCHANGED ataVars
                [] c < FAT_EOC /\ x.skip > 0 -> r' = x /\ read_sector(FatSector(c), "skip")
                [] OTHER -> ReadCluster(x)
      BY DEF SkipEnd
  <1>2. c \in Nat
      BY <1>0, NextClustersNat
  <1> DEFINE x == [r EXCEPT !.cluster = c, !.skip = r.skip - 1]
  <1>3. \/ r' = x /\ fpc' = "read"
        \/ x.skip > 0 /\ r' = x /\ read_sector(FatSector(c), "skip")
        \/ ReadCluster(x)
      BY <1>1, <1>2, Sizes0
  <1>4. x \in Locals /\ x.cluster = c /\ x.skip = r.skip - 1
    <2>1. r.skip - 1 \in Nat
        BY <1>0
    <2> QED
        BY <1>0, <1>2, <2>1 DEF Locals
  <1>5. /\ x.off = r.off /\ x.want = r.want /\ x.size = r.size /\ x.file_size = r.file_size
        /\ x.total = r.total /\ x.in_cluster = r.in_cluster
      BY <1>0 DEF Locals
  <1> HIDE DEF x
  <1>6. Asked(x)
      BY <1>0, <1>4, <1>5 DEF Asked
  <1>7. IsSeq(out') /\ Len(out') = x.total /\ x.total = 0 /\ x.in_cluster = x.off % bytes_per_cluster
      BY <1>0, <1>5 DEF SkipEnd, ReadInv
  <1>8. CASE r' = x /\ fpc' = "read"
      BY <1>4, <1>6, <1>7, <1>8 DEF ReadInv, Reading, Waiting
  <1>9. CASE x.skip > 0 /\ r' = x /\ read_sector(FatSector(c), "skip")
    <2>1. fpc' = "skip" /\ req' = FatSector(r'.cluster)
        BY <1>4, <1>9 DEF read_sector, ata_read
    <2>2. r.skip <= r.off \div bytes_per_cluster /\ r.off \div bytes_per_cluster \in Nat
      <3>1. r.off \in Nat /\ bytes_per_cluster \in Nat \ {0}
          BY <1>0, Sizes0 DEF Locals
      <3> HIDE DEF bytes_per_cluster
      <3> QED
          BY <1>0, <3>1, DivMod DEF ReadInv
    <2>3. x.skip <= x.off \div bytes_per_cluster
        BY <1>0, <1>4, <1>5, <2>2
    <2> QED
        BY <1>4, <1>6, <1>7, <1>9, <2>1, <2>3 DEF ReadInv, Reading, Waiting
  <1>10. CASE ReadCluster(x)
      BY <1>6, <1>7, <1>10, ReadClusterInv
  <1> QED
      BY <1>3, <1>8, <1>9, <1>10

(* The local variables after a sector has been copied.                     *)
Copied == [r EXCEPT !.wrote = @ + Take, !.sec_off = @ + 1, !.byte_off = 0]

(* It copies from the sector that was read.                                *)
LEMMA DataEndInv ==
  ASSUME ReadInv, DataEnd
  PROVE  ReadInv'
  <1>0. /\ fpc = "data" /\ Asked(r) /\ InData(r) /\ r \in Locals /\ IsSeq(out)
        /\ Len(out) = r.total + r.wrote
      BY DEF DataEnd, Ended, ReadInv, Reading
  <1>1. /\ out' = out \o Bytes(r.byte_off, Take)
        /\ \/ Copied.wrote < Copied.chunk /\ r' = Copied
              /\ read_sector(cluster_to_lba(Copied.cluster) + Copied.sec_off, "data")
           \/ ~ (Copied.wrote < Copied.chunk) /\ r' = Consumed(Copied)
              /\ read_sector(FatSector(Copied.cluster), "next")
      BY DEF DataEnd, Take, Copied
  <1>2. /\ Take \in Nat /\ Take > 0
        /\ r.wrote + Take <= r.chunk /\ r.byte_off + Take <= SECTOR
        /\ r.wrote + Take < r.chunk => r.byte_off + Take = SECTOR
        /\ r.total + r.chunk <= r.size
      BY <1>0, TakeIs
  <1>3. /\ r.wrote \in Nat /\ r.chunk \in Nat /\ r.total \in Nat /\ r.size \in Nat /\ r.sec_off \in Nat
        /\ r.byte_off \in Nat /\ r.in_cluster \in Nat /\ SECTOR \in Nat \ {0}
      BY <1>0, Sizes0 DEF Locals
  <1> HIDE DEF Take
  <1>4. IsSeq(out') /\ Len(out') = r.total + r.wrote + Take
    <2>1. IsSeq(out) /\ Take \in Nat /\ r.byte_off \in Nat /\ out' = out \o Bytes(r.byte_off, Take)
        BY <1>0, <1>1, <1>2, <1>3
    <2>2. IsSeq(out') /\ Len(out') = Len(out) + Take
        BY ONLY <2>1, BytesAppended
    <2> QED
        BY <1>0, <2>2
  <1>5. /\ Copied \in Locals /\ SamePlace(r, Copied) /\ Copied.wrote = r.wrote + Take
        /\ Copied.chunk = r.chunk /\ Copied.sec_off = r.sec_off + 1 /\ Copied.byte_off = 0
    <2>1. r.wrote + Take \in Nat /\ r.sec_off + 1 \in Nat
        BY <1>2, <1>3
    <2>2. Copied = [r EXCEPT !.wrote = r.wrote + Take, !.sec_off = r.sec_off + 1, !.byte_off = 0]
        BY DEF Copied
    <2>3. Copied \in Locals
        BY <1>0, <2>1, <2>2 DEF Locals
    <2> QED
        BY <1>0, <2>2, <2>3 DEF Locals, SamePlace
  <1>6. CASE /\ Copied.wrote < Copied.chunk /\ r' = Copied
             /\ read_sector(cluster_to_lba(Copied.cluster) + Copied.sec_off, "data")
    <2>1. fpc' = "data" /\ req' = cluster_to_lba(r'.cluster) + r'.sec_off
        BY <1>6 DEF read_sector, ata_read
    <2>2. Asked(Copied)
        BY <1>0, <1>5 DEF Asked, SamePlace
    <2>3. Copied.sec_off * SECTOR + Copied.byte_off = Copied.in_cluster + Copied.wrote
      <3>1. r.sec_off * SECTOR + r.byte_off = r.in_cluster + r.wrote /\ r.byte_off + Take = SECTOR
          BY <1>0, <1>2, <1>5, <1>6 DEF InData
      <3>2. (r.sec_off + 1) * SECTOR = r.sec_off * SECTOR + SECTOR /\ r.sec_off * SECTOR \in Nat
          BY <1>3
      <3> QED
          BY <1>2, <1>3, <1>5, <3>1, <3>2 DEF SamePlace
    <2>4. InData(Copied)
        BY <1>0, <1>3, <1>5, <1>6, <2>3 DEF InData, SamePlace
    <2>5. Len(out') = Copied.total + Copied.wrote
        BY <1>2, <1>3, <1>4, <1>5 DEF SamePlace
    <2> QED
        BY <1>4, <1>5, <1>6, <2>1, <2>2, <2>4, <2>5 DEF ReadInv, Reading, Waiting
  <1>7. CASE /\ ~ (Copied.wrote < Copied.chunk) /\ r' = Consumed(Copied)
             /\ read_sector(FatSector(Copied.cluster), "next")
    <2> DEFINE y == Consumed(Copied)
    <2>1. /\ y \in Locals /\ y.total = r.total + r.chunk /\ y.in_cluster = 0 /\ y.cluster = r.cluster
          /\ y.off = r.off /\ y.want = r.want /\ y.size = r.size /\ y.file_size = r.file_size
      <3>1. y = [Copied EXCEPT !.total = Copied.total + Copied.chunk, !.in_cluster = 0]
          BY DEF Consumed
      <3> HIDE DEF y, Copied
      <3>2. Copied.total + Copied.chunk \in Nat
          BY <1>5 DEF Locals
      <3>3. y \in Locals
          BY <1>5, <3>1, <3>2 DEF Locals
      <3> QED
          BY <1>3, <1>5, <3>1, <3>3 DEF Locals, SamePlace
    <2>2. r.wrote + Take = r.chunk
        BY <1>2, <1>3, <1>5, <1>7
    <2> HIDE DEF y
    <2>3. Asked(y)
        BY <1>0, <1>2, <1>3, <2>1, Sizes0 DEF Asked
    <2>4. fpc' = "next" /\ req' = FatSector(y.cluster)
        BY <1>5, <1>7, <2>1 DEF read_sector, ata_read, SamePlace
    <2>5. Len(out') = y.total
        BY <1>2, <1>3, <1>4, <2>1, <2>2
    <2>6. r' = y
        BY <1>7 DEF y
    <2> QED
        BY <1>4, <2>1, <2>3, <2>4, <2>5, <2>6 DEF ReadInv, Reading, Waiting
  <1> QED
      BY <1>1, <1>6, <1>7

(* It goes on to the next cluster.                                         *)
LEMMA NextEndInv ==
  ASSUME ReadInv, NextEnd
  PROVE  ReadInv'
  <1>0. fpc = "next" /\ r \in Locals /\ Asked(r) /\ r.cluster \in Nat
      BY DEF NextEnd, Ended, ReadInv, Reading, Locals
  <1>1. PICK c \in NextClusters(r.cluster) : ReadCluster([r EXCEPT !.cluster = c])
      BY DEF NextEnd
  <1>2. c \in Nat
      BY <1>0, NextClustersNat
  <1> DEFINE x == [r EXCEPT !.cluster = c]
  <1>3. /\ x \in Locals
        /\ x.off = r.off /\ x.want = r.want /\ x.size = r.size /\ x.file_size = r.file_size
        /\ x.total = r.total /\ x.in_cluster = r.in_cluster
      BY <1>0, <1>2 DEF Locals
  <1>4. ReadCluster(x)
      BY <1>1
  <1> HIDE DEF x
  <1>5. Asked(x)
      BY <1>0, <1>3 DEF Asked
  <1>6. IsSeq(out') /\ Len(out') = x.total
      BY <1>0, <1>3 DEF NextEnd, ReadInv
  <1> QED
      BY <1>4, <1>5, <1>6, ReadClusterInv

-----------------------------------------------------------------------------
(* The loading of a directory.                                             *)

(* Appending keeps a sequence one.                                         *)
LEMMA AppendIs ==
  ASSUME NEW q, IsSeq(q), NEW e
  PROVE  /\ IsSeq(Append(q, e)) /\ Len(q) \in Nat /\ DOMAIN q = 1 .. Len(q)
         /\ DOMAIN Append(q, e) = 1 .. Len(q) + 1
         /\ \A k \in 1 .. Len(q) : Append(q, e)[k] = q[k]
         /\ Append(q, e)[Len(q) + 1] = e
  <1>1. PICK S : q \in Seq(S)
      BY DEF IsSeq
  <1> DEFINE T == S \cup {e}
  <1>2. q \in Seq(T) /\ e \in T
      BY <1>1
  <1> HIDE DEF T
  <1>3. Append(q, e) \in Seq(T)
      BY <1>2
  <1> QED
      BY <1>2, <1>3 DEF IsSeq

(* The entry that is looked at has numbers where numbers belong.           *)
LEMMA DirentsAre ==
  ASSUME NEW k \in 1 .. DIRENTS, NEW de \in DirentsAt(k)
  PROVE  IsDirent(de)
  <1>1. CASE sector_buf \in DOMAIN Dirs
      BY <1>1, Fat32Assumption DEF DirentsAt
  <1>2. CASE sector_buf \notin DOMAIN Dirs
      BY <1>2, Fat32Assumption DEF DirentsAt
  <1> QED
      BY <1>1, <1>2

(* Going on to the next entry leaves fpc among the waits of load_dir.      *)
LEMMA NextDirentIs ==
  ASSUME i \in 1 .. DIRENTS, fpc = "scan", NextDirent
  PROVE  fpc' \in Waiting /\ (fpc' = "scan" => i' \in 1 .. DIRENTS)
  BY Sizes0 DEF NextDirent, read_sector, Waiting

(* A step of the loading, or none, leaves the reader's variables alone.    *)
LEMMA WaitingStep ==
  ASSUME ReadInv, fpc \in Waiting, fpc' \in Waiting, UNCHANGED readVars
  PROVE  ReadInv'
  BY DEF ReadInv, readVars, Waiting, Reading

(* Both invariants are inductive.                                          *)
LEMMA FsNextInv == ReadInv /\ EntriesInv /\ [Next]_vars => ReadInv' /\ EntriesInv'
  <1> SUFFICES ASSUME ReadInv, EntriesInv, [Next]_vars PROVE ReadInv' /\ EntriesInv'
      OBVIOUS
  <1>1. CASE fat32_mount \/ MountEnd
    <2>1. /\ fpc \in Waiting /\ fpc' \in Waiting \ {"scan"} /\ UNCHANGED <<readVars, entries>>
        BY <1>1 DEF fat32_mount, MountEnd, read_sector, Waiting, Ended, dirVars
    <2> QED
        BY <2>1, WaitingStep DEF EntriesInv
  <1>2. CASE load_dir \/ DirNext
    <2>1. /\ fpc \in Waiting /\ fpc' \in Waiting \ {"scan"} /\ UNCHANGED readVars
          /\ entries' \in {<<>>, entries}
      <3>1. ASSUME NEW c, LoadCluster(c) PROVE fpc' \in Waiting \ {"scan"}
          BY <3>1 DEF LoadCluster, LoadDone, read_sector, Waiting
      <3> QED
          BY <1>2, <3>1 DEF load_dir, DirNext, Ended, Waiting
    <2>2. IsSeq(<<>>) /\ DOMAIN <<>> = {}
      <3>1. <<>> \in Seq({})
          OBVIOUS
      <3> QED
          BY <3>1 DEF IsSeq
    <2> QED
        BY <2>1, <2>2, WaitingStep DEF EntriesInv
  <1>3. CASE SectorEnd
    <2>1. fpc \in Waiting /\ fpc' \in Waiting /\ i' = 1 /\ UNCHANGED <<readVars, entries>>
        BY <1>3 DEF SectorEnd, Ended, Waiting
    <2> QED
        BY <2>1, WaitingStep, Sizes0 DEF EntriesInv
  <1>4. CASE Scan
    <2>1. PICK de \in DirentsAt(i) : ScanEnd(de) \/ ScanSkip(de) \/ ScanLfn(de) \/ ScanNode(de)
        BY <1>4 DEF Scan
    <2>2. fpc = "scan" /\ i \in 1 .. DIRENTS /\ UNCHANGED readVars
        BY <1>4 DEF Scan, EntriesInv
    <2>3. IsDirent(de)
        BY <2>2, DirentsAre
    <2>4. fpc' \in Waiting /\ (fpc' = "scan" => i' \in 1 .. DIRENTS)
      <3>1. CASE NextDirent
          BY <2>2, <3>1, NextDirentIs
      <3>2. CASE LoadDone
          BY <3>2 DEF LoadDone, Waiting
      <3> QED
          BY <2>1, <3>1, <3>2 DEF ScanEnd, ScanSkip, ScanLfn, ScanNode
    <2>5. ReadInv'
        BY <2>2, <2>4, WaitingStep DEF Waiting
    <2>6. CASE entries' = entries
        BY <2>4, <2>5, <2>6 DEF EntriesInv
    <2>7. CASE de.kind \in {"file", "dir"} /\ entries' = Append(entries, Node(de, lfns))
      <3> DEFINE nd == Node(de, lfns)
      <3>1. nd.start \in Nat /\ nd.size \in Nat
          BY <2>3 DEF Node, make_dir_node, IsDirent
      <3> HIDE DEF nd
      <3>2. /\ IsSeq(entries') /\ Len(entries) \in Nat /\ DOMAIN entries = 1 .. Len(entries)
            /\ DOMAIN entries' = 1 .. Len(entries) + 1
            /\ \A k \in 1 .. Len(entries) : entries'[k] = entries[k]
            /\ entries'[Len(entries) + 1] = nd
        <4>1. entries' = Append(entries, nd)
            BY <2>7 DEF nd
        <4>2. IsSeq(entries)
            BY DEF EntriesInv
        <4> QED
            BY <4>1, <4>2, AppendIs
      <3>3. ASSUME NEW k \in DOMAIN entries' PROVE entries'[k].start \in Nat /\ entries'[k].size \in Nat
        <4>1. CASE k = Len(entries) + 1
            BY <3>1, <3>2, <4>1
        <4>2. CASE k # Len(entries) + 1
          <5>1. k \in 1 .. Len(entries)
              BY <3>2, <4>2
          <5> QED
              BY <3>2, <5>1 DEF EntriesInv
        <4> QED
            BY <4>1, <4>2
      <3> QED
          BY <2>4, <2>5, <3>2, <3>3 DEF EntriesInv
    <2> QED
        BY <2>1, <2>6, <2>7 DEF ScanEnd, ScanSkip, ScanLfn, ScanNode
  <1>5. ASSUME SkipEnd \/ DataEnd \/ NextEnd \/ Read PROVE ReadInv' /\ EntriesInv'
    <2>1. ReadInv'
        BY <1>5, SkipEndInv, DataEndInv, NextEndInv, ReadFileInv DEF Read
    <2>2. UNCHANGED dirVars /\ fpc' # "scan"
      <3>1. ASSUME NEW x, ReadCluster(x) PROVE fpc' # "scan"
          BY <3>1 DEF ReadCluster, read_sector
      <3>2. CASE SkipEnd
        <4>1. PICK c, x : fpc' = "read" \/ read_sector(FatSector(c), "skip") \/ ReadCluster(x)
            BY <3>2 DEF SkipEnd
        <4> QED
            BY <3>1, <3>2, <4>1 DEF SkipEnd, read_sector
      <3>3. CASE DataEnd
          BY <3>3 DEF DataEnd, read_sector
      <3>4. CASE NextEnd
          BY <3>1, <3>4 DEF NextEnd
      <3>5. ASSUME NEW node, NEW off, NEW size, fat32_read_file(node, off, size)
            PROVE  UNCHANGED dirVars /\ fpc' # "scan"
        <4>1. PICK x : read_sector(FatSector(x.cluster), "skip") \/ ReadCluster(x)
            BY <3>5 DEF fat32_read_file
        <4> QED
            BY <3>1, <3>5, <4>1 DEF fat32_read_file, read_sector
      <3> QED
          BY <1>5, <3>2, <3>3, <3>4, <3>5 DEF Read
    <2> QED
        BY <2>1, <2>2 DEF EntriesInv, dirVars
  <1>6. CASE Driver \/ Drive \/ UNCHANGED vars
    <2>1. UNCHANGED <<fpc, readVars, dirVars, req>>
        BY <1>6 DEF Driver, Drive, vars, ataVars, AtaStep, WaitBusy, WaitDrq, Answer
    <2> QED
        BY <2>1 DEF ReadInv, EntriesInv, readVars, dirVars
  <1> QED
      BY <1>1, <1>2, <1>3, <1>4, <1>5, <1>6 DEF Next, FsStep

(* They hold in every state.                                               *)
LEMMA Fat32Inv == Spec => [](ReadInv /\ EntriesInv)
  <1>1. Init => ReadInv /\ EntriesInv
    <2> SUFFICES ASSUME Init PROVE ReadInv /\ EntriesInv
        OBVIOUS
    <2>1. IsSeq(<<>>) /\ DOMAIN <<>> = {}
      <3>1. <<>> \in Seq({})
          OBVIOUS
      <3> QED
          BY <3>1 DEF IsSeq
    <2>2. r \in Locals /\ out = <<>> /\ entries = <<>> /\ fpc = "unmounted"
        BY DEF Init, Locals
    <2> QED
        BY <2>1, <2>2 DEF ReadInv, EntriesInv, Reading, Waiting
  <1> QED
      BY <1>1, FsNextInv, PTL DEF Spec

(* fat32_read_file never writes past the caller's buffer or past the end   *)
(* of the file, whatever the drive, the FAT and the directory give it.     *)
THEOREM Fat32NoOverrun == Spec => []NoOverrun
  <1>1. ReadInv => NoOverrun
    <2> SUFFICES ASSUME ReadInv PROVE NoOverrun
        OBVIOUS
    <2>1. CASE fpc \in Waiting
        BY <2>1 DEF ReadInv, NoOverrun, Waiting, Locals
    <2>2. CASE fpc \in Reading
      <3>1. Asked(r) /\ r \in Locals
          BY <2>2 DEF ReadInv
      <3>2. r.size <= r.want /\ r.size <= r.file_size - r.off
          BY <3>1 DEF Asked, Clamp, Locals
      <3>3. Len(out) <= r.size
        <4>1. CASE fpc = "data"
          <5>1. InData(r) /\ Len(out) = r.total + r.wrote
              BY <4>1 DEF ReadInv
          <5>2. r.total + r.chunk <= r.size /\ r.wrote < r.chunk
              BY <3>1, <5>1, TakeIs DEF InData
          <5> QED
              BY <3>1, <5>1, <5>2, SMTT(30) DEF Locals
        <4>2. CASE fpc # "data"
            BY <2>2, <3>1, <4>2 DEF ReadInv, Reading, Asked
        <4> QED
            BY <4>1, <4>2
      <3>4. Len(out) \in Nat
          BY DEF ReadInv, IsSeq
      <3> QED
          BY <3>1, <3>2, <3>3, <3>4, SMTT(30) DEF NoOverrun, Locals
    <2> QED
        BY <2>1, <2>2 DEF ReadInv
  <1> QED
      BY <1>1, Fat32Inv, PTL
-----------------------------------------------------------------------------
(* The chain of clusters of a file.                                        *)

(* The clusters that the FAT has an entry for and that end no chain.       *)
InFat(c) == c \in 0 .. Bpb.fat_size_32 * FAT_ENTRIES - 1 /\ c < FAT_EOC

(* The volume is not damaged: chains stay in the FAT until they end, and   *)
(* every file starts on a cluster.                                         *)
Volume ==
    /\ \A c \in 0 .. Bpb.fat_size_32 * FAT_ENTRIES - 1 : FAT[c] < FAT_EOC => InFat(FAT[c])
    /\ \A lba \in DOMAIN Dirs : \A k \in 1 .. DIRENTS :
         Dirs[lba][k].kind = "file" => InFat(Dirs[lba][k].start)
    /\ \A de \in GarbageDirents : de.kind = "file" => InFat(de.start)

(* Induction over the naturals, the claim given as the set of numbers it   *)
(* holds for.                                                              *)
LEMMA NatSetInduction ==
  ASSUME NEW S \in SUBSET Nat, 0 \in S, \A n \in S : n + 1 \in S
  PROVE  \A n \in Nat : n \in S
  <1> DEFINE less == OpToRel(<, Nat)
             rest == Nat \ S
  <1> SUFFICES ASSUME rest # {} PROVE FALSE
      OBVIOUS
  <1>1. IsWellFoundedOn(less, Nat)
      BY NatLessThanWellFounded, Zenon
  <1>2. \A m, n \in Nat : m < n => <<m, n>> \in less
      BY DEF OpToRel
  <1> HIDE DEF less
  <1>3. PICK n \in rest : \A m \in rest : ~ (<<m, n>> \in less)
    <2>1. rest \subseteq Nat
        OBVIOUS
    <2> HIDE DEF rest
    <2> QED
        BY <1>1, <2>1, WFMin
  <1>4. n - 1 \in Nat /\ n - 1 < n
      OBVIOUS
  <1>5. n - 1 \in S
      BY <1>2, <1>3, <1>4
  <1>6. (n - 1) + 1 \in S
      BY <1>5
  <1> QED
      BY <1>6

(* The cluster after c, as Nth counts.                                     *)
After(c) == IF c >= FAT_EOC THEN FAT_EOC ELSE FAT[c]

(* The walk that Nth takes k steps of.                                     *)
Walk(c, k, f) == f = [j \in 0 .. k |-> IF j = 0 THEN c ELSE After(f[j - 1])]

(* Nth takes its steps one after the other.                                *)
LEMMA WalkExists == \A c : \A k \in Nat : \E f : Walk(c, k, f)
  <1> TAKE c
  <1> DEFINE S == {k \in Nat : \E f : Walk(c, k, f)}
  <1>1. 0 \in S
    <2>1. Walk(c, 0, [j \in 0 .. 0 |-> c])
        BY DEF Walk
    <2> QED
        BY <2>1
  <1>2. ASSUME NEW k \in S PROVE k + 1 \in S
    <2>1. PICK f : Walk(c, k, f)
        OBVIOUS
    <2> DEFINE g == [j \in 0 .. k + 1 |-> IF j = k + 1 THEN After(f[k]) ELSE f[j]]
    <2>2. k \in Nat
        OBVIOUS
    <2> HIDE DEF S
    <2>3. ASSUME NEW j \in 0 .. k + 1 PROVE g[j] = IF j = 0 THEN c ELSE After(g[j - 1])
      <3>1. CASE j = k + 1
        <4>1. g[j] = After(f[k]) /\ g[k] = f[k]
            BY <2>2, <3>1
        <4> QED
            BY <2>2, <3>1, <4>1
      <3>2. CASE j # k + 1
        <4>1. j \in 0 .. k /\ g[j] = f[j]
            BY <2>2, <3>2
        <4>2. f[j] = IF j = 0 THEN c ELSE After(f[j - 1])
            BY <2>1, <4>1 DEF Walk
        <4>3. j # 0 => g[j - 1] = f[j - 1]
            BY <2>2, <4>1
        <4> QED
            BY <4>1, <4>2, <4>3
      <3> QED
          BY <3>1, <3>2
    <2>4. DOMAIN g = 0 .. k + 1
        OBVIOUS
    <2>5. g = [j \in 0 .. k + 1 |-> g[j]]
        OBVIOUS
    <2> HIDE DEF g
    <2>6. g = [j \in 0 .. k + 1 |-> IF j = 0 THEN c ELSE After(g[j - 1])]
        BY <2>3, <2>5
    <2>7. Walk(c, k + 1, g)
        BY <2>6 DEF Walk
    <2> QED
        BY <2>2, <2>7 DEF S
  <1>3. \A k \in Nat : k \in S
    <2> HIDE DEF S
    <2>1. S \in SUBSET Nat
        BY DEF S
    <2> QED
        BY <1>1, <1>2, <2>1, NatSetInduction
  <1> QED
      BY <1>3

(* Walks of the same start agree as far as both go.                        *)
LEMMA WalksAgree ==
  ASSUME NEW c, NEW k \in Nat, NEW f, Walk(c, k, f), NEW g, Walk(c, k + 1, g)
  PROVE  f[k] = g[k]
  <1> DEFINE S == {j \in Nat : j <= k => f[j] = g[j]}
  <1>1. 0 \in S
    <2>1. f[0] = c /\ g[0] = c
        BY DEF Walk
    <2> QED
        BY <2>1
  <1>2. ASSUME NEW j \in S PROVE j + 1 \in S
    <2>1. CASE j + 1 <= k
      <3>1. j + 1 \in 0 .. k /\ j + 1 \in 0 .. k + 1 /\ j + 1 # 0 /\ (j + 1) - 1 = j
          BY <2>1
      <3>2. f[j + 1] = After(f[j]) /\ g[j + 1] = After(g[j])
          BY <3>1 DEF Walk
      <3>3. f[j] = g[j]
          BY <2>1
      <3> QED
          BY <3>2, <3>3
    <2> QED
        BY <2>1
  <1>3. \A j \in Nat : j \in S
    <2> HIDE DEF S
    <2>1. S \in SUBSET Nat
        BY DEF S
    <2> QED
        BY <1>1, <1>2, <2>1, NatSetInduction
  <1>4. k \in S
      BY <1>3, Zenon
  <1> QED
      BY <1>4

(* What Nth computes, step by step.                                        *)
LEMMA NthIs ==
  ASSUME NEW c
  PROVE  Nth(c, 0) = c /\ \A k \in Nat : Nth(c, k + 1) = After(Nth(c, k))
  <1>1. ASSUME NEW k \in Nat
        PROVE  /\ Nth(c, k) = (CHOOSE f : Walk(c, k, f))[k]
               /\ Walk(c, k, CHOOSE f : Walk(c, k, f))
    <2>1. Nth(c, k) = (CHOOSE f : Walk(c, k, f))[k]
        BY DEF Nth, Walk, After
    <2>2. \E f : Walk(c, k, f)
        BY WalkExists
    <2> QED
        BY <2>1, <2>2
  <1>2. Nth(c, 0) = c
    <2> DEFINE f == CHOOSE f : Walk(c, 0, f)
    <2>1. Nth(c, 0) = f[0] /\ Walk(c, 0, f)
        BY <1>1
    <2> HIDE DEF f
    <2> QED
        BY <2>1 DEF Walk
  <1>3. ASSUME NEW k \in Nat PROVE Nth(c, k + 1) = After(Nth(c, k))
    <2> DEFINE f == CHOOSE f : Walk(c, k, f)
               g == CHOOSE g : Walk(c, k + 1, g)
    <2>1. Nth(c, k) = f[k] /\ Walk(c, k, f) /\ Nth(c, k + 1) = g[k + 1] /\ Walk(c, k + 1, g)
        BY <1>1
    <2> HIDE DEF f, g
    <2>2. f[k] = g[k]
        BY <2>1, WalksAgree
    <2>3. g[k + 1] = After(g[k])
        BY <2>1 DEF Walk
    <2> QED
        BY <2>1, <2>2, <2>3
  <1> QED
      BY <1>2, <1>3

(* On an undamaged volume every cluster of a chain but its end has an      *)
(* entry in the FAT.                                                       *)
LEMMA NthInFat ==
  ASSUME Volume, NEW c, InFat(c)
  PROVE  \A k \in Nat : Nth(c, k) \in Nat /\ (Nth(c, k) < FAT_EOC => InFat(Nth(c, k)))
  <1> DEFINE S == {k \in Nat : Nth(c, k) \in Nat /\ (Nth(c, k) < FAT_EOC => InFat(Nth(c, k)))}
  <1>1. 0 \in S
      BY NthIs DEF InFat
  <1>2. ASSUME NEW k \in S PROVE k + 1 \in S
    <2>1. k \in Nat /\ Nth(c, k) \in Nat /\ (Nth(c, k) < FAT_EOC => InFat(Nth(c, k)))
        OBVIOUS
    <2>2. Nth(c, k + 1) = After(Nth(c, k))
        BY <2>1, NthIs
    <2>3. CASE Nth(c, k) >= FAT_EOC
      <3>1. Nth(c, k + 1) = FAT_EOC
          BY <2>2, <2>3 DEF After
      <3> QED
          BY <2>1, <3>1, Sizes0
    <2>4. CASE Nth(c, k) < FAT_EOC
      <3>1. Nth(c, k + 1) = FAT[Nth(c, k)]
          BY <2>1, <2>2, <2>4, Sizes0 DEF After
      <3>2. FAT[Nth(c, k)] \in Nat /\ (FAT[Nth(c, k)] < FAT_EOC => InFat(FAT[Nth(c, k)]))
          BY <2>1, <2>4, Fat32Assumption DEF Volume, InFat
      <3> QED
          BY <2>1, <3>1, <3>2
    <2> QED
        BY <2>1, <2>3, <2>4, Sizes0
  <1>3. \A k \in Nat : k \in S
    <2> HIDE DEF S
    <2>1. S \in SUBSET Nat
        BY DEF S
    <2> QED
        BY <1>1, <1>2, <2>1, NatSetInduction
  <1> QED
      BY <1>3, Zenon

(* A chain that has ended stays so.                                        *)
LEMMA NthStays ==
  ASSUME NEW c, NEW k \in Nat, Nth(c, k) >= FAT_EOC, NEW m \in Nat, m >= k
  PROVE  Nth(c, m) >= FAT_EOC
  <1> DEFINE S == {d \in Nat : Nth(c, k + d) >= FAT_EOC}
  <1>1. 0 \in S
      OBVIOUS
  <1>2. ASSUME NEW d \in S PROVE d + 1 \in S
    <2>1. d \in Nat /\ k + d \in Nat /\ Nth(c, k + d) >= FAT_EOC /\ k + (d + 1) = (k + d) + 1
        OBVIOUS
    <2>2. Nth(c, (k + d) + 1) = After(Nth(c, k + d))
        BY <2>1, NthIs
    <2>3. Nth(c, (k + d) + 1) = FAT_EOC
        BY <2>1, <2>2 DEF After
    <2>4. FAT_EOC >= FAT_EOC
        BY Sizes0
    <2> QED
        BY <2>1, <2>3, <2>4
  <1>3. \A d \in Nat : d \in S
    <2> HIDE DEF S
    <2>1. S \in SUBSET Nat
        BY DEF S
    <2> QED
        BY <1>1, <1>2, <2>1, NatSetInduction
  <1>4. m - k \in Nat /\ k + (m - k) = m
      OBVIOUS
  <1>5. m - k \in S
      BY <1>3, <1>4, Zenon
  <1> QED
      BY <1>4, <1>5

(* Quotient and remainder are the only ones.                               *)
LEMMA DivUnique ==
  ASSUME NEW a \in Nat \ {0}, NEW q \in Nat, NEW m \in Nat, m < a, NEW x \in Nat, x = q * a + m
  PROVE  x \div a = q /\ x % a = m
  <1> DEFINE p == x \div a
             n == x % a
  <1>1. x = a * p + n /\ n \in 0 .. a - 1 /\ p \in Nat
      BY DivMod
  <1> HIDE DEF p, n
  <1>2. a * p = p * a
      BY <1>1
  <1>3. CASE p < q
    <2>1. (p + 1) * a <= q * a /\ (p + 1) * a = p * a + a
        BY <1>1, <1>3
    <2> QED
        BY <1>1, <1>2, <2>1
  <1>4. CASE q < p
    <2>1. (q + 1) * a <= p * a /\ (q + 1) * a = q * a + a
        BY <1>1, <1>4
    <2> QED
        BY <1>1, <1>2, <2>1
  <1>5. p = q /\ n = m
      BY <1>1, <1>2, <1>3, <1>4
  <1> QED
      BY <1>5 DEF p, n

(* next_cluster returns the FAT's entry when its read gave it the sector   *)
(* it asked for.                                                           *)
LEMMA NextClustersIs ==
  ASSUME NEW c, InFat(c), sector_buf = FatSector(c)
  PROVE  NextClusters(c) = {FAT[c]}
  <1> DEFINE q == c \div FAT_ENTRIES
             m == c % FAT_ENTRIES
             n == Bpb.fat_size_32
  <1>1. FAT_ENTRIES \in Nat \ {0} /\ fat_lba \in Nat /\ n \in Nat /\ c \in Nat
      BY Sizes0, Fat32Assumption DEF InFat
  <1>2. c = FAT_ENTRIES * q + m /\ m \in 0 .. FAT_ENTRIES - 1 /\ q \in Nat
      BY <1>1, DivMod
  <1>3. c < n * FAT_ENTRIES
      BY <1>1 DEF InFat
  <1>4. sector_buf = fat_lba + q
      BY DEF FatSector
  <1>5. NextClusters(c) = IF sector_buf \in fat_lba .. fat_lba + n - 1
                          THEN {FAT[(sector_buf - fat_lba) * FAT_ENTRIES + m]} ELSE GarbageClusters
      BY DEF NextClusters
  <1> HIDE DEF q, m, n
  <1>6. q < n
    <2>1. CASE n <= q
      <3>1. FAT_ENTRIES * q >= n * FAT_ENTRIES
          BY <1>1, <1>2, <2>1
      <3> QED
          BY <1>1, <1>2, <1>3, <3>1
    <2> QED
        BY <1>1, <1>2, <2>1
  <1>7. sector_buf \in fat_lba .. fat_lba + n - 1 /\ sector_buf - fat_lba = q
      BY <1>1, <1>2, <1>4, <1>6
  <1>8. (sector_buf - fat_lba) * FAT_ENTRIES + m = c
      BY <1>1, <1>2, <1>7
  <1> QED
      BY <1>5, <1>7, <1>8
-----------------------------------------------------------------------------
(* What fat32_read_file has copied.                                        *)

(* Every byte copied is the byte of the file at its place.                 *)
Content(x, o) ==
    \A m \in 0 .. Len(o) - 1 :
        /\ Nth(x.start, (x.off + m) \div bytes_per_cluster) < FAT_EOC
        /\ o[m + 1] = Place(x.start, x.off + m)

(* The reader is on cluster number n of the chain, on the byte in_cluster  *)
(* of it that comes next.                                                  *)
OnByte(x, n) ==
    /\ n \in Nat
    /\ x.cluster = Nth(x.start, n)
    /\ x.off + x.total = n * bytes_per_cluster + x.in_cluster

(* Where the reader is on the chain, at each point of fat32_read_file.     *)
Follows(pc, x) ==
    /\ pc = "skip" => /\ x.cluster = Nth(x.start, (x.off \div bytes_per_cluster) - x.skip)
                      /\ x.cluster < FAT_EOC
    /\ pc = "data" => \E n \in Nat : OnByte(x, n) /\ x.cluster < FAT_EOC
    /\ pc = "next" => \E n \in Nat :
                        /\ x.cluster = Nth(x.start, n) /\ x.cluster < FAT_EOC
                        /\ x.total = x.size \/ x.off + x.total = (n + 1) * bytes_per_cluster
    /\ pc = "read" => \/ x.total = x.size
                      \/ Nth(x.start, (x.off + x.total) \div bytes_per_cluster) >= FAT_EOC

(* As long as no read has failed.                                          *)
ChainInv ==
    fpc \in Reading => InFat(r.start) /\ (~ faulted => Content(r, out) /\ Follows(fpc, r))

(* Files that were found start on a cluster.                               *)
FilesInv == \A k \in DOMAIN entries : entries[k].kind = "file" => InFat(entries[k].start)

(* A read that did not fail left the sector that was asked for.            *)
LEMMA SectorThere ==
  ASSUME AtaInv, apc = "idle", ~ NowFaulted
  PROVE  sector_buf = req /\ ~ faulted
  BY DEF AtaInv, SectorAsAsked, NowFaulted

(* At the head of the loop over clusters.                                  *)
LEMMA ReadClusterChain ==
  ASSUME NEW x, Asked(x), ReadCluster(x), InFat(x.start), NEW n \in Nat,
         ~ faulted' => /\ Content(x, out')
                       /\ x.cluster = Nth(x.start, n)
                       /\ x.total = x.size \/ OnByte(x, n)
  PROVE  ChainInv'
  <1>1. CASE /\ x.total < x.size /\ x.cluster < FAT_EOC
             /\ fpc' = "data" /\ SamePlace(x, r')
    <2>1. InFat(r'.start)
        BY <1>1 DEF SamePlace
    <2>2. x.total # x.size
        BY <1>1 DEF Asked, Locals
    <2>3. ASSUME ~ faulted' PROVE Content(r', out') /\ OnByte(r', n) /\ r'.cluster < FAT_EOC
        BY <1>1, <2>2, <2>3 DEF SamePlace, Content, OnByte
    <2> QED
        BY <1>1, <2>1, <2>3 DEF ChainInv, Follows
  <1>2. CASE /\ x.total = x.size \/ x.cluster >= FAT_EOC
             /\ fpc' = "read" /\ r' = x
    <2>1. ASSUME ~ faulted', x.total # x.size
          PROVE  Nth(x.start, (x.off + x.total) \div bytes_per_cluster) >= FAT_EOC
      <3>1. /\ x.off + x.total = n * bytes_per_cluster + x.in_cluster
            /\ x.cluster = Nth(x.start, n) /\ x.cluster >= FAT_EOC
          BY <1>2, <2>1 DEF OnByte
      <3>2. /\ x.off + x.total \in Nat /\ x.in_cluster \in Nat /\ x.in_cluster < bytes_per_cluster
            /\ bytes_per_cluster \in Nat \ {0}
          BY Sizes0 DEF Asked, Locals
      <3>3. (x.off + x.total) \div bytes_per_cluster = n
          BY <3>1, <3>2, DivUnique
      <3> QED
          BY <3>1, <3>3
    <2> QED
        BY <1>2, <2>1 DEF ChainInv, Follows
  <1> QED
      BY <1>1, <1>2, ReadClusterIs

(* The call.                                                               *)
LEMMA ReadFileChain ==
  ASSUME ReadInv, EntriesInv, FilesInv, NEW k \in DOMAIN entries, NEW off \in Offsets, NEW size \in Sizes,
         fat32_read_file(entries[k], off, size)
  PROVE  ChainInv'
  <1> DEFINE node == entries[k]
             x == Entered(node, off, size)
  <1>1. /\ node.start \in Nat /\ node.size \in Nat /\ off \in Nat /\ size \in Nat /\ off < node.size
        /\ out' = <<>> /\ InFat(node.start)
      BY Fat32Assumption DEF EntriesInv, FilesInv, fat32_read_file
  <1>2. \/ x.skip > 0 /\ r' = x /\ read_sector(FatSector(x.cluster), "skip")
        \/ ~ (x.skip > 0) /\ ReadCluster(x)
      BY DEF fat32_read_file, Entered
  <1> HIDE DEF node
  <1>3. /\ Asked(x) /\ x.skip = off \div bytes_per_cluster /\ x.total = 0
        /\ x.in_cluster = x.off % bytes_per_cluster /\ x.off = off
        /\ x.cluster = node.start /\ x.start = node.start
      BY <1>1, EnteredAsked
  <1> HIDE DEF x
  <1>4. Content(x, out')
      BY <1>1 DEF Content
  <1>5. bytes_per_cluster \in Nat \ {0} /\ x.off \in Nat
      BY <1>1, <1>3, Sizes0
  <1>6. /\ x.off = bytes_per_cluster * (x.off \div bytes_per_cluster) + (x.off % bytes_per_cluster)
        /\ x.off \div bytes_per_cluster \in Nat
      BY <1>5, DivMod
  <1>7. Nth(x.start, 0) = x.cluster /\ x.cluster < FAT_EOC
      BY <1>1, <1>3, NthIs DEF InFat
  <1>8. CASE x.skip > 0 /\ r' = x /\ read_sector(FatSector(x.cluster), "skip")
    <2>1. (x.off \div bytes_per_cluster) - x.skip = 0
        BY <1>3, <1>6
    <2>2. fpc' = "skip"
        BY <1>8 DEF read_sector
    <2> QED
        BY <1>1, <1>3, <1>4, <1>7, <1>8, <2>1, <2>2 DEF ChainInv, Follows
  <1>9. CASE ~ (x.skip > 0) /\ ReadCluster(x)
    <2>1. x.off \div bytes_per_cluster = 0 /\ x.off = x.in_cluster
        BY <1>3, <1>5, <1>6, <1>9
    <2>2. OnByte(x, 0)
        BY <1>3, <1>5, <1>7, <2>1 DEF OnByte
    <2> QED
        BY <1>1, <1>3, <1>4, <1>7, <1>9, <2>2, ReadClusterChain
  <1> QED
      BY <1>2, <1>8, <1>9

(* The entry that next_cluster returns continues the chain.                *)
LEMMA NextOnChain ==
  ASSUME Volume, NEW st, InFat(st), NEW k \in Nat, NEW c, c = Nth(st, k), c < FAT_EOC,
         sector_buf = FatSector(c), NEW d \in NextClusters(c)
  PROVE  d = Nth(st, k + 1)
  <1>1. InFat(c) /\ c \in Nat /\ Nth(st, k + 1) = After(c)
      BY NthInFat, NthIs
  <1>2. d = FAT[c]
      BY <1>1, NextClustersIs
  <1> QED
      BY <1>1, <1>2, Sizes0 DEF After

(* The skipping of the clusters before the offset.                         *)
LEMMA SkipEndChain ==
  ASSUME Volume, AtaInv, ReadInv, ChainInv, SkipEnd
  PROVE  ChainInv'
  <1> DEFINE q == r.off \div bytes_per_cluster
  <1>0. /\ fpc = "skip" /\ apc = "idle" /\ r \in Locals /\ Asked(r) /\ r.cluster \in Nat /\ r.skip \in Nat \ {0}
        /\ r.skip <= q /\ r.in_cluster = r.off % bytes_per_cluster /\ r.total = 0
        /\ req = FatSector(r.cluster) /\ InFat(r.start)
      BY DEF SkipEnd, Ended, ReadInv, ChainInv, Reading, Locals
  <1>1. PICK c \in NextClusters(r.cluster) :
          LET x == [r EXCEPT !.cluster = c, !.skip = r.skip - 1]
          IN  CASE c >= FAT_EOC -> r' = x /\ fpc' = "read" /\ UNCHANGED ataVars
                [] c < FAT_EOC /\ x.skip > 0 -> r' = x /\ read_sector(FatSector(c), "skip")
                [] OTHER -> ReadCluster(x)
      BY DEF SkipEnd
  <1>2. c \in Nat
      BY <1>0, NextClustersNat
  <1> DEFINE x == [r EXCEPT !.cluster = c, !.skip = r.skip - 1]
  <1>3. \/ c >= FAT_EOC /\ r' = x /\ fpc' = "read"
        \/ c < FAT_EOC /\ x.skip > 0 /\ r' = x /\ read_sector(FatSector(c), "skip")
        \/ c < FAT_EOC /\ ~ (x.skip > 0) /\ ReadCluster(x)
      BY <1>1, <1>2, Sizes0
  <1>4. /\ x \in Locals /\ x.cluster = c /\ x.skip = r.skip - 1
        /\ x.off = r.off /\ x.want = r.want /\ x.size = r.size /\ x.file_size = r.file_size
        /\ x.total = r.total /\ x.in_cluster = r.in_cluster /\ x.start = r.start
    <2>1. r.skip - 1 \in Nat
        BY <1>0
    <2> QED
        BY <1>0, <1>2, <2>1 DEF Locals
  <1> HIDE DEF x
  <1>5. bytes_per_cluster \in Nat \ {0} /\ r.off \in Nat
      BY <1>0, Sizes0 DEF Locals
  <1>6. r.off = bytes_per_cluster * q + (r.off % bytes_per_cluster) /\ q \in Nat
      BY <1>5, DivMod
  <1>7. UNCHANGED out /\ faulted' = NowFaulted
      BY DEF SkipEnd
  <1>8. Asked(x)
      BY <1>0, <1>4 DEF Asked
  <1> HIDE DEF q
  <1>9. q - r.skip \in Nat /\ (q - r.skip) + 1 = q - x.skip /\ (q - r.skip) + 1 \in Nat /\ (q - r.skip) + 1 <= q
      BY <1>0, <1>4, <1>6
  <1>10. ASSUME ~ faulted'
         PROVE  Content(x, out') /\ c = Nth(r.start, (q - r.skip) + 1)
    <2>1. sector_buf = FatSector(r.cluster) /\ ~ faulted
        BY <1>0, <1>7, <1>10, SectorThere
    <2>2. Content(r, out) /\ r.cluster = Nth(r.start, q - r.skip) /\ r.cluster < FAT_EOC
        BY <1>0, <2>1 DEF ChainInv, Reading, Follows, q
    <2>3. Content(x, out')
        BY <1>4, <1>7, <2>2 DEF Content
    <2>4. c = Nth(r.start, (q - r.skip) + 1)
        BY <1>0, <1>1, <1>9, <2>1, <2>2, NextOnChain
    <2> QED
        BY <2>3, <2>4
  <1>11. CASE c >= FAT_EOC /\ r' = x /\ fpc' = "read"
    <2>1. ASSUME ~ faulted' PROVE Nth(r.start, q) >= FAT_EOC
      <3>1. Nth(r.start, (q - r.skip) + 1) >= FAT_EOC
          BY <1>10, <1>11, <2>1
      <3> QED
          BY <1>6, <1>9, <3>1, NthStays
    <2>2. x.off + x.total = r.off
        BY <1>0, <1>4, <1>5
    <2>3. ASSUME ~ faulted' PROVE Nth(x.start, (x.off + x.total) \div bytes_per_cluster) >= FAT_EOC
        BY <1>4, <2>1, <2>2, <2>3 DEF q
    <2> QED
        BY <1>0, <1>4, <1>10, <1>11, <2>3 DEF ChainInv, Follows
  <1>12. CASE c < FAT_EOC /\ x.skip > 0 /\ r' = x /\ read_sector(FatSector(c), "skip")
    <2>1. fpc' = "skip"
        BY <1>12 DEF read_sector
    <2>2. ASSUME ~ faulted' PROVE x.cluster = Nth(x.start, (x.off \div bytes_per_cluster) - x.skip)
        BY <1>4, <1>9, <1>10, <2>2 DEF q
    <2> QED
        BY <1>0, <1>4, <1>10, <1>12, <2>1, <2>2 DEF ChainInv, Follows
  <1>13. CASE c < FAT_EOC /\ ~ (x.skip > 0) /\ ReadCluster(x)
    <2>1. (q - r.skip) + 1 = q
        BY <1>0, <1>4, <1>6, <1>9, <1>13
    <2>2. x.off + x.total = q * bytes_per_cluster + x.in_cluster
        BY <1>0, <1>4, <1>5, <1>6
    <2>3. ASSUME ~ faulted' PROVE Content(x, out') /\ x.cluster = Nth(x.start, q) /\ OnByte(x, q)
        BY <1>4, <1>6, <1>10, <2>1, <2>2, <2>3 DEF OnByte
    <2>4. InFat(x.start)
        BY <1>0, <1>4
    <2> QED
        BY <1>6, <1>8, <1>13, <2>3, <2>4, ReadClusterChain
  <1> QED
      BY <1>3, <1>11, <1>12, <1>13

(* The end of a cluster.                                                   *)
LEMMA NextEndChain ==
  ASSUME Volume, AtaInv, ReadInv, ChainInv, NextEnd
  PROVE  ChainInv'
  <1>0. /\ fpc = "next" /\ apc = "idle" /\ r \in Locals /\ Asked(r) /\ r.cluster \in Nat
        /\ r.in_cluster = 0 /\ req = FatSector(r.cluster) /\ InFat(r.start)
      BY DEF NextEnd, Ended, ReadInv, ChainInv, Reading, Locals
  <1>1. PICK c \in NextClusters(r.cluster) : ReadCluster([r EXCEPT !.cluster = c])
      BY DEF NextEnd
  <1>2. c \in Nat
      BY <1>0, NextClustersNat
  <1> DEFINE x == [r EXCEPT !.cluster = c]
  <1>3. /\ x \in Locals /\ x.cluster = c /\ x.start = r.start
        /\ x.off = r.off /\ x.want = r.want /\ x.size = r.size /\ x.file_size = r.file_size
        /\ x.total = r.total /\ x.in_cluster = r.in_cluster
      BY <1>0, <1>2 DEF Locals
  <1>4. ReadCluster(x)
      BY <1>1
  <1> HIDE DEF x
  <1>5. Asked(x) /\ InFat(x.start)
      BY <1>0, <1>3 DEF Asked
  <1>6. UNCHANGED out /\ faulted' = NowFaulted
      BY DEF NextEnd
  <1>7. CASE faulted'
      BY <1>4, <1>5, <1>7, ReadClusterChain
  <1>8. CASE ~ faulted'
    <2>1. sector_buf = FatSector(r.cluster) /\ ~ faulted
        BY <1>0, <1>6, <1>8, SectorThere
    <2>2. PICK n \in Nat : /\ r.cluster = Nth(r.start, n) /\ r.cluster < FAT_EOC
                           /\ r.total = r.size \/ r.off + r.total = (n + 1) * bytes_per_cluster
        BY <1>0, <2>1 DEF ChainInv, Reading, Follows
    <2>3. Content(x, out')
        BY <1>0, <1>3, <1>6, <2>1 DEF Content, ChainInv, Reading
    <2>4. c = Nth(r.start, n + 1)
        BY <1>0, <1>1, <2>1, <2>2, NextOnChain
    <2>5. (n + 1) * bytes_per_cluster + 0 = (n + 1) * bytes_per_cluster
        BY Sizes0
    <2>6. x.total = x.size \/ OnByte(x, n + 1)
        BY <1>0, <1>3, <2>2, <2>4, <2>5 DEF OnByte
    <2> QED
        BY <1>3, <1>4, <1>5, <2>3, <2>4, <2>6, ReadClusterChain
  <1> QED
      BY <1>7, <1>8

(* Byte m of o, counted from 0, is an old one or one of the n new ones.    *)
ByteIs(o, m, off, n) ==
    \/ m \in 0 .. Len(out) - 1 /\ o[m + 1] = out[m + 1]
    \/ \E j \in 0 .. n - 1 : m = Len(out) + j /\ o[m + 1] = <<sector_buf, off + j>>

(* The bytes after a sector has been copied.                               *)
LEMMA ByteAt ==
  ASSUME IsSeq(out), NEW off \in Nat, NEW n \in Nat, NEW o, o = out \o Bytes(off, n),
         NEW m \in Nat, m < Len(o)
  PROVE  ByteIs(o, m, off, n)
  <1>1. Len(out) \in Nat /\ Len(o) = Len(out) + n /\ Extended(o, off, n)
      BY BytesAppended
  <1>2. CASE m < Len(out)
    <2>1. m + 1 \in 1 .. Len(out) /\ m \in 0 .. Len(out) - 1
        BY ONLY <1>1, <1>2, m \in Nat
    <2> QED
        BY <1>1, <2>1 DEF Extended, ByteIs
  <1>3. CASE m >= Len(out)
    <2> DEFINE j == m - Len(out)
    <2>1. /\ m + 1 \in Len(out) + 1 .. Len(out) + n
          /\ j \in 0 .. n - 1 /\ off + ((m + 1) - Len(out)) - 1 = off + j /\ m = Len(out) + j
      <3>1. Len(out) \in Nat /\ m < Len(out) + n
          BY <1>1
      <3> QED
          BY ONLY <1>3, <3>1, m \in Nat, n \in Nat, off \in Nat
    <2>2. o[m + 1] = <<sector_buf, off + ((m + 1) - Len(out)) - 1>>
        BY <1>1, <2>1 DEF Extended
    <2> HIDE DEF j
    <2> QED
        BY <2>1, <2>2 DEF ByteIs
  <1> QED
      BY <1>1, <1>2, <1>3

(* Where a byte of the sector that is copied lies in its file.             *)
LEMMA ByteOfSector ==
  ASSUME Asked(r), InData(r), NEW n \in Nat, OnByte(r, n), NEW j \in Nat, j < Take,
         NEW k, k = r.off + (r.total + r.wrote + j)
  PROVE  Place(r.start, k) = <<cluster_to_lba(r.cluster) + r.sec_off, r.byte_off + j>>
         /\ Nth(r.start, k \div bytes_per_cluster) = r.cluster
  <1> DEFINE pos == r.off + r.total
             ic == r.in_cluster
             so == r.sec_off
             bo == r.byte_off
             at == ic + r.wrote + j
  <1>1. bytes_per_cluster \in Nat \ {0} /\ SECTOR \in Nat \ {0}
      BY Sizes0
  <1>2. /\ pos \in Nat /\ ic \in Nat /\ so \in Nat /\ bo \in Nat /\ r.wrote \in Nat /\ r.chunk \in Nat
        /\ r.total \in Nat /\ r.off \in Nat /\ k = pos + r.wrote + j
      BY DEF Asked, Locals
  <1>3. /\ Take \in Nat /\ r.wrote + Take <= r.chunk /\ bo + Take <= SECTOR
        /\ ic + r.chunk <= bytes_per_cluster
      BY TakeIs
  <1>4. pos = n * bytes_per_cluster + ic /\ so * SECTOR + bo = ic + r.wrote
      BY DEF OnByte, InData
  <1>5. n * bytes_per_cluster \in Nat /\ so * SECTOR \in Nat
      BY <1>1, <1>2
  <1> HIDE DEF pos, ic, so, bo, Take
  <1>6. at \in Nat /\ at < bytes_per_cluster /\ k \in Nat /\ k = n * bytes_per_cluster + at
      BY ONLY <1>1, <1>2, <1>3, <1>4, <1>5, j \in Nat, j < Take
  <1>7. bo + j \in Nat /\ bo + j < SECTOR /\ at = so * SECTOR + (bo + j)
      BY ONLY <1>1, <1>2, <1>3, <1>4, <1>5, j \in Nat, j < Take
  <1> HIDE DEF at
  <1>8. k \div bytes_per_cluster = n /\ k % bytes_per_cluster = at
      BY ONLY <1>1, <1>6, n \in Nat, DivUnique
  <1>9. at \div SECTOR = so /\ at % SECTOR = bo + j
    <2> DEFINE b == bo + j
    <2>1. b \in Nat /\ b < SECTOR /\ at = so * SECTOR + b
        BY <1>7
    <2>2. at \in Nat /\ so \in Nat /\ SECTOR \in Nat \ {0}
        BY <1>1, <1>2, <1>6
    <2> SUFFICES at \div SECTOR = so /\ at % SECTOR = b
        OBVIOUS
    <2> HIDE DEF b
    <2> QED
        BY ONLY <2>1, <2>2, DivUnique
  <1> QED
      BY <1>8, <1>9 DEF Place, OnByte, so, bo

(* The sector in the buffer holds the bytes of the file that come next.    *)
LEMMA SectorContent ==
  ASSUME Asked(r), InData(r), NEW n \in Nat, OnByte(r, n), r.cluster < FAT_EOC,
         IsSeq(out), Len(out) = r.total + r.wrote, Content(r, out),
         sector_buf = cluster_to_lba(r.cluster) + r.sec_off,
         NEW o, o = out \o Bytes(r.byte_off, Take)
  PROVE  Content(r, o)
  <1>1. r.wrote \in Nat /\ r.total \in Nat /\ r.off \in Nat /\ r.byte_off \in Nat
      BY DEF Asked, Locals
  <1>2. Take \in Nat
      BY TakeIs
  <1> HIDE DEF Take
  <1>3. Len(o) \in Nat
      BY <1>1, <1>2, BytesAppended
  <1> SUFFICES ASSUME NEW m \in Nat, m < Len(o)
               PROVE  /\ Nth(r.start, (r.off + m) \div bytes_per_cluster) < FAT_EOC
                      /\ o[m + 1] = Place(r.start, r.off + m)
    <2>1. \A m \in 0 .. Len(o) - 1 : m \in Nat /\ m < Len(o)
        BY ONLY <1>3
    <2> QED
        BY <2>1, Zenon DEF Content
  <1>4. ByteIs(o, m, r.byte_off, Take)
      BY <1>1, <1>2, ByteAt
  <1>5. CASE m \in 0 .. Len(out) - 1 /\ o[m + 1] = out[m + 1]
      BY <1>5 DEF Content
  <1>6. ASSUME NEW j \in 0 .. Take - 1, m = Len(out) + j, o[m + 1] = <<sector_buf, r.byte_off + j>>
        PROVE  /\ Nth(r.start, (r.off + m) \div bytes_per_cluster) < FAT_EOC
               /\ o[m + 1] = Place(r.start, r.off + m)
    <2>1. j \in Nat /\ j < Take
        BY ONLY <1>2, j \in 0 .. Take - 1
    <2>2. r.off + m = r.off + (r.total + r.wrote + j)
        BY <1>6
    <2>3. /\ Place(r.start, r.off + m) = <<cluster_to_lba(r.cluster) + r.sec_off, r.byte_off + j>>
          /\ Nth(r.start, (r.off + m) \div bytes_per_cluster) = r.cluster
        BY <2>1, <2>2, ByteOfSector
    <2> QED
        BY <1>6, <2>3
  <1> QED
      BY <1>4, <1>5, <1>6 DEF ByteIs

(* The copying of a sector.                                                *)
LEMMA DataEndChain ==
  ASSUME AtaInv, ReadInv, ChainInv, DataEnd
  PROVE  ChainInv'
  <1>0. /\ fpc = "data" /\ apc = "idle" /\ Asked(r) /\ InData(r) /\ r \in Locals /\ IsSeq(out)
        /\ Len(out) = r.total + r.wrote
        /\ req = cluster_to_lba(r.cluster) + r.sec_off /\ InFat(r.start)
      BY DEF DataEnd, Ended, ReadInv, ChainInv, Reading
  <1>1. /\ out' = out \o Bytes(r.byte_off, Take) /\ faulted' = NowFaulted
        /\ \/ r' = Copied /\ fpc' = "data"
           \/ ~ (Copied.wrote < Copied.chunk) /\ r' = Consumed(Copied) /\ fpc' = "next"
      BY DEF DataEnd, Take, Copied, read_sector
  <1>2. Take \in Nat
      BY <1>0, TakeIs
  <1>3. /\ r.wrote \in Nat /\ r.chunk \in Nat /\ r.total \in Nat /\ r.size \in Nat /\ r.sec_off \in Nat
        /\ r.in_cluster \in Nat /\ r.off \in Nat /\ bytes_per_cluster \in Nat \ {0}
      BY <1>0, Sizes0 DEF Locals
  <1> HIDE DEF Take
  <1>4. Copied \in Locals /\ SamePlace(r, Copied) /\ Copied.chunk = r.chunk
    <2>1. r.wrote + Take \in Nat /\ r.sec_off + 1 \in Nat
        BY <1>2, <1>3
    <2>2. Copied = [r EXCEPT !.wrote = r.wrote + Take, !.sec_off = r.sec_off + 1, !.byte_off = 0]
        BY DEF Copied
    <2>3. Copied \in Locals
        BY <1>0, <2>1, <2>2 DEF Locals
    <2> QED
        BY <1>0, <2>2, <2>3 DEF Locals, SamePlace
  <1>5. ASSUME ~ faulted'
        PROVE  /\ Content(r, out')
               /\ \E n \in Nat : OnByte(r, n) /\ r.cluster < FAT_EOC
    <2>1. sector_buf = cluster_to_lba(r.cluster) + r.sec_off /\ ~ faulted
        BY <1>0, <1>1, <1>5, SectorThere
    <2>2. PICK n \in Nat : OnByte(r, n) /\ r.cluster < FAT_EOC
        BY <1>0, <2>1 DEF ChainInv, Reading, Follows
    <2>3. Content(r, out)
        BY <1>0, <2>1 DEF ChainInv, Reading
    <2>4. Content(r, out')
        BY <1>0, <1>1, <2>1, <2>2, <2>3, SectorContent
    <2> QED
        BY <2>2, <2>4
  <1>6. CASE r' = Copied /\ fpc' = "data"
    <2>1. ASSUME ~ faulted' PROVE Content(r', out') /\ \E n \in Nat : OnByte(r', n) /\ r'.cluster < FAT_EOC
        BY <1>4, <1>5, <1>6, <2>1 DEF Content, OnByte, SamePlace
    <2>2. InFat(r'.start)
        BY <1>0, <1>4, <1>6 DEF SamePlace
    <2> QED
        BY <1>6, <2>1, <2>2 DEF ChainInv, Follows
  <1>7. CASE r' = Consumed(Copied) /\ fpc' = "next"
    <2> DEFINE y == Consumed(Copied)
    <2>1. /\ y.total = r.total + r.chunk /\ y.cluster = r.cluster /\ y.start = r.start
          /\ y.off = r.off /\ y.size = r.size
      <3>1. y = [Copied EXCEPT !.total = Copied.total + Copied.chunk, !.in_cluster = 0]
          BY DEF Consumed
      <3> HIDE DEF y, Copied
      <3> QED
          BY <1>4, <3>1 DEF Locals, SamePlace
    <2> HIDE DEF y
    <2>2. r' = y
        BY <1>7 DEF y
    <2>3. ASSUME ~ faulted'
          PROVE  \E n \in Nat : /\ y.cluster = Nth(y.start, n) /\ y.cluster < FAT_EOC
                                /\ y.total = y.size \/ y.off + y.total = (n + 1) * bytes_per_cluster
      <3>1. PICK n \in Nat : OnByte(r, n) /\ r.cluster < FAT_EOC
          BY <1>5, <2>3
      <3>2. (n + 1) * bytes_per_cluster = n * bytes_per_cluster + bytes_per_cluster /\ n * bytes_per_cluster \in Nat
          BY <1>3
      <3>3. y.total = y.size \/ y.off + y.total = (n + 1) * bytes_per_cluster
        <4>1. \/ r.chunk = r.size - r.total
              \/ r.chunk = bytes_per_cluster - r.in_cluster
            BY <1>0 DEF InData, Smaller
        <4>2. r.off + r.total = n * bytes_per_cluster + r.in_cluster
            BY <3>1 DEF OnByte
        <4> QED
            BY ONLY <1>3, <2>1, <3>2, <4>1, <4>2
      <3> QED
          BY <2>1, <3>1, <3>3 DEF OnByte
    <2>4. ASSUME ~ faulted' PROVE Content(y, out')
        BY <1>5, <2>1, <2>4 DEF Content
    <2> QED
        BY <1>0, <1>7, <2>1, <2>2, <2>3, <2>4 DEF ChainInv, Follows
  <1> QED
      BY <1>1, <1>6, <1>7

(* The chain's invariant is inductive on an undamaged volume.              *)
LEMMA ChainNextInv ==
  ASSUME Volume, AtaInv, ReadInv, EntriesInv, ChainInv, FilesInv, [Next]_vars
  PROVE  ChainInv' /\ FilesInv'
  <1>1. CASE fat32_mount \/ MountEnd
    <2>1. fpc' \notin Reading /\ UNCHANGED entries
        BY <1>1 DEF fat32_mount, MountEnd, read_sector, Reading, dirVars
    <2> QED
        BY <2>1 DEF ChainInv, FilesInv
  <1>2. CASE load_dir \/ SectorEnd \/ DirNext
    <2>1. ASSUME NEW c, LoadCluster(c) PROVE fpc' \notin Reading
        BY <2>1 DEF LoadCluster, LoadDone, read_sector, Reading
    <2>2. fpc' \notin Reading /\ entries' \in {<<>>, entries}
        BY <1>2, <2>1 DEF load_dir, SectorEnd, DirNext, Reading
    <2> QED
        BY <2>2 DEF ChainInv, FilesInv
  <1>3. CASE Scan
    <2>1. PICK de \in DirentsAt(i) : ScanEnd(de) \/ ScanSkip(de) \/ ScanLfn(de) \/ ScanNode(de)
        BY <1>3 DEF Scan
    <2>2. fpc = "scan" /\ i \in 1 .. DIRENTS
        BY <1>3 DEF Scan, EntriesInv
    <2>3. fpc' \notin Reading
      <3>1. CASE NextDirent
          BY <2>2, <3>1 DEF NextDirent, read_sector, Reading
      <3>2. CASE LoadDone
          BY <3>2 DEF LoadDone, Reading
      <3> QED
          BY <2>1, <3>1, <3>2 DEF ScanEnd, ScanSkip, ScanLfn, ScanNode
    <2>4. de.kind = "file" => InFat(de.start)
        BY <2>2 DEF Volume, DirentsAt
    <2>5. CASE entries' = entries
        BY <2>3, <2>5 DEF ChainInv, FilesInv
    <2>6. CASE de.kind \in {"file", "dir"} /\ entries' = Append(entries, Node(de, lfns))
      <3> DEFINE nd == Node(de, lfns)
      <3>1. nd.kind = "file" => InFat(nd.start)
          BY <2>4, <2>6 DEF Node, make_dir_node
      <3> HIDE DEF nd
      <3>2. /\ Len(entries) \in Nat /\ DOMAIN entries = 1 .. Len(entries)
            /\ DOMAIN entries' = 1 .. Len(entries) + 1
            /\ \A k \in 1 .. Len(entries) : entries'[k] = entries[k]
            /\ entries'[Len(entries) + 1] = nd
        <4>1. entries' = Append(entries, nd)
            BY <2>6 DEF nd
        <4>2. IsSeq(entries)
            BY DEF EntriesInv
        <4> QED
            BY <4>1, <4>2, AppendIs
      <3>3. ASSUME NEW k \in DOMAIN entries', entries'[k].kind = "file" PROVE InFat(entries'[k].start)
        <4>1. CASE k = Len(entries) + 1
            BY <3>1, <3>2, <3>3, <4>1
        <4>2. CASE k # Len(entries) + 1
          <5>1. k \in 1 .. Len(entries)
              BY <3>2, <4>2
          <5> QED
              BY <3>2, <3>3, <5>1 DEF FilesInv
        <4> QED
            BY <4>1, <4>2
      <3> QED
          BY <2>3, <3>3 DEF ChainInv, FilesInv
    <2> QED
        BY <2>1, <2>5, <2>6 DEF ScanEnd, ScanSkip, ScanLfn, ScanNode
  <1>4. CASE SkipEnd \/ DataEnd \/ NextEnd \/ Read
    <2>1. ChainInv'
        BY <1>4, SkipEndChain, DataEndChain, NextEndChain, ReadFileChain DEF Read
    <2>2. UNCHANGED entries
      <3>1. CASE SkipEnd \/ DataEnd \/ NextEnd
          BY <3>1 DEF SkipEnd, DataEnd, NextEnd, dirVars
      <3>2. CASE Read
          BY <3>2 DEF Read, fat32_read_file, dirVars
      <3> QED
          BY <1>4, <3>1, <3>2
    <2> QED
        BY <2>1, <2>2 DEF FilesInv
  <1>5. CASE Driver \/ Drive \/ UNCHANGED vars
    <2>1. UNCHANGED <<fpc, r, out, entries, faulted>>
        BY <1>5 DEF Driver, Drive, vars, readVars, dirVars
    <2> QED
        BY <2>1 DEF ChainInv, FilesInv
  <1> QED
      BY <1>1, <1>2, <1>3, <1>4, <1>5 DEF Next, FsStep

(* The number of bytes that Expected chooses.                              *)
IsCount(x, n) ==
    /\ n = x.want \/ x.off + n >= x.file_size \/
         Nth(x.start, (x.off + n) \div bytes_per_cluster) >= FAT_EOC
    /\ \A m \in 0 .. n - 1 :
         /\ x.off + m < x.file_size
         /\ Nth(x.start, (x.off + m) \div bytes_per_cluster) < FAT_EOC

(* Only one number of bytes is as many as were asked for or as there are.  *)
LEMMA CountUnique ==
  ASSUME Volume, NEW x, x \in Locals, InFat(x.start),
         NEW m \in 0 .. x.want, IsCount(x, m), NEW n \in 0 .. x.want, IsCount(x, n)
  PROVE  m = n
  <1>1. x.want \in Nat /\ x.off \in Nat /\ x.file_size \in Nat /\ FAT_EOC \in Nat
      BY Sizes0 DEF Locals
  <1>2. ASSUME NEW k \in 0 .. x.want, NEW l \in 0 .. x.want, IsCount(x, k), IsCount(x, l), k < l
        PROVE  FALSE
    <2>1. k \in 0 .. l - 1 /\ k # x.want /\ x.off + k \in Nat
        BY <1>1, <1>2
    <2>2. /\ x.off + k < x.file_size
          /\ Nth(x.start, (x.off + k) \div bytes_per_cluster) < FAT_EOC
        BY <1>2, <2>1 DEF IsCount
    <2>3. Nth(x.start, (x.off + k) \div bytes_per_cluster) \in Nat
      <3>1. (x.off + k) \div bytes_per_cluster \in Nat
          BY <2>1, Sizes0, DivMod
      <3> QED
          BY <3>1, NthInFat
    <2>4. \/ k = x.want \/ x.off + k >= x.file_size
          \/ Nth(x.start, (x.off + k) \div bytes_per_cluster) >= FAT_EOC
        BY <1>2 DEF IsCount
    <2> QED
        BY <1>1, <2>1, <2>2, <2>3, <2>4
  <1>3. m \in Int /\ n \in Int
      BY <1>1
  <1> QED
      BY <1>2, <1>3

(* What has been copied when fat32_read_file returns is what is expected.  *)
LEMMA ChainEnd ==
  ASSUME Volume, ReadInv, ChainInv
  PROVE  ReadsFile
  <1> SUFFICES ASSUME fpc = "read", ~ faulted PROVE out = Expected
      BY DEF ReadsFile
  <1>1. /\ InFat(r.start) /\ Content(r, out) /\ Asked(r) /\ r \in Locals /\ IsSeq(out) /\ Len(out) = r.total
        /\ \/ r.total = r.size
           \/ Nth(r.start, (r.off + r.total) \div bytes_per_cluster) >= FAT_EOC
      BY DEF ChainInv, ReadInv, Follows, Reading
  <1>2. /\ r.want \in Nat /\ r.off \in Nat /\ r.file_size \in Nat /\ r.total \in Nat /\ r.size \in Nat
        /\ r.total <= r.size /\ r.size = Clamp(r.off, r.want, r.file_size) /\ r.off < r.file_size
      BY <1>1 DEF Asked, Locals
  <1> DEFINE n == CHOOSE n \in 0 .. r.want : IsCount(r, n)
  <1>3. Expected = [k \in 1 .. n |-> Place(r.start, r.off + k - 1)]
      BY DEF Expected, IsCount
  <1>4. r.total \in 0 .. r.want /\ IsCount(r, r.total)
    <2>1. r.total <= r.want /\ r.off + r.size <= r.file_size
          /\ (r.total = r.size => r.total = r.want \/ r.off + r.total >= r.file_size)
        BY <1>2 DEF Clamp
    <2>2. ASSUME NEW m \in 0 .. r.total - 1
          PROVE  /\ r.off + m < r.file_size
                 /\ Nth(r.start, (r.off + m) \div bytes_per_cluster) < FAT_EOC
        BY <1>1, <1>2, <2>1 DEF Content
    <2> QED
        BY <1>1, <1>2, <2>1, <2>2 DEF IsCount
  <1>5. n \in 0 .. r.want /\ IsCount(r, n)
      BY <1>4
  <1> HIDE DEF n
  <1>6. n = r.total
      BY <1>1, <1>4, <1>5, CountUnique
  <1>7. out = [k \in 1 .. Len(out) |-> out[k]]
      BY <1>1 DEF IsSeq
  <1>8. ASSUME NEW k \in 1 .. r.total PROVE out[k] = Place(r.start, r.off + k - 1)
    <2>1. k - 1 \in 0 .. Len(out) - 1 /\ (k - 1) + 1 = k /\ r.off + (k - 1) = r.off + k - 1
        BY <1>1, <1>2
    <2>2. out[(k - 1) + 1] = Place(r.start, r.off + (k - 1))
        BY <1>1, <2>1 DEF Content
    <2> QED
        BY <2>1, <2>2
  <1> QED
      BY <1>1, <1>3, <1>6, <1>7, <1>8

(* On an undamaged volume a read during which the drive did not fail       *)
(* returns the bytes of the file, for every volume, offset and size.       *)
THEOREM Fat32ReadsFile == ASSUME Volume PROVE Spec => []ReadsFile
  <1>1. Init => ChainInv /\ FilesInv
      BY DEF Init, ChainInv, FilesInv, Reading
  <1>2. AtaInv /\ ReadInv /\ EntriesInv /\ ChainInv /\ FilesInv /\ [Next]_vars => ChainInv' /\ FilesInv'
      BY ChainNextInv
  <1>3. ReadInv /\ ChainInv => ReadsFile
      BY ChainEnd
  <1> QED
      BY <1>1, <1>2, <1>3, Fat32Ata, Fat32Inv, PTL DEF Spec

-----------------------------------------------------------------------------
(* The root directory.                                                     *)

(* The root directory is not damaged: it starts on a cluster, it ends, its *)
(* sectors are those of a directory, and no long name is longer than the   *)
(* format allows.                                                          *)
Directory ==
    /\ InFat(Bpb.root_cluster) \/ Bpb.root_cluster >= FAT_EOC
    /\ IsFiniteSet(DOMAIN Dirs)
    /\ \E k \in 0 .. Cardinality(DOMAIN Dirs) * DIRENTS : IsEnd(k)
    /\ \A k \in 0 .. DirLength : DirCluster(k) < FAT_EOC => DirSector(k) \in DOMAIN Dirs
    /\ \A k \in 0 .. DirLength : Cardinality(Pieces(k)) <= MAX_LFN

IsNode(k) == DirEntry(k).kind \in {"file", "dir"}

(* The end is an end.                                                      *)
LEMMA EndIs ==
  ASSUME Directory PROVE DirLength \in Nat /\ IsEnd(DirLength)
  <1> DEFINE n == Cardinality(DOMAIN Dirs) * DIRENTS
  <1>1. Cardinality(DOMAIN Dirs) \in Nat
      BY FS_CardinalityType DEF Directory
  <1>2. n \in Nat
      BY <1>1, Sizes0
  <1>3. \E k \in 0 .. n : IsEnd(k)
      BY DEF Directory
  <1>4. DirLength = CHOOSE k \in 0 .. n : IsEnd(k)
      BY DEF DirLength
  <1> HIDE DEF n
  <1>5. DirLength \in 0 .. n /\ IsEnd(DirLength)
      BY <1>3, <1>4, Zenon
  <1> QED
      BY <1>2, <1>5

(* Before the first entry that ends the directory there is no other.       *)
LEMMA UpToEnd ==
  ASSUME Directory, NEW p \in Nat, \A j \in 0 .. p - 1 : DirEntry(j).kind # "end"
  PROVE  /\ p \in 0 .. DirLength
         /\ DirEntry(p).kind = "end" => p = DirLength
         /\ DirEntry(p).kind # "end" => p < DirLength
  <1>1. DirLength \in Nat /\ DirEntry(DirLength).kind = "end"
        /\ \A j \in 0 .. DirLength - 1 : DirEntry(j).kind # "end"
      BY EndIs DEF IsEnd
  <1> DEFINE d == DirLength
  <1> HIDE DEF d
  <1>2. d \in Nat /\ DirEntry(d).kind = "end" /\ \A j \in 0 .. d - 1 : DirEntry(j).kind # "end"
      BY <1>1 DEF d
  <1>3. ~ (d < p)
    <2> SUFFICES ASSUME d < p PROVE FALSE
        OBVIOUS
    <2>1. d \in 0 .. p - 1
        BY <1>2
    <2> QED
        BY <1>2, <2>1
  <1>4. p < d => DirEntry(p).kind # "end"
    <2> SUFFICES ASSUME p < d PROVE DirEntry(p).kind # "end"
        OBVIOUS
    <2>1. p \in 0 .. d - 1
        BY <1>2
    <2> QED
        BY <1>2, <2>1
  <1>5. p \in 0 .. d /\ (p = d \/ p < d)
      BY <1>2, <1>3
  <1> QED
      BY <1>2, <1>4, <1>5 DEF d

(* How many files and directories there are before an entry.               *)
LEMMA NodesStep ==
  ASSUME NEW p \in Nat
  PROVE  /\ IsFiniteSet(NodesBefore(p)) /\ Cardinality(NodesBefore(p)) \in Nat
         /\ IsNode(p) => Cardinality(NodesBefore(p + 1)) = Cardinality(NodesBefore(p)) + 1
         /\ ~ IsNode(p) => NodesBefore(p + 1) = NodesBefore(p)
  <1>1. IsFiniteSet(0 .. p - 1)
      BY FS_Interval
  <1>2. NodesBefore(p) \subseteq 0 .. p - 1
      BY DEF NodesBefore
  <1>3. IsFiniteSet(NodesBefore(p)) /\ Cardinality(NodesBefore(p)) \in Nat
      BY <1>1, <1>2, FS_Subset, FS_CardinalityType
  <1>4. 0 .. (p + 1) - 1 = (0 .. p - 1) \cup {p} /\ p \notin 0 .. p - 1
      OBVIOUS
  <1>5. IsNode(p) => NodesBefore(p + 1) = NodesBefore(p) \cup {p}
      BY <1>4 DEF NodesBefore, IsNode
  <1>6. ~ IsNode(p) => NodesBefore(p + 1) = NodesBefore(p)
      BY <1>4 DEF NodesBefore, IsNode
  <1>7. p \notin NodesBefore(p)
      BY <1>2, <1>4
  <1>8. Cardinality(NodesBefore(p) \cup {p}) = Cardinality(NodesBefore(p)) + 1
      BY <1>3, <1>7, FS_AddElement
  <1> QED
      BY <1>3, <1>5, <1>6, <1>8

(* A node is the only one with its number.                                 *)
LEMMA NthNodeIs ==
  ASSUME Directory, NEW j \in Nat, j < DirLength, IsNode(j)
  PROVE  NthNode(Cardinality(NodesBefore(j)) + 1) = j
  <1> DEFINE C(p) == Cardinality(NodesBefore(p))
             d == DirLength
             g == NthNode(C(j) + 1)
  <1>1. d \in Nat
      BY EndIs
  <1>2. ASSUME NEW p \in Nat, NEW q \in Nat, p < q, IsNode(p) PROVE C(p) < C(q)
    <2>1. C(p) \in Nat /\ C(p + 1) = C(p) + 1
        BY <1>2, NodesStep
    <2>2. NodesBefore(p + 1) \subseteq NodesBefore(q)
        BY <1>2 DEF NodesBefore
    <2>3. IsFiniteSet(NodesBefore(q)) /\ C(q) \in Nat
        BY NodesStep
    <2>4. C(p + 1) <= C(q)
        BY <2>2, <2>3, FS_Subset
    <2> HIDE DEF C
    <2> QED
        BY <2>1, <2>3, <2>4
  <1>3. C(j) \in Nat
      BY NodesStep
  <1>4. j \in NodesBefore(d) /\ C(j) = (C(j) + 1) - 1
      BY <1>1, <1>3 DEF NodesBefore, IsNode
  <1>5. g = CHOOSE m \in NodesBefore(d) : C(m) = (C(j) + 1) - 1
      BY DEF NthNode
  <1> HIDE DEF g
  <1>6. g \in NodesBefore(d) /\ C(g) = C(j)
    <2> HIDE DEF C
    <2>1. g \in NodesBefore(d) /\ C(g) = (C(j) + 1) - 1
        BY <1>4, <1>5, Zenon
    <2> QED
        BY <1>3, <2>1
  <1>7. g \in Nat /\ IsNode(g)
      BY <1>1, <1>6 DEF NodesBefore, IsNode
  <1>8. g = j
    <2>1. ~ (g < j)
        BY <1>2, <1>3, <1>6, <1>7
    <2>2. ~ (j < g)
        BY <1>2, <1>3, <1>6, <1>7
    <2> QED
        BY <1>7, <2>1, <2>2
  <1> QED
      BY <1>8 DEF g

(* The sector and the entry that the loops of load_dir are at.             *)
LEMMA PlaceOfEntry ==
  ASSUME NEW n \in Nat, NEW t \in Nat, t < sectors_per_cluster, NEW e \in 0 .. DIRENTS - 1,
         NEW p, p = (n * sectors_per_cluster + t) * DIRENTS + e
  PROVE  /\ p \in Nat /\ p % DIRENTS = e
         /\ DirCluster(p) = Nth(Bpb.root_cluster, n)
         /\ DirSector(p) = cluster_to_lba(Nth(Bpb.root_cluster, n)) + t
  <1> DEFINE spc == sectors_per_cluster
             q == n * spc + t
  <1>1. spc \in Nat \ {0} /\ DIRENTS \in Nat \ {0} /\ e \in Nat /\ e < DIRENTS
      BY Sizes0
  <1> HIDE DEF spc
  <1>2. q \in Nat
      BY <1>1
  <1>3. p = q * DIRENTS + e
      BY DEF spc
  <1>4. t < spc
      BY DEF spc
  <1>5. q \div spc = n /\ q % spc = t
      BY ONLY <1>1, <1>2, <1>4, n \in Nat, t \in Nat, DivUnique
  <1> HIDE DEF q
  <1>6. p \in Nat
      BY <1>1, <1>2, <1>3
  <1>7. p \div DIRENTS = q /\ p % DIRENTS = e
      BY ONLY <1>1, <1>2, <1>3, <1>6, DivUnique
  <1> QED
      BY <1>5, <1>6, <1>7 DEF DirCluster, DirSector, spc

(* The long-name pieces kept at entry p are those right before it.         *)
Kept(p, ls) ==
    /\ IsSeq(ls) /\ Len(ls) <= p
    /\ \A q \in 1 .. Len(ls) : ls[q] = DirEntry((p - Len(ls)) + (q - 1)).name
    /\ \A m \in p - Len(ls) .. p - 1 : DirEntry(m).kind = "lfn"
    /\ Len(ls) < p => DirEntry(p - Len(ls) - 1).kind # "lfn"

(* A sequence has a length, and the empty one has none.                    *)
LEMMA SeqIs ==
  ASSUME NEW q, IsSeq(q)
  PROVE  Len(q) \in Nat /\ DOMAIN q = 1 .. Len(q) /\ (q = <<>> <=> Len(q) = 0)
  <1>1. PICK S : q \in Seq(S)
      BY DEF IsSeq
  <1> QED
      BY <1>1

(* So they are the pieces of the name of entry p.                          *)
LEMMA PiecesAre ==
  ASSUME NEW p \in Nat, NEW ls, Kept(p, ls)
  PROVE  Pieces(p) = p - Len(ls) .. p - 1 /\ Cardinality(Pieces(p)) = Len(ls)
  <1> DEFINE l == Len(ls)
             a == p - l
  <1>1. l \in Nat /\ l <= p /\ a \in Nat
      BY SeqIs DEF Kept
  <1>2. /\ \A m \in a .. p - 1 : DirEntry(m).kind = "lfn"
        /\ a > 0 => DirEntry(a - 1).kind # "lfn"
    <2>1. l < p => DirEntry(p - l - 1).kind # "lfn"
        BY DEF Kept
    <2>2. a > 0 => l < p /\ a - 1 = p - l - 1
        BY <1>1
    <2>3. \A m \in a .. p - 1 : DirEntry(m).kind = "lfn"
        BY DEF Kept
    <2> QED
        BY <2>1, <2>2, <2>3
  <1> HIDE DEF a
  <1>3. Pieces(p) = a .. p - 1
    <2>1. ASSUME NEW m \in Pieces(p) PROVE m \in a .. p - 1
      <3>1. m \in 0 .. p - 1 /\ \A q \in m .. p - 1 : DirEntry(q).kind = "lfn"
          BY DEF Pieces
      <3>2. ~ (m < a)
        <4> SUFFICES ASSUME m < a PROVE FALSE
            OBVIOUS
        <4>1. a - 1 \in m .. p - 1 /\ a > 0
          <5>1. a <= p
              BY <1>1 DEF a
          <5> QED
              BY <1>1, <3>1, <5>1
        <4> QED
            BY <1>2, <3>1, <4>1
      <3> QED
          BY <1>1, <3>1, <3>2
    <2>2. ASSUME NEW m \in a .. p - 1 PROVE m \in Pieces(p)
      <3>1. m \in 0 .. p - 1 /\ \A q \in m .. p - 1 : q \in a .. p - 1
          BY <1>1
      <3>2. \A q \in m .. p - 1 : DirEntry(q).kind = "lfn"
          BY <1>2, <3>1
      <3> QED
          BY <3>1, <3>2 DEF Pieces
    <2> QED
        BY <2>1, <2>2
  <1>4. Cardinality(a .. p - 1) = l
    <2>1. a \in Int /\ p - 1 \in Int
        BY <1>1
    <2>2. Cardinality(a .. p - 1) = IF a > p - 1 THEN 0 ELSE (p - 1) - a + 1
        BY <2>1, FS_Interval
    <2> QED
        BY <1>1, <2>2 DEF a
  <1> QED
      BY <1>3, <1>4 DEF a

(* The node made of an entry and the pieces kept is the one on the disk.   *)
LEMMA NodeIs ==
  ASSUME NEW p \in Nat, NEW ls, Kept(p, ls), IsNode(p)
  PROVE  Node(DirEntry(p), ls) = NodeAt(p)
  <1> DEFINE l == Len(ls)
             de == DirEntry(p)
             name == IF ls = <<>> THEN parse_83(de) ELSE parse_lfn(ls)
  <1>1. l \in Nat /\ (ls = <<>> <=> l = 0) /\ l <= p
      BY SeqIs DEF Kept
  <1>2. Pieces(p) = p - l .. p - 1 /\ Cardinality(Pieces(p)) = l
      BY PiecesAre
  <1>3. Pieces(p) = {} <=> l = 0
    <2>1. l = 0 => Pieces(p) = {}
        BY <1>1, <1>2
    <2>2. l # 0 => p - 1 \in Pieces(p)
        BY <1>1, <1>2
    <2> QED
        BY <2>1, <2>2
  <1>4. name = FullName(p)
    <2>1. CASE l = 0
        BY <1>1, <1>3, <2>1 DEF FullName, parse_83
    <2>2. CASE l # 0
      <3>1. FullName(p) = [q \in 1 .. l |-> DirEntry(p - q).name]
          BY <1>2, <1>3, <2>2 DEF FullName
      <3>2. name = [k \in 1 .. l |-> ls[l + 1 - k]]
          BY <1>1, <2>2 DEF parse_lfn
      <3>3. ASSUME NEW k \in 1 .. l PROVE ls[l + 1 - k] = DirEntry(p - k).name
        <4>1. l + 1 - k \in 1 .. l /\ (p - l) + ((l + 1 - k) - 1) = p - k
            BY <1>1
        <4>2. ls[l + 1 - k] = DirEntry((p - l) + ((l + 1 - k) - 1)).name
            BY <4>1 DEF Kept
        <4> QED
            BY <4>1, <4>2
      <3> HIDE DEF name, l
      <3> QED
          BY <3>1, <3>2, <3>3
    <2> QED
        BY <2>1, <2>2
  <1>5. Node(de, ls) = IF de.kind = "dir" THEN make_dir_node(name, de.start)
                       ELSE [name |-> name, kind |-> "file", start |-> de.start, size |-> de.size]
      BY DEF Node
  <1>6. NodeAt(p) = [name |-> name, kind |-> de.kind, start |-> de.start,
                     size |-> IF de.kind = "dir" THEN 0 ELSE de.size]
      BY <1>4 DEF NodeAt
  <1>7. de.kind \in {"file", "dir"}
      BY DEF IsNode
  <1> SUFFICES Node(de, ls) = NodeAt(p)
      OBVIOUS
  <1> HIDE DEF de, name
  <1>8. CASE de.kind = "dir"
      BY <1>5, <1>6, <1>8 DEF make_dir_node
  <1>9. CASE de.kind = "file"
      BY <1>5, <1>6, <1>9
  <1> QED
      BY <1>7, <1>8, <1>9

(* The nodes es and the pieces ls are what the entries before p stand for. *)
Got(p, es, ls) ==
    /\ p \in Nat
    /\ \A j \in 0 .. p - 1 : DirEntry(j).kind # "end"
    /\ Len(es) = Cardinality(NodesBefore(p))
    /\ \A k \in 1 .. Len(es) : es[k] = NodeAt(NthNode(k))
    /\ Kept(p, ls)

(* Nothing stands before the first entry.                                  *)
LEMMA GotNone == Got(0, <<>>, <<>>)
  <1>1. NodesBefore(0) = {}
      BY DEF NodesBefore
  <1>2. Cardinality({}) = 0
      BY FS_EmptySet
  <1>3. Len(<<>>) = 0 /\ IsSeq(<<>>)
    <2>1. <<>> \in Seq({})
        OBVIOUS
    <2> QED
        BY <2>1 DEF IsSeq
  <1>4. Kept(0, <<>>)
      BY <1>3 DEF Kept
  <1> QED
      BY <1>1, <1>2, <1>3, <1>4 DEF Got

(* At the end they are the listing.                                        *)
LEMMA GotAll ==
  ASSUME Directory, NEW p, NEW es, NEW ls, IsSeq(es), Got(p, es, ls), DirEntry(p).kind = "end"
  PROVE  es = Listing
  <1>1. p = DirLength
      BY UpToEnd DEF Got
  <1> DEFINE n == Cardinality(NodesBefore(DirLength))
  <1>2. Len(es) = n /\ \A k \in 1 .. Len(es) : es[k] = NodeAt(NthNode(k))
      BY <1>1 DEF Got
  <1>3. es = [k \in 1 .. Len(es) |-> es[k]]
      BY DEF IsSeq
  <1>4. Listing = [k \in 1 .. n |-> NodeAt(NthNode(k))]
      BY DEF Listing
  <1> HIDE DEF n
  <1> QED
      BY <1>2, <1>3, <1>4

(* The pieces kept after an entry that is not one.                         *)
LEMMA KeptNone ==
  ASSUME NEW p \in Nat, DirEntry(p).kind # "lfn"
  PROVE  Kept(p + 1, <<>>)
  <1>1. Len(<<>>) = 0 /\ IsSeq(<<>>)
    <2>1. <<>> \in Seq({})
        OBVIOUS
    <2> QED
        BY <2>1 DEF IsSeq
  <1>2. (p + 1) - 0 - 1 = p /\ (p + 1) - 0 .. (p + 1) - 1 = {}
      OBVIOUS
  <1> QED
      BY <1>1, <1>2 DEF Kept

(* The pieces kept after another one.                                      *)
LEMMA KeptMore ==
  ASSUME NEW p \in Nat, NEW ls, Kept(p, ls), DirEntry(p).kind = "lfn"
  PROVE  Kept(p + 1, Append(ls, DirEntry(p).name))
  <1> DEFINE l == Len(ls)
             nm == DirEntry(p).name
             ns == Append(ls, nm)
  <1>1. IsSeq(ls)
      BY DEF Kept
  <1>2. /\ IsSeq(ns) /\ l \in Nat /\ DOMAIN ns = 1 .. l + 1
        /\ \A k \in 1 .. l : ns[k] = ls[k]
        /\ ns[l + 1] = nm
      BY <1>1, AppendIs
  <1> HIDE DEF nm, ns
  <1>3. Len(ns) = l + 1
    <2>1. Len(ns) \in Nat /\ DOMAIN ns = 1 .. Len(ns)
        BY <1>2, SeqIs
    <2> HIDE DEF l
    <2> QED
        BY <1>2, <2>1, SameLength
  <1>4. l <= p /\ (p + 1) - (l + 1) = p - l /\ (p + 1) - 1 = p
      BY <1>2 DEF Kept
  <1>5. ASSUME NEW q \in 1 .. l + 1 PROVE ns[q] = DirEntry((p - l) + (q - 1)).name
    <2>1. CASE q = l + 1
      <3>1. (p - l) + (q - 1) = p
          BY <1>2, <2>1
      <3> QED
          BY <1>2, <2>1, <3>1 DEF nm
    <2>2. CASE q # l + 1
      <3>1. q \in 1 .. l
          BY <1>2, <2>2
      <3> QED
          BY <1>2, <3>1 DEF Kept
    <2> QED
        BY <2>1, <2>2
  <1>6. ASSUME NEW m \in p - l .. p PROVE DirEntry(m).kind = "lfn"
    <2>1. m = p \/ m \in p - l .. p - 1
        BY <1>2, <1>4
    <2> QED
        BY <2>1 DEF Kept
  <1>7. l + 1 < p + 1 => DirEntry((p - l) - 1).kind # "lfn"
      BY <1>2, <1>4 DEF Kept
  <1>8. /\ Len(ns) <= p + 1
        /\ \A q \in 1 .. Len(ns) : ns[q] = DirEntry(((p + 1) - Len(ns)) + (q - 1)).name
        /\ \A m \in (p + 1) - Len(ns) .. (p + 1) - 1 : DirEntry(m).kind = "lfn"
        /\ Len(ns) < p + 1 => DirEntry((p + 1) - Len(ns) - 1).kind # "lfn"
    <2> HIDE DEF l
    <2>1. (p + 1) - Len(ns) = p - l /\ l + 1 <= p + 1 /\ l \in Nat
        BY <1>2, <1>3, <1>4
    <2> QED
        BY <1>3, <1>4, <1>5, <1>6, <1>7, <2>1
  <1> QED
      BY <1>2, <1>8 DEF Kept, ns, nm

(* What a step of the scan makes of entry p.                               *)
LEMMA ScanGot ==
  ASSUME Directory, IsSeq(entries), NEW p, Got(p, entries, lfns), NEW de, de = DirEntry(p),
         ScanSkip(de) \/ ScanLfn(de) \/ ScanNode(de)
  PROVE  Got(p + 1, entries', lfns') /\ NextDirent
  <1>0. p \in Nat /\ Kept(p, lfns) /\ \A j \in 0 .. p - 1 : DirEntry(j).kind # "end"
      BY DEF Got
  <1>1. de.kind # "end"
      BY DEF ScanSkip, ScanLfn, ScanNode
  <1>2. p < DirLength /\ DirLength \in Nat /\ p + 1 \in Nat
      BY <1>0, <1>1, UpToEnd, EndIs
  <1>3. \A j \in 0 .. (p + 1) - 1 : DirEntry(j).kind # "end"
    <2>1. ASSUME NEW j \in 0 .. (p + 1) - 1 PROVE j = p \/ j \in 0 .. p - 1
        BY <1>0
    <2> QED
        BY <1>0, <1>1, <2>1
  <1>4. CASE ScanSkip(de) \/ ScanLfn(de)
    <2>1. entries' = entries /\ ~ IsNode(p) /\ NextDirent
        BY <1>4 DEF ScanSkip, ScanLfn, IsNode
    <2>2. NodesBefore(p + 1) = NodesBefore(p)
        BY <1>0, <2>1, NodesStep
    <2>3. Kept(p + 1, lfns')
      <3>1. CASE ScanSkip(de)
        <4>1. lfns' = <<>> /\ DirEntry(p).kind # "lfn"
            BY <3>1 DEF ScanSkip
        <4> QED
            BY <1>0, <4>1, KeptNone
      <3>2. CASE ScanLfn(de)
        <4>1. /\ lfns' = IF Len(lfns) < MAX_LFN THEN Append(lfns, DirEntry(p).name) ELSE lfns
              /\ DirEntry(p).kind = "lfn"
            BY <3>2 DEF ScanLfn
        <4> DEFINE ns == Append(lfns, DirEntry(p).name)
        <4>2. Kept(p + 1, ns)
            BY <1>0, <4>1, KeptMore
        <4>3. Len(ns) = Len(lfns) + 1 /\ Len(lfns) \in Nat
          <5>1. IsSeq(lfns)
              BY <1>0 DEF Kept
          <5>2. IsSeq(ns) /\ Len(lfns) \in Nat /\ DOMAIN ns = 1 .. Len(lfns) + 1
              BY <5>1, AppendIs
          <5> HIDE DEF ns
          <5>3. Len(ns) \in Nat /\ DOMAIN ns = 1 .. Len(ns)
              BY <5>2, SeqIs
          <5> QED
              BY <5>2, <5>3, SameLength
        <4> HIDE DEF ns
        <4>4. Len(ns) = Cardinality(Pieces(p + 1))
            BY <1>2, <4>2, PiecesAre
        <4>5. Cardinality(Pieces(p + 1)) <= MAX_LFN
          <5>1. p + 1 \in 0 .. DirLength
              BY <1>0, <1>2
          <5> QED
              BY <5>1 DEF Directory
        <4>6. MAX_LFN \in Nat
            BY Fat32Assumption
        <4>7. Len(lfns) < MAX_LFN
            BY <4>3, <4>4, <4>5, <4>6
        <4> QED
            BY <4>1, <4>2, <4>7 DEF ns
      <3> QED
          BY <1>4, <3>1, <3>2
    <2> QED
        BY <1>2, <1>3, <2>1, <2>2, <2>3 DEF Got
  <1>5. CASE ScanNode(de)
    <2> DEFINE nd == Node(de, lfns)
               n == Len(entries)
    <2>1. entries' = Append(entries, nd) /\ lfns' = <<>> /\ IsNode(p) /\ NextDirent
        BY <1>5 DEF ScanNode, IsNode
    <2>2. nd = NodeAt(p)
        BY <1>0, <2>1, NodeIs
    <2>3. n = Cardinality(NodesBefore(p)) /\ n \in Nat /\ Cardinality(NodesBefore(p + 1)) = n + 1
        BY <1>0, <2>1, NodesStep DEF Got
    <2>4. NthNode(n + 1) = p
        BY <1>0, <1>2, <2>1, <2>3, NthNodeIs
    <2> HIDE DEF nd
    <2>5. /\ IsSeq(entries') /\ DOMAIN entries' = 1 .. n + 1
          /\ \A k \in 1 .. n : entries'[k] = entries[k]
          /\ entries'[n + 1] = nd
        BY <2>1, AppendIs
    <2>6. Len(entries') = n + 1
      <3>1. Len(entries') \in Nat /\ DOMAIN entries' = 1 .. Len(entries')
          BY <2>5, SeqIs
      <3> HIDE DEF n
      <3> QED
          BY <2>3, <2>5, <3>1, SameLength
    <2>7. ASSUME NEW k \in 1 .. n + 1 PROVE entries'[k] = NodeAt(NthNode(k))
      <3>1. CASE k = n + 1
          BY <2>2, <2>4, <2>5, <3>1
      <3>2. CASE k # n + 1
        <4>1. k \in 1 .. n
            BY <2>3, <3>2
        <4> QED
            BY <2>5, <4>1 DEF Got
      <3> QED
          BY <3>1, <3>2
    <2>8. Kept(p + 1, lfns')
      <3>1. DirEntry(p).kind # "lfn"
          BY <2>1 DEF IsNode
      <3> QED
          BY <1>0, <2>1, <3>1, KeptNone
    <2> QED
        BY <1>2, <1>3, <2>1, <2>3, <2>6, <2>7, <2>8 DEF Got
  <1> QED
      BY <1>4, <1>5

(* Where load_dir is when it has followed n links of the root directory's  *)
(* chain, and what it has made of the entries up to there.                 *)
EntriesPassed(n) ==
    CASE fpc = "dir_sector" -> (n * sectors_per_cluster + s) * DIRENTS
      [] fpc = "scan" -> (n * sectors_per_cluster + s) * DIRENTS + (i - 1)
      [] fpc = "dir_next" -> ((n + 1) * sectors_per_cluster) * DIRENTS

LoadingAt(n) ==
    /\ cluster = Nth(Bpb.root_cluster, n) /\ InFat(cluster)
    /\ fpc \in {"dir_sector", "scan"} => s \in 0 .. sectors_per_cluster - 1
    /\ fpc = "dir_sector" => req = cluster_to_lba(cluster) + s
    /\ fpc = "scan" => apc = "idle" /\ sector_buf = cluster_to_lba(cluster) + s
    /\ fpc = "dir_next" => req = FatSector(cluster)
    /\ Got(EntriesPassed(n), entries, lfns)

Loading == {"dir_sector", "scan", "dir_next"}
Starting == {"unmounted", "mount", "mounted"}

(* As long as no read failed, the nodes made are those of the entries      *)
(* passed; and once the directory is loaded, those of the whole.           *)
DirInv ==
    /\ fpc \in Starting => lfns = <<>>
    /\ fpc = "scan" => loadFaulted = faulted
    /\ fpc \in Loading /\ ~ faulted => \E n \in Nat : LoadingAt(n)
    /\ fpc \in Reading \cup {"loaded"} /\ ~ loadFaulted => entries = Listing

(* The entry that the scan looks at.                                       *)
LEMMA ScannedEntry ==
  ASSUME Directory, EntriesInv, fpc = "scan", NEW n \in Nat, LoadingAt(n), NEW de \in DirentsAt(i)
  PROVE  de = DirEntry(EntriesPassed(n))
  <1> DEFINE p == EntriesPassed(n)
             e == i - 1
  <1>1. i \in 1 .. DIRENTS /\ e \in 0 .. DIRENTS - 1 /\ e + 1 = i /\ DIRENTS \in Nat
      BY Sizes0 DEF EntriesInv
  <1>2. s \in 0 .. sectors_per_cluster - 1 /\ s \in Nat /\ s < sectors_per_cluster
      BY Sizes0 DEF LoadingAt
  <1>3. p = (n * sectors_per_cluster + s) * DIRENTS + e
      BY DEF EntriesPassed
  <1>4. Got(p, entries, lfns) /\ cluster = Nth(Bpb.root_cluster, n) /\ InFat(cluster)
        /\ sector_buf = cluster_to_lba(cluster) + s
      BY DEF LoadingAt
  <1> HIDE DEF p, e
  <1>5. /\ p \in Nat /\ p % DIRENTS = e
        /\ DirCluster(p) = cluster
        /\ DirSector(p) = sector_buf
      BY <1>1, <1>2, <1>3, <1>4, PlaceOfEntry
  <1>6. p \in 0 .. DirLength
      BY <1>4, UpToEnd DEF Got
  <1>7. cluster < FAT_EOC /\ ~ (cluster >= FAT_EOC)
      BY <1>4, Sizes0, Fat32Assumption DEF InFat
  <1>8. sector_buf \in DOMAIN Dirs
      BY <1>5, <1>6, <1>7 DEF Directory
  <1>9. DirEntry(p) = Dirs[sector_buf][i]
      BY <1>1, <1>5, <1>7 DEF DirEntry
  <1> QED
      BY <1>8, <1>9 DEF DirentsAt, p

(* Numbers as the loops of load_dir count them.                            *)
LEMMA PassedNext ==
  ASSUME NEW n \in Nat, NEW t \in Nat, NEW e \in Nat, NEW spc \in Nat, NEW d \in Nat
  PROVE  /\ ((n * spc + t) * d + e) + 1 = (n * spc + t) * d + (e + 1)
         /\ (n * spc + t) * d + d = (n * spc + (t + 1)) * d
         /\ n * spc + spc = (n + 1) * spc
  <1>1. ((n * spc + t) * d + e) + 1 = (n * spc + t) * d + (e + 1)
    <2> DEFINE x == (n * spc + t) * d
    <2>1. x \in Int
        OBVIOUS
    <2> HIDE DEF x
    <2>2. (x + e) + 1 = x + (e + 1)
        BY <2>1
    <2> QED
        BY <2>2 DEF x
  <1>2. (n * spc + t) * d + d = (n * spc + (t + 1)) * d
    <2> DEFINE x == n * spc
    <2>1. x \in Nat
        OBVIOUS
    <2> HIDE DEF x
    <2>2. (x + t) * d + d = (x + (t + 1)) * d
        BY <2>1
    <2> QED
        BY <2>2 DEF x
  <1>3. n * spc + spc = (n + 1) * spc
      OBVIOUS
  <1> QED
      BY <1>1, <1>2, <1>3

(* Going on to the next entry, sector or cluster.                          *)
LEMMA NextDirentGot ==
  ASSUME EntriesInv, fpc = "scan", NEW n \in Nat, LoadingAt(n), NextDirent,
         Got(EntriesPassed(n) + 1, entries', lfns')
  PROVE  fpc' \in Loading /\ LoadingAt(n)'
  <1> DEFINE spc == sectors_per_cluster
             p == (n * spc + s) * DIRENTS + (i - 1)
  <1>1. i \in 1 .. DIRENTS /\ DIRENTS \in Nat /\ spc \in Nat
      BY Sizes0 DEF EntriesInv
  <1>2. s \in 0 .. spc - 1 /\ s \in Nat
      BY <1>1 DEF LoadingAt
  <1>3. EntriesPassed(n) = p
      BY DEF EntriesPassed
  <1>4. Got(p + 1, entries', lfns')
      BY <1>3
  <1>5. cluster' = cluster /\ cluster = Nth(Bpb.root_cluster, n) /\ InFat(cluster)
      BY DEF LoadingAt, NextDirent
  <1> HIDE DEF spc
  <1>6. /\ i - 1 \in Nat /\ (i - 1) + 1 = i
        /\ p + 1 = (n * spc + s) * DIRENTS + i
        /\ (n * spc + s) * DIRENTS + DIRENTS = (n * spc + (s + 1)) * DIRENTS
        /\ n * spc + spc = (n + 1) * spc
    <2> DEFINE e == i - 1
    <2>1. e \in Nat /\ e + 1 = i
        BY <1>1
    <2>2. p = (n * spc + s) * DIRENTS + e
        OBVIOUS
    <2> HIDE DEF e, p
    <2> QED
        BY <1>1, <1>2, <2>1, <2>2, PassedNext DEF e
  <1> HIDE DEF p
  <1>7. CASE i < DIRENTS
    <2>1. i' = i + 1 /\ UNCHANGED <<fpc, s, apc, sector_buf>>
        BY <1>7 DEF NextDirent, ataVars
    <2>2. EntriesPassed(n)' = (n * spc + s') * DIRENTS + (i' - 1)
        BY <2>1 DEF EntriesPassed, spc
    <2>3. i' - 1 = i
        BY <1>1, <2>1
    <2>4. EntriesPassed(n)' = p + 1
        BY <1>6, <2>1, <2>2, <2>3
    <2>5. apc = "idle" /\ sector_buf = cluster_to_lba(cluster) + s
        BY DEF LoadingAt
    <2> QED
        BY <1>2, <1>4, <1>5, <2>1, <2>4, <2>5 DEF LoadingAt, Loading, spc
  <1>8. CASE ~ (i < DIRENTS)
    <2>1. i = DIRENTS /\ s' = s + 1
        BY <1>1, <1>8 DEF NextDirent
    <2>2. p + 1 = (n * spc + (s + 1)) * DIRENTS
        BY <1>6, <2>1
    <2>3. CASE s + 1 < spc
      <3>1. fpc' = "dir_sector" /\ req' = cluster_to_lba(cluster) + s'
          BY <1>8, <2>1, <2>3 DEF NextDirent, read_sector, ata_read, spc
      <3>2. EntriesPassed(n)' = p + 1
          BY <2>1, <2>2, <3>1 DEF EntriesPassed, spc
      <3>3. s' \in 0 .. spc - 1
          BY <1>1, <1>2, <2>1, <2>3
      <3> QED
          BY <1>4, <1>5, <3>1, <3>2, <3>3 DEF LoadingAt, Loading, spc
    <2>4. CASE ~ (s + 1 < spc)
      <3>1. fpc' = "dir_next" /\ req' = FatSector(cluster)
          BY <1>8, <2>1, <2>4 DEF NextDirent, read_sector, ata_read, spc
      <3>2. s + 1 = spc
          BY <1>1, <1>2, <2>4
      <3>3. p + 1 = ((n + 1) * spc) * DIRENTS
          BY <1>6, <2>2, <3>2
      <3>4. EntriesPassed(n)' = p + 1
          BY <3>1, <3>3 DEF EntriesPassed, spc
      <3> QED
          BY <1>4, <1>5, <3>1, <3>4 DEF LoadingAt, Loading
    <2> QED
        BY <2>3, <2>4
  <1> QED
      BY <1>7, <1>8

(* Entering a cluster, or finding the end of the chain, after n links.     *)
LEMMA LoadClusterGot ==
  ASSUME Directory, NEW n \in Nat, NEW c, c \in Nat, c = Nth(Bpb.root_cluster, n), c < FAT_EOC => InFat(c),
         LoadCluster(c), IsSeq(entries'), Got((n * sectors_per_cluster) * DIRENTS, entries', lfns)
  PROVE  \/ fpc' \in Loading \ {"scan"} /\ LoadingAt(n)'
         \/ fpc' = "loaded" /\ entries' = Listing
  <1> DEFINE spc == sectors_per_cluster
             p == (n * spc) * DIRENTS
  <1>1. spc \in Nat \ {0} /\ DIRENTS \in Nat \ {0} /\ FAT_EOC \in Nat /\ n * spc + 0 = n * spc
      BY Sizes0
  <1>2. Got(p, entries', lfns)
      OBVIOUS
  <1>3. CASE c < FAT_EOC
    <2>1. cluster' = c /\ s' = 0 /\ fpc' = "dir_sector" /\ req' = cluster_to_lba(c) /\ lfns' = lfns
        BY <1>3 DEF LoadCluster, read_sector, ata_read
    <2>2. EntriesPassed(n)' = p
        BY <1>1, <2>1 DEF EntriesPassed
    <2>3. cluster_to_lba(c) \in Int
      <3>1. data_lba \in Nat
          BY Sizes0
      <3> HIDE DEF data_lba
      <3> QED
          BY <1>1, <3>1 DEF cluster_to_lba
    <2>4. req' = cluster_to_lba(cluster') + s' /\ s' \in 0 .. spc - 1
        BY <1>1, <2>1, <2>3
    <2>5. Got(EntriesPassed(n)', entries', lfns')
        BY <1>2, <2>1, <2>2
    <2> QED
        BY <1>3, <2>1, <2>4, <2>5 DEF LoadingAt, Loading
  <1>4. CASE ~ (c < FAT_EOC)
    <2>1. fpc' = "loaded"
        BY <1>4 DEF LoadCluster, LoadDone
    <2>2. p = (n * spc + 0) * DIRENTS + 0 /\ 0 < spc /\ 0 \in 0 .. DIRENTS - 1
      <3> DEFINE x == n * spc
      <3>1. x \in Nat
          BY <1>1
      <3> HIDE DEF x
      <3>2. x * DIRENTS = (x + 0) * DIRENTS + 0
          BY <1>1, <3>1
      <3> QED
          BY <1>1, <3>2 DEF x
    <2> HIDE DEF p
    <2>3. DirCluster(p) = c
        BY <2>2, PlaceOfEntry
    <2>4. DirEntry(p).kind = "end"
      <3>1. c >= FAT_EOC
          BY <1>1, <1>4
      <3> QED
          BY <2>3, <3>1 DEF DirEntry
    <2>5. entries' = Listing
        BY <1>2, <2>4, GotAll
    <2> QED
        BY <2>1, <2>5
  <1> QED
      BY <1>3, <1>4

(* The directory's invariant is inductive on an undamaged volume.          *)
LEMMA DirNextInv ==
  ASSUME Volume, Directory, AtaInv, ReadInv, EntriesInv, EntriesInv', DirInv, [Next]_vars
  PROVE  DirInv'
  <1>0. IsSeq(entries) /\ IsSeq(entries')
      BY DEF EntriesInv
  <1>1. CASE fat32_mount \/ MountEnd
    <2>1. /\ fpc' \notin Loading \cup Reading \cup {"loaded"} /\ fpc \in Starting /\ lfns' = lfns
        BY <1>1 DEF fat32_mount, MountEnd, Ended, read_sector, Loading, Reading, Starting, dirVars
    <2> QED
        BY <2>1 DEF DirInv, Loading
  <1>2. CASE load_dir
    <2> DEFINE c == Bpb.root_cluster
    <2>1. LoadCluster(c) /\ entries' = <<>> /\ c \in Nat /\ (c < FAT_EOC => InFat(c)) /\ lfns = <<>>
      <3>1. LoadCluster(c) /\ entries' = <<>> /\ fpc = "mounted"
          BY <1>2 DEF load_dir
      <3>2. c \in Nat /\ FAT_EOC \in Nat
          BY Sizes0, Fat32Assumption
      <3>3. c < FAT_EOC => InFat(c)
          BY <3>2 DEF Directory
      <3> QED
          BY <3>1, <3>2, <3>3 DEF DirInv, Starting
    <2>2. c = Nth(Bpb.root_cluster, 0)
        BY NthIs
    <2>3. (0 * sectors_per_cluster) * DIRENTS = 0
        BY Sizes0
    <2>4. Got((0 * sectors_per_cluster) * DIRENTS, entries', lfns)
        BY <2>1, <2>3, GotNone
    <2> HIDE DEF c
    <2>5. \/ fpc' \in Loading \ {"scan"} /\ LoadingAt(0)'
          \/ fpc' = "loaded" /\ entries' = Listing
        BY <1>0, <2>1, <2>2, <2>4, LoadClusterGot
    <2> QED
        BY <2>5 DEF DirInv, Loading, Reading, Starting
  <1>3. CASE SectorEnd
    <2>1. /\ fpc = "dir_sector" /\ apc = "idle" /\ fpc' = "scan" /\ i' = 1
          /\ faulted' = NowFaulted /\ loadFaulted' = NowFaulted
          /\ UNCHANGED <<apc, sector_buf, cluster, s, lfns, entries>>
        BY <1>3 DEF SectorEnd, Ended, ataVars
    <2>2. ASSUME ~ faulted' PROVE \E n \in Nat : LoadingAt(n)'
      <3>1. sector_buf = req /\ ~ faulted
          BY <2>1, <2>2, SectorThere
      <3>2. PICK n \in Nat : LoadingAt(n)
          BY <2>1, <3>1 DEF DirInv, Loading
      <3> DEFINE p == (n * sectors_per_cluster + s) * DIRENTS
      <3>3. /\ cluster = Nth(Bpb.root_cluster, n) /\ InFat(cluster)
            /\ s \in 0 .. sectors_per_cluster - 1 /\ req = cluster_to_lba(cluster) + s
          BY <2>1, <3>2 DEF LoadingAt
      <3>4. Got(p, entries, lfns)
          BY <2>1, <3>2 DEF LoadingAt, EntriesPassed
      <3>5. EntriesPassed(n)' = p + (1 - 1)
          BY <2>1 DEF EntriesPassed
      <3>6. p \in Nat
          BY <3>4 DEF Got
      <3> HIDE DEF p
      <3>7. EntriesPassed(n)' = p
          BY <3>5, <3>6
      <3> QED
          BY <2>1, <3>1, <3>3, <3>4, <3>7 DEF LoadingAt
    <2> QED
        BY <2>1, <2>2 DEF DirInv, Loading, Reading, Starting
  <1>4. CASE Scan
    <2>1. PICK de \in DirentsAt(i) : ScanEnd(de) \/ ScanSkip(de) \/ ScanLfn(de) \/ ScanNode(de)
        BY <1>4 DEF Scan
    <2>2. fpc = "scan" /\ UNCHANGED <<faulted, loadFaulted>> /\ loadFaulted = faulted
        BY <1>4 DEF Scan, DirInv
    <2>3. fpc' \in Loading \cup {"loaded"}
      <3>1. CASE NextDirent
          BY <2>2, <3>1 DEF NextDirent, read_sector, Loading
      <3>2. CASE LoadDone
          BY <3>2 DEF LoadDone
      <3> QED
          BY <2>1, <3>1, <3>2 DEF ScanEnd, ScanSkip, ScanLfn, ScanNode
    <2>4. CASE faulted
        BY <2>2, <2>3, <2>4 DEF DirInv, Loading, Starting
    <2>5. CASE ~ faulted
      <3>1. PICK n \in Nat : LoadingAt(n)
          BY <2>2, <2>5 DEF DirInv, Loading
      <3>2. de = DirEntry(EntriesPassed(n))
          BY <2>2, <3>1, ScannedEntry
      <3>3. Got(EntriesPassed(n), entries, lfns)
          BY <3>1 DEF LoadingAt
      <3>4. CASE ScanEnd(de)
        <4>1. de.kind = "end" /\ entries' = entries /\ fpc' = "loaded"
            BY <3>4 DEF ScanEnd, LoadDone
        <4>2. entries = Listing
            BY <1>0, <3>2, <3>3, <4>1, GotAll
        <4> QED
            BY <4>1, <4>2 DEF DirInv, Loading, Reading, Starting
      <3>5. CASE ScanSkip(de) \/ ScanLfn(de) \/ ScanNode(de)
        <4>1. Got(EntriesPassed(n) + 1, entries', lfns') /\ NextDirent
            BY <1>0, <3>2, <3>3, <3>5, ScanGot
        <4>2. fpc' \in Loading /\ LoadingAt(n)'
            BY <2>2, <3>1, <4>1, NextDirentGot
        <4> QED
            BY <2>2, <4>2 DEF DirInv, Loading, Reading, Starting
      <3> QED
          BY <2>1, <3>4, <3>5
    <2> QED
        BY <2>4, <2>5
  <1>5. CASE DirNext
    <2>1. /\ fpc = "dir_next" /\ apc = "idle" /\ entries' = entries
          /\ faulted' = NowFaulted /\ loadFaulted' = NowFaulted
        BY <1>5 DEF DirNext, Ended
    <2>2. PICK c \in NextClusters(cluster) : LoadCluster(c)
        BY <1>5 DEF DirNext
    <2>3. fpc' \in {"dir_sector", "loaded"}
        BY <2>2 DEF LoadCluster, LoadDone, read_sector
    <2>4. CASE faulted'
        BY <2>1, <2>3, <2>4 DEF DirInv, Loading, Starting
    <2>5. CASE ~ faulted'
      <3>1. sector_buf = req /\ ~ faulted
          BY <2>1, <2>5, SectorThere
      <3>2. PICK n \in Nat : LoadingAt(n)
          BY <2>1, <3>1 DEF DirInv, Loading
      <3>3. /\ cluster = Nth(Bpb.root_cluster, n) /\ InFat(cluster) /\ req = FatSector(cluster)
            /\ Got(((n + 1) * sectors_per_cluster) * DIRENTS, entries, lfns)
          BY <2>1, <3>2 DEF LoadingAt, EntriesPassed
      <3>4. c = FAT[cluster]
          BY <2>2, <3>1, <3>3, NextClustersIs
      <3>5. c \in Nat /\ (c < FAT_EOC => InFat(c))
          BY <3>3, <3>4, Fat32Assumption DEF InFat, Volume
      <3>6. c = Nth(Bpb.root_cluster, n + 1) /\ n + 1 \in Nat
        <4>1. ~ (cluster >= FAT_EOC)
            BY <3>3, Sizes0, Fat32Assumption DEF InFat
        <4>2. Nth(Bpb.root_cluster, n + 1) = After(cluster)
            BY <3>3, NthIs
        <4> QED
            BY <3>4, <4>1, <4>2 DEF After
      <3>7. \/ fpc' \in Loading \ {"scan"} /\ LoadingAt(n + 1)'
            \/ fpc' = "loaded" /\ entries' = Listing
          BY <1>0, <2>1, <2>2, <3>3, <3>5, <3>6, LoadClusterGot
      <3> QED
          BY <3>6, <3>7 DEF DirInv, Loading, Reading, Starting
    <2> QED
        BY <2>4, <2>5
  <1>6. CASE SkipEnd \/ DataEnd \/ NextEnd \/ Read
    <2>1. ASSUME NEW x, ReadCluster(x) PROVE fpc' \in Reading
        BY <2>1 DEF ReadCluster, read_sector, Reading
    <2>2. fpc \in Reading \cup {"loaded"} /\ fpc' \in Reading /\ UNCHANGED dirVars
      <3>1. CASE SkipEnd
        <4>1. PICK c, x : fpc' = "read" \/ read_sector(FatSector(c), "skip") \/ ReadCluster(x)
            BY <3>1 DEF SkipEnd
        <4> QED
            BY <2>1, <3>1, <4>1 DEF SkipEnd, Ended, read_sector, Reading
      <3>2. CASE DataEnd
          BY <3>2 DEF DataEnd, Ended, read_sector, Reading
      <3>3. CASE NextEnd
          BY <2>1, <3>3 DEF NextEnd, Ended, Reading
      <3>4. ASSUME NEW node, NEW off, NEW size, fat32_read_file(node, off, size)
            PROVE  fpc \in Reading \cup {"loaded"} /\ fpc' \in Reading /\ UNCHANGED dirVars
        <4>1. PICK x : read_sector(FatSector(x.cluster), "skip") \/ ReadCluster(x)
            BY <3>4 DEF fat32_read_file
        <4> QED
            BY <2>1, <3>4, <4>1 DEF fat32_read_file, read_sector, Reading
      <3> QED
          BY <1>6, <3>1, <3>2, <3>3, <3>4 DEF Read
    <2> QED
        BY <2>2 DEF DirInv, Reading, Loading, Starting, dirVars
  <1>7. CASE Driver \/ Drive \/ UNCHANGED vars
    <2>1. UNCHANGED <<fpc, cluster, s, i, lfns, entries, loadFaulted, faulted, req>>
        BY <1>7 DEF Driver, Drive, vars, dirVars, ataVars, AtaStep, WaitBusy, WaitDrq, Answer
    <2>2. ASSUME apc = "idle" PROVE UNCHANGED <<apc, sector_buf>>
        BY <1>7, <2>2 DEF Driver, Drive, vars, ataVars, AtaStep, WaitBusy, WaitDrq, Answer
    <2>3. ASSUME NEW n \in Nat, LoadingAt(n) PROVE LoadingAt(n)'
      <3>1. EntriesPassed(n)' = EntriesPassed(n)
          BY <2>1 DEF EntriesPassed
      <3>2. fpc = "scan" => apc = "idle"
          BY <2>3 DEF LoadingAt
      <3> QED
          BY <2>1, <2>2, <2>3, <3>1, <3>2 DEF LoadingAt
    <2> QED
        BY <2>1, <2>3 DEF DirInv
  <1> QED
      BY <1>1, <1>2, <1>3, <1>4, <1>5, <1>6, <1>7 DEF Next, FsStep

(* On an undamaged volume a directory loaded while the drive did not fail  *)
(* lists every file and directory once, in order and with its own name,    *)
(* however its entries and long names lie across sectors and clusters.     *)
THEOREM Fat32LoadsDirectory ==
  ASSUME Volume, Directory PROVE Spec => []LoadsDirectory
  <1>1. Init => DirInv
      BY DEF Init, DirInv, Loading, Reading
  <1>2. AtaInv /\ ReadInv /\ EntriesInv /\ EntriesInv' /\ DirInv /\ [Next]_vars => DirInv'
      BY DirNextInv
  <1>3. DirInv => LoadsDirectory
      BY DEF DirInv, LoadsDirectory, Reading
  <1> QED
      BY <1>1, <1>2, <1>3, Fat32Ata, Fat32Inv, PTL DEF Spec
=============================================================================
