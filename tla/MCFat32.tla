------------------------------ MODULE MCFat32 ------------------------------
(* A volume of six clusters of two sectors of two bytes.                   *)
EXTENDS Fat32, TLC

MCBpb == [bytes_per_sector |-> 2, sectors_per_cluster |-> 2, reserved_sectors |-> 1,
          num_fats |-> 1, fat_size_32 |-> 4, root_cluster |-> 2]

(* The root directory is 2, 5; a file 4, 3, 6; another 7.                  *)
MCFAT == (0 :> 50) @@ (1 :> 50) @@ (2 :> 5) @@ (3 :> 6) @@ (4 :> 3) @@ (5 :> 50)
            @@ (6 :> 50) @@ (7 :> 50)

D(kind, name, start, size) == [kind |-> kind, name |-> name, start |-> start, size |-> size]

(* A long name across two sectors, one across two clusters, and a file     *)
(* that claims to be longer than its chain.                                *)
MCDirs ==
    (6 :> <<D("lfn", "p2", 0, 0), D("lfn", "p1", 0, 0)>>) @@
    (7 :> <<D("file", "P", 4, 10), D("lfn", "q1", 0, 0)>>) @@
    (12 :> <<D("file", "Q", 7, 6), D("volid", "V", 0, 0)>>) @@
    (13 :> <<D("dir", "D", 3, 0), D("end", "", 0, 0)>>)

MCGarbageDirents == {D("dir", "G", 3, 0), D("end", "", 0, 0)}

MCSectors == 1 .. 17
=============================================================================
