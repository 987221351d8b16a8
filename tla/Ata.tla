-------------------------------- MODULE Ata --------------------------------
(***************************************************************************)
(* drivers/storage/ata.c as the file system uses it: ata_read_cb of kmain  *)
(* reads one sector at a time by polling the status register a limited     *)
(* number of times.  The drive (Answer, Command) is external: it takes its *)
(* time, may fail, may never answer, and ignores a command while busy.     *)
(***************************************************************************)
EXTENDS Integers

CONSTANTS
    Sectors,       \* the sectors that can be read
    POLLS,         \* 100000, how often a wait looks at the status
    NoSector

ASSUME AtaAssumption == Sectors \subseteq Nat /\ POLLS \in Nat \ {0}

VARIABLES
    present,       \* drives[0].present
    bsy, drq, err, \* the status register
    serving,       \* the sector the drive was told to read
    apc,           \* where ata_read is: "idle", "wait_busy" or "wait_drq"
    req,           \* its lba
    polls,         \* how often it will still look
    ret,           \* what it returned
    sector_buf     \* the sector whose contents its buffer holds

driveVars == <<bsy, drq, err, serving>>
ataVars == <<present, driveVars, apc, req, polls, ret, sector_buf>>

(* probe finds drive 0 or not.  The last drive probed on the channel may   *)
(* have refused IDENTIFY, which leaves the error bit set, or still be busy *)
(* with it when probe gave up.                                             *)
AtaInit ==
    /\ present \in BOOLEAN
    /\ drq = FALSE
    /\ bsy \in BOOLEAN /\ err \in BOOLEAN /\ ~ (bsy /\ err)
    /\ serving = NoSector
    /\ apc = "idle"
    /\ req = NoSector
    /\ polls = 0
    /\ ret = 0
    /\ sector_buf = NoSector

-----------------------------------------------------------------------------
(* The call of ata_read, as a part of its caller's step.                   *)
ata_read(lba) ==
    /\ apc = "idle"
    /\ req' = lba
    /\ IF present THEN /\ apc' = "wait_busy"
                       /\ polls' = POLLS
                       /\ UNCHANGED ret
                  ELSE ret' = -1 /\ UNCHANGED <<apc, polls>>
    /\ UNCHANGED <<present, driveVars, sector_buf>>

Return(r) == apc' = "idle" /\ ret' = r

(* Waits for ever.                                                         *)
RepollForEver == UNCHANGED <<polls, apc, ret, driveVars, sector_buf>>

(* Goes on waiting, or gives up.                                           *)
Repoll ==
    /\ polls' = polls - 1
    /\ IF polls > 1 THEN UNCHANGED <<apc, ret>> ELSE Return(-1)
    /\ UNCHANGED <<driveVars, sector_buf>>

(* The registers are written; the drive starts.                            *)
Command ==
    IF bsy THEN UNCHANGED driveVars
    ELSE bsy' = TRUE /\ drq' = FALSE /\ err' = FALSE /\ serving' = req

Issue ==
    /\ Command
    /\ apc' = "wait_drq"
    /\ polls' = POLLS
    /\ UNCHANGED <<ret, sector_buf>>

(* Does not wait for the drive to finish the last command.                 *)
MayIssueAlways == TRUE

MayIssue == ~ bsy /\ ~ err

WaitBusy ==
    /\ apc = "wait_busy"
    /\ \/ MayIssue /\ Issue
       \/ ~ bsy /\ err /\ Return(-1) /\ UNCHANGED <<polls, driveVars, sector_buf>>
       \/ bsy /\ Repoll
    /\ UNCHANGED <<present, req>>

WaitDrq ==
    /\ apc = "wait_drq"
    /\ \/ err /\ Return(-1) /\ UNCHANGED <<polls, driveVars, sector_buf>>
       \/ /\ ~ err /\ drq
          /\ sector_buf' = serving
          /\ drq' = FALSE
          /\ serving' = NoSector
          /\ Return(0)
          /\ UNCHANGED <<polls, bsy, err>>
       \/ ~ err /\ ~ drq /\ Repoll
    /\ UNCHANGED <<present, req>>

AtaStep == WaitBusy \/ WaitDrq

(* The drive finishes the command, well or badly.                          *)
Answer ==
    /\ bsy
    /\ bsy' = FALSE
    /\ \/ serving \in Sectors \cup {NoSector} /\ drq' = TRUE /\ UNCHANGED <<err, serving>>
       \/ err' = TRUE /\ serving' = NoSector /\ UNCHANGED drq
    /\ UNCHANGED <<present, apc, req, polls, ret, sector_buf>>

-----------------------------------------------------------------------------
(* When ata_read returns 0 its buffer holds the sector that was asked for, *)
(* also when an earlier command timed out and is answered late.            *)
SectorAsAsked == (apc = "idle" /\ ret = 0) => sector_buf = req
=============================================================================
