-------------------------------- MODULE Disk --------------------------------
(***************************************************************************)
(* getDiskInfo (src/collectors/disk.cpp): the block devices blkid finds,   *)
(* one by one, the mount point of each, and two calls of statvfs on that   *)
(* path, while file systems are mounted, filled and unmounted.             *)
(*                                                                         *)
(* External: blkid, ext2fs_check_mount_point, and statvfs, which measures  *)
(* what is at a path at that moment: the file system mounted there, the    *)
(* one below, or nothing if there is no such directory any more.           *)
(***************************************************************************)
EXTENDS Integers

CONSTANTS
  Devices,   \* the block devices there may be
  InDev,     \* those with /dev/ in their names
  Blocks,    \* numbers of free blocks
  Size,      \* device -> the blocks of its file system
  Below,     \* the blocks of the file system mount points lie on, and the free ones
  PerMB,     \* blocks in a megabyte
  Modulus,   \* 2^64
  MaxEvents  \* bound: mounts, unmounts, writes

\* What is assumed of the constants.
DiskAssumption ==
  /\ InDev \subseteq Devices
  /\ Blocks \subseteq Nat
  /\ Size \in [Devices -> 0..Modulus - 1]
  /\ Below \in [size : 0..Modulus - 1, free : 0..Modulus - 1] /\ Below.free <= Below.size
  /\ Modulus \in Nat \ {0} /\ PerMB \in Nat \ {0} /\ MaxEvents \in Nat

\* A device is mounted; mounted without a path that is known; in use otherwise;
\* unmounted; unmounted and its mount point removed; of unknown use; not there.
Uses == {"mounted", "pathless", "busy", "idle", "removed", "unknown", "gone"}

VARIABLES
  use,      \* device -> its use
  free,     \* device -> the free blocks of its file system
  events,   \* number of changes of the two
  pc,       \* "probe", "next", "mount", "total", "free", "returned" or "dead"
  todo,     \* the devices found and not yet looked at
  mtpt,     \* the mount point is known
  totalMb,  \* the size, as measured
  rows,     \* the result
  steady,   \* history: the device looked at is mounted ever since that was found
  laden     \* history: the devices mounted all the time with a megabyte in use

vars == <<use, free, events, pc, todo, mtpt, totalMb, rows, steady, laden>>

\* The numbers of free blocks there may be.
Frees == {f \in [Devices -> Blocks] : \A d \in Devices : f[d] <= Size[d]}

Laden == {d \in Devices : use[d] = "mounted" /\ Size[d] - free[d] >= PerMB}

Init ==
  /\ use \in [Devices -> Uses]
  /\ free \in Frees
  /\ events = 0
  /\ pc = "probe"
  /\ todo = {}
  /\ mtpt = FALSE
  /\ totalMb = 0
  /\ rows = {}
  /\ steady = FALSE
  /\ laden = Laden

-----------------------------------------------------------------------------
(* The call.  Definitions named ...Mutant are bugs this code does not have.  *)

\* blkid_probe_all.
Probe ==
  /\ pc = "probe"
  /\ todo' = {d \in Devices : use[d] # "gone"}
  /\ pc' = "next"
  /\ UNCHANGED <<use, free, events, mtpt, totalMb, rows, steady, laden>>

\* The device whose turn it is: nothing depends on their order.
This == CHOOSE d \in todo : TRUE

\* An empty DevInfo, which adds no row.
Skip == pc' = "next" /\ todo' = todo \ {This}

\* Mutant: a device that has gone ends the loop.
VerifyMutant ==
  /\ pc = "next" /\ todo # {}
  /\ IF use[This] = "gone" THEN pc' = "next" /\ todo' = {} ELSE pc' = "mount" /\ UNCHANGED todo
  /\ UNCHANGED <<use, free, events, mtpt, totalMb, rows, steady, laden>>

\* blkid_verify and access.
Verify ==
  /\ pc = "next" /\ todo # {}
  /\ IF use[This] = "gone" THEN Skip ELSE pc' = "mount" /\ UNCHANGED todo
  /\ UNCHANGED <<use, free, events, mtpt, totalMb, rows, steady, laden>>

\* ext2fs_check_mount_point; when it fails the path stays empty.
MountPoint ==
  /\ pc = "mount"
  /\ IF use[This] \in {"mounted", "unknown"} THEN pc' = "total" /\ UNCHANGED todo ELSE Skip
  /\ mtpt' = (use[This] = "mounted")
  /\ steady' = mtpt'
  /\ UNCHANGED <<use, free, events, totalMb, rows, laden>>

\* What statvfs finds at the mount point; -1 for a failure is 0 to its callers.
Statvfs ==
  CASE ~mtpt \/ use[This] = "removed" -> [size |-> 0, free |-> 0]
    [] mtpt /\ use[This] = "mounted"  -> [size |-> Size[This], free |-> free[This]]
    [] OTHER                          -> Below

\* getDiskTotal.
Total ==
  /\ pc = "total"
  /\ totalMb' = Statvfs.size \div PerMB
  /\ pc' = "free"
  /\ UNCHANGED <<use, free, events, todo, mtpt, rows, steady, laden>>

\* An unsigned difference.
Minus(a, b) == IF a >= b THEN a - b ELSE a - b + Modulus

DevInfo(freeMb) ==
  [dev |-> This, total |-> totalMb, free |-> freeMb, used |-> Minus(totalMb, freeMb),
   left |-> Statvfs.free, steady |-> steady]

\* Mutant: the free space is not that of the path.
FreeMutant ==
  /\ pc = "free"
  /\ LET row == DevInfo(Below.free \div PerMB)
     IN  rows' = IF row.total > 0 /\ row.used > 0 THEN rows \cup {row} ELSE rows
  /\ Skip
  /\ steady' = FALSE
  /\ UNCHANGED <<use, free, events, mtpt, totalMb, laden>>

\* getDiskFree, and a row if anything is used.  Without "/dev/" in the name,
\* replace throws out_of_range and the process ends.
Free ==
  /\ pc = "free"
  /\ \/ This \notin InDev /\ pc' = "dead" /\ UNCHANGED <<todo, rows>>
     \/ /\ This \in InDev
        /\ LET row == DevInfo(Statvfs.free \div PerMB)
           IN  rows' = IF row.total > 0 /\ row.used > 0 THEN rows \cup {row} ELSE rows
        /\ Skip
  /\ steady' = FALSE
  /\ UNCHANGED <<use, free, events, mtpt, totalMb, laden>>

Return ==
  /\ pc = "next" /\ todo = {}
  /\ pc' = "returned"
  /\ UNCHANGED <<use, free, events, todo, mtpt, totalMb, rows, steady, laden>>

-----------------------------------------------------------------------------
(* The system *)

\* A device is mounted, unmounted, put in, pulled out.
Change(d) ==
  /\ events < MaxEvents
  /\ events' = events + 1
  /\ \E u \in Uses : use' = [use EXCEPT ![d] = u]
  /\ steady' = (steady /\ use'[This] = "mounted")
  /\ UNCHANGED <<free, pc, todo, mtpt, totalMb, rows>>
  /\ laden' = laden \cap Laden'

\* Files are written or removed.
Write(d) ==
  /\ events < MaxEvents
  /\ events' = events + 1
  /\ \E n \in Blocks : n <= Size[d] /\ free' = [free EXCEPT ![d] = n]
  /\ UNCHANGED <<use, pc, todo, mtpt, totalMb, rows, steady>>
  /\ laden' = laden \cap Laden'

Next ==
  \/ Probe \/ Verify \/ MountPoint \/ Total \/ Free \/ Return
  \/ \E d \in Devices : Change(d) \/ Write(d)

Spec == Init /\ [][Next]_vars

-----------------------------------------------------------------------------
(* Properties *)

\* What a row says of a device that stayed mounted adds up: no more is used than
\* there is, and it is right to less than a megabyte, rounding and writes between
\* the two measurements included (disk.cpp:73-99).
RowsAddUp ==
  \A r \in rows : r.steady =>
    /\ r.used <= r.total
    /\ r.used * PerMB - (Size[r.dev] - r.left) \in 1 - PerMB..PerMB - 1

\* A device mounted all the time with a megabyte in use is in the report, whatever
\* becomes of the others (disk.cpp:127-149).
LadenIsReported ==
  pc = "returned" =>
    \A d \in laden : \E r \in rows : r.dev = d /\ r.steady
=============================================================================
