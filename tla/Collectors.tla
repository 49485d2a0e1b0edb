----------------------------- MODULE Collectors -----------------------------
(***************************************************************************)
(* The collectors of the disks, the processors and of sysinfo's figures,   *)
(* side by side, as collectSystemData runs them: each in a thread of its   *)
(* own, without any state in common.                                       *)
(***************************************************************************)
EXTENDS Integers

CONSTANTS
  BlockDevices, InDev, Blocks, Size, Below, PerMB, MaxChanges,
  Ticked,    \* the values the counters of the processors may have at first
  MaxTicks, Units, Sizes, Megabyte,
  Width,     \* the values of an unsigned number of 64 bits
  IntWidth, Loads, LoadOne, Uptimes, Garbage

VARIABLES
  use, free, changes, diskPc, unseen, mtpt, totalMb, disks, steady, laden,
  stat, ticks, cpuPc, e1, shares, spent, back,
  call, answer, figures

D == INSTANCE Disk WITH Devices <- BlockDevices, Modulus <- Width, MaxEvents <- MaxChanges,
                        events <- changes, pc <- diskPc, todo <- unseen, rows <- disks
C == INSTANCE Cpu WITH Modulus <- Width, Boot <- Ticked, pc <- cpuPc, result <- shares
S == INSTANCE SysInfo WITH result <- figures

ASSUME CollectorsAssumption == D!DiskAssumption /\ C!CpuAssumption /\ S!SysInfoAssumption

-----------------------------------------------------------------------------
(* Properties *)

\* Disk: what a row says of a device that stayed mounted adds up (disk.cpp:73-99).
RowsAddUp == D!RowsAddUp

\* Disk: a device mounted all the time with something on it is reported
\* (disk.cpp:127-149).
LadenIsReported == D!LadenIsReported

\* Cpu: the shares are those of the time that passed, but for the guests' that is counted
\* twice, and together no more than all (cpu.cpp:21-22, 58-72).
SharesAddUp == C!SharesAddUp

\* SysInfo: the figures of one report agree with each other and with the machine, all three
\* of the swap only if the unit of sysinfo is a byte (memory.cpp:27-56, host.cpp:73-81).
FiguresAgree == S!FiguresAgree
=============================================================================
