---------------------------- MODULE MCCollectors ----------------------------
(* The collectors and the validation check, one at a time, for they share no *)
(* state.                                                                    *)
(*                                                                           *)
(* Disk: two devices and one whose name is not below /dev/; a megabyte is    *)
(* two blocks, so that sizes are rounded.  Cpu: time for two kinds to grow   *)
(* while a third goes back, from counters about to wrap and others.          *)
(* SysInfo: megabytes of four bytes in units of one byte and of three, and   *)
(* an int that is too small for the largest memories.  ValidationCheck:      *)
(* numbers on both sides of every threshold of the four checks, and a state  *)
(* of each class; "missing" stands for no string, or any other one.          *)
EXTENDS Collectors, ValidationCheck

MCSize == [d \in BlockDevices |-> IF d = "/dev/sda1" THEN 5 ELSE 2]
MCBelow == [size |-> 8, free |-> 7]
MCGarbage == {-90061, 7}

VARIABLE collector  \* the one that runs, or "validation" for the check

disk == <<use, free, changes, diskPc, unseen, mtpt, totalMb, disks, steady, laden>>
cpu == <<stat, ticks, cpuPc, e1, shares, spent, back>>
sysinfo == <<call, answer, figures>>

NoDisk ==
  /\ use = <<>> /\ free = <<>> /\ changes = 0 /\ diskPc = "idle" /\ unseen = {}
  /\ mtpt = FALSE /\ totalMb = 0 /\ disks = {} /\ steady = FALSE /\ laden = {}
NoCpu ==
  /\ stat = <<>> /\ ticks = 0 /\ cpuPc = "idle" /\ e1 = <<>>
  /\ shares = <<>> /\ spent = <<>> /\ back = FALSE

NoCheck == info = Empty /\ verdict = Verdict(Empty)

MCInit ==
  \/ collector = "disk" /\ D!Init /\ NoCpu /\ S!Init /\ NoCheck
  \/ collector = "cpu" /\ NoDisk /\ C!Init /\ S!Init /\ NoCheck
  \/ collector = "sysinfo" /\ NoDisk /\ NoCpu /\ S!Init /\ NoCheck
  \/ collector = "validation" /\ NoDisk /\ NoCpu /\ S!Init /\ Init

MCNext ==
  /\ UNCHANGED collector
  /\ \/ collector = "disk" /\ D!Next /\ UNCHANGED <<cpu, sysinfo, vars>>
     \/ collector = "cpu" /\ C!Next /\ UNCHANGED <<disk, sysinfo, vars>>
     \/ collector = "sysinfo" /\ S!Next /\ UNCHANGED <<disk, cpu, vars>>
     \/ collector = "validation" /\ Next /\ UNCHANGED <<disk, cpu, sysinfo>>

MCSpec == MCInit /\ [][MCNext]_<<collector, disk, cpu, sysinfo, vars>>
=============================================================================
