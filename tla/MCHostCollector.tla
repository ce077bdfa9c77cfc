-------------------------- MODULE MCHostCollector --------------------------
(* An instance of HostCollector for TLC: the aggregate line and a core, two *)
(* interfaces, a disk, and a process with a thread whose files can all, or  *)
(* partly, be read.                                                         *)
EXTENDS HostCollector

MCCpus == <<"cpu", "cpu0">>
MCIfaces == <<"lo", "eth0">>
MCDisks == <<"sda">>

MCTaskRow(id, thread, files) == [id |-> id, thread |-> thread, files |-> files]
MCRows ==
    {<<>>} \union
    {<<MCTaskRow(1, FALSE, files), MCTaskRow(2, TRUE, {"stat"})>> :
        files \in {{"io", "status", "stat"}, {"stat"}}}

(* The names that are registered; the values of one group of each file.    *)
MCNames == UNION {{item.name : item \in Registered[f]} : f \in DOMAIN Registered}
MCShapes == {UptimeValues, LoadavgValues, CpuValues, NetValues, MemValues}

(* A disk with a partition of it.                                          *)
MCDisksAndPartition == <<"sda", "sda1">>
MCPartitions == {"sda1"}

(* What the comment on DiskFilter says (disk.rs, and config.rs of the      *)
(* field): without a configured list partitions are not collected.         *)
WholeDisksByDefault ==
    cfg.excluded = {} =>
        \A k \in DOMAIN out : \A p \in MCPartitions : <<"device", p>> \notin out[k].attrs
=============================================================================
