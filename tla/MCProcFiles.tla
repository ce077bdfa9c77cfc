---------------------------- MODULE MCProcFiles ----------------------------
(* The instance of ProcFiles for TLC.                                      *)
EXTENDS ProcFiles

(* Memory full and partly used, at the limit of an integer: 15 * 4 < 64.   *)
Meminfo(total, free, pages, freePages) ==
    [MemTotal |-> total, MemFree |-> free, MemAvailable |-> free + 1, SwapTotal |-> total,
     SwapFree |-> free, HugePages_Total |-> pages, HugePages_Free |-> freePages,
     Hugepagesize |-> 2]

Status(hwm, anon, mapped, shmem) ==
    [k \in KeySet("status") |->
        CASE k = "VmHWM" -> hwm
          [] k = "VmRSS" -> anon + mapped + shmem
          [] k = "RssAnon" -> anon
          [] k = "RssFile" -> mapped
          [] k = "RssShmem" -> shmem
          [] OTHER -> 3]

MCSnapshots == [f \in KeyFiles |->
    CASE f = "meminfo" -> {Meminfo(15, 15, 7, 7), Meminfo(15, 9, 7, 2), Meminfo(9, 8, 0, 0)}
      [] f = "status" -> {Status(15, 0, 9, 6), Status(12, 5, 2, 1)}
      [] f = "io" -> {[k \in KeySet("io") |-> 5]}]
=============================================================================
