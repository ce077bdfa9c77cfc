--------------------------- MODULE HostCollector ---------------------------
(***************************************************************************)
(* The host collector of crates/linux-metrics: what it registers (items of *)
(* host.rs) and what one pass of it pushes (collect of host.rs and the     *)
(* cpu, process, net, disk and mem modules it calls).                      *)
(*                                                                         *)
(* The two sides meet only in the callbacks of the framework, which look a *)
(* value up by name and by variant and pass over what does not fit, so the *)
(* tables below are written twice, once from each side.  Values are        *)
(* grouped by the file of /proc they come from.                            *)
(*                                                                         *)
(* The contents of /proc are inputs: the lines that a file yields, or      *)
(* nothing when it cannot be read.  Attributes are pairs of key and value; *)
(* `host`, the same in all groups, and `comm` are left out.                *)
(***************************************************************************)
EXTENDS SampleGroups, SequencesExt

CONSTANTS
    Cpus,      \* the names of the cpu lines of /proc/stat, in order
    Ifaces,    \* the network interfaces, in order
    Disks,     \* the block devices, in order
    Rows       \* the rows of tasks a crawl of /proc may yield

TaskFiles == {"io", "status", "stat"}

(* The kernel writes one line for a core, an interface or a device.        *)
ASSUME LinesAssumption == IsInjective(Cpus) /\ IsInjective(Ifaces) /\ IsInjective(Disks)

(* What the module ProcessCrawl shows of the rows of a pass: a row has one *)
(* file at least (TypeOK there), and a task one row (OneRowPerTask).       *)
ASSUME RowsAssumption ==
    \A rows \in Rows :
        /\ \A i \in DOMAIN rows : rows[i].files \in (SUBSET TaskFiles) \ {{}}
        /\ \A i, j \in DOMAIN rows : rows[i].id = rows[j].id => i = j

VARIABLES
    cfg,       \* HostCollectorCfg
    step,      \* the source whose turn it is, or "idle"
    lines,     \* the lines read of it, when it has several
    at,        \* the line that is next, 0 before the lines are read
    out,       \* the groups pushed in this pass
    sampled    \* history: the files of which this pass has pushed a group

vars == <<cfg, step, lines, at, out, sampled>>

(***************************************************************************)
(* ITEMS and items                                                         *)
(***************************************************************************)
Items(kind, names) == [name : names, kind : {kind}]

UptimeItems == Items("GaugeF64", {"uptime"})
LoadavgItems ==
    Items("GaugeF64", {"loadavg_1m", "loadavg_5m", "loadavg_15m"}) \union
    Items("GaugeU64", {"loadavg_running_tasks", "loadavg_total_tasks"})
CpuItems == Items("CounterF64", {"cpu_seconds_total"})
ProcessIoItems ==
    Items("CounterU64", {"process_io_rchar_total", "process_io_wchar_total",
        "process_io_read_bytes_total", "process_io_write_bytes_total",
        "process_io_cancelled_write_bytes_total", "process_io_syscr_total",
        "process_io_syscw_total"})
ProcessStatusItems ==
    Items("GaugeU64", {"process_mem_virt_bytes", "process_mem_rss_bytes",
        "process_mem_hwm_bytes", "process_mem_shared_bytes", "process_mem_swap_bytes",
        "process_mem_hugetlb_bytes", "process_fd_size", "process_threads"}) \union
    Items("CounterU64", {"process_ctxt_switches_voluntary_total",
        "process_ctxt_switches_nonvoluntary_total"})
ProcessStatItems ==
    Items("CounterF64", {"process_cpu_user_seconds_total", "process_cpu_system_seconds_total"})
NetItems ==
    Items("CounterU64", {"iface_rx_bytes_total", "iface_rx_packets_total",
        "iface_rx_errs_total", "iface_rx_drop_total", "iface_tx_bytes_total",
        "iface_tx_packets_total", "iface_tx_errs_total", "iface_tx_drop_total"})
DiskItems ==
    Items("CounterU64", {"disk_read_bytes_total", "disk_reads_completed_total",
        "disk_reads_merged_total", "disk_read_time_ms_total", "disk_write_bytes_total",
        "disk_writes_completed_total", "disk_writes_merged_total",
        "disk_write_time_ms_total", "disk_io_time_ms_total",
        "disk_io_time_weighted_ms_total", "disk_discard_bytes_total",
        "disk_discards_completed_total", "disk_discards_merged_total",
        "disk_discard_time_ms_total", "disk_flush_requests_total",
        "disk_flush_time_ms_total"}) \union
    Items("GaugeU64", {"disk_io_in_progress"})
MemItems ==
    Items("GaugeU64", {"mem_total_bytes", "mem_free_bytes", "mem_available_bytes",
        "swap_total_bytes", "swap_free_bytes", "huge_pages_total_bytes",
        "huge_pages_free_bytes"})

Registered == [
    uptime |-> UptimeItems, loadavg |-> LoadavgItems, cpustat |-> CpuItems,
    io |-> ProcessIoItems, status |-> ProcessStatusItems, stat |-> ProcessStatItems,
    netdev |-> NetItems, diskstats |-> DiskItems, meminfo |-> MemItems]

Optional == {"cpu", "process", "net", "disk", "mem"}

(* The files of each kind of item; uptime and loadavg are always items.    *)
FilesOf(source) ==
    CASE source = "cpu" -> {"cpustat"}
      [] source = "process" -> {"io", "status", "stat"}
      [] source = "net" -> {"netdev"}
      [] source = "disk" -> {"diskstats"}
      [] source = "mem" -> {"meminfo"}
      [] OTHER -> {source}

FilesRegistered == UNION {FilesOf(s) : s \in {"uptime", "loadavg"} \union cfg.on}
RegisteredItems == UNION {Registered[f] : f \in FilesRegistered}

(***************************************************************************)
(* The values pushed from each file                                        *)
(***************************************************************************)
Values(number, names) == [name : names, number : {number}]

UptimeValues == Values("F64", {"uptime"})
LoadavgValues ==
    Values("F64", {"loadavg_1m", "loadavg_5m", "loadavg_15m"}) \union
    Values("U64", {"loadavg_running_tasks", "loadavg_total_tasks"})
CpuValues == Values("F64", {"cpu_seconds_total"})
IoValues ==
    Values("U64", {"process_io_rchar_total", "process_io_wchar_total",
        "process_io_syscr_total", "process_io_syscw_total", "process_io_read_bytes_total",
        "process_io_write_bytes_total", "process_io_cancelled_write_bytes_total"})
StatusValues ==
    Values("U64", {"process_mem_virt_bytes", "process_mem_rss_bytes", "process_mem_hwm_bytes",
        "process_mem_shared_bytes", "process_mem_swap_bytes", "process_mem_hugetlb_bytes",
        "process_fd_size", "process_threads", "process_ctxt_switches_voluntary_total",
        "process_ctxt_switches_nonvoluntary_total"})
StatInU64 ==  \* a mutant: ticks pushed as integers
    Values("U64", {"process_cpu_user_seconds_total", "process_cpu_system_seconds_total"})
StatValues ==
    Values("F64", {"process_cpu_user_seconds_total", "process_cpu_system_seconds_total"})
NetValues ==
    Values("U64", {"iface_rx_bytes_total", "iface_rx_packets_total", "iface_rx_errs_total",
        "iface_rx_drop_total", "iface_tx_bytes_total", "iface_tx_packets_total",
        "iface_tx_errs_total", "iface_tx_drop_total"})
DiskValues ==
    Values("U64", {"disk_read_bytes_total", "disk_reads_completed_total",
        "disk_reads_merged_total", "disk_read_time_ms_total", "disk_write_bytes_total",
        "disk_writes_completed_total", "disk_writes_merged_total",
        "disk_write_time_ms_total", "disk_io_in_progress", "disk_io_time_ms_total",
        "disk_io_time_weighted_ms_total", "disk_discard_bytes_total",
        "disk_discards_completed_total", "disk_discards_merged_total",
        "disk_discard_time_ms_total", "disk_flush_requests_total",
        "disk_flush_time_ms_total"})
MemValuesNoSwap ==  \* a mutant: two pushes forgotten
    Values("U64", {"mem_total_bytes", "mem_free_bytes", "mem_available_bytes",
        "huge_pages_total_bytes", "huge_pages_free_bytes"})
MemValues ==
    Values("U64", {"mem_total_bytes", "mem_free_bytes", "mem_available_bytes",
        "swap_total_bytes", "swap_free_bytes", "huge_pages_total_bytes",
        "huge_pages_free_bytes"})

(* The values of a row of a task, of the files of it that could be read.   *)
RowValues(files) ==
    (IF "io" \in files THEN IoValues ELSE {}) \union
    (IF "status" \in files THEN StatusValues ELSE {}) \union
    (IF "stat" \in files THEN StatValues ELSE {})

(***************************************************************************)
(* The groups pushed for one line                                          *)
(***************************************************************************)
Group(attrs, values) == [attrs |-> attrs, values |-> values]

MODES == <<"user", "nice", "system", "idle", "iowait", "irq", "softirq", "steal",
           "guest", "guest_nice">>

ModesWithoutAttribute(cpu) ==  \* a mutant: the mode is not made an attribute
    [m \in DOMAIN MODES |-> Group({<<"cpu", cpu>>}, CpuValues)]

(* One group for each mode of a line.                                      *)
CpuLineGroups(cpu) ==
    [m \in DOMAIN MODES |-> Group({<<"cpu", cpu>>, <<"mode", MODES[m]>>}, CpuValues)]

TaskGroup(row) ==
    Group({<<"pid", row.id>>, <<"thread", row.thread>>}, RowValues(row.files))
NetGroup(iface) == Group({<<"iface", iface>>}, NetValues)
DiskGroup(device) == Group({<<"device", device>>}, DiskValues)

(* The aggregate line always, the lines of the cores only on demand.       *)
Reported(cpu) == cpu = "cpu" \/ cfg.perCore

(* An empty list of interfaces is no filter.                               *)
Listed(iface) == cfg.ifaces = {} \/ iface \in cfg.ifaces

Included(device) == device \notin cfg.excluded

(***************************************************************************)
(* collect                                                                 *)
(***************************************************************************)
Init ==
    /\ cfg \in [on : SUBSET Optional, perCore : BOOLEAN,
                ifaces : SUBSET Range(Ifaces), excluded : SUBSET Range(Disks)]
    /\ step = "idle"
    /\ lines = <<>>
    /\ at = 0
    /\ out = <<>>
    /\ sampled = {}

BeginPass ==
    /\ step = "idle"
    /\ step' = "uptime"
    /\ out' = <<>>
    /\ sampled' = {}
    /\ UNCHANGED <<cfg, lines, at>>

After == [uptime |-> "loadavg", loadavg |-> "cpu", cpu |-> "process", process |-> "net",
          net |-> "disk", disk |-> "mem", mem |-> "idle"]

(* The source is switched off, or its file cannot be read.                 *)
PassOver ==
    /\ step # "idle"
    /\ at = 0
    /\ step' = After[step]
    /\ UNCHANGED <<cfg, lines, at, out, sampled>>

Push(groups, files) ==
    /\ out' = out \o groups
    /\ sampled' = sampled \union files

(* A file that yields one group.                                           *)
PushOne(source, values) ==
    /\ step = source
    /\ step' = After[source]
    /\ Push(<<Group({}, values)>>, FilesOf(source))
    /\ UNCHANGED <<cfg, lines, at>>

CollectUptime == PushOne("uptime", UptimeValues)
CollectLoadavg == PushOne("loadavg", LoadavgValues)
CollectMem == "mem" \in cfg.on /\ PushOne("mem", MemValues)

(* A file that yields a vector of lines, for the loop over them.           *)
Read(source, content) ==
    /\ step = source
    /\ source \in cfg.on
    /\ at = 0
    /\ lines' = content
    /\ at' = 1
    /\ UNCHANGED <<cfg, step, out, sampled>>

ReadCpu == Read("cpu", Cpus)
ReadProcess == \E rows \in Rows : Read("process", rows)
ReadNet == Read("net", Ifaces)
ReadDisk == Read("disk", Disks)

(* One turn of the loop: the line is pushed, or `continue` passes over it. *)
Line(source, kept, groups, files) ==
    /\ step = source
    /\ at \in DOMAIN lines
    /\ IF kept THEN Push(groups, files) ELSE UNCHANGED <<out, sampled>>
    /\ at' = at + 1
    /\ UNCHANGED <<cfg, step, lines>>

CollectCpu ==
    Line("cpu", Reported(lines[at]), CpuLineGroups(lines[at]), FilesOf("cpu"))
CollectProcess ==
    Line("process", TRUE, <<TaskGroup(lines[at])>>, lines[at].files)
CollectNet ==
    Line("net", Listed(lines[at]), <<NetGroup(lines[at])>>, FilesOf("net"))
CollectDisk ==
    Line("disk", Included(lines[at]), <<DiskGroup(lines[at])>>, FilesOf("disk"))

EndOfLines ==
    /\ at # 0
    /\ at \notin DOMAIN lines
    /\ step' = After[step]
    /\ lines' = <<>>
    /\ at' = 0
    /\ UNCHANGED <<cfg, out, sampled>>

Next ==
    \/ BeginPass \/ PassOver \/ EndOfLines
    \/ CollectUptime \/ CollectLoadavg \/ CollectMem
    \/ ReadCpu \/ ReadProcess \/ ReadNet \/ ReadDisk
    \/ CollectCpu \/ CollectProcess \/ CollectNet \/ CollectDisk

Spec == Init /\ [][Next]_vars

(***************************************************************************)
(* Properties                                                              *)
(***************************************************************************)

(* No value is dropped in silence: an instrument is registered, under the  *)
(* configuration that let the value be pushed, that looks for its name and *)
(* its variant, and only one.                                              *)
EveryValueIsReported ==
    \A k \in DOMAIN out : \A v \in out[k].values :
        \E item \in RegisteredItems :
            /\ v = [name |-> item.name, number |-> NumberObserved(item.kind)]
            /\ \A other \in RegisteredItems : other.name = v.name => other = item

(* No instrument is dead: when a pass ends, an item whose file the pass    *)
(* has sampled is reported by a group of the pass.                         *)
EveryItemIsSampled ==
    step = "idle" =>
        \A f \in sampled : \A item \in Registered[f] :
            \E k \in DOMAIN out : Reports(item, out[k])

(* A series, that is a name with a set of attributes, has one value in a   *)
(* pass: of two the exporter would send one.  Three sources push groups    *)
(* without attributes of their own, and the rows of a process and of its   *)
(* threads, and the modes of a core, differ in their attributes only.      *)
OneValuePerSeries ==
    \A i, j \in DOMAIN out :
        i # j /\ out[i].attrs = out[j].attrs => out[i].values \intersect out[j].values = {}
=============================================================================
