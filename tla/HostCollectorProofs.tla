------------------------ MODULE HostCollectorProofs ------------------------
(***************************************************************************)
(* Proofs about HostCollector, for every content of the files of /proc and *)
(* every configuration: what a pass pushes is reported, what it samples    *)
(* reaches every instrument, and a series has one value.                   *)
(***************************************************************************)
EXTENDS HostCollector, SequenceTheorems, TLAPS

(***************************************************************************)
(* The two tables agree                                                    *)
(***************************************************************************)
FileValues == [
    uptime |-> UptimeValues, loadavg |-> LoadavgValues, cpustat |-> CpuValues,
    io |-> IoValues, status |-> StatusValues, stat |-> StatValues,
    netdev |-> NetValues, diskstats |-> DiskValues, meminfo |-> MemValues]

ProcFile == {"uptime", "loadavg", "cpustat", "io", "status", "stat", "netdev",
             "diskstats", "meminfo"}

(* The kind of an item is a function of its name, over all the files.      *)
KindOf(name) ==
    IF name \in {"uptime", "loadavg_1m", "loadavg_5m", "loadavg_15m"} THEN "GaugeF64"
    ELSE IF name \in {"cpu_seconds_total", "process_cpu_user_seconds_total",
                      "process_cpu_system_seconds_total"} THEN "CounterF64"
    ELSE IF name \in {"loadavg_running_tasks", "loadavg_total_tasks",
            "process_mem_virt_bytes", "process_mem_rss_bytes", "process_mem_hwm_bytes",
            "process_mem_shared_bytes", "process_mem_swap_bytes",
            "process_mem_hugetlb_bytes", "process_fd_size", "process_threads",
            "disk_io_in_progress", "mem_total_bytes", "mem_free_bytes",
            "mem_available_bytes", "swap_total_bytes", "swap_free_bytes",
            "huge_pages_total_bytes", "huge_pages_free_bytes"} THEN "GaugeU64"
    ELSE "CounterU64"

LEMMA KindIsOfTheName ==
    ASSUME NEW f \in ProcFile, NEW item \in Registered[f]
    PROVE  item = [name |-> item.name, kind |-> KindOf(item.name)]
<1>1. CASE f = "uptime"
    BY <1>1 DEF Registered, UptimeItems, Items, KindOf
<1>2. CASE f = "loadavg"
    BY <1>2 DEF Registered, LoadavgItems, Items, KindOf
<1>3. CASE f = "cpustat"
    BY <1>3 DEF Registered, CpuItems, Items, KindOf
<1>4. CASE f = "io"
    BY <1>4 DEF Registered, ProcessIoItems, Items, KindOf
<1>5. CASE f = "status"
    BY <1>5 DEF Registered, ProcessStatusItems, Items, KindOf
<1>6. CASE f = "stat"
    BY <1>6 DEF Registered, ProcessStatItems, Items, KindOf
<1>7. CASE f = "netdev"
    BY <1>7 DEF Registered, NetItems, Items, KindOf
<1>8. CASE f = "diskstats"
    BY <1>8 DEF Registered, DiskItems, Items, KindOf
<1>9. CASE f = "meminfo"
    BY <1>9 DEF Registered, MemItems, Items, KindOf
<1> QED BY <1>1, <1>2, <1>3, <1>4, <1>5, <1>6, <1>7, <1>8, <1>9 DEF ProcFile

(* The value an item looks for.                                            *)
Sought(item) == [name |-> item.name, number |-> NumberObserved(item.kind)]

(* Nothing is pushed that no item seeks, and every item finds its value.   *)
Agree(items, values) == {Sought(item) : item \in items} = values

LEMMA OfOneKind ==
    ASSUME NEW kind, NEW names
    PROVE  Agree(Items(kind, names), Values(NumberObserved(kind), names))
<1> DEFINE number == NumberObserved(kind)
<1>1. ASSUME NEW item \in Items(kind, names)
      PROVE  Sought(item) \in Values(number, names)
    BY <1>1 DEF Items, Values, Sought
<1>2. ASSUME NEW v \in Values(number, names)
      PROVE  \E item \in Items(kind, names) : v = Sought(item)
    <2> DEFINE item == [name |-> v.name, kind |-> kind]
    <2>1. item \in Items(kind, names) /\ v = Sought(item)
        BY <1>2 DEF Items, Values, Sought
    <2> QED BY <2>1
<1> QED BY <1>1, <1>2 DEF Agree

LEMMA OfTwoKinds ==
    ASSUME NEW kind, NEW other, NEW some, NEW more,
           NumberObserved(other) = NumberObserved(kind)
    PROVE  Agree(Items(kind, some) \union Items(other, more),
                 Values(NumberObserved(kind), some \union more))
<1>1. Values(NumberObserved(kind), some \union more) =
        Values(NumberObserved(kind), some) \union Values(NumberObserved(other), more)
    BY DEF Values
<1>2. /\ Agree(Items(kind, some), Values(NumberObserved(kind), some))
      /\ Agree(Items(other, more), Values(NumberObserved(other), more))
    BY OfOneKind
<1> QED BY <1>1, <1>2 DEF Agree

LEMMA NumberOfKind ==
    /\ NumberObserved("CounterU64") = "U64" /\ NumberObserved("GaugeU64") = "U64"
    /\ NumberObserved("CounterF64") = "F64" /\ NumberObserved("GaugeF64") = "F64"
BY DEF NumberObserved

LEMMA TablesAgree ==
    ASSUME NEW f \in ProcFile
    PROVE  Agree(Registered[f], FileValues[f])
<1>1. Agree(UptimeItems, UptimeValues)
    BY OfOneKind, NumberOfKind DEF UptimeItems, UptimeValues
<1>2. Agree(LoadavgItems, LoadavgValues)
    <2> DEFINE reals == {"loadavg_1m", "loadavg_5m", "loadavg_15m"}
               counts == {"loadavg_running_tasks", "loadavg_total_tasks"}
    <2> HIDE DEF reals, counts
    <2>1. /\ Agree(Items("GaugeF64", reals), Values("F64", reals))
          /\ Agree(Items("GaugeU64", counts), Values("U64", counts))
        BY OfOneKind, NumberOfKind
    <2>2. /\ LoadavgItems = Items("GaugeF64", reals) \union Items("GaugeU64", counts)
          /\ LoadavgValues = Values("F64", reals) \union Values("U64", counts)
        BY DEF LoadavgItems, LoadavgValues, reals, counts
    <2> QED BY <2>1, <2>2 DEF Agree
<1>3. Agree(CpuItems, CpuValues)
    BY OfOneKind, NumberOfKind DEF CpuItems, CpuValues
<1>4. Agree(ProcessIoItems, IoValues)
    <2> DEFINE names == {"process_io_rchar_total", "process_io_wchar_total",
            "process_io_syscr_total", "process_io_syscw_total",
            "process_io_read_bytes_total", "process_io_write_bytes_total",
            "process_io_cancelled_write_bytes_total"}
    <2>1. ProcessIoItems = Items("CounterU64", names) BY DEF ProcessIoItems
    <2>2. IoValues = Values("U64", names) BY DEF IoValues
    <2> HIDE DEF names
    <2> QED BY <2>1, <2>2, OfOneKind, NumberOfKind
<1>5. Agree(ProcessStatusItems, StatusValues)
    <2> DEFINE gauges == {"process_mem_virt_bytes", "process_mem_rss_bytes",
            "process_mem_hwm_bytes", "process_mem_shared_bytes",
            "process_mem_swap_bytes", "process_mem_hugetlb_bytes",
            "process_fd_size", "process_threads"}
               counters == {"process_ctxt_switches_voluntary_total",
                            "process_ctxt_switches_nonvoluntary_total"}
    <2>1. ProcessStatusItems = Items("GaugeU64", gauges) \union Items("CounterU64", counters)
        BY DEF ProcessStatusItems
    <2>2. StatusValues = Values("U64", gauges \union counters)
        BY DEF StatusValues
    <2> HIDE DEF gauges, counters
    <2> QED BY <2>1, <2>2, OfTwoKinds, NumberOfKind
<1>6. Agree(ProcessStatItems, StatValues)
    BY OfOneKind, NumberOfKind DEF ProcessStatItems, StatValues
<1>7. Agree(NetItems, NetValues)
    BY OfOneKind, NumberOfKind DEF NetItems, NetValues
<1>8. Agree(DiskItems, DiskValues)
    <2> DEFINE counters == {"disk_read_bytes_total", "disk_reads_completed_total",
            "disk_reads_merged_total", "disk_read_time_ms_total",
            "disk_write_bytes_total", "disk_writes_completed_total",
            "disk_writes_merged_total", "disk_write_time_ms_total",
            "disk_io_time_ms_total", "disk_io_time_weighted_ms_total",
            "disk_discard_bytes_total", "disk_discards_completed_total",
            "disk_discards_merged_total", "disk_discard_time_ms_total",
            "disk_flush_requests_total", "disk_flush_time_ms_total"}
               gauges == {"disk_io_in_progress"}
    <2>1. DiskItems = Items("CounterU64", counters) \union Items("GaugeU64", gauges)
        BY DEF DiskItems
    <2>2. DiskValues = Values("U64", counters \union gauges)
        BY DEF DiskValues
    <2> HIDE DEF gauges, counters
    <2> QED BY <2>1, <2>2, OfTwoKinds, NumberOfKind
<1>9. Agree(MemItems, MemValues)
    BY OfOneKind, NumberOfKind DEF MemItems, MemValues
<1> QED BY <1>1, <1>2, <1>3, <1>4, <1>5, <1>6, <1>7, <1>8, <1>9
        DEF ProcFile, Registered, FileValues

(***************************************************************************)
(* Where the groups of a pass come from                                    *)
(***************************************************************************)
CpuGroup(cpu, m) == Group({<<"cpu", cpu>>, <<"mode", MODES[m]>>}, CpuValues)

AllGroups ==
    {Group({}, UptimeValues), Group({}, LoadavgValues), Group({}, MemValues)} \union
    {CpuGroup(Cpus[i], m) : i \in DOMAIN Cpus, m \in DOMAIN MODES} \union
    (UNION {{TaskGroup(rows[i]) : i \in DOMAIN rows} : rows \in Rows}) \union
    {NetGroup(Ifaces[i]) : i \in DOMAIN Ifaces} \union
    {DiskGroup(Disks[i]) : i \in DOMAIN Disks}

Steps == {"idle", "uptime", "loadavg", "cpu", "process", "net", "disk", "mem"}

(* The lines that are walked are those of the source whose turn it is.     *)
LinesInv ==
    /\ step \in Steps
    /\ at \in Nat
    /\ at = 0 => lines = <<>>
    /\ at # 0 => step \in cfg.on
    /\ at # 0 => \/ step = "cpu" /\ lines = Cpus
                 \/ step = "process" /\ lines \in Rows
                 \/ step = "net" /\ lines = Ifaces
                 \/ step = "disk" /\ lines = Disks

(* While a source is walked, its lines before `at` have been visited.      *)
Visited(source, i) == step = source => i \in 1 .. at - 1

FromUptime(g) == g = Group({}, UptimeValues) /\ step # "uptime"
FromLoadavg(g) == g = Group({}, LoadavgValues) /\ step \notin {"uptime", "loadavg"}
FromCpu(g) ==
    /\ step \notin {"uptime", "loadavg"}
    /\ "cpu" \in cfg.on
    /\ \E i \in DOMAIN Cpus, m \in DOMAIN MODES :
        g = CpuGroup(Cpus[i], m) /\ Visited("cpu", i)
FromProcess(g) ==
    /\ step \notin {"uptime", "loadavg", "cpu"}
    /\ "process" \in cfg.on
    /\ \E rows \in Rows : \E i \in DOMAIN rows :
        /\ g = TaskGroup(rows[i])
        /\ step = "process" => rows = lines
        /\ Visited("process", i)
FromNet(g) ==
    /\ step \notin {"uptime", "loadavg", "cpu", "process"}
    /\ "net" \in cfg.on
    /\ \E i \in DOMAIN Ifaces : g = NetGroup(Ifaces[i]) /\ Visited("net", i)
FromDisk(g) ==
    /\ step \in {"disk", "mem", "idle"}
    /\ "disk" \in cfg.on
    /\ \E i \in DOMAIN Disks : g = DiskGroup(Disks[i]) /\ Visited("disk", i)
FromMem(g) == g = Group({}, MemValues) /\ step = "idle" /\ "mem" \in cfg.on

Origin(g) ==
    \/ FromUptime(g) \/ FromLoadavg(g) \/ FromCpu(g) \/ FromProcess(g)
    \/ FromNet(g) \/ FromDisk(g) \/ FromMem(g)

OriginInv == out \in Seq(AllGroups) /\ \A k \in DOMAIN out : Origin(out[k])

(* What a file was sampled for is in a group.                              *)
SampledInv ==
    \A f \in sampled :
        f \in ProcFile /\ \E k \in DOMAIN out : FileValues[f] \subseteq out[k].values

IInv == LinesInv /\ OriginInv /\ SampledInv /\ OneValuePerSeries

(***************************************************************************)
(* Groups with different attributes                                        *)
(***************************************************************************)
Unrelated(g, h) == g.attrs = h.attrs => g.values \intersect h.values = {}
AllApart(s) == \A i, j \in DOMAIN s : i # j => Unrelated(s[i], s[j])

Keys(g) == {a[1] : a \in g.attrs}

LEMMA OtherKeys ==
    ASSUME NEW g, NEW h, Keys(g) # Keys(h)
    PROVE  Unrelated(g, h)
BY DEF Keys, Unrelated

LEMMA KeysOfGroups ==
    /\ \A values : Keys(Group({}, values)) = {}
    /\ \A cpu, m : Keys(CpuGroup(cpu, m)) = {"cpu", "mode"}
    /\ \A row : Keys(TaskGroup(row)) = {"pid", "thread"}
    /\ \A iface : Keys(NetGroup(iface)) = {"iface"}
    /\ \A device : Keys(DiskGroup(device)) = {"device"}
BY DEF Keys, Group, CpuGroup, TaskGroup, NetGroup, DiskGroup

LEMMA ModesDiffer ==
    ASSUME NEW m \in DOMAIN MODES, NEW n \in DOMAIN MODES, m # n
    PROVE  MODES[m] # MODES[n]
BY DEF MODES

LEMMA CpuGroupsDiffer ==
    ASSUME NEW c, NEW d, NEW m \in DOMAIN MODES, NEW n \in DOMAIN MODES,
           CpuGroup(c, m).attrs = CpuGroup(d, n).attrs
    PROVE  c = d /\ m = n
<1>1. {<<"cpu", c>>, <<"mode", MODES[m]>>} = {<<"cpu", d>>, <<"mode", MODES[n]>>}
    BY DEF CpuGroup, Group
<1>2. c = d /\ MODES[m] = MODES[n]
    <2>1. <<"cpu", c>> \in {<<"cpu", d>>, <<"mode", MODES[n]>>}
        BY <1>1
    <2>2. <<"mode", MODES[m]>> \in {<<"cpu", d>>, <<"mode", MODES[n]>>}
        BY <1>1
    <2> QED BY <2>1, <2>2
<1> QED BY <1>2, ModesDiffer

LEMMA OthersDiffer ==
    ASSUME NEW x, NEW y
    PROVE  /\ TaskGroup(x).attrs = TaskGroup(y).attrs => x.id = y.id
           /\ NetGroup(x).attrs = NetGroup(y).attrs => x = y
           /\ DiskGroup(x).attrs = DiskGroup(y).attrs => x = y
<1>1. ASSUME TaskGroup(x).attrs = TaskGroup(y).attrs
      PROVE  x.id = y.id
    <2>1. {<<"pid", x.id>>, <<"thread", x.thread>>} = {<<"pid", y.id>>, <<"thread", y.thread>>}
        BY <1>1 DEF TaskGroup, Group
    <2>2. <<"pid", x.id>> \in {<<"pid", y.id>>, <<"thread", y.thread>>}
        BY <2>1
    <2> QED BY <2>2
<1>2. ASSUME NEW key, {<<key, x>>} = {<<key, y>>}
      PROVE  x = y
    <2>1. <<key, x>> = <<key, y>>
        BY <1>2
    <2> QED BY <2>1
<1>3. ASSUME NetGroup(x).attrs = NetGroup(y).attrs
      PROVE  x = y
    BY <1>2, <1>3 DEF NetGroup, Group
<1>4. ASSUME DiskGroup(x).attrs = DiskGroup(y).attrs
      PROVE  x = y
    BY <1>2, <1>4 DEF DiskGroup, Group
<1> QED BY <1>1, <1>3, <1>4

(* The three groups without attributes of their own.                       *)
LEMMA HostGroupsUnrelated ==
    /\ UptimeValues \intersect LoadavgValues = {}
    /\ UptimeValues \intersect MemValues = {}
    /\ LoadavgValues \intersect MemValues = {}
BY DEF UptimeValues, LoadavgValues, MemValues, Values

(***************************************************************************)
(* What keeps the origin of the groups that are there                      *)
(***************************************************************************)
LEMMA TurnKeepsOrigin ==
    ASSUME LinesInv, step # "idle", step' = After[step], cfg' = cfg, NEW g, Origin(g)
    PROVE  Origin(g)'
<1>1. /\ After["uptime"] = "loadavg" /\ After["loadavg"] = "cpu" /\ After["cpu"] = "process"
      /\ After["process"] = "net" /\ After["net"] = "disk" /\ After["disk"] = "mem"
      /\ After["mem"] = "idle"
    BY DEF After
<1>2. step \in Steps
    BY DEF LinesInv
<1>3. CASE FromUptime(g)
    <2>1. FromUptime(g)'
        BY <1>1, <1>2, <1>3 DEF Steps, FromUptime
    <2> QED BY <2>1 DEF Origin
<1>4. CASE FromLoadavg(g)
    <2>1. FromLoadavg(g)'
        BY <1>1, <1>2, <1>4 DEF Steps, FromLoadavg
    <2> QED BY <2>1 DEF Origin
<1>5. CASE FromCpu(g)
    <2>1. FromCpu(g)'
        BY <1>1, <1>2, <1>5 DEF Steps, FromCpu, Visited
    <2> QED BY <2>1 DEF Origin
<1>6. CASE FromProcess(g)
    <2>1. FromProcess(g)'
        BY <1>1, <1>2, <1>6 DEF Steps, FromProcess, Visited
    <2> QED BY <2>1 DEF Origin
<1>7. CASE FromNet(g)
    <2>1. FromNet(g)'
        BY <1>1, <1>2, <1>7 DEF Steps, FromNet, Visited
    <2> QED BY <2>1 DEF Origin
<1>8. CASE FromDisk(g)
    <2>1. FromDisk(g)'
        BY <1>1, <1>2, <1>8 DEF Steps, FromDisk, Visited
    <2> QED BY <2>1 DEF Origin
<1>9. CASE FromMem(g)
    BY <1>9 DEF FromMem
<1> QED BY <1>3, <1>4, <1>5, <1>6, <1>7, <1>8, <1>9 DEF Origin

(* The lines are read (from 0 to 1), or the loop makes a turn.             *)
LEMMA WalkKeepsOrigin ==
    ASSUME LinesInv, step' = step, cfg' = cfg, at' = at + 1,
           at = 0 \/ lines' = lines, NEW g, Origin(g)
    PROVE  Origin(g)'
<1>1. at \in Nat
    BY DEF LinesInv
<1>2. ASSUME NEW source, NEW i, Visited(source, i)
      PROVE  Visited(source, i)' /\ (step = source => at # 0)
    BY <1>1, <1>2 DEF Visited
<1>3. CASE FromUptime(g) \/ FromLoadavg(g) \/ FromMem(g)
    BY <1>3 DEF Origin, FromUptime, FromLoadavg, FromMem
<1>5. CASE FromCpu(g)
    <2>1. FromCpu(g)'
        BY <1>2, <1>5 DEF FromCpu
    <2> QED BY <2>1 DEF Origin
<1>6. CASE FromProcess(g)
    <2>1. PICK rows \in Rows : \E i \in DOMAIN rows :
            /\ g = TaskGroup(rows[i])
            /\ step = "process" => rows = lines
            /\ Visited("process", i)
        BY <1>6 DEF FromProcess
    <2>2. step = "process" => at # 0
        BY <1>2, <2>1
    <2>3. FromProcess(g)'
        BY <1>2, <1>6, <2>1, <2>2 DEF FromProcess
    <2> QED BY <2>3 DEF Origin
<1>7. CASE FromNet(g)
    <2>1. FromNet(g)'
        BY <1>2, <1>7 DEF FromNet
    <2> QED BY <2>1 DEF Origin
<1>8. CASE FromDisk(g)
    <2>1. FromDisk(g)'
        BY <1>2, <1>8 DEF FromDisk
    <2> QED BY <2>1 DEF Origin
<1> QED BY <1>3, <1>5, <1>6, <1>7, <1>8 DEF Origin

(***************************************************************************)
(* What a push needs                                                       *)
(***************************************************************************)
LEMMA ElementsOfConcat ==
    ASSUME NEW S, NEW s \in Seq(S), NEW t \in Seq(S)
    PROVE  /\ s \o t \in Seq(S)
           /\ \A k \in DOMAIN (s \o t) :
                \/ k \in DOMAIN s /\ (s \o t)[k] = s[k]
                \/ \E n \in DOMAIN t : k = Len(s) + n /\ (s \o t)[k] = t[n]
           /\ \A k \in DOMAIN s : k \in DOMAIN (s \o t) /\ (s \o t)[k] = s[k]
           /\ \A n \in DOMAIN t : Len(s) + n \in DOMAIN (s \o t) /\ (s \o t)[Len(s) + n] = t[n]
<1>1. /\ s \o t \in Seq(S)
      /\ Len(s \o t) = Len(s) + Len(t)
      /\ \A i \in 1 .. Len(s) + Len(t) :
            (s \o t)[i] = IF i <= Len(s) THEN s[i] ELSE t[i - Len(s)]
    BY ConcatProperties
<1>2. /\ DOMAIN s = 1 .. Len(s) /\ DOMAIN t = 1 .. Len(t)
      /\ DOMAIN (s \o t) = 1 .. Len(s) + Len(t)
      /\ Len(s) \in Nat /\ Len(t) \in Nat
    BY <1>1
<1>3. ASSUME NEW k \in DOMAIN (s \o t)
      PROVE  \/ k \in DOMAIN s /\ (s \o t)[k] = s[k]
             \/ \E n \in DOMAIN t : k = Len(s) + n /\ (s \o t)[k] = t[n]
    <2>1. CASE k <= Len(s)
        BY <1>1, <1>2, <2>1
    <2>2. CASE ~(k <= Len(s))
        <3>1. k - Len(s) \in DOMAIN t /\ k = Len(s) + (k - Len(s))
            BY <1>2, <2>2
        <3>2. (s \o t)[k] = t[k - Len(s)]
            BY <1>1, <1>2, <2>2
        <3> QED BY <3>1, <3>2
    <2> QED BY <2>1, <2>2
<1>4. ASSUME NEW k \in DOMAIN s
      PROVE  k \in DOMAIN (s \o t) /\ (s \o t)[k] = s[k]
    BY <1>1, <1>2
<1>5. ASSUME NEW n \in DOMAIN t
      PROVE  Len(s) + n \in DOMAIN (s \o t) /\ (s \o t)[Len(s) + n] = t[n]
    <2>1. Len(s) + n \in 1 .. Len(s) + Len(t) /\ ~(Len(s) + n <= Len(s)) /\ (Len(s) + n) - Len(s) = n
        BY <1>2
    <2> QED BY <1>1, <1>2, <2>1
<1> QED BY <1>1, <1>3, <1>4, <1>5

LEMMA ApartWhenPushed ==
    ASSUME NEW S, NEW s \in Seq(S), NEW t \in Seq(S), AllApart(s), AllApart(t),
           \A i \in DOMAIN s, n \in DOMAIN t : Unrelated(s[i], t[n])
    PROVE  AllApart(s \o t)
<1>1. ASSUME NEW g, NEW h, Unrelated(g, h)
      PROVE  Unrelated(h, g)
    BY <1>1 DEF Unrelated
<1>2. SUFFICES ASSUME NEW i \in DOMAIN (s \o t), NEW j \in DOMAIN (s \o t), i # j
               PROVE  Unrelated((s \o t)[i], (s \o t)[j])
    BY DEF AllApart
<1>3. \/ i \in DOMAIN s /\ (s \o t)[i] = s[i]
      \/ \E n \in DOMAIN t : i = Len(s) + n /\ (s \o t)[i] = t[n]
    BY ElementsOfConcat
<1>4. \/ j \in DOMAIN s /\ (s \o t)[j] = s[j]
      \/ \E n \in DOMAIN t : j = Len(s) + n /\ (s \o t)[j] = t[n]
    BY ElementsOfConcat
<1> QED BY <1>1, <1>2, <1>3, <1>4 DEF AllApart

LEMMA OneValueIsApart == OneValuePerSeries <=> AllApart(out)
BY DEF OneValuePerSeries, AllApart, Unrelated

LEMMA PushKeepsInv ==
    ASSUME OriginInv, OneValuePerSeries,
           NEW t \in Seq(AllGroups), out' = out \o t, AllApart(t),
           \A g \in AllGroups : Origin(g) => Origin(g)',
           \A g \in AllGroups : (\E n \in DOMAIN t : g = t[n]) => Origin(g)',
           \A g \in AllGroups : Origin(g) => \A n \in DOMAIN t : Unrelated(g, t[n])
    PROVE  OriginInv' /\ OneValuePerSeries'
<1>1. out \in Seq(AllGroups) /\ \A k \in DOMAIN out : Origin(out[k]) /\ out[k] \in AllGroups
    BY DEF OriginInv
<1>2. \A n \in DOMAIN t : t[n] \in AllGroups
    OBVIOUS
<1>3. ASSUME NEW k \in DOMAIN (out \o t), NEW g \in AllGroups, g = (out \o t)[k]
      PROVE  Origin(g)'
    <2>1. \/ k \in DOMAIN out /\ g = out[k]
          \/ \E n \in DOMAIN t : g = t[n]
        BY <1>1, <1>3, ElementsOfConcat
    <2> QED BY <1>1, <2>1
<1>4. OriginInv'
    <2>1. out' \in Seq(AllGroups)
        BY <1>1, ElementsOfConcat
    <2>2. ASSUME NEW k \in DOMAIN out'
          PROVE  Origin(out[k])'
        <3>1. PICK g \in AllGroups : g = out'[k]
            BY <2>1, <2>2
        <3>2. Origin(g)'
            BY <1>3, <2>2, <3>1
        <3> QED BY <3>1, <3>2 DEF Origin, FromUptime, FromLoadavg, FromCpu, FromProcess, FromNet, FromDisk, FromMem
    <2> QED BY <2>1, <2>2 DEF OriginInv
<1>5. AllApart(out \o t)
    <2>1. AllApart(out) /\ \A i \in DOMAIN out, n \in DOMAIN t : Unrelated(out[i], t[n])
        BY <1>1, OneValueIsApart
    <2> QED BY <1>1, <2>1, ApartWhenPushed
<1>6. OneValuePerSeries'
    BY <1>5 DEF OneValuePerSeries, AllApart, Unrelated
<1> QED BY <1>4, <1>6

(* Nothing is pushed.                                                      *)
LEMMA NoPushKeepsInv ==
    ASSUME OriginInv, OneValuePerSeries, out' = out,
           \A g \in AllGroups : Origin(g) => Origin(g)'
    PROVE  OriginInv' /\ OneValuePerSeries'
<1>1. ASSUME NEW k \in DOMAIN out'
      PROVE  Origin(out[k])'
    <2>1. PICK g \in AllGroups : g = out[k] /\ Origin(g)
        BY <1>1 DEF OriginInv
    <2>2. Origin(g)' /\ g = out'[k]
        BY <2>1
    <2> QED BY <2>2 DEF Origin, FromUptime, FromLoadavg, FromCpu, FromProcess, FromNet, FromDisk, FromMem
<1> QED BY <1>1 DEF OriginInv, OneValuePerSeries

LEMMA PushKeepsSampled ==
    ASSUME SampledInv, OriginInv, NEW t \in Seq(AllGroups), out' = out \o t,
           NEW files, sampled' = sampled \union files,
           \A f \in files : f \in ProcFile /\ \E n \in DOMAIN t : FileValues[f] \subseteq t[n].values
    PROVE  SampledInv'
<1>1. out \in Seq(AllGroups)
    BY DEF OriginInv
<1>2. ASSUME NEW f \in sampled'
      PROVE  f \in ProcFile /\ \E k \in DOMAIN out' : FileValues[f] \subseteq out'[k].values
    <2>1. CASE f \in sampled
        <3>1. PICK k \in DOMAIN out : FileValues[f] \subseteq out[k].values
            BY <2>1 DEF SampledInv
        <3>2. k \in DOMAIN out' /\ out'[k] = out[k]
            BY <1>1, ElementsOfConcat
        <3> QED BY <2>1, <3>1, <3>2 DEF SampledInv
    <2>2. CASE f \in files
        <3>1. PICK n \in DOMAIN t : FileValues[f] \subseteq t[n].values
            BY <2>2
        <3>2. Len(out) + n \in DOMAIN out' /\ out'[Len(out) + n] = t[n]
            BY <1>1, ElementsOfConcat
        <3> QED BY <2>2, <3>1, <3>2
    <2> QED BY <1>2, <2>1, <2>2
<1> QED BY <1>2 DEF SampledInv

LEMMA KeysOfOrigin ==
    ASSUME NEW g
    PROVE  /\ FromUptime(g) \/ FromLoadavg(g) \/ FromMem(g) => Keys(g) = {}
           /\ FromCpu(g) => Keys(g) = {"cpu", "mode"}
           /\ FromProcess(g) => Keys(g) = {"pid", "thread"}
           /\ FromNet(g) => Keys(g) = {"iface"}
           /\ FromDisk(g) => Keys(g) = {"device"}
BY KeysOfGroups DEF FromUptime, FromLoadavg, FromMem, FromCpu, FromProcess, FromNet, FromDisk

(***************************************************************************)
(* A group that is about to be pushed is unrelated to those that are there *)
(***************************************************************************)
LEMMA HostGroupIsNew ==
    ASSUME LinesInv, NEW g, Origin(g)
    PROVE  /\ step # "uptime"
           /\ step = "loadavg" => Unrelated(g, Group({}, LoadavgValues))
           /\ step = "mem" => Unrelated(g, Group({}, MemValues))
<1>1. step # "uptime"
    BY DEF Origin, FromUptime, FromLoadavg, FromCpu, FromProcess, FromNet, FromDisk, FromMem
<1>2. ASSUME step = "loadavg"
      PROVE  Unrelated(g, Group({}, LoadavgValues))
    <2>1. FromUptime(g)
        BY <1>2 DEF Origin, FromLoadavg, FromCpu, FromProcess, FromNet, FromDisk, FromMem
    <2> QED BY <2>1, HostGroupsUnrelated DEF FromUptime, Unrelated, Group
<1>3. ASSUME step = "mem"
      PROVE  Unrelated(g, Group({}, MemValues))
    <2>1. CASE FromUptime(g) \/ FromLoadavg(g)
        BY <2>1, HostGroupsUnrelated DEF FromUptime, FromLoadavg, Unrelated, Group
    <2>2. ASSUME Keys(g) # {}
          PROVE  Unrelated(g, Group({}, MemValues))
        BY <2>2, OtherKeys, KeysOfGroups
    <2>3. ~FromMem(g)
        BY <1>3 DEF FromMem
    <2>4. CASE FromCpu(g) \/ FromProcess(g) \/ FromNet(g) \/ FromDisk(g)
        <3>1. Keys(g) # {}
            BY <2>4, KeysOfOrigin
        <3> QED BY <2>2, <3>1
    <2> QED BY <2>1, <2>3, <2>4 DEF Origin
<1> QED BY <1>1, <1>2, <1>3

LEMMA CpuGroupIsNew ==
    ASSUME LinesInv, step = "cpu", at \in DOMAIN lines, NEW m \in DOMAIN MODES,
           NEW g, Origin(g)
    PROVE  Unrelated(g, CpuGroup(lines[at], m))
<1>1. at \in Nat /\ lines = Cpus
    BY DEF LinesInv
<1>2. FromUptime(g) \/ FromLoadavg(g) \/ FromCpu(g)
    BY DEF Origin, FromProcess, FromNet, FromDisk, FromMem
<1>3. CASE FromUptime(g) \/ FromLoadavg(g)
    <2>1. Keys(g) = {}
        BY <1>3, KeysOfOrigin
    <2>2. Keys(CpuGroup(lines[at], m)) = {"cpu", "mode"}
        BY KeysOfGroups
    <2> QED BY <2>1, <2>2, OtherKeys
<1>4. CASE FromCpu(g)
    <2>1. PICK i \in DOMAIN Cpus, n \in DOMAIN MODES : g = CpuGroup(Cpus[i], n) /\ i \in 1 .. at - 1
        BY <1>4 DEF FromCpu, Visited
    <2>2. Cpus[i] # Cpus[at]
        BY <1>1, <2>1, LinesAssumption DEF IsInjective
    <2>3. g.attrs # CpuGroup(Cpus[at], m).attrs
        BY <2>1, <2>2, CpuGroupsDiffer
    <2> QED BY <1>1, <2>3 DEF Unrelated
<1> QED BY <1>2, <1>3, <1>4

LEMMA TaskGroupIsNew ==
    ASSUME LinesInv, step = "process", at \in DOMAIN lines, NEW g, Origin(g)
    PROVE  Unrelated(g, TaskGroup(lines[at]))
<1>1. at \in Nat /\ lines \in Rows
    BY DEF LinesInv
<1>2. FromUptime(g) \/ FromLoadavg(g) \/ FromCpu(g) \/ FromProcess(g)
    BY DEF Origin, FromNet, FromDisk, FromMem
<1>3. CASE FromUptime(g) \/ FromLoadavg(g) \/ FromCpu(g)
    <2>1. Keys(g) \in {{}, {"cpu", "mode"}}
        BY <1>3, KeysOfOrigin
    <2>2. Keys(TaskGroup(lines[at])) = {"pid", "thread"}
        BY KeysOfGroups
    <2> QED BY <2>1, <2>2, OtherKeys
<1>4. CASE FromProcess(g)
    <2>1. PICK i \in DOMAIN lines : g = TaskGroup(lines[i]) /\ i \in 1 .. at - 1
        BY <1>4 DEF FromProcess, Visited
    <2>2. lines[i].id # lines[at].id
        BY <1>1, <2>1, RowsAssumption
    <2>3. g.attrs # TaskGroup(lines[at]).attrs
        BY <2>1, <2>2, OthersDiffer
    <2> QED BY <2>3 DEF Unrelated
<1> QED BY <1>2, <1>3, <1>4

LEMMA NetGroupIsNew ==
    ASSUME LinesInv, step = "net", at \in DOMAIN lines, NEW g, Origin(g)
    PROVE  Unrelated(g, NetGroup(lines[at]))
<1>1. at \in Nat /\ lines = Ifaces
    BY DEF LinesInv
<1>2. \/ FromUptime(g) \/ FromLoadavg(g) \/ FromCpu(g) \/ FromProcess(g)
      \/ FromNet(g)
    BY DEF Origin, FromDisk, FromMem
<1>3. CASE FromUptime(g) \/ FromLoadavg(g) \/ FromCpu(g) \/ FromProcess(g)
    <2>1. Keys(g) \in {{}, {"cpu", "mode"}, {"pid", "thread"}}
        BY <1>3, KeysOfOrigin
    <2>2. Keys(NetGroup(lines[at])) = {"iface"}
        BY KeysOfGroups
    <2> QED BY <2>1, <2>2, OtherKeys
<1>4. CASE FromNet(g)
    <2>1. PICK i \in DOMAIN Ifaces : g = NetGroup(Ifaces[i]) /\ i \in 1 .. at - 1
        BY <1>4 DEF FromNet, Visited
    <2>2. Ifaces[i] # Ifaces[at]
        BY <1>1, <2>1, LinesAssumption DEF IsInjective
    <2>3. g.attrs # NetGroup(lines[at]).attrs
        BY <1>1, <2>1, <2>2, OthersDiffer
    <2> QED BY <2>3 DEF Unrelated
<1> QED BY <1>2, <1>3, <1>4

LEMMA DiskGroupIsNew ==
    ASSUME LinesInv, step = "disk", at \in DOMAIN lines, NEW g, Origin(g)
    PROVE  Unrelated(g, DiskGroup(lines[at]))
<1>1. at \in Nat /\ lines = Disks
    BY DEF LinesInv
<1>2. \/ FromUptime(g) \/ FromLoadavg(g) \/ FromCpu(g) \/ FromProcess(g)
      \/ FromNet(g) \/ FromDisk(g)
    BY DEF Origin, FromMem
<1>3. CASE FromUptime(g) \/ FromLoadavg(g) \/ FromCpu(g) \/ FromProcess(g) \/ FromNet(g)
    <2>1. Keys(g) \in {{}, {"cpu", "mode"}, {"pid", "thread"}, {"iface"}}
        BY <1>3, KeysOfOrigin
    <2>2. Keys(DiskGroup(lines[at])) = {"device"}
        BY KeysOfGroups
    <2> QED BY <2>1, <2>2, OtherKeys
<1>4. CASE FromDisk(g)
    <2>1. PICK i \in DOMAIN Disks : g = DiskGroup(Disks[i]) /\ i \in 1 .. at - 1
        BY <1>4 DEF FromDisk, Visited
    <2>2. Disks[i] # Disks[at]
        BY <1>1, <2>1, LinesAssumption DEF IsInjective
    <2>3. g.attrs # DiskGroup(lines[at]).attrs
        BY <1>1, <2>1, <2>2, OthersDiffer
    <2> QED BY <2>3 DEF Unrelated
<1> QED BY <1>2, <1>3, <1>4

(***************************************************************************)
(* The inductive invariant                                                 *)
(***************************************************************************)
LEMMA InitInv == Init => IInv
BY DEF Init, IInv, LinesInv, OriginInv, SampledInv, OneValuePerSeries, Steps

LEMMA AfterIsAStep == \A s \in Steps \ {"idle"} : After[s] \in Steps
BY DEF After, Steps

LEMMA LinesInvNext ==
    ASSUME LinesInv, [Next]_vars
    PROVE  LinesInv'
<1> USE DEF LinesInv
<1>1. CASE UNCHANGED vars
    BY <1>1 DEF vars
<1>2. CASE BeginPass
    BY <1>2 DEF BeginPass, Steps
<1>3. CASE PassOver
    BY <1>3, AfterIsAStep DEF PassOver
<1>4. CASE EndOfLines
    <2>1. step # "idle"
        BY <1>4 DEF EndOfLines
    <2> QED BY <1>4, <2>1, AfterIsAStep DEF EndOfLines
<1>5. CASE CollectUptime \/ CollectLoadavg \/ CollectMem
    BY <1>5, AfterIsAStep DEF CollectUptime, CollectLoadavg, CollectMem, PushOne
<1>6. CASE ReadCpu \/ ReadNet \/ ReadDisk
    BY <1>6 DEF ReadCpu, ReadNet, ReadDisk, Read
<1>7. CASE ReadProcess
    BY <1>7 DEF ReadProcess, Read
<1>8. CASE CollectCpu \/ CollectProcess \/ CollectNet \/ CollectDisk
    BY <1>8 DEF CollectCpu, CollectProcess, CollectNet, CollectDisk, Line
<1> QED BY <1>1, <1>2, <1>3, <1>4, <1>5, <1>6, <1>7, <1>8 DEF Next

(* A pass starts from nothing.                                             *)
LEMMA BeginPassKeepsInv ==
    ASSUME IInv, BeginPass
    PROVE  OriginInv' /\ OneValuePerSeries' /\ SampledInv'
BY DEF BeginPass, OriginInv, OneValuePerSeries, SampledInv

(* A source is passed over, its lines are at an end, or are read.          *)
LEMMA QuietStepKeepsInv ==
    ASSUME IInv, \/ PassOver \/ EndOfLines
                 \/ ReadCpu \/ ReadProcess \/ ReadNet \/ ReadDisk
    PROVE  OriginInv' /\ OneValuePerSeries' /\ SampledInv'
<1>1. out' = out /\ sampled' = sampled /\ cfg' = cfg
    BY DEF PassOver, EndOfLines, ReadCpu, ReadProcess, ReadNet, ReadDisk, Read
<1>2. LinesInv
    BY DEF IInv
<1>3. ASSUME NEW g \in AllGroups, Origin(g)
      PROVE  Origin(g)'
    <2>1. CASE PassOver \/ EndOfLines
        <3>1. step # "idle" /\ step' = After[step]
            BY <1>2, <2>1 DEF PassOver, EndOfLines, LinesInv
        <3> QED BY <1>1, <1>2, <1>3, <3>1, TurnKeepsOrigin
    <2>2. CASE ReadCpu \/ ReadProcess \/ ReadNet \/ ReadDisk
        <3>1. step' = step /\ at = 0 /\ at' = at + 1
            BY <2>2 DEF ReadCpu, ReadProcess, ReadNet, ReadDisk, Read
        <3> QED BY <1>1, <1>2, <1>3, <3>1, WalkKeepsOrigin
    <2> QED BY <2>1, <2>2
<1>4. OriginInv' /\ OneValuePerSeries'
    BY <1>1, <1>3, NoPushKeepsInv DEF IInv
<1>5. SampledInv'
    BY <1>1 DEF IInv, SampledInv
<1> QED BY <1>4, <1>5

LEMMA SingletonSequence ==
    ASSUME NEW S, NEW g \in S
    PROVE  <<g>> \in Seq(S) /\ AllApart(<<g>>) /\ DOMAIN <<g>> = {1} /\ <<g>>[1] = g
BY DEF AllApart

(* One group is pushed.                                                    *)
LEMMA OneGroupKeepsInv ==
    ASSUME IInv, NEW h \in AllGroups, NEW files, out' = out \o <<h>>,
           sampled' = sampled \union files,
           \A f \in files : f \in ProcFile /\ FileValues[f] \subseteq h.values,
           \A g \in AllGroups : Origin(g) => Origin(g)',
           Origin(h)',
           \A g \in AllGroups : Origin(g) => Unrelated(g, h)
    PROVE  OriginInv' /\ OneValuePerSeries' /\ SampledInv'
<1>1. PICK t \in Seq(AllGroups) : t = <<h>>
    BY SingletonSequence
<1>2. AllApart(t) /\ DOMAIN t = {1} /\ t[1] = h
    BY <1>1, SingletonSequence
<1>3. OriginInv' /\ OneValuePerSeries'
    <2>1. \A g \in AllGroups : (\E n \in DOMAIN t : g = t[n]) => Origin(g)'
        BY <1>2
    <2>2. \A g \in AllGroups : Origin(g) => \A n \in DOMAIN t : Unrelated(g, t[n])
        BY <1>2
    <2> QED BY <1>1, <1>2, <2>1, <2>2, PushKeepsInv DEF IInv
<1>4. SampledInv'
    BY <1>1, <1>2, PushKeepsSampled DEF IInv
<1> QED BY <1>3, <1>4

LEMMA PushOneKeepsInv ==
    ASSUME IInv, CollectUptime \/ CollectLoadavg \/ CollectMem
    PROVE  OriginInv' /\ OneValuePerSeries' /\ SampledInv'
<1>1. LinesInv
    BY DEF IInv
<1>2. ASSUME NEW g \in AllGroups, Origin(g)
      PROVE  Origin(g)'
    <2>1. step # "idle" /\ step' = After[step] /\ cfg' = cfg
        BY DEF CollectUptime, CollectLoadavg, CollectMem, PushOne
    <2> QED BY <1>1, <1>2, <2>1, TurnKeepsOrigin
<1>3. CASE CollectUptime
    <2>1. PICK h \in AllGroups : h = Group({}, UptimeValues)
        BY DEF AllGroups
    <2>6. PICK files : files = {"uptime"}
        OBVIOUS
    <2>2. /\ out' = out \o <<h>> /\ sampled' = sampled \union files
          /\ step = "uptime" /\ step' = "loadavg"
        BY <1>3, <2>1, <2>6 DEF CollectUptime, PushOne, Push, FilesOf, After
    <2>3. \A f \in files : f \in ProcFile /\ FileValues[f] \subseteq h.values
        BY <2>1, <2>6 DEF ProcFile, FileValues, Group
    <2>4. Origin(h)'
        BY <2>1, <2>2 DEF Origin, FromUptime
    <2>5. \A g \in AllGroups : Origin(g) => Unrelated(g, h)
        BY <1>1, <2>1, <2>2, HostGroupIsNew
    <2> QED BY <1>2, <2>2, <2>3, <2>4, <2>5, OneGroupKeepsInv
<1>4. CASE CollectLoadavg
    <2>1. PICK h \in AllGroups : h = Group({}, LoadavgValues)
        BY DEF AllGroups
    <2>6. PICK files : files = {"loadavg"}
        OBVIOUS
    <2>2. /\ out' = out \o <<h>> /\ sampled' = sampled \union files
          /\ step = "loadavg" /\ step' = "cpu"
        BY <1>4, <2>1, <2>6 DEF CollectLoadavg, PushOne, Push, FilesOf, After
    <2>3. \A f \in files : f \in ProcFile /\ FileValues[f] \subseteq h.values
        BY <2>1, <2>6 DEF ProcFile, FileValues, Group
    <2>4. Origin(h)'
        BY <2>1, <2>2 DEF Origin, FromLoadavg
    <2>5. \A g \in AllGroups : Origin(g) => Unrelated(g, h)
        BY <1>1, <2>1, <2>2, HostGroupIsNew
    <2> QED BY <1>2, <2>2, <2>3, <2>4, <2>5, OneGroupKeepsInv
<1>5. CASE CollectMem
    <2>1. PICK h \in AllGroups : h = Group({}, MemValues)
        BY DEF AllGroups
    <2>6. PICK files : files = {"meminfo"}
        OBVIOUS
    <2>2. /\ out' = out \o <<h>> /\ sampled' = sampled \union files
          /\ step = "mem" /\ step' = "idle" /\ "mem" \in cfg'.on
        BY <1>5, <2>1, <2>6 DEF CollectMem, PushOne, Push, FilesOf, After
    <2>3. \A f \in files : f \in ProcFile /\ FileValues[f] \subseteq h.values
        BY <2>1, <2>6 DEF ProcFile, FileValues, Group
    <2>4. Origin(h)'
        BY <2>1, <2>2 DEF Origin, FromMem
    <2>5. \A g \in AllGroups : Origin(g) => Unrelated(g, h)
        BY <1>1, <2>1, <2>2, HostGroupIsNew
    <2> QED BY <1>2, <2>2, <2>3, <2>4, <2>5, OneGroupKeepsInv
<1> QED BY <1>3, <1>4, <1>5

LEMMA LineKeepsOrigins ==
    ASSUME LinesInv, at \in DOMAIN lines, at' = at + 1, step' = step, lines' = lines, cfg' = cfg
    PROVE  /\ at \in Nat \ {0}
           /\ step \in cfg.on
           /\ \A g \in AllGroups : Origin(g) => Origin(g)'
<1>1. at \in Nat \ {0}
    BY DEF LinesInv
<1>2. step \in cfg.on
    BY <1>1 DEF LinesInv
<1>3. ASSUME NEW g \in AllGroups, Origin(g)
      PROVE  Origin(g)'
    BY <1>3, WalkKeepsOrigin
<1> QED BY <1>1, <1>2, <1>3

LEMMA CpuLineKeepsInv ==
    ASSUME IInv, CollectCpu
    PROVE  OriginInv' /\ OneValuePerSeries' /\ SampledInv'
<1>1. /\ LinesInv /\ step = "cpu" /\ at \in DOMAIN lines /\ at' = at + 1
      /\ step' = step /\ lines' = lines /\ cfg' = cfg
    BY DEF IInv, CollectCpu, Line
<1>2. /\ at \in Nat \ {0} /\ "cpu" \in cfg'.on
      /\ \A g \in AllGroups : Origin(g) => Origin(g)'
    BY <1>1, LineKeepsOrigins
<1>3. lines = Cpus
    BY <1>1, <1>2 DEF LinesInv
<1>4. CASE out' = out /\ sampled' = sampled
    <2>1. OriginInv' /\ OneValuePerSeries'
        BY <1>2, <1>4, NoPushKeepsInv DEF IInv
    <2> QED BY <1>4, <2>1 DEF IInv, SampledInv
<1>5. CASE Push(CpuLineGroups(lines[at]), FilesOf("cpu"))
    <2>1. PICK i \in DOMAIN Cpus : i = at
        BY <1>1, <1>3
    <2>2. PICK t : t = CpuLineGroups(Cpus[i])
        OBVIOUS
    <2>3. /\ DOMAIN t = 1 .. 10 /\ DOMAIN MODES = 1 .. 10
          /\ \A m \in 1 .. 10 : t[m] = CpuGroup(Cpus[i], m)
        <3>1. DOMAIN MODES = 1 .. 10
            BY DEF MODES
        <3> QED BY <2>2, <3>1 DEF CpuLineGroups, CpuGroup
    <2>4. \A m \in 1 .. 10 : t[m] \in AllGroups
        BY <2>3 DEF AllGroups
    <2>5. t \in Seq(AllGroups)
        <3>1. t = [m \in 1 .. 10 |-> t[m]]
            BY <2>2, <2>3 DEF CpuLineGroups
        <3> QED BY <2>4, <3>1
    <2>6. AllApart(t)
        <3>1. ASSUME NEW m \in 1 .. 10, NEW n \in 1 .. 10, m # n
              PROVE  Unrelated(t[m], t[n])
            <4>1. CpuGroup(Cpus[i], m).attrs # CpuGroup(Cpus[i], n).attrs
                BY <2>3, <3>1, CpuGroupsDiffer
            <4> QED BY <2>3, <4>1 DEF Unrelated
        <3> QED BY <2>3, <3>1 DEF AllApart
    <2>7. out' = out \o t
        BY <1>3, <1>5, <2>1, <2>2 DEF Push
    <2>8. ASSUME NEW g \in AllGroups, NEW n \in DOMAIN t, g = t[n]
          PROVE  Origin(g)'
        <3>1. g = CpuGroup(Cpus[i], n) /\ n \in DOMAIN MODES
            BY <2>3, <2>8
        <3>2. Visited("cpu", i)'
            BY <1>1, <1>2, <2>1 DEF Visited
        <3>3. step' = "cpu"
            BY <1>1
        <3>4. FromCpu(g)'
            BY <1>2, <3>1, <3>2, <3>3 DEF FromCpu
        <3> QED BY <3>4 DEF Origin
    <2>9. ASSUME NEW g \in AllGroups, Origin(g), NEW n \in DOMAIN t
          PROVE  Unrelated(g, t[n])
        <3>1. Unrelated(g, CpuGroup(lines[at], n))
            BY <1>1, <2>3, <2>9, CpuGroupIsNew
        <3> QED BY <1>3, <2>1, <2>3, <3>1
    <2>10. OriginInv' /\ OneValuePerSeries'
        BY <1>2, <2>5, <2>6, <2>7, <2>8, <2>9, PushKeepsInv DEF IInv
    <2>11. PICK files : files = {"cpustat"}
        OBVIOUS
    <2>12. sampled' = sampled \union files
        BY <1>5, <2>11 DEF Push, FilesOf
    <2>13. \A f \in files : f \in ProcFile /\ \E n \in DOMAIN t : FileValues[f] \subseteq t[n].values
        <3>1. 1 \in DOMAIN t /\ t[1].values = CpuValues
            BY <2>3 DEF CpuGroup, Group
        <3> QED BY <2>11, <3>1 DEF ProcFile, FileValues
    <2>14. SampledInv'
        BY <2>5, <2>7, <2>12, <2>13, PushKeepsSampled DEF IInv
    <2> QED BY <2>10, <2>14
<1> QED BY <1>4, <1>5 DEF CollectCpu, Line

LEMMA TaskLineKeepsInv ==
    ASSUME IInv, CollectProcess
    PROVE  OriginInv' /\ OneValuePerSeries' /\ SampledInv'
<1>1. /\ LinesInv /\ step = "process" /\ at \in DOMAIN lines /\ at' = at + 1
      /\ step' = step /\ lines' = lines /\ cfg' = cfg
    BY DEF IInv, CollectProcess, Line
<1>2. /\ at \in Nat \ {0} /\ "process" \in cfg'.on
      /\ \A g \in AllGroups : Origin(g) => Origin(g)'
    BY <1>1, LineKeepsOrigins
<1>3. PICK rows \in Rows : rows = lines
    BY <1>1, <1>2 DEF LinesInv
<1>4. PICK i \in DOMAIN rows : i = at
    BY <1>1, <1>3
<1>5. PICK h : h = TaskGroup(rows[i])
    OBVIOUS
<1>6. h \in AllGroups
    BY <1>5 DEF AllGroups
<1>7. PICK files : files = rows[i].files
    OBVIOUS
<1>8. out' = out \o <<h>> /\ sampled' = sampled \union files
    BY <1>3, <1>4, <1>5, <1>7 DEF CollectProcess, Line, Push
<1>9. ASSUME NEW f \in files
      PROVE  f \in ProcFile /\ FileValues[f] \subseteq h.values
    <2>1. f \in {"io", "status", "stat"} /\ h.values = RowValues(files)
        BY <1>5, <1>7, <1>9, RowsAssumption DEF TaskFiles, TaskGroup, Group
    <2> QED BY <1>9, <2>1 DEF RowValues, FileValues, ProcFile
<1>10. Origin(h)'
    <2>1. Visited("process", i)'
        BY <1>1, <1>2, <1>4 DEF Visited
    <2>2. step' = "process" /\ lines' = rows
        BY <1>1, <1>3
    <2>3. FromProcess(h)'
        BY <1>2, <1>5, <2>1, <2>2 DEF FromProcess
    <2> QED BY <2>3 DEF Origin
<1>11. ASSUME NEW g \in AllGroups, Origin(g)
       PROVE  Unrelated(g, h)
    BY <1>1, <1>3, <1>4, <1>5, <1>11, TaskGroupIsNew
<1> QED BY <1>2, <1>6, <1>8, <1>9, <1>10, <1>11, OneGroupKeepsInv

LEMMA IfaceLineKeepsInv ==
    ASSUME IInv, CollectNet
    PROVE  OriginInv' /\ OneValuePerSeries' /\ SampledInv'
<1>1. /\ LinesInv /\ step = "net" /\ at \in DOMAIN lines /\ at' = at + 1
      /\ step' = step /\ lines' = lines /\ cfg' = cfg
    BY DEF IInv, CollectNet, Line
<1>2. /\ at \in Nat \ {0} /\ "net" \in cfg'.on
      /\ \A g \in AllGroups : Origin(g) => Origin(g)'
    BY <1>1, LineKeepsOrigins
<1>3. lines = Ifaces
    BY <1>1, <1>2 DEF LinesInv
<1>4. CASE out' = out /\ sampled' = sampled
    <2>1. OriginInv' /\ OneValuePerSeries'
        BY <1>2, <1>4, NoPushKeepsInv DEF IInv
    <2> QED BY <1>4, <2>1 DEF IInv, SampledInv
<1>5. CASE Push(<<NetGroup(lines[at])>>, FilesOf("net"))
    <2>1. PICK i \in DOMAIN Ifaces : i = at
        BY <1>1, <1>3
    <2>2. PICK h \in AllGroups : h = NetGroup(Ifaces[i])
        BY DEF AllGroups
    <2>3. PICK files : files = {"netdev"}
        OBVIOUS
    <2>4. out' = out \o <<h>> /\ sampled' = sampled \union files
        BY <1>3, <1>5, <2>1, <2>2, <2>3 DEF Push, FilesOf
    <2>5. \A f \in files : f \in ProcFile /\ FileValues[f] \subseteq h.values
        BY <2>2, <2>3 DEF ProcFile, FileValues, NetGroup, Group
    <2>6. Origin(h)'
        <3>1. Visited("net", i)'
            BY <1>1, <1>2, <2>1 DEF Visited
        <3>2. step' = "net"
            BY <1>1
        <3>3. FromNet(h)'
            BY <1>2, <2>2, <3>1, <3>2 DEF FromNet
        <3> QED BY <3>3 DEF Origin
    <2>7. ASSUME NEW g \in AllGroups, Origin(g)
          PROVE  Unrelated(g, h)
        BY <1>1, <1>3, <2>1, <2>2, <2>7, NetGroupIsNew
    <2> QED BY <1>2, <2>4, <2>5, <2>6, <2>7, OneGroupKeepsInv
<1> QED BY <1>4, <1>5 DEF CollectNet, Line

LEMMA DiskLineKeepsInv ==
    ASSUME IInv, CollectDisk
    PROVE  OriginInv' /\ OneValuePerSeries' /\ SampledInv'
<1>1. /\ LinesInv /\ step = "disk" /\ at \in DOMAIN lines /\ at' = at + 1
      /\ step' = step /\ lines' = lines /\ cfg' = cfg
    BY DEF IInv, CollectDisk, Line
<1>2. /\ at \in Nat \ {0} /\ "disk" \in cfg'.on
      /\ \A g \in AllGroups : Origin(g) => Origin(g)'
    BY <1>1, LineKeepsOrigins
<1>3. lines = Disks
    BY <1>1, <1>2 DEF LinesInv
<1>4. CASE out' = out /\ sampled' = sampled
    <2>1. OriginInv' /\ OneValuePerSeries'
        BY <1>2, <1>4, NoPushKeepsInv DEF IInv
    <2> QED BY <1>4, <2>1 DEF IInv, SampledInv
<1>5. CASE Push(<<DiskGroup(lines[at])>>, FilesOf("disk"))
    <2>1. PICK i \in DOMAIN Disks : i = at
        BY <1>1, <1>3
    <2>2. PICK h \in AllGroups : h = DiskGroup(Disks[i])
        BY DEF AllGroups
    <2>3. PICK files : files = {"diskstats"}
        OBVIOUS
    <2>4. out' = out \o <<h>> /\ sampled' = sampled \union files
        BY <1>3, <1>5, <2>1, <2>2, <2>3 DEF Push, FilesOf
    <2>5. \A f \in files : f \in ProcFile /\ FileValues[f] \subseteq h.values
        BY <2>2, <2>3 DEF ProcFile, FileValues, DiskGroup, Group
    <2>6. Origin(h)'
        <3>1. Visited("disk", i)'
            BY <1>1, <1>2, <2>1 DEF Visited
        <3>2. step' = "disk"
            BY <1>1
        <3>3. FromDisk(h)'
            BY <1>2, <2>2, <3>1, <3>2 DEF FromDisk
        <3> QED BY <3>3 DEF Origin
    <2>7. ASSUME NEW g \in AllGroups, Origin(g)
          PROVE  Unrelated(g, h)
        BY <1>1, <1>3, <2>1, <2>2, <2>7, DiskGroupIsNew
    <2> QED BY <1>2, <2>4, <2>5, <2>6, <2>7, OneGroupKeepsInv
<1> QED BY <1>4, <1>5 DEF CollectDisk, Line

LEMMA NextKeepsInv ==
    ASSUME IInv, [Next]_vars
    PROVE  IInv'
<1>1. LinesInv'
    BY LinesInvNext DEF IInv
<1>2. OriginInv' /\ OneValuePerSeries' /\ SampledInv'
    <2>1. CASE UNCHANGED vars
        <3>1. ASSUME NEW g \in AllGroups, Origin(g)
              PROVE  Origin(g)'
            BY <2>1, <3>1 DEF vars, Origin, FromUptime, FromLoadavg, FromCpu, FromProcess,
                FromNet, FromDisk, FromMem, Visited
        <3>2. OriginInv' /\ OneValuePerSeries'
            BY <2>1, <3>1, NoPushKeepsInv DEF vars, IInv
        <3> QED BY <2>1, <3>2 DEF vars, IInv, SampledInv
    <2>2. CASE BeginPass
        BY <2>2, BeginPassKeepsInv
    <2>3. CASE PassOver \/ EndOfLines \/ ReadCpu \/ ReadProcess \/ ReadNet \/ ReadDisk
        BY <2>3, QuietStepKeepsInv
    <2>4. CASE CollectUptime \/ CollectLoadavg \/ CollectMem
        BY <2>4, PushOneKeepsInv
    <2>5. CASE CollectCpu
        BY <2>5, CpuLineKeepsInv
    <2>6. CASE CollectProcess
        BY <2>6, TaskLineKeepsInv
    <2>7. CASE CollectNet
        BY <2>7, IfaceLineKeepsInv
    <2>8. CASE CollectDisk
        BY <2>8, DiskLineKeepsInv
    <2> QED BY <2>1, <2>2, <2>3, <2>4, <2>5, <2>6, <2>7, <2>8 DEF Next
<1> QED BY <1>1, <1>2 DEF IInv

LEMMA InvHolds == Spec => []IInv
BY InitInv, NextKeepsInv, PTL DEF Spec

(***************************************************************************)
(* Theorems                                                                *)
(***************************************************************************)
(* The values of a group are those of files whose items are registered.    *)
LEMMA ValuesOfOrigin ==
    ASSUME NEW g, Origin(g), NEW v \in g.values
    PROVE  \E f \in ProcFile \intersect FilesRegistered : v \in FileValues[f]
<1>1. /\ \A s \in {"uptime", "loadavg"} \union cfg.on : FilesOf(s) \subseteq FilesRegistered
      /\ FilesOf("uptime") = {"uptime"} /\ FilesOf("loadavg") = {"loadavg"}
      /\ FilesOf("cpu") = {"cpustat"} /\ FilesOf("process") = TaskFiles
      /\ FilesOf("net") = {"netdev"} /\ FilesOf("disk") = {"diskstats"}
      /\ FilesOf("mem") = {"meminfo"}
    BY DEF FilesRegistered, FilesOf, TaskFiles
<1>2. CASE FromUptime(g) \/ FromLoadavg(g) \/ FromMem(g)
    BY <1>1, <1>2 DEF FromUptime, FromLoadavg, FromMem, Group, ProcFile, FileValues
<1>3. CASE FromCpu(g) \/ FromNet(g) \/ FromDisk(g)
    BY <1>1, <1>3 DEF FromCpu, FromNet, FromDisk, CpuGroup, NetGroup, DiskGroup, Group,
        ProcFile, FileValues
<1>4. CASE FromProcess(g)
    <2>1. PICK files : g.values = RowValues(files)
        BY <1>4 DEF FromProcess, TaskGroup, Group
    <2>2. TaskFiles \subseteq FilesRegistered
        BY <1>1, <1>4 DEF FromProcess
    <2>3. v \in IoValues \/ v \in StatusValues \/ v \in StatValues
        BY <2>1 DEF RowValues
    <2> QED BY <2>2, <2>3 DEF TaskFiles, ProcFile, FileValues
<1> QED BY <1>2, <1>3, <1>4 DEF Origin

LEMMA RegisteredFiles ==
    ASSUME cfg.on \subseteq Optional
    PROVE  FilesRegistered \subseteq ProcFile
BY DEF FilesRegistered, FilesOf, Optional, ProcFile

LEMMA ConfigInv == Spec => [](cfg.on \subseteq Optional)
<1>1. Init => cfg.on \subseteq Optional
    BY DEF Init
<1>2. cfg.on \subseteq Optional /\ [Next]_vars => (cfg.on \subseteq Optional)'
    BY DEF Next, vars, BeginPass, PassOver, EndOfLines, CollectUptime, CollectLoadavg,
        CollectMem, PushOne, ReadCpu, ReadProcess, ReadNet, ReadDisk, Read,
        CollectCpu, CollectProcess, CollectNet, CollectDisk, Line
<1> QED BY <1>1, <1>2, PTL DEF Spec

(* Every value that collect pushes meets one instrument, and one only, that *)
(* looks for its name and its variant: for every content of /proc and every *)
(* configuration, no sample is passed over in silence by the callbacks.     *)
THEOREM ValuesAreReported == Spec => []EveryValueIsReported
<1>1. ASSUME IInv, cfg.on \subseteq Optional
      PROVE  EveryValueIsReported
    <2>1. SUFFICES ASSUME NEW k \in DOMAIN out, NEW v \in out[k].values
                   PROVE  \E item \in RegisteredItems :
                            /\ v = Sought(item)
                            /\ \A other \in RegisteredItems : other.name = v.name => other = item
        BY DEF EveryValueIsReported, Sought
    <2>2. Origin(out[k])
        BY <1>1 DEF IInv, OriginInv
    <2>3. PICK f \in ProcFile \intersect FilesRegistered : v \in FileValues[f]
        BY <2>2, ValuesOfOrigin
    <2>4. PICK item \in Registered[f] : v = Sought(item)
        BY <2>3, TablesAgree DEF Agree
    <2>5. item \in RegisteredItems
        BY <2>3 DEF RegisteredItems
    <2>6. ASSUME NEW other \in RegisteredItems, other.name = v.name
          PROVE  other = item
        <3>1. PICK h \in ProcFile : other \in Registered[h]
            BY <1>1, RegisteredFiles DEF RegisteredItems
        <3>2. other = [name |-> other.name, kind |-> KindOf(other.name)]
            BY <3>1, KindIsOfTheName
        <3>3. item = [name |-> item.name, kind |-> KindOf(item.name)]
            BY <2>3, KindIsOfTheName
        <3>4. other.name = item.name
            BY <2>4, <2>6 DEF Sought
        <3> QED BY <3>2, <3>3, <3>4
    <2> QED BY <2>4, <2>5, <2>6
<1> QED BY <1>1, InvHolds, ConfigInv, PTL

(* Every instrument of a file that a pass has sampled finds its value in a  *)
(* group of the pass, filters and files of tasks that cannot be read        *)
(* notwithstanding.                                                         *)
THEOREM ItemsAreSampled == Spec => []EveryItemIsSampled
<1>1. ASSUME IInv
      PROVE  EveryItemIsSampled
    <2>1. SUFFICES ASSUME NEW f \in sampled, NEW item \in Registered[f]
                   PROVE  \E k \in DOMAIN out : Reports(item, out[k])
        BY DEF EveryItemIsSampled
    <2>2. PICK k \in DOMAIN out : f \in ProcFile /\ FileValues[f] \subseteq out[k].values
        BY <1>1 DEF IInv, SampledInv
    <2>3. Sought(item) \in FileValues[f]
        BY <2>2, TablesAgree DEF Agree
    <2> QED BY <2>2, <2>3 DEF Reports, Sought
<1> QED BY <1>1, InvHolds, PTL

(* No series has two values in one pass, for any number of cores,           *)
(* interfaces, devices and tasks.                                           *)
THEOREM SeriesHaveOneValue == Spec => []OneValuePerSeries
BY InvHolds, PTL DEF IInv
=============================================================================
