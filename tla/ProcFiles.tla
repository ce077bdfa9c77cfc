----------------------------- MODULE ProcFiles -----------------------------
(***************************************************************************)
(* One read of a file of /proc by crates/procfs: the loop of its parser    *)
(* over the lines, with its early returns, and the end of the file.        *)
(*                                                                         *)
(* The kernel, or whatever stands for it (another version, a container's   *)
(* own /proc), writes the lines: as it should, or with at most MaxFaults   *)
(* of them left out, spoiled or added.  The code reads a file in one go    *)
(* before it parses it; here a line is chosen when the parser gets to it,  *)
(* which is the same, since nothing else depends on when it is chosen.     *)
(***************************************************************************)
EXTENDS ProcFormats

CONSTANTS
    Snapshots,  \* what the kernel counts: values of the keys, per file of keys
    MaxFaults,  \* bound: wrong lines in a file of keys
    MaxRows,    \* bound: lines of a file of rows
    Kb,         \* bytes of a kilobyte (1024, reduced)
    Modulus     \* where an unsigned integer wraps (2^64, reduced)

KeyFiles == {"meminfo", "status", "io"}
RowFiles == {"cpu", "diskstats", "net"}
LineFiles == {"loadavg", "stat", "uptime"}

(* Parts of the memory are no larger than the whole, which fits an integer.*)
KernelOrder(file, counts) ==
    CASE file = "meminfo" ->
            /\ counts.MemTotal * Kb < Modulus
            /\ counts.SwapTotal * Kb < Modulus
            /\ counts.MemFree <= counts.MemTotal
            /\ counts.SwapFree <= counts.SwapTotal
            /\ counts.HugePages_Free <= counts.HugePages_Total
            /\ counts.HugePages_Total * counts.Hugepagesize <= counts.MemTotal
      [] file = "status" ->
            /\ counts.VmHWM * Kb < Modulus
            /\ counts.VmRSS <= counts.VmHWM
            /\ counts.RssAnon + counts.RssFile + counts.RssShmem = counts.VmRSS
      [] OTHER -> TRUE

ASSUME SnapshotsAssumption ==
    \A file \in KeyFiles : \A counts \in Snapshots[file] :
        /\ counts \in [KeySet(file) -> Nat]
        /\ KernelOrder(file, counts)
ASSUME HeadsAssumption == "cpu0" \in CpuNames /\ "intr" \notin CpuNames /\ Absent # "eth0"
ASSUME LimitsAssumption ==
    MaxFaults \in Nat /\ MaxRows \in Nat /\ {Kb, Modulus} \subseteq Nat \ {0}

VARIABLES
    file,     \* the file that is read
    counts,   \* what the kernel counts at that moment
    due,      \* the key whose line the kernel writes next
    faults,   \* the wrong lines so far
    lines,    \* the content, as far as it has been parsed
    fields,   \* the values that the parser holds
    seen,     \* the _seen flags of parse_status
    rows,     \* the rows that the parser holds
    outcome   \* "reading", or the result of from_file

kernelVars == <<file, counts, due, faults>>
vars == <<kernelVars, lines, fields, seen, rows, outcome>>

Init ==
    /\ file \in KeyFiles \union RowFiles \union LineFiles
    /\ counts \in IF file \in KeyFiles THEN Snapshots[file] ELSE {<<>>}
    /\ due = 1
    /\ faults = 0
    /\ lines = <<>>
    /\ fields = IF file \in KeyFiles THEN [k \in KeySet(file) |-> 0] ELSE <<>>
    /\ seen = {}
    /\ rows = <<>>
    /\ outcome = "reading"

(* The read itself fails, before anything is parsed.                       *)
CannotRead ==
    /\ outcome = "reading"
    /\ lines = <<>> /\ due = 1
    /\ outcome' = "unreadable"
    /\ UNCHANGED <<kernelVars, lines, fields, seen, rows>>

(***************************************************************************)
(* parse_meminfo, parse_status, parse_io                                   *)
(***************************************************************************)
ParseWith(line, untaken) ==
    /\ outcome = "reading"
    /\ lines' = Append(lines, line)
    /\ fields' = IF Takes(file, line) THEN [fields EXCEPT ![line.key] = line.value] ELSE untaken
    /\ seen' = IF Takes(file, line) THEN seen \union ({line.key} \intersect MustSee(file)) ELSE seen
    /\ outcome' = IF Fails(file, line) THEN "err" ELSE "reading"
    /\ UNCHANGED rows

ParseOrZero(line) ==  \* a mutant: unwrap_or_default
    ParseWith(line, [k \in DOMAIN fields |-> IF k = line.key THEN 0 ELSE fields[k]])

ParseLine(line) == ParseWith(line, fields)

KeyLine(key, value) == [key |-> key, value |-> value]
NextKey == Keys(file)[due]

WrittenLine ==
    /\ file \in KeyFiles
    /\ due <= Len(Keys(file))
    /\ ParseLine(KeyLine(NextKey, counts[NextKey]))
    /\ due' = due + 1
    /\ UNCHANGED <<file, counts, faults>>

SpoiledLine ==
    /\ file \in KeyFiles
    /\ due <= Len(Keys(file))
    /\ faults < MaxFaults
    /\ \E token \in {Malformed, Absent} : ParseLine(KeyLine(NextKey, token))
    /\ due' = due + 1
    /\ faults' = faults + 1
    /\ UNCHANGED <<file, counts>>

OmittedLine ==
    /\ file \in KeyFiles
    /\ outcome = "reading"
    /\ due <= Len(Keys(file))
    /\ faults < MaxFaults
    /\ due' = due + 1
    /\ faults' = faults + 1
    /\ UNCHANGED <<file, counts, lines, fields, seen, rows, outcome>>

(* A line that should not be there: of a key that has its line just before *)
(* or after it, of a key that the parser does not know, or of none.        *)
StrayKeys == {Keys(file)[k] : k \in {due - 1, due} \intersect DOMAIN Keys(file)}
StrayLines ==
    {KeyLine(key, token) : key \in StrayKeys, token \in {7, Malformed}} \union
    {KeyLine("Unknown", 7), KeyLine(Absent, Malformed)}

StrayLine ==
    /\ file \in KeyFiles
    /\ faults < MaxFaults
    /\ \E line \in StrayLines : ParseLine(line)
    /\ faults' = faults + 1
    /\ UNCHANGED <<file, counts, due>>

KeysEnd ==
    /\ file \in KeyFiles
    /\ outcome = "reading"
    /\ due > Len(Keys(file))
    /\ outcome' = IF MustSee(file) \subseteq seen THEN "ok" ELSE "err"
    /\ UNCHANGED <<kernelVars, lines, fields, seen, rows>>

(***************************************************************************)
(* CpuStat::parse_stat, parse_diskstats, parse_dev                         *)
(***************************************************************************)
DeviceHead ==
    CASE file = "cpu" -> <<"cpu0">>
      [] file = "diskstats" -> <<8, 0, "sda">>
      [] file = "net" -> <<"eth0">>
Heads ==
    {DeviceHead} \union
        CASE file = "cpu" -> {<<"intr">>}
          [] file = "diskstats" -> {<<Malformed, 0, "sda">>, <<8, Malformed, "sda">>}
          [] file = "net" -> {<<Absent>>}
ShortHeads == IF file = "diskstats" THEN {<<>>, <<8>>, <<8, 0>>} ELSE {<<>>}

(* The columns of older, present and newer kernels, one of them spoiled or *)
(* none.  The numbers tell line and column.                                *)
Widths == {0, 4, 15, 16, 17, 18} \union {Columns(file)}
ColumnsOf(nth, width, spoiled) ==
    [k \in 1..width |-> IF k = spoiled THEN Malformed ELSE 100 * nth + k]

RowLines(nth) ==
    [head : Heads,
     columns : {ColumnsOf(nth, width, spoiled) :
                    width \in Widths, spoiled \in {0, 1, Columns(file), Columns(file) + 1}}]
    \union [head : ShortHeads, columns : {<<>>}]

ParseRow ==
    /\ file \in RowFiles
    /\ outcome = "reading"
    /\ Len(lines) < MaxRows
    /\ \E line \in RowLines(Len(lines) + 1) :
           /\ lines' = Append(lines, line)
           /\ rows' = IF IsRow(file, line) THEN Append(rows, RowOf(file, line)) ELSE rows
    /\ UNCHANGED <<kernelVars, fields, seen, outcome>>

RowsEnd ==
    /\ file \in RowFiles
    /\ outcome = "reading"
    /\ outcome' = "ok"
    /\ UNCHANGED <<kernelVars, lines, fields, seen, rows>>

(***************************************************************************)
(* parse_loadavg, Stat::parse_stat, Uptime::from_file                      *)
(***************************************************************************)
Spoil(tokens) == {tokens} \union {[tokens EXCEPT ![k] = Malformed] : k \in DOMAIN tokens}
Cut(tokens) == {SubSeq(tokens, 1, n) : n \in 0..Len(tokens)}

(* What stands between the pid and the state: names of commands that look  *)
(* like the rest of the line, too, and one that is not closed.             *)
Comms ==
    LET numbers == [k \in 1..14 |-> k]
    IN  {<<Malformed>>, <<Close>>, <<Malformed, Close>>, <<Close>> \o numbers \o <<Close>>,
         numbers \o <<Close>>, <<Close, Close>>}

(* The fields of stat from the state on; utime and stime are the last but  *)
(* two and the last but one.                                               *)
StatFields == <<Malformed>> \o [k \in 1..13 |-> 100 + k]
UserTime == 111
SystemTime == 112

Contents ==
    CASE file = "loadavg" ->
            UNION {Cut([t EXCEPT ![4] = tasks]) :
                       t \in Spoil(<<1, 2, 3, 0, 6, 0>>),
                       tasks \in Spoil(<<4, 5>>) \union {<<4>>, <<4, 5, 6>>}}
      [] file = "stat" ->
            {<<1>> \o comm \o fs : comm \in Comms, fs \in UNION {Cut(t) : t \in Spoil(StatFields)}}
      [] file = "uptime" -> UNION {Cut(t) : t \in Spoil(<<1, 2, 3>>)}

Parsed(tokens) ==
    CASE file = "loadavg" -> Loadavg(tokens)
      [] file = "stat" -> Stat(tokens)
      [] file = "uptime" -> Uptime(tokens)

ParseContent ==
    /\ file \in LineFiles
    /\ outcome = "reading"
    /\ \E tokens \in Contents :
           /\ lines' = <<tokens>>
           /\ outcome' = IF Parsed(tokens) = Malformed THEN "err" ELSE "ok"
           /\ fields' = IF Parsed(tokens) = Malformed THEN fields ELSE Parsed(tokens)
    /\ UNCHANGED <<kernelVars, seen, rows>>

-----------------------------------------------------------------------------
Next ==
    \/ CannotRead
    \/ WrittenLine
    \/ SpoiledLine
    \/ OmittedLine
    \/ StrayLine
    \/ KeysEnd
    \/ ParseRow
    \/ RowsEnd
    \/ ParseContent

Spec == Init /\ [][Next]_vars

(***************************************************************************)
(* Bytes: collect_mem_values and collect_status_metrics                    *)
(***************************************************************************)
Wrapped(n) == n % Modulus

NarrowBytes(kilobytes) == (kilobytes * Kb) % (Modulus \div 2)  \* a mutant: a narrower integer

Bytes(kilobytes) == Wrapped(kilobytes * Kb)

HugeBytes(pages) == Bytes(Wrapped(pages * fields.Hugepagesize))

(* rss_file_kb.saturating_add(rss_shmem_kb)                                *)
SharedKb ==
    LET sum == fields.RssFile + fields.RssShmem
    IN  IF sum < Modulus THEN sum ELSE Modulus - 1

(***************************************************************************)
(* Properties                                                              *)
(***************************************************************************)
(* The type of the state: what the parser holds are numbers, except the    *)
(* character of State.                                                     *)
TypeOK ==
    /\ file \in KeyFiles \union RowFiles \union LineFiles
    /\ due \in Nat \ {0}
    /\ faults \in 0..MaxFaults
    /\ outcome \in {"reading", "ok", "err", "unreadable"}
    /\ \A k \in DOMAIN fields : fields[k] \in Nat \/ (k = "State" /\ fields[k] = Malformed)
    /\ seen \subseteq StatusCore
    /\ \A j \in DOMAIN rows : rows[j].columns \in [1..Columns(file) -> Nat]

(* The lines of a key, and those of them with a value for it.              *)
LinesOf(key) == {i \in DOMAIN lines : lines[i].key = key}
ValuesOf(key) ==
    {i \in LinesOf(key) :
        lines[i].value \in Nat \/ (key = "State" /\ lines[i].value = Malformed)}

(* A malformed, unknown or repeated line costs nothing but itself: every   *)
(* field holds the last good value that the file has for its key, and 0    *)
(* only when it has none - a counter is not set back by a bad line behind  *)
(* the good one.                                                           *)
FieldsAreTheLastValues ==
    file \in KeyFiles =>
        \A key \in KeySet(file) :
            IF ValuesOf(key) = {} THEN fields[key] = 0
            ELSE \E i \in ValuesOf(key) :
                     fields[key] = lines[i].value /\ \A j \in ValuesOf(key) : j <= i

(* "A snapshot missing one of them - or carrying a malformed value - fails *)
(* as a whole" (status.rs), and "partial or zeroed data is never reported" *)
(* (loadavg.rs): a snapshot that is passed on has had a good value for     *)
(* every core field, and no bad one, wherever in the file the fault is.    *)
CoreComesFromTheFile ==
    outcome = "ok" =>
        CASE file = "status" ->
                \A key \in StatusCore : LinesOf(key) # {} /\ ValuesOf(key) = LinesOf(key)
          [] file = "loadavg" -> fields = <<1, 2, 3, 4, 5, 6>>
          [] OTHER -> TRUE

(* What fails a file is the fault of a core field: no other line, however  *)
(* it is spoiled, takes a process or the memory from a pass, and the       *)
(* tolerant files never fail.                                              *)
OnlyCoreFails ==
    outcome = "err" =>
        CASE file = "meminfo" -> \E key \in MeminfoCore : ValuesOf(key) # LinesOf(key)
          [] file = "status" ->
                \E key \in StatusCore : LinesOf(key) = {} \/ ValuesOf(key) # LinesOf(key)
          [] OTHER -> file \in LineFiles

(* The times of a process are its utime and stime whatever its command is  *)
(* called: a name made of numbers, spaces and parentheses does not shift   *)
(* or replace them.                                                        *)
CommCannotForgeTimes ==
    file = "stat" /\ outcome = "ok" => fields = <<UserTime, SystemTime>>

(* A line that names a device and has at least the columns that the oldest *)
(* format has, all of them numbers.                                        *)
Sound(line) ==
    /\ line.head = DeviceHead
    /\ \A k \in DOMAIN line.columns : line.columns[k] # Malformed
    /\ file = "net" => Len(line.columns) >= 16

(* A row is a copy of a line, as far as both have columns.                 *)
Copies(row, line) ==
    \A k \in DOMAIN row.columns :
        row.columns[k] = IF k <= Len(line.columns) THEN line.columns[k] ELSE 0

(* Every device has its row, by whatever version of the kernel its line is *)
(* written, and whatever lines are around it.                              *)
SoundLinesHaveRows ==
    file \in RowFiles =>
        \A i \in DOMAIN lines :
            Sound(lines[i]) => \E j \in DOMAIN rows : Copies(rows[j], lines[i])

(* Rows are never made up: each is a copy of one line that names a device, *)
(* no two of the same line, and they are in the order of the lines - no    *)
(* number slips to another column or device.                               *)
RowsAreCopiesOfLines ==
    file \in RowFiles =>
        \E from \in [DOMAIN rows -> DOMAIN lines] :
            /\ \A j \in DOMAIN rows :
                   Copies(rows[j], lines[from[j]]) /\ lines[from[j]].head = DeviceHead
            /\ \A j, k \in DOMAIN rows : j < k => from[j] < from[k]

(* What meminfo_test asserts of a live system, for every one the kernel    *)
(* can describe: in bytes, too, no part of the memory is larger than the   *)
(* whole, since what fits the kernel's counters fits the integers here.    *)
PartsFitTheWhole ==
    outcome = "ok" /\ faults = 0 =>
        CASE file = "meminfo" ->
                /\ Bytes(fields.MemFree) <= Bytes(fields.MemTotal)
                /\ Bytes(fields.SwapFree) <= Bytes(fields.SwapTotal)
                /\ HugeBytes(fields.HugePages_Free) <= HugeBytes(fields.HugePages_Total)
                /\ HugeBytes(fields.HugePages_Total) <= Bytes(fields.MemTotal)
          [] file = "status" ->
                Bytes(SharedKb) <= Bytes(fields.VmRSS) /\ Bytes(fields.VmRSS) <= Bytes(fields.VmHWM)
          [] OTHER -> TRUE

(* The comment on parse_meminfo: a missing core field fails the snapshot.  *)
MissingCoreFails ==
    file = "meminfo" /\ outcome = "ok" => \A key \in MeminfoCore : LinesOf(key) # {}
=============================================================================
