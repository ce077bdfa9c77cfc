---------------------------- MODULE ProcFormats ----------------------------
(***************************************************************************)
(* The formats of /proc that crates/procfs reads, and what its parsers do  *)
(* with one line or one content of them.                                   *)
(*                                                                         *)
(* A token is a number, or Malformed: one that no numeric parser accepts.  *)
(* Absent stands for a token that is not there, and Close for one that     *)
(* ends in a closing parenthesis.  Fields of the structs are named by the  *)
(* keys, or by the positions of the columns, that fill them.               *)
(***************************************************************************)
EXTENDS Naturals, Sequences

CONSTANTS
    Malformed, Absent, Close,  \* tokens
    CpuNames                   \* the tokens that begin with "cpu"

ASSUME TokensAssumption ==
    /\ {Malformed, Absent, Close} \intersect Nat = {}
    /\ Malformed # Absent /\ Close \notin {Malformed, Absent}

(* lexical::parse, behind parse_u64, parse_u32, parse_i32 and parse_f64: a *)
(* missing token is parsed as empty input, which is an error too.          *)
Parses(token) == token \in Nat

(***************************************************************************)
(* Files of `key: value` lines.  A line without a colon has no key.        *)
(***************************************************************************)
MeminfoCore == {"MemTotal", "MemFree", "SwapTotal", "SwapFree"}
StatusCore == {"PPid", "State", "VmSize", "VmRSS"}

(* The keys with a field, in the order in which the kernel writes them.    *)
Keys(file) ==
    CASE file = "meminfo" ->
            <<"MemTotal", "MemFree", "MemAvailable", "SwapTotal", "SwapFree",
              "HugePages_Total", "HugePages_Free", "Hugepagesize">>
      [] file = "status" ->
            <<"State", "PPid", "FDSize", "VmSize", "VmHWM", "VmRSS", "RssAnon", "RssFile",
              "RssShmem", "VmSwap", "HugetlbPages", "Threads",
              "voluntary_ctxt_switches", "nonvoluntary_ctxt_switches">>
      [] file = "io" ->
            <<"rchar", "wchar", "syscr", "syscw", "read_bytes", "write_bytes",
              "cancelled_write_bytes">>

KeySet(file) == {Keys(file)[k] : k \in DOMAIN Keys(file)}

StrictEverywhere(file) == KeySet(file)  \* a mutant: one bad value fails the file

(* The keys whose malformed value fails the whole file.                    *)
Strict(file) ==
    CASE file = "meminfo" -> MeminfoCore
      [] file = "status" -> StatusCore
      [] file = "io" -> {}

NothingToSee(file) == {}  \* a mutant: no _seen flags

(* The keys that must be seen before the file ends.                        *)
MustSee(file) == IF file = "status" THEN StatusCore ELSE {}

(* The value of a line is stored in the field of its key.  State takes the *)
(* first character of any token.                                           *)
TakesAll(file, line) == line.key \in KeySet(file)  \* a mutant: the token is not checked

Takes(file, line) ==
    /\ line.key \in KeySet(file)
    /\ IF line.key = "State" THEN line.value # Absent ELSE Parses(line.value)

Fails(file, line) == line.key \in Strict(file) /\ ~Takes(file, line)

(***************************************************************************)
(* Files with a row of numbers per line, behind a head: the name of a cpu, *)
(* or the major number, minor number and name of a device, or the name of  *)
(* an interface and a colon.  A name of a cpu is a token that begins with  *)
(* "cpu".                                                                  *)
(***************************************************************************)
Columns(file) ==
    CASE file = "cpu" -> 10
      [] file = "diskstats" -> 17
      [] file = "net" -> 16

HasRow(file, head) ==
    CASE file = "cpu" -> head # <<>> /\ head[1] \in CpuNames
      [] file = "diskstats" -> Len(head) = 3 /\ Parses(head[1]) /\ Parses(head[2])
      [] file = "net" -> head # <<>> /\ head[1] # Absent

EveryColumn(file, columns) ==  \* a mutant: added columns are parsed too, none may lack
    Len(columns) >= Columns(file) /\ \A k \in DOMAIN columns : Parses(columns[k])

(* Columns that an older kernel does not write are 0, except in net, which *)
(* needs them all.  Columns that a newer kernel adds are not looked at.    *)
GoodColumns(file, columns) ==
    /\ \A k \in DOMAIN columns : k <= Columns(file) => Parses(columns[k])
    /\ file = "net" => Len(columns) >= Columns(file)

IsRow(file, line) == HasRow(file, line.head) /\ GoodColumns(file, line.columns)

RowFrom(file, line, offset) ==
    [name |-> line.head[Len(line.head)],
     columns |-> [k \in 1..Columns(file) |->
                     IF k + offset <= Len(line.columns) THEN line.columns[k + offset] ELSE 0]]

RowShifted(file, line) == RowFrom(file, line, 1)  \* a mutant: off by one token

RowOf(file, line) == RowFrom(file, line, 0)

(***************************************************************************)
(* Files of one line, read as a whole: the values, or Malformed            *)
(***************************************************************************)
(* Three averages, the tasks `running/total` (its parts, in a sequence)    *)
(* and the last pid; loadavg is strict on all of them.                     *)
Loadavg(tokens) ==
    IF /\ Len(tokens) >= 5
       /\ \A k \in {1, 2, 3, 5} : Parses(tokens[k])
       /\ Len(tokens[4]) >= 2
       /\ Parses(tokens[4][1]) /\ Parses(tokens[4][2])
    THEN <<tokens[1], tokens[2], tokens[3], tokens[4][1], tokens[4][2], tokens[5]>>
    ELSE Malformed

(* /proc/<pid>/stat: `pid (comm) state ...`.  The name of a command may    *)
(* hold spaces, numbers and parentheses, so it ends at the last ")".       *)
Closes(tokens) == {k \in DOMAIN tokens : tokens[k] = Close}
FirstClose(tokens) == CHOOSE k \in Closes(tokens) : \A j \in Closes(tokens) : k <= j  \* a mutant
CommEnd(tokens) == CHOOSE k \in Closes(tokens) : \A j \in Closes(tokens) : j <= k

Stat(tokens) ==
    IF /\ Closes(tokens) # {}
       /\ Len(tokens) >= CommEnd(tokens) + 13
       /\ Parses(tokens[CommEnd(tokens) + 12])
       /\ Parses(tokens[CommEnd(tokens) + 13])
    THEN <<tokens[CommEnd(tokens) + 12], tokens[CommEnd(tokens) + 13]>>
    ELSE Malformed

(* The time up and the time idle; one that is missing is 0.                *)
Uptime(tokens) ==
    IF \A k \in DOMAIN tokens : k <= 2 => Parses(tokens[k])
    THEN [k \in 1..2 |-> IF k <= Len(tokens) THEN tokens[k] ELSE 0]
    ELSE Malformed
=============================================================================
