---------------------------- MODULE ProcessCrawl ----------------------------
(***************************************************************************)
(* The process collector of crates/linux-metrics/src/process.rs while the  *)
(* processes it looks at live on: it lists /proc, then opens one file at a *)
(* time, and between any two of its reads tasks start, exit and change     *)
(* their names.                                                            *)
(*                                                                         *)
(* A task is a thread of the host; leader[t] is the first thread of its    *)
(* process, whose id is the process id.  The name of a task (its comm) is  *)
(* abstracted to whether the configured filter matches it; without a       *)
(* filter every task is in `matching`.                                     *)
(*                                                                         *)
(* The kernel is outside the repository.  What is used of it: a file of a  *)
(* task can be read while the task exists; io may be refused and status    *)
(* may lack the memory fields (kernel threads, zombies); a task id is not  *)
(* given out again while one pass runs (ids are allocated cyclically).     *)
(***************************************************************************)
EXTENDS Naturals, Sequences, FiniteSets

CONSTANTS
    Tasks,     \* the ids the kernel gives to tasks
    NoTask     \* no task

ASSUME NoTaskAssumption == NoTask \notin Tasks

(* The kernel gives out ids below pid_max.                                 *)
ASSUME TasksAssumption == IsFiniteSet(Tasks)

VARIABLES
    \* the kernel
    alive,     \* the tasks that exist
    used,      \* the ids given out since the pass began
    leader,    \* the process of each task
    matching,  \* the tasks whose comm the filter matches now
    \* the configuration
    thread,    \* ProcessFilter.thread
    \* the crawl
    pc,        \* the read that is next
    procs,     \* the processes of the outer loop still to visit
    tasks,     \* the threads of the inner loop still to visit
    parent,    \* the process whose threads the inner loop visits
    id,        \* the task whose row is being built
    files,     \* the files of it that have been read
    rows,      \* the groups pushed in this pass
    \* history, for the properties
    owed,      \* tasks that were there and matched all through the pass
    matched    \* tasks that have matched at some time of the pass

kernelVars == <<alive, used, leader, matching>>
crawlVars == <<pc, procs, tasks, parent, id, files, rows>>
vars == <<kernelVars, thread, crawlVars, owed, matched>>

Files == {"io", "status", "stat"}
Processes == {t \in alive : leader[t] = t}
ThreadsOf(p) == {t \in alive : leader[t] = p /\ t # p}

(* A task is of interest when the filter matches it and its process; the   *)
(* threads only when they are asked for.                                   *)
Wanted(t) == {t, leader[t]} \subseteq matching /\ (thread \/ leader[t] = t)

Init ==
    /\ alive \in SUBSET Tasks
    /\ used = alive
    /\ leader \in [Tasks -> Tasks]
    /\ \A t \in Tasks : leader[t] # t => {t, leader[t]} \subseteq alive
    /\ \A t \in Tasks : leader[leader[t]] = leader[t]
    /\ matching \in SUBSET alive
    /\ thread \in BOOLEAN
    /\ pc = "idle"
    /\ procs = {}
    /\ tasks = {}
    /\ parent = NoTask
    /\ id = NoTask
    /\ files = {}
    /\ rows = <<>>
    /\ owed = {}
    /\ matched = matching

(***************************************************************************)
(* The kernel                                                              *)
(***************************************************************************)
(* A new process (p = t) or a new thread of process p.                     *)
TaskStarts(t, p) ==
    /\ t \notin used
    /\ p \in Processes \union {t}
    /\ alive' = alive \union {t}
    /\ used' = used \union {t}
    /\ leader' = [leader EXCEPT ![t] = p]
    /\ \/ matching' = matching \union {t} /\ matched' = matched \union {t}
       \/ UNCHANGED <<matching, matched>>
    /\ UNCHANGED <<thread, crawlVars, owed>>

Vanish(gone) ==
    /\ alive' = alive \ gone
    /\ matching' = matching \ gone
    /\ owed' = owed \ gone
    /\ UNCHANGED <<used, leader, thread, crawlVars, matched>>

ThreadExits(t) == t \in alive \ Processes /\ Vanish({t})
ProcessExits(p) == p \in Processes /\ Vanish(ThreadsOf(p) \union {p})

(* prctl or exec.  A task whose own name, or whose process's name, has     *)
(* changed in the pass is not owed a row.                                  *)
TaskRenamed(t) ==
    /\ t \in alive
    /\ IF t \in matching
       THEN matching' = matching \ {t} /\ UNCHANGED matched
       ELSE matching' = matching \union {t} /\ matched' = matched \union {t}
    /\ owed' = {u \in owed : t \notin {u, leader[u]}}
    /\ UNCHANGED <<alive, used, leader, thread, crawlVars>>

(***************************************************************************)
(* collect_process_metrics and collect_process                             *)
(***************************************************************************)
(* get_all_processes.  The entries of /proc are read one by one; a process *)
(* that ends meanwhile fails the gate like one that ends after the last.   *)
ListProcesses ==
    /\ pc = "idle"
    /\ pc' = "next"
    /\ procs' = Processes
    /\ rows' = <<>>
    /\ used' = alive
    /\ owed' = {t \in alive : Wanted(t)}
    /\ matched' = matching
    /\ UNCHANGED <<alive, leader, matching, thread, tasks, parent, id, files>>

(* /proc cannot be read: the pass pushes nothing.                          *)
ListFails ==
    /\ pc = "idle"
    /\ rows' = <<>>
    /\ owed' = {}
    /\ UNCHANGED <<kernelVars, thread, pc, procs, tasks, parent, id, files, matched>>

InThreads == parent # NoTask

(* The next task of the loop that is running: the inner one, if any.       *)
Visit(t) ==
    /\ pc = "next"
    /\ IF InThreads
       THEN t \in tasks /\ tasks' = tasks \ {t} /\ UNCHANGED procs
       ELSE t \in procs /\ procs' = procs \ {t} /\ UNCHANGED tasks

GateThenTasks(t) ==  \* a mutant: a filtered process still has its threads listed
    /\ Visit(t)
    /\ t \notin matching
    /\ pc' = IF ~InThreads /\ thread /\ t \in alive THEN "tasks" ELSE "next"
    /\ id' = IF pc' = "tasks" THEN t ELSE id
    /\ UNCHANGED <<kernelVars, thread, parent, files, rows, owed, matched>>

GateRetries(t) ==  \* a mutant: a task that is skipped stays in the list
    /\ pc = "next"
    /\ t \in (IF InThreads THEN tasks ELSE procs) \ matching
    /\ UNCHANGED vars

GateAborts(t) ==  \* a mutant: an unreadable comm ends the loop (`return` for `continue`)
    /\ Visit(t)
    /\ t \notin matching
    /\ pc' = "idle"
    /\ UNCHANGED <<kernelVars, thread, parent, id, files, rows, owed, matched>>

(* comm is the gate: a task that is gone, or whose name the filter does    *)
(* not match, is skipped with its threads.                                 *)
GateCloses(t) ==
    /\ Visit(t)
    /\ t \notin matching
    /\ UNCHANGED <<kernelVars, thread, pc, parent, id, files, rows, owed, matched>>

GateOpens(t) ==
    /\ Visit(t)
    /\ t \in matching
    /\ pc' = "io"
    /\ id' = t
    /\ files' = {}
    /\ UNCHANGED <<kernelVars, thread, parent, rows, owed, matched>>

(* io and status are read, or fail and leave the row without their values. *)
ReadFile(file, then) ==
    /\ pc = file
    /\ pc' = then
    /\ \/ id \in alive /\ files' = files \union {file}
       \/ UNCHANGED files
    /\ UNCHANGED <<kernelVars, thread, procs, tasks, parent, id, rows, owed, matched>>

ReadIo == ReadFile("io", "status")
ReadStatus == ReadFile("status", "stat")

(* The files of a row are read under the root that with_pid gave the task, *)
(* /proc/<id>: a thread has one there too, although it is not listed.  Its *)
(* stat then counts the time of all the threads of the process.            *)
TimesRead == {t \in alive : leader[t] = leader[id]}

Row(read) == [id |-> id, thread |-> InThreads, files |-> read, times |-> TimesRead]

PushAlways(read) == rows' = Append(rows, Row(read))  \* a mutant: no `emitted`

PushIfEmitted(read) ==
    IF read # {} THEN rows' = Append(rows, Row(read)) ELSE UNCHANGED rows

RowEnds(resume) ==
    /\ pc = "stat"
    /\ LET read == IF id \in alive THEN files \union {"stat"} ELSE files
       IN  PushIfEmitted(read)
    /\ files' = {}
    /\ resume
    /\ UNCHANGED <<kernelVars, thread, procs, tasks, parent, owed, matched>>

(* The recursion is one deep: a thread's own task directory, which lists   *)
(* the threads of its process again, is not entered.                       *)
Recurse == pc' = IF thread /\ ~InThreads THEN "tasks" ELSE "next"

(* stat is the last file; the row is pushed if any file could be read, and *)
(* the threads of a process are next if they are asked for.                *)
ReadStat ==
    RowEnds(Recurse /\ id' = IF pc' = "tasks" THEN id ELSE NoTask)

ListAllTasks(t) == {u \in alive : leader[u] = leader[t]}  \* a mutant: with the task itself

(* get_process_tasks of /proc/<id>/task leaves out <id>.                   *)
ProcessTasks(t) == {u \in alive : leader[u] = leader[t]} \ {t}

(* process.tasks(): fails, and is skipped, when the process is gone.       *)
ListThreads ==
    /\ pc = "tasks"
    /\ pc' = "next"
    /\ IF id \in alive
       THEN tasks' = ProcessTasks(id) /\ parent' = id
       ELSE UNCHANGED <<tasks, parent>>
    /\ id' = NoTask
    /\ UNCHANGED <<kernelVars, thread, procs, files, rows, owed, matched>>

ThreadsEnd ==
    /\ pc = "next"
    /\ InThreads /\ tasks = {}
    /\ parent' = NoTask
    /\ UNCHANGED <<kernelVars, thread, pc, procs, tasks, id, files, rows, owed, matched>>

PassEnds ==
    /\ pc = "next"
    /\ ~InThreads /\ procs = {}
    /\ pc' = "idle"
    /\ UNCHANGED <<kernelVars, thread, procs, tasks, parent, id, files, rows, owed, matched>>

-----------------------------------------------------------------------------
KernelStep ==
    \/ \E t, p \in Tasks : TaskStarts(t, p)
    \/ \E t \in Tasks : ThreadExits(t) \/ ProcessExits(t) \/ TaskRenamed(t)

CrawlStep ==
    \/ \E t \in Tasks : GateCloses(t) \/ GateOpens(t)
    \/ ReadIo \/ ReadStatus \/ ReadStat
    \/ ListThreads \/ ThreadsEnd \/ PassEnds

Next == KernelStep \/ ListProcesses \/ ListFails \/ CrawlStep

Spec == Init /\ [][Next]_vars

(* The sampling thread keeps running; nothing is assumed of the kernel.    *)
FairSpec == Spec /\ WF_vars(CrawlStep)

(***************************************************************************)
(* Properties                                                              *)
(***************************************************************************)
RowOf == [id : Tasks, thread : BOOLEAN, files : (SUBSET Files) \ {{}}, times : SUBSET Tasks]

(* The type of the state; a pushed row has values of at least one file.    *)
TypeOK ==
    /\ alive \subseteq used /\ used \subseteq Tasks
    /\ leader \in [Tasks -> Tasks]
    /\ \A t \in alive : leader[t] \in alive /\ leader[leader[t]] = leader[t]
    /\ matching \subseteq alive
    /\ thread \in BOOLEAN
    /\ pc \in {"idle", "next", "io", "status", "stat", "tasks"}
    /\ procs \subseteq Tasks /\ tasks \subseteq Tasks
    /\ parent \in Tasks \union {NoTask}
    /\ id \in IF pc \in {"idle", "next"} THEN {NoTask} ELSE Tasks
    /\ files \subseteq Files
    /\ rows \in Seq(RowOf)
    /\ owed \subseteq alive
    /\ matched \subseteq used

(* A pass reports no task twice, neither as a process and as a thread nor  *)
(* in two processes, whatever started or exited while it was listing.      *)
OneRowPerTask ==
    \A i, j \in DOMAIN rows : rows[i].id = rows[j].id => i = j

(* A task that vanishes, or whose files cannot be read, costs its own row  *)
(* only: when the pass ends, every task that was there and matched all     *)
(* through it has a row.                                                   *)
SurvivorsAreReported ==
    pc = "idle" => \A t \in owed : \E k \in DOMAIN rows : rows[k].id = t

(* The filter hides a process with all its threads: a task has a row only  *)
(* if it and its process have matched at some time of the pass.            *)
FilteredTasksHaveNoRow ==
    \A k \in DOMAIN rows : {rows[k].id, leader[rows[k].id]} \subseteq matched

(* However the process tree changes under it, a pass that has begun ends.  *)
PassTerminates == pc # "idle" ~> pc = "idle"

(* What procfs/src/process.rs says of the rows of threads: they read the   *)
(* thread's own stat, that is, the time of that thread alone.              *)
ThreadTimeIsItsOwn ==
    \A k \in DOMAIN rows :
        rows[k].thread /\ "stat" \in rows[k].files => rows[k].times \subseteq {rows[k].id}
=============================================================================
