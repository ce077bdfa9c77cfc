------------------------- MODULE ProcessCrawlProofs -------------------------
(***************************************************************************)
(* Theorems about ProcessCrawl, for any set of task ids and whatever the   *)
(* kernel does between two reads of the crawl.                             *)
(***************************************************************************)
EXTENDS ProcessCrawl, FiniteSetTheorems, WellFoundedInduction, TLAPS

(***************************************************************************)
(* The inductive invariant                                                 *)
(***************************************************************************)
Reading == pc \in Files
Reported(t) == \E k \in DOMAIN rows : rows[k].id = t
ProcessReported(p) == \E k \in DOMAIN rows : leader[rows[k].id] = p

(* The process of an id stays what it was as long as the id is in use.     *)
LeadersLead == \A t \in used : leader[t] \in used /\ leader[leader[t]] = leader[t]

(* The two loops: a process that is still to visit has no row, nor has any *)
(* of its threads; a thread that is still to visit has none, and belongs   *)
(* to the process whose threads are visited.                               *)
OuterLoop ==
    /\ \A p \in procs : p \in used /\ leader[p] = p /\ ~ProcessReported(p)
    /\ pc = "idle" => procs = {} /\ ~InThreads

InnerLoop ==
    /\ InThreads => parent \in used \ procs /\ leader[parent] = parent
    /\ ~InThreads => tasks = {}
    /\ \A t \in tasks : t \in used /\ leader[t] = parent /\ t # parent /\ ~Reported(t)

(* The row that is being built is of a task that has none.                 *)
RowUnderWay ==
    Reading =>
        /\ id \in used \ (procs \union tasks)
        /\ ~Reported(id)
        /\ IF InThreads THEN leader[id] = parent /\ id # parent
           ELSE leader[id] = id /\ ~ProcessReported(id)

(* A process whose threads are to be listed is the only one of them that   *)
(* has a row.                                                              *)
ThreadsNext ==
    pc = "tasks" =>
        /\ thread /\ ~InThreads
        /\ id \in used \ procs /\ leader[id] = id
        /\ \A k \in DOMAIN rows : leader[rows[k].id] = id => rows[k].id = id

LoopInv ==
    /\ LeadersLead
    /\ \A k \in DOMAIN rows : rows[k].id \in used
    /\ OuterLoop
    /\ InnerLoop
    /\ RowUnderWay
    /\ ThreadsNext
    /\ OneRowPerTask

(* A task that is owed a row is wanted still; it has its row, or is under  *)
(* way, or waits in one of the loops - its own or that of its process.     *)
OwedAreWanted == \A t \in owed : Wanted(t)

OwedAreComing ==
    \A t \in owed :
        \/ Reported(t)
        \/ leader[t] \in procs
        \/ t \in tasks
        \/ Reading /\ id = t
        \/ leader[t] # t /\ ~InThreads /\ (Reading \/ pc = "tasks") /\ id = leader[t]

OwedInv == OwedAreWanted /\ OwedAreComing

(* What the crawl has let pass the gate has matched.                       *)
GateInv ==
    /\ matching \subseteq matched
    /\ InThreads => parent \in matched
    /\ pc = "tasks" => id \in matched
    /\ Reading => {id, leader[id]} \subseteq matched
    /\ FilteredTasksHaveNoRow

IInv == TypeOK /\ LoopInv /\ OwedInv /\ GateInv

(***************************************************************************)
(* Types                                                                   *)
(***************************************************************************)
LEMMA TypeInit == Init => TypeOK
<1> SUFFICES ASSUME Init PROVE TypeOK
  OBVIOUS
<1>1. \A t \in alive : leader[t] \in alive /\ leader[leader[t]] = leader[t]
  BY DEF Init
<1> QED
  BY <1>1 DEF Init, TypeOK

(* What tasks do to each other: a process takes its threads with it.       *)
LEMMA TypeKernel == TypeOK /\ KernelStep => TypeOK'
<1> SUFFICES ASSUME TypeOK, KernelStep PROVE TypeOK'
  OBVIOUS
<1> USE DEF TypeOK
<1>1. ASSUME NEW t \in Tasks, NEW p \in Tasks, TaskStarts(t, p) PROVE TypeOK'
  <2>1. p \in alive \union {t} /\ (p # t => leader[p] = p)
    BY <1>1 DEF TaskStarts, Processes
  <2>2. leader' \in [Tasks -> Tasks] /\ t \notin alive
    BY <1>1 DEF TaskStarts
  <2>3. \A u \in alive' : leader'[u] \in alive' /\ leader'[leader'[u]] = leader'[u]
    BY <1>1, <2>1, <2>2 DEF TaskStarts
  <2>4. matching' \subseteq alive' /\ matched' \subseteq used'
    BY <1>1 DEF TaskStarts
  <2> QED
    BY <1>1, <2>2, <2>3, <2>4 DEF TaskStarts, crawlVars
<1>2. ASSUME NEW t \in Tasks, ThreadExits(t) PROVE TypeOK'
  BY <1>2 DEF ThreadExits, Vanish, Processes, crawlVars
<1>3. ASSUME NEW t \in Tasks, ProcessExits(t) PROVE TypeOK'
  BY <1>3 DEF ProcessExits, Vanish, Processes, ThreadsOf, crawlVars
<1>4. ASSUME NEW t \in Tasks, TaskRenamed(t) PROVE TypeOK'
  BY <1>4 DEF TaskRenamed, crawlVars
<1> QED
  BY <1>1, <1>2, <1>3, <1>4 DEF KernelStep

LEMMA TypeCrawl == TypeOK /\ (ListProcesses \/ ListFails \/ CrawlStep) => TypeOK'
<1> SUFFICES ASSUME TypeOK, ListProcesses \/ ListFails \/ CrawlStep PROVE TypeOK'
  OBVIOUS
<1> USE DEF TypeOK, kernelVars
<1>1. CASE ListProcesses
  <2>1. owed' \subseteq alive' /\ procs' \subseteq Tasks /\ rows' = <<>>
    BY <1>1 DEF ListProcesses, Processes
  <2> QED
    BY <1>1, <2>1 DEF ListProcesses
<1>2. CASE ListFails
  BY <1>2 DEF ListFails
<1>3. ASSUME NEW t \in Tasks, GateCloses(t) \/ GateOpens(t) PROVE TypeOK'
  BY <1>3 DEF GateCloses, GateOpens, Visit, Files
<1>4. CASE ReadIo \/ ReadStatus
  BY <1>4 DEF ReadIo, ReadStatus, ReadFile, Files
<1>5. CASE ReadStat
  <2> DEFINE read == IF id \in alive THEN files \union {"stat"} ELSE files
  <2>1. id \in Tasks /\ read \subseteq Files
    BY <1>5 DEF ReadStat, RowEnds, Files
  <2>2. read # {} => Row(read) \in RowOf
    BY <2>1 DEF Row, RowOf, TimesRead, InThreads
  <2>3. rows' = IF read # {} THEN Append(rows, Row(read)) ELSE rows
    BY <1>5 DEF ReadStat, RowEnds, PushIfEmitted
  <2>4. rows' \in Seq(RowOf)
    BY <2>2, <2>3
  <2> QED
    BY <1>5, <2>1, <2>4 DEF ReadStat, RowEnds, Recurse
<1>6. CASE ListThreads \/ ThreadsEnd \/ PassEnds
  BY <1>6 DEF ListThreads, ThreadsEnd, PassEnds, ProcessTasks
<1> QED
  BY <1>1, <1>2, <1>3, <1>4, <1>5, <1>6 DEF CrawlStep

LEMMA TypeStep == TypeOK /\ [Next]_vars => TypeOK'
<1>1. TypeOK /\ UNCHANGED vars => TypeOK'
  BY DEF TypeOK, vars, kernelVars, crawlVars
<1> QED
  BY <1>1, TypeKernel, TypeCrawl DEF Next

(***************************************************************************)
(* The loops                                                               *)
(***************************************************************************)
LEMMA LoopInit == Init => LoopInv
  BY NoTaskAssumption DEF Init, LoopInv, LeadersLead, OuterLoop, InnerLoop, RowUnderWay,
     ThreadsNext, OneRowPerTask, InThreads, Reading, Files

(* The kernel gives out ids that are not in use and changes the process of *)
(* no other.                                                               *)
LEMMA KernelKeepsLeaders ==
    TypeOK /\ LeadersLead /\ KernelStep =>
        /\ UNCHANGED <<thread, crawlVars>>
        /\ used \subseteq used'
        /\ \A t \in used : leader'[t] = leader[t]
        /\ LeadersLead'
<1> SUFFICES ASSUME TypeOK, LeadersLead, KernelStep
             PROVE  /\ UNCHANGED <<thread, crawlVars>>
                    /\ used \subseteq used'
                    /\ \A t \in used : leader'[t] = leader[t]
                    /\ LeadersLead'
  OBVIOUS
<1>1. ASSUME NEW t \in Tasks, NEW p \in Tasks, TaskStarts(t, p)
      PROVE  /\ UNCHANGED <<thread, crawlVars>>
             /\ used \subseteq used'
             /\ \A u \in used : leader'[u] = leader[u]
             /\ LeadersLead'
  BY <1>1 DEF TaskStarts, Processes, TypeOK, LeadersLead
<1>2. ASSUME NEW t \in Tasks, ThreadExits(t) \/ ProcessExits(t) \/ TaskRenamed(t)
      PROVE  UNCHANGED <<thread, crawlVars, used, leader>>
  BY <1>2 DEF ThreadExits, ProcessExits, Vanish, TaskRenamed
<1> QED
  BY <1>1, <1>2 DEF KernelStep, LeadersLead

LEMMA LoopKernel == TypeOK /\ LoopInv /\ KernelStep => LoopInv'
<1> SUFFICES ASSUME TypeOK, LoopInv, KernelStep PROVE LoopInv'
  OBVIOUS
<1>1. /\ UNCHANGED <<thread, pc, procs, tasks, parent, id, files, rows>>
      /\ used \subseteq used'
      /\ \A t \in used : leader'[t] = leader[t]
      /\ LeadersLead'
  BY KernelKeepsLeaders DEF LoopInv, crawlVars
<1>2. \A k \in DOMAIN rows : leader'[rows[k].id] = leader[rows[k].id]
  BY <1>1 DEF LoopInv
<1>3. OuterLoop' /\ InnerLoop'
  BY <1>1, <1>2 DEF LoopInv, OuterLoop, InnerLoop, InThreads, Reported, ProcessReported
<1>4. RowUnderWay' /\ ThreadsNext'
  BY <1>1, <1>2 DEF LoopInv, RowUnderWay, ThreadsNext, InThreads, Reading, Reported, ProcessReported
<1> QED
  BY <1>1, <1>3, <1>4 DEF LoopInv, OneRowPerTask

(* A row is pushed for the task that is under way, which had none.         *)
LEMMA LoopReadStat == TypeOK /\ LoopInv /\ ReadStat => LoopInv'
<1> SUFFICES ASSUME TypeOK, LoopInv, ReadStat PROVE LoopInv'
  OBVIOUS
<1> DEFINE read == IF id \in alive THEN files \union {"stat"} ELSE files
<1>1. /\ UNCHANGED <<kernelVars, thread, procs, tasks, parent>>
      /\ Reading /\ pc' = IF thread /\ ~InThreads THEN "tasks" ELSE "next"
      /\ pc' = "tasks" => id' = id
      /\ rows' = rows \/ rows' = Append(rows, Row(read))
  BY DEF ReadStat, RowEnds, Recurse, PushIfEmitted, Reading, Files
<1>2. /\ id \in used \ (procs \union tasks) /\ ~Reported(id)
      /\ IF InThreads THEN leader[id] = parent /\ id # parent
         ELSE leader[id] = id /\ ~ProcessReported(id)
  BY <1>1 DEF LoopInv, RowUnderWay
<1>3. rows \in Seq(RowOf) /\ Row(read).id = id
  BY DEF TypeOK, Row
<1>4. \A k \in DOMAIN rows' : rows'[k].id = id \/ (k \in DOMAIN rows /\ rows'[k] = rows[k])
  BY <1>1, <1>3
<1>5. OneRowPerTask'
  <2>1. CASE rows' = Append(rows, Row(read))
    <3>1. /\ DOMAIN rows' = 1..Len(rows) + 1 /\ DOMAIN rows = 1..Len(rows)
          /\ \A k \in 1..Len(rows) : rows'[k] = rows[k] /\ rows[k].id # id
          /\ rows'[Len(rows) + 1].id = id
      BY <1>2, <1>3, <2>1 DEF Reported
    <3> QED
      BY <3>1 DEF LoopInv, OneRowPerTask
  <2> QED
    BY <1>1, <2>1 DEF LoopInv, OneRowPerTask
<1>6. \A t : Reported(t)' => Reported(t) \/ t = id
  BY <1>4 DEF Reported
<1>7. \A p : ProcessReported(p)' => ProcessReported(p) \/ p = leader[id]
  BY <1>1, <1>4 DEF ProcessReported, kernelVars
<1>8. OuterLoop'
  <2>1. leader[id] \notin procs
    BY <1>2 DEF LoopInv, InnerLoop
  <2> QED
    BY <1>1, <1>7, <2>1 DEF LoopInv, OuterLoop, InThreads, kernelVars
<1>9. InnerLoop'
  BY <1>1, <1>2, <1>6 DEF LoopInv, InnerLoop, InThreads, kernelVars
<1>10. RowUnderWay'
  BY <1>1 DEF RowUnderWay, Reading, Files
<1>11. ThreadsNext'
  BY <1>1, <1>2, <1>4 DEF ThreadsNext, ProcessReported, InThreads, kernelVars
<1> QED
  BY <1>1, <1>2, <1>4, <1>5, <1>8, <1>9, <1>10, <1>11 DEF LoopInv, LeadersLead, kernelVars

LEMMA LoopStep == TypeOK /\ LoopInv /\ [Next]_vars => LoopInv'
<1> SUFFICES ASSUME TypeOK, LoopInv, [Next]_vars PROVE LoopInv'
  OBVIOUS
<1>1. CASE ListProcesses
  <2>1. /\ rows' = <<>> /\ pc' = "next" /\ procs' = Processes /\ used' = alive
        /\ UNCHANGED <<leader, thread, tasks, parent>>
        /\ ~InThreads /\ tasks = {}
    BY <1>1 DEF ListProcesses, LoopInv, OuterLoop, InnerLoop
  <2>2. LeadersLead'
    BY <2>1 DEF LeadersLead, TypeOK
  <2>3. OuterLoop' /\ InnerLoop'
    BY <2>1 DEF OuterLoop, InnerLoop, InThreads, ProcessReported, Processes
  <2> QED
    BY <2>1, <2>2, <2>3 DEF LoopInv, RowUnderWay, ThreadsNext, OneRowPerTask, Reading, Files
<1>2. CASE ListFails
  BY <1>2 DEF ListFails, kernelVars, LoopInv, LeadersLead, OuterLoop, InnerLoop, RowUnderWay, ThreadsNext,
     OneRowPerTask, InThreads, Reading, Files, Reported, ProcessReported
<1>3. ASSUME NEW t \in Tasks, GateCloses(t) PROVE LoopInv'
  <2>1. UNCHANGED <<kernelVars, thread, pc, parent, rows>> /\ pc = "next"
        /\ procs' \subseteq procs /\ tasks' \subseteq tasks
    BY <1>3 DEF GateCloses, Visit
  <2> QED
    BY <2>1 DEF kernelVars, LoopInv, LeadersLead, OuterLoop, InnerLoop, RowUnderWay, ThreadsNext,
       OneRowPerTask, InThreads, Reading, Files, Reported, ProcessReported
<1>4. ASSUME NEW t \in Tasks, GateOpens(t) PROVE LoopInv'
  <2>1. /\ UNCHANGED <<kernelVars, thread, parent, rows>> /\ pc' = "io" /\ id' = t
        /\ procs' = procs \ {t} \/ procs' = procs
        /\ IF InThreads THEN t \in tasks /\ tasks' = tasks \ {t} /\ procs' = procs
           ELSE t \in procs /\ procs' = procs \ {t} /\ tasks' = tasks
    BY <1>4 DEF GateOpens, Visit
  <2>2. OuterLoop' /\ InnerLoop'
    BY <2>1 DEF kernelVars, LoopInv, OuterLoop, InnerLoop, InThreads, Reported, ProcessReported
  <2>3. RowUnderWay'
    <3>1. CASE InThreads
      <4>1. t \in used /\ leader[t] = parent /\ t # parent /\ ~Reported(t)
        BY <2>1, <3>1 DEF LoopInv, InnerLoop
      <4>2. t \notin procs
        BY <3>1, <4>1 DEF LoopInv, InnerLoop, OuterLoop
      <4> QED
        BY <2>1, <3>1, <4>1, <4>2 DEF RowUnderWay, kernelVars, InThreads, Reported
    <3>2. CASE ~InThreads
      <4>1. t \in used /\ leader[t] = t /\ ~ProcessReported(t) /\ tasks = {}
        BY <2>1, <3>2 DEF LoopInv, InnerLoop, OuterLoop
      <4>2. ~Reported(t)
        BY <4>1 DEF Reported, ProcessReported
      <4> QED
        BY <2>1, <3>2, <4>1, <4>2 DEF RowUnderWay, kernelVars, InThreads, Reported, ProcessReported
    <3> QED
      BY <3>1, <3>2
  <2> QED
    BY <2>1, <2>2, <2>3 DEF kernelVars, LoopInv, LeadersLead, ThreadsNext, OneRowPerTask
<1>5. CASE ReadIo \/ ReadStatus
  <2>1. UNCHANGED <<kernelVars, thread, procs, tasks, parent, id, rows>> /\ Reading /\ Reading'
        /\ pc' # "idle" /\ pc' # "tasks"
    BY <1>5 DEF ReadIo, ReadStatus, ReadFile, Reading, Files
  <2> QED
    BY <2>1 DEF kernelVars, LoopInv, LeadersLead, OuterLoop, InnerLoop, RowUnderWay, ThreadsNext,
       OneRowPerTask, InThreads, Reported, ProcessReported
<1>6. CASE ReadStat
  BY <1>6, LoopReadStat
<1>7. CASE ListThreads
  <2>1. /\ UNCHANGED <<kernelVars, thread, procs, rows>> /\ pc = "tasks" /\ pc' = "next"
        /\ \/ UNCHANGED <<tasks, parent>>
           \/ tasks' = ProcessTasks(id) /\ parent' = id
    BY <1>7 DEF ListThreads
  <2>2. /\ ~InThreads /\ id \in used \ procs /\ leader[id] = id
        /\ \A k \in DOMAIN rows : leader[rows[k].id] = id => rows[k].id = id
    BY <2>1 DEF LoopInv, ThreadsNext
  <2>3. OuterLoop'
    BY <2>1 DEF kernelVars, LoopInv, OuterLoop, InThreads, ProcessReported
  <2>4. InnerLoop'
    <3>1. CASE tasks' = ProcessTasks(id) /\ parent' = id
      <4>1. \A t \in tasks' : t \in used /\ leader[t] = id /\ t # id /\ ~Reported(t)
        BY <2>2, <3>1 DEF ProcessTasks, Reported, TypeOK
      <4>2. parent' # NoTask
        BY <3>1, <2>2, NoTaskAssumption DEF TypeOK
      <4> QED
        BY <2>1, <2>2, <3>1, <4>1, <4>2 DEF kernelVars, InnerLoop, InThreads, Reported
    <3> QED
      BY <2>1, <3>1 DEF kernelVars, LoopInv, InnerLoop, InThreads, Reported
  <2> QED
    BY <2>1, <2>3, <2>4 DEF kernelVars, LoopInv, LeadersLead, RowUnderWay, ThreadsNext, OneRowPerTask, Reading, Files
<1>8. CASE ThreadsEnd \/ PassEnds
  BY <1>8 DEF ThreadsEnd, PassEnds, kernelVars, LoopInv, LeadersLead, OuterLoop, InnerLoop, RowUnderWay,
     ThreadsNext, OneRowPerTask, InThreads, Reading, Files, Reported, ProcessReported
<1>9. CASE UNCHANGED vars
  BY <1>9 DEF vars, crawlVars, kernelVars, LoopInv, LeadersLead, OuterLoop, InnerLoop, RowUnderWay,
     ThreadsNext, OneRowPerTask, InThreads, Reading, Reported, ProcessReported
<1> QED
  BY <1>1, <1>2, <1>3, <1>4, <1>5, <1>6, <1>7, <1>8, <1>9, LoopKernel DEF Next, CrawlStep
(***************************************************************************)
(* What is owed                                                            *)
(***************************************************************************)
LEMMA OwedInit == Init => OwedInv
  BY DEF Init, OwedInv, OwedAreWanted, OwedAreComing

LEMMA OwedKernel == TypeOK /\ LoopInv /\ OwedInv /\ KernelStep => OwedInv'
<1> SUFFICES ASSUME TypeOK, LoopInv, OwedInv, KernelStep PROVE OwedInv'
  OBVIOUS
<1>1. UNCHANGED <<thread, pc, procs, tasks, parent, id, rows>>
      /\ \A t \in used : leader'[t] = leader[t]
  BY KernelKeepsLeaders DEF LoopInv, crawlVars
<1>2. owed' \subseteq owed /\ owed \subseteq used
  BY DEF TypeOK, KernelStep, TaskStarts, ThreadExits, ProcessExits, Vanish, TaskRenamed
<1>3. \A t \in owed' : {t, leader[t]} \subseteq matching'
  <2>1. ASSUME NEW t \in Tasks, NEW p \in Tasks, TaskStarts(t, p) PROVE matching \subseteq matching'
    BY <2>1 DEF TaskStarts
  <2>2. ASSUME NEW t \in Tasks, ThreadExits(t), NEW u \in owed'
        PROVE  {u, leader[u]} \subseteq matching'
    <3>1. t # leader[t] /\ u \in alive /\ u # t /\ {u, leader[u]} \subseteq matching
          /\ matching' = matching \ {t}
      BY <2>2, <1>2 DEF ThreadExits, Vanish, Processes, TypeOK, OwedInv, OwedAreWanted, Wanted
    <3>2. leader[u] # t
      BY <3>1 DEF TypeOK
    <3> QED
      BY <3>1, <3>2
  <2>3. ASSUME NEW p \in Tasks, ProcessExits(p), NEW u \in owed'
        PROVE  {u, leader[u]} \subseteq matching'
    <3>1. /\ p = leader[p] /\ u \in alive /\ u \notin ThreadsOf(p) \union {p}
          /\ {u, leader[u]} \subseteq matching
          /\ matching' = matching \ (ThreadsOf(p) \union {p})
      BY <2>3, <1>2 DEF ProcessExits, Vanish, Processes, TypeOK, OwedInv, OwedAreWanted, Wanted
    <3>2. leader[u] \notin ThreadsOf(p) \union {p}
      BY <3>1 DEF TypeOK, ThreadsOf
    <3> QED
      BY <3>1, <3>2
  <2>4. ASSUME NEW t \in Tasks, TaskRenamed(t), NEW u \in owed'
        PROVE  {u, leader[u]} \subseteq matching'
    <3>1. t \notin {u, leader[u]} /\ {u, leader[u]} \subseteq matching
      BY <2>4 DEF TaskRenamed, OwedInv, OwedAreWanted, Wanted
    <3> QED
      BY <2>4, <3>1 DEF TaskRenamed
  <2> QED
    BY <1>2, <2>1, <2>2, <2>3, <2>4 DEF KernelStep, OwedInv, OwedAreWanted, Wanted
<1>4. OwedAreWanted'
  BY <1>1, <1>2, <1>3 DEF OwedInv, OwedAreWanted, Wanted
<1>5. OwedAreComing'
  BY <1>1, <1>2 DEF OwedInv, OwedAreComing, Reported, Reading, InThreads
<1> QED
  BY <1>4, <1>5 DEF OwedInv

LEMMA OwedStep == TypeOK /\ LoopInv /\ OwedInv /\ [Next]_vars => OwedInv'
<1> SUFFICES ASSUME TypeOK, LoopInv, OwedInv, [Next]_vars PROVE OwedInv'
  OBVIOUS
<1>1. ASSUME UNCHANGED <<thread, leader, matching, owed>>, OwedAreComing' PROVE OwedInv'
  BY <1>1 DEF OwedInv, OwedAreWanted, Wanted
<1>2. CASE ListProcesses
  <2>1. UNCHANGED <<leader, matching, thread, alive, parent, tasks>>
        /\ owed' = {t \in alive : Wanted(t)} /\ procs' = Processes
    BY <1>2 DEF ListProcesses
  <2>2. \A t \in alive : leader[t] \in Processes
    BY DEF TypeOK, Processes
  <2> QED
    BY <2>1, <2>2 DEF OwedInv, OwedAreWanted, OwedAreComing, Wanted
<1>3. CASE ListFails
  BY <1>3 DEF ListFails, OwedInv, OwedAreWanted, OwedAreComing
<1>4. ASSUME NEW t \in Tasks, GateCloses(t) PROVE OwedInv'
  <2>1. /\ UNCHANGED <<kernelVars, thread, pc, parent, id, rows, owed>> /\ t \notin matching
        /\ procs \subseteq procs' \union {t} /\ tasks \subseteq tasks' \union {t}
        /\ pc = "next"
    BY <1>4 DEF GateCloses, Visit
  <2>2. \A u \in owed : u # t /\ leader[u] # t
    BY <2>1 DEF OwedInv, OwedAreWanted, Wanted
  <2>3. OwedAreComing'
    BY <2>1, <2>2 DEF kernelVars, OwedInv, OwedAreComing, Reported, Reading, InThreads
  <2> QED
    BY <1>1, <2>1, <2>3 DEF kernelVars
<1>5. ASSUME NEW t \in Tasks, GateOpens(t) PROVE OwedInv'
  <2>1. /\ UNCHANGED <<kernelVars, thread, parent, rows, owed>> /\ pc = "next" /\ Reading' /\ id' = t
        /\ IF InThreads THEN t \in tasks /\ tasks' = tasks \ {t} /\ procs' = procs
           ELSE t \in procs /\ procs' = procs \ {t} /\ tasks' = tasks
    BY <1>5 DEF GateOpens, Visit, Reading, Files
  <2>2. ASSUME NEW u \in owed
        PROVE  \/ Reported(u) \/ leader[u] \in procs' \/ u \in tasks' \/ id' = u
               \/ (leader[u] # u /\ ~InThreads /\ id' = leader[u])
    <3>1. Reported(u) \/ leader[u] \in procs \/ u \in tasks
      BY <2>1 DEF OwedInv, OwedAreComing, Reading, Files
    <3> QED
      BY <2>1, <3>1
  <2>3. OwedAreComing'
    BY <2>1, <2>2 DEF kernelVars, OwedAreComing, Reported, InThreads
  <2> QED
    BY <1>1, <2>1, <2>3 DEF kernelVars
<1>6. CASE ReadIo \/ ReadStatus
  <2>1. UNCHANGED <<kernelVars, thread, procs, tasks, parent, id, rows, owed>> /\ Reading /\ Reading'
    BY <1>6 DEF ReadIo, ReadStatus, ReadFile, Reading, Files
  <2>2. OwedAreComing'
    BY <2>1 DEF kernelVars, OwedInv, OwedAreComing, Reported, InThreads
  <2> QED
    BY <1>1, <2>1, <2>2 DEF kernelVars
<1>7. CASE ReadStat
  <2> DEFINE read == IF id \in alive THEN files \union {"stat"} ELSE files
  <2>1. /\ UNCHANGED <<kernelVars, thread, procs, tasks, parent, owed>> /\ pc = "stat"
        /\ pc' = IF thread /\ ~InThreads THEN "tasks" ELSE "next"
        /\ pc' = "tasks" => id' = id
        /\ rows' = IF read # {} THEN Append(rows, Row(read)) ELSE rows
    BY <1>7 DEF ReadStat, RowEnds, Recurse, PushIfEmitted
  <2>2. rows \in Seq(RowOf) /\ Row(read).id = id
    BY DEF TypeOK, Row
  <2>3. read # {} => /\ \A k \in DOMAIN rows : k \in DOMAIN rows' /\ rows'[k] = rows[k]
                     /\ Len(rows) + 1 \in DOMAIN rows' /\ rows'[Len(rows) + 1].id = id
    <3> HIDE DEF read
    <3> QED
      BY <2>1, <2>2
  <2>4. \A t \in alive : Reported(t) \/ id = t => Reported(t)'
    BY <2>1, <2>3 DEF Reported
  <2>5. ASSUME NEW t \in owed
        PROVE  \/ Reported(t)' \/ leader[t] \in procs \/ t \in tasks
               \/ (leader[t] # t /\ ~InThreads /\ pc' = "tasks" /\ id' = leader[t])
    <3>1. \/ Reported(t) \/ leader[t] \in procs \/ t \in tasks \/ id = t
          \/ (leader[t] # t /\ ~InThreads /\ id = leader[t])
      BY DEF OwedInv, OwedAreComing
    <3>2. t \in alive /\ (leader[t] # t => thread)
      BY DEF TypeOK, OwedInv, OwedAreWanted, Wanted
    <3>3. Reported(t) \/ id = t => Reported(t)'
      BY <2>4, <3>2
    <3> QED
      BY <2>1, <3>1, <3>2, <3>3
  <2>6. OwedAreComing'
    BY <2>1, <2>5 DEF kernelVars, OwedAreComing, InThreads, Reported
  <2> QED
    BY <1>1, <2>1, <2>6 DEF kernelVars
<1>8. CASE ListThreads
  <2>1. /\ UNCHANGED <<kernelVars, thread, procs, rows, owed>> /\ pc = "tasks" /\ pc' = "next"
        /\ IF id \in alive THEN tasks' = ProcessTasks(id) /\ parent' = id
           ELSE UNCHANGED <<tasks, parent>>
    BY <1>8 DEF ListThreads
  <2>2. ~InThreads /\ tasks = {} /\ leader[id] = id
    BY <2>1 DEF LoopInv, InnerLoop, ThreadsNext
  <2>3. ASSUME NEW t \in owed
        PROVE  Reported(t) \/ leader[t] \in procs \/ t \in tasks'
    <3>1. CASE leader[t] # t /\ id = leader[t]
      <4>1. t \in alive /\ id \in alive
        BY <3>1 DEF TypeOK
      <4> QED
        BY <2>1, <2>2, <3>1, <4>1 DEF ProcessTasks
    <3> QED
      BY <2>1, <2>2, <3>1 DEF OwedInv, OwedAreComing, Reading, Files
  <2>4. OwedAreComing'
    BY <2>1, <2>3 DEF kernelVars, OwedAreComing, Reported
  <2> QED
    BY <1>1, <2>1, <2>4 DEF kernelVars
<1>9. CASE ThreadsEnd \/ PassEnds
  <2>1. UNCHANGED <<kernelVars, thread, procs, tasks, rows, owed>> /\ pc = "next" /\ tasks = {}
        /\ pc' \notin Files /\ pc' # "tasks"
    BY <1>9 DEF ThreadsEnd, PassEnds, LoopInv, InnerLoop, Files
  <2>2. OwedAreComing'
    BY <2>1 DEF kernelVars, OwedInv, OwedAreComing, Reported, Reading, Files
  <2> QED
    BY <1>1, <2>1, <2>2 DEF kernelVars
<1>10. CASE UNCHANGED vars
  BY <1>1, <1>10 DEF vars, kernelVars, crawlVars, OwedInv, OwedAreComing, Reported, Reading, InThreads
<1> QED
  BY <1>2, <1>3, <1>4, <1>5, <1>6, <1>7, <1>8, <1>9, <1>10, OwedKernel DEF Next, CrawlStep

(***************************************************************************)
(* The filter                                                              *)
(***************************************************************************)
LEMMA GateInit == Init => GateInv
  BY NoTaskAssumption DEF Init, GateInv, InThreads, Reading, Files, FilteredTasksHaveNoRow

LEMMA GateKernel == TypeOK /\ LoopInv /\ GateInv /\ KernelStep => GateInv'
<1> SUFFICES ASSUME TypeOK, LoopInv, GateInv, KernelStep PROVE GateInv'
  OBVIOUS
<1>1. UNCHANGED <<pc, parent, id, rows>> /\ \A t \in used : leader'[t] = leader[t]
  BY KernelKeepsLeaders DEF LoopInv, crawlVars
<1>2. matched \subseteq matched' /\ matching' \subseteq matched'
  BY DEF GateInv, KernelStep, TaskStarts, ThreadExits, ProcessExits, Vanish, TaskRenamed
<1>3. Reading => id \in used
  BY DEF LoopInv, RowUnderWay
<1>4. \A k \in DOMAIN rows : rows[k].id \in used
  BY DEF LoopInv
<1> QED
  BY <1>1, <1>2, <1>3, <1>4 DEF GateInv, InThreads, Reading, FilteredTasksHaveNoRow

LEMMA GateStep == TypeOK /\ LoopInv /\ GateInv /\ [Next]_vars => GateInv'
<1> SUFFICES ASSUME TypeOK, LoopInv, GateInv, [Next]_vars PROVE GateInv'
  OBVIOUS
<1> USE DEF GateInv, FilteredTasksHaveNoRow, InThreads, Reading, Files, kernelVars
<1>1. CASE ListProcesses
  BY <1>1 DEF ListProcesses, LoopInv, OuterLoop
<1>2. CASE ListFails
  BY <1>2 DEF ListFails
<1>3. ASSUME NEW t \in Tasks, GateCloses(t) PROVE GateInv'
  BY <1>3 DEF GateCloses
<1>4. ASSUME NEW t \in Tasks, GateOpens(t) PROVE GateInv'
  <2>1. /\ UNCHANGED <<kernelVars, parent, rows, matched>> /\ pc' = "io" /\ id' = t /\ t \in matching
        /\ IF InThreads THEN t \in tasks ELSE t \in procs
    BY <1>4 DEF GateOpens, Visit
  <2>2. {t, leader[t]} \subseteq matched
    BY <2>1 DEF LoopInv, OuterLoop, InnerLoop
  <2> QED
    BY <2>1, <2>2
<1>5. CASE ReadIo \/ ReadStatus
  BY <1>5 DEF ReadIo, ReadStatus, ReadFile
<1>6. CASE ReadStat
  <2> DEFINE read == IF id \in alive THEN files \union {"stat"} ELSE files
  <2>1. /\ UNCHANGED <<kernelVars, parent, matched>> /\ pc = "stat" /\ pc' \in {"tasks", "next"}
        /\ pc' = "tasks" => id' = id
        /\ rows' = rows \/ rows' = Append(rows, Row(read))
    BY <1>6 DEF ReadStat, RowEnds, Recurse, PushIfEmitted
  <2>2. rows \in Seq(RowOf) /\ Row(read).id = id
    BY DEF TypeOK, Row
  <2>3. \A k \in DOMAIN rows' : rows'[k].id = id \/ (k \in DOMAIN rows /\ rows'[k] = rows[k])
    BY <2>1, <2>2
  <2>4. FilteredTasksHaveNoRow'
    BY <2>1, <2>3
  <2> QED
    BY <2>1, <2>4
<1>7. CASE ListThreads
  BY <1>7 DEF ListThreads
<1>8. CASE ThreadsEnd \/ PassEnds
  BY <1>8 DEF ThreadsEnd, PassEnds
<1>9. CASE UNCHANGED vars
  BY <1>9 DEF vars, crawlVars
<1> QED
  BY <1>1, <1>2, <1>3, <1>4, <1>5, <1>6, <1>7, <1>8, <1>9, GateKernel DEF Next, CrawlStep

(***************************************************************************)
(* The invariants hold of the specification                                *)
(***************************************************************************)
LEMMA Invariance == Spec => []IInv
<1>1. Init => IInv
  BY TypeInit, LoopInit, OwedInit, GateInit DEF IInv
<1>2. IInv /\ [Next]_vars => IInv'
  BY TypeStep, LoopStep, OwedStep, GateStep DEF IInv
<1> QED
  BY <1>1, <1>2, PTL DEF Spec

(* Type correctness: tasks that live have a process that lives, and every  *)
(* row holds values of at least one file.                                  *)
THEOREM CrawlIsTyped == Spec => []TypeOK
<1>1. IInv => TypeOK
  BY DEF IInv
<1> QED
  BY <1>1, Invariance, PTL

(* However many tasks there are, and whatever starts, exits or is renamed  *)
(* between two reads, a pass has no two rows of one task.                  *)
THEOREM NoTaskHasTwoRows == Spec => []OneRowPerTask
<1>1. IInv => OneRowPerTask
  BY DEF IInv, LoopInv
<1> QED
  BY <1>1, Invariance, PTL

(* A pass that has ended has a row of every task that was there and wanted *)
(* all through it, whatever became of the others.                          *)
THEOREM SurvivorsHaveRows == Spec => []SurvivorsAreReported
<1>1. IInv => SurvivorsAreReported
  BY DEF IInv, TypeOK, LoopInv, OuterLoop, InnerLoop, OwedInv, OwedAreComing, Reading, Files,
     Reported, SurvivorsAreReported
<1> QED
  BY <1>1, Invariance, PTL

(* No row of a task that the filter has never matched, or whose process it *)
(* has never matched, during the pass.                                     *)
THEOREM FilterHides == Spec => []FilteredTasksHaveNoRow
<1>1. IInv => FilteredTasksHaveNoRow
  BY DEF IInv, GateInv
<1> QED
  BY <1>1, Invariance, PTL

(***************************************************************************)
(* The crawl descends                                                      *)
(***************************************************************************)
(* What is left of a pass, in the order of its loops: the processes still  *)
(* to visit, the reads of the one that is visited, its threads still to    *)
(* visit, and the reads of the thread that is.                             *)
Left == [idle |-> 0, next |-> 1, tasks |-> 3, stat |-> 4, status |-> 5, io |-> 6]

Rank == <<Cardinality(procs), IF InThreads THEN 2 ELSE Left[pc],
          Cardinality(tasks), Left[pc]>>

Ranks == [1..4 -> Nat]
Lower == LexProductOrdering(OpToRel(<, Nat), Nat, 4)

LEMMA LowerIsWellFounded == IsWellFoundedOn(Lower, Ranks)
  BY NatLessThanWellFounded, WFLexProductOrdering DEF Lower, Ranks

LEMMA LowerAt ==
    ASSUME NEW r \in Ranks, NEW s \in Ranks,
           \/ r[1] < s[1]
           \/ r[1] = s[1] /\ r[2] < s[2]
           \/ r[1] = s[1] /\ r[2] = s[2] /\ r[3] < s[3]
           \/ r[1] = s[1] /\ r[2] = s[2] /\ r[3] = s[3] /\ r[4] < s[4]
    PROVE  <<r, s>> \in Lower
<1>1. PICK j \in 1..4 : r[j] < s[j] /\ \A i \in 1..(j - 1) : r[i] = s[i]
  <2>1. CASE r[1] < s[1]
    BY <2>1
  <2>2. CASE r[1] = s[1] /\ r[2] < s[2]
    <3>1. \A i \in 1..(2 - 1) : r[i] = s[i]
      BY <2>2
    <3> QED
      BY <2>2, <3>1
  <2>3. CASE r[1] = s[1] /\ r[2] = s[2] /\ r[3] < s[3]
    <3>1. \A i \in 1..(3 - 1) : r[i] = s[i]
      BY <2>3
    <3> QED
      BY <2>3, <3>1
  <2>4. CASE r[1] = s[1] /\ r[2] = s[2] /\ r[3] = s[3] /\ r[4] < s[4]
    <3>1. \A i \in 1..(4 - 1) : r[i] = s[i]
      BY <2>4
    <3> QED
      BY <2>4, <3>1
  <2> QED
    BY <2>1, <2>2, <2>3, <2>4
<1>2. <<r[j], s[j]>> \in OpToRel(<, Nat)
  BY <1>1 DEF OpToRel, Ranks
<1> QED
  BY <1>1, <1>2 DEF Lower, LexProductOrdering, Ranks

LEMMA ListsAreFinite ==
    ASSUME NEW S, S \subseteq Tasks
    PROVE  /\ Cardinality(S) \in Nat
           /\ \A t \in S : Cardinality(S \ {t}) \in Nat /\ Cardinality(S \ {t}) < Cardinality(S)
<1>1. IsFiniteSet(S)
  BY TasksAssumption, FS_Subset
<1>2. Cardinality(S) \in Nat
  BY <1>1, FS_CardinalityType
<1>3. ASSUME NEW t \in S
      PROVE  Cardinality(S \ {t}) \in Nat /\ Cardinality(S \ {t}) < Cardinality(S)
  <2>1. Cardinality(S \ {t}) = Cardinality(S) - 1 /\ IsFiniteSet(S \ {t})
    BY <1>1, FS_RemoveElement
  <2>2. Cardinality(S \ {t}) \in Nat
    BY <2>1, FS_CardinalityType
  <2> QED
    BY <1>2, <2>1, <2>2
<1> QED
  BY <1>2, <1>3

LEMMA RankType == TypeOK => Rank \in Ranks
<1> SUFFICES ASSUME TypeOK PROVE Rank \in Ranks
  OBVIOUS
<1>1. Cardinality(procs) \in Nat /\ Cardinality(tasks) \in Nat
  BY ListsAreFinite DEF TypeOK
<1>2. Left[pc] \in Nat
  BY DEF TypeOK, Left
<1> QED
  BY <1>1, <1>2 DEF Rank, Ranks

LEMMA NextRankType == TypeOK' => Rank' \in Ranks
<1> SUFFICES ASSUME TypeOK' PROVE Rank' \in Ranks
  OBVIOUS
<1>1. Cardinality(procs') \in Nat /\ Cardinality(tasks') \in Nat
  BY ListsAreFinite DEF TypeOK
<1>2. Left[pc'] \in Nat
  BY DEF TypeOK, Left
<1> QED
  BY <1>1, <1>2 DEF Rank, Ranks

(* Each step of the crawl, whatever it reads and finds, takes something    *)
(* off the rank.                                                           *)
LEMMA CrawlStepDescends == IInv /\ TypeOK' /\ CrawlStep => <<Rank', Rank>> \in Lower
<1> SUFFICES ASSUME IInv, TypeOK', CrawlStep PROVE <<Rank', Rank>> \in Lower
  OBVIOUS
<1>1. Rank \in Ranks /\ Rank' \in Ranks
  BY RankType, NextRankType DEF IInv
<1>2. /\ Rank[1] = Cardinality(procs) /\ Rank[3] = Cardinality(tasks) /\ Rank[4] = Left[pc]
      /\ Rank[2] = IF InThreads THEN 2 ELSE Left[pc]
      /\ Rank'[1] = Cardinality(procs') /\ Rank'[3] = Cardinality(tasks') /\ Rank'[4] = Left[pc']
      /\ Rank'[2] = IF parent' # NoTask THEN 2 ELSE Left[pc']
  BY DEF Rank, InThreads
<1>3. procs \subseteq Tasks /\ tasks \subseteq Tasks
  BY DEF IInv, TypeOK
<1>4. ASSUME NEW t \in Tasks, Visit(t), UNCHANGED parent, pc' \in {"next", "io"}
      PROVE  <<Rank', Rank>> \in Lower
  <2>1. CASE InThreads
    <3>1. t \in tasks /\ tasks' = tasks \ {t} /\ UNCHANGED <<procs, parent>> /\ parent' # NoTask
      BY <1>4, <2>1 DEF Visit, InThreads
    <3>2. Cardinality(tasks') < Cardinality(tasks)
      BY <1>3, <3>1, ListsAreFinite
    <3>3. Rank'[1] = Rank[1] /\ Rank'[2] = Rank[2] /\ Rank'[3] < Rank[3]
      BY <1>2, <2>1, <3>1, <3>2
    <3> QED
      BY <1>1, <3>3, LowerAt
  <2>2. CASE ~InThreads
    <3>1. t \in procs /\ procs' = procs \ {t}
      BY <1>4, <2>2 DEF Visit
    <3>2. Cardinality(procs') < Cardinality(procs)
      BY <1>3, <3>1, ListsAreFinite
    <3> QED
      BY <1>1, <1>2, <3>2, LowerAt
  <2> QED
    BY <2>1, <2>2
<1>5. ASSUME UNCHANGED <<procs, tasks, parent>>, Left[pc'] < Left[pc]
      PROVE  <<Rank', Rank>> \in Lower
  <2>1. Rank'[1] = Rank[1] /\ Rank'[3] = Rank[3] /\ Rank'[4] < Rank[4]
    BY <1>2, <1>5
  <2>2. Rank'[2] = Rank[2] \/ Rank'[2] < Rank[2]
    BY <1>2, <1>5 DEF InThreads
  <2> QED
    BY <1>1, <2>1, <2>2, LowerAt
<1>6. CASE \E t \in Tasks : GateCloses(t) \/ GateOpens(t)
  <2>1. PICK t \in Tasks : GateCloses(t) \/ GateOpens(t)
    BY <1>6
  <2>2. Visit(t) /\ UNCHANGED parent /\ pc' \in {"next", "io"}
    BY <2>1 DEF GateCloses, GateOpens, Visit
  <2> QED
    BY <1>4, <2>2
<1>7. CASE ReadIo \/ ReadStatus
  <2>1. UNCHANGED <<procs, tasks, parent>> /\ Left[pc'] < Left[pc]
    BY <1>7 DEF ReadIo, ReadStatus, ReadFile, Left
  <2> QED
    BY <1>5, <2>1
<1>8. CASE ReadStat
  <2>1. UNCHANGED <<procs, tasks, parent>> /\ pc = "stat" /\ pc' \in {"tasks", "next"}
    BY <1>8 DEF ReadStat, RowEnds, Recurse
  <2>2. Left[pc'] < Left[pc]
    BY <2>1 DEF Left
  <2> QED
    BY <1>5, <2>1, <2>2
<1>9. CASE ListThreads
  <2>1. /\ pc = "tasks" /\ pc' = "next" /\ UNCHANGED procs
        /\ ~InThreads
    BY <1>9 DEF ListThreads, IInv, LoopInv, ThreadsNext
  <2>2. Rank'[1] = Rank[1] /\ Rank'[2] \in {1, 2} /\ Rank[2] = 3
    BY <1>2, <2>1 DEF Left
  <2> QED
    BY <1>1, <2>2, LowerAt
<1>10. CASE ThreadsEnd
  <2>1. UNCHANGED <<procs, pc>> /\ pc = "next" /\ InThreads /\ parent' = NoTask
    BY <1>10 DEF ThreadsEnd
  <2>2. Rank'[1] = Rank[1] /\ Rank'[2] = 1 /\ Rank[2] = 2
    BY <1>2, <2>1 DEF Left
  <2> QED
    BY <1>1, <2>2, LowerAt
<1>11. CASE PassEnds
  <2>1. UNCHANGED <<procs, tasks, parent>> /\ Left[pc'] < Left[pc]
    BY <1>11 DEF PassEnds, Left
  <2> QED
    BY <1>5, <2>1
<1> QED
  BY <1>6, <1>7, <1>8, <1>9, <1>10, <1>11 DEF CrawlStep

(* However the process tree changes under a pass, and whether or not its   *)
(* threads are asked for, the pass has only so much left to do: each step  *)
(* of the crawl lowers the rank, no step of the kernel touches it, and no  *)
(* rank has an infinite descent below it.                                  *)
Descends ==
    /\ CrawlStep => <<Rank', Rank>> \in Lower
    /\ KernelStep => UNCHANGED Rank

THEOREM PassesDescend ==
    IsWellFoundedOn(Lower, Ranks) /\ (Spec => [](Rank \in Ranks) /\ [][Descends]_vars)
<1>1. IInv => TypeOK
  BY DEF IInv
<1>2. IInv /\ [Next]_vars => IInv'
  BY TypeStep, LoopStep, OwedStep, GateStep DEF IInv
<1>3. IInv /\ IInv' /\ [Next]_vars => [Descends]_vars
  <2> SUFFICES ASSUME IInv, IInv', [Next]_vars PROVE Descends
    OBVIOUS
  <2>1. CrawlStep => <<Rank', Rank>> \in Lower
    BY CrawlStepDescends DEF IInv
  <2>2. KernelStep => UNCHANGED crawlVars
    BY DEF KernelStep, TaskStarts, ThreadExits, ProcessExits, Vanish, TaskRenamed
  <2>3. KernelStep => UNCHANGED Rank
    BY <2>2 DEF crawlVars, Rank, InThreads
  <2> QED
    BY <2>1, <2>3 DEF Descends
<1>4. Spec => [](Rank \in Ranks) /\ [][Descends]_vars
  BY <1>1, <1>2, <1>3, RankType, Invariance, PTL DEF Spec
<1> QED
  BY <1>4, LowerIsWellFounded
=============================================================================
