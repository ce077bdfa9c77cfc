-------------------------- MODULE ProcFilesProofs --------------------------
(***************************************************************************)
(* Theorems about ProcFiles and ProcFormats, for any counts of the kernel  *)
(* and any number of wrong lines.                                          *)
(***************************************************************************)
EXTENDS ProcFiles, SequenceTheorems, TLAPS

(***************************************************************************)
(* The keys                                                                *)
(***************************************************************************)
LEMMA KeysAreSequences ==
    ASSUME NEW f \in KeyFiles, NEW k \in Nat \ {0}, k <= Len(Keys(f))
    PROVE  k \in DOMAIN Keys(f) /\ Keys(f)[k] \in KeySet(f)
<1>1. CASE f = "meminfo"
  BY <1>1 DEF Keys, KeySet
<1>2. CASE f = "status"
  BY <1>2 DEF Keys, KeySet
<1>3. CASE f = "io"
  BY <1>3 DEF Keys, KeySet
<1> QED
  BY <1>1, <1>2, <1>3 DEF KeyFiles

LEMMA CoreHasFields ==
    ASSUME NEW f \in KeyFiles
    PROVE  Strict(f) \subseteq KeySet(f) /\ MustSee(f) \subseteq KeySet(f)
<1>1. CASE f = "meminfo"
  <2>1. MeminfoCore \subseteq KeySet(f)
    <3>1. /\ {1, 2, 4, 5} \subseteq DOMAIN Keys(f)
          /\ Keys(f)[1] = "MemTotal" /\ Keys(f)[2] = "MemFree"
          /\ Keys(f)[4] = "SwapTotal" /\ Keys(f)[5] = "SwapFree"
      BY <1>1 DEF Keys
    <3> QED
      BY <3>1 DEF KeySet, MeminfoCore
  <2> QED
    BY <1>1, <2>1 DEF Strict, MustSee
<1>2. CASE f = "status"
  <2>1. StatusCore \subseteq KeySet(f)
    <3>1. /\ {1, 2, 4, 6} \subseteq DOMAIN Keys(f)
          /\ Keys(f)[1] = "State" /\ Keys(f)[2] = "PPid"
          /\ Keys(f)[4] = "VmSize" /\ Keys(f)[6] = "VmRSS"
      BY <1>2 DEF Keys
    <3> QED
      BY <3>1 DEF KeySet, StatusCore
  <2> QED
    BY <1>2, <2>1 DEF Strict, MustSee
<1>3. CASE f = "io"
  BY <1>3 DEF Strict, MustSee
<1> QED
  BY <1>1, <1>2, <1>3 DEF KeyFiles

(***************************************************************************)
(* The invariant of a file of keys                                         *)
(***************************************************************************)
Line == [key : (UNION {KeySet(f) : f \in KeyFiles}) \union {"Unknown", Absent},
         value : Nat \union {Malformed, Absent}]

KeysTypeOK ==
    /\ file \in KeyFiles \union RowFiles \union LineFiles
    /\ due \in Nat \ {0}
    /\ file \in KeyFiles =>
           /\ counts \in [KeySet(file) -> Nat]
           /\ lines \in Seq(Line)
           /\ DOMAIN fields = KeySet(file)

(* The flags tell which of the keys that must be seen have a value.        *)
SeenHaveValues ==
    file \in KeyFiles => seen = {key \in MustSee(file) : ValuesOf(key) # {}}

(* Until a file fails, the lines of its strict keys are all good.          *)
StrictAreGood ==
    file \in KeyFiles /\ outcome \in {"reading", "ok"} =>
        \A key \in Strict(file) : ValuesOf(key) = LinesOf(key)

(* A file of status that ends well has seen what it must.                  *)
EndsSeen ==
    file \in KeyFiles /\ outcome = "ok" => MustSee(file) \subseteq seen

KeysInv ==
    /\ KeysTypeOK
    /\ FieldsAreTheLastValues
    /\ SeenHaveValues
    /\ StrictAreGood
    /\ EndsSeen
    /\ OnlyCoreFails

LEMMA KeysInvInit == Init => KeysInv
<1> SUFFICES ASSUME Init PROVE KeysInv
  OBVIOUS
<1>1. KeysTypeOK
  BY SnapshotsAssumption DEF Init, KeysTypeOK
<1>2. \A key : LinesOf(key) = {} /\ ValuesOf(key) = {}
  BY DEF Init, LinesOf, ValuesOf
<1>3. outcome = "reading" /\ seen = {}
  BY DEF Init
<1>4. FieldsAreTheLastValues
  BY <1>2 DEF Init, FieldsAreTheLastValues
<1> QED
  BY <1>1, <1>2, <1>3, <1>4 DEF KeysInv, SeenHaveValues, StrictAreGood, EndsSeen, OnlyCoreFails

(* A line adds its position to those of its key, and to those with a value *)
(* exactly when the parser takes it.                                       *)
LEMMA LineCounts ==
    ASSUME file \in KeyFiles, lines \in Seq(Line), NEW line \in Line,
           file' = file, lines' = Append(lines, line), NEW key \in KeySet(file)
    PROVE  /\ LinesOf(key)' = IF line.key = key THEN LinesOf(key) \union {Len(lines) + 1} ELSE LinesOf(key)
           /\ ValuesOf(key)' = IF line.key = key /\ Takes(file, line)
                               THEN ValuesOf(key) \union {Len(lines) + 1} ELSE ValuesOf(key)
           /\ ValuesOf(key) \subseteq LinesOf(key)
           /\ LinesOf(key) \subseteq 1..Len(lines)
<1>1. /\ DOMAIN lines = 1..Len(lines) /\ DOMAIN lines' = 1..(Len(lines) + 1)
      /\ lines'[Len(lines) + 1] = line /\ \A i \in 1..Len(lines) : lines'[i] = lines[i]
      /\ Len(lines) \in Nat
  OBVIOUS
<1>2. LinesOf(key)' = IF line.key = key THEN LinesOf(key) \union {Len(lines) + 1} ELSE LinesOf(key)
  BY <1>1 DEF LinesOf
<1>3. line.key = key =>
          (Takes(file, line) <=> line.value \in Nat \/ (key = "State" /\ line.value = Malformed))
  BY TokensAssumption DEF Takes, Parses, Line
<1>4. ValuesOf(key)' = IF line.key = key /\ Takes(file, line)
                       THEN ValuesOf(key) \union {Len(lines) + 1} ELSE ValuesOf(key)
  <2>1. \A i \in LinesOf(key) : lines'[i] = lines[i] /\ i # Len(lines) + 1
    BY <1>1 DEF LinesOf
  <2>2. ValuesOf(key)' = {i \in LinesOf(key)' :
            lines'[i].value \in Nat \/ (key = "State" /\ lines'[i].value = Malformed)}
    BY DEF ValuesOf
  <2> QED
    BY <1>1, <1>2, <1>3, <2>1, <2>2 DEF ValuesOf
<1> QED
  BY <1>1, <1>2, <1>4 DEF ValuesOf, LinesOf

(* Parsing a line keeps the invariant.                                     *)
LEMMA ParseLineStep ==
    ASSUME KeysInv, file \in KeyFiles, NEW line \in Line, ParseLine(line),
           UNCHANGED <<file, counts>>, due' \in Nat \ {0}
    PROVE  KeysInv'
<1> DEFINE last == Len(lines) + 1
<1>1. /\ lines \in Seq(Line) /\ DOMAIN fields = KeySet(file) /\ last \in Nat
      /\ outcome = "reading" /\ lines' = Append(lines, line)
      /\ fields' = IF Takes(file, line) THEN [fields EXCEPT ![line.key] = line.value] ELSE fields
      /\ seen' = IF Takes(file, line) THEN seen \union ({line.key} \intersect MustSee(file)) ELSE seen
      /\ outcome' = IF Fails(file, line) THEN "err" ELSE "reading"
  BY DEF ParseLine, ParseWith, KeysInv, KeysTypeOK
<1>2. ASSUME NEW key \in KeySet(file)
      PROVE  /\ LinesOf(key)' = IF line.key = key THEN LinesOf(key) \union {last} ELSE LinesOf(key)
             /\ ValuesOf(key)' = IF line.key = key /\ Takes(file, line)
                                 THEN ValuesOf(key) \union {last} ELSE ValuesOf(key)
             /\ ValuesOf(key) \subseteq LinesOf(key)
             /\ LinesOf(key) \subseteq 1..Len(lines)
  BY <1>1, LineCounts
<1>3. Takes(file, line) => line.key \in KeySet(file)
  BY DEF Takes
<1>4. MustSee(file) \subseteq KeySet(file) /\ Strict(file) \subseteq KeySet(file)
  BY CoreHasFields
<1>5. KeysTypeOK'
  BY <1>1 DEF KeysInv, KeysTypeOK
<1>6. FieldsAreTheLastValues'
  <2> SUFFICES ASSUME NEW key \in KeySet(file)
               PROVE  IF ValuesOf(key)' = {} THEN fields'[key] = 0
                      ELSE \E i \in ValuesOf(key)' :
                          fields'[key] = lines'[i].value /\ \A j \in ValuesOf(key)' : j <= i
    BY DEF FieldsAreTheLastValues
  <2>1. CASE line.key = key /\ Takes(file, line)
    <3>1. fields'[key] = line.value /\ lines'[last] = line /\ last \in ValuesOf(key)'
      BY <1>1, <1>2, <2>1
    <3>2. \A j \in ValuesOf(key)' : j <= last
      BY <1>1, <1>2, <2>1
    <3> QED
      BY <3>1, <3>2
  <2>2. CASE ~(line.key = key /\ Takes(file, line))
    <3>1. ValuesOf(key)' = ValuesOf(key) /\ fields'[key] = fields[key]
      BY <1>1, <1>2, <2>2
    <3>2. \A i \in ValuesOf(key) : lines'[i] = lines[i]
      BY <1>1, <1>2
    <3> QED
      BY <3>1, <3>2 DEF KeysInv, FieldsAreTheLastValues
  <2> QED
    BY <2>1, <2>2
<1>7. SeenHaveValues'
  <2>1. seen = {key \in MustSee(file) : ValuesOf(key) # {}}
    BY DEF KeysInv, SeenHaveValues
  <2>2. \A key \in MustSee(file) : key \in seen' <=> ValuesOf(key)' # {}
    BY <1>1, <1>2, <1>3, <1>4, <2>1
  <2>3. seen' \subseteq MustSee(file)
    BY <1>1, <2>1
  <2>4. seen' = {key \in MustSee(file) : ValuesOf(key)' # {}}
    BY <2>2, <2>3
  <2> QED
    BY <2>4 DEF SeenHaveValues
<1>8. StrictAreGood'
  <2> SUFFICES ASSUME outcome' = "reading", NEW key \in Strict(file)
               PROVE  ValuesOf(key)' = LinesOf(key)'
    BY <1>1 DEF StrictAreGood
  <2>1. ValuesOf(key) = LinesOf(key)
    BY <1>1 DEF KeysInv, StrictAreGood
  <2>2. line.key = key => Takes(file, line)
    BY <1>1 DEF Fails
  <2> QED
    BY <1>2, <1>4, <2>1, <2>2
<1>9. EndsSeen'
  BY <1>1 DEF EndsSeen
<1>10. OnlyCoreFails'
  <2> SUFFICES ASSUME Fails(file, line)
               PROVE  CASE file = "meminfo" -> \E key \in MeminfoCore : ValuesOf(key)' # LinesOf(key)'
                        [] file = "status" ->
                              \E key \in StatusCore : LinesOf(key)' = {} \/ ValuesOf(key)' # LinesOf(key)'
                        [] OTHER -> file \in LineFiles
    BY <1>1 DEF OnlyCoreFails
  <2>1. line.key \in Strict(file) /\ ~Takes(file, line)
    BY DEF Fails
  <2>2. last \in LinesOf(line.key)' /\ last \notin ValuesOf(line.key)'
    BY <1>1, <1>2, <1>4, <2>1
  <2>3. ValuesOf(line.key)' # LinesOf(line.key)'
    BY <2>2
  <2>4. CASE file = "meminfo"
    BY <2>1, <2>3, <2>4 DEF Strict
  <2>5. CASE file = "status"
    BY <2>1, <2>3, <2>5 DEF Strict
  <2>6. CASE file = "io"
    BY <2>1, <2>6 DEF Strict
  <2> QED
    BY <2>4, <2>5, <2>6 DEF KeyFiles
<1> QED
  BY <1>5, <1>6, <1>7, <1>8, <1>9, <1>10 DEF KeysInv

LEMMA KeyFilesAreApart == KeyFiles \intersect (RowFiles \union LineFiles) = {} /\ RowFiles \intersect LineFiles = {}
  BY DEF KeyFiles, RowFiles, LineFiles

LEMMA KeysInvStep == KeysInv /\ [Next]_vars => KeysInv'
<1> SUFFICES ASSUME KeysInv, [Next]_vars PROVE KeysInv'
  OBVIOUS
<1>1. KeysTypeOK
  BY DEF KeysInv
<1>2. ASSUME NEW token \in Nat \union {Malformed, Absent}, file \in KeyFiles, due <= Len(Keys(file))
      PROVE  KeyLine(NextKey, token) \in Line
  BY <1>1, <1>2, KeysAreSequences DEF KeyLine, NextKey, Line, KeysTypeOK
<1>3. CASE WrittenLine
  <2>1. KeyLine(NextKey, counts[NextKey]) \in Line
    BY <1>1, <1>2, <1>3, KeysAreSequences DEF WrittenLine, KeysTypeOK, NextKey
  <2> QED
    BY <1>1, <1>3, <2>1, ParseLineStep DEF WrittenLine, KeysTypeOK
<1>4. CASE SpoiledLine
  <2>1. PICK token \in {Malformed, Absent} : ParseLine(KeyLine(NextKey, token))
    BY <1>4 DEF SpoiledLine
  <2>2. KeyLine(NextKey, token) \in Line
    BY <1>2, <1>4 DEF SpoiledLine
  <2> QED
    BY <1>1, <1>4, <2>1, <2>2, ParseLineStep DEF SpoiledLine, KeysTypeOK
<1>5. CASE StrayLine
  <2>1. StrayLines \subseteq Line
    <3>1. StrayKeys \subseteq KeySet(file)
      BY DEF StrayKeys, KeySet
    <3> QED
      BY <1>5, <3>1 DEF StrayLines, KeyLine, Line, StrayLine
  <2> QED
    BY <1>1, <1>5, <2>1, ParseLineStep DEF StrayLine, KeysTypeOK
<1>6. ASSUME UNCHANGED <<file, counts, lines, fields, seen>>, due' \in Nat \ {0},
             outcome' # outcome => outcome = "reading" /\ outcome' \in {"ok", "err", "unreadable"},
             file \in KeyFiles /\ outcome' # outcome =>
                 \/ outcome' = "unreadable"
                 \/ outcome' = IF MustSee(file) \subseteq seen THEN "ok" ELSE "err",
             outcome' = "err" /\ outcome # "err" => file \in KeyFiles
      PROVE  KeysInv'
  <2>1. \A key : LinesOf(key)' = LinesOf(key) /\ ValuesOf(key)' = ValuesOf(key)
    BY <1>6 DEF LinesOf, ValuesOf
  <2>2. KeysTypeOK' /\ FieldsAreTheLastValues' /\ SeenHaveValues'
    BY <1>6, <2>1 DEF KeysInv, KeysTypeOK, FieldsAreTheLastValues, SeenHaveValues
  <2>3. StrictAreGood' /\ EndsSeen'
    BY <1>6, <2>1 DEF KeysInv, StrictAreGood, EndsSeen
  <2>4. OnlyCoreFails'
    <3>1. CASE outcome' = outcome
      BY <1>6, <2>1, <3>1 DEF KeysInv, OnlyCoreFails
    <3>2. CASE outcome' # outcome /\ outcome' = "err"
      <4>1. ~(MustSee(file) \subseteq seen) /\ file \in KeyFiles
        BY <1>6, <3>2
      <4>2. PICK key \in MustSee(file) : ValuesOf(key) = {}
        BY <4>1 DEF KeysInv, SeenHaveValues
      <4>3. file = "status" /\ key \in StatusCore
        BY <4>2 DEF MustSee
      <4>4. LinesOf(key)' = {} \/ ValuesOf(key)' # LinesOf(key)'
        BY <2>1, <4>2
      <4> QED
        BY <1>6, <4>3, <4>4 DEF OnlyCoreFails
    <3> QED
      BY <1>6, <3>1, <3>2 DEF OnlyCoreFails
  <2> QED
    BY <2>2, <2>3, <2>4 DEF KeysInv
<1>7. CASE OmittedLine
  BY <1>1, <1>6, <1>7 DEF OmittedLine, KeysTypeOK
<1>8. CASE KeysEnd
  BY <1>1, <1>6, <1>8 DEF KeysEnd, kernelVars, KeysTypeOK
<1>9. CASE CannotRead
  BY <1>1, <1>6, <1>9 DEF CannotRead, kernelVars, KeysTypeOK
<1>10. CASE ParseRow \/ RowsEnd \/ ParseContent
  <2>1. file' = file /\ due' = due /\ file \notin KeyFiles
    BY <1>10, KeyFilesAreApart DEF ParseRow, RowsEnd, ParseContent, kernelVars
  <2>2. outcome' = "err" => file' \in LineFiles
    BY <1>10, <2>1 DEF ParseRow, RowsEnd, ParseContent
  <2>3. OnlyCoreFails'
    BY <2>1, <2>2 DEF OnlyCoreFails, KeyFiles
  <2> QED
    BY <1>1, <2>1, <2>3
    DEF KeysInv, KeysTypeOK, FieldsAreTheLastValues, SeenHaveValues, StrictAreGood, EndsSeen
<1>11. CASE UNCHANGED vars
  BY <1>1, <1>6, <1>11 DEF vars, kernelVars, KeysTypeOK
<1> QED
  BY <1>3, <1>4, <1>5, <1>7, <1>8, <1>9, <1>10, <1>11 DEF Next

LEMMA KeysInvariant == Spec => []KeysInv
  BY KeysInvInit, KeysInvStep, PTL DEF Spec

(* Every field of a file of keys holds the last good value of its key,     *)
(* whatever lines are missing, malformed, repeated or unknown.             *)
THEOREM FieldsHoldLastValues == Spec => []FieldsAreTheLastValues
<1>1. KeysInv => FieldsAreTheLastValues
  BY DEF KeysInv
<1> QED
  BY <1>1, KeysInvariant, PTL

(* A file of keys fails by a fault of a core field only.                   *)
THEOREM CoreAloneFails == Spec => []OnlyCoreFails
<1>1. KeysInv => OnlyCoreFails
  BY DEF KeysInv
<1> QED
  BY <1>1, KeysInvariant, PTL

(***************************************************************************)
(* The core of loadavg and status                                          *)
(***************************************************************************)

(* A loadavg that parses is the one that was written: no cut or spoiled    *)
(* one does.                                                               *)
LEMMA SixAreASequence ==
    ASSUME NEW S, NEW f \in [1..6 -> S]
    PROVE  f \in Seq(S) /\ Len(f) = 6
<1>1. f \in Seq(S)
  BY SeqDef
<1> QED
  BY <1>1, LenProperties

LEMMA LoadavgIsWhole ==
    ASSUME file = "loadavg", NEW tokens \in Contents, Loadavg(tokens) # Malformed
    PROVE  Loadavg(tokens) = <<1, 2, 3, 4, 5, 6>>
<1> DEFINE Tasks == Spoil(<<4, 5>>) \union {<<4>>, <<4, 5, 6>>}
           Token == Nat \union {Malformed} \union Tasks
<1>1. PICK t \in Spoil(<<1, 2, 3, 0, 6, 0>>), tasks \in Tasks :
          tokens \in Cut([t EXCEPT ![4] = tasks])
  <2>1. Contents = UNION {Cut([t EXCEPT ![4] = tasks]) :
                              t \in Spoil(<<1, 2, 3, 0, 6, 0>>), tasks \in Tasks}
    BY DEF Contents
  <2> HIDE DEF Tasks
  <2> QED
    BY <2>1
<1>2. /\ t \in [1..6 -> Nat \union {Malformed}]
      /\ t[1] \in {1, Malformed} /\ t[2] \in {2, Malformed} /\ t[3] \in {3, Malformed}
      /\ t[5] \in {6, Malformed}
  BY DEF Spoil
<1> DEFINE whole == [t EXCEPT ![4] = tasks]
<1>3. /\ whole \in [1..6 -> Token] /\ whole[4] = tasks
      /\ \A k \in {1, 2, 3, 5} : whole[k] = t[k]
  BY <1>2
<1> HIDE DEF whole, Token
<1>4. whole \in Seq(Token) /\ Len(whole) = 6
  BY <1>3, SixAreASequence
<1>5. PICK n \in 0..6 : tokens = SubSeq(whole, 1, n)
  BY <1>1, <1>4 DEF Cut, whole
<1>6. Len(tokens) = n /\ \A k \in 1..n : tokens[k] = whole[k]
  BY <1>4, <1>5
<1>7. /\ Len(tokens) >= 5
      /\ \A k \in {1, 2, 3, 5} : Parses(tokens[k])
      /\ Parses(tokens[4][1]) /\ Parses(tokens[4][2]) /\ Len(tokens[4]) >= 2
  BY DEF Loadavg
<1>8. tokens[1] = 1 /\ tokens[2] = 2 /\ tokens[3] = 3 /\ tokens[5] = 6 /\ tokens[4] = tasks
  BY <1>2, <1>3, <1>6, <1>7, TokensAssumption DEF Parses
<1>9. tasks[1] = 4 /\ tasks[2] = 5
  <2>1. CASE tasks \in Spoil(<<4, 5>>)
    <3>1. tasks[1] \in {4, Malformed} /\ tasks[2] \in {5, Malformed}
      BY <2>1 DEF Spoil
    <3> QED
      BY <1>7, <1>8, <3>1, TokensAssumption DEF Parses
  <2>2. CASE tasks = <<4>>
    BY <1>7, <1>8, <2>2
  <2>3. CASE tasks = <<4, 5, 6>>
    BY <2>3
  <2> QED
    BY <2>1, <2>2, <2>3
<1> QED
  BY <1>7, <1>8, <1>9 DEF Loadavg

LoadavgInv == file = "loadavg" /\ outcome = "ok" => fields = <<1, 2, 3, 4, 5, 6>>

LEMMA LoadavgStep == LoadavgInv /\ [Next]_vars => LoadavgInv'
<1> SUFFICES ASSUME LoadavgInv, [Next]_vars, file = "loadavg", file' = file, outcome' = "ok"
             PROVE  fields' = <<1, 2, 3, 4, 5, 6>>
  BY DEF LoadavgInv, Next, CannotRead, WrittenLine, SpoiledLine, OmittedLine, StrayLine, KeysEnd,
     ParseRow, RowsEnd, ParseContent, kernelVars, vars
<1>1. "loadavg" \notin KeyFiles /\ "loadavg" \notin RowFiles
  BY DEF KeyFiles, RowFiles
<1>2. CASE ParseContent
  <2>1. PICK tokens \in Contents :
            /\ outcome' = IF Parsed(tokens) = Malformed THEN "err" ELSE "ok"
            /\ fields' = IF Parsed(tokens) = Malformed THEN fields ELSE Parsed(tokens)
    BY <1>2 DEF ParseContent
  <2>2. Parsed(tokens) = Loadavg(tokens)
    BY DEF Parsed
  <2> QED
    BY <2>1, <2>2, LoadavgIsWhole
<1>3. CASE CannotRead
  BY <1>3 DEF CannotRead
<1>4. CASE UNCHANGED vars
  BY <1>4 DEF LoadavgInv, vars
<1> QED
  BY <1>1, <1>2, <1>3, <1>4
  DEF Next, WrittenLine, SpoiledLine, OmittedLine, StrayLine, KeysEnd, ParseRow, RowsEnd

(* What is passed on has its core from the file, or the file has failed.   *)
THEOREM CoreIsFromTheFile == Spec => []CoreComesFromTheFile
<1>1. Init => LoadavgInv
  BY DEF Init, LoadavgInv
<1>2. Spec => []LoadavgInv
  BY <1>1, LoadavgStep, PTL DEF Spec
<1>3. KeysInv /\ LoadavgInv => CoreComesFromTheFile
  <2> SUFFICES ASSUME KeysInv, LoadavgInv, outcome = "ok", file = "status", NEW key \in StatusCore
               PROVE  LinesOf(key) # {} /\ ValuesOf(key) = LinesOf(key)
    BY DEF LoadavgInv, CoreComesFromTheFile
  <2>1. key \in seen /\ key \in MustSee(file)
    BY DEF KeysInv, EndsSeen, MustSee, KeyFiles
  <2>2. ValuesOf(key) # {}
    BY <2>1 DEF KeysInv, SeenHaveValues, KeyFiles
  <2>3. ValuesOf(key) = LinesOf(key)
    BY DEF KeysInv, StrictAreGood, Strict, KeyFiles
  <2> QED
    BY <2>2, <2>3
<1> QED
  BY <1>2, <1>3, KeysInvariant, PTL

(***************************************************************************)
(* Files of rows                                                           *)
(***************************************************************************)
RowLine == [head : Heads \union ShortHeads, columns : Seq(Nat \union {Malformed})]
Row == [name : {DeviceHead[Len(DeviceHead)]}, columns : [1..Columns(file) -> Nat]]

RowsTypeOK ==
    /\ file \in KeyFiles \union RowFiles \union LineFiles
    /\ file \in RowFiles => lines \in Seq(RowLine) /\ rows \in Seq(Row)

RowsInv == RowsTypeOK /\ SoundLinesHaveRows /\ RowsAreCopiesOfLines

(* Of the heads that occur, a parser takes that of a device only.          *)
LEMMA RowsNameDevices ==
    ASSUME file \in RowFiles, NEW head \in Heads \union ShortHeads
    PROVE  HasRow(file, head) <=> head = DeviceHead
<1>1. CASE file = "cpu"
  <2>1. head \in {<<"cpu0">>, <<"intr">>, <<>>} /\ DeviceHead = <<"cpu0">>
    BY <1>1 DEF Heads, ShortHeads, DeviceHead
  <2> QED
    BY <1>1, <2>1, HeadsAssumption DEF HasRow
<1>2. CASE file = "diskstats"
  <2>1. /\ DeviceHead = <<8, 0, "sda">>
        /\ head \in {<<8, 0, "sda">>, <<Malformed, 0, "sda">>, <<8, Malformed, "sda">>, <<>>, <<8>>, <<8, 0>>}
    BY <1>2 DEF Heads, ShortHeads, DeviceHead
  <2> QED
    BY <1>2, <2>1, TokensAssumption DEF HasRow, Parses
<1>3. CASE file = "net"
  <2>1. head \in {<<"eth0">>, <<Absent>>, <<>>} /\ DeviceHead = <<"eth0">>
    BY <1>3 DEF Heads, ShortHeads, DeviceHead
  <2> QED
    BY <1>3, <2>1, HeadsAssumption DEF HasRow
<1> QED
  BY <1>1, <1>2, <1>3 DEF RowFiles

LEMMA RowLinesAreLines ==
    ASSUME NEW nth \in Nat, NEW line \in RowLines(nth), file \in RowFiles
    PROVE  line \in RowLine
<1>1. Columns(file) \in Nat /\ Widths \subseteq Nat
  BY DEF Columns, RowFiles, Widths
<1>2. ASSUME NEW width \in Widths, NEW spoiled \in Nat
      PROVE  ColumnsOf(nth, width, spoiled) \in Seq(Nat \union {Malformed})
  BY <1>1, <1>2 DEF ColumnsOf
<1>3. line.columns \in Seq(Nat \union {Malformed})
  <2>1. CASE line \in [head : ShortHeads, columns : {<<>>}]
    <3>1. line.columns = <<>>
      BY <2>1
    <3> QED
      BY <3>1
  <2>2. CASE line.columns \in {ColumnsOf(nth, width, spoiled) :
                 width \in Widths, spoiled \in {0, 1, Columns(file), Columns(file) + 1}}
    <3>1. {0, 1, Columns(file), Columns(file) + 1} \subseteq Nat
      BY <1>1
    <3>2. PICK width \in Widths, spoiled \in {0, 1, Columns(file), Columns(file) + 1} :
              line.columns = ColumnsOf(nth, width, spoiled)
      BY <2>2
    <3> QED
      BY <1>2, <3>1, <3>2
  <2> QED
    BY <2>1, <2>2 DEF RowLines
<1> QED
  BY <1>3 DEF RowLines, RowLine

(* A row is well formed and a copy of its line.                            *)
LEMMA RowIsCopy ==
    ASSUME file \in RowFiles, NEW line \in RowLine, IsRow(file, line)
    PROVE  /\ RowOf(file, line) \in Row /\ line.head = DeviceHead
           /\ \A k \in 1..Columns(file) : RowOf(file, line).columns[k] =
                  IF k <= Len(line.columns) THEN line.columns[k] ELSE 0
<1>1. line.head = DeviceHead
  BY RowsNameDevices DEF IsRow, RowLine
<1>2. Columns(file) \in Nat /\ Len(line.columns) \in Nat /\ DOMAIN line.columns = 1..Len(line.columns)
  BY DEF Columns, RowFiles, RowLine
<1>3. \A k \in 1..Columns(file) : k <= Len(line.columns) => line.columns[k] \in Nat
  BY <1>2 DEF IsRow, GoodColumns, Parses
<1> QED
  BY <1>1, <1>2, <1>3 DEF RowOf, RowFrom, Row

(* A sound line has a row.                                                 *)
LEMMA SoundIsRow ==
    ASSUME file \in RowFiles, NEW line \in RowLine, line.head = DeviceHead,
           \A k \in DOMAIN line.columns : line.columns[k] # Malformed,
           file = "net" => Len(line.columns) >= 16
    PROVE  IsRow(file, line)
<1>1. HasRow(file, line.head)
  BY RowsNameDevices DEF RowLine
<1>2. \A k \in DOMAIN line.columns : line.columns[k] \in Nat
  BY DEF RowLine
<1> QED
  BY <1>1, <1>2 DEF IsRow, GoodColumns, Columns, Parses

LEMMA ParseRowStep == RowsInv /\ ParseRow => RowsInv'
<1> SUFFICES ASSUME RowsInv, ParseRow PROVE RowsInv'
  OBVIOUS
<1>1. /\ file \in RowFiles /\ file' = file
      /\ lines \in Seq(RowLine) /\ rows \in Seq(Row)
  BY DEF RowsInv, RowsTypeOK, ParseRow, kernelVars
<1>2. PICK line \in RowLines(Len(lines) + 1) :
          /\ lines' = Append(lines, line)
          /\ rows' = IF IsRow(file, line) THEN Append(rows, RowOf(file, line)) ELSE rows
  BY DEF ParseRow
<1>3. line \in RowLine
  BY <1>1, RowLinesAreLines
<1> DEFINE new == Len(lines) + 1
<1>4. /\ DOMAIN lines = 1..Len(lines) /\ DOMAIN lines' = 1..new /\ lines'[new] = line
      /\ \A i \in 1..Len(lines) : lines'[i] = lines[i]
      /\ Len(lines) \in Nat /\ new \in Nat
  BY <1>1, <1>2, <1>3
<1>5. UNCHANGED <<RowLine, Row, DeviceHead>>
  BY <1>1 DEF RowLine, Row, DeviceHead, Heads, ShortHeads
<1>6. RowsTypeOK'
  BY <1>1, <1>2, <1>3, <1>5, RowIsCopy DEF RowsInv, RowsTypeOK
<1>7. ASSUME NEW i \in DOMAIN lines', i # new
      PROVE  i \in DOMAIN lines /\ lines'[i] = lines[i]
  BY <1>4, <1>7
<1>8. \A i \in DOMAIN lines : Sound(lines[i]) => \E j \in DOMAIN rows : Copies(rows[j], lines[i])
  BY <1>1 DEF RowsInv, SoundLinesHaveRows
<1>9. PICK from \in [DOMAIN rows -> DOMAIN lines] :
          /\ \A j \in DOMAIN rows :
                 Copies(rows[j], lines[from[j]]) /\ lines[from[j]].head = DeviceHead
          /\ \A j, k \in DOMAIN rows : j < k => from[j] < from[k]
  BY <1>1 DEF RowsInv, RowsAreCopiesOfLines
<1>10. ASSUME NEW i \in DOMAIN lines', i # new, Sound(lines[i])'
       PROVE  \E j \in DOMAIN rows : Copies(rows[j], lines'[i])
  <2>1. Sound(lines[i])
    BY <1>1, <1>5, <1>7, <1>10 DEF Sound
  <2> QED
    BY <1>7, <1>8, <1>10, <2>1
<1>11. CASE IsRow(file, line)
  <2> DEFINE row == RowOf(file, line)
             last == Len(rows) + 1
  <2>1. /\ DOMAIN rows = 1..Len(rows) /\ DOMAIN rows' = 1..last /\ rows'[last] = row
        /\ \A j \in 1..Len(rows) : rows'[j] = rows[j]
        /\ Len(rows) \in Nat /\ last \in Nat
    BY <1>1, <1>2, <1>3, <1>11, RowIsCopy
  <2>2. Copies(row, line) /\ line.head = DeviceHead
    BY <1>1, <1>3, <1>11, RowIsCopy DEF Copies, Row
  <2>3. SoundLinesHaveRows'
    <3> SUFFICES ASSUME NEW i \in DOMAIN lines', Sound(lines[i])'
                 PROVE  \E j \in DOMAIN rows' : Copies(rows'[j], lines'[i])
      BY DEF SoundLinesHaveRows
    <3>1. CASE i = new
      BY <1>4, <2>1, <2>2, <3>1
    <3>2. CASE i # new
      <4>1. PICK j \in DOMAIN rows : Copies(rows[j], lines'[i])
        BY <1>10, <3>2
      <4> QED
        BY <2>1, <4>1
    <3> QED
      BY <3>1, <3>2
  <2>4. RowsAreCopiesOfLines'
    <3> DEFINE more == [j \in DOMAIN rows' |-> IF j = last THEN new ELSE from[j]]
    <3>1. /\ more \in [DOMAIN rows' -> DOMAIN lines'] /\ more[last] = new
          /\ \A j \in DOMAIN rows : more[j] = from[j] /\ from[j] \in DOMAIN lines /\ j # last
      BY <1>4, <2>1
    <3> HIDE DEF more
    <3>2. ASSUME NEW j \in DOMAIN rows'
          PROVE  Copies(rows'[j], lines'[more[j]]) /\ lines'[more[j]].head = DeviceHead'
      <4>1. CASE j = last
        BY <1>4, <1>5, <2>1, <2>2, <3>1, <4>1
      <4>2. CASE j # last
        <5>1. j \in DOMAIN rows /\ rows'[j] = rows[j]
          BY <2>1, <4>2
        <5>2. more[j] = from[j] /\ lines'[from[j]] = lines[from[j]]
          BY <1>4, <3>1, <5>1
        <5> QED
          BY <1>5, <1>9, <5>1, <5>2
      <4> QED
        BY <4>1, <4>2
    <3>3. \A j, k \in DOMAIN rows' : j < k => more[j] < more[k]
      BY <1>4, <1>9, <2>1, <3>1
    <3> QED
      BY <3>1, <3>2, <3>3 DEF RowsAreCopiesOfLines
  <2> QED
    BY <1>6, <2>3, <2>4 DEF RowsInv
<1>12. CASE ~IsRow(file, line)
  <2>1. rows' = rows
    BY <1>2, <1>12
  <2>2. SoundLinesHaveRows'
    <3> SUFFICES ASSUME NEW i \in DOMAIN lines', Sound(lines[i])'
                 PROVE  \E j \in DOMAIN rows' : Copies(rows'[j], lines'[i])
      BY DEF SoundLinesHaveRows
    <3>1. i # new
      <4>1. ~Sound(line)
        BY <1>1, <1>3, <1>12, SoundIsRow DEF Sound
      <4> QED
        BY <1>4, <1>5, <1>1, <4>1 DEF Sound
    <3> QED
      BY <1>10, <2>1, <3>1
  <2>3. RowsAreCopiesOfLines'
    <3>1. from \in [DOMAIN rows' -> DOMAIN lines']
      BY <1>4, <2>1
    <3>2. ASSUME NEW j \in DOMAIN rows'
          PROVE  Copies(rows'[j], lines'[from[j]]) /\ lines'[from[j]].head = DeviceHead'
      <4>1. lines'[from[j]] = lines[from[j]]
        BY <1>4, <2>1
      <4> QED
        BY <1>5, <1>9, <2>1, <4>1
    <3>3. \A j, k \in DOMAIN rows' : j < k => from[j] < from[k]
      BY <1>9, <2>1
    <3> QED
      BY <3>1, <3>2, <3>3 DEF RowsAreCopiesOfLines
  <2> QED
    BY <1>6, <2>2, <2>3 DEF RowsInv
<1> QED
  BY <1>11, <1>12

LEMMA RowsInvStep == RowsInv /\ [Next]_vars => RowsInv'
<1> SUFFICES ASSUME RowsInv, [Next]_vars PROVE RowsInv'
  OBVIOUS
<1>1. ASSUME file' = file, file \notin RowFiles PROVE RowsInv'
  BY <1>1 DEF RowsInv, RowsTypeOK, SoundLinesHaveRows, RowsAreCopiesOfLines
<1>2. ASSUME UNCHANGED <<file, lines, rows>> PROVE RowsInv'
  <2>1. UNCHANGED <<RowLine, Row, DeviceHead>>
    BY <1>2 DEF RowLine, Row, DeviceHead, Heads, ShortHeads
  <2>2. RowsTypeOK'
    BY <1>2, <2>1 DEF RowsInv, RowsTypeOK
  <2>3. \A i \in DOMAIN lines : Sound(lines[i])' <=> Sound(lines[i])
    BY <1>2, <2>1 DEF Sound
  <2>4. SoundLinesHaveRows'
    BY <1>2, <2>3 DEF RowsInv, SoundLinesHaveRows
  <2>5. RowsAreCopiesOfLines'
    BY <1>2, <2>1 DEF RowsInv, RowsAreCopiesOfLines
  <2> QED
    BY <2>2, <2>4, <2>5 DEF RowsInv
<1>3. CASE WrittenLine \/ SpoiledLine \/ OmittedLine \/ StrayLine \/ KeysEnd \/ ParseContent
  BY <1>1, <1>3, KeyFilesAreApart
  DEF WrittenLine, SpoiledLine, OmittedLine, StrayLine, KeysEnd, ParseContent, kernelVars
<1>4. CASE CannotRead \/ RowsEnd \/ UNCHANGED vars
  BY <1>2, <1>4 DEF CannotRead, RowsEnd, kernelVars, vars
<1> QED
  BY <1>3, <1>4, ParseRowStep DEF Next

LEMMA RowsInvariant == Spec => []RowsInv
<1>1. Init => RowsInv
  <2> SUFFICES ASSUME Init PROVE RowsInv
    OBVIOUS
  <2>1. lines = <<>> /\ rows = <<>> /\ RowsTypeOK
    BY DEF Init, RowsTypeOK
  <2>2. RowsAreCopiesOfLines
    <3>1. <<>> \in [DOMAIN rows -> DOMAIN lines] /\ DOMAIN rows = {}
      BY <2>1
    <3> QED
      BY <3>1 DEF RowsAreCopiesOfLines
  <2> QED
    BY <2>1, <2>2 DEF RowsInv, SoundLinesHaveRows
<1> QED
  BY <1>1, RowsInvStep, PTL DEF Spec

(* Every device has its row, whatever lines are around its own.            *)
THEOREM DevicesHaveRows == Spec => []SoundLinesHaveRows
<1>1. RowsInv => SoundLinesHaveRows
  BY DEF RowsInv
<1> QED
  BY <1>1, RowsInvariant, PTL

(* Every row is a copy of a line of its own, in order.                     *)
THEOREM RowsAreCopied == Spec => []RowsAreCopiesOfLines
<1>1. RowsInv => RowsAreCopiesOfLines
  BY DEF RowsInv
<1> QED
  BY <1>1, RowsInvariant, PTL

(***************************************************************************)
(* Types                                                                   *)
(***************************************************************************)
TypeInv == TypeOK /\ (file \notin RowFiles => rows = <<>>)

(* What a file of one line yields are numbers.                             *)
LEMMA ParsedAreNumbers ==
    ASSUME file \in LineFiles, NEW tokens, Parsed(tokens) # Malformed
    PROVE  \A k \in DOMAIN Parsed(tokens) : Parsed(tokens)[k] \in Nat
<1>1. CASE file = "loadavg"
  <2>1. Parsed(tokens) = Loadavg(tokens)
    BY <1>1 DEF Parsed
  <2>2. /\ \A k \in {1, 2, 3, 5} : tokens[k] \in Nat
        /\ tokens[4][1] \in Nat /\ tokens[4][2] \in Nat
    BY <2>1 DEF Loadavg, Parses
  <2>3. Parsed(tokens) = <<tokens[1], tokens[2], tokens[3], tokens[4][1], tokens[4][2], tokens[5]>>
    BY <2>1 DEF Loadavg
  <2>4. \A k \in 1..6 : Parsed(tokens)[k] \in Nat
    BY <2>2, <2>3
  <2>5. DOMAIN Parsed(tokens) = 1..6
    BY <2>3
  <2> QED
    BY <2>4, <2>5
<1>2. CASE file = "stat"
  BY <1>2 DEF Parsed, Stat, Parses
<1>3. CASE file = "uptime"
  <2>1. \A k \in DOMAIN tokens : k <= 2 => tokens[k] \in Nat
    BY <1>3 DEF Parsed, Uptime, Parses
  <2>2. Parsed(tokens) = [k \in 1..2 |-> IF k <= Len(tokens) THEN tokens[k] ELSE 0]
    BY <1>3 DEF Parsed, Uptime
  <2> QED
    BY <2>1, <2>2
<1> QED
  BY <1>1, <1>2, <1>3 DEF LineFiles

LEMMA TypeStep == KeysInv /\ RowsInv /\ TypeInv /\ [Next]_vars => TypeInv'
<1> SUFFICES ASSUME KeysInv, RowsInv, TypeInv, [Next]_vars PROVE TypeInv'
  OBVIOUS
<1>1. RowsInv'
  BY RowsInvStep
<1>2. ASSUME NEW line \in Line, ParseLine(line), file \in KeyFiles, file' = file,
             due' \in Nat \ {0}, faults' \in 0..MaxFaults
      PROVE  TypeInv'
  <2>1. \A k \in DOMAIN fields' : fields'[k] \in Nat \/ (k = "State" /\ fields'[k] = Malformed)
    BY <1>2 DEF ParseLine, ParseWith, Takes, Parses, Line, TypeInv, TypeOK
  <2>2. seen' \subseteq StatusCore
    BY <1>2 DEF ParseLine, ParseWith, MustSee, TypeInv, TypeOK
  <2> QED
    BY <1>2, <2>1, <2>2 DEF ParseLine, ParseWith, TypeInv, TypeOK
<1>3. KeysTypeOK /\ faults \in 0..MaxFaults /\ MaxFaults \in Nat
  BY LimitsAssumption DEF KeysInv, TypeInv, TypeOK
<1>4. ASSUME NEW token \in Nat \union {Malformed, Absent}, file \in KeyFiles, due <= Len(Keys(file))
      PROVE  KeyLine(NextKey, token) \in Line
  BY <1>3, <1>4, KeysAreSequences DEF KeyLine, NextKey, Line, KeysTypeOK
<1>5. CASE WrittenLine
  <2>1. KeyLine(NextKey, counts[NextKey]) \in Line
    BY <1>3, <1>4, <1>5, KeysAreSequences DEF WrittenLine, KeysTypeOK, NextKey
  <2> QED
    BY <1>2, <1>3, <1>5, <2>1 DEF WrittenLine, KeysTypeOK
<1>6. CASE SpoiledLine
  <2>1. PICK token \in {Malformed, Absent} : ParseLine(KeyLine(NextKey, token))
    BY <1>6 DEF SpoiledLine
  <2>2. KeyLine(NextKey, token) \in Line
    BY <1>4, <1>6 DEF SpoiledLine
  <2> QED
    BY <1>2, <1>3, <1>6, <2>1, <2>2 DEF SpoiledLine, KeysTypeOK
<1>7. CASE StrayLine
  <2>1. StrayLines \subseteq Line
    <3>1. StrayKeys \subseteq KeySet(file)
      BY DEF StrayKeys, KeySet
    <3> QED
      BY <1>7, <3>1 DEF StrayLines, KeyLine, Line, StrayLine
  <2> QED
    BY <1>2, <1>3, <1>7, <2>1 DEF StrayLine, KeysTypeOK
<1>8. CASE CannotRead \/ OmittedLine \/ KeysEnd \/ RowsEnd \/ UNCHANGED vars
  BY <1>3, <1>8 DEF CannotRead, OmittedLine, KeysEnd, RowsEnd, kernelVars, vars, TypeInv, TypeOK
<1>9. CASE ParseRow
  <2>1. UNCHANGED <<file, due, faults, fields, seen, outcome>> /\ file \in RowFiles
    BY <1>9 DEF ParseRow, kernelVars
  <2>2. rows' \in Seq(Row')
    BY <1>1, <2>1 DEF RowsInv, RowsTypeOK
  <2>3. \A j \in DOMAIN rows' : rows'[j].columns \in [1..Columns(file) -> Nat]
    <3>1. Row' = Row
      BY <2>1 DEF Row, DeviceHead
    <3>2. \A j \in DOMAIN rows' : rows'[j] \in Row
      BY <2>2, <3>1
    <3> QED
      BY <3>2 DEF Row
  <2> QED
    BY <2>1, <2>3 DEF TypeInv, TypeOK
<1>10. CASE ParseContent
  BY <1>10, ParsedAreNumbers DEF ParseContent, kernelVars, TypeInv, TypeOK
<1> QED
  BY <1>5, <1>6, <1>7, <1>8, <1>9, <1>10 DEF Next

(* Type correctness: what a parser holds are numbers, in every column of   *)
(* every row and in every field, but for the character of State.           *)
THEOREM ParsersAreTyped == Spec => []TypeOK
<1>1. Init => TypeInv
  BY LimitsAssumption DEF Init, TypeInv, TypeOK
<1>2. TypeInv => TypeOK
  BY DEF TypeInv
<1> QED
  BY <1>1, <1>2, TypeStep, KeysInvariant, RowsInvariant, PTL DEF Spec

(***************************************************************************)
(* The memory in bytes                                                     *)
(***************************************************************************)
(* While no line has been wrong, the keys whose lines are behind hold what *)
(* the kernel counts; a file that ends well has all its lines behind.      *)
LinesInOrder ==
    file \in KeyFiles =>
        /\ counts \in Snapshots[file]
        /\ outcome = "ok" => due > Len(Keys(file))
        /\ faults = 0 /\ outcome \in {"reading", "ok"} =>
               \A k \in DOMAIN Keys(file) :
                   k < due => fields[Keys(file)[k]] = counts[Keys(file)[k]]

LEMMA KeysHaveALength ==
    ASSUME NEW f \in KeyFiles
    PROVE  Len(Keys(f)) \in Nat /\ DOMAIN Keys(f) = 1 .. Len(Keys(f))
<1>1. CASE f = "meminfo"
  BY <1>1 DEF Keys
<1>2. CASE f = "status"
  BY <1>2 DEF Keys
<1>3. CASE f = "io"
  BY <1>3 DEF Keys
<1> QED
  BY <1>1, <1>2, <1>3 DEF KeyFiles

LEMMA LinesInOrderStep == KeysTypeOK /\ TypeOK /\ LinesInOrder /\ [Next]_vars => LinesInOrder'
<1> SUFFICES ASSUME KeysTypeOK, TypeOK, LinesInOrder, [Next]_vars PROVE LinesInOrder'
  OBVIOUS
<1>1. faults \in Nat /\ due \in Nat
  BY LimitsAssumption DEF TypeOK
<1>2. CASE WrittenLine
  <2>1. /\ file \in KeyFiles /\ due <= Len(Keys(file)) /\ due' = due + 1
        /\ UNCHANGED <<file, counts, faults>> /\ outcome = "reading"
        /\ ParseLine(KeyLine(NextKey, counts[NextKey]))
    BY <1>2 DEF WrittenLine, ParseLine, ParseWith
  <2>2. NextKey \in KeySet(file) /\ counts[NextKey] \in Nat /\ DOMAIN fields = KeySet(file)
    BY <2>1, KeysAreSequences DEF NextKey, KeysTypeOK
  <2>3. Takes(file, KeyLine(NextKey, counts[NextKey]))
    BY <2>2, TokensAssumption DEF Takes, KeyLine, Parses
  <2>4. fields' = [fields EXCEPT ![NextKey] = counts[NextKey]] /\ outcome' # "ok"
    BY <2>1, <2>3 DEF ParseLine, ParseWith, KeyLine
  <2>5. ASSUME faults = 0, NEW k \in DOMAIN Keys(file), k < due + 1
        PROVE  fields'[Keys(file)[k]] = counts[Keys(file)[k]]
    <3>1. Keys(file)[k] \in KeySet(file)
      BY DEF KeySet
    <3>2. CASE Keys(file)[k] = NextKey
      BY <2>2, <2>4, <3>2
    <3>3. CASE Keys(file)[k] # NextKey
      <4>1. k < due
        BY <1>1, <2>1, <2>5, <3>3, KeysHaveALength DEF NextKey
      <4> QED
        BY <2>1, <2>2, <2>4, <2>5, <3>1, <3>3, <4>1 DEF LinesInOrder
    <3> QED
      BY <3>2, <3>3
  <2> QED
    BY <2>1, <2>4, <2>5 DEF LinesInOrder
<1>3. CASE SpoiledLine \/ OmittedLine \/ StrayLine
  <2>1. UNCHANGED <<file, counts>> /\ faults' = faults + 1 /\ outcome' # "ok"
    BY <1>3 DEF SpoiledLine, OmittedLine, StrayLine, ParseLine, ParseWith
  <2> QED
    BY <1>1, <2>1 DEF LinesInOrder
<1>4. CASE KeysEnd
  BY <1>4 DEF KeysEnd, kernelVars, LinesInOrder
<1>5. CASE CannotRead \/ UNCHANGED vars
  BY <1>5 DEF CannotRead, vars, kernelVars, LinesInOrder
<1>6. CASE ParseRow \/ RowsEnd \/ ParseContent
  BY <1>6, KeyFilesAreApart DEF ParseRow, RowsEnd, ParseContent, kernelVars, LinesInOrder
<1> QED
  BY <1>2, <1>3, <1>4, <1>5, <1>6 DEF Next

LEMMA LinesAreInOrder == Spec => []LinesInOrder
<1>1. Init => LinesInOrder
  <2> SUFFICES ASSUME Init, file \in KeyFiles PROVE LinesInOrder
    BY DEF LinesInOrder
  <2>1. counts \in Snapshots[file] /\ due = 1 /\ outcome = "reading"
    BY DEF Init
  <2>2. \A k \in DOMAIN Keys(file) : ~(k < 1)
    BY KeysHaveALength
  <2> QED
    BY <2>1, <2>2 DEF LinesInOrder
<1>2. KeysInv => KeysTypeOK
  BY DEF KeysInv
<1> QED
  BY <1>1, <1>2, LinesInOrderStep, KeysInvariant, ParsersAreTyped, PTL DEF Spec

(* A number of kilobytes whose bytes fit an integer is not wrapped, and    *)
(* what is no larger fits too.                                             *)
LEMMA BytesAreExact ==
    ASSUME NEW n \in Nat, n * Kb < Modulus, NEW m \in Nat, m <= n
    PROVE  /\ Bytes(n) = n * Kb /\ Bytes(m) = m * Kb
           /\ Bytes(m) <= Bytes(n)
           /\ m * Kb < Modulus /\ m < Modulus
<1>1. Kb \in Nat \ {0} /\ Modulus \in Nat \ {0}
  BY LimitsAssumption
<1>2. m * Kb <= n * Kb /\ m <= m * Kb /\ m * Kb \in Nat /\ n * Kb \in Nat
  BY <1>1
<1>3. m * Kb < Modulus /\ m < Modulus
  BY <1>1, <1>2
<1>4. ASSUME NEW k \in Nat, k < Modulus PROVE k % Modulus = k
  BY <1>1, <1>4
<1>5. Bytes(n) = n * Kb /\ Bytes(m) = m * Kb
  BY <1>2, <1>3, <1>4 DEF Bytes, Wrapped
<1> QED
  BY <1>2, <1>3, <1>5

(* A file without a wrong line, once parsed, holds what the kernel counts. *)
LEMMA FieldsAreTheCounts ==
    ASSUME LinesInOrder, KeysTypeOK, file \in KeyFiles, faults = 0, outcome = "ok"
    PROVE  /\ counts \in [KeySet(file) -> Nat] /\ KernelOrder(file, counts)
           /\ \A key \in KeySet(file) : fields[key] = counts[key]
<1>1. counts \in [KeySet(file) -> Nat] /\ KernelOrder(file, counts)
  BY SnapshotsAssumption DEF LinesInOrder
<1>2. \A k \in DOMAIN Keys(file) : k < due
  BY KeysHaveALength DEF LinesInOrder, KeysTypeOK
<1>3. \A k \in DOMAIN Keys(file) : fields[Keys(file)[k]] = counts[Keys(file)[k]]
  BY <1>2 DEF LinesInOrder
<1> QED
  BY <1>1, <1>3 DEF KeySet

LEMMA MeminfoFits ==
    ASSUME LinesInOrder, KeysTypeOK, faults = 0, outcome = "ok", file = "meminfo"
    PROVE  /\ Bytes(fields.MemFree) <= Bytes(fields.MemTotal)
           /\ Bytes(fields.SwapFree) <= Bytes(fields.SwapTotal)
           /\ HugeBytes(fields.HugePages_Free) <= HugeBytes(fields.HugePages_Total)
           /\ HugeBytes(fields.HugePages_Total) <= Bytes(fields.MemTotal)
<1>1. {"MemTotal", "MemFree", "SwapTotal", "SwapFree", "HugePages_Total", "HugePages_Free",
       "Hugepagesize"} \subseteq KeySet(file)
  <2>1. /\ {1, 2, 4, 5, 6, 7, 8} \subseteq DOMAIN Keys(file)
        /\ Keys(file)[1] = "MemTotal" /\ Keys(file)[2] = "MemFree"
        /\ Keys(file)[4] = "SwapTotal" /\ Keys(file)[5] = "SwapFree"
        /\ Keys(file)[6] = "HugePages_Total" /\ Keys(file)[7] = "HugePages_Free"
        /\ Keys(file)[8] = "Hugepagesize"
    BY DEF Keys
  <2> QED
    BY <2>1 DEF KeySet
<1>2. /\ counts \in [KeySet(file) -> Nat] /\ KernelOrder(file, counts)
      /\ \A key \in KeySet(file) : fields[key] = counts[key]
  BY FieldsAreTheCounts DEF KeyFiles
<1> DEFINE total == fields.MemTotal
           huge == fields.HugePages_Total * fields.Hugepagesize
           free == fields.HugePages_Free * fields.Hugepagesize
<1>3. /\ total \in Nat /\ fields.MemFree \in Nat /\ fields.SwapTotal \in Nat
      /\ fields.SwapFree \in Nat /\ fields.HugePages_Total \in Nat
      /\ fields.HugePages_Free \in Nat /\ fields.Hugepagesize \in Nat
  BY <1>1, <1>2
<1>4. /\ total * Kb < Modulus /\ fields.MemFree <= total
      /\ fields.SwapTotal * Kb < Modulus /\ fields.SwapFree <= fields.SwapTotal
      /\ fields.HugePages_Free <= fields.HugePages_Total /\ huge <= total
  BY <1>1, <1>2 DEF KernelOrder
<1>5. huge \in Nat /\ free \in Nat /\ free <= huge
  BY <1>3, <1>4
<1>6. free <= total
  BY <1>3, <1>4, <1>5
<1> HIDE DEF total, huge, free
<1>7. /\ huge < Modulus /\ free < Modulus /\ huge * Kb < Modulus
      /\ Bytes(huge) <= Bytes(total) /\ Bytes(free) <= Bytes(huge)
  <2>1. huge * Kb < Modulus /\ huge < Modulus /\ Bytes(huge) <= Bytes(total)
    BY <1>3, <1>4, <1>5, BytesAreExact
  <2>2. free < Modulus /\ Bytes(free) <= Bytes(huge)
    BY <1>5, <2>1, BytesAreExact
  <2> QED
    BY <2>1, <2>2
<1>8. Wrapped(huge) = huge /\ Wrapped(free) = free
  BY <1>5, <1>7, LimitsAssumption DEF Wrapped
<1>9. HugeBytes(fields.HugePages_Total) = Bytes(huge) /\ HugeBytes(fields.HugePages_Free) = Bytes(free)
  BY <1>8 DEF HugeBytes, huge, free
<1>10. /\ Bytes(fields.MemFree) <= Bytes(total)
       /\ Bytes(fields.SwapFree) <= Bytes(fields.SwapTotal)
  BY <1>3, <1>4, BytesAreExact
<1> QED
  BY <1>7, <1>9, <1>10 DEF total

LEMMA StatusFits ==
    ASSUME LinesInOrder, KeysTypeOK, faults = 0, outcome = "ok", file = "status"
    PROVE  Bytes(SharedKb) <= Bytes(fields.VmRSS) /\ Bytes(fields.VmRSS) <= Bytes(fields.VmHWM)
<1>1. {"VmHWM", "VmRSS", "RssAnon", "RssFile", "RssShmem"} \subseteq KeySet(file)
  <2>1. /\ {5, 6, 7, 8, 9} \subseteq DOMAIN Keys(file)
        /\ Keys(file)[5] = "VmHWM" /\ Keys(file)[6] = "VmRSS" /\ Keys(file)[7] = "RssAnon"
        /\ Keys(file)[8] = "RssFile" /\ Keys(file)[9] = "RssShmem"
    BY DEF Keys
  <2> QED
    BY <2>1 DEF KeySet
<1>2. /\ counts \in [KeySet(file) -> Nat] /\ KernelOrder(file, counts)
      /\ \A key \in KeySet(file) : fields[key] = counts[key]
  BY FieldsAreTheCounts DEF KeyFiles
<1> DEFINE hwm == fields.VmHWM
           rss == fields.VmRSS
           shared == fields.RssFile + fields.RssShmem
<1>3. hwm \in Nat /\ rss \in Nat /\ shared \in Nat
  BY <1>1, <1>2
<1>4. hwm * Kb < Modulus /\ rss <= hwm /\ shared <= rss
  BY <1>1, <1>2 DEF KernelOrder
<1> HIDE DEF hwm, rss, shared
<1>5. rss * Kb < Modulus /\ Bytes(rss) <= Bytes(hwm)
  BY <1>3, <1>4, BytesAreExact
<1>6. shared < Modulus /\ Bytes(shared) <= Bytes(rss)
  BY <1>3, <1>4, <1>5, BytesAreExact
<1>7. SharedKb = shared
  BY <1>6 DEF SharedKb, shared
<1> QED
  BY <1>5, <1>6, <1>7 DEF hwm, rss

(* In bytes, too, no part of the memory is larger than the whole: whatever *)
(* the kernel counts, as long as its counters have their order and fit,    *)
(* nothing wraps on the way through the parser and the multiplications.    *)
THEOREM PartsFit == Spec => []PartsFitTheWhole
<1>1. LinesInOrder /\ KeysInv => PartsFitTheWhole
  BY MeminfoFits, StatusFits DEF PartsFitTheWhole, KeysInv
<1> QED
  BY <1>1, LinesAreInOrder, KeysInvariant, PTL

(***************************************************************************)
(* The command in stat                                                     *)
(***************************************************************************)

(* What stands before the last closing parenthesis has no part in the      *)
(* times, whatever and however long it is.                                 *)
THEOREM CommHasNoPartInTimes ==
    ASSUME NEW Token, NEW comm \in Seq(Token), NEW rest \in Seq(Token),
           Close \in Token, \A k \in DOMAIN rest : rest[k] # Close
    PROVE  Stat(comm \o <<Close>> \o rest) =
               IF Len(rest) >= 13 /\ Parses(rest[12]) /\ Parses(rest[13])
               THEN <<rest[12], rest[13]>> ELSE Malformed
<1> DEFINE tokens == comm \o <<Close>> \o rest
           end == Len(comm) + 1
<1>1. /\ tokens \in Seq(Token) /\ Len(tokens) = end + Len(rest)
      /\ end \in Nat /\ Len(rest) \in Nat /\ DOMAIN tokens = 1..Len(tokens)
      /\ tokens[end] = Close
      /\ \A k \in 1..Len(rest) : tokens[end + k] = rest[k]
  OBVIOUS
<1> HIDE DEF tokens, end
<1>2. end \in Closes(tokens) /\ \A j \in Closes(tokens) : j <= end
  <2>1. end \in Closes(tokens)
    BY <1>1 DEF Closes, end
  <2>2. ASSUME NEW j \in Closes(tokens), j > end PROVE FALSE
    <3>1. j - end \in 1..Len(rest) /\ end + (j - end) = j
      BY <1>1, <2>2 DEF Closes
    <3>2. tokens[j] = rest[j - end]
      BY <1>1, <3>1
    <3> QED
      BY <2>2, <3>1, <3>2 DEF Closes
  <2>3. Closes(tokens) \subseteq Nat
    BY <1>1 DEF Closes
  <2> QED
    BY <1>1, <2>1, <2>2, <2>3
<1>3. CommEnd(tokens) = end
  <2>1. Closes(tokens) \subseteq Nat
    BY <1>1 DEF Closes
  <2>2. \A k \in Closes(tokens) : (\A j \in Closes(tokens) : j <= k) => k = end
    BY <1>1, <1>2, <2>1
  <2> QED
    BY <1>2, <2>2 DEF CommEnd
<1>4. Len(tokens) >= end + 13 <=> Len(rest) >= 13
  BY <1>1
<1>5. Len(rest) >= 13 => tokens[end + 12] = rest[12] /\ tokens[end + 13] = rest[13]
  BY <1>1
<1>6. Stat(tokens) = IF Len(rest) >= 13 /\ Parses(rest[12]) /\ Parses(rest[13])
                     THEN <<rest[12], rest[13]>> ELSE Malformed
  BY <1>2, <1>3, <1>4, <1>5 DEF Stat
<1> QED
  BY <1>6 DEF tokens

(* What stands before the state is closed, but for one name, and then with *)
(* no closing parenthesis at all.                                          *)
Token == Nat \union {Malformed, Close}

LEMMA CommsAreClosed ==
    ASSUME NEW comm \in Comms
    PROVE  \/ comm = <<Malformed>>
           \/ \E c \in Seq(Token) : comm = c \o <<Close>>
<1> DEFINE numbers == [k \in 1..14 |-> k]
<1>1. numbers \in Seq(Token) /\ <<Close>> \in Seq(Token) /\ <<Malformed>> \in Seq(Token)
      /\ <<>> \in Seq(Token)
  <2>1. \A k \in 1..14 : numbers[k] \in Token
    BY DEF Token
  <2> QED
    BY <2>1 DEF Token
<1> HIDE DEF numbers
<1>2. <<Close>> \o numbers \in Seq(Token)
  BY <1>1
<1>3. \/ comm = <<Malformed>>
      \/ comm = <<Close>>
      \/ comm = <<Malformed, Close>>
      \/ comm = (<<Close>> \o numbers) \o <<Close>>
      \/ comm = numbers \o <<Close>>
      \/ comm = <<Close, Close>>
  BY DEF Comms, numbers
<1>4. /\ <<Close>> = <<>> \o <<Close>>
      /\ <<Malformed, Close>> = <<Malformed>> \o <<Close>>
      /\ <<Close, Close>> = <<Close>> \o <<Close>>
  OBVIOUS
<1> QED
  BY <1>1, <1>2, <1>3, <1>4

(* The fields behind the command: as written, with at most one spoiled,    *)
(* and cut at any place.                                                   *)
Field == Nat \union {Malformed}

LEMMA FunctionsAreSequences ==
    ASSUME NEW S, NEW n \in Nat, NEW f \in [1..n -> S]
    PROVE  f \in Seq(S) /\ Len(f) = n /\ DOMAIN f = 1..n
  OBVIOUS

LEMMA SequencesAreFunctions ==
    ASSUME NEW S, NEW s \in Seq(S)
    PROVE  s \in [1..Len(s) -> S]
  OBVIOUS

LEMMA PrefixOfSequence ==
    ASSUME NEW S, NEW s \in Seq(S), NEW n \in 0..Len(s)
    PROVE  /\ SubSeq(s, 1, n) \in Seq(S) /\ Len(SubSeq(s, 1, n)) = n
           /\ \A k \in 1..n : SubSeq(s, 1, n)[k] = s[k]
<1>1. \A k \in 1..n : s[k] \in S /\ 1 + k - 1 = k
  OBVIOUS
<1> QED
  BY <1>1, SubSeqProperties

LEMMA StatFieldsAre ==
    /\ StatFields \in Seq(Field) /\ Len(StatFields) = 14
    /\ StatFields[12] = UserTime /\ StatFields[13] = SystemTime
<1> DEFINE numbers == [k \in 1..13 |-> 100 + k]
<1>1. numbers \in [1..13 -> Field] /\ numbers[11] = UserTime /\ numbers[12] = SystemTime
  BY DEF Field, UserTime, SystemTime
<1>2. <<Malformed>> \in Seq(Field) /\ Len(<<Malformed>>) = 1
  BY DEF Field
<1>3. StatFields = <<Malformed>> \o numbers
  BY DEF StatFields
<1> HIDE DEF numbers
<1>4. numbers \in Seq(Field) /\ Len(numbers) = 13
  BY <1>1, FunctionsAreSequences
<1>5. PICK head \in Seq(Field) : head = <<Malformed>>
  BY <1>2
<1>6. /\ head \o numbers \in Seq(Field)
      /\ Len(head \o numbers) = Len(head) + Len(numbers)
      /\ \A i \in 1 .. Len(head) + Len(numbers) :
             (head \o numbers)[i] = IF i <= Len(head) THEN head[i] ELSE numbers[i - Len(head)]
  BY <1>4, ConcatProperties
<1>7. Len(head) = 1
  BY <1>2, <1>5
<1>8. (head \o numbers)[12] = numbers[11] /\ (head \o numbers)[13] = numbers[12]
  <2>1. /\ 12 \in 1 .. Len(head) + Len(numbers) /\ 13 \in 1 .. Len(head) + Len(numbers)
        /\ ~(12 <= Len(head)) /\ ~(13 <= Len(head))
    BY <1>4, <1>7
  <2>2. /\ (head \o numbers)[12] = numbers[12 - Len(head)]
        /\ (head \o numbers)[13] = numbers[13 - Len(head)]
    BY <1>6, <2>1
  <2>3. 12 - Len(head) = 11 /\ 13 - Len(head) = 12
    BY <1>7
  <2> QED
    BY <2>2, <2>3
<1> QED
  BY <1>1, <1>3, <1>4, <1>5, <1>6, <1>7, <1>8

LEMMA SpoiledFieldsAre ==
    ASSUME NEW t \in Spoil(StatFields)
    PROVE  /\ t \in Seq(Field) /\ Len(t) = 14
           /\ t[12] \in {UserTime, Malformed} /\ t[13] \in {SystemTime, Malformed}
<1>1. Malformed \in Field
  BY DEF Field
<1>2. /\ StatFields \in [1..14 -> Field]
      /\ StatFields[12] = UserTime /\ StatFields[13] = SystemTime
  <2>1. /\ StatFields \in Seq(Field) /\ Len(StatFields) = 14
        /\ StatFields[12] = UserTime /\ StatFields[13] = SystemTime
    BY StatFieldsAre
  <2>2. StatFields \in [1..Len(StatFields) -> Field]
    BY <2>1, SequencesAreFunctions
  <2> QED
    BY <2>1, <2>2
<1>3. CASE t = StatFields
  BY <1>3, StatFieldsAre
<1>4. ASSUME NEW k \in DOMAIN StatFields, t = [StatFields EXCEPT ![k] = Malformed]
      PROVE  /\ t \in Seq(Field) /\ Len(t) = 14
             /\ t[12] \in {UserTime, Malformed} /\ t[13] \in {SystemTime, Malformed}
  <2>1. t \in [1..14 -> Field]
    BY <1>1, <1>2, <1>4
  <2>2. t[12] \in {StatFields[12], Malformed} /\ t[13] \in {StatFields[13], Malformed}
    BY <1>2, <1>4
  <2>3. t \in Seq(Field) /\ Len(t) = 14
    BY <2>1, FunctionsAreSequences
  <2> QED
    BY <1>2, <2>2, <2>3
<1> QED
  BY <1>3, <1>4 DEF Spoil

LEMMA FieldsBehindComm ==
    ASSUME NEW fs \in UNION {Cut(t) : t \in Spoil(StatFields)}
    PROVE  /\ fs \in Seq(Token)
           /\ \A k \in DOMAIN fs : fs[k] # Close
           /\ Len(fs) >= 13 => /\ Parses(fs[12]) => fs[12] = UserTime
                               /\ Parses(fs[13]) => fs[13] = SystemTime
<1>1. PICK t \in Spoil(StatFields) : fs \in Cut(t)
  OBVIOUS
<1>2. /\ t \in Seq(Field) /\ Len(t) = 14
      /\ t[12] \in {UserTime, Malformed} /\ t[13] \in {SystemTime, Malformed}
  BY SpoiledFieldsAre
<1>3. PICK n \in 0..Len(t) : fs = SubSeq(t, 1, n)
  BY <1>1 DEF Cut
<1>4. fs \in Seq(Field) /\ Len(fs) = n /\ \A k \in 1..n : fs[k] = t[k]
  BY <1>2, <1>3, PrefixOfSequence
<1>5. \A k \in DOMAIN fs : fs[k] \in Field
  BY <1>4
<1>6. fs \in Seq(Token)
  <2>1. Field \subseteq Token
    BY DEF Field, Token
  <2> QED
    BY <1>4, <2>1
<1>7. \A k \in DOMAIN fs : fs[k] # Close
  BY <1>5, TokensAssumption DEF Field
<1>8. Len(fs) >= 13 => fs[12] = t[12] /\ fs[13] = t[13]
  BY <1>2, <1>4
<1> QED
  BY <1>2, <1>6, <1>7, <1>8, TokensAssumption DEF Parses

LEMMA TimesAreRead ==
    ASSUME NEW comm \in Comms, NEW fs \in UNION {Cut(t) : t \in Spoil(StatFields)}
    PROVE  Stat(<<1>> \o comm \o fs) \in {Malformed, <<UserTime, SystemTime>>}
<1>1. /\ fs \in Seq(Token) /\ \A k \in DOMAIN fs : fs[k] # Close
      /\ Len(fs) >= 13 => /\ Parses(fs[12]) => fs[12] = UserTime
                          /\ Parses(fs[13]) => fs[13] = SystemTime
  BY FieldsBehindComm
<1>2. CASE comm = <<Malformed>>
  <2> DEFINE tokens == <<1>> \o comm \o fs
  <2>1. PICK head : head = <<1>> \o comm
    OBVIOUS
  <2>2. /\ <<1>> \in Seq(Token) /\ Len(<<1>>) = 1 /\ <<1>>[1] # Close
        /\ comm \in Seq(Token) /\ Len(comm) = 1 /\ comm[1] # Close
    BY <1>2, TokensAssumption DEF Token
  <2>3. /\ head \in Seq(Token) /\ Len(head) = 2
        /\ \A k \in 1..2 : head[k] # Close
    <3>1. PICK pid \in Seq(Token) : pid = <<1>>
      BY <2>2
    <3>2. /\ pid \o comm \in Seq(Token)
          /\ Len(pid \o comm) = Len(pid) + Len(comm)
          /\ \A i \in 1 .. Len(pid) + Len(comm) :
                 (pid \o comm)[i] = IF i <= Len(pid) THEN pid[i] ELSE comm[i - Len(pid)]
      BY <2>2, ConcatProperties
    <3>3. Len(pid) = 1 /\ pid[1] # Close
      BY <2>2, <3>1
    <3>4. (pid \o comm)[1] # Close /\ (pid \o comm)[2] # Close
      BY <2>2, <3>2, <3>3
    <3> QED
      BY <2>1, <2>2, <3>1, <3>2, <3>3, <3>4
  <2>4. ASSUME NEW k \in DOMAIN (head \o fs) PROVE (head \o fs)[k] # Close
    <3>1. /\ head \o fs \in Seq(Token)
          /\ Len(head \o fs) = Len(head) + Len(fs)
          /\ \A i \in 1 .. Len(head) + Len(fs) :
                 (head \o fs)[i] = IF i <= Len(head) THEN head[i] ELSE fs[i - Len(head)]
      BY <1>1, <2>3, ConcatProperties
    <3>2. DOMAIN (head \o fs) = 1 .. 2 + Len(fs) /\ DOMAIN fs = 1..Len(fs) /\ Len(fs) \in Nat
      BY <1>1, <2>3, <3>1
    <3> QED
      BY <1>1, <2>3, <3>1, <3>2
  <2>5. Closes(tokens) = {}
    BY <2>1, <2>4 DEF Closes
  <2> QED
    BY <2>5 DEF Stat
<1>3. ASSUME NEW c \in Seq(Token), comm = c \o <<Close>>
      PROVE  Stat(<<1>> \o comm \o fs) \in {Malformed, <<UserTime, SystemTime>>}
  <2>1. Close \in Token /\ <<1>> \in Seq(Token) /\ <<Close>> \in Seq(Token)
    BY DEF Token
  <2>2. <<1>> \o c \in Seq(Token)
    BY <2>1
  <2>3. <<1>> \o comm \o fs = (<<1>> \o c) \o <<Close>> \o fs
    BY <1>3, <2>1, ConcatAssociative
  <2>4. Stat(<<1>> \o comm \o fs) =
            IF Len(fs) >= 13 /\ Parses(fs[12]) /\ Parses(fs[13])
            THEN <<fs[12], fs[13]>> ELSE Malformed
    BY <1>1, <2>1, <2>2, <2>3, CommHasNoPartInTimes
  <2> QED
    BY <1>1, <2>4
<1> QED
  BY <1>2, <1>3, CommsAreClosed

(* The times of a process are its utime and stime whatever its command is  *)
(* called and wherever the line is cut or spoiled.                         *)
THEOREM TimesAreNotForged == Spec => []CommCannotForgeTimes
<1>1. Init => CommCannotForgeTimes
  BY DEF Init, CommCannotForgeTimes
<1>2. CommCannotForgeTimes /\ [Next]_vars => CommCannotForgeTimes'
  <2> SUFFICES ASSUME CommCannotForgeTimes, [Next]_vars PROVE CommCannotForgeTimes'
    OBVIOUS
  <2>1. CASE ParseContent
    <3> SUFFICES ASSUME file = "stat", outcome' = "ok" PROVE fields' = <<UserTime, SystemTime>>
      BY <2>1 DEF ParseContent, kernelVars, CommCannotForgeTimes
    <3>1. PICK tokens \in Contents : /\ Parsed(tokens) # Malformed
                                     /\ fields' = Parsed(tokens)
      BY <2>1 DEF ParseContent
    <3>2. PICK comm \in Comms, fs \in UNION {Cut(t) : t \in Spoil(StatFields)} :
              tokens = <<1>> \o comm \o fs
      BY <3>1 DEF Contents
    <3>3. Parsed(tokens) = Stat(tokens)
      BY DEF Parsed
    <3> QED
      BY <3>1, <3>2, <3>3, TimesAreRead
  <2>2. CASE WrittenLine \/ SpoiledLine \/ OmittedLine \/ StrayLine \/ KeysEnd
    BY <2>2 DEF WrittenLine, SpoiledLine, OmittedLine, StrayLine, KeysEnd, kernelVars,
        KeyFiles, CommCannotForgeTimes
  <2>3. CASE ParseRow \/ RowsEnd
    BY <2>3 DEF ParseRow, RowsEnd, kernelVars, RowFiles, CommCannotForgeTimes
  <2>4. CASE CannotRead \/ UNCHANGED vars
    BY <2>4 DEF CannotRead, vars, kernelVars, CommCannotForgeTimes
  <2> QED
    BY <2>1, <2>2, <2>3, <2>4 DEF Next
<1> QED
  BY <1>1, <1>2, PTL DEF Spec
=============================================================================
