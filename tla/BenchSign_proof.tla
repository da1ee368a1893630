-------------------------- MODULE BenchSign_proof --------------------------
(***************************************************************************)
(* Proofs about BenchSign, for any number of units of each kind, any lists *)
(* of binaries and any number of edits, scripts and benchmarks.            *)
(***************************************************************************)
EXTENDS BenchSignInv, TLAPS

LEMMA Initially == Init => IInv
<1> SUFFICES ASSUME Init PROVE IInv
  OBVIOUS
<1> USE BoundsAssumption, UnitsAssumption, ResultsAssumption DEF Init
<1>1. src \in [Units -> Revision] /\ read \in Revision BY DEF Revision
<1>7. TypeOK
  <2>1. /\ clock \in 0 .. MaxEdits /\ scripts \in 0 .. MaxScripts /\ benches \in 0 .. MaxBenches
        /\ unit \in 0 .. NUnits /\ todo \in SUBSET Binaries /\ list \in Nat /\ pair \in Nat
        /\ obj_newer \subseteq Units /\ bin_newer \subseteq Binaries
        /\ saved \in [Units -> 0 .. MaxEdits]
    OBVIOUS
  <2>2. started \in [Units -> Revision] BY <1>1
  <2>3. /\ obj \in [Units -> Revision \union {Absent}]
        /\ bin \in [Binaries -> Revision \union {Absent}]
        /\ benchmarks \in [Binaries -> Revision \union {Unmeasured}]
    OBVIOUS
  <2> QED BY <1>1, <2>1, <2>2, <2>3 DEF TypeOK
<1>2. StageInv /\ SourcesInv BY DEF StageInv, SourcesInv, Units
<1>8. DateInv
  <2>1. ReadInv /\ SavedInv /\ ObjectInv BY DEF ReadInv, SavedInv, ObjectInv, Making, AtWork
  <2>2. ObjectDates /\ ReadDates /\ BinaryDates BY DEF ObjectDates, ReadDates, BinaryDates
  <2> QED BY <2>1, <2>2 DEF DateInv
<1>3. CompileInv /\ NeverStale /\ CleanInv BY DEF CompileInv, NeverStale, CleanInv
<1>4. PositionInv BY DEF PositionInv
<1>5. QuietInv /\ ListInv BY DEF QuietInv, ListInv, Benching, AtWork, CrashOnlyIfDisturbed
<1>6. RankInv /\ ShellInv BY DEF RankInv, ShellInv
<1> QED BY <1>2, <1>3, <1>4, <1>5, <1>6, <1>7, <1>8 DEF IInv

-----------------------------------------------------------------------------
(* What the two halves of the tool leave alone *)

BenchAction == BenchStep \/ StartBench \/ Quit
ScriptAction ==
  ScriptStep \/ Edit \/ StartScript \/ AnswerYes \/ AnswerNo \/ Interrupt

\* A benchmark changes nothing a script looks at.
LEMMA BenchFrame == BenchAction => UNCHANGED <<clock, src, obj, bin, dates, script>>
BY DEF BenchAction, BenchStep, Found, NotFound, RunPair, RunNothing, ListDone, OrderedList,
       ShellPair, ShellDone, StartBench, Quit

\* A script leaves the benchmark alone, but for the binaries under it.
LEMMA ScriptFrame == ScriptAction => UNCHANGED runner
BY DEF ScriptAction, ScriptStep, EnterUnit, RemoveFail, KeepObject, StartCompile, WriteObject,
       Link, LinkFailureIgnored, Fail, UnitDone, CleanUnit, CleanFail, AllDone, Edit,
       StartScript, AnswerYes, AnswerNo, Interrupt

\* If it gets a benchmark to see other binaries, it disturbs it.
LEMMA ScriptDisturbs ==
  ASSUME ScriptAction, StageInv, QuietInv, ~disturbed', disturbed \in BOOLEAN
  PROVE  /\ ~disturbed
         /\ Benching => bin' = bin /\ ~AtWork'
<1> USE DEF Touches, Exit, Abort, QuietInv, StageInv, AtWork
<1>1. CASE Edit \/ StartScript \/ AnswerNo
  BY <1>1 DEF Edit, StartScript, AnswerNo, script
<1>2. CASE AnswerYes BY <1>2 DEF AnswerYes
<1>3. CASE Interrupt
  <2>1. CASE stage = "asking" BY <1>3, <2>1 DEF Interrupt, Making
  <2>2. CASE stage # "asking" BY <1>3, <2>2 DEF Interrupt
  <2> QED BY <2>1, <2>2
<1>4. CASE EnterUnit \/ RemoveFail \/ Link \/ LinkFailureIgnored \/ Fail \/ CleanUnit
             \/ CleanFail
  BY <1>4 DEF EnterUnit, RemoveFail, Link, LinkFailureIgnored, Fail, CleanUnit, CleanFail
<1>5. CASE UnitDone \/ AllDone BY <1>5 DEF UnitDone, AllDone, Making
<1>6. CASE KeepObject \/ StartCompile \/ WriteObject
  BY <1>6 DEF KeepObject, StartCompile, WriteObject
<1> QED BY <1>1, <1>2, <1>3, <1>4, <1>5, <1>6 DEF ScriptAction, ScriptStep

LEMMA Split == Next <=> BenchAction \/ ScriptAction
BY DEF Next, User, BenchAction, ScriptAction

-----------------------------------------------------------------------------
(* The type invariant *)

\* What is compiled now is from sources of now, or of when make was started.
LEMMA FreshRange ==
  ASSUME TypeOK, ReadInv, Making, unit \in Units, NEW r \in Fresh(unit)
  PROVE  /\ r \in Revision
         /\ r.code >= started[unit].code /\ r.header >= started[unit].header
BY BoundsAssumption DEF TypeOK, ReadInv, Fresh, Revision

LEMMA WithoutType ==
  ASSUME TypeOK, NEW gone PROVE Without(gone) \in [Binaries -> Revision \union {Absent}]
BY DEF TypeOK, Without

LEMMA StopMakeType ==
  ASSUME TypeOK, StopMake
  PROVE  /\ bin' \in [Binaries -> Revision \union {Absent}]
         /\ obj' \in [Units -> Revision \union {Absent}]
<1>1. bin' \in [Binaries -> Revision \union {Absent}] BY WithoutType DEF StopMake
<1>2. obj' \in [Units -> Revision \union {Absent}] BY DEF StopMake, TypeOK
<1> QED BY <1>1, <1>2

\* An object and a binary are of some revision.
LEMMA WriteObjectType ==
  ASSUME TypeOK, StageInv, ReadInv, WriteObject
  PROVE  obj' \in [Units -> Revision \union {Absent}]
<1>1. unit \in Units BY DEF WriteObject, StageInv
<1>2. PICK h \in read.header .. src[unit].header :
        obj' = [obj EXCEPT ![unit] = [code |-> read.code, header |-> h]]
  BY DEF WriteObject
<1>3. [code |-> read.code, header |-> h] \in Revision
  <2>1. read \in Revision /\ src[unit] \in Revision BY <1>1 DEF TypeOK
  <2> QED BY <2>1, BoundsAssumption DEF Revision
<1> QED BY <1>1, <1>2, <1>3 DEF TypeOK

LEMMA LinkType ==
  ASSUME TypeOK, StageInv, ReadInv, ObjectInv, Link
  PROVE  bin' \in [Binaries -> Revision \union {Absent}] /\ bin_newer' \subseteq Binaries
<1>1. unit \in Units /\ Making /\ stage = "make" /\ todo \subseteq Binaries
  BY DEF Link, StageInv, TypeOK
<1>2. CASE unit \in ByDates
  <2>1. obj[unit] \in Revision BY <1>1, <1>2 DEF ObjectInv, TypeOK
  <2> QED BY <1>1, <1>2, <2>1 DEF Link, TypeOK
<1>3. CASE unit \notin ByDates BY <1>1, <1>3, FreshRange DEF Link, TypeOK
<1> QED BY <1>2, <1>3

LEMMA TypeBench ==
  ASSUME TypeOK, PositionInv, QuietInv, BenchAction PROVE TypeOK'
<1>1. UNCHANGED <<clock, src, obj, bin, dates, script>> BY BenchFrame
<1>2. /\ benches' \in 0 .. MaxBenches /\ list' \in Nat /\ pair' \in Nat
      /\ in_dir' \in BOOLEAN
      /\ bench' \in {"none", "exists", "run", "shell", "printed", "crashed", "shell_printed"}
  BY BoundsAssumption
  DEF BenchAction, BenchStep, Found, NotFound, RunPair, RunNothing, ListDone, OrderedList,
      ShellPair, ShellDone, StartBench, Quit, NextList, NextPair, TypeOK
<1>4. disturbed' \in BOOLEAN
  <2>1. CASE StartBench
    <3>1. disturbed' = AtWork BY <2>1 DEF StartBench
    <3>2. AtWork \in BOOLEAN BY DEF AtWork
    <3> QED BY ONLY <3>1, <3>2
  <2>2. CASE BenchAction /\ ~StartBench
    BY <2>2 DEF BenchAction, BenchStep, Found, NotFound, RunPair, RunNothing, ListDone,
                OrderedList, ShellPair, ShellDone, Quit, TypeOK
  <2> QED BY <2>1, <2>2
<1>3. benchmarks' \in [Binaries -> Revision \union {Unmeasured}]
  <2>1. CASE RunPair
    <3>1. Lists[list][pair] \in Binaries
      BY <2>1, ListsAssumption DEF RunPair, PositionInv, PairLeft
    <3> QED BY <2>1, <3>1 DEF RunPair, Measure, TypeOK
  <2>2. CASE ShellPair
    <3>1. ShellOrder[pair] \in Binaries
      BY <2>2, ListsAssumption DEF ShellPair, PositionInv
    <3> QED BY <2>2, <3>1 DEF ShellPair, Measure, Exists, TypeOK
  <2>3. CASE StartBench BY <2>3 DEF StartBench
  <2>4. CASE BenchAction /\ ~RunPair /\ ~ShellPair /\ ~StartBench
    BY <2>4 DEF BenchAction, BenchStep, Found, NotFound, RunNothing, ListDone, OrderedList,
                ShellDone, Quit, TypeOK
  <2> QED BY <2>1, <2>2, <2>3, <2>4
<1> QED BY <1>1, <1>2, <1>3, <1>4 DEF TypeOK, script, dates

\* The user saves a file: there is one edit more, of one unit.
LEMMA EditRange ==
  ASSUME TypeOK, SourcesInv, Edit
  PROVE  /\ clock' = clock + 1 /\ clock' \in 0 .. MaxEdits /\ src' \in [Units -> Revision]
         /\ \A u \in Units : src[u].code <= src'[u].code /\ src'[u].code <= clock + 1
         /\ \A u \in Units : src[u].header <= src'[u].header /\ src'[u].header <= clock + 1
<1>1. clock \in Nat /\ clock < MaxEdits /\ clock' = clock + 1
  BY BoundsAssumption DEF Edit, TypeOK
<1>2. PICK e \in Units : EditCode(e) \/ EditHeader(e) BY DEF Edit
<1>3. /\ src \in [Units -> Revision]
      /\ \A u \in Units : src[u].code \in 0 .. clock /\ src[u].header \in 0 .. clock
  BY BoundsAssumption DEF TypeOK, SourcesInv, Revision
<1>4. ASSUME NEW u \in Units
      PROVE  /\ src'[u] = [code |-> src'[u].code, header |-> src'[u].header]
             /\ \/ src'[u].code = src[u].code /\ src'[u].header = src[u].header
                \/ src'[u].code = src[u].code + 1 /\ src'[u].header = src[u].header
                \/ src'[u].code = src[u].code /\ src'[u].header = src[u].header + 1
  <2>1. src[u] = [code |-> src[u].code, header |-> src[u].header] BY <1>3 DEF Revision
  <2>2. src'[u] \in {src[u], [src[u] EXCEPT !.code = @ + 1], [src[u] EXCEPT !.header = @ + 1]}
    BY <1>2, <1>3 DEF EditCode, EditHeader
  <2> QED BY <2>1, <2>2
<1>5. ASSUME NEW u \in Units
      PROVE  src'[u].code \in 0 .. clock + 1 /\ src'[u].header \in 0 .. clock + 1
  <2>1. src[u].code \in 0 .. clock /\ src[u].header \in 0 .. clock BY <1>3
  <2>2. \/ src'[u].code = src[u].code /\ src'[u].header = src[u].header
        \/ src'[u].code = src[u].code + 1 /\ src'[u].header = src[u].header
        \/ src'[u].code = src[u].code /\ src'[u].header = src[u].header + 1
    BY <1>4
  <2> QED BY <1>1, <2>1, <2>2
<1>6. src' \in [Units -> Revision]
  <2>1. DOMAIN src' = Units /\ src' = [u \in Units |-> src'[u]]
    BY <1>2, <1>3 DEF EditCode, EditHeader
  <2>2. ASSUME NEW u \in Units PROVE src'[u] \in Revision
    <3>1. src'[u].code \in 0 .. MaxEdits /\ src'[u].header \in 0 .. MaxEdits
      BY <1>1, <1>5, BoundsAssumption
    <3>2. src'[u] = [code |-> src'[u].code, header |-> src'[u].header] BY <1>4
    <3> QED BY <3>1, <3>2 DEF Revision
  <2> QED BY <2>1, <2>2
<1> QED BY <1>1, <1>3, <1>4, <1>5, <1>6, BoundsAssumption

LEMMA TypeScript ==
  ASSUME TypeOK, StageInv, SourcesInv, ReadInv, ObjectInv, ScriptAction PROVE TypeOK'
<1>1. /\ benches' = benches /\ bench' = bench /\ list' = list /\ pair' = pair
      /\ in_dir' = in_dir /\ benchmarks' = benchmarks
  BY ScriptFrame DEF runner
<1>2. /\ clock' \in 0 .. MaxEdits /\ src' \in [Units -> Revision]
      /\ started' \in [Units -> Revision]
  <2>1. CASE Edit BY <2>1, EditRange DEF Edit, TypeOK, script
  <2>2. CASE ScriptAction /\ ~Edit
    BY <2>2 DEF ScriptAction, ScriptStep, EnterUnit, RemoveFail, KeepObject, StartCompile,
                WriteObject, Link, LinkFailureIgnored, Fail, UnitDone, CleanUnit, CleanFail,
                AllDone, StartScript, AnswerYes, AnswerNo, Interrupt, TypeOK
  <2> QED BY <2>1, <2>2
<1>3. /\ bin' \in [Binaries -> Revision \union {Absent}]
      /\ obj' \in [Units -> Revision \union {Absent}]
  <2> USE DEF TypeOK
  <2>1. CASE EnterUnit \/ RemoveFail \/ CleanUnit \/ CleanFail \/ LinkFailureIgnored
    <3>1. bin' \in [Binaries -> Revision \union {Absent}]
      <4>1. CASE EnterUnit BY <4>1, WithoutType DEF EnterUnit
      <4>2. CASE RemoveFail BY <4>2, WithoutType DEF RemoveFail
      <4>3. CASE CleanUnit BY <4>3, WithoutType DEF CleanUnit
      <4>4. CASE CleanFail BY <4>4, WithoutType DEF CleanFail
      <4>5. CASE LinkFailureIgnored BY <4>5, WithoutType DEF LinkFailureIgnored
      <4> QED BY <2>1, <4>1, <4>2, <4>3, <4>4, <4>5
    <3>2. obj' = obj \/ obj' = [obj EXCEPT ![unit + 1] = Absent]
      BY <2>1 DEF EnterUnit, RemoveFail, CleanUnit, CleanFail, LinkFailureIgnored
    <3> QED BY <3>1, <3>2
  <2>2. CASE Link BY <2>2, LinkType DEF Link
  <2>6. CASE WriteObject BY <2>6, WriteObjectType DEF WriteObject
  <2>3. CASE Fail BY <2>3, StopMakeType DEF Fail
  <2>4. CASE Interrupt BY <2>4, StopMakeType DEF Interrupt
  <2>5. CASE \/ Edit \/ StartScript \/ AnswerYes \/ AnswerNo \/ UnitDone \/ AllDone
             \/ KeepObject \/ StartCompile
    BY <2>5 DEF Edit, StartScript, AnswerYes, AnswerNo, UnitDone, AllDone, KeepObject,
                StartCompile
  <2> QED BY <2>1, <2>2, <2>3, <2>4, <2>5, <2>6 DEF ScriptAction, ScriptStep
<1>8. /\ obj_newer' \subseteq Units /\ bin_newer' \subseteq Binaries
      /\ saved' \in [Units -> 0 .. MaxEdits] /\ read' \in Revision
  <2> USE DEF TypeOK
  <2>1. CASE Edit
    <3>1. PICK e \in Units : EditCode(e) \/ EditHeader(e) BY <2>1 DEF Edit
    <3>2. read' = read /\ 0 \in 0 .. MaxEdits BY <2>1, BoundsAssumption DEF Edit, script
    <3>3. CASE EditHeader(e) BY <3>2, <3>3 DEF EditHeader, dates
    <3>4. CASE EditCode(e)
      <4>1. src[e].code + 1 \in 0 .. MaxEdits
        BY <2>1, BoundsAssumption DEF Edit, SourcesInv, Revision
      <4> QED BY <3>2, <3>4, <4>1 DEF EditCode
    <3> QED BY <3>1, <3>3, <3>4
  <2>2. CASE EnterUnit
    <3>1. unit + 1 \in Units BY <2>2, BoundsAssumption DEF EnterUnit, Units
    <3> QED BY <2>2, <3>1 DEF EnterUnit, dates
  <2>3. CASE StartCompile
    <3>1. unit \in Units BY <2>3 DEF StartCompile, StageInv
    <3> QED BY <2>3, <3>1, BoundsAssumption DEF StartCompile
  <2>4. CASE WriteObject BY <2>4 DEF WriteObject, StageInv
  <2>5. CASE Link BY <2>5, LinkType DEF Link
  <2>6. CASE ScriptAction /\ ~Edit /\ ~EnterUnit /\ ~StartCompile /\ ~WriteObject /\ ~Link
    BY <2>6 DEF ScriptAction, ScriptStep, RemoveFail, KeepObject, LinkFailureIgnored, Fail,
                UnitDone, CleanUnit, CleanFail, AllDone, StartScript, AnswerYes, AnswerNo,
                Interrupt, dates
  <2> QED BY <2>1, <2>2, <2>3, <2>4, <2>5, <2>6
<1>4. /\ scripts' \in 0 .. MaxScripts
      /\ job' \in {"none", "compile", "clean"}
      /\ stage' \in {"none", "asking", "next", "check", "compile", "make"}
      /\ message' \in {"none", "compile_aborted", "clean_aborted", "compiled", "removed"}
  BY BoundsAssumption
  DEF ScriptAction, ScriptStep, EnterUnit, RemoveFail, KeepObject, StartCompile, WriteObject,
      Link, LinkFailureIgnored, Fail, UnitDone, Exit, Abort, CleanUnit, CleanFail, AllDone,
      Edit, StartScript, AnswerYes, AnswerNo, Interrupt, TypeOK, script
<1>5. unit' \in 0 .. NUnits
  BY BoundsAssumption
  DEF ScriptAction, ScriptStep, EnterUnit, RemoveFail, KeepObject, StartCompile, WriteObject,
      Link, LinkFailureIgnored, Fail, UnitDone, CleanUnit, CleanFail, AllDone, Edit,
      StartScript, AnswerYes, AnswerNo, Interrupt, TypeOK, script
<1>6. todo' \in SUBSET Binaries
  <2>1. CASE EnterUnit
    <3>1. unit + 1 \in Units BY <2>1, BoundsAssumption DEF EnterUnit, TypeOK, Units
    <3> QED BY <2>1, <3>1, UnitsAssumption DEF EnterUnit
  <2>2. CASE KeepObject
    <3>1. unit \in Units BY <2>2 DEF KeepObject, StageInv
    <3> QED BY <2>2, <3>1, UnitsAssumption DEF KeepObject, OutOfDate
  <2>3. CASE ScriptAction /\ ~EnterUnit /\ ~KeepObject
    BY <2>3 DEF ScriptAction, ScriptStep, RemoveFail, StartCompile, WriteObject, Link,
                LinkFailureIgnored, Fail, UnitDone, Exit, Abort, CleanUnit, CleanFail, AllDone,
                Edit, StartScript, AnswerYes, AnswerNo, Interrupt, TypeOK, script
  <2> QED BY <2>1, <2>2, <2>3
<1>7. disturbed' \in BOOLEAN
  BY DEF ScriptAction, ScriptStep, EnterUnit, RemoveFail, KeepObject, StartCompile,
         WriteObject, Link, LinkFailureIgnored, Fail, UnitDone, Touches, CleanUnit, CleanFail,
         AllDone, Edit, StartScript, AnswerYes, AnswerNo, Interrupt, TypeOK, Benching
<1> QED BY <1>1, <1>2, <1>3, <1>4, <1>5, <1>6, <1>7, <1>8 DEF TypeOK

-----------------------------------------------------------------------------
(* The scripts *)

LEMMA StageScript ==
  ASSUME TypeOK, StageInv, ScriptAction PROVE StageInv'
<1> USE DEF StageInv, Exit, Abort
<1>1. CASE Edit BY <1>1 DEF Edit, script
<1>2. CASE StartScript BY <1>2 DEF StartScript
<1>3. CASE AnswerYes BY <1>3 DEF AnswerYes
<1>4. CASE AnswerNo BY <1>4 DEF AnswerNo
<1>5. CASE Interrupt
  <2>1. CASE Making /\ Kind[unit] = "manage" BY <1>5, <2>1 DEF Interrupt, Making, ByDates
  <2>2. CASE ~(Making /\ Kind[unit] = "manage") BY <1>5, <2>2 DEF Interrupt
  <2> QED BY <2>1, <2>2
<1>6. CASE EnterUnit
  <2>1. unit + 1 \in Units BY <1>6, BoundsAssumption DEF EnterUnit, TypeOK, Units
  <2> QED BY <1>6, <2>1 DEF EnterUnit
<1>7. CASE Link BY <1>7 DEF Link, Making
<1>8. CASE LinkFailureIgnored BY <1>8 DEF LinkFailureIgnored, Making, ByDates
<1>9. CASE Fail BY <1>9 DEF Fail, Making
<1>10. CASE UnitDone BY <1>10 DEF UnitDone, Making
<1>11. CASE CleanUnit BY <1>11 DEF CleanUnit
<1>12. CASE CleanFail \/ RemoveFail BY <1>12 DEF CleanFail, RemoveFail
<1>13. CASE AllDone BY <1>13 DEF AllDone
<1>14. CASE KeepObject
  <2>1. OutOfDate(unit) \subseteq Bins[unit] BY DEF OutOfDate
  <2> QED BY <1>14, <2>1 DEF KeepObject
<1>15. CASE StartCompile BY <1>15 DEF StartCompile
<1>16. CASE WriteObject BY <1>16 DEF WriteObject
<1> QED
  BY <1>1, <1>2, <1>3, <1>4, <1>5, <1>6, <1>7, <1>8, <1>9, <1>10, <1>11, <1>12, <1>13, <1>14,
     <1>15, <1>16
  DEF ScriptAction, ScriptStep

LEMMA SourcesScript ==
  ASSUME TypeOK, StageInv, SourcesInv, ScriptAction PROVE SourcesInv'
<1>1. CASE Edit
  <2>1. clock' = clock + 1 /\ started' = started BY <1>1 DEF Edit, script
  <2> SUFFICES ASSUME NEW u \in Units
               PROVE  /\ started[u].code <= src'[u].code /\ src'[u].code <= clock + 1
                      /\ started[u].header <= src'[u].header /\ src'[u].header <= clock + 1
                      /\ saved'[u] <= src'[u].code
    BY <2>1 DEF SourcesInv
  <2>2. /\ started[u].code <= src[u].code /\ started[u].header <= src[u].header
        /\ saved[u] <= src[u].code
    BY DEF SourcesInv
  <2>3. /\ src[u].code \in Nat /\ src[u].header \in Nat /\ started[u].code \in Nat
        /\ started[u].header \in Nat /\ saved[u] \in Nat
    BY BoundsAssumption DEF TypeOK, Revision
  <2>4. /\ src'[u].code \in Nat /\ src'[u].header \in Nat
        /\ src[u].code <= src'[u].code /\ src'[u].code <= clock + 1
        /\ src[u].header <= src'[u].header /\ src'[u].header <= clock + 1
    BY <1>1, EditRange, BoundsAssumption DEF Revision
  <2>5. saved'[u] = saved[u] \/ saved'[u] = src'[u].code
    <3>1. PICK e \in Units : EditCode(e) \/ EditHeader(e) BY <1>1 DEF Edit
    <3>2. CASE EditHeader(e) BY <3>2 DEF EditHeader, dates
    <3>3. CASE EditCode(e) /\ e = u BY <3>3 DEF EditCode, TypeOK, Revision
    <3>4. CASE EditCode(e) /\ e # u BY <3>4 DEF EditCode, TypeOK
    <3> QED BY <3>1, <3>2, <3>3, <3>4
  <2> QED BY <2>2, <2>3, <2>4, <2>5
<1>2. CASE AnswerYes
  BY <1>2, BoundsAssumption DEF AnswerYes, SourcesInv, TypeOK, Revision, dates
<1>3. CASE StartCompile
  <2>1. /\ started' = started /\ src' = src /\ clock' = clock
        /\ saved' = [saved EXCEPT ![unit] = 0]
    BY <1>3 DEF StartCompile
  <2> SUFFICES ASSUME NEW u \in Units PROVE saved'[u] <= src[u].code
    BY <2>1 DEF SourcesInv
  <2> QED BY <2>1, BoundsAssumption DEF SourcesInv, TypeOK, Revision
<1>4. CASE ScriptAction /\ ~Edit /\ ~AnswerYes /\ ~StartCompile
  BY <1>4 DEF ScriptAction, ScriptStep, EnterUnit, RemoveFail, KeepObject, WriteObject, Link,
              LinkFailureIgnored, Fail, UnitDone, CleanUnit, CleanFail, AllDone, StartScript,
              AnswerNo, Interrupt, SourcesInv, script, dates
<1> QED BY <1>1, <1>2, <1>3, <1>4

LEMMA CleanScript ==
  ASSUME TypeOK, StageInv, CleanInv, ScriptAction PROVE CleanInv'
<1> USE DEF StageInv, Exit, Abort
<1>1. CASE \/ Edit \/ StartScript \/ AnswerYes \/ AnswerNo \/ UnitDone \/ AllDone
           \/ KeepObject \/ StartCompile \/ WriteObject
  BY <1>1, BoundsAssumption
  DEF CleanInv, Edit, StartScript, AnswerYes, AnswerNo, UnitDone, AllDone, KeepObject,
      StartCompile, WriteObject, script, Making, TypeOK
<1>2. CASE Interrupt BY <1>2 DEF CleanInv, Interrupt, Making
<1>3. CASE EnterUnit \/ RemoveFail \/ Link \/ LinkFailureIgnored \/ Fail \/ CleanFail
  BY <1>3 DEF CleanInv, EnterUnit, RemoveFail, Link, LinkFailureIgnored, Fail, CleanFail, Making
<1>4. CASE CleanUnit
  <2> SUFFICES ASSUME NEW u \in 1 .. unit + 1, NEW b \in Bins[u] PROVE bin'[b] = Absent
    BY <1>4 DEF CleanUnit, CleanInv
  <2>1. u \in Units /\ b \in Binaries
    BY <1>4, UnitsAssumption, BoundsAssumption DEF CleanUnit, TypeOK, Units
  <2>2. u \in 1 .. unit => bin[b] = Absent BY <1>4 DEF CleanUnit, CleanInv
  <2> QED BY <1>4, <2>1, <2>2, BoundsAssumption DEF CleanUnit, Without, TypeOK
<1> QED BY <1>1, <1>2, <1>3, <1>4 DEF ScriptAction, ScriptStep

\* Units hold different binaries.
LEMMA OtherUnit ==
  ASSUME NEW u \in Units, NEW v \in Units, NEW b \in Bins[u], b \in Bins[v]
  PROVE  u = v /\ b \in Binaries
BY UnitsAssumption

LEMMA NeverStaleScript ==
  ASSUME TypeOK, StageInv, ReadInv, NeverStale, ScriptAction PROVE NeverStale'
<1> USE DEF StageInv, Exit, Abort, UpToDate, Current
<1>1. CASE \/ Edit \/ StartScript \/ AnswerYes \/ AnswerNo \/ UnitDone \/ AllDone
           \/ KeepObject \/ StartCompile \/ WriteObject
  BY <1>1, BoundsAssumption
  DEF NeverStale, Edit, StartScript, AnswerYes, AnswerNo, UnitDone, AllDone, KeepObject,
      StartCompile, WriteObject, script, Making, TypeOK
<1>2. CASE CleanUnit \/ CleanFail BY <1>2 DEF NeverStale, CleanUnit, CleanFail
<1>3. CASE EnterUnit
  <2>1. job = "compile" /\ started' = started /\ unit' = unit + 1 BY <1>3 DEF EnterUnit
  <2> SUFFICES ASSUME NEW u \in 1 .. unit + 1, Kind[u] = "rebuild", NEW b \in Bins[u]
               PROVE  bin'[b] = Absent \/ Current(b, u)'
    BY <2>1 DEF NeverStale
  <2>2. u \in Units /\ b \in Binaries
    BY <1>3, UnitsAssumption, BoundsAssumption DEF EnterUnit, TypeOK, Units
  <2>3. CASE u = unit + 1 BY <1>3, <2>2, <2>3 DEF EnterUnit, Without
  <2>4. CASE u # unit + 1
    <3>1. bin[b] = Absent \/ Current(b, u)
      BY <2>1, <2>4, BoundsAssumption DEF NeverStale, TypeOK
    <3> QED BY <1>3, <2>1, <2>2, <3>1 DEF EnterUnit, Without
  <2> QED BY <2>3, <2>4
<1>4. CASE RemoveFail
  <2>1. job = "compile" /\ started' = started /\ unit' = unit BY <1>4 DEF RemoveFail
  <2> SUFFICES ASSUME NEW u \in 1 .. unit, Kind[u] = "rebuild", NEW b \in Bins[u]
               PROVE  bin'[b] = Absent \/ Current(b, u)'
    BY <2>1 DEF NeverStale
  <2>2. b \in Binaries BY UnitsAssumption, BoundsAssumption DEF TypeOK, Units
  <2>3. bin[b] = Absent \/ Current(b, u) BY <2>1 DEF NeverStale
  <2>4. bin'[b] = bin[b] \/ bin'[b] = Absent BY <1>4, <2>2 DEF RemoveFail, Without
  <2> QED BY <2>1, <2>3, <2>4
<1>5. CASE Link \/ LinkFailureIgnored \/ Fail \/ Interrupt
  <2>1. started' = started /\ unit' = unit
    BY <1>5 DEF Link, LinkFailureIgnored, Fail, Interrupt
  <2>2. job # "none" BY <1>5 DEF Link, LinkFailureIgnored, Fail, Interrupt, Making
  <2>3. job = "compile" \/ (job' # "compile" /\ message' \notin {"compiled", "compile_aborted"})
    <3>1. CASE Link \/ LinkFailureIgnored \/ Fail
      BY <3>1 DEF Link, LinkFailureIgnored, Fail, Making
    <3>2. CASE Interrupt BY <3>2, <2>2 DEF Interrupt, Making
    <3> QED BY <1>5, <3>1, <3>2
  <2> SUFFICES ASSUME job = "compile",
                      NEW u \in 1 .. unit, Kind[u] = "rebuild", NEW b \in Bins[u]
               PROVE  bin'[b] = Absent \/ Current(b, u)'
    BY <2>1, <2>3 DEF NeverStale
  <2>4. bin[b] = Absent \/ Current(b, u) BY DEF NeverStale
  <2>5. u \in Units /\ b \in Binaries BY UnitsAssumption, BoundsAssumption DEF TypeOK, Units
  <2>6. \/ bin'[b] = bin[b] \/ bin'[b] = Absent
        \/ u = unit /\ Making /\ bin'[b] \in Fresh(unit)
    <3>1. CASE Link
      <4>1. PICK d \in todo :
              IF unit \in ByDates THEN bin' = [bin EXCEPT ![d] = obj[unit]]
                                  ELSE \E r \in Fresh(unit) : bin' = [bin EXCEPT ![d] = r]
        BY <3>1 DEF Link
      <4>2. unit \in Units /\ d \in Bins[unit] /\ Making BY <3>1 DEF Link
      <4>3. CASE b = d
        <5>1. u = unit BY <4>2, <4>3, <2>5, OtherUnit
        <5>2. unit \notin ByDates BY <5>1 DEF ByDates
        <5> QED BY <4>1, <4>2, <4>3, <5>1, <5>2, <2>5 DEF TypeOK
      <4>4. CASE b # d BY <4>1, <4>4, <2>5 DEF TypeOK
      <4> QED BY <4>3, <4>4
    <3>2. CASE LinkFailureIgnored BY <3>2, <2>5 DEF LinkFailureIgnored, Without
    <3>3. CASE Fail \/ Interrupt BY <3>3, <2>5 DEF Fail, Interrupt, StopMake, Without
    <3> QED BY <1>5, <3>1, <3>2, <3>3
  <2>7. CASE u = unit /\ Making /\ bin'[b] \in Fresh(unit)
    BY <2>1, <2>5, <2>7, FreshRange, ResultsAssumption
  <2> QED BY <2>1, <2>4, <2>6, <2>7
<1> QED BY <1>1, <1>2, <1>3, <1>4, <1>5 DEF ScriptAction, ScriptStep

-----------------------------------------------------------------------------
(* Dates *)

\* What has been read is no older than the start, and no newer than the sources.
LEMMA ReadScript ==
  ASSUME TypeOK, StageInv, SourcesInv, ReadInv, ScriptAction PROVE ReadInv'
<1> USE DEF Making, Exit, Abort
<1>1. CASE Edit
  <2>1. /\ stage' = stage /\ job' = job /\ unit' = unit /\ read' = read /\ started' = started
    BY <1>1 DEF Edit, script
  <2> SUFFICES ASSUME Making
               PROVE  read.code <= src'[unit].code /\ read.header <= src'[unit].header
    BY <2>1 DEF ReadInv
  <2>2. unit \in Units BY DEF StageInv
  <2>3. /\ src[unit].code <= src'[unit].code /\ src[unit].header <= src'[unit].header
        /\ src[unit] \in Revision /\ src'[unit] \in Revision
    BY <1>1, <2>2, EditRange DEF TypeOK
  <2>4. read.code <= src[unit].code /\ read.header <= src[unit].header BY DEF ReadInv
  <2> QED BY <2>3, <2>4, BoundsAssumption DEF TypeOK, Revision
<1>2. CASE EnterUnit
  <2>1. unit + 1 \in Units BY <1>2, BoundsAssumption DEF EnterUnit, TypeOK, Units
  <2>2. read' = src[unit + 1] /\ unit' = unit + 1 /\ src' = src /\ started' = started
    BY <1>2 DEF EnterUnit
  <2> QED BY <2>1, <2>2, BoundsAssumption DEF ReadInv, SourcesInv, TypeOK, Revision
<1>3. CASE StartCompile
  <2>1. unit \in Units BY <1>3 DEF StartCompile, StageInv
  <2>2. read' = src[unit] /\ unit' = unit /\ src' = src /\ started' = started
    BY <1>3 DEF StartCompile
  <2> QED BY <2>1, <2>2, BoundsAssumption DEF ReadInv, SourcesInv, TypeOK, Revision
<1>4. CASE KeepObject \/ WriteObject \/ Link \/ LinkFailureIgnored \/ Interrupt
  <2>1. /\ unit' = unit /\ read' = read /\ src' = src /\ started' = started
        /\ Making' => Making
    BY <1>4 DEF KeepObject, WriteObject, Link, LinkFailureIgnored, Interrupt, StageInv
  <2> QED BY <2>1 DEF ReadInv
<1>5. CASE StartScript \/ AnswerYes \/ AnswerNo \/ RemoveFail \/ Fail \/ UnitDone \/ CleanUnit
           \/ CleanFail \/ AllDone
  <2>1. ~Making'
    BY <1>5 DEF StartScript, AnswerYes, AnswerNo, RemoveFail, Fail, UnitDone, CleanUnit,
                CleanFail, AllDone
  <2> QED BY <2>1 DEF ReadInv
<1> QED BY <1>1, <1>2, <1>3, <1>4, <1>5 DEF ScriptAction, ScriptStep

\* An edit of a .c file sets back its date, and is noted if it was being compiled.
LEMMA EditDates ==
  ASSUME TypeOK, Edit, NEW u \in Units
  PROVE  \/ /\ src'[u].code = src[u].code /\ saved'[u] = saved[u]
            /\ u \in obj_newer' => u \in obj_newer
         \/ /\ src'[u].code = src[u].code + 1 /\ u \notin obj_newer'
            /\ saved'[u] = IF stage = "compile" /\ unit = u THEN src'[u].code ELSE saved[u]
<1>1. PICK e \in Units : EditCode(e) \/ EditHeader(e) BY DEF Edit
<1>2. CASE EditHeader(e) BY <1>2 DEF EditHeader, dates, TypeOK, Revision
<1>3. CASE EditCode(e) /\ e = u BY <1>3 DEF EditCode, TypeOK, Revision
<1>4. CASE EditCode(e) /\ e # u BY <1>4 DEF EditCode, TypeOK
<1> QED BY <1>1, <1>2, <1>3, <1>4

LEMMA ObjectDatesScript ==
  ASSUME TypeOK, StageInv, ObjectDates, ReadDates, ScriptAction PROVE ObjectDates'
<1> SUFFICES ASSUME NEW u \in obj_newer', obj'[u] # Absent PROVE SeemsNew(obj[u].code, u)'
  BY DEF ObjectDates
<1> USE DEF SeemsNew
<1>1. CASE Edit
  <2>1. obj' = obj /\ u \in Units
    BY <1>1 DEF Edit, EditCode, EditHeader, dates, TypeOK
  <2>2. src'[u].code = src[u].code /\ saved'[u] = saved[u] /\ u \in obj_newer
    BY <1>1, <2>1, EditDates
  <2> QED BY <2>1, <2>2 DEF ObjectDates
<1>2. CASE StartCompile
  <2>1. /\ obj' = obj /\ src' = src /\ obj_newer' = obj_newer
        /\ saved' = [saved EXCEPT ![unit] = 0] /\ ~ObjectCurrent(unit)
    BY <1>2 DEF StartCompile
  <2>2. u # unit BY <2>1 DEF ObjectCurrent
  <2>3. saved'[u] = saved[u] BY <2>1, <2>2 DEF TypeOK
  <2> QED BY <2>1, <2>3 DEF ObjectDates
<1>3. CASE WriteObject
  <2>1. PICK h : obj' = [obj EXCEPT ![unit] = [code |-> read.code, header |-> h]]
    BY <1>3 DEF WriteObject
  <2>2. /\ obj_newer' = obj_newer \union {unit} /\ src' = src /\ saved' = saved
        /\ stage = "compile" /\ unit \in Units
    BY <1>3 DEF WriteObject, StageInv
  <2>3. CASE u = unit
    <3>1. obj'[u].code = read.code BY <2>1, <2>2, <2>3 DEF TypeOK
    <3> QED BY <2>2, <2>3, <3>1 DEF ReadDates
  <2>4. CASE u # unit
    <3>1. obj'[u] = obj[u] BY <2>1, <2>2, <2>4 DEF TypeOK
    <3> QED BY <2>2, <2>4, <3>1 DEF ObjectDates
  <2> QED BY <2>3, <2>4
<1>4. CASE ScriptAction /\ ~Edit /\ ~StartCompile /\ ~WriteObject
  <2>1. src' = src /\ obj_newer' = obj_newer /\ saved' = saved
    BY <1>4 DEF ScriptAction, ScriptStep, EnterUnit, RemoveFail, KeepObject, Link,
                LinkFailureIgnored, Fail, UnitDone, CleanUnit, CleanFail, AllDone, StartScript,
                AnswerYes, AnswerNo, Interrupt, dates
  <2>2. obj' = obj \/ \E v : obj' = [obj EXCEPT ![v] = Absent]
    BY <1>4 DEF ScriptAction, ScriptStep, EnterUnit, RemoveFail, KeepObject, Link,
                LinkFailureIgnored, Fail, StopMake, UnitDone, CleanUnit, CleanFail, AllDone,
                StartScript, AnswerYes, AnswerNo, Interrupt
  <2>3. u \in Units BY <2>1 DEF TypeOK
  <2>4. obj'[u] = obj[u] BY <2>2, <2>3 DEF TypeOK
  <2> QED BY <2>1, <2>4 DEF ObjectDates
<1> QED BY <1>1, <1>2, <1>3, <1>4

LEMMA ReadDatesScript ==
  ASSUME TypeOK, StageInv, ReadInv, ReadDates, ScriptAction PROVE ReadDates'
<1> SUFFICES ASSUME stage' = "compile" PROVE SeemsNew(read.code, unit)'
  BY DEF ReadDates
<1> USE DEF SeemsNew
<1>1. CASE Edit
  <2>1. stage' = stage /\ unit' = unit /\ read' = read /\ unit \in Units
    BY <1>1 DEF Edit, script, StageInv
  <2>2. /\ read.code <= src[unit].code /\ read.code \in Nat /\ src[unit].code \in Nat
    BY <2>1, BoundsAssumption DEF ReadInv, Making, StageInv, TypeOK, Revision
  <2>3. SeemsNew(read.code, unit) BY <2>1 DEF ReadDates
  <2>4. CASE src'[unit].code = src[unit].code /\ saved'[unit] = saved[unit]
    BY <2>1, <2>3, <2>4
  <2>5. CASE src'[unit].code = src[unit].code + 1 /\ saved'[unit] = src'[unit].code
    BY <2>1, <2>2, <2>5
  <2> QED BY <1>1, <2>1, <2>4, <2>5, EditDates
<1>2. CASE StartCompile BY <1>2 DEF StartCompile
<1>3. CASE Interrupt
  <2>1. stage = "compile" /\ Making /\ Kind[unit] = "manage"
    BY <1>3 DEF Interrupt, Exit, Abort
  <2> QED BY <2>1 DEF StageInv, ByDates
<1>4. CASE ScriptAction /\ ~Edit /\ ~StartCompile /\ ~Interrupt
  <2>1. stage' # "compile"
    BY <1>4 DEF ScriptAction, ScriptStep, EnterUnit, RemoveFail, KeepObject, WriteObject, Link,
                LinkFailureIgnored, Fail, Making, ByDates, UnitDone, CleanUnit, CleanFail,
                AllDone, StartScript, AnswerYes, AnswerNo, Exit, Abort, StageInv
  <2> QED BY <2>1
<1> QED BY <1>1, <1>2, <1>3, <1>4

LEMMA BinaryDatesScript ==
  ASSUME TypeOK, StageInv, BinaryDates, ScriptAction PROVE BinaryDates'
<1> SUFFICES ASSUME NEW u \in ByDates, NEW b \in Bins[u],
                    b \in bin_newer', bin'[b] # Absent, obj'[u] # Absent
             PROVE  bin'[b] = obj'[u]
  BY DEF BinaryDates
<1>0. u \in Units /\ b \in Binaries BY UnitsAssumption DEF ByDates
<1>1. CASE WriteObject
  <2>1. /\ bin' = bin /\ bin_newer' = bin_newer \ Bins[unit]
        /\ \E r : obj' = [obj EXCEPT ![unit] = r]
    BY <1>1 DEF WriteObject
  <2>2. u # unit BY <2>1
  <2>3. obj'[u] = obj[u] BY <1>0, <2>1, <2>2 DEF TypeOK
  <2> QED BY <2>1, <2>3 DEF BinaryDates
<1>2. CASE Link
  <2>1. PICK d \in todo :
          IF unit \in ByDates
            THEN bin' = [bin EXCEPT ![d] = obj[unit]] /\ bin_newer' = bin_newer \union {d}
            ELSE \E r \in Fresh(unit) : bin' = [bin EXCEPT ![d] = r] /\ UNCHANGED bin_newer
    BY <1>2 DEF Link
  <2>2. unit \in Units /\ d \in Bins[unit] /\ obj' = obj BY <1>2 DEF Link, StageInv
  <2>3. CASE b = d
    <3>1. u = unit BY <1>0, <2>2, <2>3, OtherUnit
    <3> QED BY <1>0, <2>1, <2>2, <2>3, <3>1 DEF TypeOK
  <2>4. CASE b # d
    <3>1. bin'[b] = bin[b] /\ b \in bin_newer BY <1>0, <2>1, <2>4 DEF TypeOK
    <3> QED BY <2>2, <3>1 DEF BinaryDates
  <2> QED BY <2>3, <2>4
<1>3. CASE ScriptAction /\ ~WriteObject /\ ~Link
  <2>1. bin_newer' = bin_newer
    BY <1>3 DEF ScriptAction, ScriptStep, EnterUnit, RemoveFail, KeepObject, StartCompile,
                LinkFailureIgnored, Fail, UnitDone, CleanUnit, CleanFail, AllDone, StartScript,
                AnswerYes, AnswerNo, Interrupt, Edit, EditCode, EditHeader, dates
  <2>2. obj' = obj \/ \E v : obj' = [obj EXCEPT ![v] = Absent]
    BY <1>3 DEF ScriptAction, ScriptStep, EnterUnit, RemoveFail, KeepObject, StartCompile,
                LinkFailureIgnored, Fail, StopMake, UnitDone, CleanUnit, CleanFail, AllDone,
                StartScript, AnswerYes, AnswerNo, Interrupt, Edit
  <2>3. bin' = bin \/ \E gone : bin' = Without(gone)
    BY <1>3 DEF ScriptAction, ScriptStep, EnterUnit, RemoveFail, KeepObject, StartCompile,
                LinkFailureIgnored, Fail, StopMake, UnitDone, CleanUnit, CleanFail, AllDone,
                StartScript, AnswerYes, AnswerNo, Interrupt, Edit
  <2>4. obj'[u] = obj[u] BY <1>0, <2>2 DEF TypeOK
  <2>5. bin'[b] = bin[b] BY <1>0, <2>3 DEF Without
  <2> QED BY <2>1, <2>4, <2>5 DEF BinaryDates
<1> QED BY <1>1, <1>2, <1>3

LEMMA SavedScript ==
  ASSUME TypeOK, StageInv, SourcesInv, SavedInv, ScriptAction PROVE SavedInv'
<1> SUFFICES ASSUME job' = "compile", AtWork', NEW u \in Units, Ahead(u)'
             PROVE  saved'[u] <= started'[u].code
  BY DEF SavedInv
<1> USE DEF Ahead, AtWork, Exit, Abort
<1>1. CASE Edit
  <2>1. /\ stage' = stage /\ unit' = unit /\ job' = job /\ started' = started
    BY <1>1 DEF Edit, script
  <2>2. ~(stage = "compile" /\ unit = u) BY <2>1, BoundsAssumption DEF TypeOK
  <2>3. saved'[u] = saved[u] BY <1>1, <2>2, EditDates
  <2> QED BY <2>1, <2>3 DEF SavedInv
<1>2. CASE AnswerYes BY <1>2 DEF AnswerYes, SourcesInv, dates
<1>3. CASE EnterUnit
  <2>1. /\ job = "compile" /\ stage = "next" /\ unit' = unit + 1 /\ saved' = saved
        /\ started' = started
    BY <1>3 DEF EnterUnit, dates
  <2>2. u > unit BY <2>1, BoundsAssumption DEF TypeOK, Units
  <2> QED BY <2>1, <2>2 DEF SavedInv
<1>4. CASE StartCompile
  <2>1. /\ job = "compile" /\ stage = "check" /\ unit' = unit /\ stage' = "compile"
        /\ saved' = [saved EXCEPT ![unit] = 0] /\ started' = started
    BY <1>4 DEF StartCompile, Making
  <2>2. u > unit /\ u # unit BY <2>1, BoundsAssumption DEF TypeOK, Units
  <2>3. saved'[u] = saved[u] BY <2>1, <2>2 DEF TypeOK
  <2> QED BY <2>1, <2>2, <2>3 DEF SavedInv
<1>5. CASE KeepObject \/ WriteObject \/ Link \/ LinkFailureIgnored \/ UnitDone \/ Interrupt
  <2>1. /\ job = "compile" /\ stage \notin {"none", "asking"} /\ unit' = unit /\ saved' = saved
        /\ started' = started /\ Ahead(u)
    BY <1>5 DEF KeepObject, WriteObject, Link, LinkFailureIgnored, UnitDone, Interrupt, Making,
                dates
  <2> QED BY <2>1 DEF SavedInv
<1>6. CASE StartScript \/ AnswerNo \/ RemoveFail \/ Fail \/ CleanUnit \/ CleanFail \/ AllDone
  BY <1>6 DEF StartScript, AnswerNo, RemoveFail, Fail, CleanUnit, CleanFail, AllDone
<1> QED BY <1>1, <1>2, <1>3, <1>4, <1>5, <1>6 DEF ScriptAction, ScriptStep

LEMMA ObjectScript ==
  ASSUME TypeOK, StageInv, SourcesInv, ReadInv, ObjectDates, SavedInv, ObjectInv, ScriptAction
  PROVE  ObjectInv'
<1> SUFFICES ASSUME stage' = "make", unit' \in ByDates
             PROVE  /\ (obj[unit] # Absent)'
                    /\ \/ (obj[unit].code >= started[unit].code)'
                       \/ Overtaken(obj[unit].code, unit)'
  BY DEF ObjectInv
<1> USE DEF Overtaken
<1>0. unit' \in Units BY DEF ByDates
<1>1. CASE Edit
  <2>1. /\ stage' = stage /\ unit' = unit /\ started' = started /\ obj' = obj
    BY <1>1 DEF Edit, script
  <2>2. saved'[unit] = saved[unit] BY <1>0, <1>1, <2>1, EditDates
  <2> QED BY <2>1, <2>2 DEF ObjectInv
<1>2. CASE KeepObject
  <2>1. /\ unit' = unit /\ started' = started /\ obj' = obj /\ saved' = saved
        /\ ObjectCurrent(unit) /\ job = "compile" /\ stage = "check"
    BY <1>2 DEF KeepObject, Making, dates
  <2>2. SeemsNew(obj[unit].code, unit) BY <2>1 DEF ObjectDates, ObjectCurrent
  <2>3. saved[unit] <= started[unit].code
    BY <1>0, <2>1 DEF SavedInv, Ahead, AtWork
  <2>4. src[unit].code >= started[unit].code
    BY <1>0, <2>1, BoundsAssumption DEF SourcesInv, TypeOK, Revision
  <2> QED BY <2>1, <2>2, <2>3, <2>4 DEF SeemsNew, ObjectCurrent
<1>3. CASE WriteObject
  <2>1. PICK h \in read.header .. src[unit].header :
          obj' = [obj EXCEPT ![unit] = [code |-> read.code, header |-> h]]
    BY <1>3 DEF WriteObject
  <2>2. unit' = unit /\ started' = started /\ Making BY <1>3 DEF WriteObject
  <2>3. obj'[unit] = [code |-> read.code, header |-> h] BY <1>0, <2>1, <2>2 DEF TypeOK
  <2>4. obj'[unit] # Absent
    <3>1. obj' \in [Units -> Revision \union {Absent}] BY <1>3, WriteObjectType
    <3>2. [code |-> read.code, header |-> h] \in Revision
      <4>1. read \in Revision /\ src[unit] \in Revision BY <1>0, <2>2 DEF TypeOK
      <4> QED BY <4>1, BoundsAssumption DEF Revision
    <3> QED BY <2>3, <3>2, ResultsAssumption
  <2>5. read.code >= started[unit].code
    BY <1>0, <2>2, BoundsAssumption DEF ReadInv, TypeOK, Revision
  <2> QED BY <2>2, <2>3, <2>4, <2>5
<1>4. CASE Link
  BY <1>4 DEF Link, ObjectInv
<1>5. CASE EnterUnit BY <1>5 DEF EnterUnit
<1>6. CASE LinkFailureIgnored \/ Interrupt
  BY <1>6 DEF LinkFailureIgnored, Interrupt, Exit, Abort, ByDates
<1>7. CASE \/ StartScript \/ AnswerYes \/ AnswerNo \/ RemoveFail \/ StartCompile \/ Fail
           \/ UnitDone \/ CleanUnit \/ CleanFail \/ AllDone
  BY <1>7 DEF StartScript, AnswerYes, AnswerNo, RemoveFail, StartCompile, Fail, UnitDone,
              CleanUnit, CleanFail, AllDone, Exit, Abort
<1> QED
  BY <1>1, <1>2, <1>3, <1>4, <1>5, <1>6, <1>7 DEF ScriptAction, ScriptStep

\* What compile.sh has been through is well made.
LEMMA CompileScript ==
  ASSUME TypeOK, StageInv, SourcesInv, DateInv, CompileInv, ScriptAction
  PROVE  CompileInv'
<1> USE DEF StageInv, Exit, Abort
<1> DEFINE Same(b, u) == bin'[b] = bin[b] /\ saved'[u] = saved[u] /\ started' = started
<1>0. ASSUME NEW u, NEW b, Same(b, u), WellMade(b, u) PROVE WellMade(b, u)'
  BY <1>0 DEF WellMade, UpToDate, Current, Overtaken
<1>1. CASE Edit
  <2>1. /\ job' = job /\ message' = message /\ unit' = unit /\ todo' = todo
        /\ started' = started /\ bin' = bin
    BY <1>1 DEF Edit, script
  <2> SUFFICES ASSUME job = "compile" \/ message = "compiled",
                      NEW u \in Checked, NEW b \in Bins[u], Through(b, u)
               PROVE  WellMade(b, u)'
    BY <2>1 DEF CompileInv, Through
  <2>2. ~(stage = "compile" /\ unit = u)
    BY BoundsAssumption DEF Through, TypeOK, Checked, Units
  <2>3. saved'[u] = saved[u] BY <1>1, <2>2, EditDates DEF Checked
  <2>4. WellMade(b, u) BY DEF CompileInv
  <2> QED BY <1>0, <2>1, <2>3, <2>4
<1>2. CASE StartScript \/ AnswerYes
  <2>1. unit' = 0 /\ (job' = "compile" \/ message' = "compiled" => todo' = {})
    BY <1>2 DEF StartScript, AnswerYes
  <2> QED BY <2>1 DEF CompileInv, Through, Checked, Units
<1>3. CASE AnswerNo \/ RemoveFail \/ CleanUnit \/ CleanFail
  BY <1>3 DEF CompileInv, AnswerNo, RemoveFail, CleanUnit, CleanFail
<1>4. CASE Fail BY <1>4 DEF CompileInv, Fail
<1>5. CASE UnitDone \/ AllDone \/ WriteObject
  <2>1. /\ started' = started /\ unit' = unit /\ bin' = bin /\ saved' = saved
        /\ todo' = todo
    BY <1>5 DEF UnitDone, AllDone, WriteObject, Making, dates
  <2>2. job' = "compile" \/ message' = "compiled" => job = "compile"
    BY <1>5 DEF UnitDone, AllDone, WriteObject, Making, TypeOK
  <2> SUFFICES ASSUME NEW u \in Checked, NEW b \in Bins[u], Through(b, u), job = "compile"
               PROVE  WellMade(b, u)'
    BY <2>1, <2>2 DEF CompileInv, Through
  <2>3. WellMade(b, u) BY DEF CompileInv
  <2> QED BY <1>0, <2>1, <2>3
<1>6. CASE EnterUnit
  <2>1. /\ job = "compile" /\ started' = started /\ unit' = unit + 1 /\ todo = {}
        /\ saved' = saved
    BY <1>6 DEF EnterUnit, dates
  <2> SUFFICES ASSUME NEW u \in Checked, NEW b \in Bins[u], Through(b, u)'
               PROVE  WellMade(b, u)'
    BY <2>1 DEF CompileInv
  <2>2. u \in Units /\ b \in Binaries /\ unit \in Nat
    BY UnitsAssumption, BoundsAssumption DEF Checked, TypeOK
  <2>3. u # unit + 1 BY <1>6, <2>1, <2>2 DEF Through, EnterUnit
  <2>4. u <= unit BY <2>1, <2>2, <2>3 DEF Through, Units
  <2>5. WellMade(b, u) BY <2>1, <2>2, <2>4 DEF CompileInv, Through, Units
  <2>6. bin'[b] = bin[b]
    <3>1. unit + 1 \in Units BY <1>6, <2>2, BoundsAssumption DEF EnterUnit, Units
    <3>2. b \notin Bins[unit + 1] BY <2>2, <2>3, <3>1, OtherUnit
    <3> QED BY <1>6, <2>2, <3>2 DEF EnterUnit, Without
  <2> QED BY <1>0, <2>1, <2>5, <2>6
<1>7. CASE KeepObject
  <2>1. /\ job = "compile" /\ started' = started /\ unit' = unit /\ unit \in ByDates
        /\ saved' = saved /\ bin' = bin /\ obj' = obj /\ stage' = "make"
        /\ todo' = OutOfDate(unit)
    BY <1>7 DEF KeepObject, Making, dates
  <2> SUFFICES ASSUME NEW u \in Checked, NEW b \in Bins[u], Through(b, u)'
               PROVE  WellMade(b, u)'
    BY <2>1 DEF CompileInv
  <2>2. u < unit \/ (u = unit /\ b \notin OutOfDate(unit)) BY <2>1 DEF Through
  <2>3. CASE u < unit
    <3>1. WellMade(b, u) BY <2>1, <2>3 DEF CompileInv, Through
    <3> QED BY <1>0, <2>1, <3>1
  <2>4. CASE u = unit /\ b \notin OutOfDate(unit)
    <3>1. b \in bin_newer /\ bin[b] # Absent BY <2>4 DEF OutOfDate
    <3>2. ObjectInv' BY ObjectScript DEF DateInv
    <3>3. /\ obj[u] # Absent
          /\ obj[u].code >= started[u].code \/ Overtaken(obj[u].code, u)
      BY <2>1, <2>4, <3>2 DEF ObjectInv, Overtaken
    <3>4. bin[b] = obj[u] BY <2>1, <2>4, <3>1, <3>3 DEF DateInv, BinaryDates
    <3> QED BY <2>1, <2>4, <3>1, <3>3, <3>4 DEF WellMade, UpToDate, Overtaken
  <2> QED BY <2>2, <2>3, <2>4
<1>8. CASE StartCompile
  <2>1. /\ job = "compile" /\ started' = started /\ unit' = unit /\ unit \in Units
        /\ saved' = [saved EXCEPT ![unit] = 0] /\ bin' = bin
        /\ todo' = todo /\ todo = Bins[unit] /\ unit \in Nat
    BY <1>8, BoundsAssumption DEF StartCompile, Making, TypeOK
  <2> SUFFICES ASSUME NEW u \in Checked, NEW b \in Bins[u], Through(b, u)'
               PROVE  WellMade(b, u)'
    BY <2>1 DEF CompileInv
  <2>2. Through(b, u) /\ u # unit BY <2>1 DEF Through, Checked, Units
  <2>3. WellMade(b, u) BY <2>1, <2>2 DEF CompileInv
  <2>4. saved'[u] = saved[u] BY <2>1, <2>2 DEF TypeOK, Checked
  <2> QED BY <1>0, <2>1, <2>3, <2>4
<1>9. CASE Link
  <2>1. /\ job = "compile" /\ started' = started /\ unit' = unit /\ unit \in Units
        /\ todo \subseteq Bins[unit] /\ saved' = saved /\ stage = "make" /\ Making
    BY <1>9 DEF Link, Making
  <2> SUFFICES ASSUME NEW u \in Checked, NEW b \in Bins[u], Through(b, u)'
               PROVE  WellMade(b, u)'
    BY <2>1 DEF CompileInv
  <2>2. u \in Units /\ b \in Binaries BY UnitsAssumption DEF Checked
  <2>3. PICK d \in todo :
          /\ todo' = todo \ {d}
          /\ IF unit \in ByDates
               THEN bin' = [bin EXCEPT ![d] = obj[unit]]
               ELSE \E r \in Fresh(unit) : bin' = [bin EXCEPT ![d] = r]
    BY <1>9 DEF Link
  <2>4. CASE b = d
    <3>1. u = unit BY <2>1, <2>2, <2>3, <2>4, OtherUnit
    <3>2. CASE unit \in ByDates
      <4>1. bin'[b] = obj[unit] BY <2>2, <2>3, <2>4, <3>2 DEF TypeOK
      <4>2. /\ obj[unit] # Absent
            /\ obj[unit].code >= started[unit].code \/ Overtaken(obj[unit].code, unit)
        BY <2>1, <3>2 DEF DateInv, ObjectInv
      <4> QED BY <2>1, <3>1, <3>2, <4>1, <4>2 DEF WellMade, UpToDate, Overtaken
    <3>3. CASE unit \notin ByDates
      <4>1. PICK r \in Fresh(unit) : bin' = [bin EXCEPT ![d] = r] BY <2>3, <3>3
      <4>2. bin'[b] = r BY <2>2, <2>4, <4>1 DEF TypeOK
      <4>3. Kind[u] = "rebuild" BY <3>1, <3>3 DEF Checked, ByDates
      <4>4. r \in Revision /\ r.code >= started[u].code /\ r.header >= started[u].header
        BY <2>1, <3>1, FreshRange DEF DateInv
      <4> QED
        BY <2>1, <4>2, <4>3, <4>4, ResultsAssumption DEF WellMade, UpToDate, Current
    <3> QED BY <3>2, <3>3
  <2>5. CASE b # d
    <3>1. Through(b, u) BY <2>1, <2>3, <2>5 DEF Through
    <3>2. bin'[b] = bin[b] BY <2>2, <2>3, <2>5 DEF TypeOK
    <3>3. WellMade(b, u) BY <2>1, <3>1 DEF CompileInv
    <3> QED BY <1>0, <2>1, <3>2, <3>3
  <2> QED BY <2>4, <2>5
<1>10. CASE LinkFailureIgnored \/ Interrupt
  <2>1. CASE job' # "compile"
    BY <1>10, <2>1 DEF LinkFailureIgnored, Interrupt, Making, CompileInv
  <2>2. CASE job' = "compile"
    <3>1. /\ job = "compile" /\ started' = started /\ unit' = unit /\ unit \in Units
          /\ todo \subseteq Bins[unit] /\ Kind[unit] \in {"ignored", "manage"}
          /\ saved' = saved
      BY <1>10, <2>2 DEF LinkFailureIgnored, Interrupt, Making, dates
    <3> SUFFICES ASSUME NEW u \in Checked, NEW b \in Bins[u], Through(b, u)'
                 PROVE  WellMade(b, u)'
      BY <3>1 DEF CompileInv
    <3>2. u \in Units /\ b \in Binaries /\ u # unit BY <3>1, UnitsAssumption DEF Checked
    <3>3. b \notin todo BY <3>1, <3>2, OtherUnit
    <3>4. bin'[b] = bin[b]
      <4>1. CASE LinkFailureIgnored BY <3>2, <3>3, <4>1 DEF LinkFailureIgnored, Without
      <4>2. CASE Interrupt BY <3>2, <3>3, <4>2 DEF Interrupt, StopMake, Without
      <4> QED BY <1>10, <4>1, <4>2
    <3>5. WellMade(b, u) BY <3>1, <3>2 DEF CompileInv, Through
    <3> QED BY <1>0, <3>1, <3>4, <3>5
  <2> QED BY <2>1, <2>2
<1> QED
  BY <1>1, <1>2, <1>3, <1>4, <1>5, <1>6, <1>7, <1>8, <1>9, <1>10 DEF ScriptAction, ScriptStep

-----------------------------------------------------------------------------
(* The benchmark *)

LEMMA ScriptsUnderBench ==
  ASSUME BenchAction, StageInv, SourcesInv, DateInv, CompileInv, NeverStale, CleanInv
  PROVE  StageInv' /\ SourcesInv' /\ DateInv' /\ CompileInv' /\ NeverStale' /\ CleanInv'
<1>1. /\ clock' = clock /\ src' = src /\ obj' = obj /\ bin' = bin /\ job' = job
      /\ stage' = stage /\ unit' = unit /\ todo' = todo /\ message' = message
      /\ started' = started /\ read' = read
      /\ obj_newer' = obj_newer /\ bin_newer' = bin_newer /\ saved' = saved
  BY BenchFrame DEF script, dates
<1>2. StageInv' /\ SourcesInv' BY <1>1 DEF StageInv, SourcesInv
<1>3. CompileInv' BY <1>1 DEF CompileInv, Through, WellMade, UpToDate, Current, Overtaken
<1>6. DateInv'
  BY <1>1 DEF DateInv, ReadInv, ObjectDates, ReadDates, BinaryDates, SavedInv, ObjectInv,
              Making, AtWork, Ahead, SeemsNew, Overtaken
<1>4. NeverStale' BY <1>1 DEF NeverStale, UpToDate, Current
<1>5. CleanInv' BY <1>1 DEF CleanInv
<1> QED BY <1>2, <1>3, <1>4, <1>5, <1>6

LEMMA PositionStep ==
  ASSUME PositionInv, ScriptAction \/ BenchAction PROVE PositionInv'
<1> USE ListsAssumption DEF PositionInv, PairLeft
<1>1. CASE ScriptAction
  <2>1. bench' = bench /\ list' = list /\ pair' = pair BY <1>1, ScriptFrame DEF runner
  <2> QED BY <2>1
<1>2. CASE StartBench BY <1>2 DEF StartBench
<1>3. CASE Found BY <1>3 DEF Found
<1>4. CASE NotFound \/ ListDone
  <2>1. list' = list + 1 /\ pair' = 1 /\ bench' = "exists"
    BY <1>4 DEF NotFound, ListDone, NextList
  <2>2. list' <= Len(Lists) => Len(Lists[list']) \in Nat BY <2>1
  <2> QED BY <2>1, <2>2
<1>5. CASE RunPair
  <2>1. list' = list /\ pair' = pair + 1 /\ bench' = "exists" /\ bench = "run"
    BY <1>5 DEF RunPair, NextPair
  <2>2. Len(Lists[list]) \in Nat BY <2>1
  <2> QED BY <2>1, <2>2
<1>6. CASE ShellPair BY <1>6 DEF ShellPair, NextPair
<1>7. CASE RunNothing \/ OrderedList \/ ShellDone \/ Quit
  BY <1>7 DEF RunNothing, OrderedList, ShellDone, Quit
<1> QED BY <1>1, <1>2, <1>3, <1>4, <1>5, <1>6, <1>7 DEF BenchAction, BenchStep

\* What a script does under a benchmark that it does not disturb.
LEMMA QuietScript ==
  ASSUME ScriptAction, TypeOK, StageInv, QuietInv, ~disturbed'
  PROVE  /\ ~disturbed /\ UNCHANGED runner
         /\ Benching => bin' = bin /\ ~AtWork'
BY ScriptDisturbs, ScriptFrame DEF TypeOK

LEMMA QuietStep ==
  ASSUME TypeOK, StageInv, PositionInv, QuietInv, ScriptAction \/ BenchAction
  PROVE  QuietInv'
<1> USE DEF Benching, AtWork, CrashOnlyIfDisturbed
<1>1. CASE ScriptAction
  <2>1. bench' = bench /\ list' = list /\ pair' = pair /\ in_dir' = in_dir
    BY <1>1, ScriptFrame DEF runner
  <2>2. CASE disturbed' BY <2>1, <2>2 DEF QuietInv
  <2>3. CASE ~disturbed' BY <1>1, <2>1, <2>3, QuietScript DEF QuietInv
  <2> QED BY <2>2, <2>3
<1>2. CASE BenchAction /\ ~StartBench
  <2>1. bin' = bin /\ stage' = stage BY <1>2, BenchFrame DEF script
  <2>2. disturbed' = disturbed
    BY <1>2 DEF BenchAction, BenchStep, Found, NotFound, RunPair, RunNothing, ListDone,
                OrderedList, ShellPair, ShellDone, Quit
  <2>3. Benching' => Benching
    BY <1>2 DEF BenchAction, BenchStep, Found, NotFound, RunPair, RunNothing, ListDone,
                OrderedList, ShellPair, ShellDone, Quit
  <2>4. bench' = "run" => Found
    BY <1>2 DEF BenchAction, BenchStep, NotFound, RunPair, RunNothing, ListDone,
                OrderedList, ShellPair, ShellDone, Quit
  <2>5. Found => list' = list /\ pair' = pair /\ in_dir' /\ bin[Lists[list][pair]] # Absent
    BY DEF Found, Exists
  <2>6. bench' = "crashed" => RunNothing
    BY <1>2 DEF BenchAction, BenchStep, Found, NotFound, RunPair, ListDone,
                OrderedList, ShellPair, ShellDone, Quit
  <2>7. RunNothing => disturbed BY DEF RunNothing, QuietInv
  <2> QED BY <2>1, <2>2, <2>3, <2>4, <2>5, <2>6, <2>7 DEF QuietInv
<1>3. CASE StartBench
  <2>1. bench' \in {"exists", "shell"} /\ stage' = stage BY <1>3 DEF StartBench, script
  <2>2. ~disturbed' => ~AtWork BY <1>3 DEF StartBench
  <2> QED BY <2>1, <2>2 DEF QuietInv
<1> QED BY <1>1, <1>2, <1>3

\* As long as a script does not disturb it, what a benchmark refers to stays.
LEMMA ListStep ==
  ASSUME TypeOK, StageInv, PositionInv, QuietInv, ListInv, ScriptAction \/ BenchAction
  PROVE  ListInv'
<1> SUFFICES ASSUME bench' \in {"exists", "run"}, in_dir', ~disturbed', list' <= Len(Lists)',
                    NEW i \in 1 .. Len(Lists[list']), i < pair'
             PROVE  bin'[Lists[list'][i]] # Absent
  BY DEF ListInv
<1>1. CASE ScriptAction
  <2>1. ~disturbed /\ bench' = bench /\ list' = list /\ pair' = pair /\ in_dir' = in_dir
    BY <1>1, QuietScript DEF runner
  <2>2. bin' = bin BY <1>1, <2>1, QuietScript DEF Benching
  <2> QED BY <2>1, <2>2 DEF ListInv
<1>2. CASE StartBench \/ NotFound \/ ListDone
  <2>1. pair' = 1 BY <1>2 DEF StartBench, NotFound, ListDone, NextList
  <2> QED BY <2>1
<1>3. CASE Found BY <1>3 DEF Found, ListInv
<1>4. CASE RunPair
  <2>1. /\ list' = list /\ pair' = pair + 1 /\ bin' = bin /\ bin[Lists[list][pair]] # Absent
        /\ bench = "run" /\ in_dir' = in_dir /\ disturbed' = disturbed
    BY <1>4 DEF RunPair, NextPair
  <2>2. i < pair \/ i = pair BY <2>1 DEF PositionInv
  <2> QED BY <2>1, <2>2 DEF ListInv
<1>5. CASE RunNothing \/ OrderedList \/ ShellPair \/ ShellDone \/ Quit
  BY <1>5 DEF RunNothing, OrderedList, ShellPair, ShellDone, Quit
<1> QED BY <1>1, <1>2, <1>3, <1>4, <1>5 DEF BenchAction, BenchStep

\* bench.py has an entry for each pair it ran, and none for those it skipped.
LEMMA RankStep ==
  ASSUME TypeOK, StageInv, PositionInv, QuietInv, ListInv, RankInv, ScriptAction \/ BenchAction
  PROVE  RankInv'
<1> DEFINE Result(l, i) ==
      benchmarks[Lists[l][i]] =
        IF Ran(l, i) /\ i \in Reachable(Lists[l]) THEN bin[Lists[l][i]] ELSE Unmeasured
<1> SUFFICES ASSUME bench' \in {"exists", "run"}, in_dir', ~disturbed',
                    NEW l \in 1 .. Len(Lists), NEW i \in 1 .. Len(Lists[l])
             PROVE  Result(l, i)'
  BY DEF RankInv
<1> HIDE DEF Result
<1>0. Lists[l][i] \in Binaries /\ Lists[l] \in Seq(Binaries) BY ListsAssumption
<1>1. CASE ScriptAction
  <2>1. /\ ~disturbed /\ bench' = bench /\ list' = list /\ pair' = pair /\ in_dir' = in_dir
        /\ benchmarks' = benchmarks
    BY <1>1, QuietScript DEF runner
  <2>2. bin' = bin BY <1>1, <2>1, QuietScript DEF Benching
  <2>3. Result(l, i) BY <2>1 DEF RankInv, Result
  <2> QED BY <2>1, <2>2, <2>3 DEF Result, Ran, Reachable
<1>2. CASE StartBench
  <2>1. list' = 1 /\ pair' = 1 /\ benchmarks' = [b \in Binaries |-> Unmeasured]
    BY <1>2 DEF StartBench
  <2>2. ~Ran(l, i)' BY <2>1 DEF Ran
  <2> QED BY <1>0, <2>1, <2>2 DEF Result
<1>3. CASE BenchAction /\ ~StartBench
  <2>1. bench \in {"exists", "run"}
    BY <1>3 DEF BenchAction, BenchStep, Found, NotFound, RunPair, RunNothing, ListDone,
                OrderedList, ShellPair, ShellDone, Quit
  <2>2. in_dir' = in_dir /\ disturbed' = disturbed
    BY <1>3 DEF BenchAction, BenchStep, Found, NotFound, RunPair, RunNothing, ListDone,
                OrderedList, ShellPair, ShellDone, Quit
  <2>3. bench \in {"exists", "run"} /\ in_dir /\ ~disturbed BY <2>1, <2>2
  <2>4. bin' = bin BY <1>3, BenchFrame
  <2>5. Result(l, i) BY <2>3 DEF RankInv, Result
  <2>6. Reachable(Lists[l])' = Reachable(Lists[l]) BY <2>4 DEF Reachable
  <2>7. CASE Found
    BY <2>4, <2>5, <2>6, <2>7 DEF Found, Result, Ran
  <2>8. CASE NotFound \/ ListDone
    <3>1. /\ benchmarks' = benchmarks /\ list' = list + 1 /\ pair' = 1 /\ list <= Len(Lists)
      BY <2>8 DEF NotFound, ListDone, NextList, PairLeft
    <3>2. Ran(l, i)' <=> l <= list BY <3>1 DEF Ran, PositionInv
    <3>3. CASE l # list
      <4>1. Ran(l, i)' <=> Ran(l, i) BY <3>2, <3>3 DEF Ran, PositionInv
      <4> QED BY <2>4, <2>5, <2>6, <3>1, <4>1 DEF Result
    <3>4. CASE l = list
      <4>1. i \in Reachable(Lists[l]) => i < pair
        <5>1. CASE ListDone BY <3>4, <5>1 DEF ListDone, PositionInv
        <5>2. CASE NotFound
          <6>1. bin[Lists[list][pair]] = Absent BY <2>3, <5>2 DEF NotFound, Exists
          <6>2. pair <= i => i \notin Reachable(Lists[l])
            BY <3>4, <6>1 DEF Reachable, PositionInv
          <6> QED BY <6>2 DEF PositionInv
        <5> QED BY <2>8, <5>1, <5>2
      <4>2. Ran(l, i) <=> i < pair BY <3>4 DEF Ran, PositionInv
      <4>3. Ran(l, i)' BY <3>2, <3>4 DEF PositionInv
      <4> QED BY <2>4, <2>5, <2>6, <3>1, <4>1, <4>2, <4>3 DEF Result
    <3> QED BY <3>3, <3>4
  <2>9. CASE RunPair
    <3>1. /\ bench = "run" /\ list' = list /\ pair' = pair + 1
          /\ bin[Lists[list][pair]] # Absent
          /\ benchmarks' = [benchmarks EXCEPT ![Lists[list][pair]] = bin[Lists[list][pair]]]
      BY <2>9 DEF RunPair, NextPair, Measure
    <3>2. list \in 1 .. Len(Lists) /\ pair \in 1 .. Len(Lists[list])
      BY <3>1 DEF PositionInv, PairLeft
    <3>3. CASE l = list /\ i = pair
      <4>1. Ran(l, i)' BY <3>1, <3>3 DEF Ran, PositionInv
      <4>2. i \in Reachable(Lists[l])
        <5> SUFFICES ASSUME NEW j \in 1 .. i PROVE bin[Lists[l][j]] # Absent
          BY DEF Reachable
        <5>1. j < pair => bin[Lists[list][j]] # Absent
          BY <2>3, <3>2, <3>3 DEF ListInv
        <5> QED BY <3>1, <3>3, <5>1
      <4>3. benchmarks'[Lists[l][i]] = bin[Lists[l][i]]
        BY <1>0, <3>1, <3>3 DEF TypeOK
      <4> QED BY <2>4, <2>6, <4>1, <4>2, <4>3 DEF Result
    <3>4. CASE ~(l = list /\ i = pair)
      <4>1. Ran(l, i)' <=> Ran(l, i) BY <3>1, <3>4 DEF Ran, PositionInv
      <4>2. Lists[l][i] # Lists[list][pair] BY <3>2, <3>4, ListsAssumption
      <4>3. benchmarks'[Lists[l][i]] = benchmarks[Lists[l][i]]
        BY <1>0, <3>1, <4>2 DEF TypeOK
      <4> QED BY <2>4, <2>5, <2>6, <4>1, <4>3 DEF Result
    <3> QED BY <3>3, <3>4
  <2>10. CASE RunNothing \/ OrderedList \/ ShellPair \/ ShellDone \/ Quit
    BY <2>10, <2>3 DEF RunNothing, OrderedList, ShellPair, ShellDone, Quit
  <2> QED BY <1>3, <2>7, <2>8, <2>9, <2>10 DEF BenchAction, BenchStep
<1> QED BY <1>1, <1>2, <1>3

\* bench.sh has an entry for each binary that it found.
LEMMA ShellStep ==
  ASSUME TypeOK, StageInv, PositionInv, QuietInv, ShellInv, ScriptAction \/ BenchAction
  PROVE  ShellInv'
<1> DEFINE Result(i) ==
      benchmarks[ShellOrder[i]] =
        IF i < pair /\ bin[ShellOrder[i]] # Absent THEN bin[ShellOrder[i]] ELSE Unmeasured
<1> SUFFICES ASSUME bench' = "shell", in_dir', ~disturbed', NEW i \in 1 .. Len(ShellOrder)
             PROVE  Result(i)'
  BY DEF ShellInv
<1> HIDE DEF Result
<1>0. ShellOrder[i] \in Binaries BY ListsAssumption
<1>1. CASE ScriptAction
  <2>1. /\ ~disturbed /\ bench' = bench /\ pair' = pair /\ in_dir' = in_dir
        /\ benchmarks' = benchmarks
    BY <1>1, QuietScript DEF runner
  <2>2. bin' = bin BY <1>1, <2>1, QuietScript DEF Benching
  <2>3. Result(i) BY <2>1 DEF ShellInv, Result
  <2> QED BY <2>1, <2>2, <2>3 DEF Result
<1>2. CASE StartBench
  BY <1>0, <1>2 DEF StartBench, Result
<1>3. CASE ShellPair
  <2>1. /\ bench = "shell" /\ in_dir /\ ~disturbed /\ bin' = bin /\ pair' = pair + 1
        /\ IF bin[ShellOrder[pair]] # Absent
             THEN benchmarks' = [benchmarks EXCEPT ![ShellOrder[pair]] = bin[ShellOrder[pair]]]
             ELSE benchmarks' = benchmarks
        /\ pair \in 1 .. Len(ShellOrder)
    BY <1>3 DEF ShellPair, NextPair, Measure, Exists, PositionInv
  <2>2. Result(i) BY <2>1 DEF ShellInv, Result
  <2>3. CASE i = pair BY <1>0, <2>1, <2>2, <2>3 DEF Result, TypeOK
  <2>4. CASE i # pair
    <3>1. ShellOrder[i] # ShellOrder[pair] BY <2>1, <2>4, ListsAssumption
    <3>2. benchmarks'[ShellOrder[i]] = benchmarks[ShellOrder[i]]
      BY <1>0, <2>1, <3>1 DEF TypeOK
    <3>3. i < pair + 1 <=> i < pair BY <2>1, <2>4
    <3> QED BY <2>1, <2>2, <3>2, <3>3 DEF Result
  <2> QED BY <2>3, <2>4
<1>4. CASE Found \/ NotFound \/ RunPair \/ RunNothing \/ ListDone \/ OrderedList \/ ShellDone
           \/ Quit
  BY <1>4 DEF Found, NotFound, RunPair, RunNothing, ListDone, OrderedList, ShellDone, Quit
<1> QED BY <1>1, <1>2, <1>3, <1>4 DEF BenchAction, BenchStep

-----------------------------------------------------------------------------
(* The theorems *)

\* Whatever the user, the scripts and a benchmark do, and in whatever order,
\* IInv stays true.
THEOREM Invariance == Spec => []IInv
<1>1. Init => IInv BY Initially
<1>2. IInv /\ [Next]_vars => IInv'
  <2> SUFFICES ASSUME IInv, [Next]_vars PROVE IInv'
    OBVIOUS
  <2> USE DEF IInv
  <2>1. CASE ScriptAction
    <3>1. TypeOK' /\ StageInv' /\ SourcesInv'
      BY <2>1, TypeScript, StageScript, SourcesScript DEF DateInv
    <3>5. DateInv' BY <2>1, ReadScript, ObjectDatesScript, ReadDatesScript,
                  BinaryDatesScript, SavedScript, ObjectScript DEF DateInv
    <3>2. CompileInv' /\ NeverStale' /\ CleanInv'
      BY <2>1, CompileScript, NeverStaleScript, CleanScript DEF DateInv
    <3>3. PositionInv' /\ QuietInv' BY <2>1, PositionStep, QuietStep
    <3>4. ListInv' /\ RankInv' /\ ShellInv' BY <2>1, ListStep, RankStep, ShellStep
    <3> QED BY <3>1, <3>2, <3>3, <3>4, <3>5
  <2>2. CASE BenchAction
    <3>1. TypeOK' BY <2>2, TypeBench
    <3>2. StageInv' /\ SourcesInv' /\ DateInv' /\ CompileInv' /\ NeverStale' /\ CleanInv'
      BY <2>2, ScriptsUnderBench
    <3>3. PositionInv' /\ QuietInv' BY <2>2, PositionStep, QuietStep
    <3>4. ListInv' /\ RankInv' /\ ShellInv' BY <2>2, ListStep, RankStep, ShellStep
    <3> QED BY <3>1, <3>2, <3>3, <3>4
  <2>3. CASE UNCHANGED vars
    <3> USE <2>3 DEF vars, dates, script, runner
    <3>1. TypeOK' BY DEF TypeOK
    <3>2. StageInv' /\ SourcesInv' BY DEF StageInv, SourcesInv
    <3>3. CompileInv' BY DEF CompileInv, Through, WellMade, UpToDate, Current, Overtaken
    <3>8. DateInv'
      BY DEF DateInv, ReadInv, ObjectDates, ReadDates, BinaryDates, SavedInv, ObjectInv,
             Making, AtWork, Ahead, SeemsNew, Overtaken
    <3>4. NeverStale' /\ CleanInv' BY DEF NeverStale, CleanInv, UpToDate, Current
    <3>5. PositionInv' /\ QuietInv'
      BY DEF PositionInv, PairLeft, QuietInv, Benching, AtWork, CrashOnlyIfDisturbed
    <3>6. ListInv' /\ ShellInv' BY DEF ListInv, ShellInv
    <3>7. RankInv' BY DEF RankInv, Ran, Reachable
    <3> QED BY <3>1, <3>2, <3>3, <3>4, <3>5, <3>6, <3>7, <3>8
  <2> QED BY <2>1, <2>2, <2>3, Split
<1> QED BY <1>1, <1>2, PTL DEF Spec

\* compile.sh only says that all schemes are compiled if every build it checks
\* was done, from sources no older than when it was told to start; the exception
\* are those of a .c file that was saved while an earlier run was compiling it,
\* in a directory that is not rebuilt from nothing: their dates deceive make.
THEOREM CompiledIsSound == Spec => []CompiledSound
<1>1. IInv => CompiledSound
  <2> SUFFICES ASSUME IInv, message = "compiled", NEW u \in Checked, NEW b \in Bins[u]
               PROVE  WellMade(b, u)
    BY DEF CompiledSound
  <2>1. unit = NUnits /\ todo = {} BY DEF IInv, StageInv
  <2>2. Through(b, u) BY <2>1, BoundsAssumption DEF Through, Checked, Units
  <2> QED BY <2>2 DEF IInv, CompileInv
<1> QED BY <1>1, Invariance, PTL

\* No end of compile.sh, a failure and Ctrl-C included, leaves a scheme it
\* rebuilds from nothing with a binary of older sources.
THEOREM NothingStale == Spec => []NeverStale
<1>1. IInv => NeverStale BY DEF IInv
<1> QED BY <1>1, Invariance, PTL

\* clean.sh only says that the binaries are removed when there is none.
THEOREM RemovedIsSound == Spec => []RemovedSound
<1>1. IInv => RemovedSound
  <2> SUFFICES ASSUME IInv, message = "removed", NEW b \in Binaries PROVE bin[b] = Absent
    BY DEF RemovedSound
  <2>1. PICK u \in Units : b \in Bins[u] BY UnitsAssumption
  <2>2. u \in 1 .. unit BY DEF IInv, StageInv, Units
  <2> QED BY <2>1, <2>2 DEF IInv, CleanInv
<1> QED BY <1>1, Invariance, PTL

\* bench.py does not crash unless a script changed the binaries under it.
THEOREM NoQuietCrash == Spec => []CrashOnlyIfDisturbed
<1>1. IInv => CrashOnlyIfDisturbed BY DEF IInv, QuietInv
<1> QED BY <1>1, Invariance, PTL

LEMMA RankedInv == IInv => QuietRanking
<1> SUFFICES ASSUME IInv, Ranked, in_dir, ~disturbed,
                    NEW l \in 1 .. Len(Lists), NEW i \in 1 .. Len(Lists[l])
             PROVE  benchmarks[Lists[l][i]] =
                      IF i \in Reachable(Lists[l]) THEN bin[Lists[l][i]] ELSE Unmeasured
  BY DEF QuietRanking
<1>1. Ran(l, i) BY ListsAssumption DEF Ranked, Ran, IInv, PositionInv
<1> QED BY <1>1 DEF Ranked, IInv, RankInv

\* A ranking made while no script runs has the results of the binaries that
\* are there, each its own, up to the first missing one of each list.
THEOREM RankingIsSound == Spec => []QuietRanking
BY RankedInv, Invariance, PTL

\* So does the table that bench.sh prints, without skipping anything.
THEOREM ShellIsSound == Spec => []QuietShell
<1>1. IInv => QuietShell
  <2> SUFFICES ASSUME IInv, bench = "shell", pair > Len(ShellOrder), in_dir, ~disturbed,
                      NEW i \in 1 .. Len(ShellOrder)
               PROVE  benchmarks[ShellOrder[i]] =
                        IF bin[ShellOrder[i]] # Absent THEN bin[ShellOrder[i]] ELSE Unmeasured
    BY DEF QuietShell
  <2>1. i < pair BY ListsAssumption DEF IInv, PositionInv
  <2> QED BY <2>1 DEF IInv, ShellInv
<1> QED BY <1>1, Invariance, PTL

\* After compile.sh said that all is compiled, a ranking made in peace is
\* complete for the schemes whose builds are checked, and of the new code, with
\* the same exception.
THEOREM RankingIsFresh == Spec => []FreshRanking
<1>1. IInv /\ QuietRanking /\ CompiledSound => FreshRanking
  <2> SUFFICES ASSUME QuietRanking, CompiledSound,
                      Ranked, in_dir, ~disturbed, message = "compiled",
                      NEW l \in 1 .. Len(Lists),
                      \A i \in 1 .. Len(Lists[l]) : \E u \in Checked : Lists[l][i] \in Bins[u],
                      NEW i \in 1 .. Len(Lists[l]), NEW u \in Checked, Lists[l][i] \in Bins[u],
                      IInv
               PROVE  /\ benchmarks[Lists[l][i]] # Unmeasured
                      /\ \/ benchmarks[Lists[l][i]].code >= started[u].code
                         \/ Overtaken(benchmarks[Lists[l][i]].code, u)
    BY DEF FreshRanking
  <2>1. \A j \in 1 .. Len(Lists[l]) : bin[Lists[l][j]] # Absent
    BY DEF CompiledSound, WellMade, UpToDate, Current
  <2>2. i \in Reachable(Lists[l]) BY <2>1 DEF Reachable
  <2>3. benchmarks[Lists[l][i]] = bin[Lists[l][i]] BY <2>2 DEF QuietRanking
  <2>4. bin[Lists[l][i]] \in Revision BY <2>1, ListsAssumption DEF IInv, TypeOK
  <2>5. \/ bin[Lists[l][i]].code >= started[u].code
        \/ Overtaken(bin[Lists[l][i]].code, u)
    BY DEF CompiledSound, WellMade, UpToDate, Current
  <2> QED BY <2>3, <2>4, <2>5, ResultsAssumption
<1> QED BY <1>1, RankingIsSound, CompiledIsSound, Invariance, PTL

\* No script or benchmark loses its place in its lists, and what is measured is
\* a revision of some binary.
THEOREM TypeCorrect == Spec => []TypeOK
<1>1. IInv => TypeOK BY DEF IInv
<1> QED BY <1>1, Invariance, PTL
=============================================================================
