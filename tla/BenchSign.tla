------------------------------ MODULE BenchSign ------------------------------
(***************************************************************************)
(* The benchmarking tool itself: compile.sh and clean.sh, which build and  *)
(* remove the benchmark programs of all schemes, and bench.py and bench.sh *)
(* which run them.  One script and one benchmark may run at a time, beside *)
(* each other, while the user edits sources and presses Ctrl-C.            *)
(*                                                                         *)
(* A unit is one build the scripts start, a directory and its make; the    *)
(* sources of a unit are taken to be a .c file and a header, a binary is   *)
(* known by the revisions it was built from.                               *)
(***************************************************************************)
EXTENDS Integers, Sequences

CONSTANTS Binaries,   \* the benchmark programs
          NUnits,     \* the units, in the order both scripts go through them
          Bins,       \* the binaries of a unit
          Kind,       \* how a unit is built, see below
          Lists,      \* bench.py: the lists of pairs, in the order they are run
          ShellOrder, \* bench.sh: the binaries, in the order they are run
          Absent,     \* no binary
          Unmeasured, \* no result
          MaxEdits, MaxScripts, MaxBenches \* bounds: how often each may happen

Units == 1 .. NUnits

\* rebuild: rm -rf build, then cmake and make         (CROSS, LESS, SPECK, MIRATH,
\*                                                     RYDE, SQISIGN)
\* make:    make alone; no rule knows of the headers  (FAEST, PERK)
\* relink:  as well, but the binary is linked in any case, as it depends on a
\*          target that is no file                    (SDITH threshold)
\* ignored: make, whose rule ignores the compiler's status (SDITH hypercube)
\* manage:  manage.py, which ignores make's status    (MQOM)
Kinds   == {"rebuild", "make", "relink", "ignored", "manage"}
Checked == {u \in Units : Kind[u] \in {"rebuild", "make", "relink"}}
ByDates == {u \in Units : Kind[u] \in {"make", "relink"}}

Revision == [code : 0 .. MaxEdits, header : 0 .. MaxEdits]

ASSUME BoundsAssumption == /\ NUnits \in Nat /\ MaxEdits \in Nat
                           /\ MaxScripts \in Nat /\ MaxBenches \in Nat
ASSUME UnitsAssumption ==
  /\ Kind \in [Units -> Kinds] /\ Bins \in [Units -> SUBSET Binaries]
  /\ \A b \in Binaries : \E u \in Units : b \in Bins[u]
  /\ \A u, v \in Units : u # v => Bins[u] \cap Bins[v] = {}
ASSUME ResultsAssumption == Absent \notin Revision /\ Unmeasured \notin Revision
\* No binary is measured twice.
ASSUME ListsAssumption ==
  /\ Lists \in Seq(Seq(Binaries)) /\ ShellOrder \in Seq(Binaries)
  /\ \A k, l \in 1 .. Len(Lists) : \A i \in 1 .. Len(Lists[k]), j \in 1 .. Len(Lists[l]) :
       Lists[k][i] = Lists[l][j] => k = l /\ i = j
  /\ \A i, j \in 1 .. Len(ShellOrder) : ShellOrder[i] = ShellOrder[j] => i = j

VARIABLES
  clock,      \* edits so far
  src,        \* the revisions of the sources of a unit
  obj,        \* what the object file of a unit in ByDates was compiled from
  bin,        \* the revisions a binary was built from
  obj_newer,  \* dates of files: the units whose object is newer than its .c file
  bin_newer,  \* and the binaries in them that are newer than the object
  saved,      \* the .c file that was saved while an older one was being compiled
              \* into the object (not in the code)
  scripts,    \* scripts started so far
  job,        \* the script that is running
  stage,      \* what it is doing
  unit,       \* the last unit it went into
  todo,       \* the binaries make has yet to deal with
  read,       \* the sources when make, or the compiler, was started in the unit
  message,    \* the last line of the last script
  started,    \* the sources when compilation was started (not in the code)
  benches,    \* benchmarks started so far
  bench,      \* what the benchmark is doing
  list, pair, \* the pair it has got to
  in_dir,     \* whether it was started in the directory of the repository
  benchmarks, \* its results: the revisions of the binary that was measured
  disturbed   \* whether a script ran while it did (not in the code)

dates  == <<obj_newer, bin_newer, saved>>
script == <<scripts, job, stage, unit, todo, read, message, started>>
runner == <<benches, bench, list, pair, in_dir, benchmarks>>
vars   == <<clock, src, obj, bin, dates, script, runner, disturbed>>

-----------------------------------------------------------------------------
Init ==
  /\ clock = 0
  /\ src = [u \in Units |-> [code |-> 0, header |-> 0]]
  /\ obj = [u \in Units |-> Absent]
  /\ bin = [b \in Binaries |-> Absent]
  /\ obj_newer = {} /\ bin_newer = {} /\ saved = [u \in Units |-> 0]
  /\ scripts = 0 /\ job = "none" /\ stage = "none" /\ unit = 0 /\ todo = {}
  /\ read = [code |-> 0, header |-> 0]
  /\ message = "none" /\ started = src
  /\ benches = 0 /\ bench = "none" /\ list = 1 /\ pair = 1 /\ in_dir = TRUE
  /\ benchmarks = [b \in Binaries |-> Unmeasured]
  /\ disturbed = FALSE

\* The user saves the .c file of a unit: it is newer than the object now.
EditCode(u) ==
  /\ src' = [src EXCEPT ![u].code = @ + 1]
  /\ obj_newer' = obj_newer \ {u}
  /\ saved' = IF stage = "compile" /\ unit = u
                THEN [saved EXCEPT ![u] = src[u].code + 1] ELSE saved
  /\ UNCHANGED bin_newer

\* The user saves the header, which no date is compared with.
EditHeader(u) ==
  /\ src' = [src EXCEPT ![u].header = @ + 1]
  /\ UNCHANGED dates

Edit ==
  /\ clock < MaxEdits
  /\ clock' = clock + 1
  /\ \E u \in Units : EditCode(u) \/ EditHeader(u)
  /\ UNCHANGED <<obj, bin, script, runner, disturbed>>

(* compile.sh and clean.sh *)

Benching == bench \in {"exists", "run", "shell"}
AtWork   == stage \notin {"none", "asking"}

\* The script does something to binaries.
Touches == disturbed' = (disturbed \/ Benching)

StartScript ==
  /\ job = "none" /\ scripts < MaxScripts
  /\ scripts' = scripts + 1
  /\ job' \in {"compile", "clean"} /\ stage' = "asking" /\ unit' = 0
  /\ message' = "none"
  /\ UNCHANGED <<clock, src, obj, bin, dates, todo, read, started, runner, disturbed>>

\* Any answer but these two makes the script ask again.
AnswerYes ==
  /\ stage = "asking"
  /\ stage' = "next"
  /\ started' = IF job = "compile" THEN src ELSE started
  /\ Touches
  /\ UNCHANGED <<clock, src, obj, bin, dates, scripts, job, unit, todo, read, message, runner>>

\* exit: with an answer that starts with n, with set -e, or by a signal.
Exit(how) == job' = "none" /\ stage' = "none" /\ todo' = {} /\ message' = how
Abort == Exit(IF job = "compile" THEN "compile_aborted" ELSE "clean_aborted")

AnswerNo ==
  /\ stage = "asking"
  /\ Exit("none")
  /\ UNCHANGED <<clock, src, obj, bin, dates, scripts, unit, read, started, runner, disturbed>>

\* make compares the dates of the .c file, of the object and of the binary.
ObjectCurrent(u) == obj[u] # Absent /\ u \in obj_newer
OutOfDate(u) ==
  IF Kind[u] = "relink"
    THEN Bins[u] ELSE {b \in Bins[u] : bin[b] = Absent \/ b \notin bin_newer}

Without(gone) == [b \in Binaries |-> IF b \in gone THEN Absent ELSE bin[b]]

\* Mutant: build is not removed first.
EnterUnitKeepBuild ==
  /\ job = "compile" /\ stage = "next" /\ unit < NUnits
  /\ unit' = unit + 1
  /\ stage' = IF unit + 1 \in ByDates THEN "check" ELSE "make"
  /\ todo' = Bins[unit + 1] /\ read' = src[unit + 1]
  /\ Touches
  /\ UNCHANGED <<clock, src, obj, bin, dates, scripts, job, message, started, runner>>

\* cd to the unit; in a unit of kind rebuild, rm -rf build.
EnterUnit ==
  /\ job = "compile" /\ stage = "next" /\ unit < NUnits
  /\ unit' = unit + 1
  /\ stage' = IF unit + 1 \in ByDates THEN "check" ELSE "make"
  /\ todo' = Bins[unit + 1] /\ read' = src[unit + 1]
  /\ bin' = IF Kind[unit + 1] = "rebuild" THEN Without(Bins[unit + 1]) ELSE bin
  /\ Touches
  /\ UNCHANGED <<clock, src, obj, dates, scripts, job, message, started, runner>>

\* rm -rf build fails or is interrupted half way; with set -e the script exits.
RemoveFail ==
  /\ job = "compile" /\ stage = "next" /\ unit < NUnits /\ Kind[unit + 1] = "rebuild"
  /\ \E lost \in SUBSET Bins[unit + 1] : bin' = Without(lost)
  /\ Abort
  /\ Touches
  /\ UNCHANGED <<clock, src, obj, dates, scripts, unit, read, started, runner>>

\* make looks at the dates of the object, or compiles it, or links.
Making == job = "compile" /\ stage \in {"check", "compile", "make"}

\* Mutant: make does not look at the dates.
KeepOldObject ==
  /\ Making /\ stage = "check" /\ obj[unit] # Absent
  /\ stage' = "make" /\ todo' = OutOfDate(unit)
  /\ UNCHANGED <<clock, src, obj, bin, dates, scripts, job, unit, read, message, started,
                 runner, disturbed>>

\* The object is newer than the .c file: make goes on to what is linked with it.
KeepObject ==
  /\ Making /\ stage = "check" /\ ObjectCurrent(unit)
  /\ stage' = "make" /\ todo' = OutOfDate(unit)
  /\ UNCHANGED <<clock, src, obj, bin, dates, scripts, job, unit, read, message, started,
                 runner, disturbed>>

\* It is not: the compiler is started and reads the .c file.
StartCompile ==
  /\ Making /\ stage = "check" /\ ~ObjectCurrent(unit)
  /\ stage' = "compile" /\ read' = src[unit]
  /\ saved' = [saved EXCEPT ![unit] = 0]
  /\ UNCHANGED <<clock, src, obj, bin, obj_newer, bin_newer, scripts, job, unit, todo, message,
                 started, runner, disturbed>>

\* The compiler reads headers after the .c file.  The object it writes is newer
\* than whatever the .c file is by then, and all that is linked is to be linked again.
WriteObject ==
  /\ Making /\ stage = "compile"
  /\ \E h \in read.header .. src[unit].header :
       obj' = [obj EXCEPT ![unit] = [code |-> read.code, header |-> h]]
  /\ obj_newer' = obj_newer \union {unit} /\ bin_newer' = bin_newer \ Bins[unit]
  /\ stage' = "make"
  /\ UNCHANGED <<clock, src, bin, saved, scripts, job, unit, todo, read, message, started,
                 runner, disturbed>>

\* What a source that is compiled now may be compiled from: an edit may come
\* before or after the compiler reads the file.
Fresh(u) == [code   : read.code .. src[u].code,
             header : read.header .. src[u].header]

\* make links one of the binaries; with -j8 the order is any.
Link ==
  /\ Making /\ stage = "make"
  /\ \E b \in todo :
       /\ todo' = todo \ {b}
       /\ IF unit \in ByDates
            THEN bin' = [bin EXCEPT ![b] = obj[unit]] /\ bin_newer' = bin_newer \union {b}
            ELSE \E r \in Fresh(unit) : bin' = [bin EXCEPT ![b] = r] /\ UNCHANGED bin_newer
  /\ Touches
  /\ UNCHANGED <<clock, src, obj, obj_newer, saved, scripts, job, stage, unit, read, message,
                 started, runner>>

\* The compiler fails and nobody looks: what was there stays, or is removed.
LinkFailureIgnored ==
  /\ Making /\ Kind[unit] \in {"ignored", "manage"}
  /\ \E b \in todo : /\ bin' = bin \/ bin' = Without({b})
                     /\ todo' = todo \ {b}
  /\ Touches
  /\ UNCHANGED <<clock, src, obj, dates, scripts, job, stage, unit, read, message, started,
                 runner>>

\* make stops half way: what it was making may be gone.
StopMake ==
  /\ \E lost \in SUBSET (IF stage = "make" THEN todo ELSE {}) : bin' = Without(lost)
  /\ \/ UNCHANGED obj
     \/ stage = "compile" /\ obj' = [obj EXCEPT ![unit] = Absent]

\* Mutant: set -e is left out, so the script goes on after a make that failed.
FailIgnored ==
  /\ Making
  /\ StopMake
  /\ stage' = "make" /\ todo' = {}
  /\ Touches
  /\ UNCHANGED <<clock, src, dates, scripts, job, unit, read, message, started, runner>>

\* A command of the script fails; with set -e the script exits.
Fail ==
  /\ Making
  /\ StopMake
  /\ Abort
  /\ Touches
  /\ UNCHANGED <<clock, src, dates, scripts, unit, read, started, runner>>

\* Ctrl-C ends the script, unless manage.py is running: it catches the signal
\* and exits with status 0, and the script goes on to the next unit.
Interrupt ==
  /\ job # "none"
  /\ IF Making THEN StopMake ELSE UNCHANGED <<obj, bin>>
  /\ IF Making /\ Kind[unit] = "manage"
       THEN todo' = {} /\ UNCHANGED <<job, stage, message>>
       ELSE Abort
  /\ IF stage = "asking" THEN UNCHANGED disturbed ELSE Touches
  /\ UNCHANGED <<clock, src, dates, scripts, unit, read, started, runner>>

UnitDone ==
  /\ Making /\ stage = "make" /\ todo = {}
  /\ stage' = "next"
  /\ UNCHANGED <<clock, src, obj, bin, dates, scripts, job, unit, todo, read, message, started,
                 runner, disturbed>>

\* rm -rf build or make clean of the next unit.
CleanUnit ==
  /\ job = "clean" /\ stage = "next" /\ unit < NUnits
  /\ unit' = unit + 1
  /\ bin' = Without(Bins[unit + 1])
  /\ obj' = [obj EXCEPT ![unit + 1] = Absent]
  /\ Touches
  /\ UNCHANGED <<clock, src, dates, scripts, job, stage, todo, read, message, started, runner>>

\* make clean fails, or rm does; with set -e the script exits.
CleanFail ==
  /\ job = "clean" /\ stage = "next" /\ unit < NUnits
  /\ \E lost \in SUBSET Bins[unit + 1] : bin' = Without(lost)
  /\ obj' = obj \/ obj' = [obj EXCEPT ![unit + 1] = Absent]
  /\ unit' = unit + 1
  /\ Abort
  /\ Touches
  /\ UNCHANGED <<clock, src, dates, scripts, read, started, runner>>

AllDone ==
  /\ stage = "next" /\ unit = NUnits
  /\ Exit(IF job = "compile" THEN "compiled" ELSE "removed")
  /\ UNCHANGED <<clock, src, obj, bin, dates, scripts, unit, read, started, runner, disturbed>>

(* bench.py and bench.sh *)

StartBench ==
  /\ bench = "none" /\ benches < MaxBenches
  /\ benches' = benches + 1
  /\ bench' \in {"exists", "shell"}
  /\ in_dir' \in BOOLEAN
  /\ list' = 1 /\ pair' = 1
  /\ benchmarks' = [b \in Binaries |-> Unmeasured]
  /\ disturbed' = AtWork
  /\ UNCHANGED <<clock, src, obj, bin, dates, script>>

NextList == list' = list + 1 /\ pair' = 1
NextPair == list' = list /\ pair' = pair + 1

\* What os.path.exists says of a path that starts with a dot.
Exists(b) == in_dir /\ bin[b] # Absent

Measure(b) == benchmarks' = [benchmarks EXCEPT ![b] = bin[b]]

PairLeft == list <= Len(Lists) /\ pair <= Len(Lists[list])

\* Mutant: os.path.exists is not asked.
FoundUnchecked ==
  /\ bench = "exists" /\ PairLeft
  /\ bench' = "run"
  /\ UNCHANGED <<clock, src, obj, bin, dates, script, benches, list, pair, in_dir, benchmarks,
                 disturbed>>

Found ==
  /\ bench = "exists" /\ PairLeft /\ Exists(Lists[list][pair])
  /\ bench' = "run"
  /\ UNCHANGED <<clock, src, obj, bin, dates, script, benches, list, pair, in_dir, benchmarks,
                 disturbed>>

\* Mutant: goes on with the next pair of the list.
NotFoundContinue ==
  /\ bench = "exists" /\ PairLeft /\ ~Exists(Lists[list][pair])
  /\ NextPair
  /\ UNCHANGED <<clock, src, obj, bin, dates, script, benches, bench, in_dir, benchmarks,
                 disturbed>>

\* "Binary not found, have you compiled ...": the rest of the list is skipped.
NotFound ==
  /\ bench = "exists" /\ PairLeft /\ ~Exists(Lists[list][pair])
  /\ NextList
  /\ UNCHANGED <<clock, src, obj, bin, dates, script, benches, bench, in_dir, benchmarks,
                 disturbed>>

\* The path is now that of the directory of bench.py, wherever it was started.
RunPair ==
  /\ bench = "run" /\ bin[Lists[list][pair]] # Absent
  /\ Measure(Lists[list][pair])
  /\ bench' = "exists"
  /\ NextPair
  /\ UNCHANGED <<clock, src, obj, bin, dates, script, benches, in_dir, disturbed>>

\* Nothing was printed and values[0] raises an IndexError.
RunNothing ==
  /\ bench = "run" /\ bin[Lists[list][pair]] = Absent
  /\ bench' = "crashed"
  /\ UNCHANGED <<clock, src, obj, bin, dates, script, benches, list, pair, in_dir, benchmarks,
                 disturbed>>

ListDone ==
  /\ bench = "exists" /\ list <= Len(Lists) /\ pair > Len(Lists[list])
  /\ NextList
  /\ UNCHANGED <<clock, src, obj, bin, dates, script, benches, bench, in_dir, benchmarks,
                 disturbed>>

\* Mutant: one list too many is waited for.
OrderedListLate ==
  /\ bench = "exists" /\ list > Len(Lists) + 1
  /\ bench' = "printed"
  /\ UNCHANGED <<clock, src, obj, bin, dates, script, benches, list, pair, in_dir, benchmarks,
                 disturbed>>

\* sort_and_print
OrderedList ==
  /\ bench = "exists" /\ list > Len(Lists)
  /\ bench' = "printed"
  /\ UNCHANGED <<clock, src, obj, bin, dates, script, benches, list, pair, in_dir, benchmarks,
                 disturbed>>

\* bench.sh runs what it finds in the directory it was started in, and prints
\* an empty result otherwise.
ShellPair ==
  /\ bench = "shell" /\ pair <= Len(ShellOrder)
  /\ IF Exists(ShellOrder[pair]) THEN Measure(ShellOrder[pair]) ELSE UNCHANGED benchmarks
  /\ NextPair
  /\ UNCHANGED <<clock, src, obj, bin, dates, script, benches, bench, in_dir, disturbed>>

ShellDone ==
  /\ bench = "shell" /\ pair > Len(ShellOrder)
  /\ bench' = "shell_printed"
  /\ UNCHANGED <<clock, src, obj, bin, dates, script, benches, list, pair, in_dir, benchmarks,
                 disturbed>>

\* The output has been read and the next benchmark may be started.
Quit ==
  /\ bench \in {"printed", "crashed", "shell_printed"}
  /\ bench' = "none"
  /\ UNCHANGED <<clock, src, obj, bin, dates, script, benches, list, pair, in_dir, benchmarks,
                 disturbed>>

User       == Edit \/ StartScript \/ AnswerYes \/ AnswerNo \/ Interrupt \/ StartBench \/ Quit
ScriptStep == \/ EnterUnit \/ RemoveFail \/ KeepObject \/ StartCompile \/ WriteObject \/ Link
              \/ LinkFailureIgnored \/ Fail \/ UnitDone \/ CleanUnit \/ CleanFail \/ AllDone
BenchStep  == \/ Found \/ NotFound \/ RunPair \/ RunNothing \/ ListDone \/ OrderedList
              \/ ShellPair \/ ShellDone

Next == User \/ ScriptStep \/ BenchStep

\* Programs go on once they are started; the user need not do anything.
Spec == Init /\ [][Next]_vars /\ WF_vars(ScriptStep) /\ WF_vars(BenchStep)

-----------------------------------------------------------------------------
(* Properties *)

TypeOK ==
  /\ clock \in 0 .. MaxEdits /\ src \in [Units -> Revision] /\ started \in [Units -> Revision]
  /\ obj \in [Units -> Revision \union {Absent}]
  /\ bin \in [Binaries -> Revision \union {Absent}]
  /\ obj_newer \subseteq Units /\ bin_newer \subseteq Binaries
  /\ saved \in [Units -> 0 .. MaxEdits] /\ read \in Revision
  /\ benchmarks \in [Binaries -> Revision \union {Unmeasured}]
  /\ scripts \in 0 .. MaxScripts /\ benches \in 0 .. MaxBenches
  /\ job \in {"none", "compile", "clean"}
  /\ stage \in {"none", "asking", "next", "check", "compile", "make"}
  /\ message \in {"none", "compile_aborted", "clean_aborted", "compiled", "removed"}
  /\ unit \in 0 .. NUnits /\ todo \in SUBSET Binaries
  /\ bench \in {"none", "exists", "run", "shell", "printed", "crashed", "shell_printed"}
  /\ list \in Nat /\ pair \in Nat
  /\ in_dir \in BOOLEAN /\ disturbed \in BOOLEAN

\* Built from the sources there were when compilation was started, or newer.
UpToDate(b, u) == bin[b] # Absent /\ bin[b].code >= started[u].code
Current(b, u)  == UpToDate(b, u) /\ bin[b].header >= started[u].header

\* Built from a .c file that was saved while it was being compiled, before
\* compilation was started: make finds the object newer than the .c file and keeps it.
Overtaken(code, u) == u \in ByDates /\ code < saved[u] /\ saved[u] <= started[u].code

\* What compile.sh may have left of a binary whose build it checks.  If it was
\* rebuilt from nothing it is of the sources of the start of compilation; if make
\* went by dates, of the .c file of then, unless that was overtaken.
WellMade(b, u) ==
  \/ Kind[u] = "rebuild" /\ Current(b, u)
  \/ u \in ByDates /\ UpToDate(b, u)
  \/ bin[b] # Absent /\ Overtaken(bin[b].code, u)

\* compile.sh says that all schemes are compiled: then every binary whose build it
\* checks is there, of the sources of the start of compilation or newer; the one
\* exception is a .c file that was saved while an earlier run was compiling it.
CompiledSound ==
  message = "compiled" => \A u \in Checked : \A b \in Bins[u] : WellMade(b, u)

\* However compile.sh ends, a unit whose build directory it removed is left with
\* binaries of the sources of then or with none, never with stale ones.
NeverStale ==
  job = "compile" \/ message \in {"compiled", "compile_aborted"} =>
    \A u \in 1 .. unit : Kind[u] = "rebuild" =>
      \A b \in Bins[u] : bin[b] = Absent \/ Current(b, u)

\* clean.sh says that all binaries are removed: then there are none.
RemovedSound == message = "removed" => \A b \in Binaries : bin[b] = Absent

\* The binaries of a list that bench.py measures if nothing changes meanwhile:
\* those before the first one that is missing.
Reachable(l) == {i \in 1 .. Len(l) : \A j \in 1 .. i : bin[l[j]] # Absent}

\* All lists have been run, the ranking is about to be printed.
Ranked == bench = "exists" /\ list > Len(Lists)

\* A ranking made while no script runs is of the binaries that are there now,
\* each with its own result, and stops in a list at the first missing one.
QuietRanking ==
  Ranked /\ in_dir /\ ~disturbed =>
    \A l \in 1 .. Len(Lists) : \A i \in 1 .. Len(Lists[l]) :
      benchmarks[Lists[l][i]] = IF i \in Reachable(Lists[l]) THEN bin[Lists[l][i]]
                                                             ELSE Unmeasured

\* bench.sh, in the same circumstances, measures every binary there is.
QuietShell ==
  bench = "shell" /\ pair > Len(ShellOrder) /\ in_dir /\ ~disturbed =>
    \A i \in 1 .. Len(ShellOrder) :
      benchmarks[ShellOrder[i]] = IF bin[ShellOrder[i]] # Absent THEN bin[ShellOrder[i]]
                                                                 ELSE Unmeasured

\* bench.py raises an exception only if a script took the binary away between
\* the test that it exists and its run.
CrashOnlyIfDisturbed == bench = "crashed" => disturbed

\* Compiled, then measured in peace: a scheme all of whose builds are checked
\* is ranked completely, with results of the code that was compiled, except for a
\* unit whose .c file was saved while it was being compiled in an earlier run.
FreshRanking ==
  Ranked /\ in_dir /\ ~disturbed /\ message = "compiled" =>
    \A l \in 1 .. Len(Lists) :
      (\A i \in 1 .. Len(Lists[l]) : \E u \in Checked : Lists[l][i] \in Bins[u]) =>
        \A i \in 1 .. Len(Lists[l]) : \A u \in Checked : Lists[l][i] \in Bins[u] =>
          /\ benchmarks[Lists[l][i]] # Unmeasured
          /\ \/ benchmarks[Lists[l][i]].code >= started[u].code
             \/ Overtaken(benchmarks[Lists[l][i]].code, u)

\* A script that was told to go on ends, and so does a benchmark.
ScriptEnds == AtWork ~> job = "none"
BenchEnds  == Benching ~> bench \in {"printed", "crashed", "shell_printed"}
AllEnd     == ScriptEnds /\ BenchEnds

=============================================================================
