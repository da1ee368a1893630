---------------------------- MODULE BenchSignInv ----------------------------
(***************************************************************************)
(* The inductive invariant of BenchSign: what holds half way through a     *)
(* script and half way through a benchmark.                                *)
(***************************************************************************)
EXTENDS BenchSign

\* A script is asking, between two units or in one, and says nothing before
\* its end; only in a unit does make have something to do.
StageInv ==
  /\ stage = "none" <=> job = "none"
  /\ stage \in {"check", "compile", "make"} =>
       job = "compile" /\ unit \in Units /\ todo \subseteq Bins[unit]
  /\ stage \in {"check", "compile"} => unit \in ByDates /\ todo = Bins[unit]
  /\ stage \in {"none", "asking", "next"} => todo = {}
  /\ stage = "asking" => unit = 0
  /\ message # "none" => job = "none"
  /\ message \in {"compiled", "removed"} => unit = NUnits

\* Sources only get newer.
SourcesInv ==
  \A u \in Units : /\ started[u].code <= src[u].code /\ src[u].code <= clock
                   /\ started[u].header <= src[u].header /\ src[u].header <= clock
                   /\ saved[u] <= src[u].code

ReadInv ==
  Making => /\ started[unit].code <= read.code /\ read.code <= src[unit].code
            /\ started[unit].header <= read.header /\ read.header <= src[unit].header

\* What an object of that code looks like by its date: new, or of a .c file that
\* was saved while it was being compiled.
SeemsNew(code, u) == code = src[u].code \/ (code < saved[u] /\ saved[u] = src[u].code)

\* What dates say of revisions: of objects, of the object that is being
\* compiled, and of binaries.
ObjectDates == \A u \in obj_newer : obj[u] # Absent => SeemsNew(obj[u].code, u)
ReadDates   == stage = "compile" => SeemsNew(read.code, unit)
BinaryDates ==
  \A u \in ByDates : \A b \in Bins[u] :
    b \in bin_newer /\ bin[b] # Absent /\ obj[u] # Absent => bin[b] = obj[u]

\* A unit that this run of compile.sh did not come to compile was not saved
\* while it was being compiled since the run was started.
Ahead(u) == u > unit \/ (u = unit /\ stage = "check")
SavedInv == job = "compile" /\ AtWork =>
              \A u \in Units : Ahead(u) => saved[u] <= started[u].code

\* The object that make links is as new as its binaries are to be.
ObjectInv ==
  stage = "make" /\ unit \in ByDates =>
    /\ obj[unit] # Absent
    /\ obj[unit].code >= started[unit].code \/ Overtaken(obj[unit].code, unit)

\* make is through with the binary of the unit.
Through(b, u) == u < unit \/ (u = unit /\ b \notin todo)

CompileInv ==
  job = "compile" \/ message = "compiled" =>
    \A u \in Checked : \A b \in Bins[u] : Through(b, u) => WellMade(b, u)

CleanInv ==
  job = "clean" \/ message = "removed" =>
    \A u \in 1 .. unit : \A b \in Bins[u] : bin[b] = Absent

\* bench.py goes through the lists pair by pair.
PositionInv ==
  /\ list \in Nat \ {0} /\ pair \in Nat \ {0}
  /\ bench \in {"exists", "run"} /\ list <= Len(Lists) => pair <= Len(Lists[list]) + 1
  /\ bench = "run" => PairLeft

\* Nothing disturbs a benchmark as long as no script is at work.
QuietInv ==
  /\ Benching /\ ~disturbed => ~AtWork
  /\ bench = "run" /\ ~disturbed => bin[Lists[list][pair]] # Absent
  /\ bench = "run" => in_dir
  /\ CrashOnlyIfDisturbed

\* In a list that is being run no binary was missing so far.
ListInv ==
  bench \in {"exists", "run"} /\ in_dir /\ ~disturbed /\ list <= Len(Lists) =>
    \A i \in 1 .. Len(Lists[list]) : i < pair => bin[Lists[list][i]] # Absent

Ran(l, i) == l < list \/ (l = list /\ i < pair)

RankInv ==
  bench \in {"exists", "run"} /\ in_dir /\ ~disturbed =>
    \A l \in 1 .. Len(Lists) : \A i \in 1 .. Len(Lists[l]) :
      benchmarks[Lists[l][i]] =
        IF Ran(l, i) /\ i \in Reachable(Lists[l]) THEN bin[Lists[l][i]] ELSE Unmeasured

ShellInv ==
  bench = "shell" /\ in_dir /\ ~disturbed =>
    \A i \in 1 .. Len(ShellOrder) :
      benchmarks[ShellOrder[i]] =
        IF i < pair /\ bin[ShellOrder[i]] # Absent THEN bin[ShellOrder[i]] ELSE Unmeasured

DateInv ==
  ReadInv /\ ObjectDates /\ ReadDates /\ BinaryDates /\ SavedInv /\ ObjectInv

IInv == /\ TypeOK /\ StageInv /\ SourcesInv /\ DateInv /\ CompileInv /\ NeverStale /\ CleanInv
        /\ PositionInv /\ QuietInv /\ ListInv /\ RankInv /\ ShellInv
=============================================================================
