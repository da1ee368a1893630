SPECIFICATION Spec
CONSTANTS
  spk1 = spk1
  spk2 = spk2
  fst = fst
  thr = thr
  mqm = mqm
  Binaries = {spk1, spk2, fst, thr, mqm}
  NUnits = 4
  Bins <- MCBins
  Kind <- MCKind
  Lists <- MCLists
  ShellOrder <- MCShell
  Absent = Absent
  Unmeasured = Unmeasured
  MaxEdits = 1
  MaxScripts = 2
  MaxBenches = 1
INVARIANTS CompiledSound NeverStale QuietRanking CrashOnlyIfDisturbed FreshRanking
PROPERTIES AllEnd
CHECK_DEADLOCK FALSE
