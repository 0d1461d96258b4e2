# A verification project for PyAhead

PyAhead scans a Python project for uses of interpreter features that a later
Python version deprecates or removes, compares the findings with a baseline,
assesses dependencies with an isolated `uv` resolver, and merges in warnings
recorded by a pytest plugin.  The modules in this directory model the parts of
it whose correctness depends on the order of events, on failures or on an
argument over many inputs.  TLC checks them on small instances, and TLAPS proves
most of what is checked for all values of the constants.

Contents: 1. the system; 2. the modules and the code; 3. the runs;
4. the proofs; 5. disagreements between the code and its documentation;
6. what is not modelled; 7. what is left.

Run a check with `tlc -config RunnerPosix.cfg ProcessRunner`, a proof with
`tlapm ProcessRunner_proofs.tla`.  `PROJECT.json` lists the runs, the lines of
code each definition stands for, the mutated definitions that show each property
can fail, the hazards and the theorems.

## 1. The system

All paths are relative to `src/pyahead` unless they start with `docs` or `scripts`.

| Component | State it keeps | Operations | What makes it correct | Module |
| --- | --- | --- | --- | --- |
| **Contained subprocess runner** `dependencies/_process.py` | the process and its containment (process group or Job Object, `terminated`, a lock), two reader threads with bounded buffers, an overflow event, a cause and an interruption | `_run_bounded_process`; `terminate` from three threads; the finishing helpers, each retried once after an interrupt | nothing runs outside the containment; a recorded kill is final; a completed result is whole; the call ends and leaves nothing behind (each with the exceptions section 5 names) | `ProcessRunner` |
| **Atomic output** `output.py`, `_fs/chain.py` | descriptors of a directory chain, a temporary file and whether `finally` knows its name | `write_text_atomic`, pinned to a root or by path | a reader sees a whole text or the earlier one; success means the text is at the requested path; no temporary file stays | `AtomicOutput` implements `OutputStore` |
| **Windows handles** `_fs/windows.py` | locked handles of the same chain | the same protocols, locked instead of revalidated | as above and below | |
| **Rooted reads** `_fs/rooted.py` | the chain and an open file | bounded read between two validations | what is returned was at the path, whole and within the limit | `Scan` |
| **Discovery** `analysis/discovery.py`, `_fs/ignore.py` | a stack of directories, ignore rules, limits | bounded walk, module naming | each file once, none outside the roots, incompleteness reported | `ScanTree`, `Scan` |
| **Scan engine** `analysis/engine.py` | the matches and diagnostics of a file, dynamic modules, the source of the first visit | read loop, parse, visit, a second visit for import fallbacks | the second visit sees the first one's source; a failed file is a diagnostic | `Scan`, `Matching` |
| **Guard evaluation** `analysis/reachability.py`, `analysis/import_guards.py` | none | three-valued evaluation of `sys.version_info` and `TYPE_CHECKING` guards | a decision agrees with every interpreter of the version | `VersionGuards` |
| **Reachability tracking** the same, with `analysis/known_imports.py` | a stack of lexical states, states recorded for suites and elifs, nodes pushed, depth of fallback handlers | enter and leave a node, assign the branches of an `if`, narrow the handlers of a `try` | no suite that runs is pruned; leaving restores what entering found | `Reachability` |
| **Matchers** `analysis/matchers` | bindings of one file | recognise imports, references, calls, call shapes and patterns | what fails is reported; high confidence is proof | `MatchRules`, `ProgramRuns`, `Matching` |
| **Suppressions** `analysis/suppressions.py` | comments and the statements they bind to | parse, bind, look up | a comment silences its own logical statement only | `Suppressions`, `Matching` |
| **Findings, gate, baseline** `analysis/findings.py`, `timeline.py`, `baseline.py`, `model.py`, `cli.py` | the baseline file | deduplicate, adjust for `sys.path`, cover imports by uses, filter, number, fingerprint; the gate; baseline creation | identity survives filters and edits elsewhere; nothing new passes the gate; success means clean | `Findings` |
| **Configuration** `config.py` | none | find the document, override it, infer the first version, build the policy | every supported version the project admits is in the policy | `Configuration`, `Findings` |
| **Warning evidence producer** `pytest_plugin.py` | retained warnings, byte counts, capture flags, the tombstone on disk | start, collect, finish, write | evidence of an earlier run never survives; a gap makes the evidence incomplete | `WarningEvidence` |
| **Warning evidence consumer** `evidence.py` | merged documents | load, deduplicate, bound, correlate | nothing counted twice; corroboration is earned | `WarningEvidence` |
| **Dependency configuration, targets** `dependencies/_config.py`, `_targets.py`, `_model.py` | none | read a table, override it, validate targets and tags | an accepted target is one an interpreter can be | `DependencyConfiguration`, `DependencyTargets` |
| **Artifact inspection** `dependencies/_archives.py`, `_metadata.py`, `_artifacts.py` | two budgets | bounded archive reads, identity and metadata checks | budgets bound the work; metadata says no more than it may | `ArtifactMetadata`, `DependencyReport` |
| **Resolver adapter** `dependencies/_uv.py` | a temporary directory | stage, a version query and a compile, each one bounded run | no failure of either becomes a verdict | `DependencyReport` |
| **Resolution, assessment** `dependencies/_resolution.py`, `_assessment.py`, `_report.py` | a work list | validate structured evidence, derive verdicts, correlate, exit code | fails closed | `DependencyRules`, `DependencyReport` |
| **Registry**, **reporting** `registry`, `reporting` | none | validation of authored data, formatting | pure functions | |
| **Validation scripts** `scripts` | a probe process, its deadline, drained output | `_run_isolated` and sequential tooling | one absolute deadline covers a whole probe | |
| **Continuous integration** `action.yml` | none | wraps the command line | | |

How they interact.  The command line resolves a configuration, and the engine
discovers and reads files through rooted reads, visits each with the matchers
and the reachability tracker, binds the suppressions, and hands its matches to
`build_findings`.  The baseline and the suppressions decide which findings the
gate looks at.  Reports, baselines and evidence are written by atomic output.
Dependency assessment inspects the configured files, calls the resolver adapter,
which makes two bounded runs, and validates what they say.  The pytest plugin
runs in another process and meets the rest only through its evidence file.

What is hard.  Only the subprocess runner (and the script that repeats it) has
threads; it meets signals, processes that fork and leave their group, pipes that
stay open, and calls that fail during the cleanup of another failure.  Atomic
output, scans, evidence and artifact staging meet other programs that change the
same files between two calls.  The rest is sequential; what a test hardly
reaches there is the protocol between the visitor and the tracker, agreement
with what interpreters do over all versions, identity of findings over a
sequence of edits and configurations, and verdicts that go further than the
evidence.  `PROJECT.json` lists the hazards at their lines.

## 2. The modules and the code

### How the modules compose

```
OutputStore <--implements-- AtomicOutput
ProcessRunner                                   (its results are what DependencyReport's uv steps allow)
VersionGuards <-- Reachability
VersionGuards <-- MatchRules <-- ProgramRuns <-- Matching --instance--> Suppressions
Configuration <-- Findings                      (a site's Raw matches are what Matching records)
ScanTree <-- Scan
DependencyRules, DependencyTargets <-- ArtifactMetadata <-- DependencyConfiguration <-- DependencyReport
WarningEvidence

FiniteInduction <-- AtomicOutput_proofs, Findings_proofs, DependencyReport_proofs,
                    WarningEvidence_proofs, Scan_proofs, Analysis_proofs
ProcessRunner <-- ProcessRunner_proofs          and each other proof module extends its component's
Reachability, Matching <-- Analysis_proofs      (guards, tracking, suppressions, matching)
```

### ProcessRunner

One call of `_run_bounded_process`.  There are three actors: `main` and the two
readers.  `pc` is the place of the main thread, one label per blocking call;
`term[a]` is how far actor `a` is inside `containment.terminate()`, which is
entered with the lock, makes one operating-system call after another until one
succeeds, and then assigns flags: on Windows the Job is disposed of, and if that
fails the root is killed alone, which is not recorded while the Job is attached;
on POSIX `killpg`, and if that raises `OSError` the root is killed alone, which
*is* recorded as having killed the tree (`_process.py` 286 to 297).  `spared` is
the history of that case: the last `killpg` failed with the group alive.
The process tree (`root`, `kid`, `quiet`) moves on its own: processes fork, close
the pipes they inherited, leave the group with `setsid()` (POSIX), write and exit.
`quiet` is the set of descendants that no longer hold the output pipes, so a
reader sees the end of file exactly when everything outside `quiet` is dead.

| Code | Actions |
| --- | --- |
| `_start_contained_process`, `_popen_attached_process` | `Spawn`, `SpawnDeferringInterrupt`, `SpawnFails`, `CreateJob`, `ResumeRoot`, `ContainFails` |
| `_cleanup_failed_process_start` | the phases `fs_term`, `fs_wait`, `fs_close` |
| the body of `_run_bounded_process` | `StartReader`, `WaitRoot`, `WaitTimesOut`, the phases `t_term` and `t_wait`, `Verdict` |
| `_ProcessContainment.terminate`, `_dispose_windows_job` | `EnterTerminate`, `DisposeJob`, `DisposeJobFails`, `KillGroup`, `KillGroupFails`, `KillRootProcess`, `KillFails`, `RecordKill`, `SkipKill` |
| `_read_process_pipe` | `BeginRead`, `ReadUnit`, `ReadEnd`, `ReadFails`, `FinishOverflow` |
| `_finish_process_readers` and its helpers | the phases `fin_term` to `close2`: `MainTerminates`, `CleanupWait`, `JoinReader`, `JoinTimesOut`, `CloseStream` |
| `KeyboardInterrupt` | `InterruptBody`, `InterruptGuarded` (the call is made once more), `InterruptUnguarded` (between two guarded calls, where nothing catches it) |

Three facts of the platform carry the model.  `close()` of a buffered stream
needs the lock that a `read()` in progress holds, so `CloseStream` waits for the
reader.  `killpg` and a Job Object reach the descendants that stayed inside, a
process that called `setsid()` is `escaped`.  `killpg` may fail although the
group is there; for a group that is gone (`GroupGone`) it raises too, but then
nothing is left to kill.  `Popen.kill()` raises nothing for a process it finds to
have ended, and may reap it.  A unit of output is one read of
`_TAR_READ_CHUNK_BYTES`, of which the stream limit is a multiple.  Time is not
measured: a bounded wait may end as soon as what it waits for has not happened.

### OutputStore and AtomicOutput

`OutputStore` is the abstract promise: each directory's output file holds one
whole text, a write takes effect once and at one instant, success only follows
the effect.  `AtomicOutput` is the code: a writer with a root pins one
descriptor per directory (`LookUp`, `OpenNext`), validates the chain four times
(`Validate`, one directory at a time), and works beneath the innermost
descriptor; a writer without one follows the path anew in each call.  Both
create a temporary file under an unused name, write, synchronise, look at the
name again, rename, and clean up in `finally` (`MatchTemporary`, `Unlink`).
Around them directories are moved (`Rebind`), temporary files are removed,
calls fail, interrupts arrive, a process is killed and the machine stops
(`PowerLoss`, after which unsynchronised text is torn).  `Store` maps the files
to texts and the program counters to results; `AtomicStore` is the refinement.

The history variable `spoiled` names the writers whose last word was cut off: an
interrupt or a failing call right after the temporary file appeared, in the
validation after the rename, or in the cleanup itself.  `restored` records that
a directory was moved away and back, which no later comparison can notice.

### ScanTree and Scan

`ScanTree` has no state.  A tree maps inode numbers to inodes (directory, file or
link, with a stamp that every change advances), so links, replaced directories
and renamed files are edits of one function.  Paths are followed by recursive
functions over their names.  Its operators are the path policy:
link resolution, built-in exclusions, include, exclude and ignore files,
directory and file eligibility, the names of modules, and the two results of
visiting a source (its mutations of `sys.path`, its import fallbacks).
`EligiblePaths` is the reference the walk is compared with.

`Scan` is one `engine.scan`, one system call at a time where two of them must
agree, with other programs editing between them (`Unlink`, `Replace`, `Overwrite`).

| Code | Actions |
| --- | --- |
| `discover_python_files`, one requested path (`discovery.py`) | `RequestOutside`, `RequestThroughLink`, `RequestBuiltIn`, `RequestDirectory`, `RequestFile` |
| the walk | `ListDirectory`, `PrepareDirectory`, `VisitSubdirectory` (one name at a time), `SubdirectoriesVisited`, `SkipFile`, `SourceDisappears`, `VisitSource`, `LeaveDirectory` |
| the three discoveries of `scan` | `ModulesFound`, `SourcesFound`, `DynamicFound`, `BoundExceeded` |
| `read_rooted_bytes` (`_fs/rooted.py`) | `BeginRead`, `StatEntry`, `OpenEntry`, `ReadChunk`, `ValidateChain`, `ValidateLeaf` |
| the end of `scan` (`engine.py` 1642 to 1706) | `ReportStatic`, `ReportInferred`, `SearchDynamic` |

Abstractions: an ignore file, an include and an exclude option each hold one
pattern, a name with the two flags that gitignore has; a file is read in two
chunks; the body of an import fallback is one module; one request is judged in
one step.  Every edit of a file, also its
renaming, changes what `_same_stable_file` compares: a change that restores size,
times and inode cannot be noticed by any program.  The progress callback is left
out, and what the matches become belongs to `Findings`.

### VersionGuards and Reachability

`VersionGuards` has no state.  A guard is a sequence of subexpressions, operands
before operators.  `Holds` is what an interpreter makes of it, comparing real
`sys.version_info` tuples; `Evaluate` and `Branch` are `evaluate_guard` and
`branch_reachability`, and `EvaluateImport` is `evaluate_import_guard`.
Evaluation is a recursive function, so that it can be proved about.

`Reachability` drives the tracker.  `stack`, `suites`, `elifs`, `pushed`,
`fallback` and `depth` are the tracker's own fields; `open` is the path of
statements and suites from the module to the place being visited, each with the
interpreters that may really execute it.  Every action is one callback of the
visitor: `StartIf` and `StartElif` (`visit_If`), `EnterBody`, `EnterElse` and
`EnterHandler` (`visit_IndentedBlock`), `LeaveBlock`, `LeaveIf`, `StartTry` and
`LeaveTry`.  The module being visited is chosen on the way, so a run covers every
module of the given size.

### MatchRules, ProgramRuns, Suppressions and Matching

A file is a sequence of constructs, each with the compound statements around it;
the statements hold one construct each.  `MatchRules` is what the analyser knows
of such a file: name resolution over LibCST's assignments, constants usable as
guards, import matches at prefixes and aliases, `hasattr` protection, call
shapes with star arguments, and the versions on which an imported symbol must
fail.  `ProgramRuns` is what it is measured against and has no counterpart in
the code: the interpreters that may or must reach a construct, what a name can
denote, which handler keeps a failure.  `Suppressions` binds the comments of a
file to its logical statements and looks a finding's statement up.  `Matching` is
`_MatcherVisitor`: `VisitCompound` and `LeaveCompound` enter and leave the
statements around a construct, `VisitNode` is the visitor method of its kind
(`VisitImport`, `VisitImportFrom`, `VisitUse`, `VisitCall`, `VisitInversion`,
`VisitAssign`), and `Suppress` binds the comments when all are visited.

What the code declines to know is declined in `ProgramRuns` too.  A name that
anything but imports binds denotes nothing (`Denoted`), and a handler's types are
resolved only to built-in names.  "General handler control flow is not evaluated"
(`docs/design.md`): a handler keeps a failure when it names its type and does not
raise, and the `else` of a `try` is assumed to run.  A one-line compound
statement's header has no region of its own, so a comment there speaks for the
suite (`StatementLines`).  Loops, `with` and `match` statements are not modelled.

### Configuration and Findings

`Configuration` turns a setup (the options, the `pyproject.toml` and an explicit
file) into a policy: which document is read, what refuses it, which value wins,
the source roots, and the first version inferred from `requires-python` over the
registry's releases.  Options and tables are functions over the keys that are
present.  `requires-python` is a set of clauses over final releases, with the
candidate patch releases the code tries.

In `Findings` a site is one construct with all the matches the matchers record
for it (`Raw`).  `Matches` to `Report` are the stages of `build_findings`: what is
read, deduplication, the adjustment for changed `sys.path`, coverage of an import
by reported uses, the filters.  `Ordinal` and `Fingerprint` are a finding's
identity, `GateFailed` and `ExitCode` are the report's.  The state is the
project: its source, suppressions, unreadable files and setup, all changed by
developers, and the baseline file, written once by `_create_baseline` and left
behind by later edits.  A refused setup reports nothing and takes no baseline.

### WarningEvidence

One module for both sides, because they only share the artifact files and a
check may read these while a session empties or writes them.

| Code | Actions |
| --- | --- |
| `pytest_plugin.py`, `pytest_cmdline_main`, `pytest_configure` | `StartPytest`, `CommandLine`, `Configure`, `ConfigureFails` |
| `_WarningCollector` | `SessionStart`, `WarningRaised`, `SessionFinish` (with `render_evidence_document`) |
| the rest of the world | `ToggleCapture`, `Killed`, `Commit`, `Deliver` |
| `evidence.py`, `_load_evidence_set` | `CheckStart`, `LoadEvidence` |
| `merge_evidence` and the interval index | `MergeEvidence` |

`owner` is a ghost: the last session or delivery that a path belongs to.  `Deliver` copies an
artifact of another job to a path: another layout, invalid JSON, a repeated
member, another shape, a document that contradicts itself or the schema.  The
schema's rules about single texts are one of these forms, and the conversion of a
commit to lower case is left out.  Sizes are an envelope and a number per warning.

### The dependency modules

`DependencyRules` is what both the adapter and the assessment derive from
requirements and metadata: specifiers, markers with extras, groups, conflicting
and unavailable names, `Assess` for one candidate, root and need correlation.
`DependencyTargets` decides whether a declared target agrees with itself and
which tags it has, `ArtifactMetadata` what one file costs to read and what its
archive, headers and name say, `DependencyConfiguration` what is refused before
anything is read.  `DependencyReport` is the operation:

| Code | Actions |
| --- | --- |
| `load_dependency_configuration` (`_config.py`) | `Configure` |
| `inspect_dependency_metadata` (`_metadata.py`, `_archives.py`) | `InspectFile`, `InspectionFails`, `Inspected` |
| `collect_dependency_report` (`_report.py`) | `EvaluateRoots`, `NoResolution`, `AskInjected`, `Validate`, `Exhaust` |
| the adapter (`_uv.py`) | `EnterAdapter`, `Decline`, `Accept`, `Stage`, `Probe`, `ProbeFails`, `CompileSucceeds`, `CompileFails`, `CompileBreaks` |
| `_assessment.py`, `_resolution.py` | `Group`, `Seed`, `AssessNext`, `AssessSample`, `Judge`, `Close` |
| correlation, `exit_code`, `dependency_report_document` | `CorrelateRoots`, `CorrelateNeeds`, `Exit`, `WriteJson` |
| another process | `Rewrite`, between inspection and staging |

A report has one row per target and follows one of them here.  Duplicates are
equal spellings; names are canonical already; sizes are units, with the
read-ahead of the tar stream left out, and a damaged archive is one flag (a tar
that is not sound has no end).  uv may answer anything: any lock over the
inventory and the index, any diagnostic of the reviewed grammars or of none,
quoting any of the active roots, and each of its two processes may fail in each
way `ProcessRunner` lets one.  `Exhaust` is the budget of marker evaluations and
comparisons, which may run out in any of the steps that use it.

## 3. The runs

| Run | Instance | Distinct states | What it shows |
| --- | --- | --- | --- |
| `RunnerPosix` | POSIX, fair, 1 descendant that may leave the group, up to 2 units per pipe with a limit of 1, 2 interrupts and 2 failing calls, but 3 of them together, stalling threads | 1,246,000 | `CompletedIsWhole`, `OverflowIsReal`, `TerminatedIsFinal`, `CleanReturn`, `Returns`, `TypeOK` |
| `RunnerNt` | Windows, the same with all 4 together | 1,982,000 | `NothingRunsUncontained`, `SafeInv`, `StaleCloseNeedsInterrupt` |
| `OutputPinned` | one pinned and one path-based writer, 2 levels with 2 directories each, 2 changes by others, 1 interrupt | 603,000 | the refinement `AtomicStore`, `SuccessIsVisible`, `FailureIsInvisible`, `NoLitter` |
| `Reachability` | 3 minors of 2 micros each, modules of up to 3 compound statements, 16 guards for the first and 4 for the others, 4 try bodies | 742,000 | `Sound`, `Exact`, `CertainImports`, `Restores` |
| `Matching` | 3 target versions, 12 rules of every kind, one construct behind every combination of the bindings, guards, handlers, functions, stars and comments its visitor looks at | 61,193 | `FailuresAreReported`, `HighIsProven`, `SuppressedAsWritten` |
| `Findings` | 10 sites in 2 files, 6 setups, 4 releases, 4 initial projects, 2 edits and a baseline | 88,000 | `BaselinedStaysKnown`, `GateCountsOccurrences`, `EverythingReported`, `UneditedIsQuiet`, `SuccessIsClean` |
| `Scan` | trees of up to 11 inodes with links and ignore files, a bound of 4 entries, 7 lists of requests; up to 2 edits around the reads, the discovery and the search for dynamic modules | 37,000 | `SnapshotPerFile`, `CompleteScanMissesNothing`, `HandlersSettled` |
| `WarningEvidence` | 2 paths, 2 sessions or deliveries, 6 warnings of which 3 may precede the plugin, 2 raised, 2 changes of capture, 2 commits, 15 delivered files, 6 reports | 300,000 | `NoStaleEvidence`, `CompleteIsWhole`, `LongestPrefixKept`, `CorroborationIsEarned`, `EveryObservationOnce` |
| `Dependencies` | 2 packages in versions 10, its local variant 11, and 20; applications, libraries, refused tables, one defect in each place of an archive, contradictory targets | 377,000 | `CompatibleIsSelected`, `SuccessIsInstallable`, `NegativeIsReal`, `CompleteIsInspected`, `AssessmentsAreFresh`, `ExhaustedStaysExhausted`, `ReportEnds` |
| `RunnerDeadline` | POSIX, fair, 1 descendant | | violated, section 5 |
| `RunnerUnclosed` | POSIX, 1 descendant | | violated, section 5 |
| `DependencyOwnReport` | an offline application with one pin and one or two wheels of other tags | | violated, section 5 |

Why the bounds are enough to be of interest.

- *Runner.*  The descendant can leave the group, hold, close or flood a pipe; a
  limit of one unit with two written reaches both sides of the limit; both
  readers can overflow while main times out, so all three actors meet in
  `terminate()`; two interrupts lose both attempts of a guarded call or one
  attempt of two calls; a failing call in addition makes a Job survive its disposal;
  two failing calls let `killpg` and the kill of the root fail in one attempt, or
  `killpg` fail in both.
- *Output.*  Two levels separate a move of the parent from a move of its parent,
  the spare directories are what a move puts in place, two tokens and two
  attempts reach the exhaustion of names.
- *Tracker.*  Three statements allow an elif of an elif, an `if` inside a handler
  inside an `if`, and an elif beside a suite that was narrowed; three minors put a
  version below, at and above every literal, and two micros split the literal's own.
- *Matching.*  A visitor looks at one construct, what is around it and what
  binds its names: the files put two or three statements around a construct and
  up to two bindings before it, of every kind.  Three versions are before, at and
  after a removal.
- *Findings.*  Two edits after or before the baseline reach a replaced
  occurrence, a moved one, and a change of source together with one of
  configuration.  One declaration admits every patch of a minor version, one only
  the patches after the first two.
- *Scan.*  The bound of four lies inside the wide tree and is met by one request
  or by several.  Two edits replace a directory and put it back, or change a file
  before and after the same read.  A file of the other directory takes the place
  of the one being read with another content.
- *Evidence.*  The warnings before configuration fill the record bound, the last
  fill the byte bound, and two deliveries put the same content under two paths.
- *Dependencies.*  Two packages can need each other's extras in a cycle, a local
  variant makes two versions of one pin, and the budget of six units is used up
  by an archive that comes first, second or last.

`MaxWritten`, `MaxInterrupts`, `MaxFaults`, `MaxTroubles`, `MaxChanges`, `MaxNodes`, `MaxEdits`,
`MaxSessions`, `MaxRaised`, `MaxToggles`, `MaxCommit`, `MaxLocked` and the
`edits` of a scenario are used only as guards of the actions they bound.
`Limit`, `Limits`, `MaxExpanded` and `MaxRequires` are bounds of the program,
made small.  Deadlock is not an error in any run: a call returns, a scan ends, a
developer stops.

**Fairness.**  `FairSpec` of `ProcessRunner` has weak fairness of `MainStep` and of
each reader's `ReaderStep`: the interpreter schedules its threads, and each of
these steps is a bounded wait or a call that returns.  Operating-system processes
and the keyboard get none: a resolver may run for ever, and `Returns` still holds
because every wait for it has a deadline.  `Returns` has two exceptions, which
are the code's: two lost attempts of the final cleanup may leave the tree alive,
and a process that left the group, or that a failed `killpg` left alone, may hold
a pipe.  `Spec` of `DependencyReport` has weak fairness of `Pipeline`: one
sequential thread whose bounded runs end, by `Returns`.  That no step of it puts a
candidate back for ever is `ReportEnds`.  Nothing else states fairness.

**The abstraction of inputs.**  Guards, try bodies, sites, files, trees and
reports are chosen in the MC modules so that each distinction in the code is
made by some value: every shape and operator class of version comparison,
operands in both orders, `TYPE_CHECKING` alone, negated and mixed; uses and
imports at both confidences, covered or not; each defect of an archive once and
in each place where it is looked for.

## 4. The proofs

Every theorem holds for all values of the constants that the assumptions named
below admit: any number of processes, writers, directories, versions, rules,
sites and edits, files and trees of any size.  `PROJECT.json` lists the theorems
a reader should know of; each file states its invariant first and has one lemma
per group of actions, or per conjunct, under it.

### The assumptions

They are in the modules that declare the constants, and TLC evaluates them in
every run.  They say what the inputs are, never what the code does with them.

| Assumption | What it says | Why it is so |
| --- | --- | --- |
| `RunnerAssumption` | types; a process leaves its group only on POSIX | Windows has no `setsid()`, and the Job is created without a breakaway right (`_process.py`) |
| `OutputAssumption` | types; a directory has one level of the path; the destination is no random name | a path names one directory per level; `_temporary_name` adds a prefix and a suffix |
| `TargetsAssumption`, `ReachabilityAssumption` | versions are numbers, operands of a guard come first, the two tables of known imports have the same modules | `known_imports.py` is one table with two columns |
| `RulesAssumption`, `IdentifiersAssumption`, `FilesAssumption` (matching) | rules and files have the form that the registry's schema and the parser give them; an identifier names one rule; a file is no larger than `Room` | `registry/schema.py` refuses duplicates |
| `FindingsAssumption`, `RawAssumption`, `RulesAssumption`, `ReleasesAssumption`, `SetupsAssumption` (findings) | types; the matches of one construct and kind are recorded in one lexical state; a setup that is not refused holds values of the right type | a visitor method records all its matches before the state changes; `config.py` refuses the rest |
| `LimitsAssumption`, `BoundsAssumption`, `SetupsAssumption`, `InjectedAssumption` (dependencies) | limits are numbers, tables and injected results have their fields | `_config.py` and the dataclasses of `_model.py` |
| `NamesAssumption`, `ScenariosAssumption`, `LimitAssumption` (scan) | the tree is one: no inode has two directories above it, every directory is below the root and no deeper than `Depth`; what is requested is made of its names; mutations are about targets | a file system; `Depth` is any number |
| `InputsAssumption`, `ScansAssumption` (evidence) | types; sizes and limits are numbers; a region does not end before it starts; a fingerprint names one finding | `findings.py` 196, proved of `Findings` as `OccurrencesCounted` |

### ProcessRunner_proofs

`TypeCorrect` (`TypeOK`, with the bound on retained output) and `Safe`
(`SafeInv`) come first.  That a recorded kill is final is not inductive.  What
makes it so: only the holder of the lock is inside `terminate()`, and it entered
before the kill was recorded (`LockHeld`); whoever is about to record a kill has
already killed the tree, or, when `killpg` failed with the group alive, its root
(`KillSound`), and what is dead stays dead because only a
live contained process or the start sequence makes new ones; in the start
sequence nothing can be killed yet (`StartAlone`).  On Windows one actor's kill
reaches the tree only through the Job, so `JobContains` links a running process to
an open Job, and an open Job to the handle in the containment.
`TerminationIsFinal` and `Containment` are the consequences a user cares about.
`KillIsWhole` bounds the exception in the first: on Windows there is none, and on
POSIX none before a system call has failed (`SparedByFailure`).

The other four each need an invariant of their own on top.

- `OverflowReal`: `CountInv`, what was written to a pipe is what is unread and what
  is retained unless a reader discarded some, which only one past its limit does.
- `WholeResult` (`CompletedIsWhole`): `OutcomeInv` says that a completed outcome
  was decided when both readers had ended without failure or overflow, `JoinInv`
  that in a call which nothing disturbed they ended at the end of the pipe, since
  the streams are not closed before both joins.
- `CleanEnd` (`CleanReturn`): `CleanupInv` counts attempts: past the kill the tree
  is recorded dead, and past a close the stream is closed, unless an attempt and
  its retry were both lost.  A recorded kill that spared the group counts as a
  kill here, as it does in the code, so the theorem names it as an exception.
- `HandleClosedOnce` (`StaleCloseNeedsInterrupt`).

### AtomicOutput_proofs

- `StoreImplemented`: every behaviour of `AtomicOutput` is one of `OutputStore`
  under the refinement mapping.  Needed is `OwnerInv`: a random name leads only to
  the file it was drawn for, so that a rename puts the writer's own text in place,
  and what is in place is synchronised, so that a power loss cannot tear it.
- `SuccessSeen` and `FailureUnseen`: `HomeInv` (a pinned writer's files are in the
  innermost directory it pinned), `LinkInv` (a pinned position is bound as it was or
  its directory is in `left`, and while none was put back none of those is bound)
  and `SightInv`, which says where in the last validation a moved directory is
  still to be met.
- `NothingLeft`: `LitterInv`, with `PathInv` for writers that follow the path.

`Parent` is a recursion over the levels of the path; `RouteUnique` is the lemma
that makes it one path.

### FiniteInduction

The library's induction theorems take an operator as a parameter, which the
provers cannot instantiate.  This module states induction with sets in place of
predicates: the set of arguments for which a claim holds is named, and a lemma
says that it is all of them (least counterexample, greatest element, growing a
finite set by one element, the end of a run of steps).  The proofs about recursive
functions and folds below go through it.  It also has what several
of them need of counting the members of a set of numbers and of short sequences.

### WarningEvidence_proofs

- `NothingStale`: `OwnerInv`, the session that collects owns the path it writes
  to, and one that has not configured owns none.
- `IntervalTreeExact`: the interval tree of `evidence.py` returns what a search of
  the list would, for every finite set of regions, by induction over the sets.
- `CorroborationEarned` and `ObservedExactlyOnce`: `ReadInv`, of two artifacts with
  the same content the one with the first path is kept, and what was observed is
  a function of the artifacts kept.
- `WholeOrIncomplete` (`CompleteIsWhole`): `HonestInv`, the warnings a session was
  given are those it keeps and those it dropped, and capture that was away leaves a
  trace, it is away still or was put back.  The document lists the kept warnings
  in their order (`LinesAre`, by induction over them), and what a cut takes from
  the list it adds to the dropped (`CutCounts`).
- `LongestKept` (`LongestPrefixKept`): sizes are sums over what a document shows, so
  what fits is closed under shortening (`FitsDown`), and on such a property the
  binary search ends at the longest (`FitLongest`, by induction over the length of
  the range it looks at).

### Analysis_proofs

It has four parts, in this order.

*Guards.*  `ComparisonSound` and `PatchComparisonSound`: what `evaluate_guard` and
`_patch_comparison` decide of a comparison for a minor version every interpreter
of it decides so.  The arbitrary field that stands for the rest of an unsliced
`version_info` is never reached by a comparison with two fields, and the
three-field literal's own minor is left undecided.  With `ConnectivesSound` and
induction over the positions of a guard follow `EvaluateSound` and
`EvaluateImportSound`, for guards of every size, and of them `BranchSound` and
`BranchExact`.

*Tracking.*  `Inv` of the tracker has five parts.  `NamedInv`: the suites of a
statement are named after it and numbered in the order they are met, so no
recorded state is that of another suite.  `Stacked`: the height of the stack and
the fallback depth at each open frame, from which `LeavingRestores` follows.
`Earned`: the state on top of a frame keeps every interpreter that gets there,
and what is recorded for a branch still to come keeps those that will take it;
with decided guards around, it keeps no others.  `Enclosed`: who gets to a frame
is decided by the frame around it.  `ReachableKept`, `NothingExtra` and
`ImportsCertain` follow.

*Suppressions.*  `CommentsMuteWhatTheyName` (`SuppressedAsWritten`): the code binds
a comment to the region that is the shortest around its line, and looks a finding
up by its own region; the property speaks of the lines of the statement.  What
relates them is that two regions of a file share no line and that the lines of
a construct, its header and its suite are disjoint intervals whose ends follow
from the spans before them.  `PlaceInv`, `FoundInv` and `MutedInv` say where the
traversal is and that the lookup happens when everything was found.

*Matching.*  `HighProven` (`HighIsProven`) and `FailuresReported`
(`FailuresAreReported`) compare what the analyser knows of a file with what runs
of the file do, for files and registries of any size.  The code and the
definition of a run (`ProgramRuns`) were written apart, so most of the argument
relates one idea of the code to one of the language:

| The code asks | It is shown to mean | Lemmas |
| --- | --- | --- |
| `Resolve` among the bindings of a scope | what the path denotes when it is evaluated | `ImportedName`, `HasattrIs`, `GuardedIs` |
| `Optional`, handlers outwards | whether a failed import escapes (`Escapes`) | `CatchesIs`, `EscapesIs` |
| the truth of a guard, through constants or not | every value some run computes for it agrees (`Fit`) | `GuardFits`, `ConstantsFit` (induction over the lines), `ImportFits`, `PlainFits` |
| `ShapeMatches` of the arguments it sees | `SurelyFits`: so does whatever the stars stand for; and without stars the converse | `ShapeProven`, `ShapeFound` |
| `SymbolImportVersions` | the versions on which a run may, and on which it must, get to the import | `MayReach`, `CertainRuns` |

`LexicalInv` is the inductive invariant: a run that gets through the first
compound statements around a construct is in the state they leave on `reach`.
`ProofInv` then says of each match that it is proved (`Proved`), and `ReportInv`
that whatever fails at a construct already visited is reported; both need
`PlaceInv` and `LexicalInv`, because a match takes its versions from the
innermost state.

### Findings_proofs

The invariant `Inv` is short: the policy is that of the setup, and the baseline
is what a report of the recorded scan said.  The work is in what a report is:
each stage keeps a version exactly where the matches affect it, occurrences of
one rule in one scope are numbered without gaps, so a fingerprint stands for one
of them, and numbering comes before filters.  `BaselinedKnown`,
`OccurrencesCounted`, `AllReported`, `UneditedQuiet` and `SuccessClean` are the run's
five properties.  `CandidatesSuffice`: the few patches asked about per minor version
decide whether any release of it is admitted.

### DependencyReport_proofs

`IInv` has a conjunct per stage of the pipeline: `Given` (inputs), `Read` (an
artifact is what a file before the position says), `Staging` (what is copied is
what was inspected), `Sound` (a result was checked against the inventory),
`Listed` and `Propagated` (the work list: an assessment that is not to be made
again was made with all the extras asked of its version, and what it needs is
assessed or listed), `Verdicts`, `Selection` and `Correlated` (a verdict is no
more than the evidence behind it).  From it follow all the safety properties of
the run `Dependencies`; `Frugal` is the invariant of the metadata budget, and
`ReportTypes` is type correctness.

### Scan_proofs

- `SnapshotTaken`: `ReadInv`, as long as the open file has the stamp of the first
  look its content is what was read, and the pinned directory still names it;
  `KeptInv` for what is retained between the two visits.  `TreeInv` and `WalkInv`
  are the types of the tree and of the walk.
- `ScanMissesNothing` (`CompleteScanMissesNothing`): a path is *steady* while no edit
  touched what decides about it.  `CoverInv`: a steady path is found already, or
  what the walk has still to do leads to it, with the rules it is to be judged by
  (`RulesRight`).  `CountInv`: the bound is exceeded by as many paths.  `SoundInv`,
  `UneditedInv` and `CompleteInv` give the converse on a project nobody edits:
  nothing else is found.  `FoundInv` takes it from the entries to the report.
- `HandlersEndSettled` (`HandlersSettled`): `KindInv` and `IndexInv`, the modules the
  first discovery found are those the project can provide, and `FirstInv`, the
  first visit of a source is a function of its text and of them.  So a second
  visit with all the mutations is enough.

### What the attempts to prove changed

- `ExhaustedStaysExhausted` was false where a file costs nothing; it now says that
  no later *archive* is read.
- `CompleteScanMissesNothing` was false if nested ignore files are edited between the
  loading of the root's rules and those of a directory below, and if a path
  becomes a link to a directory and back: `steady` drops such paths
  (`SameKind`, `SameRules`), and `MCScan` has scenarios for both (`Layered`, `Disguised`).
- An instance of `Matching` had nested modules of a project without the name of
  their package, which the code never produces; `FileForm` excludes it.
- `CorroborationIsEarned` needs that fingerprints are of one finding each, which is
  `ScansAssumption`.

### What stays with TLC

- Liveness: `Returns` and `ReportEnds`, and everything under fairness.
- In `Reachability`, the bounds on the depth of `TypeOK`.  The proofs use `Typed`
  and `Stacked`, which say more about the same variables.

## 5. Where the code and its documentation disagree

- `RunnerDeadline`.  `docs/usage.md` (lines 610 to 613) gives each resolver
  process a finite deadline.  A descendant that calls `setsid()` and keeps an
  output pipe is not reached by `killpg`; the reader stays in `read()`, and
  `stream.close()` in `_finish_process_readers` waits for the stream's lock.  The
  caller does not come back while that process lives.
- `RunnerUnclosed`.  `docs/usage.md` (lines 618 to 621) says that an output pipe
  that does not close produces incomplete evidence.  If such a descendant ends
  after the first join deadline and before the second, the call reports a
  completed result.  `CompletedIsWhole` is stated without this case
  (`heldOpen`): with it the reader may also have found its stream closed.
- `DependencyOwnReport`.  `_validate_dependency_report_semantics` (`_report.py`
  595) is documented to reject forged complete negatives.  It also rejects an
  honest one: an offline application pins `demo==1.0`, the only wheels have other
  tags and are 1.0 and 1.0+local (or it pins `demo[x]==1.0` and the wheel does
  not provide `x`).  uv reports the pin absent, the adapter confirms that, and
  the correlation, which wants one matching version or matching metadata, leaves
  the root unverified.  The JSON writer then raises a `ConfigurationError` (exit
  code 2) where the report's own exit code is 3.

Noted while modelling and not checked by a run of its own: `docs/usage.md` (lines
611 to 613) says that resolver descendants are terminated during cleanup, and the
docstring of `terminate` (line 271) that it kills the isolated process tree.  When
`killpg` fails, only the root is killed, `terminated` is set all the same, no
retry is made, and the rest of the group outlives the call, or keeps it waiting in
`close()` if it holds a pipe.  `test_process_containment_is_idempotent`
(`tests/unit/test_dependencies.py`) asserts the kill of the root and nothing of
the rest.  `TerminatedIsFinal`, `CleanReturn` and `Returns` state this exception
(`spared`), and TLC finds each of them violated without it.

Also noted: `suppressions.py` 306 reads
`node.body` of every compound statement, and a `match` statement has none, so a
file with one and an inline directive ends in an `AttributeError`.  And a
baseline created at medium confidence and checked at high can report a new import
blocker, because the use that covered the import is filtered (`cli.py` 576).

## 6. What is not modelled, and why

- Registry and reporting: validation of authored data and formatting, without a
  state or an order of events.  Also formatting: the text and JSON of a dependency
  report, and the command-line parser.
- The validation of a baseline file, and of records an API caller builds
  (`dependencies/_artifacts.py`): each is a list of independent refusals.
- Windows handles (`_fs/windows.py`): the protocols of `AtomicOutput` and of the
  rooted reader with locks in place of revalidation.  What is left to go wrong
  is the meaning of the sharing modes, which is the operating system's.
- `scripts`, with `_run_isolated` of `pypi_probe.py`, a second subprocess runner
  of the structure of `ProcessRunner` with one absolute deadline; the rest of the
  release tooling and the workflows are sequential wrappers.
- In the analysis: the nesting limits and the parser's failures (a source is
  analysed or is not), loops, `with` and `match` statements, the progress
  callback, LibCST itself (modelled from how it is used).
- In the configuration: pre-release and `===` clauses of `requires-python`.  In
  dependency requirements: prefix and multi-clause specifiers.
- In the runner: the reuse of a process number after the root was reaped (the
  `killpg` at line 286), which needs the machine's whole process table;
  `_cleanup_uncontained_process`, which nothing reaches, because the process is
  attached before anything can raise; and an interrupt between two statements
  that a `try` guards separately (line 606), which is modelled
  (`InterruptUnguarded`) but excluded from `CleanReturn` by `abandoned`: the
  code does not defend against it.
- In the output: the durability of the rename (line 167), which nothing in the
  repository promises; an interrupt between the creation of the temporary file
  and the assignment of its name (line 98), which is modelled and excluded from
  `NoLitter` by `spoiled`.

## 7. What is left

1. Loops, `with` and `match` statements in `Matching`, with the missing `node.body` of
   section 5, once the code handles them.
2. The Windows handle protocol as a second implementation of `OutputStore`.
