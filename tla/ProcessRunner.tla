---------------------------- MODULE ProcessRunner ----------------------------
(***************************************************************************)
(* The contained subprocess runner of src/pyahead/dependencies/_process.py *)
(* One call of _run_bounded_process: the calling thread ("main") spawns a  *)
(* resolver, two reader threads drain its pipes, any of the three may kill *)
(* the process tree, and the operating system runs the tree meanwhile.     *)
(*                                                                         *)
(* A unit of output is one full read of _TAR_READ_CHUNK_BYTES, of which    *)
(* _MAX_RESOLVER_STREAM_BYTES is a multiple.  Time is not measured: a      *)
(* deadline may pass at any moment its wait has not been satisfied.        *)
(***************************************************************************)
EXTENDS Naturals

CONSTANTS
  Platform,       \* os.name: "posix" or "nt"
  Kids,           \* the processes the resolver may start
  Limit,          \* _MAX_RESOLVER_STREAM_BYTES, in reads
  MaxWritten,     \* bound: units each pipe ever carries
  MaxInterrupts,  \* bound: SIGINTs raised in the main thread
  MaxFaults,      \* bound: operating-system calls that fail
  MaxTroubles,    \* bound: SIGINTs and failing calls together
  MayEscape,      \* whether a child may leave the group with setsid()
  MayStall        \* whether a thread may stall past _PROCESS_CLEANUP_SECONDS

ASSUME RunnerAssumption ==
  /\ Platform \in {"posix", "nt"}
  /\ Limit \in Nat /\ MaxWritten \in Nat
  /\ MaxInterrupts \in Nat /\ MaxFaults \in Nat /\ MaxTroubles \in Nat
  /\ MayEscape \in BOOLEAN /\ MayStall \in BOOLEAN
  /\ MayEscape => Platform = "posix"

Streams == {"stdout", "stderr"}
Actors == Streams \cup {"main"}

VARIABLES
  pc,         \* where the main thread is
  on,         \* the stream a join or close loop of main is working on
  tries,      \* attempts already lost of the call main is retrying
  interruption, \* a guarded cleanup call was interrupted
  cause,      \* what the body raised: "none", "interrupted", "error", "timeout"
  outcome,    \* what the call returned or raised, "none" while it runs
  root,       \* the resolver process
  kid,        \* every other process of its tree
  quiet,      \* the kids that do not hold the output pipes
  job,        \* the Windows Job Object: "none", "open", "gone"
  attached,   \* containment.windows_job is not None
  terminated, \* containment.terminated
  lock,       \* the holder of containment.lock, or "free"
  term,       \* how far each actor is inside containment.terminate()
  spared,     \* history: the last killpg failed with the group alive
  reader,     \* the reader threads
  stream,     \* the parent's end of each pipe: "open" or "closed"
  unread,     \* units in each pipe
  retained,   \* units each reader kept
  overflow,   \* the overflow event
  written,    \* history: units ever written to each pipe
  interrupts, \* SIGINTs raised so far
  faults,     \* operating-system failures so far
  setbacks,   \* history: attempts of the final cleanup lost to either
  abandoned,  \* history: an interrupt hit the final cleanup outside its guards
  heldOpen,   \* history: a reader was still at work when its join deadline passed
  staleClose  \* history: a Job handle was closed again after it was gone

tree == <<root, kid, quiet>>
pipes == <<reader, stream, unread, retained, overflow, written>>
containment == <<job, attached, terminated, lock, term, spared, staleClose>>
ledger == <<interrupts, faults, setbacks, abandoned, heldOpen>>
control == <<pc, on, tries, interruption, cause, outcome>>
vars == <<control, tree, containment, pipes, ledger>>

Init ==
  /\ pc = "spawn" /\ on = "stdout" /\ tries = 0
  /\ interruption = FALSE /\ cause = "none" /\ outcome = "none"
  /\ root = "none" /\ kid = [k \in Kids |-> "unborn"] /\ quiet = {}
  /\ job = "none" /\ attached = FALSE /\ terminated = FALSE
  /\ lock = "free" /\ term = [a \in Actors |-> "out"]
  /\ spared = FALSE /\ staleClose = FALSE
  /\ reader = [s \in Streams |-> "idle"]
  /\ stream = [s \in Streams |-> "open"]
  /\ unread = [s \in Streams |-> 0] /\ retained = [s \in Streams |-> 0]
  /\ overflow = FALSE /\ written = [s \in Streams |-> 0]
  /\ interrupts = 0 /\ faults = 0 /\ setbacks = 0
  /\ abandoned = FALSE /\ heldOpen = FALSE

\* The bounds leave room for one more failing call, or one more SIGINT.
MayFail == faults < MaxFaults /\ interrupts + faults < MaxTroubles
MayInterrupt == interrupts < MaxInterrupts /\ interrupts + faults < MaxTroubles

-----------------------------------------------------------------------------
(* The process tree, which the operating system runs on its own.            *)

RootLive == root \in {"suspended", "running"}
Grouped == {k \in Kids : kid[k] = "grouped"}
Escaped == {k \in Kids : kid[k] = "escaped"}

\* A process of the tree still has the write end of the output pipes.
Held == RootLive \/ (Grouped \cup Escaped) \ quiet # {}

\* The part of the tree that the process group or the Job contains is dead.
TreeDead == ~RootLive /\ Grouped = {}

\* No process is left, dead or alive, to answer to the number of the group.
GroupGone == root \in {"none", "reaped"} /\ Grouped = {}

\* A new process inherits the group of its parent, and its pipes unless it
\* closes them; nobody can pass on pipes it has closed.
SpawnKid(k) ==
  /\ kid[k] = "unborn"
  /\ \/ /\ root = "running" \/ Grouped # {}
        /\ kid' = [kid EXCEPT ![k] = "grouped"]
        /\ \/ quiet' = quiet \cup {k}
           \/ (root = "running" \/ Grouped \ quiet # {}) /\ UNCHANGED quiet
     \/ /\ Escaped # {}
        /\ kid' = [kid EXCEPT ![k] = "escaped"]
        /\ \/ quiet' = quiet \cup {k}
           \/ Escaped \ quiet # {} /\ UNCHANGED quiet
  /\ UNCHANGED <<root, control, containment, pipes, ledger>>

EscapeGroup(k) ==
  /\ MayEscape
  /\ kid[k] = "grouped"
  /\ kid' = [kid EXCEPT ![k] = "escaped"]
  /\ UNCHANGED <<root, quiet, control, containment, pipes, ledger>>

ExitKid(k) ==
  /\ kid[k] \in {"grouped", "escaped"}
  /\ kid' = [kid EXCEPT ![k] = "dead"]
  /\ UNCHANGED <<root, quiet, control, containment, pipes, ledger>>

ExitRoot ==
  /\ root = "running"
  /\ root' = "exited"
  /\ UNCHANGED <<kid, quiet, control, containment, pipes, ledger>>

WriteOutput(s) ==
  /\ root = "running" \/ (Grouped \cup Escaped) \ quiet # {}
  /\ stream[s] = "open" /\ written[s] < MaxWritten
  /\ written' = [written EXCEPT ![s] = @ + 1]
  /\ unread' = [unread EXCEPT ![s] = @ + 1]
  /\ UNCHANGED <<tree, control, containment, ledger, reader, stream, retained, overflow>>

ProcessStep ==
  \/ \E k \in Kids : SpawnKid(k) \/ EscapeGroup(k) \/ ExitKid(k)
  \/ ExitRoot
  \/ \E s \in Streams : WriteOutput(s)

-----------------------------------------------------------------------------
(* containment.terminate(): entered with the lock, one operating-system     *)
(* call after another until one succeeds, then the flags and the release.   *)

\* Phases in which main is calling terminate().
TermPhases == {"t_term", "fs_term", "fin_term"}

CallsTerminate(a) ==
  IF a = "main" THEN pc \in TermPhases ELSE reader[a] = "overflowing"

KillContained ==
  /\ root' = IF RootLive THEN "exited" ELSE root
  /\ kid' = [k \in Kids |-> IF kid[k] = "grouped" THEN "dead" ELSE kid[k]]

\* Popen.kill() leaves alone a process it finds to have ended, and may reap it.
KillRoot ==
  /\ \/ RootLive /\ root' = "exited"
     \/ ~RootLive /\ UNCHANGED root
     \/ root = "exited" /\ root' = "reaped"
  /\ UNCHANGED kid

\* Mutant: terminate() without its lock.
EnterUnlocked(a) ==
  /\ CallsTerminate(a) /\ term[a] = "out" /\ ~terminated
  /\ lock' = a
  /\ term' = [term EXCEPT ![a] = "in"]
  /\ UNCHANGED <<control, tree, pipes, ledger, job, attached, terminated, spared, staleClose>>

EnterTerminate(a) ==
  /\ CallsTerminate(a) /\ term[a] = "out"
  /\ lock = "free" /\ ~terminated
  /\ lock' = a
  /\ term' = [term EXCEPT ![a] = "in"]
  /\ UNCHANGED <<control, tree, pipes, ledger, job, attached, terminated, spared, staleClose>>

\* _dispose_windows_job closes the Job, or terminates it when closing fails:
\* either kills what it contains.  A handle that is already gone does neither.
DisposeJob(a) ==
  /\ term[a] = "in" /\ attached
  /\ job = "open" /\ job' = "gone"
  /\ KillContained
  /\ term' = [term EXCEPT ![a] = "job_gone"]
  /\ UNCHANGED <<quiet, control, pipes, ledger, attached, terminated, lock, spared, staleClose>>

\* Neither call succeeds: fall through to killing the root process alone.
DisposeJobFails(a) ==
  /\ term[a] = "in" /\ attached
  /\ \/ job = "open" /\ MayFail /\ faults' = faults + 1 /\ UNCHANGED staleClose
     \/ job = "gone" /\ staleClose' = TRUE /\ UNCHANGED faults
  /\ term' = [term EXCEPT ![a] = "jobless"]
  /\ UNCHANGED <<tree, control, pipes, job, attached, terminated, lock, spared,
                 interrupts, setbacks, abandoned, heldOpen>>

\* No Job is attached, or it could not be disposed of.
Direct(a) == (term[a] = "in" /\ ~attached) \/ term[a] = "jobless"

\* Mutant: process.kill() where the code calls killpg.
KillRootOnly(a) ==
  /\ Platform = "posix" /\ Direct(a)
  /\ KillRoot
  /\ term' = [term EXCEPT ![a] = "done"]
  /\ UNCHANGED <<quiet, control, pipes, ledger, job, attached, terminated, lock, spared, staleClose>>

\* killpg reaches every member of the group.  For a group that is gone it raises,
\* and process.kill() finds the root reaped: nothing is left to kill either way.
KillGroup(a) ==
  /\ Platform = "posix" /\ Direct(a)
  /\ KillContained
  /\ spared' = FALSE
  /\ term' = [term EXCEPT ![a] = "done"]
  /\ UNCHANGED <<quiet, control, pipes, ledger, job, attached, terminated, lock, staleClose>>

\* killpg raises OSError although the group is there: the handler passes, and
\* what comes next reaches the root process alone.
KillGroupFails(a) ==
  /\ Platform = "posix" /\ Direct(a) /\ ~GroupGone
  /\ MayFail /\ faults' = faults + 1
  /\ spared' = (spared \/ ~TreeDead)
  /\ term' = [term EXCEPT ![a] = "root_only"]
  /\ UNCHANGED <<control, tree, pipes, job, attached, terminated, lock, staleClose,
                 interrupts, setbacks, abandoned, heldOpen>>

\* terminate() has come to process.kill(): without a Job, or after killpg.
KillsRoot(a) == term[a] = "root_only" \/ (Platform = "nt" /\ Direct(a))

KillRootProcess(a) ==
  /\ KillsRoot(a)
  /\ KillRoot
  /\ term' = [term EXCEPT ![a] = "done"]
  /\ UNCHANGED <<quiet, control, pipes, ledger, job, attached, terminated, lock, spared, staleClose>>

\* process.kill() itself raises OSError, as it never does for a reaped process.
KillFails(a) ==
  /\ KillsRoot(a) /\ root # "reaped"
  /\ MayFail /\ faults' = faults + 1
  /\ term' = [term EXCEPT ![a] = "missed"]
  /\ UNCHANGED <<control, tree, pipes, job, attached, terminated, lock, spared, staleClose,
                 interrupts, setbacks, abandoned, heldOpen>>

TermStep(a) ==
  \/ EnterTerminate(a) \/ DisposeJob(a) \/ DisposeJobFails(a)
  \/ KillGroup(a) \/ KillGroupFails(a) \/ KillRootProcess(a) \/ KillFails(a)

\* Mutant: the handle of a closed Job is not forgotten, so its kill is not final.
RecordKeepingJob(a) ==
  /\ term[a] \in {"job_gone", "done", "missed"}
  /\ terminated' = (terminated \/ (~attached /\ term[a] # "missed"))
  /\ lock' = "free"
  /\ term' = [term EXCEPT ![a] = "out"]
  /\ UNCHANGED <<job, attached, spared, staleClose>>

\* The last assignments of terminate() and the release of its lock.
RecordKill(a) ==
  /\ term[a] \in {"job_gone", "done", "missed"}
  /\ attached' = (attached /\ term[a] # "job_gone")
  /\ terminated' = (terminated \/ (~attached' /\ term[a] # "missed"))
  /\ lock' = "free"
  /\ term' = [term EXCEPT ![a] = "out"]
  /\ UNCHANGED <<job, spared, staleClose>>

\* terminate() finds the tree already killed and returns.
SkipKill(a) ==
  /\ CallsTerminate(a) /\ term[a] = "out" /\ lock = "free" /\ terminated
  /\ UNCHANGED containment

-----------------------------------------------------------------------------
(* The reader threads: _read_process_pipe.  stream.read() holds the lock of *)
(* the buffered stream until it has a full unit or reaches the end of file. *)

Started == {s \in Streams : reader[s] # "idle"}
Alive(s) == reader[s] \in {"between", "reading", "overflowing"}

\* Reading a stream that main has closed raises ValueError, which the thread
\* does not catch: it ends and records nothing.
BeginRead(s) ==
  /\ reader[s] = "between"
  /\ reader' = [reader EXCEPT ![s] = IF stream[s] = "open" THEN "reading" ELSE "crashed"]
  /\ UNCHANGED <<control, tree, containment, ledger, stream, unread, retained, overflow, written>>

\* Mutants: the limit is compared off by one, on either side.
ReadUnitOver(s) ==
  /\ reader[s] = "reading" /\ unread[s] > 0
  /\ unread' = [unread EXCEPT ![s] = @ - 1]
  /\ IF retained[s] <= Limit
     THEN /\ retained' = [retained EXCEPT ![s] = @ + 1]
          /\ reader' = [reader EXCEPT ![s] = "between"]
          /\ UNCHANGED overflow
     ELSE /\ overflow' = TRUE
          /\ reader' = [reader EXCEPT ![s] = "overflowing"]
          /\ UNCHANGED retained
  /\ UNCHANGED <<control, tree, containment, ledger, stream, written>>

ReadUnitUnder(s) ==
  /\ reader[s] = "reading" /\ unread[s] > 0
  /\ unread' = [unread EXCEPT ![s] = @ - 1]
  /\ IF retained[s] + 1 < Limit
     THEN /\ retained' = [retained EXCEPT ![s] = @ + 1]
          /\ reader' = [reader EXCEPT ![s] = "between"]
          /\ UNCHANGED overflow
     ELSE /\ overflow' = TRUE
          /\ reader' = [reader EXCEPT ![s] = "overflowing"]
          /\ UNCHANGED retained
  /\ UNCHANGED <<control, tree, containment, ledger, stream, written>>

ReadUnit(s) ==
  /\ reader[s] = "reading" /\ unread[s] > 0
  /\ unread' = [unread EXCEPT ![s] = @ - 1]
  /\ IF retained[s] < Limit
     THEN /\ retained' = [retained EXCEPT ![s] = @ + 1]
          /\ reader' = [reader EXCEPT ![s] = "between"]
          /\ UNCHANGED overflow
     ELSE /\ overflow' = TRUE
          /\ reader' = [reader EXCEPT ![s] = "overflowing"]
          /\ UNCHANGED retained
  /\ UNCHANGED <<control, tree, containment, ledger, stream, written>>

ReadEnd(s) ==
  /\ reader[s] = "reading" /\ unread[s] = 0 /\ ~Held
  /\ reader' = [reader EXCEPT ![s] = "done"]
  /\ UNCHANGED <<control, tree, containment, ledger, stream, unread, retained, overflow, written>>

ReadFails(s) ==
  /\ reader[s] = "reading" /\ MayFail
  /\ faults' = faults + 1
  /\ reader' = [reader EXCEPT ![s] = "failed"]
  /\ UNCHANGED <<control, tree, containment, stream, unread, retained, overflow, written,
                 interrupts, setbacks, abandoned, heldOpen>>

FinishOverflow(s) ==
  /\ RecordKill(s) \/ SkipKill(s)
  /\ reader' = [reader EXCEPT ![s] = "done"]
  /\ UNCHANGED <<control, tree, ledger, stream, unread, retained, overflow, written>>

ReaderStep(s) ==
  BeginRead(s) \/ ReadUnit(s) \/ ReadEnd(s) \/ ReadFails(s) \/ TermStep(s) \/ FinishOverflow(s)

-----------------------------------------------------------------------------
(* The main thread.                                                         *)

\* Calls that _finish_process_readers and _cleanup_failed_process_start retry
\* once when an interrupt lands in them, in the order they are made.
Guarded == {"fs_term", "fs_wait", "fs_close",
            "fin_term", "fin_wait", "join1", "close1", "join2", "close2"}
PerStream == {"fs_close", "join1", "close1", "join2", "close2"}
FinalCleanup == Guarded \ {"fs_term", "fs_wait", "fs_close"}

PhaseAfter(phase, someAlive) ==
  CASE phase = "fs_term"  -> "fs_wait"
    [] phase = "fs_wait"  -> "fs_close"
    [] phase = "fs_close" -> "fin_term"
    [] phase = "fin_term" -> "fin_wait"
    [] phase = "fin_wait" -> "join1"
    [] phase = "join1"    -> IF someAlive THEN "close1" ELSE "close2"
    [] phase = "close1"   -> "join2"
    [] phase = "join2"    -> "close2"
    [] phase = "close2"   -> "verdict"

\* The phases in which no reader exists yet and nothing may have been killed.
StartPhases == {"spawn", "job", "resume"}

\* The guarded call is over, successfully or for lack of attempts.
Advance ==
  /\ tries' = 0
  /\ IF pc \in PerStream /\ on = "stdout"
     THEN on' = "stderr" /\ UNCHANGED pc
     ELSE on' = "stdout" /\ pc' = PhaseAfter(pc, \E s \in Started : Alive(s))

Retry == tries' = 1 /\ UNCHANGED <<pc, on>>

\* Mutant: the Windows process is not created suspended.
SpawnUnsuspended ==
  /\ pc = "spawn" /\ root' = "running"
  /\ pc' = IF Platform = "posix" THEN "readers" ELSE "job"
  /\ UNCHANGED <<on, tries, interruption, cause, outcome, kid, quiet, containment, pipes, ledger>>

\* _popen_attached_process: SIGINT is deferred until the process is attached.
Spawn ==
  /\ pc = "spawn"
  /\ root' = IF Platform = "posix" THEN "running" ELSE "suspended"
  /\ pc' = IF Platform = "posix" THEN "readers" ELSE "job"
  /\ UNCHANGED <<on, tries, interruption, cause, outcome, kid, quiet, containment, pipes, ledger>>

SpawnDeferringInterrupt ==
  /\ pc = "spawn" /\ MayInterrupt
  /\ root' = IF Platform = "posix" THEN "running" ELSE "suspended"
  /\ interrupts' = interrupts + 1
  /\ cause' = "interrupted" /\ pc' = "fs_term"
  /\ UNCHANGED <<on, tries, interruption, outcome, kid, quiet, containment, pipes,
                 faults, setbacks, abandoned, heldOpen>>

\* Nothing was attached, so the finally clause has nothing to clean.
SpawnFails ==
  /\ pc = "spawn" /\ MayFail
  /\ faults' = faults + 1
  /\ pc' = "done" /\ outcome' = "error"
  /\ UNCHANGED <<on, tries, interruption, cause, tree, containment, pipes,
                 interrupts, setbacks, abandoned, heldOpen>>

\* _create_windows_kill_job and attach_windows_job.
CreateJob ==
  /\ pc = "job"
  /\ job' = "open" /\ attached' = TRUE
  /\ pc' = "resume"
  /\ UNCHANGED <<on, tries, interruption, cause, outcome, tree, pipes, ledger,
                 terminated, lock, term, spared, staleClose>>

ResumeRoot ==
  /\ pc = "resume"
  /\ root' = "running"
  /\ pc' = "readers"
  /\ UNCHANGED <<on, tries, interruption, cause, outcome, kid, quiet, containment, pipes, ledger>>

\* "unable to contain isolated resolver process".
ContainFails ==
  /\ pc \in {"job", "resume"} /\ MayFail
  /\ faults' = faults + 1
  /\ cause' = "error" /\ pc' = "fs_term"
  /\ UNCHANGED <<on, tries, interruption, outcome, tree, containment, pipes,
                 interrupts, setbacks, abandoned, heldOpen>>

StartReader ==
  /\ pc = "readers"
  /\ reader' = [reader EXCEPT ![on] = "between"]
  /\ IF on = "stdout" THEN on' = "stderr" /\ UNCHANGED pc ELSE on' = "stdout" /\ pc' = "wait"
  /\ UNCHANGED <<tries, interruption, cause, outcome, tree, containment, ledger,
                 stream, unread, retained, overflow, written>>

WaitRoot ==
  /\ pc \in {"wait", "t_wait"} /\ root \in {"exited", "reaped"}
  /\ root' = "reaped" /\ pc' = "fin_term"
  /\ UNCHANGED <<on, tries, interruption, cause, outcome, kid, quiet, containment, pipes, ledger>>

\* process.wait(timeout) raised TimeoutExpired.
WaitTimesOut ==
  /\ pc = "wait" /\ RootLive
  /\ cause' = "timeout" /\ pc' = "t_term"
  /\ UNCHANGED <<on, tries, interruption, outcome, tree, containment, pipes, ledger>>

\* The wait for the killed process is bounded too, and its expiry suppressed.
KilledWaitTimesOut ==
  /\ pc = "t_wait" /\ RootLive
  /\ pc' = "fin_term"
  /\ UNCHANGED <<on, tries, interruption, cause, outcome, tree, containment, pipes, ledger>>

\* terminate() returns to main; outside t_term an attempt that did not
\* terminate the tree is made a second time.
LeaveTerminate ==
  IF pc = "t_term"
  THEN pc' = "t_wait" /\ UNCHANGED <<on, tries, setbacks>>
  ELSE /\ IF terminated' \/ tries = 1 THEN Advance ELSE Retry
       /\ setbacks' = setbacks + (IF pc = "fin_term" /\ ~terminated' THEN 1 ELSE 0)

MainTerminates ==
  /\ pc \in TermPhases
  /\ RecordKill("main") \/ SkipKill("main")
  /\ LeaveTerminate
  /\ UNCHANGED <<interruption, cause, outcome, tree, pipes, interrupts, faults, abandoned, heldOpen>>

\* _wait_for_process_cleanup.
CleanupWait ==
  /\ pc \in {"fs_wait", "fin_wait"}
  /\ root' = IF root = "exited" THEN "reaped" ELSE root
  /\ Advance
  /\ UNCHANGED <<interruption, cause, outcome, kid, quiet, containment, pipes, ledger>>

\* _join_process_reader: a reader that was never started is not joined.
JoinReader ==
  /\ pc \in {"join1", "join2"} /\ ~Alive(on)
  /\ Advance
  /\ UNCHANGED <<interruption, cause, outcome, tree, containment, pipes, ledger>>

JoinTimesOut ==
  /\ pc \in {"join1", "join2"} /\ Alive(on)
  /\ MayStall \/ (reader[on] = "reading" /\ unread[on] = 0 /\ Held)
  /\ heldOpen' = TRUE
  /\ Advance
  /\ UNCHANGED <<interruption, cause, outcome, tree, containment, pipes,
                 interrupts, faults, setbacks, abandoned>>

\* _close_process_streams: close() needs the lock a read in progress holds.
CloseStream ==
  /\ pc \in {"fs_close", "close1", "close2"}
  /\ reader[on] # "reading"
  /\ stream' = [stream EXCEPT ![on] = "closed"]
  /\ Advance
  /\ UNCHANGED <<interruption, cause, outcome, tree, containment, ledger,
                 reader, unread, retained, overflow, written>>

\* Mutant: the overflow event is not looked at.
VerdictBlind ==
  /\ pc = "verdict" /\ pc' = "done"
  /\ outcome' \in
       IF interruption THEN {"interrupted"}
       ELSE IF cause # "none" THEN {cause}
       ELSE IF \E s \in Started : Alive(s) THEN {"pipe"}
       ELSE IF \E s \in Streams : reader[s] = "failed" THEN {"oserror"}
       ELSE {"completed", "undecodable"}
  /\ UNCHANGED <<on, tries, interruption, cause, tree, containment, pipes, ledger>>

\* The exceptions after the finally clause, in the order they are raised.
Verdict ==
  /\ pc = "verdict" /\ pc' = "done"
  /\ outcome' \in
       IF interruption THEN {"interrupted"}
       ELSE IF cause # "none" THEN {cause}
       ELSE IF \E s \in Started : Alive(s) THEN {"pipe"}
       ELSE IF \E s \in Streams : reader[s] = "failed" THEN {"oserror"}
       ELSE IF overflow THEN {"overflow"}
       ELSE {"completed", "undecodable"}
  /\ UNCHANGED <<on, tries, interruption, cause, tree, containment, pipes, ledger>>

MainStep ==
  \/ Spawn \/ SpawnFails \/ SpawnDeferringInterrupt
  \/ CreateJob \/ ResumeRoot \/ ContainFails \/ StartReader
  \/ WaitRoot \/ WaitTimesOut \/ KilledWaitTimesOut
  \/ TermStep("main") \/ MainTerminates \/ CleanupWait
  \/ JoinReader \/ JoinTimesOut \/ CloseStream \/ Verdict

-----------------------------------------------------------------------------
(* KeyboardInterrupt in the main thread.  A blocked close() is not          *)
(* interruptible, and leaving terminate() releases its lock.                *)

Interruptible ==
  /\ MayInterrupt
  /\ pc \notin {"spawn", "verdict", "done"}
  /\ pc \in {"fs_close", "close1", "close2"} => reader[on] # "reading"

\* Mutant: the lock is acquired and released by calls, not by a with statement.
DropWithoutRelease ==
  /\ term' = [term EXCEPT !["main"] = "out"]
  /\ UNCHANGED <<lock, job, attached, terminated, spared, staleClose>>

DropLock ==
  /\ lock' = IF lock = "main" THEN "free" ELSE lock
  /\ term' = [term EXCEPT !["main"] = "out"]
  /\ UNCHANGED <<job, attached, terminated, spared, staleClose>>

\* The body is left for its cleanup: of a failed start, or the finally clause.
InterruptBody ==
  /\ Interruptible /\ pc \notin Guarded
  /\ cause' = "interrupted" /\ tries' = 0 /\ on' = "stdout"
  /\ pc' = IF pc \in {"job", "resume"} THEN "fs_term" ELSE "fin_term"
  /\ interrupts' = interrupts + 1
  /\ DropLock
  /\ UNCHANGED <<interruption, outcome, tree, pipes, faults, setbacks, abandoned, heldOpen>>

\* Mutant: an interrupted cleanup call is not made again.
InterruptGivesUp ==
  /\ Interruptible /\ pc \in Guarded
  /\ interruption' = (interruption \/ pc \in FinalCleanup)
  /\ cause' = IF pc \in FinalCleanup THEN cause ELSE "interrupted"
  /\ Advance
  /\ interrupts' = interrupts + 1
  /\ setbacks' = setbacks + (IF pc \in FinalCleanup THEN 1 ELSE 0)
  /\ DropLock
  /\ UNCHANGED <<outcome, tree, pipes, faults, abandoned, heldOpen>>

\* A guarded call keeps the first interrupt and is made once more.
InterruptGuarded ==
  /\ Interruptible /\ pc \in Guarded
  /\ interruption' = (interruption \/ pc \in FinalCleanup)
  /\ cause' = IF pc \in FinalCleanup THEN cause ELSE "interrupted"
  /\ IF tries = 0 THEN Retry ELSE Advance
  /\ interrupts' = interrupts + 1
  /\ setbacks' = setbacks + (IF pc \in FinalCleanup THEN 1 ELSE 0)
  /\ DropLock
  /\ UNCHANGED <<outcome, tree, pipes, faults, abandoned, heldOpen>>

\* Between two guarded calls nothing catches the interrupt.
InterruptUnguarded ==
  /\ Interruptible /\ pc \in Guarded /\ term["main"] = "out"
  /\ tries' = 0 /\ on' = "stdout" /\ cause' = "interrupted"
  /\ IF pc \in FinalCleanup
     THEN pc' = "done" /\ outcome' = "interrupted" /\ abandoned' = TRUE
     ELSE pc' = "fin_term" /\ UNCHANGED <<outcome, abandoned>>
  /\ interrupts' = interrupts + 1
  /\ UNCHANGED <<interruption, tree, containment, pipes, faults, setbacks, heldOpen>>

Interrupt == InterruptBody \/ InterruptGuarded \/ InterruptUnguarded

Next ==
  \/ ProcessStep
  \/ \E s \in Streams : ReaderStep(s)
  \/ MainStep
  \/ Interrupt

(* The threads of the interpreter are scheduled; the processes it started  *)
(* owe it nothing, and neither does the user's keyboard.                    *)
Fairness == WF_vars(MainStep) /\ \A s \in Streams : WF_vars(ReaderStep(s))

Spec == Init /\ [][Next]_vars
FairSpec == Spec /\ Fairness

-----------------------------------------------------------------------------
(* Properties.                                                              *)

Phases == Guarded \cup StartPhases \cup {"readers", "wait", "t_term", "t_wait",
                        "verdict", "done"}
Outcomes == {"none", "interrupted", "error", "timeout", "pipe", "oserror", "overflow",
             "completed", "undecodable"}

ControlOK ==
  /\ pc \in Phases /\ on \in Streams /\ tries \in 0..1
  /\ interruption \in BOOLEAN
  /\ cause \in {"none", "interrupted", "error", "timeout"}
  /\ outcome \in Outcomes

TreeOK ==
  /\ root \in {"none", "suspended", "running", "exited", "reaped"}
  /\ kid \in [Kids -> {"unborn", "grouped", "escaped", "dead"}]
  /\ quiet \in SUBSET Kids

ContainmentOK ==
  /\ job \in {"none", "open", "gone"}
  /\ attached \in BOOLEAN /\ terminated \in BOOLEAN
  /\ lock \in Actors \cup {"free"}
  /\ term \in [Actors -> {"out", "in", "jobless", "root_only", "job_gone", "done",
                         "missed"}]
  /\ spared \in BOOLEAN /\ staleClose \in BOOLEAN

PipesOK ==
  /\ reader \in [Streams -> {"idle", "between", "reading", "overflowing", "done",
                             "failed", "crashed"}]
  /\ stream \in [Streams -> {"open", "closed"}]
  /\ unread \in [Streams -> Nat] /\ written \in [Streams -> Nat]
  /\ retained \in [Streams -> 0..Limit]
  /\ overflow \in BOOLEAN

LedgerOK ==
  /\ interrupts \in Nat /\ faults \in Nat /\ setbacks \in Nat
  /\ abandoned \in BOOLEAN /\ heldOpen \in BOOLEAN

\* Every variable keeps to the values the code gives it; a reader never
\* retains more than the stream limit (_read_process_pipe).
TypeOK == ControlOK /\ TreeOK /\ ContainmentOK /\ PipesOK /\ LedgerOK

\* The root process is dead, and so is the rest of its group or Job, unless
\* the last killpg failed with the group alive.
TreeKilled == ~RootLive /\ (Grouped = {} \/ spared)

\* Once terminate() has recorded that the tree is terminated, so that no later
\* call will kill again, nothing of the contained tree runs any more, whichever
\* of the three threads killed it and wherever an interrupt cut one short.  The
\* one exception is the code's own: when the last killpg raised OSError with the
\* group alive, killing the root alone is recorded as having killed the tree
\* (_ProcessContainment.terminate, lines 286-297).
TerminatedIsFinal == terminated => TreeKilled

\* On Windows no process of the tree executes outside an open Job Object: the
\* root stays suspended until it is assigned (_start_contained_process).
NothingRunsUncontained ==
  Platform = "nt" /\ (root = "running" \/ Grouped # {}) => job = "open"

\* Only the holder of containment.lock is inside terminate(), and it entered
\* because the tree was not yet recorded as terminated.
LockHeld == \A a \in Actors : term[a] # "out" => lock = a /\ ~terminated

\* A kill that will be recorded as final has already killed the tree, or its root
\* when killpg failed with the group alive.
KillSound ==
  \A a \in Actors :
    /\ term[a] = "job_gone" => TreeDead /\ job = "gone"
    /\ term[a] = "root_only" => TreeDead \/ spared
    /\ term[a] = "done" /\ ~attached => TreeKilled

\* Before the readers start, main has the containment to itself.
StartAlone ==
  pc \in StartPhases
    => ~terminated /\ \A a \in Actors : term[a] = "out" /\ (a # "main" => reader[a] = "idle")

\* On Windows a process runs only once its Job Object is open and attached.
JobContains ==
  Platform = "nt" =>
    /\ pc = "resume" => job = "open"
    /\ root = "running" \/ Grouped # {} => job = "open"
    /\ job = "open" => attached

\* The inductive invariant of the containment: the lock discipline of
\* _ProcessContainment.terminate and the order of _start_contained_process that
\* make a recorded kill final, but for a group that a failed killpg left alone,
\* and keep every Windows process inside its Job.
SafeInv == LockHeld /\ KillSound /\ StartAlone /\ JobContains /\ TerminatedIsFinal

\* However the call ends, one interrupt or failed attempt to kill in the final
\* cleanup leaves neither a live contained process nor an open pipe behind,
\* unless the interrupt fell between two guarded calls, or killpg failed and
\* the kill of the root alone counted as a success: then no second attempt is
\* made, and the rest of the group may outlive the call (_finish_process_readers,
\* the retry helpers and terminate).
CleanReturn ==
  pc = "done" /\ ~abandoned /\ setbacks <= 1
    => TreeKilled /\ (root = "none" \/ \A s \in Streams : stream[s] = "closed")

\* A Job handle is closed a second time only after an interrupt hid that the
\* first close had happened (_dispose_windows_job, windows_job = None).
StaleCloseNeedsInterrupt == staleClose => interrupts > 0

\* A completed result carries every unit the tree ever wrote: both readers saw
\* the end of their pipe, neither was cut short by the limit, a kill that
\* raced them, or a stream closed under them (_run_bounded_process), as long
\* as both were done by their join deadlines.
CompletedIsWhole ==
  outcome = "completed" /\ ~heldOpen
    => \A s \in Streams : /\ reader[s] = "done" /\ retained[s] = written[s]
                          /\ unread[s] = 0

\* The output limit is reported only for a pipe that carried more than the
\* limit, and a call that ends well kept to it (the boundary in
\* _read_process_pipe).
OverflowIsReal ==
  /\ outcome = "overflow" => \E s \in Streams : written[s] > Limit
  /\ outcome = "completed" => \A s \in Streams : retained[s] <= Limit /\ ~overflow

\* The processes no kill of the tree has reached.
Beyond == Escaped \cup {k \in Grouped : spared}

\* The call ends.  Two setbacks in its cleanup may leave a process alive, and
\* a process that left the group, or that a failed killpg left alone, may hold a
\* pipe for ever; nothing else keeps the caller waiting (the timeouts of
\* _run_bounded_process and its cleanup).
Returns ==
  \/ <>(pc = "done" \/ setbacks >= 2)
  \/ []<>(Beyond \ quiet # {})

\* docs/usage.md: "Each resolver process has a finite timeout-seconds
\* deadline"; the runner is "a bounded, contained subprocess runner".
AlwaysReturns == <>(pc = "done")

\* docs/usage.md: an "output pipe that does not close produces incomplete
\* evidence": a call whose join deadline found a pipe still held by a live
\* process does not complete (_ResolverPipeError).
UnclosedPipeNeverCompletes == heldOpen => outcome # "completed"
=============================================================================
