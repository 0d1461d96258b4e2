------------------------ MODULE ProcessRunner_proofs ------------------------
(***************************************************************************)
(* What the contained subprocess runner guarantees for every platform,     *)
(* every process tree and every number of interrupts and failures; and     *)
(* what the caller may conclude from its result.                           *)
(***************************************************************************)
EXTENDS ProcessRunner, TLAPS

USE DEF Streams, Actors

-----------------------------------------------------------------------------
(* Type correctness: one lemma per kind of step.                            *)

LEMMA TypeInit == Init => TypeOK
<1> SUFFICES ASSUME Init PROVE TypeOK
  OBVIOUS
<1> USE RunnerAssumption DEF Init
<1>1. ControlOK
  <2>1. pc \in Phases
    BY DEF Phases, Guarded, StartPhases
  <2>2. tries \in 0..1
    OBVIOUS
  <2>3. cause \in {"none", "interrupted", "error", "timeout"} /\ outcome \in Outcomes
    BY DEF Outcomes
  <2> QED
    BY <2>1, <2>2, <2>3 DEF ControlOK
<1>2. TreeOK
  BY DEF TreeOK
<1>3. ContainmentOK
  BY DEF ContainmentOK
<1>4. PipesOK
  <2>1. 0 \in 0..Limit
    OBVIOUS
  <2>2. QED
    BY <2>1 DEF PipesOK
<1>5. LedgerOK
  BY DEF LedgerOK
<1>6. QED
  BY <1>1, <1>2, <1>3, <1>4, <1>5 DEF TypeOK

LEMMA TypeProcess == TypeOK /\ ProcessStep => TypeOK'
<1> SUFFICES ASSUME TypeOK, ProcessStep PROVE TypeOK'
  OBVIOUS
<1> USE DEF TypeOK, control, containment, pipes, ledger, tree
<1>1. ASSUME NEW k \in Kids, SpawnKid(k) PROVE TypeOK'
  BY <1>1 DEF SpawnKid, ControlOK, TreeOK, ContainmentOK, PipesOK, LedgerOK
<1>2. ASSUME NEW k \in Kids, EscapeGroup(k) PROVE TypeOK'
  BY <1>2 DEF EscapeGroup, ControlOK, TreeOK, ContainmentOK, PipesOK, LedgerOK
<1>3. ASSUME NEW k \in Kids, ExitKid(k) PROVE TypeOK'
  BY <1>3 DEF ExitKid, ControlOK, TreeOK, ContainmentOK, PipesOK, LedgerOK
<1>4. CASE ExitRoot
  BY <1>4 DEF ExitRoot, ControlOK, TreeOK, ContainmentOK, PipesOK, LedgerOK
<1>5. ASSUME NEW s \in Streams, WriteOutput(s) PROVE TypeOK'
  BY <1>5 DEF WriteOutput, ControlOK, TreeOK, ContainmentOK, PipesOK, LedgerOK
<1>6. QED
  BY <1>1, <1>2, <1>3, <1>4, <1>5 DEF ProcessStep

LEMMA TypeTerm == ASSUME TypeOK, NEW a \in Actors, TermStep(a) PROVE TypeOK'
<1> USE DEF TypeOK, control, pipes, ledger, tree
<1>1. CASE EnterTerminate(a)
  BY <1>1 DEF EnterTerminate, ControlOK, TreeOK, ContainmentOK, PipesOK, LedgerOK
<1>2. CASE DisposeJob(a)
  BY <1>2 DEF DisposeJob, KillContained, ControlOK, TreeOK, ContainmentOK, PipesOK, LedgerOK
<1>3. CASE DisposeJobFails(a)
  <2>1. TreeOK'
    BY <1>3 DEF DisposeJobFails, TreeOK
  <2>2. ContainmentOK'
    BY <1>3 DEF DisposeJobFails, ContainmentOK
  <2>3. ControlOK' /\ PipesOK' /\ LedgerOK'
    BY <1>3 DEF DisposeJobFails, ControlOK, PipesOK, LedgerOK
  <2>4. QED
    BY <2>1, <2>2, <2>3
<1>4. CASE KillGroup(a)
  <2>1. TreeOK'
    BY <1>4 DEF KillGroup, KillContained, TreeOK
  <2>2. ContainmentOK'
    BY <1>4 DEF KillGroup, ContainmentOK
  <2>3. ControlOK' /\ PipesOK' /\ LedgerOK'
    BY <1>4 DEF KillGroup, ControlOK, PipesOK, LedgerOK
  <2>4. QED
    BY <2>1, <2>2, <2>3
<1>5. CASE KillGroupFails(a)
  <2>1. TreeOK' /\ ControlOK' /\ PipesOK'
    BY <1>5 DEF KillGroupFails, TreeOK, ControlOK, PipesOK
  <2>2. ContainmentOK'
    BY <1>5 DEF KillGroupFails, ContainmentOK
  <2>3. LedgerOK'
    BY <1>5 DEF KillGroupFails, LedgerOK
  <2>4. QED
    BY <2>1, <2>2, <2>3
<1>6. CASE KillRootProcess(a)
  BY <1>6 DEF KillRootProcess, KillRoot, ControlOK, TreeOK, ContainmentOK, PipesOK, LedgerOK
<1>7. CASE KillFails(a)
  BY <1>7 DEF KillFails, ControlOK, TreeOK, ContainmentOK, PipesOK, LedgerOK
<1>8. QED
  BY <1>1, <1>2, <1>3, <1>4, <1>5, <1>6, <1>7 DEF TermStep

LEMMA RecordType ==
  ASSUME TypeOK, NEW a \in Actors, RecordKill(a) \/ SkipKill(a) PROVE ContainmentOK'
<1>1. CASE RecordKill(a)
  BY <1>1 DEF RecordKill, TypeOK, ContainmentOK
<1>2. CASE SkipKill(a)
  BY <1>2 DEF SkipKill, containment, TypeOK, ContainmentOK
<1>3. QED
  BY <1>1, <1>2

LEMMA TypeReader == ASSUME TypeOK, NEW s \in Streams, ReaderStep(s) PROVE TypeOK'
<1> USE DEF TypeOK, control, containment, pipes, ledger, tree
<1>1. CASE BeginRead(s)
  BY <1>1 DEF BeginRead, ControlOK, TreeOK, ContainmentOK, PipesOK, LedgerOK
<1>2. CASE ReadUnit(s)
  <2>1. ControlOK' /\ TreeOK' /\ ContainmentOK' /\ LedgerOK'
    BY <1>2 DEF ReadUnit, ControlOK, TreeOK, ContainmentOK, LedgerOK
  <2>2. PipesOK'
    <3>1. unread' \in [Streams -> Nat]
      BY <1>2 DEF ReadUnit, PipesOK
    <3>2. retained' \in [Streams -> 0..Limit]
      <4>1. CASE retained[s] < Limit
        <5>1. retained[s] + 1 \in 0..Limit
          BY <4>1, RunnerAssumption DEF PipesOK
        <5>2. QED
          BY <1>2, <4>1, <5>1 DEF ReadUnit, PipesOK
      <4>2. CASE ~(retained[s] < Limit)
        BY <1>2, <4>2 DEF ReadUnit, PipesOK
      <4>3. QED
        BY <4>1, <4>2
    <3>3. reader' \in [Streams -> {"idle", "between", "reading", "overflowing", "done",
                                  "failed", "crashed"}]
      BY <1>2 DEF ReadUnit, PipesOK
    <3>4. stream' = stream /\ written' = written /\ overflow' \in BOOLEAN
      BY <1>2 DEF ReadUnit, PipesOK, control, tree, containment, ledger
    <3>5. QED
      BY <3>1, <3>2, <3>3, <3>4 DEF PipesOK
  <2>3. QED
    BY <2>1, <2>2
<1>3. CASE ReadEnd(s)
  BY <1>3 DEF ReadEnd, ControlOK, TreeOK, ContainmentOK, PipesOK, LedgerOK
<1>4. CASE ReadFails(s)
  BY <1>4 DEF ReadFails, ControlOK, TreeOK, ContainmentOK, PipesOK, LedgerOK
<1>5. CASE TermStep(s)
  BY <1>5, TypeTerm
<1>6. CASE FinishOverflow(s)
  <2>1. ContainmentOK'
    BY <1>6, RecordType DEF FinishOverflow
  <2>2. ControlOK' /\ TreeOK' /\ PipesOK' /\ LedgerOK'
    BY <1>6 DEF FinishOverflow, ControlOK, TreeOK, PipesOK, LedgerOK
  <2>3. QED
    BY <2>1, <2>2
<1>7. QED
  BY <1>1, <1>2, <1>3, <1>4, <1>5, <1>6 DEF ReaderStep

\* A guarded call that is over, or retried, leaves main in a phase of the code.
LEMMA AdvanceType ==
  ASSUME TypeOK, pc \in Guarded, Advance \/ Retry
  PROVE  pc' \in Phases \ StartPhases /\ on' \in Streams /\ tries' \in 0..1
<1>1. 0 \in 0..1 /\ 1 \in 0..1
  OBVIOUS
<1>2. CASE Retry
  BY <1>1, <1>2 DEF Retry, TypeOK, ControlOK, StartPhases, Guarded
<1>3. CASE Advance
  <2>1. PhaseAfter(pc, \E s \in Started : Alive(s)) \in Phases \ StartPhases
    BY DEF PhaseAfter, Guarded, Phases, StartPhases
  <2>2. QED
    BY <1>1, <1>3, <2>1 DEF Advance, TypeOK, ControlOK, StartPhases, Guarded
<1>4. QED
  BY <1>2, <1>3

LEMMA TypeMain == TypeOK /\ MainStep => TypeOK'
<1> SUFFICES ASSUME TypeOK, MainStep PROVE TypeOK'
  OBVIOUS
<1> USE DEF TypeOK, control, containment, pipes, ledger, tree
<1>1. CASE Spawn
  <2>1. ControlOK'
    BY <1>1 DEF Spawn, ControlOK, Phases, StartPhases
  <2>2. TreeOK' /\ ContainmentOK' /\ PipesOK' /\ LedgerOK'
    BY <1>1 DEF Spawn, TreeOK, ContainmentOK, PipesOK, LedgerOK
  <2>3. QED
    BY <2>1, <2>2
<1>2. CASE SpawnFails
  <2>1. ControlOK'
    BY <1>2 DEF SpawnFails, ControlOK, Phases, Outcomes
  <2>2. TreeOK' /\ ContainmentOK' /\ PipesOK' /\ LedgerOK'
    BY <1>2 DEF SpawnFails, TreeOK, ContainmentOK, PipesOK, LedgerOK
  <2>3. QED
    BY <2>1, <2>2
<1>3. CASE SpawnDeferringInterrupt
  <2>1. ControlOK'
    BY <1>3 DEF SpawnDeferringInterrupt, ControlOK, Phases, Guarded
  <2>2. TreeOK' /\ ContainmentOK' /\ PipesOK' /\ LedgerOK'
    BY <1>3 DEF SpawnDeferringInterrupt, TreeOK, ContainmentOK, PipesOK, LedgerOK
  <2>3. QED
    BY <2>1, <2>2
<1>4. CASE CreateJob
  <2>1. ControlOK'
    BY <1>4 DEF CreateJob, ControlOK, Phases, StartPhases
  <2>2. TreeOK' /\ ContainmentOK' /\ PipesOK' /\ LedgerOK'
    BY <1>4 DEF CreateJob, TreeOK, ContainmentOK, PipesOK, LedgerOK
  <2>3. QED
    BY <2>1, <2>2
<1>5. CASE ResumeRoot
  <2>1. ControlOK'
    BY <1>5 DEF ResumeRoot, ControlOK, Phases
  <2>2. TreeOK' /\ ContainmentOK' /\ PipesOK' /\ LedgerOK'
    BY <1>5 DEF ResumeRoot, TreeOK, ContainmentOK, PipesOK, LedgerOK
  <2>3. QED
    BY <2>1, <2>2
<1>6. CASE ContainFails
  <2>1. ControlOK'
    BY <1>6 DEF ContainFails, ControlOK, Phases, Guarded
  <2>2. TreeOK' /\ ContainmentOK' /\ PipesOK' /\ LedgerOK'
    BY <1>6 DEF ContainFails, TreeOK, ContainmentOK, PipesOK, LedgerOK
  <2>3. QED
    BY <2>1, <2>2
<1>7. CASE StartReader
  <2>1. ControlOK'
    BY <1>7 DEF StartReader, ControlOK, Phases
  <2>2. TreeOK' /\ ContainmentOK' /\ PipesOK' /\ LedgerOK'
    BY <1>7 DEF StartReader, ControlOK, TreeOK, ContainmentOK, PipesOK, LedgerOK
  <2>3. QED
    BY <2>1, <2>2
<1>8. CASE WaitRoot
  <2>1. ControlOK'
    BY <1>8 DEF WaitRoot, ControlOK, Phases, Guarded
  <2>2. TreeOK' /\ ContainmentOK' /\ PipesOK' /\ LedgerOK'
    BY <1>8 DEF WaitRoot, TreeOK, ContainmentOK, PipesOK, LedgerOK
  <2>3. QED
    BY <2>1, <2>2
<1>9. CASE WaitTimesOut
  <2>1. ControlOK'
    BY <1>9 DEF WaitTimesOut, ControlOK, Phases
  <2>2. TreeOK' /\ ContainmentOK' /\ PipesOK' /\ LedgerOK'
    BY <1>9 DEF WaitTimesOut, TreeOK, ContainmentOK, PipesOK, LedgerOK
  <2>3. QED
    BY <2>1, <2>2
<1>10. CASE KilledWaitTimesOut
  <2>1. ControlOK'
    BY <1>10 DEF KilledWaitTimesOut, ControlOK, Phases, Guarded
  <2>2. TreeOK' /\ ContainmentOK' /\ PipesOK' /\ LedgerOK'
    BY <1>10 DEF KilledWaitTimesOut, TreeOK, ContainmentOK, PipesOK, LedgerOK
  <2>3. QED
    BY <2>1, <2>2
<1>11. CASE TermStep("main")
  BY <1>11, TypeTerm
<1>12. CASE MainTerminates
  <2>1. ContainmentOK'
    BY <1>12, RecordType DEF MainTerminates
  <2>2. ControlOK'
    <3>1. CASE pc = "t_term"
      BY <1>12, <3>1 DEF MainTerminates, LeaveTerminate, ControlOK, Phases
    <3>2. CASE pc # "t_term"
      <4>1. pc \in Guarded
        BY <1>12, <3>2 DEF MainTerminates, TermPhases, Guarded
      <4>2. QED
        BY <1>12, <3>2, <4>1, AdvanceType DEF MainTerminates, LeaveTerminate, ControlOK
    <3>3. QED
      BY <3>1, <3>2
  <2>3. TreeOK' /\ PipesOK'
    BY <1>12 DEF MainTerminates, TreeOK, PipesOK
  <2>4. setbacks' \in Nat
    BY <1>12 DEF MainTerminates, LeaveTerminate, LedgerOK
  <2>5. QED
    BY <1>12, <2>1, <2>2, <2>3, <2>4 DEF MainTerminates, LedgerOK
<1>13. CASE CleanupWait
  <2>1. pc \in Guarded
    BY <1>13 DEF CleanupWait, Guarded
  <2>2. ControlOK'
    BY <1>13, <2>1, AdvanceType DEF CleanupWait, ControlOK
  <2>3. TreeOK' /\ ContainmentOK' /\ PipesOK' /\ LedgerOK'
    BY <1>13 DEF CleanupWait, TreeOK, ContainmentOK, PipesOK, LedgerOK
  <2>4. QED
    BY <2>2, <2>3
<1>14. CASE JoinReader
  <2>1. pc \in Guarded
    BY <1>14 DEF JoinReader, Guarded
  <2>2. ControlOK'
    BY <1>14, <2>1, AdvanceType DEF JoinReader, ControlOK
  <2>3. TreeOK' /\ ContainmentOK' /\ PipesOK' /\ LedgerOK'
    BY <1>14 DEF JoinReader, TreeOK, ContainmentOK, PipesOK, LedgerOK
  <2>4. QED
    BY <2>2, <2>3
<1>15. CASE JoinTimesOut
  <2>1. pc \in Guarded
    BY <1>15 DEF JoinTimesOut, Guarded
  <2>2. ControlOK'
    BY <1>15, <2>1, AdvanceType DEF JoinTimesOut, ControlOK
  <2>3. TreeOK' /\ ContainmentOK' /\ PipesOK' /\ LedgerOK'
    BY <1>15 DEF JoinTimesOut, TreeOK, ContainmentOK, PipesOK, LedgerOK
  <2>4. QED
    BY <2>2, <2>3
<1>16. CASE CloseStream
  <2>1. pc \in Guarded
    BY <1>16 DEF CloseStream, Guarded
  <2>2. ControlOK'
    BY <1>16, <2>1, AdvanceType DEF CloseStream, ControlOK
  <2>3. TreeOK' /\ ContainmentOK' /\ PipesOK' /\ LedgerOK'
    BY <1>16 DEF CloseStream, ControlOK, TreeOK, ContainmentOK, PipesOK, LedgerOK
  <2>4. QED
    BY <2>2, <2>3
<1>17. CASE Verdict
  <2>1. ControlOK'
    BY <1>17 DEF Verdict, ControlOK, Phases, Outcomes
  <2>2. TreeOK' /\ ContainmentOK' /\ PipesOK' /\ LedgerOK'
    BY <1>17 DEF Verdict, TreeOK, ContainmentOK, PipesOK, LedgerOK
  <2>3. QED
    BY <2>1, <2>2
<1>18. QED
  BY <1>1, <1>2, <1>3, <1>4, <1>5, <1>6, <1>7, <1>8, <1>9, <1>10, <1>11, <1>12, <1>13, <1>14, <1>15, <1>16, <1>17 DEF MainStep

LEMMA TypeInterrupt == TypeOK /\ Interrupt => TypeOK'
<1> SUFFICES ASSUME TypeOK, Interrupt PROVE TypeOK'
  OBVIOUS
<1> USE DEF TypeOK, control, containment, pipes, ledger, tree
<1>1. CASE InterruptBody
  <2>1. ControlOK'
    BY <1>1 DEF InterruptBody, ControlOK, Phases, Guarded
  <2>2. ContainmentOK'
    BY <1>1 DEF InterruptBody, DropLock, ContainmentOK
  <2>3. TreeOK' /\ PipesOK' /\ LedgerOK'
    BY <1>1 DEF InterruptBody, TreeOK, PipesOK, LedgerOK
  <2>4. QED
    BY <2>1, <2>2, <2>3
<1>2. CASE InterruptGuarded
  <2>1. ControlOK'
    BY <1>2, AdvanceType DEF InterruptGuarded, ControlOK
  <2>2. ContainmentOK'
    BY <1>2 DEF InterruptGuarded, DropLock, ContainmentOK
  <2>3. TreeOK' /\ PipesOK' /\ LedgerOK'
    BY <1>2 DEF InterruptGuarded, TreeOK, PipesOK, LedgerOK
  <2>4. QED
    BY <2>1, <2>2, <2>3
<1>3. CASE InterruptUnguarded
  <2>1. ControlOK'
    BY <1>3 DEF InterruptUnguarded, ControlOK, Phases, Guarded, Outcomes
  <2>2. TreeOK' /\ ContainmentOK' /\ PipesOK'
    BY <1>3 DEF InterruptUnguarded, TreeOK, ContainmentOK, PipesOK
  <2>3. abandoned' \in BOOLEAN
    BY <1>3 DEF InterruptUnguarded, LedgerOK
  <2>4. QED
    BY <1>3, <2>1, <2>2, <2>3 DEF InterruptUnguarded, LedgerOK
<1>4. QED
  BY <1>1, <1>2, <1>3 DEF Interrupt

\* The runner's state keeps to its types, and no reader ever retains more than
\* the stream limit, however many threads, interrupts and failures there are.
THEOREM TypeCorrect == Spec => []TypeOK
<1>1. TypeOK /\ [Next]_vars => TypeOK'
  <2> SUFFICES ASSUME TypeOK, [Next]_vars PROVE TypeOK'
    OBVIOUS
  <2>1. CASE UNCHANGED vars
    BY <2>1 DEF vars, control, tree, containment, pipes, ledger, TypeOK,
                ControlOK, TreeOK, ContainmentOK, PipesOK, LedgerOK
  <2>2. CASE Next
    BY <2>2, TypeProcess, TypeReader, TypeMain, TypeInterrupt DEF Next
  <2>3. QED
    BY <2>1, <2>2
<1>2. QED
  BY TypeInit, <1>1, PTL DEF Spec

-----------------------------------------------------------------------------
(* Safety: a recorded kill is final but for the group a failed killpg left  *)
(* alone, and on Windows nothing runs outside an open Job Object.           *)

LEMMA SafeInit == Init => SafeInv
  BY DEF Init, SafeInv, LockHeld, KillSound, StartAlone, StartPhases, JobContains,
         TerminatedIsFinal, Grouped

\* A step that leaves the tree and the containment alone, but for reaping a
\* root that has exited, and starts nothing again, disturbs none of the parts.
LEMMA SafeUntouched ==
  ASSUME TypeOK, SafeInv,
         UNCHANGED <<kid, job, attached, terminated, lock, term, spared>>,
         root' = root \/ (root = "exited" /\ root' = "reaped"),
         pc' \in StartPhases => pc' = pc /\ reader' = reader
  PROVE  SafeInv'
<1>1. Grouped' = Grouped /\ (RootLive' => RootLive) /\ (root' = "running" => root = "running")
  BY DEF Grouped, RootLive
<1>2. (TreeDead => TreeDead') /\ (TreeKilled => TreeKilled')
  BY <1>1 DEF TreeDead, TreeKilled
<1>3. LockHeld'
  BY DEF SafeInv, LockHeld
<1>4. KillSound'
  BY <1>2 DEF SafeInv, KillSound
<1>5. StartAlone'
  BY DEF SafeInv, StartAlone
<1>6. JobContains'
  BY <1>1 DEF SafeInv, JobContains, StartPhases
<1>7. TerminatedIsFinal'
  BY <1>2 DEF SafeInv, TerminatedIsFinal
<1>8. QED
  BY <1>3, <1>4, <1>5, <1>6, <1>7 DEF SafeInv

\* The tree grows only from a live member, so a dead tree stays dead.
LEMMA SafeProcess == TypeOK /\ SafeInv /\ ProcessStep => SafeInv'
<1> SUFFICES ASSUME TypeOK, SafeInv, ProcessStep PROVE SafeInv'
  OBVIOUS
<1>1. /\ UNCHANGED <<containment, pc, reader>>
      /\ TreeDead => TreeDead'
      /\ ~RootLive => ~RootLive'
      /\ root' = "running" \/ Grouped' # {} => root = "running" \/ Grouped # {}
  <2> USE DEF control, containment, pipes, tree, TypeOK, TreeOK, Grouped, RootLive, TreeDead
  <2>1. ASSUME NEW k \in Kids, SpawnKid(k) PROVE <1>1!:
    BY <2>1 DEF SpawnKid, Escaped
  <2>2. ASSUME NEW k \in Kids, EscapeGroup(k) PROVE <1>1!:
    BY <2>2 DEF EscapeGroup
  <2>3. ASSUME NEW k \in Kids, ExitKid(k) PROVE <1>1!:
    BY <2>3 DEF ExitKid
  <2>4. CASE ExitRoot
    BY <2>4 DEF ExitRoot
  <2>5. ASSUME NEW s \in Streams, WriteOutput(s) PROVE <1>1!:
    BY <2>5 DEF WriteOutput
  <2>6. QED
    BY <2>1, <2>2, <2>3, <2>4, <2>5 DEF ProcessStep
<1>2. UNCHANGED <<job, attached, terminated, lock, term, spared, pc, reader>>
  BY <1>1 DEF containment
<1>3. LockHeld' /\ StartAlone'
  BY <1>2 DEF SafeInv, LockHeld, StartAlone
<1>4. TreeKilled => TreeKilled'
  BY <1>1, <1>2 DEF TreeKilled, TreeDead
<1>5. KillSound' /\ TerminatedIsFinal'
  BY <1>1, <1>2, <1>4 DEF SafeInv, KillSound, TerminatedIsFinal
<1>6. JobContains'
  BY <1>1, <1>2 DEF SafeInv, JobContains
<1>7. QED
  BY <1>3, <1>5, <1>6 DEF SafeInv

\* Killing what the group or the Job contains leaves nothing of it.
LEMMA ContainedDies == ASSUME TypeOK, KillContained PROVE TreeDead' /\ root' # "running"
  BY DEF KillContained, TypeOK, TreeOK, TreeDead, RootLive, Grouped

\* Inside terminate(), between taking the lock and recording what was done.
LEMMA SafeTerm == ASSUME TypeOK, SafeInv, NEW a \in Actors, TermStep(a) PROVE SafeInv'
<1> USE DEF SafeInv, control, pipes
<1>1. CASE EnterTerminate(a)
  <2>1. LockHeld' /\ KillSound'
    BY <1>1 DEF EnterTerminate, LockHeld, KillSound, TypeOK, ContainmentOK
  <2>2. StartAlone'
    BY <1>1 DEF EnterTerminate, CallsTerminate, TermPhases, StartAlone, StartPhases
  <2>3. JobContains' /\ TerminatedIsFinal'
    BY <1>1 DEF EnterTerminate, JobContains, TerminatedIsFinal, tree, Grouped
  <2>4. QED
    BY <2>1, <2>2, <2>3
<1> DEFINE
      Inside == /\ term[a] # "out" /\ UNCHANGED <<attached, terminated, lock, pc, reader>>
                /\ \A b \in Actors : b # a => term'[b] = term[b]
      Shrinks == /\ TreeDead => TreeDead'
                 /\ Grouped = {} => Grouped' = {}
                 /\ root' = "running" => root = "running"
      JobKills == job' = job \/ (job' = "gone" /\ TreeDead')
      KillDone == /\ term'[a] = "job_gone" => TreeDead' /\ job' = "gone"
                  /\ term'[a] = "root_only" => TreeDead' \/ spared'
                  /\ term'[a] = "done" /\ ~attached => TreeKilled'
<1>2. ASSUME Inside, Shrinks, JobKills, KillDone PROVE SafeInv'
  <2>1. lock = a /\ ~terminated /\ \A b \in Actors : b # a => term[b] = "out"
    BY <1>2 DEF LockHeld
  <2>2. LockHeld'
    BY <1>2, <2>1 DEF LockHeld
  <2>3. KillSound'
    BY <1>2, <2>1 DEF KillSound
  <2>4. pc \notin StartPhases
    BY <1>2 DEF StartAlone
  <2>5. StartAlone' /\ TerminatedIsFinal'
    BY <1>2, <2>1, <2>4 DEF StartAlone, TerminatedIsFinal
  <2>6. JobContains'
    <3>1. TreeDead' => root' # "running" /\ Grouped' = {}
      BY DEF TreeDead, RootLive
    <3>2. pc' # "resume"
      BY <1>2, <2>4 DEF StartPhases
    <3>3. CASE job' = job
      <4>1. root' = "running" \/ Grouped' # {} => root = "running" \/ Grouped # {}
        BY <1>2
      <4>2. (job = "open" => attached) = (job' = "open" => attached')
        BY <1>2, <3>3
      <4>3. QED
        BY <3>2, <3>3, <4>1, <4>2 DEF JobContains
    <3>4. CASE job' = "gone" /\ TreeDead'
      BY <3>1, <3>2, <3>4 DEF JobContains
    <3>5. QED
      BY <1>2, <3>3, <3>4
  <2>7. QED
    BY <2>2, <2>3, <2>5, <2>6
<1>3. CASE DisposeJob(a)
  <2>1. Inside /\ JobKills /\ KillDone
    BY <1>3, ContainedDies DEF DisposeJob, TypeOK, ContainmentOK
  <2>2. Shrinks
    BY <1>3, ContainedDies DEF DisposeJob, TreeDead
  <2>3. QED
    BY <1>2, <2>1, <2>2
<1>4. CASE DisposeJobFails(a)
  <2>1. Inside /\ JobKills /\ KillDone
    BY <1>4 DEF DisposeJobFails, TypeOK, ContainmentOK
  <2>2. Shrinks
    BY <1>4 DEF DisposeJobFails, tree, TreeDead, RootLive, Grouped
  <2>3. QED
    BY <1>2, <2>1, <2>2
<1>5. CASE KillGroup(a)
  <2>1. TreeDead' /\ Shrinks
    BY <1>5, ContainedDies DEF KillGroup, TreeDead
  <2>2. Inside /\ JobKills /\ KillDone
    BY <1>5, <2>1 DEF KillGroup, Direct, TypeOK, ContainmentOK, TreeKilled, TreeDead
  <2>3. QED
    BY <1>2, <2>1, <2>2
<1>6. CASE KillGroupFails(a)
  <2>1. Inside /\ JobKills /\ term'[a] = "root_only"
    BY <1>6 DEF KillGroupFails, Direct, TypeOK, ContainmentOK
  <2>2. TreeDead' = TreeDead /\ Shrinks
    BY <1>6 DEF KillGroupFails, tree, TreeDead, RootLive, Grouped
  <2>3. TreeDead \/ spared'
    BY <1>6, Zenon DEF KillGroupFails
  <2>4. KillDone
    BY <2>1, <2>2, <2>3
  <2>5. QED
    BY <1>2, <2>1, <2>2, <2>4
<1>7. CASE KillRootProcess(a)
  <2>1. ~RootLive' /\ Grouped' = Grouped /\ spared' = spared /\ Shrinks
    BY <1>7 DEF KillRootProcess, KillRoot, TreeDead, RootLive, Grouped
  <2>2. ASSUME ~attached PROVE Grouped = {} \/ spared
    <3>1. CASE term[a] = "root_only"
      BY <3>1 DEF KillSound, TreeDead
    <3>2. CASE Platform = "nt"
      BY <2>2, <3>2 DEF JobContains
    <3>3. QED
      BY <1>7, <3>1, <3>2 DEF KillRootProcess, KillsRoot
  <2>3. Inside /\ JobKills /\ term'[a] = "done"
    BY <1>7 DEF KillRootProcess, KillsRoot, Direct, TypeOK, ContainmentOK
  <2>4. KillDone
    BY <2>1, <2>2, <2>3 DEF TreeKilled
  <2>5. QED
    BY <1>2, <2>1, <2>3, <2>4
<1>8. CASE KillFails(a)
  <2>1. Inside /\ JobKills /\ KillDone
    BY <1>8 DEF KillFails, KillsRoot, Direct, TypeOK, ContainmentOK
  <2>2. Shrinks
    BY <1>8 DEF KillFails, tree, TreeDead, RootLive, Grouped
  <2>3. QED
    BY <1>2, <2>1, <2>2
<1>9. QED
  BY <1>1, <1>3, <1>4, <1>5, <1>6, <1>7, <1>8 DEF TermStep

\* terminate() records a kill only after it, and releases its lock.
LEMMA SafeRecord ==
  ASSUME TypeOK, SafeInv, NEW a \in Actors, RecordKill(a) \/ SkipKill(a),
         UNCHANGED tree,
         pc' \in StartPhases => pc' = pc
  PROVE  SafeInv'
<1> USE DEF SafeInv, tree
<1>1. /\ TreeDead' = TreeDead /\ Grouped' = Grouped /\ root' = root
      /\ TreeKilled => TreeKilled'
  BY DEF RecordKill, SkipKill, containment, TreeDead, TreeKilled, RootLive, Grouped
<1>2. CASE RecordKill(a)
  <2>1. /\ lock = a /\ ~terminated /\ pc \notin StartPhases
        /\ \A b \in Actors : term'[b] = "out"
    BY <1>2 DEF RecordKill, LockHeld, StartAlone, TypeOK, ContainmentOK
  <2>2. LockHeld' /\ KillSound' /\ StartAlone'
    BY <2>1 DEF LockHeld, KillSound, StartAlone
  <2>3. TerminatedIsFinal'
    BY <1>1, <1>2, <2>1 DEF RecordKill, TerminatedIsFinal, KillSound, TreeDead, TreeKilled
  <2>4. JobContains'
    <3>1. CASE Platform = "nt"
      <4>1. pc' # "resume"
        BY <2>1 DEF StartPhases
      <4>2. job' = job
        BY <1>2 DEF RecordKill
      <4>3. job = "open" => attached'
        BY <1>2, <3>1 DEF RecordKill, JobContains, KillSound
      <4>4. QED
        BY <1>1, <3>1, <4>1, <4>2, <4>3 DEF JobContains
    <3>2. QED
      BY <3>1 DEF JobContains
  <2>5. QED
    BY <2>2, <2>3, <2>4
<1>3. CASE SkipKill(a)
  <2>1. pc \notin StartPhases
    BY <1>3 DEF SkipKill, StartAlone
  <2>2. LockHeld' /\ KillSound' /\ StartAlone' /\ TerminatedIsFinal'
    BY <1>1, <1>3, <2>1 DEF SkipKill, containment, LockHeld, KillSound, StartAlone,
                            TerminatedIsFinal
  <2>3. JobContains'
    BY <1>1, <1>3, <2>1 DEF SkipKill, containment, JobContains, StartPhases
  <2>4. QED
    BY <2>2, <2>3
<1>4. QED
  BY <1>2, <1>3

\* Readers touch the containment only through terminate().
LEMMA SafeReader == ASSUME TypeOK, SafeInv, NEW s \in Streams, ReaderStep(s) PROVE SafeInv'
<1>1. reader[s] # "idle" \/ term[s] # "out"
  BY DEF ReaderStep, BeginRead, ReadUnit, ReadEnd, ReadFails, TermStep, EnterTerminate,
         CallsTerminate, DisposeJob, DisposeJobFails, KillGroup,
         KillGroupFails, KillRootProcess, KillFails, KillsRoot, Direct,
         FinishOverflow, RecordKill, SkipKill
<1>2. pc \notin StartPhases
  BY <1>1 DEF SafeInv, StartAlone
<1>3. CASE BeginRead(s) \/ ReadUnit(s) \/ ReadEnd(s) \/ ReadFails(s)
  <2>1. UNCHANGED <<tree, containment, control>>
    BY <1>3 DEF BeginRead, ReadUnit, ReadEnd, ReadFails
  <2>2. UNCHANGED <<root, kid, job, attached, terminated, lock, term, spared, pc>>
    BY <2>1 DEF tree, containment, control
  <2>3. QED
    BY <1>2, <2>2, SafeUntouched
<1>4. CASE TermStep(s)
  BY <1>4, SafeTerm
<1>5. CASE FinishOverflow(s)
  <2>1. UNCHANGED tree /\ pc' = pc /\ s # "main"
    BY <1>5 DEF FinishOverflow, control
  <2>2. QED
    BY <1>2, <1>5, <2>1, SafeRecord DEF FinishOverflow
<1>6. QED
  BY <1>3, <1>4, <1>5 DEF ReaderStep

LEMMA SafeMain == TypeOK /\ SafeInv /\ MainStep => SafeInv'
<1> SUFFICES ASSUME TypeOK, SafeInv, MainStep PROVE SafeInv'
  OBVIOUS
<1> USE DEF control, containment, tree
<1>1. CASE Spawn \/ SpawnDeferringInterrupt
  <2>1. /\ pc = "spawn" /\ pc' \in {"readers", "job", "fs_term"} /\ UNCHANGED <<kid, containment>>
        /\ pc' \in StartPhases => reader' = reader
        /\ root' = "running" => Platform = "posix"
    BY <1>1 DEF Spawn, SpawnDeferringInterrupt, pipes, StartPhases
  <2>2. ~terminated /\ \A a \in Actors : term[a] = "out" /\ (a # "main" => reader[a] = "idle")
    BY <2>1 DEF SafeInv, StartAlone, StartPhases
  <2>3. LockHeld' /\ KillSound' /\ StartAlone' /\ TerminatedIsFinal'
    BY <2>1, <2>2 DEF LockHeld, KillSound, StartAlone, TerminatedIsFinal
  <2>4. JobContains'
    BY <2>1, RunnerAssumption DEF SafeInv, JobContains, Grouped
  <2>5. QED
    BY <2>3, <2>4 DEF SafeInv
<1>2. CASE CreateJob
  <2>1. /\ pc = "job" /\ pc' = "resume" /\ job' = "open" /\ attached'
        /\ UNCHANGED <<root, kid, terminated, lock, term, reader>>
    BY <1>2 DEF CreateJob, pipes
  <2>2. ~terminated /\ \A a \in Actors : term[a] = "out" /\ (a # "main" => reader[a] = "idle")
    BY <2>1 DEF SafeInv, StartAlone, StartPhases
  <2>3. LockHeld' /\ KillSound' /\ StartAlone' /\ TerminatedIsFinal'
    BY <2>1, <2>2 DEF LockHeld, KillSound, StartAlone, TerminatedIsFinal
  <2>4. JobContains'
    BY <2>1 DEF JobContains
  <2>5. QED
    BY <2>3, <2>4 DEF SafeInv
<1>3. CASE ResumeRoot
  <2>1. pc = "resume" /\ pc' = "readers" /\ UNCHANGED <<kid, containment>>
    BY <1>3 DEF ResumeRoot
  <2>2. ~terminated /\ \A a \in Actors : term[a] = "out"
    BY <2>1 DEF SafeInv, StartAlone, StartPhases
  <2>3. LockHeld' /\ KillSound' /\ StartAlone' /\ TerminatedIsFinal'
    BY <2>1, <2>2 DEF LockHeld, KillSound, StartAlone, StartPhases, TerminatedIsFinal
  <2>4. JobContains'
    BY <2>1 DEF SafeInv, JobContains
  <2>5. QED
    BY <2>3, <2>4 DEF SafeInv
<1>4. CASE SpawnFails \/ ContainFails \/ StartReader \/ WaitTimesOut \/ Verdict
  <2>1. UNCHANGED <<root, kid, containment>> /\ pc' \notin StartPhases
    BY <1>4 DEF SpawnFails, ContainFails, StartReader, WaitTimesOut, Verdict, StartPhases
  <2>2. QED
    BY <2>1, SafeUntouched
<1>5. CASE WaitRoot \/ KilledWaitTimesOut
  <2>1. /\ UNCHANGED <<kid, containment>> /\ pc' \notin StartPhases
        /\ root' = root \/ (root = "exited" /\ root' = "reaped")
    BY <1>5 DEF WaitRoot, KilledWaitTimesOut, StartPhases
  <2>2. QED
    BY <2>1, SafeUntouched
<1>6. CASE TermStep("main")
  BY <1>6, SafeTerm
<1>7. CASE MainTerminates
  <2>1. UNCHANGED tree /\ (RecordKill("main") \/ SkipKill("main")) /\ pc \in TermPhases
    BY <1>7 DEF MainTerminates
  <2>2. pc' \notin StartPhases
    <3>1. CASE pc = "t_term"
      BY <1>7, <3>1 DEF MainTerminates, LeaveTerminate, StartPhases
    <3>2. CASE pc # "t_term"
      BY <1>7, <2>1, <3>2, AdvanceType DEF MainTerminates, LeaveTerminate, TermPhases, Guarded
    <3>3. QED
      BY <3>1, <3>2
  <2>3. QED
    BY <2>1, <2>2, SafeRecord
<1>8. CASE CleanupWait \/ JoinReader \/ JoinTimesOut \/ CloseStream
  <2>1. /\ UNCHANGED <<kid, containment>> /\ pc \in Guarded /\ Advance
        /\ root' = root \/ (root = "exited" /\ root' = "reaped")
    BY <1>8 DEF CleanupWait, JoinReader, JoinTimesOut, CloseStream, Guarded
  <2>2. QED
    BY <2>1, AdvanceType, SafeUntouched
<1>9. QED
  BY <1>1, <1>2, <1>3, <1>4, <1>5, <1>6, <1>7, <1>8 DEF MainStep

\* An interrupt gives the lock back and forgets how far terminate() had come.
LEMMA SafeInterrupt == TypeOK /\ SafeInv /\ Interrupt => SafeInv'
<1> SUFFICES ASSUME TypeOK, SafeInv, Interrupt PROVE SafeInv'
  OBVIOUS
<1> USE DEF control, containment, tree
<1>1. UNCHANGED <<root, kid, job, attached, terminated, spared>> /\ pc' \notin StartPhases
  <2>1. CASE InterruptBody
    BY <2>1 DEF InterruptBody, DropLock, StartPhases
  <2>2. CASE InterruptGuarded
    BY <2>2, AdvanceType DEF InterruptGuarded, DropLock
  <2>3. CASE InterruptUnguarded
    BY <2>3 DEF InterruptUnguarded, StartPhases
  <2>4. QED
    BY <2>1, <2>2, <2>3 DEF Interrupt
<1>2. CASE UNCHANGED <<lock, term>>
  BY <1>1, <1>2, SafeUntouched
<1>3. CASE DropLock
  <2>1. LockHeld'
    BY <1>1, <1>3 DEF DropLock, SafeInv, LockHeld, TypeOK, ContainmentOK
  <2>2. TreeDead' = TreeDead /\ Grouped' = Grouped /\ TreeKilled' = TreeKilled
    BY <1>1 DEF TreeDead, TreeKilled, RootLive, Grouped
  <2>3. KillSound' /\ TerminatedIsFinal'
    BY <1>1, <1>3, <2>2 DEF DropLock, SafeInv, KillSound, TerminatedIsFinal, TypeOK, ContainmentOK
  <2>4. StartAlone'
    BY <1>1 DEF StartAlone
  <2>5. JobContains'
    BY <1>1, <2>2 DEF SafeInv, JobContains, StartPhases
  <2>6. QED
    BY <2>1, <2>3, <2>4, <2>5 DEF SafeInv
<1>4. QED
  BY <1>2, <1>3 DEF Interrupt, InterruptBody, InterruptGuarded, InterruptUnguarded

\* The inductive invariant of the containment holds in every reachable state: the
\* lock discipline of _ProcessContainment, the start-up order, and what each way
\* through terminate(), the one after a failed killpg included, has killed.
THEOREM Safe == Spec => []SafeInv
<1>1. TypeOK /\ SafeInv /\ [Next]_vars => SafeInv'
  <2> SUFFICES ASSUME TypeOK, SafeInv, [Next]_vars PROVE SafeInv'
    OBVIOUS
  <2>1. CASE UNCHANGED vars
    BY <2>1, SafeUntouched DEF vars, control, tree, containment, pipes
  <2>2. CASE Next
    BY <2>2, SafeProcess, SafeReader, SafeMain, SafeInterrupt DEF Next
  <2>3. QED
    BY <2>1, <2>2
<1>2. QED
  BY SafeInit, TypeCorrect, <1>1, PTL DEF Spec

\* A recorded kill is final: once any thread has set containment.terminated, so
\* that no later call will kill again, the root process is dead, and nothing else
\* of the contained tree runs unless the last killpg raised OSError with the
\* group alive: then the code records the kill of the root as that of the tree
\* (_ProcessContainment.terminate).
THEOREM TerminationIsFinal == Spec => []TerminatedIsFinal
<1>1. SafeInv => TerminatedIsFinal
  BY DEF SafeInv
<1>2. QED
  BY Safe, <1>1, PTL

\* On Windows the tree never executes outside an open Job Object, whatever
\* fails or is interrupted while the process is started and contained.
THEOREM Containment == Spec => []NothingRunsUncontained
<1>1. SafeInv => NothingRunsUncontained
  BY DEF SafeInv, JobContains, NothingRunsUncontained
<1>2. QED
  BY Safe, <1>1, PTL

\* A killpg that spared somebody was a system call that failed, on POSIX.
SparedByFailure == spared => Platform = "posix" /\ faults > 0

LEMMA SparedStep == TypeOK /\ SparedByFailure /\ [Next]_vars => SparedByFailure'
<1> SUFFICES ASSUME TypeOK, SparedByFailure, [Next]_vars PROVE SparedByFailure'
  OBVIOUS
<1>1. faults' = faults \/ faults' = faults + 1
  BY DEF Next, ProcessStep, SpawnKid, EscapeGroup, ExitKid, ExitRoot, WriteOutput, ReaderStep,
     TermStep, EnterTerminate, DisposeJob, DisposeJobFails, KillGroup, KillGroupFails,
     KillRootProcess, KillFails, BeginRead, ReadUnit, ReadEnd, ReadFails, FinishOverflow, MainStep,
     Spawn, SpawnFails, SpawnDeferringInterrupt, CreateJob, ResumeRoot, ContainFails, StartReader,
     WaitRoot, WaitTimesOut, KilledWaitTimesOut, MainTerminates, CleanupWait, JoinReader,
     JoinTimesOut, CloseStream, Verdict, Interrupt, InterruptBody, InterruptGuarded,
     InterruptUnguarded, ledger, vars
<1>2. spared' = spared \/ \E a \in Actors : KillGroup(a) \/ KillGroupFails(a)
  BY DEF Next, ProcessStep, SpawnKid, EscapeGroup, ExitKid, ExitRoot, WriteOutput, ReaderStep,
     TermStep, EnterTerminate, DisposeJob, DisposeJobFails, KillRootProcess, KillFails, BeginRead,
     ReadUnit, ReadEnd, ReadFails, FinishOverflow, RecordKill, SkipKill, MainStep, Spawn,
     SpawnFails, SpawnDeferringInterrupt, CreateJob, ResumeRoot, ContainFails, StartReader,
     WaitRoot, WaitTimesOut, KilledWaitTimesOut, MainTerminates, CleanupWait, JoinReader,
     JoinTimesOut, CloseStream, Verdict, Interrupt, InterruptBody, InterruptGuarded,
     InterruptUnguarded, DropLock, containment, vars, Actors
<1>3. CASE spared' = spared
  BY <1>1, <1>3 DEF SparedByFailure, TypeOK, LedgerOK
<1>4. ASSUME NEW a \in Actors, KillGroup(a) PROVE SparedByFailure'
  BY <1>4 DEF KillGroup, SparedByFailure
<1>5. ASSUME NEW a \in Actors, KillGroupFails(a) PROVE SparedByFailure'
  <2>1. Platform = "posix" /\ faults' = faults + 1
    BY <1>5 DEF KillGroupFails
  <2>2. QED
    BY <2>1 DEF SparedByFailure, TypeOK, LedgerOK
<1>6. QED
  BY <1>2, <1>3, <1>4, <1>5

\* Where no system call has failed, and on Windows whatever failed, a recorded
\* kill has no exception: every process the group or the Job contains is dead,
\* and stays so (_ProcessContainment.terminate).
THEOREM KillIsWhole ==
  Spec => [](terminated /\ (Platform = "nt" \/ faults = 0) => TreeDead)
<1>1. Init => SparedByFailure
  BY DEF Init, SparedByFailure
<1>2. Spec => []SparedByFailure
  BY <1>1, SparedStep, TypeCorrect, PTL DEF Spec
<1>3. TerminatedIsFinal /\ SparedByFailure
        => (terminated /\ (Platform = "nt" \/ faults = 0) => TreeDead)
  BY DEF TerminatedIsFinal, SparedByFailure, TreeKilled, TreeDead
<1>4. QED
  BY <1>2, <1>3, TerminationIsFinal, PTL

-----------------------------------------------------------------------------
(* The pipes: which steps touch them, and what is always true of them.      *)

PipeStep(s) ==
  WriteOutput(s) \/ BeginRead(s) \/ ReadUnit(s) \/ ReadEnd(s) \/ ReadFails(s) \/ FinishOverflow(s)

\* Only a writer, a reader and three steps of main touch the pipes.
LEMMA PipesChange ==
  [Next]_vars => (\E s \in Streams : PipeStep(s)) \/ StartReader \/ CloseStream \/ UNCHANGED pipes
<1> SUFFICES ASSUME [Next]_vars
             PROVE  (\E s \in Streams : PipeStep(s)) \/ StartReader \/ CloseStream \/ UNCHANGED pipes
  OBVIOUS
<1>1. ASSUME NEW a \in Actors, TermStep(a) PROVE UNCHANGED pipes
  BY <1>1 DEF TermStep, EnterTerminate, DisposeJob, DisposeJobFails, KillGroup,
              KillGroupFails, KillRootProcess, KillFails
<1>2. CASE ProcessStep
  BY <1>2 DEF ProcessStep, PipeStep, SpawnKid, EscapeGroup, ExitKid, ExitRoot
<1>3. ASSUME NEW s \in Streams, ReaderStep(s)
      PROVE  (\E t \in Streams : PipeStep(t)) \/ UNCHANGED pipes
  BY <1>1, <1>3 DEF ReaderStep, PipeStep
<1>4. CASE MainStep
  BY <1>1, <1>4 DEF MainStep, Spawn, SpawnFails, SpawnDeferringInterrupt, CreateJob, ResumeRoot,
         ContainFails, WaitRoot, WaitTimesOut, KilledWaitTimesOut, MainTerminates, CleanupWait,
         JoinReader, JoinTimesOut, Verdict
<1>5. CASE Interrupt
  BY <1>5 DEF Interrupt, InterruptBody, InterruptGuarded, InterruptUnguarded
<1>6. CASE UNCHANGED vars
  BY <1>6 DEF vars
<1>7. QED
  BY <1>2, <1>3, <1>4, <1>5, <1>6 DEF Next

\* Until the limit cuts a stream short, every unit of it is in the pipe or kept.
Counted ==
  \A s \in Streams :
    /\ unread[s] + retained[s] <= written[s]
    /\ ~overflow => written[s] = unread[s] + retained[s]

\* The overflow event is set for a stream that carried too much.
OverflowEarned == overflow => \E s \in Streams : written[s] > Limit

CountInv == Counted /\ OverflowEarned

LEMMA CountInit == Init => CountInv
  BY DEF Init, CountInv, Counted, OverflowEarned

LEMMA CountStep == TypeOK /\ CountInv /\ [Next]_vars => CountInv'
<1> SUFFICES ASSUME TypeOK, CountInv, [Next]_vars PROVE CountInv'
  OBVIOUS
<1> USE DEF CountInv, TypeOK, PipesOK
<1>1. CASE UNCHANGED <<unread, retained, written, overflow>>
  BY <1>1 DEF Counted, OverflowEarned
<1>2. ASSUME NEW s \in Streams, PipeStep(s) PROVE CountInv'
  <2>1. CASE WriteOutput(s)
    <3>1. /\ written' = [written EXCEPT ![s] = @ + 1] /\ unread' = [unread EXCEPT ![s] = @ + 1]
          /\ UNCHANGED <<retained, overflow>>
      BY <2>1 DEF WriteOutput
    <3>2. Counted'
      BY <3>1, RunnerAssumption DEF Counted
    <3>3. OverflowEarned'
      BY <3>1, RunnerAssumption DEF OverflowEarned
    <3>4. QED
      BY <3>2, <3>3
  <2>2. CASE ReadUnit(s)
    <3>1. unread[s] > 0 /\ unread' = [unread EXCEPT ![s] = @ - 1] /\ written' = written
      BY <2>2 DEF ReadUnit
    <3>2. CASE retained[s] < Limit
      <4>1. retained' = [retained EXCEPT ![s] = @ + 1] /\ overflow' = overflow
        BY <2>2, <3>2 DEF ReadUnit
      <4>2. Counted'
        BY <3>1, <4>1, RunnerAssumption DEF Counted
      <4>3. QED
        BY <3>1, <4>1, <4>2 DEF OverflowEarned
    <3>3. CASE ~(retained[s] < Limit)
      <4>1. retained' = retained /\ overflow'
        BY <2>2, <3>3 DEF ReadUnit
      <4>2. written[s] > Limit
        BY <3>1, <3>3, RunnerAssumption DEF Counted
      <4>3. Counted'
        BY <3>1, <4>1, RunnerAssumption DEF Counted
      <4>4. QED
        BY <3>1, <4>2, <4>3 DEF OverflowEarned
    <3>4. QED
      BY <3>2, <3>3
  <2>3. CASE BeginRead(s) \/ ReadEnd(s) \/ ReadFails(s) \/ FinishOverflow(s)
    BY <1>1, <2>3 DEF BeginRead, ReadEnd, ReadFails, FinishOverflow
  <2>4. QED
    BY <1>2, <2>1, <2>2, <2>3 DEF PipeStep
<1>3. CASE StartReader \/ CloseStream
  BY <1>1, <1>3 DEF StartReader, CloseStream
<1>4. QED
  BY <1>1, <1>2, <1>3, PipesChange DEF pipes

LEMMA CountAlways == Spec => []CountInv
  BY CountInit, CountStep, TypeCorrect, PTL DEF Spec

\* A reader is inside terminate() only for an overflow, which it has recorded.
OverflowKnown ==
  \A s \in Streams : /\ reader[s] = "overflowing" => overflow
                     /\ term[s] # "out" => reader[s] = "overflowing"

\* Each reader is started once, standard output first.
StartOrder ==
  /\ pc \in StartPhases \cup {"readers"} => reader["stderr"] = "idle"
  /\ pc \in StartPhases \/ (pc = "readers" /\ on = "stdout") => on = "stdout" /\ reader["stdout"] = "idle"

LEMMA StartStep == TypeOK /\ OverflowKnown /\ StartOrder /\ [Next]_vars => StartOrder'
<1> SUFFICES ASSUME TypeOK, OverflowKnown, StartOrder, [Next]_vars PROVE StartOrder'
  OBVIOUS
<1> USE DEF StartOrder
<1>1. ASSUME UNCHANGED reader,
             pc' \in StartPhases \cup {"readers"} => pc \in StartPhases /\ UNCHANGED on
      PROVE  StartOrder'
  BY <1>1
<1>2. ASSUME UNCHANGED <<reader, pc, on>> PROVE StartOrder'
  BY <1>2
<1>3. ASSUME NEW a \in Actors, TermStep(a) PROVE UNCHANGED <<reader, pc, on>>
  BY <1>3 DEF TermStep, EnterTerminate, DisposeJob, DisposeJobFails, KillGroup,
              KillGroupFails, KillRootProcess, KillFails,
              pipes, control
<1>4. CASE ProcessStep \/ UNCHANGED vars
  BY <1>2, <1>4 DEF ProcessStep, SpawnKid, EscapeGroup, ExitKid, ExitRoot, WriteOutput,
                    vars, pipes, control
<1>5. ASSUME NEW s \in Streams, ReaderStep(s) PROVE StartOrder'
  <2>1. CASE BeginRead(s) \/ ReadUnit(s) \/ ReadEnd(s) \/ ReadFails(s) \/ FinishOverflow(s)
    <3>1. /\ reader[s] # "idle" /\ UNCHANGED <<pc, on>>
          /\ \A t \in Streams : t # s => reader'[t] = reader[t]
      BY <2>1 DEF BeginRead, ReadUnit, ReadEnd, ReadFails, FinishOverflow, RecordKill, SkipKill,
                  CallsTerminate, OverflowKnown, control, TypeOK, PipesOK
    <3>2. QED
      BY <3>1
  <2>2. QED
    BY <1>2, <1>3, <1>5, <2>1 DEF ReaderStep
<1>6. CASE MainStep
  <2>1. CASE StartReader
    BY <2>1 DEF StartReader, StartPhases, TypeOK, PipesOK
  <2>2. CASE MainTerminates \/ CleanupWait \/ JoinReader \/ JoinTimesOut \/ CloseStream
    <3>1. reader' = reader /\ (pc = "t_term" \/ pc \in Guarded) /\ (pc = "t_term" => pc' = "t_wait")
      BY <2>2 DEF MainTerminates, LeaveTerminate, CleanupWait, JoinReader, JoinTimesOut, CloseStream,
                  TermPhases, Guarded, pipes
    <3>2. pc \in Guarded => Advance \/ Retry
      BY <2>2 DEF MainTerminates, LeaveTerminate, CleanupWait, JoinReader, JoinTimesOut, CloseStream,
                  Guarded
    <3>3. pc' \notin StartPhases \cup {"readers"}
      BY <3>1, <3>2 DEF Advance, Retry, PhaseAfter, Guarded, StartPhases, PerStream
    <3>4. QED
      BY <1>1, <3>1, <3>3
  <2>3. CASE Spawn \/ SpawnFails \/ SpawnDeferringInterrupt \/ CreateJob \/ ResumeRoot \/ ContainFails
    <3>1. reader' = reader /\ on' = on /\ pc \in StartPhases
      BY <2>3 DEF Spawn, SpawnFails, SpawnDeferringInterrupt, CreateJob, ResumeRoot, ContainFails,
                  StartPhases, pipes
    <3>2. QED
      BY <1>1, <3>1
  <2>4. CASE WaitRoot \/ WaitTimesOut \/ KilledWaitTimesOut \/ Verdict
    <3>1. reader' = reader /\ pc' \notin StartPhases \cup {"readers"}
      BY <2>4 DEF WaitRoot, WaitTimesOut, KilledWaitTimesOut, Verdict, StartPhases, pipes
    <3>2. QED
      BY <1>1, <3>1
  <2>5. CASE TermStep("main")
    BY <1>2, <1>3, <2>5
  <2>6. QED
    BY <1>6, <2>1, <2>2, <2>3, <2>4, <2>5 DEF MainStep
<1>7. CASE Interrupt
  <2>1. reader' = reader
    BY <1>7 DEF Interrupt, InterruptBody, InterruptGuarded, InterruptUnguarded, pipes
  <2>2. pc' \notin StartPhases \cup {"readers"}
    BY <1>7 DEF Interrupt, InterruptBody, InterruptGuarded, InterruptUnguarded, Retry, Advance,
                PhaseAfter, Guarded, StartPhases, PerStream
  <2>3. QED
    BY <1>1, <2>1, <2>2
<1>8. QED
  BY <1>4, <1>5, <1>6, <1>7 DEF Next

LEMMA KnownStep == TypeOK /\ StartOrder /\ OverflowKnown /\ [Next]_vars => OverflowKnown'
<1> SUFFICES ASSUME TypeOK, StartOrder, OverflowKnown, [Next]_vars PROVE OverflowKnown'
  OBVIOUS
<1> USE DEF OverflowKnown, TypeOK, PipesOK, ContainmentOK
<1>1. ASSUME UNCHANGED <<reader, overflow>>, \A s \in Streams : term'[s] # "out" => term[s] # "out"
      PROVE  OverflowKnown'
  BY <1>1
<1>2. ASSUME NEW a \in Actors, TermStep(a) PROVE OverflowKnown'
  <2>1. UNCHANGED pipes /\ \A b \in Actors : b # a => term'[b] = term[b]
    BY <1>2 DEF TermStep, EnterTerminate, DisposeJob, DisposeJobFails, KillGroup,
                KillGroupFails, KillRootProcess, KillFails
  <2>2. term[a] # "out" \/ CallsTerminate(a)
    BY <1>2 DEF TermStep, EnterTerminate, DisposeJob, DisposeJobFails, KillGroup,
                KillGroupFails, KillRootProcess, KillFails, KillsRoot, Direct
  <2>3. QED
    BY <2>1, <2>2 DEF pipes, CallsTerminate
<1>3. CASE ProcessStep \/ UNCHANGED vars
  BY <1>1, <1>3 DEF ProcessStep, SpawnKid, EscapeGroup, ExitKid, ExitRoot, WriteOutput,
                    vars, pipes, containment
<1>4. ASSUME NEW s \in Streams, ReaderStep(s) PROVE OverflowKnown'
  <2>1. CASE BeginRead(s) \/ ReadUnit(s) \/ ReadEnd(s) \/ ReadFails(s)
    <3>1. /\ reader[s] \in {"between", "reading"} /\ UNCHANGED term
          /\ \A t \in Streams : t # s => reader'[t] = reader[t]
          /\ overflow => overflow'
          /\ reader'[s] = "overflowing" => overflow'
      BY <2>1 DEF BeginRead, ReadUnit, ReadEnd, ReadFails, containment
    <3>2. QED
      BY <3>1
  <2>2. CASE FinishOverflow(s)
    <3>1. /\ reader[s] = "overflowing" /\ reader' = [reader EXCEPT ![s] = "done"]
          /\ UNCHANGED overflow
          /\ term'[s] = "out" /\ \A t \in Streams : t # s => term'[t] = term[t]
      BY <2>2 DEF FinishOverflow, RecordKill, SkipKill, containment, CallsTerminate
    <3>2. QED
      BY <3>1
  <2>3. QED
    BY <1>2, <1>4, <2>1, <2>2 DEF ReaderStep
<1>5. CASE MainStep
  <2>1. CASE TermStep("main")
    BY <1>2, <2>1
  <2>2. CASE StartReader
    <3>1. reader[on] = "idle" /\ on \in Streams
      BY <2>2 DEF StartReader, StartOrder, TypeOK, ControlOK
    <3>2. QED
      BY <2>2, <3>1 DEF StartReader, containment
  <2>3. CASE CreateJob \/ MainTerminates \/ CloseStream
    BY <1>1, <2>3 DEF CreateJob, MainTerminates, RecordKill, SkipKill, CloseStream, containment, pipes
  <2>4. CASE ~(TermStep("main") \/ StartReader \/ CreateJob \/ MainTerminates \/ CloseStream)
    <3>1. UNCHANGED <<pipes, containment>>
      BY <1>5, <2>4 DEF MainStep, Spawn, SpawnFails, SpawnDeferringInterrupt, ResumeRoot,
         ContainFails, WaitRoot, WaitTimesOut, KilledWaitTimesOut, CleanupWait,
         JoinReader, JoinTimesOut, Verdict
    <3>2. QED
      BY <1>1, <3>1 DEF pipes, containment
  <2>5. QED
    BY <2>1, <2>2, <2>3, <2>4
<1>6. CASE Interrupt
  BY <1>1, <1>6 DEF Interrupt, InterruptBody, InterruptGuarded, InterruptUnguarded, DropLock,
                    pipes, containment
<1>7. QED
  BY <1>3, <1>4, <1>5, <1>6 DEF Next

LEMMA KnownAlways == Spec => [](OverflowKnown /\ StartOrder)
<1>1. Init => OverflowKnown /\ StartOrder
  BY DEF Init, OverflowKnown, StartOrder
<1>2. QED
  BY <1>1, KnownStep, StartStep, TypeCorrect, PTL DEF Spec

-----------------------------------------------------------------------------
(* The ends of the pipes: once nobody can write, nobody ever will.          *)

\* The tree passes its pipes on only while one of its processes has them.
LEMMA HeldStays ==
  TypeOK /\ pc \notin StartPhases /\ ~Held /\ [Next]_vars => ~Held'
<1> SUFFICES ASSUME TypeOK, pc \notin StartPhases, ~Held, [Next]_vars PROVE ~Held'
  OBVIOUS
<1> USE DEF Held, RootLive, Grouped, Escaped, TypeOK, TreeOK
<1>1. ASSUME UNCHANGED quiet,
             root' = root \/ root' \in {"exited", "reaped"},
             kid' = kid \/ KillContained
      PROVE  ~Held'
  BY <1>1 DEF KillContained
<1>2. ASSUME NEW a \in Actors, TermStep(a) PROVE ~Held'
  <2>1. UNCHANGED quiet /\ (UNCHANGED <<root, kid>> \/ KillContained \/ KillRoot)
    BY <1>2 DEF TermStep, EnterTerminate, DisposeJob, DisposeJobFails, KillGroup,
                KillGroupFails, KillRootProcess, KillFails, tree
  <2>2. QED
    BY <1>1, <2>1 DEF KillContained, KillRoot
<1>3. CASE ProcessStep
  <2>1. ASSUME NEW k \in Kids, SpawnKid(k) PROVE ~Held'
    <3>1. quiet' = quiet \cup {k} /\ root' = root /\ \A j \in Kids \ {k} : kid'[j] = kid[j]
      BY <2>1 DEF SpawnKid
    <3>2. QED
      BY <3>1
  <2>2. ASSUME NEW k \in Kids, EscapeGroup(k) \/ ExitKid(k) PROVE ~Held'
    BY <2>2 DEF EscapeGroup, ExitKid
  <2>3. CASE ExitRoot \/ \E s \in Streams : WriteOutput(s)
    BY <1>1, <2>3 DEF ExitRoot, WriteOutput, tree
  <2>4. QED
    BY <1>3, <2>1, <2>2, <2>3 DEF ProcessStep
<1>4. ASSUME NEW s \in Streams, ReaderStep(s) PROVE ~Held'
  BY <1>1, <1>2, <1>4 DEF ReaderStep, BeginRead, ReadUnit, ReadEnd, ReadFails, FinishOverflow, tree
<1>5. CASE MainStep
  <2>1. ~(Spawn \/ SpawnDeferringInterrupt \/ ResumeRoot)
    BY DEF Spawn, SpawnDeferringInterrupt, ResumeRoot, StartPhases
  <2>2. QED
    BY <1>1, <1>2, <1>5, <2>1 DEF MainStep, SpawnFails, CreateJob, ContainFails, StartReader,
         WaitRoot, WaitTimesOut, KilledWaitTimesOut, MainTerminates, CleanupWait,
         JoinReader, JoinTimesOut, CloseStream, Verdict, tree
<1>6. CASE Interrupt
  BY <1>1, <1>6 DEF Interrupt, InterruptBody, InterruptGuarded, InterruptUnguarded, tree
<1>7. CASE UNCHANGED vars
  BY <1>1, <1>7 DEF vars, tree
<1>8. QED
  BY <1>3, <1>4, <1>5, <1>6, <1>7 DEF Next

\* A reader that ended at the end of its pipe left nothing in it, for good.
EndOfFile == \A s \in Streams : reader[s] = "done" /\ ~overflow => unread[s] = 0 /\ ~Held

LEMMA EndOfFileStep ==
  TypeOK /\ SafeInv /\ OverflowKnown /\ EndOfFile /\ [Next]_vars => EndOfFile'
<1> SUFFICES ASSUME TypeOK, SafeInv, OverflowKnown, EndOfFile, [Next]_vars,
                    NEW s \in Streams, reader'[s] = "done", ~overflow'
             PROVE  unread'[s] = 0 /\ ~Held'
  BY DEF EndOfFile
<1> USE DEF TypeOK, PipesOK
<1>1. CASE reader[s] = "done" /\ ~overflow
  <2>1. unread[s] = 0 /\ ~Held
    BY <1>1 DEF EndOfFile
  <2>2. pc \notin StartPhases
    BY <1>1 DEF SafeInv, StartAlone
  <2>3. ~Held'
    BY <2>1, <2>2, HeldStays
  <2>4. unread'[s] = 0
    <3>1. ASSUME NEW t \in Streams, PipeStep(t) PROVE unread'[s] = 0
      BY <2>1, <3>1 DEF PipeStep, WriteOutput, BeginRead, ReadUnit, ReadEnd, ReadFails,
                        FinishOverflow, Held, RootLive
    <3>2. QED
      BY <2>1, <3>1, PipesChange DEF StartReader, CloseStream, pipes
  <2>5. QED
    BY <2>3, <2>4
<1>2. CASE ~(reader[s] = "done" /\ ~overflow)
  <2>1. ~overflow
    BY PipesChange DEF PipeStep, WriteOutput, BeginRead, ReadUnit, ReadEnd, ReadFails,
                       FinishOverflow, StartReader, CloseStream, pipes
  <2>2. reader[s] # "done"
    BY <1>2, <2>1
  <2>3. ASSUME NEW t \in Streams, PipeStep(t) PROVE unread'[s] = 0 /\ ~Held'
    <3>1. CASE ReadEnd(t)
      <4>1. UNCHANGED <<tree, unread>> /\ ~Held /\ unread[t] = 0 /\ t = s
        BY <2>2, <3>1 DEF ReadEnd
      <4>2. QED
        BY <4>1 DEF Held, RootLive, Grouped, Escaped, tree
    <3>2. CASE FinishOverflow(t)
      <4>1. reader[t] = "overflowing"
        BY <3>2 DEF FinishOverflow, RecordKill, SkipKill, CallsTerminate, OverflowKnown
      <4>2. QED
        BY <2>1, <4>1 DEF OverflowKnown
    <3>3. CASE WriteOutput(t) \/ BeginRead(t) \/ ReadUnit(t) \/ ReadFails(t)
      BY <2>2, <3>3 DEF WriteOutput, BeginRead, ReadUnit, ReadFails
    <3>4. QED
      BY <2>3, <3>1, <3>2, <3>3 DEF PipeStep
  <2>4. QED
    BY <2>2, <2>3, PipesChange DEF StartReader, CloseStream, pipes
<1>3. QED
  BY <1>1, <1>2

LEMMA EndOfFileAlways == Spec => []EndOfFile
<1>1. Init => EndOfFile
  BY DEF Init, EndOfFile
<1>2. QED
  BY <1>1, EndOfFileStep, TypeCorrect, Safe, KnownAlways, PTL DEF Spec

-----------------------------------------------------------------------------
(* The outcome: what was still true when the call decided on it.            *)

\* What a step does to one reader: one that has ended stays as it ended.
LEMMA ReaderMoves ==
  ASSUME TypeOK, OverflowKnown, StartOrder, [Next]_vars, NEW s \in Streams
  PROVE  /\ ~Alive(s) => reader'[s] = reader[s] \/ (reader[s] = "idle" /\ pc = "readers" /\ on = s)
         /\ reader[s] # "idle" => reader'[s] # "idle"
         /\ reader'[s] = "crashed" => reader[s] = "crashed" \/ (Alive(s) /\ stream[s] = "closed")
<1> USE DEF TypeOK, PipesOK, Alive
<1>1. ASSUME NEW t \in Streams, PipeStep(t)
        PROVE  /\ ~Alive(s) => reader'[s] = reader[s] \/ (reader[s] = "idle" /\ pc = "readers" /\ on = s)
               /\ reader[s] # "idle" => reader'[s] # "idle"
               /\ reader'[s] = "crashed" => reader[s] = "crashed" \/ (Alive(s) /\ stream[s] = "closed")
  <2>1. CASE WriteOutput(t)
    BY <2>1 DEF WriteOutput
  <2>2. CASE BeginRead(t) \/ ReadUnit(t) \/ ReadEnd(t) \/ ReadFails(t)
    BY <2>2 DEF BeginRead, ReadUnit, ReadEnd, ReadFails
  <2>3. CASE FinishOverflow(t)
    <3>1. reader[t] = "overflowing" /\ reader' = [reader EXCEPT ![t] = "done"]
      BY <2>3 DEF FinishOverflow, RecordKill, SkipKill, CallsTerminate, OverflowKnown
    <3>2. QED
      BY <3>1
  <2>4. QED
    BY <1>1, <2>1, <2>2, <2>3 DEF PipeStep
<1>2. CASE StartReader
  <2>1. pc = "readers" /\ on \in Streams /\ reader[on] = "idle" /\ reader' = [reader EXCEPT ![on] = "between"]
    BY <1>2 DEF StartReader, StartOrder, ControlOK
  <2>2. QED
    BY <2>1
<1>3. CASE CloseStream \/ UNCHANGED pipes
  BY <1>3 DEF CloseStream, pipes
<1>4. QED
  BY <1>1, <1>2, <1>3, PipesChange

\* Only main and its interrupts move the control state, and never after the end.
LEMMA ControlChange ==
  ASSUME [Next]_vars
  PROVE  \/ UNCHANGED <<control, setbacks, abandoned, heldOpen>>
         \/ pc # "done" /\ (Interrupt \/ (MainStep /\ ~TermStep("main")))
<1>1. ASSUME NEW a \in Actors, TermStep(a) PROVE UNCHANGED <<control, setbacks, abandoned, heldOpen>>
  BY <1>1 DEF TermStep, EnterTerminate, DisposeJob, DisposeJobFails, KillGroup,
              KillGroupFails, KillRootProcess, KillFails, ledger
<1>2. CASE ProcessStep \/ UNCHANGED vars
  BY <1>2 DEF ProcessStep, SpawnKid, EscapeGroup, ExitKid, ExitRoot, WriteOutput, vars, ledger
<1>3. ASSUME NEW s \in Streams, ReaderStep(s)
      PROVE  UNCHANGED <<control, setbacks, abandoned, heldOpen>>
  BY <1>1, <1>3 DEF ReaderStep, BeginRead, ReadUnit, ReadEnd, ReadFails, FinishOverflow, ledger
<1>4. CASE MainStep /\ ~TermStep("main")
  BY <1>4 DEF MainStep, Spawn, SpawnFails, SpawnDeferringInterrupt, CreateJob, ResumeRoot,
         ContainFails, StartReader, WaitRoot, WaitTimesOut, KilledWaitTimesOut, MainTerminates,
         CleanupWait, JoinReader, JoinTimesOut, CloseStream, Verdict, TermPhases
<1>5. CASE Interrupt
  BY <1>5 DEF Interrupt, InterruptBody, InterruptGuarded, InterruptUnguarded, Interruptible
<1>6. QED
  BY <1>1, <1>2, <1>3, <1>4, <1>5 DEF Next

\* An outcome is decided once, and a completed one on readers that had ended
\* with neither a failure nor an overflow.
OutcomeInv ==
  /\ outcome # "none" => pc = "done"
  /\ outcome = "overflow" => overflow
  /\ outcome = "completed" => /\ cause = "none" /\ ~interruption /\ ~overflow
                              /\ \A s \in Streams : ~Alive(s) /\ reader[s] # "failed"

LEMMA OutcomeStep ==
  TypeOK /\ OverflowKnown /\ StartOrder /\ OutcomeInv /\ [Next]_vars => OutcomeInv'
<1> SUFFICES ASSUME TypeOK, OverflowKnown, StartOrder, OutcomeInv, [Next]_vars PROVE OutcomeInv'
  OBVIOUS
<1>1. overflow => overflow'
  BY PipesChange DEF PipeStep, WriteOutput, BeginRead, ReadUnit, ReadEnd, ReadFails,
                     FinishOverflow, StartReader, CloseStream, pipes
<1>2. (\A s \in Streams : ~Alive(s)) => overflow' = overflow
  BY PipesChange DEF PipeStep, WriteOutput, BeginRead, ReadUnit, ReadEnd, ReadFails,
                     FinishOverflow, StartReader, CloseStream, pipes, Alive
<1>3. CASE UNCHANGED control
  <2>1. CASE outcome = "completed"
    <3>1. pc # "readers"
      BY <2>1 DEF OutcomeInv
    <3>2. \A s \in Streams : reader'[s] = reader[s]
      BY <2>1, <3>1, ReaderMoves DEF OutcomeInv
    <3>3. QED
      BY <1>1, <1>2, <1>3, <2>1, <3>2 DEF OutcomeInv, control, Alive
  <2>2. CASE outcome # "completed"
    BY <1>1, <1>3, <2>2 DEF OutcomeInv, control
  <2>3. QED
    BY <2>1, <2>2
<1>4. CASE pc # "done" /\ Verdict
  <2>1. /\ pc' = "done" /\ UNCHANGED <<interruption, cause, pipes>>
        /\ outcome' = "overflow" => overflow
        /\ outcome' = "completed" => cause = "none" /\ ~interruption /\ ~overflow
                                     /\ ~(\E s \in Started : Alive(s))
                                     /\ ~(\E s \in Streams : reader[s] = "failed")
    BY <1>4 DEF Verdict, TypeOK, ControlOK
  <2>2. ~(\E s \in Started : Alive(s)) => \A s \in Streams : ~Alive(s)
    BY DEF Started, Alive
  <2>3. QED
    BY <2>1, <2>2 DEF OutcomeInv, pipes, Alive
<1>5. CASE pc # "done" /\ ~Verdict /\ (Interrupt \/ (MainStep /\ ~TermStep("main")))
  <2>1. outcome = "none"
    BY <1>5 DEF OutcomeInv
  <2>2. outcome' = "none" \/ (outcome' \in {"error", "interrupted"} /\ pc' = "done")
    BY <1>5, <2>1 DEF MainStep, Spawn, SpawnFails, SpawnDeferringInterrupt, CreateJob, ResumeRoot,
         ContainFails, StartReader, WaitRoot, WaitTimesOut, KilledWaitTimesOut, MainTerminates,
         CleanupWait, JoinReader, JoinTimesOut, CloseStream,
         Interrupt, InterruptBody, InterruptGuarded, InterruptUnguarded
  <2>3. QED
    BY <2>2 DEF OutcomeInv
<1>6. QED
  BY <1>3, <1>4, <1>5, ControlChange

LEMMA OutcomeAlways == Spec => []OutcomeInv
<1>1. Init => OutcomeInv
  BY DEF Init, OutcomeInv
<1>2. QED
  BY <1>1, OutcomeStep, TypeCorrect, KnownAlways, PTL DEF Spec

\* An overflow is reported only for a stream that carried more than the limit,
\* and a completed call kept every stream within it (the comparison with
\* _MAX_RESOLVER_STREAM_BYTES in _read_process_pipe), for every limit.
THEOREM OverflowReal == Spec => []OverflowIsReal
<1>1. TypeOK /\ CountInv /\ OutcomeInv => OverflowIsReal
  BY RunnerAssumption DEF CountInv, OverflowEarned, OutcomeInv, OverflowIsReal, TypeOK, PipesOK
<1>2. QED
  BY <1>1, TypeCorrect, CountAlways, OutcomeAlways, PTL

-----------------------------------------------------------------------------
(* A call that nothing disturbed: both readers are started, joined, and     *)
(* only then are the streams closed.                                        *)

Undisturbed == cause = "none" /\ ~interruption /\ ~heldOpen
Ended == {"close2", "verdict", "done"}
Straight == {"spawn", "job", "resume", "readers", "wait", "fin_term", "fin_wait", "join1"} \cup Ended

BothStarted ==
  /\ pc = "readers" /\ on = "stderr" => reader["stdout"] # "idle"
  /\ pc \in Straight \ (StartPhases \cup {"readers"}) /\ outcome # "error"
       => \A s \in Streams : reader[s] # "idle"

BothJoined ==
  /\ pc = "join1" /\ on = "stderr" => ~Alive("stdout")
  /\ pc \in Ended => \A s \in Streams : ~Alive(s)

NoneCut ==
  \A s \in Streams : /\ stream[s] = "closed" => pc \in Ended
                     /\ reader[s] # "crashed"

JoinInv == Undisturbed => pc \in Straight /\ BothStarted /\ BothJoined /\ NoneCut

\* What can still happen to the control of a call that nothing disturbed.
LEMMA StraightSteps ==
  ASSUME TypeOK, JoinInv, [Next]_vars, Undisturbed'
  PROVE  /\ Undisturbed
         /\ \/ UNCHANGED control
            \/ pc \in StartPhases /\ pc' \in StartPhases \cup {"readers"} /\ UNCHANGED <<on, outcome>>
            \/ SpawnFails
            \/ StartReader
            \/ pc \in {"wait", "fin_term", "fin_wait"} /\ pc' \in {"fin_term", "fin_wait", "join1"}
               /\ (pc' = "join1" => on' = "stdout") /\ outcome' = outcome
            \/ pc = pc' /\ pc \notin {"join1", "readers"} /\ outcome' = outcome
            \/ JoinReader
            \/ pc = "close2" /\ pc' = "verdict" /\ outcome' = outcome
            \/ Verdict /\ outcome' # "error"
<1> USE DEF Undisturbed, TypeOK, ControlOK
<1>1. CASE UNCHANGED <<control, setbacks, abandoned, heldOpen>>
  BY <1>1 DEF control
<1>2. ASSUME Interrupt PROVE FALSE
  BY <1>2 DEF Interrupt, InterruptBody, InterruptGuarded, InterruptUnguarded
<1>3. CASE Spawn \/ CreateJob \/ ResumeRoot
  BY <1>3 DEF Spawn, CreateJob, ResumeRoot, StartPhases, ledger
<1>4. CASE SpawnFails
  BY <1>4 DEF SpawnFails
<1>5. CASE StartReader
  BY <1>5 DEF StartReader, ledger
<1>6. ASSUME SpawnDeferringInterrupt \/ ContainFails \/ WaitTimesOut \/ JoinTimesOut PROVE FALSE
  BY <1>6 DEF SpawnDeferringInterrupt, ContainFails, WaitTimesOut, JoinTimesOut
<1>7. CASE WaitRoot \/ KilledWaitTimesOut \/ MainTerminates \/ CleanupWait \/ CloseStream \/ Verdict
  <2>1. Undisturbed
    BY <1>7 DEF WaitRoot, KilledWaitTimesOut, MainTerminates, CleanupWait, CloseStream, Verdict, ledger
  <2>2. pc \in Straight
    BY <2>1 DEF JoinInv
  <2>3. CASE WaitRoot
    BY <2>1, <2>2, <2>3 DEF WaitRoot, Straight, Ended
  <2>4. CASE KilledWaitTimesOut
    BY <2>2, <2>4 DEF KilledWaitTimesOut, Straight, Ended
  <2>5. CASE MainTerminates
    <3>1. pc = "fin_term" /\ outcome' = outcome /\ (Advance \/ Retry)
      BY <2>2, <2>5 DEF MainTerminates, LeaveTerminate, TermPhases, Straight, Ended
    <3>2. QED
      BY <2>1, <3>1 DEF Advance, Retry, PerStream, PhaseAfter
  <2>6. CASE CleanupWait
    <3>1. pc = "fin_wait" /\ outcome' = outcome /\ Advance
      BY <2>2, <2>6 DEF CleanupWait, Straight, Ended
    <3>2. QED
      BY <2>1, <3>1 DEF Advance, PerStream, PhaseAfter
  <2>7. CASE CloseStream
    <3>1. pc = "close2" /\ outcome' = outcome /\ Advance
      BY <2>2, <2>7 DEF CloseStream, Straight, Ended
    <3>2. QED
      BY <2>1, <3>1 DEF Advance, PerStream, PhaseAfter
  <2>8. CASE Verdict
    BY <2>1, <2>8 DEF Verdict
  <2>9. QED
    BY <1>7, <2>3, <2>4, <2>5, <2>6, <2>7, <2>8
<1>8. CASE JoinReader
  BY <1>8 DEF JoinReader, ledger
<1>9. QED
  BY <1>1, <1>2, <1>3, <1>4, <1>5, <1>6, <1>7, <1>8, ControlChange DEF MainStep

LEMMA JoinStep ==
  TypeOK /\ OverflowKnown /\ StartOrder /\ OutcomeInv /\ JoinInv /\ [Next]_vars => JoinInv'
<1> SUFFICES ASSUME TypeOK, OverflowKnown, StartOrder, OutcomeInv, JoinInv, [Next]_vars, Undisturbed'
             PROVE  (pc \in Straight /\ BothStarted /\ BothJoined /\ NoneCut)'
  BY DEF JoinInv
<1>1. Undisturbed /\ pc \in Straight /\ BothStarted /\ BothJoined /\ NoneCut
  BY StraightSteps DEF JoinInv
<1>2. pc' \in Straight
  <2>1. CASE JoinReader
    <3>1. pc = "join1"
      BY <1>1, <2>1 DEF JoinReader, Straight, Ended
    <3>2. ~(on # "stdout" /\ \E s \in Started : Alive(s))
      <4>1. CASE on # "stdout"
        <5>1. \A s \in Streams : ~Alive(s)
          BY <1>1, <2>1, <3>1, <4>1 DEF JoinReader, BothJoined, TypeOK, ControlOK
        <5>2. QED
          BY <5>1 DEF Started
      <4>2. QED
        BY <4>1
    <3>3. QED
      BY <2>1, <3>1, <3>2 DEF JoinReader, Advance, PerStream, PhaseAfter, Straight, Ended
  <2>2. QED
    BY <1>1, <2>1, StraightSteps DEF control, SpawnFails, StartReader, Verdict, Straight, Ended, StartPhases
<1>3. BothStarted'
  <2>1. ASSUME NEW s \in Streams, reader[s] # "idle" PROVE reader'[s] # "idle"
    BY <2>1, ReaderMoves
  <2>2. CASE StartReader
    <3>1. pc = "readers" /\ reader' = [reader EXCEPT ![on] = "between"]
          /\ (on = "stdout" => pc' = "readers" /\ on' = "stderr")
          /\ (on # "stdout" => on' = "stdout" /\ pc' = "wait")
      BY <2>2 DEF StartReader
    <3>2. QED
      BY <1>1, <2>1, <3>1 DEF BothStarted, TypeOK, ControlOK, PipesOK, StartPhases
  <2>3. CASE ~StartReader
    <3>1. CASE pc' = "readers" /\ on' = "stderr"
      <4>1. pc = "readers" /\ on = "stderr"
        BY <2>3, <3>1, StraightSteps DEF control, SpawnFails, JoinReader, Advance, PerStream,
           PhaseAfter, Verdict, StartPhases, StartOrder, TypeOK, ControlOK
      <4>2. QED
        BY <1>1, <2>1, <3>1, <4>1 DEF BothStarted, StartPhases
    <3>2. CASE pc' \in Straight \ (StartPhases \cup {"readers"}) /\ outcome' # "error"
      <4>1. pc \in Straight \ (StartPhases \cup {"readers"}) /\ outcome # "error"
        BY <1>1, <2>3, <3>2, StraightSteps DEF control, SpawnFails, JoinReader, Advance, PerStream,
           PhaseAfter, Verdict, StartPhases, TypeOK, ControlOK, Straight, Ended, OutcomeInv
      <4>2. QED
        BY <1>1, <2>1, <3>2, <4>1 DEF BothStarted
    <3>3. QED
      BY <3>1, <3>2 DEF BothStarted
  <2>4. QED
    BY <2>2, <2>3
<1>4. BothJoined'
  <2>1. ASSUME NEW s \in Streams, ~Alive(s), pc # "readers" PROVE ~Alive(s)'
    BY <2>1, ReaderMoves DEF Alive
  <2>2. CASE JoinReader
    <3>1. pc = "join1" /\ ~Alive(on) /\ UNCHANGED reader
      BY <1>1, <2>2 DEF JoinReader, Straight, Ended, pipes
    <3>2. CASE on = "stdout"
      BY <2>2, <3>1, <3>2 DEF JoinReader, Advance, PerStream, BothJoined, Ended, Alive
    <3>3. CASE on # "stdout"
      <4>1. \A s \in Streams : ~Alive(s)
        BY <1>1, <3>1, <3>3 DEF BothJoined, TypeOK, ControlOK
      <4>2. QED
        BY <3>1, <4>1 DEF BothJoined, Alive
    <3>4. QED
      BY <3>2, <3>3
  <2>3. CASE SpawnFails
    BY <2>3, ReaderMoves DEF SpawnFails, pipes, StartOrder, StartPhases, BothJoined, Alive
  <2>4. CASE ~JoinReader /\ ~SpawnFails
    <3>1. ASSUME pc' = "join1" /\ on' = "stderr" PROVE pc = "join1" /\ on = "stderr"
      BY <2>4, <3>1, StraightSteps DEF control, StartReader, Verdict, StartPhases
    <3>2. ASSUME pc' \in Ended PROVE pc \in Ended
      BY <2>4, <3>2, StraightSteps DEF control, StartReader, Verdict, StartPhases, Ended
    <3>3. QED
      BY <1>1, <2>1, <3>1, <3>2 DEF BothJoined, Ended
  <2>5. QED
    BY <2>2, <2>3, <2>4
<1>5. NoneCut'
  <2>1. pc \in Ended => pc' \in Ended
    BY StraightSteps DEF control, SpawnFails, StartReader, JoinReader, Verdict, StartPhases, Ended
  <2>2. ASSUME NEW s \in Streams, stream'[s] = "closed" PROVE stream[s] = "closed" \/ pc \in Ended
    <3>1. CASE CloseStream
      BY <1>1, <3>1 DEF CloseStream, Straight, Ended
    <3>2. CASE ~CloseStream
      BY <2>2, <3>2, PipesChange DEF PipeStep, WriteOutput, BeginRead, ReadUnit, ReadEnd, ReadFails,
         FinishOverflow, StartReader, pipes
    <3>3. QED
      BY <3>1, <3>2
  <2>3. ASSUME NEW s \in Streams PROVE reader'[s] # "crashed"
    <3>1. ~(Alive(s) /\ stream[s] = "closed")
      BY <1>1 DEF NoneCut, BothJoined
    <3>2. QED
      BY <1>1, <3>1, ReaderMoves DEF NoneCut
  <2>4. QED
    BY <1>1, <2>1, <2>2, <2>3 DEF NoneCut
<1>6. QED
  BY <1>2, <1>3, <1>4, <1>5

LEMMA JoinAlways == Spec => []JoinInv
<1>1. Init => JoinInv
  BY DEF Init, JoinInv, BothStarted, BothJoined, NoneCut, Straight, Ended, StartPhases
<1>2. QED
  BY <1>1, JoinStep, TypeCorrect, KnownAlways, OutcomeAlways, PTL DEF Spec

\* A completed result is whole: both readers saw the end of their pipe and kept
\* every unit that was ever written to it, whatever kill, close or join raced
\* them, unless a join deadline had passed (_run_bounded_process).
THEOREM WholeResult == Spec => []CompletedIsWhole
<1>1. TypeOK /\ CountInv /\ EndOfFile /\ OutcomeInv /\ JoinInv => CompletedIsWhole
  <2> SUFFICES ASSUME TypeOK, CountInv, EndOfFile, OutcomeInv, JoinInv,
                      outcome = "completed", ~heldOpen, NEW s \in Streams
               PROVE  reader[s] = "done" /\ retained[s] = written[s] /\ unread[s] = 0
    BY DEF CompletedIsWhole
  <2>1. pc = "done" /\ ~overflow /\ ~Alive(s) /\ reader[s] # "failed" /\ Undisturbed
    BY DEF OutcomeInv, Undisturbed
  <2>2. reader[s] # "idle" /\ reader[s] # "crashed"
    BY <2>1 DEF JoinInv, BothStarted, NoneCut, Straight, Ended, StartPhases
  <2>3. reader[s] = "done"
    BY <2>1, <2>2 DEF TypeOK, PipesOK, Alive
  <2>4. unread[s] = 0
    BY <2>1, <2>3 DEF EndOfFile
  <2>5. retained[s] = written[s]
    BY <2>1, <2>4, RunnerAssumption DEF CountInv, Counted, TypeOK, PipesOK
  <2>6. QED
    BY <2>3, <2>4, <2>5
<1>2. QED
  BY <1>1, TypeCorrect, CountAlways, EndOfFileAlways, OutcomeAlways, JoinAlways, PTL

-----------------------------------------------------------------------------
(* The Job handle: terminate() forgets it in the step that releases the     *)
(* lock, so only an interrupt in between leaves a closed handle attached.   *)

JobForgotten ==
  /\ attached /\ job = "gone" => interrupts > 0 \/ \E a \in Actors : term[a] = "job_gone"
  /\ staleClose => interrupts > 0

LEMMA ForgottenStep == TypeOK /\ SafeInv /\ JobForgotten /\ [Next]_vars => JobForgotten'
<1> SUFFICES ASSUME TypeOK, SafeInv, JobForgotten, [Next]_vars PROVE JobForgotten'
  OBVIOUS
<1> USE DEF JobForgotten, TypeOK, ContainmentOK, LedgerOK
<1>1. ASSUME interrupts' = interrupts + 1 PROVE JobForgotten'
  BY <1>1
<1>2. ASSUME UNCHANGED <<containment, interrupts>> PROVE JobForgotten'
  BY <1>2 DEF containment
<1>3. ASSUME NEW a \in Actors, TermStep(a) PROVE JobForgotten'
  <2>1. interrupts' = interrupts /\ attached' = attached
    BY <1>3 DEF TermStep, EnterTerminate, DisposeJob, DisposeJobFails, KillGroup,
                KillGroupFails, KillRootProcess, KillFails, ledger
  <2>2. CASE DisposeJob(a)
    BY <2>1, <2>2 DEF DisposeJob
  <2>3. CASE DisposeJobFails(a)
    <3>1. \A b \in Actors : term[b] # "job_gone"
      BY <2>3 DEF DisposeJobFails, SafeInv, LockHeld
    <3>2. job' = job /\ (staleClose' => staleClose \/ job = "gone") /\ attached
      BY <2>3 DEF DisposeJobFails
    <3>3. QED
      BY <2>1, <3>1, <3>2
  <2>4. CASE EnterTerminate(a) \/ KillGroup(a) \/ KillGroupFails(a) \/ KillRootProcess(a) \/ KillFails(a)
    <3>1. /\ UNCHANGED <<job, staleClose>> /\ term[a] # "job_gone"
          /\ \A b \in Actors : b # a => term'[b] = term[b]
      BY <2>4 DEF EnterTerminate, KillGroup, KillGroupFails, KillRootProcess, KillFails, KillsRoot, Direct
    <3>2. QED
      BY <2>1, <3>1
  <2>5. QED
    BY <1>3, <2>2, <2>3, <2>4 DEF TermStep
<1>4. ASSUME NEW a \in Actors, RecordKill(a) \/ SkipKill(a), interrupts' = interrupts
      PROVE  JobForgotten'
  <2>1. CASE RecordKill(a)
    <3>1. \A b \in Actors : b # a => term[b] = "out"
      BY <2>1 DEF RecordKill, SafeInv, LockHeld
    <3>2. UNCHANGED <<job, staleClose>> /\ (attached' => attached /\ term[a] # "job_gone")
      BY <2>1 DEF RecordKill
    <3>3. QED
      BY <1>4, <3>1, <3>2
  <2>2. CASE SkipKill(a)
    BY <1>2, <1>4, <2>2 DEF SkipKill
  <2>3. QED
    BY <1>4, <2>1, <2>2
<1>5. CASE ProcessStep \/ UNCHANGED vars
  BY <1>2, <1>5 DEF ProcessStep, SpawnKid, EscapeGroup, ExitKid, ExitRoot, WriteOutput, vars, ledger
<1>6. ASSUME NEW s \in Streams, ReaderStep(s) PROVE JobForgotten'
  BY <1>2, <1>3, <1>4, <1>6 DEF ReaderStep, BeginRead, ReadUnit, ReadEnd, ReadFails,
                                FinishOverflow, ledger
<1>7. CASE MainStep
  <2>1. CASE CreateJob
    BY <2>1 DEF CreateJob, ledger
  <2>2. CASE MainTerminates
    BY <1>4, <2>2 DEF MainTerminates
  <2>3. CASE SpawnDeferringInterrupt
    BY <1>1, <2>3 DEF SpawnDeferringInterrupt
  <2>4. CASE ~(TermStep("main") \/ CreateJob \/ MainTerminates \/ SpawnDeferringInterrupt)
    <3>1. UNCHANGED <<containment, interrupts>>
      BY <1>7, <2>4 DEF MainStep, Spawn, SpawnFails, ResumeRoot, ContainFails, StartReader,
         WaitRoot, WaitTimesOut, KilledWaitTimesOut, CleanupWait, JoinReader, JoinTimesOut,
         CloseStream, Verdict, ledger
    <3>2. QED
      BY <1>2, <3>1
  <2>5. QED
    BY <1>3, <2>1, <2>2, <2>3, <2>4
<1>8. CASE Interrupt
  BY <1>1, <1>8 DEF Interrupt, InterruptBody, InterruptGuarded, InterruptUnguarded
<1>9. QED
  BY <1>5, <1>6, <1>7, <1>8 DEF Next

\* A Job handle is closed a second time only after an interrupt: whichever of
\* the three threads closed it first has dropped it before the next one can
\* look (_dispose_windows_job and windows_job = None under containment.lock).
THEOREM HandleClosedOnce == Spec => []StaleCloseNeedsInterrupt
<1>1. Init => JobForgotten
  BY DEF Init, JobForgotten
<1>2. Spec => []JobForgotten
  BY <1>1, ForgottenStep, TypeCorrect, Safe, PTL DEF Spec
<1>3. JobForgotten => StaleCloseNeedsInterrupt
  BY DEF JobForgotten, StaleCloseNeedsInterrupt
<1>4. QED
  BY <1>2, <1>3, PTL

-----------------------------------------------------------------------------
(* The cleanup: a call of it that did not do its work was set back twice.   *)

Shut == \A s \in Streams : stream[s] = "closed"
AfterKill == (FinalCleanup \ {"fin_term"}) \cup {"verdict"}

\* Before the spawn there is no tree.
Unspawned ==
  /\ pc = "spawn" => root = "none"
  /\ root = "none" => \A k \in Kids : kid[k] = "unborn"

LEMMA UnspawnedStep ==
  ASSUME TypeOK, Unspawned, [Next]_vars
  PROVE  Unspawned' /\ (pc \notin StartPhases /\ root = "none" => root' = "none")
<1> USE DEF Unspawned, TypeOK, TreeOK
<1>1. pc' = "spawn" => pc = "spawn" /\ UNCHANGED control
  BY ControlChange DEF control, Interrupt, InterruptBody, InterruptGuarded, InterruptUnguarded,
         MainStep, Spawn, SpawnFails, SpawnDeferringInterrupt, CreateJob, ResumeRoot,
         ContainFails, StartReader, WaitRoot, WaitTimesOut, KilledWaitTimesOut, MainTerminates,
         LeaveTerminate, CleanupWait, JoinReader, JoinTimesOut, CloseStream, Verdict, Advance, Retry,
         PhaseAfter, Guarded, TermPhases, PerStream
<1>2. ASSUME NEW a \in Actors, TermStep(a)
      PROVE  (root' = "none" => root = "none") /\ (root = "none" => UNCHANGED <<root, kid>>)
  BY <1>2 DEF TermStep, EnterTerminate, DisposeJob, DisposeJobFails, KillGroup,
              KillGroupFails, KillRootProcess, KillFails,
              KillContained, KillRoot, RootLive, tree
<1>3. CASE ProcessStep \/ UNCHANGED vars
  <2>1. root' = "none" => root = "none" /\ kid' = kid
    BY <1>3 DEF ProcessStep, SpawnKid, EscapeGroup, ExitKid, ExitRoot, WriteOutput, Grouped, Escaped,
                tree, vars
  <2>2. pc' = pc /\ (root = "none" => root' = "none")
    BY <1>3 DEF ProcessStep, SpawnKid, EscapeGroup, ExitKid, ExitRoot, WriteOutput, tree, vars, control
  <2>3. QED
    BY <2>1, <2>2
<1>4. ASSUME NEW s \in Streams, ReaderStep(s)
      PROVE  (root' = "none" => root = "none") /\ (root = "none" => UNCHANGED <<root, kid>>)
  BY <1>2, <1>4 DEF ReaderStep, BeginRead, ReadUnit, ReadEnd, ReadFails, FinishOverflow, tree
<1>5. CASE Spawn \/ SpawnDeferringInterrupt \/ ResumeRoot
  BY <1>5 DEF Spawn, SpawnDeferringInterrupt, ResumeRoot, StartPhases
<1>6. ASSUME Interrupt \/ (MainStep /\ ~(Spawn \/ SpawnDeferringInterrupt \/ ResumeRoot))
      PROVE  (root' = "none" => root = "none") /\ (root = "none" => UNCHANGED <<root, kid>>)
  BY <1>2, <1>6 DEF Interrupt, InterruptBody, InterruptGuarded, InterruptUnguarded, MainStep,
     SpawnFails, CreateJob, ContainFails, StartReader, WaitRoot, WaitTimesOut, KilledWaitTimesOut,
     MainTerminates, CleanupWait, JoinReader, JoinTimesOut, CloseStream, Verdict, tree
<1>7. QED
  BY <1>1, <1>3, <1>4, <1>5, <1>6 DEF Next

\* Where the end of a guarded call leads, and from where a phase is reached.
LEMMA AdvanceLeads ==
  ASSUME TypeOK, pc \in Guarded, Advance
  PROVE  /\ tries' = 0 /\ pc' \in Guarded \cup {"verdict"}
         /\ pc' \in AfterKill => pc \in FinalCleanup
         /\ pc' = "close2" /\ on' = "stderr" => pc = "close2" /\ on = "stdout"
         /\ pc' = "verdict" => pc = "close2" /\ on = "stderr"
<1>1. CASE pc \in PerStream /\ on = "stdout"
  BY <1>1 DEF Advance, AfterKill, FinalCleanup, Guarded, PerStream
<1>2. CASE ~(pc \in PerStream /\ on = "stdout")
  <2>1. pc' = PhaseAfter(pc, \E s \in Started : Alive(s)) /\ on' = "stdout" /\ tries' = 0
    BY <1>2 DEF Advance
  <2>2. pc = "close2" => on = "stderr"
    BY <1>2 DEF PerStream, TypeOK, ControlOK
  <2>3. QED
    BY <2>1, <2>2 DEF PhaseAfter, AfterKill, FinalCleanup, Guarded
<1>3. QED
  BY <1>1, <1>2

\* Past the kill the tree was recorded as dead, and past the last close both
\* streams are closed, unless an attempt and its retry were both lost.
CleanupInv ==
  /\ pc \notin Guarded => tries = 0
  /\ pc \in FinalCleanup /\ tries = 1 => setbacks >= 1
  /\ pc \in AfterKill => terminated \/ setbacks >= 2
  /\ pc = "close2" /\ on = "stderr" => stream["stdout"] = "closed" \/ setbacks >= 2
  /\ pc = "verdict" => Shut \/ setbacks >= 2
  /\ pc = "done" /\ ~abandoned => root = "none" \/ (terminated /\ Shut) \/ setbacks >= 2

\* What is recorded, closed or lost stays so.
LEMMA CleanupGrows ==
  ASSUME TypeOK, [Next]_vars
  PROVE  /\ terminated => terminated'
         /\ setbacks' >= setbacks
         /\ \A s \in Streams : stream[s] = "closed" => stream'[s] = "closed"
<1>1. terminated => terminated'
  BY DEF Next, ProcessStep, SpawnKid, EscapeGroup, ExitKid, ExitRoot, WriteOutput, ReaderStep,
     TermStep, EnterTerminate, DisposeJob, DisposeJobFails, KillGroup,
     KillGroupFails, KillRootProcess, KillFails, BeginRead,
     ReadUnit, ReadEnd, ReadFails, FinishOverflow, RecordKill, SkipKill, MainStep, Spawn,
     SpawnFails, SpawnDeferringInterrupt, CreateJob, ResumeRoot, ContainFails, StartReader,
     WaitRoot, WaitTimesOut, KilledWaitTimesOut, MainTerminates, CleanupWait, JoinReader,
     JoinTimesOut, CloseStream, Verdict, Interrupt, InterruptBody, InterruptGuarded,
     InterruptUnguarded, DropLock, containment, vars
<1>2. setbacks' >= setbacks
  <2>1. CASE MainTerminates
    <3>1. setbacks' = setbacks \/ setbacks' = setbacks + 0 \/ setbacks' = setbacks + 1
      BY <2>1 DEF MainTerminates, LeaveTerminate
    <3>2. QED
      BY <3>1 DEF TypeOK, LedgerOK
  <2>2. CASE InterruptGuarded
    <3>1. setbacks' = setbacks + 0 \/ setbacks' = setbacks + 1
      BY <2>2 DEF InterruptGuarded
    <3>2. QED
      BY <3>1 DEF TypeOK, LedgerOK
  <2>3. CASE ~MainTerminates /\ ~InterruptGuarded
    <3>1. setbacks' = setbacks
      BY <2>3, ControlChange DEF MainStep, Spawn, SpawnFails, SpawnDeferringInterrupt, CreateJob,
         ResumeRoot, ContainFails, StartReader, WaitRoot, WaitTimesOut, KilledWaitTimesOut,
         CleanupWait, JoinReader, JoinTimesOut, CloseStream, Verdict,
         Interrupt, InterruptBody, InterruptUnguarded, ledger
    <3>2. QED
      BY <3>1 DEF TypeOK, LedgerOK
  <2>4. QED
    BY <2>1, <2>2, <2>3
<1>3. ASSUME NEW s \in Streams, stream[s] = "closed" PROVE stream'[s] = "closed"
  BY <1>3, PipesChange DEF PipeStep, WriteOutput, BeginRead, ReadUnit, ReadEnd, ReadFails,
     FinishOverflow, StartReader, CloseStream, pipes, TypeOK, PipesOK
<1>4. QED
  BY <1>1, <1>2, <1>3

LEMMA CleanupMain ==
  ASSUME TypeOK, Unspawned, CleanupInv, [Next]_vars, MainStep, ~TermStep("main"), pc # "done"
  PROVE  CleanupInv'
<1> USE DEF CleanupInv, Shut
<1>1. CASE MainTerminates
  <2>1. CASE pc = "t_term"
    BY <1>1, <2>1 DEF MainTerminates, LeaveTerminate, Guarded, AfterKill, FinalCleanup
  <2>2. CASE pc # "t_term" /\ (terminated' \/ tries = 1)
    <3>1. pc \in {"fs_term", "fin_term"} /\ Advance /\ setbacks' = setbacks + (IF pc = "fin_term" /\ ~terminated' THEN 1 ELSE 0)
      BY <1>1, <2>2 DEF MainTerminates, LeaveTerminate, TermPhases
    <3>2. tries' = 0 /\ pc' \in {"fs_wait", "fin_wait"} /\ (pc' = "fin_wait" => pc = "fin_term")
      BY <3>1 DEF Advance, PerStream, PhaseAfter
    <3>3. pc = "fin_term" => terminated' \/ setbacks' >= 2
      BY <2>2, <3>1 DEF FinalCleanup, Guarded, TypeOK, LedgerOK
    <3>4. QED
      BY <3>2, <3>3 DEF Guarded, AfterKill, FinalCleanup
  <2>3. CASE pc # "t_term" /\ ~(terminated' \/ tries = 1)
    <3>1. pc \in {"fs_term", "fin_term"} /\ pc' = pc /\ tries' = 1
          /\ setbacks' = setbacks + (IF pc = "fin_term" THEN 1 ELSE 0)
      BY <1>1, <2>3 DEF MainTerminates, LeaveTerminate, TermPhases, Retry
    <3>2. QED
      BY <3>1 DEF Guarded, AfterKill, FinalCleanup, TypeOK, LedgerOK
  <2>4. QED
    BY <2>1, <2>2, <2>3
<1>2. CASE CleanupWait \/ JoinReader \/ JoinTimesOut \/ CloseStream
  <2>1. /\ pc \in Guarded \ {"fs_term", "fin_term"} /\ Advance /\ setbacks' = setbacks
        /\ pc = "close2" => stream'[on] = "closed"
    BY <1>2 DEF CleanupWait, JoinReader, JoinTimesOut, CloseStream, Guarded, ledger,
                TypeOK, PipesOK, ControlOK
  <2>2. pc' # "done" /\ tries' = 0
    BY <2>1, AdvanceLeads DEF Guarded
  <2>3. pc' \in AfterKill => terminated' \/ setbacks' >= 2
    BY <2>1, AdvanceLeads, CleanupGrows DEF AfterKill, FinalCleanup
  <2>4. pc' = "close2" /\ on' = "stderr" => stream'["stdout"] = "closed" \/ setbacks' >= 2
    BY <2>1, AdvanceLeads
  <2>5. pc' = "verdict" => Shut' \/ setbacks' >= 2
    BY <2>1, AdvanceLeads, CleanupGrows
  <2>6. QED
    BY <2>2, <2>3, <2>4, <2>5
<1>3. CASE Verdict
  <2>1. pc = "verdict" /\ pc' = "done" /\ tries' = tries /\ UNCHANGED <<terminated, setbacks, stream>>
    BY <1>3 DEF Verdict, containment, ledger, pipes
  <2>2. QED
    BY <2>1 DEF Guarded, AfterKill, FinalCleanup
<1>4. CASE SpawnFails
  BY <1>4 DEF SpawnFails, Unspawned, Guarded, AfterKill, FinalCleanup, tree
<1>5. CASE ~(MainTerminates \/ CleanupWait \/ JoinReader \/ JoinTimesOut \/ CloseStream \/ Verdict \/ SpawnFails)
  <2>1. pc \notin Guarded /\ tries' = tries
        /\ pc' \in {"readers", "job", "fs_term", "resume", "wait", "fin_term", "t_term"}
    BY <1>5 DEF MainStep, Spawn, SpawnDeferringInterrupt, CreateJob, ResumeRoot, ContainFails,
                StartReader, WaitRoot, WaitTimesOut, KilledWaitTimesOut, Guarded
  <2>2. QED
    BY <2>1 DEF AfterKill, FinalCleanup, Guarded
<1>6. QED
  BY <1>1, <1>2, <1>3, <1>4, <1>5

LEMMA CleanupInterrupt ==
  ASSUME TypeOK, CleanupInv, [Next]_vars, Interrupt PROVE CleanupInv'
<1> USE DEF CleanupInv
<1>1. CASE InterruptBody
  BY <1>1 DEF InterruptBody, AfterKill, FinalCleanup, Guarded
<1>2. CASE InterruptGuarded
  <2>1. pc \in Guarded /\ setbacks' = setbacks + (IF pc \in FinalCleanup THEN 1 ELSE 0)
        /\ UNCHANGED stream /\ UNCHANGED terminated
    BY <1>2 DEF InterruptGuarded, DropLock, pipes
  <2>2. CASE tries = 0
    <3>1. tries' = 1 /\ pc' = pc /\ on' = on
      BY <1>2, <2>2 DEF InterruptGuarded, Retry
    <3>2. QED
      BY <2>1, <3>1 DEF TypeOK, LedgerOK, Guarded, Shut, AfterKill, FinalCleanup
  <2>3. CASE tries # 0
    <3>1. Advance /\ tries = 1
      BY <1>2, <2>3 DEF InterruptGuarded, TypeOK, ControlOK
    <3>2. pc \in FinalCleanup => setbacks' >= 2
      BY <2>1, <3>1 DEF TypeOK, LedgerOK
    <3>3. tries' = 0 /\ pc' # "done" /\ (pc' \in AfterKill => pc \in FinalCleanup)
      BY <2>1, <3>1, AdvanceLeads DEF Guarded
    <3>4. QED
      BY <3>2, <3>3 DEF AfterKill, FinalCleanup, Guarded
  <2>4. QED
    BY <2>2, <2>3
<1>3. CASE InterruptUnguarded
  BY <1>3 DEF InterruptUnguarded, AfterKill, FinalCleanup, Guarded
<1>4. QED
  BY <1>1, <1>2, <1>3 DEF Interrupt

LEMMA CleanupStep ==
  TypeOK /\ Unspawned /\ CleanupInv /\ [Next]_vars => CleanupInv'
<1> SUFFICES ASSUME TypeOK, Unspawned, CleanupInv, [Next]_vars PROVE CleanupInv'
  OBVIOUS
<1>1. CASE UNCHANGED <<control, setbacks, abandoned, heldOpen>>
  <2>1. UNCHANGED <<pc, on, tries, setbacks, abandoned>>
    BY <1>1 DEF control
  <2>2. (pc = "done" /\ root = "none" => root' = "none") /\ (Shut => Shut')
    BY UnspawnedStep, CleanupGrows DEF StartPhases, Shut
  <2>3. QED
    BY <2>1, <2>2, CleanupGrows DEF CleanupInv
<1>2. QED
  BY <1>1, ControlChange, CleanupMain, CleanupInterrupt

\* However the call ends, one interrupt or failed attempt to kill in the final
\* cleanup leaves neither a live contained process nor an open pipe behind
\* (_finish_process_readers and the helpers that retry each of its calls once),
\* unless the interrupt fell between two guarded calls, or the last killpg
\* failed with the group alive: the root and the pipes are then done with, but
\* the rest of the group may live on.
THEOREM CleanEnd == Spec => []CleanReturn
<1>1. Init => Unspawned /\ CleanupInv
  BY DEF Init, Unspawned, CleanupInv, AfterKill, FinalCleanup, Guarded
<1>2. Spec => [](Unspawned /\ CleanupInv)
  BY <1>1, UnspawnedStep, CleanupStep, TypeCorrect, PTL DEF Spec
<1>3. TypeOK /\ SafeInv /\ Unspawned /\ CleanupInv => CleanReturn
  <2>1. TypeOK /\ setbacks <= 1 => ~(setbacks >= 2)
    BY DEF TypeOK, LedgerOK
  <2>2. Unspawned /\ root = "none" => TreeKilled
    BY DEF Unspawned, TreeKilled, RootLive, Grouped
  <2>3. QED
    BY <2>1, <2>2 DEF CleanReturn, CleanupInv, Shut, SafeInv, TerminatedIsFinal
<1>4. QED
  BY <1>2, <1>3, TypeCorrect, Safe, PTL
=============================================================================
