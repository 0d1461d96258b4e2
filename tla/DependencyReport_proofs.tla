----------------------- MODULE DependencyReport_proofs -----------------------
(***************************************************************************)
(* What a dependency report says, for every configuration, set of files    *)
(* and answer of the resolver: a complete answer is about the bytes that   *)
(* were inspected, an assessment is never left behind by extras asked for  *)
(* later, and a verdict is never more than the evidence behind it.         *)
(***************************************************************************)
EXTENDS DependencyReport, FiniteInduction

Ids == {a.id : a \in inventory}

-----------------------------------------------------------------------------
(* The invariant.                                                           *)

Early == {"configure", "inspect", "start", "choose", "adapter", "stage", "compile"}
Judged == {"correlate", "transitive", "exit", "report", "written", "rejected"}
Answered == {"group", "seed", "sample", "assess", "close"} \cup Judged

\* The inputs are what the configuration allows.
Given ==
    /\ setups \subseteq Setups
    /\ case.files \in Seq(AllFiles) /\ case.roots \subseteq AllRequirements
    /\ pc \notin {"configure", "refused"} =>
          case.target \in AllTargets /\ Coherent(case.target)
    /\ active \subseteq case.roots
    /\ case.resolve => case.roots # {}
    /\ pc = "configure" => active = {}
    /\ pc \in Early \cup {"validate", "refused"} \cup Answered

\* What a file must say to become an artifact.
Speaks(file) ==
    /\ CoreHolds(file.core)
    /\ IsWheel(file) => file.core.dynamic = <<>> /\ TagsAgree(file)

\* An artifact is read from a file before the position, each such file is an
\* artifact or an issue, and no two artifacts have the same bytes.
Read ==
    /\ position \in 0..Len(case.files)
    /\ \A a \in inventory : \E n \in 1..position :
          Speaks(case.files[n]) /\ a = ArtifactOf(case.files[n], case.target)
    /\ \A n \in 1..position : case.files[n].content \in Ids \/ case.files[n].path \in issues
    /\ \A a, b \in inventory : a.id = b.id => a = b
    /\ pc = "configure" => position = 0 /\ inventory = {} /\ issues = {}
    /\ pc \notin {"configure", "inspect", "refused"} => position = Len(case.files)

\* The wheelhouse holds inspected bytes, and all of them once uv is asked.
StagedWhole == AllStaged /\ issues = {} /\ position = Len(case.files)

Staging ==
    /\ staged \subseteq {[id |-> a.id, bytes |-> "inspected"] : a \in inventory}
    /\ pc \in {"adapter", "stage", "compile"} => issues = {}
    /\ pc = "compile" => AllStaged
    /\ IsResult(result)
    /\ pc \in Early => ~result.complete
    /\ result.complete /\ case.resolve /\ case.builtin => StagedWhole

\* What validation leaves of a result.
Checked(r) ==
    /\ r.status \in {"succeeded", "not-requested", "timed-out", "unverified"} \cup Negative
    /\ r.status = "succeeded" =>
          case.resolve /\ r.complete /\ ~RepeatsName(r.packages) /\ SuccessBound(r)
    /\ r.status \in Negative => case.resolve /\ r.complete /\ Corroborated(r)
    /\ r.status = "not-requested" => ~case.resolve /\ r.packages = {}

\* An assessment of a group, whatever extras it was made with.
RowOf(row, group) ==
    /\ row = [used |-> {a.id : a \in Used(group)}, python |-> PythonStatus(Used(group)),
              availability |-> Availability(group), needs |-> row.needs,
              status |-> row.status]
    /\ row.status \in {"unverified", Outcome(PythonStatus(Used(group)), Availability(group))}

Grouping == IF case.roots = {} THEN GroupBy(inventory) ELSE GroupBy(Candidates)

Rows == [k \in DOMAIN assessed |-> [assessed[k] EXCEPT !.status = Verdict(k, assessed[k].status)]]

\* The candidates, their assessments, and the rows made of these.
Listed ==
    /\ pc \notin {"assess", "refused"} => pending = {}
    /\ pc \in Early \cup {"validate", "group", "sample", "seed"} => assessed = Nothing
    /\ pc \in {"group", "seed"} => case.roots # {}
    /\ pc = "sample" => case.roots = {}
    /\ pc \in {"seed", "assess", "close"} => groups = Grouping
    /\ pc \in {"assess", "close"} \cup Judged =>
          /\ pending \subseteq DOMAIN groups /\ DOMAIN assessed \subseteq DOMAIN groups
          /\ \A k \in DOMAIN assessed : RowOf(assessed[k], groups[k])
    /\ pc = "close" => rows = Rows

\* The work list: an assessment that is not to be made again was made with all
\* the extras asked of its version, and what it needs is assessed or listed.
Propagated ==
    pc \in {"assess", "close"} \cup Judged /\ case.roots # {} =>
        \A k \in DOMAIN assessed :
            /\ k \notin pending => assessed[k] = Assess(groups[k], extrasOf[k])
            /\ \A j \in DOMAIN groups : \A r \in Requesters(assessed[k], j) :
                  j \in DOMAIN assessed \cup pending /\ r.extras \subseteq extrasOf[j]

CompatibleRow(k) ==
    \E p \in result.packages :
        /\ Selected(result) /\ KeyOf(p.name, p.version) = k
        /\ \A a \in ArtifactsOf(p, inventory) :
              /\ p.used = {a.id} /\ Usable(a)
              /\ case.builtin => [id |-> a.id, bytes |-> "inspected"] \in staged
        /\ \A r \in GroupOf(active, p.name) : Accepts(r, p.version)
        /\ \A r \in rows[k].needs : \E q \in result.packages : MetBy(q, r)

ExcludedRow(k) ==
    /\ \E a \in inventory : Key(a) = k /\ Excludes(a)
    /\ \A a \in inventory : Key(a) = k /\ (a.kind # "wheel" \/ a.fits) => Excludes(a)

Verdicts ==
    pc \in Judged => \A k \in DOMAIN rows :
        /\ rows[k].status = "compatible" => CompatibleRow(k)
        /\ rows[k].status = "declared-incompatible" => ExcludedRow(k)

Sound == pc \in Answered => Checked(result)

\* The extras the roots ask for are heard, a report without a resolution
\* assesses every candidate, and a selection that stands is closed.
Selection ==
    /\ pc \in {"assess", "close"} \cup Judged /\ case.roots # {} =>
          /\ \A k \in DOMAIN groups : InitialExtras(k, groups[k]) \subseteq extrasOf[k]
          /\ result.status = "not-requested" => DOMAIN groups \subseteq DOMAIN assessed \cup pending
    /\ pc \in Judged => evidence \subseteq inventory
    /\ pc \in Judged /\ result.status # "unverified" =>
          groups = Grouping /\ rows = Rows /\ (Selected(result) => ClosureHolds)

RootsVerified ==
    [n \in NamesOf(active) |->
        RootVerified(n, GroupOf(active, n),
                     MeetingVersions(EvidenceArtifacts(evidence), GroupOf(active, n)))]

NeedsVerified ==
    [n \in NamesOf(Needs) |->
        NeedVerified(GroupOf(Needs, n), GroupOf(active, n),
            MatchingMetadata(EvidenceArtifacts(evidence),
                GroupOf(Needs, n) \cup
                   (IF case.kind = "library" THEN {} ELSE GroupOf(active, n))))]

\* The verdicts on the roots and the needs, and the exit code drawn from them.
Correlated ==
    /\ pc \in Judged \ {"correlate"} => declared = RootsVerified
    /\ pc \in Judged \ {"correlate", "transitive"} => transitive = NeedsVerified
    /\ exit = "success" => Reported /\ ~Incomplete /\ ~Incompatible

IInv ==
    Given /\ Read /\ Staging /\ Sound /\ Listed /\ Propagated /\ Verdicts /\ Selection /\ Correlated

-----------------------------------------------------------------------------
(* The steps of the pipeline, by what they leave alone.                     *)

Phases == Early \cup {"validate", "refused"} \cup Answered

\* A step after the inspection's loop, or out of it.
Onward ==
    /\ UNCHANGED <<inputs, active>>
    /\ pc \notin {"configure", "refused"} /\ pc' \in Phases \ {"configure", "inspect"}
    /\ pc = "inspect" => pc' = "refused" \/ position = Len(case.files)

\* Only three steps change the inputs or the active roots.
LEMMA StepKinds ==
  ASSUME Next
  PROVE  \/ \E setup \in setups : Configure(setup)
         \/ InspectFile \/ EvaluateRoots \/ Onward
<1> USE DEF Onward, Phases, Early, Answered, Judged
<1>1. ASSUME InspectionFails \/ Inspected PROVE Onward
  BY <1>1 DEF InspectionFails, Inspected
<1>2. ASSUME NoResolution \/ AskInjected \/ Decline \/ ProbeFails PROVE Onward
  BY <1>2 DEF NoResolution, AskInjected, Decline, ProbeFails, Answer
<1>3. ASSUME EnterAdapter \/ Accept \/ Probe PROVE Onward
  BY <1>3 DEF EnterAdapter, Accept, Probe
<1>4. ASSUME NEW a \in inventory, Stage(a) \/ Rewrite(a) PROVE Onward
  BY <1>4 DEF Stage, Rewrite, Copy, Answer
<1>5. ASSUME CompileSucceeds \/ CompileFails \/ CompileBreaks PROVE Onward
  BY <1>5 DEF CompileSucceeds, CompileFails, CompileBreaks, Answer
<1>6. ASSUME Validate \/ Group \/ Seed \/ AssessSample \/ Judge PROVE Onward
  BY <1>6 DEF Validate, Group, Seed, AssessSample, Judge
<1>7. ASSUME NEW k \in pending, AssessNext(k) PROVE Onward
  BY <1>7 DEF AssessNext
<1>8. ASSUME Close \/ CorrelateRoots \/ CorrelateNeeds \/ Exit \/ WriteJson \/ Exhaust PROVE Onward
  BY <1>8 DEF Close, CorrelateRoots, CorrelateNeeds, Exit, WriteJson, Exhaust
<1>9. QED
  BY <1>1, <1>2, <1>3, <1>4, <1>5, <1>6, <1>7, <1>8 DEF Next, Pipeline

LEMMA GivenKept ==
  ASSUME Given, [Next]_vars PROVE Given'
<1> USE DEF Given, Phases, Early, Answered, Judged
<1>1. ASSUME NEW setup \in setups, Configure(setup) PROVE Given'
  <2>1. setup \in Setups /\ IsTable(setup.table)
    BY SetupsAssumption
  <2>2. CASE SetupRefused(setup)
    BY <1>1, <2>2 DEF Configure
  <2>3. CASE ~SetupRefused(setup)
    <3>1. PICK n \in DOMAIN setup.table.targets : case' = CaseOf(setup, setup.table.targets[n])
      BY <1>1, <2>3 DEF Configure
    <3>2. setup.table.targets[n] \in ToSet(setup.table.targets)
      BY DEF ToSet
    <3>3. Coherent(setup.table.targets[n]) /\ setup.table.targets[n] \in AllTargets
      BY <2>1, <2>3, <3>2 DEF SetupRefused, InputsRefused, TargetsRefused, IsTable
    <3>4. ToSet(setup.table.requirements) \subseteq AllRequirements
      BY <2>1 DEF IsTable, ToSet
    <3>5. /\ case'.files = setup.table.files /\ case'.roots = ToSet(setup.table.requirements)
          /\ case'.target = setup.table.targets[n] /\ case'.resolve = Resolve(setup)
      BY <3>1 DEF CaseOf
    <3>6. pc' = "inspect" /\ setups' = {} /\ active' = {}
      BY <1>1, <2>3 DEF Configure
    <3>7. Resolve(setup) => ToSet(setup.table.requirements) # {}
      <4>1. Resolve(setup) => setup.table.requirements # <<>>
        BY <2>3 DEF SetupRefused, RelationsRefused
      <4>2. setup.table.requirements \in Seq(AllRequirements)
        BY <2>1 DEF IsTable
      <4>3. setup.table.requirements # <<>> => 1 \in DOMAIN setup.table.requirements
        BY <4>2
      <4>4. QED
        BY <4>1, <4>3 DEF ToSet
    <3>8. QED
      BY <2>1, <3>3, <3>4, <3>5, <3>6, <3>7 DEF IsTable
  <2>4. QED
    BY <2>2, <2>3
<1>2. CASE InspectFile
  BY <1>2 DEF InspectFile
<1>3. CASE EvaluateRoots
  BY <1>3 DEF EvaluateRoots, inputs
<1>4. CASE Onward
  BY <1>4 DEF Onward, inputs
<1>5. CASE UNCHANGED vars
  BY <1>5 DEF vars
<1>6. QED
  BY <1>1, <1>2, <1>3, <1>4, <1>5, StepKinds

\* What is read of a file is valid, and bears its bytes' identity.
LEMMA ReadableSpeaks ==
  ASSUME NEW file, NEW left, NEW target, Readable(file, left)
  PROVE  Speaks(file) /\ ArtifactOf(file, target).id = file.content
  BY DEF Speaks, Readable, Established, ArtifactOf

LEMMA ReadKept ==
  ASSUME Given, Read, [Next]_vars PROVE Read'
<1> USE DEF Read, Ids
<1>0. Given'
  BY GivenKept
<1>1. ASSUME NEW setup \in setups, Configure(setup) PROVE Read'
  <2>1. position' = 0 /\ inventory' = {} /\ pc' \in {"inspect", "refused"}
    BY <1>1 DEF Configure
  <2>2. case'.files \in Seq(AllFiles)
    BY <1>0 DEF Given
  <2>3. QED
    BY <2>1, <2>2
<1>2. CASE InspectFile
  <2> DEFINE file == case.files[position + 1]
  <2>1. /\ pc = "inspect" /\ pc' = pc /\ case' = case
        /\ position' = position + 1 /\ position < Len(case.files) /\ position \in Nat
        /\ Len(case.files) \in Nat
    BY <1>2 DEF InspectFile, Given
  <2>2. position' \in 0..Len(case.files) /\ 1..position' = (1..position) \cup {position + 1}
    BY <2>1
  <2>3. CASE Readable(file, budget.expanded)
    <3>1. inventory' = inventory \cup {ArtifactOf(file, case.target)} /\ issues' = issues
      BY <1>2, <2>3 DEF InspectFile, File
    <3>2. Speaks(file) /\ ArtifactOf(file, case.target).id = file.content
      BY <2>3, ReadableSpeaks
    <3>3. file.content \notin Ids
      BY <1>2, <2>3 DEF InspectFile, InspectionRefused, File
    <3> DEFINE new == ArtifactOf(file, case.target)
    <3>4. \A a \in inventory' : \E n \in 1..position' :
             Speaks(case.files[n]) /\ a = ArtifactOf(case.files[n], case.target)
      BY <2>2, <3>1, <3>2
    <3>5. \A n \in 1..position' : case.files[n].content \in Ids' \/ case.files[n].path \in issues
      BY <2>2, <3>1, <3>2
    <3>6. \A a, b \in inventory' : a.id = b.id => a = b
      <4>1. new.id = file.content /\ inventory' = inventory \cup {new}
        BY <3>1, <3>2
      <4> HIDE DEF new
      <4>2. \A a \in inventory : a.id # new.id
        BY <3>3, <4>1
      <4>3. QED
        BY <4>1, <4>2
    <3>7. QED
      BY <2>1, <2>2, <3>1, <3>4, <3>5, <3>6
  <2>4. CASE ~Readable(file, budget.expanded)
    <3>1. inventory' = inventory /\ issues' = issues \cup {file.path}
      BY <1>2, <2>4 DEF InspectFile, File
    <3>2. QED
      BY <2>1, <2>2, <3>1
  <2>5. QED
    BY <2>3, <2>4
<1>3. CASE EvaluateRoots
  BY <1>3 DEF EvaluateRoots, inputs
<1>4. CASE Onward
  BY <1>4 DEF Onward, inputs
<1>5. CASE UNCHANGED vars
  BY <1>5 DEF vars
<1>6. QED
  BY <1>1, <1>2, <1>3, <1>4, <1>5, StepKinds

-----------------------------------------------------------------------------
(* A complete answer of the built-in resolver.                              *)

\* The result that is not believed after all.
Lower(r) == [r EXCEPT !.status = "unverified", !.complete = FALSE]

LEMMA LowerResult ==
  ASSUME NEW r, IsResult(r)
  PROVE  /\ IsResult(Lower(r)) /\ Lower(r).status = "unverified" /\ Lower(r).complete = FALSE
         /\ Lower(r).packages = r.packages
<1> DEFINE Fields == [status : {r.status, "unverified"}, complete : {r.complete, FALSE},
                      known : {r.known}, packages : {r.packages}, names : {r.names},
                      reqs : {r.reqs}, snapshot : {r.snapshot}]
<1>1. r \in Fields
  BY DEF IsResult
<1>2. Lower(r) \in Fields /\ Lower(r).status = "unverified" /\ Lower(r).complete = FALSE
  BY <1>1 DEF Lower
<1>3. \A x \in Fields : IsResult(x) /\ x.packages = r.packages
  BY DEF IsResult
<1>4. QED
  BY <1>2, <1>3

\* What validation returns is a result, complete only if the answer was.
LEMMA ValidationLowers ==
  ASSUME NEW r, IsResult(r)
  PROVE  IsResult(Validated(r)) /\ (Validated(r).complete => r.complete)
<1>1. IsResult(Unverified(FALSE, {})) /\ ~Unverified(FALSE, {}).complete
  BY DEF IsResult, Unverified, Plain
<1>2. IsResult(Lower(r)) /\ ~Lower(r).complete
  BY LowerResult
<1>3. Validated(r) \in {Unverified(FALSE, {}), r, Lower(r)}
  BY DEF Validated, Lower
<1>4. QED
  BY <1>1, <1>2, <1>3

LEMMA AnswersAreResults ==
  /\ \A known, packages : IsResult(Unverified(known, packages)) /\ ~Unverified(known, packages).complete
  /\ IsResult(NotRequested)
  /\ \A known : IsResult(Plain("timed-out", FALSE, known, {})) /\ ~Plain("timed-out", FALSE, known, {}).complete
  /\ \A packages : IsResult(ReadLock(packages))
  /\ \A failure : IsResult(ReadFailure(failure))
<1>1. \A status, complete, known, packages :
         /\ IsResult(Plain(status, complete, known, packages))
         /\ Plain(status, complete, known, packages).complete = complete
  BY DEF IsResult, Plain
<1>2. \A absent, conflicts : IsResult(FailureResult(absent, conflicts))
  BY DEF IsResult, FailureResult
<1>3. QED
  BY <1>1, <1>2 DEF Unverified, NotRequested, ReadLock, ReadFailure

LEMMA StagingKept ==
  ASSUME Given, Read, Staging, [Next]_vars PROVE Staging'
<1> USE DEF Staging, StagedWhole, AllStaged, Ids, Early, Answered, Judged, inputs, adapterVars
<1>1. ASSUME NEW setup \in setups, Configure(setup) PROVE Staging'
  BY <1>1 DEF Configure, Read
<1>2. CASE InspectFile
  BY <1>2 DEF InspectFile
<1>3. CASE InspectionFails \/ Inspected \/ EvaluateRoots
  BY <1>3 DEF InspectionFails, Inspected, EvaluateRoots
<1>4. CASE NoResolution
  BY <1>4, AnswersAreResults DEF NoResolution, Answer
<1>5. CASE AskInjected
  BY <1>5, InjectedAssumption DEF AskInjected, Answer
<1>6. CASE EnterAdapter \/ Accept
  BY <1>6 DEF EnterAdapter, Accept
<1>7. CASE Decline \/ ProbeFails \/ CompileBreaks
  <2>1. IsResult(result') /\ ~result'.complete
    <3>1. \/ result' \in {Unverified(FALSE, {}), Unverified(TRUE, {})}
          \/ \E known \in BOOLEAN : result' = Plain("timed-out", FALSE, known, {})
      BY <1>7 DEF Decline, ProbeFails, CompileBreaks, Answer
    <3>2. PICK r : r = result'
      OBVIOUS
    <3>3. CASE r \in {Unverified(FALSE, {}), Unverified(TRUE, {})}
      <4>1. PICK known : r = Unverified(known, {})
        BY <3>3
      <4>2. IsResult(Unverified(known, {})) /\ ~Unverified(known, {}).complete
        BY AnswersAreResults
      <4>3. QED
        BY <3>2, <4>1, <4>2
    <3>4. CASE \E known \in BOOLEAN : r = Plain("timed-out", FALSE, known, {})
      BY <3>2, <3>4, AnswersAreResults
    <3>5. QED
      BY <3>1, <3>2, <3>3, <3>4
  <2>2. /\ UNCHANGED <<inventory, issues, position, case, staged>> /\ pc' = "validate"
    BY <1>7 DEF Decline, ProbeFails, CompileBreaks, Answer
  <2>3. QED
    BY <2>1, <2>2
<1>8. ASSUME NEW a \in inventory, Stage(a) PROVE Staging'
  <2>1. CASE BytesOf(a) = "inspected"
    <3>1. staged' = staged \cup {[id |-> a.id, bytes |-> "inspected"]}
      BY <1>8, <2>1 DEF Stage, Copy
    <3>2. /\ UNCHANGED <<inventory, issues, position, case, result, pc>> /\ pc = "stage"
      BY <1>8, <2>1 DEF Stage, Copy
    <3>3. QED
      BY <3>1, <3>2
  <2>2. CASE BytesOf(a) # "inspected"
    BY <1>8, <2>2, AnswersAreResults DEF Stage, Answer
  <2>3. QED
    BY <2>1, <2>2
<1>9. ASSUME NEW a \in inventory, Rewrite(a) PROVE Staging'
  BY <1>9 DEF Rewrite
<1>10. CASE Probe
  BY <1>10 DEF Probe
<1>11. CASE CompileSucceeds \/ CompileFails
  <2>1. result'.complete => StagedWhole
    BY <1>11 DEF CompileSucceeds, CompileFails, Read
  <2>2. IsResult(result')
    BY <1>11, AnswersAreResults DEF CompileSucceeds, CompileFails, Answer
  <2>3. /\ UNCHANGED <<inventory, issues, position, case, staged>> /\ pc' = "validate"
    BY <1>11 DEF CompileSucceeds, CompileFails, Answer
  <2>4. QED
    BY <2>1, <2>2, <2>3
<1>12. CASE Validate
  <2>1. IsResult(result') /\ (result'.complete => result.complete)
    BY <1>12, ValidationLowers DEF Validate
  <2>2. /\ UNCHANGED <<inventory, issues, position, case, staged>> /\ pc' \in {"sample", "group"}
    BY <1>12 DEF Validate
  <2>3. QED
    BY <2>1, <2>2
<1>13. CASE Group \/ Seed \/ AssessSample \/ Judge
  BY <1>13 DEF Group, Seed, AssessSample, Judge
<1>14. ASSUME NEW k \in pending, AssessNext(k) PROVE Staging'
  BY <1>14 DEF AssessNext
<1>15. CASE Close
  <2>1. PICK r : r = result
    OBVIOUS
  <2>2. IsResult(Lower(r)) /\ ~Lower(r).complete
    BY <2>1, LowerResult
  <2>3. result' \in {r, Lower(r)}
    BY <1>15, <2>1 DEF Close, Lower
  <2>4. /\ UNCHANGED <<inventory, issues, position, case, staged>> /\ pc' = "correlate"
    BY <1>15 DEF Close
  <2>5. QED
    BY <2>1, <2>2, <2>3, <2>4
<1>16. CASE CorrelateRoots \/ CorrelateNeeds \/ Exit \/ WriteJson \/ Exhaust
  BY <1>16 DEF CorrelateRoots, CorrelateNeeds, Exit, WriteJson, Exhaust
<1>17. CASE UNCHANGED vars
  BY <1>17 DEF vars
<1>18. QED
  BY <1>1, <1>2, <1>3, <1>4, <1>5, <1>6, <1>7, <1>8, <1>9, <1>10, <1>11, <1>12, <1>13, <1>14,
     <1>15, <1>16, <1>17 DEF Next, Pipeline

LEMMA InitInvariant == Init => Given /\ Read /\ Staging
<1>1. IsResult(Unverified(FALSE, {})) /\ ~Unverified(FALSE, {}).complete
  BY AnswersAreResults
<1>2. NoCase.files = <<>> /\ NoCase.roots = {} /\ ~NoCase.resolve /\ Len(<<>>) = 0
  BY DEF NoCase
<1>3. ASSUME Init PROVE Given /\ Read /\ Staging
  <2>1. /\ setups \subseteq Setups /\ case = NoCase /\ pc = "configure" /\ position = 0
        /\ inventory = {} /\ issues = {} /\ active = {} /\ staged = {}
        /\ result = Unverified(FALSE, {})
    BY <1>3 DEF Init
  <2>2. Given
    <3>1. case.files = <<>> /\ case.roots = {} /\ ~case.resolve
      BY <1>2, <2>1
    <3>2. <<>> \in Seq(AllFiles)
      OBVIOUS
    <3>3. QED
      BY <2>1, <3>1, <3>2 DEF Given, Early
  <2>3. Read
    BY <1>2, <2>1 DEF Read
  <2>4. Staging
    BY <1>1, <2>1 DEF Staging, Early
  <2>5. QED
    BY <2>2, <2>3, <2>4
<1>4. QED
  BY <1>3

\* A complete answer of the built-in resolver is about the inspected bytes of
\* every configured file.
THEOREM InspectedWhole == Spec => []CompleteIsInspected
<1>1. Init => Given /\ Read /\ Staging
  BY InitInvariant
<1>2. Given /\ Read /\ Staging /\ [Next]_vars => (Given /\ Read /\ Staging)'
  BY GivenKept, ReadKept, StagingKept
<1>3. Given /\ Read /\ Staging => CompleteIsInspected
  <2>1. SUFFICES ASSUME Given, Read, Staging, case.resolve, case.builtin, result.complete
                 PROVE  /\ Configured = {s.id : s \in staged}
                        /\ \A s \in staged : s.bytes = "inspected"
    BY DEF CompleteIsInspected
  <2>2. StagedWhole
    BY <2>1 DEF Staging
  <2>3. Configured = Ids
    <3>1. Configured = {case.files[n].content : n \in 1..position}
      BY <2>2 DEF StagedWhole, Configured
    <3>2. \A n \in 1..position : case.files[n].content \in Ids
      BY <2>1, <2>2 DEF Read, StagedWhole
    <3>3. \A a \in inventory : \E n \in 1..position : a.id = case.files[n].content
      BY <2>1 DEF Read, ArtifactOf
    <3>4. QED
      BY <3>1, <3>2, <3>3 DEF Ids
  <2>4. Ids = {s.id : s \in staged}
    BY <2>2 DEF StagedWhole, AllStaged, Ids
  <2>5. \A s \in staged : s.bytes = "inspected"
    BY <2>1 DEF Staging
  <2>6. QED
    BY <2>3, <2>4, <2>5
<1>4. QED
  BY <1>1, <1>2, <1>3, PTL DEF Spec

-----------------------------------------------------------------------------
(* The work list.                                                           *)

\* A step before the result is validated.
Before ==
    /\ pc \in Early /\ pc' \in Early \cup {"validate", "refused"}
    /\ UNCHANGED <<worklistVars, reportVars>>

\* A step after the rows are closed.
Correlating ==
    /\ pc \in Judged /\ pc' \in Judged
    /\ UNCHANGED <<inputs, active, adapterVars, result, worklistVars, rows, evidence>>

\* The budget ends, and nothing else happens.
Refusal == pc' = "refused" /\ UNCHANGED <<inputs, active, adapterVars, result, worklistVars, reportVars>>

LEMMA ReportKinds ==
  ASSUME Next
  PROVE  \/ Before \/ Validate \/ Group \/ Seed \/ AssessSample
         \/ \E k \in pending : AssessNext(k)
         \/ Judge \/ Close \/ Correlating \/ Refusal
<1> USE DEF Early, Judged, Answer
<1>1. ASSUME NEW setup \in setups, Configure(setup) PROVE Before
  BY <1>1 DEF Configure, Before
<1>2. ASSUME InspectFile \/ InspectionFails \/ Inspected \/ EvaluateRoots PROVE Before
  BY <1>2 DEF InspectFile, InspectionFails, Inspected, EvaluateRoots, Before
<1>3. ASSUME NoResolution \/ AskInjected \/ EnterAdapter \/ Decline \/ Accept PROVE Before
  BY <1>3 DEF NoResolution, AskInjected, EnterAdapter, Decline, Accept, Before
<1>4. ASSUME NEW a \in inventory, Stage(a) \/ Rewrite(a) PROVE Before
  BY <1>4 DEF Stage, Rewrite, Copy, Before
<1>5. ASSUME Probe \/ ProbeFails PROVE Before
  BY <1>5 DEF Probe, ProbeFails, Before
<1>6. ASSUME CompileSucceeds \/ CompileFails \/ CompileBreaks PROVE Before
  BY <1>6 DEF CompileSucceeds, CompileFails, CompileBreaks, Before
<1>7. ASSUME CorrelateRoots \/ CorrelateNeeds \/ Exit \/ WriteJson PROVE Correlating
  BY <1>7 DEF CorrelateRoots, CorrelateNeeds, Exit, WriteJson, Correlating, reportVars
<1>8. ASSUME Exhaust PROVE Refusal
  BY <1>8 DEF Exhaust, Refusal
<1>9. QED
  BY <1>1, <1>2, <1>3, <1>4, <1>5, <1>6, <1>7, <1>8 DEF Next, Pipeline

\* An assessment is one of its group.
LEMMA AssessIsRow ==
  ASSUME NEW group, NEW extras
  PROVE  RowOf(Assess(group, extras), group)
  BY DEF RowOf, Assess, AssessUsed

LEMMA GroupDomain ==
  ASSUME NEW artifacts
  PROVE  /\ DOMAIN GroupBy(artifacts) = {Key(a) : a \in artifacts}
         /\ \A k \in DOMAIN GroupBy(artifacts) :
               GroupBy(artifacts)[k] = OfVersion(artifacts, k)
  BY DEF GroupBy

LEMMA SameRows ==
  ASSUME UNCHANGED <<case, active, result, groups, assessed>> PROVE Rows' = Rows
  BY DEF Rows, Verdict, Ambiguous, SampledRange, ClosureProven, MatchingRoots

LEMMA ListedKept ==
  ASSUME Given, Listed, [Next]_vars PROVE Listed'
<1> USE DEF Listed, Early, Judged, Answered, Nothing
<1>1. CASE Before
  BY <1>1 DEF Before, worklistVars
<1>2. CASE Validate
  BY <1>2 DEF Validate, worklistVars, inputs
<1>3. CASE Group
  BY <1>3 DEF Group, Grouping, Candidates, Cited, inputs
<1>4. CASE Seed
  <2>1. UNCHANGED <<case, inventory, active, result, groups, assessed>> /\ pc' = "assess" /\ pc = "seed"
    BY <1>4 DEF Seed, inputs
  <2>2. Grouping' = Grouping
    BY <2>1 DEF Grouping, Candidates, Cited
  <2>3. pending' \subseteq DOMAIN groups
    BY <1>4 DEF Seed
  <2>4. DOMAIN assessed = {}
    BY <2>1
  <2>5. QED
    BY <2>1, <2>2, <2>3, <2>4
<1>5. CASE AssessSample
  <2>1. UNCHANGED <<case, inventory, active, result, pending>> /\ pc' = "assess" /\ pc = "sample"
    BY <1>5 DEF AssessSample, inputs
  <2>2. groups' = GroupBy(inventory) /\ groups' = Grouping'
    BY <1>5, <2>1 DEF AssessSample, Grouping
  <2>3. DOMAIN assessed' = DOMAIN groups'
    BY <1>5, <2>2, GroupDomain DEF AssessSample
  <2>4. ASSUME NEW k \in DOMAIN assessed' PROVE RowOf(assessed'[k], groups'[k])
    <3>1. assessed'[k] = Assess(groups'[k], case.extras)
      BY <1>5, <2>2, <2>3, <2>4, GroupDomain DEF AssessSample
    <3>2. PICK g : g = groups'[k]
      OBVIOUS
    <3>3. QED
      BY <3>1, <3>2, AssessIsRow
  <2>5. QED
    BY <2>1, <2>2, <2>3, <2>4
<1>6. ASSUME NEW k \in pending, AssessNext(k) PROVE Listed'
  <2>1. UNCHANGED <<case, inventory, active, result, groups, pc>> /\ pc = "assess"
    BY <1>6 DEF AssessNext, inputs
  <2>2. Grouping' = Grouping
    BY <2>1 DEF Grouping, Candidates, Cited
  <2> DEFINE row == Assess(groups[k], extrasOf[k])
  <2>3. /\ assessed' = [j \in DOMAIN assessed \cup {k} |-> IF j = k THEN row ELSE assessed[j]]
        /\ pending' \subseteq DOMAIN groups
    BY <1>6, <2>1 DEF AssessNext, Record, Requeue
  <2>4. RowOf(row, groups[k])
    BY AssessIsRow
  <2> HIDE DEF row
  <2>5. \A j \in DOMAIN assessed' : RowOf(assessed'[j], groups[j]) /\ j \in DOMAIN groups
    BY <2>1, <2>3, <2>4
  <2>6. QED
    BY <2>1, <2>2, <2>3, <2>5
<1>7. CASE Judge
  <2>1. UNCHANGED <<case, inventory, active, result, groups, assessed, pending>>
    BY <1>7 DEF Judge, inputs, worklistVars
  <2>2. Grouping' = Grouping
    BY <2>1 DEF Grouping, Candidates, Cited
  <2>3. pc = "assess" /\ pc' = "close" /\ pending = {}
    BY <1>7 DEF Judge
  <2>4. rows' = Rows'
    BY <1>7, <2>1, SameRows DEF Judge, Rows
  <2>5. QED
    BY <2>1, <2>2, <2>3, <2>4
<1>8. CASE Close
  BY <1>8 DEF Close, worklistVars
<1>9. CASE Correlating
  BY <1>9 DEF Correlating, worklistVars
<1>10. CASE Refusal
  BY <1>10 DEF Refusal
<1>11. CASE UNCHANGED vars
  <2>1. Grouping' = Grouping
    BY <1>11 DEF Grouping, Candidates, Cited, vars
  <2>2. Rows' = Rows
    BY <1>11, SameRows DEF vars
  <2>3. QED
    BY <1>11, <2>1, <2>2 DEF vars
<1>12. QED
  BY <1>1, <1>2, <1>3, <1>4, <1>5, <1>6, <1>7, <1>8, <1>9, <1>10, <1>11, ReportKinds

\* What an assessment asks of another candidate.
LEMMA RequestsHeard ==
  ASSUME NEW requests, NEW r \in requests
  PROVE  r.extras \subseteq RequestedExtras(requests) /\ requests # {}
  BY DEF RequestedExtras

LEMMA PropagatedKept ==
  ASSUME Given, Listed, Propagated, [Next]_vars PROVE Propagated'
<1> USE DEF Listed, Propagated, Early, Judged, Answered, Nothing
<1>0. Listed'
  BY ListedKept
<1>1. CASE Before \/ Validate \/ Group \/ Refusal
  BY <1>1 DEF Before, Validate, Group, Refusal
<1>2. CASE Seed
  BY <1>2 DEF Seed
<1>3. CASE AssessSample
  BY <1>3 DEF AssessSample, inputs
<1>4. ASSUME NEW k \in pending, AssessNext(k), case.roots # {} PROVE Propagated'
  <2> DEFINE row == Assess(groups[k], extrasOf[k])
             requests == [j \in DOMAIN groups |-> Requesters(row, j)]
  <2>1. /\ assessed' = [j \in DOMAIN assessed \cup {k} |-> IF j = k THEN row ELSE assessed[j]]
        /\ extrasOf' = [j \in DOMAIN groups |-> extrasOf[j] \cup RequestedExtras(requests[j])]
        /\ pending' = (pending \ {k}) \cup Requeue(k, requests)
        /\ pc = "assess" /\ UNCHANGED <<groups, case, pc>>
    BY <1>4 DEF AssessNext, Record, inputs
  <2>2. k \in DOMAIN groups
    BY <2>1
  <2>3. \A j \in DOMAIN groups : extrasOf[j] \subseteq extrasOf'[j]
    BY <2>1
  <2>5. ASSUME NEW j \in DOMAIN groups, NEW r \in Requesters(row, j)
        PROVE  j \in DOMAIN assessed' \cup pending' /\ r.extras \subseteq extrasOf'[j]
    <3>1. requests[j] = Requesters(row, j)
      OBVIOUS
    <3> HIDE DEF row, requests
    <3>2. r.extras \subseteq RequestedExtras(requests[j]) /\ requests[j] # {}
      BY <2>5, <3>1, RequestsHeard
    <3>3. j \notin DOMAIN assessed \cup {k} => j \in Requeue(k, requests)
      BY <3>2 DEF Requeue
    <3>4. QED
      BY <2>1, <3>2, <3>3
  <2>6. ASSUME NEW j \in DOMAIN groups, j \in DOMAIN assessed \cup {k}, j \notin pending'
        PROVE  extrasOf'[j] = extrasOf[j]
    <3> HIDE DEF row, requests
    <3>1. j \notin Requeue(k, requests)
      BY <2>1, <2>6
    <3>2. requests[j] = {} \/ RequestedExtras(requests[j]) \subseteq extrasOf[j]
      BY <2>6, <3>1 DEF Requeue
    <3>3. RequestedExtras({}) = {}
      BY DEF RequestedExtras
    <3>4. RequestedExtras(requests[j]) \subseteq extrasOf[j]
      BY <3>2, <3>3
    <3>5. QED
      BY <2>1, <3>4
  <2> HIDE DEF requests
  <2>7. ASSUME NEW j \in DOMAIN assessed' PROVE
          /\ j \notin pending' => assessed'[j] = Assess(groups[j], extrasOf'[j])
          /\ \A i \in DOMAIN groups : \A r \in Requesters(assessed'[j], i) :
                i \in DOMAIN assessed' \cup pending' /\ r.extras \subseteq extrasOf'[i]
    <3>1. j \in DOMAIN groups /\ (j \notin pending' => extrasOf'[j] = extrasOf[j])
      <4>1. DOMAIN assessed' = DOMAIN assessed \cup {k}
        BY <2>1
      <4>2. QED
        BY <2>1, <2>2, <2>6, <2>7, <4>1
    <3>2. CASE j = k
      <4>1. assessed'[j] = row
        BY <2>1, <2>7, <3>2
      <4>2. j \notin pending' => row = Assess(groups[j], extrasOf'[j])
        BY <3>1, <3>2
      <4> HIDE DEF row
      <4>3. QED
        BY <2>5, <4>1, <4>2
    <3>3. CASE j # k
      <4> HIDE DEF row
      <4>1. j \in DOMAIN assessed /\ assessed'[j] = assessed[j]
        BY <2>1, <2>7, <3>3
      <4>2. j \notin pending' => j \notin pending
        BY <2>1, <3>3
      <4>3. j \notin pending' => assessed[j] = Assess(groups[j], extrasOf'[j])
        BY <1>4, <2>1, <3>1, <4>1, <4>2
      <4>4. ASSUME NEW i \in DOMAIN groups, NEW r \in Requesters(assessed[j], i)
            PROVE  i \in DOMAIN assessed' \cup pending' /\ r.extras \subseteq extrasOf'[i]
        <5>1. i \in DOMAIN assessed \cup pending /\ r.extras \subseteq extrasOf[i]
          BY <1>4, <2>1, <4>1, <4>4
        <5>2. DOMAIN assessed' = DOMAIN assessed \cup {k} /\ pending \ {k} \subseteq pending'
          BY <2>1
        <5>3. QED
          BY <2>3, <5>1, <5>2
      <4>5. QED
        BY <4>1, <4>3, <4>4
    <3>4. QED
      BY <3>2, <3>3
  <2> HIDE DEF row
  <2>8. \A j, i : Requesters(assessed[j], i)' = Requesters(assessed'[j], i)
    BY <2>1 DEF Requesters
  <2>9. ASSUME NEW j \in DOMAIN assessed', NEW i \in DOMAIN groups', NEW r \in Requesters(assessed[j], i)'
        PROVE  i \in DOMAIN assessed' \cup pending' /\ r.extras \subseteq extrasOf'[i]
    <3>1. i \in DOMAIN groups
      BY <2>1, <2>9
    <3>2. r \in Requesters(assessed'[j], i)
      BY <2>8, <2>9
    <3>3. QED
      BY <2>7, <3>1, <3>2
  <2>10. \A j \in DOMAIN assessed' : j \notin pending' => assessed'[j] = Assess(groups'[j], extrasOf'[j])
    BY <2>1, <2>7
  <2>11. QED
    BY <2>9, <2>10
<1>5. ASSUME NEW k \in pending, AssessNext(k), case.roots = {} PROVE Propagated'
  BY <1>5 DEF AssessNext, inputs
<1>6. ASSUME UNCHANGED <<case, groups, extrasOf, pending, assessed>>,
             pc \in {"assess", "close"} \cup Judged
      PROVE  Propagated'
  <2>1. \A x, j : Requesters(x, j)' = Requesters(x, j)
    BY <1>6 DEF Requesters
  <2>2. QED
    BY <1>6, <2>1
<1>7. CASE Judge \/ Close \/ Correlating
  BY <1>6, <1>7 DEF Judge, Close, Correlating, worklistVars, inputs
<1>8. CASE UNCHANGED vars
  <2>1. UNCHANGED <<case, groups, extrasOf, pending, assessed, pc>>
    BY <1>8 DEF vars
  <2>2. QED
    BY <1>6, <2>1
<1>9. QED
  BY <1>1, <1>2, <1>3, <1>4, <1>5, <1>7, <1>8, ReportKinds

\* When the work list is empty, every assessment was made with all the extras
\* asked of its version, and what it needs has been assessed.
THEOREM AssessmentsFresh == Spec => []AssessmentsAreFresh
<1>1. Init => Given /\ Listed /\ Propagated
  BY InitInvariant, Zenon DEF Init, Listed, Propagated, Early, Judged, Nothing
<1>2. Given /\ Listed /\ Propagated /\ [Next]_vars => (Given /\ Listed /\ Propagated)'
  BY GivenKept, ListedKept, PropagatedKept
<1>3. Given /\ Listed /\ Propagated => AssessmentsAreFresh
  BY DEF Propagated, Listed, AssessmentsAreFresh
<1>4. QED
  BY <1>1, <1>2, <1>3, PTL DEF Spec

-----------------------------------------------------------------------------
(* Verdicts.                                                                *)

\* What is true of an answer stays true, for the evidence does not change.
LEMMA SameChecks ==
  ASSUME UNCHANGED <<case, inventory, active>>
  PROVE  \A r : Checked(r)' = Checked(r)
<1>1. \A r : Corroborated(r)' = Corroborated(r)
  BY DEF Corroborated
<1>2. \A r : SuccessBound(r)' = SuccessBound(r)
  BY DEF SuccessBound, TargetBound, SatisfiesRoot
<1>3. QED
  BY <1>1, <1>2 DEF Checked

LEMMA LoweredIsChecked ==
  ASSUME NEW r, r.status = "unverified" PROVE Checked(r)
  BY DEF Checked, Negative

LEMMA ValidatedIsChecked ==
  ASSUME NEW r, IsResult(r) PROVE Checked(Validated(r))
<1>1. Checked(Unverified(FALSE, {})) /\ Checked(Lower(r))
  BY LowerResult, LoweredIsChecked DEF Unverified, Plain
<1>2. CASE RepeatsName(r.packages) \/ ~ShapeValid(r) \/ ~Corroborated(r) \/ ~PartialProvenance(r)
  BY <1>1, <1>2 DEF Validated
<1>3. CASE /\ ~RepeatsName(r.packages) /\ ShapeValid(r) /\ Corroborated(r)
           /\ r.status # "succeeded" \/ SuccessBound(r)
  <2>1. Checked(r)
    BY <1>3 DEF Checked, ShapeValid, Negative
  <2>2. Validated(r) \in {r, Unverified(FALSE, {})}
    BY <1>3 DEF Validated
  <2>3. QED
    BY <1>1, <2>1, <2>2
<1>4. QED
  BY <1>1, <1>2, <1>3 DEF Validated, Lower

LEMMA SoundKept ==
  ASSUME Staging, Sound, [Next]_vars PROVE Sound'
<1> USE DEF Sound, Early, Judged, Answered
<1>1. CASE Before \/ Refusal
  BY <1>1 DEF Before, Refusal
<1>2. CASE Validate
  <2>1. PICK r : r = Validated(result)
    OBVIOUS
  <2>2. PICK x : x = result
    OBVIOUS
  <2>3. Checked(r)
    BY <2>1, <2>2, ValidatedIsChecked DEF Staging
  <2>4. result' = r /\ UNCHANGED <<case, inventory, active>>
    BY <1>2, <2>1 DEF Validate, inputs
  <2>5. Checked(r)' = Checked(r)
    BY <2>4, SameChecks
  <2>6. Checked(result)'
    BY <2>3, <2>4, <2>5 DEF Checked, Corroborated, SuccessBound, TargetBound, SatisfiesRoot
  <2>7. QED
    BY <2>6
<1>3. ASSUME UNCHANGED <<case, inventory, active, result>>, pc \in Answered PROVE Sound'
  <2>1. PICK r : r = result
    OBVIOUS
  <2>2. Checked(r)' = Checked(r)
    BY <1>3, SameChecks
  <2>3. QED
    BY <1>3, <2>1, <2>2 DEF Checked, Corroborated, SuccessBound, TargetBound, SatisfiesRoot
<1>4. CASE Group \/ Seed \/ AssessSample \/ Judge
  BY <1>3, <1>4 DEF Group, Seed, AssessSample, Judge, inputs
<1>5. ASSUME NEW k \in pending, AssessNext(k) PROVE Sound'
  BY <1>3, <1>5 DEF AssessNext, inputs
<1>6. CASE Correlating
  BY <1>3, <1>6 DEF Correlating, inputs
<1>7. CASE Close
  <2>1. CASE Selected(result) => ClosureHolds
    BY <1>3, <1>7, <2>1 DEF Close, inputs
  <2>2. CASE ~(Selected(result) => ClosureHolds)
    <3>1. PICK r : r = result
      OBVIOUS
    <3>2. result' = Lower(r) /\ IsResult(r)
      BY <1>7, <2>2, <3>1 DEF Close, Lower, Staging
    <3>3. result'.status = "unverified"
      BY <3>2, LowerResult
    <3>4. QED
      BY <3>3 DEF Checked, Negative
  <2>3. QED
    BY <2>1, <2>2
<1>8. CASE UNCHANGED vars
  <2>1. UNCHANGED <<case, inventory, active, result, pc>>
    BY <1>8 DEF vars
  <2>2. QED
    BY <1>3, <2>1
<1>9. QED
  BY <1>1, <1>2, <1>4, <1>5, <1>6, <1>7, <1>8, ReportKinds

\* A version without its local part is a version, and no more.
LEMMA PublicOf ==
  ASSUME NEW v \in Nat
  PROVE  /\ Public(v) \in Nat /\ Public(v) <= v /\ Public(Public(v)) = Public(v)
         /\ ~IsLocal(Public(v)) /\ (~IsLocal(v) => Public(v) = v)
<1>1. PICK q \in Nat, l \in 0..9 : v = 10 * q + l /\ v % 10 = l
  <2>1. v = 10 * (v \div 10) + (v % 10) /\ v \div 10 \in Nat /\ v % 10 \in 0..9
    OBVIOUS
  <2>2. QED
    BY <2>1
<1>2. Public(v) = 10 * q
  BY <1>1 DEF Public
<1>3. (10 * q) % 10 = 0
  OBVIOUS
<1>4. QED
  BY <1>1, <1>2, <1>3 DEF Public, IsLocal

\* A group that contradicts itself accepts no version at all
\* (_resolution.py _exact_requirement_conflict_names).
THEOREM ContradictionReal ==
  ASSUME NEW group \in SUBSET AllRequirements, Contradicts(group), NEW v \in Nat
  PROVE  ~AcceptedByAll(group, v)
<1> USE DEF AllRequirements, AcceptedByAll, Accepts
<1>1. SUFFICES ASSUME AcceptedByAll(group, v) PROVE FALSE
  OBVIOUS
<1>2. Public(v) \in Nat /\ Public(v) <= v /\ Public(Public(v)) = Public(v)
  BY PublicOf
<1>3. CASE \E lo, up \in group :
             /\ lo.op \in {"ge", "gt"} /\ up.op \in {"le", "lt"}
             /\ \/ lo.ver > up.ver
                \/ lo.ver = up.ver /\ ~(lo.op = "ge" /\ up.op = "le")
  <2>1. PICK lo \in group, up \in group :
             /\ lo.op \in {"ge", "gt"} /\ up.op \in {"le", "lt"}
             /\ \/ lo.ver > up.ver
                \/ lo.ver = up.ver /\ ~(lo.op = "ge" /\ up.op = "le")
    BY <1>3
  <2>2. lo.ver \in Nat /\ up.ver \in Nat
    OBVIOUS
  <2>3. Public(v) >= lo.ver /\ (lo.op = "gt" => Public(v) > lo.ver)
    BY <1>1, <1>2, <2>1, <2>2
  <2>4. Public(v) <= up.ver \/ v < up.ver
    BY <1>1, <2>1
  <2>5. up.op = "lt" => v < up.ver
    BY <1>1, <2>1
  <2>6. QED
    BY <1>2, <2>1, <2>2, <2>3, <2>4, <2>5
<1>4. CASE ExactVersions(group) # {} /\ \A w \in ExactVersions(group) : ~AcceptedByAll(group, w)
  <2>1. PICK pin \in group : pin.op = "eq"
    BY <1>4 DEF ExactVersions
  <2>2. \A r \in group : r.op = "eq" => r.ver \in ExactVersions(group) /\ r.ver \in Nat
    BY DEF ExactVersions
  <2>3. \A r \in group : r.op = "eq" /\ IsLocal(r.ver) => r.ver = v
    BY <1>1
  <2>4. CASE \E r \in group : r.op = "eq" /\ IsLocal(r.ver)
    BY <1>1, <1>4, <2>2, <2>3, <2>4
  <2>5. CASE ~\E r \in group : r.op = "eq" /\ IsLocal(r.ver)
    <3>1. \A r \in group : r.op = "eq" => r.ver = Public(v)
      BY <1>1, <2>5
    <3>2. AcceptedByAll(group, Public(v))
      <4>1. ASSUME NEW r \in group PROVE Accepts(r, Public(v))
        <5>1. r.ver \in Nat /\ Accepts(r, v)
          BY <1>1
        <5>2. CASE r.op = "eq"
          BY <1>2, <2>5, <3>1, <5>2
        <5>3. CASE r.op # "eq"
          BY <1>2, <5>1, <5>3
        <5>4. QED
          BY <5>2, <5>3
      <4>2. QED
        BY <4>1
    <3>3. QED
      BY <1>4, <2>1, <2>2, <3>1, <3>2
  <2>6. QED
    BY <2>4, <2>5
<1>5. QED
  BY <1>3, <1>4 DEF Contradicts

\* A name a closed wheelhouse cannot supply has no wheel of the target
\* (_resolution.py _offline_artifact_unavailability).
LEMMA UnavailableReal ==
  ASSUME NEW reqs, NEW artifacts, NEW kind, NEW n \in UnavailableNames(reqs, artifacts, kind),
         NEW a \in MatchingWheels(artifacts), ArtifactMeetsVersions(a, GroupOf(reqs, n))
  PROVE  FALSE
<1> DEFINE candidates == {b \in artifacts : ArtifactMeetsVersions(b, GroupOf(reqs, n))}
<1>1. NothingUsable(candidates) /\ a \in candidates
  BY DEF UnavailableNames, MatchingWheels
<1> HIDE DEF candidates
<1>2. a \in MatchingWheels(OfVersion(candidates, Key(a)))
  BY <1>1 DEF MatchingWheels, OfVersion
<1>3. Availability(OfVersion(candidates, Key(a))) = "available"
  BY <1>2 DEF Availability
<1>4. QED
  BY <1>1, <1>3 DEF NothingUsable

LEMMA PythonOfUsed ==
  ASSUME NEW used
  PROVE  /\ PythonStatus(used) = "incompatible" =>
               /\ used # {}
               /\ \A a \in used : a.python = "excludes" /\ "requires-python" \notin a.dynamic
         /\ used # {} /\ (\A a \in used : a.python = "excludes" /\ "requires-python" \notin a.dynamic)
               => PythonStatus(used) = "incompatible"
<1> DEFINE said == {a.python : a \in used}
<1>1. said = {"excludes"} => used # {} /\ \A a \in used : a.python = "excludes"
  OBVIOUS
<1>2. used # {} /\ (\A a \in used : a.python = "excludes") => said = {"excludes"}
  OBVIOUS
<1>3. PythonStatus(used) =
        IF \E a \in used : "requires-python" \in a.dynamic THEN "unverified"
        ELSE IF said \in {{}, {"none"}} THEN "unspecified"
        ELSE IF said = {"includes"} THEN "compatible"
        ELSE IF said = {"excludes"} THEN "incompatible"
        ELSE "unverified"
  BY DEF PythonStatus
<1>4. {"excludes"} \notin {{}, {"none"}, {"includes"}}
  OBVIOUS
<1> HIDE DEF said
<1>5. PythonStatus(used) = "incompatible" => said = {"excludes"}
                              /\ \A a \in used : "requires-python" \notin a.dynamic
  BY <1>3
<1>6. QED
  BY <1>1, <1>2, <1>3, <1>4, <1>5

\* A version is only called incompatible on the word of all that could be
\* installed of it (_assessment.py _semantic_artifacts).
LEMMA AllExclude ==
  ASSUME NEW group, \A a \in group : a.kind \in Kinds,
         PythonStatus(Used(group)) = "incompatible"
  PROVE  /\ Used(group) # {} /\ Used(group) \subseteq group
         /\ \A a \in Used(group) : a.python = "excludes" /\ "requires-python" \notin a.dynamic
         /\ \A a \in group : a.kind # "wheel" \/ a.fits => a \in Used(group)
<1>1. /\ Used(group) # {}
      /\ \A a \in Used(group) : a.python = "excludes" /\ "requires-python" \notin a.dynamic
  BY PythonOfUsed
<1>2. Semantic(group) \subseteq group /\ Fallback(group) \subseteq group /\ (group # {} => Semantic(group) # {})
  BY DEF Semantic, FirstNonEmpty, Fallback, MatchingWheels, OfKind, Kinds
<1>3. Semantic(group) \subseteq Used(group) /\ Used(group) \subseteq Semantic(group) \cup Fallback(group)
  BY DEF Used
<1>4. PythonStatus(Semantic(group)) = "incompatible"
  BY <1>1, <1>2, <1>3, PythonOfUsed
<1>5. Used(group) = Semantic(group) \cup Fallback(group)
  BY <1>4 DEF Used
<1>6. \A a \in group : a.kind # "wheel" \/ a.fits => a \in Semantic(group) \cup Fallback(group)
  BY DEF Semantic, FirstNonEmpty, Fallback, MatchingWheels, OfKind, Kinds
<1>7. QED
  BY <1>1, <1>2, <1>3, <1>5, <1>6

\* The file an artifact was read from.
LEMMA FileOfArtifact ==
  ASSUME Given, Read, NEW a \in inventory
  PROVE  \E f \in AllFiles : /\ f \in Sources(a) /\ Speaks(f) /\ a = ArtifactOf(f, case.target)
<1>1. PICK n \in 1..position : Speaks(case.files[n]) /\ a = ArtifactOf(case.files[n], case.target)
  BY DEF Read
<1>2. n \in DOMAIN case.files /\ case.files[n] \in AllFiles
  BY DEF Given, Read
<1>3. case.files[n] \in ToSet(case.files)
  BY <1>2 DEF ToSet
<1>4. case.files[n].content = a.id /\ KindOf(case.files[n]) = a.kind
  BY <1>1 DEF ArtifactOf
<1>5. QED
  BY <1>1, <1>2, <1>3, <1>4 DEF Sources

LEMMA ShortSequence ==
  ASSUME NEW S, NEW s \in Seq(S), Len(s) <= 1
  PROVE  s = <<>> \/ s = <<s[1]>>
<1>1. Len(s) \in Nat /\ s = [i \in 1..Len(s) |-> s[i]]
  OBVIOUS
<1>2. CASE Len(s) = 0
  BY <1>2
<1>3. CASE Len(s) = 1
  <2>1. Len(<<s[1]>>) = 1 /\ <<s[1]>>[1] = s[1] /\ s[1] \in S
    BY <1>3
  <2>2. <<s[1]>> \in Seq(S)
    BY <2>1
  <2>3. \A i \in 1..1 : i = 1
    OBVIOUS
  <2>4. QED
    BY <1>3, <2>1, <2>2, <2>3
<1>4. QED
  BY <1>1, <1>2, <1>3

LEMMA PythonOfFile ==
  ASSUME NEW f \in AllFiles, Speaks(f), NEW target, NEW a, a = ArtifactOf(f, target)
  PROVE  a.python = "excludes" <=> f.core.python = <<"excludes">>
<1>1. f.core.python \in Seq(STRING) /\ Len(f.core.python) <= 1
  BY DEF AllFiles, Speaks, CoreHolds, NeedsCounted, HeadersHold, OptionalHeader
<1>2. a.python = IF f.core.python = <<>> THEN "none" ELSE f.core.python[1]
  BY DEF ArtifactOf
<1>3. f.core.python = <<>> \/ f.core.python = <<f.core.python[1]>>
  BY <1>1, ShortSequence
<1>4. QED
  BY <1>2, <1>3

\* An artifact that excludes its Python for good was read from a file that says so.
LEMMA ExclusionStated ==
  ASSUME Given, Read, NEW a \in inventory, a.python = "excludes", "requires-python" \notin a.dynamic
  PROVE  Excludes(a)
<1>1. PICK f \in AllFiles : f \in Sources(a) /\ Speaks(f) /\ a = ArtifactOf(f, case.target)
  BY FileOfArtifact
<1>2. f.core.python = <<"excludes">>
  BY <1>1, PythonOfFile
<1>3. /\ a.kind = "wheel" <=> IsWheel(f)
      /\ a.dynamic = DynamicOf(f)
  BY <1>1 DEF ArtifactOf, KindOf
<1>4. IsWheel(f) \/ ~(f.core.schema[1] < StaticSchema)
  BY <1>3 DEF DynamicOf, Implicit
<1>5. f.core.schema[1] \in Nat
  <2>1. f.core.schema \in Seq(Nat)
    BY DEF AllFiles
  <2>2. Len(f.core.schema) = 1
    BY <1>1 DEF Speaks, CoreHolds, NeedsCounted, HeadersHold, RequiredHeader
  <2>3. QED
    BY <2>1, <2>2
<1>6. a.kind = "wheel" \/ f.core.schema[1] >= StaticSchema
  BY <1>3, <1>4, <1>5 DEF StaticSchema
<1>7. \A n \in DOMAIN f.core.dynamic : f.core.dynamic[n] # "requires-python"
  BY <1>3, <1>4 DEF DynamicOf, ToSet
<1>8. QED
  BY <1>1, <1>2, <1>6, <1>7 DEF Excludes

\* A tag that a coherent target declares is one its interpreter runs, on the
\* platform it declares (_targets.py).
THEOREM TagsRun ==
  ASSUME NEW target \in AllTargets, Coherent(target), NEW tag \in target.tags
  PROVE  Runs(tag, target) /\ Loads(tag, target)
<1>1. tag \in AllTags /\ target.minor \in Nat /\ target.platform.glibc \in Nat /\ tag.minor \in Nat
      /\ tag.glibc \in Nat
  BY DEF AllTargets, AllTags
<1>2. InterpreterTag(tag, target) /\ PlatformTag(tag, target.platform)
  BY DEF Coherent, TagsHold
<1>3. Runs(tag, target)
  BY <1>1, <1>2 DEF InterpreterTag, GenericTag, CPythonTag, PyPyTag, Runs, NoAbi, StableAbi
<1>4. target.markers = MarkersOf(target.platform) /\ target.platform.family \in {"linux", "macosx", "win"}
  BY DEF Coherent, Represented, Families
<1>5. /\ target.markers.sys = SystemOf[target.platform.family]
      /\ target.markers.machine = target.platform.machine
  BY <1>4 DEF MarkersOf, Families, SystemOf
<1>6. Loads(tag, target)
  <2>1. CASE tag.family = "any"
    BY <2>1 DEF Loads
  <2>2. CASE tag.family # "any"
    <3> DEFINE platform == target.platform
    <3>1. tag.family = platform.family
      BY <1>2, <2>2 DEF PlatformTag
    <3>2. /\ platform.family = "linux" => LinuxTag(tag, platform)
          /\ platform.family = "macosx" => tag.machine \in {platform.machine, "universal2"}
          /\ platform.family = "win" => tag.machine = platform.machine
      <4>1. CASE platform.family = "linux"
        BY <1>2, <2>2, <4>1 DEF PlatformTag
      <4>2. CASE platform.family = "macosx"
        BY <1>2, <2>2, <4>2 DEF PlatformTag
      <4>3. CASE platform.family = "win"
        BY <1>2, <2>2, <4>3 DEF PlatformTag
      <4>4. QED
        BY <4>1, <4>2, <4>3, <1>4
    <3>3. \/ tag.machine = platform.machine
          \/ platform.family = "macosx" /\ tag.machine = "universal2"
      BY <1>4, <3>2 DEF LinuxTag
    <3>4. platform.glibc = 0 \/ tag.glibc <= platform.glibc \/ platform.family # "linux"
      BY <1>1, <3>2 DEF LinuxTag
    <3>5. QED
      BY <1>5, <3>1, <3>3, <3>4 DEF Loads
  <2>3. QED
    BY <2>1, <2>2
<1>7. QED
  BY <1>3, <1>6

LEMMA FittingWheelUsable ==
  ASSUME Given, Read, pc \notin {"configure", "refused"},
         NEW a \in inventory, a.kind = "wheel", a.fits, a.python # "excludes"
  PROVE  Usable(a)
<1>1. PICK f \in AllFiles : f \in Sources(a) /\ Speaks(f) /\ a = ArtifactOf(f, case.target)
  BY FileOfArtifact
<1>2. f.core.python # <<"excludes">>
  BY <1>1, PythonOfFile
<1>3. IsWheel(f) /\ f.label.tags \cap case.target.tags # {}
  BY <1>1 DEF ArtifactOf
<1>4. UNION ToSet(f.wheel.tags) = f.label.tags
  BY <1>1, <1>3 DEF Speaks, TagsAgree
<1>5. PICK tag \in case.target.tags : tag \in UNION ToSet(f.wheel.tags)
  BY <1>3, <1>4
<1>6. PICK n \in DOMAIN f.wheel.tags : tag \in f.wheel.tags[n]
  BY <1>5 DEF ToSet
<1>7. Runs(tag, case.target) /\ Loads(tag, case.target)
  BY TagsRun DEF Given
<1>8. QED
  BY <1>1, <1>2, <1>6, <1>7 DEF Usable

\* A package that meets a group is of a version that each of the group accepts.
LEMMA PackageAccepts ==
  ASSUME NEW p, NEW reqs, NEW artifacts, PackageMeetsVersions(p, reqs, artifacts), NEW r \in reqs
  PROVE  Accepts(r, p.version)
<1>1. PICK a \in artifacts : a.id \in p.used
  BY DEF PackageMeetsVersions, IsBound
<1>2. a \in ArtifactsOf(p, artifacts)
  BY <1>1 DEF ArtifactsOf
<1>3. Key(a) = KeyOf(p.name, p.version) /\ ArtifactMeetsVersions(a, reqs)
  BY <1>2 DEF PackageMeetsVersions, IsBound
<1>4. a.version = p.version
  BY <1>3 DEF Key, KeyOf
<1>5. QED
  BY <1>3, <1>4 DEF ArtifactMeetsVersions, AcceptedByAll

\* What an outcome says of the metadata it was drawn from.
LEMMA OutcomeSays ==
  ASSUME NEW row, NEW group, RowOf(row, group)
  PROVE  /\ row.status = "declared-incompatible" => PythonStatus(Used(group)) = "incompatible"
         /\ row.status = "compatible" =>
               /\ PythonStatus(Used(group)) \notin {"incompatible", "unverified"}
               /\ MatchingWheels(group) # {}
<1>1. row.status = "declared-incompatible" \/ row.status = "compatible" =>
        row.status = Outcome(PythonStatus(Used(group)), Availability(group))
  BY DEF RowOf
<1>2. Availability(group) = "available" => MatchingWheels(group) # {}
  BY DEF Availability
<1>3. QED
  BY <1>1, <1>2 DEF Outcome

\* A package of a success was selected with the one wheel it cites, which fits.
LEMMA SelectedWheel ==
  ASSUME Given, Read, pc \notin {"configure", "refused"}, NEW p, NEW extras,
         TargetBound(p, Assess(ArtifactsOf(p, inventory), extras)),
         NEW a \in ArtifactsOf(p, inventory)
  PROVE  /\ p.used = {a.id} /\ Usable(a) /\ ArtifactsOf(p, inventory) = {a}
         /\ Used(ArtifactsOf(p, inventory)) = {a} /\ Semantic(ArtifactsOf(p, inventory)) = {a}
<1> DEFINE group == ArtifactsOf(p, inventory)
<1>1. p.used = {a.id} /\ a \in inventory
  BY DEF TargetBound, Single, ArtifactsOf
<1>2. group = {a}
  BY <1>1 DEF ArtifactsOf, Read
<1>3. Assess(group, extras).status = "compatible" /\ RowOf(Assess(group, extras), group)
  BY AssessIsRow DEF TargetBound
<1> HIDE DEF group
<1>4. PICK row : row = Assess(group, extras)
  OBVIOUS
<1>5. /\ PythonStatus(Used(group)) \notin {"incompatible", "unverified"}
      /\ MatchingWheels(group) # {}
  BY <1>3, <1>4, OutcomeSays
<1>6. a.kind = "wheel" /\ a.fits
  BY <1>2, <1>5 DEF MatchingWheels
<1>7. Used(group) = {a} /\ Semantic(group) = {a}
  <2>1. Semantic(group) = {a}
    BY <1>2, <1>6 DEF Semantic, FirstNonEmpty, MatchingWheels
  <2>2. Fallback(group) = {}
    BY <1>2, <1>6 DEF Fallback, MatchingWheels, OfKind
  <2>3. QED
    BY <2>1, <2>2 DEF Used
<1>8. a.python # "excludes"
  <2>1. SUFFICES ASSUME a.python = "excludes" PROVE FALSE
    OBVIOUS
  <2>2. CASE "requires-python" \in a.dynamic
    BY <1>5, <1>7, <2>2 DEF PythonStatus
  <2>3. CASE "requires-python" \notin a.dynamic
    BY <1>5, <1>7, <2>1, <2>3, PythonOfUsed
  <2>4. QED
    BY <2>2, <2>3
<1>9. QED
  BY <1>1, <1>2, <1>6, <1>7, <1>8, FittingWheelUsable DEF group

\* The candidates of a success are the artifacts of its packages.
LEMMA SelectedGroup ==
  ASSUME Checked(result), Selected(result), NEW k \in {Key(a) : a \in Cited}
  PROVE  \E p \in result.packages :
            /\ KeyOf(p.name, p.version) = k
            /\ OfVersion(Cited, k) = ArtifactsOf(p, inventory)
            /\ TargetBound(p, Assess(ArtifactsOf(p, inventory),
                                     RequestedExtras(GroupOf(active, p.name))))
<1>1. ~RepeatsName(result.packages) /\ SuccessBound(result)
  BY DEF Checked, Selected
<1>2. \A p \in result.packages :
         /\ TargetBound(p, Assess(ArtifactsOf(p, inventory),
                                  RequestedExtras(GroupOf(active, p.name))))
         /\ IsBound(p, inventory)
  BY <1>1 DEF SuccessBound, TargetBound
<1>3. \A p \in result.packages : \A a \in ArtifactsOf(p, inventory) : Key(a) = KeyOf(p.name, p.version)
  BY <1>2 DEF IsBound
<1>4. PICK a \in inventory, p \in result.packages : a.id \in p.used /\ Key(a) = k
  BY DEF Cited
<1>5. KeyOf(p.name, p.version) = k
  BY <1>3, <1>4 DEF ArtifactsOf
<1>6. ASSUME NEW q \in result.packages, KeyOf(q.name, q.version) = k PROVE q = p
  BY <1>1, <1>5, <1>6 DEF RepeatsName, KeyOf
<1>7. OfVersion(Cited, k) \subseteq ArtifactsOf(p, inventory)
  <2>1. ASSUME NEW b \in Cited, Key(b) = k PROVE b \in ArtifactsOf(p, inventory)
    <3>1. PICK q \in result.packages : b \in inventory /\ b.id \in q.used
      BY DEF Cited
    <3>2. b \in ArtifactsOf(q, inventory)
      BY <3>1 DEF ArtifactsOf
    <3>3. QED
      BY <1>3, <1>6, <2>1, <3>2
  <2>2. QED
    BY <2>1 DEF OfVersion
<1>8. ArtifactsOf(p, inventory) \subseteq OfVersion(Cited, k)
  BY <1>3, <1>5 DEF OfVersion, Cited, ArtifactsOf
<1>9. OfVersion(Cited, k) = ArtifactsOf(p, inventory)
  BY <1>7, <1>8
<1>10. TargetBound(p, Assess(ArtifactsOf(p, inventory), RequestedExtras(GroupOf(active, p.name))))
  BY <1>2
<1>11. QED
  BY <1>5, <1>9, <1>10, Zenon

\* A row says what its assessment said, unless that is not believed.
LEMMA RowStands ==
  ASSUME Listed, pc = "close", NEW k \in DOMAIN rows
  PROVE  /\ k \in DOMAIN assessed /\ k \in DOMAIN groups /\ RowOf(assessed[k], groups[k])
         /\ rows[k].status \in {assessed[k].status, "unverified"}
         /\ rows[k].status = "compatible" => ClosureProven(k)
         /\ \A status : [rows[k] EXCEPT !.status = status].status = status
<1>1. rows = Rows /\ k \in DOMAIN assessed /\ k \in DOMAIN groups /\ RowOf(assessed[k], groups[k])
  BY DEF Listed, Rows
<1>2. PICK row : row = assessed[k]
  OBVIOUS
<1>3. [row EXCEPT !.status = Verdict(k, row.status)].status = Verdict(k, row.status)
  BY <1>1, <1>2 DEF RowOf
<1>4. rows[k] = [row EXCEPT !.status = Verdict(k, row.status)]
  BY <1>1, <1>2 DEF Rows
<1>5. \A status : [rows[k] EXCEPT !.status = status].status = status
  <2>1. row = [used |-> row.used, python |-> row.python, availability |-> row.availability,
               needs |-> row.needs, status |-> row.status]
    BY <1>1, <1>2 DEF RowOf
  <2>2. PICK verdict : verdict = Verdict(k, row.status)
    OBVIOUS
  <2>3. \A status : [[row EXCEPT !.status = verdict] EXCEPT !.status = status].status = status
    BY <2>1
  <2>4. QED
    BY <1>4, <2>2, <2>3
<1>6. rows[k].status = Verdict(k, row.status)
  BY <1>3, <1>4
<1>7. QED
  BY <1>1, <1>2, <1>5, <1>6 DEF Verdict, WithClosure

LEMMA KindsKnown ==
  ASSUME Given, Read, NEW a \in inventory PROVE a.kind \in Kinds
  BY FileOfArtifact DEF ArtifactOf, KindOf, Kinds

\* The candidates of a version: all its artifacts, unless it was selected.
LEMMA GroupWhole ==
  ASSUME Given, Listed, pc = "close", NEW k \in DOMAIN groups, case.roots = {} \/ ~Selected(result)
  PROVE  /\ groups[k] = OfVersion(inventory, k) /\ \E a \in groups[k] : a \in inventory /\ Key(a) = k
         /\ case.roots # {} => groups[k] \subseteq DirectArtifacts(inventory, active)
<1> DEFINE Direct == DirectArtifacts(inventory, active)
<1>0. groups = Grouping
  BY DEF Listed
<1>1. CASE case.roots = {}
  <2>1. groups = GroupBy(inventory)
    BY <1>0, <1>1 DEF Grouping
  <2>2. k \in {Key(a) : a \in inventory} /\ groups[k] = OfVersion(inventory, k)
    BY <2>1, GroupDomain
  <2>3. PICK a \in inventory : Key(a) = k
    BY <2>2
  <2>4. a \in OfVersion(inventory, k)
    BY <2>3 DEF OfVersion
  <2>5. QED
    BY <1>1, <2>2, <2>3, <2>4
<1>2. CASE case.roots # {}
  <2>1. groups = GroupBy(Direct)
    BY <1>0, <1>2 DEF Grouping, Candidates
  <2>2. k \in {Key(a) : a \in Direct} /\ groups[k] = OfVersion(Direct, k)
    BY <2>1, GroupDomain
  <2>3. PICK a \in Direct : Key(a) = k
    BY <2>2
  <2>4. ASSUME NEW b \in inventory, Key(b) = k PROVE b \in Direct
    <3>1. b.name = a.name /\ b.version = a.version
      BY <2>3, <2>4 DEF Key, KeyOf
    <3>2. ArtifactMeetsVersions(a, GroupOf(active, a.name))
      BY <2>3 DEF DirectArtifacts
    <3>3. ArtifactMeetsVersions(b, GroupOf(active, b.name))
      BY <3>1, <3>2 DEF ArtifactMeetsVersions
    <3>4. QED
      BY <3>3 DEF DirectArtifacts
  <2>5. Direct \subseteq inventory
    BY DEF DirectArtifacts
  <2>6. OfVersion(Direct, k) = OfVersion(inventory, k)
    BY <2>4, <2>5 DEF OfVersion
  <2>7. QED
    BY <2>2, <2>3, <2>5, <2>6 DEF OfVersion
<1>3. QED
  BY <1>1, <1>2

LEMMA ExcludedRows ==
  ASSUME Given, Read, Sound, Listed, pc = "close", NEW k \in DOMAIN rows,
         rows[k].status = "declared-incompatible"
  PROVE  ExcludedRow(k)
<1>1. /\ k \in DOMAIN groups /\ RowOf(assessed[k], groups[k])
      /\ assessed[k].status = "declared-incompatible"
  BY RowStands
<1>2. PICK group, row : group = groups[k] /\ row = assessed[k]
  OBVIOUS
<1>3. PythonStatus(Used(group)) = "incompatible"
  BY <1>1, <1>2, OutcomeSays
<1>4. CASE case.roots = {} \/ ~Selected(result)
  <2>1. group = OfVersion(inventory, k)
    BY <1>1, <1>2, <1>4, GroupWhole
  <2>2. \A a \in group : a \in inventory /\ Key(a) = k /\ a.kind \in Kinds
    BY <2>1, KindsKnown DEF OfVersion
  <2>3. /\ Used(group) # {} /\ Used(group) \subseteq group
        /\ \A a \in Used(group) : a.python = "excludes" /\ "requires-python" \notin a.dynamic
        /\ \A a \in group : a.kind # "wheel" \/ a.fits => a \in Used(group)
    BY <1>3, <2>2, AllExclude
  <2>4. \A a \in Used(group) : Excludes(a)
    BY <2>2, <2>3, ExclusionStated
  <2>5. \A a \in inventory : Key(a) = k => a \in group
    BY <2>1 DEF OfVersion
  <2>6. QED
    BY <2>2, <2>3, <2>4, <2>5 DEF ExcludedRow
<1>5. CASE case.roots # {} /\ Selected(result)
  <2>1. groups = GroupBy(Cited)
    BY <1>5 DEF Listed, Grouping, Candidates
  <2>2. k \in {Key(a) : a \in Cited} /\ group = OfVersion(Cited, k)
    BY <1>1, <1>2, <2>1, GroupDomain
  <2>3. Checked(result)
    BY DEF Sound, Answered
  <2>4. PICK p \in result.packages :
           /\ group = ArtifactsOf(p, inventory)
           /\ TargetBound(p, Assess(ArtifactsOf(p, inventory),
                                    RequestedExtras(GroupOf(active, p.name))))
    BY <1>5, <2>2, <2>3, SelectedGroup
  <2>5. PICK other : other = Assess(group, RequestedExtras(GroupOf(active, p.name)))
    OBVIOUS
  <2>6. other.status = "compatible" /\ RowOf(other, group)
    BY <2>4, <2>5, AssessIsRow DEF TargetBound
  <2>7. QED
    BY <1>3, <2>6, OutcomeSays
<1>6. QED
  BY <1>4, <1>5

\* A version that a complete answer calls unavailable has no wheel of the target.
LEMMA UnavailableRow ==
  ASSUME Given, Sound, Listed, pc = "close", NEW k \in DOMAIN groups,
         result.status = "artifact-unavailable", NameOfKey(k) \in result.names,
         MatchingWheels(groups[k]) # {}
  PROVE  FALSE
<1>1. /\ result.reqs # {} /\ result.reqs \subseteq active
      /\ result.names \subseteq UnavailableNames(active, inventory, case.kind)
  BY DEF Sound, Answered, Checked, Corroborated, Negative
<1>2. case.roots # {} /\ ~Selected(result)
  BY <1>1 DEF Given, Selected
<1>3. groups[k] = OfVersion(inventory, k) /\ groups[k] \subseteq DirectArtifacts(inventory, active)
  BY <1>2, GroupWhole
<1>4. PICK a \in groups[k] : a \in MatchingWheels(groups[k])
  BY DEF MatchingWheels
<1>5. a \in MatchingWheels(inventory) /\ Key(a) = k
  BY <1>3, <1>4 DEF MatchingWheels, OfVersion
<1>6. ArtifactMeetsVersions(a, GroupOf(active, NameOfKey(k)))
  BY <1>3, <1>5 DEF DirectArtifacts, Key, KeyOf, NameOfKey
<1>7. NameOfKey(k) \in UnavailableNames(active, inventory, case.kind)
  BY <1>1
<1>8. PICK n : n = NameOfKey(k)
  OBVIOUS
<1>9. n \in UnavailableNames(active, inventory, case.kind) /\ ArtifactMeetsVersions(a, GroupOf(active, n))
  BY <1>6, <1>7, <1>8
<1>10. QED
  BY <1>5, <1>9, UnavailableReal

LEMMA CompatibleRows ==
  ASSUME Given, Read, Staging, Sound, Listed, pc = "close", NEW k \in DOMAIN rows,
         rows[k].status = "compatible", Selected(result) => ClosureHolds
  PROVE  CompatibleRow(k)
<1>1. /\ k \in DOMAIN groups /\ RowOf(assessed[k], groups[k])
      /\ assessed[k].status = "compatible" /\ ClosureProven(k)
  BY RowStands
<1>2. PICK group, row : group = groups[k] /\ row = assessed[k]
  OBVIOUS
<1>3. MatchingWheels(group) # {}
  BY <1>1, <1>2, OutcomeSays
<1>4. Selected(result)
  BY <1>1, <1>2, <1>3, UnavailableRow DEF ClosureProven, Selected
<1>5. /\ DOMAIN rows = {KeyOf(p.name, p.version) : p \in result.packages}
      /\ \A n \in NamesOf(Needs) :
            Single({p \in result.packages : p.name = n /\
                PackageMeetsVersions(p, GroupOf(Needs, n), inventory)})
  BY <1>4 DEF ClosureHolds
<1>6. case.resolve /\ result.complete /\ ~RepeatsName(result.packages) /\ SuccessBound(result)
  BY <1>4 DEF Sound, Answered, Checked, Selected
<1>7. PICK p \in result.packages : KeyOf(p.name, p.version) = k
  BY <1>5
<1>8. ASSUME NEW a \in ArtifactsOf(p, inventory)
      PROVE  /\ p.used = {a.id} /\ Usable(a)
             /\ case.builtin => [id |-> a.id, bytes |-> "inspected"] \in staged
  <2>1. TargetBound(p, Assess(ArtifactsOf(p, inventory), RequestedExtras(GroupOf(active, p.name))))
    BY <1>6 DEF SuccessBound
  <2>2. PICK extras : extras = RequestedExtras(GroupOf(active, p.name))
    OBVIOUS
  <2>3. p.used = {a.id} /\ Usable(a)
    BY <1>8, <2>1, <2>2, SelectedWheel
  <2>4. ASSUME case.builtin PROVE [id |-> a.id, bytes |-> "inspected"] \in staged
    <3>1. AllStaged
      BY <1>6, <2>4 DEF Staging, StagedWhole
    <3>2. PICK s \in staged : s.id = a.id
      BY <3>1 DEF AllStaged, ArtifactsOf
    <3>3. PICK b \in inventory : s = [id |-> b.id, bytes |-> "inspected"]
      BY DEF Staging
    <3>4. QED
      BY <3>2, <3>3
  <2>5. QED
    BY <2>3, <2>4
<1>9. ASSUME NEW r \in GroupOf(active, p.name) PROVE Accepts(r, p.version)
  <2>1. p.name \in NamesOf(active)
    BY DEF GroupOf, NamesOf
  <2>2. PICK q \in result.packages :
           q.name = p.name /\ PackageMeetsVersions(q, GroupOf(active, p.name), inventory)
    BY <1>6, <2>1 DEF SuccessBound, SatisfiesRoot, Single
  <2>3. q = p
    BY <1>6, <2>2 DEF RepeatsName
  <2>4. PICK reqs : reqs = GroupOf(active, p.name)
    OBVIOUS
  <2>5. QED
    BY <2>2, <2>3, <2>4, PackageAccepts
<1>10. ASSUME NEW r \in rows[k].needs PROVE \E q \in result.packages : MetBy(q, r)
  <2>1. r \in Needs /\ r.name \in NamesOf(Needs) /\ r \in GroupOf(Needs, r.name)
    BY DEF Needs, NamesOf, GroupOf
  <2>2. PICK q \in result.packages :
           q.name = r.name /\ PackageMeetsVersions(q, GroupOf(Needs, r.name), inventory)
    BY <1>5, <2>1 DEF Single
  <2>3. PICK reqs : reqs = GroupOf(Needs, r.name)
    OBVIOUS
  <2>4. Accepts(r, q.version)
    BY <2>1, <2>2, <2>3, PackageAccepts
  <2>5. QED
    BY <2>2, <2>4 DEF MetBy
<1>11. QED
  BY <1>4, <1>7, <1>8, <1>9, <1>10 DEF CompatibleRow

LEMMA SameVerdicts ==
  ASSUME UNCHANGED <<case, inventory, active, staged, result, rows>>
  PROVE  \A k : (CompatibleRow(k)' <=> CompatibleRow(k)) /\ (ExcludedRow(k)' <=> ExcludedRow(k))
<1>1. \A a : (Usable(a)' <=> Usable(a)) /\ (Excludes(a)' <=> Excludes(a))
  BY DEF Usable, Excludes, Sources
<1>2. \A k : CompatibleRow(k)' <=> CompatibleRow(k)
  BY <1>1 DEF CompatibleRow, Selected
<1>3. \A k : ExcludedRow(k)' <=> ExcludedRow(k)
  BY <1>1 DEF ExcludedRow
<1>4. QED
  BY <1>2, <1>3

LEMMA VerdictsKept ==
  ASSUME Given, Read, Staging, Sound, Listed, Verdicts, [Next]_vars PROVE Verdicts'
<1> USE DEF Verdicts, Early, Judged
<1>1. CASE Before \/ Refusal
  BY <1>1 DEF Before, Refusal
<1>2. CASE Validate \/ Group \/ Seed \/ AssessSample \/ Judge
  BY <1>2 DEF Validate, Group, Seed, AssessSample, Judge
<1>3. ASSUME NEW k \in pending, AssessNext(k) PROVE Verdicts'
  BY <1>3 DEF AssessNext
<1>4. CASE Close
  <2>1. pc = "close" /\ UNCHANGED <<case, inventory, active, staged>>
    BY <1>4 DEF Close, inputs, adapterVars
  <2>2. CASE Selected(result) => ClosureHolds
    <3>1. UNCHANGED <<case, inventory, active, staged, result, rows>>
      BY <1>4, <2>1, <2>2 DEF Close
    <3>2. \A k \in DOMAIN rows :
             /\ rows[k].status = "compatible" => CompatibleRow(k)
             /\ rows[k].status = "declared-incompatible" => ExcludedRow(k)
      BY <2>1, <2>2, CompatibleRows, ExcludedRows
    <3>3. QED
      BY <3>1, <3>2, SameVerdicts
  <2>3. CASE ~(Selected(result) => ClosureHolds)
    <3>1. rows' = [k \in DOMAIN rows |->
                     [rows[k] EXCEPT !.status = WithClosure(rows[k].status, FALSE)]]
      BY <1>4, <2>3 DEF Close
    <3>2. ASSUME NEW k \in DOMAIN rows
          PROVE  /\ rows'[k].status = WithClosure(rows[k].status, FALSE)
                 /\ rows[k].status = "declared-incompatible" => ExcludedRow(k)
      BY <2>1, <3>1, RowStands, ExcludedRows
    <3>3. \A a : Excludes(a)' <=> Excludes(a)
      BY <2>1 DEF Excludes, Sources
    <3>4. \A k : ExcludedRow(k)' <=> ExcludedRow(k)
      BY <2>1, <3>3 DEF ExcludedRow
    <3>5. ASSUME NEW k \in DOMAIN rows'
          PROVE  /\ rows'[k].status # "compatible"
                 /\ rows'[k].status = "declared-incompatible" => ExcludedRow(k)
      <4>1. k \in DOMAIN rows
        BY <3>1, <3>5
      <4>2. PICK status : status = rows[k].status
        OBVIOUS
      <4>3. WithClosure(status, FALSE) # "compatible"
            /\ (WithClosure(status, FALSE) = "declared-incompatible" => status = "declared-incompatible")
        BY DEF WithClosure
      <4>4. QED
        BY <3>2, <4>1, <4>2, <4>3
    <3>6. QED
      BY <3>4, <3>5
  <2>4. QED
    BY <2>2, <2>3
<1>5. ASSUME UNCHANGED <<case, inventory, active, staged, result, rows>>, pc \in Judged
      PROVE  Verdicts'
  BY <1>5, SameVerdicts
<1>6. CASE Correlating
  BY <1>5, <1>6 DEF Correlating, inputs, adapterVars
<1>7. CASE UNCHANGED vars
  <2>1. UNCHANGED <<case, inventory, active, staged, result, rows, pc>>
    BY <1>7 DEF vars
  <2>2. QED
    BY <1>5, <2>1
<1>8. QED
  BY <1>1, <1>2, <1>3, <1>4, <1>6, <1>7, ReportKinds

-----------------------------------------------------------------------------
(* Success.                                                                 *)

LEMMA SelectionKept ==
  ASSUME Given, Listed, Selection, [Next]_vars PROVE Selection'
<1> USE DEF Selection, Early, Judged
<1>0. Listed'
  BY ListedKept
<1>1. CASE Before \/ Validate \/ Group \/ Refusal
  BY <1>1 DEF Before, Validate, Group, Refusal
<1>2. CASE Seed
  <2>1. UNCHANGED <<case, active, groups, result>> /\ pc' = "assess"
    BY <1>2 DEF Seed, inputs
  <2>2. \A k \in DOMAIN groups : extrasOf'[k] = InitialExtras(k, groups[k])
    BY <1>2 DEF Seed
  <2>3. \A k, group : InitialExtras(k, group)' = InitialExtras(k, group')
    BY <2>1 DEF InitialExtras, MatchingRoots
  <2>4. result.status = "not-requested" => pending' = DOMAIN groups
    BY <1>2 DEF Seed, Selected
  <2>5. \A k \in DOMAIN groups' : InitialExtras(k, groups[k])' \subseteq extrasOf'[k]
    BY <2>1, <2>2 DEF InitialExtras, MatchingRoots
  <2>6. QED
    BY <2>1, <2>4, <2>5
<1>3. CASE AssessSample
  BY <1>3 DEF AssessSample, Listed, inputs
<1>4. ASSUME NEW k \in pending, AssessNext(k) PROVE Selection'
  <2>1. UNCHANGED <<case, active, groups, result, pc>> /\ pc = "assess"
    BY <1>4 DEF AssessNext, inputs
  <2> DEFINE requests == [j \in DOMAIN groups |-> Requesters(Assess(groups[k], extrasOf[k]), j)]
  <2>2. /\ extrasOf' = [j \in DOMAIN groups |-> extrasOf[j] \cup RequestedExtras(requests[j])]
        /\ DOMAIN assessed' = DOMAIN assessed \cup {k}
        /\ pending' = (pending \ {k}) \cup Requeue(k, requests)
    BY <1>4 DEF AssessNext, Record
  <2> HIDE DEF requests
  <2>3. \A j \in DOMAIN groups : extrasOf[j] \subseteq extrasOf'[j]
    BY <2>2
  <2>4. DOMAIN assessed \cup pending \subseteq DOMAIN assessed' \cup pending'
    BY <2>2
  <2>5. \A j : InitialExtras(j, groups[j])' = InitialExtras(j, groups[j])
    BY <2>1 DEF InitialExtras, MatchingRoots
  <2>6. QED
    BY <2>1, <2>3, <2>4, <2>5
<1>5. ASSUME UNCHANGED <<case, active, groups, extrasOf, assessed, pending>>,
             result'.status = "not-requested" => result.status = "not-requested",
             pc \in {"assess", "close"} \cup Judged, case.roots # {}
      PROVE  /\ \A k \in DOMAIN groups' : InitialExtras(k, groups[k])' \subseteq extrasOf'[k]
             /\ result'.status = "not-requested" => DOMAIN groups' \subseteq DOMAIN assessed' \cup pending'
  <2>1. \A j : InitialExtras(j, groups[j])' = InitialExtras(j, groups[j])
    BY <1>5 DEF InitialExtras, MatchingRoots
  <2>2. QED
    BY <1>5, <2>1
<1>6. CASE Judge
  <2>1. UNCHANGED <<case, active, groups, extrasOf, assessed, pending, result>> /\ pc = "assess" /\ pc' = "close"
    BY <1>6 DEF Judge, inputs, worklistVars
  <2>2. QED
    BY <1>5, <2>1
<1>7. ASSUME UNCHANGED <<case, inventory, active, result, groups, assessed, rows>>,
             groups = Grouping, rows = Rows, Selected(result) => ClosureHolds
      PROVE  groups' = Grouping' /\ rows' = Rows' /\ (Selected(result)' => ClosureHolds')
  <2>1. Grouping' = Grouping
    BY <1>7 DEF Grouping, Candidates, Cited
  <2>2. Rows' = Rows
    BY <1>7, SameRows
  <2>3. Needs' = Needs
    BY <1>7 DEF Needs
  <2>4. ClosureHolds => ClosureHolds'
    BY <1>7, <2>3 DEF ClosureHolds
  <2>5. QED
    BY <1>7, <2>1, <2>2, <2>4 DEF Selected
<1>8. CASE Close
  <2>1. UNCHANGED <<case, inventory, active, groups, extrasOf, assessed, pending>> /\ pc = "close" /\ pc' = "correlate"
    BY <1>8 DEF Close, inputs, worklistVars
  <2>2. evidence' \subseteq inventory
    BY <1>8 DEF Close, SemanticArtifacts, EvidenceArtifacts
  <2>3. CASE Selected(result) => ClosureHolds
    <3>1. UNCHANGED <<result, rows>>
      BY <1>8, <2>3 DEF Close
    <3>2. groups = Grouping /\ rows = Rows
      BY <2>1 DEF Listed
    <3>3. groups' = Grouping' /\ rows' = Rows' /\ (Selected(result)' => ClosureHolds')
      BY <1>7, <2>1, <2>3, <3>1, <3>2
    <3>4. QED
      BY <1>5, <2>1, <2>2, <3>1, <3>3
  <2>4. CASE ~(Selected(result) => ClosureHolds)
    <3>1. PICK r : r = result
      OBVIOUS
    <3>2. result' = Lower(r) /\ r.status = "succeeded"
      BY <1>8, <2>4, <3>1 DEF Close, Lower, Selected
    <3>3. result'.status = "unverified"
      BY <3>2 DEF Lower
    <3>4. QED
      BY <1>5, <2>1, <2>2, <3>3
  <2>5. QED
    BY <2>3, <2>4
<1>9. ASSUME UNCHANGED <<inputs, active, result, worklistVars, rows, evidence>>,
             pc \in {"assess", "close"} \cup Judged, pc' \in Judged => pc \in Judged
      PROVE  Selection'
  BY <1>5, <1>7, <1>9 DEF inputs, worklistVars
<1>10. CASE Correlating
  BY <1>9, <1>10 DEF Correlating
<1>11. CASE UNCHANGED vars
  <2>1. UNCHANGED <<inputs, active, result, worklistVars, rows, evidence, pc>>
    BY <1>11 DEF vars, inputs, worklistVars
  <2>2. CASE pc \in {"assess", "close"} \cup Judged
    BY <1>9, <2>1, <2>2
  <2>3. CASE pc \notin {"assess", "close"} \cup Judged
    BY <2>1, <2>3
  <2>4. QED
    BY <2>2, <2>3
<1>12. QED
  BY <1>1, <1>2, <1>3, <1>4, <1>6, <1>8, <1>10, <1>11, ReportKinds

\* A step that does not end the correlation, the verdict or the report.
Earlier ==
    /\ pc' \in Phases \ {"transitive", "exit", "report", "written", "rejected"}
    /\ exit' = exit /\ ~Reported

LEMMA LastKinds ==
  ASSUME Next
  PROVE  Earlier \/ CorrelateRoots \/ CorrelateNeeds \/ Exit \/ WriteJson
<1> USE DEF Earlier, Phases, Early, Judged, Answered, Reported, reportVars
<1>1. CASE Before
  BY <1>1 DEF Before
<1>2. CASE Validate \/ Group \/ Seed \/ AssessSample \/ Judge \/ Close
  BY <1>2 DEF Validate, Group, Seed, AssessSample, Judge, Close
<1>3. ASSUME NEW k \in pending, AssessNext(k) PROVE Earlier
  BY <1>3 DEF AssessNext
<1>4. CASE Exhaust
  BY <1>4 DEF Exhaust
<1>5. ASSUME NEW setup \in setups, Configure(setup) PROVE Earlier
  BY <1>5 DEF Configure
<1>6. ASSUME InspectFile \/ InspectionFails \/ Inspected \/ EvaluateRoots PROVE Earlier
  BY <1>6 DEF InspectFile, InspectionFails, Inspected, EvaluateRoots
<1>7. ASSUME NoResolution \/ AskInjected \/ EnterAdapter \/ Decline \/ Accept PROVE Earlier
  BY <1>7 DEF NoResolution, AskInjected, EnterAdapter, Decline, Accept, Answer
<1>8. ASSUME NEW a \in inventory, Stage(a) \/ Rewrite(a) PROVE Earlier
  BY <1>8 DEF Stage, Rewrite, Copy, Answer
<1>9. ASSUME Probe \/ ProbeFails \/ CompileSucceeds \/ CompileFails \/ CompileBreaks PROVE Earlier
  BY <1>9 DEF Probe, ProbeFails, CompileSucceeds, CompileFails, CompileBreaks, Answer
<1>10. QED
  BY <1>2, <1>3, <1>4, <1>5, <1>6, <1>7, <1>8, <1>9 DEF Next, Pipeline

\* The verdicts are drawn from what does not change any more.
LEMMA SameCorrelation ==
  ASSUME UNCHANGED <<case, inventory, active, result, groups, assessed, rows, evidence>>
  PROVE  RootsVerified' = RootsVerified /\ NeedsVerified' = NeedsVerified
<1>2. EvidenceArtifacts(evidence)' = EvidenceArtifacts(evidence)
  BY DEF EvidenceArtifacts, Selected, Cited
<1>3. \A reqs : MeetingPackages(reqs)' = MeetingPackages(reqs)
  BY DEF MeetingPackages
<1>4. ASSUME NEW n
      PROVE  RootVerified(n, GroupOf(active, n),
                 MeetingVersions(EvidenceArtifacts(evidence), GroupOf(active, n)))'
             = RootVerified(n, GroupOf(active, n),
                 MeetingVersions(EvidenceArtifacts(evidence), GroupOf(active, n)))
  BY <1>2, <1>3 DEF RootVerified, Selected
<1>5. RootsVerified' = RootsVerified
  BY <1>4 DEF RootsVerified
<1>6. Needs' = Needs
  BY DEF Needs
<1>7. ASSUME NEW n
      PROVE  NeedVerified(GroupOf(Needs, n), GroupOf(active, n),
                 MatchingMetadata(EvidenceArtifacts(evidence),
                     GroupOf(Needs, n) \cup
                         (IF case.kind = "library" THEN {} ELSE GroupOf(active, n))))'
             = NeedVerified(GroupOf(Needs, n), GroupOf(active, n),
                 MatchingMetadata(EvidenceArtifacts(evidence),
                     GroupOf(Needs, n) \cup
                         (IF case.kind = "library" THEN {} ELSE GroupOf(active, n))))
  BY <1>2, <1>3, <1>6 DEF NeedVerified, MeetsLock, Selected
<1>8. NeedsVerified' = NeedsVerified
  BY <1>6, <1>7 DEF NeedsVerified
<1>9. QED
  BY <1>5, <1>8

LEMMA CorrelatedKept ==
  ASSUME Given, Correlated, [Next]_vars PROVE Correlated'
<1> USE DEF Correlated, Judged
<1>1. CASE Earlier
  BY <1>1 DEF Earlier, Phases, Early, Answered
<1>2. ASSUME UNCHANGED <<inputs, active, adapterVars, result, worklistVars, rows, evidence>>
      PROVE  /\ RootsVerified' = RootsVerified /\ NeedsVerified' = NeedsVerified
             /\ declared' = declared /\ transitive' = transitive =>
                    Incomplete' = Incomplete /\ Incompatible' = Incompatible
  <2>1. UNCHANGED <<case, inventory, active, result, groups, assessed, rows, evidence, issues>>
    BY <1>2 DEF inputs, worklistVars
  <2>2. QED
    BY <2>1, SameCorrelation DEF Incomplete, Incompatible, Statuses
<1>3. CASE CorrelateRoots
  <2>1. declared' = RootsVerified /\ UNCHANGED <<inputs, active, adapterVars, result, worklistVars, rows, evidence>>
    BY <1>3 DEF CorrelateRoots, RootsVerified
  <2>2. pc' = "transitive" /\ exit' = exit /\ exit # "success"
    BY <1>3 DEF CorrelateRoots, Reported
  <2>3. QED
    BY <1>2, <2>1, <2>2
<1>4. CASE CorrelateNeeds
  <2>1. transitive' = NeedsVerified /\ UNCHANGED <<inputs, active, adapterVars, result, worklistVars, rows, evidence>>
    BY <1>4 DEF CorrelateNeeds, NeedsVerified
  <2>2. pc' = "exit" /\ exit' = exit /\ exit # "success" /\ declared' = declared /\ declared = RootsVerified
    BY <1>4 DEF CorrelateNeeds, Reported
  <2>3. QED
    BY <1>2, <2>1, <2>2
<1>5. CASE Exit
  <2>1. UNCHANGED <<inputs, active, adapterVars, result, worklistVars, rows, evidence, declared, transitive>>
    BY <1>5 DEF Exit
  <2>2. pc = "exit" /\ pc' = "report" /\ (exit' = "success" => ~Incomplete /\ ~Incompatible)
    BY <1>5 DEF Exit
  <2>3. QED
    BY <1>2, <2>1, <2>2 DEF Reported
<1>6. CASE WriteJson
  <2>1. UNCHANGED <<inputs, active, adapterVars, result, worklistVars, rows, evidence, declared, transitive, exit>>
    BY <1>6 DEF WriteJson, reportVars
  <2>2. pc = "report" /\ pc' \in {"written", "rejected"}
    BY <1>6 DEF WriteJson
  <2>3. QED
    BY <1>2, <2>1, <2>2 DEF Reported
<1>7. CASE UNCHANGED vars
  <2>1. UNCHANGED <<inputs, active, adapterVars, result, worklistVars, rows, evidence, declared, transitive, exit, pc>>
    BY <1>7 DEF vars, inputs, adapterVars, worklistVars
  <2>2. QED
    BY <1>2, <2>1 DEF Reported
<1>8. QED
  BY <1>1, <1>3, <1>4, <1>5, <1>6, <1>7, LastKinds

\* A selected package whose one wheel meets a group of requirements.
Supplied(p, a, reqs) ==
    /\ p \in result.packages /\ a \in inventory /\ a.id \in p.used /\ ArtifactsOf(p, inventory) = {a}
    /\ Key(a) = KeyOf(p.name, p.version)
    /\ Usable(a) /\ ArtifactMeets(a, reqs)

LEMMA SuppliedMeets ==
  ASSUME NEW p, NEW a, NEW reqs, Supplied(p, a, reqs), NEW r \in reqs
  PROVE  /\ MetBy(p, r) /\ Provides(p, r.extras)
         /\ r.extras \subseteq a.extras /\ "provides-extra" \notin a.dynamic
<1>1. a.name = p.name /\ a.version = p.version /\ ArtifactMeets(a, reqs)
  BY DEF Supplied, Key, KeyOf
<1>2. r.name = a.name /\ Accepts(r, a.version)
  BY <1>1 DEF ArtifactMeets, ArtifactMeetsVersions, NamesOf, AcceptedByAll
<1>3. r.extras \subseteq a.extras /\ "provides-extra" \notin a.dynamic
  BY <1>1 DEF ArtifactMeets, RequestedExtras
<1>4. QED
  BY <1>1, <1>2, <1>3 DEF MetBy, Provides, Supplied

\* The one wheel of a package of a selection.
LEMMA WheelOf ==
  ASSUME Given, Read, Sound, pc \in Judged, Selected(result), NEW p \in result.packages,
         NEW a \in ArtifactsOf(p, inventory)
  PROVE  /\ a \in inventory /\ a.id \in p.used /\ ArtifactsOf(p, inventory) = {a} /\ Usable(a)
         /\ Key(a) = KeyOf(p.name, p.version)
         /\ Used(ArtifactsOf(p, inventory)) = {a} /\ Semantic(ArtifactsOf(p, inventory)) = {a}
<1>1. TargetBound(p, Assess(ArtifactsOf(p, inventory), RequestedExtras(GroupOf(active, p.name))))
  BY DEF Sound, Answered, Checked, Selected, SuccessBound
<1>2. PICK extras : extras = RequestedExtras(GroupOf(active, p.name))
  OBVIOUS
<1>3. pc \notin {"configure", "refused"}
  BY DEF Judged
<1>4. /\ p.used = {a.id} /\ Usable(a) /\ ArtifactsOf(p, inventory) = {a}
      /\ Used(ArtifactsOf(p, inventory)) = {a} /\ Semantic(ArtifactsOf(p, inventory)) = {a}
  BY <1>1, <1>2, <1>3, SelectedWheel
<1>5. Key(a) = KeyOf(p.name, p.version) /\ a \in inventory
  BY <1>1 DEF TargetBound, IsBound, ArtifactsOf
<1>6. QED
  BY <1>4, <1>5

LEMMA PackageSupplies ==
  ASSUME Given, Read, Sound, pc \in Judged, Selected(result), NEW reqs,
         NEW artifacts, artifacts \subseteq inventory,
         NEW p \in result.packages, PackageMeets(p, reqs, artifacts)
  PROVE  \E a : Supplied(p, a, reqs)
<1>1. PICK a \in artifacts : a.id \in p.used
  BY DEF PackageMeets, IsBound
<1>2. a \in ArtifactsOf(p, artifacts) /\ a \in ArtifactsOf(p, inventory)
  BY <1>1 DEF ArtifactsOf
<1>3. ArtifactMeets(a, reqs)
  BY <1>2 DEF PackageMeets
<1>4. QED
  BY <1>2, <1>3, WheelOf DEF Supplied

LEMMA MetadataSupplies ==
  ASSUME Given, Read, Sound, pc \in Judged, Selected(result), NEW reqs,
         NEW artifacts, artifacts \subseteq Cited, MatchingMetadata(artifacts, reqs) # {}
  PROVE  \E p, a : Supplied(p, a, reqs)
<1>1. PICK a \in artifacts : ArtifactMeets(a, reqs)
  BY DEF MatchingMetadata
<1>2. PICK p \in result.packages : a \in inventory /\ a.id \in p.used
  BY <1>1 DEF Cited
<1>3. a \in ArtifactsOf(p, inventory)
  BY <1>2 DEF ArtifactsOf
<1>4. QED
  BY <1>1, <1>3, WheelOf DEF Supplied

LEMMA RootSupplied ==
  ASSUME Given, Read, Sound, Selection, pc \in Judged, Selected(result),
         declared = RootsVerified, NEW n \in NamesOf(active), declared[n]
  PROVE  \E p, a : Supplied(p, a, GroupOf(active, n))
<1> DEFINE g == GroupOf(active, n)
<1>1. RootVerified(n, g, MeetingVersions(EvidenceArtifacts(evidence), g))
  BY DEF RootsVerified
<1>2. PICK versions : RootVerified(n, g, versions)
  BY <1>1
<1>3. result.status = "succeeded" /\ result.complete
  BY DEF Selected
<1>4. MatchingMetadata(EvidenceArtifacts(evidence), g) # {} \/ MeetingPackages(g) # {}
  BY <1>2, <1>3 DEF RootVerified
<1> HIDE DEF g
<1>5. evidence \subseteq inventory /\ EvidenceArtifacts(evidence) \subseteq Cited
  BY DEF Selection, EvidenceArtifacts
<1>6. CASE MatchingMetadata(EvidenceArtifacts(evidence), g) # {}
  <2>1. PICK artifacts : artifacts = EvidenceArtifacts(evidence)
    OBVIOUS
  <2>2. \E p, a : Supplied(p, a, g)
    BY <1>5, <1>6, <2>1, MetadataSupplies
  <2>3. QED
    BY <2>2 DEF g
<1>7. CASE MeetingPackages(g) # {}
  <2>1. PICK p \in result.packages : PackageMeets(p, g, evidence)
    BY <1>7 DEF MeetingPackages
  <2>2. PICK artifacts : artifacts = evidence
    OBVIOUS
  <2>3. \E a : Supplied(p, a, g)
    BY <1>5, <2>1, <2>2, PackageSupplies
  <2>4. QED
    BY <2>3 DEF g
<1>8. QED
  BY <1>4, <1>6, <1>7

LEMMA NeedSupplied ==
  ASSUME Given, Read, Sound, Selection, pc \in Judged, Selected(result),
         transitive = NeedsVerified, NEW n \in NamesOf(Needs), transitive[n]
  PROVE  \E p, a : Supplied(p, a, GroupOf(Needs, n))
<1> DEFINE g == GroupOf(Needs, n)
           more == g \cup (IF case.kind = "library" THEN {} ELSE GroupOf(active, n))
           matching == MatchingMetadata(EvidenceArtifacts(evidence), more)
<1>1. NeedVerified(g, GroupOf(active, n), matching)
  BY DEF NeedsVerified
<1>2. g # {} /\ \A r \in g : r.name = n
  BY DEF NamesOf, GroupOf
<1>3. g \subseteq more
  OBVIOUS
<1> HIDE DEF g, more
<1>4. MeetingPackages(g) # {} \/ matching # {}
  BY <1>1 DEF NeedVerified, Single
<1>5. evidence \subseteq inventory /\ EvidenceArtifacts(evidence) \subseteq Cited
  BY DEF Selection, EvidenceArtifacts
<1>6. CASE matching # {}
  <2>1. PICK artifacts : artifacts = EvidenceArtifacts(evidence)
    OBVIOUS
  <2>2. PICK p, a : Supplied(p, a, more)
    BY <1>5, <1>6, <2>1, MetadataSupplies
  <2>3. ArtifactMeets(a, more) => ArtifactMeets(a, g)
    <3>1. RequestedExtras(g) \subseteq RequestedExtras(more)
      BY <1>3 DEF RequestedExtras
    <3>2. NamesOf(more) = {a.name} => NamesOf(g) = {a.name}
      BY <1>2, <1>3 DEF NamesOf
    <3>3. AcceptedByAll(more, a.version) => AcceptedByAll(g, a.version)
      BY <1>3 DEF AcceptedByAll
    <3>4. QED
      BY <1>2, <3>1, <3>2, <3>3 DEF ArtifactMeets, ArtifactMeetsVersions
  <2>4. Supplied(p, a, g)
    BY <2>2, <2>3 DEF Supplied
  <2>5. QED
    BY <2>4 DEF g
<1>7. CASE MeetingPackages(g) # {}
  <2>1. PICK p \in result.packages : PackageMeets(p, g, evidence)
    BY <1>7 DEF MeetingPackages
  <2>2. PICK artifacts : artifacts = evidence
    OBVIOUS
  <2>3. \E a : Supplied(p, a, g)
    BY <1>5, <2>1, <2>2, PackageSupplies
  <2>4. QED
    BY <2>3 DEF g
<1>8. QED
  BY <1>4, <1>6, <1>7

\* What a wheel alone is assessed with, when nothing is unsure.
LEMMA NeedsOfOne ==
  ASSUME NEW a, NEW used, used = {a}, NEW availability, NEW extras,
         AssessUsed(used, availability, extras).status # "unverified"
  PROVE  AssessUsed(used, availability, extras).needs = NeedsOf(a, extras)
<1> DEFINE static == {b \in used : "requires-dist" \notin b.dynamic}
           edges == {NeedsOf(b, extras) : b \in static}
           unreadable == \E b \in static : \E r \in b.needs : ~Evaluable(r)
<1>1. AssessUsed(used, availability, extras) =
        [used |-> {b.id : b \in used}, python |-> PythonStatus(used), availability |-> availability,
         needs |-> IF unreadable \/ Cardinality(edges) # 1 THEN {} ELSE UNION edges,
         status |-> IF unreadable \/ static # used \/ Cardinality(edges) > 1
                    THEN "unverified" ELSE Outcome(PythonStatus(used), availability)]
  BY DEF AssessUsed
<1>2. ~unreadable /\ static = used
  BY <1>1
<1>3. edges = {NeedsOf(a, extras)}
  BY <1>2
<1>4. Cardinality(edges) = 1
  BY <1>3, FS_Singleton
<1>5. UNION edges = NeedsOf(a, extras)
  BY <1>3
<1>6. AssessUsed(used, availability, extras).needs =
        IF unreadable \/ Cardinality(edges) # 1 THEN {} ELSE UNION edges
  BY <1>1
<1>7. QED
  BY <1>2, <1>4, <1>5, <1>6

\* The row of a selected package says what its wheel needs under all the extras
\* asked of it.
LEMMA SelectedRow ==
  ASSUME Given, Read, Sound, Listed, Propagated, Selection, pc \in Judged, Selected(result),
         \A j \in DOMAIN rows : rows[j].status = "compatible",
         NEW p \in result.packages, NEW a \in ArtifactsOf(p, inventory),
         NEW k, k = KeyOf(p.name, p.version)
  PROVE  /\ k \in DOMAIN rows /\ k \in DOMAIN groups /\ k \in DOMAIN assessed
         /\ groups[k] = {a} /\ Semantic(groups[k]) = {a}
         /\ rows[k].needs = NeedsOf(a, extrasOf[k])
<1>1. /\ groups = Grouping /\ rows = Rows /\ ClosureHolds /\ pending = {}
      /\ DOMAIN assessed \subseteq DOMAIN groups
      /\ \A j \in DOMAIN assessed : RowOf(assessed[j], groups[j])
  BY DEF Selection, Listed, Selected, Judged
<1>2. Checked(result) /\ case.roots # {} /\ ~RepeatsName(result.packages)
  BY DEF Sound, Answered, Checked, Selected, Given
<1>3. k \in DOMAIN rows /\ DOMAIN rows = DOMAIN assessed
  BY <1>1 DEF ClosureHolds, Rows
<1>4. groups = GroupBy(Cited)
  BY <1>1, <1>2 DEF Grouping, Candidates
<1>5. /\ ArtifactsOf(p, inventory) = {a} /\ Key(a) = k
      /\ Used(ArtifactsOf(p, inventory)) = {a} /\ Semantic(ArtifactsOf(p, inventory)) = {a}
  BY WheelOf
<1>6. k \in {Key(b) : b \in Cited} /\ groups[k] = OfVersion(Cited, k)
  BY <1>1, <1>3, <1>4, GroupDomain
<1>7. groups[k] = ArtifactsOf(p, inventory)
  <2>1. PICK q \in result.packages :
           KeyOf(q.name, q.version) = k /\ OfVersion(Cited, k) = ArtifactsOf(q, inventory)
    BY <1>2, <1>6, SelectedGroup
  <2>2. q = p
    BY <1>2, <2>1 DEF RepeatsName, KeyOf
  <2>3. QED
    BY <1>6, <2>1, <2>2
<1>8. assessed[k] = Assess(groups[k], extrasOf[k])
  BY <1>1, <1>2, <1>3 DEF Propagated
<1>9. PICK row : row = assessed[k]
  OBVIOUS
<1>10. rows[k].needs = row.needs /\ (rows[k].status = "compatible" => row.status # "unverified")
  <2>1. RowOf(row, groups[k])
    BY <1>1, <1>3, <1>9
  <2>2. PICK verdict : verdict = Verdict(k, row.status)
    OBVIOUS
  <2>3. rows[k] = [row EXCEPT !.status = verdict]
    BY <1>1, <1>3, <1>9, <2>2 DEF Rows
  <2>4. [row EXCEPT !.status = verdict].status = verdict /\ [row EXCEPT !.status = verdict].needs = row.needs
    BY <2>1 DEF RowOf
  <2>5. verdict = "compatible" => row.status # "unverified"
    BY <2>2 DEF Verdict, WithClosure
  <2>6. QED
    BY <2>3, <2>4, <2>5
<1>11. PICK used, availability, extras :
          used = Used(groups[k]) /\ availability = Availability(groups[k]) /\ extras = extrasOf[k]
  OBVIOUS
<1>12. row = AssessUsed(used, availability, extras) /\ used = {a}
  BY <1>5, <1>7, <1>8, <1>9, <1>11 DEF Assess
<1>13. row.needs = NeedsOf(a, extras)
  BY <1>3, <1>10, <1>12, NeedsOfOne
<1>14. QED
  BY <1>1, <1>3, <1>5, <1>7, <1>10, <1>11, <1>13

\* What holds when the exit code is 0 and something was selected.
Successful ==
    /\ Given /\ Read /\ Sound /\ Listed /\ Propagated /\ Selection
    /\ pc \in Judged /\ Selected(result)
    /\ declared = RootsVerified /\ transitive = NeedsVerified
    /\ \A n \in DOMAIN declared : declared[n]
    /\ \A n \in DOMAIN transitive : transitive[n]
    /\ \A k \in DOMAIN rows : rows[k].status = "compatible"

\* A package's one wheel supplies whatever the roots or needs of its name ask.
LEMMA SamePackage ==
  ASSUME Successful, NEW p \in result.packages, NEW a \in ArtifactsOf(p, inventory),
         NEW q, NEW b, NEW reqs, Supplied(q, b, reqs), NEW r \in reqs, r.name = p.name
  PROVE  q = p /\ b = a
<1>1. MetBy(q, r) /\ q \in result.packages /\ ArtifactsOf(q, inventory) = {b}
  BY SuppliedMeets DEF Supplied
<1>2. q.name = p.name
  BY <1>1 DEF MetBy
<1>3. ~RepeatsName(result.packages)
  BY DEF Successful, Sound, Answered, Checked, Selected
<1>4. QED
  BY <1>1, <1>2, <1>3 DEF RepeatsName

\* Every extra that is asked of a selected version was heard when its needs were read.
LEMMA ExtrasHeard ==
  ASSUME Successful, NEW p \in result.packages, NEW a \in ArtifactsOf(p, inventory),
         NEW k, k = KeyOf(p.name, p.version)
  PROVE  WantedExtras(p, active \cup Needs) \subseteq extrasOf[k]
<1>1. SUFFICES ASSUME NEW r \in active \cup Needs, MetBy(p, r), NEW x \in r.extras
               PROVE  x \in extrasOf[k]
  BY DEF WantedExtras
<1>2. /\ k \in DOMAIN rows /\ k \in DOMAIN groups /\ k \in DOMAIN assessed
      /\ groups[k] = {a} /\ Semantic(groups[k]) = {a}
  BY SelectedRow DEF Successful
<1>3. NameOfKey(k) = p.name /\ VersionOfKey(k) = p.version
  BY DEF NameOfKey, VersionOfKey, KeyOf
<1>4. r.name = p.name /\ Accepts(r, p.version)
  BY <1>1 DEF MetBy
<1>5. case.roots # {}
  BY DEF Successful, Sound, Answered, Checked, Selected, Given
<1>6. CASE r \in active
  <2>1. PICK reqs : reqs = GroupOf(active, r.name)
    OBVIOUS
  <2>2. r \in reqs /\ r.name \in NamesOf(active) /\ r.name \in DOMAIN declared
    BY <1>6, <2>1 DEF GroupOf, NamesOf, Successful, RootsVerified
  <2>3. PICK q, b : Supplied(q, b, reqs)
    BY <2>1, <2>2, RootSupplied DEF Successful
  <2>4. q = p /\ b = a
    BY <1>4, <2>2, <2>3, SamePackage
  <2>5. RequestedExtras(reqs) \subseteq a.extras /\ "provides-extra" \notin a.dynamic
    BY <2>3, <2>4 DEF Supplied, ArtifactMeets
  <2>6. r \in MatchingRoots(k)
    BY <1>3, <1>4, <1>6 DEF MatchingRoots, GroupOf
  <2>7. x \in RequestedExtras(MatchingRoots(k)) /\ x \in a.extras
    BY <2>2, <2>5, <2>6 DEF RequestedExtras
  <2>8. x \in InitialExtras(k, groups[k])
    BY <1>2, <2>5, <2>7 DEF InitialExtras
  <2>9. InitialExtras(k, groups[k]) \subseteq extrasOf[k]
    BY <1>2, <1>5 DEF Successful, Selection
  <2>10. QED
    BY <2>8, <2>9
<1>7. CASE r \in Needs
  <2>1. PICK reqs : reqs = GroupOf(Needs, r.name)
    OBVIOUS
  <2>2. r \in reqs /\ r.name \in NamesOf(Needs) /\ r.name \in DOMAIN transitive
    BY <1>7, <2>1 DEF GroupOf, NamesOf, Successful, NeedsVerified
  <2>3. PICK q, b : Supplied(q, b, reqs)
    BY <2>1, <2>2, NeedSupplied DEF Successful
  <2>4. q = p /\ b = a
    BY <1>4, <2>2, <2>3, SamePackage
  <2>5. r.extras \subseteq a.extras /\ "provides-extra" \notin a.dynamic
    BY <2>2, <2>3, <2>4, SuppliedMeets
  <2>6. a.name = p.name /\ a.version = p.version
    BY <2>3, <2>4 DEF Supplied, Key, KeyOf
  <2>7. ArtifactMeets(a, {r}) /\ ArtifactMeetsVersions(a, {r})
    <3>1. NamesOf({r}) = {a.name} /\ AcceptedByAll({r}, a.version) /\ RequestedExtras({r}) = r.extras
      BY <1>4, <2>6 DEF NamesOf, AcceptedByAll, RequestedExtras
    <3>2. QED
      BY <2>5, <3>1 DEF ArtifactMeets, ArtifactMeetsVersions
  <2>8. Eligible(r, groups[k])
    BY <1>2, <2>7 DEF Eligible
  <2>9. PICK j \in DOMAIN rows : r \in rows[j].needs
    BY <1>7 DEF Needs
  <2>10. j \in DOMAIN assessed /\ rows[j].needs = assessed[j].needs
    <3>1. rows = Rows
      BY DEF Successful, Selection, Selected
    <3>2. j \in DOMAIN assessed
      BY <3>1 DEF Rows
    <3>3. PICK row, verdict : row = assessed[j] /\ verdict = Verdict(j, assessed[j].status)
      OBVIOUS
    <3>4. RowOf(row, groups[j])
      BY <3>2, <3>3 DEF Successful, Listed
    <3>5. [row EXCEPT !.status = verdict].needs = row.needs
      BY <3>4 DEF RowOf
    <3>6. QED
      BY <3>1, <3>2, <3>3, <3>5 DEF Rows
  <2>11. r \in Requesters(assessed[j], k)
    BY <1>3, <1>4, <2>8, <2>9, <2>10 DEF Requesters
  <2>12. r.extras \subseteq extrasOf[k]
    BY <1>2, <1>5, <2>10, <2>11 DEF Successful, Propagated
  <2>13. QED
    BY <1>1, <2>12
<1>8. QED
  BY <1>1, <1>6, <1>7

\* Without a selection nothing is compatible, so that a root would be unmet.
LEMMA NoSelectionNoRoots ==
  ASSUME Given, Listed, Sound, Selection, Verdicts, pc \in Judged,
         result.status = "not-requested", declared = RootsVerified,
         \A n \in DOMAIN declared : declared[n],
         \A k \in DOMAIN rows : rows[k].status = "compatible"
  PROVE  active = {} /\ result.packages = {}
<1>1. ~Selected(result) /\ result.packages = {}
  BY DEF Selected, Sound, Answered, Checked
<1>2. DOMAIN rows = {}
  BY <1>1 DEF Verdicts, CompatibleRow
<1>3. ASSUME NEW r \in active PROVE FALSE
  <2> DEFINE g == GroupOf(active, r.name)
  <2>1. r.name \in NamesOf(active) /\ r.name \in DOMAIN declared
    BY DEF NamesOf, RootsVerified
  <2>2. RootVerified(r.name, g, MeetingVersions(EvidenceArtifacts(evidence), g))
    BY <2>1 DEF RootsVerified
  <2>3. PICK versions : RootVerified(r.name, g, versions)
    BY <2>2
  <2>4. MatchingMetadata(EvidenceArtifacts(evidence), g) # {}
    BY <1>1, <2>3 DEF RootVerified
  <2>5. PICK a \in inventory : ArtifactMeetsVersions(a, g)
    BY <2>4 DEF MatchingMetadata, EvidenceArtifacts, Selection
  <2>6. a.name = r.name
    BY <2>5 DEF ArtifactMeetsVersions, NamesOf, GroupOf
  <2>7. a \in DirectArtifacts(inventory, active)
    BY <2>5, <2>6 DEF DirectArtifacts
  <2>8. groups = GroupBy(DirectArtifacts(inventory, active)) /\ rows = Rows /\ case.roots # {}
    BY <1>1 DEF Selection, Grouping, Candidates, Given
  <2>9. Key(a) \in DOMAIN groups
    BY <2>7, <2>8, GroupDomain
  <2>10. Key(a) \in DOMAIN assessed /\ DOMAIN rows = DOMAIN assessed
    BY <2>8, <2>9 DEF Selection, Listed, Judged, Rows
  <2>11. QED
    BY <1>2, <2>10
<1>4. QED
  BY <1>1, <1>3

LEMMA SelectionInstallable ==
  ASSUME Successful,
         NEW r \in active \cup UNION {SelectionNeeds(p, active \cup Needs) : p \in result.packages}
  PROVE  \E p \in result.packages : MetBy(p, r) /\ Provides(p, r.extras)
<1>1. CASE r \in active
  <2>1. PICK reqs : reqs = GroupOf(active, r.name)
    OBVIOUS
  <2>2. r \in reqs /\ r.name \in NamesOf(active) /\ r.name \in DOMAIN declared
    BY <1>1, <2>1 DEF GroupOf, NamesOf, Successful, RootsVerified
  <2>3. PICK q, b : Supplied(q, b, reqs)
    BY <2>1, <2>2, RootSupplied DEF Successful
  <2>4. QED
    BY <2>2, <2>3, SuppliedMeets DEF Supplied
<1>2. CASE r \in Needs
  <2>1. PICK reqs : reqs = GroupOf(Needs, r.name)
    OBVIOUS
  <2>2. r \in reqs /\ r.name \in NamesOf(Needs) /\ r.name \in DOMAIN transitive
    BY <1>2, <2>1 DEF GroupOf, NamesOf, Successful, NeedsVerified
  <2>3. PICK q, b : Supplied(q, b, reqs)
    BY <2>1, <2>2, NeedSupplied DEF Successful
  <2>4. QED
    BY <2>2, <2>3, SuppliedMeets DEF Supplied
<1>3. CASE r \notin active
  <2>1. PICK p \in result.packages : r \in SelectionNeeds(p, active \cup Needs)
    BY <1>3
  <2>2. PICK a \in ArtifactsOf(p, inventory) :
           r \in a.needs /\ r.when \in {"always"} \cup WantedExtras(p, active \cup Needs)
    BY <2>1 DEF SelectionNeeds
  <2>3. PICK k : k = KeyOf(p.name, p.version)
    OBVIOUS
  <2>4. WantedExtras(p, active \cup Needs) \subseteq extrasOf[k]
    BY <2>3, ExtrasHeard
  <2>5. k \in DOMAIN rows /\ rows[k].needs = NeedsOf(a, extrasOf[k])
    BY <2>3, SelectedRow DEF Successful
  <2>6. r.when \in {"always"} \cup extrasOf[k]
    BY <2>2, <2>4
  <2>7. Applies(r, extrasOf[k])
    BY <2>6 DEF Applies
  <2>8. r \in rows[k].needs
    BY <2>2, <2>5, <2>7 DEF NeedsOf
  <2>9. r \in Needs
    BY <2>5, <2>8 DEF Needs
  <2>10. QED
    BY <1>2, <2>9
<1>4. QED
  BY <1>1, <1>3

LEMMA RowStatuses ==
  ASSUME Listed, pc \in Judged, rows = Rows, NEW k \in DOMAIN rows
  PROVE  rows[k].status \in Statuses5
<1>1. k \in DOMAIN assessed /\ RowOf(assessed[k], groups[k])
  BY DEF Rows, Listed
<1>2. PICK row, verdict : row = assessed[k] /\ verdict = Verdict(k, assessed[k].status)
  OBVIOUS
<1>3. \A python, availability : Outcome(python, availability) \in Statuses5
  BY DEF Outcome, Statuses5
<1>4. row.status \in Statuses5
  BY <1>1, <1>2, <1>3 DEF RowOf, Statuses5
<1>5. verdict \in Statuses5
  BY <1>2, <1>4 DEF Verdict, WithClosure, Statuses5
<1>6. [row EXCEPT !.status = verdict].status = verdict
  BY <1>1, <1>2 DEF RowOf
<1>7. QED
  BY <1>1, <1>2, <1>5, <1>6 DEF Rows

LEMMA Invariant == Spec => []IInv
<1>1. Init => IInv
  <2>1. Init => Listed /\ Propagated /\ Verdicts /\ Sound /\ Selection /\ Correlated
    BY Zenon DEF Init, Listed, Propagated, Verdicts, Sound, Selection, Correlated, Early, Judged, Answered, Nothing
  <2>2. QED
    BY <2>1, InitInvariant DEF IInv
<1>2. IInv /\ [Next]_vars => IInv'
  BY GivenKept, ReadKept, StagingKept, SoundKept, ListedKept, PropagatedKept, VerdictsKept,
     SelectionKept, CorrelatedKept DEF IInv
<1>3. QED
  BY <1>1, <1>2, PTL DEF Spec

\* A version is called compatible only when a completed resolution selected one
\* wheel of it that the declared interpreter runs, with the bytes that were
\* inspected, that every root accepts, and with a package for each of its needs.
THEOREM CompatibleSelected == Spec => []CompatibleIsSelected
<1>1. IInv => CompatibleIsSelected
  BY DEF IInv, Verdicts, CompatibleIsSelected, CompatibleRow, Reported, Judged
<1>2. QED
  BY <1>1, Invariant, PTL

\* A reported incompatibility is a fact about the inputs: no version meets a
\* failed group, no wheel an unavailable one, and all that could be installed
\* of an excluded version excludes the target's Python.
THEOREM NegativeReal == Spec => []NegativeIsReal
<1>1. ASSUME IInv, Reported PROVE NegativeIsReal
  <2>1. Given /\ Checked(result) /\ Verdicts /\ pc \in Judged
    BY <1>1 DEF IInv, Sound, Reported, Judged, Answered
  <2>2. ASSUME result.status = "resolution-failed", NEW n \in result.names, NEW v \in 0..99
        PROVE  ~AcceptedByAll(GroupOf(active, n), v)
    <3>1. n \in ConflictingNames(active)
      BY <2>1, <2>2 DEF Checked, Corroborated, Negative
    <3>2. PICK group : group = GroupOf(active, n)
      OBVIOUS
    <3>3. Contradicts(group) /\ group \in SUBSET AllRequirements
      BY <2>1, <3>1, <3>2 DEF ConflictingNames, GroupOf, Given
    <3>4. v \in Nat
      BY <2>2
    <3>5. QED
      BY <3>2, <3>3, <3>4, ContradictionReal
  <2>3. ASSUME result.status = "artifact-unavailable", NEW n \in result.names,
               NEW a \in MatchingWheels(inventory), ArtifactMeetsVersions(a, GroupOf(active, n))
        PROVE  FALSE
    <3>1. n \in UnavailableNames(active, inventory, case.kind)
      BY <2>1, <2>3 DEF Checked, Corroborated, Negative
    <3>2. PICK kind, reqs, artifacts : kind = case.kind /\ reqs = active /\ artifacts = inventory
      OBVIOUS
    <3>3. QED
      BY <2>3, <3>1, <3>2, UnavailableReal
  <2>4. \A k \in DOMAIN rows : rows[k].status = "declared-incompatible" => ExcludedRow(k)
    BY <2>1 DEF Verdicts
  <2>5. QED
    BY <2>2, <2>3, <2>4 DEF NegativeIsReal, ExcludedRow
<1>2. IInv => NegativeIsReal
  BY <1>1 DEF NegativeIsReal
<1>3. QED
  BY <1>2, Invariant, PTL

\* Exit code 0 means the roots can be installed: each root, and each entry the
\* selected wheels declare under the extras asked of them, is met by a selected
\* wheel that runs on the target and provides the extras asked for.
THEOREM SuccessInstallable == Spec => []SuccessIsInstallable
<1>1. ASSUME IInv, exit = "success" PROVE SuccessIsInstallable
  <2>1. /\ Given /\ Read /\ Sound /\ Listed /\ Propagated /\ Selection /\ Verdicts
        /\ pc \in Judged /\ declared = RootsVerified /\ transitive = NeedsVerified
        /\ ~Incomplete /\ ~Incompatible
    BY <1>1 DEF IInv, Correlated, Reported, Judged
  <2>2. /\ \A n \in DOMAIN declared : declared[n]
        /\ \A n \in DOMAIN transitive : transitive[n]
        /\ result.complete /\ result.status \notin {"timed-out", "unverified"} \cup Negative
    BY <2>1 DEF Incomplete, Incompatible
  <2>3. \A k \in DOMAIN rows : rows[k].status = "compatible"
    <3>1. \A k \in DOMAIN rows : rows[k].status \in Statuses5
      BY <2>1, <2>2, RowStatuses DEF Selection
    <3>2. QED
      BY <2>1, <3>1 DEF Incomplete, Incompatible, Statuses, Statuses5
  <2>4. result.status \in {"succeeded", "not-requested"}
    BY <2>1, <2>2 DEF Sound, Answered, Checked
  <2>5. CASE result.status = "succeeded"
    <3>1. Successful
      BY <2>1, <2>2, <2>3, <2>5 DEF Successful, Selected
    <3>2. QED
      BY <3>1, SelectionInstallable DEF SuccessIsInstallable
  <2>6. CASE result.status = "not-requested"
    <3>1. active = {} /\ result.packages = {}
      BY <2>1, <2>2, <2>3, <2>6, NoSelectionNoRoots
    <3>2. QED
      BY <3>1 DEF SuccessIsInstallable
  <2>7. QED
    BY <2>4, <2>5, <2>6
<1>2. IInv => SuccessIsInstallable
  BY <1>1 DEF SuccessIsInstallable
<1>3. QED
  BY <1>2, Invariant, PTL

-----------------------------------------------------------------------------
(* What an inspection may expand.                                           *)

LastOf(T) == CHOOSE x \in T : \A y \in T : x >= y
AnyOf(T) == CHOOSE x \in T : TRUE

SizeUpTo(seq, T, g) == IF T = {} THEN 0 ELSE g[T \ {LastOf(T)}] + seq[LastOf(T)].size
CostUpTo(T, g) ==
  IF T = {} THEN 0
  ELSE g[T \ {AnyOf(T)}] + Whole(case.files[AnyOf(T)])

LEMMA SizesAreFolds ==
  ASSUME NEW members, NEW S
  PROVE  /\ Sizes(members) =
              (CHOOSE g : g = [T \in SUBSET DOMAIN members |-> SizeUpTo(members, T, g)])[DOMAIN members]
         /\ CostOf(S) = (CHOOSE g : g = [T \in SUBSET S |-> CostUpTo(T, g)])[S]
  BY DEF Sizes, CostOf, FoldSet, FoldLeft, MapThenFoldSet, SizeUpTo, CostUpTo, LastOf, AnyOf,
         Max

\* A set of positions has a last and a first one.
LEMMA LastPosition ==
  ASSUME NEW n \in Nat, NEW T \in SUBSET (0..n), T # {}
  PROVE  Max(T) \in T /\ LastOf(T) \in T /\ Min(T) \in T
<1>1. \E m \in T : \A k \in T : m >= k
  <2>1. \E m \in T : \A k \in T : k <= m
    BY GreatestElement
  <2>2. \A m, k \in T : k <= m => m >= k
    OBVIOUS
  <2>3. QED
    BY <2>1, <2>2
<1>2. \E m \in T : \A k \in T : m <= k
  BY LeastElement
<1>3. QED
  BY <1>1, <1>2 DEF Max, LastOf, Min

LEMMA SizesCounted ==
  ASSUME NEW seq \in Seq(AllMembers)
  PROVE  Sizes(seq) \in Nat /\ (DOMAIN seq = {} => Sizes(seq) = 0)
<1> DEFINE S == DOMAIN seq
           f == [i \in S |-> seq[i].size]
           choice == [T \in SUBSET S |-> LastOf(T)]
<1>1. IsFiniteSet(S) /\ \A T \in SUBSET S : T # {} => LastOf(T) \in T
  <2>1. Len(seq) \in Nat /\ S = 1..Len(seq)
    OBVIOUS
  <2>2. IsFiniteSet(1..Len(seq))
    BY <2>1, FS_Interval
  <2>3. \A T \in SUBSET S : T \in SUBSET (0..Len(seq))
    BY <2>1
  <2> HIDE DEF S
  <2>4. QED
    BY <2>1, <2>2, <2>3, LastPosition
<1>2. f \in [S -> Nat]
  <2>1. \A i \in S : seq[i] \in AllMembers
    OBVIOUS
  <2>2. QED
    BY <2>1 DEF AllMembers
<1>3. \A T \in SUBSET S : T # {} => choice[T] \in T /\ choice[T] = LastOf(T)
  BY <1>1
<1>4. PICK p : SumsBy(p, f, S, choice)
  <2> HIDE DEF f, choice, S
  <2>1. QED
    BY <1>1, <1>2, <1>3, SumInOrder
<1>5. p = [T \in SUBSET S |-> SizeUpTo(seq, T, p)]
  <2>1. \A T \in SUBSET S : p[T] = SizeUpTo(seq, T, p)
    <3>1. \A T \in SUBSET S : T # {} => f[choice[T]] = seq[LastOf(T)].size
      BY <1>3
    <3> HIDE DEF f, choice, S
    <3>2. QED
      BY <1>3, <1>4, <3>1 DEF SizeUpTo, SumsBy
  <2>2. p = [T \in SUBSET S |-> p[T]]
    BY <1>4 DEF SumsBy, Additive
  <2> HIDE DEF S
  <2>3. QED
    BY <2>1, <2>2
<1> DEFINE h == CHOOSE g : g = [T \in SUBSET S |-> SizeUpTo(seq, T, g)]
<1>6. h = [T \in SUBSET S |-> SizeUpTo(seq, T, h)]
  BY <1>5
<1>7. h = p
  <2> HIDE DEF h
  <2>1. OnSubsets(h, S) /\ OnSubsets(p, S)
    BY <1>5, <1>6 DEF OnSubsets
  <2>2. h[{}] = p[{}]
    BY <1>5, <1>6 DEF SizeUpTo
  <2>3. ASSUME NEW T \in SUBSET S, T # {} PROVE SameAfter(h, p, T)
    <3>1. h[T] = SizeUpTo(seq, T, h)
      BY <1>6
    <3>2. p[T] = SizeUpTo(seq, T, p)
      BY <1>5
    <3>3. LastOf(T) \in T
      BY <1>1, <2>3
    <3> HIDE DEF S
    <3>4. QED
      BY <2>3, <3>1, <3>2, <3>3 DEF SizeUpTo, SameAfter
  <2> HIDE DEF S
  <2>4. QED
    BY <1>1, <2>1, <2>2, <2>3, SameRecursion
<1>8. Sizes(seq) = h[S]
  BY SizesAreFolds
<1>9. p[S] \in Nat /\ (S = {} => p[S] = 0)
  <2> HIDE DEF S, f, choice
  <2>1. QED
    BY <1>4 DEF SumsBy, Additive
<1>10. QED
  BY <1>7, <1>8, <1>9

LEMMA BlocksCounted ==
  ASSUME NEW file \in AllFiles, NEW n \in 0..Len(file.archive.members)
  PROVE  Blocks(file.archive, n) \in Nat /\ Blocks(file.archive, 0) = 0
<1>1. file.archive.members \in Seq(AllMembers)
  BY DEF AllFiles
<1>2. \A k \in 0..Len(file.archive.members) :
         /\ SubSeq(file.archive.members, 1, k) \in Seq(AllMembers)
         /\ Len(SubSeq(file.archive.members, 1, k)) = k
  BY <1>1
<1>3. 0 \in 0..Len(file.archive.members)
  BY <1>1
<1>4. DOMAIN SubSeq(file.archive.members, 1, 0) = {}
  <2>1. Len(SubSeq(file.archive.members, 1, 0)) = 0 /\ SubSeq(file.archive.members, 1, 0) \in Seq(AllMembers)
    BY <1>2, <1>3
  <2>2. QED
    BY <2>1
<1>5. Sizes(SubSeq(file.archive.members, 1, n)) \in Nat /\ Sizes(SubSeq(file.archive.members, 1, 0)) = 0
  BY <1>2, <1>3, <1>4, SizesCounted
<1>6. QED
  BY <1>5 DEF Blocks

LEMMA TarCounted ==
  ASSUME NEW file \in AllFiles PROVE TarCost(file.archive) \in Nat
<1> DEFINE members == file.archive.members
           Past == {n \in 0..Len(members) :
                      /\ n <= Limits.members /\ Blocks(file.archive, n) <= Limits.archive
                      /\ \A m \in Positions(file.archive, "sparse") : m > n}
<1>1. members \in Seq(AllMembers) /\ Len(members) \in Nat /\ DOMAIN members = 1..Len(members)
  BY DEF AllFiles
<1>2. 0 \in Past
  <2>1. 0 \in 0..Len(members) /\ Blocks(file.archive, 0) = 0
    BY <1>1, BlocksCounted
  <2>2. Limits.members \in Nat /\ Limits.archive \in Nat
    BY LimitsAssumption
  <2>3. \A m \in Positions(file.archive, "sparse") : m > 0
    BY <1>1 DEF Positions
  <2>4. QED
    BY <2>1, <2>2, <2>3
<1>3. Passed(file.archive) = Max(Past)
  BY DEF Passed
<1>4. Past \in SUBSET (0..Len(members)) /\ Past # {}
  BY <1>2
<1> HIDE DEF Past
<1>5. Max(Past) \in Past
  BY <1>1, <1>4, LastPosition
<1>6. Blocks(file.archive, Passed(file.archive)) \in Nat
  BY <1>3, <1>4, <1>5, BlocksCounted
<1>7. Stops(file.archive) # {} => Min(Stops(file.archive)) \in 1..Len(members)
  <2>1. Stops(file.archive) \subseteq 1..Len(members)
    BY <1>1 DEF Stops, Positions
  <2>2. PICK S : S = Stops(file.archive)
    OBVIOUS
  <2>3. S \in SUBSET (0..Len(members))
    BY <1>1, <2>1, <2>2
  <2>4. S # {} => Min(S) \in S
    BY <1>1, <2>3, LastPosition
  <2>5. QED
    BY <2>1, <2>2, <2>4
<1>8. Blocks(file.archive, IF Stops(file.archive) = {} THEN Len(members)
                           ELSE Min(Stops(file.archive)) - 1) \in Nat
  <2>1. PICK k : k = IF Stops(file.archive) = {} THEN Len(members) ELSE Min(Stops(file.archive)) - 1
    OBVIOUS
  <2>2. k \in 0..Len(members)
    BY <1>1, <1>7, <2>1
  <2>3. QED
    BY <2>1, <2>2, BlocksCounted
<1>9. QED
  BY <1>6, <1>8 DEF TarCost

\* The one member has a size.
LEMMA OneCounted ==
  ASSUME NEW file \in AllFiles, NEW S, S \subseteq DOMAIN file.archive.members,
         OneMember(file.archive, S)
  PROVE  SizeOf(file.archive, S) \in Nat
<1>1. S # {}
  BY FS_EmptySet DEF OneMember
<1>2. (CHOOSE n \in S : TRUE) \in DOMAIN file.archive.members
  BY <1>1
<1>3. \A n \in DOMAIN file.archive.members : file.archive.members[n] \in AllMembers
  BY DEF AllFiles
<1>4. QED
  BY <1>2, <1>3 DEF SizeOf, AllMembers

LEMMA WholeCounted ==
  ASSUME NEW file \in AllFiles
  PROVE  PayloadCost(file) \in Nat /\ StructureCost(file) \in Nat /\ Whole(file) \in Nat
<1>1. PayloadCost(file) \in Nat
  <2>1. CASE file.label.form = "other"
    BY <2>1 DEF PayloadCost
  <2>2. CASE file.label.form = "tar"
    BY <2>2, TarCounted DEF PayloadCost
  <2>3. CASE file.label.form \notin {"other", "tar"}
    <3>1. Positions(file.archive, "core") \subseteq DOMAIN file.archive.members
      BY DEF Positions
    <3>2. PICK S : S = Positions(file.archive, "core")
      OBVIOUS
    <3>3. PayloadHolds(file) => OneMember(file.archive, S)
      BY <2>3, <3>2 DEF PayloadHolds
    <3>4. PayloadHolds(file) => SizeOf(file.archive, S) \in Nat
      BY <3>1, <3>2, <3>3, OneCounted
    <3>5. PayloadCost(file) = IF PayloadHolds(file) THEN SizeOf(file.archive, S) ELSE 0
      BY <2>3, <3>2 DEF PayloadCost
    <3>6. QED
      BY <3>4, <3>5
  <2>4. QED
    BY <2>1, <2>2, <2>3
<1>2. StructureCost(file) \in Nat
  <2>1. PICK S : S = InDistInfo(file, "wheel")
    OBVIOUS
  <2>2. S \subseteq DOMAIN file.archive.members
    BY <2>1 DEF InDistInfo, Positions
  <2>3. StructureFound(file) => SizeOf(file.archive, S) \in Nat
    BY <2>1, <2>2, OneCounted DEF StructureFound
  <2>4. QED
    BY <2>1, <2>3 DEF StructureCost
<1>3. QED
  BY <1>1, <1>2 DEF Whole

\* What the files take, added up.
Costs == [n \in DOMAIN case.files |-> Whole(case.files[n])]

LEMMA CostsAdded ==
  ASSUME Given, NEW S \in SUBSET DOMAIN case.files,
         NEW g, Additive(g, Costs, DOMAIN case.files)
  PROVE  CostOf(S) = g[S]
<1> DEFINE f == [n \in S |-> Costs[n]]
           choice == [T \in SUBSET S |-> AnyOf(T)]
<1>1. IsFiniteSet(DOMAIN case.files) /\ IsFiniteSet(S)
  <2>1. Len(case.files) \in Nat /\ DOMAIN case.files = 1..Len(case.files)
    BY DEF Given
  <2>2. IsFiniteSet(1..Len(case.files))
    BY <2>1, FS_Interval
  <2>3. QED
    BY <2>1, <2>2, FS_Subset
<1>2. f \in [S -> Nat] /\ \A n \in S : f[n] = Whole(case.files[n])
  <2>1. \A n \in DOMAIN case.files : case.files[n] \in AllFiles
    BY DEF Given
  <2>2. QED
    BY <2>1, WholeCounted DEF Costs
<1>3. \A T \in SUBSET S : T # {} => AnyOf(T) \in T /\ choice[T] = AnyOf(T)
  BY DEF AnyOf
<1>4. PICK p : SumsBy(p, f, S, choice)
  <2> HIDE DEF f, choice
  <2>1. QED
    BY <1>1, <1>2, <1>3, SumInOrder
<1>5. p = [T \in SUBSET S |-> CostUpTo(T, p)]
  <2>1. \A T \in SUBSET S : p[T] = CostUpTo(T, p)
    <3>1. \A T \in SUBSET S : T # {} => f[choice[T]] = Whole(case.files[AnyOf(T)])
      BY <1>2, <1>3
    <3> HIDE DEF f, choice
    <3>2. QED
      BY <1>3, <1>4, <3>1 DEF CostUpTo, SumsBy
  <2>2. p = [T \in SUBSET S |-> p[T]]
    BY <1>4 DEF SumsBy, Additive
  <2>3. QED
    BY <2>1, <2>2
<1> DEFINE h == CHOOSE k : k = [T \in SUBSET S |-> CostUpTo(T, k)]
<1>6. h = [T \in SUBSET S |-> CostUpTo(T, h)]
  BY <1>5
<1>7. h = p
  <2> HIDE DEF h
  <2>1. OnSubsets(h, S) /\ OnSubsets(p, S)
    BY <1>5, <1>6 DEF OnSubsets
  <2>2. h[{}] = p[{}]
    BY <1>5, <1>6 DEF CostUpTo
  <2>3. ASSUME NEW T \in SUBSET S, T # {} PROVE SameAfter(h, p, T)
    <3>1. h[T] = CostUpTo(T, h) /\ p[T] = CostUpTo(T, p)
      BY <1>5, <1>6
    <3>2. QED
      BY <1>3, <2>3, <3>1 DEF CostUpTo, SameAfter
  <2>4. QED
    BY <1>1, <2>1, <2>2, <2>3, SameRecursion
<1>8. CostOf(S) = h[S]
  BY SizesAreFolds
<1>9. p[S] = g[S]
  <2> DEFINE q == [T \in SUBSET S |-> g[T]]
  <2>1. Additive(q, f, S)
    BY DEF Additive
  <2>2. Additive(p, f, S)
    BY <1>4 DEF SumsBy
  <2> HIDE DEF q, f
  <2>3. p[S] = q[S]
    BY <1>1, <2>1, <2>2, SumsAgree
  <2>4. QED
    BY <2>3 DEF q
<1>10. QED
  BY <1>7, <1>8, <1>9

\* A file that only the limit kept from being read.
Exhausted(m) == Readable(case.files[m], Whole(case.files[m])) /\ case.files[m].path \in issues

\* What was read and what is left never exceed the limit, and nothing is left
\* once a file was too large.
Frugal ==
    /\ budget.expanded \in 0..MaxExpanded
    /\ issues \subseteq {case.files[n].path : n \in 1..position}
    /\ \A m, n \in 1..position : case.files[m].path = case.files[n].path => m = n
    /\ \A g : Additive(g, Costs, DOMAIN case.files) => g[ReadPositions] + budget.expanded <= MaxExpanded
    /\ \A m \in 1..position : Exhausted(m) => budget.expanded = 0
    /\ \A m, n \in 1..position :
          m < n /\ Exhausted(m) /\ Whole(case.files[n]) > 0 => case.files[n].path \in issues

\* A file that can be read takes all it takes, and no more than is left.
LEMMA ReadableFits ==
  ASSUME NEW file \in AllFiles, NEW left \in Nat, Readable(file, left)
  PROVE  ExpansionOf(file, left) = Whole(file) /\ Whole(file) <= left
<1>1. PayloadCost(file) \in Nat /\ StructureCost(file) \in Nat /\ Whole(file) \in Nat
  BY WholeCounted
<1>2. Established(file, left) /\ PayloadCost(file) <= left
  BY DEF Readable, Established, PayloadRead
<1>3. ExpansionOf(file, left) = Whole(file)
  BY <1>1, <1>2 DEF ExpansionOf, Whole
<1>4. IsWheel(file) => Whole(file) <= left
  BY <1>3 DEF Readable
<1>5. ~IsWheel(file) => Whole(file) = PayloadCost(file)
  BY <1>1 DEF Whole
<1>6. QED
  BY <1>2, <1>3, <1>4, <1>5

\* A file that cannot be read for want of budget empties it.
LEMMA TooLargeEmpties ==
  ASSUME NEW file \in AllFiles, NEW left \in Nat, ~Readable(file, left),
         Readable(file, Whole(file))
  PROVE  ExpansionOf(file, left) > left
<1>1. PayloadCost(file) \in Nat /\ StructureCost(file) \in Nat /\ Whole(file) \in Nat
  BY WholeCounted
<1>2. CASE PayloadCost(file) > left
  <2>1. ExpansionOf(file, left) >= PayloadCost(file)
    BY <1>1 DEF ExpansionOf
  <2>2. ExpansionOf(file, left) \in Nat
    BY <1>1 DEF ExpansionOf
  <2>3. QED
    BY <1>1, <1>2, <2>1, <2>2
<1>3. CASE PayloadCost(file) <= left
  <2>1. Established(file, left)
    BY <1>3 DEF Readable, Established, PayloadRead
  <2>2. IsWheel(file) /\ ~(ExpansionOf(file, left) <= left)
    BY <2>1 DEF Readable
  <2>3. ExpansionOf(file, left) \in Nat
    BY <1>1 DEF ExpansionOf
  <2>4. QED
    BY <2>2, <2>3
<1>4. QED
  BY <1>1, <1>2, <1>3

LEMMA FrugalKept ==
  ASSUME Given, Read, Frugal, [Next]_vars PROVE Frugal'
<1>0. Given' /\ MaxExpanded \in Nat
  BY GivenKept, BoundsAssumption
<1>1. ASSUME NEW setup \in setups, Configure(setup) PROVE Frugal'
  <2>1. position' = 0 /\ issues' = {} /\ budget' = budget
    BY <1>1 DEF Configure, Read
  <2>2. 1..position' = {} /\ ReadPositions' = {}
    BY <2>1 DEF ReadPositions
  <2>3. \A g : Additive(g, Costs', DOMAIN case'.files) => g[{}] = 0
    BY DEF Additive
  <2>4. \A g : Additive(g, Costs', DOMAIN case'.files) => g[ReadPositions'] + budget'.expanded <= MaxExpanded
    BY <1>0, <2>1, <2>2, <2>3 DEF Frugal
  <2>5. \A g : Additive(g, Costs, DOMAIN case.files)' <=> Additive(g, Costs', DOMAIN case'.files)
    BY DEF Additive
  <2>6. QED
    BY <2>1, <2>2, <2>4, <2>5 DEF Frugal
<1>2. CASE InspectFile
  <2> DEFINE file == case.files[position + 1]
             left == budget.expanded
  <2>1. /\ case' = case /\ position' = position + 1 /\ position < Len(case.files) /\ position \in Nat
        /\ Len(case.files) \in Nat /\ DOMAIN case.files = 1..Len(case.files)
    BY <1>2 DEF InspectFile, Read, Given
  <2>2. 1..position' = (1..position) \cup {position + 1} /\ position + 1 \in DOMAIN case.files
        /\ position + 1 \notin 1..position /\ 1..position \subseteq DOMAIN case.files
    BY <2>1
  <2>3. file \in AllFiles /\ left \in 0..MaxExpanded /\ Whole(file) \in Nat
        /\ PayloadCost(file) \in Nat /\ StructureCost(file) \in Nat
    BY <2>2, WholeCounted DEF Given, Frugal
  <2>4. budget'.expanded = Spend(left, ExpansionOf(file, left))
    BY <1>2 DEF InspectFile, SpendOn, File
  <2>5. \A n \in 1..position : case.files[n].path # file.path
    BY <1>2 DEF InspectFile, InspectionRefused, EarlierPaths, File
  <2>6. file.path \notin issues
    BY <2>5 DEF Frugal
  <2>7. Costs' = Costs /\ Costs[position + 1] = Whole(file)
    BY <2>1, <2>2 DEF Costs
  <2>8. ExpansionOf(file, left) \in Nat
    BY <2>3 DEF ExpansionOf
  <2>9. budget'.expanded \in 0..MaxExpanded /\ budget'.expanded <= left
        /\ (left = 0 => budget'.expanded = 0)
    BY <1>0, <2>3, <2>4, <2>8 DEF Spend
  <2>10. \A m, n \in 1..position' : case.files[m].path = case.files[n].path => m = n
    BY <2>2, <2>5 DEF Frugal
  <2>11. ReadPositions \in SUBSET DOMAIN case.files /\ position + 1 \notin ReadPositions
    BY <2>2 DEF ReadPositions
  <2>12. CASE Readable(file, left)
    <3>1. issues' = issues
      BY <1>2, <2>12 DEF InspectFile, File
    <3>2. ReadPositions' = ReadPositions \cup {position + 1}
      BY <2>1, <2>2, <2>6, <3>1 DEF ReadPositions
    <3>3. ExpansionOf(file, left) = Whole(file) /\ Whole(file) <= left
      BY <2>3, <2>12, ReadableFits
    <3>4. budget'.expanded = left - Whole(file)
      BY <2>3, <2>4, <3>3 DEF Spend
    <3>5. ASSUME NEW g, Additive(g, Costs, DOMAIN case.files)
          PROVE  g[ReadPositions'] + budget'.expanded <= MaxExpanded
      <4>1. PICK T : T = ReadPositions
        OBVIOUS
      <4>2. PICK costs, S, x : costs = Costs /\ S = DOMAIN case.files /\ x = position + 1
        OBVIOUS
      <4>3. g[T \cup {x}] = g[T] + costs[x] /\ g[T] \in Nat
        <5>1. Additive(g, costs, S) /\ T \in SUBSET S /\ x \in S \ T
          BY <2>2, <2>11, <3>5, <4>1, <4>2
        <5>2. QED
          BY <5>1, OneMore
      <4>4. g[T] + left <= MaxExpanded
        BY <3>5, <4>1 DEF Frugal
      <4>5. QED
        BY <1>0, <2>3, <2>7, <3>2, <3>4, <4>1, <4>2, <4>3, <4>4
    <3>6. \A m \in 1..position' : Exhausted(m)' => m \in 1..position /\ Exhausted(m)
      BY <2>1, <2>2, <2>6, <3>1 DEF Exhausted
    <3>7. ASSUME NEW m \in 1..position, NEW n \in 1..position', Exhausted(m), m < n,
                 Whole(case.files[n]) > 0
          PROVE  case.files[n].path \in issues
      <4>1. CASE n \in 1..position
        BY <3>7, <4>1 DEF Frugal
      <4>2. CASE n = position + 1
        <5>1. left = 0
          BY <3>7 DEF Frugal
        <5>2. QED
          BY <2>3, <3>3, <3>7, <4>2, <5>1
      <4>3. QED
        BY <2>2, <4>1, <4>2
    <3>8. \A m \in 1..position' : Exhausted(m)' => budget'.expanded = 0
      BY <2>9, <3>6 DEF Frugal
    <3>9. issues' \subseteq {case.files[n].path : n \in 1..position'}
      BY <2>2, <3>1 DEF Frugal
    <3>10. \A m, n \in 1..position' :
             m < n /\ Exhausted(m)' /\ Whole(case.files[n]) > 0 => case.files[n].path \in issues'
      BY <3>1, <3>6, <3>7
    <3>11. \A g : Additive(g, Costs, DOMAIN case.files)' <=> Additive(g, Costs, DOMAIN case.files)
      BY <2>1, <2>7 DEF Additive
    <3>12. QED
      BY <2>1, <2>9, <2>10, <3>5, <3>8, <3>9, <3>10, <3>11 DEF Frugal
  <2>13. CASE ~Readable(file, left)
    <3>1. issues' = issues \cup {file.path}
      BY <1>2, <2>13 DEF InspectFile, File
    <3>2. ReadPositions' = ReadPositions
      BY <2>1, <2>2, <2>5, <3>1 DEF ReadPositions
    <3>3. ASSUME NEW g, Additive(g, Costs, DOMAIN case.files)
          PROVE  g[ReadPositions'] + budget'.expanded <= MaxExpanded
      <4>1. g[ReadPositions] \in Nat
        BY <2>11, <3>3 DEF Additive
      <4>2. g[ReadPositions] + left <= MaxExpanded
        BY <3>3 DEF Frugal
      <4>3. QED
        BY <1>0, <2>3, <2>9, <3>2, <4>1, <4>2
    <3>4. ASSUME NEW m \in 1..position', Exhausted(m)' PROVE budget'.expanded = 0
      <4>1. CASE m \in 1..position
        <5>1. Exhausted(m)
          BY <2>1, <2>5, <3>1, <3>4, <4>1 DEF Exhausted
        <5>2. QED
          BY <2>9, <4>1, <5>1 DEF Frugal
      <4>2. CASE m = position + 1
        <5>1. Readable(file, Whole(file))
          BY <2>1, <3>4, <4>2 DEF Exhausted
        <5>2. ExpansionOf(file, left) > left
          BY <2>3, <2>13, <5>1, TooLargeEmpties
        <5>3. QED
          BY <2>4, <5>2 DEF Spend
      <4>3. QED
        BY <2>2, <4>1, <4>2
    <3>5. ASSUME NEW m \in 1..position', NEW n \in 1..position', Exhausted(m)', m < n,
                 Whole(case.files[n]) > 0
          PROVE  case.files[n].path \in issues'
      <4>1. CASE n = position + 1
        BY <3>1, <4>1
      <4>2. CASE n \in 1..position
        <5>1. m \in 1..position
          BY <2>1, <2>2, <3>5, <4>2
        <5>2. Exhausted(m)
          BY <2>1, <2>5, <3>1, <3>5, <5>1 DEF Exhausted
        <5>3. QED
          BY <3>1, <3>5, <4>2, <5>1, <5>2 DEF Frugal
      <4>3. QED
        BY <2>2, <4>1, <4>2
    <3>6. issues' \subseteq {case.files[n].path : n \in 1..position'}
      BY <2>2, <3>1 DEF Frugal
    <3>7. \A g : Additive(g, Costs, DOMAIN case.files)' <=> Additive(g, Costs, DOMAIN case.files)
      BY <2>1, <2>7 DEF Additive
    <3>8. QED
      BY <2>1, <2>9, <2>10, <3>3, <3>4, <3>5, <3>6, <3>7 DEF Frugal
  <2>14. QED
    BY <2>12, <2>13
<1>3. ASSUME UNCHANGED <<case, position, issues, budget>> PROVE Frugal'
  <2>1. Costs' = Costs /\ ReadPositions' = ReadPositions
    BY <1>3 DEF Costs, ReadPositions
  <2>2. \A g : Additive(g, Costs, DOMAIN case.files)' <=> Additive(g, Costs, DOMAIN case.files)
    BY <1>3, <2>1 DEF Additive
  <2>3. \A m : Exhausted(m)' <=> Exhausted(m)
    BY <1>3 DEF Exhausted
  <2>4. QED
    BY <1>3, <2>1, <2>2, <2>3 DEF Frugal
<1>4. CASE EvaluateRoots
  BY <1>3, <1>4 DEF EvaluateRoots, inputs
<1>5. CASE Onward
  BY <1>3, <1>5 DEF Onward, inputs
<1>6. CASE UNCHANGED vars
  BY <1>3, <1>6 DEF vars
<1>7. QED
  BY <1>1, <1>2, <1>4, <1>5, <1>6, StepKinds

LEMMA FrugalAtFirst == Init => Frugal
<1>1. ASSUME Init PROVE Frugal
  <2>1. position = 0 /\ issues = {} /\ budget.expanded = MaxExpanded /\ MaxExpanded \in Nat
    BY <1>1, BoundsAssumption DEF Init
  <2>2. 1..position = {} /\ ReadPositions = {}
    BY <2>1 DEF ReadPositions
  <2>3. \A g : Additive(g, Costs, DOMAIN case.files) => g[{}] = 0
    BY DEF Additive
  <2>4. QED
    BY <2>1, <2>2, <2>3 DEF Frugal
<1>2. QED
  BY <1>1

\* The metadata that is read never costs more than the limit, and after a file
\* that only the limit kept from being read no archive is read.
THEOREM ExhaustedStays == Spec => []ExhaustedStaysExhausted
<1>1. Init => Given /\ Read /\ Frugal
  BY InitInvariant, FrugalAtFirst
<1>2. Given /\ Read /\ Frugal /\ [Next]_vars => (Given /\ Read /\ Frugal)'
  BY GivenKept, ReadKept, FrugalKept
<1>3. Given /\ Read /\ Frugal => ExhaustedStaysExhausted
  <2>1. SUFFICES ASSUME Given, Read, Frugal PROVE ExhaustedStaysExhausted
    OBVIOUS
  <2>2. PICK g : Additive(g, Costs, DOMAIN case.files)
    <3>1. PICK costs, S : costs = Costs /\ S = DOMAIN case.files
      OBVIOUS
    <3>2. Len(case.files) \in Nat /\ S = 1..Len(case.files)
      BY <2>1, <3>1 DEF Given
    <3>3. IsFiniteSet(1..Len(case.files))
      BY <3>2, FS_Interval
    <3>4. costs \in [S -> Nat]
      <4>1. \A n \in DOMAIN case.files : case.files[n] \in AllFiles
        BY <2>1 DEF Given
      <4>2. QED
        BY <3>1, <4>1, WholeCounted DEF Costs
    <3>5. \E k : Additive(k, costs, S)
      BY <3>2, <3>3, <3>4, SumExists
    <3>6. QED
      BY <3>1, <3>5
  <2>3. ReadPositions \in SUBSET DOMAIN case.files
    BY <2>1 DEF ReadPositions, Read, Given
  <2>4. PICK S : S = ReadPositions
    OBVIOUS
  <2>5. CostOf(S) = g[S]
    BY <2>1, <2>2, <2>3, <2>4, CostsAdded
  <2>6. CostOf(ReadPositions) + budget.expanded <= MaxExpanded
    BY <2>1, <2>2, <2>4, <2>5 DEF Frugal
  <2>7. QED
    BY <2>1, <2>6 DEF Frugal, Exhausted, ExhaustedStaysExhausted
<1>4. QED
  BY <1>1, <1>2, <1>3, PTL DEF Spec

-----------------------------------------------------------------------------
(* Types.                                                                   *)

\* What the version probe says only changes with the probe, and what was
\* inspected is not forgotten.
LEMMA InputsGrow ==
  ASSUME Next
  PROVE  /\ inventory \subseteq inventory'
         /\ uv' = uv \/ uv' \in {"reviewed", "series", "other"}
         /\ budget' = budget \/ InspectFile
<1> USE DEF inputs, adapterVars
<1>1. ASSUME NEW setup \in setups, Configure(setup)
      PROVE  UNCHANGED <<inventory, uv, budget>>
  BY <1>1 DEF Configure
<1>2. CASE InspectFile
  BY <1>2 DEF InspectFile
<1>3. ASSUME \/ InspectionFails \/ Inspected \/ EvaluateRoots \/ EnterAdapter \/ Accept
             \/ Validate \/ Group \/ Seed \/ AssessSample \/ Judge \/ Close
      PROVE  UNCHANGED <<inventory, uv, budget>>
  BY <1>3 DEF InspectionFails, Inspected, EvaluateRoots, EnterAdapter, Accept, Validate, Group, Seed,
              AssessSample, Judge, Close
<1>4. ASSUME \/ NoResolution \/ AskInjected \/ Decline \/ ProbeFails \/ CompileSucceeds
             \/ CompileFails \/ CompileBreaks
      PROVE  UNCHANGED <<inventory, budget, uv>>
  <2>1. CASE NoResolution \/ AskInjected \/ ProbeFails
    BY <2>1 DEF NoResolution, AskInjected, ProbeFails, Answer
  <2>2. CASE Decline
    BY <2>2 DEF Decline, Answer
  <2>3. CASE CompileSucceeds \/ CompileFails \/ CompileBreaks
    BY <2>3 DEF CompileSucceeds, CompileFails, CompileBreaks, Answer
  <2>4. QED
    BY <1>4, <2>1, <2>2, <2>3
<1>5. ASSUME NEW a \in inventory, Stage(a) \/ Rewrite(a) PROVE UNCHANGED <<inventory, uv, budget>>
  BY <1>5 DEF Stage, Rewrite, Copy, Answer
<1>6. CASE Probe
  BY <1>6 DEF Probe
<1>7. ASSUME NEW k \in pending, AssessNext(k) PROVE UNCHANGED <<inventory, uv, budget>>
  BY <1>7 DEF AssessNext
<1>8. ASSUME CorrelateRoots \/ CorrelateNeeds \/ Exit \/ WriteJson \/ Exhaust
      PROVE  UNCHANGED <<inventory, uv, budget>>
  BY <1>8 DEF CorrelateRoots, CorrelateNeeds, Exit, WriteJson, Exhaust
<1>9. QED
  BY <1>1, <1>2, <1>3, <1>4, <1>5, <1>6, <1>7, <1>8 DEF Next, Pipeline

\* The state that the budget, the probe, the work list and the report keep.
Typed ==
    /\ budget.requires \in 0..MaxRequires
    /\ uv \in {"unknown", "reviewed", "series", "other"}
    /\ pending \subseteq DOMAIN groups /\ DOMAIN assessed \subseteq DOMAIN groups
    /\ \A k \in DOMAIN rows : rows[k].status \in Statuses5
    /\ evidence \subseteq inventory
    /\ exit \in {"none", "incomplete", "findings", "success"}

LEMMA EntriesCounted ==
  ASSUME NEW file \in AllFiles, NEW left PROVE EntriesOf(file, left) \in Nat
<1>1. file.core.needs \in Seq(AllRequirements)
  BY DEF AllFiles
<1>2. Len(file.core.needs) \in Nat
  BY <1>1
<1>3. QED
  BY <1>2 DEF EntriesOf

LEMMA RequiresTyped ==
  ASSUME Given, Read, Typed, [Next]_vars PROVE budget'.requires \in 0..MaxRequires
<1>1. CASE budget' = budget
  BY <1>1 DEF Typed
<1>2. CASE InspectFile
  <2>1. position + 1 \in DOMAIN case.files
    BY <1>2 DEF InspectFile, Given, Read
  <2>2. EntriesOf(File, budget.expanded) \in Nat
    BY <2>1, EntriesCounted DEF File, Given
  <2>3. EntriesOf(File, budget.expanded) <= budget.requires
    BY <1>2, <2>2 DEF InspectFile, InspectionRefused, Typed
  <2>4. budget'.requires = budget.requires - EntriesOf(File, budget.expanded)
    BY <1>2 DEF InspectFile, SpendOn
  <2>5. QED
    BY <2>2, <2>3, <2>4, BoundsAssumption DEF Typed
<1>3. QED
  BY <1>1, <1>2, InputsGrow DEF vars

LEMMA WorklistTyped ==
  ASSUME Given, Listed, Typed, [Next]_vars
  PROVE  pending' \subseteq DOMAIN groups' /\ DOMAIN assessed' \subseteq DOMAIN groups'
<1> USE DEF Listed, Typed, Early, Judged, Answered, worklistVars
<1>1. CASE Before \/ Validate \/ Refusal \/ Correlating
  BY <1>1 DEF Before, Validate, Refusal, Correlating
<1>2. CASE Group
  BY <1>2 DEF Group, Nothing
<1>3. ASSUME Seed \/ AssessSample \/ (\E k \in pending : AssessNext(k))
      PROVE  pending' \subseteq DOMAIN groups' /\ DOMAIN assessed' \subseteq DOMAIN groups'
  <2>1. pc' = "assess"
    BY <1>3 DEF Seed, AssessSample, AssessNext
  <2>2. QED
    BY <2>1, ListedKept
<1>4. CASE Judge \/ Close
  BY <1>4 DEF Judge, Close
<1>5. CASE UNCHANGED vars
  BY <1>5 DEF vars
<1>6. QED
  BY <1>1, <1>2, <1>3, <1>4, <1>5, ReportKinds

LEMMA AssessedStatus ==
  ASSUME NEW row, NEW group, RowOf(row, group), NEW k
  PROVE  /\ Verdict(k, row.status) \in Statuses5
         /\ \A status : [row EXCEPT !.status = status].status = status
<1>1. \A python, availability : Outcome(python, availability) \in Statuses5
  BY DEF Outcome, Statuses5
<1>2. row.status \in Statuses5
  BY <1>1 DEF RowOf, Statuses5
<1>3. QED
  BY <1>2 DEF RowOf, Verdict, WithClosure, Statuses5

LEMMA RowsTyped ==
  ASSUME Given, Listed, Typed, [Next]_vars
  PROVE  \A k \in DOMAIN rows' : rows'[k].status \in Statuses5
<1> USE DEF Typed, reportVars
<1>1. CASE Before \/ Validate \/ Group \/ Seed \/ AssessSample \/ Refusal \/ Correlating
  BY <1>1 DEF Before, Validate, Group, Seed, AssessSample, Refusal, Correlating
<1>2. ASSUME NEW k \in pending, AssessNext(k) PROVE rows' = rows
  BY <1>2 DEF AssessNext
<1>3. CASE Judge
  <2>1. rows' = Rows
    BY <1>3 DEF Judge, Rows
  <2>2. ASSUME NEW k \in DOMAIN assessed PROVE Rows[k].status \in Statuses5
    <3>1. RowOf(assessed[k], groups[k])
      BY <1>3 DEF Judge, Listed
    <3>2. PICK row, group : row = assessed[k] /\ group = groups[k]
      OBVIOUS
    <3>3. Verdict(k, row.status) \in Statuses5
          /\ \A status : [row EXCEPT !.status = status].status = status
      BY <3>1, <3>2, AssessedStatus
    <3>4. QED
      BY <3>2, <3>3 DEF Rows
  <2>3. DOMAIN Rows = DOMAIN assessed
    BY DEF Rows
  <2>4. QED
    BY <2>1, <2>2, <2>3
<1>4. CASE Close
  <2>1. CASE rows' = rows
    BY <2>1
  <2>2. CASE rows' = [k \in DOMAIN rows |->
                        [rows[k] EXCEPT !.status = WithClosure(rows[k].status, FALSE)]]
    <3>1. ASSUME NEW k \in DOMAIN rows PROVE rows'[k].status \in Statuses5
      <4>1. pc = "close"
        BY <1>4 DEF Close
      <4>2. \A status : [rows[k] EXCEPT !.status = status].status = status
        BY <4>1, RowStands
      <4>3. rows'[k].status = WithClosure(rows[k].status, FALSE)
        BY <2>2, <4>2
      <4>4. QED
        BY <4>3 DEF WithClosure, Statuses5
    <3>2. QED
      BY <2>2, <3>1
  <2>3. QED
    BY <1>4, <2>1, <2>2 DEF Close
<1>5. CASE UNCHANGED vars
  BY <1>5 DEF vars
<1>6. QED
  BY <1>1, <1>2, <1>3, <1>4, <1>5, ReportKinds

LEMMA ReportTyped ==
  ASSUME Given, Typed, [Next]_vars
  PROVE  evidence' \subseteq inventory' /\ exit' \in {"none", "incomplete", "findings", "success"}
<1> USE DEF Typed, reportVars
<1>1. inventory \subseteq inventory'
  BY InputsGrow DEF vars
<1>2. CASE Before \/ Validate \/ Group \/ Seed \/ AssessSample \/ Judge \/ Refusal
  BY <1>1, <1>2 DEF Before, Validate, Group, Seed, AssessSample, Judge, Refusal
<1>3. ASSUME NEW k \in pending, AssessNext(k) PROVE UNCHANGED <<evidence, exit>>
  BY <1>3 DEF AssessNext
<1>4. CASE Close
  <2>1. evidence' \subseteq inventory /\ exit' = exit
    BY <1>4 DEF Close, SemanticArtifacts, EvidenceArtifacts
  <2>2. QED
    BY <1>1, <2>1
<1>5. CASE Correlating
  <2>1. evidence' = evidence
    BY <1>5 DEF Correlating
  <2>2. ASSUME Next PROVE exit' = exit \/ exit' \in {"incomplete", "findings", "success"}
    BY <2>2, LastKinds DEF Earlier, CorrelateRoots, CorrelateNeeds, Exit, WriteJson
  <2>3. exit' = exit \/ exit' \in {"incomplete", "findings", "success"}
    BY <2>2 DEF vars
  <2>4. QED
    BY <1>1, <2>1, <2>3
<1>6. CASE UNCHANGED vars
  BY <1>6 DEF vars
<1>7. QED
  BY <1>1, <1>2, <1>3, <1>4, <1>5, <1>6, ReportKinds

\* Every variable keeps its type.
THEOREM ReportTypes == Spec => []TypeOK
<1>1. Init => Given /\ Read /\ Frugal /\ Listed /\ Typed
  <2>1. Init => Given /\ Read /\ Listed /\ Typed
    <3>1. Init => Given /\ Read
      BY InitInvariant
    <3>2. ASSUME Init PROVE Listed
      BY <3>2, Zenon DEF Init, Listed, Early, Judged, Nothing
    <3>3. ASSUME Init PROVE Typed
      <4>1. /\ budget.requires = MaxRequires /\ MaxRequires \in Nat /\ uv = "unknown" /\ pending = {}
            /\ assessed = [k \in {} |-> {}] /\ rows = [k \in {} |-> {}] /\ evidence = {} /\ exit = "none"
        BY <3>3, BoundsAssumption DEF Init, Nothing
      <4>2. QED
        BY <4>1 DEF Typed
    <3>4. QED
      BY <3>1, <3>2, <3>3
  <2>2. Init => Frugal
    BY FrugalAtFirst
  <2>3. QED
    BY <2>1, <2>2
<1>2. ASSUME Given, Read, Frugal, Listed, Typed, [Next]_vars
      PROVE  (Given /\ Read /\ Frugal /\ Listed /\ Typed)'
  <2>1. uv' \in {"unknown", "reviewed", "series", "other"}
    BY <1>2, InputsGrow DEF Typed, vars
  <2>2. Typed'
    BY <1>2, <2>1, RequiresTyped, WorklistTyped, RowsTyped, ReportTyped DEF Typed
  <2>3. QED
    BY <1>2, <2>2, GivenKept, ReadKept, FrugalKept, ListedKept
<1>3. Given /\ Read /\ Frugal /\ Typed => TypeOK
  BY DEF Given, Read, Frugal, Typed, TypeOK, Early, Answered, Judged
<1>4. QED
  BY <1>1, <1>2, <1>3, PTL DEF Spec
=============================================================================
