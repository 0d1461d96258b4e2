------------------------- MODULE DependencyReport --------------------------
(***************************************************************************)
(* The dependency report of one target: load_dependency_configuration      *)
(* (dependencies/_config.py), collect_dependency_report                    *)
(* (dependencies/_report.py), the inspection of the configured files       *)
(* (_metadata.py, _archives.py), the uv adapter it calls (_uv.py), the     *)
(* validation of what the adapter returned (_resolution.py) and the        *)
(* assessment of the selected distributions (_assessment.py).              *)
(*                                                                         *)
(* The resolver and the file system are the environment: an artifact may   *)
(* be rewritten between its inspection and its staging, each of the two    *)
(* uv processes may time out, break or answer anything, and an injected    *)
(* adapter may return any result at all.                                   *)
(***************************************************************************)
EXTENDS DependencyConfiguration

CONSTANTS
    Setups,       \* the documents, options and files a report starts from
    MaxLocked,    \* bound on the packages of an answer of the resolver
    MaxExpanded,  \* units of archive data one inspection may expand
    MaxRequires,  \* Requires-Dist entries one inspection may read
    Injected      \* results an injected adapter may return

ASSUME BoundsAssumption ==
    {MaxLocked, MaxExpanded, MaxRequires} \subseteq Nat

ASSUME SetupsAssumption == \A setup \in Setups : IsTable(setup.table)

\* The fields of a ResolverResult.
IsResult(r) ==
    r = [status |-> r.status, complete |-> r.complete, known |-> r.known,
         packages |-> r.packages, names |-> r.names, reqs |-> r.reqs, snapshot |-> r.snapshot]

ASSUME InjectedAssumption == \A r \in Injected : IsResult(r)

VARIABLES
    setups,     \* the setup that is still to be read
    case,       \* the configuration, the files it names, the target
    position,   \* how many of the files have been inspected
    inventory,  \* the artifacts whose metadata was read
    issues,     \* paths whose metadata could not be read
    budget,     \* what is left of the two budgets of the inspection
    pc,
    active,     \* roots whose marker applies
    altered,    \* artifacts rewritten since they were inspected
    staged,     \* what the wheelhouse holds: ids with the bytes copied
    uv,         \* what the version probe established
    result,     \* the ResolverResult
    groups,     \* candidate versions with their artifacts
    extrasOf,   \* extras requested of each candidate
    pending,    \* candidates to assess
    assessed,   \* assessments so far
    rows,       \* the reported assessments
    evidence,   \* artifacts the correlation may cite
    declared,   \* verdict on each active root name
    transitive, \* verdict on each name a reported assessment needs
    exit

vars == <<setups, case, position, inventory, issues, budget, pc, active, altered, staged, uv, result, groups, extrasOf,
          pending, assessed, rows, evidence, declared, transitive, exit>>

inputs == <<setups, case, position, inventory, issues, budget>>
adapterVars == <<altered, staged, uv>>
worklistVars == <<groups, extrasOf, pending, assessed>>
reportVars == <<rows, evidence, declared, transitive, exit>>

Nothing == [k \in {} |-> {}]

(***************************************************************************)
(* Results                                                                 *)
(***************************************************************************)
Negative == {"artifact-unavailable", "resolution-failed"}

Plain(status, complete, known, packages) ==
    [status |-> status, complete |-> complete, known |-> known,
     packages |-> packages, names |-> {}, reqs |-> {}, snapshot |-> {}]

Unverified(known, packages) == Plain("unverified", FALSE, known, packages)
NotRequested == Plain("not-requested", TRUE, FALSE, {})

Selected(r) == r.status = "succeeded" /\ r.complete

(***************************************************************************)
(* What uv may answer, and what the adapter reads into it                  *)
(***************************************************************************)
Picks ==
    [name : {a.name : a \in inventory}, version : {a.version : a \in inventory},
     from : {a.id : a \in inventory} \cup {"index"}]

Locks == {lock \in SUBSET Picks : Cardinality(lock) <= MaxLocked}

Failures ==
    [code : {1}, clean : BOOLEAN, grammar : {"unsatisfiable", "absent", "other"},
     quoted : SUBSET active, hint : {"none", "other"}]
    \cup [code : {2}, clean : {TRUE}, grammar : {"unsatisfiable"},
          quoted : {active}, hint : {"none"}]

\* A pylock package cites an artifact when its one wheel is that staged file.
PackageOf(pick) ==
    [name |-> pick.name, version |-> pick.version,
     used |-> {a.id : a \in {b \in inventory :
                  /\ b.id = pick.from /\ b.kind = "wheel"
                  /\ Key(b) = KeyOf(pick.name, pick.version)}}]

RepeatsName(packages) ==
    \E p, q \in packages : p # q /\ p.name = q.name

ReadLock(packages) ==
    IF RepeatsName(packages) THEN Unverified(TRUE, {})
    ELSE IF \E p \in packages : p.used = {} THEN Unverified(TRUE, packages)
    ELSE Plain("succeeded", TRUE, TRUE, packages)

\* The closed root whose pin the reviewed absence grammar quotes.
AbsentNames(failure, closed) ==
    IF /\ uv = "reviewed" /\ failure.grammar = "absent" /\ failure.hint = "none"
       /\ Cardinality(failure.quoted) = 1
    THEN NamesOf(failure.quoted) \cap closed
    ELSE {}

\* The contradictory roots all of whose constraints the diagnostic quotes.
QuotedConflicts(failure) ==
    IF uv \in {"reviewed", "series"} /\ failure.grammar = "unsatisfiable"
    THEN {n \in ConflictingNames(active) : GroupOf(active, n) \subseteq failure.quoted}
    ELSE {}

ClosedNames ==
    IF case.network THEN {}
    ELSE UnavailableNames(active, inventory, case.kind)

FailureResult(absent, conflicts) ==
    LET names == IF absent # {} THEN absent ELSE conflicts
    IN  [status |-> IF absent # {} THEN "artifact-unavailable"
                    ELSE IF conflicts # {} THEN "resolution-failed"
                    ELSE "unverified",
         complete |-> names # {}, known |-> TRUE, packages |-> {},
         names |-> names, reqs |-> {r \in active : r.name \in names},
         snapshot |-> inventory]

ReviewedFailure(failure) == failure.code = 1 /\ failure.clean

ReadFailure(failure) ==
    IF ReviewedFailure(failure)
    THEN FailureResult(AbsentNames(failure, ClosedNames), QuotedConflicts(failure))
    ELSE FailureResult({}, {})

(***************************************************************************)
(* Validation: a result that contradicts the exact evidence is unverified  *)
(***************************************************************************)
ShapeValid(r) ==
    \/ ~case.resolve /\ r.status = "not-requested" /\ r.complete /\ ~r.known
          /\ r.packages = {}
    \/ /\ case.resolve
       /\ \/ r.status = "succeeded" /\ r.complete /\ r.known
          \/ r.status \in Negative /\ r.complete /\ r.known /\ r.packages = {}
          \/ r.status = "timed-out" /\ ~r.complete /\ r.packages = {}
          \/ r.status = "unverified" /\ ~r.complete /\ (r.packages = {} \/ r.known)

Corroborated(r) ==
    \/ r.status \notin Negative
    \/ /\ case.builtin /\ r.names # {} /\ r.reqs # {}
       /\ r.reqs = {q \in active : q.name \in r.names}
       /\ r.snapshot = inventory
       /\ IF r.status = "resolution-failed"
          THEN r.names \subseteq ConflictingNames(active)
          ELSE ~case.network /\ r.names \subseteq
                  UnavailableNames(active, inventory, case.kind)

PartialProvenance(r) ==
    \A p \in r.packages : p.used = {} \/ IsBound(p, inventory)

SatisfiesRoot(packages, n) ==
    Single({p \in packages : p.name = n /\
        PackageMeetsVersions(p, GroupOf(active, n), inventory)})

TargetBound(p, a) ==
    /\ IsBound(p, inventory)
    /\ Single(p.used)
    /\ a.status = "compatible" /\ a.used = p.used

SuccessBound(r) ==
    /\ \A p \in r.packages :
          TargetBound(p, Assess(ArtifactsOf(p, inventory),
                                RequestedExtras(GroupOf(active, p.name))))
    /\ \A n \in NamesOf(active) : SatisfiesRoot(r.packages, n)

Validated(r) ==
    IF RepeatsName(r.packages) \/ ~ShapeValid(r) \/ ~Corroborated(r)
          \/ ~PartialProvenance(r)
    THEN Unverified(FALSE, {})
    ELSE IF r.status # "succeeded" \/ SuccessBound(r) THEN r
    ELSE [r EXCEPT !.status = "unverified", !.complete = FALSE]

(***************************************************************************)
(* Collecting: the roots, and where the result comes from                  *)
(***************************************************************************)
Init ==
    /\ \E setup \in Setups : setups = {setup}
    /\ case = NoCase
    /\ pc = "configure"
    /\ position = 0 /\ inventory = {} /\ issues = {}
    /\ budget = [expanded |-> MaxExpanded, requires |-> MaxRequires]
    /\ active = {} /\ altered = {} /\ staged = {} /\ uv = "unknown"
    /\ result = Unverified(FALSE, {})
    /\ groups = Nothing /\ extrasOf = Nothing /\ pending = {} /\ assessed = Nothing
    /\ rows = Nothing /\ evidence = {} /\ declared = Nothing
    /\ transitive = Nothing /\ exit = "none"

\* A report has a row for every target; this follows one of them.
Configure(setup) ==
    /\ pc = "configure"
    /\ IF SetupRefused(setup) THEN pc' = "refused" /\ UNCHANGED case
       ELSE /\ \E n \in DOMAIN setup.table.targets :
                  case' = CaseOf(setup, setup.table.targets[n])
            /\ pc' = "inspect"
    /\ setups' = {}
    /\ UNCHANGED <<position, inventory, issues, budget, active, adapterVars, result,
                   worklistVars, reportVars>>

(***************************************************************************)
(* Inspecting the configured files in their order                          *)
(***************************************************************************)
File == case.files[position + 1]

EarlierPaths == {case.files[n].path : n \in 1..position}

\* Mutant: a file that is too large takes nothing.
SpendIfEnough(left, amount) == IF amount > left THEN left ELSE left - amount

\* An empty budget stays empty: nothing later can spend what is left.
Spend(left, amount) == IF amount > left THEN 0 ELSE left - amount

\* An exhausted Requires-Dist budget and a repeated file end the operation.
InspectionRefused ==
    \/ File.path \in EarlierPaths
    \/ EntriesOf(File, budget.expanded) > budget.requires
    \/ Readable(File, budget.expanded) /\ File.content \in {a.id : a \in inventory}

SpendOn(file) ==
    [expanded |-> Spend(budget.expanded, ExpansionOf(file, budget.expanded)),
     requires |-> budget.requires - EntriesOf(file, budget.expanded)]

InspectFile ==
    /\ pc = "inspect" /\ position < Len(case.files)
    /\ ~InspectionRefused
    /\ budget' = SpendOn(File)
    /\ position' = position + 1
    /\ IF Readable(File, budget.expanded)
       THEN inventory' = inventory \cup {ArtifactOf(File, case.target)} /\ UNCHANGED issues
       ELSE issues' = issues \cup {File.path} /\ UNCHANGED inventory
    /\ UNCHANGED <<setups, case, pc, active, adapterVars, result, worklistVars, reportVars>>

\* The file is missing, changes while it is read, or is too large; or the
\* inspection is refused.  There is no report then.
InspectionFails ==
    /\ pc = "inspect" /\ position < Len(case.files)
    /\ pc' = "refused"
    /\ UNCHANGED <<inputs, active, adapterVars, result, worklistVars, reportVars>>

\* What the markers of the roots and of the inspected metadata may cost.
CollectionUnits ==
    case.targets * (Passes(case.resolve) * MarkerUnits(case.roots, case.extras)
        + FoldSet(LAMBDA a, sum : sum + MarkerUnits(a.needs, case.extras), 0, inventory))

Inspected ==
    /\ pc = "inspect" /\ position = Len(case.files)
    /\ pc' = IF CollectionUnits > Limits.markers THEN "refused" ELSE "start"
    /\ UNCHANGED <<inputs, active, adapterVars, result, worklistVars, reportVars>>

EvaluateRoots ==
    /\ pc = "start"
    /\ IF \E r \in case.roots : ~Evaluable(r)
       THEN pc' = "refused" /\ active' = {}
       ELSE /\ active' = {r \in case.roots : Applies(r, case.extras)}
            /\ pc' = "choose"
    /\ UNCHANGED <<inputs, adapterVars, result, worklistVars, reportVars>>

Answer(r) ==
    /\ result' = r
    /\ pc' = "validate"
    /\ UNCHANGED <<inputs, active, altered, worklistVars, reportVars>>

NoResolution ==
    /\ pc = "choose"
    /\ ~case.resolve \/ issues # {}
    /\ Answer(IF case.resolve THEN Unverified(FALSE, {}) ELSE NotRequested)
    /\ UNCHANGED <<staged, uv>>

AskInjected ==
    /\ pc = "choose"
    /\ case.resolve /\ issues = {} /\ ~case.builtin
    /\ \E r \in Injected : Answer(r)
    /\ UNCHANGED <<staged, uv>>

(***************************************************************************)
(* The uv adapter                                                          *)
(***************************************************************************)
EnterAdapter ==
    /\ pc = "choose"
    /\ case.resolve /\ issues = {} /\ case.builtin
    /\ pc' = "adapter"
    /\ UNCHANGED <<inputs, active, adapterVars, result, worklistVars, reportVars>>

\* The target has no faithful uv arguments, the executable is missing or
\* inside the scanned root, or two file names differ only in case.
Decline ==
    /\ pc = "adapter"
    /\ Answer(Unverified(FALSE, {}))
    /\ UNCHANGED <<staged, uv>>

Accept ==
    /\ pc = "adapter"
    /\ Canonical(case.target) /\ ~case.clash
    /\ pc' = "stage"
    /\ UNCHANGED <<inputs, active, adapterVars, result, worklistVars, reportVars>>

\* Another process rewrites an inspected artifact; bounded to one of them.
Rewrite(a) ==
    /\ pc \in {"adapter", "stage"}
    /\ altered = {}
    /\ altered' = {a.id}
    /\ UNCHANGED <<inputs, pc, active, staged, uv, result, worklistVars, reportVars>>

BytesOf(a) == IF a.id \in altered THEN "rewritten" ELSE "inspected"

Copy(a) ==
    /\ staged' = staged \cup {[id |-> a.id, bytes |-> BytesOf(a)]}
    /\ UNCHANGED <<inputs, pc, active, altered, uv, result, worklistVars, reportVars>>

\* Mutant: the copy is not compared with the inspected digest.
StageUnchecked(a) ==
    /\ pc = "stage"
    /\ a.id \notin {s.id : s \in staged}
    /\ Copy(a)

Stage(a) ==
    /\ pc = "stage"
    /\ a.id \notin {s.id : s \in staged}
    /\ \/ BytesOf(a) = "inspected" /\ Copy(a)
       \/ BytesOf(a) # "inspected" /\ Answer(Unverified(FALSE, {}))
             /\ UNCHANGED <<staged, uv>>

AllStaged == {a.id : a \in inventory} = {s.id : s \in staged}

\* uv --version: the exact release is reviewed, of a reviewed series, or not.
Probe ==
    /\ pc = "stage" /\ AllStaged
    /\ uv' \in {"reviewed", "series", "other"}
    /\ pc' = "compile"
    /\ UNCHANGED <<inputs, active, altered, staged, result, worklistVars, reportVars>>

ProbeFails ==
    /\ pc = "stage" /\ AllStaged
    /\ \/ Answer(Unverified(FALSE, {}))
       \/ Answer(Plain("timed-out", FALSE, FALSE, {}))
    /\ UNCHANGED <<staged, uv>>

CompileSucceeds ==
    /\ pc = "compile"
    /\ \E lock \in Locks : Answer(ReadLock({PackageOf(pick) : pick \in lock}))
    /\ UNCHANGED <<staged, uv>>

CompileFails ==
    /\ pc = "compile"
    /\ \E failure \in Failures : Answer(ReadFailure(failure))
    /\ UNCHANGED <<staged, uv>>

\* The deadline passes, or the output is lost, too long or malformed.
CompileBreaks ==
    /\ pc = "compile"
    /\ \/ Answer(Unverified(TRUE, {}))
       \/ Answer(Plain("timed-out", FALSE, TRUE, {}))
    /\ UNCHANGED <<staged, uv>>

Validate ==
    /\ pc = "validate"
    /\ result' = Validated(result)
    /\ pc' = IF case.roots = {} THEN "sample" ELSE "group"
    /\ UNCHANGED <<inputs, active, adapterVars, worklistVars, reportVars>>

(***************************************************************************)
(* Assessing the candidates to a fixed point                               *)
(***************************************************************************)
GroupBy(artifacts) ==
    [k \in {Key(a) : a \in artifacts} |-> OfVersion(artifacts, k)]

Cited == {a \in inventory : \E p \in result.packages : a.id \in p.used}

\* Validation has bound every package of a selection to its artifacts.
Candidates ==
    IF Selected(result) THEN Cited ELSE DirectArtifacts(inventory, active)

NameOfKey(k) == k[1]
VersionOfKey(k) == k[2]

MatchingRoots(k) ==
    {r \in GroupOf(active, NameOfKey(k)) : Accepts(r, VersionOfKey(k))}

InitialExtras(k, group) ==
    {x \in RequestedExtras(MatchingRoots(k)) : \A a \in Semantic(group) :
        "provides-extra" \notin a.dynamic /\ x \in a.extras}

IsRoot(k) ==
    /\ NameOfKey(k) \in NamesOf(active)
    /\ \E p \in result.packages :
          /\ KeyOf(p.name, p.version) = k
          /\ PackageMeetsVersions(p, GroupOf(active, p.name), inventory)

Group ==
    /\ pc = "group"
    /\ groups' = GroupBy(Candidates)
    /\ pc' = "seed"
    /\ UNCHANGED <<inputs, active, adapterVars, result, extrasOf, pending, assessed,
                   reportVars>>

Seed ==
    /\ pc = "seed"
    /\ extrasOf' = [k \in DOMAIN groups |-> InitialExtras(k, groups[k])]
    /\ pending' = IF Selected(result) THEN {k \in DOMAIN groups : IsRoot(k)}
                  ELSE DOMAIN groups
    /\ pc' = "assess"
    /\ UNCHANGED <<inputs, active, adapterVars, result, groups, assessed, reportVars>>

Eligible(r, group) ==
    /\ Semantic(group) # {}
    /\ \A a \in Semantic(group) :
          IF r.extras # {} THEN ArtifactMeets(a, {r}) ELSE ArtifactMeetsVersions(a, {r})

Requesters(row, k) ==
    {r \in row.needs : r.name = NameOfKey(k) /\ Accepts(r, VersionOfKey(k))
                        /\ Eligible(r, groups[k])}

\* Mutant: a version assessed once is not assessed again.
RequeueOnce(k, requests) ==
    {j \in DOMAIN groups : requests[j] # {} /\ j \notin DOMAIN assessed \cup {k}}

\* Mutant: a requested version is assessed again whether it gains extras or not.
RequeueAlways(k, requests) ==
    {j \in DOMAIN groups : requests[j] # {}}

\* What assessing version k asks of the other candidates.
Requeue(k, requests) ==
    {j \in DOMAIN groups : requests[j] # {} /\
        (j \notin DOMAIN assessed \cup {k}
            \/ ~(RequestedExtras(requests[j]) \subseteq extrasOf[j]))}

Record(k, row, requests) ==
    /\ assessed' = [j \in DOMAIN assessed \cup {k} |->
                      IF j = k THEN row ELSE assessed[j]]
    /\ extrasOf' = [j \in DOMAIN groups |->
                      extrasOf[j] \cup RequestedExtras(requests[j])]
    /\ pending' = (pending \ {k}) \cup Requeue(k, requests)

AssessNext(k) ==
    /\ pc = "assess"
    /\ k \in pending
    /\ LET row == Assess(groups[k], extrasOf[k])
       IN  Record(k, row, [j \in DOMAIN groups |-> Requesters(row, j)])
    /\ UNCHANGED <<inputs, pc, active, adapterVars, result, groups, reportVars>>

\* With no configured root every inspected version is assessed on its own.
AssessSample ==
    /\ pc = "sample"
    /\ groups' = GroupBy(inventory)
    /\ assessed' = [k \in {Key(a) : a \in inventory} |->
                      Assess(OfVersion(inventory, k), case.extras)]
    /\ pc' = "assess"
    /\ UNCHANGED <<inputs, active, adapterVars, result, extrasOf, pending, reportVars>>

(***************************************************************************)
(* The verdict on each assessed version                                    *)
(***************************************************************************)
Ambiguous(k) ==
    /\ case.roots # {} /\ ~Selected(result)
    /\ \E j \in DOMAIN groups : j # k /\ NameOfKey(j) = NameOfKey(k)

SampledRange(k, status) ==
    /\ case.kind = "library" /\ status = "declared-incompatible"
    /\ MatchingRoots(k) # {} /\ ~\E r \in MatchingRoots(k) : IsSingletonPin(r)

ClosureProven(k) ==
    /\ result.complete
    /\ \/ result.status = "succeeded"
       \/ result.status = "artifact-unavailable" /\ NameOfKey(k) \in result.names

Verdict(k, status) ==
    IF Ambiguous(k) \/ SampledRange(k, status) THEN "unverified"
    ELSE WithClosure(status, ClosureProven(k))

Judge ==
    /\ pc = "assess" /\ pending = {}
    /\ rows' = [k \in DOMAIN assessed |->
                  [assessed[k] EXCEPT !.status = Verdict(k, assessed[k].status)]]
    /\ pc' = "close"
    /\ UNCHANGED <<inputs, active, adapterVars, result, worklistVars, evidence, declared,
                   transitive, exit>>

(***************************************************************************)
(* Closure: a selection must be exactly what its roots need                *)
(***************************************************************************)
Needs == UNION {rows[k].needs : k \in DOMAIN rows}

ClosureHolds ==
    /\ DOMAIN rows = {KeyOf(p.name, p.version) : p \in result.packages}
    /\ \A n \in NamesOf(Needs) :
          Single({p \in result.packages : p.name = n /\
              PackageMeetsVersions(p, GroupOf(Needs, n), inventory)})

EvidenceArtifacts(artifacts) == IF Selected(result) THEN artifacts \cap Cited ELSE artifacts

SemanticArtifacts(artifacts) ==
    {a \in artifacts : a \in Semantic(OfVersion(artifacts, Key(a)))}

\* Mutant: an open closure lowers the result and leaves the assessments.
CloseResultOnly ==
    /\ pc = "close"
    /\ evidence' = SemanticArtifacts(EvidenceArtifacts(inventory))
    /\ result' = IF Selected(result) => ClosureHolds THEN result
                 ELSE [result EXCEPT !.status = "unverified", !.complete = FALSE]
    /\ pc' = "correlate"
    /\ UNCHANGED <<inputs, active, adapterVars, worklistVars, rows, declared, transitive,
                   exit>>

Close ==
    /\ pc = "close"
    /\ evidence' = SemanticArtifacts(EvidenceArtifacts(inventory))
    /\ IF Selected(result) => ClosureHolds
       THEN UNCHANGED <<result, rows>>
       ELSE /\ result' = [result EXCEPT !.status = "unverified", !.complete = FALSE]
            /\ rows' = [k \in DOMAIN rows |->
                  [rows[k] EXCEPT !.status = WithClosure(rows[k].status, FALSE)]]
    /\ pc' = "correlate"
    /\ UNCHANGED <<inputs, active, adapterVars, worklistVars, declared, transitive, exit>>

(***************************************************************************)
(* Correlation of every active requirement with the evidence               *)
(***************************************************************************)
MeetingVersions(artifacts, reqs) ==
    {a.version : a \in {b \in artifacts : ArtifactMeetsVersions(b, reqs)}}

\* Mutant: the requested extras are not looked at.
MeetingVersionsOnly(reqs) ==
    {p \in result.packages : PackageMeetsVersions(p, reqs, evidence)}

MeetingPackages(reqs) == {p \in result.packages : PackageMeets(p, reqs, evidence)}

RootVerified(n, g, versions) ==
    IF case.kind = "application" /\ ~Selected(result) /\ Cardinality(versions) > 1
    THEN FALSE
    ELSE IF /\ result.status = "resolution-failed" /\ result.complete
            /\ n \in ConflictingNames(active) \cap result.names
    THEN TRUE
    ELSE IF /\ case.kind = "library" /\ ~Selected(result)
            /\ \A r \in g : ~IsSingletonPin(r)
    THEN FALSE
    ELSE \/ MatchingMetadata(EvidenceArtifacts(evidence), g) # {}
         \/ Selected(result) /\ MeetingPackages(g) # {}
         \/ /\ result.status = "artifact-unavailable" /\ result.complete
            /\ n \in result.names
            /\ MeetingVersions(evidence, g) = {}

CorrelateRoots ==
    /\ pc = "correlate"
    /\ declared' = [n \in NamesOf(active) |->
          RootVerified(n, GroupOf(active, n),
                       MeetingVersions(EvidenceArtifacts(evidence), GroupOf(active, n)))]
    /\ pc' = "transitive"
    /\ UNCHANGED <<inputs, active, adapterVars, result, worklistVars, rows, evidence,
                   transitive, exit>>

MeetsLock(p, lock, common) ==
    case.kind = "library" \/ lock = {} \/ p.version \in common

NeedVerified(reqs, lock, matching) ==
    \/ /\ Selected(result)
       /\ \E p \in MeetingPackages(reqs) :
             MeetsLock(p, lock, {a.version : a \in matching})
    \/ /\ case.kind = "application" /\ lock # {}
       /\ Single({a.version : a \in matching})

CorrelateNeeds ==
    /\ pc = "transitive"
    /\ transitive' = [n \in NamesOf(Needs) |->
          NeedVerified(GroupOf(Needs, n), GroupOf(active, n),
              MatchingMetadata(EvidenceArtifacts(evidence),
                  GroupOf(Needs, n) \cup
                     (IF case.kind = "library" THEN {} ELSE GroupOf(active, n))))]
    /\ pc' = "exit"
    /\ UNCHANGED <<inputs, active, adapterVars, result, worklistVars, rows, evidence,
                   declared, exit>>

(***************************************************************************)
(* The exit code, and the writer's own check of a complete negative        *)
(***************************************************************************)
Statuses == {rows[k].status : k \in DOMAIN rows}

Incomplete ==
    \/ issues # {} \/ ~result.complete
    \/ \E n \in DOMAIN declared : ~declared[n]
    \/ \E n \in DOMAIN transitive : ~transitive[n]
    \/ result.status \in {"timed-out", "unverified"}
    \/ "unverified" \in Statuses

Incompatible ==
    \/ result.status \in Negative
    \/ {"declared-incompatible", "artifact-unavailable"} \cap Statuses # {}

Exit ==
    /\ pc = "exit"
    /\ exit' = IF Incomplete THEN "incomplete"
               ELSE IF Incompatible THEN "findings" ELSE "success"
    /\ pc' = "report"
    /\ UNCHANGED <<inputs, active, adapterVars, result, worklistVars, rows, evidence,
                   declared, transitive>>

VerifiedNames == {n \in DOMAIN declared : declared[n]}

FailedReportHolds ==
    case.resolve /\ result.names \subseteq ConflictingNames(active) \cap VerifiedNames

\* The cited artifacts are looked up in the inventory they came from.
UnavailableReportHolds ==
    /\ case.resolve /\ ~case.network /\ case.kind = "application"
    /\ result.names \subseteq
          UnavailableNames(active, inventory, case.kind) \cap VerifiedNames
    /\ \A k \in DOMAIN rows : rows[k].status = "artifact-unavailable" =>
          /\ NameOfKey(k) \in result.names
          /\ MatchingRoots(k) = GroupOf(active, NameOfKey(k))
          /\ rows[k].used # {}
    /\ "compatible" \notin Statuses

ReportHolds ==
    /\ result.status = "resolution-failed" => FailedReportHolds
    /\ result.status = "artifact-unavailable" => UnavailableReportHolds

WriteJson ==
    /\ pc = "report"
    /\ pc' = IF ReportHolds THEN "written" ELSE "rejected"
    /\ UNCHANGED <<inputs, active, adapterVars, result, worklistVars, reportVars>>

\* The marker and comparison budget of the operation runs out: no report.
Exhaust ==
    /\ pc \in {"start", "choose", "stage", "validate", "seed", "assess", "close", "correlate",
               "transitive"}
    /\ pc' = "refused"
    /\ UNCHANGED <<inputs, active, adapterVars, result, worklistVars, reportVars>>

Over == pc \in {"refused", "written", "rejected"}

Pipeline ==
    \/ \E setup \in setups : Configure(setup)
    \/ InspectFile \/ InspectionFails \/ Inspected
    \/ EvaluateRoots \/ NoResolution \/ AskInjected \/ EnterAdapter \/ Decline \/ Accept
    \/ \E a \in inventory : Stage(a)
    \/ Probe \/ ProbeFails \/ CompileSucceeds \/ CompileFails \/ CompileBreaks
    \/ Validate \/ Group \/ Seed \/ \E k \in pending : AssessNext(k)
    \/ AssessSample \/ Judge \/ Close \/ CorrelateRoots \/ CorrelateNeeds
    \/ Exit \/ WriteJson \/ Exhaust

Next == Pipeline \/ \E a \in inventory : Rewrite(a)

Spec == Init /\ [][Next]_vars /\ WF_vars(Pipeline)

(***************************************************************************)
(* Properties                                                              *)
(***************************************************************************)
Statuses5 == {"compatible", "declared-incompatible", "artifact-unavailable", "unverified"}

\* Types of the state.
TypeOK ==
    /\ active \subseteq case.roots
    /\ position \in 0..Len(case.files)
    /\ budget.expanded \in 0..MaxExpanded /\ budget.requires \in 0..MaxRequires
    /\ pc \in {"configure", "inspect", "start", "choose", "adapter", "stage", "compile",
               "validate", "group", "seed", "sample", "assess", "close", "correlate", "transitive", "exit", "report",
               "written", "rejected", "refused"}
    /\ uv \in {"unknown", "reviewed", "series", "other"}
    /\ pending \subseteq DOMAIN groups
    /\ DOMAIN assessed \subseteq DOMAIN groups
    /\ \A k \in DOMAIN rows : rows[k].status \in Statuses5
    /\ evidence \subseteq inventory
    /\ exit \in {"none", "incomplete", "findings", "success"}

Reported == pc \in {"report", "written", "rejected"}

SystemOf == [linux |-> "linux", win |-> "win32", macosx |-> "darwin"]

\* What the interpreter of a target runs (PEP 425); where no glibc is declared
\* any may be there.
Runs(tag, target) ==
    \/ tag.python = "py" /\ tag.minor <= target.minor /\ tag.abi[1] = "none"
    \/ /\ target.implementation = "cpython" /\ tag.python = "cp"
       /\ \/ tag.minor <= target.minor /\ tag.abi[1] = "abi3"
          \/ tag.minor = target.minor /\ tag.abi[1] \in {"none", "cp"}
    \/ target.implementation = "pypy" /\ tag.python = "pp" /\ tag.minor = target.minor

Loads(tag, target) ==
    \/ tag.family = "any"
    \/ /\ target.markers.sys = SystemOf[tag.family]
       /\ \/ tag.machine = target.markers.machine
          \/ tag.family = "macosx" /\ tag.machine = "universal2"
       /\ tag.family # "linux" \/ target.platform.glibc = 0
             \/ tag.glibc <= target.platform.glibc

\* The files an artifact can have been read from: they hold the same bytes.
Sources(a) == {f \in ToSet(case.files) : f.content = a.id /\ KindOf(f) = a.kind}

\* By what the wheel itself says, whatever it is named.
Usable(a) ==
    /\ a.kind = "wheel"
    /\ \E f \in Sources(a) :
          /\ f.core.python # <<"excludes">>
          /\ \E n \in DOMAIN f.wheel.tags : \E tag \in f.wheel.tags[n] :
                Runs(tag, case.target) /\ Loads(tag, case.target)

MetBy(p, r) == p.name = r.name /\ Accepts(r, p.version)

\* A version is called compatible only when a completed resolution selected
\* exactly one wheel of it that the declared interpreter runs, every root of its name
\* accepts it, the built-in resolver saw its inspected bytes, and a selected
\* package meets each of its needs (_assessment.py _assessment_with_closure,
\* _resolution.py _resolver_success_is_provenance_bound and
\* _validated_resolver_closure).
CompatibleIsSelected ==
    Reported => \A k \in DOMAIN rows : rows[k].status = "compatible" =>
        \E p \in result.packages :
            /\ Selected(result) /\ KeyOf(p.name, p.version) = k
            /\ \A a \in ArtifactsOf(p, inventory) :
                  /\ p.used = {a.id} /\ Usable(a)
                  /\ case.builtin => [id |-> a.id, bytes |-> "inspected"] \in staged
            /\ \A r \in GroupOf(active, p.name) : Accepts(r, p.version)
            /\ \A r \in rows[k].needs : \E q \in result.packages : MetBy(q, r)

Provides(p, extras) ==
    \E a \in inventory : a.id \in p.used /\ Usable(a) /\ extras \subseteq a.extras

\* What the packages of the selection ask for, seen from the selection alone.
WantedExtras(p, reqs) == UNION {r.extras : r \in {q \in reqs : MetBy(p, q)}}

SelectionNeeds(p, reqs) ==
    {r \in UNION {a.needs : a \in ArtifactsOf(p, inventory)} :
        r.when \in {"always"} \cup WantedExtras(p, reqs)}

\* Exit code 0 means the roots can be installed: each active root, and each
\* entry the selected wheels declare under the extras asked of them, is met by
\* one selected wheel that runs on the target and provides the extras asked
\* for (_report.py DependencyReport.exit_code over every row).
SuccessIsInstallable ==
    exit = "success" =>
        \A r \in active \cup
                  UNION {SelectionNeeds(p, active \cup Needs) : p \in result.packages} :
            \E p \in result.packages : MetBy(p, r) /\ Provides(p, r.extras)

\* The Python is excluded for good: wheels always say so, and others where a
\* field that is not called dynamic is final.
Excludes(a) ==
    \E f \in Sources(a) :
        /\ f.core.python = <<"excludes">>
        /\ a.kind = "wheel" \/ f.core.schema[1] >= StaticSchema
        /\ \A n \in DOMAIN f.core.dynamic : f.core.dynamic[n] # "requires-python"

\* A reported incompatibility is a fact about the inputs: no version at all
\* meets a failed group, no inspected wheel of the target meets an unavailable
\* one, and every artifact that could be installed on the target excludes its
\* Python (usage.md, the result categories).  In particular a timeout, a
\* broken pipe or unreviewed text never becomes one.
NegativeIsReal ==
    Reported =>
        /\ result.status = "resolution-failed" => \A n \in result.names :
              \A v \in 0..99 : ~AcceptedByAll(GroupOf(active, n), v)
        /\ result.status = "artifact-unavailable" => \A n \in result.names :
              ~\E a \in MatchingWheels(inventory) :
                  ArtifactMeetsVersions(a, GroupOf(active, n))
        /\ \A k \in DOMAIN rows : rows[k].status = "declared-incompatible" =>
              /\ \E a \in inventory : Key(a) = k /\ Excludes(a)
              /\ \A a \in inventory :
                    Key(a) = k /\ (a.kind # "wheel" \/ a.fits) => Excludes(a)

Configured == {case.files[n].content : n \in 1..Len(case.files)}

\* A complete answer of the built-in resolver is about the inspected bytes of
\* everything that was configured: every file was inspected and staged, and
\* none with bytes written since its inspection (_metadata.py
\* inspect_dependency_metadata, _uv.py _stage_resolver_artifacts).
CompleteIsInspected ==
    case.resolve /\ case.builtin /\ result.complete =>
        /\ Configured = {s.id : s \in staged}
        /\ \A s \in staged : s.bytes = "inspected"

\* What reading a file takes, and what reading the files at the positions took.
Whole(file) == PayloadCost(file) + (IF IsWheel(file) THEN StructureCost(file) ELSE 0)
CostOf(S) == FoldSet(LAMBDA n, sum : sum + Whole(case.files[n]), 0, S)

ReadPositions == {n \in 1..position : case.files[n].path \notin issues}

\* The metadata that was read never cost more than the aggregate limit, and a
\* file that only the limit kept from being read leaves no later archive
\* readable, however small (_model.py _WorkBudget.consume); each such file is
\* an issue of the report.
ExhaustedStaysExhausted ==
    pc \in {"inspect", "start"} =>
    /\ CostOf(ReadPositions) + budget.expanded <= MaxExpanded
    /\ \A m, n \in 1..position :
          LET file == case.files[m]
          IN  /\ m < n /\ Whole(case.files[n]) > 0
              /\ Readable(file, Whole(file)) /\ file.path \in issues
              => case.files[n].path \in issues

\* When the work list is empty every assessment was made with all the extras
\* asked of its version, and what it needs has been assessed too
\* (_assessment.py _propagated_dependency_assessments).
AssessmentsAreFresh ==
    pc = "assess" /\ pending = {} /\ case.roots # {} =>
        \A k \in DOMAIN assessed :
            /\ assessed[k] = Assess(groups[k], extrasOf[k])
            /\ \A r \in assessed[k].needs : \A j \in DOMAIN groups :
                  r \in Requesters(assessed[k], j) =>
                      j \in DOMAIN assessed /\ r.extras \subseteq extrasOf[j]

\* A report is never lost in a cycle of extras: the operation ends.
ReportEnds == <>Over

\* "Reject forged complete-negative models before machine serialization"
\* (_report.py _validate_dependency_report_semantics): a report the program
\* collected itself is never rejected when it is written.
OwnReportAccepted == pc # "rejected"
=============================================================================
