------------------------------ MODULE Findings ------------------------------
(***************************************************************************)
(* From matches to findings, gate and baseline:                            *)
(* src/pyahead/analysis/findings.py, timeline.py, baseline.py, the gate of *)
(* model.py and the check and baseline commands of cli.py, over a project  *)
(* that is edited while its baseline stays behind.                         *)
(*                                                                         *)
(* A site is one construct of the project's source with everything the     *)
(* matchers record for it; one rule and subject per site.  The enclosing   *)
(* scope is part of the path.  The first name of every subject is also the *)
(* name of a nested module of the project, so a change of sys.path always  *)
(* puts the origin of a subject in doubt.  A check starts from a setup, as *)
(* Configuration has it; a refused setup reports nothing.                  *)
(***************************************************************************)
EXTENDS Configuration

CONSTANTS
  Sites,      \* constructs the source may contain
  Path,       \* the file and scope of each
  RuleOf,     \* the rule each matches
  Raw,        \* the StaticMatches recorded for each
  Mutates,    \* the sys.path mutations each performs
  Rules,      \* the rules: usage contexts, events, and whether the subject is a module
  Setups,     \* the options and the configuration files in use
  Initial,    \* the sources a project may start with
  MaxEdits    \* bound: changes to the project

ASSUME FindingsAssumption ==
  /\ Sites = DOMAIN Path /\ Sites = DOMAIN Raw /\ Sites = DOMAIN RuleOf
  /\ MaxEdits \in Nat
  /\ Initial \subseteq Seq(Sites)

\* What is recorded for one construct is recorded in one lexical state: matches of
\* one kind are reachable on the same versions and under the same unknown guards.
ASSUME RawAssumption ==
  \A s \in Sites :
    /\ Raw[s] \subseteq [kind : {"use", "import"}, confidence : {"medium", "high"},
                        versions : SUBSET Nat, contexts : SUBSET {"runtime", "typing"},
                        unknown : SUBSET Nat, links : SUBSET Sites]
    /\ \A l \in Raw[s], m \in Raw[s] :
         l.kind = m.kind => l.versions = m.versions /\ l.unknown = m.unknown

Impacts == {"informational", "deprecated", "risk", "breaking"}

ASSUME RulesAssumption ==
  \A s \in Sites :
    LET events == Rules[RuleOf[s]].events
    IN  IsFiniteSet(events) /\ \A e \in events : e.python \in Nat /\ e.impact \in Impacts

\* What config.py and cli.py read is of its type where it is not refused.
ASSUME SetupsAssumption ==
  \A s \in Setups : ~Refused(s) =>
    /\ Effective(s, "minimum") \in {"low", "medium", "high"}
    /\ Declares(s) => Declaration(s) \subseteq Clauses

VARIABLES
  source,      \* the sites in source order
  muted,       \* sites with a suppression
  unreadable,  \* files that cannot be analysed
  setup,       \* the options and the configuration file
  policy,      \* what is in effect of them
  baseline,    \* fingerprints in the baseline file
  taken,       \* history: what the baseline was created from
  edits        \* changes so far

vars == <<source, muted, unreadable, setup, policy, baseline, taken, edits>>

Paths == {Path[s] : s \in Sites}
Project == [source |-> source, muted |-> muted, unreadable |-> unreadable, policy |-> policy]

-----------------------------------------------------------------------------
(* What a scan collects from the files it can read.                         *)

Analysed(scan) ==
  {scan.source[n] : n \in {k \in 1..Len(scan.source) : Path[scan.source[k]] \notin scan.unreadable}}

Targets(scan) == scan.policy.targets
High(scan) == scan.policy.minimum = "high"
Rank(confidence) == CASE confidence = "medium" -> 1 [] confidence = "high" -> 2

\* state_for_version: the latest event that has happened.
Events(rule, v) == {e \in Rules[rule].events : e.python <= v}
HasState(rule, v) == Events(rule, v) # {}
ImpactAt(rule, v) ==
  (CHOOSE e \in Events(rule, v) : \A f \in Events(rule, v) : f.python <= e.python).impact

Gone(rule, v) == \E e \in Events(rule, v) : e.kind = "removed"

\* Import-derived mutations of sys.path that a target can reach.
Mutations(scan) ==
  UNION {{m \in Mutates[s] : m.versions \cap Targets(scan) # {}} : s \in Analysed(scan)}

MutatedBy(scan, operation) ==
  UNION {m.versions \cap Targets(scan) : m \in {x \in Mutations(scan) : x.operation = operation}}

\* The versions on which sys.path is changed, for each way of changing it.
Mutated(scan) == [insert |-> MutatedBy(scan, "insert"), append |-> MutatedBy(scan, "append")]

-----------------------------------------------------------------------------
(* dynamic_path_adjustments: a module of the project may take the name of   *)
(* the subject's where sys.path was changed.                                *)

Adjusted(scan, mutated, rule, m) ==
  LET reachable == m.versions \cap Targets(scan)
      shadowed == reachable \cap mutated.insert # {}
      appended == IF Rules[rule].module THEN mutated.append ELSE {}
      versions == {v \in reachable : ~Gone(rule, v) \/ v \notin appended}
      unaffected == versions \ mutated.insert
  IN  IF ~shadowed THEN [m EXCEPT !.versions = versions]
      ELSE IF High(scan) /\ \E v \in unaffected : HasState(rule, v)
      THEN [m EXCEPT !.versions = unaffected]
      ELSE [m EXCEPT !.versions = versions, !.confidence = "medium"]

\* deduplicate_matches: the matches of one site are one match; an import of a
\* symbol gives way to any other kind.
Uses(s) == {m \in Raw[s] : m.kind = "use"}
Imports == {s \in Sites : Uses(s) = {} /\ Raw[s] # {}}
IsImport(s) == s \in Imports
Kept(s) == IF IsImport(s) THEN Raw[s] ELSE Uses(s)

Merge(s, merged) ==
  [site |-> s,
   versions |-> UNION {m.versions : m \in merged},
   contexts |-> UNION {m.contexts : m \in merged},
   unknown |-> UNION {m.unknown : m \in merged},
   links |-> UNION {m.links : m \in merged},
   confidence |-> IF \E m \in merged : m.confidence = "high" THEN "high" ELSE "medium"]

Match(scan, mutated, s) ==
  Merge(s, {Adjusted(scan, mutated, RuleOf[s], m) : m \in Kept(s)})

\* What is recorded: one match for each site.
Matching(scan) == {s \in Analysed(scan) : Raw[s] # {}}
MatchesUnder(scan, mutated) == {Match(scan, mutated, s) : s \in Matching(scan)}
Matches(scan) == MatchesUnder(scan, Mutated(scan))

-----------------------------------------------------------------------------
(* build_findings.                                                          *)

Position(scan, s) == CHOOSE n \in 1..Len(scan.source) : scan.source[n] = s
Alike(s, t) == Path[s] = Path[t] /\ RuleOf[s] = RuleOf[t] /\ IsImport(s) = IsImport(t)

\* A rule whose events are all deprecations is shown on request.
Scheduled(scan, rule) ==
  scan.policy.showUnscheduled \/ \E e \in Rules[rule].events : e.kind # "deprecated"

\* What passes the filters: confidence, usage context, timeline, schedule.
Passes(scan, m) ==
  LET rule == RuleOf[m.site] IN
  /\ Rank(m.confidence) >= Rank(scan.policy.minimum)
  /\ m.contexts \cap Rules[rule].contexts # {}
  /\ \E v \in m.versions : HasState(rule, v)
  /\ Scheduled(scan, rule)

Emitted(scan, matches) == {m \in matches : ~IsImport(m.site) /\ Passes(scan, m)}

\* Mutant: only the uses the gate looks at cover the import.
CoveredByUnsuppressed(scan, matches, m) ==
  UNION {u.versions : u \in {x \in Emitted(scan, matches) :
           x.site \in m.links /\ RuleOf[x.site] = RuleOf[m.site] /\ x.site \notin scan.muted}}

\* The versions an import leaves to the uses of its name that are reported.
Covered(scan, matches, m) ==
  UNION {u.versions : u \in {x \in Emitted(scan, matches) :
           x.site \in m.links /\ RuleOf[x.site] = RuleOf[m.site]}}

\* _uncovered_import.
Uncovered(scan, matches, m) ==
  LET versions == m.versions \ Covered(scan, matches, m)
  IN  IF High(scan) THEN [m EXCEPT !.versions = versions \ m.unknown]
      ELSE [m EXCEPT !.versions = versions,
                     !.confidence = IF versions \cap m.unknown # {} THEN "medium" ELSE @]

Considered(scan, matches) ==
  {IF IsImport(m.site) THEN Uncovered(scan, matches, m) ELSE m : m \in matches}

\* Mutant: the ordinal counts the findings before it.
OrdinalAfterFilters(scan, considered, s) ==
  Cardinality({m \in considered : /\ Alike(s, m.site) /\ Passes(scan, m)
                                  /\ Position(scan, m.site) < Position(scan, s)})

\* The ordinal counts the matches before it, reported or not.
Ordinal(scan, considered, s) ==
  Cardinality({m \in considered : /\ Alike(s, m.site)
                                  /\ Position(scan, m.site) < Position(scan, s)})

\* Mutant: occurrences are not told apart.
FingerprintWithoutOrdinal(scan, considered, s) ==
  [path |-> Path[s], rule |-> RuleOf[s], import |-> IsImport(s), ordinal |-> 0]

Fingerprint(scan, considered, s) ==
  [path |-> Path[s], rule |-> RuleOf[s], import |-> IsImport(s),
   ordinal |-> Ordinal(scan, considered, s)]

\* The findings, each with its versions and its identity.
FindingsAmong(scan, considered) ==
  {[site |-> m.site, versions |-> m.versions,
    fingerprint |-> Fingerprint(scan, considered, m.site)] :
     m \in {c \in considered : Passes(scan, c)}}

ConsideredFindings(scan, matches) == FindingsAmong(scan, Considered(scan, matches))
Report(scan) == ConsideredFindings(scan, Matches(scan))

-----------------------------------------------------------------------------
(* ScanReport.gate_failed and exit_code.                                    *)

Severity(impact) ==
  CASE impact = "informational" -> 0 [] impact = "deprecated" -> 1
    [] impact = "risk" -> 2          [] impact = "breaking" -> 3

Threshold(failOn) ==
  CASE failOn = "any" -> 0 [] failOn = "deprecated" -> 1 [] failOn = "risk" -> 2
    [] failOn = "breaking" -> 3

\* The impact of a finding is the worst of its states.
Reaches(rule, versions, level) ==
  \E v \in versions : HasState(rule, v) /\ Severity(ImpactAt(rule, v)) >= level

\* A comment suppresses what is found at a site, or a pattern of the configuration.
Muted(scan) ==
  scan.muted \cup {s \in Sites : \E i \in scan.policy.ignores : Path[s] = i.pattern /\ RuleOf[s] \in i.ids}

\* The findings the gate looks at.
Unsuppressed(scan, report) == {f \in report : f.site \notin Muted(scan)}

GateFailed(scan, report, known, newOnly) ==
  /\ scan.policy.failOn # "never"
  /\ \E f \in Unsuppressed(scan, report) :
       /\ newOnly => f.fingerprint \notin known
       /\ Reaches(RuleOf[f.site], f.versions, Threshold(scan.policy.failOn))

Incomplete(scan) == scan.unreadable # {} /\ ~scan.policy.allowIncomplete

\* Mutant: files that could not be analysed are forgotten.
ExitOfGate(scan, report, known, newOnly) ==
  IF GateFailed(scan, report, known, newOnly) THEN "findings" ELSE "success"

ExitCode(scan, report, known, newOnly) ==
  IF ~scan.policy.valid THEN "invalid input"
  ELSE IF Incomplete(scan) THEN "incomplete"
  ELSE IF GateFailed(scan, report, known, newOnly) THEN "findings"
  ELSE "success"

-----------------------------------------------------------------------------
(* The project.                                                             *)

Init ==
  /\ source \in Initial
  /\ muted = {} /\ unreadable = {} /\ edits = 0
  /\ setup \in Setups /\ policy = ResolvePolicy(setup)
  /\ baseline = {} /\ taken = <<>>

\* _create_baseline: unsuppressed findings of a scan made without a baseline.
Save(report) ==
  /\ baseline' = {f.fingerprint : f \in Unsuppressed(Project, report)}
  /\ taken' = <<[scan |-> Project, sites |-> {f.site : f \in Unsuppressed(Project, report)}]>>

CreateBaseline ==
  /\ policy.valid /\ ~Incomplete(Project) /\ taken = <<>>
  /\ Save(Report(Project))
  /\ UNCHANGED <<source, muted, unreadable, setup, policy, edits>>

Edit == edits < MaxEdits /\ edits' = edits + 1 /\ UNCHANGED <<baseline, taken>>

InsertSite(s) ==
  /\ Edit /\ \A k \in 1..Len(source) : source[k] # s
  /\ \E n \in 0..Len(source) :
       source' = SubSeq(source, 1, n) \o <<s>> \o SubSeq(source, n + 1, Len(source))
  /\ UNCHANGED <<muted, unreadable, setup, policy>>

RemoveSite(n) ==
  /\ Edit
  /\ source' = SubSeq(source, 1, n - 1) \o SubSeq(source, n + 1, Len(source))
  /\ muted' = muted \ {source[n]}
  /\ UNCHANGED <<unreadable, setup, policy>>

\* A comment is added or removed.
ToggleSuppression(s) ==
  /\ Edit /\ \E k \in 1..Len(source) : source[k] = s
  /\ muted' = IF s \in muted THEN muted \ {s} ELSE muted \cup {s}
  /\ UNCHANGED <<source, unreadable, setup, policy>>

BreakOrMend(p) ==
  /\ Edit
  /\ unreadable' = IF p \in unreadable THEN unreadable \ {p} ELSE unreadable \cup {p}
  /\ UNCHANGED <<source, muted, setup, policy>>

Configure ==
  /\ Edit /\ setup' \in Setups \ {setup} /\ policy' = ResolvePolicy(setup')
  /\ UNCHANGED <<source, muted, unreadable>>

Next ==
  \/ CreateBaseline \/ Configure
  \/ \E s \in Sites : InsertSite(s) \/ ToggleSuppression(s)
  \/ \E n \in 1..Len(source) : RemoveSite(n)
  \/ \E p \in Paths : BreakOrMend(p)

Spec == Init /\ [][Next]_vars

-----------------------------------------------------------------------------
(* Properties.                                                              *)

Before(scan, s) ==
  {t \in Matching(scan) : Alike(s, t) /\ Position(scan, t) < Position(scan, s)}

\* A baselined finding is recognised as long as no occurrence of the same rule
\* came or went before it in its scope, whatever became of the configuration,
\* the suppressions and the rest of the project ("Fingerprint identity is
\* established before finding-emission filters" in build_findings).
BaselinedStaysKnown ==
  \A n \in 1..Len(taken) : \A f \in Report(Project) :
    /\ f.site \in taken[n].sites
    /\ Before(Project, f.site) = Before(taken[n].scan, f.site)
    => f.fingerprint \in baseline

\* A gate on new findings lets no more findings of a rule through in a scope
\* than the baseline recorded there (_fingerprint, gate_failed): two
\* occurrences are never taken for one.
GateCountsOccurrences ==
  LET report == Report(Project)
      found == Unsuppressed(Project, report)
  IN
  /\ policy.failOn = "any" /\ ~Incomplete(Project)
  /\ ~GateFailed(Project, report, baseline, TRUE)
  => \A f \in found :
       Cardinality({g \in found : Alike(f.site, g.site)}) <=
         Cardinality({b \in baseline : [b EXCEPT !.ordinal = 0] =
                                          [f.fingerprint EXCEPT !.ordinal = 0]})

\* The versions a check speaks for: unless the command line or the configuration sets
\* where the policy begins, every supported minor version of which requires-python
\* admits some release, up to where the policy ends.
Releases3 == 0..6 \cup {Far}
Promised ==
  IF ~policy.valid \/ ~Infers(setup) THEN policy.targets
  ELSE {v \in Lowest(Supported)..Highest(policy.targets) :
          \E p \in Releases3 : Admitted(Declaration(setup), v, p)}

\* Those on which a match of a site fails to do what it did before, as far as the
\* threshold admits them.
Affected(promised, mutated, m, s) ==
  {v \in m.versions \cap promised :
     /\ HasState(RuleOf[s], v) /\ m.contexts \cap Rules[RuleOf[s]].contexts # {}
     /\ ~(Rules[RuleOf[s]].module /\ Gone(RuleOf[s], v) /\ v \in mutated.append)
     /\ High(Project) => /\ m.confidence = "high" /\ v \notin m.unknown
                         /\ v \notin mutated.insert}

\* Nothing is lost between the matches and the findings: every affected version
\* of every match is one its own finding reports or, for an import, one a
\* reported use of the imported name reports (deduplicate_matches,
\* dynamic_path_adjustments, _uncovered_import and the filters).
EverythingReported ==
  LET report == Report(Project)
      mutated == Mutated(Project)
      promised == Promised
      Tells(s, v) == \E f \in report : f.site = s /\ v \in f.versions
  IN  \A s \in Matching(Project) : Scheduled(Project, RuleOf[s]) =>
        \A m \in Kept(s) : \A v \in Affected(promised, mutated, m, s) :
          \/ Tells(s, v)
          \/ \E t \in UNION {k.links : k \in Kept(s)} : ~IsImport(t) /\ Tells(t, v)

\* A fresh baseline keeps the gate on new findings quiet while the source is not
\* edited: also when suppressions are added, as docs/usage.md has it
\* ("Suppressing or baselining an existing use does not create a duplicate import
\* blocker"), and when targets are dropped from the policy.
UneditedIsQuiet ==
  \A n \in 1..Len(taken) :
    LET then == taken[n].scan IN
    /\ source = then.source /\ unreadable = then.unreadable
    /\ Muted(then) \subseteq Muted(Project)
    /\ policy.targets \subseteq then.policy.targets
    /\ policy.minimum = then.policy.minimum
    /\ policy.showUnscheduled => then.policy.showUnscheduled
    => ~GateFailed(Project, Report(Project), baseline, TRUE)

\* A successful check of everything there is to find, without a baseline, is
\* a project without an unsuppressed site that an interpreter in the policy
\* would stumble on (exit_code, the precedence of incomplete scans).
SuccessIsClean ==
  /\ ExitCode(Project, Report(Project), {}, FALSE) = "success"
  /\ policy.failOn = "any" /\ policy.minimum = "medium" /\ ~policy.allowIncomplete
  => LET mutated == Mutated(Project)
         promised == Promised
     IN
     \A n \in 1..Len(source) :
       LET s == source[n] IN
       Scheduled(Project, RuleOf[s]) =>
         \A m \in Uses(s) : Affected(promised, mutated, m, s) # {} => s \in Muted(Project)
=============================================================================
