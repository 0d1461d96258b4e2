--------------------------- MODULE WarningEvidence -------------------------
(***************************************************************************)
(* Warning evidence, from the pytest session that collects it              *)
(* (pytest_plugin.py) to the check that links it to static findings        *)
(* (evidence.py).  The two never meet: they share the artifact files, and  *)
(* a check may read them while a session empties or writes them.           *)
(*                                                                         *)
(* One session runs at a time.  It may be killed at any point, each of     *)
(* its atomic writes may fail, other plugins may unregister pytest's       *)
(* warning capture and register it again, the commit may move, and the     *)
(* artifacts of other jobs may be copied to the paths.                     *)
(***************************************************************************)
EXTENDS Naturals, Sequences, FiniteSets, FiniteSetsExt, SequencesExt

CONSTANTS
    Paths,        \* artifact paths; numbers, ordered as the path texts are
    Records,      \* sequence of the distinct warnings, in document order
    Early,        \* sets of warnings raised before the plugin is configured
    Environments, \* [implementation, minor] a session may run on
    Scans,        \* static reports a check may merge evidence into
    Selections,   \* sequences of --evidence paths a check may be given
    Delivered,    \* files of other jobs that may be copied to an artifact path
    Limits,       \* the byte, text, record and relationship bounds
    MaxSessions, MaxRaised, MaxToggles, MaxCommit  \* bounds of the model

ASSUME InputsAssumption ==
    /\ Selections \subseteq Seq(Paths) \ {<<>>}
    /\ \A S \in Early : S \subseteq DOMAIN Records /\ \A w \in S : Records[w].phase = "config"
    /\ Paths \subseteq Nat /\ Records \in Seq(Range(Records))
    /\ \A w \in DOMAIN Records :
          {Records[w].text, Records[w].line, Records[w].rendered} \subseteq Nat
    /\ {Limits.envelope, Limits.bytes, MaxRaised} \subseteq Nat

\* Lines count from 1, a finding's region does not end before it starts, and its
\* fingerprint is its own: it names the occurrence among those of the same rule (findings.py).
ASSUME ScansAssumption ==
    \A scan \in Scans :
        /\ IsFiniteSet(scan.findings) /\ scan.policy \subseteq Nat
        /\ \A f \in scan.findings :
              /\ f.from \in Nat \ {0} /\ f.to \in Nat /\ f.from <= f.to
              /\ \A t \in f.states : {t.from, t.to} \subseteq Nat
        /\ \A f, g \in scan.findings : f.fingerprint = g.fingerprint => f = g

VARIABLES
    files,    \* what each artifact path holds
    head,     \* the commit checked out
    session,  \* the pytest session
    count,    \* how many sessions were started
    owner,    \* ghost: the last session whose invalidation of a path succeeded
    check     \* the check that reads the artifacts

vars == <<files, head, session, count, owner, check>>

Warnings == DOMAIN Records

Absent == [kind |-> "absent"]
Tombstone == [kind |-> "empty"]
Ended == [pc |-> "ended"]
Idle == [pc |-> "idle"]
NoCommit == 0

(***************************************************************************)
(* The document of a session, and its size                                 *)
(***************************************************************************)

Total(f, S) == FoldSet(LAMBDA w, n : n + f[w], 0, S)

\* Occurrences of a document's warnings.
Occurrences(doc) == FoldLeft(LAMBDA n, item : n + item.occurrences, 0, doc.warnings)

\* A warning of a document: one of the two kinds, seen at least once.
Retained == [warning : {w \in Warnings : Records[w].kind # "other"}, occurrences : Nat \ {0}]

\* evidence_json_schema: what the published schema refuses in a document.
Malformed(doc) ==
    \/ Len(doc.warnings) > Limits.records
    \/ doc.commit = NoCommit
    \/ doc.warnings \notin Seq(Retained)

\* _check_completeness_claim.
Overclaims(doc) == doc.complete /\ doc.dropped # 0

Parsable(doc) == ~Overclaims(doc) /\ ~Malformed(doc)

\* Bytes of the canonical JSON: the envelope, one more for "false" than for
\* "true", and what each record renders to.
Size(doc) ==
    Limits.envelope + (IF doc.complete THEN 0 ELSE 1)
        + FoldLeft(LAMBDA n, item : n + Records[item.warning].rendered, 0, doc.warnings)

Within(doc) == Size(doc) <= Limits.bytes

\* The retained warnings in document order, with their counts.  A session
\* whose capture was found missing writes no document at all, so what
\* remains of its completeness is that nothing was dropped.
Document(s, env) ==
    LET upTo[n \in 0..Len(Records)] ==
          IF n = 0 THEN <<>>
          ELSE IF s.kept[n] = 0 THEN upTo[n - 1]
          ELSE Append(upTo[n - 1], [warning |-> n, occurrences |-> s.kept[n]])
    IN  [warnings |-> upTo[Len(Records)],
         complete |-> s.dropped = 0,
         dropped  |-> s.dropped,
         commit   |-> s.commit,
         env      |-> env]

\* The document cut to its first records, with the rest counted as dropped.
Truncated(doc, keep) ==
    [doc EXCEPT !.warnings = SubSeq(@, 1, keep),
                !.complete = FALSE,
                !.dropped  = @ + Occurrences(
                    [doc EXCEPT !.warnings = SubSeq(@, keep + 1, Len(@))])]

\* The search for the first length that does not fit.
FirstUnfit(doc) ==
    LET lengths == 0..Len(doc.warnings)
        Fit[r \in lengths \X lengths] ==
          LET middle == (r[1] + r[2]) \div 2
          IN  IF r[1] >= r[2] THEN r[1]
              ELSE IF Within(Truncated(doc, middle)) THEN Fit[<<middle + 1, r[2]>>]
              ELSE Fit[<<r[1], middle>>]
    IN  Fit[<<0, Len(doc.warnings)>>]

\* Binary search for the longest prefix that fits, from low to high.
LongestFit(doc) ==
    LET lengths == 0..Len(doc.warnings)
        Fit[r \in lengths \X lengths] ==
          LET middle == (r[1] + r[2] + 1) \div 2
          IN  IF r[1] >= r[2] THEN r[1]
              ELSE IF Within(Truncated(doc, middle)) THEN Fit[<<middle, r[2]>>]
              ELSE Fit[<<r[1], middle - 1>>]
    IN  Fit[<<0, Len(doc.warnings)>>]

\* A document is parsed before it is written, and the envelope must fit even
\* when no warning does.
Renderable(doc) == Parsable(doc) /\ (Within(doc) \/ Within(Truncated(doc, 0)))

Rendered(doc) == IF Within(doc) THEN doc ELSE Truncated(doc, LongestFit(doc))

(***************************************************************************)
(* The session                                                             *)
(***************************************************************************)

\* One warning the hook receives: only the two deprecation kinds count, a
\* record already kept gains an occurrence, and one too many or one too
\* long is counted without being kept.
Recorded(s, w) ==
    LET keeps   == {v \in Warnings : s.kept[v] > 0}
        full    == \/ Cardinality(keeps) >= Limits.records
                   \/ s.text + Records[w].text > Limits.text
        counted == [s EXCEPT !.raised = @ + 1]
    IN  IF Records[w].kind = "other" THEN s
        ELSE IF s.kept[w] > 0 THEN [counted EXCEPT !.kept[w] = @ + 1]
        ELSE IF full THEN [counted EXCEPT !.dropped = @ + 1]
        ELSE [counted EXCEPT !.kept[w] = 1, !.text = @ + Records[w].text]

\* The model follows a session until a check has read what it was given.
Unread == check = Idle \/ (check.pc = "loading" /\ check.next <= Len(check.selection))

\* pytest starts with the plugin loaded and an evidence path selected.  A
\* session that overlaps a check has started before it, if only just.
StartPytest(p) ==
    /\ session = Ended
    /\ count < MaxSessions
    /\ check = Idle
    /\ session' = [pc |-> "cmdline", path |-> p]
    /\ count' = count + 1
    /\ UNCHANGED <<files, head, owner, check>>

Emptied == [files EXCEPT ![session.path] = Tombstone]
Owned == [owner EXCEPT ![session.path] = count]

\* pytest_cmdline_main: loop-on-fail would replace the session without
\* configuring it, so the artifact is emptied here before it is refused.
CommandLine(loopOnFail) ==
    /\ session.pc = "cmdline"
    /\ Unread
    /\ session' = IF loopOnFail THEN Ended ELSE [session EXCEPT !.pc = "configure"]
    /\ \/ UNCHANGED <<files, owner>>          \* not wanted, or the write fails
       \/ loopOnFail /\ files' = Emptied /\ owner' = Owned
    /\ UNCHANGED <<head, count, check>>

\* The collector of a session, with the warnings pytest kept from before it
\* was registered replayed to it.
Registered(commit, early) ==
    LET s == [pc |-> "registered", path |-> session.path, commit |-> commit,
              capture |-> TRUE, toggles |-> 0, kept |-> [w \in Warnings |-> 0],
              text |-> 0, dropped |-> 0, raised |-> 0, missed |-> FALSE, left |-> MaxRaised]
    IN  FoldSet(LAMBDA w, acc : Recorded(acc, w), s, early)

\* Invalidation left until it is known that the session will collect.
ConfigureRefusingFirst(xdist, capture, commit, early) ==
    LET refused == xdist \/ ~capture \/ commit = NoCommit
    IN  /\ session.pc = "configure"
        /\ Unread
        /\ files' = IF refused THEN files ELSE Emptied
        /\ owner' = Owned
        /\ session' = IF refused THEN Ended ELSE Registered(commit, early)
        /\ UNCHANGED <<head, count, check>>

\* pytest_configure: invalidate first, then refuse xdist, a pytest without
\* warning capture, and a run whose commit nothing names.
Configure(xdist, capture, commit, early) ==
    LET refused == xdist \/ ~capture \/ commit = NoCommit
    IN  /\ session.pc = "configure"
        /\ Unread
        /\ files' = Emptied
        /\ owner' = Owned
        /\ session' = IF refused THEN Ended ELSE Registered(commit, early)
        /\ UNCHANGED <<head, count, check>>

\* The invalidation fails: a usage error, and nothing was collected.
ConfigureFails ==
    /\ session.pc = "configure"
    /\ Unread
    /\ session' = Ended
    /\ UNCHANGED <<files, head, count, owner, check>>

\* Another plugin takes the capture plugin out of, or back into, pytest.
ToggleCapture ==
    /\ session.pc \in {"registered", "running"}
    /\ Unread
    /\ session.toggles < MaxToggles
    /\ session' = [session EXCEPT !.capture = ~@, !.toggles = @ + 1]
    /\ UNCHANGED <<files, head, count, owner, check>>

\* _require_capture without capture: empty the artifact and stop.
CaptureMissing ==
    /\ ~session.capture
    /\ session' = Ended
    /\ files' \in {files, Emptied}

\* pytest_sessionstart; pytest never finishes a session whose start failed.
SessionStart ==
    /\ session.pc = "registered"
    /\ Unread
    /\ \/ CaptureMissing
       \/ /\ session.capture
          /\ session' = [session EXCEPT !.pc = "running"]
          /\ UNCHANGED files
    /\ UNCHANGED <<head, count, owner, check>>

\* A warning is raised: the hook sees it only while capture is active.
WarningRaised(w) ==
    /\ session.pc = "running"
    /\ Unread
    /\ session.left > 0
    /\ Records[w].phase # "config"
    /\ LET s == [session EXCEPT !.left = @ - 1]
       IN  session' = IF session.capture THEN Recorded(s, w)
                      ELSE [s EXCEPT !.missed = @ \/ Records[w].kind # "other"]
    /\ UNCHANGED <<files, head, count, owner, check>>

\* What a session leaves at its path; its number is for the properties.
Artifact(s, env) ==
    [kind |-> "document", form |-> "json", padding |-> 0, body |-> Rendered(Document(s, env)),
     session |-> count]

\* Capture is proven at the start of the session only.
SessionFinishUnproven(env) ==
    /\ session.pc = "running"
    /\ Unread
    /\ session' = Ended
    /\ files' = [files EXCEPT ![session.path] = Artifact(session, env)]
    /\ UNCHANGED <<head, count, owner, check>>

\* pytest_sessionfinish: the artifact is written if capture is still there,
\* its envelope fits and the atomic write succeeds.
SessionFinish(env) ==
    /\ session.pc = "running"
    /\ Unread
    /\ \/ CaptureMissing
       \/ /\ session.capture
          /\ session' = Ended
          /\ \/ UNCHANGED files
             \/ /\ Renderable(Document(session, env))
                /\ files' = [files EXCEPT ![session.path] = Artifact(session, env)]
    /\ UNCHANGED <<head, count, owner, check>>

\* The process is killed, wherever it is.
Killed ==
    /\ session # Ended
    /\ Unread
    /\ session' = Ended
    /\ UNCHANGED <<files, head, count, owner, check>>

\* The checkout moves; what a running session was told stays as it was.
Commit ==
    /\ head < MaxCommit
    /\ session = Ended
    /\ check = Idle
    /\ head' = head + 1
    /\ UNCHANGED <<files, session, count, owner, check>>

\* The artifact of another job is copied to a path.  It may come from any
\* commit and program, so that its text need not be canonical or even valid.
Deliver(p, file) ==
    /\ session = Ended
    /\ check = Idle
    /\ count < MaxSessions
    /\ count' = count + 1
    /\ files' = [files EXCEPT ![p] = [kind |-> "document", form |-> file.form, padding |-> file.padding,
                                      body |-> file.body, session |-> count']]
    /\ owner' = [owner EXCEPT ![p] = count']
    /\ UNCHANGED <<head, session, check>>

(***************************************************************************)
(* Linking: which findings a warning is about                              *)
(***************************************************************************)

Midpoint(f) == (f.from + f.to) \div 2

\* The median of the midpoints splits the findings of one file.
Center(S) ==
    CHOOSE c \in {Midpoint(f) : f \in S} :
        /\ Cardinality({f \in S : Midpoint(f) < c}) <= Cardinality(S) \div 2
        /\ Cardinality(S) \div 2 < Cardinality({f \in S : Midpoint(f) <= c})

\* A tree that asks the left side only for the findings that cross.
StabbedShallow(S, line) ==
    LET crossing == {f \in S : f.from <= Center(S) /\ Center(S) <= f.to}
    IN  IF S = {} THEN {} ELSE {f \in crossing : f.from <= line /\ line <= f.to}

\* The interval tree asked for one line.  A node keeps the findings that
\* cross its centre, sorted by start and by end: only one of the two orders
\* is read, up to the first finding that cannot contain the line.
Stabbed(S, line) ==
    LET At[T \in SUBSET S] ==
          IF T = {} THEN {}
          ELSE LET center   == Center(T)
                   crossing == {f \in T : f.from <= center /\ center <= f.to}
               IN  IF line < center
                   THEN {f \in crossing : f.from <= line} \cup At[{f \in T : f.to < center}]
                   ELSE IF line > center
                   THEN {f \in crossing : f.to >= line} \cup At[{f \in T : f.from > center}]
                   ELSE crossing
    IN  At[S]

Visible(scan) == {f \in scan.findings : scan.showSuppressed \/ ~f.suppressed}

Candidates(scan, w) ==
    IF Records[w].line = 0 THEN {}
    ELSE Stabbed({f \in Visible(scan) : f.file = Records[w].file}, Records[w].line)

Correlates(w, f) == {f.rule, f.subject, f.last} \cap Records[w].names # {}

Correlated(scan, w) == {f \in Candidates(scan, w) : Correlates(w, f)}

\* Why a warning that names a finding does not corroborate it.
Conflict(f, scan, env) ==
    LET spans == {t \in f.states : t.from <= env.minor /\ env.minor <= t.to}
    IN  IF env.implementation # "cpython" THEN "implementation"
        ELSE IF env.minor \notin scan.policy THEN "outside-policy"
        ELSE IF spans = {} THEN "no-state"
        ELSE IF \A t \in spans : t.state # "deprecated" THEN "state"
        ELSE "none"

Link(f, kind) == [finding |-> f.fingerprint, kind |-> kind]

\* The relationships of one warning: one finding named is a verdict, none
\* or several named is no more than a shared location.
Relationships(scan, w, env) ==
    IF Cardinality(Correlated(scan, w)) = 1
    THEN {Link(f, IF Conflict(f, scan, env) = "none" THEN "corroborates" ELSE "conflicts") :
             f \in Correlated(scan, w)}
    ELSE {Link(f, "location-only") : f \in Candidates(scan, w)}

(***************************************************************************)
(* The check that merges evidence                                          *)
(***************************************************************************)

\* merge_evidence for the commit checked out now.
CheckStart(selection) ==
    /\ check = Idle
    /\ check' = IF Len(selection) > Limits.artifacts
                THEN [pc |-> "refused"]
                ELSE [pc |-> "loading", commit |-> head, selection |-> selection, next |-> 1,
                      bytes |-> 0, warnings |-> 0, read |-> {}, artifacts |-> {}]
    /\ UNCHANGED <<files, head, session, count, owner>>

\* The artifact that was loaded first stands for its content.
FirstLoaded(artifacts, item) ==
    IF \E a \in artifacts : a.body = item.body THEN artifacts ELSE artifacts \cup {item}

\* Artifacts of equal content are one artifact, known by its smallest path.
Deduplicated(artifacts, item) ==
    LET same == {a \in artifacts : a.body = item.body}
    IN  IF \E a \in same : a.path <= item.path THEN artifacts
        ELSE (artifacts \ same) \cup {item}

\* Bytes of a file, which need not hold the canonical text of its document.
Bytes(file) == Size(file.body) + file.padding

\* _read_evidence and _load_evidence: the file is there and not too large, and
\* it holds one JSON value without repeated members and of the schema's shape.
Loads(file) ==
    /\ file.kind = "document"
    /\ Bytes(file) <= Limits.bytes
    /\ file.form = "json"
    /\ Parsable(file.body)

\* One artifact is read as it is at that moment; an empty one is not JSON.
LoadEvidence ==
    /\ check.pc = "loading"
    /\ check.next <= Len(check.selection)
    /\ LET p     == check.selection[check.next]
           file  == files[p]
           bytes == check.bytes + Bytes(file)
           size  == check.warnings + Len(file.body.warnings)
           item  == [path |-> p, body |-> file.body]
       IN  check' = IF \/ ~Loads(file)
                       \/ \E r \in check.read : r.path = p
                       \/ bytes > Limits.totalBytes
                       \/ size > Limits.totalWarnings
                    THEN [pc |-> "refused"]
                    ELSE [check EXCEPT !.next = @ + 1, !.bytes = bytes, !.warnings = size,
                                       !.read = @ \cup {item},
                                       !.artifacts = Deduplicated(@, item)]
    /\ UNCHANGED <<files, head, session, count, owner>>

Fresh(a) == a.body.commit = check.commit

\* _warning_key: records of a document that differ in nothing but their
\* occurrences are one observation.
Keys(doc) == {doc.warnings[i].warning : i \in DOMAIN doc.warnings}
Grouped(doc, w) ==
    FoldLeft(LAMBDA n, item : IF item.warning = w THEN n + item.occurrences ELSE n, 0, doc.warnings)

\* One observed warning; only fresh evidence is compared with the findings.
Observation(a, w, scan) ==
    [artifact |-> a.path, warning |-> w, occurrences |-> Grouped(a.body, w),
     fresh |-> Fresh(a),
     links |-> IF Fresh(a) THEN Relationships(scan, w, a.body.env) ELSE {}]

Observations(scan) ==
    UNION {{Observation(a, w, scan) : w \in Keys(a.body)} : a \in check.artifacts}

\* How many findings the matching of all fresh warnings would look at.
CandidateChecks(scan) ==
    MapThenSumSet(LAMBDA o : Cardinality(Candidates(scan, o.warning)),
                  {o \in Observations(scan) : o.fresh})

\* The report of the check, unless matching costs or emits too much.
MergeEvidence(scan) ==
    /\ check.pc = "loading"
    /\ check.next > Len(check.selection)
    /\ LET observed == Observations(scan)
       IN  check' = IF \/ CandidateChecks(scan) > Limits.checks
                       \/ MapThenSumSet(LAMBDA o : Cardinality(o.links), observed) > Limits.relationships
                    THEN [pc |-> "refused"]
                    ELSE [pc |-> "done", scan |-> scan, commit |-> check.commit,
                          read |-> check.read, artifacts |-> check.artifacts, observed |-> observed]
    /\ UNCHANGED <<files, head, session, count, owner>>

Init ==
    /\ files = [p \in Paths |-> Absent]
    /\ head = 1
    /\ session = Ended
    /\ count = 0
    /\ owner = [p \in Paths |-> 0]
    /\ check = Idle

Next ==
    \/ \E p \in Paths : StartPytest(p)
    \/ \E loopOnFail \in BOOLEAN : CommandLine(loopOnFail)
    \/ \E xdist, capture \in BOOLEAN, c \in {NoCommit, head}, early \in Early :
          Configure(xdist, capture, c, early)
    \/ ConfigureFails
    \/ ToggleCapture
    \/ SessionStart
    \/ \E w \in Warnings : WarningRaised(w)
    \/ \E env \in Environments : SessionFinish(env)
    \/ Killed
    \/ Commit
    \/ \E p \in Paths, file \in Delivered : Deliver(p, file)
    \/ \E selection \in Selections : CheckStart(selection)
    \/ LoadEvidence
    \/ \E scan \in Scans : MergeEvidence(scan)

Spec == Init /\ [][Next]_vars

(***************************************************************************)
(* Properties                                                              *)
(***************************************************************************)

\* A session that got past its own invalidation can never leave, or be
\* killed over, the evidence of an earlier one: what an artifact path holds
\* is empty or was written by the last session that emptied it, or delivered since
\* (pytest_plugin.py, pytest_configure and pytest_cmdline_main).
NoStaleEvidence ==
    \A p \in Paths :
        /\ files[p].kind = "document" => files[p].session = owner[p]
        /\ session # Ended /\ owner[p] = count => files[p].kind = "empty"

\* A session writes an artifact over the one of before.
Written(p) == session # Ended /\ files'[p] # files[p] /\ files'[p].kind = "document"

\* No incomplete observation is reported as complete: a written artifact
\* accounts for every deprecation warning pytest delivered to the session
\* that writes it, and one that calls itself complete holds them all; what
\* capture missed can go unnoticed only when another plugin took capture
\* away and put it back (_WarningCollector).
CompleteIsWhole ==
    [][\A p \in Paths : Written(p) =>
          LET doc == files'[p].body
          IN  /\ Occurrences(doc) + doc.dropped = session.raised
              /\ \A i \in DOMAIN doc.warnings :
                    doc.warnings[i].occurrences = session.kept[doc.warnings[i].warning]
              /\ doc.complete => /\ doc.dropped = 0
                                 /\ session.missed => session.capture /\ session.toggles >= 2]_vars

\* An artifact fits the byte contract its reader enforces, and what was cut
\* from it is no more than the bound demands: it is the longest prefix of
\* the retained warnings that fits (render_evidence_document).
LongestPrefixKept ==
    [][\A p \in Paths : Written(p) =>
          LET doc      == files'[p].body
              retained == {w \in Warnings : session.kept[w] > 0}
              shown    == {item.warning : item \in Range(doc.warnings)}
              longer   == shown \cup {Min(retained \ shown)}
          IN  /\ Within(doc)
              /\ \A v \in shown, w \in retained \ shown : v < w
              /\ retained # shown =>
                    Limits.envelope + 1 + Total([w \in Warnings |-> Records[w].rendered], longer)
                        > Limits.bytes]_vars

\* The findings a reader of the report sees at a warning's line.
AtLine(scan, w) ==
    {f \in scan.findings : /\ scan.showSuppressed \/ ~f.suppressed
                           /\ f.file = Records[w].file
                           /\ Records[w].line \in f.from..f.to}

\* Corroboration is earned: a finding is corroborated exactly by an artifact
\* of the commit under check with a warning at a line of that finding, which
\* names it and no other finding of that line, on a CPython the policy asks
\* about at which the finding is deprecated.  The links are those of all
\* visible findings at the line, whatever the shape of the interval tree
\* (_FindingIntervalNode.query, _relationships).
CorroborationIsEarned ==
    check.pc = "done" => \A a \in check.artifacts : \A o \in check.observed : o.artifact = a.path =>
        LET near  == AtLine(check.scan, o.warning)
            named == {f \in near : {f.rule, f.subject, f.last} \cap Records[o.warning].names # {}}
            deprecatedAt(f) ==
                /\ a.body.env.implementation = "cpython"
                /\ a.body.env.minor \in check.scan.policy
                /\ \E t \in f.states : a.body.env.minor \in t.from..t.to /\ t.state = "deprecated"
        IN  /\ {l.finding : l \in o.links} =
                   IF a.body.commit # check.commit THEN {}
                   ELSE {f.fingerprint : f \in IF Cardinality(named) = 1 THEN named ELSE near}
            /\ \A f \in near : Link(f, "corroborates") \in o.links <=>
                   a.body.commit = check.commit /\ named = {f} /\ deprecatedAt(f)

\* Nothing is counted twice or left out: the reported artifacts are the
\* distinct contents that were read, each under the smallest path that held
\* it, so the order of the options does not matter, and each of their
\* warnings is observed once with all its occurrences (_load_evidence_set).
EveryObservationOnce ==
    check.pc = "done" =>
        /\ {a.body : a \in check.artifacts} = {r.body : r \in check.read}
        /\ \A a \in check.artifacts : \A r \in check.read : r.body = a.body => a.path <= r.path
        /\ \A a \in check.artifacts :
              MapThenSumSet(LAMBDA o : o.occurrences, {o \in check.observed : o.artifact = a.path})
                  = Occurrences(a.body)
=============================================================================
