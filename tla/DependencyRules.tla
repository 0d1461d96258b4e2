-------------------------- MODULE DependencyRules --------------------------
(***************************************************************************)
(* The rules by which inspected distributions are matched with             *)
(* requirements and assessed for one target (dependencies/_assessment.py,  *)
(* and the contradiction and closed-wheelhouse rules of _resolution.py).   *)
(*                                                                         *)
(* A requirement is a record                                               *)
(*   [name, op, ver, extras, when]                                         *)
(* of a package name (a number), one specifier, the extras it asks for and *)
(* the extra its marker tests: "always" where the marker holds in every    *)
(* context, "never" where it holds in none, "undefined" where evaluating   *)
(* it raises.  A version is 10 * p for a public version and 10 * p + l     *)
(* with l in 1..9 for one of its local variants.  An artifact is a record  *)
(*   [id, name, version, kind, tags, fits, python, needs, extras, dynamic] *)
(* where fits says whether a tag of a wheel is a tag of the target, python *)
(* the Requires-Python declared (one including the target's Python, one    *)
(* excluding it, or none) and needs its Requires-Dist entries.             *)
(***************************************************************************)
EXTENDS Integers, FiniteSets

Kinds == {"wheel", "sdist", "core-metadata"}
Operators == {"any", "eq", "ge", "gt", "le", "lt"}

AllRequirements ==
    [name : Nat, op : Operators \cup {"invalid", "url"}, ver : Nat, extras : SUBSET STRING,
     when : STRING]

(***************************************************************************)
(* Requirements and versions                                               *)
(***************************************************************************)
IsLocal(v) == (v % 10) # 0
Public(v) == v - (v % 10)

Accepts(r, v) ==
    \/ r.op = "any"
    \/ r.op = "eq" /\ r.ver = (IF IsLocal(r.ver) THEN v ELSE Public(v))
    \/ r.op = "ge" /\ Public(v) >= r.ver
    \/ r.op = "gt" /\ Public(v) > r.ver
    \/ r.op = "le" /\ Public(v) <= r.ver
    \/ r.op = "lt" /\ v < r.ver

AcceptedByAll(reqs, v) == \A r \in reqs : Accepts(r, v)

Evaluable(r) == r.when # "undefined"

Applies(r, extras) ==
    r.when \in {"always"} \cup (IF extras = {} THEN {"base"} ELSE extras)

IsSingletonPin(r) == r.op = "eq" /\ IsLocal(r.ver)

RequestedExtras(reqs) == UNION {r.extras : r \in reqs}

GroupOf(reqs, name) == {r \in reqs : r.name = name}

NamesOf(reqs) == {r.name : r \in reqs}

ExactVersions(reqs) == {r.ver : r \in {q \in reqs : q.op = "eq"}}

\* An exact pin no pin of the group satisfies with the others, or a lower
\* bound above an upper bound.
Contradicts(group) ==
    \/ /\ ExactVersions(group) # {}
       /\ \A v \in ExactVersions(group) : ~AcceptedByAll(group, v)
    \/ \E lo, up \in group :
          /\ lo.op \in {"ge", "gt"} /\ up.op \in {"le", "lt"}
          /\ \/ lo.ver > up.ver
             \/ lo.ver = up.ver /\ ~(lo.op = "ge" /\ up.op = "le")

ConflictingNames(reqs) == {n \in NamesOf(reqs) : Contradicts(GroupOf(reqs, n))}

(***************************************************************************)
(* Artifacts and requirements                                              *)
(***************************************************************************)
KeyOf(name, version) == <<name, version>>
Key(a) == KeyOf(a.name, a.version)
OfVersion(artifacts, k) == {a \in artifacts : Key(a) = k}

ArtifactMeetsVersions(a, reqs) ==
    reqs # {} /\ NamesOf(reqs) = {a.name} /\ AcceptedByAll(reqs, a.version)

ArtifactMeets(a, reqs) ==
    /\ ArtifactMeetsVersions(a, reqs)
    /\ "provides-extra" \notin a.dynamic
    /\ RequestedExtras(reqs) \subseteq a.extras

\* The artifacts of every version all of whose viable artifacts prove the
\* requested extras.
MatchingMetadata(artifacts, reqs) ==
    {a \in artifacts :
        /\ ArtifactMeetsVersions(a, reqs)
        /\ \A b \in artifacts : Key(b) = Key(a) => ArtifactMeets(b, reqs)}

DirectArtifacts(artifacts, active) ==
    {a \in artifacts : ArtifactMeetsVersions(a, GroupOf(active, a.name))}

(***************************************************************************)
(* The artifacts whose metadata speaks for a version on the target         *)
(***************************************************************************)
OfKind(group, kind) == {a \in group : a.kind = kind}

MatchingWheels(group) == {a \in group : a.kind = "wheel" /\ a.fits}

FirstNonEmpty(a, b, c, d) ==
    IF a # {} THEN a ELSE IF b # {} THEN b ELSE IF c # {} THEN c ELSE d

Semantic(group) ==
    FirstNonEmpty(MatchingWheels(group), OfKind(group, "sdist"),
                  OfKind(group, "core-metadata"), OfKind(group, "wheel"))

\* Mutant: nothing else is asked.
NoFallback(group) == {}

\* What else is asked when the semantic metadata excludes the target.
Fallback(group) ==
    IF MatchingWheels(group) # {}
    THEN OfKind(group, "sdist") \cup OfKind(group, "core-metadata")
    ELSE IF OfKind(group, "sdist") # {} THEN OfKind(group, "core-metadata")
    ELSE {}

PythonStatus(artifacts) ==
    LET declared == {a.python : a \in artifacts}
    IN  IF \E a \in artifacts : "requires-python" \in a.dynamic THEN "unverified"
        ELSE IF declared \in {{}, {"none"}} THEN "unspecified"
        ELSE IF declared = {"includes"} THEN "compatible"
        ELSE IF declared = {"excludes"} THEN "incompatible"
        ELSE "unverified"

Availability(group) ==
    IF MatchingWheels(group) # {} THEN "available"
    ELSE IF OfKind(group, "sdist") # {} THEN "source-build-possible"
    ELSE IF OfKind(group, "wheel") # {} THEN "unavailable"
    ELSE "unverified"

Outcome(python, availability) ==
    IF python = "incompatible" THEN "declared-incompatible"
    ELSE IF python = "unverified" THEN "unverified"
    ELSE IF availability = "available" THEN "compatible"
    ELSE IF availability = "unverified" THEN "unverified"
    ELSE "artifact-unavailable"

NeedsOf(a, extras) == {r \in a.needs : Applies(r, extras)}

\* The assessment of one version from the artifacts that speak for it; the
\* one place where the metadata of several artifacts meets.
AssessUsed(used, availability, extras) ==
    LET static == {a \in used : "requires-dist" \notin a.dynamic}
        unreadable == \E a \in static : \E r \in a.needs : ~Evaluable(r)
        edges == {NeedsOf(a, extras) : a \in static}
    IN  [used |-> {a.id : a \in used},
         python |-> PythonStatus(used),
         availability |-> availability,
         needs |-> IF unreadable \/ Cardinality(edges) # 1 THEN {} ELSE UNION edges,
         status |-> IF unreadable \/ static # used \/ Cardinality(edges) > 1
                    THEN "unverified"
                    ELSE Outcome(PythonStatus(used), availability)]

Used(group) ==
    Semantic(group) \cup
        (IF PythonStatus(Semantic(group)) = "incompatible" THEN Fallback(group) ELSE {})

Assess(group, extras) == AssessUsed(Used(group), Availability(group), extras)

\* Without a completed resolution a sample proves neither presence nor
\* absence.
WithClosure(status, proven) ==
    IF ~proven /\ status \in {"compatible", "artifact-unavailable"}
    THEN "unverified" ELSE status

(***************************************************************************)
(* A closed offline wheelhouse                                             *)
(***************************************************************************)
NothingUsable(candidates) ==
    \A a \in candidates :
        Availability(OfVersion(candidates, Key(a)))
            \in {"source-build-possible", "unavailable"}

\* The names of pinned groups the inspected artifacts cannot satisfy.
UnavailableNames(reqs, artifacts, kind) ==
    IF kind # "application" \/ \E r \in reqs : r.op # "eq" THEN {}
    ELSE {n \in NamesOf(reqs) \ ConflictingNames(reqs) :
            /\ Cardinality(ExactVersions(GroupOf(reqs, n))) = 1
            /\ NothingUsable({a \in artifacts :
                                ArtifactMeetsVersions(a, GroupOf(reqs, n))})}

(***************************************************************************)
(* Packages a resolver selected                                            *)
(***************************************************************************)
ArtifactsOf(p, artifacts) == {a \in artifacts : a.id \in p.used}

\* S has exactly one element.
Single(S) == \E x \in S : S = {x}

\* Every artifact the package cites is known and is of its name and version.
IsBound(p, artifacts) ==
    /\ p.used # {}
    /\ p.used \subseteq {a.id : a \in artifacts}
    /\ \A a \in ArtifactsOf(p, artifacts) : Key(a) = KeyOf(p.name, p.version)

PackageMeetsVersions(p, reqs, artifacts) ==
    /\ IsBound(p, artifacts)
    /\ \A a \in ArtifactsOf(p, artifacts) : ArtifactMeetsVersions(a, reqs)

PackageMeets(p, reqs, artifacts) ==
    /\ IsBound(p, artifacts)
    /\ \A a \in ArtifactsOf(p, artifacts) : ArtifactMeets(a, reqs)
=============================================================================
