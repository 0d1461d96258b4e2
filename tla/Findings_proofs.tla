--------------------------- MODULE Findings_proofs ---------------------------
(***************************************************************************)
(* What a report says of a project, for every source, rule and setup: a    *)
(* version of a site is reported exactly where its matches affect it, and  *)
(* a fingerprint stands for one occurrence.  The properties of Findings    *)
(* follow, with an invariant that keeps the recorded baseline's scan.      *)
(***************************************************************************)
EXTENDS Findings, FiniteInduction

-----------------------------------------------------------------------------
(* requires-python.                                                         *)

\* The patches that are tried tell whether any patch is admitted
\* (_specifier_patch_candidates).
THEOREM CandidatesSuffice ==
  ASSUME NEW declaration \in SUBSET Clauses, NEW minor \in Nat,
         NEW patch \in Nat, Admitted(declaration, minor, patch)
  PROVE  \E p \in PatchCandidates(declaration, minor) : Admitted(declaration, minor, p)
<1> DEFINE Named == {PatchOf(c) : c \in {x \in declaration : x.minor = minor}}
           Below == {p \in 0..patch : p = 0 \/ p \in Named \/ p - 1 \in Named}
<1>1. \A c \in declaration : PatchOf(c) \in Nat /\ c.minor \in Nat
  BY DEF Clauses, PatchOf, Any
<1>2. PICK p \in Below : \A k \in Below : k <= p
  <2>1. Below \in SUBSET (0..patch) /\ 0 \in Below
    OBVIOUS
  <2> HIDE DEF Below
  <2>2. QED
    BY <2>1, GreatestElement
<1>3. p \in Nat /\ p <= patch
  OBVIOUS
<1>4. p \in PatchCandidates(declaration, minor)
  <2>1. CASE p = 0
    BY <2>1 DEF PatchCandidates
  <2>2. CASE p \in Named
    BY <1>3, <2>2 DEF PatchCandidates
  <2>3. CASE p - 1 \in Named
    <3>1. PICK c \in declaration : c.minor = minor /\ p - 1 = PatchOf(c)
      BY <2>3
    <3>2. p = PatchOf(c) + 1
      BY <1>1, <1>3, <3>1
    <3>3. QED
      BY <1>3, <3>1, <3>2 DEF PatchCandidates
  <2>4. QED
    BY <2>1, <2>2, <2>3
<1>5. ASSUME NEW c \in declaration PROVE Meets(c, minor, p)
  <2>1. Meets(c, minor, patch)
    BY DEF Admitted
  <2>2. /\ Earlier(minor, p, c) <=> Earlier(minor, patch, c)
        /\ Equal(minor, p, c) <=> Equal(minor, patch, c)
    <3>1. CASE c.minor # minor
      BY <3>1 DEF Earlier, Equal
    <3>2. CASE c.minor = minor
      <4>1. PatchOf(c) \in Named
        BY <3>2
      <4>2. patch = PatchOf(c) => p = patch
        <5>1. patch = PatchOf(c) => patch \in Below
          BY <4>1
        <5>2. QED
          BY <1>2, <1>3, <5>1
      <4>3. PatchOf(c) < patch => PatchOf(c) < p
        <5>1. PatchOf(c) < patch => PatchOf(c) + 1 \in Below
          <6>1. (PatchOf(c) + 1) - 1 = PatchOf(c)
            BY <1>1
          <6>2. QED
            BY <1>1, <4>1, <6>1
        <5>2. QED
          BY <1>1, <1>2, <1>3, <5>1
      <4>4. QED
        BY <1>1, <1>3, <3>2, <4>2, <4>3 DEF Earlier, Equal
    <3>3. QED
      BY <3>1, <3>2
  <2>3. c.op \in {">=", ">", "<", "<=", "==", "!=", "==.*", "!=.*", "~="}
    BY DEF Clauses
  <2>4. QED
    BY <2>1, <2>2, <2>3 DEF Meets
<1>6. QED
  BY <1>4, <1>5 DEF Admitted

LEMMA LowestLeast ==
  ASSUME NEW S \in SUBSET Nat, S # {} PROVE Lowest(S) \in S /\ \A m \in S : Lowest(S) <= m
BY LeastElement DEF Lowest

LEMMA HighestOfRange ==
  ASSUME NEW m \in Nat, NEW n \in Nat, m <= n PROVE Highest(m..n) = n
<1>1. n \in m..n /\ \A k \in m..n : n >= k
  OBVIOUS
<1>2. \A h \in m..n : (\A k \in m..n : h >= k) => h = n
  OBVIOUS
<1>3. QED
  BY <1>1, <1>2 DEF Highest

-----------------------------------------------------------------------------
(* What a site shows.                                                       *)

Sourced(scan) == scan.source \in Seq(Sites)
Filtered(scan) == scan.policy.minimum \in {"medium", "high"}

\* The site is used where its rule looks.
Relevant(s) == \E m \in Kept(s) : m.contexts \cap Rules[RuleOf[s]].contexts # {}

\* The site's matches hold for the version, and its subject is what they take it for.
Holds(scan, s, v) ==
  /\ v \in Targets(scan) /\ \E m \in Kept(s) : v \in m.versions
  /\ ~(Rules[RuleOf[s]].module /\ Gone(RuleOf[s], v) /\ v \in Mutated(scan).append)
  /\ High(scan) => v \notin Mutated(scan).insert /\ \E m \in Kept(s) : m.confidence = "high"

Told(scan, s, v) == Scheduled(scan, RuleOf[s]) /\ Relevant(s) /\ Holds(scan, s, v)

Unknown(s) == UNION {m.unknown : m \in Kept(s)}
Links(s) == UNION {m.links : m \in Kept(s)}
Covers(scan, s, v, t) ==
  t \in Links(s) \cap Matching(scan) /\ RuleOf[t] = RuleOf[s] /\ ~IsImport(t) /\ Told(scan, t, v)

\* What the report is to say of a version of a site.
Due(scan, s, v) ==
  /\ Told(scan, s, v)
  /\ IsImport(s) => /\ High(scan) => v \notin Unknown(s)
                    /\ \A t \in Sites : ~Covers(scan, s, v, t)

MatchOf(scan, s) == Match(scan, Mutated(scan), s)
ConsideredOf(scan, s) ==
  IF IsImport(s) THEN Uncovered(scan, Matches(scan), MatchOf(scan, s)) ELSE MatchOf(scan, s)

LEMMA MatchingSites ==
  ASSUME NEW scan, Sourced(scan)
  PROVE  /\ Matching(scan) \subseteq Sites /\ IsFiniteSet(Matching(scan))
         /\ \A s \in Matching(scan) : Kept(s) # {}
<1>1. scan.source \in [1..Len(scan.source) -> Sites] /\ Len(scan.source) \in Nat
  BY DEF Sourced
<1>2. Analysed(scan) \subseteq Sites
  BY <1>1 DEF Analysed
<1>3. IsFiniteSet({scan.source[n] : n \in 1..Len(scan.source)})
  <2>1. IsFiniteSet(1..Len(scan.source))
    BY <1>1, FS_Interval
  <2>2. QED
    BY <2>1, FiniteImage
<1>4. IsFiniteSet(Matching(scan))
  <2>1. Matching(scan) \subseteq {scan.source[n] : n \in 1..Len(scan.source)}
    BY DEF Matching, Analysed
  <2>2. QED
    BY <1>3, <2>1, FS_Subset
<1>5. QED
  BY <1>2, <1>4 DEF Matching, Kept, IsImport, Imports, Uses

\* The matches of a site agree.
LEMMA KeptAgree ==
  ASSUME NEW s \in Sites, NEW m \in Kept(s), NEW k \in Kept(s)
  PROVE  /\ m.versions = k.versions /\ m.unknown = k.unknown
         /\ m.confidence \in {"medium", "high"}
         /\ m = [kind |-> m.kind, confidence |-> m.confidence, versions |-> m.versions,
                 contexts |-> m.contexts, unknown |-> m.unknown, links |-> m.links]
<1>1. m \in Raw[s] /\ k \in Raw[s]
  BY DEF Kept, Uses
<1>2. Raw[s] \subseteq [kind : {"use", "import"}, confidence : {"medium", "high"},
                        versions : SUBSET Nat, contexts : SUBSET {"runtime", "typing"},
                        unknown : SUBSET Nat, links : SUBSET Sites]
  BY RawAssumption
<1>3. m.kind = k.kind
  BY <1>1, <1>2 DEF Kept, Uses, IsImport, Imports
<1>4. m.versions = k.versions /\ m.unknown = k.unknown
  BY <1>1, <1>3, RawAssumption
<1>5. QED
  BY <1>1, <1>2, <1>4

-----------------------------------------------------------------------------
(* dynamic_path_adjustments and deduplicate_matches.                        *)

Left(scan, s, m) ==
  {v \in m.versions \cap Targets(scan) :
     ~(Rules[RuleOf[s]].module /\ Gone(RuleOf[s], v) /\ v \in Mutated(scan).append)}

\* The three outcomes of an adjustment.
LEMMA AdjustedCases ==
  ASSUME NEW scan, NEW s \in Sites, NEW m \in Kept(s)
  PROVE  LET a == Adjusted(scan, Mutated(scan), RuleOf[s], m)
             left == Left(scan, s, m)
             insert == Mutated(scan).insert
         IN  /\ a.contexts = m.contexts /\ a.unknown = m.unknown /\ a.links = m.links
             /\ IF m.versions \cap Targets(scan) \cap insert = {}
                THEN a.versions = left /\ a.confidence = m.confidence
                ELSE IF High(scan) /\ \E v \in left \ insert : HasState(RuleOf[s], v)
                THEN a.versions = left \ insert /\ a.confidence = m.confidence
                ELSE a.versions = left /\ a.confidence = "medium"
<1>1. PICK mutated : mutated = Mutated(scan)
  OBVIOUS
<1>2. {v \in m.versions \cap Targets(scan) :
          ~Gone(RuleOf[s], v) \/ v \notin (IF Rules[RuleOf[s]].module THEN mutated.append ELSE {})}
        = Left(scan, s, m)
  BY <1>1 DEF Left
<1>3. m = [kind |-> m.kind, confidence |-> m.confidence, versions |-> m.versions,
           contexts |-> m.contexts, unknown |-> m.unknown, links |-> m.links]
  BY KeptAgree
<1>4. PICK left : left = Left(scan, s, m)
  OBVIOUS
<1>5. QED
  BY <1>1, <1>2, <1>3, <1>4 DEF Adjusted

LEMMA MergedFields ==
  ASSUME NEW scan, NEW s
  PROVE  LET match == MatchOf(scan, s)
             adjusted(m) == Adjusted(scan, Mutated(scan), RuleOf[s], m)
         IN  /\ match.site = s
             /\ \A v : v \in match.versions <=> \E m \in Kept(s) : v \in adjusted(m).versions
             /\ \A c : c \in match.contexts <=> \E m \in Kept(s) : c \in adjusted(m).contexts
             /\ \A v : v \in match.unknown <=> \E m \in Kept(s) : v \in adjusted(m).unknown
             /\ \A t : t \in match.links <=> \E m \in Kept(s) : t \in adjusted(m).links
             /\ match.confidence \in {"medium", "high"}
             /\ match.confidence = "high" <=> \E m \in Kept(s) : adjusted(m).confidence = "high"
<1> DEFINE adjusted(m) == Adjusted(scan, Mutated(scan), RuleOf[s], m)
           merged == {adjusted(m) : m \in Kept(s)}
<1>1. MatchOf(scan, s) = Merge(s, merged)
  BY DEF MatchOf, Match
<1>2. \A a : a \in merged <=> \E m \in Kept(s) : a = adjusted(m)
  OBVIOUS
<1> HIDE DEF adjusted, merged
<1>3. QED
  BY <1>1, <1>2 DEF Merge, adjusted

\* A match shows a version that an event has reached exactly where the site's
\* matches hold.
LEMMA ShownExactly ==
  ASSUME NEW scan, NEW s \in Sites, Kept(s) # {}, NEW v, HasState(RuleOf[s], v)
  PROVE  (v \in MatchOf(scan, s).versions /\ (High(scan) => MatchOf(scan, s).confidence = "high"))
           <=> Holds(scan, s, v)
<1> DEFINE adjusted(m) == Adjusted(scan, Mutated(scan), RuleOf[s], m)
<1>1. PICK k : k \in Kept(s)
  OBVIOUS
<1>2. PICK insert : insert = Mutated(scan).insert
  OBVIOUS
<1>3. PICK left : left = Left(scan, s, k)
  OBVIOUS
<1>4. \A m \in Kept(s) : m.versions = k.versions /\ Left(scan, s, m) = left
  BY <1>1, <1>3, KeptAgree DEF Left
<1>5. PICK reached : reached = k.versions \cap Targets(scan)
  OBVIOUS
<1>6. ASSUME NEW m \in Kept(s)
      PROVE  IF reached \cap insert = {}
             THEN adjusted(m).versions = left /\ adjusted(m).confidence = m.confidence
             ELSE IF High(scan) /\ \E x \in left \ insert : HasState(RuleOf[s], x)
             THEN adjusted(m).versions = left \ insert /\ adjusted(m).confidence = m.confidence
             ELSE adjusted(m).versions = left /\ adjusted(m).confidence = "medium"
  BY <1>2, <1>4, <1>5, AdjustedCases
<1>7. /\ v \in left => v \in reached
      /\ v \in left <=> /\ v \in Targets(scan) /\ \E m \in Kept(s) : v \in m.versions
                        /\ ~(Rules[RuleOf[s]].module /\ Gone(RuleOf[s], v)
                               /\ v \in Mutated(scan).append)
  BY <1>1, <1>3, <1>4, <1>5 DEF Left
<1>8. Holds(scan, s, v) <=> /\ v \in left
                            /\ High(scan) => v \notin insert /\ \E m \in Kept(s) : m.confidence = "high"
  BY <1>2, <1>7 DEF Holds
<1>9. /\ v \in MatchOf(scan, s).versions <=> \E m \in Kept(s) : v \in adjusted(m).versions
      /\ MatchOf(scan, s).confidence = "high" <=> \E m \in Kept(s) : adjusted(m).confidence = "high"
  BY MergedFields
<1> HIDE DEF adjusted
<1>10. CASE reached \cap insert = {}
  BY <1>1, <1>6, <1>7, <1>8, <1>9, <1>10
<1>11. CASE reached \cap insert # {} /\ High(scan) /\ \E x \in left \ insert : HasState(RuleOf[s], x)
  BY <1>1, <1>6, <1>7, <1>8, <1>9, <1>11
<1>12. CASE reached \cap insert # {} /\ ~(High(scan) /\ \E x \in left \ insert : HasState(RuleOf[s], x))
  <2>1. \A m \in Kept(s) : adjusted(m).versions = left /\ adjusted(m).confidence = "medium"
    BY <1>6, <1>12
  <2>2. CASE High(scan)
    BY <1>8, <1>9, <1>12, <2>1, <2>2
  <2>3. CASE ~High(scan)
    BY <1>1, <1>8, <1>9, <2>1, <2>3
  <2>4. QED
    BY <2>2, <2>3
<1>13. QED
  BY <1>10, <1>11, <1>12

\* The other fields of a match.
LEMMA MatchFields ==
  ASSUME NEW scan, NEW s \in Sites
  PROVE  /\ MatchOf(scan, s).site = s /\ MatchOf(scan, s).confidence \in {"medium", "high"}
         /\ MatchOf(scan, s).unknown = Unknown(s) /\ MatchOf(scan, s).links = Links(s)
         /\ MatchOf(scan, s).contexts \cap Rules[RuleOf[s]].contexts # {} <=> Relevant(s)
<1> DEFINE adjusted(m) == Adjusted(scan, Mutated(scan), RuleOf[s], m)
<1>1. \A m \in Kept(s) : /\ adjusted(m).contexts = m.contexts /\ adjusted(m).unknown = m.unknown
                         /\ adjusted(m).links = m.links
  BY AdjustedCases
<1>2. /\ MatchOf(scan, s).site = s /\ MatchOf(scan, s).confidence \in {"medium", "high"}
      /\ \A v : v \in MatchOf(scan, s).unknown <=> \E m \in Kept(s) : v \in adjusted(m).unknown
      /\ \A t : t \in MatchOf(scan, s).links <=> \E m \in Kept(s) : t \in adjusted(m).links
      /\ \A c : c \in MatchOf(scan, s).contexts <=> \E m \in Kept(s) : c \in adjusted(m).contexts
  BY MergedFields
<1> HIDE DEF adjusted
<1>3. MatchOf(scan, s).unknown = UNION {m.unknown : m \in Kept(s)}
  BY <1>1, <1>2
<1>4. MatchOf(scan, s).links = UNION {m.links : m \in Kept(s)}
  BY <1>1, <1>2
<1>5. (MatchOf(scan, s).contexts \cap Rules[RuleOf[s]].contexts # {}) <=> Relevant(s)
  BY <1>1, <1>2 DEF Relevant
<1>6. QED
  BY <1>2, <1>3, <1>4, <1>5 DEF Unknown, Links

-----------------------------------------------------------------------------
(* build_findings.                                                          *)

\* A use is emitted with a version that an event has reached exactly where it is told.
LEMMA UseTold ==
  ASSUME NEW scan, Filtered(scan), NEW s \in Sites, Kept(s) # {},
         NEW v, HasState(RuleOf[s], v)
  PROVE  (Passes(scan, MatchOf(scan, s)) /\ v \in MatchOf(scan, s).versions) <=> Told(scan, s, v)
<1>1. PICK m : m = MatchOf(scan, s)
  OBVIOUS
<1>2. /\ m.site = s /\ m.confidence \in {"medium", "high"}
      /\ (m.contexts \cap Rules[RuleOf[s]].contexts # {}) <=> Relevant(s)
  BY <1>1, MatchFields
<1>3. Rank(m.confidence) >= Rank(scan.policy.minimum) <=> (High(scan) => m.confidence = "high")
  BY <1>2 DEF Rank, High, Filtered
<1>4. (v \in m.versions /\ (High(scan) => m.confidence = "high")) <=> Holds(scan, s, v)
  BY <1>1, ShownExactly
<1>5. QED
  BY <1>1, <1>2, <1>3, <1>4 DEF Passes, Told

LEMMA CoveredExactly ==
  ASSUME NEW scan, Sourced(scan), Filtered(scan), NEW s \in Matching(scan),
         NEW v, HasState(RuleOf[s], v)
  PROVE  v \in Covered(scan, Matches(scan), MatchOf(scan, s)) <=> \E t \in Sites : Covers(scan, s, v, t)
<1>1. /\ Matching(scan) \subseteq Sites /\ s \in Sites
      /\ \A t \in Matching(scan) : Kept(t) # {}
  BY MatchingSites
<1>2. Matches(scan) = {MatchOf(scan, t) : t \in Matching(scan)}
  BY DEF Matches, MatchesUnder, MatchOf
<1>3. MatchOf(scan, s).site = s /\ MatchOf(scan, s).links = Links(s)
  BY <1>1, MatchFields
<1>4. \A t \in Matching(scan) : MatchOf(scan, t).site = t
  BY <1>1, MatchFields
<1>5. ASSUME NEW t \in Matching(scan), RuleOf[t] = RuleOf[s]
      PROVE  (Passes(scan, MatchOf(scan, t)) /\ v \in MatchOf(scan, t).versions) <=> Told(scan, t, v)
  BY <1>1, <1>5, UseTold
<1>6. ASSUME NEW t \in Sites, Covers(scan, s, v, t)
      PROVE  v \in Covered(scan, Matches(scan), MatchOf(scan, s))
  <2>1. PICK u : u = MatchOf(scan, t)
    OBVIOUS
  <2>2. t \in Links(s) /\ t \in Matching(scan) /\ RuleOf[t] = RuleOf[s] /\ ~IsImport(t)
    BY <1>6 DEF Covers
  <2>3. u \in Matches(scan) /\ u.site = t /\ Passes(scan, u) /\ v \in u.versions
    BY <1>2, <1>4, <1>5, <1>6, <2>1, <2>2 DEF Covers
  <2>4. u \in Emitted(scan, Matches(scan))
    BY <2>2, <2>3 DEF Emitted
  <2>5. QED
    BY <1>3, <2>2, <2>3, <2>4 DEF Covered
<1>7. ASSUME v \in Covered(scan, Matches(scan), MatchOf(scan, s))
      PROVE  \E t \in Sites : Covers(scan, s, v, t)
  <2>1. PICK u \in Emitted(scan, Matches(scan)) :
          u.site \in Links(s) /\ RuleOf[u.site] = RuleOf[s] /\ v \in u.versions
    BY <1>3, <1>7 DEF Covered
  <2>2. PICK t \in Matching(scan) : u = MatchOf(scan, t)
    BY <1>2 DEF Emitted
  <2>3. u.site = t
    BY <1>4, <2>2
  <2>4. Passes(scan, u) /\ ~IsImport(t)
    BY <2>3 DEF Emitted
  <2>5. Told(scan, t, v)
    BY <1>5, <2>1, <2>2, <2>3, <2>4
  <2>6. QED
    BY <1>1, <2>1, <2>3, <2>4, <2>5 DEF Covers
<1>8. QED
  BY <1>6, <1>7

\* What is reported of a version that an event has reached is what is due.
LEMMA ReportedExactly ==
  ASSUME NEW scan, Sourced(scan), Filtered(scan), NEW s \in Matching(scan),
         NEW v, HasState(RuleOf[s], v)
  PROVE  (Passes(scan, ConsideredOf(scan, s)) /\ v \in ConsideredOf(scan, s).versions)
           <=> Due(scan, s, v)
<1>1. s \in Sites /\ Kept(s) # {}
  BY MatchingSites
<1>2. (Passes(scan, MatchOf(scan, s)) /\ v \in MatchOf(scan, s).versions) <=> Told(scan, s, v)
  BY <1>1, UseTold
<1>3. CASE ~IsImport(s)
  BY <1>2, <1>3 DEF ConsideredOf, Due
<1>4. CASE IsImport(s)
  <2>1. PICK m : m = MatchOf(scan, s)
    OBVIOUS
  <2>2. PICK covered : covered = Covered(scan, Matches(scan), m)
    OBVIOUS
  <2>3. v \in covered <=> \E t \in Sites : Covers(scan, s, v, t)
    BY <2>1, <2>2, CoveredExactly
  <2>4. /\ m.site = s /\ m.confidence \in {"medium", "high"} /\ m.unknown = Unknown(s)
        /\ (m.contexts \cap Rules[RuleOf[s]].contexts # {}) <=> Relevant(s)
    BY <1>1, <2>1, MatchFields
  <2>5. m = [site |-> m.site, versions |-> m.versions, contexts |-> m.contexts,
             unknown |-> m.unknown, links |-> m.links, confidence |-> m.confidence]
    BY <2>1 DEF MatchOf, Match, Merge
  <2>6. PICK c : c = ConsideredOf(scan, s)
    OBVIOUS
  <2>7. /\ c.site = s /\ c.contexts = m.contexts
        /\ High(scan) => c.versions = (m.versions \ covered) \ Unknown(s) /\ c.confidence = m.confidence
        /\ ~High(scan) => c.versions = m.versions \ covered /\ c.confidence \in {"medium", "high"}
    BY <1>4, <2>1, <2>2, <2>4, <2>5, <2>6 DEF ConsideredOf, Uncovered
  <2>8. /\ Rank(c.confidence) >= Rank(scan.policy.minimum) <=> (High(scan) => m.confidence = "high")
        /\ Rank(m.confidence) >= Rank(scan.policy.minimum) <=> (High(scan) => m.confidence = "high")
    <3>1. c.confidence \in {"medium", "high"}
      BY <2>4, <2>7
    <3>2. QED
      BY <2>4, <2>7, <3>1 DEF Rank, High, Filtered
  <2>9. (Passes(scan, c) /\ v \in c.versions) <=>
          (Passes(scan, m) /\ v \in m.versions /\ v \notin covered /\ (High(scan) => v \notin Unknown(s)))
    BY <2>4, <2>7, <2>8 DEF Passes
  <2>10. QED
    BY <1>2, <1>4, <2>1, <2>3, <2>6, <2>9 DEF Due
<1>5. QED
  BY <1>3, <1>4

-----------------------------------------------------------------------------
(* The findings and their identity.                                         *)

\* Before, in which a site is named by its position.
LEMMA PositionsDiffer ==
  ASSUME NEW scan, Sourced(scan)
  PROVE  /\ \A s \in Matching(scan) : Position(scan, s) \in Nat
         /\ \A s, t \in Matching(scan) : Position(scan, s) = Position(scan, t) => s = t
<1>1. \A s \in Matching(scan) : \E n \in 1..Len(scan.source) : scan.source[n] = s
  BY DEF Matching, Analysed
<1>2. \A s \in Matching(scan) : /\ Position(scan, s) \in 1..Len(scan.source)
                                /\ scan.source[Position(scan, s)] = s
  BY <1>1 DEF Position
<1>3. Len(scan.source) \in Nat
  BY DEF Sourced
<1>4. QED
  BY <1>2, <1>3

Identity(scan, s) ==
  [path |-> Path[s], rule |-> RuleOf[s], import |-> IsImport(s),
   ordinal |-> Cardinality(Before(scan, s))]

LEMMA ConsideredSites ==
  ASSUME NEW scan, Sourced(scan)
  PROVE  /\ \A s \in Matching(scan) : ConsideredOf(scan, s).site = s
         /\ \A m : m \in Considered(scan, Matches(scan))
                     <=> \E s \in Matching(scan) : m = ConsideredOf(scan, s)
<1>1. \A s \in Matching(scan) : s \in Sites
  BY MatchingSites
<1>2. \A s \in Matching(scan) : MatchOf(scan, s).site = s
  BY <1>1, MatchFields
<1>3. Matches(scan) = {MatchOf(scan, s) : s \in Matching(scan)}
  BY DEF Matches, MatchesUnder, MatchOf
<1>4. ASSUME NEW s \in Matching(scan)
      PROVE  /\ ConsideredOf(scan, s).site = s
             /\ ConsideredOf(scan, s) =
                  LET m == MatchOf(scan, s)
                  IN  IF IsImport(m.site) THEN Uncovered(scan, Matches(scan), m) ELSE m
  <2>1. PICK m : m = MatchOf(scan, s)
    OBVIOUS
  <2>2. m.site = s /\ DOMAIN m = {"site", "versions", "contexts", "unknown", "links", "confidence"}
    BY <1>2, <2>1 DEF MatchOf, Match, Merge
  <2>3. Uncovered(scan, Matches(scan), m).site = s
    BY <2>2 DEF Uncovered
  <2>4. QED
    BY <2>1, <2>2, <2>3 DEF ConsideredOf
<1>5. Considered(scan, Matches(scan)) =
        {IF IsImport(m.site) THEN Uncovered(scan, Matches(scan), m) ELSE m : m \in Matches(scan)}
  BY DEF Considered
<1>6. ASSUME NEW x
      PROVE  x \in Considered(scan, Matches(scan)) <=> \E s \in Matching(scan) : x = ConsideredOf(scan, s)
  <2>1. x \in Considered(scan, Matches(scan)) <=>
          \E m \in Matches(scan) : x = IF IsImport(m.site) THEN Uncovered(scan, Matches(scan), m) ELSE m
    BY <1>5
  <2>2. \A s \in Matching(scan) :
          LET m == MatchOf(scan, s)
          IN  (IF IsImport(m.site) THEN Uncovered(scan, Matches(scan), m) ELSE m) = ConsideredOf(scan, s)
    BY <1>4
  <2>3. QED
    BY <1>3, <2>1, <2>2
<1>7. QED
  BY <1>4, <1>6

\* The ordinal of a match counts the matches of its kind before it.
LEMMA OrdinalCounts ==
  ASSUME NEW scan, Sourced(scan), NEW s
  PROVE  Ordinal(scan, Considered(scan, Matches(scan)), s) = Cardinality(Before(scan, s))
<1> DEFINE B == {m \in Considered(scan, Matches(scan)) :
                   Alike(s, m.site) /\ Position(scan, m.site) < Position(scan, s)}
           f == [t \in Before(scan, s) |-> ConsideredOf(scan, t)]
<1>1. IsFiniteSet(Before(scan, s)) /\ Before(scan, s) \subseteq Matching(scan)
  BY MatchingSites, FS_Subset DEF Before
<1>2. \A t \in Before(scan, s) : ConsideredOf(scan, t).site = t /\ ConsideredOf(scan, t) \in B
  BY <1>1, ConsideredSites DEF Before
<1>3. \A m \in B : \E t \in Before(scan, s) : m = ConsideredOf(scan, t)
  BY ConsideredSites DEF Before
<1>4. f \in Bijection(Before(scan, s), B)
  <2> HIDE DEF B
  <2>1. f \in [Before(scan, s) -> B]
    BY <1>2
  <2>2. \A t, u \in Before(scan, s) : f[t] = f[u] => t = u
    BY <1>2
  <2>3. \A m \in B : \E t \in Before(scan, s) : f[t] = m
    BY <1>3
  <2>4. QED
    BY <2>1, <2>2, <2>3 DEF Bijection, Injection, Surjection, IsInjective
<1>5. Cardinality(B) = Cardinality(Before(scan, s))
  <2> HIDE DEF B, f
  <2>1. QED
    BY <1>1, <1>4, FS_Bijection DEF ExistsBijection
<1>6. QED
  BY <1>5 DEF Ordinal

\* A finding is what passes of a site, with the site's identity.
FindingOf(scan, s) ==
  [site |-> s, versions |-> ConsideredOf(scan, s).versions, fingerprint |-> Identity(scan, s)]

LEMMA ReportOf ==
  ASSUME NEW scan, Sourced(scan)
  PROVE  /\ \A f : f \in Report(scan) <=>
              \E s \in Matching(scan) : Passes(scan, ConsideredOf(scan, s)) /\ f = FindingOf(scan, s)
         /\ IsFiniteSet(Report(scan))
<1>1. PICK considered : considered = Considered(scan, Matches(scan))
  OBVIOUS
<1>2. /\ \A s \in Matching(scan) : ConsideredOf(scan, s).site = s
      /\ \A m : m \in considered <=> \E s \in Matching(scan) : m = ConsideredOf(scan, s)
  BY <1>1, ConsideredSites
<1>3. \A s \in Matching(scan) : Fingerprint(scan, considered, s) = Identity(scan, s)
  BY <1>1, OrdinalCounts DEF Fingerprint, Identity
<1>4. Report(scan) =
        {[site |-> m.site, versions |-> m.versions, fingerprint |-> Fingerprint(scan, considered, m.site)] :
           m \in {c \in considered : Passes(scan, c)}}
  BY <1>1 DEF Report, ConsideredFindings, FindingsAmong
<1>5. ASSUME NEW s \in Matching(scan), NEW m, m = ConsideredOf(scan, s)
      PROVE  [site |-> m.site, versions |-> m.versions,
              fingerprint |-> Fingerprint(scan, considered, m.site)] = FindingOf(scan, s)
  BY <1>2, <1>3, <1>5 DEF FindingOf
<1>6. \A f : f \in Report(scan) <=>
        \E s \in Matching(scan) : Passes(scan, ConsideredOf(scan, s)) /\ f = FindingOf(scan, s)
  BY <1>2, <1>4, <1>5
<1>7. IsFiniteSet(Report(scan))
  <2> DEFINE g == [s \in Matching(scan) |-> FindingOf(scan, s)]
  <2>1. IsFiniteSet({g[s] : s \in Matching(scan)})
    <3> HIDE DEF g
    <3>1. QED
      BY MatchingSites, FiniteImage
  <2>2. Report(scan) \subseteq {g[s] : s \in Matching(scan)}
    BY <1>6
  <2>3. QED
    BY <2>1, <2>2, FS_Subset
<1>8. QED
  BY <1>6, <1>7

\* Different occurrences of one rule in one scope have different ordinals.
LEMMA IdentitiesDiffer ==
  ASSUME NEW scan, Sourced(scan), NEW s \in Matching(scan), NEW t \in Matching(scan),
         Alike(s, t), Position(scan, s) < Position(scan, t)
  PROVE  Identity(scan, s) # Identity(scan, t)
<1>1. Before(scan, s) \subseteq Before(scan, t)
  <2>1. ASSUME NEW u \in Before(scan, s) PROVE u \in Before(scan, t)
    <3>1. u \in Matching(scan) /\ Alike(s, u) /\ Position(scan, u) < Position(scan, s)
      BY DEF Before
    <3>2. Alike(t, u)
      BY <3>1 DEF Alike
    <3>3. Position(scan, u) < Position(scan, t)
      BY <3>1, PositionsDiffer
    <3>4. QED
      BY <3>1, <3>2, <3>3 DEF Before
  <2>2. QED
    BY <2>1
<1>2. s \in Before(scan, t) /\ s \notin Before(scan, s)
  <2>1. Alike(t, s)
    BY DEF Alike
  <2>2. ~(Position(scan, s) < Position(scan, s))
    BY PositionsDiffer
  <2>3. QED
    BY <2>1, <2>2 DEF Before
<1>3. IsFiniteSet(Before(scan, t))
  BY MatchingSites, FS_Subset DEF Before
<1>4. /\ Cardinality(Before(scan, s)) < Cardinality(Before(scan, t))
      /\ Cardinality(Before(scan, s)) \in Nat /\ Cardinality(Before(scan, t)) \in Nat
  BY <1>1, <1>2, <1>3, FS_Subset, FS_CardinalityType
<1>5. QED
  BY <1>4 DEF Identity

-----------------------------------------------------------------------------
(* The policy a setup resolves to.                                          *)

LEMMA FiniteBounded ==
  ASSUME NEW S \in SUBSET Nat, IsFiniteSet(S) PROVE \E n \in Nat : S \subseteq 0..n
<1> DEFINE C == {T \in SUBSET S : \E n \in Nat : T \subseteq 0..n}
<1>1. {} \in C
  <2>1. {} \subseteq 0..0
    OBVIOUS
  <2>2. QED
    BY <2>1
<1>2. ASSUME NEW T \in SUBSET S, NEW x \in S \ T, T \in C PROVE T \cup {x} \in C
  <2>1. PICK n \in Nat : T \subseteq 0..n
    BY <1>2
  <2>2. x \in Nat /\ n + x \in Nat /\ T \cup {x} \subseteq 0..(n + x)
    BY <2>1
  <2>3. QED
    BY <2>2
<1> HIDE DEF C
<1>3. S \in C
  BY <1>1, <1>2, FiniteSetGrows
<1>4. QED
  BY <1>3 DEF C

LEMMA SupportedVersions ==
  /\ Supported \subseteq Nat
  /\ \A low \in Supported, high \in Supported, v \in Int : low <= v /\ v <= high => v \in Supported
<1>1. Minors \in SUBSET Nat /\ Minors # {} /\ IsFiniteSet(Minors)
  <2> DEFINE f == [r \in Releases |-> r.minor]
  <2>1. IsFiniteSet({f[r] : r \in Releases})
    BY ReleasesAssumption, FiniteImage
  <2>2. Minors = {f[r] : r \in Releases}
    BY DEF Minors
  <2>3. QED
    BY <2>1, <2>2, ReleasesAssumption
<1>2. Lowest(Minors) \in Nat
  BY <1>1, LowestLeast
<1>3. Highest(Minors) \in Nat
  <2>1. PICK n \in Nat : Minors \in SUBSET (0..n)
    BY <1>1, FiniteBounded
  <2>2. PICK m \in Minors : \A k \in Minors : k <= m
    BY <1>1, <2>1, GreatestElement
  <2>3. \A k \in Minors : m >= k
    BY <1>1, <2>2
  <2>4. Highest(Minors) \in Minors
    BY <2>3 DEF Highest
  <2>5. QED
    BY <1>1, <2>4
<1>4. QED
  BY <1>2, <1>3 DEF Supported

\* The lowest supported version that requires-python admits begins the policy.
LEMMA ResolvedPolicy ==
  ASSUME NEW s \in Setups
  PROVE  /\ ResolvePolicy(s).minimum \in {"medium", "high"}
         /\ ResolvePolicy(s).valid /\ Infers(s) =>
              \A v \in Lowest(Supported)..Highest(ResolvePolicy(s).targets), patch \in Nat :
                Admitted(Declaration(s), v, patch) => v \in ResolvePolicy(s).targets
<1>1. CASE Refused(s)
  BY <1>1 DEF ResolvePolicy, NoPolicy
<1>2. CASE ~Refused(s)
  <2>1. ResolvePolicy(s) = InEffect(s, BaselineOf(s)..HorizonOf(s))
    BY <1>2 DEF ResolvePolicy
  <2>2. ResolvePolicy(s).minimum = Effective(s, "minimum") /\ ResolvePolicy(s).targets = BaselineOf(s)..HorizonOf(s)
    BY <2>1 DEF InEffect
  <2>3. ResolvePolicy(s).minimum \in {"medium", "high"}
    <3>1. Effective(s, "minimum") # "low"
      BY <1>2 DEF Refused, OptionsRefused
    <3>2. QED
      BY <1>2, <2>2, <3>1, SetupsAssumption
  <2>4. ASSUME Infers(s),
               NEW v \in Lowest(Supported)..Highest(BaselineOf(s)..HorizonOf(s)),
               NEW patch \in Nat, Admitted(Declaration(s), v, patch)
        PROVE  v \in BaselineOf(s)..HorizonOf(s)
    <3>1. BaselineOf(s) \in Supported /\ HorizonOf(s) \in Supported /\ ~(HorizonOf(s) < BaselineOf(s))
      BY <1>2 DEF Refused, PolicyRefused
    <3>2. BaselineOf(s) \in Nat /\ HorizonOf(s) \in Nat /\ BaselineOf(s) <= HorizonOf(s)
      <4>1. BaselineOf(s) \in Nat /\ HorizonOf(s) \in Nat
        <5>1. Supported \subseteq Nat
          BY SupportedVersions
        <5>2. QED
          BY <3>1, <5>1
      <4>2. \A m, n \in Nat : ~(n < m) => m <= n
        OBVIOUS
      <4>3. QED
        BY <3>1, <4>1, <4>2
    <3>3. Highest(BaselineOf(s)..HorizonOf(s)) = HorizonOf(s)
      BY <3>2, HighestOfRange
    <3>4. Lowest(Supported) \in Supported /\ Lowest(Supported) \in Nat
      BY <3>1, SupportedVersions, LowestLeast
    <3>5. v \in Int /\ Lowest(Supported) <= v /\ v <= HorizonOf(s)
      BY <3>2, <3>3, <3>4
    <3>6. v \in Supported /\ v \in Nat
      BY <3>1, <3>4, <3>5, SupportedVersions
    <3>7. Declaration(s) \in SUBSET Clauses
      <4>1. Declares(s)
        BY <1>2, <2>4 DEF Refused, BaselineRefused
      <4>2. QED
        BY <1>2, <4>1, SetupsAssumption
    <3>8. v \in Included(Declaration(s))
      BY <2>4, <3>6, <3>7, CandidatesSuffice DEF Included
    <3>9. Included(Declaration(s)) \in SUBSET Nat
      BY SupportedVersions DEF Included
    <3>10. BaselineOf(s) <= v
      BY <2>4, <3>8, <3>9, LowestLeast DEF BaselineOf
    <3>11. QED
      BY <3>2, <3>5, <3>10
  <2>5. QED
    BY <2>2, <2>3, <2>4
<1>3. QED
  BY <1>1, <1>2

-----------------------------------------------------------------------------
(* The invariant: the source is made of sites, the policy is that of the     *)
(* setup, and the baseline is what a report of the recorded scan said.       *)

RecordOf(scan) == [scan |-> scan, sites |-> {f.site : f \in Unsuppressed(scan, Report(scan))}]
BaselineFrom(scan) == {f.fingerprint : f \in Unsuppressed(scan, Report(scan))}

Resolved == setup \in Setups /\ policy = ResolvePolicy(setup)
Recorded ==
  \/ taken = <<>> /\ baseline = {}
  \/ \E scan : Sourced(scan) /\ taken = <<RecordOf(scan)>> /\ baseline = BaselineFrom(scan)

Inv == source \in Seq(Sites) /\ Resolved /\ Recorded

LEMMA InvInit == Init => Inv
BY FindingsAssumption DEF Init, Inv, Resolved, Recorded

LEMMA InvCreateBaseline == Inv /\ CreateBaseline => Inv'
<1> SUFFICES ASSUME Inv, CreateBaseline PROVE Inv'
  OBVIOUS
<1>1. PICK scan : scan = Project
  OBVIOUS
<1>2. Sourced(scan)
  BY <1>1 DEF Inv, Sourced, Project
<1>3. taken' = <<RecordOf(scan)>> /\ baseline' = BaselineFrom(scan)
  BY <1>1 DEF CreateBaseline, Save, RecordOf, BaselineFrom
<1>4. UNCHANGED <<source, setup, policy>>
  BY DEF CreateBaseline
<1>5. QED
  BY <1>2, <1>3, <1>4 DEF Inv, Resolved, Recorded

LEMMA InsertKeepsSites ==
  ASSUME NEW text \in Seq(Sites), NEW s \in Sites, NEW n \in 0..Len(text)
  PROVE  SubSeq(text, 1, n) \o <<s>> \o SubSeq(text, n + 1, Len(text)) \in Seq(Sites)
<1>1. Len(text) \in Nat
  OBVIOUS
<1>2. SubSeq(text, 1, n) \in Seq(Sites)
  BY <1>1
<1>3. SubSeq(text, n + 1, Len(text)) \in Seq(Sites)
  BY <1>1
<1>4. <<s>> \in Seq(Sites)
  OBVIOUS
<1>5. QED
  BY <1>2, <1>3, <1>4

LEMMA RemoveKeepsSites ==
  ASSUME NEW text \in Seq(Sites), NEW n \in 1..Len(text)
  PROVE  SubSeq(text, 1, n - 1) \o SubSeq(text, n + 1, Len(text)) \in Seq(Sites)
<1>1. Len(text) \in Nat
  OBVIOUS
<1>2. SubSeq(text, 1, n - 1) \in Seq(Sites)
  BY <1>1
<1>3. SubSeq(text, n + 1, Len(text)) \in Seq(Sites)
  BY <1>1
<1>4. QED
  BY <1>2, <1>3

LEMMA InvNext == Inv /\ [Next]_vars => Inv'
<1> SUFFICES ASSUME Inv, [Next]_vars PROVE Inv'
  OBVIOUS
<1>1. ASSUME CreateBaseline PROVE Inv'
  BY <1>1, InvCreateBaseline
<1>2. ASSUME Configure PROVE Inv'
  BY <1>2 DEF Configure, Edit, Inv, Resolved, Recorded
<1>3. ASSUME NEW s \in Sites, InsertSite(s) PROVE Inv'
  <2>1. source' \in Seq(Sites)
    BY <1>3, InsertKeepsSites DEF InsertSite, Inv
  <2>2. QED
    BY <1>3, <2>1 DEF InsertSite, Edit, Inv, Resolved, Recorded
<1>4. ASSUME NEW s \in Sites, ToggleSuppression(s) PROVE Inv'
  BY <1>4 DEF ToggleSuppression, Edit, Inv, Resolved, Recorded
<1>5. ASSUME NEW n \in 1..Len(source), RemoveSite(n) PROVE Inv'
  <2>1. source' \in Seq(Sites)
    BY <1>5, RemoveKeepsSites DEF RemoveSite, Inv
  <2>2. QED
    BY <1>5, <2>1 DEF RemoveSite, Edit, Inv, Resolved, Recorded
<1>6. ASSUME NEW p \in Paths, BreakOrMend(p) PROVE Inv'
  BY <1>6 DEF BreakOrMend, Edit, Inv, Resolved, Recorded
<1>7. CASE UNCHANGED vars
  BY <1>7 DEF vars, Inv, Resolved, Recorded
<1>8. QED
  BY <1>1, <1>2, <1>3, <1>4, <1>5, <1>6, <1>7 DEF Next

\* The baseline stays what the scan it was created from reported (_create_baseline).
THEOREM BaselineKept == Spec => []Inv
<1>1. QED
  BY InvInit, InvNext, PTL DEF Spec

-----------------------------------------------------------------------------
(* A baselined finding stays known.                                         *)

LEMMA KnownOccurrence ==
  ASSUME NEW scan, Sourced(scan), NEW then, Sourced(then), NEW f \in Report(scan),
         f.site \in RecordOf(then).sites, Before(scan, f.site) = Before(then, f.site)
  PROVE  f.fingerprint \in BaselineFrom(then)
<1>1. PICK g \in Unsuppressed(then, Report(then)) : g.site = f.site
  BY DEF RecordOf
<1>2. g \in Report(then)
  BY DEF Unsuppressed
<1>3. g.fingerprint = Identity(then, g.site)
  BY <1>2, ReportOf DEF FindingOf
<1>4. f.fingerprint = Identity(scan, f.site)
  BY ReportOf DEF FindingOf
<1>5. g.fingerprint = f.fingerprint
  BY <1>1, <1>3, <1>4 DEF Identity
<1>6. QED
  BY <1>5 DEF BaselineFrom

LEMMA OneRecord ==
  ASSUME NEW record, NEW n \in 1..Len(<<record>>) PROVE <<record>>[n] = record
<1>1. n = 1
  OBVIOUS
<1>2. QED
  BY <1>1

\* A finding that was baselined is recognised whatever became of the rest of the
\* project, as long as no occurrence came or went before it (_fingerprint).
THEOREM BaselinedKnown == Spec => []BaselinedStaysKnown
<1>1. Inv => BaselinedStaysKnown
  <2> SUFFICES ASSUME Inv, NEW n \in 1..Len(taken), NEW f \in Report(Project),
                      f.site \in taken[n].sites,
                      Before(Project, f.site) = Before(taken[n].scan, f.site)
               PROVE  f.fingerprint \in baseline
    BY DEF BaselinedStaysKnown
  <2>1. taken # <<>>
    OBVIOUS
  <2>2. PICK then : Sourced(then) /\ taken = <<RecordOf(then)>> /\ baseline = BaselineFrom(then)
    BY <2>1 DEF Inv, Recorded
  <2>3. taken[n] = RecordOf(then) /\ taken[n].scan = then
    BY <2>2, OneRecord DEF RecordOf
  <2>4. PICK scan : scan = Project
    OBVIOUS
  <2>5. Sourced(scan)
    BY <2>4 DEF Inv, Sourced, Project
  <2>6. /\ f \in Report(scan) /\ f.site \in RecordOf(then).sites
        /\ Before(scan, f.site) = Before(then, f.site)
    BY <2>3, <2>4
  <2>7. QED
    BY <2>2, <2>5, <2>6, KnownOccurrence
<1>2. QED
  BY <1>1, BaselineKept, PTL

-----------------------------------------------------------------------------
(* The gate counts.                                                         *)

\* The worst of a rule's states is at least informational.
LEMMA EveryStateCounts ==
  ASSUME NEW s \in Sites, NEW v, HasState(RuleOf[s], v)
  PROVE  Severity(ImpactAt(RuleOf[s], v)) >= 0
<1> DEFINE E == Events(RuleOf[s], v)
<1>1. E # {} /\ IsFiniteSet(E) /\ \A e \in E : e.python \in Nat /\ e.impact \in Impacts
  <2>1. LET events == Rules[RuleOf[s]].events
        IN  IsFiniteSet(events) /\ \A e \in events : e.python \in Nat /\ e.impact \in Impacts
    BY RulesAssumption
  <2>2. E # {} /\ E \in SUBSET Rules[RuleOf[s]].events
    BY DEF HasState, Events
  <2> HIDE DEF E
  <2>3. QED
    BY <2>1, <2>2, FS_Subset
<1> DEFINE Versions == {e.python : e \in E}
<1>2. Versions \in SUBSET Nat /\ Versions # {} /\ IsFiniteSet(Versions)
  <2> DEFINE f == [e \in E |-> e.python]
  <2> HIDE DEF E
  <2>1. IsFiniteSet({f[e] : e \in E})
    <3> HIDE DEF f
    <3>1. QED
      BY <1>1, FiniteImage
  <2>2. {f[e] : e \in E} = Versions
    OBVIOUS
  <2>3. QED
    BY <1>1, <2>1, <2>2
<1>3. \E e \in E : \A f \in E : f.python <= e.python
  <2>1. PICK n \in Nat : Versions \in SUBSET (0..n)
    <3> HIDE DEF Versions
    <3>1. QED
      BY <1>2, FiniteBounded
  <2>2. PICK m \in Versions : \A k \in Versions : k <= m
    <3> HIDE DEF Versions
    <3>1. QED
      BY <1>2, <2>1, GreatestElement
  <2>3. QED
    BY <2>2
<1>4. ImpactAt(RuleOf[s], v) \in Impacts
  <2>1. PICK e : e = CHOOSE x \in E : \A f \in E : f.python <= x.python
    OBVIOUS
  <2>2. e \in E
    BY <1>3, <2>1
  <2>3. ImpactAt(RuleOf[s], v) = e.impact
    BY <2>1 DEF ImpactAt
  <2>4. QED
    BY <1>1, <2>2, <2>3
<1>5. QED
  BY <1>4 DEF Impacts, Severity

\* Every finding is something to a gate that fails on any.
LEMMA AnyReaches ==
  ASSUME NEW scan, Sourced(scan), NEW f \in Report(scan)
  PROVE  Reaches(RuleOf[f.site], f.versions, 0)
<1>1. PICK s \in Matching(scan) : Passes(scan, ConsideredOf(scan, s)) /\ f = FindingOf(scan, s)
  BY ReportOf
<1>2. s \in Sites /\ ConsideredOf(scan, s).site = s
  BY MatchingSites, ConsideredSites
<1>3. f.site = s /\ f.versions = ConsideredOf(scan, s).versions
  BY <1>1 DEF FindingOf
<1>4. PICK v \in f.versions : HasState(RuleOf[s], v)
  BY <1>1, <1>2, <1>3 DEF Passes
<1>5. QED
  BY <1>2, <1>3, <1>4, EveryStateCounts DEF Reaches

NoMore(found, known, f) ==
  Cardinality({g \in found : Alike(f.site, g.site)}) <=
    Cardinality({b \in known : [b EXCEPT !.ordinal = 0] = [f.fingerprint EXCEPT !.ordinal = 0]})

LEMMA NoMoreThanKnown ==
  ASSUME NEW scan, Sourced(scan), NEW known, IsFiniteSet(known),
         NEW found \in SUBSET Report(scan),
         \A g \in found : g.fingerprint \in known,
         NEW f \in found
  PROVE  NoMore(found, known, f)
<1> DEFINE G == {g \in found : Alike(f.site, g.site)}
           B == {b \in known : [b EXCEPT !.ordinal = 0] = [f.fingerprint EXCEPT !.ordinal = 0]}
           h == [g \in G |-> g.fingerprint]
<1>1. IsFiniteSet(B)
  BY FS_Subset
<1>2. \A g \in found : /\ g.site \in Matching(scan) /\ g.fingerprint = Identity(scan, g.site)
                       /\ g = FindingOf(scan, g.site)
  BY ReportOf DEF FindingOf
<1>3. ASSUME NEW g \in G PROVE g.fingerprint \in B
  <2>1. /\ Path[g.site] = Path[f.site] /\ RuleOf[g.site] = RuleOf[f.site]
        /\ IsImport(g.site) = IsImport(f.site)
    BY <1>3 DEF Alike
  <2>2. [Identity(scan, g.site) EXCEPT !.ordinal = 0] = [Identity(scan, f.site) EXCEPT !.ordinal = 0]
    BY <2>1 DEF Identity
  <2>3. g \in found
    OBVIOUS
  <2>4. QED
    BY <1>2, <2>2, <2>3
<1>4. ASSUME NEW g \in G, NEW k \in G, g.fingerprint = k.fingerprint PROVE g = k
  <2>1. g \in found /\ k \in found /\ Alike(g.site, k.site) /\ Alike(k.site, g.site)
    BY DEF Alike
  <2>2. Identity(scan, g.site) = Identity(scan, k.site)
    BY <1>2, <1>4, <2>1
  <2>3. /\ ~(Position(scan, g.site) < Position(scan, k.site))
        /\ ~(Position(scan, k.site) < Position(scan, g.site))
    BY <1>2, <2>1, <2>2, IdentitiesDiffer
  <2>4. Position(scan, g.site) \in Nat /\ Position(scan, k.site) \in Nat
    BY <1>2, <2>1, PositionsDiffer
  <2>5. Position(scan, g.site) = Position(scan, k.site)
    BY <2>3, <2>4
  <2>6. g.site = k.site
    BY <1>2, <2>1, <2>5, PositionsDiffer
  <2>7. QED
    BY <1>2, <2>1, <2>6
<1>5. h \in Injection(G, B)
  <2> HIDE DEF G, B
  <2>1. h \in [G -> B]
    BY <1>3
  <2>2. \A g, k \in G : h[g] = h[k] => g = k
    BY <1>4
  <2>3. QED
    BY <2>1, <2>2 DEF Injection, IsInjective
<1>6. Cardinality(G) <= Cardinality(B)
  <2> HIDE DEF G, B, h
  <2>1. QED
    BY <1>1, <1>5, FS_Injection
<1>7. QED
  BY <1>6 DEF NoMore

\* A gate on new findings that succeeds has let no more findings of a rule through
\* in a scope than were baselined there (gate_failed, _fingerprint).
THEOREM OccurrencesCounted == Spec => []GateCountsOccurrences
<1>1. Inv => GateCountsOccurrences
  <2> SUFFICES ASSUME Inv, policy.failOn = "any",
                      ~GateFailed(Project, Report(Project), baseline, TRUE),
                      NEW f \in Unsuppressed(Project, Report(Project))
               PROVE  Cardinality({g \in Unsuppressed(Project, Report(Project)) : Alike(f.site, g.site)}) <=
                        Cardinality({b \in baseline : [b EXCEPT !.ordinal = 0] =
                                                        [f.fingerprint EXCEPT !.ordinal = 0]})
    BY DEF GateCountsOccurrences
  <2>1. PICK scan : scan = Project
    OBVIOUS
  <2>2. Sourced(scan) /\ scan.policy.failOn = "any"
    BY <2>1 DEF Inv, Sourced, Project
  <2>3. PICK known : known = baseline
    OBVIOUS
  <2>4. IsFiniteSet(known)
    <3>1. CASE known = {}
      BY <3>1, FS_EmptySet
    <3>2. ASSUME NEW then, Sourced(then), known = BaselineFrom(then) PROVE IsFiniteSet(known)
      <4> DEFINE h == [g \in Unsuppressed(then, Report(then)) |-> g.fingerprint]
      <4>1. IsFiniteSet(Unsuppressed(then, Report(then)))
        BY <3>2, ReportOf, FS_Subset DEF Unsuppressed
      <4>2. IsFiniteSet({h[g] : g \in Unsuppressed(then, Report(then))})
        <5> HIDE DEF h
        <5>1. QED
          BY <4>1, FiniteImage
      <4>3. QED
        BY <3>2, <4>2 DEF BaselineFrom
    <3>3. QED
      BY <2>3, <3>1, <3>2 DEF Inv, Recorded
  <2>5. PICK found : found = Unsuppressed(scan, Report(scan))
    OBVIOUS
  <2>6. found \in SUBSET Report(scan) /\ f \in found
    BY <2>1, <2>5 DEF Unsuppressed
  <2>7. ASSUME NEW g \in found PROVE g.fingerprint \in known
    <3>1. ~GateFailed(scan, Report(scan), known, TRUE)
      BY <2>1, <2>3
    <3>2. Reaches(RuleOf[g.site], g.versions, 0)
      BY <2>2, <2>6, AnyReaches
    <3>3. Threshold(scan.policy.failOn) = 0
      BY <2>2 DEF Threshold
    <3>4. QED
      BY <2>2, <2>5, <3>1, <3>2, <3>3 DEF GateFailed
  <2>8. NoMore(found, known, f)
    BY <2>2, <2>4, <2>6, <2>7, NoMoreThanKnown
  <2>9. found = Unsuppressed(Project, Report(Project))
    BY <2>1, <2>5
  <2>10. QED
    BY <2>3, <2>8, <2>9 DEF NoMore
<1>2. QED
  BY <1>1, BaselineKept, PTL

-----------------------------------------------------------------------------
(* What is reported.                                                        *)

\* A version of a site for which a report says something.
LEMMA DueIsReported ==
  ASSUME NEW scan, Sourced(scan), Filtered(scan), NEW s \in Matching(scan),
         NEW v, HasState(RuleOf[s], v), Due(scan, s, v)
  PROVE  \E f \in Report(scan) : f.site = s /\ v \in f.versions
<1>1. Passes(scan, ConsideredOf(scan, s)) /\ v \in ConsideredOf(scan, s).versions
  BY ReportedExactly
<1>2. FindingOf(scan, s) \in Report(scan)
  BY <1>1, ReportOf
<1>3. FindingOf(scan, s).site = s /\ FindingOf(scan, s).versions = ConsideredOf(scan, s).versions
  BY DEF FindingOf
<1>4. QED
  BY <1>1, <1>2, <1>3

\* A version a rule affects is told of by the site itself, or by a use its import has.
LEMMA ToldIsReported ==
  ASSUME NEW scan, Sourced(scan), Filtered(scan), NEW s \in Matching(scan),
         NEW v, HasState(RuleOf[s], v), Told(scan, s, v),
         High(scan) => v \notin Unknown(s)
  PROVE  \/ \E f \in Report(scan) : f.site = s /\ v \in f.versions
         \/ \E t \in Links(s) : ~IsImport(t) /\ \E f \in Report(scan) : f.site = t /\ v \in f.versions
<1>1. CASE Due(scan, s, v)
  BY <1>1, DueIsReported
<1>2. CASE ~Due(scan, s, v)
  <2>1. PICK t \in Sites : Covers(scan, s, v, t)
    BY <1>2 DEF Due
  <2>2. /\ t \in Links(s) /\ t \in Matching(scan) /\ RuleOf[t] = RuleOf[s]
        /\ ~IsImport(t) /\ Told(scan, t, v)
    BY <2>1 DEF Covers
  <2>3. Due(scan, t, v) /\ HasState(RuleOf[t], v)
    BY <2>2 DEF Due
  <2>4. QED
    BY <2>2, <2>3, DueIsReported
<1>3. QED
  BY <1>1, <1>2

\* The policy covers what it promises.
LEMMA PromisedCovered == Inv => Promised \subseteq policy.targets
<1> SUFFICES ASSUME Inv, policy.valid, Infers(setup) PROVE Promised \subseteq policy.targets
  BY DEF Promised
<1>1. setup \in Setups /\ policy = ResolvePolicy(setup)
  BY DEF Inv, Resolved
<1>2. ASSUME NEW v \in Lowest(Supported)..Highest(policy.targets),
             NEW p \in Releases3, Admitted(Declaration(setup), v, p)
      PROVE  v \in policy.targets
  <2>1. p \in Nat
    BY DEF Releases3, Far
  <2>2. PICK s : s = setup
    OBVIOUS
  <2>3. s \in Setups /\ ResolvePolicy(s).valid /\ Infers(s)
    BY <1>1, <2>2
  <2>4. v \in Lowest(Supported)..Highest(ResolvePolicy(s).targets) /\ Admitted(Declaration(s), v, p)
    BY <1>1, <1>2, <2>2
  <2>5. v \in ResolvePolicy(s).targets
    BY <2>1, <2>3, <2>4, ResolvedPolicy
  <2>6. QED
    BY <1>1, <2>2, <2>5
<1>3. QED
  BY <1>2 DEF Promised

LEMMA ProjectScan ==
  Inv => /\ Sourced(Project) /\ Filtered(Project)
         /\ Targets(Project) = policy.targets
<1> SUFFICES ASSUME Inv PROVE /\ Sourced(Project) /\ Filtered(Project)
                              /\ Targets(Project) = policy.targets
  OBVIOUS
<1>1. PICK s : s = setup
  OBVIOUS
<1>2. s \in Setups /\ policy = ResolvePolicy(s)
  BY <1>1 DEF Inv, Resolved
<1>3. policy.minimum \in {"medium", "high"}
  BY <1>2, ResolvedPolicy
<1>4. QED
  BY <1>3 DEF Inv, Sourced, Filtered, Project, Targets

\* An affected version is one that is told, and that no guard leaves in doubt.
LEMMA AffectedIsTold ==
  ASSUME Inv, NEW s \in Matching(Project), NEW m \in Kept(s), Scheduled(Project, RuleOf[s]),
         NEW v \in Affected(Promised, Mutated(Project), m, s)
  PROVE  /\ HasState(RuleOf[s], v) /\ Told(Project, s, v)
         /\ High(Project) => v \notin Unknown(s)
<1>1. s \in Sites
  <2>1. PICK scan : scan = Project
    OBVIOUS
  <2>2. Sourced(scan) /\ s \in Matching(scan)
    BY <2>1, ProjectScan
  <2>3. QED
    BY <2>2, MatchingSites
<1>2. /\ v \in m.versions /\ v \in Targets(Project) /\ HasState(RuleOf[s], v)
      /\ m.contexts \cap Rules[RuleOf[s]].contexts # {}
      /\ ~(Rules[RuleOf[s]].module /\ Gone(RuleOf[s], v) /\ v \in Mutated(Project).append)
      /\ High(Project) => /\ m.confidence = "high" /\ v \notin m.unknown
                          /\ v \notin Mutated(Project).insert
  BY PromisedCovered, ProjectScan DEF Affected
<1>3. Relevant(s) /\ Holds(Project, s, v)
  BY <1>2 DEF Relevant, Holds
<1>4. High(Project) => v \notin Unknown(s)
  BY <1>1, <1>2, KeptAgree DEF Unknown
<1>5. QED
  BY <1>2, <1>3, <1>4 DEF Told

\* No affected version is lost between the matches and the findings
\* (deduplicate_matches, dynamic_path_adjustments, _uncovered_import).
THEOREM AllReported == Spec => []EverythingReported
<1>1. Inv => EverythingReported
  <2> SUFFICES ASSUME Inv, NEW s \in Matching(Project), Scheduled(Project, RuleOf[s]),
                      NEW m \in Kept(s), NEW v \in Affected(Promised, Mutated(Project), m, s)
               PROVE  \/ \E f \in Report(Project) : f.site = s /\ v \in f.versions
                      \/ \E t \in UNION {k.links : k \in Kept(s)} :
                           ~IsImport(t) /\ \E f \in Report(Project) : f.site = t /\ v \in f.versions
    BY DEF EverythingReported
  <2>1. PICK scan : scan = Project
    OBVIOUS
  <2>2. Sourced(scan) /\ Filtered(scan)
    BY <2>1, ProjectScan
  <2>3. /\ s \in Matching(scan) /\ HasState(RuleOf[s], v) /\ Told(scan, s, v)
        /\ High(scan) => v \notin Unknown(s)
    BY <2>1, AffectedIsTold
  <2>4. \/ \E f \in Report(scan) : f.site = s /\ v \in f.versions
        \/ \E t \in Links(s) : ~IsImport(t) /\ \E f \in Report(scan) : f.site = t /\ v \in f.versions
    BY <2>2, <2>3, ToldIsReported
  <2>5. QED
    BY <2>1, <2>4 DEF Links
<1>2. QED
  BY <1>1, BaselineKept, PTL

\* A successful check is of a project without an affected use that is not suppressed
\* (exit_code, gate_failed).
THEOREM SuccessClean == Spec => []SuccessIsClean
<1>1. Inv => SuccessIsClean
  <2> SUFFICES ASSUME Inv, ExitCode(Project, Report(Project), {}, FALSE) = "success",
                      policy.failOn = "any", ~policy.allowIncomplete,
                      NEW n \in 1..Len(source), Scheduled(Project, RuleOf[source[n]]),
                      NEW m \in Uses(source[n]),
                      Affected(Promised, Mutated(Project), m, source[n]) # {}
               PROVE  source[n] \in Muted(Project)
    BY DEF SuccessIsClean
  <2>1. PICK scan : scan = Project
    OBVIOUS
  <2>2. Sourced(scan) /\ Filtered(scan) /\ scan.policy.failOn = "any"
    BY <2>1, ProjectScan DEF Project
  <2>3. ~Incomplete(scan) /\ ~GateFailed(scan, Report(scan), {}, FALSE)
    BY <2>1 DEF ExitCode
  <2>4. PICK s : s = source[n]
    OBVIOUS
  <2>5. s \in Matching(scan) /\ m \in Kept(s) /\ ~IsImport(s)
    <3>1. unreadable = {}
      BY <2>1, <2>3 DEF Incomplete, Project
    <3>2. s \in Analysed(scan)
      BY <2>1, <2>4, <3>1 DEF Analysed, Project
    <3>3. m \in Raw[s] /\ m \in Uses(s)
      BY <2>4 DEF Uses
    <3>4. ~IsImport(s)
      BY <3>3 DEF IsImport, Imports
    <3>5. QED
      BY <3>2, <3>3, <3>4 DEF Matching, Kept
  <2>6. PICK v \in Affected(Promised, Mutated(Project), m, s) : TRUE
    BY <2>4
  <2>7. HasState(RuleOf[s], v) /\ Told(scan, s, v)
    BY <2>1, <2>4, <2>5, AffectedIsTold
  <2>8. Due(scan, s, v)
    BY <2>5, <2>7 DEF Due
  <2>9. PICK f \in Report(scan) : f.site = s /\ v \in f.versions
    BY <2>2, <2>5, <2>7, <2>8, DueIsReported
  <2>10. Reaches(RuleOf[f.site], f.versions, 0)
    BY <2>2, AnyReaches
  <2>11. Threshold(scan.policy.failOn) = 0
    BY <2>2 DEF Threshold
  <2>12. f \notin Unsuppressed(scan, Report(scan))
    BY <2>2, <2>3, <2>10, <2>11 DEF GateFailed
  <2>13. s \in Muted(scan)
    BY <2>9, <2>12 DEF Unsuppressed
  <2>14. QED
    BY <2>1, <2>4, <2>13
<1>2. QED
  BY <1>1, BaselineKept, PTL

-----------------------------------------------------------------------------
(* A scan that says less than another of the same source.                   *)

\* The same source and files, analysed for fewer versions.
Narrower(now, then) ==
  /\ now.source = then.source /\ now.unreadable = then.unreadable
  /\ now.policy.targets \subseteq then.policy.targets
  /\ now.policy.minimum = then.policy.minimum
  /\ now.policy.showUnscheduled => then.policy.showUnscheduled

LEMMA SameSites ==
  ASSUME NEW now, NEW then, Narrower(now, then)
  PROVE  /\ Matching(now) = Matching(then)
         /\ \A s : Position(now, s) = Position(then, s) /\ Before(now, s) = Before(then, s)
<1>1. Analysed(now) = Analysed(then)
  BY DEF Analysed, Narrower
<1>2. Matching(now) = Matching(then)
  BY <1>1 DEF Matching
<1>3. \A s : Position(now, s) = Position(then, s)
  BY DEF Position, Narrower
<1>4. QED
  BY <1>2, <1>3 DEF Before

\* What changes sys.path on a version does so whatever the other versions are.
LEMMA SameMutations ==
  ASSUME NEW now, NEW then, Narrower(now, then), NEW v \in Targets(now)
  PROVE  /\ v \in Mutated(now).insert <=> v \in Mutated(then).insert
         /\ v \in Mutated(now).append <=> v \in Mutated(then).append
<1>1. Analysed(now) = Analysed(then)
  BY DEF Analysed, Narrower
<1>2. v \in Targets(then)
  BY DEF Targets, Narrower
<1>3. ASSUME NEW operation PROVE v \in MutatedBy(now, operation) <=> v \in MutatedBy(then, operation)
  <2>1. ASSUME NEW scan, v \in Targets(scan), Analysed(scan) = Analysed(now)
        PROVE  v \in MutatedBy(scan, operation) <=>
                 \E s \in Analysed(now) : \E m \in Mutates[s] : m.operation = operation /\ v \in m.versions
    <3>1. \A m : m \in Mutations(scan) <=>
                   \E s \in Analysed(now) : m \in Mutates[s] /\ m.versions \cap Targets(scan) # {}
      BY <2>1 DEF Mutations
    <3>2. v \in MutatedBy(scan, operation) <=>
            \E m \in Mutations(scan) : m.operation = operation /\ v \in m.versions \cap Targets(scan)
      BY DEF MutatedBy
    <3>3. QED
      BY <2>1, <3>1, <3>2
  <2>2. QED
    BY <1>1, <1>2, <2>1
<1>4. QED
  BY <1>3 DEF Mutated

\* What is told of a version does not depend on the other versions.
LEMMA HoldsAlike ==
  ASSUME NEW now, NEW then, Narrower(now, then), NEW v \in Targets(now), NEW s
  PROVE  Holds(now, s, v) <=> Holds(then, s, v)
<1>1. v \in Targets(then)
  BY DEF Targets, Narrower
<1>2. High(now) <=> High(then)
  BY DEF High, Narrower
<1>3. QED
  BY <1>1, <1>2, SameMutations DEF Holds

\* What a narrower scan is to say of a version, the wider one is to say.
LEMMA DueNarrows ==
  ASSUME NEW now, NEW then, Narrower(now, then), NEW s, NEW v, Due(now, s, v)
  PROVE  Due(then, s, v)
<1>1. v \in Targets(now)
  BY DEF Due, Told, Holds
<1>2. \A rule : Scheduled(now, rule) => Scheduled(then, rule)
  BY DEF Scheduled, Narrower
<1>3. Told(then, s, v)
  BY <1>1, <1>2, HoldsAlike DEF Due, Told
<1>4. High(now) <=> High(then)
  BY DEF High, Narrower
<1>5. ASSUME NEW t \in Sites, Covers(then, s, v, t) PROVE Covers(now, s, v, t)
  <2>1. /\ t \in Links(s) \cap Matching(then) /\ RuleOf[t] = RuleOf[s]
        /\ ~IsImport(t) /\ Told(then, t, v)
    BY <1>5 DEF Covers
  <2>2. Scheduled(now, RuleOf[t]) /\ Relevant(t) /\ Holds(now, t, v)
    BY <1>1, <2>1, HoldsAlike DEF Due, Told
  <2>3. QED
    BY <2>1, <2>2, SameSites DEF Covers, Told
<1>6. QED
  BY <1>3, <1>4, <1>5 DEF Due

\* A finding of a narrower scan is one of the wider scan, by its site and its identity.
LEMMA FindingNarrows ==
  ASSUME NEW now, Sourced(now), Filtered(now), NEW then, Narrower(now, then),
         NEW f \in Report(now)
  PROVE  \E g \in Report(then) : g.site = f.site /\ g.fingerprint = f.fingerprint
<1>1. PICK s \in Matching(now) : Passes(now, ConsideredOf(now, s)) /\ f = FindingOf(now, s)
  BY ReportOf
<1>2. ConsideredOf(now, s).site = s
  BY ConsideredSites
<1>3. PICK v \in ConsideredOf(now, s).versions : HasState(RuleOf[s], v)
  BY <1>1, <1>2 DEF Passes
<1>4. Due(now, s, v)
  BY <1>1, <1>3, ReportedExactly
<1>5. Sourced(then) /\ Filtered(then) /\ s \in Matching(then)
  BY SameSites DEF Sourced, Filtered, Narrower
<1>6. PICK g \in Report(then) : g.site = s
  BY <1>3, <1>4, <1>5, DueNarrows, DueIsReported
<1>7. g.fingerprint = Identity(then, s)
  BY <1>5, <1>6, ReportOf DEF FindingOf
<1>8. f.site = s /\ f.fingerprint = Identity(now, s)
  BY <1>1 DEF FindingOf
<1>9. Identity(now, s) = Identity(then, s)
  BY SameSites DEF Identity
<1>10. QED
  BY <1>6, <1>7, <1>8, <1>9

\* A fresh baseline keeps the gate on new findings quiet as long as the source is
\* not edited, also when suppressions come and targets go (_uncovered_import).
THEOREM UneditedQuiet == Spec => []UneditedIsQuiet
<1>1. Inv => UneditedIsQuiet
  <2> SUFFICES ASSUME Inv, NEW n \in 1..Len(taken),
                      source = taken[n].scan.source, unreadable = taken[n].scan.unreadable,
                      Muted(taken[n].scan) \subseteq Muted(Project),
                      policy.targets \subseteq taken[n].scan.policy.targets,
                      policy.minimum = taken[n].scan.policy.minimum,
                      policy.showUnscheduled => taken[n].scan.policy.showUnscheduled,
                      NEW f \in Unsuppressed(Project, Report(Project))
               PROVE  f.fingerprint \in baseline
    BY DEF UneditedIsQuiet, GateFailed
  <2>1. PICK then : Sourced(then) /\ taken = <<RecordOf(then)>> /\ baseline = BaselineFrom(then)
    BY DEF Inv, Recorded
  <2>2. taken[n].scan = then
    BY <2>1, OneRecord DEF RecordOf
  <2>3. PICK now : now = Project
    OBVIOUS
  <2>4. Sourced(now) /\ Filtered(now)
    BY <2>3, ProjectScan
  <2>5. Narrower(now, then)
    BY <2>2, <2>3 DEF Narrower, Project
  <2>6. f \in Report(now) /\ f.site \notin Muted(now)
    BY <2>3 DEF Unsuppressed
  <2>7. PICK g \in Report(then) : g.site = f.site /\ g.fingerprint = f.fingerprint
    BY <2>4, <2>5, <2>6, FindingNarrows
  <2>8. g \in Unsuppressed(then, Report(then))
    BY <2>2, <2>3, <2>6, <2>7 DEF Unsuppressed
  <2>9. QED
    BY <2>1, <2>7, <2>8 DEF BaselineFrom
<1>2. QED
  BY <1>1, BaselineKept, PTL
=============================================================================
