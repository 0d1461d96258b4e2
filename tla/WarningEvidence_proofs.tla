------------------------ MODULE WarningEvidence_proofs ------------------------
(***************************************************************************)
(* What holds of warning evidence for every number of sessions, artifacts, *)
(* warnings and findings: no artifact outlives the session after it, the   *)
(* interval tree finds what a search of the list finds, a finding is       *)
(* corroborated exactly when a warning of this commit names it alone, and  *)
(* what a session writes accounts for all it saw, as long as it may be.    *)
(***************************************************************************)
EXTENDS WarningEvidence, FiniteInduction, SequenceTheorems

-----------------------------------------------------------------------------
(* The interval tree.                                                       *)

Regions(S) == IsFiniteSet(S) /\ \A f \in S : f.from \in Nat /\ f.to \in Nat /\ f.from <= f.to

\* A finite set of findings has one with the last midpoint.
LEMMA LastMidpoint ==
  ASSUME NEW S, IsFiniteSet(S), S # {}, \A f \in S : Midpoint(f) \in Nat
  PROVE  \E g \in S : \A f \in S : Midpoint(f) <= Midpoint(g)
<1> DEFINE C == {T \in SUBSET S : T = {} \/ \E g \in T : \A f \in T : Midpoint(f) <= Midpoint(g)}
<1>1. {} \in C
  OBVIOUS
<1>2. ASSUME NEW T \in SUBSET S, NEW x \in S \ T, T \in C PROVE T \cup {x} \in C
  <2>1. CASE T = {}
    BY <2>1
  <2>2. CASE T # {}
    <3>1. PICK g \in T : \A f \in T : Midpoint(f) <= Midpoint(g)
      BY <1>2, <2>2
    <3>2. CASE Midpoint(x) <= Midpoint(g)
      BY <3>1, <3>2
    <3>3. CASE Midpoint(g) <= Midpoint(x)
      BY <3>1, <3>3
    <3>4. QED
      BY <3>1, <3>2, <3>3
  <2>3. QED
    BY <2>1, <2>2
<1>3. S \in C
  <2> HIDE DEF C
  <2>1. QED
    BY <1>1, <1>2, FiniteSetGrows
<1>4. QED
  BY <1>3

\* There is always a median midpoint to build a node of the tree around.
LEMMA CenterExists ==
  ASSUME NEW S, Regions(S), S # {}
  PROVE  /\ Center(S) \in Nat
         /\ \E f \in S : Center(S) = Midpoint(f)
<1> DEFINE M == {Midpoint(f) : f \in S}
           half == Cardinality(S) \div 2
           Below(c) == {f \in S : Midpoint(f) < c}
           UpTo(c) == {f \in S : Midpoint(f) <= c}
           B == {c \in M : half < Cardinality(UpTo(c))}
<1>0. /\ IsFiniteSet(S) /\ \A f \in S : Midpoint(f) \in Nat
      /\ Cardinality(S) \in Nat /\ half \in Nat /\ half < Cardinality(S)
  <2>1. IsFiniteSet(S) /\ \A f \in S : Midpoint(f) \in Nat
    BY DEF Regions, Midpoint
  <2>2. Cardinality(S) \in Nat /\ Cardinality(S) # 0
    BY <2>1, FS_CardinalityType, FS_EmptySet
  <2>3. QED
    BY <2>1, <2>2
<1>1. \A c : UpTo(c) \in SUBSET S /\ Cardinality(UpTo(c)) \in Nat /\ Cardinality(Below(c)) \in Nat
  BY <1>0, FS_Subset, FS_CardinalityType
<1>2. B # {}
  <2>1. PICK g \in S : \A f \in S : Midpoint(f) <= Midpoint(g)
    BY <1>0, LastMidpoint
  <2>2. UpTo(Midpoint(g)) = S
    BY <2>1
  <2>3. QED
    BY <1>0, <2>1, <2>2
<1>3. PICK c \in B : \A d \in B : c <= d
  <2>1. B \in SUBSET Nat
    BY <1>0
  <2>2. QED
    BY <1>2, <2>1, LeastElement
<1>4. Cardinality(Below(c)) <= half
  <2>1. CASE Below(c) = {}
    BY <1>0, <2>1, FS_EmptySet
  <2>2. CASE Below(c) # {}
    <3>1. PICK g \in Below(c) : \A f \in Below(c) : Midpoint(f) <= Midpoint(g)
      <4>1. IsFiniteSet(Below(c)) /\ \A f \in Below(c) : Midpoint(f) \in Nat
        BY <1>0, FS_Subset
      <4> HIDE DEF Below
      <4>2. QED
        BY <2>2, <4>1, LastMidpoint
    <3>2. UpTo(Midpoint(g)) = Below(c)
      BY <1>0, <1>3, <3>1
    <3>3. Midpoint(g) \in M /\ Midpoint(g) \notin B
      BY <1>0, <1>3, <3>1
    <3>4. ~(half < Cardinality(Below(c)))
      <4>1. ~(half < Cardinality(UpTo(Midpoint(g))))
        BY <3>3
      <4> HIDE DEF Below, UpTo, half
      <4>2. QED
        BY <3>2, <4>1
    <3>5. Cardinality(Below(c)) \in Nat /\ half \in Nat
      BY <1>0, <1>1
    <3>6. QED
      <4> HIDE DEF Below, half
      <4>1. QED
        BY <3>4, <3>5
  <2>3. QED
    BY <2>1, <2>2
<1>5. \E d \in M : Cardinality(Below(d)) <= half /\ half < Cardinality(UpTo(d))
  BY <1>3, <1>4
<1>6. Center(S) \in M
  BY <1>5 DEF Center
<1>7. QED
  BY <1>0, <1>6

Containing(S, line) == {f \in S : f.from <= line /\ line <= f.to}

\* One node and the subtrees it refers the search to.
Node(T, line, at) ==
  IF T = {} THEN {}
  ELSE LET center   == Center(T)
           crossing == {f \in T : f.from <= center /\ center <= f.to}
       IN  IF line < center
           THEN {f \in crossing : f.from <= line} \cup at[{f \in T : f.to < center}]
           ELSE IF line > center
           THEN {f \in crossing : f.to >= line} \cup at[{f \in T : f.from > center}]
           ELSE crossing

LEMMA StabbedIsSearch ==
  ASSUME NEW S, NEW line
  PROVE  Stabbed(S, line) = (CHOOSE at : at = [T \in SUBSET S |-> Node(T, line, at)])[S]
  BY DEF Stabbed, Node

\* The answer of a search is what its node and the right answers of its
\* subtrees make of it.
LEMMA NodeExact ==
  ASSUME NEW S, Regions(S), NEW line \in Nat, NEW T \in SUBSET S,
         NEW at, \A U \in SUBSET T : U # T => at[U] = Containing(U, line)
  PROVE  Node(T, line, at) = Containing(T, line)
<1>1. CASE T = {}
  BY <1>1 DEF Node, Containing
<1>2. CASE T # {}
  <2> DEFINE c == Center(T)
             before == {f \in T : f.to < c}
             after == {f \in T : f.from > c}
  <2>1. Regions(T)
    BY FS_Subset DEF Regions
  <2>2. c \in Nat /\ \E f \in T : c = Midpoint(f)
    BY <1>2, <2>1, CenterExists
  <2>3. PICK g \in T : c = Midpoint(g)
    BY <2>2
  <2>4. g.from <= c /\ c <= g.to
    <3>1. g.from \in Nat /\ g.to \in Nat /\ g.from <= g.to
      BY <2>1, <2>3 DEF Regions
    <3>2. QED
      BY <2>3, <3>1 DEF Midpoint
  <2> HIDE DEF c
  <2>5. \A f \in T : f.from \in Nat /\ f.to \in Nat /\ f.from <= f.to
    BY <2>1 DEF Regions
  <2>6. before \in SUBSET T /\ before # T /\ after \in SUBSET T /\ after # T
    BY <2>2, <2>3, <2>4, <2>5
  <2>7. at[before] = Containing(before, line) /\ at[after] = Containing(after, line)
    BY <2>6
  <2> DEFINE crossing == {f \in T : f.from <= c /\ c <= f.to}
  <2>8. Node(T, line, at) = IF line < c THEN {f \in crossing : f.from <= line} \cup at[before]
                            ELSE IF line > c THEN {f \in crossing : f.to >= line} \cup at[after]
                            ELSE crossing
    BY <1>2 DEF Node, c
  <2>9. CASE line < c
    <3>1. {f \in crossing : f.from <= line} \cup Containing(before, line) = Containing(T, line)
      BY <2>2, <2>5, <2>9 DEF Containing
    <3>2. QED
      BY <2>7, <2>8, <2>9, <3>1
  <2>10. CASE line > c
    <3>1. {f \in crossing : f.to >= line} \cup Containing(after, line) = Containing(T, line)
      BY <2>2, <2>5, <2>10 DEF Containing
    <3>2. ~(line < c)
      BY <2>2, <2>10
    <3>3. QED
      BY <2>7, <2>8, <2>10, <3>1, <3>2
  <2>11. CASE line = c
    BY <2>2, <2>8, <2>11 DEF Containing
  <2>12. QED
    BY <2>2, <2>9, <2>10, <2>11
<1>3. QED
  BY <1>1, <1>2

\* The interval tree finds the findings whose region contains a line: exactly
\* those, in whatever order the regions nest and overlap, although each node
\* reads only one of its two orders and descends into one side
\* (_FindingIntervalNode.query, _build_interval_node).
THEOREM IntervalTreeExact ==
  ASSUME NEW S, Regions(S), NEW line \in Nat
  PROVE  Stabbed(S, line) = Containing(S, line)
<1> DEFINE Searches(at) == at = [T \in SUBSET S |-> Node(T, line, at)]
           exact == [T \in SUBSET S |-> Containing(T, line)]
<1>1. Searches(exact)
  <2>1. ASSUME NEW T \in SUBSET S PROVE exact[T] = Node(T, line, exact)
    <3>1. \A U \in SUBSET T : exact[U] = Containing(U, line)
      OBVIOUS
    <3> HIDE DEF exact
    <3>2. Node(T, line, exact) = Containing(T, line)
      BY <3>1, NodeExact
    <3>3. QED
      BY <3>1, <3>2
  <2>2. QED
    BY <2>1
<1> DEFINE at == CHOOSE g : Searches(g)
<1>2. Searches(at)
  BY <1>1
<1>3. \A T \in SUBSET S : T \in {U \in SUBSET S : at[U] = Containing(U, line)}
  <2> DEFINE C == {U \in SUBSET S : at[U] = Containing(U, line)}
  <2>1. ASSUME NEW T \in SUBSET S, \A U \in SUBSET T : U # T => U \in C PROVE T \in C
    <3>1. at[T] = Node(T, line, at)
      BY <1>2
    <3> HIDE DEF at
    <3>2. \A U \in SUBSET T : U # T => at[U] = Containing(U, line)
      BY <2>1
    <3>3. Node(T, line, at) = Containing(T, line)
      BY <3>2, NodeExact
    <3>4. QED
      BY <3>1, <3>3
  <2>2. IsFiniteSet(S)
    BY DEF Regions
  <2> HIDE DEF C
  <2>3. \A T \in SUBSET S : T \in C
    BY <2>1, <2>2, SmallerSubsets
  <2>4. QED
    BY <2>3 DEF C
<1>4. Stabbed(S, line) = at[S]
  BY StabbedIsSearch
<1>5. QED
  BY <1>3, <1>4

-----------------------------------------------------------------------------
(* What a registered session holds.                                         *)

Collectors ==
  [pc : {"registered", "running"}, path : Paths, commit : Nat, capture : BOOLEAN, toggles : Nat,
   kept : [Warnings -> Nat], text : Nat, dropped : Nat, raised : Nat, missed : BOOLEAN, left : Nat]

LEMMA RecordedType ==
  ASSUME NEW s \in Collectors, NEW w \in Warnings
  PROVE  /\ Recorded(s, w) \in Collectors
         /\ Recorded(s, w).pc = s.pc /\ Recorded(s, w).path = s.path
<1>1. Records[w].text \in Nat
  BY InputsAssumption DEF Warnings
<1> DEFINE counted == [s EXCEPT !.raised = @ + 1]
<1>2. counted \in Collectors /\ counted.pc = s.pc /\ counted.path = s.path
  BY DEF Collectors
<1>3. \/ Recorded(s, w) = s
      \/ Recorded(s, w) = [counted EXCEPT !.kept[w] = @ + 1]
      \/ Recorded(s, w) = [counted EXCEPT !.dropped = @ + 1]
      \/ Recorded(s, w) = [counted EXCEPT !.kept[w] = 1, !.text = @ + Records[w].text]
  BY DEF Recorded
<1> HIDE DEF counted
<1>4. [counted EXCEPT !.dropped = @ + 1] \in Collectors
  BY <1>2 DEF Collectors
<1>5. [counted EXCEPT !.kept[w] = @ + 1] \in Collectors
  BY <1>2 DEF Collectors
<1>6. [counted EXCEPT !.kept[w] = 1, !.text = @ + Records[w].text] \in Collectors
  <2>1. [counted EXCEPT !.kept[w] = 1] \in Collectors
    BY <1>2 DEF Collectors
  <2>2. \A c \in Collectors, n \in Nat : [c EXCEPT !.text = n] \in Collectors
    BY DEF Collectors
  <2>3. counted.text + Records[w].text \in Nat
    BY <1>1, <1>2 DEF Collectors
  <2>4. [counted EXCEPT !.kept[w] = 1, !.text = @ + Records[w].text]
          = [[counted EXCEPT !.kept[w] = 1] EXCEPT !.text = counted.text + Records[w].text]
    BY <1>2 DEF Collectors
  <2>5. QED
    BY <2>1, <2>2, <2>3, <2>4
<1>7. Recorded(s, w).pc = s.pc /\ Recorded(s, w).path = s.path
  BY <1>2, <1>3 DEF Collectors
<1>8. QED
  BY <1>3, <1>4, <1>5, <1>6, <1>7

\* What a collector becomes when the warnings of a set are recorded in turn.
Turn(s, T, g) == IF T = {} THEN s
                 ELSE Recorded(g[T \ {CHOOSE x \in T : TRUE}], CHOOSE x \in T : TRUE)
Replay(s, S) == (CHOOSE g : g = [T \in SUBSET S |-> Turn(s, T, g)])[S]

LEMMA ReplayIsFold ==
  ASSUME NEW s, NEW S
  PROVE  FoldSet(LAMBDA w, acc : Recorded(acc, w), s, S) = Replay(s, S)
  BY DEF FoldSet, MapThenFoldSet, Replay, Turn

\* What each recording keeps, a replay keeps.
LEMMA ReplayKeeps ==
  ASSUME NEW A, NEW s \in A, \A t \in A : \A w \in Warnings : Recorded(t, w) \in A,
         NEW S \in SUBSET Warnings, IsFiniteSet(S)
  PROVE  Replay(s, S) \in A
<1> DEFINE Kept(t) == t \in A
           step == [a \in Warnings \X A |-> Recorded(a[2], a[1])]
           choice == [T \in SUBSET S |-> CHOOSE x \in T : TRUE]
<1>1. \A T \in SUBSET S : T # {} => choice[T] \in T /\ choice[T] = CHOOSE x \in T : TRUE
  OBVIOUS
<1>2. PICK g : Folds(g, S, s, step, choice)
  <2>1. \A T \in SUBSET S : T # {} => choice[T] \in T
    BY <1>1
  <2> HIDE DEF step, choice
  <2>2. QED
    BY <2>1, FoldExists
<1>3. \A T \in SUBSET S : Kept(g[T])
  <2> DEFINE C == {T \in SUBSET S : Kept(g[T])}
  <2>1. ASSUME NEW T \in SUBSET S, \A U \in SUBSET T : U # T => U \in C PROVE T \in C
    <3>1. CASE T = {}
      BY <1>2, <3>1 DEF Folds
    <3>2. CASE T # {}
      <4>1. choice[T] \in T /\ choice[T] \in Warnings
        BY <1>1, <3>2
      <4> HIDE DEF choice
      <4>2. T \ {choice[T]} \in C
        BY <2>1, <4>1
      <4>3. Kept(g[T \ {choice[T]}])
        BY <4>2
      <4>4. g[T] = Recorded(g[T \ {choice[T]}], choice[T])
        BY <1>2, <3>2, <4>1, <4>3 DEF Folds
      <4>5. Kept(g[T])
        BY <4>1, <4>3, <4>4
      <4>6. QED
        BY <4>5
    <3>3. QED
      BY <3>1, <3>2
  <2> HIDE DEF C, step, choice
  <2>2. \A T \in SUBSET S : T \in C
    BY <2>1, SmallerSubsets
  <2>3. QED
    BY <2>2 DEF C
<1>4. g = [T \in SUBSET S |-> Turn(s, T, g)]
  <2>1. ASSUME NEW T \in SUBSET S PROVE g[T] = Turn(s, T, g)
    <3>1. CASE T = {}
      BY <1>2, <3>1 DEF Folds, Turn
    <3>2. CASE T # {}
      <4>1. choice[T] \in Warnings /\ g[T \ {choice[T]}] \in A
        BY <1>1, <1>3, <3>2
      <4>2. g[T] = Recorded(g[T \ {choice[T]}], choice[T])
        <5>1. g[T] = step[<<choice[T], g[T \ {choice[T]}]>>]
          BY <1>2, <3>2 DEF Folds
        <5> HIDE DEF choice
        <5>2. QED
          BY <4>1, <5>1
      <4>3. QED
        BY <1>1, <3>2, <4>2 DEF Turn
    <3>3. QED
      BY <3>1, <3>2
  <2>2. g = [T \in SUBSET S |-> g[T]]
    <3> HIDE DEF step, choice
    <3>1. QED
      BY <1>2 DEF Folds
  <2>3. QED
    <3> HIDE DEF step, choice
    <3>1. QED
      BY <2>1, <2>2
<1> DEFINE h == CHOOSE f : f = [T \in SUBSET S |-> Turn(s, T, f)]
<1>5. h = [T \in SUBSET S |-> Turn(s, T, h)]
  BY <1>4
<1>6. \A T \in SUBSET S : Kept(h[T])
  <2> HIDE DEF h
  <2> DEFINE C == {T \in SUBSET S : Kept(h[T])}
  <2>1. ASSUME NEW T \in SUBSET S, \A U \in SUBSET T : U # T => U \in C PROVE T \in C
    <3>1. CASE T = {}
      BY <1>5, <3>1 DEF Turn
    <3>2. CASE T # {}
      <4> DEFINE x == CHOOSE x \in T : TRUE
      <4>1. x \in T /\ x \in Warnings
        BY <3>2
      <4>2. h[T] = Recorded(h[T \ {x}], x)
        BY <1>5, <3>2 DEF Turn
      <4> HIDE DEF x
      <4>3. T \ {x} \in C
        BY <2>1, <4>1
      <4>4. Kept(h[T \ {x}])
        BY <4>3
      <4>5. Kept(h[T])
        BY <4>1, <4>2, <4>4
      <4>6. QED
        BY <4>5
    <3>3. QED
      BY <3>1, <3>2
  <2> HIDE DEF C
  <2>2. \A T \in SUBSET S : T \in C
    BY <2>1, SmallerSubsets
  <2>3. QED
    BY <2>2 DEF C
<1>7. Replay(s, S) = h[S]
  BY DEF Replay
<1>8. QED
  <2> HIDE DEF h
  <2>1. QED
    BY <1>6, <1>7

LEMMA ReplayType ==
  ASSUME NEW s \in Collectors, NEW S \in SUBSET Warnings, IsFiniteSet(S)
  PROVE  Replay(s, S) \in Collectors /\ Replay(s, S).pc = s.pc /\ Replay(s, S).path = s.path
<1> DEFINE A == {t \in Collectors : t.pc = s.pc /\ t.path = s.path}
<1>1. s \in A /\ \A t \in A : \A w \in Warnings : Recorded(t, w) \in A
  BY RecordedType
<1>2. Replay(s, S) \in A
  <2> HIDE DEF A
  <2>1. QED
    BY <1>1, ReplayKeeps
<1>3. QED
  BY <1>2

LEMMA RegisteredType ==
  ASSUME session \in [pc : {"configure"}, path : Paths], NEW c \in Nat, NEW S \in Early
  PROVE  /\ Registered(c, S) \in Collectors
         /\ Registered(c, S).pc = "registered" /\ Registered(c, S).path = session.path
<1> DEFINE s == [pc |-> "registered", path |-> session.path, commit |-> c, capture |-> TRUE,
                 toggles |-> 0, kept |-> [w \in Warnings |-> 0], text |-> 0, dropped |-> 0,
                 raised |-> 0, missed |-> FALSE, left |-> MaxRaised]
<1>1. s \in Collectors /\ s.pc = "registered" /\ s.path = session.path
  BY InputsAssumption DEF Collectors
<1>2. S \in SUBSET Warnings /\ IsFiniteSet(S)
  <2>1. Records \in Seq(Range(Records))
    BY InputsAssumption
  <2>2. Len(Records) \in Nat /\ Warnings = 1..Len(Records)
    BY <2>1, LenProperties DEF Warnings
  <2>3. IsFiniteSet(Warnings) /\ S \in SUBSET Warnings
    BY <2>2, InputsAssumption, FS_Interval DEF Warnings
  <2>4. QED
    BY <2>3, FS_Subset
<1>3. Registered(c, S) = Replay(s, S)
  BY ReplayIsFold DEF Registered
<1>4. QED
  <2> HIDE DEF s
  <2>1. QED
    BY <1>1, <1>2, <1>3, ReplayType

-----------------------------------------------------------------------------
(* No artifact outlives the session after it.                               *)

Started == [pc : {"cmdline", "configure"}, path : Paths]

\* Who owns each path: no session does before it configures, and the one that
\* collects owns the path it writes to.
OwnerInv ==
  /\ count \in Nat /\ head \in Nat
  /\ owner \in [Paths -> Nat] /\ \A p \in Paths : owner[p] <= count
  /\ files = [p \in Paths |-> files[p]]
  /\ session = Ended \/ session \in Started \cup Collectors
  /\ session \in Started => \A p \in Paths : owner[p] # count
  /\ session \in Collectors => owner[session.path] = count

LEMMA OwnerInit == Init => OwnerInv /\ NoStaleEvidence
  BY DEF Init, OwnerInv, NoStaleEvidence, Ended, Absent, Started, Collectors

\* A session is at one place: the labels tell the shapes apart.
LEMMA SessionShape ==
  ASSUME OwnerInv
  PROVE  /\ session.pc \in {"cmdline", "configure"} => session \in Started /\ session # Ended
         /\ session.pc \in {"registered", "running"} => session \in Collectors /\ session # Ended
         /\ session # Ended => session.path \in Paths
         /\ Ended \notin Started /\ Ended \notin Collectors /\ Started \cap Collectors = {}
  BY DEF OwnerInv, Ended, Started, Collectors

LEMMA OwnerStep == OwnerInv /\ NoStaleEvidence /\ [Next]_vars => OwnerInv' /\ NoStaleEvidence'
<1> SUFFICES ASSUME OwnerInv, NoStaleEvidence, [Next]_vars PROVE OwnerInv' /\ NoStaleEvidence'
  OBVIOUS
<1>0. /\ session.pc \in {"cmdline", "configure"} => session \in Started /\ session # Ended
      /\ session.pc \in {"registered", "running"} => session \in Collectors /\ session # Ended
      /\ session # Ended => session.path \in Paths
      /\ Ended \notin Started /\ Ended \notin Collectors /\ Started \cap Collectors = {}
  BY SessionShape
<1>1. ASSUME NEW p \in Paths, StartPytest(p) PROVE OwnerInv' /\ NoStaleEvidence'
  <2>1. /\ session' \in Started /\ session' # Ended /\ count' = count + 1
        /\ UNCHANGED <<files, owner, head>>
    BY <1>0, <1>1 DEF StartPytest, Started, Ended
  <2>2. QED
    BY <1>0, <2>1 DEF OwnerInv, NoStaleEvidence
<1>2. ASSUME NEW loopOnFail \in BOOLEAN, CommandLine(loopOnFail)
      PROVE  OwnerInv' /\ NoStaleEvidence'
  <2>1. session \in Started /\ UNCHANGED <<head, count>>
    BY <1>0, <1>2 DEF CommandLine
  <2>2. CASE loopOnFail
    BY <1>0, <1>2, <2>1, <2>2 DEF CommandLine, OwnerInv, NoStaleEvidence, Emptied, Owned, Tombstone
  <2>3. CASE ~loopOnFail
    <3>1. session' = [session EXCEPT !.pc = "configure"] /\ UNCHANGED <<files, owner>>
      BY <1>2, <2>3 DEF CommandLine
    <3>2. session' \in Started
      BY <2>1, <3>1 DEF Started
    <3>3. QED
      BY <1>0, <2>1, <3>1, <3>2 DEF OwnerInv, NoStaleEvidence
  <2>4. QED
    BY <2>2, <2>3
<1>3. ASSUME NEW xdist \in BOOLEAN, NEW capture \in BOOLEAN, NEW c \in {NoCommit, head},
             NEW early \in Early, Configure(xdist, capture, c, early)
      PROVE  OwnerInv' /\ NoStaleEvidence'
  <2>1. /\ session \in [pc : {"configure"}, path : Paths] /\ c \in Nat
        /\ UNCHANGED <<head, count>> /\ files' = Emptied /\ owner' = Owned
        /\ session' = Ended \/ session' = Registered(c, early)
    BY <1>0, <1>3 DEF Configure, Started, OwnerInv, NoCommit
  <2>2. session' = Ended \/ (session' \in Collectors /\ session'.path = session.path)
    BY <2>1, RegisteredType
  <2>3. session.path \in Paths
    BY <2>1
  <2>4. QED
    BY <1>0, <2>1, <2>2, <2>3 DEF OwnerInv, NoStaleEvidence, Emptied, Owned, Tombstone
<1>4. ASSUME session' = Ended, UNCHANGED <<files, head, count, owner>>
      PROVE  OwnerInv' /\ NoStaleEvidence'
  BY <1>0, <1>4 DEF OwnerInv, NoStaleEvidence
<1>5. ASSUME session \in Collectors, session' \in Collectors, session'.path = session.path,
             UNCHANGED <<files, head, count, owner>>
      PROVE  OwnerInv' /\ NoStaleEvidence'
  BY <1>0, <1>5 DEF OwnerInv, NoStaleEvidence
<1>6. ASSUME session \in Collectors, CaptureMissing, UNCHANGED <<head, count, owner>>
      PROVE  OwnerInv' /\ NoStaleEvidence'
  BY <1>0, <1>6 DEF CaptureMissing, OwnerInv, NoStaleEvidence, Emptied, Tombstone
<1>7. CASE ToggleCapture
  <2>1. session \in Collectors /\ session' = [session EXCEPT !.capture = ~@, !.toggles = @ + 1]
    BY <1>0, <1>7 DEF ToggleCapture
  <2>2. \A b \in BOOLEAN, n \in Nat :
           LET s == [[session EXCEPT !.capture = b] EXCEPT !.toggles = n]
           IN  s \in Collectors /\ s.path = session.path
    BY <2>1 DEF Collectors
  <2>3. (~session.capture) \in BOOLEAN /\ session.toggles + 1 \in Nat
    BY <2>1 DEF Collectors
  <2>4. session' = [[session EXCEPT !.capture = ~session.capture] EXCEPT !.toggles = session.toggles + 1]
    BY <2>1, Zenon DEF Collectors
  <2>5. session' \in Collectors /\ session'.path = session.path
    BY <2>2, <2>3, <2>4
  <2>6. QED
    BY <1>5, <1>7, <2>1, <2>5 DEF ToggleCapture
<1>8. CASE SessionStart
  <2>1. session \in Collectors
    BY <1>0, <1>8 DEF SessionStart
  <2>2. CASE CaptureMissing
    BY <1>6, <1>8, <2>1, <2>2 DEF SessionStart
  <2>3. CASE ~CaptureMissing
    <3>1. session' = [session EXCEPT !.pc = "running"] /\ UNCHANGED <<files, head, count, owner>>
      BY <1>8, <2>3 DEF SessionStart
    <3>2. session' \in Collectors /\ session'.path = session.path
      BY <2>1, <3>1 DEF Collectors
    <3>3. QED
      BY <1>5, <2>1, <3>1, <3>2
  <2>4. QED
    BY <2>2, <2>3
<1>9. ASSUME NEW w \in Warnings, WarningRaised(w) PROVE OwnerInv' /\ NoStaleEvidence'
  <2> DEFINE s == [session EXCEPT !.left = @ - 1]
  <2>1. session \in Collectors
    BY <1>0, <1>9 DEF WarningRaised
  <2>2. s \in Collectors /\ s.path = session.path
    BY <1>9, <2>1 DEF WarningRaised, Collectors
  <2>3. session' = Recorded(s, w) \/ session' = [s EXCEPT !.missed = @ \/ Records[w].kind # "other"]
    BY <1>9 DEF WarningRaised
  <2> HIDE DEF s
  <2>4. session' \in Collectors /\ session'.path = session.path
    <3>1. CASE session' = Recorded(s, w)
      BY <2>2, <3>1, RecordedType
    <3>2. CASE session' = [s EXCEPT !.missed = @ \/ Records[w].kind # "other"]
      <4>1. (s.missed \/ Records[w].kind # "other") \in BOOLEAN
        OBVIOUS
      <4>2. \A b \in BOOLEAN : [s EXCEPT !.missed = b] \in Collectors /\ [s EXCEPT !.missed = b].path = s.path
        BY <2>2 DEF Collectors
      <4>3. QED
        BY <2>2, <3>2, <4>1, <4>2
    <3>3. QED
      BY <2>3, <3>1, <3>2
  <2>5. QED
    BY <1>5, <1>9, <2>1, <2>4 DEF WarningRaised
<1>10. ASSUME NEW env \in Environments, SessionFinish(env) PROVE OwnerInv' /\ NoStaleEvidence'
  <2>1. session \in Collectors
    BY <1>0, <1>10 DEF SessionFinish
  <2>2. CASE CaptureMissing
    BY <1>6, <1>10, <2>1, <2>2 DEF SessionFinish
  <2>3. CASE ~CaptureMissing
    <3>1. /\ session' = Ended /\ UNCHANGED <<head, count, owner>>
          /\ files' = files \/ files' = [files EXCEPT ![session.path] = Artifact(session, env)]
      BY <1>10, <2>3 DEF SessionFinish
    <3>2. Artifact(session, env).kind = "document" /\ Artifact(session, env).session = count
      BY DEF Artifact
    <3>3. CASE files' = files
      BY <1>4, <3>1, <3>3
    <3>4. CASE files' = [files EXCEPT ![session.path] = Artifact(session, env)]
      <4>1. \A p \in Paths : files'[p] = IF p = session.path THEN Artifact(session, env) ELSE files[p]
        BY <3>4 DEF OwnerInv
      <4>2. files' = [p \in Paths |-> files'[p]]
        BY <3>4 DEF OwnerInv
      <4>3. QED
        BY <1>0, <2>1, <3>1, <3>2, <4>1, <4>2 DEF OwnerInv, NoStaleEvidence
    <3>5. QED
      BY <3>1, <3>3, <3>4
  <2>4. QED
    BY <2>2, <2>3
<1>11. CASE Commit
  BY <1>0, <1>11 DEF Commit, OwnerInv, NoStaleEvidence
<1>12. ASSUME NEW p \in Paths, NEW file \in Delivered, Deliver(p, file)
       PROVE  OwnerInv' /\ NoStaleEvidence'
  <2> DEFINE new == [kind |-> "document", form |-> file.form, padding |-> file.padding,
                     body |-> file.body, session |-> count']
  <2>1. /\ session = Ended /\ session' = session /\ count' = count + 1 /\ head' = head
        /\ files' = [files EXCEPT ![p] = new] /\ owner' = [owner EXCEPT ![p] = count']
    BY <1>12 DEF Deliver
  <2>2. new.kind = "document" /\ new.session = count'
    OBVIOUS
  <2> HIDE DEF new
  <2>3. \A q \in Paths : files'[q] = IF q = p THEN new ELSE files[q]
    BY <2>1 DEF OwnerInv
  <2>4. files' = [q \in Paths |-> files'[q]]
    BY <2>1 DEF OwnerInv
  <2>5. QED
    BY <1>0, <2>1, <2>2, <2>3, <2>4 DEF OwnerInv, NoStaleEvidence
<1>13. CASE ConfigureFails \/ Killed
  BY <1>4, <1>13 DEF ConfigureFails, Killed
<1>14. ASSUME UNCHANGED <<files, head, session, count, owner>> PROVE OwnerInv' /\ NoStaleEvidence'
  BY <1>14 DEF OwnerInv, NoStaleEvidence
<1>15. CASE \/ \E selection \in Selections : CheckStart(selection)
            \/ LoadEvidence \/ \E scan \in Scans : MergeEvidence(scan)
            \/ UNCHANGED vars
  BY <1>14, <1>15 DEF CheckStart, LoadEvidence, MergeEvidence, vars
<1>16. QED
  BY <1>1, <1>2, <1>3, <1>7, <1>8, <1>9, <1>10, <1>11, <1>12, <1>13, <1>15 DEF Next

\* An artifact is empty or was written by the last session that emptied its path
\* (or delivered since): whatever fails, is refused or is killed after a session
\* invalidated its artifact, the evidence of an earlier session is never taken
\* for that session's own (pytest_configure, pytest_cmdline_main).
THEOREM NothingStale == Spec => []NoStaleEvidence
<1>1. Spec => [](OwnerInv /\ NoStaleEvidence)
  BY OwnerInit, OwnerStep, PTL DEF Spec
<1>2. QED
  BY <1>1, PTL

-----------------------------------------------------------------------------
(* What a check has read, and what it reports of it.                        *)

\* The observations of some artifacts by a check for a commit.
ObservationAt(a, w, scan, commit) ==
  [artifact |-> a.path, warning |-> w, occurrences |-> Grouped(a.body, w),
   fresh |-> a.body.commit = commit,
   links |-> IF a.body.commit = commit THEN Relationships(scan, w, a.body.env) ELSE {}]

ObservationsAt(artifacts, scan, commit) ==
  UNION {{ObservationAt(a, w, scan, commit) : w \in Keys(a.body)} : a \in artifacts}

\* A path is read once; of the artifacts read each distinct content is kept,
\* under a path no greater than any other that held it.
KeptOf(artifacts, read) ==
  /\ \A r \in read : r.path \in Paths /\ Parsable(r.body)
  /\ \A r, s \in read : r.path = s.path => r = s
  /\ artifacts \subseteq read
  /\ \A a, b \in artifacts : a.body = b.body => a = b
  /\ \A r \in read : \E a \in artifacts : a.body = r.body /\ a.path <= r.path

ReadInv ==
  /\ check.pc = "loading" =>
        /\ check = [pc |-> "loading", commit |-> check.commit, selection |-> check.selection,
                    next |-> check.next, bytes |-> check.bytes, warnings |-> check.warnings,
                    read |-> check.read, artifacts |-> check.artifacts]
        /\ check.next \in Nat \ {0} /\ check.selection \in Seq(Paths)
        /\ KeptOf(check.artifacts, check.read)
  /\ check.pc = "done" =>
        /\ check.scan \in Scans
        /\ check.observed = ObservationsAt(check.artifacts, check.scan, check.commit)
        /\ KeptOf(check.artifacts, check.read)

\* What deduplication keeps when one more artifact is read.
LEMMA DeduplicatedKeeps ==
  ASSUME NEW artifacts, NEW read, KeptOf(artifacts, read),
         NEW item, item.path \in Paths, Parsable(item.body), \A r \in read : r.path # item.path
  PROVE  KeptOf(Deduplicated(artifacts, item), read \cup {item})
<1> DEFINE same == {a \in artifacts : a.body = item.body}
           after == Deduplicated(artifacts, item)
<1>0. Paths \subseteq Nat
  BY InputsAssumption
<1>1. CASE \E a \in same : a.path <= item.path
  <2>1. after = artifacts
    BY <1>1 DEF Deduplicated
  <2>2. QED
    BY <1>1, <2>1 DEF KeptOf
<1>2. CASE ~\E a \in same : a.path <= item.path
  <2>1. after = (artifacts \ same) \cup {item}
    BY <1>2 DEF Deduplicated
  <2>2. ASSUME NEW a \in same PROVE item.path <= a.path
    <3>1. a \in read
      BY DEF KeptOf
    <3>2. a.path \in Nat /\ item.path \in Nat
      BY <1>0, <3>1 DEF KeptOf
    <3>3. ~(a.path <= item.path)
      BY <1>2
    <3>4. QED
      BY <3>2, <3>3
  <2>3. ASSUME NEW r \in read PROVE \E a \in after : a.body = r.body /\ a.path <= r.path
    <3>1. PICK a \in artifacts : a.body = r.body /\ a.path <= r.path
      BY DEF KeptOf
    <3>2. CASE a \in same
      <4>1. item.path <= a.path /\ a.path <= r.path /\ item.body = r.body
        BY <2>2, <3>1, <3>2
      <4>2. item.path \in Nat /\ a.path \in Nat /\ r.path \in Nat
        BY <1>0 DEF KeptOf
      <4>3. item.path <= r.path
        BY <4>1, <4>2
      <4>4. QED
        BY <2>1, <4>1, <4>3
    <3>3. CASE a \notin same
      BY <2>1, <3>1, <3>3
    <3>4. QED
      BY <3>2, <3>3
  <2>4. \E a \in after : a.body = item.body /\ a.path <= item.path
    <3>1. item \in after /\ item.path \in Nat
      BY <1>0, <2>1
    <3>2. item.path <= item.path
      BY <3>1
    <3>3. QED
      BY <3>1, <3>2
  <2>5. \A a, b \in after : a.body = b.body => a = b
    BY <2>1 DEF KeptOf
  <2>6. after \subseteq read \cup {item}
    BY <2>1 DEF KeptOf
  <2>7. \A r \in read \cup {item} : r.path \in Paths /\ Parsable(r.body)
    BY DEF KeptOf
  <2>8. \A r, s \in read \cup {item} : r.path = s.path => r = s
    BY DEF KeptOf
  <2>9. \A r \in read \cup {item} : \E a \in after : a.body = r.body /\ a.path <= r.path
    BY <2>3, <2>4
  <2>10. QED
    BY <2>5, <2>6, <2>7, <2>8, <2>9 DEF KeptOf
<1>3. QED
  BY <1>1, <1>2

LEMMA ReadInit == Init => ReadInv
  BY DEF Init, Idle, ReadInv

LEMMA ReadStep == ReadInv /\ [Next]_vars => ReadInv'
<1> SUFFICES ASSUME ReadInv, [Next]_vars PROVE ReadInv'
  OBVIOUS
<1>1. CASE UNCHANGED check
  BY <1>1 DEF ReadInv
<1>2. ASSUME NEW selection \in Selections, CheckStart(selection) PROVE ReadInv'
  <2>1. selection \in Seq(Paths)
    BY InputsAssumption
  <2>2. CASE check' = [pc |-> "refused"]
    BY <2>2 DEF ReadInv
  <2>3. CASE check' = [pc |-> "loading", commit |-> head, selection |-> selection, next |-> 1,
                       bytes |-> 0, warnings |-> 0, read |-> {}, artifacts |-> {}]
    BY <2>1, <2>3 DEF ReadInv, KeptOf
  <2>4. QED
    BY <1>2, <2>2, <2>3 DEF CheckStart
<1>3. CASE LoadEvidence
  <2> DEFINE p == check.selection[check.next]
             item == [path |-> p, body |-> files[p].body]
  <2>0. check.pc = "loading" /\ p \in Paths
    BY <1>3 DEF LoadEvidence, ReadInv
  <2>1. CASE check' = [pc |-> "refused"]
    BY <2>1 DEF ReadInv
  <2>2. CASE check' # [pc |-> "refused"]
    <3>1. PICK bytes, size :
             /\ check' = [check EXCEPT !.next = @ + 1, !.bytes = bytes, !.warnings = size,
                                       !.read = @ \cup {item},
                                       !.artifacts = Deduplicated(@, item)]
             /\ Loads(files[p]) /\ ~\E r \in check.read : r.path = p
      BY <1>3, <2>2 DEF LoadEvidence
    <3>2. item.path \in Paths /\ Parsable(item.body) /\ \A r \in check.read : r.path # item.path
      BY <2>0, <3>1 DEF Loads
    <3> HIDE DEF item
    <3>3. KeptOf(check.artifacts, check.read)
      BY <2>0 DEF ReadInv
    <3>4. KeptOf(Deduplicated(check.artifacts, item), check.read \cup {item})
      BY <3>2, <3>3, DeduplicatedKeeps
    <3>5. check' = [pc |-> "loading", commit |-> check.commit, selection |-> check.selection,
                    next |-> check.next + 1, bytes |-> bytes, warnings |-> size,
                    read |-> check.read \cup {item},
                    artifacts |-> Deduplicated(check.artifacts, item)]
      BY <2>0, <3>1 DEF ReadInv
    <3>6. check.next + 1 \in Nat \ {0} /\ check.selection \in Seq(Paths)
      BY <2>0 DEF ReadInv
    <3>7. QED
      BY <3>4, <3>5, <3>6 DEF ReadInv
  <2>3. QED
    BY <2>1, <2>2
<1>4. ASSUME NEW scan \in Scans, MergeEvidence(scan) PROVE ReadInv'
  <2>0. check.pc = "loading" /\ KeptOf(check.artifacts, check.read)
    BY <1>4 DEF MergeEvidence, ReadInv
  <2>1. Observations(scan) = ObservationsAt(check.artifacts, scan, check.commit)
    BY DEF Observations, Observation, ObservationsAt, ObservationAt, Fresh
  <2>2. CASE check' = [pc |-> "refused"]
    BY <2>2 DEF ReadInv
  <2>3. CASE check' = [pc |-> "done", scan |-> scan, commit |-> check.commit, read |-> check.read,
                       artifacts |-> check.artifacts, observed |-> Observations(scan)]
    <3>1. /\ check'.pc = "done" /\ check'.scan = scan /\ check'.commit = check.commit
          /\ check'.read = check.read /\ check'.artifacts = check.artifacts
          /\ check'.observed = ObservationsAt(check.artifacts, scan, check.commit)
      BY <2>1, <2>3
    <3>2. QED
      BY <2>0, <3>1 DEF ReadInv
  <2>4. QED
    BY <1>4, <2>2, <2>3 DEF MergeEvidence
<1>5. CASE \/ \E p \in Paths : StartPytest(p)
           \/ \E loopOnFail \in BOOLEAN : CommandLine(loopOnFail)
           \/ \E xdist, capture \in BOOLEAN, c \in {NoCommit, head}, early \in Early :
                 Configure(xdist, capture, c, early)
           \/ ConfigureFails \/ ToggleCapture \/ SessionStart
           \/ \E w \in Warnings : WarningRaised(w)
           \/ \E env \in Environments : SessionFinish(env)
           \/ Killed \/ Commit
           \/ \E p \in Paths, file \in Delivered : Deliver(p, file)
           \/ UNCHANGED vars
  BY <1>1, <1>5 DEF StartPytest, CommandLine, Configure, ConfigureFails, ToggleCapture,
     SessionStart, WarningRaised, SessionFinish, Killed, Commit, Deliver, vars
<1>6. QED
  BY <1>2, <1>3, <1>4, <1>5 DEF Next

LEMMA ReadAlways == Spec => []ReadInv
  BY ReadInit, ReadStep, PTL DEF Spec

\* The warnings of a document that was read are known ones, counted from 1.
LEMMA KeysKnown ==
  ASSUME NEW doc, Parsable(doc)
  PROVE  doc.warnings \in Seq(Retained) /\ Keys(doc) \subseteq Warnings
<1>1. doc.warnings \in Seq(Retained)
  BY DEF Parsable, Malformed
<1>2. \A i \in DOMAIN doc.warnings : doc.warnings[i] \in Retained
  BY <1>1
<1>3. QED
  BY <1>1, <1>2 DEF Keys, Retained

\* A warning is compared with the visible findings at its line.
LEMMA CandidatesAtLine ==
  ASSUME NEW scan \in Scans, NEW w \in Warnings
  PROVE  Candidates(scan, w) = AtLine(scan, w)
<1> DEFINE S == {f \in Visible(scan) : f.file = Records[w].file}
<1>1. Records[w].line \in Nat
  BY InputsAssumption DEF Warnings
<1>2. /\ IsFiniteSet(scan.findings)
      /\ \A f \in scan.findings : f.from \in Nat \ {0} /\ f.to \in Nat /\ f.from <= f.to
  BY ScansAssumption
<1>3. S \subseteq scan.findings
  BY DEF Visible
<1>4. Regions(S)
  BY <1>2, <1>3, FS_Subset DEF Regions
<1>5. AtLine(scan, w) = {f \in S : f.from <= Records[w].line /\ Records[w].line <= f.to}
  BY <1>1, <1>2 DEF AtLine, Visible
<1>6. CASE Records[w].line = 0
  BY <1>2, <1>3, <1>5, <1>6 DEF Candidates
<1>7. CASE Records[w].line # 0
  <2>1. Candidates(scan, w) = Stabbed(S, Records[w].line)
    BY <1>7 DEF Candidates
  <2> HIDE DEF S
  <2>2. Stabbed(S, Records[w].line) = Containing(S, Records[w].line)
    BY <1>1, <1>4, IntervalTreeExact
  <2>3. QED
    BY <1>5, <2>1, <2>2 DEF Containing
<1>8. QED
  BY <1>6, <1>7

\* A finding names no conflict exactly where it is deprecated.
DeprecatedAt(f, scan, env) ==
  /\ env.implementation = "cpython"
  /\ env.minor \in scan.policy
  /\ \E t \in f.states : env.minor \in t.from..t.to /\ t.state = "deprecated"

LEMMA NoConflict ==
  ASSUME NEW scan \in Scans, NEW f \in scan.findings, NEW env
  PROVE  Conflict(f, scan, env) = "none" <=> DeprecatedAt(f, scan, env)
<1>1. CASE env.implementation # "cpython" \/ env.minor \notin scan.policy
  BY <1>1 DEF Conflict, DeprecatedAt
<1>2. CASE env.implementation = "cpython" /\ env.minor \in scan.policy
  <2>1. env.minor \in Nat /\ \A t \in f.states : t.from \in Nat /\ t.to \in Nat
    BY <1>2, ScansAssumption
  <2>2. \A t \in f.states : env.minor \in t.from..t.to <=> t.from <= env.minor /\ env.minor <= t.to
    BY <2>1
  <2> DEFINE spans == {t \in f.states : t.from <= env.minor /\ env.minor <= t.to}
  <2>3. Conflict(f, scan, env) = IF spans = {} THEN "no-state"
                                 ELSE IF \A t \in spans : t.state # "deprecated" THEN "state"
                                 ELSE "none"
    BY <1>2 DEF Conflict
  <2>4. DeprecatedAt(f, scan, env) <=> \E t \in spans : t.state = "deprecated"
    BY <1>2, <2>2 DEF DeprecatedAt
  <2> HIDE DEF spans
  <2>5. QED
    BY <2>3, <2>4
<1>3. QED
  BY <1>1, <1>2

\* The links of a warning are to what it names alone, or to all that is near.
LinksEarned(links, scan, w, env) ==
  LET near  == AtLine(scan, w)
      named == {f \in near : {f.rule, f.subject, f.last} \cap Records[w].names # {}}
  IN  /\ {l.finding : l \in links} =
            {f.fingerprint : f \in IF Cardinality(named) = 1 THEN named ELSE near}
      /\ \A f \in near : Link(f, "corroborates") \in links <=>
            named = {f} /\ DeprecatedAt(f, scan, env)

LEMMA RelationshipsEarned ==
  ASSUME NEW scan \in Scans, NEW w \in Warnings, NEW env
  PROVE  LinksEarned(Relationships(scan, w, env), scan, w, env)
<1> DEFINE near  == AtLine(scan, w)
           named == {f \in near : {f.rule, f.subject, f.last} \cap Records[w].names # {}}
           links == Relationships(scan, w, env)
           verdict(f) == IF Conflict(f, scan, env) = "none" THEN "corroborates" ELSE "conflicts"
<1>1. Candidates(scan, w) = near /\ Correlated(scan, w) = named
  BY CandidatesAtLine DEF Correlated, Correlates
<1>2. near \subseteq scan.findings /\ named \subseteq near
  BY DEF AtLine
<1>3. links = IF Cardinality(named) = 1 THEN {Link(f, verdict(f)) : f \in named}
              ELSE {Link(f, "location-only") : f \in near}
  BY <1>1 DEF Relationships
<1>4. \A f, k : Link(f, k).finding = f.fingerprint /\ Link(f, k).kind = k
  BY DEF Link
<1> HIDE DEF near, named, links
<1>5. CASE Cardinality(named) = 1
  <2>1. PICK g : named = {g}
    <3>1. IsFiniteSet(named)
      BY <1>2, ScansAssumption, FS_Subset
    <3>2. QED
      BY <1>5, <3>1, FS_Singleton
  <2>2. links = {Link(g, verdict(g))}
    BY <1>3, <1>5, <2>1
  <2>3. {l.finding : l \in links} = {f.fingerprint : f \in named}
    BY <1>4, <2>1, <2>2
  <2>4. ASSUME NEW f \in near
        PROVE  Link(f, "corroborates") \in links <=> named = {f} /\ DeprecatedAt(f, scan, env)
    <3>1. f \in scan.findings /\ g \in scan.findings
      BY <1>2, <2>1
    <3>2. CASE f = g
      <4>1. Link(g, "corroborates") = Link(g, verdict(g)) <=> verdict(g) = "corroborates"
        BY <1>4
      <4>2. verdict(g) = "corroborates" <=> DeprecatedAt(g, scan, env)
        BY <3>1, NoConflict
      <4>3. QED
        BY <2>1, <2>2, <3>2, <4>1, <4>2
    <3>3. CASE f # g
      <4>1. f.fingerprint # g.fingerprint
        BY <3>1, <3>3, ScansAssumption
      <4>2. Link(f, "corroborates") # Link(g, verdict(g))
        BY <1>4, <4>1
      <4>3. QED
        BY <2>1, <2>2, <3>3, <4>2
    <3>4. QED
      BY <3>2, <3>3
  <2>5. QED
    BY <1>5, <2>3, <2>4 DEF links, named, near, LinksEarned
<1>6. CASE Cardinality(named) # 1
  <2>1. links = {Link(f, "location-only") : f \in near}
    BY <1>3, <1>6
  <2>2. {l.finding : l \in links} = {f.fingerprint : f \in near}
    BY <1>4, <2>1
  <2>3. \A f : named # {f}
    BY <1>6, FS_Singleton
  <2>4. \A f : Link(f, "corroborates") \notin links
    BY <1>4, <2>1
  <2>5. QED
    BY <1>6, <2>2, <2>3, <2>4 DEF links, named, near, LinksEarned
<1>7. QED
  BY <1>5, <1>6

\* What is reported as corroborated is earned: exactly the findings that a
\* warning of the commit under check names alone among those at its line, on an
\* interpreter on which they are deprecated; for every set of findings, whatever
\* tree they make and however often they overlap (evidence.py).
THEOREM CorroborationEarned == Spec => []CorroborationIsEarned
<1>1. ASSUME ReadInv PROVE CorroborationIsEarned
  <2> SUFFICES ASSUME check.pc = "done", NEW a \in check.artifacts, NEW o \in check.observed,
                      o.artifact = a.path
               PROVE  LET near  == AtLine(check.scan, o.warning)
                          named == {f \in near : {f.rule, f.subject, f.last} \cap Records[o.warning].names # {}}
                      IN  /\ {l.finding : l \in o.links} =
                                IF a.body.commit # check.commit THEN {}
                                ELSE {f.fingerprint : f \in IF Cardinality(named) = 1 THEN named ELSE near}
                          /\ \A f \in near : Link(f, "corroborates") \in o.links <=>
                                /\ a.body.commit = check.commit /\ named = {f}
                                /\ DeprecatedAt(f, check.scan, a.body.env)
    BY DEF CorroborationIsEarned, DeprecatedAt
  <2>1. /\ check.scan \in Scans /\ KeptOf(check.artifacts, check.read)
        /\ check.observed = ObservationsAt(check.artifacts, check.scan, check.commit)
    BY <1>1 DEF ReadInv
  <2>2. PICK b \in check.artifacts :
           \E w \in Keys(b.body) : o = ObservationAt(b, w, check.scan, check.commit)
    BY <2>1 DEF ObservationsAt
  <2> PICK w \in Keys(b.body) : o = ObservationAt(b, w, check.scan, check.commit)
    BY <2>2
  <2>3. o.artifact = b.path /\ o.warning = w
    BY <2>2 DEF ObservationAt
  <2>4. b = a /\ Parsable(a.body)
    BY <2>1, <2>3 DEF KeptOf
  <2>5. w \in Warnings
    BY <2>4, KeysKnown
  <2>6. o.links = IF a.body.commit = check.commit
                  THEN Relationships(check.scan, w, a.body.env) ELSE {}
    BY <2>2, <2>4 DEF ObservationAt
  <2>7. CASE a.body.commit # check.commit
    BY <2>6, <2>7
  <2>8. CASE a.body.commit = check.commit
    <3>1. o.links = Relationships(check.scan, w, a.body.env)
      BY <2>6, <2>8
    <3>2. LinksEarned(o.links, check.scan, w, a.body.env)
      BY <2>1, <2>5, <3>1, RelationshipsEarned
    <3>3. LinksEarned(o.links, check.scan, o.warning, a.body.env)
      BY <2>3, <3>2
    <3>4. QED
      BY <2>8, <3>3 DEF LinksEarned
  <2>9. QED
    BY <2>7, <2>8
<1>2. QED
  BY <1>1, ReadAlways, PTL

-----------------------------------------------------------------------------
(* Every warning is observed once, with all its occurrences.                *)

Last1(T) == CHOOSE x \in T : \A y \in T : x >= y

\* The folds that count: over a document, over its records of one warning, and
\* over observations.
CountUpTo(seq, T, g) == IF T = {} THEN 0 ELSE g[T \ {Last1(T)}] + seq[Last1(T)].occurrences
CountOf(seq, w, T, g) ==
  IF T = {} THEN 0
  ELSE IF seq[Last1(T)].warning = w THEN g[T \ {Last1(T)}] + seq[Last1(T)].occurrences
  ELSE g[T \ {Last1(T)}]
CountIn(T, g) ==
  IF T = {} THEN 0
  ELSE (CHOOSE x \in T : TRUE).occurrences + g[T \ {CHOOSE x \in T : TRUE}]

WarningCount(doc, w) ==
  (CHOOSE g : g = [T \in SUBSET DOMAIN doc.warnings |-> CountOf(doc.warnings, w, T, g)])
     [DOMAIN doc.warnings]

LEMMA CountsAreFolds ==
  ASSUME NEW doc, NEW w, NEW O
  PROVE  /\ Occurrences(doc) =
              (CHOOSE g : g = [T \in SUBSET DOMAIN doc.warnings |-> CountUpTo(doc.warnings, T, g)])
                 [DOMAIN doc.warnings]
         /\ Grouped(doc, w) = WarningCount(doc, w)
         /\ MapThenSumSet(LAMBDA o : o.occurrences, O) =
              (CHOOSE g : g = [T \in SUBSET O |-> CountIn(T, g)])[O]
  BY DEF Occurrences, Grouped, MapThenSumSet, FoldLeft, MapThenFoldSet, CountUpTo, CountOf, CountIn,
         WarningCount, Last1, Max

LEMMA LastInDomain ==
  ASSUME NEW seq \in Seq(Retained), NEW T \in SUBSET DOMAIN seq, T # {}
  PROVE  Last1(T) \in T
<1>1. Len(seq) \in Nat /\ T \in SUBSET (0..Len(seq))
  OBVIOUS
<1>2. \E m \in T : \A k \in T : k <= m
  BY <1>1, GreatestElement
<1>3. \E m \in T : \A k \in T : m >= k
  <2>1. \A m, k \in T : k <= m => m >= k
    BY <1>1
  <2>2. QED
    BY <1>2, <2>1
<1>4. QED
  BY <1>3 DEF Last1

LEMMA FiniteDomain ==
  ASSUME NEW A, NEW seq \in Seq(A) PROVE IsFiniteSet(DOMAIN seq)
<1>1. Len(seq) \in Nat /\ DOMAIN seq = 1..Len(seq)
  OBVIOUS
<1>2. IsFiniteSet(1..Len(seq))
  BY <1>1, FS_Interval
<1>3. QED
  BY <1>1, <1>2

\* The occurrences of a document are the sum over its records.
LEMMA OccurrencesSum ==
  ASSUME NEW doc, doc.warnings \in Seq(Retained)
  PROVE  \E p : /\ Additive(p, [i \in DOMAIN doc.warnings |-> doc.warnings[i].occurrences],
                            DOMAIN doc.warnings)
                /\ Occurrences(doc) = p[DOMAIN doc.warnings]
<1> DEFINE seq == doc.warnings
           S == DOMAIN doc.warnings
           f == [i \in S |-> doc.warnings[i].occurrences]
           choice == [T \in SUBSET S |-> Last1(T)]
<1>1. IsFiniteSet(S)
  BY FiniteDomain
<1>2. f \in [S -> Nat]
  <2>1. \A i \in S : doc.warnings[i] \in Retained
    OBVIOUS
  <2>2. QED
    BY <2>1 DEF Retained
<1>3. \A T \in SUBSET S : T # {} => Last1(T) \in T
  BY LastInDomain
<1>4. \A T \in SUBSET S : T # {} => choice[T] \in T /\ choice[T] = Last1(T)
  BY <1>3
<1>5. PICK p : SumsBy(p, f, S, choice)
  <2> HIDE DEF f, choice, S
  <2>1. QED
    BY <1>1, <1>2, <1>4, SumInOrder
<1>6. p = [T \in SUBSET S |-> CountUpTo(seq, T, p)]
  <2>1. \A T \in SUBSET S : p[T] = CountUpTo(seq, T, p)
    <3>1. \A T \in SUBSET S : T # {} => f[choice[T]] = seq[Last1(T)].occurrences
      BY <1>4
    <3> HIDE DEF f, choice, S
    <3>2. QED
      BY <1>4, <1>5, <3>1 DEF CountUpTo, SumsBy
  <2>2. p = [T \in SUBSET S |-> p[T]]
    BY <1>5 DEF SumsBy, Additive
  <2> HIDE DEF S, seq
  <2>3. QED
    BY <2>1, <2>2
<1> DEFINE h == CHOOSE g : g = [T \in SUBSET S |-> CountUpTo(seq, T, g)]
<1>7. h = [T \in SUBSET S |-> CountUpTo(seq, T, h)]
  BY <1>6
<1>8. h = p
  <2> HIDE DEF h
  <2>1. OnSubsets(h, S) /\ OnSubsets(p, S)
    BY <1>6, <1>7 DEF OnSubsets
  <2>2. h[{}] = p[{}]
    BY <1>6, <1>7 DEF CountUpTo
  <2>3. ASSUME NEW T \in SUBSET S, T # {} PROVE SameAfter(h, p, T)
    <3>1. h[T] = CountUpTo(seq, T, h)
      BY <1>7
    <3>2. p[T] = CountUpTo(seq, T, p)
      BY <1>6
    <3>3. Last1(T) \in T
      BY <1>3, <2>3
    <3> HIDE DEF S, seq
    <3>4. QED
      BY <2>3, <3>1, <3>2, <3>3 DEF CountUpTo, SameAfter
  <2> HIDE DEF S, seq
  <2>4. QED
    BY <1>1, <2>1, <2>2, <2>3, SameRecursion
<1>9. Occurrences(doc) = h[S]
  BY CountsAreFolds
<1>10. QED
  BY <1>5, <1>8, <1>9 DEF SumsBy

\* The occurrences of one warning are the sum over its records.
LEMMA GroupedSum ==
  ASSUME NEW doc, doc.warnings \in Seq(Retained), NEW w
  PROVE  \E p : /\ Additive(p, [i \in DOMAIN doc.warnings |->
                                  IF doc.warnings[i].warning = w THEN doc.warnings[i].occurrences ELSE 0],
                            DOMAIN doc.warnings)
                /\ Grouped(doc, w) = p[DOMAIN doc.warnings]
<1> DEFINE seq == doc.warnings
           S == DOMAIN doc.warnings
           f == [i \in S |-> IF doc.warnings[i].warning = w THEN doc.warnings[i].occurrences ELSE 0]
           choice == [T \in SUBSET S |-> Last1(T)]
<1>1. IsFiniteSet(S)
  BY FiniteDomain
<1>2. f \in [S -> Nat]
  <2>1. \A i \in S : doc.warnings[i] \in Retained
    OBVIOUS
  <2>2. QED
    BY <2>1 DEF Retained
<1>3. \A T \in SUBSET S : T # {} => Last1(T) \in T
  BY LastInDomain
<1>4. \A T \in SUBSET S : T # {} => choice[T] \in T /\ choice[T] = Last1(T)
  BY <1>3
<1>5. PICK p : SumsBy(p, f, S, choice)
  <2> HIDE DEF f, choice, S
  <2>1. QED
    BY <1>1, <1>2, <1>4, SumInOrder
<1>6. p = [T \in SUBSET S |-> CountOf(seq, w, T, p)]
  <2>1. ASSUME NEW T \in SUBSET S PROVE p[T] = CountOf(seq, w, T, p)
    <3>1. CASE T = {}
      BY <1>5, <3>1 DEF CountOf, SumsBy
    <3>2. CASE T # {}
      <4>1. f[Last1(T)] = IF seq[Last1(T)].warning = w THEN seq[Last1(T)].occurrences ELSE 0
        BY <1>3, <3>2
      <4> HIDE DEF f, choice, S
      <4>2. p[T] = p[T \ {Last1(T)}] + f[Last1(T)] /\ p[T \ {Last1(T)}] \in Nat
        BY <1>3, <1>5, <3>2 DEF SumsBy, Additive
      <4> HIDE DEF seq
      <4>3. QED
        BY <3>2, <4>1, <4>2 DEF CountOf
    <3>3. QED
      BY <3>1, <3>2
  <2>2. p = [T \in SUBSET S |-> p[T]]
    BY <1>5 DEF SumsBy, Additive
  <2> HIDE DEF S, seq
  <2>3. QED
    BY <2>1, <2>2
<1> DEFINE h == CHOOSE g : g = [T \in SUBSET S |-> CountOf(seq, w, T, g)]
<1>7. h = [T \in SUBSET S |-> CountOf(seq, w, T, h)]
  BY <1>6
<1>8. h = p
  <2> HIDE DEF h
  <2>1. OnSubsets(h, S) /\ OnSubsets(p, S)
    BY <1>6, <1>7 DEF OnSubsets
  <2>2. h[{}] = p[{}]
    BY <1>6, <1>7 DEF CountOf
  <2>3. ASSUME NEW T \in SUBSET S, T # {} PROVE SameAfter(h, p, T)
    <3>1. h[T] = CountOf(seq, w, T, h)
      BY <1>7
    <3>2. p[T] = CountOf(seq, w, T, p)
      BY <1>6
    <3>3. Last1(T) \in T
      BY <1>3, <2>3
    <3> HIDE DEF S, seq
    <3>4. QED
      BY <2>3, <3>1, <3>2, <3>3 DEF CountOf, SameAfter
  <2> HIDE DEF S, seq
  <2>4. QED
    BY <1>1, <2>1, <2>2, <2>3, SameRecursion
<1>9. Grouped(doc, w) = h[S]
  <2>1. Grouped(doc, w) = WarningCount(doc, w)
    BY CountsAreFolds
  <2>2. QED
    BY <2>1 DEF WarningCount
<1>10. QED
  BY <1>5, <1>8, <1>9 DEF SumsBy

\* The occurrences reported are the sum over the observations.
LEMMA ObservedSum ==
  ASSUME NEW O, IsFiniteSet(O), \A o \in O : o.occurrences \in Nat
  PROVE  \E p : /\ Additive(p, [o \in O |-> o.occurrences], O)
                /\ MapThenSumSet(LAMBDA o : o.occurrences, O) = p[O]
<1> DEFINE f == [o \in O |-> o.occurrences]
           choice == [T \in SUBSET O |-> CHOOSE x \in T : TRUE]
<1>1. f \in [O -> Nat]
  OBVIOUS
<1>2. \A T \in SUBSET O : T # {} => choice[T] \in T /\ choice[T] = CHOOSE x \in T : TRUE
  OBVIOUS
<1>3. PICK p : SumsBy(p, f, O, choice)
  <2> HIDE DEF f, choice
  <2>1. QED
    BY <1>1, <1>2, SumInOrder
<1>4. p = [T \in SUBSET O |-> CountIn(T, p)]
  <2>1. ASSUME NEW T \in SUBSET O PROVE p[T] = CountIn(T, p)
    <3>1. CASE T = {}
      BY <1>3, <3>1 DEF CountIn, SumsBy
    <3>2. CASE T # {}
      <4> DEFINE x == CHOOSE x \in T : TRUE
      <4>1. x \in T /\ x \in O /\ choice[T] = x
        BY <1>2, <3>2
      <4>2. CountIn(T, p) = x.occurrences + p[T \ {x}]
        BY <3>2 DEF CountIn
      <4> HIDE DEF x
      <4>3. f[x] = x.occurrences /\ x.occurrences \in Nat
        BY <4>1
      <4> HIDE DEF f, choice
      <4>4. p[T] = p[T \ {x}] + f[x] /\ p[T \ {x}] \in Nat
        BY <1>3, <3>2, <4>1 DEF SumsBy, Additive
      <4>5. QED
        BY <4>2, <4>3, <4>4
    <3>3. QED
      BY <3>1, <3>2
  <2>2. p = [T \in SUBSET O |-> p[T]]
    BY <1>3 DEF SumsBy, Additive
  <2>3. QED
    BY <2>1, <2>2
<1> DEFINE h == CHOOSE g : g = [T \in SUBSET O |-> CountIn(T, g)]
<1>5. h = [T \in SUBSET O |-> CountIn(T, h)]
  BY <1>4
<1>6. h = p
  <2> HIDE DEF h
  <2>1. OnSubsets(h, O) /\ OnSubsets(p, O)
    BY <1>4, <1>5 DEF OnSubsets
  <2>2. h[{}] = p[{}]
    BY <1>4, <1>5 DEF CountIn
  <2>3. ASSUME NEW T \in SUBSET O, T # {} PROVE SameAfter(h, p, T)
    <3> DEFINE x == CHOOSE x \in T : TRUE
    <3>1. x \in T
      BY <2>3
    <3>2. h[T] = x.occurrences + h[T \ {x}] /\ p[T] = x.occurrences + p[T \ {x}]
      BY <1>4, <1>5, <2>3 DEF CountIn
    <3> HIDE DEF x
    <3>3. QED
      BY <3>1, <3>2 DEF SameAfter
  <2>4. \A T \in SUBSET O : T # {} => SameAfter(h, p, T)
    BY <2>3
  <2>5. QED
    BY <2>1, <2>2, <2>4, SameRecursion
<1>7. MapThenSumSet(LAMBDA o : o.occurrences, O) = h[O]
  BY CountsAreFolds
<1>8. QED
  BY <1>3, <1>6, <1>7 DEF SumsBy

\* What one artifact adds to the report.
LEMMA ObservedOnce ==
  ASSUME NEW a, Parsable(a.body), NEW scan, NEW commit
  PROVE  MapThenSumSet(LAMBDA o : o.occurrences, {ObservationAt(a, w, scan, commit) : w \in Keys(a.body)})
           = Occurrences(a.body)
<1> DEFINE seq == a.body.warnings
           S == DOMAIN a.body.warnings
           f == [i \in S |-> a.body.warnings[i].occurrences]
           part(w) == [i \in S |-> IF a.body.warnings[i].warning = w THEN a.body.warnings[i].occurrences ELSE 0]
           At(w) == ObservationAt(a, w, scan, commit)
           O == {At(w) : w \in Keys(a.body)}
           key == [i \in S |-> At(a.body.warnings[i].warning)]
<1>1. seq \in Seq(Retained)
  BY KeysKnown
<1>2. \A w : At(w).warning = w /\ At(w).occurrences = Grouped(a.body, w)
  BY DEF ObservationAt
<1>3. IsFiniteSet(S) /\ IsFiniteSet(O)
  <2>1. Len(seq) \in Nat /\ S = 1..Len(seq)
    BY <1>1
  <2>2. IsFiniteSet(S)
    BY <2>1, FS_Interval
  <2>3. IsFiniteSet(Keys(a.body))
    <3> DEFINE said == [i \in S |-> a.body.warnings[i].warning]
    <3>1. Keys(a.body) = {said[i] : i \in S}
      BY DEF Keys
    <3> HIDE DEF said, S
    <3>2. QED
      BY <2>2, <3>1, FiniteImage
  <2>4. IsFiniteSet(O)
    <3> DEFINE at == [w \in Keys(a.body) |-> At(w)]
    <3>1. O = {at[w] : w \in Keys(a.body)}
      OBVIOUS
    <3> HIDE DEF at, O
    <3>2. QED
      BY <2>3, <3>1, FiniteImage
  <2>5. QED
    BY <2>2, <2>4
<1>4. f \in [S -> Nat]
  <2>1. \A i \in S : a.body.warnings[i] \in Retained
    BY <1>1
  <2>2. QED
    BY <2>1 DEF Retained
<1>5. key \in [S -> O]
  BY DEF Keys
<1>6. \A o \in O : /\ o.warning \in Keys(a.body) /\ o = At(o.warning)
                   /\ o.occurrences = Grouped(a.body, o.warning)
  BY <1>2
<1> HIDE DEF O
<1>7. \A w : \E p : Additive(p, part(w), S) /\ Grouped(a.body, w) = p[S]
  BY <1>1, GroupedSum
<1> DEFINE Sum(w, p) == Additive(p, part(w), S) /\ Grouped(a.body, w) = p[S]
           q == [o \in O |-> CHOOSE p : Sum(o.warning, p)]
<1>8. \A o \in O : Sum(o.warning, q[o])
  <2> HIDE DEF part
  <2>1. \A w : \E p : Sum(w, p)
    BY <1>7
  <2> HIDE DEF Sum
  <2>2. QED
    BY <2>1
<1>9. GroupSums(q, key, f, S, O)
  <2> SUFFICES ASSUME NEW o \in O
               PROVE  Additive(q[o], [i \in S |-> IF key[i] = o THEN f[i] ELSE 0], S)
    BY DEF GroupSums
  <2>1. \A i \in S : key[i] = o <=> a.body.warnings[i].warning = o.warning
    <3>1. \A i \in S : key[i] = At(a.body.warnings[i].warning)
      OBVIOUS
    <3> HIDE DEF key, At
    <3>2. QED
      BY <1>2, <1>6, <3>1
  <2>2. part(o.warning) = [i \in S |-> IF key[i] = o THEN f[i] ELSE 0]
    <3> HIDE DEF key
    <3>1. QED
      BY <2>1
  <2>3. Additive(q[o], part(o.warning), S)
    BY <1>8
  <2> HIDE DEF part, q, key, f
  <2>4. QED
    BY <2>2, <2>3
<1>10. PICK h : /\ Additive(h, [o \in O |-> o.occurrences], O)
                /\ MapThenSumSet(LAMBDA o : o.occurrences, O) = h[O]
  <2>1. \A o \in O : o.occurrences \in Nat
    <3>1. \A o \in O : o.occurrences = q[o][S] /\ q[o] \in [SUBSET S -> Nat]
      BY <1>6, <1>8 DEF Additive
    <3> HIDE DEF q
    <3>2. QED
      BY <3>1
  <2>2. QED
    BY <1>3, <2>1, ObservedSum
<1>11. [o \in O |-> o.occurrences] = [o \in O |-> q[o][S]]
  <2>1. \A o \in O : o.occurrences = q[o][S]
    BY <1>6, <1>8
  <2> HIDE DEF q
  <2>2. QED
    BY <2>1
<1>12. PICK p : Additive(p, f, S) /\ Occurrences(a.body) = p[S]
  BY <1>1, OccurrencesSum
<1>13. h[O] = p[S]
  <2>1. SumOfGroups(h, q, S, O)
    BY <1>10, <1>11 DEF SumOfGroups
  <2> HIDE DEF q, key, f, S
  <2>2. QED
    BY <1>3, <1>4, <1>5, <1>9, <1>12, <2>1, SumByGroups
<1>14. QED
  BY <1>10, <1>12, <1>13 DEF O

\* Nothing is counted twice or left out: what is reported are the distinct
\* contents read, each under its smallest path, and of each of them all
\* occurrences of all warnings, once; whatever the order of the options and
\* however often an artifact repeats a warning (evidence.py).
THEOREM ObservedExactlyOnce == Spec => []EveryObservationOnce
<1>1. ASSUME ReadInv PROVE EveryObservationOnce
  <2> SUFFICES ASSUME check.pc = "done"
               PROVE  /\ {a.body : a \in check.artifacts} = {r.body : r \in check.read}
                      /\ \A a \in check.artifacts : \A r \in check.read :
                            r.body = a.body => a.path <= r.path
                      /\ \A a \in check.artifacts :
                            MapThenSumSet(LAMBDA o : o.occurrences,
                                          {o \in check.observed : o.artifact = a.path})
                              = Occurrences(a.body)
    BY DEF EveryObservationOnce
  <2>1. /\ KeptOf(check.artifacts, check.read)
        /\ check.observed = ObservationsAt(check.artifacts, check.scan, check.commit)
    BY <1>1 DEF ReadInv
  <2>2. {a.body : a \in check.artifacts} = {r.body : r \in check.read}
    BY <2>1 DEF KeptOf
  <2>3. \A a \in check.artifacts : \A r \in check.read : r.body = a.body => a.path <= r.path
    BY <2>1 DEF KeptOf
  <2>4. ASSUME NEW a \in check.artifacts
        PROVE  MapThenSumSet(LAMBDA o : o.occurrences, {o \in check.observed : o.artifact = a.path})
                 = Occurrences(a.body)
    <3>1. Parsable(a.body) /\ \A b \in check.artifacts : b.path = a.path => b = a
      BY <2>1 DEF KeptOf
    <3>2. {o \in check.observed : o.artifact = a.path} =
             {ObservationAt(a, w, check.scan, check.commit) : w \in Keys(a.body)}
      <4>1. \A b, w : ObservationAt(b, w, check.scan, check.commit).artifact = b.path
        BY DEF ObservationAt
      <4>2. QED
        BY <2>1, <3>1, <4>1 DEF ObservationsAt
    <3>3. QED
      BY <3>1, <3>2, ObservedOnce
  <2>5. QED
    BY <2>2, <2>3, <2>4
<1>2. QED
  BY <1>1, ReadAlways, PTL

-----------------------------------------------------------------------------
(* A session counts what the hook was given, and capture that went missing  *)
(* leaves a trace: it is missing still, or it was taken and put back.       *)

LEMMA WarningsAre == Warnings = 1..Len(Records) /\ Len(Records) \in Nat /\ IsFiniteSet(Warnings)
<1>1. Records \in Seq(Range(Records))
  BY InputsAssumption
<1>2. Len(Records) \in Nat /\ Warnings = 1..Len(Records)
  BY <1>1, LenProperties DEF Warnings
<1>3. QED
  BY <1>2, FS_Interval

Tally(s) == \A t : Additive(t, s.kept, Warnings) => t[Warnings] + s.dropped = s.raised
Noticed(s) == /\ s.toggles = 0 => s.capture
              /\ s.toggles = 1 => ~s.capture
              /\ s.missed => s.toggles >= 1

Honest ==
  {s \in Collectors : Tally(s) /\ Noticed(s) /\ \A w \in Warnings : s.kept[w] > 0 => Records[w].kind # "other"}

\* One more of one warning is one more of all.
LEMMA OneMoreKept ==
  ASSUME NEW kept \in [Warnings -> Nat], NEW w \in Warnings, NEW t,
         Additive(t, [kept EXCEPT ![w] = kept[w] + 1], Warnings)
  PROVE  \E u : Additive(u, kept, Warnings) /\ t[Warnings] = u[Warnings] + 1
<1> DEFINE more == [kept EXCEPT ![w] = kept[w] + 1]
<1>1. IsFiniteSet(Warnings)
  BY WarningsAre
<1>2. PICK u : Additive(u, kept, Warnings)
  BY <1>1, SumExists
<1>3. \A x \in Warnings \ {w} : more[x] = kept[x]
  OBVIOUS
<1>4. more[w] = kept[w] + 1
  OBVIOUS
<1> HIDE DEF more
<1>5. t[Warnings \ {w}] = u[Warnings \ {w}]
  <2>1. Additive(t, more, Warnings)
    BY DEF more
  <2>2. QED
    BY <1>1, <1>2, <1>3, <2>1, SumsAgree
<1>6. t[Warnings] = t[Warnings \ {w}] + more[w] /\ u[Warnings] = u[Warnings \ {w}] + kept[w]
  BY <1>2 DEF Additive, more
<1>7. u[Warnings \ {w}] \in Nat
  BY <1>2 DEF Additive
<1>8. QED
  BY <1>2, <1>4, <1>5, <1>6, <1>7

\* What is recorded is counted: kept, once more or for the first time, or dropped.
LEMMA RecordedHonest ==
  ASSUME NEW s \in Honest, NEW w \in Warnings
  PROVE  Recorded(s, w) \in Honest
<1> DEFINE counted == [s EXCEPT !.raised = @ + 1]
           r == Recorded(s, w)
<1>1. s \in Collectors /\ Tally(s) /\ Noticed(s)
  BY DEF Honest
<1>2. counted \in Collectors /\ counted.kept = s.kept /\ counted.raised = s.raised + 1
      /\ counted.dropped = s.dropped /\ counted.toggles = s.toggles
      /\ counted.capture = s.capture /\ counted.missed = s.missed
  BY <1>1 DEF Collectors
<1>3. r \in Collectors
  BY <1>1, RecordedType
<1>4. CASE r = s
  BY <1>4
<1>5. CASE r # s
  <2>1. Records[w].kind # "other"
    BY <1>5 DEF Recorded
  <2>2. \/ s.kept[w] > 0 /\ r = [counted EXCEPT !.kept[w] = @ + 1]
        \/ r = [counted EXCEPT !.dropped = @ + 1]
        \/ ~(s.kept[w] > 0) /\ r = [counted EXCEPT !.kept[w] = 1, !.text = @ + Records[w].text]
    BY <1>5 DEF Recorded
  <2> HIDE DEF counted, r
  <2>3. r.toggles = s.toggles /\ r.capture = s.capture /\ r.missed = s.missed /\ r.raised = s.raised + 1
    BY <1>2, <2>2 DEF Collectors
  <2>4. \/ r.kept = [s.kept EXCEPT ![w] = s.kept[w] + 1] /\ r.dropped = s.dropped
        \/ r.kept = s.kept /\ r.dropped = s.dropped + 1
    <3>1. s.kept \in [Warnings -> Nat] /\ s.dropped \in Nat
      BY <1>1 DEF Collectors
    <3>2. CASE r = [counted EXCEPT !.kept[w] = @ + 1]
      BY <1>2, <3>1, <3>2 DEF Collectors
    <3>3. CASE r = [counted EXCEPT !.dropped = @ + 1]
      BY <1>2, <3>1, <3>3 DEF Collectors
    <3>4. CASE ~(s.kept[w] > 0) /\ r = [counted EXCEPT !.kept[w] = 1, !.text = @ + Records[w].text]
      <4>1. s.kept[w] \in Nat
        BY <3>1
      <4>2. 1 = s.kept[w] + 1
        BY <3>4, <4>1
      <4>3. r.kept = [s.kept EXCEPT ![w] = 1] /\ r.dropped = s.dropped
        BY <1>2, <3>1, <3>4 DEF Collectors
      <4>4. QED
        BY <4>2, <4>3
    <3>5. QED
      BY <2>2, <3>2, <3>3, <3>4
  <2>5. Noticed(r)
    BY <1>1, <2>3 DEF Noticed
  <2>6. Tally(r)
    <3> SUFFICES ASSUME NEW t, Additive(t, r.kept, Warnings) PROVE t[Warnings] + r.dropped = r.raised
      BY DEF Tally
    <3>1. s.kept \in [Warnings -> Nat] /\ s.dropped \in Nat /\ s.raised \in Nat
      BY <1>1 DEF Collectors
    <3>2. CASE r.kept = [s.kept EXCEPT ![w] = s.kept[w] + 1] /\ r.dropped = s.dropped
      <4>1. PICK u : Additive(u, s.kept, Warnings) /\ t[Warnings] = u[Warnings] + 1
        BY <3>1, <3>2, OneMoreKept
      <4>2. u[Warnings] + s.dropped = s.raised
        BY <1>1, <4>1 DEF Tally
      <4>3. u[Warnings] \in Nat
        BY <4>1 DEF Additive
      <4>4. QED
        BY <2>3, <3>1, <3>2, <4>1, <4>2, <4>3
    <3>3. CASE r.kept = s.kept /\ r.dropped = s.dropped + 1
      <4>1. t[Warnings] + s.dropped = s.raised
        BY <1>1, <3>3 DEF Tally
      <4>2. t[Warnings] \in Nat
        BY DEF Additive
      <4>3. QED
        BY <2>3, <3>1, <3>3, <4>1, <4>2
    <3>4. QED
      BY <2>4, <3>2, <3>3
  <2>7. \A v \in Warnings : r.kept[v] > 0 => Records[v].kind # "other"
    <3>1. \A v \in Warnings : v # w => r.kept[v] = s.kept[v]
      BY <1>1, <2>4 DEF Collectors
    <3>2. QED
      BY <2>1, <3>1 DEF Honest
  <2>8. QED
    BY <1>3, <2>5, <2>6, <2>7 DEF Honest, r
<1>6. QED
  BY <1>4, <1>5

\* A sum of nothing is nothing.
LEMMA NothingAdds ==
  ASSUME NEW t, Additive(t, [w \in Warnings |-> 0], Warnings)
  PROVE  t[Warnings] = 0
<1> DEFINE zero == [w \in Warnings |-> 0]
           g == [T \in SUBSET Warnings |-> 0]
<1>1. Additive(g, zero, Warnings)
  BY DEF Additive
<1>2. IsFiniteSet(Warnings) /\ zero = zero
  BY WarningsAre
<1>3. t[Warnings] = g[Warnings]
  <2>1. Additive(t, zero, Warnings)
    OBVIOUS
  <2> HIDE DEF zero, g
  <2>2. QED
    BY <1>1, <1>2, <2>1, SumsAgree
<1>4. QED
  BY <1>3

LEMMA RegisteredHonest ==
  ASSUME session \in [pc : {"configure"}, path : Paths], NEW c \in Nat, NEW S \in Early
  PROVE  Registered(c, S) \in Honest
<1> DEFINE s == [pc |-> "registered", path |-> session.path, commit |-> c, capture |-> TRUE,
                 toggles |-> 0, kept |-> [w \in Warnings |-> 0], text |-> 0, dropped |-> 0,
                 raised |-> 0, missed |-> FALSE, left |-> MaxRaised]
<1>1. s \in Collectors
  BY InputsAssumption DEF Collectors
<1>2. Tally(s)
  BY NothingAdds DEF Tally
<1>3. Noticed(s)
  BY DEF Noticed
<1>4. s \in Honest
  BY <1>1, <1>2, <1>3 DEF Honest
<1>5. S \in SUBSET Warnings /\ IsFiniteSet(S)
  BY WarningsAre, InputsAssumption, FS_Subset DEF Warnings
<1>6. Registered(c, S) = Replay(s, S)
  BY ReplayIsFold DEF Registered
<1>7. \A t \in Honest : \A w \in Warnings : Recorded(t, w) \in Honest
  BY RecordedHonest
<1>8. QED
  <2> HIDE DEF s
  <2>1. QED
    BY <1>4, <1>5, <1>6, <1>7, ReplayKeeps

\* A session that collects is honest.
HonestInv == session \in Collectors => session \in Honest

LEMMA HonestStep == OwnerInv /\ HonestInv /\ [Next]_vars => HonestInv'
<1> SUFFICES ASSUME OwnerInv, HonestInv, [Next]_vars PROVE HonestInv'
  OBVIOUS
<1>0. /\ session.pc \in {"cmdline", "configure"} => session \in Started /\ session # Ended
      /\ session.pc \in {"registered", "running"} => session \in Collectors /\ session # Ended
      /\ Ended \notin Collectors /\ Started \cap Collectors = {}
  BY SessionShape
<1>1. CASE session' = session
  BY <1>1 DEF HonestInv, Collectors, Honest, Tally, Noticed
<1>2. CASE session' = Ended
  BY <1>0, <1>2 DEF HonestInv, Collectors, Ended
<1>3. ASSUME NEW p \in Paths, StartPytest(p) PROVE HonestInv'
  <2>1. session' = [pc |-> "cmdline", path |-> p]
    BY <1>3 DEF StartPytest
  <2>2. session' \notin Collectors
    BY <2>1 DEF Collectors
  <2>3. QED
    BY <2>2 DEF HonestInv, Collectors
<1>4. ASSUME NEW loopOnFail \in BOOLEAN, CommandLine(loopOnFail) PROVE HonestInv'
  <2>1. session \in Started /\ (session' = Ended \/ session' = [session EXCEPT !.pc = "configure"])
    BY <1>0, <1>4 DEF CommandLine
  <2>2. CASE session' = [session EXCEPT !.pc = "configure"]
    <3>1. session' \notin Collectors
      BY <2>1, <2>2 DEF Started, Collectors
    <3>2. QED
      BY <3>1 DEF HonestInv, Collectors
  <2>3. QED
    BY <1>2, <2>1, <2>2
<1>5. ASSUME NEW xdist \in BOOLEAN, NEW capture \in BOOLEAN, NEW c \in {NoCommit, head},
             NEW early \in Early, Configure(xdist, capture, c, early)
      PROVE  HonestInv'
  <2>1. /\ session \in [pc : {"configure"}, path : Paths] /\ c \in Nat
        /\ session' = Ended \/ session' = Registered(c, early)
    BY <1>0, <1>5 DEF Configure, Started, OwnerInv, NoCommit
  <2>2. CASE session' = Registered(c, early)
    <3>1. session' \in Honest
      BY <2>1, <2>2, RegisteredHonest
    <3>2. QED
      BY <3>1 DEF HonestInv, Honest, Collectors, Tally, Noticed
  <2>3. QED
    BY <1>2, <2>1, <2>2
<1>6. ASSUME session \in Collectors, session' \in Honest PROVE HonestInv'
  BY <1>6 DEF HonestInv, Honest, Collectors, Tally, Noticed
<1>7. CASE ToggleCapture
  <2>1. session \in Honest /\ session \in Collectors
        /\ session' = [session EXCEPT !.capture = ~@, !.toggles = @ + 1]
    BY <1>0, <1>7 DEF ToggleCapture, HonestInv
  <2>2. \A b \in BOOLEAN, n \in Nat :
           LET s == [[session EXCEPT !.capture = b] EXCEPT !.toggles = n]
           IN  /\ s \in Collectors /\ s.kept = session.kept /\ s.dropped = session.dropped
               /\ s.raised = session.raised /\ s.missed = session.missed
               /\ (s.capture <=> b) /\ s.toggles = n
    BY <2>1 DEF Collectors
  <2>3. (~session.capture) \in BOOLEAN /\ session.toggles + 1 \in Nat /\ session.toggles \in Nat
    BY <2>1 DEF Collectors
  <2>4. session' = [[session EXCEPT !.capture = ~session.capture] EXCEPT !.toggles = session.toggles + 1]
    BY <2>1, Zenon DEF Collectors
  <2> DEFINE s == [[session EXCEPT !.capture = ~session.capture] EXCEPT !.toggles = session.toggles + 1]
  <2>5. /\ s \in Collectors /\ s.kept = session.kept /\ s.dropped = session.dropped
        /\ s.raised = session.raised /\ s.missed = session.missed
        /\ (s.capture <=> ~session.capture) /\ s.toggles = session.toggles + 1
    BY <2>2, <2>3
  <2> HIDE DEF s
  <2>6. Noticed(s)
    <3>1. Noticed(session)
      BY <2>1 DEF Honest
    <3>2. QED
      BY <2>3, <2>5, <3>1 DEF Noticed
  <2>7. Tally(s)
    BY <2>1, <2>5 DEF Tally, Honest
  <2>8. s \in Honest
    BY <2>1, <2>5, <2>6, <2>7 DEF Honest
  <2>9. QED
    BY <1>6, <2>1, <2>4, <2>8 DEF s
<1>8. CASE SessionStart
  <2>1. session \in Collectors /\ session \in Honest
    BY <1>0, <1>8 DEF SessionStart, HonestInv
  <2>2. CASE session' = [session EXCEPT !.pc = "running"]
    <3>1. session' \in Honest
      BY <2>1, <2>2 DEF Honest, Collectors, Tally, Noticed
    <3>2. QED
      BY <1>6, <2>1, <3>1
  <2>3. QED
    BY <1>2, <1>8, <2>2 DEF SessionStart, CaptureMissing
<1>9. ASSUME NEW w \in Warnings, WarningRaised(w) PROVE HonestInv'
  <2> DEFINE s == [session EXCEPT !.left = @ - 1]
  <2>1. session \in Collectors /\ session \in Honest /\ session.left > 0
    BY <1>0, <1>9 DEF WarningRaised, HonestInv
  <2>2. /\ s \in Collectors /\ s.kept = session.kept /\ s.dropped = session.dropped
        /\ s.raised = session.raised /\ s.missed = session.missed
        /\ s.capture = session.capture /\ s.toggles = session.toggles
    BY <2>1 DEF Collectors
  <2>3. \/ session' = Recorded(s, w)
        \/ ~session.capture /\ session' = [s EXCEPT !.missed = @ \/ Records[w].kind # "other"]
    BY <1>9 DEF WarningRaised
  <2> HIDE DEF s
  <2>4. s \in Honest
    BY <2>1, <2>2 DEF Honest, Tally, Noticed
  <2>5. CASE session' = Recorded(s, w)
    BY <1>6, <2>1, <2>4, <2>5, RecordedHonest
  <2>6. CASE ~session.capture /\ session' = [s EXCEPT !.missed = @ \/ Records[w].kind # "other"]
    <3>1. (s.missed \/ Records[w].kind # "other") \in BOOLEAN
      OBVIOUS
    <3>2. \A b \in BOOLEAN :
            LET r == [s EXCEPT !.missed = b] IN
            /\ r \in Collectors /\ r.kept = s.kept /\ r.dropped = s.dropped
            /\ r.raised = s.raised /\ r.capture = s.capture /\ r.toggles = s.toggles
      BY <2>2 DEF Collectors
    <3>3. /\ session' \in Collectors /\ session'.kept = s.kept /\ session'.dropped = s.dropped
          /\ session'.raised = s.raised /\ session'.capture = s.capture /\ session'.toggles = s.toggles
      BY <2>6, <3>1, <3>2
    <3>4. session'.toggles # 0 /\ session'.toggles \in Nat
      BY <2>2, <2>4, <2>6, <3>3 DEF Honest, Noticed, Collectors
    <3>5. Noticed(session')
      BY <2>4, <3>3, <3>4 DEF Honest, Noticed
    <3>6. Tally(session')
      BY <2>4, <3>3 DEF Honest, Tally
    <3>7. session' \in Honest
      BY <2>4, <3>3, <3>5, <3>6 DEF Honest
    <3>8. QED
      BY <1>6, <2>1, <3>7
  <2>7. QED
    BY <2>3, <2>5, <2>6
<1>10. CASE \/ ConfigureFails \/ Killed \/ Commit \/ \E env \in Environments : SessionFinish(env)
            \/ \E p \in Paths, file \in Delivered : Deliver(p, file)
            \/ \E selection \in Selections : CheckStart(selection)
            \/ LoadEvidence \/ \E scan \in Scans : MergeEvidence(scan)
            \/ UNCHANGED vars
  <2>1. session' = session \/ session' = Ended
    BY <1>10 DEF ConfigureFails, Killed, Commit, SessionFinish, CaptureMissing, Deliver, CheckStart,
                 LoadEvidence, MergeEvidence, vars
  <2>2. QED
    BY <1>1, <1>2, <2>1
<1>11. QED
  BY <1>3, <1>4, <1>5, <1>7, <1>8, <1>9, <1>10 DEF Next

LEMMA HonestAlways == Spec => [](OwnerInv /\ NoStaleEvidence /\ HonestInv)
<1>1. Init => HonestInv
  BY DEF Init, HonestInv, Ended, Collectors
<1>2. QED
  BY <1>1, OwnerInit, OwnerStep, HonestStep, PTL DEF Spec

-----------------------------------------------------------------------------
(* Sums over the positions of a sequence.                                   *)

Indexed(f, key, n) == [i \in 1..n |-> f[key[i]]]
FirstOf(key, n) == {key[i] : i \in 1..n}

\* The sum over the first positions is the sum over what they hold.
LEMMA SumByIndex ==
  ASSUME NEW n \in Nat, NEW S, IsFiniteSet(S), NEW f \in [S -> Nat], NEW t, Additive(t, f, S),
         NEW key \in [1..n -> S], \A i, j \in 1..n : key[i] = key[j] => i = j,
         NEW p, Additive(p, Indexed(f, key, n), 1..n)
  PROVE  \A k \in 0..n : p[1..k] = t[FirstOf(key, k)]
<1> DEFINE C == {k \in 0..n : p[1..k] = t[FirstOf(key, k)]}
           e == Indexed(f, key, n)
<1>1. ASSUME NEW k \in 0..n PROVE k \in C
  <2> DEFINE D == {m \in 0..k : p[1..m] = t[FirstOf(key, m)]}
  <2>1. 0 \in D
    <3>1. 1..0 = {} /\ FirstOf(key, 0) = {}
      BY DEF FirstOf
    <3>2. p[{}] = 0 /\ t[{}] = 0
      BY DEF Additive
    <3>3. p[1..0] = t[FirstOf(key, 0)]
      BY <3>1, <3>2
    <3>4. QED
      BY <3>3
  <2>2. ASSUME NEW m \in 0..k, m # k, m \in D PROVE m + 1 \in D
    <3>1. m + 1 \in 1..n /\ m + 1 \in 0..k
      BY <2>2
    <3> DEFINE T == 1..m
               U == FirstOf(key, m)
    <3>2. 1..m + 1 = T \cup {m + 1} /\ m + 1 \notin T /\ T \in SUBSET (1..n)
      BY <2>2, <3>1
    <3>3. U \in SUBSET S /\ key[m + 1] \in S
      BY <3>1, <3>2 DEF FirstOf
    <3>4. key[m + 1] \notin U
      BY <3>1, <3>2 DEF FirstOf
    <3>5. FirstOf(key, m + 1) = U \cup {key[m + 1]}
      BY <3>2 DEF FirstOf
    <3>6. p[T \cup {m + 1}] = p[T] + e[m + 1]
      <4>1. Additive(p, e, 1..n)
        OBVIOUS
      <4>2. m + 1 \in (1..n) \ T /\ T \in SUBSET (1..n)
        BY <3>1, <3>2
      <4> DEFINE x == m + 1
                 I == 1..n
      <4>3. Additive(p, e, I) /\ T \in SUBSET I /\ x \in I \ T
        BY <4>1, <4>2
      <4> HIDE DEF e, T, x, I
      <4>4. p[T \cup {x}] = p[T] + e[x]
        BY ONLY <4>3, OneMore
      <4>5. QED
        BY <4>4 DEF x
    <3>7. t[U \cup {key[m + 1]}] = t[U] + f[key[m + 1]]
      <4> DEFINE x == key[m + 1]
                 V == U \cup {x}
      <4>1. V \in SUBSET S /\ x \in V /\ V \ {x} = U
        BY <3>3, <3>4
      <4> HIDE DEF x, V, U
      <4>2. t[V] = t[V \ {x}] + f[x]
        BY <4>1 DEF Additive
      <4>3. QED
        BY <4>1, <4>2 DEF V, x
    <3>8. e[m + 1] = f[key[m + 1]]
      BY <3>1 DEF Indexed
    <3>9. p[T] = t[U]
      BY <2>2
    <3>10. p[1..m + 1] = t[FirstOf(key, m + 1)]
      <4> HIDE DEF T, U, e
      <4>1. QED
        BY <3>2, <3>5, <3>6, <3>7, <3>8, <3>9
    <3>11. QED
      BY <3>1, <3>10
  <2>3. k \in D
    <3> HIDE DEF D
    <3>1. k \in Nat
      OBVIOUS
    <3>2. QED
      BY <2>1, <2>2, <3>1, CountsUp
  <2>4. QED
    BY <2>3
<1>2. QED
  BY <1>1

\* The sum of a set and of the rest.
LEMMA SumOfParts ==
  ASSUME NEW S, IsFiniteSet(S), NEW f \in [S -> Nat], NEW t, Additive(t, f, S), NEW A \in SUBSET S, NEW B \in SUBSET S,
         A \cap B = {}
  PROVE  t[A \cup B] = t[A] + t[B]
<1> DEFINE C == {T \in SUBSET B : t[A \cup T] = t[A] + t[T]}
<1>1. IsFiniteSet(B)
  BY FS_Subset
<1>2. {} \in C
  <2>1. A \cup {} = A /\ t[A] \in Nat /\ t[{}] = 0
    BY DEF Additive
  <2>2. QED
    BY <2>1
<1>3. ASSUME NEW T \in SUBSET B, NEW x \in B \ T, T \in C PROVE T \cup {x} \in C
  <2>1. x \in S \ (A \cup T) /\ x \in S \ T /\ A \cup T \in SUBSET S /\ T \in SUBSET S
    OBVIOUS
  <2>2. t[(A \cup T) \cup {x}] = t[A \cup T] + f[x] /\ t[T \cup {x}] = t[T] + f[x]
    BY <2>1, OneMore
  <2>3. t[A] \in Nat /\ t[T] \in Nat /\ t[T \cup {x}] \in Nat /\ t[A \cup T] \in Nat
        /\ t[(A \cup T) \cup {x}] \in Nat
    BY <2>1 DEF Additive
  <2>4. t[A \cup T] = t[A] + t[T]
    BY <1>3
  <2>5. A \cup (T \cup {x}) = (A \cup T) \cup {x}
    OBVIOUS
  <2> DEFINE a == t[A]
             b == t[T]
             c == t[A \cup T]
             d == t[T \cup {x}]
             g == t[(A \cup T) \cup {x}]
             h == f[x]
  <2>6. g = c + h /\ d = b + h /\ c = a + b /\ a \in Nat /\ b \in Nat /\ c \in Nat /\ d \in Nat /\ g \in Nat
    BY <2>2, <2>3, <2>4
  <2>7. g = a + d
    <3>1. h \in Nat
      BY <2>1
    <3> HIDE DEF a, b, c, d, g, h
    <3>2. QED
      BY <2>6, <3>1
  <2>8. QED
    BY <2>5, <2>7
<1>4. B \in C
  <2> HIDE DEF C
  <2>1. QED
    BY <1>1, <1>2, <1>3, FiniteSetGrows
<1>5. QED
  BY <1>4

-----------------------------------------------------------------------------
(* The document of a session.                                               *)

\* The records of the warnings up to one.
DocumentStep(s, g, n) ==
  IF n = 0 THEN <<>>
  ELSE IF s.kept[n] = 0 THEN g[n - 1]
  ELSE Append(g[n - 1], [warning |-> n, occurrences |-> s.kept[n]])
Lines(s) == CHOOSE g : g = [n \in 0..Len(Records) |-> DocumentStep(s, g, n)]

LEMMA DocumentLines ==
  ASSUME NEW s, NEW env
  PROVE  Document(s, env) = [warnings |-> Lines(s)[Len(Records)], complete |-> s.dropped = 0,
                             dropped |-> s.dropped, commit |-> s.commit, env |-> env]
  BY DEF Document, Lines, DocumentStep

\* A recursion over the numbers up to one is defined.
LEMMA LinesDefined ==
  ASSUME NEW s
  PROVE  Lines(s) = [n \in 0..Len(Records) |-> DocumentStep(s, Lines(s), n)]
<1> DEFINE N == Len(Records)
           C == {k \in 0..N : \E g : g = [n \in 0..k |-> DocumentStep(s, g, n)]}
<1>1. N \in Nat
  BY WarningsAre
<1>2. 0 \in C
  <2> DEFINE g == [n \in 0..0 |-> <<>>]
  <2>1. g = [n \in 0..0 |-> DocumentStep(s, g, n)]
    BY DEF DocumentStep
  <2> HIDE DEF g
  <2>2. QED
    BY <1>1, <2>1
<1>3. ASSUME NEW k \in 0..N, k # N, k \in C PROVE k + 1 \in C
  <2>1. PICK g : g = [n \in 0..k |-> DocumentStep(s, g, n)]
    BY <1>3
  <2> DEFINE h == [n \in 0..k + 1 |-> IF n = k + 1 THEN DocumentStep(s, g, n) ELSE g[n]]
  <2>2. \A n \in 0..k + 1 : n # 0 => n - 1 \in 0..k /\ h[n - 1] = g[n - 1]
    OBVIOUS
  <2>3. \A n \in 0..k + 1 : DocumentStep(s, h, n) = DocumentStep(s, g, n)
    <3> HIDE DEF h
    <3>1. QED
      BY <2>2 DEF DocumentStep
  <2>4. \A n \in 0..k : g[n] = DocumentStep(s, g, n)
    BY <2>1
  <2>5. \A n \in 0..k + 1 : h[n] = DocumentStep(s, h, n)
    BY <2>3, <2>4
  <2>6. h = [n \in 0..k + 1 |-> DocumentStep(s, h, n)]
    <3>1. h = [n \in 0..k + 1 |-> h[n]]
      OBVIOUS
    <3> HIDE DEF h
    <3>2. QED
      BY <2>5, <3>1
  <2>7. k + 1 \in 0..N
    BY <1>1, <1>3
  <2> HIDE DEF h
  <2>8. QED
    BY <2>6, <2>7
<1>4. N \in C
  <2> HIDE DEF C, N
  <2>1. QED
    BY <1>1, <1>2, <1>3, CountsUp
<1>5. QED
  BY <1>4 DEF Lines

\* The records up to a warning: those kept, in their order.
Listed(s, n, seq) ==
  /\ seq \in Seq([warning : Warnings, occurrences : Nat \ {0}])
  /\ \A i \in 1..Len(seq) : seq[i].warning <= n /\ seq[i].occurrences = s.kept[seq[i].warning]
  /\ \A i, j \in 1..Len(seq) : i < j => seq[i].warning < seq[j].warning
  /\ \A w \in Warnings : w <= n /\ s.kept[w] > 0 => \E i \in 1..Len(seq) : seq[i].warning = w

LEMMA ListedKnown ==
  ASSUME NEW s, NEW n, NEW seq, Listed(s, n, seq)
  PROVE  /\ Len(seq) \in Nat
         /\ \A i \in 1..Len(seq) : seq[i].warning \in Warnings /\ seq[i].warning \in Nat
                                   /\ seq[i].occurrences \in Nat \ {0}
<1> DEFINE R == [warning : Warnings, occurrences : Nat \ {0}]
<1>1. seq \in Seq(R)
  BY DEF Listed
<1>2. \A r \in R : r.warning \in Warnings /\ r.warning \in Nat /\ r.occurrences \in Nat \ {0}
  BY WarningsAre
<1> HIDE DEF R
<1>3. \A i \in 1..Len(seq) : seq[i] \in R
  BY <1>1, ElementOfSeq
<1>4. QED
  BY <1>1, <1>2, <1>3, LenProperties

LEMMA LinesAre ==
  ASSUME NEW s, s.kept \in [Warnings -> Nat]
  PROVE  \A n \in 0..Len(Records) : Listed(s, n, Lines(s)[n])
<1> DEFINE g == Lines(s)
           N == Len(Records)
<1>1. N \in Nat /\ Warnings = 1..N
  BY WarningsAre
<1>2. \A n \in 0..N : g[n] = DocumentStep(s, g, n)
  BY LinesDefined
<1> HIDE DEF g
<1>3. ASSUME NEW n \in 0..N PROVE Listed(s, n, g[n])
  <2> DEFINE C == {m \in 0..n : Listed(s, m, g[m])}
  <2>1. 0 \in C
    <3>0. 0 \in 0..N
      BY <1>1
    <3>1. g[0] = <<>>
      BY <1>2, <3>0 DEF DocumentStep
    <3>2. Listed(s, 0, <<>>)
      BY <1>1 DEF Listed
    <3>3. QED
      BY <1>1, <3>1, <3>2
  <2>2. ASSUME NEW m \in 0..n, m # n, m \in C PROVE m + 1 \in C
    <3>1. m + 1 \in Warnings /\ m + 1 \in 0..N /\ m + 1 # 0 /\ m + 1 - 1 = m /\ m \in Nat
      BY <1>1, <2>2
    <3>2. Listed(s, m, g[m])
      BY <2>2
    <3>3. g[m + 1] = IF s.kept[m + 1] = 0 THEN g[m]
                     ELSE Append(g[m], [warning |-> m + 1, occurrences |-> s.kept[m + 1]])
      BY <1>2, <3>1 DEF DocumentStep
    <3>4. CASE s.kept[m + 1] = 0
      <4>1. \A w \in Warnings : w <= m + 1 /\ s.kept[w] > 0 => w <= m
        BY <1>1, <3>1, <3>4
      <4>2. \A i \in 1..Len(g[m]) : g[m][i].warning \in Nat
        BY <3>2, ListedKnown
      <4>3. \A i \in 1..Len(g[m]) : g[m][i].warning <= m + 1
        <5>1. \A i \in 1..Len(g[m]) : g[m][i].warning <= m
          BY <3>2 DEF Listed
        <5>2. m \in Nat
          BY <1>1, <3>1
        <5>3. QED
          BY <4>2, <5>1, <5>2
      <4>4. Listed(s, m + 1, g[m])
        BY <3>2, <4>1, <4>3 DEF Listed
      <4>5. QED
        BY <2>2, <3>3, <3>4, <4>4
    <3>5. CASE s.kept[m + 1] # 0
      <4> DEFINE item == [warning |-> m + 1, occurrences |-> s.kept[m + 1]]
                 old == g[m]
                 new == Append(old, item)
                 L == Len(old)
      <4>1. item \in [warning : Warnings, occurrences : Nat \ {0}]
        BY <3>1, <3>5
      <4>2. old \in Seq([warning : Warnings, occurrences : Nat \ {0}])
        BY <3>2 DEF Listed
      <4>3. /\ new \in Seq([warning : Warnings, occurrences : Nat \ {0}])
            /\ L \in Nat /\ Len(new) = L + 1 /\ new[L + 1] = item /\ \A i \in 1..L : new[i] = old[i]
        <5> HIDE DEF item
        <5>1. QED
          BY <4>1, <4>2
      <4>4. item.warning = m + 1 /\ item.occurrences = s.kept[m + 1]
        OBVIOUS
      <4> HIDE DEF item, old, new, L
      <4>5. \A i \in 1..L + 1 : i \in 1..L \/ i = L + 1
        BY <4>3
      <4>6. \A i \in 1..L : old[i].warning \in Nat /\ old[i].warning <= m
        <5>1. \A i \in 1..Len(g[m]) : g[m][i].warning \in Nat
          BY <3>2, ListedKnown
        <5>2. \A i \in 1..Len(g[m]) : g[m][i].warning <= m
          BY <3>2 DEF Listed
        <5>3. QED
          BY <5>1, <5>2 DEF old, L
      <4>7. \A i \in 1..Len(new) : new[i].warning <= m + 1 /\ new[i].occurrences = s.kept[new[i].warning]
        <5>1. ASSUME NEW i \in 1..L PROVE new[i].warning <= m + 1 /\ new[i].occurrences = s.kept[new[i].warning]
          <6>1. old[i].occurrences = s.kept[old[i].warning]
            BY <3>2, <5>1 DEF Listed, old, L
          <6>2. old[i].warning <= m + 1
            BY <3>1, <4>6, <5>1
          <6>3. QED
            BY <4>3, <6>1, <6>2
        <5>2. new[L + 1].warning <= m + 1 /\ new[L + 1].occurrences = s.kept[new[L + 1].warning]
          BY <3>1, <4>3, <4>4
        <5>3. QED
          BY <4>3, <4>5, <5>1, <5>2
      <4>8. ASSUME NEW i \in 1..Len(new), NEW j \in 1..Len(new), i < j
            PROVE  new[i].warning < new[j].warning
        <5>1. i \in 1..L
          BY <4>3, <4>8
        <5>2. CASE j \in 1..L
          BY <3>2, <4>3, <4>8, <5>1, <5>2 DEF Listed, old, L
        <5>3. CASE j = L + 1
          <6>1. new[j].warning = m + 1 /\ new[i].warning \in Nat /\ new[i].warning <= m
            BY <4>3, <4>4, <4>6, <5>1, <5>3
          <6>2. QED
            BY <3>1, <6>1
        <5>4. QED
          BY <4>3, <4>5, <5>2, <5>3
      <4>9. ASSUME NEW w \in Warnings, w <= m + 1, s.kept[w] > 0
            PROVE  \E i \in 1..Len(new) : new[i].warning = w
        <5>1. CASE w = m + 1
          BY <4>3, <4>4, <5>1
        <5>2. CASE w # m + 1
          <6>1. w <= m
            BY <1>1, <3>1, <4>9, <5>2
          <6>2. PICK i \in 1..L : old[i].warning = w
            BY <3>2, <4>9, <6>1 DEF Listed, old, L
          <6>3. QED
            BY <4>3, <6>2
        <5>3. QED
          BY <5>1, <5>2
      <4>10. Listed(s, m + 1, new)
        BY <4>3, <4>7, <4>8, <4>9 DEF Listed
      <4>11. QED
        <5>1. g[m + 1] = new
          BY <3>3, <3>5 DEF item, old, new
        <5>2. m + 1 \in 0..n
          BY <1>1, <2>2
        <5>3. QED
          BY <4>10, <5>1, <5>2
    <3>6. QED
      BY <3>4, <3>5
  <2>3. n \in C
    <3> HIDE DEF C
    <3>1. n \in Nat
      BY <1>1
    <3>2. QED
      BY <2>1, <2>2, <3>1, CountsUp
  <2>4. QED
    BY <2>3
<1>4. QED
  BY <1>3 DEF g

-----------------------------------------------------------------------------
(* The size of a document, and what is left of one that is cut.             *)

Weight(doc) == [i \in DOMAIN doc.warnings |-> Records[doc.warnings[i].warning].rendered]
SizeUpTo(seq, T, g) == IF T = {} THEN 0 ELSE g[T \ {Last1(T)}] + Records[seq[Last1(T)].warning].rendered
Envelope(doc) == Limits.envelope + (IF doc.complete THEN 0 ELSE 1)

LEMMA SizeIsFold ==
  ASSUME NEW doc
  PROVE  Size(doc) = Envelope(doc) +
              (CHOOSE g : g = [T \in SUBSET DOMAIN doc.warnings |-> SizeUpTo(doc.warnings, T, g)])
                 [DOMAIN doc.warnings]
  BY DEF Size, Envelope, FoldLeft, MapThenFoldSet, SizeUpTo, Last1, Max

\* The bytes of a document are those of its envelope and of its records.
LEMMA SizeSum ==
  ASSUME NEW doc, doc.warnings \in Seq(Retained)
  PROVE  \E p : /\ Additive(p, Weight(doc), DOMAIN doc.warnings)
                /\ Size(doc) = Envelope(doc) + p[DOMAIN doc.warnings]
<1> DEFINE seq == doc.warnings
           S == DOMAIN doc.warnings
           f == Weight(doc)
           choice == [T \in SUBSET S |-> Last1(T)]
<1>1. IsFiniteSet(S)
  BY FiniteDomain
<1>2. f \in [S -> Nat]
  <2>1. \A i \in S : doc.warnings[i] \in Retained
    OBVIOUS
  <2>2. \A w \in Warnings : Records[w].rendered \in Nat
    BY InputsAssumption DEF Warnings
  <2>3. QED
    BY <2>1, <2>2 DEF Retained, Weight
<1>3. \A T \in SUBSET S : T # {} => Last1(T) \in T
  BY LastInDomain
<1>4. \A T \in SUBSET S : T # {} => choice[T] \in T /\ choice[T] = Last1(T)
  BY <1>3
<1>5. PICK p : SumsBy(p, f, S, choice)
  <2> HIDE DEF f, choice, S
  <2>1. QED
    BY <1>1, <1>2, <1>4, SumInOrder
<1>6. p = [T \in SUBSET S |-> SizeUpTo(seq, T, p)]
  <2>1. \A T \in SUBSET S : p[T] = SizeUpTo(seq, T, p)
    <3>1. \A T \in SUBSET S : T # {} => f[choice[T]] = Records[seq[Last1(T)].warning].rendered
      BY <1>4 DEF Weight
    <3> HIDE DEF f, choice, S
    <3>2. QED
      BY <1>4, <1>5, <3>1 DEF SizeUpTo, SumsBy
  <2>2. p = [T \in SUBSET S |-> p[T]]
    BY <1>5 DEF SumsBy, Additive
  <2> HIDE DEF S, seq
  <2>3. QED
    BY <2>1, <2>2
<1> DEFINE h == CHOOSE g : g = [T \in SUBSET S |-> SizeUpTo(seq, T, g)]
<1>7. h = [T \in SUBSET S |-> SizeUpTo(seq, T, h)]
  BY <1>6
<1>8. h = p
  <2> HIDE DEF h
  <2>1. OnSubsets(h, S) /\ OnSubsets(p, S)
    BY <1>6, <1>7 DEF OnSubsets
  <2>2. h[{}] = p[{}]
    BY <1>6, <1>7 DEF SizeUpTo
  <2>3. ASSUME NEW T \in SUBSET S, T # {} PROVE SameAfter(h, p, T)
    <3>1. h[T] = SizeUpTo(seq, T, h)
      BY <1>7
    <3>2. p[T] = SizeUpTo(seq, T, p)
      BY <1>6
    <3>3. Last1(T) \in T
      BY <1>3, <2>3
    <3> HIDE DEF S, seq
    <3>4. QED
      BY <2>3, <3>1, <3>2, <3>3 DEF SizeUpTo, SameAfter
  <2> HIDE DEF S, seq
  <2>4. QED
    BY <1>1, <2>1, <2>2, <2>3, SameRecursion
<1>9. Size(doc) = Envelope(doc) + h[S]
  BY SizeIsFold
<1>10. QED
  BY <1>5, <1>8, <1>9 DEF SumsBy

\* A document that says what a session holds: the records in their order.
Faithful(s, doc) ==
  /\ Listed(s, Len(Records), doc.warnings) /\ doc.dropped = s.dropped
  /\ (doc.complete <=> s.dropped = 0)

Shown(doc) == {doc.warnings[i].warning : i \in 1..Len(doc.warnings)}
KeptBy(s) == {w \in Warnings : s.kept[w] > 0}

LEMMA FaithfulDocument ==
  ASSUME NEW s \in Honest, NEW env
  PROVE  /\ Faithful(s, Document(s, env)) /\ Document(s, env).warnings \in Seq(Retained)
         /\ Shown(Document(s, env)) = KeptBy(s)
<1> DEFINE doc == Document(s, env)
           seq == Lines(s)[Len(Records)]
<1>1. doc = [warnings |-> seq, complete |-> s.dropped = 0, dropped |-> s.dropped,
             commit |-> s.commit, env |-> env]
  BY DocumentLines
<1>2. s.kept \in [Warnings -> Nat] /\ \A w \in Warnings : s.kept[w] > 0 => Records[w].kind # "other"
  BY DEF Honest, Collectors
<1>3. Listed(s, Len(Records), seq)
  <2>1. Len(Records) \in 0..Len(Records)
    BY WarningsAre
  <2>2. QED
    BY <1>2, <2>1, LinesAre
<1> HIDE DEF doc, seq
<1>4. doc.warnings = seq /\ Faithful(s, doc)
  BY <1>1, <1>3 DEF Faithful
<1>5. ASSUME NEW i \in 1..Len(seq)
      PROVE  /\ seq[i].warning \in KeptBy(s) /\ seq[i] \in Retained
  <2>1. /\ seq[i].warning \in Warnings /\ seq[i].occurrences \in Nat \ {0}
        /\ seq[i].occurrences = s.kept[seq[i].warning]
    <3>1. seq[i].warning \in Warnings /\ seq[i].occurrences \in Nat \ {0}
      BY <1>3, <1>5, ListedKnown
    <3>2. seq[i].occurrences = s.kept[seq[i].warning]
      BY <1>3, <1>5 DEF Listed
    <3>3. QED
      BY <3>1, <3>2
  <2>2. seq[i].warning \in KeptBy(s)
    BY <2>1 DEF KeptBy
  <2>3. seq[i] \in [warning : Warnings, occurrences : Nat \ {0}]
    BY <1>3, ElementOfSeq DEF Listed
  <2>4. seq[i] \in Retained
    BY <1>2, <2>2, <2>3 DEF Retained, KeptBy
  <2>5. QED
    BY <2>2, <2>4
<1>6. seq \in Seq(Retained)
  <2>1. seq \in Seq([warning : Warnings, occurrences : Nat \ {0}])
    BY <1>3 DEF Listed
  <2>2. Len(seq) \in Nat /\ seq = [i \in 1..Len(seq) |-> seq[i]]
    BY <2>1
  <2>3. QED
    BY <1>5, <2>2
<1>7. Shown(doc) = KeptBy(s)
  <2>1. Shown(doc) \subseteq KeptBy(s)
    BY <1>4, <1>5 DEF Shown
  <2>2. ASSUME NEW w \in KeptBy(s) PROVE w \in Shown(doc)
    <3>1. w \in Warnings /\ s.kept[w] > 0 /\ w <= Len(Records)
      BY WarningsAre DEF KeptBy
    <3>2. PICK i \in 1..Len(seq) : seq[i].warning = w
      BY <1>3, <3>1 DEF Listed
    <3>3. QED
      BY <1>4, <3>2 DEF Shown
  <2>3. QED
    BY <2>1, <2>2
<1>8. QED
  BY <1>4, <1>6, <1>7 DEF doc

\* The occurrences and the bytes of records of distinct warnings, in terms of the
\* session they are of.
LEMMA DistinctSums ==
  ASSUME NEW s \in Honest, NEW doc, doc.warnings \in Seq(Retained),
         \A i, j \in 1..Len(doc.warnings) : doc.warnings[i].warning = doc.warnings[j].warning => i = j,
         \A i \in 1..Len(doc.warnings) : doc.warnings[i].occurrences = s.kept[doc.warnings[i].warning]
  PROVE  /\ \A t : Additive(t, s.kept, Warnings) => Occurrences(doc) = t[Shown(doc)]
         /\ \A t : Additive(t, [w \in Warnings |-> Records[w].rendered], Warnings) =>
               Size(doc) = Envelope(doc) + t[Shown(doc)]
<1> DEFINE seq == doc.warnings
           k == Len(seq)
           key == [i \in 1..k |-> seq[i].warning]
<1>1. /\ seq \in Seq(Retained)
      /\ \A i, j \in 1..k : seq[i].warning = seq[j].warning => i = j
      /\ \A i \in 1..k : seq[i].occurrences = s.kept[seq[i].warning]
  OBVIOUS
<1>2. k \in Nat /\ DOMAIN seq = 1..k /\ \A i \in 1..k : seq[i] \in Retained
  BY <1>1, ElementOfSeq, LenProperties
<1> HIDE DEF seq, k
<1>3. key \in [1..k -> Warnings] /\ \A i, j \in 1..k : key[i] = key[j] => i = j
  BY <1>1, <1>2 DEF Retained
<1>4. Shown(doc) = FirstOf(key, k)
  BY DEF Shown, FirstOf, seq, k
<1>5. k \in 0..k /\ IsFiniteSet(Warnings)
  BY <1>2, WarningsAre
<1>6. ASSUME NEW t, Additive(t, s.kept, Warnings) PROVE Occurrences(doc) = t[Shown(doc)]
  <2> DEFINE f == [i \in DOMAIN seq |-> seq[i].occurrences]
             e == Indexed(s.kept, key, k)
             kept == s.kept
  <2>1. PICK p : Additive(p, f, DOMAIN seq) /\ Occurrences(doc) = p[DOMAIN seq]
    BY <1>1, OccurrencesSum DEF seq
  <2>2. f = e
    BY <1>1, <1>2 DEF Indexed
  <2>3. /\ k \in Nat /\ IsFiniteSet(Warnings) /\ kept \in [Warnings -> Nat] /\ k \in 0..k
        /\ Additive(t, kept, Warnings) /\ key \in [1..k -> Warnings]
        /\ \A i, j \in 1..k : key[i] = key[j] => i = j
        /\ Additive(p, Indexed(kept, key, k), 1..k)
    <3>1. kept \in [Warnings -> Nat]
      BY DEF Honest, Collectors
    <3>2. Additive(p, Indexed(kept, key, k), 1..k)
      BY <1>2, <2>1, <2>2
    <3>3. QED
      BY <1>2, <1>3, <1>5, <1>6, <3>1, <3>2
  <2> HIDE DEF key, f, kept
  <2>4. p[1..k] = t[FirstOf(key, k)]
    <3>1. \A j \in 0..k : p[1..j] = t[FirstOf(key, j)]
      BY ONLY <2>3, SumByIndex
    <3>2. QED
      BY <2>3, <3>1
  <2>5. QED
    BY <1>2, <1>4, <2>1, <2>4
<1>7. ASSUME NEW t, Additive(t, [w \in Warnings |-> Records[w].rendered], Warnings)
      PROVE  Size(doc) = Envelope(doc) + t[Shown(doc)]
  <2> DEFINE r == [w \in Warnings |-> Records[w].rendered]
  <2>1. PICK p : Additive(p, Weight(doc), DOMAIN seq) /\ Size(doc) = Envelope(doc) + p[DOMAIN seq]
    BY <1>1, SizeSum DEF seq
  <2>2. Weight(doc) = Indexed(r, key, k)
    BY <1>2, <1>3 DEF Weight, Indexed, seq, k
  <2>3. /\ k \in Nat /\ IsFiniteSet(Warnings) /\ r \in [Warnings -> Nat] /\ k \in 0..k
        /\ Additive(t, r, Warnings) /\ key \in [1..k -> Warnings]
        /\ \A i, j \in 1..k : key[i] = key[j] => i = j
        /\ Additive(p, Indexed(r, key, k), 1..k)
    <3>1. r \in [Warnings -> Nat]
      BY InputsAssumption DEF Warnings
    <3>2. Additive(p, Indexed(r, key, k), 1..k)
      BY <1>2, <2>1, <2>2
    <3>3. QED
      BY <1>2, <1>3, <1>5, <1>7, <3>1, <3>2
  <2> HIDE DEF key, r
  <2>4. p[1..k] = t[FirstOf(key, k)]
    <3>1. \A j \in 0..k : p[1..j] = t[FirstOf(key, j)]
      BY ONLY <2>3, SumByIndex
    <3>2. QED
      BY <2>3, <3>1
  <2>5. QED
    BY <1>2, <1>4, <2>1, <2>4
<1>8. QED
  BY <1>6, <1>7

-----------------------------------------------------------------------------
(* The binary search.                                                       *)

Middle(r) == (r[1] + r[2] + 1) \div 2
FitStep(doc, g, r) ==
  IF r[1] >= r[2] THEN r[1]
  ELSE IF Within(Truncated(doc, Middle(r))) THEN g[<<Middle(r), r[2]>>]
  ELSE g[<<r[1], Middle(r) - 1>>]
Ranges(n) == (0..n) \X (0..n)
Fit(doc) == CHOOSE g : g = [r \in Ranges(Len(doc.warnings)) |-> FitStep(doc, g, r)]

LEMMA FitIsSearch ==
  ASSUME NEW doc
  PROVE  LongestFit(doc) = Fit(doc)[<<0, Len(doc.warnings)>>]
  BY DEF LongestFit, Fit, Ranges, FitStep, Middle

Gap(r) == r[2] - r[1]

\* Each step looks at a shorter range within the range.
LEMMA ShorterRange ==
  ASSUME NEW n \in Nat, NEW r \in Ranges(n), ~(r[1] >= r[2])
  PROVE  /\ <<Middle(r), r[2]>> \in Ranges(n) /\ <<r[1], Middle(r) - 1>> \in Ranges(n)
         /\ Gap(<<Middle(r), r[2]>>) < Gap(r) /\ Gap(<<r[1], Middle(r) - 1>>) < Gap(r)
         /\ Middle(r) \in r[1] + 1..r[2] /\ Gap(r) \in Nat
         /\ Gap(<<Middle(r), r[2]>>) \in Nat /\ Gap(<<r[1], Middle(r) - 1>>) \in Nat
<1>1. r[1] \in 0..n /\ r[2] \in 0..n /\ r[1] < r[2]
  BY DEF Ranges
<1> DEFINE a == r[1]
           b == r[2]
           m == Middle(r)
<1>2. a \in Nat /\ b \in Nat /\ a < b /\ a <= n /\ b <= n /\ m = (a + b + 1) \div 2
  BY <1>1 DEF Middle
<1> HIDE DEF a, b, m
<1>3. m \in Nat /\ a + 1 <= m /\ m <= b
  BY <1>2
<1>4. <<m, b>> \in Ranges(n) /\ <<a, m - 1>> \in Ranges(n)
  BY <1>2, <1>3 DEF Ranges
<1>5. Gap(<<m, b>>) = b - m /\ Gap(<<a, m - 1>>) = m - 1 - a /\ Gap(r) = b - a
  BY DEF Gap, a, b
<1>6. QED
  BY <1>2, <1>3, <1>4, <1>5 DEF a, b, m

LEMMA FitDefined ==
  ASSUME NEW doc, Len(doc.warnings) \in Nat
  PROVE  Fit(doc) = [r \in Ranges(Len(doc.warnings)) |-> FitStep(doc, Fit(doc), r)]
<1> DEFINE n == Len(doc.warnings)
           Known(g, k) == /\ g = [r \in Ranges(n) |-> g[r]]
                          /\ \A r \in Ranges(n) : Gap(r) <= k => g[r] = FitStep(doc, g, r)
           C == {k \in 0..n : \E g : Known(g, k)}
<1>1. n \in Nat
  OBVIOUS
<1>2. \A r \in Ranges(n) : Gap(r) \in Int /\ Gap(r) <= n /\ (Gap(r) <= 0 <=> r[1] >= r[2])
  BY <1>1 DEF Ranges, Gap
<1> HIDE DEF n
<1>3. 0 \in C
  <2> DEFINE g == [r \in Ranges(n) |-> r[1]]
  <2>1. \A r \in Ranges(n) : Gap(r) <= 0 => g[r] = FitStep(doc, g, r)
    BY <1>2 DEF FitStep
  <2>2. Known(g, 0)
    BY <2>1
  <2> HIDE DEF g, Known
  <2>3. QED
    BY <1>1, <2>2
<1>4. ASSUME NEW k \in 0..n, k # n, k \in C PROVE k + 1 \in C
  <2>1. PICK g : Known(g, k)
    BY <1>4
  <2> DEFINE h == [r \in Ranges(n) |-> IF Gap(r) <= k THEN g[r] ELSE FitStep(doc, g, r)]
  <2>2. \A r \in Ranges(n) : Gap(r) <= k => h[r] = g[r]
    OBVIOUS
  <2>3. ASSUME NEW r \in Ranges(n), Gap(r) <= k + 1 PROVE FitStep(doc, h, r) = FitStep(doc, g, r)
    <3>1. CASE r[1] >= r[2]
      BY <3>1 DEF FitStep
    <3>2. CASE ~(r[1] >= r[2])
      <4> DEFINE u == <<Middle(r), r[2]>>
                 v == <<r[1], Middle(r) - 1>>
      <4>1. u \in Ranges(n) /\ v \in Ranges(n) /\ Gap(u) < Gap(r) /\ Gap(v) < Gap(r)
            /\ Gap(u) \in Nat /\ Gap(v) \in Nat /\ Gap(r) \in Nat
        BY <1>1, <3>2, ShorterRange
      <4>2. FitStep(doc, h, r) = IF Within(Truncated(doc, Middle(r))) THEN h[u] ELSE h[v]
        BY <3>2 DEF FitStep
      <4>3. FitStep(doc, g, r) = IF Within(Truncated(doc, Middle(r))) THEN g[u] ELSE g[v]
        BY <3>2 DEF FitStep
      <4> HIDE DEF u, v, h
      <4>4. Gap(u) <= k /\ Gap(v) <= k
        BY <2>3, <4>1
      <4>5. QED
        BY <2>2, <4>1, <4>2, <4>3, <4>4
    <3>3. QED
      BY <3>1, <3>2
  <2>4. ASSUME NEW r \in Ranges(n), Gap(r) <= k + 1 PROVE h[r] = FitStep(doc, h, r)
    <3>1. CASE Gap(r) <= k
      BY <2>1, <2>2, <2>3, <2>4, <3>1
    <3>2. CASE ~(Gap(r) <= k)
      BY <2>3, <2>4, <3>2
    <3>3. QED
      BY <3>1, <3>2
  <2>5. h = [r \in Ranges(n) |-> h[r]]
    OBVIOUS
  <2> HIDE DEF h
  <2>6. Known(h, k + 1)
    BY <2>4, <2>5
  <2>7. k + 1 \in 0..n
    BY <1>1, <1>4
  <2> HIDE DEF Known
  <2>8. QED
    BY <2>6, <2>7
<1>5. n \in C
  <2> HIDE DEF C
  <2>1. QED
    BY <1>1, <1>3, <1>4, CountsUp
<1>6. PICK g : Known(g, n)
  BY <1>5
<1>7. g = [r \in Ranges(n) |-> FitStep(doc, g, r)]
  <2>1. \A r \in Ranges(n) : g[r] = FitStep(doc, g, r)
    BY <1>2, <1>6
  <2>2. g = [r \in Ranges(n) |-> g[r]]
    BY <1>6
  <2> HIDE DEF Known
  <2>3. QED
    BY <2>1, <2>2
<1>8. QED
  BY <1>7 DEF Fit, n

\* If what fits is what is short enough, the search ends at the longest that fits.
LEMMA FitLongest ==
  ASSUME NEW doc, Len(doc.warnings) \in Nat,
         \A a, b \in 0..Len(doc.warnings) :
            a <= b /\ Within(Truncated(doc, b)) => Within(Truncated(doc, a)),
         Within(Truncated(doc, 0))
  PROVE  /\ LongestFit(doc) \in 0..Len(doc.warnings)
         /\ Within(Truncated(doc, LongestFit(doc)))
         /\ \A m \in 0..Len(doc.warnings) : m > LongestFit(doc) => ~Within(Truncated(doc, m))
<1> DEFINE n == Len(doc.warnings)
           f == Fit(doc)
           fits == {m \in 0..n : Within(Truncated(doc, m))}
           Right(r) == /\ f[r] \in r[1]..r[2]
                       /\ r[1] \in fits => f[r] \in fits
                       /\ \A m \in r[1]..r[2] : m > f[r] => m \notin fits
           C == {k \in 0..n : \A r \in Ranges(n) : r[1] <= r[2] /\ Gap(r) <= k => Right(r)}
<1>1. n \in Nat /\ 0 \in fits
  OBVIOUS
<1>2. \A a, b \in 0..n : a <= b /\ b \in fits => a \in fits
  OBVIOUS
<1>3. \A r \in Ranges(n) : f[r] = FitStep(doc, f, r)
  BY FitDefined
<1>4. \A m \in 0..n : m \in fits <=> Within(Truncated(doc, m))
  OBVIOUS
<1>5. \A r \in Ranges(n) : r[1] \in 0..n /\ r[2] \in 0..n /\ Gap(r) = r[2] - r[1]
  BY DEF Ranges, Gap
<1> HIDE DEF n, f, fits
<1>6. ASSUME NEW r \in Ranges(n), r[1] = r[2] PROVE Right(r)
  <2>1. r[1] \in Nat /\ r[1] >= r[2]
    BY <1>1, <1>5, <1>6
  <2>2. f[r] = r[1]
    BY <1>3, <2>1 DEF FitStep
  <2>3. QED
    BY <1>6, <2>1, <2>2
<1>7. 0 \in C
  <2>1. ASSUME NEW r \in Ranges(n), r[1] <= r[2], Gap(r) <= 0 PROVE Right(r)
    <3>1. r[1] = r[2]
      BY <1>1, <1>5, <2>1
    <3>2. QED
      BY <1>6, <3>1
  <2> HIDE DEF Right
  <2>2. QED
    BY <1>1, <2>1
<1>8. ASSUME NEW k \in 0..n, k # n, k \in C PROVE k + 1 \in C
  <2>1. ASSUME NEW r \in Ranges(n), r[1] <= r[2], Gap(r) <= k + 1 PROVE Right(r)
    <3>1. CASE r[1] = r[2]
      BY <1>6, <3>1
    <3>2. CASE r[1] # r[2]
      <4> DEFINE a == r[1]
                 b == r[2]
                 m == Middle(r)
                 u == <<m, b>>
                 v == <<a, m - 1>>
      <4>1. a \in 0..n /\ b \in 0..n /\ a < b /\ ~(a >= b)
        BY <1>1, <1>5, <2>1, <3>2
      <4>2. /\ u \in Ranges(n) /\ v \in Ranges(n) /\ Gap(u) < Gap(r) /\ Gap(v) < Gap(r)
            /\ m \in a + 1..b /\ Gap(r) \in Nat /\ Gap(u) \in Nat /\ Gap(v) \in Nat
        BY <1>1, <4>1, ShorterRange
      <4>3. u[1] = m /\ u[2] = b /\ v[1] = a /\ v[2] = m - 1
        OBVIOUS
      <4>4. f[r] = IF Within(Truncated(doc, m)) THEN f[u] ELSE f[v]
        BY <1>3, <4>1 DEF FitStep
      <4> HIDE DEF a, b, m, u, v
      <4>5. Gap(u) <= k /\ Gap(v) <= k
        BY <1>1, <1>8, <2>1, <4>2
      <4>6. m \in 0..n /\ m <= b /\ a <= m /\ a <= m - 1
        BY <1>1, <4>1, <4>2
      <4>7. CASE m \in fits
        <5>1. Right(u)
          BY <1>8, <4>2, <4>3, <4>5, <4>6
        <5>2. f[r] = f[u]
          BY <1>4, <4>4, <4>6, <4>7
        <5>3. f[r] \in m..b /\ f[r] \in fits /\ \A x \in m..b : x > f[r] => x \notin fits
          BY <4>3, <4>7, <5>1, <5>2
        <5>4. f[r] \in a..b
          BY <1>1, <4>1, <4>6, <5>3
        <5>5. \A x \in a..b : x > f[r] => x \in m..b
          BY <1>1, <4>1, <4>6, <5>3
        <5>6. QED
          BY <5>3, <5>4, <5>5 DEF a, b
      <4>8. CASE m \notin fits
        <5>1. Right(v)
          BY <1>8, <4>2, <4>3, <4>5, <4>6
        <5>2. f[r] = f[v]
          BY <1>4, <4>4, <4>6, <4>8
        <5>3. f[r] \in a..m - 1 /\ (a \in fits => f[r] \in fits)
              /\ \A x \in a..m - 1 : x > f[r] => x \notin fits
          BY <4>3, <5>1, <5>2
        <5>4. f[r] \in a..b
          BY <1>1, <4>1, <4>6, <5>3
        <5>5. ASSUME NEW x \in a..b, x > f[r] PROVE x \notin fits
          <6>1. CASE x \in a..m - 1
            BY <5>3, <5>5, <6>1
          <6>2. CASE x \notin a..m - 1
            <7>1. m <= x /\ x \in 0..n
              BY <1>1, <4>1, <4>6, <6>2
            <7>2. QED
              BY <1>2, <4>6, <4>8, <7>1
          <6>3. QED
            BY <6>1, <6>2
        <5>6. QED
          BY <5>3, <5>4, <5>5 DEF a, b
      <4>9. QED
        BY <4>7, <4>8
    <3>3. QED
      BY <3>1, <3>2
  <2>2. k + 1 \in 0..n
    BY <1>1, <1>8
  <2> HIDE DEF Right
  <2>3. QED
    BY <2>1, <2>2
<1>9. n \in C
  <2> HIDE DEF C
  <2>1. QED
    BY <1>1, <1>7, <1>8, CountsUp
<1> DEFINE whole == <<0, n>>
<1>10. whole \in Ranges(n) /\ whole[1] = 0 /\ whole[2] = n
  BY <1>1 DEF Ranges
<1>11. Gap(whole) <= n
  BY <1>1, <1>5, <1>10
<1>12. Right(whole)
  <2> HIDE DEF whole, Right
  <2>1. QED
    BY <1>1, <1>9, <1>10, <1>11
<1>13. LongestFit(doc) = f[whole]
  BY FitIsSearch DEF f, n
<1>14. f[whole] \in 0..n /\ f[whole] \in fits /\ \A m \in 0..n : m > f[whole] => m \notin fits
  <2> HIDE DEF whole
  <2>1. QED
    BY <1>1, <1>10, <1>12
<1> HIDE DEF whole
<1>15. QED
  BY <1>4, <1>13, <1>14 DEF n

-----------------------------------------------------------------------------
(* A document cut to its first records, and what was cut.                   *)

Rest(doc, keep) == [doc EXCEPT !.warnings = SubSeq(@, keep + 1, Len(@))]

\* Records of distinct warnings, as often as the session saw them.
Good(s, doc) ==
  /\ doc.warnings \in Seq(Retained)
  /\ \A i, j \in 1..Len(doc.warnings) : doc.warnings[i].warning = doc.warnings[j].warning => i = j
  /\ \A i \in 1..Len(doc.warnings) : doc.warnings[i].occurrences = s.kept[doc.warnings[i].warning]

\* The two parts of a document that is cut.
Parts(doc, k, cut, rest) ==
  /\ Len(cut.warnings) = k /\ Len(rest.warnings) = Len(doc.warnings) - k
  /\ cut.warnings \in Seq(Retained) /\ rest.warnings \in Seq(Retained)
  /\ \A i \in 1..k : cut.warnings[i] = doc.warnings[i]
  /\ \A i \in 1..Len(doc.warnings) - k : rest.warnings[i] = doc.warnings[k + i]
  /\ cut.complete = FALSE /\ cut.dropped = doc.dropped + Occurrences(rest)

LEMMA PartsAre ==
  ASSUME NEW s \in Honest, NEW env, NEW k \in 0..Len(Document(s, env).warnings)
  PROVE  Parts(Document(s, env), k, Truncated(Document(s, env), k), Rest(Document(s, env), k))
<1> DEFINE doc == Document(s, env)
           seq == doc.warnings
           cut == Truncated(doc, k)
           rest == Rest(doc, k)
           n == Len(seq)
<1>1. doc = [warnings |-> Lines(s)[Len(Records)], complete |-> s.dropped = 0,
             dropped |-> s.dropped, commit |-> s.commit, env |-> env]
  BY DocumentLines
<1>2. seq \in Seq(Retained)
  BY FaithfulDocument
<1> HIDE DEF doc
<1>3. rest.warnings = SubSeq(seq, k + 1, n)
  BY <1>1 DEF Rest
<1>4. cut.warnings = SubSeq(seq, 1, k) /\ cut.complete = FALSE /\ cut.dropped = doc.dropped + Occurrences(rest)
  BY <1>1 DEF Rest, Truncated
<1>5. n \in Nat /\ k \in Nat /\ k <= n
  BY <1>2, LenProperties DEF doc
<1>6. \A i \in 1..n : seq[i] \in Retained
  BY <1>2, ElementOfSeq
<1> HIDE DEF seq, n, rest, cut
<1>7. /\ SubSeq(seq, 1, k) \in Seq(Retained) /\ Len(SubSeq(seq, 1, k)) = k
      /\ \A i \in 1..k : SubSeq(seq, 1, k)[i] = seq[i]
  <2>1. 1 \in Int /\ k \in Int /\ \A i \in 1..k : seq[i] \in Retained
    BY <1>5, <1>6
  <2>2. /\ SubSeq(seq, 1, k) \in Seq(Retained)
        /\ Len(SubSeq(seq, 1, k)) = IF 1 <= k THEN k - 1 + 1 ELSE 0
        /\ \A i \in 1..k - 1 + 1 : SubSeq(seq, 1, k)[i] = seq[1 + i - 1]
    BY <2>1, SubSeqProperties
  <2>3. k - 1 + 1 = k /\ \A i \in 1..k : 1 + i - 1 = i
    BY <1>5
  <2>4. QED
    BY <1>5, <2>2, <2>3
<1>8. /\ SubSeq(seq, k + 1, n) \in Seq(Retained) /\ Len(SubSeq(seq, k + 1, n)) = n - k
      /\ \A i \in 1..n - k : SubSeq(seq, k + 1, n)[i] = seq[k + i]
  <2>1. k + 1 \in Int /\ n \in Int /\ \A i \in k + 1..n : seq[i] \in Retained
    BY <1>5, <1>6
  <2>2. /\ SubSeq(seq, k + 1, n) \in Seq(Retained)
        /\ Len(SubSeq(seq, k + 1, n)) = IF k + 1 <= n THEN n - (k + 1) + 1 ELSE 0
        /\ \A i \in 1..n - (k + 1) + 1 : SubSeq(seq, k + 1, n)[i] = seq[(k + 1) + i - 1]
    BY <2>1, SubSeqProperties
  <2>3. n - (k + 1) + 1 = n - k /\ \A i \in 1..n - k : (k + 1) + i - 1 = k + i
    BY <1>5
  <2>4. Len(SubSeq(seq, k + 1, n)) = n - k
    BY <1>5, <2>2
  <2>5. QED
    BY <2>2, <2>3, <2>4
<1>9. /\ Len(cut.warnings) = k /\ Len(rest.warnings) = Len(doc.warnings) - k
      /\ cut.warnings \in Seq(Retained) /\ rest.warnings \in Seq(Retained)
      /\ \A i \in 1..k : cut.warnings[i] = doc.warnings[i]
      /\ \A i \in 1..Len(doc.warnings) - k : rest.warnings[i] = doc.warnings[k + i]
  BY <1>3, <1>4, <1>7, <1>8 DEF seq, n
<1>10. Parts(doc, k, cut, rest)
  BY <1>4, <1>9 DEF Parts
<1>11. QED
  BY <1>10 DEF doc, cut, rest

\* The warnings at the positions of a document.
From(doc, a, b) == {doc.warnings[i].warning : i \in a..b}

LEMMA CutGood ==
  ASSUME NEW s \in Honest, NEW doc, Good(s, doc), NEW k \in 0..Len(doc.warnings), NEW cut, NEW rest,
         Parts(doc, k, cut, rest)
  PROVE  /\ Good(s, cut) /\ Shown(cut) = From(doc, 1, k)
         /\ Good(s, rest) /\ Shown(rest) = From(doc, k + 1, Len(doc.warnings))
<1> DEFINE n == Len(doc.warnings)
<1>1. n \in Nat /\ k \in Nat /\ k <= n
  BY LenProperties DEF Good
<1>2. /\ \A i, j \in 1..n : doc.warnings[i].warning = doc.warnings[j].warning => i = j
      /\ \A i \in 1..n : doc.warnings[i].occurrences = s.kept[doc.warnings[i].warning]
  BY DEF Good
<1>3. /\ Len(cut.warnings) = k /\ Len(rest.warnings) = n - k
      /\ \A i \in 1..k : cut.warnings[i] = doc.warnings[i]
      /\ \A i \in 1..n - k : rest.warnings[i] = doc.warnings[k + i]
  BY DEF Parts
<1>4. cut.warnings \in Seq(Retained) /\ rest.warnings \in Seq(Retained)
  BY DEF Parts
<1> HIDE DEF n
<1>5. Good(s, cut)
  <2>1. \A i \in 1..k : i \in 1..n /\ cut.warnings[i] = doc.warnings[i]
    BY <1>1, <1>3
  <2>2. \A i, j \in 1..k : cut.warnings[i].warning = cut.warnings[j].warning => i = j
    BY <1>2, <2>1
  <2>3. \A i \in 1..k : cut.warnings[i].occurrences = s.kept[cut.warnings[i].warning]
    BY <1>2, <2>1
  <2>4. QED
    BY <1>3, <1>4, <2>2, <2>3 DEF Good
<1>6. Shown(cut) = From(doc, 1, k)
  <2>1. \A i \in 1..k : cut.warnings[i].warning = doc.warnings[i].warning
    BY <1>3
  <2>2. Shown(cut) = {cut.warnings[i].warning : i \in 1..k}
    BY <1>3 DEF Shown
  <2>3. Shown(cut) \subseteq From(doc, 1, k) /\ From(doc, 1, k) \subseteq Shown(cut)
    BY <2>1, <2>2 DEF From
  <2>4. QED
    BY <2>3
<1>7. Good(s, rest)
  <2>1. \A i \in 1..n - k : k + i \in 1..n /\ rest.warnings[i] = doc.warnings[k + i]
    BY <1>1, <1>3
  <2>2. \A i, j \in 1..n - k : rest.warnings[i].warning = rest.warnings[j].warning => i = j
    <3>1. ASSUME NEW i \in 1..n - k, NEW j \in 1..n - k,
                 rest.warnings[i].warning = rest.warnings[j].warning
          PROVE  i = j
      <4>1. k + i = k + j
        BY <1>2, <2>1, <3>1
      <4>2. QED
        BY <1>1, <4>1
    <3>2. QED
      BY <3>1
  <2>3. \A i \in 1..n - k : rest.warnings[i].occurrences = s.kept[rest.warnings[i].warning]
    BY <1>2, <2>1
  <2>4. QED
    BY <1>3, <1>4, <2>2, <2>3 DEF Good
<1>8. Shown(rest) = From(doc, k + 1, n)
  <2>1. \A i \in 1..n - k : k + i \in k + 1..n
    BY <1>1
  <2>2. \A j \in k + 1..n : j - k \in 1..n - k /\ k + (j - k) = j
    BY <1>1
  <2>3. Shown(rest) = {rest.warnings[i].warning : i \in 1..n - k}
    BY <1>3 DEF Shown
  <2>4. \A i \in 1..n - k : rest.warnings[i].warning = doc.warnings[k + i].warning
    BY <1>3
  <2>5. Shown(rest) \subseteq From(doc, k + 1, n)
    BY <2>1, <2>3, <2>4 DEF From
  <2>6. ASSUME NEW j \in k + 1..n PROVE doc.warnings[j].warning \in Shown(rest)
    <3>1. j - k \in 1..n - k /\ rest.warnings[j - k].warning = doc.warnings[k + (j - k)].warning
      BY <2>2, <2>4
    <3>2. QED
      BY <2>2, <2>3, <3>1
  <2>7. QED
    BY <2>5, <2>6 DEF From
<1>9. QED
  BY <1>5, <1>6, <1>7, <1>8 DEF n

\* The document of a session, cut anywhere, shows its first warnings.
LEMMA WholeGood ==
  ASSUME NEW s \in Honest, NEW env
  PROVE  /\ Good(s, Document(s, env)) /\ Len(Document(s, env).warnings) \in Nat
         /\ Shown(Document(s, env)) = KeptBy(s)
         /\ Document(s, env).dropped = s.dropped /\ (Document(s, env).complete <=> s.dropped = 0)
         /\ Document(s, env).complete \in BOOLEAN
         /\ \A i, j \in 1..Len(Document(s, env).warnings) :
               i < j => Document(s, env).warnings[i].warning < Document(s, env).warnings[j].warning
<1> DEFINE doc == Document(s, env)
<1>1. Faithful(s, doc) /\ doc.warnings \in Seq(Retained) /\ Shown(doc) = KeptBy(s)
  BY FaithfulDocument
<1>2. doc.complete \in BOOLEAN
  BY DocumentLines
<1> HIDE DEF doc
<1>3. Listed(s, Len(Records), doc.warnings)
  BY <1>1 DEF Faithful
<1>4. \A i \in 1..Len(doc.warnings) : doc.warnings[i].occurrences = s.kept[doc.warnings[i].warning]
  BY <1>3 DEF Listed
<1>5. Len(doc.warnings) \in Nat
      /\ \A i \in 1..Len(doc.warnings) : doc.warnings[i].warning \in Nat
  BY <1>3, ListedKnown
<1>6. \A i, j \in 1..Len(doc.warnings) : i < j => doc.warnings[i].warning < doc.warnings[j].warning
  BY <1>3 DEF Listed
<1>7. \A i, j \in 1..Len(doc.warnings) : doc.warnings[i].warning = doc.warnings[j].warning => i = j
  <2>1. ASSUME NEW i \in 1..Len(doc.warnings), NEW j \in 1..Len(doc.warnings), i # j
        PROVE  doc.warnings[i].warning # doc.warnings[j].warning
    <3>1. i < j \/ j < i
      BY <1>5, <2>1
    <3>2. QED
      BY <1>5, <1>6, <3>1
  <2>2. QED
    BY <2>1
<1>8. Good(s, doc)
  BY <1>1, <1>4, <1>7 DEF Good
<1>9. QED
  BY <1>1, <1>2, <1>5, <1>6, <1>8 DEF doc, Faithful

\* The sums over what a document shows.
LEMMA GoodSums ==
  ASSUME NEW s \in Honest, NEW doc, Good(s, doc)
  PROVE  /\ \A t : Additive(t, s.kept, Warnings) => Occurrences(doc) = t[Shown(doc)]
         /\ \A t : Additive(t, [w \in Warnings |-> Records[w].rendered], Warnings) =>
               Size(doc) = Envelope(doc) + t[Shown(doc)]
         /\ Shown(doc) \subseteq Warnings
<1>1. /\ doc.warnings \in Seq(Retained)
      /\ \A i, j \in 1..Len(doc.warnings) : doc.warnings[i].warning = doc.warnings[j].warning => i = j
      /\ \A i \in 1..Len(doc.warnings) : doc.warnings[i].occurrences = s.kept[doc.warnings[i].warning]
  BY DEF Good
<1>2. /\ \A t : Additive(t, s.kept, Warnings) => Occurrences(doc) = t[Shown(doc)]
      /\ \A t : Additive(t, [w \in Warnings |-> Records[w].rendered], Warnings) =>
               Size(doc) = Envelope(doc) + t[Shown(doc)]
  BY <1>1, DistinctSums
<1>3. \A i \in 1..Len(doc.warnings) : doc.warnings[i] \in Retained
  BY <1>1, ElementOfSeq
<1>4. Shown(doc) \subseteq Warnings
  BY <1>3 DEF Shown, Retained
<1>5. QED
  BY <1>2, <1>4

\* What was not kept adds nothing.
LEMMA KeptAreAll ==
  ASSUME NEW s \in Honest, NEW t, Additive(t, s.kept, Warnings)
  PROVE  t[KeptBy(s)] = t[Warnings]
<1> DEFINE zero == [w \in Warnings |-> 0]
           g == [T \in SUBSET Warnings |-> 0]
           out == Warnings \ KeptBy(s)
<1>1. Additive(g, zero, Warnings)
  BY DEF Additive
<1>2. IsFiniteSet(Warnings) /\ s.kept \in [Warnings -> Nat]
  BY WarningsAre DEF Honest, Collectors
<1>3. out \in SUBSET Warnings /\ \A w \in out : s.kept[w] = zero[w]
  BY <1>2 DEF KeptBy
<1>4. g[out] = 0
  OBVIOUS
<1>5. KeptBy(s) \in SUBSET Warnings /\ KeptBy(s) \cap out = {} /\ KeptBy(s) \cup out = Warnings
  BY DEF KeptBy
<1>6. t[KeptBy(s)] \in Nat /\ t[out] \in Nat
  BY <1>3, <1>5 DEF Additive
<1> HIDE DEF zero, g, out
<1>7. t[out] = g[out]
  BY <1>1, <1>2, <1>3, SumsAgree
<1>8. t[Warnings] = t[KeptBy(s)] + t[out]
  <2>1. t[KeptBy(s) \cup out] = t[KeptBy(s)] + t[out]
    BY <1>2, <1>3, <1>5, SumOfParts
  <2>2. QED
    BY <1>5, <2>1
<1>9. QED
  BY <1>4, <1>6, <1>7, <1>8

-----------------------------------------------------------------------------
(* What a session writes.                                                   *)

Rendering == [w \in Warnings |-> Records[w].rendered]

LEMMA RenderingSum ==
  /\ Rendering \in [Warnings -> Nat] /\ \E t : Additive(t, Rendering, Warnings)
  /\ Limits.envelope \in Nat /\ Limits.bytes \in Nat
<1>1. Rendering \in [Warnings -> Nat]
  BY InputsAssumption DEF Rendering, Warnings
<1>2. IsFiniteSet(Warnings)
  BY WarningsAre
<1> HIDE DEF Rendering
<1>3. QED
  BY <1>1, <1>2, SumExists, InputsAssumption

\* A document cut at two places: the shorter part shows less, and what is cut
\* comes after what is shown.
Cuts(s, doc, k) ==
  /\ Good(s, Truncated(doc, k)) /\ Shown(Truncated(doc, k)) = From(doc, 1, k)
  /\ Good(s, Rest(doc, k)) /\ Shown(Rest(doc, k)) = From(doc, k + 1, Len(doc.warnings))
  /\ Truncated(doc, k).complete = FALSE
  /\ Truncated(doc, k).dropped = s.dropped + Occurrences(Rest(doc, k))
  /\ Len(Truncated(doc, k).warnings) = k

LEMMA CutsAre ==
  ASSUME NEW s \in Honest, NEW env, NEW k \in 0..Len(Document(s, env).warnings)
  PROVE  Cuts(s, Document(s, env), k)
<1> DEFINE doc == Document(s, env)
           cut == Truncated(doc, k)
           rest == Rest(doc, k)
<1>1. Parts(doc, k, cut, rest)
  BY PartsAre
<1>2. Good(s, doc) /\ doc.dropped = s.dropped
  BY WholeGood
<1>3. k \in 0..Len(doc.warnings)
  OBVIOUS
<1> HIDE DEF doc, cut, rest
<1>4. /\ Good(s, cut) /\ Shown(cut) = From(doc, 1, k)
      /\ Good(s, rest) /\ Shown(rest) = From(doc, k + 1, Len(doc.warnings))
  BY <1>1, <1>2, <1>3, CutGood
<1>5. cut.complete = FALSE /\ cut.dropped = s.dropped + Occurrences(rest) /\ Len(cut.warnings) = k
  BY <1>1, <1>2 DEF Parts
<1>6. QED
  BY <1>4, <1>5 DEF Cuts, doc, cut, rest

\* Cut anywhere, a document accounts for every warning the session was given.
LEMMA CutCounts ==
  ASSUME NEW s \in Honest, NEW env, NEW k \in 0..Len(Document(s, env).warnings)
  PROVE  /\ Occurrences(Truncated(Document(s, env), k)) + Truncated(Document(s, env), k).dropped = s.raised
         /\ Occurrences(Document(s, env)) + Document(s, env).dropped = s.raised
<1> DEFINE doc == Document(s, env)
           cut == Truncated(doc, k)
           rest == Rest(doc, k)
           n == Len(doc.warnings)
<1>1. IsFiniteSet(Warnings) /\ s.kept \in [Warnings -> Nat] /\ s.dropped \in Nat /\ Tally(s)
  BY WarningsAre DEF Honest, Collectors
<1>2. PICK t : Additive(t, s.kept, Warnings)
  BY <1>1, SumExists
<1>3. t[Warnings] + s.dropped = s.raised
  BY <1>1, <1>2 DEF Tally
<1>4. t[KeptBy(s)] = t[Warnings]
  BY <1>2, KeptAreAll
<1>5. Good(s, doc) /\ n \in Nat /\ Shown(doc) = KeptBy(s) /\ doc.dropped = s.dropped
  BY WholeGood
<1>6. Cuts(s, doc, k)
  BY CutsAre
<1>7. k \in 0..n
  OBVIOUS
<1> HIDE DEF doc, cut, rest, n
<1>8. Occurrences(doc) = t[KeptBy(s)]
  BY <1>2, <1>5, GoodSums
<1>9. /\ Good(s, cut) /\ Shown(cut) = From(doc, 1, k)
      /\ Good(s, rest) /\ Shown(rest) = From(doc, k + 1, n)
      /\ cut.dropped = s.dropped + Occurrences(rest)
  BY <1>6 DEF Cuts, cut, rest, n
<1>10. Occurrences(cut) = t[Shown(cut)] /\ Occurrences(rest) = t[Shown(rest)]
       /\ Shown(cut) \in SUBSET Warnings /\ Shown(rest) \in SUBSET Warnings
  BY <1>2, <1>9, GoodSums
<1>11. Shown(cut) \cup Shown(rest) = KeptBy(s)
  <2>1. \A i \in 1..n : i \in 1..k \/ i \in k + 1..n
    BY <1>5, <1>7
  <2>2. \A i \in k + 1..n : i \in 1..n
    BY <1>5, <1>7
  <2>3. \A i \in 1..k : i \in 1..n
    BY <1>5, <1>7
  <2>4. From(doc, 1, k) \cup From(doc, k + 1, n) = From(doc, 1, n)
    BY <2>1, <2>2, <2>3 DEF From
  <2>5. From(doc, 1, n) = Shown(doc)
    BY DEF From, Shown, n
  <2>6. QED
    BY <1>5, <1>9, <2>4, <2>5
<1>12. Shown(cut) \cap Shown(rest) = {}
  <2>1. \A i, j \in 1..n : doc.warnings[i].warning = doc.warnings[j].warning => i = j
    BY <1>5 DEF Good, n
  <2>2. ASSUME NEW i \in 1..k, NEW j \in k + 1..n PROVE doc.warnings[i].warning # doc.warnings[j].warning
    <3>1. i \in 1..n /\ j \in 1..n /\ i # j
      BY <1>5, <1>7
    <3>2. QED
      BY <2>1, <3>1
  <2>3. QED
    BY <1>9, <2>2 DEF From
<1>13. t[Shown(cut) \cup Shown(rest)] = t[Shown(cut)] + t[Shown(rest)]
  BY <1>1, <1>2, <1>10, <1>12, SumOfParts
<1>14. t[Shown(cut)] \in Nat /\ t[Shown(rest)] \in Nat
  BY <1>2, <1>10 DEF Additive
<1>15. /\ Occurrences(cut) + cut.dropped = s.raised
       /\ Occurrences(doc) + doc.dropped = s.raised
  <2> DEFINE a == t[Shown(cut)]
             b == t[Shown(rest)]
             c == t[Warnings]
             d == s.dropped
  <2>1. a \in Nat /\ b \in Nat /\ c = a + b /\ d \in Nat /\ c + d = s.raised
    BY <1>1, <1>3, <1>4, <1>11, <1>13, <1>14
  <2>2. /\ Occurrences(cut) = a /\ cut.dropped = d + b
        /\ Occurrences(doc) = c /\ doc.dropped = d
    BY <1>4, <1>5, <1>8, <1>9, <1>10
  <2> HIDE DEF a, b, c, d
  <2>3. QED
    BY <2>1, <2>2
<1>16. QED
  BY <1>15 DEF doc, cut

\* The size of a cut document is one more than the envelope and what it shows.
LEMMA CutSize ==
  ASSUME NEW s \in Honest, NEW env, NEW k \in 0..Len(Document(s, env).warnings),
         NEW t, Additive(t, Rendering, Warnings)
  PROVE  /\ Size(Truncated(Document(s, env), k)) = (Limits.envelope + 1) + t[From(Document(s, env), 1, k)]
         /\ From(Document(s, env), 1, k) \in SUBSET Warnings
<1> DEFINE doc == Document(s, env)
           cut == Truncated(doc, k)
<1>1. Good(s, cut) /\ Shown(cut) = From(doc, 1, k) /\ cut.complete = FALSE
  BY CutsAre DEF Cuts
<1> HIDE DEF doc, cut
<1>2. Size(cut) = Envelope(cut) + t[Shown(cut)] /\ Shown(cut) \subseteq Warnings
  BY <1>1, GoodSums DEF Rendering
<1>3. Envelope(cut) = Limits.envelope + 1
  BY <1>1 DEF Envelope
<1>4. QED
  BY <1>1, <1>2, <1>3 DEF doc, cut

\* A shorter part of what fits fits too.
LEMMA FitsDown ==
  ASSUME NEW s \in Honest, NEW env,
         NEW a \in 0..Len(Document(s, env).warnings), NEW b \in 0..Len(Document(s, env).warnings),
         a <= b, Within(Truncated(Document(s, env), b))
  PROVE  Within(Truncated(Document(s, env), a))
<1> DEFINE doc == Document(s, env)
           n == Len(doc.warnings)
           A == From(doc, 1, a)
           B == From(doc, 1, b)
<1>1. PICK t : Additive(t, Rendering, Warnings)
  BY RenderingSum
<1>2. /\ Size(Truncated(doc, a)) = (Limits.envelope + 1) + t[A] /\ A \in SUBSET Warnings
      /\ Size(Truncated(doc, b)) = (Limits.envelope + 1) + t[B] /\ B \in SUBSET Warnings
  BY <1>1, CutSize
<1>3. n \in Nat /\ a \in 0..n /\ b \in 0..n
  BY WholeGood
<1>4. Size(Truncated(doc, b)) <= Limits.bytes
  BY DEF Within
<1> HIDE DEF doc, n
<1>5. A \subseteq B
  <2>1. \A i \in 1..a : i \in 1..b
    BY <1>3
  <2>2. QED
    BY <2>1 DEF From
<1> HIDE DEF A, B
<1>6. t[B] = t[A] + t[B \ A]
  <2>1. A \cup (B \ A) = B /\ A \cap (B \ A) = {} /\ B \ A \in SUBSET Warnings
    BY <1>2, <1>5
  <2>2. IsFiniteSet(Warnings) /\ Rendering \in [Warnings -> Nat]
    BY WarningsAre, RenderingSum
  <2>3. t[A \cup (B \ A)] = t[A] + t[B \ A]
    BY <1>1, <1>2, <2>1, <2>2, SumOfParts
  <2>4. QED
    BY <2>1, <2>3
<1>7. t[A] \in Nat /\ t[B] \in Nat /\ t[B \ A] \in Nat
  <2>1. B \ A \in SUBSET Warnings
    BY <1>2
  <2>2. QED
    BY <1>1, <1>2, <2>1 DEF Additive
<1>8. Size(Truncated(doc, a)) <= Limits.bytes
  <2>1. Limits.envelope \in Nat /\ Limits.bytes \in Nat
    BY RenderingSum
  <2> DEFINE e == Limits.envelope
             y == Limits.bytes
             ta == t[A]
             tb == t[B]
             td == t[B \ A]
  <2>2. /\ e \in Nat /\ y \in Nat /\ ta \in Nat /\ tb \in Nat /\ td \in Nat /\ tb = ta + td
        /\ (e + 1) + tb <= y
    BY <1>2, <1>4, <1>6, <1>7, <2>1
  <2>3. (e + 1) + ta <= y
    <3> HIDE DEF e, y, ta, tb, td
    <3>1. QED
      BY <2>2
  <2>4. QED
    BY <1>2, <2>3
<1>9. QED
  BY <1>8 DEF Within, doc

\* What is written is the document, or what fits of it.
LEMMA RenderedIs ==
  ASSUME NEW s \in Honest, NEW env, Renderable(Document(s, env))
  PROVE  \/ /\ Within(Document(s, env)) /\ Rendered(Document(s, env)) = Document(s, env)
         \/ \E k \in 0..Len(Document(s, env).warnings) :
               /\ Rendered(Document(s, env)) = Truncated(Document(s, env), k)
               /\ Within(Truncated(Document(s, env), k))
               /\ \A m \in 0..Len(Document(s, env).warnings) :
                     m > k => ~Within(Truncated(Document(s, env), m))
<1> DEFINE doc == Document(s, env)
<1>1. CASE Within(doc)
  BY <1>1 DEF Rendered
<1>2. CASE ~Within(doc)
  <2>1. Within(Truncated(doc, 0)) /\ Rendered(doc) = Truncated(doc, LongestFit(doc))
    BY <1>2 DEF Renderable, Rendered
  <2>2. Len(doc.warnings) \in Nat
    BY WholeGood
  <2>3. \A a, b \in 0..Len(doc.warnings) :
           a <= b /\ Within(Truncated(doc, b)) => Within(Truncated(doc, a))
    BY FitsDown
  <2> HIDE DEF doc
  <2>4. /\ LongestFit(doc) \in 0..Len(doc.warnings)
        /\ Within(Truncated(doc, LongestFit(doc)))
        /\ \A m \in 0..Len(doc.warnings) : m > LongestFit(doc) => ~Within(Truncated(doc, m))
    BY <2>1, <2>2, <2>3, FitLongest
  <2>5. QED
    BY <2>1, <2>4 DEF doc
<1>3. QED
  BY <1>1, <1>2

TotalIn(f, T, g) == IF T = {} THEN 0 ELSE g[T \ {CHOOSE x \in T : TRUE}] + f[CHOOSE x \in T : TRUE]

LEMMA TotalIsFold ==
  ASSUME NEW f, NEW S
  PROVE  Total(f, S) = (CHOOSE g : g = [T \in SUBSET S |-> TotalIn(f, T, g)])[S]
  BY DEF Total, FoldSet, MapThenFoldSet, TotalIn

\* A total is the sum of its set among all.
LEMMA TotalIsSum ==
  ASSUME NEW W, IsFiniteSet(W), NEW f \in [W -> Nat], NEW t, Additive(t, f, W), NEW S \in SUBSET W
  PROVE  Total(f, S) = t[S]
<1> DEFINE p == [T \in SUBSET S |-> t[T]]
           h == CHOOSE g : g = [T \in SUBSET S |-> TotalIn(f, T, g)]
<1>1. \A T \in SUBSET S : p[T] = TotalIn(f, T, p)
  <2>1. ASSUME NEW T \in SUBSET S PROVE p[T] = TotalIn(f, T, p)
    <3>1. CASE T = {}
      BY <3>1 DEF TotalIn, Additive
    <3>2. CASE T # {}
      <4> DEFINE x == CHOOSE x \in T : TRUE
      <4>1. x \in T
        BY <3>2
      <4>2. TotalIn(f, T, p) = p[T \ {x}] + f[x]
        BY <3>2 DEF TotalIn
      <4> HIDE DEF x
      <4>3. t[T] = t[T \ {x}] + f[x]
        BY <4>1 DEF Additive
      <4>4. QED
        BY <4>2, <4>3
    <3>3. QED
      BY <3>1, <3>2
  <2>2. QED
    BY <2>1
<1>2. p = [T \in SUBSET S |-> TotalIn(f, T, p)]
  <2>1. p = [T \in SUBSET S |-> p[T]]
    OBVIOUS
  <2> HIDE DEF p
  <2>2. QED
    BY <1>1, <2>1
<1>3. h = [T \in SUBSET S |-> TotalIn(f, T, h)]
  <2> HIDE DEF p
  <2>1. QED
    BY <1>2
<1>4. h = p
  <2> HIDE DEF h, p
  <2>1. OnSubsets(h, S) /\ OnSubsets(p, S)
    BY <1>2, <1>3 DEF OnSubsets
  <2>2. h[{}] = p[{}]
    BY <1>2, <1>3 DEF TotalIn
  <2>3. ASSUME NEW T \in SUBSET S, T # {} PROVE SameAfter(h, p, T)
    <3> DEFINE x == CHOOSE x \in T : TRUE
    <3>1. x \in T
      BY <2>3
    <3>2. h[T] = h[T \ {x}] + f[x] /\ p[T] = p[T \ {x}] + f[x]
      BY <1>2, <1>3, <2>3 DEF TotalIn
    <3> HIDE DEF x
    <3>3. QED
      BY <3>1, <3>2 DEF SameAfter
  <2>4. \A T \in SUBSET S : T # {} => SameAfter(h, p, T)
    BY <2>3
  <2>5. IsFiniteSet(S)
    BY FS_Subset
  <2>6. QED
    BY <2>1, <2>2, <2>4, <2>5, SameRecursion
<1>5. Total(f, S) = h[S]
  BY TotalIsFold
<1>6. QED
  BY <1>4, <1>5

\* A session's step that writes an artifact writes what is rendered of its document.
LEMMA WrittenIs ==
  ASSUME OwnerInv, HonestInv, [Next]_vars, NEW p \in Paths, Written(p)
  PROVE  /\ session \in Honest /\ session.capture
         /\ \E env : /\ Renderable(Document(session, env))
                     /\ files'[p].body = Rendered(Document(session, env))
<1>1. files = [q \in Paths |-> files[q]] /\ session # Ended /\ files'[p] # files[p]
      /\ files'[p].kind = "document"
  BY DEF OwnerInv, Written
<1>2. files' # files
  BY <1>1
<1>3. files' # Emptied
  <2>1. CASE p = session.path
    BY <1>1, <2>1 DEF Emptied, Tombstone
  <2>2. CASE p # session.path
    BY <1>1, <2>2 DEF Emptied
  <2>3. QED
    BY <2>1, <2>2
<1>4. /\ session.pc \in {"cmdline", "configure"} => session \in Started /\ session # Ended
      /\ session.pc \in {"registered", "running"} => session \in Collectors /\ session # Ended
  BY SessionShape
<1>5. PICK env \in Environments : SessionFinish(env)
  <2>1. ASSUME NEW q \in Paths, StartPytest(q) PROVE FALSE
    BY <1>2, <2>1 DEF StartPytest
  <2>2. ASSUME NEW loopOnFail \in BOOLEAN, CommandLine(loopOnFail) PROVE FALSE
    BY <1>2, <1>3, <2>2 DEF CommandLine
  <2>3. ASSUME NEW xdist \in BOOLEAN, NEW capture \in BOOLEAN, NEW c \in {NoCommit, head}, NEW early \in Early,
               Configure(xdist, capture, c, early)
        PROVE  FALSE
    BY <1>3, <2>3 DEF Configure
  <2>4. CASE ConfigureFails
    BY <1>2, <2>4 DEF ConfigureFails
  <2>5. CASE ToggleCapture
    BY <1>2, <2>5 DEF ToggleCapture
  <2>6. CASE SessionStart
    BY <1>2, <1>3, <2>6 DEF SessionStart, CaptureMissing
  <2>7. ASSUME NEW w \in Warnings, WarningRaised(w) PROVE FALSE
    BY <1>2, <2>7 DEF WarningRaised
  <2>8. CASE Killed
    BY <1>2, <2>8 DEF Killed
  <2>9. CASE Commit
    BY <1>2, <2>9 DEF Commit
  <2>10. ASSUME NEW q \in Paths, NEW file \in Delivered, Deliver(q, file) PROVE FALSE
    BY <1>1, <2>10 DEF Deliver
  <2>11. ASSUME NEW selection \in Selections, CheckStart(selection) PROVE FALSE
    BY <1>2, <2>11 DEF CheckStart
  <2>12. CASE LoadEvidence
    BY <1>2, <2>12 DEF LoadEvidence
  <2>13. ASSUME NEW scan \in Scans, MergeEvidence(scan) PROVE FALSE
    BY <1>2, <2>13 DEF MergeEvidence
  <2>14. CASE UNCHANGED vars
    BY <1>2, <2>14 DEF vars
  <2>15. QED
    BY <2>1, <2>2, <2>3, <2>4, <2>5, <2>6, <2>7, <2>8, <2>9, <2>10, <2>11, <2>12, <2>13, <2>14 DEF Next
<1>6. session \in Collectors /\ session \in Honest
  BY <1>4, <1>5 DEF SessionFinish, HonestInv
<1>7. /\ session.capture /\ Renderable(Document(session, env))
      /\ files' = [files EXCEPT ![session.path] = Artifact(session, env)]
  BY <1>2, <1>3, <1>5 DEF SessionFinish, CaptureMissing
<1>8. p = session.path /\ p \in DOMAIN files
  <2>1. p \in DOMAIN files
    BY <1>1
  <2>2. p = session.path
    BY <1>1, <1>7
  <2>3. QED
    BY <2>1, <2>2
<1>9. files'[p].body = Rendered(Document(session, env))
  BY <1>7, <1>8 DEF Artifact
<1>10. QED
  BY <1>6, <1>7, <1>9

\* What a written document says of the session that writes it.
Accounts(s, doc) ==
  /\ Occurrences(doc) + doc.dropped = s.raised
  /\ \A i \in DOMAIN doc.warnings : doc.warnings[i].occurrences = s.kept[doc.warnings[i].warning]
  /\ doc.complete => doc.dropped = 0

LEMMA RenderedAccounts ==
  ASSUME NEW s \in Honest, NEW env, Renderable(Document(s, env))
  PROVE  Accounts(s, Rendered(Document(s, env)))
<1> DEFINE doc == Document(s, env)
           n == Len(doc.warnings)
<1>1. Good(s, doc) /\ n \in Nat /\ (doc.complete <=> s.dropped = 0) /\ doc.dropped = s.dropped
  BY WholeGood
<1>2. 0 \in 0..n
  BY <1>1
<1>3. Occurrences(doc) + doc.dropped = s.raised
  BY <1>2, CutCounts
<1>4. ASSUME NEW d, Good(s, d)
      PROVE  \A i \in DOMAIN d.warnings : d.warnings[i].occurrences = s.kept[d.warnings[i].warning]
  <2>1. DOMAIN d.warnings = 1..Len(d.warnings)
    BY <1>4, LenProperties DEF Good
  <2>2. QED
    BY <1>4, <2>1 DEF Good
<1>5. CASE Rendered(doc) = doc
  <2>1. \A i \in DOMAIN doc.warnings : doc.warnings[i].occurrences = s.kept[doc.warnings[i].warning]
    BY <1>1, <1>4
  <2> HIDE DEF doc
  <2>2. QED
    BY <1>1, <1>3, <1>5, <2>1 DEF Accounts, doc
<1>6. ASSUME NEW k \in 0..n, Rendered(doc) = Truncated(doc, k) PROVE Accounts(s, Rendered(doc))
  <2> DEFINE cut == Truncated(doc, k)
  <2>1. Good(s, cut) /\ cut.complete = FALSE
    BY CutsAre DEF Cuts
  <2>2. Occurrences(cut) + cut.dropped = s.raised
    BY CutCounts
  <2>3. \A i \in DOMAIN cut.warnings : cut.warnings[i].occurrences = s.kept[cut.warnings[i].warning]
    BY <1>4, <2>1
  <2> HIDE DEF cut, doc
  <2>4. QED
    BY <1>6, <2>1, <2>2, <2>3 DEF Accounts, cut
<1>7. QED
  BY <1>5, <1>6, RenderedIs

\* No incomplete observation is reported as complete (_WarningCollector).
THEOREM WholeOrIncomplete == Spec => CompleteIsWhole
<1>1. ASSUME OwnerInv, HonestInv, [Next]_vars
      PROVE  [\A p \in Paths : Written(p) =>
                LET doc == files'[p].body
                IN  /\ Occurrences(doc) + doc.dropped = session.raised
                    /\ \A i \in DOMAIN doc.warnings :
                          doc.warnings[i].occurrences = session.kept[doc.warnings[i].warning]
                    /\ doc.complete => /\ doc.dropped = 0
                                       /\ session.missed => session.capture /\ session.toggles >= 2]_vars
  <2>1. ASSUME NEW p \in Paths, Written(p)
        PROVE  /\ Accounts(session, files'[p].body)
               /\ session.missed => session.capture /\ session.toggles >= 2
    <3>1. session \in Honest /\ session.capture
      BY <1>1, <2>1, WrittenIs
    <3>2. PICK env : /\ Renderable(Document(session, env))
                     /\ files'[p].body = Rendered(Document(session, env))
      BY <1>1, <2>1, WrittenIs
    <3>3. Accounts(session, files'[p].body)
      BY <3>1, <3>2, RenderedAccounts
    <3>4. Noticed(session) /\ session.toggles \in Nat
      BY <3>1 DEF Honest, Collectors
    <3>5. session.missed => session.toggles >= 2
      BY <3>1, <3>4 DEF Noticed
    <3>6. QED
      BY <3>1, <3>3, <3>5
  <2>2. QED
    BY <2>1 DEF Accounts
<1>2. QED
  BY <1>1, HonestAlways, PTL DEF CompleteIsWhole, Spec

\* The longest prefix of the retained warnings that the byte bound admits.
Longest(s, doc) ==
  LET retained == {w \in Warnings : s.kept[w] > 0}
      shown    == {item.warning : item \in Range(doc.warnings)}
      longer   == shown \cup {Min(retained \ shown)}
  IN  /\ Within(doc)
      /\ \A v \in shown, w \in retained \ shown : v < w
      /\ retained # shown =>
            Limits.envelope + 1 + Total([w \in Warnings |-> Records[w].rendered], longer) > Limits.bytes

LEMMA RangeShows ==
  ASSUME NEW s, NEW doc, Good(s, doc)
  PROVE  {item.warning : item \in Range(doc.warnings)} = Shown(doc)
<1>1. DOMAIN doc.warnings = 1..Len(doc.warnings)
  BY LenProperties DEF Good
<1>2. QED
  BY <1>1 DEF Range, Shown

LEMMA RenderedLongest ==
  ASSUME NEW s \in Honest, NEW env, Renderable(Document(s, env))
  PROVE  Longest(s, Rendered(Document(s, env)))
<1> DEFINE doc == Document(s, env)
           n == Len(doc.warnings)
<1>1. /\ Good(s, doc) /\ n \in Nat /\ Shown(doc) = KeptBy(s)
      /\ \A i, j \in 1..n : i < j => doc.warnings[i].warning < doc.warnings[j].warning
  BY WholeGood
<1>2. CASE Within(doc) /\ Rendered(doc) = doc
  <2>1. {item.warning : item \in Range(doc.warnings)} = KeptBy(s)
    BY <1>1, RangeShows
  <2> HIDE DEF doc
  <2>2. QED
    BY <1>2, <2>1 DEF Longest, KeptBy, doc
<1>3. ASSUME NEW k \in 0..n, Rendered(doc) = Truncated(doc, k), Within(Truncated(doc, k)),
             \A m \in 0..n : m > k => ~Within(Truncated(doc, m))
      PROVE  Longest(s, Rendered(doc))
  <2> DEFINE cut == Truncated(doc, k)
             shown == From(doc, 1, k)
             hidden == From(doc, k + 1, n)
  <2>1. Good(s, cut) /\ Shown(cut) = shown
    BY CutsAre DEF Cuts
  <2>2. {item.warning : item \in Range(cut.warnings)} = shown
    BY <2>1, RangeShows
  <2>3. shown \subseteq KeptBy(s)
    <3>1. \A i \in 1..k : i \in 1..n
      BY <1>1
    <3>2. \A i \in 1..n : doc.warnings[i].warning \in KeptBy(s)
      BY <1>1 DEF Shown
    <3>3. QED
      BY <3>1, <3>2 DEF From
  <2>4. KeptBy(s) \ shown = hidden
    <3> HIDE DEF doc
    <3>1. \A i \in 1..n : i \in 1..k \/ i \in k + 1..n
      BY <1>1
    <3>2. \A i \in 1..k, j \in k + 1..n : i \in 1..n /\ j \in 1..n /\ i # j
      BY <1>1
    <3>3. \A i, j \in 1..n : doc.warnings[i].warning = doc.warnings[j].warning => i = j
      BY <1>1 DEF Good
    <3>4. \A j \in k + 1..n : j \in 1..n
      BY <1>1
    <3>5. \A i \in 1..k, j \in k + 1..n : doc.warnings[i].warning # doc.warnings[j].warning
      BY <3>2, <3>3
    <3>6. KeptBy(s) = {doc.warnings[i].warning : i \in 1..n}
      BY <1>1 DEF Shown
    <3>7. hidden \cap shown = {}
      BY <3>5 DEF From
    <3>8. hidden \subseteq KeptBy(s)
      BY <3>4, <3>6 DEF From
    <3>9. KeptBy(s) \ shown \subseteq hidden
      BY <3>1, <3>6 DEF From
    <3>10. QED
      BY <3>7, <3>8, <3>9
  <2>5. \A v \in shown, w \in hidden : v < w
    <3>1. \A i \in 1..k, j \in k + 1..n : i \in 1..n /\ j \in 1..n /\ i < j
      BY <1>1
    <3>2. QED
      BY <1>1, <3>1 DEF From
  <2>6. ASSUME hidden # {}
        PROVE  Limits.envelope + 1 + Total(Rendering, shown \cup {Min(hidden)}) > Limits.bytes
    <3> DEFINE next == doc.warnings[k + 1].warning
               longer == From(doc, 1, k + 1)
    <3>1. k + 1 \in 1..n /\ k + 1 \in 0..n /\ k + 1 > k /\ k + 1 \in k + 1..n
      BY <1>1, <2>6 DEF From
    <3>2. next \in hidden /\ \A w \in hidden : next <= w
      <4>1. next \in hidden
        BY <3>1 DEF From
      <4>2. ASSUME NEW j \in k + 1..n PROVE next <= doc.warnings[j].warning
        <5>1. j \in 1..n /\ (j = k + 1 \/ k + 1 < j)
          BY <1>1
        <5>2. \A i \in 1..n : doc.warnings[i].warning \in Nat
          <6>1. Shown(doc) \subseteq Nat
            BY <1>1, WarningsAre DEF KeptBy
          <6>2. QED
            BY <6>1 DEF Shown
        <5>3. CASE j = k + 1
          BY <3>1, <5>2, <5>3
        <5>4. CASE k + 1 < j
          <6>1. next < doc.warnings[j].warning
            BY <1>1, <3>1, <5>1, <5>4
          <6>2. QED
            BY <3>1, <5>1, <5>2, <6>1
        <5>5. QED
          BY <5>1, <5>3, <5>4
      <4>3. QED
        BY <4>1, <4>2 DEF From
    <3>3. hidden \subseteq Nat
      BY <2>4, WarningsAre DEF KeptBy
    <3>4. longer = shown \cup {next}
      <4>1. \A i \in 1..k + 1 : i \in 1..k \/ i = k + 1
        BY <1>1
      <4>2. k + 1 \in 1..k + 1 /\ \A i \in 1..k : i \in 1..k + 1
        BY <3>1
      <4>3. longer \subseteq shown \cup {next}
        BY <4>1 DEF From
      <4>4. shown \cup {next} \subseteq longer
        BY <4>2 DEF From
      <4>5. QED
        BY <4>3, <4>4
    <3>5. ~Within(Truncated(doc, k + 1))
      BY <1>3, <3>1
    <3>6. PICK t : Additive(t, Rendering, Warnings)
      BY RenderingSum
    <3>7. /\ Size(Truncated(doc, k + 1)) = (Limits.envelope + 1) + t[longer]
          /\ longer \in SUBSET Warnings
      BY <3>1, <3>6, CutSize
    <3> HIDE DEF next, longer, shown, hidden, doc
    <3>8. Min(hidden) = next
      <4> DEFINE least == CHOOSE x \in hidden : \A y \in hidden : x =< y
      <4>1. least \in hidden /\ \A y \in hidden : least <= y
        BY <3>2
      <4>2. least = Min(hidden)
        BY DEF Min
      <4> HIDE DEF least
      <4>3. QED
        BY <3>2, <3>3, <4>1, <4>2
    <3>9. Total(Rendering, longer) = t[longer]
      <4>1. IsFiniteSet(Warnings) /\ Rendering \in [Warnings -> Nat]
        BY WarningsAre, RenderingSum
      <4>2. QED
        BY <3>6, <3>7, <4>1, TotalIsSum
    <3>10. t[longer] \in Nat /\ Limits.envelope \in Nat /\ Limits.bytes \in Nat
      BY <3>6, <3>7, RenderingSum DEF Additive
    <3>11. (Limits.envelope + 1) + t[longer] > Limits.bytes
      BY <3>5, <3>7, <3>10 DEF Within
    <3>12. QED
      BY <3>4, <3>8, <3>9, <3>10, <3>11
  <2> HIDE DEF cut, shown, hidden, doc, n
  <2>7. Rendered(doc) = cut /\ Within(cut)
    BY <1>3 DEF cut
  <2>8. KeptBy(s) # shown => hidden # {}
    BY <2>3, <2>4
  <2>9. Longest(s, cut)
    <3>1. {w \in Warnings : s.kept[w] > 0} = KeptBy(s)
      BY DEF KeptBy
    <3>2. [w \in Warnings |-> Records[w].rendered] = Rendering
      BY DEF Rendering
    <3>3. QED
      BY <2>2, <2>4, <2>5, <2>6, <2>7, <2>8, <3>1, <3>2 DEF Longest
  <2>10. QED
    BY <2>7, <2>9
<1>4. QED
  BY <1>2, <1>3, RenderedIs

\* An artifact fits its bound and is cut no shorter than the bound demands
\* (render_evidence_document).
THEOREM LongestKept == Spec => LongestPrefixKept
<1>1. ASSUME OwnerInv, HonestInv, [Next]_vars
      PROVE  [\A p \in Paths : Written(p) =>
                LET doc      == files'[p].body
                    retained == {w \in Warnings : session.kept[w] > 0}
                    shown    == {item.warning : item \in Range(doc.warnings)}
                    longer   == shown \cup {Min(retained \ shown)}
                IN  /\ Within(doc)
                    /\ \A v \in shown, w \in retained \ shown : v < w
                    /\ retained # shown =>
                          Limits.envelope + 1 + Total([w \in Warnings |-> Records[w].rendered], longer)
                              > Limits.bytes]_vars
  <2>1. ASSUME NEW p \in Paths, Written(p) PROVE Longest(session, files'[p].body)
    <3>1. session \in Honest
      BY <1>1, <2>1, WrittenIs
    <3>2. PICK env : /\ Renderable(Document(session, env))
                     /\ files'[p].body = Rendered(Document(session, env))
      BY <1>1, <2>1, WrittenIs
    <3>3. QED
      BY <3>1, <3>2, RenderedLongest
  <2>2. QED
    BY <2>1 DEF Longest
<1>2. QED
  BY <1>1, HonestAlways, PTL DEF LongestPrefixKept, Spec
=============================================================================
