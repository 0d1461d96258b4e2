------------------------- MODULE Analysis_proofs -------------------------
(***************************************************************************)
(* Proofs about the analysis of one file, for every set of targets, every  *)
(* table of imports, every set of rules and files of any size: decisions   *)
(* of the guard evaluator agree with the interpreter; no code that some    *)
(* interpreter runs is pruned; a comment suppresses the findings that it   *)
(* names, on the statement it was written on, and no others; a match of    *)
(* high confidence is proof; and whatever fails in a run is reported.      *)
(***************************************************************************)
EXTENDS Reachability, Matching, FiniteInduction, SequenceTheorems, TLAPS

\* A decided truth value agrees with what the interpreter computes.
Agrees(truth, holds) == (truth = "true" => holds) /\ (truth = "false" => ~holds)

-----------------------------------------------------------------------------
(* Lexicographic order on the sequences that are compared.                  *)

LEMMA InfoIsSeq ==
  ASSUME NEW i \in Interpreter(Nat, Nat)
  PROVE  /\ VersionInfo(i) \in Seq(Nat) /\ Len(VersionInfo(i)) = 4
         /\ VersionInfo(i)[1] = 3 /\ VersionInfo(i)[2] = i.minor
         /\ i.minor \in Nat
  BY DEF Interpreter, VersionInfo

LEMMA LongBefore ==
  ASSUME NEW s \in Seq(Nat), NEW l \in Seq(Nat), Len(s) > 2, Len(l) = 2
  PROVE  /\ Before(s, l) <=> s[1] < l[1] \/ (s[1] = l[1] /\ s[2] < l[2])
         /\ Before(l, s) <=> l[1] < s[1] \/ (l[1] = s[1] /\ l[2] <= s[2])
         /\ ~Same(s, l) /\ ~Same(l, s)
<1>1. /\ s[1] \in Nat /\ s[2] \in Nat /\ l[1] \in Nat /\ l[2] \in Nat
      /\ 1..Len(l) = {1, 2} /\ Len(s) \in Nat
  <2>1. Len(s) \in Nat /\ Len(l) = 2 /\ 1..Len(l) = {1, 2}
    OBVIOUS
  <2>2. 1 \in 1..Len(s) /\ 2 \in 1..Len(s)
    BY <2>1
  <2>3. QED
    BY <2>1, <2>2, ElementOfSeq
<1>2. ~Same(s, l) /\ ~Same(l, s)
  <2>1. Len(s) # Len(l)
    <3>1. \A m \in Nat : m > 2 => m # 2
      OBVIOUS
    <3>2. QED
      BY <1>1, <3>1
  <2>2. ~Same(s, l)
    BY ONLY <2>1 DEF Same
  <2>3. ~Same(l, s)
    BY ONLY <2>1 DEF Same
  <2>4. QED
    BY <2>2, <2>3
<1>3. \A n \in 1..Len(s) : n <= Len(l) <=> n \in {1, 2}
  BY <1>1
<1>4. Before(s, l) <=> s[1] < l[1] \/ (s[1] = l[1] /\ s[2] < l[2])
  <2>1. 1 \in 1..Len(s) /\ 2 \in 1..Len(s)
    BY <1>1
  <2>2. Before(s, l) => s[1] < l[1] \/ (s[1] = l[1] /\ s[2] < l[2])
    <3>1. ASSUME NEW n \in 1..Len(s), n <= Len(l), SamePrefix(s, l, n - 1), s[n] < l[n]
          PROVE  s[1] < l[1] \/ (s[1] = l[1] /\ s[2] < l[2])
      <4>1. CASE n = 1
        BY <3>1, <4>1
      <4>2. CASE n = 2
        <5>1. s[1] = l[1]
          BY <3>1, <4>2 DEF SamePrefix
        <5>2. QED
          BY <3>1, <4>2, <5>1
      <4>3. QED
        BY <1>3, <3>1, <4>1, <4>2
    <3>2. ~(Len(s) < Len(l))
      BY <1>1
    <3>3. QED
      BY <3>1, <3>2 DEF Before
  <2>3. s[1] < l[1] => Before(s, l)
    BY <2>1, <1>1 DEF Before, SamePrefix
  <2>4. s[1] = l[1] /\ s[2] < l[2] => Before(s, l)
    BY <2>1, <1>1 DEF Before, SamePrefix
  <2>5. QED
    BY <2>2, <2>3, <2>4
<1>5. Before(l, s) <=> l[1] < s[1] \/ (l[1] = s[1] /\ l[2] <= s[2])
  <2>1. Before(l, s) => l[1] < s[1] \/ (l[1] = s[1] /\ l[2] <= s[2])
    BY <1>1 DEF Before, SamePrefix
  <2>2. l[1] < s[1] => Before(l, s)
    BY <1>1 DEF Before, SamePrefix
  <2>3. l[1] = s[1] /\ l[2] < s[2] => Before(l, s)
    BY <1>1 DEF Before, SamePrefix
  <2>4. l[1] = s[1] /\ l[2] = s[2] => Before(l, s)
    BY <1>1 DEF Before, SamePrefix
  <2>5. QED
    BY <1>1, <2>1, <2>2, <2>3, <2>4
<1>6. QED
  BY <1>2, <1>4, <1>5

\* The value the evaluator compares in place of an unsliced version_info stands
\* in the same order to every two-field literal.
LEMMA OneFieldStandsForTheRest ==
  ASSUME NEW i \in Interpreter(Nat, Nat), NEW l \in Seq(Nat), Len(l) = 2, NEW op \in Operators
  PROVE  /\ Compare(op, <<3, i.minor, 0>>, l) <=> Compare(op, VersionInfo(i), l)
         /\ Compare(op, l, <<3, i.minor, 0>>) <=> Compare(op, l, VersionInfo(i))
<1> DEFINE model == <<3, i.minor, 0>>
           info == VersionInfo(i)
<1>1. /\ model \in Seq(Nat) /\ Len(model) > 2 /\ model[1] = 3 /\ model[2] = i.minor
      /\ info \in Seq(Nat) /\ Len(info) > 2 /\ info[1] = 3 /\ info[2] = i.minor
  BY DEF Interpreter, VersionInfo
<1>2. /\ Before(model, l) <=> Before(info, l)
      /\ Before(l, model) <=> Before(l, info)
      /\ ~Same(model, l) /\ ~Same(l, model) /\ ~Same(info, l) /\ ~Same(l, info)
  <2> HIDE DEF model, info
  <2> QED
    BY <1>1, LongBefore
<1>3. /\ Compare(op, model, l) <=> Compare(op, info, l)
      /\ Compare(op, l, model) <=> Compare(op, l, info)
  <2> HIDE DEF model, info
  <2>1. op \in {"<", "<=", ">", ">=", "==", "!="}
    BY DEF Operators
  <2>2. QED
    BY <1>2, <2>1 DEF Compare
<1>4. QED
  BY <1>3

\* A comparison the evaluator decides comes out that way on every interpreter of
\* the target minor, whatever its micro version (_evaluate_comparison,
\* _evaluate_major_index, _comparison_truth).
THEOREM ComparisonSound ==
  ASSUME NEW e \in Comparisons, NEW i \in Interpreter(Nat, Nat)
  PROVE  Agrees(Comparison(e, i.minor), Ordered(e, Shown(e.shape, i)))
<1>1. CASE Patch(e) \/ Len(e.literal) # (IF e.shape = "major-index" THEN 1 ELSE 2)
  BY <1>1 DEF Agrees, Comparison
<1>2. CASE ~(Patch(e) \/ Len(e.literal) # (IF e.shape = "major-index" THEN 1 ELSE 2))
  <2>1. Comparison(e, i.minor) = Truth(Ordered(e, Modelled(e.shape, i.minor)))
    BY <1>2 DEF Comparison
  <2>2. Ordered(e, Modelled(e.shape, i.minor)) <=> Ordered(e, Shown(e.shape, i))
    <3>1. CASE e.shape = "unsliced"
      <4>1. Len(e.literal) = 2 /\ e.literal \in Seq(Nat) /\ e.op \in Operators
        BY <1>2, <3>1 DEF Comparisons
      <4>2. QED
        BY <3>1, <4>1, OneFieldStandsForTheRest DEF Ordered, Modelled, Shown
    <3>2. CASE e.shape = "minor-slice"
      <4>1. SubSeq(VersionInfo(i), 1, 2) = <<3, i.minor>>
        BY InfoIsSeq, TwoFields
      <4>2. QED
        BY <3>2, <4>1 DEF Ordered, Modelled, Shown
    <3>3. CASE e.shape = "major-index"
      <4>1. SubSeq(VersionInfo(i), 1, 1) = <<3>>
        BY InfoIsSeq, OneField
      <4>2. QED
        BY <3>3, <4>1 DEF Ordered, Modelled, Shown
    <3>4. CASE e.shape = "patch-slice"
      BY <1>2, <3>4 DEF Patch, Comparisons
    <3>5. QED
      BY <3>1, <3>2, <3>3, <3>4 DEF Comparisons
  <2>3. QED
    BY <2>1, <2>2 DEF Agrees, Truth
<1>3. QED
  BY <1>1, <1>2

-----------------------------------------------------------------------------
(* Patch comparisons in import guards.                                      *)

\* When the major and minor version differ from those of a three-field literal,
\* the comparison with its first two fields gives the same answer.
LEMMA PrefixDecides ==
  ASSUME NEW i \in Interpreter(Nat, Nat), NEW l \in Seq(Nat), Len(l) = 3,
         SubSeq(l, 1, 2) # <<3, i.minor>>, NEW op \in Operators
  PROVE  /\ Compare(op, VersionInfo(i), l) <=> Compare(op, VersionInfo(i), SubSeq(l, 1, 2))
         /\ Compare(op, l, VersionInfo(i)) <=> Compare(op, SubSeq(l, 1, 2), VersionInfo(i))
<1> DEFINE info == VersionInfo(i)
           p == SubSeq(l, 1, 2)
<1>1. /\ info \in Seq(Nat) /\ Len(info) = 4 /\ info[1] = 3 /\ info[2] = i.minor
      /\ i.minor \in Nat /\ \A k \in 1..4 : info[k] \in Nat
  BY DEF Interpreter, VersionInfo
<1>2. /\ p = <<l[1], l[2]>> /\ p \in Seq(Nat) /\ Len(p) = 2 /\ p[1] = l[1] /\ p[2] = l[2]
      /\ l[1] \in Nat /\ l[2] \in Nat /\ l[3] \in Nat
  <2>1. 3 \in 1..Len(l)
    OBVIOUS
  <2>2. p = <<l[1], l[2]>> /\ l[1] \in Nat /\ l[2] \in Nat /\ l[3] \in Nat
    BY <2>1, ElementOfSeq, TwoFields
  <2>3. ASSUME NEW a \in Nat, NEW b \in Nat
        PROVE  <<a, b>> \in Seq(Nat) /\ Len(<<a, b>>) = 2 /\ <<a, b>>[1] = a /\ <<a, b>>[2] = b
    OBVIOUS
  <2> HIDE DEF p
  <2>4. QED
    BY <2>2, <2>3
<1>3. l[1] # 3 \/ l[2] # i.minor
  BY <1>2
<1>4. /\ Before(info, l) <=> Before(info, p)
      /\ Before(l, info) <=> Before(p, info)
      /\ ~Same(info, l) /\ ~Same(l, info) /\ ~Same(info, p) /\ ~Same(p, info)
  <2> HIDE DEF info, p
  <2>1. 1..Len(info) = {1, 2, 3, 4} /\ 1..Len(l) = {1, 2, 3} /\ Len(l) = 3
    BY <1>1
  <2>2. Before(info, l) <=> info[1] < l[1] \/ (info[1] = l[1] /\ info[2] < l[2])
    <3>1. Before(info, l) => info[1] < l[1] \/ (info[1] = l[1] /\ info[2] < l[2])
      BY <1>1, <1>2, <1>3, <2>1 DEF Before, SamePrefix
    <3>2. info[1] < l[1] => Before(info, l)
      BY <1>1, <1>2, <2>1 DEF Before, SamePrefix
    <3>3. info[1] = l[1] /\ info[2] < l[2] => Before(info, l)
      BY <1>1, <1>2, <2>1 DEF Before, SamePrefix
    <3>4. QED
      BY <3>1, <3>2, <3>3
  <2>3. Before(l, info) <=> l[1] < info[1] \/ (l[1] = info[1] /\ l[2] < info[2])
    <3>1. Before(l, info) => l[1] < info[1] \/ (l[1] = info[1] /\ l[2] < info[2])
      BY <1>1, <1>2, <1>3, <2>1 DEF Before, SamePrefix
    <3>2. l[1] < info[1] => Before(l, info)
      BY <1>1, <1>2, <2>1 DEF Before, SamePrefix
    <3>3. l[1] = info[1] /\ l[2] < info[2] => Before(l, info)
      BY <1>1, <1>2, <2>1 DEF Before, SamePrefix
    <3>4. QED
      BY <3>1, <3>2, <3>3
  <2>4. ~Same(info, l) /\ ~Same(l, info)
    BY <1>1, <2>1 DEF Same
  <2>5. /\ Before(info, p) <=> info[1] < p[1] \/ (info[1] = p[1] /\ info[2] < p[2])
        /\ Before(p, info) <=> p[1] < info[1] \/ (p[1] = info[1] /\ p[2] <= info[2])
        /\ ~Same(info, p) /\ ~Same(p, info)
    <3>1. info \in Seq(Nat) /\ p \in Seq(Nat) /\ Len(info) > 2 /\ Len(p) = 2
      BY <1>1, <1>2
    <3>2. QED
      BY <3>1, LongBefore
  <2>6. QED
    BY <1>1, <1>2, <1>3, <2>2, <2>3, <2>4, <2>5
<1>5. QED
  BY <1>4 DEF Compare, Operators

\* The same holds of the patch comparisons evaluate_import_guard goes on to
\* decide (_patch_comparison).
THEOREM PatchComparisonSound ==
  ASSUME NEW e \in Comparisons, NEW i \in Interpreter(Nat, Nat)
  PROVE  Agrees(PatchComparison(e, i.minor), Ordered(e, Shown(e.shape, i)))
<1>1. CASE \/ e.shape # "unsliced" \/ Len(e.literal) # 3
           \/ SubSeq(e.literal, 1, 2) = <<3, i.minor>>
  BY <1>1 DEF Agrees, PatchComparison
<1>2. CASE ~(\/ e.shape # "unsliced" \/ Len(e.literal) # 3
             \/ SubSeq(e.literal, 1, 2) = <<3, i.minor>>)
  <2> DEFINE p == SubSeq(e.literal, 1, 2)
             short == [e EXCEPT !.literal = p]
  <2>1. e.shape = "unsliced" /\ e.op \in Operators /\ e.literal \in Seq(Nat) /\ Len(e.literal) = 3
    BY <1>2 DEF Comparisons
  <2>2. p \in Seq(Nat)
    BY <2>1
  <2>3. /\ short \in Comparisons /\ short.shape = "unsliced" /\ short.op = e.op
        /\ short.left = e.left /\ short.literal = p
    BY <2>1, <2>2 DEF Comparisons
  <2>4. PatchComparison(e, i.minor) = Comparison(short, i.minor)
    BY <1>2 DEF PatchComparison
  <2>5. Agrees(Comparison(short, i.minor), Ordered(short, Shown(short.shape, i)))
    <3> HIDE DEF short
    <3> QED
      BY <2>3, ComparisonSound
  <2>6. Ordered(short, VersionInfo(i)) <=> Ordered(e, VersionInfo(i))
    <3> HIDE DEF short
    <3> QED
      BY <1>2, <2>1, <2>3, PrefixDecides DEF Ordered
  <2>7. Shown(short.shape, i) = VersionInfo(i) /\ Shown(e.shape, i) = VersionInfo(i)
    BY <2>1, <2>3 DEF Shown
  <2>8. QED
    BY <2>4, <2>5, <2>6, <2>7 DEF Agrees
<1>3. QED
  BY <1>1, <1>2

-----------------------------------------------------------------------------
(* Composition.                                                             *)

TruthValues == {"true", "false", "unknown"}

\* Agreement of the operands is agreement of the whole (truth_not, truth_and,
\* truth_or).
THEOREM ConnectivesSound ==
  ASSUME NEW x \in TruthValues, NEW y \in TruthValues, NEW a \in BOOLEAN, NEW b \in BOOLEAN,
         Agrees(x, a), Agrees(y, b)
  PROVE  /\ Agrees(TruthNot(x), ~a)
         /\ Agrees(TruthAnd(x, y), a /\ b)
         /\ Agrees(TruthOr(x, y), a \/ b)
  BY DEF Agrees, TruthNot, TruthAnd, TruthOr, Truth, TruthValues

-----------------------------------------------------------------------------
(* Whole guards.  Each of the three evaluations is a table of the values of *)
(* the subexpressions; a guard that is well formed has exactly one.         *)

\* The value of a subexpression, from those of its operands.
NodeValue(f, guard, leaf, neg, conj, disj, n) ==
  IF guard[n].kind = "not" THEN neg[f[guard[n].arg]]
  ELSE IF guard[n].kind = "and" THEN conj[<<f[guard[n].arg], f[guard[n].arg2]>>]
  ELSE IF guard[n].kind = "or" THEN disj[<<f[guard[n].arg], f[guard[n].arg2]>>]
  ELSE leaf[n]

Tabulates(f, k, guard, leaf, neg, conj, disj) ==
  f = [n \in 1..k |-> NodeValue(f, guard, leaf, neg, conj, disj, n)]

\* What a subexpression of a well-formed guard may be.
LEMMA Subexpression ==
  ASSUME NEW guard, WellFormed(guard), NEW n \in 1..Len(guard)
  PROVE  /\ n \in Nat /\ 1..n \subseteq 1..Len(guard) /\ Len(guard) \in Nat
         /\ Len(guard) \in 1..Len(guard)
         /\ guard[n].kind \in {"compare", "typing", "other", "not", "and", "or"}
         /\ guard[n].kind = "compare" => guard[n] \in Comparisons
         /\ guard[n].kind \in {"not", "and", "or"} => guard[n].arg \in 1..n - 1
         /\ guard[n].kind \in {"and", "or"} => guard[n].arg2 \in 1..n - 1
<1>1. Len(guard) \in Nat \ {0} /\ guard[n] \in Expressions(n)
  BY DEF WellFormed
<1>2. guard[n].kind = "compare" => guard[n] \in Comparisons
  BY <1>1 DEF Expressions, Comparisons
<1>3. guard[n].kind \in {"compare", "typing", "other", "not", "and", "or"}
  BY <1>1 DEF Expressions, Comparisons
<1>4. guard[n].kind \in {"not", "and", "or"} => guard[n].arg \in 1..n - 1
  BY <1>1 DEF Expressions, Comparisons
<1>5. guard[n].kind \in {"and", "or"} => guard[n].arg2 \in 1..n - 1
  BY <1>1 DEF Expressions, Comparisons
<1>6. QED
  BY <1>1, <1>2, <1>3, <1>4, <1>5

\* Operands come before the operators that use them.
OperandsFirst(guard) ==
  /\ Len(guard) \in Nat \ {0}
  /\ \A n \in 1..Len(guard) :
       /\ guard[n].kind \in {"not", "and", "or"} => guard[n].arg \in 1..n - 1
       /\ guard[n].kind \in {"and", "or"} => guard[n].arg2 \in 1..n - 1

\* Of the kinds the evaluators know.
Parsed(guard) ==
  /\ OperandsFirst(guard)
  /\ \A n \in 1..Len(guard) :
       guard[n].kind \in {"compare", "typing", "other", "not", "and", "or"}

LEMMA WellFormedParsed ==
  ASSUME NEW guard, WellFormed(guard) PROVE OperandsFirst(guard) /\ Parsed(guard)
<1>1. Len(guard) \in Nat \ {0}
  BY DEF WellFormed
<1>2. QED
  BY <1>1, Subexpression DEF OperandsFirst, Parsed

LEMMA TableExists ==
  ASSUME NEW guard, OperandsFirst(guard), NEW V, NEW leaf \in [1..Len(guard) -> V],
         NEW neg \in [V -> V], NEW conj \in [V \X V -> V], NEW disj \in [V \X V -> V]
  PROVE  \E f \in [1..Len(guard) -> V] : Tabulates(f, Len(guard), guard, leaf, neg, conj, disj)
<1> DEFINE C == {k \in 0..Len(guard) :
                   \E f \in [1..k -> V] : Tabulates(f, k, guard, leaf, neg, conj, disj)}
<1>0. Len(guard) \in Nat
  BY DEF OperandsFirst
<1>1. 0 \in C
  <2> DEFINE f == [n \in 1..0 |-> CHOOSE x \in V : TRUE]
  <2>1. f \in [1..0 -> V]
    OBVIOUS
  <2>2. Tabulates(f, 0, guard, leaf, neg, conj, disj)
    BY DEF Tabulates
  <2> HIDE DEF f
  <2>3. \E g \in [1..0 -> V] : Tabulates(g, 0, guard, leaf, neg, conj, disj)
    BY <2>1, <2>2, Zenon
  <2>4. 0 \in 0..Len(guard)
    BY <1>0
  <2>5. QED
    BY <2>3, <2>4, Zenon
<1>2. ASSUME NEW k \in 0..Len(guard), k # Len(guard), k \in C PROVE k + 1 \in C
  <2>1. PICK f \in [1..k -> V] : Tabulates(f, k, guard, leaf, neg, conj, disj)
    BY <1>2
  <2> DEFINE last == NodeValue(f, guard, leaf, neg, conj, disj, k + 1)
             h == [n \in 1..k + 1 |-> IF n = k + 1 THEN last ELSE f[n]]
  <2>2. k + 1 \in 1..Len(guard) /\ k \in Nat
    BY <1>0, <1>2
  <2>3. ASSUME NEW n \in 1..k + 1
        PROVE  /\ guard[n].kind \in {"not", "and", "or"} => guard[n].arg \in 1..k
               /\ guard[n].kind \in {"and", "or"} => guard[n].arg2 \in 1..k
               /\ n \in 1..Len(guard)
    <3>1. n \in 1..Len(guard) /\ 1..n - 1 \subseteq 1..k
      BY <1>0, <2>2
    <3>2. QED
      BY <3>1 DEF OperandsFirst
  <2>4. last \in V
    BY <2>2, <2>3 DEF NodeValue
  <2> HIDE DEF last
  <2>5. h \in [1..k + 1 -> V] /\ \A n \in 1..k : h[n] = f[n]
    BY <2>2, <2>4
  <2>6. ASSUME NEW n \in 1..k + 1
        PROVE  NodeValue(h, guard, leaf, neg, conj, disj, n)
                 = NodeValue(f, guard, leaf, neg, conj, disj, n)
    <3> HIDE DEF h
    <3> QED
      BY <2>3, <2>5 DEF NodeValue
  <2>7. \A n \in 1..k : f[n] = NodeValue(f, guard, leaf, neg, conj, disj, n)
    BY <2>1 DEF Tabulates
  <2>8. \A n \in 1..k + 1 : h[n] = NodeValue(f, guard, leaf, neg, conj, disj, n)
    BY <2>2, <2>7 DEF last
  <2>9. h = [n \in 1..k + 1 |-> NodeValue(h, guard, leaf, neg, conj, disj, n)]
    <3> HIDE DEF h
    <3> QED
      BY <2>5, <2>6, <2>8
  <2>10. QED
    <3> HIDE DEF h
    <3>1. Tabulates(h, k + 1, guard, leaf, neg, conj, disj)
      BY ONLY <2>9 DEF Tabulates
    <3>2. QED
      BY <1>0, <2>2, <2>5, <3>1
<1>3. Len(guard) \in C
  <2> HIDE DEF C
  <2> QED
    BY <1>0, <1>1, <1>2, CountsUp
<1>4. QED
  BY <1>3

\* The recursive definition inside Holds, Evaluate and EvaluateImport.
HeldBy(f, guard, i) == f = [n \in 1..Len(guard) |-> ValueOf(guard[n], f, i)]
EvaluatedBy(f, guard, v) == f = [n \in 1..Len(guard) |-> TruthOf(guard[n], f, v)]
ImportEvaluatedBy(f, guard, v) == f = [n \in 1..Len(guard) |-> ImportTruthOf(guard[n], f, v)]

LEMMA HoldsDefined ==
  ASSUME NEW guard, WellFormed(guard), NEW i, i.typing \in BOOLEAN
  PROVE  \E f : HeldBy(f, guard, i)
<1> DEFINE leaf == [n \in 1..Len(guard) |->
                      IF guard[n].kind = "compare"
                      THEN Ordered(guard[n], Shown(guard[n].shape, i))
                      ELSE IF guard[n].kind = "typing" THEN i.typing
                      ELSE i \in guard[n].holds]
           neg == [x \in BOOLEAN |-> ~x]
           conj == [a \in BOOLEAN \X BOOLEAN |-> a[1] /\ a[2]]
           disj == [a \in BOOLEAN \X BOOLEAN |-> a[1] \/ a[2]]
<1>1. leaf \in [1..Len(guard) -> BOOLEAN]
  <2>1. ASSUME NEW n \in 1..Len(guard) PROVE leaf[n] \in BOOLEAN
    <3>1. CASE guard[n].kind = "compare"
      <4>1. guard[n] \in Comparisons
        BY <3>1, Subexpression
      <4>2. Ordered(guard[n], Shown(guard[n].shape, i)) \in BOOLEAN
        BY <4>1 DEF Ordered, Compare, Comparisons, Operators, Before, Same
      <4>3. QED
        BY <3>1, <4>2
    <3>2. CASE guard[n].kind = "typing"
      BY <3>2
    <3>3. CASE guard[n].kind # "compare" /\ guard[n].kind # "typing"
      <4>1. leaf[n] = (i \in guard[n].holds)
        BY <3>3, Zenon
      <4> HIDE DEF leaf
      <4>2. QED
        BY <4>1
    <3>4. QED
      BY <3>1, <3>2, <3>3
  <2>2. QED
    BY <2>1
<1>2. /\ neg \in [BOOLEAN -> BOOLEAN] /\ conj \in [BOOLEAN \X BOOLEAN -> BOOLEAN]
      /\ disj \in [BOOLEAN \X BOOLEAN -> BOOLEAN]
  OBVIOUS
<1>3. /\ \A x \in BOOLEAN : neg[x] = ~x
      /\ \A x, y \in BOOLEAN : conj[<<x, y>>] = (x /\ y)
      /\ \A x, y \in BOOLEAN : disj[<<x, y>>] = (x \/ y)
  OBVIOUS
<1>4. \A n \in 1..Len(guard) :
        /\ guard[n].kind = "compare" => leaf[n] = Ordered(guard[n], Shown(guard[n].shape, i))
        /\ guard[n].kind = "typing" => leaf[n] = i.typing
        /\ guard[n].kind = "other" => leaf[n] = (i \in guard[n].holds)
  OBVIOUS
<1> HIDE DEF leaf, neg, conj, disj
<1>5. PICK f \in [1..Len(guard) -> BOOLEAN] :
        Tabulates(f, Len(guard), guard, leaf, neg, conj, disj)
  BY <1>1, <1>2, TableExists, WellFormedParsed
<1>6. ASSUME NEW n \in 1..Len(guard) PROVE f[n] = ValueOf(guard[n], f, i)
  <2>1. f[n] = NodeValue(f, guard, leaf, neg, conj, disj, n)
    BY <1>5 DEF Tabulates
  <2>2. /\ guard[n].kind \in {"compare", "typing", "other", "not", "and", "or"}
        /\ guard[n].kind \in {"not", "and", "or"} => f[guard[n].arg] \in BOOLEAN
        /\ guard[n].kind \in {"and", "or"} => f[guard[n].arg2] \in BOOLEAN
    <3>1. n \in Nat /\ 1..n - 1 \subseteq 1..Len(guard)
      BY Subexpression
    <3>2. QED
      BY <1>5, <3>1, Subexpression
  <2>3. CASE guard[n].kind = "compare"
    BY <1>4, <2>1, <2>3 DEF NodeValue, ValueOf
  <2>4. CASE guard[n].kind = "typing"
    BY <1>4, <2>1, <2>4 DEF NodeValue, ValueOf
  <2>5. CASE guard[n].kind = "other"
    BY <1>4, <2>1, <2>5 DEF NodeValue, ValueOf
  <2>6. CASE guard[n].kind = "not"
    BY <1>3, <2>1, <2>2, <2>6 DEF NodeValue, ValueOf
  <2>7. CASE guard[n].kind = "and"
    BY <1>3, <2>1, <2>2, <2>7 DEF NodeValue, ValueOf
  <2>8. CASE guard[n].kind = "or"
    BY <1>3, <2>1, <2>2, <2>8 DEF NodeValue, ValueOf
  <2>9. QED
    BY <2>2, <2>3, <2>4, <2>5, <2>6, <2>7, <2>8
<1>7. f = [n \in 1..Len(guard) |-> ValueOf(guard[n], f, i)]
  BY <1>5, <1>6
<1>8. HeldBy(f, guard, i)
  BY <1>7, Zenon DEF HeldBy
<1>9. QED
  BY <1>8

LEMMA EvaluateDefined ==
  ASSUME NEW guard, Parsed(guard), NEW v
  PROVE  \E f : EvaluatedBy(f, guard, v)
<1> DEFINE leaf == [n \in 1..Len(guard) |-> 
                      IF guard[n].kind = "compare" THEN Comparison(guard[n], v) ELSE "unknown"]
           neg == [x \in TruthValues |-> TruthNot(x)]
           conj == [a \in TruthValues \X TruthValues |-> TruthAnd(a[1], a[2])]
           disj == [a \in TruthValues \X TruthValues |-> TruthOr(a[1], a[2])]
<1>1. leaf \in [1..Len(guard) -> TruthValues]
  BY DEF Comparison, PatchComparison, Truth, TruthValues
<1>2. /\ neg \in [TruthValues -> TruthValues]
      /\ conj \in [TruthValues \X TruthValues -> TruthValues]
      /\ disj \in [TruthValues \X TruthValues -> TruthValues]
  BY DEF TruthNot, TruthAnd, TruthOr, Truth, TruthValues
<1>3. /\ \A x \in TruthValues : neg[x] = TruthNot(x)
      /\ \A x, y \in TruthValues : conj[<<x, y>>] = TruthAnd(x, y)
      /\ \A x, y \in TruthValues : disj[<<x, y>>] = TruthOr(x, y)
  OBVIOUS
<1>4. \A n \in 1..Len(guard) :
        /\ guard[n].kind = "compare" => leaf[n] = Comparison(guard[n], v)
        /\ guard[n].kind \in {"typing", "other"} => leaf[n] = "unknown"
  OBVIOUS
<1> HIDE DEF leaf, neg, conj, disj
<1>5. PICK f \in [1..Len(guard) -> TruthValues] :
        Tabulates(f, Len(guard), guard, leaf, neg, conj, disj)
  BY <1>1, <1>2, TableExists DEF Parsed
<1>6. ASSUME NEW n \in 1..Len(guard) PROVE f[n] = TruthOf(guard[n], f, v)
  <2>1. f[n] = NodeValue(f, guard, leaf, neg, conj, disj, n)
    BY <1>5 DEF Tabulates
  <2>2. /\ guard[n].kind \in {"compare", "typing", "other", "not", "and", "or"}
        /\ guard[n].kind \in {"not", "and", "or"} => f[guard[n].arg] \in TruthValues
        /\ guard[n].kind \in {"and", "or"} => f[guard[n].arg2] \in TruthValues
    <3>1. n \in Nat /\ 1..n - 1 \subseteq 1..Len(guard)
      BY DEF Parsed, OperandsFirst
    <3>2. QED
      BY <1>5, <3>1 DEF Parsed, OperandsFirst
  <2>3. CASE guard[n].kind = "compare"
    BY <1>4, <2>1, <2>3 DEF NodeValue, TruthOf
  <2>4. CASE guard[n].kind \in {"typing", "other"}
    BY <1>4, <2>1, <2>4 DEF NodeValue, TruthOf
  <2>5. CASE guard[n].kind = "not"
    BY <1>3, <2>1, <2>2, <2>5 DEF NodeValue, TruthOf
  <2>6. CASE guard[n].kind = "and"
    BY <1>3, <2>1, <2>2, <2>6 DEF NodeValue, TruthOf
  <2>7. CASE guard[n].kind = "or"
    BY <1>3, <2>1, <2>2, <2>7 DEF NodeValue, TruthOf
  <2>8. QED
    BY <2>2, <2>3, <2>4, <2>5, <2>6, <2>7
<1>7. f = [n \in 1..Len(guard) |-> TruthOf(guard[n], f, v)]
  BY <1>5, <1>6
<1>8. EvaluatedBy(f, guard, v)
  BY <1>7, Zenon DEF EvaluatedBy
<1>9. QED
  BY <1>8

LEMMA ImportEvaluateDefined ==
  ASSUME NEW guard, Parsed(guard), NEW v
  PROVE  \E f : ImportEvaluatedBy(f, guard, v)
<1> DEFINE leaf == [n \in 1..Len(guard) |-> 
                      IF guard[n].kind = "compare"
                      THEN IF Patch(guard[n]) THEN PatchComparison(guard[n], v)
                           ELSE Comparison(guard[n], v)
                      ELSE IF guard[n].kind = "typing" THEN "false" ELSE "unknown"]
           neg == [x \in TruthValues |-> TruthNot(x)]
           conj == [a \in TruthValues \X TruthValues |-> TruthAnd(a[1], a[2])]
           disj == [a \in TruthValues \X TruthValues |-> TruthOr(a[1], a[2])]
<1>1. leaf \in [1..Len(guard) -> TruthValues]
  BY DEF Comparison, PatchComparison, Truth, TruthValues
<1>2. /\ neg \in [TruthValues -> TruthValues]
      /\ conj \in [TruthValues \X TruthValues -> TruthValues]
      /\ disj \in [TruthValues \X TruthValues -> TruthValues]
  BY DEF TruthNot, TruthAnd, TruthOr, Truth, TruthValues
<1>3. /\ \A x \in TruthValues : neg[x] = TruthNot(x)
      /\ \A x, y \in TruthValues : conj[<<x, y>>] = TruthAnd(x, y)
      /\ \A x, y \in TruthValues : disj[<<x, y>>] = TruthOr(x, y)
  OBVIOUS
<1>4. \A n \in 1..Len(guard) :
        /\ guard[n].kind = "compare" =>
             leaf[n] = IF Patch(guard[n]) THEN PatchComparison(guard[n], v)
                       ELSE Comparison(guard[n], v)
        /\ guard[n].kind = "typing" => leaf[n] = "false"
        /\ guard[n].kind = "other" => leaf[n] = "unknown"
  OBVIOUS
<1> HIDE DEF leaf, neg, conj, disj
<1>5. PICK f \in [1..Len(guard) -> TruthValues] :
        Tabulates(f, Len(guard), guard, leaf, neg, conj, disj)
  BY <1>1, <1>2, TableExists DEF Parsed
<1>6. ASSUME NEW n \in 1..Len(guard) PROVE f[n] = ImportTruthOf(guard[n], f, v)
  <2>1. f[n] = NodeValue(f, guard, leaf, neg, conj, disj, n)
    BY <1>5 DEF Tabulates
  <2>2. /\ guard[n].kind \in {"compare", "typing", "other", "not", "and", "or"}
        /\ guard[n].kind \in {"not", "and", "or"} => f[guard[n].arg] \in TruthValues
        /\ guard[n].kind \in {"and", "or"} => f[guard[n].arg2] \in TruthValues
    <3>1. n \in Nat /\ 1..n - 1 \subseteq 1..Len(guard)
      BY DEF Parsed, OperandsFirst
    <3>2. QED
      BY <1>5, <3>1 DEF Parsed, OperandsFirst
  <2>3. CASE guard[n].kind = "compare"
    BY <1>4, <2>1, <2>3 DEF NodeValue, ImportTruthOf
  <2>4. CASE guard[n].kind \in {"typing", "other"}
    BY <1>4, <2>1, <2>4 DEF NodeValue, ImportTruthOf
  <2>5. CASE guard[n].kind = "not"
    BY <1>3, <2>1, <2>2, <2>5 DEF NodeValue, ImportTruthOf
  <2>6. CASE guard[n].kind = "and"
    BY <1>3, <2>1, <2>2, <2>6 DEF NodeValue, ImportTruthOf
  <2>7. CASE guard[n].kind = "or"
    BY <1>3, <2>1, <2>2, <2>7 DEF NodeValue, ImportTruthOf
  <2>8. QED
    BY <2>2, <2>3, <2>4, <2>5, <2>6, <2>7
<1>7. f = [n \in 1..Len(guard) |-> ImportTruthOf(guard[n], f, v)]
  BY <1>5, <1>6
<1>8. ImportEvaluatedBy(f, guard, v)
  BY <1>7, Zenon DEF ImportEvaluatedBy
<1>9. QED
  BY <1>8

\* What holds of a subexpression whenever it holds of its operands holds of all.
LEMMA FromOperands ==
  ASSUME NEW guard, OperandsFirst(guard), NEW C,
         \A n \in 1..Len(guard) :
           /\ guard[n].kind \in {"not", "and", "or"} => guard[n].arg \in C
           /\ guard[n].kind \in {"and", "or"} => guard[n].arg2 \in C
           => n \in C
  PROVE  \A n \in 1..Len(guard) : n \in C
<1> SUFFICES ASSUME NEW k \in 1..Len(guard), k \notin C PROVE FALSE
  OBVIOUS
<1>0. Len(guard) \in Nat
  BY DEF OperandsFirst
<1> DEFINE Bad == {n \in 1..Len(guard) : n \notin C}
<1>1. PICK n \in Bad : \A m \in Bad : n <= m
  <2>1. Bad \in SUBSET Nat /\ Bad # {}
    BY <1>0
  <2> HIDE DEF Bad
  <2>2. QED
    BY <2>1, LeastElement
<1>2. \A m \in 1..n - 1 : m \in C
  BY <1>0, <1>1
<1>3. QED
  BY <1>1, <1>2 DEF OperandsFirst

LEMMA HoldsIs ==
  ASSUME NEW guard, WellFormed(guard), NEW i, i.typing \in BOOLEAN
  PROVE  \E f : HeldBy(f, guard, i) /\ Holds(guard, i) = f[Len(guard)]
<1> DEFINE h == CHOOSE f : HeldBy(f, guard, i)
<1>1. HeldBy(h, guard, i)
  <2>1. \E f : HeldBy(f, guard, i)
    BY HoldsDefined
  <2>2. QED
    BY <2>1, Zenon
<1>2. Holds(guard, i) = h[Len(guard)]
  BY DEF Holds, HeldBy
<1>3. QED
  BY <1>1, <1>2, Zenon

LEMMA EvaluateIs ==
  ASSUME NEW guard, Parsed(guard), NEW v
  PROVE  \E f : EvaluatedBy(f, guard, v) /\ Evaluate(guard, v) = f[Len(guard)]
<1> DEFINE h == CHOOSE f : EvaluatedBy(f, guard, v)
<1>1. EvaluatedBy(h, guard, v)
  BY EvaluateDefined, Zenon
<1>2. Evaluate(guard, v) = h[Len(guard)]
  BY DEF Evaluate, EvaluatedBy
<1>3. QED
  BY <1>1, <1>2, Zenon

LEMMA ImportEvaluateIs ==
  ASSUME NEW guard, Parsed(guard), NEW v
  PROVE  \E f : ImportEvaluatedBy(f, guard, v) /\ EvaluateImport(guard, v) = f[Len(guard)]
<1> DEFINE h == CHOOSE f : ImportEvaluatedBy(f, guard, v)
<1>1. ImportEvaluatedBy(h, guard, v)
  BY ImportEvaluateDefined, Zenon
<1>2. EvaluateImport(guard, v) = h[Len(guard)]
  BY DEF EvaluateImport, ImportEvaluatedBy
<1>3. QED
  BY <1>1, <1>2, Zenon

\* Whatever evaluate_guard decides of a guard for a minor version is what every
\* interpreter of that version makes of it, however the guard is put together.
THEOREM EvaluateSound ==
  ASSUME NEW guard, WellFormed(guard), NEW i \in Interpreter(Nat, Nat)
  PROVE  /\ Evaluate(guard, i.minor) \in TruthValues /\ Holds(guard, i) \in BOOLEAN
         /\ Agrees(Evaluate(guard, i.minor), Holds(guard, i))
<1>0. i.typing \in BOOLEAN
  BY DEF Interpreter
<1>1. PICK h : HeldBy(h, guard, i) /\ Holds(guard, i) = h[Len(guard)]
  BY <1>0, HoldsIs
<1>2. PICK t : EvaluatedBy(t, guard, i.minor) /\ Evaluate(guard, i.minor) = t[Len(guard)]
  BY EvaluateIs, WellFormedParsed
<1> DEFINE C == {n \in 1..Len(guard) :
                   t[n] \in TruthValues /\ h[n] \in BOOLEAN /\ Agrees(t[n], h[n])}
<1>3. ASSUME NEW n \in 1..Len(guard),
             guard[n].kind \in {"not", "and", "or"} => guard[n].arg \in C,
             guard[n].kind \in {"and", "or"} => guard[n].arg2 \in C
      PROVE  n \in C
  <2>1. CASE guard[n].kind = "compare"
    <3>1. t[n] = Comparison(guard[n], i.minor)
      BY <1>2, <2>1 DEF EvaluatedBy, TruthOf
    <3>2. h[n] = Ordered(guard[n], Shown(guard[n].shape, i))
      BY <1>1, <2>1 DEF HeldBy, ValueOf
    <3>3. guard[n] \in Comparisons
      BY <2>1, Subexpression
    <3>4. Comparison(guard[n], i.minor) \in TruthValues
      BY DEF Comparison, Truth, TruthValues
    <3>5. Ordered(guard[n], Shown(guard[n].shape, i)) \in BOOLEAN
      BY <3>3 DEF Ordered, Compare, Comparisons, Operators, Before, Same
    <3>6. QED
      BY <3>1, <3>2, <3>3, <3>4, <3>5, ComparisonSound
  <2>2. CASE guard[n].kind = "typing"
    <3>1. t[n] = "unknown" /\ h[n] = i.typing
      BY <1>1, <1>2, <2>2 DEF HeldBy, EvaluatedBy, ValueOf, TruthOf
    <3>2. QED
      BY <1>0, <3>1 DEF Agrees, TruthValues
  <2>3. CASE guard[n].kind = "other"
    <3>1. t[n] = "unknown"
      BY <1>2, <2>3 DEF EvaluatedBy, TruthOf
    <3>2. h[n] = (i \in guard[n].holds)
      BY <1>1, <2>3 DEF HeldBy, ValueOf
    <3>3. h[n] \in BOOLEAN
      BY <3>2
    <3>4. QED
      BY <3>1, <3>3 DEF Agrees, TruthValues
  <2>4. CASE guard[n].kind = "not"
    <3>1. t[n] = TruthNot(t[guard[n].arg])
      BY <1>2, <2>4 DEF EvaluatedBy, TruthOf
    <3>2. h[n] = ~h[guard[n].arg]
      BY <1>1, <2>4 DEF HeldBy, ValueOf
    <3> DEFINE x == t[guard[n].arg]
               a == h[guard[n].arg]
    <3>3. x \in TruthValues /\ a \in BOOLEAN /\ Agrees(x, a)
      BY <1>3, <2>4
    <3> HIDE DEF x, a
    <3>4. TruthNot(x) \in TruthValues /\ (~a) \in BOOLEAN /\ Agrees(TruthNot(x), ~a)
      <4>1. TruthNot(x) \in TruthValues
        BY <3>3 DEF TruthNot, Truth, TruthValues
      <4>2. QED
        BY <3>3, <4>1, ConnectivesSound
    <3>5. QED
      BY <3>1, <3>2, <3>4 DEF x, a
  <2>5. CASE guard[n].kind \in {"and", "or"}
    <3> DEFINE x == t[guard[n].arg]
               a == h[guard[n].arg]
               y == t[guard[n].arg2]
               b == h[guard[n].arg2]
    <3>1. CASE guard[n].kind = "and"
      <4>1. t[n] = TruthAnd(x, y)
        BY <1>2, <3>1 DEF EvaluatedBy, TruthOf
      <4>2. h[n] = (a /\ b)
        BY <1>1, <3>1 DEF HeldBy, ValueOf
      <4>3. /\ x \in TruthValues /\ a \in BOOLEAN /\ Agrees(x, a)
            /\ y \in TruthValues /\ b \in BOOLEAN /\ Agrees(y, b)
        BY <1>3, <3>1
      <4> HIDE DEF x, a, y, b
      <4>4. TruthAnd(x, y) \in TruthValues /\ (a /\ b) \in BOOLEAN
        BY <4>3 DEF TruthAnd, Truth, TruthValues
      <4>5. Agrees(TruthAnd(x, y), a /\ b)
        BY <4>3, ConnectivesSound
      <4>6. QED
        BY <4>1, <4>2, <4>4, <4>5
    <3>2. CASE guard[n].kind = "or"
      <4>1. t[n] = TruthOr(x, y)
        BY <1>2, <3>2 DEF EvaluatedBy, TruthOf
      <4>2. h[n] = (a \/ b)
        BY <1>1, <3>2 DEF HeldBy, ValueOf
      <4>3. /\ x \in TruthValues /\ a \in BOOLEAN /\ Agrees(x, a)
            /\ y \in TruthValues /\ b \in BOOLEAN /\ Agrees(y, b)
        BY <1>3, <3>2
      <4> HIDE DEF x, a, y, b
      <4>4. TruthOr(x, y) \in TruthValues /\ (a \/ b) \in BOOLEAN
        BY <4>3 DEF TruthOr, Truth, TruthValues
      <4>5. Agrees(TruthOr(x, y), a \/ b)
        BY <4>3, ConnectivesSound
      <4>6. QED
        BY <4>1, <4>2, <4>4, <4>5
    <3>3. QED
      BY <2>5, <3>1, <3>2
  <2>6. QED
    BY <2>1, <2>2, <2>3, <2>4, <2>5, Subexpression
<1>4. Len(guard) \in C
  <2>1. Len(guard) \in 1..Len(guard)
    BY DEF WellFormed
  <2> HIDE DEF C
  <2>2. QED
    BY <1>3, <2>1, FromOperands, WellFormedParsed
<1>5. QED
  BY <1>1, <1>2, <1>4

\* The same of what evaluate_import_guard decides, of the interpreters it is asked
\* about: those that run the module rather than check its types.
THEOREM EvaluateImportSound ==
  ASSUME NEW guard, WellFormed(guard), NEW i \in Interpreter(Nat, Nat), ~i.typing
  PROVE  /\ EvaluateImport(guard, i.minor) \in TruthValues /\ Holds(guard, i) \in BOOLEAN
         /\ Agrees(EvaluateImport(guard, i.minor), Holds(guard, i))
<1>0. i.typing \in BOOLEAN
  BY DEF Interpreter
<1>1. PICK h : HeldBy(h, guard, i) /\ Holds(guard, i) = h[Len(guard)]
  BY <1>0, HoldsIs
<1>2. PICK t : ImportEvaluatedBy(t, guard, i.minor) /\ EvaluateImport(guard, i.minor) = t[Len(guard)]
  BY ImportEvaluateIs, WellFormedParsed
<1> DEFINE C == {n \in 1..Len(guard) :
                   t[n] \in TruthValues /\ h[n] \in BOOLEAN /\ Agrees(t[n], h[n])}
<1>3. ASSUME NEW n \in 1..Len(guard),
             guard[n].kind \in {"not", "and", "or"} => guard[n].arg \in C,
             guard[n].kind \in {"and", "or"} => guard[n].arg2 \in C
      PROVE  n \in C
  <2>1. CASE guard[n].kind = "compare"
    <3> DEFINE decided == IF Patch(guard[n]) THEN PatchComparison(guard[n], i.minor)
                          ELSE Comparison(guard[n], i.minor)
    <3>1. t[n] = decided
      BY <1>2, <2>1 DEF ImportEvaluatedBy, ImportTruthOf
    <3>2. h[n] = Ordered(guard[n], Shown(guard[n].shape, i))
      BY <1>1, <2>1 DEF HeldBy, ValueOf
    <3>3. guard[n] \in Comparisons
      BY <2>1, Subexpression
    <3>4. decided \in TruthValues
      BY DEF Comparison, PatchComparison, Truth, TruthValues
    <3>5. Ordered(guard[n], Shown(guard[n].shape, i)) \in BOOLEAN
      BY <3>3 DEF Ordered, Compare, Comparisons, Operators, Before, Same
    <3>6. Agrees(decided, Ordered(guard[n], Shown(guard[n].shape, i)))
      BY <3>3, ComparisonSound, PatchComparisonSound
    <3> HIDE DEF decided
    <3>7. QED
      BY <3>1, <3>2, <3>4, <3>5, <3>6
  <2>2. CASE guard[n].kind = "typing"
    <3>1. t[n] = "false" /\ h[n] = i.typing
      BY <1>1, <1>2, <2>2 DEF HeldBy, ImportEvaluatedBy, ValueOf, ImportTruthOf
    <3>2. QED
      BY <1>0, <3>1 DEF Agrees, TruthValues
  <2>3. CASE guard[n].kind = "other"
    <3>1. t[n] = "unknown"
      BY <1>2, <2>3 DEF ImportEvaluatedBy, ImportTruthOf
    <3>2. h[n] = (i \in guard[n].holds)
      BY <1>1, <2>3 DEF HeldBy, ValueOf
    <3>3. h[n] \in BOOLEAN
      BY <3>2
    <3>4. QED
      BY <3>1, <3>3 DEF Agrees, TruthValues
  <2>4. CASE guard[n].kind = "not"
    <3>1. t[n] = TruthNot(t[guard[n].arg])
      BY <1>2, <2>4 DEF ImportEvaluatedBy, ImportTruthOf
    <3>2. h[n] = ~h[guard[n].arg]
      BY <1>1, <2>4 DEF HeldBy, ValueOf
    <3> DEFINE x == t[guard[n].arg]
               a == h[guard[n].arg]
    <3>3. x \in TruthValues /\ a \in BOOLEAN /\ Agrees(x, a)
      BY <1>3, <2>4
    <3> HIDE DEF x, a
    <3>4. TruthNot(x) \in TruthValues /\ (~a) \in BOOLEAN /\ Agrees(TruthNot(x), ~a)
      <4>1. TruthNot(x) \in TruthValues
        BY <3>3 DEF TruthNot, Truth, TruthValues
      <4>2. QED
        BY <3>3, <4>1, ConnectivesSound
    <3>5. QED
      BY <3>1, <3>2, <3>4 DEF x, a
  <2>5. CASE guard[n].kind \in {"and", "or"}
    <3> DEFINE x == t[guard[n].arg]
               a == h[guard[n].arg]
               y == t[guard[n].arg2]
               b == h[guard[n].arg2]
    <3>1. CASE guard[n].kind = "and"
      <4>1. t[n] = TruthAnd(x, y)
        BY <1>2, <3>1 DEF ImportEvaluatedBy, ImportTruthOf
      <4>2. h[n] = (a /\ b)
        BY <1>1, <3>1 DEF HeldBy, ValueOf
      <4>3. /\ x \in TruthValues /\ a \in BOOLEAN /\ Agrees(x, a)
            /\ y \in TruthValues /\ b \in BOOLEAN /\ Agrees(y, b)
        BY <1>3, <3>1
      <4> HIDE DEF x, a, y, b
      <4>4. TruthAnd(x, y) \in TruthValues /\ (a /\ b) \in BOOLEAN
        BY <4>3 DEF TruthAnd, Truth, TruthValues
      <4>5. Agrees(TruthAnd(x, y), a /\ b)
        BY <4>3, ConnectivesSound
      <4>6. QED
        BY <4>1, <4>2, <4>4, <4>5
    <3>2. CASE guard[n].kind = "or"
      <4>1. t[n] = TruthOr(x, y)
        BY <1>2, <3>2 DEF ImportEvaluatedBy, ImportTruthOf
      <4>2. h[n] = (a \/ b)
        BY <1>1, <3>2 DEF HeldBy, ValueOf
      <4>3. /\ x \in TruthValues /\ a \in BOOLEAN /\ Agrees(x, a)
            /\ y \in TruthValues /\ b \in BOOLEAN /\ Agrees(y, b)
        BY <1>3, <3>2
      <4> HIDE DEF x, a, y, b
      <4>4. TruthOr(x, y) \in TruthValues /\ (a \/ b) \in BOOLEAN
        BY <4>3 DEF TruthOr, Truth, TruthValues
      <4>5. Agrees(TruthOr(x, y), a \/ b)
        BY <4>3, ConnectivesSound
      <4>6. QED
        BY <4>1, <4>2, <4>4, <4>5
    <3>3. QED
      BY <2>5, <3>1, <3>2
  <2>6. QED
    BY <2>1, <2>2, <2>3, <2>4, <2>5, Subexpression
<1>4. Len(guard) \in C
  <2>1. Len(guard) \in 1..Len(guard)
    BY DEF WellFormed
  <2> HIDE DEF C
  <2>2. QED
    BY <1>3, <2>1, FromOperands, WellFormedParsed
<1>5. QED
  BY <1>1, <1>2, <1>4

\* A guard of version comparisons the grammar decides is decided for every version.
LEMMA EvaluateDecides ==
  ASSUME NEW guard, WellFormed(guard), NEW v,
         \A n \in 1..Len(guard) :
           /\ guard[n].kind \notin {"typing", "other"}
           /\ guard[n].kind = "compare" => Comparison(guard[n], 0) # "unknown"
  PROVE  Evaluate(guard, v) \in {"true", "false"}
<1>1. PICK t : EvaluatedBy(t, guard, v) /\ Evaluate(guard, v) = t[Len(guard)]
  BY EvaluateIs, WellFormedParsed
<1> DEFINE C == {n \in 1..Len(guard) : t[n] \in {"true", "false"}}
<1>2. ASSUME NEW n \in 1..Len(guard),
             guard[n].kind \in {"not", "and", "or"} => guard[n].arg \in C,
             guard[n].kind \in {"and", "or"} => guard[n].arg2 \in C
      PROVE  n \in C
  <2>1. t[n] = TruthOf(guard[n], t, v)
    BY <1>1 DEF EvaluatedBy
  <2>2. CASE guard[n].kind = "compare"
    <3>1. t[n] = Comparison(guard[n], v) /\ Comparison(guard[n], 0) # "unknown"
      BY <2>1, <2>2 DEF TruthOf
    <3>2. QED
      BY <3>1 DEF Comparison, Truth
  <2>3. CASE guard[n].kind = "not"
    <3>1. t[n] = TruthNot(t[guard[n].arg]) /\ t[guard[n].arg] \in {"true", "false"}
      BY <1>2, <2>1, <2>3 DEF TruthOf
    <3>2. QED
      BY <3>1 DEF TruthNot, Truth
  <2>4. CASE guard[n].kind = "and"
    <3>1. /\ t[n] = TruthAnd(t[guard[n].arg], t[guard[n].arg2])
          /\ t[guard[n].arg] \in {"true", "false"} /\ t[guard[n].arg2] \in {"true", "false"}
      BY <1>2, <2>1, <2>4 DEF TruthOf
    <3>2. QED
      BY <3>1 DEF TruthAnd
  <2>5. CASE guard[n].kind = "or"
    <3>1. /\ t[n] = TruthOr(t[guard[n].arg], t[guard[n].arg2])
          /\ t[guard[n].arg] \in {"true", "false"} /\ t[guard[n].arg2] \in {"true", "false"}
      BY <1>2, <2>1, <2>5 DEF TruthOf
    <3>2. QED
      BY <3>1 DEF TruthOr
  <2>6. QED
    BY <2>2, <2>3, <2>4, <2>5, Subexpression
<1>3. Len(guard) \in C
  <2>1. Len(guard) \in 1..Len(guard)
    BY DEF WellFormed
  <2> HIDE DEF C
  <2>2. QED
    BY <1>2, <2>1, FromOperands, WellFormedParsed
<1>4. QED
  BY <1>1, <1>3

\* A guard that asks only whether types are being checked is not decided for any
\* version, and is what it says.
LEMMA PolarityIs ==
  ASSUME NEW guard, WellFormed(guard), NEW i \in Interpreter(Nat, Nat)
  PROVE  /\ Polarity(guard) \in {"positive", "negative", "none"}
         /\ Polarity(guard) = "positive" => Holds(guard, i) = i.typing
         /\ Polarity(guard) = "negative" => Holds(guard, i) = ~i.typing
         /\ Polarity(guard) # "none" => \A v : Evaluate(guard, v) = "unknown"
<1> DEFINE last == Len(guard)
<1>0. i.typing \in BOOLEAN /\ last \in 1..Len(guard) /\ last \in Nat
  BY DEF Interpreter, WellFormed
<1>1. PICK h : HeldBy(h, guard, i) /\ Holds(guard, i) = h[last]
  BY <1>0, HoldsIs
<1>2. CASE guard[last].kind = "typing"
  <2>1. Polarity(guard) = "positive" /\ h[last] = i.typing
    BY <1>0, <1>1, <1>2 DEF Polarity, HeldBy, ValueOf
  <2>2. ASSUME NEW v PROVE Evaluate(guard, v) = "unknown"
    <3>1. PICK t : EvaluatedBy(t, guard, v) /\ Evaluate(guard, v) = t[last]
      BY EvaluateIs, WellFormedParsed
    <3>2. QED
      BY <1>0, <1>2, <3>1 DEF EvaluatedBy, TruthOf
  <2>3. QED
    BY <1>1, <2>1, <2>2
<1>3. CASE guard[last].kind = "not" /\ guard[guard[last].arg].kind = "typing"
  <2> DEFINE m == guard[last].arg
  <2>1. m \in 1..Len(guard)
    <3>1. m \in 1..last - 1
      BY <1>0, <1>3, Subexpression
    <3>2. QED
      BY <1>0, <3>1
  <2>2. Polarity(guard) = "negative" /\ h[last] = ~h[m] /\ h[m] = i.typing
    <3>1. Polarity(guard) = "negative"
      BY <1>3 DEF Polarity
    <3>2. h[last] = ~h[m]
      BY <1>0, <1>1, <1>3 DEF HeldBy, ValueOf
    <3>3. h[m] = i.typing
      BY <1>1, <1>3, <2>1 DEF HeldBy, ValueOf
    <3>4. QED
      BY <3>1, <3>2, <3>3
  <2>3. ASSUME NEW v PROVE Evaluate(guard, v) = "unknown"
    <3>1. PICK t : EvaluatedBy(t, guard, v) /\ Evaluate(guard, v) = t[last]
      BY EvaluateIs, WellFormedParsed
    <3>2. t[last] = TruthNot(t[m]) /\ t[m] = "unknown"
      <4>1. t[last] = TruthNot(t[m])
        BY <1>0, <1>3, <3>1 DEF EvaluatedBy, TruthOf
      <4>2. t[m] = "unknown"
        BY <1>3, <2>1, <3>1 DEF EvaluatedBy, TruthOf
      <4>3. QED
        BY <4>1, <4>2
    <3>3. QED
      BY <3>1, <3>2 DEF TruthNot
  <2>4. QED
    BY <1>1, <2>2, <2>3
<1>4. CASE ~(\/ guard[last].kind = "typing"
             \/ guard[last].kind = "not" /\ guard[guard[last].arg].kind = "typing")
  BY <1>4 DEF Polarity
<1>5. QED
  BY <1>2, <1>3, <1>4

\* The usage context an interpreter stands for.
Context(i) == IF i.typing THEN "typing" ELSE "runtime"

\* A branch an interpreter takes keeps its version and its usage context
\* (branch_reachability).
THEOREM BranchSound ==
  ASSUME NEW active, NEW guard, WellFormed(guard), NEW i \in Interpreter(Nat, Nat),
         i.minor \in active.versions, Context(i) \in active.contexts
  PROVE  LET branch == Branch(active, guard, Holds(guard, i)) IN
         i.minor \in branch.versions /\ Context(i) \in branch.contexts
<1> DEFINE holds == Holds(guard, i)
<1>0. i.typing \in BOOLEAN /\ holds \in BOOLEAN /\ Agrees(Evaluate(guard, i.minor), holds)
  BY EvaluateSound DEF Interpreter
<1>1. Evaluate(guard, i.minor) # Truth(~holds)
  <2> HIDE DEF holds
  <2> QED
    BY <1>0 DEF Agrees, Truth
<1>2. /\ Polarity(guard) \in {"positive", "negative", "none"}
      /\ Polarity(guard) = "positive" => holds = i.typing
      /\ Polarity(guard) = "negative" => holds = ~i.typing
  BY PolarityIs
<1> HIDE DEF holds
<1>3. i.minor \in Branch(active, guard, holds).versions
  BY <1>1 DEF Branch
<1>4. Context(i) \in Contexts(active, guard, holds)
  <2>1. CASE Polarity(guard) = "none"
    BY <2>1 DEF Contexts
  <2>2. CASE Polarity(guard) = "positive"
    BY <1>0, <1>2, <2>2 DEF Contexts, Context
  <2>3. CASE Polarity(guard) = "negative"
    BY <1>0, <1>2, <2>3 DEF Contexts, Context
  <2>4. QED
    BY <1>2, <2>1, <2>2, <2>3
<1>5. QED
  BY <1>3, <1>4 DEF Branch, holds

\* And a branch of a guard the grammar decides keeps nothing else.
THEOREM BranchExact ==
  ASSUME NEW active, NEW guard, WellFormed(guard), Decidable(guard),
         NEW i \in Interpreter(Nat, Nat), NEW branch \in BOOLEAN,
         i.minor \in Branch(active, guard, branch).versions,
         Context(i) \in Branch(active, guard, branch).contexts
  PROVE  Holds(guard, i) = branch
<1> DEFINE holds == Holds(guard, i)
<1>0. i.typing \in BOOLEAN /\ holds \in BOOLEAN /\ Agrees(Evaluate(guard, i.minor), holds)
  BY EvaluateSound DEF Interpreter
<1>1. /\ Polarity(guard) \in {"positive", "negative", "none"}
      /\ Polarity(guard) = "positive" => holds = i.typing
      /\ Polarity(guard) = "negative" => holds = ~i.typing
  BY PolarityIs
<1> HIDE DEF holds
<1>2. Context(i) \in Contexts(active, guard, branch)
  BY DEF Branch
<1>3. CASE Polarity(guard) = "positive"
  BY <1>0, <1>1, <1>2, <1>3 DEF Contexts, Context, holds
<1>4. CASE Polarity(guard) = "negative"
  BY <1>0, <1>1, <1>2, <1>4 DEF Contexts, Context, holds
<1>5. CASE Polarity(guard) = "none"
  <2>1. \A n \in 1..Len(guard) :
          /\ guard[n].kind \notin {"typing", "other"}
          /\ guard[n].kind = "compare" => Comparison(guard[n], 0) # "unknown"
    BY <1>5 DEF Decidable
  <2>2. ~Mixed(guard)
    BY <2>1 DEF Mixed
  <2>3. Evaluate(guard, i.minor) # Truth(~branch)
    BY <2>2 DEF Branch
  <2>4. Evaluate(guard, i.minor) \in {"true", "false"}
    BY <2>1, EvaluateDecides
  <2>5. QED
    BY <1>0, <2>3, <2>4 DEF Agrees, Truth, holds
<1>6. QED
  BY <1>1, <1>3, <1>4, <1>5

-----------------------------------------------------------------------------
(* The inductive invariant.                                                 *)

Parts == {"body", "orelse"}
Ids == Seq(Nat \cup Parts)
Guards == UNION {Tests[n] : n \in 0..MaxNodes - 1}
IfSyntax == [test : Guards, orelse : OrElse]
TrySyntax == [imports : Bodies, catches : Seq({"import", "any"})]

OpenFrames ==
  [kind : {"suite", "if", "try"}, id : Ids, syntax : {<<>>} \cup IfSyntax \cup TrySyntax,
   at : Nat \cup Parts \cup {"test"}, truth : SUBSET Interpreters, plain : BOOLEAN,
   height : Nat, before : States, depth : Int]

Kinds(f) ==
  /\ f.kind = "if" => f.syntax \in IfSyntax /\ f.at \in Parts \cup {"test"}
  /\ f.kind = "try" => f.syntax \in TrySyntax /\ f.at \in Nat /\ ~f.plain

Typed ==
  /\ open \in Seq(OpenFrames) /\ Len(open) > 0 /\ \A n \in 1..Len(open) : Kinds(open[n])
  /\ stack \in Seq(States) /\ Len(stack) > 0
  /\ nodes \in 0..MaxNodes /\ depth \in Int
  /\ DOMAIN suites \cup DOMAIN elifs \cup fallback \cup pushed \subseteq Ids
  /\ \A id \in DOMAIN suites : suites[id] \in States
  /\ \A id \in DOMAIN elifs : elifs[id] \in States

\* Statements are numbered in the order they are met, and what is part of a
\* statement has a longer name than the statement.
Older(a, b) == a = <<>> \/ (b # <<>> /\ (a[1] < b[1] \/ (a[1] = b[1] /\ Len(a) < Len(b))))
Used(id) == Len(id) > 0 /\ id[1] \in Nat /\ id[1] < nodes

NamedInv ==
  /\ open[1].id = <<>> /\ open[1].kind = "suite"
  /\ \A n \in 2..Len(open) : Used(open[n].id)
  /\ \A m, n \in 1..Len(open) : m < n => Older(open[m].id, open[n].id)
  /\ \A n \in 1..Len(open) : open[n].kind = "try" => Len(open[n].id) = 1
  /\ \A id \in DOMAIN suites \cup DOMAIN elifs \cup fallback : Used(id) /\ Len(id) > 1
  /\ \A id \in pushed : Len(id) > 1 /\ \E n \in 2..Len(open) : open[n].id = id
  /\ \A id \in fallback : \A n \in 1..Len(open) : open[n].kind = "if" => open[n].id[1] # id[1]

\* How high the stack is, and how many fallback handlers are around, while the
\* n-th frame is the one being visited.
HeightAt(n) == IF n = Len(open) THEN Len(stack) ELSE open[n + 1].height
DepthAt(n) == IF n = Len(open) THEN depth ELSE open[n + 1].depth
Pushes(n) == IF open[n].id \in pushed THEN 1 ELSE 0
Deepens(n) == IF open[n].id \in pushed \cap fallback THEN 1 ELSE 0

Stacked ==
  /\ \A n \in 1..Len(open) :
       /\ open[n].height \in 1..Len(stack)
       /\ HeightAt(n) = open[n].height + Pushes(n)
       /\ DepthAt(n) = open[n].depth + Deepens(n)
       /\ stack[open[n].height] = open[n].before
  /\ \A m, n \in 1..Len(open) : m <= n => open[m].height <= open[n].height

\* A lexical state keeps what the interpreters at hand need, and no more than
\* that where all guards are decided.
Keeps(state, truth) ==
  \A i \in truth : i.minor \in state.versions /\ Context(i) \in state.contexts
Fills(state, truth) ==
  \A v \in state.versions, c \in state.contexts :
    \E i \in truth : i.minor = v /\ i.typing = (c = "typing")
FitsTruth(state, truth, plain) == Keeps(state, truth) /\ (plain => Fills(state, truth))

\* The interpreters for which a part of a statement is still to be visited.
BranchTruth(f, branch) == {i \in f.truth : Holds(f.syntax.test, i) = branch}
HandlerTruth(f) ==
  {i \in f.truth : f.syntax.imports = {} \/ \E name \in f.syntax.imports : MayFail(name, i)}

FitsBranch(f, recorded, part, branch) ==
  /\ Child(f.id, part) \in DOMAIN recorded
  /\ FitsTruth(recorded[Child(f.id, part)], BranchTruth(f, branch),
          f.plain /\ Decidable(f.syntax.test))

Awaited(f) ==
  /\ f.kind = "if" /\ f.at = "test" => FitsBranch(f, suites, "body", TRUE)
  /\ f.kind = "if" /\ f.at # "orelse" /\ f.syntax.orelse = "else" =>
       FitsBranch(f, suites, "orelse", FALSE)
  /\ f.kind = "if" /\ f.at # "orelse" /\ f.syntax.orelse = "elif" =>
       FitsBranch(f, elifs, "orelse", FALSE)
  /\ f.kind = "try" =>
       \A m \in Nat : f.at < m /\ Child(f.id, m) \in DOMAIN suites =>
         Keeps(suites[Child(f.id, m)], HandlerTruth(f))

Earned ==
  \A n \in 1..Len(open) :
    /\ FitsTruth(stack[HeightAt(n)], open[n].truth, open[n].plain)
    /\ Awaited(open[n])

\* Who gets to a frame is decided by the frame around it.
Through(f, g) ==
  /\ f.kind = "suite" => g.truth = f.truth
  /\ f.kind = "if" => f.at # "test" /\ g.truth = BranchTruth(f, f.at = "body")
  /\ f.kind = "try" => g.truth \subseteq f.truth

Enclosed == \A n \in 1..Len(open) - 1 : Through(open[n], open[n + 1])

Inv == Typed /\ NamedInv /\ Stacked /\ Earned /\ Enclosed

-----------------------------------------------------------------------------
(* Names of statements and suites.                                          *)

LEMMA ChildIs ==
  ASSUME NEW id \in Ids, NEW part \in Nat \cup Parts
  PROVE  /\ Child(id, part) \in Ids /\ Len(Child(id, part)) = Len(id) + 1
         /\ Len(id) > 0 => Child(id, part)[1] = id[1]
         /\ Child(id, part)[Len(id) + 1] = part
         /\ Child(id, part) # <<>>
  BY DEF Child, Ids

LEMMA OlderChild ==
  ASSUME NEW id \in Ids, Len(id) > 0, id[1] \in Nat, NEW part \in Nat \cup Parts
  PROVE  Older(id, Child(id, part))
  BY ChildIs DEF Older, Ids

LEMMA OlderTrans ==
  ASSUME NEW a \in Ids, NEW b \in Ids, NEW c \in Ids,
         a # <<>> => a[1] \in Nat, b # <<>> => b[1] \in Nat, c # <<>> => c[1] \in Nat,
         Older(a, b), Older(b, c)
  PROVE  Older(a, c)
<1>1. Len(a) \in Nat /\ Len(b) \in Nat /\ Len(c) \in Nat
  BY DEF Ids
<1>2. CASE a = <<>>
  BY <1>2 DEF Older
<1>3. CASE a # <<>>
  <2>1. b # <<>> /\ c # <<>>
    BY <1>3 DEF Older
  <2>2. QED
    BY <1>1, <1>3, <2>1 DEF Older
<1>4. QED
  BY <1>2, <1>3

LEMMA OlderDiffers ==
  ASSUME NEW a \in Ids, NEW b \in Ids, b # <<>>, b[1] \in Nat, Older(a, b) PROVE a # b
  BY DEF Older, Ids

\* What is recorded for a part of an older statement is not what a newer records.
LEMMA PartsApart ==
  ASSUME NEW a \in Ids, NEW b \in Ids, a # <<>> => a[1] \in Nat, b # <<>>, b[1] \in Nat,
         Older(a, b), NEW p \in Nat \cup Parts, NEW q \in Nat \cup Parts
  PROVE  Child(a, p) # Child(b, q)
<1>1. Len(b) > 0 /\ Len(a) \in Nat /\ Len(b) \in Nat
  BY EmptySeq DEF Ids
<1>2. /\ Child(b, q)[1] = b[1]
      /\ Len(Child(a, p)) = Len(a) + 1 /\ Len(Child(b, q)) = Len(b) + 1
  BY <1>1, ChildIs
<1>3. CASE a = <<>>
  <2>1. Len(a) = 0
    BY <1>3, EmptySeq
  <2>2. Len(Child(a, p)) # Len(Child(b, q))
    BY <1>1, <1>2, <2>1
  <2>3. QED
    BY ONLY <2>2
<1>4. CASE a # <<>>
  <2>1. Child(a, p)[1] = a[1]
    BY SMTT(30), <1>4, EmptySeq, ChildIs DEF Ids
  <2>2. QED
    BY <1>1, <1>2, <1>4, <2>1 DEF Older
<1>5. QED
  BY <1>3, <1>4

-----------------------------------------------------------------------------
(* The frames.                                                              *)

LEMMA Basics ==
  ASSUME Typed
  PROVE  /\ Len(open) \in Nat /\ Len(open) \in 1..Len(open) /\ 1 \in 1..Len(open)
         /\ \A n \in 1..Len(open) : open[n] \in OpenFrames
         /\ Top \in OpenFrames /\ Kinds(Top)
         /\ Len(stack) \in Nat /\ Len(stack) \in 1..Len(stack)
         /\ \A n \in 1..Len(stack) : stack[n] \in States
         /\ Current \in States
  BY DEF Typed, Top, Current

SameButAt(f, g) ==
  /\ f.kind = g.kind /\ f.id = g.id /\ f.syntax = g.syntax /\ f.truth = g.truth
  /\ f.plain = g.plain /\ f.height = g.height /\ f.before = g.before /\ f.depth = g.depth

\* A frame is added; the one around it may have gone on to its next part.
Adds(new, entered) ==
  /\ open' \in Seq(OpenFrames) /\ Len(open') = Len(open) + 1
  /\ open'[Len(open) + 1] = new
  /\ \A n \in 1..Len(open) : n # Len(open) => open'[n] = open[n]
  /\ open'[Len(open)] \in OpenFrames /\ SameButAt(open'[Len(open)], Top)
  /\ open'[Len(open)].at = entered

LEMMA AddToOpen ==
  ASSUME Typed, NEW new \in OpenFrames, open' = Append(open, new)
  PROVE  Adds(new, Top.at)
<1>1. Len(open) \in Nat /\ open \in Seq(OpenFrames) /\ Top \in OpenFrames /\ Len(open) \in 1..Len(open)
  BY Basics DEF Typed
<1>2. open' \in Seq(OpenFrames) /\ Len(open') = Len(open) + 1 /\ open'[Len(open) + 1] = new
  BY <1>1
<1>3. \A n \in 1..Len(open) : open'[n] = open[n]
  BY <1>1
<1>4. QED
  BY <1>1, <1>2, <1>3 DEF Adds, SameButAt, Top

LEMMA AddToAt ==
  ASSUME Typed, NEW new \in OpenFrames, NEW part \in Nat \cup Parts, open' = Append(At(part), new)
  PROVE  Adds(new, part)
<1>1. Len(open) \in Nat /\ open \in Seq(OpenFrames) /\ Top \in OpenFrames /\ Len(open) \in 1..Len(open)
  BY Basics DEF Typed
<1> DEFINE moved == [Top EXCEPT !.at = part]
<1>2. moved \in OpenFrames /\ SameButAt(moved, Top) /\ moved.at = part
  BY <1>1 DEF OpenFrames, SameButAt
<1>3. At(part) = [open EXCEPT ![Len(open)] = moved]
  BY <1>1 DEF At, Top
<1> HIDE DEF moved
<1>4. /\ At(part) \in Seq(OpenFrames) /\ Len(At(part)) = Len(open)
      /\ \A n \in 1..Len(open) : At(part)[n] = IF n = Len(open) THEN moved ELSE open[n]
  BY <1>1, <1>2, <1>3, ExceptSeq
<1>5. open' \in Seq(OpenFrames) /\ Len(open') = Len(open) + 1 /\ open'[Len(open) + 1] = new
  BY <1>1, <1>4
<1>6. \A n \in 1..Len(open) : open'[n] = At(part)[n]
  BY <1>1, <1>4
<1>7. QED
  BY <1>1, <1>2, <1>4, <1>5, <1>6 DEF Adds

\* Whatever is added, the frames before it keep all but the part they are at.
LEMMA AddKeeps ==
  ASSUME Typed, NEW new, NEW entered, Adds(new, entered), NEW n \in 1..Len(open)
  PROVE  open'[n] \in OpenFrames /\ SameButAt(open'[n], open[n])
<1>1. open[n] \in OpenFrames
  BY Basics
<1>2. QED
  BY <1>1 DEF Adds, SameButAt, Top

-----------------------------------------------------------------------------
(* What every step that adds a frame, and every step that takes one away,   *)
(* does to the names and to the stack.                                      *)

\* Entering a node pushes a state under its name or leaves the tracker alone.
MayPush(id) ==
  \/ stack' = stack /\ pushed' = pushed /\ depth' = depth
  \/ \E s \in States :
       /\ stack' = Append(stack, s) /\ pushed' = pushed \cup {id}
       /\ depth' = depth + (IF id \in fallback' THEN 1 ELSE 0)

\* A name newer than that of the innermost frame is newer than all.
LEMMA NewestId ==
  ASSUME Typed, NamedInv, NEW id \in Ids, id # <<>>, id[1] \in Nat, Older(Top.id, id)
  PROVE  /\ \A n \in 1..Len(open) : Older(open[n].id, id) /\ open[n].id # id
         /\ id \notin pushed
<1>1. ASSUME NEW n \in 1..Len(open) PROVE open[n].id \in Ids /\ (open[n].id # <<>> => open[n].id[1] \in Nat)
  <2>1. open[n].id \in Ids
    BY Basics DEF OpenFrames
  <2>2. CASE n = 1
    BY <2>1, <2>2 DEF NamedInv
  <2>3. CASE n # 1
    <3>1. n \in 2..Len(open)
      BY <2>3, Basics
    <3>2. QED
      BY <2>1, <3>1 DEF NamedInv, Used
  <2>4. QED
    BY <2>2, <2>3
<1>2. ASSUME NEW n \in 1..Len(open) PROVE Older(open[n].id, id)
  <2>1. CASE n = Len(open)
    BY <2>1 DEF Top
  <2>2. CASE n # Len(open)
    <3>1. n < Len(open) /\ Len(open) \in 1..Len(open)
      BY <2>2, Basics
    <3>2. Older(open[n].id, Top.id)
      BY <3>1 DEF NamedInv, Top
    <3>3. Top.id \in Ids /\ (Top.id # <<>> => Top.id[1] \in Nat)
      BY <1>1, <3>1 DEF Top
    <3>4. QED
      BY <1>1, <3>2, <3>3, OlderTrans
  <2>3. QED
    BY <2>1, <2>2
<1>3. \A n \in 1..Len(open) : open[n].id # id
  BY <1>1, <1>2, OlderDiffers
<1>4. id \notin pushed
  <2>1. 2..Len(open) \subseteq 1..Len(open)
    BY Basics
  <2>2. QED
    BY <1>3, <2>1 DEF NamedInv
<1>5. QED
  BY <1>2, <1>3, <1>4

LEMMA AddStacked ==
  ASSUME Typed, NamedInv, Stacked, NEW new, NEW entered, Adds(new, entered),
         new.height = Len(stack), new.before = Current, new.depth = depth,
         \A n \in 1..Len(open) : open[n].id # new.id, new.id \notin pushed,
         \A n \in 1..Len(open) : open[n].id \in fallback' <=> open[n].id \in fallback,
         MayPush(new.id)
  PROVE  /\ Stacked'
         /\ \A n \in 1..Len(open) : stack'[HeightAt(n)'] = stack[HeightAt(n)]
<1>0. PICK L : L = Len(open)
  OBVIOUS
<1>1. /\ L \in Nat /\ L \in 1..L /\ Len(stack) \in Nat /\ Len(stack) \in 1..Len(stack)
      /\ stack \in Seq(States)
  BY <1>0, Basics DEF Typed
<1>2. /\ Len(open') = L + 1 /\ open'[L + 1] = new
      /\ \A n \in 1..L : SameButAt(open'[n], open[n])
  BY <1>0, AddKeeps DEF Adds
<1> DEFINE Effect == /\ Len(stack') = Len(stack) + (IF new.id \in pushed' THEN 1 ELSE 0)
                     /\ \A n \in 1..Len(stack) : stack'[n] = stack[n]
                     /\ depth' = depth + (IF new.id \in pushed' \cap fallback' THEN 1 ELSE 0)
                     /\ \A n \in 1..L : open[n].id \in pushed' <=> open[n].id \in pushed
<1>3. Effect
  <2>1. CASE stack' = stack /\ pushed' = pushed /\ depth' = depth
    BY <1>1, <2>1 DEF Typed
  <2>2. ASSUME NEW s \in States, stack' = Append(stack, s), pushed' = pushed \cup {new.id},
               depth' = depth + (IF new.id \in fallback' THEN 1 ELSE 0)
        PROVE  Effect
    BY <1>0, <1>1, <2>2
  <2>3. QED
    BY <2>1, <2>2 DEF MayPush
<1>4. ASSUME NEW n \in 1..L
      PROVE  /\ open'[n].height \in 1..Len(stack')
             /\ HeightAt(n)' = open'[n].height + Pushes(n)'
             /\ DepthAt(n)' = open'[n].depth + Deepens(n)'
             /\ stack'[open'[n].height] = open'[n].before
             /\ stack'[HeightAt(n)'] = stack[HeightAt(n)]
  <2>1. /\ open'[n].height = open[n].height /\ open'[n].before = open[n].before
        /\ open'[n].depth = open[n].depth /\ open'[n].id = open[n].id
    BY <1>2 DEF SameButAt
  <2>2. /\ open[n].height \in 1..Len(stack) /\ stack[open[n].height] = open[n].before
        /\ HeightAt(n) = open[n].height + Pushes(n)
        /\ DepthAt(n) = open[n].depth + Deepens(n)
    BY <1>0 DEF Stacked
  <2>3. Pushes(n)' = Pushes(n) /\ Deepens(n)' = Deepens(n)
    BY <1>0, <1>3, <2>1 DEF Pushes, Deepens
  <2>4. HeightAt(n)' = HeightAt(n) /\ DepthAt(n)' = DepthAt(n)
    <3>1. CASE n = L
      <4>1. HeightAt(n)' = new.height /\ DepthAt(n)' = new.depth
        BY <1>1, <1>2, <3>1 DEF HeightAt, DepthAt
      <4>2. QED
        BY <1>0, <3>1, <4>1 DEF HeightAt, DepthAt
    <3>2. CASE n # L
      <4>1. n + 1 \in 1..L /\ n # Len(open')
        BY <1>1, <1>2, <3>2
      <4>2. open'[n + 1].height = open[n + 1].height /\ open'[n + 1].depth = open[n + 1].depth
        BY <1>2, <4>1 DEF SameButAt
      <4>3. QED
        BY <1>0, <1>1, <1>2, <3>2, <4>1, <4>2 DEF HeightAt, DepthAt
    <3>3. QED
      BY <3>1, <3>2
  <2>5. open[n].height \in 1..Len(stack')
    BY <1>1, <1>3, <2>2
  <2>6. HeightAt(n) \in 1..Len(stack)
    <3>1. CASE n = L
      BY <1>0, <1>1, <3>1 DEF HeightAt
    <3>2. CASE n # L
      <4>1. n + 1 \in 1..L
        BY <1>1, <3>2
      <4>2. QED
        BY <1>0, <3>2, <4>1 DEF HeightAt, Stacked
    <3>3. QED
      BY <3>1, <3>2
  <2>7. stack'[HeightAt(n)'] = stack[HeightAt(n)]
    BY <1>3, <2>4, <2>6
  <2>8. QED
    BY <1>3, <2>1, <2>2, <2>3, <2>4, <2>5, <2>7
<1>5. /\ open'[L + 1].height \in 1..Len(stack')
      /\ HeightAt(L + 1)' = open'[L + 1].height + Pushes(L + 1)'
      /\ DepthAt(L + 1)' = open'[L + 1].depth + Deepens(L + 1)'
      /\ stack'[open'[L + 1].height] = open'[L + 1].before
  <2>1. Len(stack) \in 1..Len(stack')
    BY <1>1, <1>3
  <2>2. HeightAt(L + 1)' = Len(stack') /\ DepthAt(L + 1)' = depth'
    BY <1>2 DEF HeightAt, DepthAt
  <2>3. /\ Pushes(L + 1)' = IF new.id \in pushed' THEN 1 ELSE 0
        /\ Deepens(L + 1)' = IF new.id \in pushed' \cap fallback' THEN 1 ELSE 0
    BY <1>2 DEF Pushes, Deepens
  <2>4. stack'[Len(stack)] = Current
    BY <1>1, <1>3 DEF Current
  <2>5. QED
    BY <1>2, <1>3, <2>1, <2>2, <2>3, <2>4
<1>6. ASSUME NEW m \in 1..L + 1, NEW n \in 1..L + 1, m <= n
      PROVE  open'[m].height <= open'[n].height
  <2>1. CASE n \in 1..L
    <3>1. m \in 1..L
      BY <1>1, <1>6, <2>1
    <3>2. QED
      BY <1>0, <1>2, <1>6, <2>1, <3>1 DEF Stacked, SameButAt
  <2>2. CASE n = L + 1 /\ m \in 1..L
    <3>1. open'[m].height = open[m].height /\ open[m].height \in 1..Len(stack)
      BY <1>0, <1>2, <2>2 DEF Stacked, SameButAt
    <3>2. QED
      BY <1>1, <1>2, <2>2, <3>1
  <2>3. CASE n = L + 1 /\ m = L + 1
    BY <1>1, <1>2, <2>3
  <2>4. QED
    BY <1>1, <1>6, <2>1, <2>2, <2>3
<1>7. \A n \in 1..L + 1 : n \in 1..L \/ n = L + 1
  BY <1>1
<1>8. Len(open') = L + 1
  BY <1>2
<1>9. Stacked'
  BY <1>4, <1>5, <1>6, <1>7, <1>8 DEF Stacked
<1>10. QED
  BY <1>0, <1>4, <1>9

\* Leaving a node takes away the state it pushed, if it pushed one.
MayPop(id) ==
  IF id \in pushed
  THEN /\ stack' = WithoutLast(stack) /\ pushed' = pushed \ {id}
       /\ depth' = depth - (IF id \in fallback THEN 1 ELSE 0)
  ELSE stack' = stack /\ pushed' = pushed /\ depth' = depth

Removes == Len(open) > 1 /\ open' = WithoutLast(open)

LEMMA RemoveFrame ==
  ASSUME Typed, Removes
  PROVE  /\ open' \in Seq(OpenFrames) /\ Len(open') = Len(open) - 1 /\ Len(open') > 0
         /\ \A n \in 1..Len(open) - 1 : open'[n] = open[n]
  BY DEF Typed, Removes, WithoutLast

LEMMA RemoveStacked ==
  ASSUME Typed, NamedInv, Stacked, Removes, MayPop(Top.id), fallback' = fallback
  PROVE  /\ Stacked' /\ stack' \in Seq(States) /\ Len(stack') > 0
         /\ \A n \in 1..Len(open) - 1 : stack'[HeightAt(n)'] = stack[HeightAt(n)]
         /\ Len(stack') = Top.height /\ Current' = Top.before /\ depth' = Top.depth
         /\ \A n \in 1..Len(open) - 1 : open[n].id # Top.id
<1>0. PICK L : L = Len(open)
  OBVIOUS
<1>1. /\ L \in Nat /\ L > 1 /\ L \in 1..L /\ Len(stack) \in Nat /\ stack \in Seq(States)
  BY <1>0, Basics DEF Typed, Removes
<1>2. /\ Len(open') = L - 1 /\ \A n \in 1..L - 1 : open'[n] = open[n]
  BY <1>0, RemoveFrame
<1>3. /\ Top.height \in 1..Len(stack) /\ stack[Top.height] = Top.before
      /\ Len(stack) = Top.height + Pushes(L) /\ depth = Top.depth + Deepens(L)
  BY <1>0, <1>1 DEF Stacked, Top, HeightAt, DepthAt
<1>4. \A n \in 1..L - 1 : open[n].id # Top.id
  <2>1. ASSUME NEW n \in 1..L - 1 PROVE open[n].id # Top.id
    <3>1. n < L /\ n \in 1..L /\ L \in 2..L
      BY <1>1
    <3>2. Older(open[n].id, Top.id)
      BY <1>0, <3>1 DEF NamedInv, Top
    <3>3. Top.id # <<>> /\ Top.id[1] \in Nat
      BY <1>0, <3>1 DEF NamedInv, Used, Top
    <3>4. open[n].id \in Ids /\ Top.id \in Ids
      BY <1>0, <3>1, Basics DEF OpenFrames
    <3>5. QED
      BY <3>2, <3>3, <3>4, OlderDiffers
  <2>2. QED
    BY <2>1
<1>5. /\ stack' \in Seq(States) /\ Len(stack') = Top.height /\ depth' = Top.depth
      /\ \A k \in 1..Top.height : stack'[k] = stack[k]
      /\ \A n \in 1..L - 1 : open[n].id \in pushed' <=> open[n].id \in pushed
  <2>1. CASE Top.id \in pushed
    <3>1. Len(stack) = Top.height + 1 /\ Pushes(L) = 1
      BY <1>0, <1>3, <2>1 DEF Pushes, Top
    <3>2. stack' = SubSeq(stack, 1, Top.height)
      BY <1>1, <1>3, <2>1, <3>1 DEF MayPop, WithoutLast
    <3>3. /\ stack' \in Seq(States) /\ Len(stack') = Top.height
          /\ \A k \in 1..Top.height : stack'[k] = stack[k]
      BY <1>1, <1>3, <3>2
    <3>4. depth' = Top.depth
      <4>1. Top.depth \in Int
        BY Basics DEF OpenFrames
      <4>2. QED
        BY <1>0, <1>3, <2>1, <4>1 DEF MayPop, Deepens, Top
    <3>5. QED
      BY <1>4, <2>1, <3>3, <3>4 DEF MayPop
  <2>2. CASE Top.id \notin pushed
    <3>1. Pushes(L) = 0 /\ Deepens(L) = 0 /\ Top.depth \in Int
      BY <1>0, <2>2, Basics DEF Pushes, Deepens, Top, OpenFrames
    <3>2. QED
      BY <1>1, <1>3, <2>2, <3>1 DEF MayPop
  <2>3. QED
    BY <2>1, <2>2
<1>6. ASSUME NEW n \in 1..L - 1
      PROVE  /\ open'[n].height \in 1..Len(stack')
             /\ HeightAt(n)' = open'[n].height + Pushes(n)'
             /\ DepthAt(n)' = open'[n].depth + Deepens(n)'
             /\ stack'[open'[n].height] = open'[n].before
             /\ stack'[HeightAt(n)'] = stack[HeightAt(n)]
  <2>0. n \in 1..L /\ n + 1 \in 1..L /\ n <= L /\ n + 1 <= L /\ n # L
    BY <1>1
  <2>1. /\ open[n].height \in 1..Len(stack) /\ stack[open[n].height] = open[n].before
        /\ HeightAt(n) = open[n].height + Pushes(n) /\ DepthAt(n) = open[n].depth + Deepens(n)
        /\ open[n].height <= Top.height /\ open[n + 1].height <= Top.height
        /\ open[n + 1].height \in 1..Len(stack)
    BY <1>0, <1>1, <2>0 DEF Stacked, Top
  <2>2. open'[n] = open[n]
    BY <1>2
  <2>3. Pushes(n)' = Pushes(n) /\ Deepens(n)' = Deepens(n)
    BY <1>5, <2>2 DEF Pushes, Deepens
  <2>4. HeightAt(n)' = HeightAt(n) /\ DepthAt(n)' = DepthAt(n)
    <3>1. CASE n = L - 1
      BY <1>0, <1>1, <1>2, <1>5, <3>1 DEF HeightAt, DepthAt, Top
    <3>2. CASE n # L - 1
      <4>1. n + 1 \in 1..L - 1 /\ n # Len(open')
        BY <1>1, <1>2, <3>2
      <4>2. open'[n + 1] = open[n + 1]
        BY <1>2, <4>1
      <4>3. QED
        BY <1>0, <2>0, <4>1, <4>2 DEF HeightAt, DepthAt
    <3>3. QED
      BY <3>1, <3>2
  <2>5. HeightAt(n) \in 1..Top.height
    BY <1>0, <2>0, <2>1 DEF HeightAt
  <2>6. stack'[HeightAt(n)'] = stack[HeightAt(n)]
    BY <1>5, <2>4, <2>5
  <2>7. open[n].height \in 1..Len(stack')
    BY <1>3, <1>5, <2>1
  <2>8. QED
    BY <1>5, <2>1, <2>2, <2>3, <2>4, <2>6, <2>7
<1>7. ASSUME NEW m \in 1..L - 1, NEW n \in 1..L - 1, m <= n
      PROVE  open'[m].height <= open'[n].height
  <2>1. m \in 1..L /\ n \in 1..L
    BY <1>1
  <2>2. QED
    BY <1>0, <1>2, <1>7, <2>1 DEF Stacked
<1>8. Stacked'
  BY <1>2, <1>6, <1>7 DEF Stacked
<1>9. Current' = Top.before
  BY <1>3, <1>5 DEF Current
<1>10. QED
  BY SMTT(30), <1>0, <1>3, <1>4, <1>5, <1>6, <1>8, <1>9

LEMMA AddNamed ==
  ASSUME Typed, NamedInv, NEW new, NEW entered, Adds(new, entered), new.id \in Ids,
         nodes' \in Nat, nodes' >= nodes,
         Len(new.id) > 0, new.id[1] \in Nat, new.id[1] < nodes', Older(Top.id, new.id),
         new.kind = "try" => Len(new.id) = 1,
         \A id \in DOMAIN suites' \cup DOMAIN elifs' \cup fallback' :
           Len(id) > 1 /\ id[1] \in Nat /\ id[1] < nodes',
         pushed' = pushed \/ (pushed' = pushed \cup {new.id} /\ Len(new.id) > 1),
         \A id \in fallback' :
           /\ new.kind = "if" => new.id[1] # id[1]
           /\ \A n \in 1..Len(open) : open[n].kind = "if" => open[n].id[1] # id[1]
  PROVE  NamedInv'
<1>0. PICK L : L = Len(open)
  OBVIOUS
<1>1. L \in Nat /\ L \in 1..L /\ 1 \in 1..L /\ nodes \in Nat
  BY <1>0, Basics DEF Typed
<1>2. /\ Len(open') = L + 1 /\ open'[L + 1] = new
      /\ \A n \in 1..L : open'[n].id = open[n].id /\ open'[n].kind = open[n].kind
  BY <1>0, AddKeeps DEF Adds, SameButAt
<1>3. \A n \in 1..L + 1 : n \in 1..L \/ n = L + 1
  BY <1>1
<1>4. open'[1].id = <<>> /\ open'[1].kind = "suite"
  BY <1>1, <1>2 DEF NamedInv
<1>5. ASSUME NEW n \in 2..L + 1 PROVE Used(open[n].id)'
  <2>1. CASE n = L + 1
    BY <1>2, <2>1 DEF Used
  <2>2. CASE n \in 2..L
    <3>1. n \in 1..L /\ Used(open[n].id)
      BY <1>0, <1>1, <2>2 DEF NamedInv
    <3>2. QED
      BY <1>1, <1>2, <3>1 DEF Used
  <2>3. QED
    BY <1>1, <2>1, <2>2
<1>6. ASSUME NEW m \in 1..L + 1, NEW n \in 1..L + 1, m < n
      PROVE  Older(open'[m].id, open'[n].id)
  <2>1. CASE n \in 1..L
    <3>1. m \in 1..L
      BY <1>1, <1>6, <2>1
    <3>2. QED
      BY <1>0, <1>2, <1>6, <2>1, <3>1 DEF NamedInv
  <2>2. CASE n = L + 1
    <3>1. m \in 1..L
      BY <1>1, <1>6, <2>2
    <3>2. new.id # <<>>
      OBVIOUS
    <3>3. QED
      BY <1>0, <1>2, <2>2, <3>1, <3>2, NewestId
  <2>3. QED
    BY <1>3, <2>1, <2>2
<1>7. ASSUME NEW n \in 1..L + 1, open'[n].kind = "try" PROVE Len(open'[n].id) = 1
  <2>1. CASE n \in 1..L
    BY SMTT(30), <1>0, <1>2, <1>7, <2>1 DEF NamedInv
  <2>2. CASE n = L + 1
    BY <1>2, <1>7, <2>2
  <2>3. QED
    BY <1>3, <2>1, <2>2
<1>8. \A id \in DOMAIN suites' \cup DOMAIN elifs' \cup fallback' : Used(id)' /\ Len(id) > 1
  <2>1. ASSUME NEW id \in DOMAIN suites' \cup DOMAIN elifs' \cup fallback'
        PROVE  Used(id)' /\ Len(id) > 1
    <3>1. Len(id) > 1 /\ id[1] \in Nat /\ id[1] < nodes'
      OBVIOUS
    <3>2. Len(id) > 0
      BY <3>1, Z3
    <3>3. QED
      BY <3>1, <3>2 DEF Used
  <2>2. QED
    BY <2>1
<1>9. ASSUME NEW id \in pushed' PROVE Len(id) > 1 /\ \E n \in 2..L + 1 : open'[n].id = id
  <2>1. CASE id \in pushed
    <3>1. PICK n \in 2..L : open[n].id = id
      BY <1>0, <2>1 DEF NamedInv
    <3>2. n \in 1..L /\ n \in 2..L + 1
      BY <1>1
    <3>3. QED
      BY <1>2, <2>1, <3>1, <3>2 DEF NamedInv
  <2>2. CASE id = new.id /\ Len(id) > 1
    <3>1. L + 1 \in 2..L + 1
      BY <1>1
    <3>2. QED
      BY <1>2, <2>2, <3>1
  <2>3. QED
    BY <2>1, <2>2
<1>10. \A id \in fallback' : \A n \in 1..L + 1 : open'[n].kind = "if" => open'[n].id[1] # id[1]
  BY <1>0, <1>2, <1>3
<1>11. QED
  BY <1>2, <1>4, <1>5, <1>6, <1>7, <1>8, <1>9, <1>10 DEF NamedInv

LEMMA RemoveNamed ==
  ASSUME Typed, NamedInv, Stacked, Removes, MayPop(Top.id),
         nodes' = nodes, suites' = suites, elifs' = elifs, fallback' = fallback
  PROVE  NamedInv'
<1>0. PICK L : L = Len(open)
  OBVIOUS
<1>1. L \in Nat /\ L > 1 /\ 1 \in 1..L - 1
  BY <1>0, Basics DEF Removes
<1>2. Len(open') = L - 1 /\ \A n \in 1..L - 1 : open'[n] = open[n]
  BY <1>0, RemoveFrame
<1>3. \A id : Used(id)' <=> Used(id)
  BY DEF Used
<1>4. \A n \in 1..L - 1 : n \in 1..L
  BY <1>1
<1>5. \A n \in 2..L - 1 : n \in 2..L /\ n \in 1..L - 1
  BY <1>1
<1>6. ASSUME NEW id \in pushed' PROVE Len(id) > 1 /\ \E n \in 2..L - 1 : open'[n].id = id
  <2>1. id \in pushed /\ id # Top.id
    BY DEF MayPop
  <2>2. PICK n \in 2..L : open[n].id = id
    BY <1>0, <2>1 DEF NamedInv
  <2>3. n \in 2..L - 1
    BY <1>0, <1>1, <2>1, <2>2 DEF Top
  <2>4. QED
    BY <1>2, <1>5, <2>1, <2>2, <2>3 DEF NamedInv
<1>7. open'[1].id = <<>> /\ open'[1].kind = "suite"
  BY <1>1, <1>2 DEF NamedInv
<1>8. \A n \in 2..L - 1 : Used(open[n].id)'
  BY <1>0, <1>2, <1>3, <1>5 DEF NamedInv
<1>9. \A m, n \in 1..L - 1 : m < n => Older(open'[m].id, open'[n].id)
  BY <1>0, <1>2, <1>4 DEF NamedInv
<1>10. \A n \in 1..L - 1 : open'[n].kind = "try" => Len(open'[n].id) = 1
  BY <1>0, <1>2, <1>4 DEF NamedInv
<1>11. \A id \in fallback' : \A n \in 1..L - 1 : open'[n].kind = "if" => open'[n].id[1] # id[1]
  BY <1>0, <1>2, <1>4 DEF NamedInv
<1>12. \A id \in DOMAIN suites' \cup DOMAIN elifs' \cup fallback' : Used(id)' /\ Len(id) > 1
  BY <1>3 DEF NamedInv
<1>13. QED
  BY <1>2, <1>6, <1>7, <1>8, <1>9, <1>10, <1>11, <1>12 DEF NamedInv

-----------------------------------------------------------------------------
(* What is recorded for the parts of a statement stays recorded.            *)

RecordsKept(id) ==
  \A p \in Nat \cup Parts :
    /\ Child(id, p) \in DOMAIN suites' <=> Child(id, p) \in DOMAIN suites
    /\ Child(id, p) \in DOMAIN suites => suites'[Child(id, p)] = suites[Child(id, p)]
    /\ Child(id, p) \in DOMAIN elifs' <=> Child(id, p) \in DOMAIN elifs
    /\ Child(id, p) \in DOMAIN elifs => elifs'[Child(id, p)] = elifs[Child(id, p)]

\* Going on to a later part leaves fewer parts to come.
Onward(f, entered) ==
  /\ f.kind = "if" => (entered = "test" => f.at = "test") /\ (entered # "orelse" => f.at # "orelse")
  /\ f.kind = "try" => f.at \in Nat /\ entered \in Nat /\ f.at <= entered

LEMMA AwaitedKept ==
  ASSUME NEW f, NEW g, SameButAt(g, f), Onward(f, g.at), Awaited(f), RecordsKept(f.id)
  PROVE  Awaited(g)'
<1>1. /\ g.kind = f.kind /\ g.id = f.id /\ g.syntax = f.syntax /\ g.truth = f.truth
      /\ g.plain = f.plain
  BY DEF SameButAt
<1>2. /\ \A branch : BranchTruth(g, branch) = BranchTruth(f, branch)
      /\ HandlerTruth(g) = HandlerTruth(f)
  BY <1>1 DEF BranchTruth, HandlerTruth
<1>3. ASSUME NEW part \in Parts, NEW branch, FitsBranch(f, suites, part, branch)
      PROVE  FitsBranch(g, suites', part, branch)
  <2>1. part \in Nat \cup Parts
    OBVIOUS
  <2>2. Child(f.id, part) \in DOMAIN suites' /\ suites'[Child(f.id, part)] = suites[Child(f.id, part)]
    BY <1>3, <2>1 DEF FitsBranch, RecordsKept
  <2>3. QED
    BY <1>1, <1>2, <1>3, <2>2 DEF FitsBranch
<1>4. ASSUME NEW part \in Parts, NEW branch, FitsBranch(f, elifs, part, branch)
      PROVE  FitsBranch(g, elifs', part, branch)
  <2>1. part \in Nat \cup Parts
    OBVIOUS
  <2>2. Child(f.id, part) \in DOMAIN elifs' /\ elifs'[Child(f.id, part)] = elifs[Child(f.id, part)]
    BY <1>4, <2>1 DEF FitsBranch, RecordsKept
  <2>3. QED
    BY <1>1, <1>2, <1>4, <2>2 DEF FitsBranch
<1>5. "body" \in Parts /\ "orelse" \in Parts
  BY DEF Parts
<1>6. g.kind = "if" /\ g.at = "test" => FitsBranch(g, suites', "body", TRUE)
  BY <1>1, <1>3, <1>5 DEF Awaited, Onward
<1>7. g.kind = "if" /\ g.at # "orelse" /\ g.syntax.orelse = "else" =>
        FitsBranch(g, suites', "orelse", FALSE)
  BY <1>1, <1>3, <1>5 DEF Awaited, Onward
<1>8. g.kind = "if" /\ g.at # "orelse" /\ g.syntax.orelse = "elif" =>
        FitsBranch(g, elifs', "orelse", FALSE)
  BY <1>1, <1>4, <1>5 DEF Awaited, Onward
<1>9. ASSUME g.kind = "try", NEW m \in Nat, g.at < m, Child(g.id, m) \in DOMAIN suites'
      PROVE  Keeps(suites'[Child(g.id, m)], HandlerTruth(g))
  <2>1. f.at < m /\ f.kind = "try"
    BY <1>1, <1>9 DEF Onward
  <2>2. m \in Nat \cup Parts
    OBVIOUS
  <2>3. Child(f.id, m) \in DOMAIN suites /\ suites'[Child(f.id, m)] = suites[Child(f.id, m)]
    BY <1>1, <1>9, <2>2 DEF RecordsKept
  <2>4. QED
    BY <1>1, <1>2, <2>1, <2>3 DEF Awaited
<1>10. QED
  BY <1>6, <1>7, <1>8, <1>9 DEF Awaited

LEMMA AddEarned ==
  ASSUME Typed, Earned, NEW new, NEW entered, Adds(new, entered),
         \A n \in 1..Len(open) : stack'[HeightAt(n)'] = stack[HeightAt(n)],
         \A n \in 1..Len(open) : RecordsKept(open[n].id),
         Onward(Top, entered),
         FitsTruth(stack'[Len(stack')], new.truth, new.plain), Awaited(new)'
  PROVE  Earned'
<1>0. PICK L : L = Len(open)
  OBVIOUS
<1>1. L \in Nat /\ L \in 1..L
  BY <1>0, Basics DEF Typed
<1>2. /\ Len(open') = L + 1 /\ open'[L + 1] = new
      /\ \A n \in 1..L : SameButAt(open'[n], open[n])
      /\ \A n \in 1..L : n # L => open'[n] = open[n]
      /\ open'[L].at = entered
  BY <1>0, AddKeeps DEF Adds
<1>3. ASSUME NEW n \in 1..L
      PROVE  FitsTruth(stack'[HeightAt(n)'], open'[n].truth, open'[n].plain) /\ Awaited(open[n])'
  <2>1. FitsTruth(stack[HeightAt(n)], open[n].truth, open[n].plain) /\ Awaited(open[n])
    BY <1>0 DEF Earned
  <2>2. FitsTruth(stack'[HeightAt(n)'], open'[n].truth, open'[n].plain)
    BY <1>0, <1>2, <2>1 DEF SameButAt
  <2>3. PICK f : f = open[n]
    OBVIOUS
  <2>4. PICK g : g = open'[n]
    OBVIOUS
  <2>5. Onward(f, g.at)
    <3>1. CASE n = L
      BY <1>0, <1>2, <2>3, <2>4, <3>1 DEF Top
    <3>2. CASE n # L
      <4>1. g = f
        BY <1>2, <2>3, <2>4, <3>2
      <4>2. f.kind = "try" => f.at \in Nat
        BY <1>0, <2>3 DEF Typed, Kinds
      <4>3. QED
        BY <4>1, <4>2 DEF Onward
    <3>3. QED
      BY <3>1, <3>2
  <2>6. SameButAt(g, f) /\ Awaited(f) /\ RecordsKept(f.id)
    BY <1>0, <1>2, <2>1, <2>3, <2>4
  <2>7. Awaited(g)'
    BY <2>5, <2>6, AwaitedKept
  <2>8. QED
    BY <2>2, <2>4, <2>7
<1>4. FitsTruth(stack'[HeightAt(L + 1)'], open'[L + 1].truth, open'[L + 1].plain) /\ Awaited(open[L + 1])'
  <2>1. HeightAt(L + 1)' = Len(stack')
    BY <1>2 DEF HeightAt
  <2>2. QED
    BY <1>2, <2>1
<1>5. \A n \in 1..L + 1 : n \in 1..L \/ n = L + 1
  BY <1>1
<1>6. QED
  BY <1>2, <1>3, <1>4, <1>5 DEF Earned

LEMMA RemoveEarned ==
  ASSUME Typed, Earned, Removes,
         \A n \in 1..Len(open) - 1 : stack'[HeightAt(n)'] = stack[HeightAt(n)],
         suites' = suites, elifs' = elifs
  PROVE  Earned'
<1>0. PICK L : L = Len(open)
  OBVIOUS
<1>1. L \in Nat
  BY <1>0, Basics
<1>2. Len(open') = L - 1 /\ \A n \in 1..L - 1 : open'[n] = open[n]
  BY <1>0, RemoveFrame
<1>3. ASSUME NEW n \in 1..L - 1
      PROVE  FitsTruth(stack'[HeightAt(n)'], open'[n].truth, open'[n].plain) /\ Awaited(open[n])'
  <2>1. FitsTruth(stack[HeightAt(n)], open[n].truth, open[n].plain) /\ Awaited(open[n])
    <3>1. n \in 1..Len(open)
      BY <1>0, <1>1
    <3>2. QED
      BY <3>1 DEF Earned
  <2>2. PICK f : f = open[n]
    OBVIOUS
  <2>3. Awaited(f)'
    BY <2>1, <2>2 DEF Awaited, FitsBranch
  <2>4. QED
    BY <1>0, <1>2, <2>1, <2>2, <2>3
<1>4. QED
  BY <1>2, <1>3 DEF Earned

LEMMA AddEnclosed ==
  ASSUME Typed, Enclosed, NEW new, NEW entered, Adds(new, entered), Through(open'[Len(open)], new)
  PROVE  Enclosed'
<1>0. PICK L : L = Len(open)
  OBVIOUS
<1>1. L \in Nat /\ L \in 1..L
  BY <1>0, Basics DEF Typed
<1>2. /\ Len(open') = L + 1 /\ open'[L + 1] = new
      /\ \A n \in 1..L : SameButAt(open'[n], open[n])
      /\ \A n \in 1..L : n # L => open'[n] = open[n]
  BY <1>0, AddKeeps DEF Adds
<1>3. ASSUME NEW n \in 1..L PROVE Through(open'[n], open'[n + 1])
  <2>1. CASE n = L
    BY <1>0, <1>2, <2>1
  <2>2. CASE n # L
    <3>1. n \in 1..L - 1 /\ n + 1 \in 1..L
      BY <1>1, <2>2
    <3>2. open'[n] = open[n] /\ open'[n + 1].truth = open[n + 1].truth
      BY <1>2, <2>2, <3>1 DEF SameButAt
    <3>3. Through(open[n], open[n + 1])
      BY <1>0, <3>1 DEF Enclosed
    <3>4. QED
      BY <3>2, <3>3 DEF Through
  <2>3. QED
    BY <2>1, <2>2
<1>4. Len(open') - 1 = L
  BY <1>1, <1>2
<1>5. QED
  BY <1>3, <1>4 DEF Enclosed, Through, BranchTruth

LEMMA RemoveEnclosed ==
  ASSUME Typed, Enclosed, Removes PROVE Enclosed'
<1>0. PICK L : L = Len(open)
  OBVIOUS
<1>1. L \in Nat
  BY <1>0, Basics
<1>2. Len(open') = L - 1 /\ \A n \in 1..L - 1 : open'[n] = open[n]
  BY <1>0, RemoveFrame
<1>3. ASSUME NEW n \in 1..L - 2 PROVE Through(open'[n], open'[n + 1])
  <2>1. n \in 1..L - 1 /\ n + 1 \in 1..L - 1
    BY <1>1
  <2>2. Through(open[n], open[n + 1])
    BY <1>0, <2>1 DEF Enclosed
  <2>3. QED
    BY <1>2, <2>1, <2>2
<1>4. Len(open') - 1 = L - 2
  BY <1>1, <1>2
<1>5. QED
  BY <1>3, <1>4 DEF Enclosed, Through, BranchTruth

-----------------------------------------------------------------------------
(* The states of the branches of an if statement.                           *)

LEMMA InterpretersAre ==
  ASSUME NEW i \in Interpreters
  PROVE  /\ i \in Interpreter(Nat, Nat) /\ i.minor \in Targets /\ i.typing \in BOOLEAN
         /\ Context(i) \in {"runtime", "typing"}
         /\ \A c \in {"runtime", "typing"} : i.typing = (c = "typing") => Context(i) = c
  BY TargetsAssumption, ReachabilityAssumption DEF Interpreters, Interpreter, Context

LEMMA GuardsAre ==
  ASSUME NEW test \in Guards PROVE WellFormed(test)
  BY TargetsAssumption, ReachabilityAssumption DEF Guards

LEMMA BranchFits ==
  ASSUME NEW test \in Guards, NEW active \in States, NEW T \in SUBSET Interpreters,
         NEW plain \in BOOLEAN, NEW branch \in BOOLEAN, FitsTruth(active, T, plain)
  PROVE  /\ Branch(active, test, branch) \in States
         /\ FitsTruth(Branch(active, test, branch), {i \in T : Holds(test, i) = branch},
                 plain /\ Decidable(test))
<1> DEFINE b == Branch(active, test, branch)
<1>0. WellFormed(test)
  BY GuardsAre
<1>1. /\ b \in States /\ b.versions \subseteq active.versions /\ b.contexts \subseteq active.contexts
      /\ active.contexts \subseteq {"runtime", "typing"}
  BY DEF States, Branch, Contexts
<1>2. Keeps(b, {i \in T : Holds(test, i) = branch})
  <2>1. ASSUME NEW i \in T, Holds(test, i) = branch
        PROVE  i.minor \in b.versions /\ Context(i) \in b.contexts
    <3>1. i \in Interpreter(Nat, Nat) /\ i.minor \in active.versions /\ Context(i) \in active.contexts
      BY InterpretersAre DEF FitsTruth, Keeps
    <3>2. QED
      BY <1>0, <2>1, <3>1, BranchSound
  <2> HIDE DEF b
  <2>2. QED
    BY <2>1 DEF Keeps
<1>3. ASSUME plain, Decidable(test) PROVE Fills(b, {i \in T : Holds(test, i) = branch})
  <2>1. ASSUME NEW v \in b.versions, NEW c \in b.contexts
        PROVE  \E i \in {i \in T : Holds(test, i) = branch} : i.minor = v /\ i.typing = (c = "typing")
    <3>1. v \in active.versions /\ c \in active.contexts /\ c \in {"runtime", "typing"}
      BY <1>1
    <3>2. PICK i \in T : i.minor = v /\ i.typing = (c = "typing")
      BY <1>3, <3>1 DEF FitsTruth, Fills
    <3>3. i \in Interpreter(Nat, Nat) /\ Context(i) = c
      BY <3>1, <3>2, InterpretersAre
    <3>4. Holds(test, i) = branch
      BY <1>0, <1>3, <3>2, <3>3, BranchExact
    <3> HIDE DEF b
    <3>5. QED
      BY <3>2, <3>4
  <2> HIDE DEF b
  <2>2. QED
    BY <2>1 DEF Fills
<1>4. QED
  BY <1>1, <1>2, <1>3 DEF FitsTruth

\* The state an if statement is visited in, and what it records.
Active == stack'[Len(stack')]

LEMMA VisitIfRecords ==
  ASSUME Typed, NEW id \in Ids, NEW test \in Guards, NEW orelse \in OrElse, NEW path, NEW truth,
         NEW plain, VisitIf(id, test, orelse, path, truth, plain), Active \in States
  PROVE  /\ DOMAIN suites \subseteq DOMAIN suites' /\ DOMAIN elifs \subseteq DOMAIN elifs'
         /\ DOMAIN suites' \cup DOMAIN elifs' \subseteq
              DOMAIN suites \cup DOMAIN elifs \cup {Child(id, "body"), Child(id, "orelse")}
         /\ \A k : k \notin {Child(id, "body"), Child(id, "orelse")} =>
              /\ k \in DOMAIN suites' <=> k \in DOMAIN suites
              /\ k \in DOMAIN elifs' <=> k \in DOMAIN elifs
              /\ k \in DOMAIN suites => suites'[k] = suites[k]
              /\ k \in DOMAIN elifs => elifs'[k] = elifs[k]
         /\ \A k \in DOMAIN suites' : suites'[k] \in States
         /\ \A k \in DOMAIN elifs' : elifs'[k] \in States
         /\ Child(id, "body") \in DOMAIN suites'
         /\ suites'[Child(id, "body")] = Branch(Active, test, TRUE)
         /\ orelse = "else" =>
              /\ Child(id, "orelse") \in DOMAIN suites'
              /\ suites'[Child(id, "orelse")] = Branch(Active, test, FALSE)
         /\ orelse = "elif" =>
              /\ Child(id, "orelse") \in DOMAIN elifs'
              /\ elifs'[Child(id, "orelse")] = Branch(Active, test, FALSE)
<1> DEFINE yes == Branch(Active, test, TRUE)
           no == Branch(Active, test, FALSE)
           k1 == Child(id, "body")
           k2 == Child(id, "orelse")
           body == Put(suites, k1, yes)
<1>1. yes \in States /\ no \in States
  BY DEF Branch, Contexts, States
<1>2. k1 # k2
  BY ChildIs DEF Parts
<1>3. /\ suites' = IF orelse = "else" THEN Put(body, k2, no) ELSE body
      /\ elifs' = IF orelse = "elif" THEN Put(elifs, k2, no) ELSE elifs
  BY DEF VisitIf, Active
<1> HIDE DEF yes, no, k1, k2
<1>4. /\ DOMAIN body = DOMAIN suites \cup {k1} /\ body[k1] = yes
      /\ \A k \in DOMAIN suites : k # k1 => body[k] = suites[k]
  BY DEF Put
<1> HIDE DEF body
<1>5. CASE orelse = "else"
  <2>1. /\ DOMAIN suites' = DOMAIN body \cup {k2} /\ suites'[k2] = no
        /\ \A k \in DOMAIN body : k # k2 => suites'[k] = body[k]
    BY <1>3, <1>5 DEF Put
  <2>2. elifs' = elifs
    BY <1>3, <1>5
  <2>3. suites'[k1] = yes
    BY <1>2, <1>4, <2>1
  <2>4. \A k \in DOMAIN suites : k \notin {k1, k2} => suites'[k] = suites[k]
    BY <1>4, <2>1
  <2>5. \A k \in DOMAIN suites' : suites'[k] \in States
    BY <1>1, <1>4, <2>1, <2>3, <2>4 DEF Typed
  <2>6. \A k \in DOMAIN elifs' : elifs'[k] \in States
    BY <2>2 DEF Typed
  <2>7. QED
    BY <1>4, <1>5, <2>1, <2>2, <2>3, <2>4, <2>5, <2>6 DEF yes, no, k1, k2
<1>6. CASE orelse = "elif"
  <2>1. suites' = body
    BY <1>3, <1>6
  <2>2. /\ DOMAIN elifs' = DOMAIN elifs \cup {k2} /\ elifs'[k2] = no
        /\ \A k \in DOMAIN elifs : k # k2 => elifs'[k] = elifs[k]
    BY <1>3, <1>6 DEF Put
  <2>3. \A k \in DOMAIN suites' : suites'[k] \in States
    BY <1>1, <1>4, <2>1 DEF Typed
  <2>4. \A k \in DOMAIN elifs' : elifs'[k] \in States
    BY <1>1, <2>2 DEF Typed
  <2>5. QED
    BY <1>4, <1>6, <2>1, <2>2, <2>3, <2>4 DEF yes, no, k1, k2
<1>7. CASE orelse = "none"
  <2>1. suites' = body /\ elifs' = elifs
    BY <1>3, <1>7
  <2>2. \A k \in DOMAIN suites' : suites'[k] \in States
    BY <1>1, <1>4, <2>1 DEF Typed
  <2>3. \A k \in DOMAIN elifs' : elifs'[k] \in States
    BY <2>1 DEF Typed
  <2>4. QED
    BY <1>4, <1>7, <2>1, <2>2, <2>3 DEF yes, no, k1, k2
<1>8. QED
  BY <1>5, <1>6, <1>7 DEF OrElse

LEMMA NewKeys ==
  ASSUME Typed, NamedInv, NEW id \in Ids, id # <<>>, id[1] \in Nat, Older(Top.id, id)
  PROVE  \A n \in 1..Len(open), p \in Nat \cup Parts, q \in Nat \cup Parts :
           Child(open[n].id, p) # Child(id, q)
<1>1. ASSUME NEW n \in 1..Len(open), NEW p \in Nat \cup Parts, NEW q \in Nat \cup Parts
      PROVE  Child(open[n].id, p) # Child(id, q)
  <2>1. open[n].id \in Ids
    BY Basics DEF OpenFrames
  <2>2. open[n].id # <<>> => open[n].id[1] \in Nat
    <3>1. CASE n = 1
      BY <3>1 DEF NamedInv
    <3>2. CASE n # 1
      <4>1. n \in 2..Len(open)
        BY <3>2, Basics
      <4>2. QED
        BY <4>1 DEF NamedInv, Used
    <3>3. QED
      BY <3>1, <3>2
  <2>3. Older(open[n].id, id)
    BY NewestId
  <2>4. QED
    BY <2>1, <2>2, <2>3, PartsApart
<1>2. QED
  BY <1>1

-----------------------------------------------------------------------------
(* Every action.                                                            *)

LEMMA AddTyped ==
  ASSUME Typed, NEW new, NEW entered, Adds(new, entered), Kinds(new), new.id \in Ids,
         Top.kind = "if" => entered \in Parts \cup {"test"}, Top.kind = "try" => entered \in Nat,
         MayPush(new.id), nodes' \in 0..MaxNodes,
         DOMAIN suites' \cup DOMAIN elifs' \cup fallback' \subseteq Ids,
         \A k \in DOMAIN suites' : suites'[k] \in States,
         \A k \in DOMAIN elifs' : elifs'[k] \in States
  PROVE  Typed'
<1>0. PICK L : L = Len(open)
  OBVIOUS
<1>1. L \in Nat /\ L \in 1..L
  BY <1>0, Basics DEF Typed
<1>2. /\ open' \in Seq(OpenFrames) /\ Len(open') = L + 1 /\ open'[L + 1] = new
      /\ SameButAt(open'[L], Top) /\ open'[L].at = entered
      /\ \A n \in 1..L : n # L => open'[n] = open[n]
  BY <1>0 DEF Adds
<1>3. ASSUME NEW n \in 1..L + 1 PROVE Kinds(open'[n])
  <2>1. CASE n \in 1..L /\ n # L
    BY <1>0, <1>2, <2>1 DEF Typed
  <2>2. CASE n = L
    <3>1. Kinds(Top)
      BY Basics
    <3>2. QED
      BY <1>2, <2>2, <3>1 DEF Kinds, SameButAt
  <2>3. CASE n = L + 1
    BY <1>2, <2>3
  <2>4. QED
    BY <1>1, <2>1, <2>2, <2>3
<1>4. stack' \in Seq(States) /\ Len(stack') > 0 /\ depth' \in Int /\ pushed' \subseteq Ids
  <2>1. stack \in Seq(States) /\ Len(stack) > 0 /\ depth \in Int /\ pushed \subseteq Ids
    BY DEF Typed
  <2>2. CASE stack' = stack /\ pushed' = pushed /\ depth' = depth
    BY <2>1, <2>2
  <2>3. ASSUME NEW s \in States, stack' = Append(stack, s), pushed' = pushed \cup {new.id},
               depth' = depth + (IF new.id \in fallback' THEN 1 ELSE 0)
        PROVE  stack' \in Seq(States) /\ Len(stack') > 0 /\ depth' \in Int /\ pushed' \subseteq Ids
    BY <2>1, <2>3
  <2>4. QED
    BY <2>2, <2>3 DEF MayPush
<1>5. Len(open') > 0
  BY <1>1, <1>2
<1>6. QED
  BY <1>2, <1>3, <1>4, <1>5 DEF Typed, Kinds

LEMMA RemoveStep ==
  ASSUME Inv, Removes, MayPop(Top.id),
         nodes' = nodes, suites' = suites, elifs' = elifs, fallback' = fallback
  PROVE  /\ Inv' /\ Len(open') < Len(open)
         /\ Len(stack') = Top.height /\ Current' = Top.before /\ depth' = Top.depth
<1> USE DEF Inv
<1>1. /\ Stacked' /\ stack' \in Seq(States) /\ Len(stack') > 0
      /\ \A n \in 1..Len(open) - 1 : stack'[HeightAt(n)'] = stack[HeightAt(n)]
      /\ Len(stack') = Top.height /\ Current' = Top.before /\ depth' = Top.depth
  BY RemoveStacked
<1>2. NamedInv' /\ Earned' /\ Enclosed'
  BY <1>1, RemoveNamed, RemoveEarned, RemoveEnclosed
<1>3. Typed'
  <2>0. PICK L : L = Len(open)
    OBVIOUS
  <2>1. /\ open' \in Seq(OpenFrames) /\ Len(open') = L - 1 /\ Len(open') > 0
        /\ \A n \in 1..L - 1 : open'[n] = open[n]
    BY <2>0, RemoveFrame
  <2>2. \A n \in 1..Len(open') : Kinds(open'[n])
    BY <2>0, <2>1, Basics DEF Typed
  <2>3. depth' \in Int
    BY <1>1, Basics DEF OpenFrames
  <2>4. pushed' \subseteq Ids
    BY DEF MayPop, Typed
  <2>5. QED
    BY <1>1, <2>1, <2>2, <2>3, <2>4 DEF Typed, Kinds
<1>4. Len(open') < Len(open)
  BY RemoveFrame, Basics
<1>5. QED
  BY <1>1, <1>2, <1>3, <1>4

LEMMA LeaveIsPop ==
  ASSUME Typed, Leave(Top.id) PROVE MayPop(Top.id)
  BY DEF Leave, MayPop, Typed

\* The innermost frame, gone on to another part, lets these interpreters through.
LetsThrough(entered, truth) ==
  /\ Top.kind = "suite" => truth = Top.truth
  /\ Top.kind = "if" => entered # "test" /\ truth = BranchTruth(Top, entered = "body")
  /\ Top.kind = "try" => truth \subseteq Top.truth

LEMMA VisitIfStep ==
  ASSUME Inv, NEW id \in Ids, NEW test \in Guards, NEW orelse \in OrElse, NEW path,
         NEW truth \in SUBSET Interpreters, NEW plain \in BOOLEAN, NEW entered,
         VisitIf(id, test, orelse, path, truth, plain),
         (path = open /\ entered = Top.at) \/ (entered \in Parts /\ path = At(entered)),
         Top.kind = "if" => entered \in Parts \cup {"test"}, Top.kind # "try",
         nodes' \in 0..MaxNodes, nodes' >= nodes,
         Len(id) > 0, id[1] \in Nat, id[1] < nodes', Older(Top.id, id),
         \A key \in fallback : id[1] # key[1],
         id \in DOMAIN elifs => FitsTruth(elifs[id], truth, plain) /\ Len(id) > 1,
         id \notin DOMAIN elifs => FitsTruth(Current, truth, plain),
         Onward(Top, entered), LetsThrough(entered, truth)
  PROVE  Inv' /\ Len(open') = Len(open) + 1
<1> USE DEF Inv
<1> DEFINE new == Frame("if", id, [test |-> test, orelse |-> orelse], "test", truth, plain)
<1>1. /\ new.kind = "if" /\ new.id = id /\ new.syntax = [test |-> test, orelse |-> orelse]
      /\ new.at = "test" /\ new.truth = truth /\ new.plain = plain
      /\ new.height = Len(stack) /\ new.before = Current /\ new.depth = depth
  BY DEF Frame
<1>2. new \in OpenFrames /\ Kinds(new)
  <2>1. [test |-> test, orelse |-> orelse] \in IfSyntax
    BY DEF IfSyntax
  <2>2. Len(stack) \in Nat /\ Current \in States /\ depth \in Int
    BY Basics DEF Typed
  <2>3. new \in OpenFrames
    BY <2>1, <2>2 DEF Frame, OpenFrames
  <2> HIDE DEF new
  <2>4. QED
    BY <1>1, <2>1, <2>3 DEF Kinds
<1>3. open' = Append(path, new)
  BY DEF VisitIf
<1> HIDE DEF new
<1>4. Adds(new, entered)
  <2>1. CASE path = open /\ entered = Top.at
    BY <1>2, <1>3, <2>1, AddToOpen
  <2>2. CASE entered \in Parts /\ path = At(entered)
    BY <1>2, <1>3, <2>2, AddToAt
  <2>3. QED
    BY <2>1, <2>2
<1>5. /\ EnterIf(id) /\ fallback' = fallback /\ depth' = depth
  BY DEF VisitIf
<1>6. id # <<>> /\ id \notin fallback
  BY DEF NamedInv
<1>7. \A n \in 1..Len(open) : open[n].id # id
  BY <1>6, NewestId
<1>8. id \notin pushed
  BY <1>6, NewestId
<1>9. MayPush(new.id) /\ FitsTruth(Active, truth, plain) /\ Active \in States
  <2>1. CASE id \in DOMAIN elifs
    <3>1. elifs[id] \in States
      BY <2>1 DEF Typed
    <3>2. stack' = Append(stack, elifs[id]) /\ pushed' = pushed \cup {id}
      BY <1>5, <2>1 DEF EnterIf
    <3>3. depth' = depth + (IF id \in fallback' THEN 1 ELSE 0)
      BY <1>5, <1>6 DEF Typed
    <3>4. Active = elifs[id]
      BY <3>1, <3>2 DEF Active, Typed
    <3>5. QED
      BY <1>1, <2>1, <3>1, <3>2, <3>3, <3>4 DEF MayPush
  <2>2. CASE id \notin DOMAIN elifs
    <3>1. stack' = stack /\ pushed' = pushed
      BY <1>5, <2>2 DEF EnterIf
    <3>2. Active = Current
      BY <3>1 DEF Active, Current
    <3>3. QED
      BY <1>5, <2>2, <3>1, <3>2, Basics DEF MayPush
  <2>3. QED
    BY <2>1, <2>2
<1> DEFINE k1 == Child(id, "body")
           k2 == Child(id, "orelse")
<1>10. /\ DOMAIN suites \subseteq DOMAIN suites' /\ DOMAIN elifs \subseteq DOMAIN elifs'
       /\ DOMAIN suites' \cup DOMAIN elifs' \subseteq DOMAIN suites \cup DOMAIN elifs \cup {k1, k2}
       /\ \A k : k \notin {k1, k2} =>
            /\ k \in DOMAIN suites' <=> k \in DOMAIN suites
            /\ k \in DOMAIN elifs' <=> k \in DOMAIN elifs
            /\ k \in DOMAIN suites => suites'[k] = suites[k]
            /\ k \in DOMAIN elifs => elifs'[k] = elifs[k]
       /\ \A k \in DOMAIN suites' : suites'[k] \in States
       /\ \A k \in DOMAIN elifs' : elifs'[k] \in States
       /\ k1 \in DOMAIN suites' /\ suites'[k1] = Branch(Active, test, TRUE)
       /\ orelse = "else" => k2 \in DOMAIN suites' /\ suites'[k2] = Branch(Active, test, FALSE)
       /\ orelse = "elif" => k2 \in DOMAIN elifs' /\ elifs'[k2] = Branch(Active, test, FALSE)
  BY ZenonT(40), <1>9, VisitIfRecords
<1>11. /\ k1 \in Ids /\ k2 \in Ids /\ Len(k1) > 1 /\ Len(k2) > 1 /\ k1[1] = id[1] /\ k2[1] = id[1]
  <2>1. ASSUME NEW part \in Parts
        PROVE  Child(id, part) \in Ids /\ Len(Child(id, part)) > 1 /\ Child(id, part)[1] = id[1]
    <3>1. part \in Nat \cup Parts /\ Len(id) \in Nat
      BY DEF Ids
    <3>2. Len(Child(id, part)) = Len(id) + 1
      BY <3>1, ChildIs
    <3>3. Child(id, part) \in Ids
      BY <3>1, ChildIs
    <3>4. Child(id, part)[1] = id[1]
      BY <3>1, ChildIs
    <3>5. Len(Child(id, part)) > 1
      BY <3>1, <3>2
    <3>6. QED
      BY <3>3, <3>4, <3>5
  <2>2. "body" \in Parts /\ "orelse" \in Parts
    BY DEF Parts
  <2>3. QED
    BY <2>1, <2>2
<1> HIDE DEF k1, k2
<1>12. Typed'
  <2>1. DOMAIN suites' \cup DOMAIN elifs' \cup fallback' \subseteq Ids
    BY <1>5, <1>10, <1>11 DEF Typed
  <2>2. QED
    BY <1>1, <1>2, <1>4, <1>9, <1>10, <2>1, AddTyped
<1>13. NamedInv'
  <2>1. \A key \in DOMAIN suites' \cup DOMAIN elifs' \cup fallback' :
          Len(key) > 1 /\ key[1] \in Nat /\ key[1] < nodes'
    <3>1. ASSUME NEW key \in DOMAIN suites \cup DOMAIN elifs \cup fallback
          PROVE  Len(key) > 1 /\ key[1] \in Nat /\ key[1] < nodes'
      <4>1. Len(key) > 1 /\ key[1] \in Nat /\ key[1] < nodes /\ nodes \in Nat /\ nodes' \in Nat
        BY <3>1 DEF NamedInv, Used, Typed
      <4>2. QED
        BY <4>1
    <3>2. QED
      BY <1>5, <1>10, <1>11, <3>1
  <2>2. pushed' = pushed \/ (pushed' = pushed \cup {id} /\ Len(id) > 1)
    BY <1>5 DEF EnterIf
  <2>3. \A key \in fallback' : \A n \in 1..Len(open) : open[n].kind = "if" => open[n].id[1] # key[1]
    BY <1>5 DEF NamedInv
  <2>4. nodes' \in Nat
    OBVIOUS
  <2>5. QED
    BY <1>1, <1>4, <1>5, <2>1, <2>2, <2>3, <2>4, AddNamed
<1>14. Stacked' /\ \A n \in 1..Len(open) : stack'[HeightAt(n)'] = stack[HeightAt(n)]
  BY <1>1, <1>4, <1>5, <1>7, <1>8, <1>9, AddStacked
<1>15. Earned'
  <2>1. ASSUME NEW n \in 1..Len(open) PROVE RecordsKept(open[n].id)
    <3>1. ASSUME NEW p \in Nat \cup Parts PROVE Child(open[n].id, p) \notin {k1, k2}
      <4>1. "body" \in Nat \cup Parts /\ "orelse" \in Nat \cup Parts
        BY DEF Parts
      <4>2. QED
        BY <1>6, <4>1, NewKeys DEF k1, k2
    <3>2. QED
      BY <1>10, <3>1 DEF RecordsKept
  <2>2. ASSUME NEW b \in BOOLEAN
        PROVE  FitsTruth(Branch(Active, test, b), BranchTruth(new, b), plain /\ Decidable(test))
    <3>1. BranchTruth(new, b) = {i \in truth : Holds(test, i) = b}
      BY <1>1 DEF BranchTruth
    <3>2. PICK active : active = Active
      OBVIOUS
    <3>3. FitsTruth(Branch(active, test, b), {i \in truth : Holds(test, i) = b}, plain /\ Decidable(test))
      BY <1>9, <3>2, BranchFits
    <3>4. QED
      BY <3>1, <3>2, <3>3
  <2>3. /\ FitsBranch(new, suites', "body", TRUE)
        /\ orelse = "else" => FitsBranch(new, suites', "orelse", FALSE)
        /\ orelse = "elif" => FitsBranch(new, elifs', "orelse", FALSE)
    <3>1. new.plain = plain /\ new.id = id /\ new.syntax.test = test
      BY <1>1
    <3>2. /\ FitsTruth(suites'[k1], BranchTruth(new, TRUE), plain /\ Decidable(test))
          /\ orelse = "else" => FitsTruth(suites'[k2], BranchTruth(new, FALSE), plain /\ Decidable(test))
          /\ orelse = "elif" => FitsTruth(elifs'[k2], BranchTruth(new, FALSE), plain /\ Decidable(test))
      BY <1>10, <2>2
    <3>3. QED
      BY <1>10, <3>1, <3>2 DEF FitsBranch, k1, k2
  <2>4. PICK f : f = new
    OBVIOUS
  <2>5. Awaited(f)'
    <3>1. f.kind = "if" /\ f.at = "test" /\ f.syntax.orelse = orelse
      BY <1>1, <2>4
    <3>2. /\ FitsBranch(f, suites', "body", TRUE)
          /\ orelse = "else" => FitsBranch(f, suites', "orelse", FALSE)
          /\ orelse = "elif" => FitsBranch(f, elifs', "orelse", FALSE)
      BY <2>3, <2>4
    <3>3. QED
      BY <3>1, <3>2 DEF Awaited
  <2>6. FitsTruth(stack'[Len(stack')], f.truth, f.plain)
    BY <1>1, <1>9, <2>4 DEF Active
  <2>7. QED
    BY <1>4, <1>14, <2>1, <2>4, <2>5, <2>6, AddEarned
<1>16. Enclosed'
  <2>1. Through(open'[Len(open)], new)
    <3>1. SameButAt(open'[Len(open)], Top) /\ open'[Len(open)].at = entered
      BY <1>4 DEF Adds
    <3>2. QED
      BY <1>1, <3>1 DEF LetsThrough, Through, SameButAt, BranchTruth
  <2>2. QED
    BY <1>4, <2>1, AddEnclosed
<1>17. Len(open') = Len(open) + 1
  BY <1>4 DEF Adds
<1>18. QED
  BY <1>12, <1>13, <1>14, <1>15, <1>16, <1>17

\* The frame being visited is numbered among the statements met so far, and the
\* state it is visited in keeps what is needed there.
LEMMA TopIs ==
  ASSUME Inv
  PROVE  /\ Older(Top.id, <<nodes>>) /\ <<nodes>> \in Ids /\ nodes \in Nat
         /\ Top.id \in Ids /\ Top.truth \in SUBSET Interpreters /\ Top.plain \in BOOLEAN
         /\ FitsTruth(Current, Top.truth, Top.plain) /\ Awaited(Top)
         /\ Top.kind \in {"suite", "if", "try"}
         /\ Top.kind # "suite" => Used(Top.id) /\ Len(open) > 1
         /\ Top.kind = "try" => Len(Top.id) = 1
<1> USE DEF Inv
<1>0. PICK L : L = Len(open)
  OBVIOUS
<1>1. L \in Nat /\ L \in 1..L /\ Top = open[L] /\ Top \in OpenFrames /\ nodes \in Nat
  BY <1>0, Basics DEF Typed, Top
<1>2. FitsTruth(Current, Top.truth, Top.plain) /\ Awaited(Top)
  <2>1. HeightAt(L) = Len(stack)
    BY <1>0 DEF HeightAt
  <2>2. FitsTruth(stack[HeightAt(L)], open[L].truth, open[L].plain) /\ Awaited(open[L])
    BY <1>0, <1>1 DEF Earned
  <2>3. QED
    BY <1>1, <2>1, <2>2 DEF Current
<1>3. L = 1 => Top.id = <<>> /\ Top.kind = "suite"
  BY <1>1 DEF NamedInv
<1>4. L # 1 => Used(Top.id) /\ L > 1
  <2>1. L # 1 => L \in 2..L
    BY <1>1
  <2>2. QED
    BY <1>0, <1>1, <2>1 DEF NamedInv
<1>5. <<nodes>> \in Ids
  BY <1>1 DEF Ids
<1>6. Older(Top.id, <<nodes>>)
  <2>1. <<nodes>>[1] = nodes /\ <<nodes>> # <<>>
    OBVIOUS
  <2>2. Used(Top.id) => Top.id[1] < nodes
    BY DEF Used
  <2>3. QED
    BY <1>3, <1>4, <2>1, <2>2 DEF Older
<1>7. Top.kind = "try" => Len(Top.id) = 1
  BY <1>0, <1>1 DEF NamedInv
<1>8. QED
  BY <1>0, <1>1, <1>2, <1>3, <1>4, <1>5, <1>6, <1>7 DEF OpenFrames

LEMMA StartIfStep ==
  ASSUME Inv, StartIf PROVE Inv' /\ Len(open') = Len(open) + 1
<1>1. PICK test \in Tests[nodes], orelse \in OrElse :
        /\ VisitIf(<<nodes>>, test, orelse, open, Top.truth, Top.plain)
        /\ Count(1, orelse)
  BY DEF StartIf
<1>2. Top.kind = "suite" /\ nodes < MaxNodes
  BY DEF StartIf
<1>3. nodes \in 0..MaxNodes - 1 /\ MaxNodes \in Nat
  BY <1>2, TargetsAssumption, ReachabilityAssumption DEF Inv, Typed
<1>4. test \in Guards
  BY <1>3 DEF Guards
<1>5. nodes' \in 0..MaxNodes /\ nodes' > nodes
  BY <1>1, <1>3 DEF Count
<1>6. \A key \in DOMAIN elifs \cup fallback : key[1] < nodes /\ Len(key) > 1
  BY DEF Inv, NamedInv, Used
<1> DEFINE id == <<nodes>>
<1>7. id \in Ids /\ Len(id) = 1 /\ id[1] = nodes /\ nodes \in Nat
  BY <1>3, TopIs
<1> HIDE DEF id
<1>8. id \notin DOMAIN elifs /\ \A key \in fallback : id[1] # key[1]
  <2>1. \A key \in DOMAIN elifs : key # id
    BY <1>6, <1>7
  <2>2. \A key \in fallback : key[1] < id[1]
    BY <1>6, <1>7
  <2>3. QED
    BY <2>1, <2>2, <1>7
<1>9. Older(Top.id, id) /\ FitsTruth(Current, Top.truth, Top.plain)
      /\ Top.truth \in SUBSET Interpreters /\ Top.plain \in BOOLEAN
  BY TopIs DEF id
<1>10. Onward(Top, Top.at) /\ LetsThrough(Top.at, Top.truth)
  BY <1>2 DEF Onward, LetsThrough
<1>11. VisitIf(id, test, orelse, open, Top.truth, Top.plain)
  BY <1>1 DEF id
<1>12. Len(id) > 0 /\ id[1] \in Nat /\ id[1] < nodes' /\ nodes' >= nodes
  BY <1>5, <1>7
<1>13. Top.kind # "if" /\ Top.kind # "try"
  BY <1>2
<1>14. PICK key, path, truth, plain, entered : key = id /\ path = open /\ truth = Top.truth /\ plain = Top.plain /\ entered = Top.at
  OBVIOUS
<1>15. VisitIf(key, test, orelse, path, truth, plain)
  BY <1>11, <1>14
<1>16. LetsThrough(entered, truth) /\ Onward(Top, entered)
  BY <1>10, <1>14
<1>17. QED
  BY ZenonT(40), <1>4, <1>5, <1>7, <1>8, <1>9, <1>12, <1>13, <1>14, <1>15, <1>16, VisitIfStep

LEMMA StartElifStep ==
  ASSUME Inv, StartElif PROVE Inv' /\ Len(open') = Len(open) + 1
<1>1. PICK test \in Tests[nodes - 1], orelse \in OrElse :
        /\ VisitIf(Child(Top.id, "orelse"), test, orelse, At("orelse"), Taken(FALSE), StillPlain)
        /\ Count(0, orelse)
  BY DEF StartElif
<1>2. Top.kind = "if" /\ Top.at = "body" /\ Top.syntax.orelse = "elif"
  BY DEF StartElif
<1>3. /\ Top.id \in Ids /\ Used(Top.id) /\ Awaited(Top) /\ nodes \in Nat /\ Len(open) > 1
      /\ Top.truth \in SUBSET Interpreters /\ Top.plain \in BOOLEAN
  BY <1>2, TopIs
<1>4. nodes - 1 \in 0..MaxNodes - 1 /\ MaxNodes \in Nat
  BY SMTT(30), <1>3, TargetsAssumption, ReachabilityAssumption DEF Inv, Typed, Used
<1>5. test \in Guards
  BY <1>4 DEF Guards
<1>6. nodes' \in 0..MaxNodes /\ nodes' >= nodes
  BY <1>1, <1>3, <1>4 DEF Count
<1> DEFINE id == Child(Top.id, "orelse")
<1>7. /\ id \in Ids /\ Len(id) > 1 /\ Len(id) > 0 /\ id[1] = Top.id[1] /\ id[1] \in Nat
      /\ id[1] < nodes' /\ Older(Top.id, id)
  <2>1. "orelse" \in Nat \cup Parts
    BY DEF Parts
  <2>2. Len(Top.id) \in Nat /\ Len(Top.id) > 0 /\ Top.id[1] \in Nat /\ Top.id[1] < nodes
    BY <1>3 DEF Ids, Used
  <2>3. id \in Ids /\ Len(id) = Len(Top.id) + 1 /\ id[1] = Top.id[1] /\ Older(Top.id, id)
    BY <1>3, <2>1, <2>2, ChildIs, OlderChild
  <2> HIDE DEF id
  <2>4. QED
    BY <1>3, <1>6, <2>2, <2>3
<1>8. \A key \in fallback : id[1] # key[1]
  BY <1>2, <1>3, <1>7, Basics DEF Inv, NamedInv, Top
<1>9. /\ id \in DOMAIN elifs /\ FitsTruth(elifs[id], Taken(FALSE), StillPlain)
  BY <1>2, <1>3 DEF Awaited, FitsBranch, BranchTruth, Taken, StillPlain
<1>10. Taken(FALSE) \in SUBSET Interpreters /\ StillPlain \in BOOLEAN
  <2>1. Taken(FALSE) \in SUBSET Interpreters
    BY <1>3 DEF Taken
  <2>2. StillPlain \in BOOLEAN
    BY DEF StillPlain
  <2>3. QED
    BY <2>1, <2>2
<1>11. /\ Onward(Top, "orelse")
       /\ LetsThrough("orelse", Taken(FALSE))
  BY <1>2 DEF Onward, LetsThrough, Taken, BranchTruth
<1>12. VisitIf(id, test, orelse, At("orelse"), Taken(FALSE), StillPlain)
  BY <1>1
<1> HIDE DEF id
<1>13. "orelse" \in Parts /\ Top.kind # "try"
  BY <1>2 DEF Parts
<1>14. PICK key, path, truth, plain, entered : key = id /\ path = At("orelse") /\ truth = Taken(FALSE) /\ plain = StillPlain /\ entered = "orelse"
  OBVIOUS
<1>15. VisitIf(key, test, orelse, path, truth, plain)
  BY <1>12, <1>14
<1>16. LetsThrough(entered, truth) /\ Onward(Top, entered)
  BY <1>11, <1>14
<1>17. entered \in Parts /\ path = At(entered)
  BY <1>13, <1>14
<1>18. QED
  BY ZenonT(40), <1>5, <1>6, <1>7, <1>8, <1>9, <1>10, <1>13, <1>14, <1>15, <1>16, <1>17, VisitIfStep

\* A suite of a statement is entered.
LEMMA EnterStep ==
  ASSUME Inv, NEW part \in Nat \cup Parts, NEW truth \in SUBSET Interpreters,
         NEW plain \in BOOLEAN,
         Top.kind # "suite",
         Top.kind = "if" => part \in Parts, Top.kind = "try" => part \in Nat,
         open' = Append(At(part), Frame("suite", Child(Top.id, part), <<>>, 0, truth, plain)),
         Enter(Child(Top.id, part)),
         nodes' = nodes, suites' = suites, elifs' = elifs, fallback' = fallback,
         Child(Top.id, part) \in DOMAIN suites =>
           FitsTruth(suites[Child(Top.id, part)], truth, plain),
         Child(Top.id, part) \notin DOMAIN suites => FitsTruth(Current, truth, plain),
         Onward(Top, part), LetsThrough(part, truth)
  PROVE  Inv' /\ Len(open') = Len(open) + 1
<1> USE DEF Inv
<1> DEFINE id == Child(Top.id, part)
           new == Frame("suite", id, <<>>, 0, truth, plain)
<1>0. /\ Top.id \in Ids /\ Used(Top.id) /\ nodes \in Nat /\ Len(open) > 1
  BY TopIs
<1>1. /\ id \in Ids /\ Len(id) > 1 /\ Len(id) > 0 /\ id # <<>> /\ id[1] = Top.id[1]
      /\ id[1] \in Nat /\ id[1] < nodes /\ Older(Top.id, id)
  <2>1. Len(Top.id) \in Nat /\ Len(Top.id) > 0 /\ Top.id[1] \in Nat /\ Top.id[1] < nodes
    BY <1>0 DEF Ids, Used
  <2>2. /\ id \in Ids /\ Len(id) = Len(Top.id) + 1 /\ id[1] = Top.id[1] /\ Older(Top.id, id)
        /\ id # <<>>
    BY <1>0, <2>1, ChildIs, OlderChild
  <2> HIDE DEF id
  <2>3. QED
    BY <2>1, <2>2
<1>2. Enter(id) /\ open' = Append(At(part), new)
  OBVIOUS
<1>3. /\ id \in DOMAIN suites => FitsTruth(suites[id], truth, plain)
      /\ id \notin DOMAIN suites => FitsTruth(Current, truth, plain)
  OBVIOUS
<1> HIDE DEF id
<1>4. /\ new.kind = "suite" /\ new.id = id /\ new.truth = truth /\ new.plain = plain
      /\ new.height = Len(stack) /\ new.before = Current /\ new.depth = depth
  BY DEF Frame
<1>5. new \in OpenFrames /\ Kinds(new)
  <2>1. Len(stack) \in Nat /\ Current \in States /\ depth \in Int
    BY Basics DEF Typed
  <2>2. new \in OpenFrames
    BY <1>1, <2>1 DEF Frame, OpenFrames
  <2> HIDE DEF new
  <2>3. QED
    BY <1>4, <2>2 DEF Kinds
<1> HIDE DEF new
<1>6. Adds(new, part)
  BY <1>2, <1>5, AddToAt
<1>7. (\A n \in 1..Len(open) : open[n].id # id) /\ id \notin pushed
  BY <1>1, NewestId
<1>8. MayPush(new.id) /\ FitsTruth(stack'[Len(stack')], truth, plain)
  <2>1. CASE id \in DOMAIN suites
    <3>1. suites[id] \in States
      BY <2>1 DEF Typed
    <3>2. /\ stack' = Append(stack, suites[id]) /\ pushed' = pushed \cup {id}
          /\ depth' = IF id \in fallback THEN depth + 1 ELSE depth
      BY <1>2, <2>1 DEF Enter
    <3>3. depth' = depth + (IF id \in fallback' THEN 1 ELSE 0)
      BY <3>2 DEF Typed
    <3>4. stack'[Len(stack')] = suites[id]
      BY <3>1, <3>2 DEF Typed
    <3>5. QED
      BY <1>3, <1>4, <2>1, <3>1, <3>2, <3>3, <3>4 DEF MayPush
  <2>2. CASE id \notin DOMAIN suites
    <3>1. stack' = stack /\ pushed' = pushed /\ depth' = depth
      BY <1>2, <2>2 DEF Enter
    <3>2. QED
      BY <1>3, <2>2, <3>1 DEF MayPush, Current
  <2>3. QED
    BY <2>1, <2>2
<1>9. Typed'
  <2>1. DOMAIN suites' \cup DOMAIN elifs' \cup fallback' \subseteq Ids
    BY DEF Typed
  <2>2. /\ \A k \in DOMAIN suites' : suites'[k] \in States
        /\ \A k \in DOMAIN elifs' : elifs'[k] \in States
        /\ nodes' \in 0..MaxNodes
    BY DEF Typed
  <2>3. Top.kind = "if" => part \in Parts \cup {"test"}
    OBVIOUS
  <2>4. QED
    BY <1>1, <1>4, <1>5, <1>6, <1>8, <2>1, <2>2, <2>3, AddTyped
<1>10. NamedInv'
  <2>1. \A key \in DOMAIN suites' \cup DOMAIN elifs' \cup fallback' :
          Len(key) > 1 /\ key[1] \in Nat /\ key[1] < nodes'
    BY DEF NamedInv, Used
  <2>2. pushed' = pushed \/ (pushed' = pushed \cup {id} /\ Len(id) > 1)
    BY <1>1, <1>2 DEF Enter
  <2>3. \A key \in fallback' : \A n \in 1..Len(open) : open[n].kind = "if" => open[n].id[1] # key[1]
    BY DEF NamedInv
  <2>4. nodes' \in Nat /\ nodes' >= nodes
    BY <1>0
  <2>5. new.kind # "if" /\ new.kind # "try"
    BY <1>4
  <2>6. QED
    BY <1>1, <1>4, <1>6, <2>1, <2>2, <2>3, <2>4, <2>5, AddNamed
<1>11. Stacked' /\ \A n \in 1..Len(open) : stack'[HeightAt(n)'] = stack[HeightAt(n)]
  BY <1>4, <1>6, <1>7, <1>8, AddStacked
<1>12. Earned'
  <2>1. \A n \in 1..Len(open) : RecordsKept(open[n].id)
    BY DEF RecordsKept
  <2>2. PICK f : f = new
    OBVIOUS
  <2>3. Awaited(f)'
    BY <1>4, <2>2 DEF Awaited
  <2>4. QED
    BY <1>4, <1>6, <1>8, <1>11, <2>1, <2>2, <2>3, AddEarned
<1>13. Enclosed'
  <2>1. Through(open'[Len(open)], new)
    <3>1. SameButAt(open'[Len(open)], Top) /\ open'[Len(open)].at = part
      BY <1>6 DEF Adds
    <3>2. QED
      BY ZenonT(40), <1>4, <3>1 DEF LetsThrough, Through, SameButAt, BranchTruth
  <2>2. QED
    BY <1>6, <2>1, AddEnclosed
<1>14. Len(open') = Len(open) + 1
  BY <1>6 DEF Adds
<1>15. QED
  BY <1>9, <1>10, <1>11, <1>12, <1>13, <1>14

LEMMA EnterBranchStep ==
  ASSUME Inv, NEW branch \in BOOLEAN, NEW part \in Parts, branch = (part = "body"),
         Top.kind = "if", Top.at # "orelse", part = "orelse" \/ Top.at = "test",
         part = "orelse" => Top.syntax.orelse = "else",
         EnterBranch(part, branch)
  PROVE  Inv' /\ Len(open') = Len(open) + 1
<1>1. /\ Awaited(Top) /\ Top.truth \in SUBSET Interpreters /\ Top.plain \in BOOLEAN
  BY TopIs
<1>2. FitsBranch(Top, suites, part, branch)
  BY <1>1 DEF Awaited, Parts
<1>3. PICK truth, plain : truth = Taken(branch) /\ plain = StillPlain
  OBVIOUS
<1>4. truth = BranchTruth(Top, branch) /\ plain = (Top.plain /\ Decidable(Top.syntax.test))
  BY <1>3 DEF Taken, StillPlain, BranchTruth
<1>5. truth \in SUBSET Interpreters /\ plain \in BOOLEAN
  BY <1>1, <1>4 DEF BranchTruth
<1>6. /\ Child(Top.id, part) \in DOMAIN suites
      /\ FitsTruth(suites[Child(Top.id, part)], truth, plain)
  BY <1>2, <1>4 DEF FitsBranch
<1>7. /\ open' = Append(At(part), Frame("suite", Child(Top.id, part), <<>>, 0, truth, plain))
      /\ Enter(Child(Top.id, part))
      /\ nodes' = nodes /\ suites' = suites /\ elifs' = elifs /\ fallback' = fallback
  BY <1>3 DEF EnterBranch
<1>8. Onward(Top, part)
  BY DEF Onward, Parts
<1>9. LetsThrough(part, truth)
  BY <1>4 DEF LetsThrough, Parts
<1>10. Top.kind # "suite" /\ Top.kind # "try" /\ part \in Nat \cup Parts
  OBVIOUS
<1>11. QED
  BY <1>5, <1>6, <1>7, <1>8, <1>9, <1>10, EnterStep

LEMMA EnterBodyStep ==
  ASSUME Inv, EnterBody PROVE Inv' /\ Len(open') = Len(open) + 1
<1>1. Top.kind = "if" /\ Top.at = "test" /\ EnterBranch("body", TRUE) /\ "body" \in Parts
  BY DEF EnterBody, Parts
<1>2. QED
  BY <1>1, EnterBranchStep

LEMMA EnterElseStep ==
  ASSUME Inv, EnterElse PROVE Inv' /\ Len(open') = Len(open) + 1
<1>1. /\ Top.kind = "if" /\ Top.at = "body" /\ Top.syntax.orelse = "else"
      /\ EnterBranch("orelse", FALSE) /\ "orelse" \in Parts
  BY DEF EnterElse, Parts
<1>2. QED
  BY <1>1, EnterBranchStep

LEMMA EnterHandlerStep ==
  ASSUME Inv, EnterHandler PROVE Inv' /\ Len(open') = Len(open) + 1
<1>1. PICK n : n = Top.at + 1
  OBVIOUS
<1>2. PICK truth : truth = HandlerTruth(Top)
  OBVIOUS
<1>3. /\ Top.kind = "try"
      /\ open' = Append(At(n), Frame("suite", Child(Top.id, n), <<>>, 0, truth, FALSE))
      /\ Enter(Child(Top.id, n))
      /\ nodes' = nodes /\ suites' = suites /\ elifs' = elifs /\ fallback' = fallback
  BY <1>1, <1>2 DEF EnterHandler, HandlerTruth
<1>4. /\ Awaited(Top) /\ FitsTruth(Current, Top.truth, Top.plain)
      /\ Top.truth \in SUBSET Interpreters /\ Top.plain \in BOOLEAN
  BY TopIs
<1>5. Top.at \in Nat /\ Top \in OpenFrames
  BY <1>3, Basics DEF Kinds, Inv
<1>6. n \in Nat /\ Top.at < n /\ n \in Nat \cup Parts
  BY <1>1, <1>5
<1>7. truth \in SUBSET Interpreters /\ truth \subseteq Top.truth
  BY <1>2, <1>4 DEF HandlerTruth
<1>8. Child(Top.id, n) \in DOMAIN suites => FitsTruth(suites[Child(Top.id, n)], truth, FALSE)
  BY <1>2, <1>3, <1>4, <1>6 DEF Awaited, FitsTruth
<1>9. Child(Top.id, n) \notin DOMAIN suites => FitsTruth(Current, truth, FALSE)
  BY <1>4, <1>7 DEF FitsTruth, Keeps
<1>10. Onward(Top, n)
  BY <1>3, <1>5, <1>6 DEF Onward
<1>11. LetsThrough(n, truth)
  BY <1>3, <1>7 DEF LetsThrough
<1>12. Top.kind # "suite" /\ Top.kind # "if" /\ FALSE \in BOOLEAN
  BY <1>3
<1>13. QED
  BY <1>3, <1>6, <1>7, <1>8, <1>9, <1>10, <1>11, <1>12, EnterStep

\* The handlers a try statement narrows, and the state it records for them.
Narrow(imports) == imports \cap Contested = {} /\ Known(imports) # {}
Narrowed(imports, catches) ==
  {<<nodes, n>> : n \in {m \in 1..Len(catches) : Narrow(imports) /\ catches[m] = "import"}}
HandlerState(imports) == [Current EXCEPT !.versions = @ \ Succeeding(imports)]

LEMMA VisitTryRecords ==
  ASSUME Inv, NEW imports, NEW catches, VisitTry(imports, catches)
  PROVE  /\ DOMAIN suites' = DOMAIN suites \cup Narrowed(imports, catches)
         /\ \A k \in DOMAIN suites' : suites'[k] = IF k \in Narrowed(imports, catches)
                                                    THEN HandlerState(imports) ELSE suites[k]
         /\ fallback' = fallback \cup Narrowed(imports, catches)
         /\ HandlerState(imports) \in States
         /\ \A k \in Narrowed(imports, catches) :
              /\ Narrow(imports) /\ k \in Ids /\ Len(k) = 2 /\ k[1] = nodes
              /\ \E m \in Nat : k = Child(<<nodes>>, m)
<1>1. suites' = [id \in DOMAIN suites \cup Narrowed(imports, catches) |->
                   IF id \in Narrowed(imports, catches) THEN HandlerState(imports) ELSE suites[id]]
  BY DEF VisitTry, Narrowed, Narrow, HandlerState
<1>2. fallback' = fallback \cup Narrowed(imports, catches)
  BY DEF VisitTry, Narrowed, Narrow
<1>3. HandlerState(imports) \in States
  <2>1. Current \in States
    BY Basics DEF Inv
  <2>2. QED
    BY <2>1 DEF States, HandlerState
<1>4. ASSUME NEW k \in Narrowed(imports, catches)
      PROVE  /\ Narrow(imports) /\ k \in Ids /\ Len(k) = 2 /\ k[1] = nodes
             /\ \E m \in Nat : k = Child(<<nodes>>, m)
  <2>1. PICK n \in 1..Len(catches) : k = <<nodes, n>> /\ Narrow(imports)
    BY DEF Narrowed
  <2>2. nodes \in Nat
    BY TopIs
  <2>3. n \in Nat
    OBVIOUS
  <2>4. k \in Ids /\ Len(k) = 2 /\ k[1] = nodes
    BY <2>1, <2>2, <2>3 DEF Ids
  <2>5. k = Child(<<nodes>>, n)
    BY <2>1 DEF Child
  <2>6. QED
    BY <2>1, <2>3, <2>4, <2>5
<1>5. QED
  BY <1>1, <1>2, <1>3, <1>4

\* An interpreter that gets to a handler is on no version taken away from it:
\* where every import is known and nothing competes, each succeeds there.
LEMMA HandlersKeep ==
  ASSUME Inv, NEW imports, Narrow(imports), NEW T \in SUBSET Interpreters, Keeps(Current, T),
         NEW i \in T, imports = {} \/ \E name \in imports : MayFail(name, i)
  PROVE  i.minor \in HandlerState(imports).versions /\ Context(i) \in HandlerState(imports).contexts
<1>1. i.minor \in Current.versions /\ Context(i) \in Current.contexts /\ Current \in States
  BY Basics DEF Keeps, Inv
<1>2. /\ HandlerState(imports).versions = Current.versions \ Succeeding(imports)
      /\ HandlerState(imports).contexts = Current.contexts
  BY <1>1 DEF HandlerState, States
<1>3. i.minor \notin Succeeding(imports)
  <2>1. SUFFICES ASSUME i.minor \in Succeeding(imports) PROVE FALSE
    OBVIOUS
  <2>2. i.minor \in Known(imports) /\ \A name \in imports : i.minor \notin Uncertain[name]
    BY <2>1 DEF Succeeding
  <2>3. /\ imports # {} /\ imports \subseteq DOMAIN Since
        /\ \A name \in imports : i.minor >= Since[name]
    BY <2>2 DEF Known
  <2>4. PICK name \in imports : MayFail(name, i)
    BY <2>3
  <2>5. i.minor \in Nat /\ Since[name] \in Nat
    BY <2>3, InterpretersAre, TargetsAssumption, ReachabilityAssumption
  <2>6. ~(i.minor < Since[name]) /\ name \in DOMAIN Since /\ name \notin Contested
    BY <2>3, <2>5 DEF Narrow
  <2>7. QED
    BY <2>2, <2>4, <2>6 DEF MayFail
<1>4. QED
  BY <1>1, <1>2, <1>3

LEMMA StartTryStep ==
  ASSUME Inv, StartTry PROVE Inv' /\ Len(open') = Len(open) + 1
<1> USE DEF Inv
<1>1. PICK imports \in Bodies, catches \in {<<"import">>, <<"any">>, <<"import", "any">>} :
        VisitTry(imports, catches)
  BY DEF StartTry
<1>2. Top.kind = "suite"
  BY DEF StartTry
<1> DEFINE id == <<nodes>>
           new == Frame("try", id, [imports |-> imports, catches |-> catches], 0, Top.truth, FALSE)
<1>3. /\ id \in Ids /\ Len(id) = 1 /\ id # <<>> /\ id[1] = nodes /\ nodes \in Nat
      /\ Older(Top.id, id) /\ FitsTruth(Current, Top.truth, Top.plain)
      /\ Top.truth \in SUBSET Interpreters
  BY TopIs
<1>4. /\ nodes' = nodes + 1 /\ nodes' \in 0..MaxNodes
      /\ stack' = stack /\ elifs' = elifs /\ pushed' = pushed /\ depth' = depth
      /\ open' = Append(open, new)
  <2>1. nodes < MaxNodes /\ MaxNodes \in Nat
    BY <1>1, TargetsAssumption, ReachabilityAssumption DEF VisitTry
  <2>2. nodes' = nodes + 1
    BY <1>1 DEF VisitTry
  <2>3. nodes' \in 0..MaxNodes
    BY <1>3, <2>1, <2>2
  <2>4. QED
    BY <1>1, <2>2, <2>3 DEF VisitTry
<1>5. /\ new.kind = "try" /\ new.id = id /\ new.truth = Top.truth /\ new.plain = FALSE
      /\ new.syntax.imports = imports /\ new.syntax \in TrySyntax /\ new.at = 0
      /\ new.height = Len(stack) /\ new.before = Current /\ new.depth = depth
  <2>1. catches \in Seq({"import", "any"})
    <3>1. CASE catches = <<"import">>
      BY <3>1
    <3>2. CASE catches = <<"any">>
      BY <3>2
    <3>3. CASE catches = <<"import", "any">>
      BY <3>3
    <3>4. QED
      BY <3>1, <3>2, <3>3
  <2>2. [imports |-> imports, catches |-> catches] \in TrySyntax
    BY <2>1 DEF TrySyntax
  <2>3. QED
    BY <2>2 DEF Frame
<1>6. new \in OpenFrames
  <2>1. Len(stack) \in Nat /\ Current \in States /\ depth \in Int
    BY Basics DEF Typed
  <2>2. [imports |-> imports, catches |-> catches] \in TrySyntax
    BY <1>5 DEF Frame
  <2>3. QED
    BY <1>3, <2>1, <2>2 DEF Frame, OpenFrames
<1> HIDE DEF new, id
<1>7. Kinds(new)
  BY <1>5 DEF Kinds
<1>8. Adds(new, Top.at)
  BY <1>4, <1>6, AddToOpen
<1>9. (\A n \in 1..Len(open) : open[n].id # id) /\ id \notin pushed
  BY <1>3, NewestId
<1>10. MayPush(new.id)
  BY <1>4 DEF MayPush
<1> DEFINE N == Narrowed(imports, catches)
           S == HandlerState(imports)
<1>11. /\ DOMAIN suites' = DOMAIN suites \cup N
       /\ \A k \in DOMAIN suites' : suites'[k] = IF k \in N THEN S ELSE suites[k]
       /\ fallback' = fallback \cup N
       /\ S \in States
       /\ \A k \in N : /\ Narrow(imports) /\ k \in Ids /\ Len(k) = 2 /\ k[1] = nodes
                       /\ \E m \in Nat : k = Child(id, m)
  BY <1>1, VisitTryRecords DEF id
<1> HIDE DEF N, S
<1>12. Typed'
  <2>1. DOMAIN suites' \cup DOMAIN elifs' \cup fallback' \subseteq Ids
    BY <1>4, <1>11 DEF Typed
  <2>2. \A k \in DOMAIN suites' : suites'[k] \in States
    BY <1>11 DEF Typed
  <2>3. \A k \in DOMAIN elifs' : elifs'[k] \in States
    BY <1>4 DEF Typed
  <2>4. QED
    BY <1>2, <1>3, <1>4, <1>5, <1>7, <1>8, <1>10, <2>1, <2>2, <2>3, AddTyped
<1>13. NamedInv'
  <2>1. ASSUME NEW key \in DOMAIN suites' \cup DOMAIN elifs' \cup fallback'
        PROVE  Len(key) > 1 /\ key[1] \in Nat /\ key[1] < nodes'
    <3>1. CASE key \in N
      <4>1. Len(key) = 2 /\ key[1] = nodes
        BY <1>11, <3>1
      <4>2. key[1] \in Nat /\ key[1] < nodes'
        BY <1>3, <1>4, <4>1
      <4>3. QED
        BY <4>1, <4>2
    <3>2. CASE key \in DOMAIN suites \cup DOMAIN elifs \cup fallback
      <4>1. Len(key) > 1 /\ key[1] \in Nat /\ key[1] < nodes
        BY <3>2 DEF NamedInv, Used
      <4>2. QED
        BY <1>3, <1>4, <4>1
    <3>3. QED
      BY <1>4, <1>11, <3>1, <3>2
  <2>2. ASSUME NEW key \in fallback', NEW n \in 1..Len(open), open[n].kind = "if"
        PROVE  open[n].id[1] # key[1]
    <3>1. CASE key \in fallback
      BY <2>2, <3>1 DEF NamedInv
    <3>2. CASE key \in N
      <4>1. n \in 2..Len(open)
        BY <2>2, Basics DEF NamedInv
      <4>2. open[n].id[1] \in Nat /\ open[n].id[1] < nodes
        BY <4>1 DEF NamedInv, Used
      <4>3. key[1] = nodes
        BY <1>11, <3>2
      <4>4. QED
        BY <1>3, <4>2, <4>3
    <3>3. QED
      BY <1>11, <3>1, <3>2
  <2>3. nodes' \in Nat /\ nodes' >= nodes /\ Len(id) > 0 /\ id[1] \in Nat /\ id[1] < nodes'
    BY <1>3, <1>4
  <2>4. new.kind # "if"
    BY <1>5
  <2>5. QED
    BY <1>3, <1>4, <1>5, <1>8, <2>1, <2>2, <2>3, <2>4, AddNamed
<1>14. Stacked' /\ \A n \in 1..Len(open) : stack'[HeightAt(n)'] = stack[HeightAt(n)]
  <2>1. ASSUME NEW n \in 1..Len(open) PROVE open[n].id \in fallback' <=> open[n].id \in fallback
    <3>1. ASSUME open[n].id \in N PROVE FALSE
      <4>1. Len(open[n].id) = 2 /\ open[n].id[1] = nodes
        BY <1>11, <3>1
      <4>2. n \in 2..Len(open)
        <5>1. n = 1 => open[n].id = <<>>
          BY DEF NamedInv
        <5>2. QED
          BY <4>1, <5>1, Basics
      <4>3. open[n].id[1] \in Nat /\ open[n].id[1] < nodes
        BY <4>2 DEF NamedInv, Used
      <4>4. QED
        BY <4>1, <4>3
    <3>2. QED
      BY <1>11, <3>1
  <2>2. QED
    BY <1>5, <1>8, <1>9, <1>10, <2>1, AddStacked
<1>15. Earned'
  <2>1. ASSUME NEW n \in 1..Len(open) PROVE RecordsKept(open[n].id)
    <3>1. ASSUME NEW p \in Nat \cup Parts PROVE Child(open[n].id, p) \notin N
      <4>1. \A m \in Nat : Child(open[n].id, p) # Child(id, m)
        BY <1>3, NewKeys
      <4>2. QED
        BY <1>11, <4>1
    <3>2. QED
      BY <1>4, <1>11, <3>1 DEF RecordsKept
  <2>2. Onward(Top, Top.at)
    BY <1>2 DEF Onward
  <2>3. FitsTruth(stack'[Len(stack')], new.truth, new.plain)
    BY <1>3, <1>4, <1>5 DEF FitsTruth, Current
  <2>4. ASSUME NEW m \in Nat, Child(id, m) \in DOMAIN suites'
        PROVE  Keeps(suites'[Child(id, m)], HandlerTruth(new))
    <3>1. Child(id, m)[1] = nodes
      <4>1. m \in Nat \cup Parts /\ Len(id) > 0
        BY <1>3
      <4>2. QED
        BY <1>3, <4>1, ChildIs
    <3>2. Child(id, m) \notin DOMAIN suites
      <4>1. \A k \in DOMAIN suites : k[1] < nodes /\ k[1] \in Nat
        BY DEF NamedInv, Used
      <4>2. QED
        BY <1>3, <3>1, <4>1
    <3>3. Child(id, m) \in N /\ suites'[Child(id, m)] = S /\ Narrow(imports)
      BY <1>11, <2>4, <3>2
    <3>4. ASSUME NEW i \in HandlerTruth(new)
          PROVE  i.minor \in S.versions /\ Context(i) \in S.contexts
      <4>1. i \in Top.truth /\ (imports = {} \/ \E name \in imports : MayFail(name, i))
        BY <1>5 DEF HandlerTruth
      <4>2. PICK T : T = Top.truth
        OBVIOUS
      <4>3. Keeps(Current, T) /\ T \in SUBSET Interpreters
        BY <1>3, <4>2 DEF FitsTruth
      <4>4. QED
        BY <3>3, <4>1, <4>2, <4>3, HandlersKeep DEF S
    <3>5. QED
      BY <3>3, <3>4 DEF Keeps
  <2>5. PICK f : f = new
    OBVIOUS
  <2>6. Awaited(f)'
    <3>1. f.kind = "try" /\ f.id = id
      BY <1>5, <2>5
    <3>2. HandlerTruth(f) = HandlerTruth(new)
      BY <2>5
    <3>3. \A m \in Nat : Child(f.id, m) \in DOMAIN suites' =>
            Keeps(suites'[Child(f.id, m)], HandlerTruth(f))
      BY <2>4, <3>1, <3>2
    <3>4. QED
      BY <3>1, <3>3 DEF Awaited
  <2>7. QED
    BY <1>8, <1>14, <2>1, <2>2, <2>3, <2>5, <2>6, AddEarned
<1>16. Enclosed'
  <2>1. open'[Len(open)].kind = "suite" /\ open'[Len(open)].truth = Top.truth
    BY <1>2, <1>8 DEF Adds, SameButAt
  <2>2. Through(open'[Len(open)], new)
    BY <1>5, <2>1 DEF Through
  <2>3. QED
    BY <1>8, <2>2, AddEnclosed
<1>17. Len(open') = Len(open) + 1
  BY <1>8 DEF Adds
<1>18. QED
  BY <1>12, <1>13, <1>14, <1>15, <1>16, <1>17

LEMMA LeaveStep ==
  ASSUME Inv, LeaveIf \/ LeaveBlock \/ LeaveTry
  PROVE  /\ Inv' /\ Len(open') < Len(open)
         /\ Len(stack') = Top.height /\ Current' = Top.before /\ depth' = Top.depth
<1>1. Removes
  <2>1. Len(open) > 1
    BY TopIs DEF LeaveIf, LeaveBlock, LeaveTry
  <2>2. QED
    BY <2>1 DEF Removes, LeaveIf, LeaveBlock, LeaveTry
<1>2. nodes' = nodes /\ suites' = suites /\ elifs' = elifs /\ fallback' = fallback
  BY DEF LeaveIf, LeaveBlock, LeaveTry, tracker
<1>3. MayPop(Top.id)
  <2>1. CASE LeaveIf \/ LeaveBlock
    BY <2>1, LeaveIsPop DEF LeaveIf, LeaveBlock, Inv
  <2>2. CASE LeaveTry
    <3>1. Len(Top.id) = 1
      BY <2>2, TopIs DEF LeaveTry
    <3>2. Top.id \notin pushed
      <4>1. Top.id \in pushed => Len(Top.id) > 1
        BY DEF Inv, NamedInv
      <4>2. Top.id \in pushed => 1 > 1
        BY ONLY <3>1, <4>1
      <4>3. QED
        BY <4>2
    <3>3. QED
      BY <2>2, <3>2 DEF MayPop, LeaveTry, tracker
  <2>3. QED
    BY <2>1, <2>2
<1>4. QED
  BY <1>1, <1>2, <1>3, RemoveStep

LEMMA StutterStep ==
  ASSUME Inv, UNCHANGED vars PROVE Inv' /\ open' = open
<1>1. /\ open' = open /\ nodes' = nodes /\ stack' = stack /\ suites' = suites /\ elifs' = elifs
      /\ pushed' = pushed /\ fallback' = fallback /\ depth' = depth
  BY DEF vars, tracker
<1>2. Typed'
  BY <1>1 DEF Inv, Typed, Kinds
<1>3. NamedInv'
  <2>1. NamedInv
    BY DEF Inv
  <2>2. QED
    BY <1>1, <2>1 DEF NamedInv, Used
<1>4. Stacked'
  <2>1. Stacked
    BY DEF Inv
  <2>2. \A n : HeightAt(n)' = HeightAt(n) /\ DepthAt(n)' = DepthAt(n)
    BY <1>1 DEF HeightAt, DepthAt
  <2>3. \A n : Pushes(n)' = Pushes(n) /\ Deepens(n)' = Deepens(n)
    BY <1>1 DEF Pushes, Deepens
  <2>4. QED
    BY <1>1, <2>1, <2>2, <2>3 DEF Stacked
<1>5. Earned'
  <2>1. Earned
    BY DEF Inv
  <2>2. \A n : HeightAt(n)' = HeightAt(n)
    BY <1>1 DEF HeightAt
  <2>3. ASSUME NEW n \in 1..Len(open) PROVE Awaited(open[n])'
    <3>1. Awaited(open[n])
      BY <2>1 DEF Earned
    <3>2. PICK f : f = open[n]
      OBVIOUS
    <3>3. Awaited(f)'
      BY <1>1, <3>1, <3>2 DEF Awaited, FitsBranch
    <3>4. QED
      BY <1>1, <3>2, <3>3
  <2>4. ASSUME NEW n \in 1..Len(open) PROVE FitsTruth(stack[HeightAt(n)], open[n].truth, open[n].plain)'
    <3>1. FitsTruth(stack[HeightAt(n)], open[n].truth, open[n].plain)
      BY <2>1 DEF Earned
    <3>2. QED
      BY <1>1, <2>2, <3>1
  <2>5. QED
    BY <1>1, <2>3, <2>4 DEF Earned
<1>6. Enclosed'
  <2>1. Enclosed
    BY DEF Inv
  <2>2. QED
    BY <1>1, <2>1 DEF Enclosed, Through, BranchTruth
<1>7. QED
  BY <1>1, <1>2, <1>3, <1>4, <1>5, <1>6 DEF Inv

LEMMA InvInit == Init => Inv
<1> SUFFICES ASSUME Init PROVE Inv
  OBVIOUS
<1>1. PICK contexts \in {{"typing"}, {"runtime", "typing"}} :
        LET initial == [versions |-> Targets, contexts |-> contexts] IN
        /\ stack = <<initial>>
        /\ open = <<[kind |-> "suite", id |-> <<>>, syntax |-> <<>>, at |-> 0, plain |-> TRUE,
                     truth |-> {i \in Interpreters : i.typing \/ "runtime" \in contexts},
                     height |-> 1, before |-> initial, depth |-> 0]>>
  BY DEF Init
<1>2. /\ nodes = 0 /\ depth = 0 /\ suites = <<>> /\ elifs = <<>> /\ pushed = {} /\ fallback = {}
  BY DEF Init
<1> DEFINE initial == [versions |-> Targets, contexts |-> contexts]
           running == {i \in Interpreters : i.typing \/ "runtime" \in contexts}
           root == [kind |-> "suite", id |-> <<>>, syntax |-> <<>>, at |-> 0, plain |-> TRUE,
                    truth |-> running, height |-> 1, before |-> initial, depth |-> 0]
<1>3. stack = <<initial>> /\ open = <<root>>
  BY <1>1
<1>4. initial \in States /\ initial.versions = Targets /\ initial.contexts = contexts
  BY DEF States
<1> HIDE DEF initial
<1>5. running \in SUBSET Interpreters
  OBVIOUS
<1>6. Keeps(initial, running)
  <2>1. ASSUME NEW i \in running PROVE i.minor \in Targets /\ Context(i) \in contexts
    <3>1. i \in Interpreters /\ (i.typing \/ "runtime" \in contexts)
      OBVIOUS
    <3>2. i.minor \in Targets
      BY <3>1, InterpretersAre
    <3>3. Context(i) \in contexts
      BY <3>1 DEF Context
    <3>4. QED
      BY <3>2, <3>3
  <2> HIDE DEF running
  <2>2. QED
    BY <1>4, <2>1 DEF Keeps
<1>7. Fills(initial, running)
  <2>1. ASSUME NEW v \in Targets, NEW c \in contexts
        PROVE  \E i \in running : i.minor = v /\ i.typing = (c = "typing")
    <3>1. PICK m \in Micros : TRUE
      BY TargetsAssumption, ReachabilityAssumption
    <3>2. PICK i : i = [minor |-> v, micro |-> m, typing |-> (c = "typing")]
      OBVIOUS
    <3>3. i.minor = v /\ i.typing = (c = "typing")
      BY <3>2
    <3>4. i \in Interpreters
      BY <3>2 DEF Interpreters, Interpreter
    <3>5. c = "typing" \/ c = "runtime"
      OBVIOUS
    <3>6. i.typing \/ "runtime" \in contexts
      BY <3>3, <3>5
    <3>7. QED
      BY <3>3, <3>4, <3>6
  <2> HIDE DEF running
  <2>2. QED
    BY <1>4, <2>1 DEF Fills
<1> HIDE DEF running
<1>8. root \in OpenFrames
  <2>1. <<>> \in Ids
    BY DEF Ids
  <2>2. QED
    BY <1>4, <1>5, <2>1 DEF OpenFrames
<1>9. /\ root.kind = "suite" /\ root.id = <<>> /\ root.truth = running /\ root.plain = TRUE
      /\ root.height = 1 /\ root.before = initial /\ root.depth = 0
  OBVIOUS
<1> HIDE DEF root
<1>10. /\ open \in Seq(OpenFrames) /\ Len(open) = 1 /\ open[1] = root
       /\ stack \in Seq(States) /\ Len(stack) = 1 /\ stack[1] = initial
  BY <1>3, <1>4, <1>8
<1>11. \A n \in 1..Len(open) : n = 1
  BY <1>10
<1>12. DOMAIN suites = {} /\ DOMAIN elifs = {}
  BY <1>2
<1>13. Typed
  <2>1. Kinds(root)
    BY <1>9 DEF Kinds
  <2>2. 0 \in 0..MaxNodes
    BY TargetsAssumption, ReachabilityAssumption
  <2>3. QED
    BY <1>2, <1>10, <1>11, <1>12, <2>1, <2>2 DEF Typed
<1>14. NamedInv
  <2>1. \A n \in 2..Len(open) : FALSE
    BY <1>10
  <2>2. \A m, n \in 1..Len(open) : ~(m < n)
    BY <1>10
  <2>3. QED
    BY <1>2, <1>9, <1>10, <1>11, <1>12, <2>1, <2>2 DEF NamedInv
<1>15. Stacked
  <2>1. HeightAt(1) = 1 /\ DepthAt(1) = 0 /\ Pushes(1) = 0 /\ Deepens(1) = 0
    BY <1>2, <1>10 DEF HeightAt, DepthAt, Pushes, Deepens
  <2>2. QED
    BY <1>9, <1>10, <1>11, <2>1 DEF Stacked
<1>16. Earned
  <2>1. HeightAt(1) = 1
    BY <1>10 DEF HeightAt
  <2>2. Awaited(root)
    BY <1>9 DEF Awaited
  <2>3. FitsTruth(stack[HeightAt(1)], root.truth, root.plain)
    BY <1>6, <1>7, <1>9, <1>10, <2>1 DEF FitsTruth
  <2>4. QED
    BY <1>10, <1>11, <2>2, <2>3 DEF Earned
<1>17. Enclosed
  <2>1. \A n \in 1..Len(open) - 1 : FALSE
    BY <1>10
  <2>2. QED
    BY <2>1 DEF Enclosed
<1>18. QED
  BY <1>13, <1>14, <1>15, <1>16, <1>17 DEF Inv

LEMMA InvNext == ASSUME Inv, [Next]_vars PROVE Inv'
<1>1. CASE StartIf
  BY <1>1, StartIfStep
<1>2. CASE EnterBody
  BY <1>2, EnterBodyStep
<1>3. CASE EnterElse
  BY <1>3, EnterElseStep
<1>4. CASE StartElif
  BY <1>4, StartElifStep
<1>5. CASE LeaveIf \/ LeaveTry \/ LeaveBlock
  BY <1>5, LeaveStep
<1>6. CASE StartTry
  BY <1>6, StartTryStep
<1>7. CASE EnterHandler
  BY <1>7, EnterHandlerStep
<1>8. CASE UNCHANGED vars
  BY <1>8, StutterStep
<1>9. QED
  BY <1>1, <1>2, <1>3, <1>4, <1>5, <1>6, <1>7, <1>8 DEF Next

LEMMA InvAlways == Spec => []Inv
<1>1. Inv /\ [Next]_vars => Inv'
  BY InvNext
<1>2. QED
  BY InvInit, <1>1, PTL DEF Spec

-----------------------------------------------------------------------------
(* The properties.                                                          *)

LEMMA SoundHere == ASSUME Inv PROVE Sound
<1>1. Keeps(Current, Top.truth) /\ Top.truth \in SUBSET Interpreters
  BY TopIs DEF FitsTruth
<1>2. QED
  BY <1>1 DEF Sound, Keeps, Context

LEMMA ExactHere == ASSUME Inv PROVE Exact
<1>1. SUFFICES ASSUME Top.plain
               PROVE  {<<i.minor, i.typing>> : i \in Top.truth} =
                        Current.versions \X {c = "typing" : c \in Current.contexts}
  BY DEF Exact
<1>2. /\ Keeps(Current, Top.truth) /\ Fills(Current, Top.truth)
      /\ Top.truth \in SUBSET Interpreters
  BY <1>1, TopIs DEF FitsTruth
<1>3. ASSUME NEW i \in Top.truth
      PROVE  <<i.minor, i.typing>> \in Current.versions \X {c = "typing" : c \in Current.contexts}
  <2>1. i.minor \in Current.versions /\ Context(i) \in Current.contexts /\ i.typing \in BOOLEAN
    BY <1>2, InterpretersAre DEF Keeps
  <2>2. i.typing = (Context(i) = "typing")
    BY <2>1 DEF Context
  <2>3. QED
    BY <2>1, <2>2
<1>4. ASSUME NEW v \in Current.versions, NEW c \in Current.contexts
      PROVE  <<v, c = "typing">> \in {<<i.minor, i.typing>> : i \in Top.truth}
  BY <1>2 DEF Fills
<1>5. QED
  BY <1>3, <1>4

\* An inner frame is reached by no interpreter that does not reach the outer.
LEMMA Narrower ==
  ASSUME Inv, NEW m \in 1..Len(open), NEW n \in 1..Len(open), m <= n
  PROVE  open[n].truth \subseteq open[m].truth
<1>1. PICK d \in Nat : n = m + d
  <2>1. n - m \in Nat /\ n = m + (n - m)
    OBVIOUS
  <2>2. QED
    BY <2>1
<1> DEFINE C == {k \in 0..d : open[m + k].truth \subseteq open[m].truth}
<1>2. 0 \in C
  BY <1>1
<1>3. ASSUME NEW k \in 0..d, k # d, k \in C PROVE k + 1 \in C
  <2>1. /\ k \in 0..d - 1 /\ m + k \in 1..Len(open) - 1 /\ (m + k) + 1 = m + (k + 1)
        /\ k + 1 \in 0..d /\ m + k \in 1..Len(open)
    BY <1>1, <1>3, Basics DEF Inv
  <2>2. Through(open[m + k], open[(m + k) + 1]) /\ open[m + k] \in OpenFrames
    BY <2>1, Basics DEF Inv, Enclosed
  <2>3. open[(m + k) + 1].truth \subseteq open[m + k].truth
    BY <2>2 DEF Through, BranchTruth, OpenFrames
  <2>4. QED
    BY <1>3, <2>1, <2>3
<1> HIDE DEF C
<1>4. d \in C
  BY <1>1, <1>2, <1>3, CountsUp
<1>5. QED
  BY <1>1, <1>4 DEF C

\* What an import guard says of an if statement around the suite.
LEMMA AroundIf ==
  ASSUME Inv, NEW n \in Around("if"), NEW i \in Interpreters, ~i.typing
  PROVE  /\ n \in 1..Len(open) - 1 /\ open[n].kind = "if"
         /\ open[n + 1].truth = {j \in open[n].truth : Holds(open[n].syntax.test, j) = (open[n].at = "body")}
         /\ Holds(open[n].syntax.test, i) \in BOOLEAN
         /\ TruthAround(n, i.minor) \in {"true", "false", "unknown"}
         /\ TruthAround(n, i.minor) = "true" => Holds(open[n].syntax.test, i) = TRUE
         /\ TruthAround(n, i.minor) = "false" => Holds(open[n].syntax.test, i) = FALSE
<1>1. n \in 1..Len(open) - 1 /\ open[n].kind = "if" /\ n \in 1..Len(open)
  BY Basics DEF Around, Inv
<1>2. open[n].syntax \in IfSyntax /\ Through(open[n], open[n + 1])
  BY <1>1 DEF Inv, Typed, Kinds, Enclosed
<1>3. open[n].syntax.test \in Guards
  BY <1>2 DEF IfSyntax
<1>4. PICK test : test = open[n].syntax.test
  OBVIOUS
<1>5. i \in Interpreter(Nat, Nat) /\ WellFormed(test)
  BY <1>3, <1>4, GuardsAre, InterpretersAre
<1>6. /\ EvaluateImport(test, i.minor) \in TruthValues /\ Holds(test, i) \in BOOLEAN
      /\ Agrees(EvaluateImport(test, i.minor), Holds(test, i))
  BY <1>5, EvaluateImportSound
<1>7. QED
  BY <1>1, <1>2, <1>4, <1>6 DEF Through, BranchTruth, TruthAround, Agrees, TruthValues

\* An interpreter that gets to the suite is on a version the import runs on.
LEMMA ImportsRun ==
  ASSUME Inv, NEW i \in Top.truth, ~i.typing PROVE i.minor \in ImportVersions
<1>1. i \in Interpreters /\ i.minor \in Current.versions
  BY TopIs DEF FitsTruth, Keeps
<1>2. ASSUME NEW n \in Around("if") PROVE TruthAround(n, i.minor) # Truth(open[n].at # "body")
  <2>1. n + 1 \in 1..Len(open) /\ Len(open) \in 1..Len(open) /\ n + 1 <= Len(open)
    BY Basics DEF Around, Inv
  <2>2. i \in open[n + 1].truth
    BY <2>1, Narrower DEF Top
  <2>3. Holds(open[n].syntax.test, i) = (open[n].at = "body")
    BY <1>1, <2>2, AroundIf
  <2>4. QED
    BY <1>1, <2>3, AroundIf DEF Truth
<1>3. QED
  BY <1>1, <1>2 DEF ImportVersions

\* Where every if around the suite is decided, and no try is around it, an
\* interpreter on such a version gets there.
LEMMA CertainRun ==
  ASSUME Inv, Top.kind = "suite", NEW i \in open[1].truth, ~i.typing,
         i.minor \in ImportVersions, i.minor \notin UncertainVersions
  PROVE  i \in Top.truth
<1>1. /\ Around("try") = {}
      /\ \A n \in Around("if") : TruthAround(n, i.minor) # "unknown"
      /\ \A n \in Around("if") : TruthAround(n, i.minor) # Truth(open[n].at # "body")
  BY DEF UncertainVersions, ImportVersions
<1>2. i \in Interpreters
  BY Basics DEF Inv, OpenFrames
<1>3. PICK d \in Nat : Len(open) = d + 1
  <2>1. Len(open) \in Nat /\ Len(open) > 0
    BY DEF Inv, Typed
  <2>2. Len(open) - 1 \in Nat /\ Len(open) = (Len(open) - 1) + 1
    BY <2>1
  <2>3. QED
    BY <2>2
<1> DEFINE C == {k \in 0..d : i \in open[k + 1].truth}
<1>4. 0 \in C
  BY <1>3
<1>5. ASSUME NEW k \in 0..d, k # d, k \in C PROVE k + 1 \in C
  <2>1. k + 1 \in 1..Len(open) - 1 /\ k + 1 \in 1..Len(open) /\ k + 1 \in 0..d
    BY <1>3, <1>5
  <2>2. PICK n : n = k + 1
    OBVIOUS
  <2>3. open[n].kind \in {"suite", "if", "try"} /\ Through(open[n], open[n + 1]) /\ i \in open[n].truth
    BY <1>5, <2>1, <2>2, Basics DEF Inv, Enclosed, OpenFrames
  <2>4. CASE open[n].kind = "suite"
    BY <2>1, <2>2, <2>3, <2>4 DEF Through
  <2>5. CASE open[n].kind = "try"
    BY <1>1, <2>1, <2>2, <2>5 DEF Around
  <2>6. CASE open[n].kind = "if"
    <3>1. n \in Around("if")
      BY <2>1, <2>2, <2>6 DEF Around
    <3>2. Holds(open[n].syntax.test, i) = (open[n].at = "body")
      <4>1. TruthAround(n, i.minor) # "unknown" /\ TruthAround(n, i.minor) # Truth(open[n].at # "body")
        BY <1>1, <3>1
      <4>2. QED
        BY <1>2, <3>1, <4>1, AroundIf DEF Truth
    <3>3. open[n + 1].truth =
            {j \in open[n].truth : Holds(open[n].syntax.test, j) = (open[n].at = "body")}
      BY <1>2, <3>1, AroundIf
    <3>4. i \in open[n + 1].truth
      BY <2>3, <3>2, <3>3
    <3>5. QED
      BY <2>1, <2>2, <3>4
  <2>7. QED
    BY <2>3, <2>4, <2>5, <2>6
<1> HIDE DEF C
<1>6. d \in C
  BY <1>4, <1>5, CountsUp
<1>7. QED
  BY <1>3, <1>6 DEF C, Top

LEMMA CertainHere == ASSUME Inv PROVE CertainImports
<1>1. ASSUME Top.kind = "suite", NEW i \in open[1].truth, ~i.typing
      PROVE  /\ i \in Top.truth => i.minor \in ImportVersions
             /\ i.minor \in ImportVersions \ UncertainVersions => i \in Top.truth
  BY <1>1, ImportsRun, CertainRun
<1>2. QED
  BY <1>1 DEF CertainImports

\* No suite that some interpreter executes is pruned, for its version or for
\* its usage context (evaluate_guard, branch_reachability, visit_Try).
THEOREM ReachableKept == Spec => []Sound
<1>1. Inv => Sound
  BY SoundHere
<1>2. QED
  BY InvAlways, <1>1, PTL

\* Where every guard around a suite is one the grammar decides, the state kept
\* for it is that of the interpreters that execute it, and no larger.
THEOREM NothingExtra == Spec => []Exact
<1>1. Inv => Exact
  BY ExactHere
<1>2. QED
  BY InvAlways, <1>1, PTL

\* The versions an import statement is said to run on include every version of
\* a runtime interpreter that gets to it, and on those that are said to be
\* certain each does (_symbol_import_versions, evaluate_import_guard).
THEOREM ImportsCertain == Spec => []CertainImports
<1>1. Inv => CertainImports
  BY CertainHere
<1>2. QED
  BY InvAlways, <1>1, PTL

\* Leaving a statement or suite puts back the state it was entered in and the
\* count of fallback handlers around it (ReachabilityTracker.leave).
THEOREM LeavingRestores == Spec => Restores
<1>1. ASSUME Inv, [Next]_vars
      PROVE  [Len(open') < Len(open) =>
                Len(stack') = Top.height /\ Current' = Top.before /\ depth' = Top.depth]_vars
  <2>1. CASE LeaveIf \/ LeaveTry \/ LeaveBlock
    BY <1>1, <2>1, LeaveStep
  <2>2. CASE Len(open') = Len(open) + 1
    BY <1>1, <2>2, Basics DEF Inv
  <2>3. CASE UNCHANGED vars
    BY <2>3
  <2>4. QED
    BY <1>1, <2>1, <2>2, <2>3, StartIfStep, EnterBodyStep, EnterElseStep, StartElifStep,
       StartTryStep, EnterHandlerStep DEF Next
<1>2. Inv /\ [Next]_vars =>
        [Len(open') < Len(open) =>
           Len(stack') = Top.height /\ Current' = Top.before /\ depth' = Top.depth]_vars
  BY <1>1
<1>3. QED
  BY InvAlways, <1>2, PTL DEF Spec, Restores

-----------------------------------------------------------------------------
(* Files, and the layout of their lines.                                    *)

LEMMA FileIs ==
  ASSUME NEW f \in Files
  PROVE  /\ f.lines \in Seq(LineForm) /\ Len(f.lines) \in Nat
         /\ f.comments \in Seq(CommentForm) /\ Len(f.comments) \in Nat
         /\ f.ignores \in Seq(IgnoreForm) /\ Len(f.ignores) \in Nat
         /\ f.stub \in BOOLEAN /\ f.project \in SUBSET STRING /\ f.nested \in SUBSET DottedName
         /\ \A name \in f.nested : name[1] \in f.project
<1>1. f \in FileForm
  BY FilesAssumption
<1>2. f \in [lines : Seq(LineForm), comments : Seq(CommentForm), ignores : Seq(IgnoreForm),
             stub : BOOLEAN, project : SUBSET STRING, nested : SUBSET DottedName]
  BY <1>1 DEF FileForm
<1>3. \A name \in f.nested : name[1] \in f.project
  BY <1>1 DEF FileForm
<1>4. f.lines \in Seq(LineForm) /\ f.comments \in Seq(CommentForm) /\ f.ignores \in Seq(IgnoreForm)
  BY <1>2
<1>5. Len(f.lines) \in Nat /\ Len(f.comments) \in Nat /\ Len(f.ignores) \in Nat
  BY <1>4, LenProperties
<1>6. QED
  BY <1>2, <1>3, <1>4, <1>5

LEMMA LineIs ==
  ASSUME NEW f \in Files, NEW i \in 1..Len(f.lines)
  PROVE  /\ i \in Nat /\ f.lines[i] \in LineForm
         /\ Within(f, i) \in Seq(CompoundForm) /\ Len(Within(f, i)) \in Nat
         /\ \A k \in 1..Len(Within(f, i)) : Within(f, i)[k] \in CompoundForm
         /\ f.lines[i].oneline \in BOOLEAN /\ f.lines[i].span \in Nat \ {0}
         /\ Node(f, i) \in NodeForm
         /\ f.lines[i].oneline \/ Node(f, i).place = "header" => Len(Within(f, i)) >= 1
<1>1. f.lines \in Seq(LineForm)
  BY FileIs
<1>2. f.lines[i] \in LineForm /\ i \in Nat
  BY <1>1, ElementOfSeq
<1>3. f.lines[i] \in [within : Seq(CompoundForm), oneline : BOOLEAN, span : Nat \ {0},
                      node : NodeForm]
  BY <1>2 DEF LineForm
<1>4. f.lines[i].oneline \/ f.lines[i].node.place = "header" => f.lines[i].within # <<>>
  BY <1>2 DEF LineForm
<1>5. Within(f, i) \in Seq(CompoundForm)
  BY <1>3 DEF Within
<1>6. Len(Within(f, i)) \in Nat /\ \A k \in 1..Len(Within(f, i)) : Within(f, i)[k] \in CompoundForm
  BY <1>5, LenProperties, ElementOfSeq
<1>7. Within(f, i) # <<>> => Len(Within(f, i)) >= 1
  BY <1>5, <1>6, EmptySeq
<1>8. f.lines[i].oneline \/ Node(f, i).place = "header" => Within(f, i) # <<>>
  BY <1>4 DEF Within, Node
<1>9. Node(f, i) \in NodeForm
  BY <1>3 DEF Node
<1>10. QED
  BY <1>2, <1>3, <1>5, <1>6, <1>7, <1>8, <1>9

\* Where the lines of a statement are.
Base(i) == Room * i

LEMMA RoomIs ==
  ASSUME NEW f \in Files, NEW i \in 1..Len(f.lines)
  PROVE  /\ Room \in Nat /\ Base(i) \in Nat
         /\ 3 * Len(Within(f, i)) + f.lines[i].span <= Room
         /\ FirstLine(f, i) \in Nat
         /\ FirstLine(f, i) >= Base(i) + 3 /\ FirstLine(f, i) + f.lines[i].span <= Base(i) + Room + 3
<1> DEFINE n == Len(Within(f, i))
           span == f.lines[i].span
<1>1. Room \in Nat /\ i \in Nat
  BY FilesAssumption, LineIs
<1>2. Base(i) \in Nat
  BY <1>1 DEF Base
<1>3. 3 * n + span <= Room
  BY FilesAssumption
<1>4. n \in Nat /\ span \in Nat /\ span >= 1
  BY LineIs
<1>5. f.lines[i].oneline => n >= 1
  BY LineIs
<1>6. f.lines[i].oneline \in BOOLEAN
  BY LineIs
<1>7. CASE ~f.lines[i].oneline
  <2>1. FirstLine(f, i) = Base(i) + 3 * (n + 1)
    BY <1>1, <1>2, <1>4, <1>7 DEF FirstLine, Line, Base
  <2> HIDE DEF n, span
  <2>2. QED
    BY <1>1, <1>2, <1>3, <1>4, <2>1 DEF n, span
<1>8. CASE f.lines[i].oneline
  <2>1. FirstLine(f, i) = Base(i) + 3 * n + 1 \/ FirstLine(f, i) = Base(i) + 3 * n + 2
    BY <1>1, <1>2, <1>4, <1>8 DEF FirstLine, HeaderLine, BranchLine, Line, Base
  <2>2. n >= 1
    BY <1>5, <1>8
  <2> HIDE DEF n, span
  <2>3. FirstLine(f, i) \in Nat /\ FirstLine(f, i) >= Base(i) + 3 /\ FirstLine(f, i) + span <= Base(i) + Room + 3
    BY ONLY <1>1, <1>2, <1>3, <1>4, <2>1, <2>2
  <2>4. QED
    BY <1>1, <1>2, <1>3, <2>3 DEF n, span
<1>9. QED
  BY <1>6, <1>7, <1>8

\* A header region is one line, above the statement.
LEMMA HeadersAbove ==
  ASSUME NEW f \in Files, NEW i \in 1..Len(f.lines), NEW k \in 1..Len(Within(f, i)),
         NEW r \in HeaderRegions(f, i, k)
  PROVE  \E line \in Nat : r = Region(line, 0, line) /\ line >= Base(i) + 3 /\ line < FirstLine(f, i)
<1> DEFINE n == Len(Within(f, i))
           frame == Within(f, i)[k]
           block == k < n \/ ~f.lines[i].oneline
<1>1. Room \in Nat /\ i \in Nat /\ Base(i) \in Nat /\ n \in Nat /\ k \in 1..n /\ k \in Nat
  BY RoomIs, LineIs
<1>2. f.lines[i].oneline \in BOOLEAN
  BY LineIs
<1>3. /\ Line(i, k, 0) = Base(i) + 3 * k
      /\ HeaderLine(i, k) = Base(i) + 3 * k + 1
      /\ BranchLine(i, k) = Base(i) + 3 * k + 2
  BY <1>1 DEF Line, HeaderLine, BranchLine, Base
<1>4. FirstLine(f, i) = IF f.lines[i].oneline
                        THEN IF Within(f, i)[n].branch = "body" THEN Base(i) + 3 * n + 1
                                                                ELSE Base(i) + 3 * n + 2
                        ELSE Base(i) + 3 * n + 3
  BY <1>1, <1>2 DEF FirstLine, Line, HeaderLine, BranchLine, Base
<1>5. FirstLine(f, i) \in Nat /\ FirstLine(f, i) >= Base(i) + 3 * n + 1
  <2>1. \/ FirstLine(f, i) = Base(i) + 3 * n + 1 \/ FirstLine(f, i) = Base(i) + 3 * n + 2
        \/ FirstLine(f, i) = Base(i) + 3 * n + 3
    BY <1>2, <1>4
  <2> HIDE DEF n
  <2>2. QED
    BY <1>1, <2>1
<1>6. CASE r = Region(Line(i, k, 0), 0, Line(i, k, 0))
  <2>1. Line(i, k, 0) \in Nat /\ Line(i, k, 0) >= Base(i) + 3 /\ Line(i, k, 0) < FirstLine(f, i)
    <3> HIDE DEF n
    <3> QED
      BY <1>1, <1>3, <1>5
  <2>2. QED
    BY <1>6, <2>1
<1>7. CASE /\ r = Region(HeaderLine(i, k), 0, HeaderLine(i, k))
           /\ block \/ frame.branch # "body"
  <2>1. HeaderLine(i, k) < FirstLine(f, i)
    <3>1. CASE k < n
      <4> HIDE DEF n
      <4> QED
        BY <1>1, <1>3, <1>5, <3>1
    <3>2. CASE k = n
      <4>1. ~f.lines[i].oneline \/ Within(f, i)[n].branch # "body"
        BY <1>7, <3>2
      <4>2. FirstLine(f, i) = Base(i) + 3 * n + 2 \/ FirstLine(f, i) = Base(i) + 3 * n + 3
        BY <1>2, <1>4, <4>1
      <4> HIDE DEF n
      <4>3. QED
        BY <1>1, <1>3, <3>2, <4>2
    <3>3. QED
      BY <1>1, <3>1, <3>2
  <2>2. HeaderLine(i, k) \in Nat /\ HeaderLine(i, k) >= Base(i) + 3
    BY <1>1, <1>3
  <2>3. QED
    BY <1>7, <2>1, <2>2
<1>8. CASE r = Region(BranchLine(i, k), 0, BranchLine(i, k)) /\ block
  <2>1. BranchLine(i, k) < FirstLine(f, i)
    <3>1. CASE k < n
      <4> HIDE DEF n
      <4> QED
        BY <1>1, <1>3, <1>5, <3>1
    <3>2. CASE k = n
      <4>1. ~f.lines[i].oneline
        BY <1>8, <3>2
      <4>2. FirstLine(f, i) = Base(i) + 3 * n + 3
        BY <1>2, <1>4, <4>1
      <4> HIDE DEF n
      <4>3. QED
        BY <1>1, <1>3, <3>2, <4>2
    <3>3. QED
      BY <1>1, <3>1, <3>2
  <2>2. BranchLine(i, k) \in Nat /\ BranchLine(i, k) >= Base(i) + 3
    BY <1>1, <1>3
  <2>3. QED
    BY <1>8, <2>1, <2>2
<1>9. QED
  BY <1>6, <1>7, <1>8 DEF HeaderRegions

RegionsAt(f, i) ==
  {StatementRegion(f, i)} \cup UNION {HeaderRegions(f, i, k) : k \in 1..Len(Within(f, i))}

LEMMA RegionIs ==
  ASSUME NEW f \in Files, NEW i \in 1..Len(f.lines), NEW r \in RegionsAt(f, i)
  PROVE  /\ r.first \in Nat /\ r.last \in Nat /\ r.first <= r.last
         /\ r.start \in {0, 5} /\ r.end = 9
         /\ Base(i) + 3 <= r.first /\ r.last < Base(i) + Room + 3
<1>1. /\ Room \in Nat /\ Base(i) \in Nat /\ FirstLine(f, i) \in Nat /\ f.lines[i].span \in Nat \ {0}
      /\ FirstLine(f, i) >= Base(i) + 3 /\ FirstLine(f, i) + f.lines[i].span <= Base(i) + Room + 3
  BY RoomIs, LineIs
<1>2. CASE r = StatementRegion(f, i)
  <2>1. /\ r.first = FirstLine(f, i) /\ r.last = FirstLine(f, i) + f.lines[i].span - 1
        /\ r.start = (IF f.lines[i].oneline THEN 5 ELSE 0) /\ r.end = 9
    BY <1>2 DEF StatementRegion, Region
  <2>2. r.start \in {0, 5}
    BY <2>1
  <2> DEFINE a == FirstLine(f, i)
             b == f.lines[i].span
             c == Base(i)
  <2>3. /\ a \in Nat /\ b \in Nat /\ b >= 1 /\ c \in Nat /\ Room \in Nat
        /\ a >= c + 3 /\ a + b <= c + Room + 3
    BY <1>1
  <2> HIDE DEF a, b, c
  <2>4. a + b - 1 \in Nat /\ a <= a + b - 1 /\ c + 3 <= a /\ a + b - 1 < c + Room + 3
    BY ONLY <2>3
  <2>5. QED
    BY <2>1, <2>2, <2>3, <2>4 DEF a, b, c
<1>3. CASE \E k \in 1..Len(Within(f, i)) : r \in HeaderRegions(f, i, k)
  <2>1. PICK line \in Nat : r = Region(line, 0, line) /\ line >= Base(i) + 3 /\ line < FirstLine(f, i)
    BY <1>3, HeadersAbove
  <2>2. QED
    BY <1>1, <2>1 DEF Region
<1>4. QED
  BY <1>2, <1>3 DEF RegionsAt

Covers(r, line) == r.first <= line /\ line <= r.last

\* No two regions of a file share a line.
LEMMA OneRegion ==
  ASSUME NEW f \in Files, NEW r \in Regions(f), NEW s \in Regions(f), NEW line \in Int,
         Covers(r, line), Covers(s, line)
  PROVE  r = s
<1>1. PICK i \in 1..Len(f.lines) : r \in RegionsAt(f, i)
  BY DEF Regions, RegionsAt
<1>2. PICK j \in 1..Len(f.lines) : s \in RegionsAt(f, j)
  BY DEF Regions, RegionsAt
<1>3. i \in Nat /\ j \in Nat /\ Room \in Nat /\ Base(i) \in Nat /\ Base(j) \in Nat
  BY LineIs, RoomIs
<1>4. \A a, b \in Nat : a < b => Base(a) + Room <= Base(b)
  <2>1. SUFFICES ASSUME NEW a \in Nat, NEW b \in Nat, a < b PROVE Base(a) + Room <= Base(b)
    OBVIOUS
  <2>2. PICK d \in Nat : b = a + 1 + d
    <3>1. b - a - 1 \in Nat /\ b = a + 1 + (b - a - 1)
      BY <2>1
    <3>2. QED
      BY <3>1
  <2>3. Room * b = Room * a + Room + Room * d
    BY <1>3, <2>2
  <2>4. Room * d \in Nat /\ Room * a \in Nat
    BY <1>3
  <2>5. QED
    BY <1>3, <2>3, <2>4 DEF Base
<1>5. /\ r.first \in Nat /\ r.last \in Nat /\ Base(i) + 3 <= r.first /\ r.last < Base(i) + Room + 3
      /\ s.first \in Nat /\ s.last \in Nat /\ Base(j) + 3 <= s.first /\ s.last < Base(j) + Room + 3
  BY <1>1, <1>2, RegionIs
<1>6. i = j
  <2>1. ~(i < j)
    <3>1. SUFFICES ASSUME i < j PROVE FALSE
      OBVIOUS
    <3>2. Base(i) + Room <= Base(j)
      BY <1>3, <1>4, <3>1
    <3>3. QED
      BY <1>3, <1>5, <3>2 DEF Covers
  <2>2. ~(j < i)
    <3>1. SUFFICES ASSUME j < i PROVE FALSE
      OBVIOUS
    <3>2. Base(j) + Room <= Base(i)
      BY <1>3, <1>4, <3>1
    <3>3. QED
      BY <1>3, <1>5, <3>2 DEF Covers
  <2>3. QED
    BY <1>3, <2>1, <2>2
<1>7. ASSUME NEW a \in RegionsAt(f, i)
      PROVE  a = StatementRegion(f, i)
             \/ \E n \in Nat : a = Region(n, 0, n) /\ n < FirstLine(f, i)
  BY <1>7, HeadersAbove DEF RegionsAt
<1>8. ASSUME NEW n \in Nat, n < FirstLine(f, i), Covers(Region(n, 0, n), line)
      PROVE  ~Covers(StatementRegion(f, i), line)
  <2>1. FirstLine(f, i) \in Nat
    BY RoomIs
  <2>2. QED
    BY <1>8, <2>1 DEF Covers, Region, StatementRegion
<1>9. ASSUME NEW n \in Nat, NEW m \in Nat, Covers(Region(n, 0, n), line), Covers(Region(m, 0, m), line)
      PROVE  n = m
  BY <1>9 DEF Covers, Region
<1>10. s \in RegionsAt(f, i)
  BY <1>2, <1>6
<1>11. CASE r = StatementRegion(f, i)
  BY <1>7, <1>8, <1>10, <1>11
<1>12. CASE \E n \in Nat : r = Region(n, 0, n) /\ n < FirstLine(f, i)
  <2>1. PICK n \in Nat : r = Region(n, 0, n) /\ n < FirstLine(f, i)
    BY <1>12
  <2>2. s # StatementRegion(f, i)
    BY <1>8, <2>1
  <2>3. PICK m \in Nat : s = Region(m, 0, m)
    BY <1>7, <1>10, <2>2
  <2>4. n = m
    BY <1>9, <2>1, <2>3
  <2>5. QED
    BY <2>1, <2>3, <2>4
<1>13. QED
  BY <1>1, <1>7, <1>11, <1>12

-----------------------------------------------------------------------------
(* The identifiers of rules.                                                *)

LEMMA CanonicalIs ==
  ASSUME NEW r \in Rules, NEW id
  PROVE  SuppressionsOf!Known(id) /\ SuppressionsOf!Canonical(id) = r.id <=> id \in r.ids
<1> DEFINE Names0 == {[id |-> x.id, ids |-> x.ids] : x \in Rules}
<1>1. SuppressionsOf!Known(id) <=> \E x \in Rules : id \in x.ids
  <2>1. SuppressionsOf!Known(id) <=> \E x \in Names0 : id \in x.ids
    BY DEF SuppressionsOf!Known
  <2>2. \A x \in Rules : [id |-> x.id, ids |-> x.ids].ids = x.ids
    OBVIOUS
  <2>3. QED
    BY <2>1, <2>2
<1>2. SuppressionsOf!Canonical(id) = (CHOOSE x \in Names0 : id \in x.ids).id
  BY DEF SuppressionsOf!Canonical
<1>3. ASSUME NEW s \in Rules, id \in s.ids
      PROVE  SuppressionsOf!Canonical(id) = s.id
  <2> DEFINE c == CHOOSE x \in Names0 : id \in x.ids
  <2>1. \E x \in Names0 : id \in x.ids
    <3>1. [id |-> s.id, ids |-> s.ids] \in Names0 /\ [id |-> s.id, ids |-> s.ids].ids = s.ids
      OBVIOUS
    <3>2. QED
      BY <1>3, <3>1
  <2>2. c \in Names0 /\ id \in c.ids
    BY <2>1
  <2> HIDE DEF c
  <2>3. PICK t \in Rules : c = [id |-> t.id, ids |-> t.ids]
    BY <2>2
  <2>4. c.id = t.id /\ c.ids = t.ids
    BY <2>3
  <2>5. id \in t.ids \cap s.ids
    BY <1>3, <2>2, <2>4
  <2>6. t = s
    BY <2>5, IdentifiersAssumption
  <2>7. QED
    BY <1>2, <2>4, <2>6 DEF c
<1>4. CASE id \in r.ids
  BY <1>1, <1>3, <1>4
<1>5. CASE id \notin r.ids
  <2>1. SUFFICES ASSUME SuppressionsOf!Known(id), SuppressionsOf!Canonical(id) = r.id PROVE FALSE
    BY <1>5
  <2>2. PICK s \in Rules : id \in s.ids
    BY <1>1, <2>1
  <2>3. s.id = r.id
    BY <1>3, <2>1, <2>2
  <2>4. s = r
    BY <2>3, RulesAssumption
  <2>5. QED
    BY <1>5, <2>2, <2>4
<1>6. QED
  BY <1>4, <1>5

-----------------------------------------------------------------------------
(* Directives, and the regions that hold them.                              *)

Said(f) == SuppressionsOf!Directives(f.comments)

LEMMA SaidIs ==
  ASSUME NEW f \in Files, NEW r \in Rules, NEW line
  PROVE  (\E d \in Said(f) : d.rule = r.id /\ d.line = line)
           <=> \E n \in 1..Len(f.comments) :
                 /\ f.comments[n].form = "directive" /\ Names(f.comments[n].ids, r)
                 /\ f.comments[n].line = line
<1>1. ASSUME NEW d \in Said(f), d.rule = r.id, d.line = line
      PROVE  \E n \in 1..Len(f.comments) :
                 /\ f.comments[n].form = "directive" /\ Names(f.comments[n].ids, r)
                 /\ f.comments[n].line = line
  <2>0. PICK n \in 1..Len(f.comments) :
          \E id \in f.comments[n].ids :
          /\ SuppressionsOf!WellFormed(f.comments[n]) /\ SuppressionsOf!Known(id)
          /\ d = [rule |-> SuppressionsOf!Canonical(id), line |-> f.comments[n].line, comment |-> n]
    BY DEF Said, SuppressionsOf!Directives
  <2>1. PICK id \in f.comments[n].ids :
          /\ SuppressionsOf!WellFormed(f.comments[n]) /\ SuppressionsOf!Known(id)
          /\ d = [rule |-> SuppressionsOf!Canonical(id), line |-> f.comments[n].line, comment |-> n]
    BY <2>0
  <2>2. SuppressionsOf!Canonical(id) = r.id /\ f.comments[n].line = line
    BY <1>1, <2>1
  <2>3. id \in r.ids
    BY <2>1, <2>2, CanonicalIs
  <2>4. QED
    BY <2>1, <2>2, <2>3 DEF Names, SuppressionsOf!WellFormed
<1>2. ASSUME NEW n \in 1..Len(f.comments), f.comments[n].form = "directive",
             Names(f.comments[n].ids, r), f.comments[n].line = line
      PROVE  \E d \in Said(f) : d.rule = r.id /\ d.line = line
  <2>1. PICK id \in f.comments[n].ids : id \in r.ids
    BY <1>2 DEF Names
  <2>2. SuppressionsOf!Known(id) /\ SuppressionsOf!Canonical(id) = r.id
    BY <2>1, CanonicalIs
  <2>3. SuppressionsOf!WellFormed(f.comments[n])
    BY <1>2, <2>1 DEF SuppressionsOf!WellFormed
  <2> DEFINE d == [rule |-> SuppressionsOf!Canonical(id), line |-> f.comments[n].line, comment |-> n]
  <2>4. d \in Said(f)
    BY <2>1, <2>2, <2>3 DEF Said, SuppressionsOf!Directives
  <2>5. d.rule = r.id /\ d.line = line
    BY <1>2, <2>2
  <2>6. QED
    BY <2>4, <2>5
<1>3. QED
  BY <1>1, <1>2

LEMMA LineSaid ==
  ASSUME NEW f \in Files, NEW d \in Said(f) PROVE d.line \in Nat
<1>1. PICK n \in 1..Len(f.comments) : d.line = f.comments[n].line
  BY DEF Said, SuppressionsOf!Directives
<1>2. f.comments[n] \in CommentForm
  BY FileIs, ElementOfSeq
<1>3. QED
  BY <1>1, <1>2 DEF CommentForm

LEMMA BoundIs ==
  ASSUME NEW f \in Files, NEW d \in Said(f), NEW r \in Regions(f)
  PROVE  SuppressionsOf!Bound(Regions(f), d) = r <=> Covers(r, d.line)
<1> DEFINE active == {x \in Regions(f) : x.first <= d.line /\ d.line <= x.last}
           bound == SuppressionsOf!Bound(Regions(f), d)
<1>1. d.line \in Int
  BY LineSaid
<1>2. \A x \in active : \A y \in active : x = y
  BY <1>1, OneRegion DEF Covers
<1>3. bound = IF active = {} THEN SuppressionsOf!Unbound
              ELSE CHOOSE x \in active : \A y \in active : SuppressionsOf!Shorter(x, y)
  BY DEF SuppressionsOf!Bound
<1>4. r # SuppressionsOf!Unbound
  <2>1. PICK i \in 1..Len(f.lines) : r \in RegionsAt(f, i)
    BY DEF Regions, RegionsAt
  <2>2. r.first >= Base(i) + 3 /\ Base(i) \in Nat /\ r.first \in Nat
    BY <2>1, RegionIs, RoomIs
  <2>3. r.first # 0
    BY <2>2
  <2>4. QED
    BY <2>3 DEF SuppressionsOf!Unbound
<1>5. ASSUME NEW x \in active PROVE SuppressionsOf!Shorter(x, x)
  <2>1. PICK i \in 1..Len(f.lines) : x \in RegionsAt(f, i)
    BY DEF Regions, RegionsAt
  <2>2. x.first \in Nat /\ x.last \in Nat /\ x.start \in {0, 5}
    BY <2>1, RegionIs
  <2>3. QED
    BY <2>2 DEF SuppressionsOf!Shorter, SuppressionsOf!Spans
<1>6. CASE active = {}
  BY <1>3, <1>4, <1>6 DEF Covers
<1>7. CASE active # {}
  <2>1. PICK x \in active : TRUE
    BY <1>7
  <2>2. \A y \in active : SuppressionsOf!Shorter(x, y)
    BY <1>2, <1>5
  <2>3. bound \in active
    <3> HIDE DEF active, bound
    <3> QED
      BY <1>3, <1>7, <2>1, <2>2
  <2>4. bound = x
    BY <1>2, <2>1, <2>3
  <2>5. r \in active <=> Covers(r, d.line)
    BY DEF Covers
  <2>6. QED
    BY <1>2, <2>1, <2>4, <2>5
<1>8. QED
  BY <1>6, <1>7

LEMMA BoundIn ==
  ASSUME NEW f \in Files, NEW d \in Said(f),
         SuppressionsOf!Bound(Regions(f), d) # SuppressionsOf!Unbound
  PROVE  SuppressionsOf!Bound(Regions(f), d) \in Regions(f)
<1> DEFINE active == {x \in Regions(f) : x.first <= d.line /\ d.line <= x.last}
           bound == SuppressionsOf!Bound(Regions(f), d)
<1>1. bound = IF active = {} THEN SuppressionsOf!Unbound
              ELSE CHOOSE x \in active : \A y \in active : SuppressionsOf!Shorter(x, y)
  BY DEF SuppressionsOf!Bound
<1>2. active # {}
  BY <1>1
<1>3. PICK x \in active : TRUE
  BY <1>2
<1>4. x \in Regions(f) /\ Covers(x, d.line)
  BY DEF Covers
<1>5. bound = x
  BY <1>4, BoundIs
<1>6. QED
  BY <1>4, <1>5

HeldHere(f, r) == SuppressionsOf!Held(Regions(f), Said(f), r.id)

\* A region holds a directive for a rule when one is written on a line of it.
LEMMA HeldIs ==
  ASSUME NEW f \in Files, NEW r \in Rules, NEW region \in Regions(f)
  PROVE  region \in HeldHere(f, r)
           <=> \E d \in Said(f) : d.rule = r.id /\ Covers(region, d.line)
<1>1. region # SuppressionsOf!Unbound
  <2>1. PICK i \in 1..Len(f.lines) : region \in RegionsAt(f, i)
    BY DEF Regions, RegionsAt
  <2>2. region.first >= Base(i) + 3 /\ Base(i) \in Nat /\ region.first \in Nat
    BY <2>1, RegionIs, RoomIs
  <2>3. region.first # 0
    BY <2>2
  <2>4. QED
    BY <2>3 DEF SuppressionsOf!Unbound
<1>2. region \in HeldHere(f, r)
        <=> \E d \in Said(f) : d.rule = r.id /\ SuppressionsOf!Bound(Regions(f), d) = region
  BY <1>1 DEF HeldHere, SuppressionsOf!Held
<1>3. QED
  BY <1>2, BoundIs

LEMMA HeldIn ==
  ASSUME NEW f \in Files, NEW r \in Rules, NEW region \in HeldHere(f, r)
  PROVE  region \in Regions(f) /\ region # SuppressionsOf!Unbound
<1>1. PICK d \in Said(f) : /\ region = SuppressionsOf!Bound(Regions(f), d)
                          /\ region # SuppressionsOf!Unbound
  BY DEF HeldHere, SuppressionsOf!Held
<1>2. QED
  BY <1>1, BoundIn

\* The only region looked at for a finding decides it.
LEMMA OwnerMutes ==
  ASSUME NEW f \in Files, NEW r \in Rules, NEW found,
         found.first \in Nat, found.last = found.first, found.start \in Nat, found.end \in Nat
  PROVE  SuppressionsOf!MutedInline(Regions(f), Said(f), r.id, found)
           <=> \E g \in HeldHere(f, r) :
                 SuppressionsOf!StartsBy(g, found) /\ SuppressionsOf!EndsBy(found, g)
<1> DEFINE by == {g \in HeldHere(f, r) : SuppressionsOf!StartsBy(g, found)}
           owner == SuppressionsOf!Owner(Regions(f), Said(f), r.id, found)
           muted0 == SuppressionsOf!MutedInline(Regions(f), Said(f), r.id, found)
<1>1. owner = IF by = {} THEN SuppressionsOf!Unbound
              ELSE CHOOSE g \in by : \A s \in by : SuppressionsOf!StartsBy(s, g)
  BY DEF SuppressionsOf!Owner, HeldHere
<1>2. muted0 <=> /\ owner # SuppressionsOf!Unbound
                 /\ SuppressionsOf!StartsBy(owner, found) /\ SuppressionsOf!EndsBy(found, owner)
  BY DEF SuppressionsOf!MutedInline
<1>3. ASSUME NEW g \in HeldHere(f, r)
      PROVE  /\ g \in Regions(f) /\ g # SuppressionsOf!Unbound
             /\ g.first \in Nat /\ g.last \in Nat /\ g.first <= g.last /\ g.start \in Nat
             /\ Covers(g, g.first)
  <2>1. g \in Regions(f) /\ g # SuppressionsOf!Unbound
    BY HeldIn
  <2>2. PICK i \in 1..Len(f.lines) : g \in RegionsAt(f, i)
    BY <2>1 DEF Regions, RegionsAt
  <2>3. g.first \in Nat /\ g.last \in Nat /\ g.first <= g.last /\ g.start \in {0, 5}
    BY <2>2, RegionIs
  <2>4. QED
    BY <2>1, <2>3 DEF Covers
<1>4. ASSUME NEW g \in HeldHere(f, r), NEW s \in HeldHere(f, r), g.first = s.first
      PROVE  g = s
  <2>1. Covers(g, g.first) /\ Covers(s, g.first) /\ g.first \in Int
    BY <1>3, <1>4
  <2>2. QED
    BY <1>3, <2>1, OneRegion
<1>5. ASSUME NEW g \in by, NEW s \in by, s.first <= g.first
      PROVE  SuppressionsOf!StartsBy(s, g)
  <2>1. g \in HeldHere(f, r) /\ s \in HeldHere(f, r)
    OBVIOUS
  <2>2. s.first \in Nat /\ g.first \in Nat /\ g.start \in Nat
    BY <1>3, <2>1
  <2>3. CASE s.first < g.first
    BY <2>3 DEF SuppressionsOf!StartsBy
  <2>4. CASE s.first = g.first
    <3>1. s = g
      BY <1>4, <2>1, <2>4
    <3>2. QED
      BY <2>2, <3>1 DEF SuppressionsOf!StartsBy
  <2>5. QED
    BY <1>5, <2>2, <2>3, <2>4
<1>6. ASSUME NEW g \in HeldHere(f, r), SuppressionsOf!StartsBy(g, found), SuppressionsOf!EndsBy(found, g)
      PROVE  muted0
  <2>1. g \in by
    BY <1>6
  <2>2. g.first <= found.first /\ found.first <= g.last
    BY <1>3, <1>6 DEF SuppressionsOf!StartsBy, SuppressionsOf!EndsBy
  <2>3. ASSUME NEW s \in by PROVE s.first <= g.first
    <3>1. s \in HeldHere(f, r) /\ SuppressionsOf!StartsBy(s, found)
      OBVIOUS
    <3>2. s.first <= found.first /\ s.first \in Nat /\ g.first \in Nat /\ g.last \in Nat
      BY <1>3, <3>1 DEF SuppressionsOf!StartsBy
    <3>3. SUFFICES ASSUME g.first < s.first PROVE FALSE
      BY <3>2
    <3>4. Covers(g, s.first)
      BY <2>2, <3>2, <3>3 DEF Covers
    <3>5. Covers(s, s.first) /\ s.first \in Int /\ s \in Regions(f) /\ g \in Regions(f)
      BY <1>3, <3>1, <3>2
    <3>6. s = g
      BY <3>4, <3>5, OneRegion
    <3>7. QED
      BY <3>2, <3>3, <3>6
  <2>4. \A s \in by : SuppressionsOf!StartsBy(s, g)
    BY <1>5, <2>1, <2>3
  <2>5. owner \in by /\ \A s \in by : SuppressionsOf!StartsBy(s, owner)
    <3> HIDE DEF by, owner
    <3> QED
      BY <1>1, <2>1, <2>4
  <2>6. owner = g
    <3>1. SuppressionsOf!StartsBy(g, owner) /\ SuppressionsOf!StartsBy(owner, g)
      BY <2>1, <2>4, <2>5
    <3>2. owner \in HeldHere(f, r)
      BY <2>5
    <3>3. owner.first \in Nat /\ g.first \in Nat
      BY <1>3, <3>2
    <3>4. owner.first = g.first
      BY <3>1, <3>3 DEF SuppressionsOf!StartsBy
    <3>5. QED
      BY <1>4, <3>2, <3>4
  <2>7. QED
    BY <1>2, <1>3, <1>6, <2>6
<1>7. ASSUME muted0
      PROVE  \E g \in HeldHere(f, r) : SuppressionsOf!StartsBy(g, found) /\ SuppressionsOf!EndsBy(found, g)
  <2>1. by # {}
    BY <1>1, <1>2, <1>7
  <2> DEFINE firsts == {g.first : g \in by}
  <2>2. firsts # {} /\ firsts \in SUBSET (0..found.first)
    <3>1. ASSUME NEW g \in by PROVE g.first \in 0..found.first
      <4>1. g \in HeldHere(f, r) /\ SuppressionsOf!StartsBy(g, found)
        OBVIOUS
      <4>2. g.first <= found.first /\ g.first \in Nat
        BY <1>3, <4>1 DEF SuppressionsOf!StartsBy
      <4>3. QED
        BY <4>2
    <3>2. QED
      BY <2>1, <3>1
  <2>3. PICK m \in firsts : \A k \in firsts : k <= m
    <3> HIDE DEF firsts
    <3> QED
      BY <2>2, GreatestElement
  <2>4. PICK g \in by : m = g.first
    BY <2>3
  <2>5. \A s \in by : SuppressionsOf!StartsBy(s, g)
    BY <1>5, <2>3, <2>4
  <2>6. owner \in by
    <3> HIDE DEF by, owner
    <3> QED
      BY <1>1, <2>4, <2>5
  <2>7. QED
    BY <1>2, <1>7, <2>6
<1>8. QED
  BY <1>6, <1>7

\* The lines a comment may be on to speak of a statement.
LEMMA InlineAsWritten ==
  ASSUME NEW f \in Files, NEW i \in 1..Len(f.lines), NEW r \in Rules
  PROVE  SuppressionsOf!MutedInline(Regions(f), Said(f), r.id, Location(f, i))
           <=> \E d \in Said(f) : d.rule = r.id /\ d.line \in StatementLines(f, i)
<1> DEFINE n == Len(Within(f, i))
           a == FirstLine(f, i)
           b == f.lines[i].span
           statement == StatementRegion(f, i)
           found == Location(f, i)
           muted0 == SuppressionsOf!MutedInline(Regions(f), Said(f), r.id, found)
<1>1. /\ a \in Nat /\ b \in Nat /\ b >= 1 /\ n \in Nat /\ f.lines[i].oneline \in BOOLEAN
      /\ Base(i) \in Nat /\ i \in Nat /\ Room \in Nat
  <2>1. b \in Nat /\ b >= 1 /\ n \in Nat /\ f.lines[i].oneline \in BOOLEAN /\ i \in Nat
    BY LineIs
  <2>2. a \in Nat /\ Base(i) \in Nat /\ Room \in Nat
    BY RoomIs
  <2>3. QED
    BY <2>1, <2>2
<1>2. statement.first = a /\ statement.last = a + b - 1 /\ statement.end = 9
      /\ statement.start = (IF f.lines[i].oneline THEN 5 ELSE 0)
  BY DEF StatementRegion, Region
<1>3. statement \in Regions(f)
  BY DEF Regions
<1>4. ASSUME NEW g \in Regions(f)
      PROVE  g.first \in Nat /\ g.last \in Nat /\ g.start \in Nat /\ g.end = 9
  <2>1. PICK j \in 1..Len(f.lines) : g \in RegionsAt(f, j)
    BY DEF Regions, RegionsAt
  <2>2. g.first \in Nat /\ g.last \in Nat /\ g.start \in {0, 5} /\ g.end = 9
    BY <2>1, RegionIs
  <2>3. QED
    BY <2>2
<1>5. ASSUME NEW g \in Regions(f), found.first \in Nat, found.last = found.first,
             SuppressionsOf!StartsBy(g, found), SuppressionsOf!EndsBy(found, g)
      PROVE  Covers(g, found.first)
  BY <1>4, <1>5 DEF Covers, SuppressionsOf!StartsBy, SuppressionsOf!EndsBy
\* The finding is in a region of its own.
<1>6. ASSUME NEW g \in Regions(f), found.first \in Nat, found.last = found.first,
             found.start \in Nat, found.end \in Nat, Covers(g, found.first),
             SuppressionsOf!StartsBy(g, found), SuppressionsOf!EndsBy(found, g),
             NEW S, \A line \in Int : line \in S <=> Covers(g, line)
      PROVE  muted0 <=> \E d \in Said(f) : d.rule = r.id /\ d.line \in S
  <2>1. muted0 <=> \E h \in HeldHere(f, r) :
                     SuppressionsOf!StartsBy(h, found) /\ SuppressionsOf!EndsBy(found, h)
    BY <1>6, OwnerMutes
  <2>2. ASSUME NEW h \in HeldHere(f, r), SuppressionsOf!StartsBy(h, found),
               SuppressionsOf!EndsBy(found, h)
        PROVE  h = g
    <3>1. h \in Regions(f)
      BY HeldIn
    <3>2. Covers(h, found.first) /\ found.first \in Int
      BY <1>5, <1>6, <2>2, <3>1
    <3>3. QED
      BY <1>6, <3>1, <3>2, OneRegion
  <2>3. muted0 <=> g \in HeldHere(f, r)
    BY <1>6, <2>1, <2>2
  <2>4. g \in HeldHere(f, r) <=> \E d \in Said(f) : d.rule = r.id /\ Covers(g, d.line)
    BY HeldIs
  <2>5. \A d \in Said(f) : d.line \in Int
    BY LineSaid
  <2>6. QED
    BY <1>6, <2>3, <2>4, <2>5
<1>7. CASE Node(f, i).place # "header"
  <2>1. found = [first |-> a + b - 1, start |-> 6, last |-> a + b - 1, end |-> 8]
    BY <1>2, <1>7 DEF Location
  <2>2. /\ found.first = a + b - 1 /\ found.last = a + b - 1 /\ found.start = 6 /\ found.end = 8
    BY <2>1
  <2> HIDE DEF found, a, b
  <2>3. a + b - 1 \in Nat /\ a <= a + b - 1
    BY <1>1
  <2>4. Covers(statement, found.first)
    BY <1>2, <2>2, <2>3 DEF Covers
  <2>5. SuppressionsOf!StartsBy(statement, found)
    <3>1. statement.start <= 6
      BY <1>1, <1>2
    <3>2. QED
      BY <1>1, <1>2, <2>2, <2>3, <3>1 DEF SuppressionsOf!StartsBy
  <2>6. SuppressionsOf!EndsBy(found, statement)
    BY <1>2, <2>2, <2>3 DEF SuppressionsOf!EndsBy
  <2>7. StatementLines(f, i) = a..a + b - 1
    <3>1. Node(f, i).place = "body"
      BY <1>7, LineIs DEF NodeForm
    <3>2. QED
      BY <3>1 DEF StatementLines, a, b
  <2>8. \A line \in Int : line \in StatementLines(f, i) <=> Covers(statement, line)
    BY <1>1, <1>2, <2>7 DEF Covers
  <2>9. /\ found.first \in Nat /\ found.last = found.first /\ found.start \in Nat /\ found.end \in Nat
    BY <2>2, <2>3
  <2>10. QED
    BY <1>3, <1>6, <2>4, <2>5, <2>6, <2>8, <2>9 DEF found
<1>8. CASE Node(f, i).place = "header"
  <2> DEFINE line == HeaderLine(i, n)
  <2>1. n >= 1
    BY <1>8, LineIs
  <2>2. line = Base(i) + 3 * n + 1 /\ line \in Nat
    BY <1>1 DEF HeaderLine, Line, Base
  <2>3. found = [first |-> line, start |-> 2, last |-> line, end |-> 4]
    BY <1>8 DEF Location
  <2>4. found.first = line /\ found.last = line /\ found.start = 2 /\ found.end = 4
    BY <2>3
  <2>5. CASE f.lines[i].oneline /\ Within(f, i)[n].branch = "body"
    <3>1. StatementLines(f, i) = {}
      BY <1>8, <2>5 DEF StatementLines
    <3>2. a = line
      BY <2>5 DEF FirstLine
    <3>3. ASSUME muted0 PROVE FALSE
      <4>1. PICK h \in HeldHere(f, r) :
              SuppressionsOf!StartsBy(h, found) /\ SuppressionsOf!EndsBy(found, h)
        <5>1. found.first \in Nat /\ found.last = found.first /\ found.start \in Nat /\ found.end \in Nat
          BY <2>2, <2>4
        <5>2. QED
          BY <3>3, <5>1, OwnerMutes
      <4>2. h \in Regions(f)
        BY HeldIn
      <4>3. Covers(h, line)
        BY <1>5, <2>2, <2>4, <4>1, <4>2
      <4>4. Covers(statement, line)
        <5> HIDE DEF a, b, line, found, n
        <5> QED
          BY <1>1, <1>2, <3>2 DEF Covers
      <4>5. h = statement
        BY <1>3, <2>2, <4>2, <4>3, <4>4, OneRegion
      <4>6. statement.first = line /\ statement.start = 5
        BY <1>2, <2>5, <3>2
      <4>7. QED
        <5> HIDE DEF a, b, line, found, n, statement
        <5> QED
          BY <2>2, <2>4, <4>1, <4>5, <4>6 DEF SuppressionsOf!StartsBy
    <3>4. QED
      BY <3>1, <3>3
  <2>6. CASE ~(f.lines[i].oneline /\ Within(f, i)[n].branch = "body")
    <3> DEFINE g == Region(line, 0, line)
    <3>1. g \in HeaderRegions(f, i, n)
      BY <2>6 DEF HeaderRegions
    <3>2. g \in Regions(f)
      <4>1. n \in 1..n
        BY <1>1, <2>1
      <4>2. QED
        BY <3>1, <4>1 DEF Regions
    <3>3. g.first = line /\ g.last = line /\ g.start = 0 /\ g.end = 9
      BY DEF Region
    <3>4. StatementLines(f, i) = {line}
      BY <1>8, <2>6, LineIs DEF StatementLines
    <3> HIDE DEF line, found, g
    <3>5. Covers(g, found.first) /\ found.first \in Nat /\ found.last = found.first
          /\ found.start \in Nat /\ found.end \in Nat
      BY <2>2, <2>4, <3>3 DEF Covers
    <3>6. SuppressionsOf!StartsBy(g, found) /\ SuppressionsOf!EndsBy(found, g)
      BY <2>2, <2>4, <3>3 DEF SuppressionsOf!StartsBy, SuppressionsOf!EndsBy
    <3>7. \A l \in Int : l \in StatementLines(f, i) <=> Covers(g, l)
      BY <2>2, <3>3, <3>4 DEF Covers
    <3>8. QED
      BY <1>6, <3>2, <3>5, <3>6, <3>7 DEF found
  <2>7. QED
    BY <2>5, <2>6
<1>9. QED
  BY <1>7, <1>8

LEMMA IgnoreAsWritten ==
  ASSUME NEW f \in Files, NEW r \in Rules
  PROVE  SuppressionsOf!IgnoreFor(f.ignores, r.id) # 0
           <=> \E n \in 1..Len(f.ignores) : f.ignores[n].matches /\ Names(f.ignores[n].ids, r)
<1> DEFINE S == {n \in 1..Len(f.ignores) :
                   /\ f.ignores[n].matches
                   /\ \E id \in f.ignores[n].ids : /\ SuppressionsOf!Known(id)
                                                   /\ SuppressionsOf!Canonical(id) = r.id}
<1>1. SuppressionsOf!IgnoreFor(f.ignores, r.id)
        = IF S = {} THEN 0 ELSE CHOOSE n \in S : \A m \in S : n <= m
  BY DEF SuppressionsOf!IgnoreFor
<1>2. S = {n \in 1..Len(f.ignores) : f.ignores[n].matches /\ Names(f.ignores[n].ids, r)}
  <2>1. \A id : SuppressionsOf!Known(id) /\ SuppressionsOf!Canonical(id) = r.id <=> id \in r.ids
    BY CanonicalIs
  <2>2. \A n \in 1..Len(f.ignores) : n \in S <=> f.ignores[n].matches /\ Names(f.ignores[n].ids, r)
    BY <2>1 DEF Names
  <2> HIDE DEF S
  <2>3. S \subseteq 1..Len(f.ignores)
    BY DEF S
  <2>4. QED
    BY <2>2, <2>3
<1>3. ASSUME S # {} PROVE (CHOOSE n \in S : \A m \in S : n <= m) # 0
  <2>1. S \in SUBSET Nat /\ \A n \in S : n # 0
    OBVIOUS
  <2>2. \E n \in S : \A m \in S : n <= m
    <3> HIDE DEF S
    <3> QED
      BY <1>3, <2>1, LeastElement
  <2> HIDE DEF S
  <2>3. QED
    BY <2>1, <2>2
<1>4. QED
  <2> HIDE DEF S
  <2>1. S # {} <=> SuppressionsOf!IgnoreFor(f.ignores, r.id) # 0
    BY <1>1, <1>3
  <2>2. QED
    BY <1>2, <2>1

-----------------------------------------------------------------------------
(* What a visit records.                                                    *)

ModuleFound(m) == m.at = at /\ m.rule \in Rules /\ m.kind \in {"module", "dynamic", "pattern"}

SymbolFound(m) ==
  /\ Node(file, at).op = "from" /\ ~Node(file, at).relative
  /\ \E a \in Node(file, at).names :
       /\ ~Competing(file, Append(Node(file, at).module, a.name))
       /\ \E r \in SymbolRules(Append(Node(file, at).module, a.name)) : m = SymbolMatch(r, a)

ReferenceFound(m) ==
  /\ Node(file, at).op \in {"use", "call"}
  /\ \E p \in Prefixes(Node(file, at).path) : m \in ReferenceMatches(p)

CallFound(m) == Node(file, at).op = "call" /\ m \in CallMatches(Node(file, at).path)

Found(m) == ModuleFound(m) \/ SymbolFound(m) \/ ReferenceFound(m) \/ CallFound(m)

\* A visit keeps what was recorded, and adds what it found.
Recorded ==
  /\ matches \subseteq matches' /\ inferences \subseteq inferences'
  /\ \A m \in matches' : m \in matches \/ Found(m)

LEMMA MatchFields ==
  ASSUME NEW kind, NEW rule, NEW confidence, NEW versions, NEW contexts
  PROVE  LET m == Match(kind, rule, confidence, versions, contexts) IN
         /\ m.at = at /\ m.kind = kind /\ m.rule = rule /\ m.confidence = confidence
         /\ m.versions = versions /\ m.contexts = contexts
  BY DEF Match

LEMMA SymbolFields ==
  ASSUME NEW r, NEW a
  PROVE  LET m == SymbolMatch(r, a)
             found == SymbolImportVersions(file, at, State.versions)
         IN
         /\ m.at = at /\ m.kind = "symbol" /\ m.rule = r /\ m.confidence = "high"
         /\ m.versions = {v \in found.reachable : v >= Least(r.removed)}
         /\ m.contexts = State.contexts \cap {"runtime"}
         /\ m.unknown = found.uncertain
  BY DEF SymbolMatch, Match

LEMMA ModuleMatches ==
  ASSUME NEW module, NEW m \in ImportMatches(module) PROVE ModuleFound(m)
<1>1. PICK r \in ModuleRules(module) : m = Match("module", r, "high", State.versions, State.contexts)
  BY DEF ImportMatches, Here
<1>2. r \in Rules
  BY DEF ModuleRules
<1>3. QED
  BY <1>1, <1>2, MatchFields DEF ModuleFound

LEMMA ImportVisit ==
  ASSUME VisitImport
  PROVE  /\ Recorded
         /\ ImportMatches(Node(file, at).module) \subseteq matches'
         /\ ImportInferences(Node(file, at).module) \subseteq inferences'
<1>1. /\ matches' = matches \cup ImportMatches(Node(file, at).module)
      /\ inferences' = inferences \cup ImportInferences(Node(file, at).module)
  BY DEF VisitImport, Add
<1>2. \A m \in ImportMatches(Node(file, at).module) : Found(m)
  BY ModuleMatches DEF Found
<1>3. QED
  BY <1>1, <1>2 DEF Recorded

LEMMA FromVisit ==
  ASSUME VisitImportFrom
  PROVE  /\ Recorded
         /\ ~Node(file, at).relative =>
              /\ ImportMatches(Node(file, at).module) \subseteq matches'
              /\ ImportInferences(Node(file, at).module) \subseteq inferences'
              /\ \A a \in Submodules : /\ ImportMatches(ChildOf(a)) \subseteq matches'
                                       /\ ImportInferences(ChildOf(a)) \subseteq inferences'
              /\ \A a \in Node(file, at).names :
                   /\ SymbolMatches(ChildOf(a), a) \subseteq matches'
                   /\ SymbolInferences(ChildOf(a)) \subseteq inferences'
<1> DEFINE node == Node(file, at)
<1>0. node.op = "from"
  BY DEF VisitImportFrom
<1>1. CASE node.relative
  <2>1. matches' = matches \cup {} /\ inferences' = inferences \cup {}
    BY <1>1 DEF VisitImportFrom, Add
  <2>2. QED
    BY <1>1, <2>1 DEF Recorded
<1>2. CASE ~node.relative
  <2> DEFINE own == ImportMatches(node.module)
             told == ImportInferences(node.module)
  <2>1. matches' = matches \cup (own \cup NamedMatches)
        /\ inferences' = inferences \cup (told \cup NamedInferences)
    BY <1>2 DEF VisitImportFrom, Add
  <2>2. \A m \in own : Found(m)
    BY ModuleMatches DEF Found
  <2>3. \A m \in NamedMatches : Found(m)
    <3>1. SUFFICES ASSUME NEW m \in NamedMatches PROVE Found(m)
      OBVIOUS
    <3>2. CASE \E a \in Submodules : m \in ImportMatches(ChildOf(a))
      BY <3>2, ModuleMatches DEF Found
    <3>3. CASE \E a \in node.names : m \in SymbolMatches(ChildOf(a), a)
      <4>1. PICK a \in node.names : m \in SymbolMatches(ChildOf(a), a)
        BY <3>3
      <4>2. ~Competing(file, ChildOf(a)) /\ \E r \in SymbolRules(ChildOf(a)) : m = SymbolMatch(r, a)
        BY <4>1 DEF SymbolMatches
      <4>3. SymbolFound(m)
        BY <1>0, <1>2, <4>2 DEF SymbolFound, ChildOf
      <4>4. QED
        BY <4>3 DEF Found
    <3>4. QED
      BY <3>1, <3>2, <3>3 DEF NamedMatches
  <2> HIDE DEF own, told
  <2>4. Recorded
    BY <2>1, <2>2, <2>3 DEF Recorded
  <2>5. /\ own \subseteq matches' /\ NamedMatches \subseteq matches'
        /\ told \subseteq inferences' /\ NamedInferences \subseteq inferences'
    BY <2>1
  <2>6. /\ \A a \in Submodules : ImportMatches(ChildOf(a)) \subseteq NamedMatches
        /\ \A a \in node.names : SymbolMatches(ChildOf(a), a) \subseteq NamedMatches
        /\ \A a \in Submodules : ImportInferences(ChildOf(a)) \subseteq NamedInferences
        /\ \A a \in node.names : SymbolInferences(ChildOf(a)) \subseteq NamedInferences
    <3>1. ASSUME NEW a \in Submodules PROVE ImportMatches(ChildOf(a)) \subseteq NamedMatches
      BY DEF NamedMatches
    <3>2. ASSUME NEW a \in node.names PROVE SymbolMatches(ChildOf(a), a) \subseteq NamedMatches
      BY DEF NamedMatches
    <3>3. ASSUME NEW a \in Submodules PROVE ImportInferences(ChildOf(a)) \subseteq NamedInferences
      BY DEF NamedInferences
    <3>4. ASSUME NEW a \in node.names PROVE SymbolInferences(ChildOf(a)) \subseteq NamedInferences
      BY DEF NamedInferences
    <3>5. QED
      BY <3>1, <3>2, <3>3, <3>4
  <2>7. QED
    BY <2>4, <2>5, <2>6 DEF own, told
<1>3. QED
  BY <1>1, <1>2

LEMMA ReferencesFoundAre ==
  ASSUME NEW m \in ReferencesFound(Node(file, at).path), Node(file, at).op \in {"use", "call"}
  PROVE  Found(m)
<1>1. PICK p \in Prefixes(Node(file, at).path) : m \in ReferenceMatches(p)
  BY DEF ReferencesFound
<1>2. QED
  BY <1>1 DEF Found, ReferenceFound

LEMMA UseVisit ==
  ASSUME VisitUse
  PROVE  /\ Recorded
         /\ ReferencesFound(Node(file, at).path) \subseteq matches'
         /\ ReferencesTold(Node(file, at).path) \subseteq inferences'
<1>1. /\ matches' = matches \cup ReferencesFound(Node(file, at).path)
      /\ inferences' = inferences \cup ReferencesTold(Node(file, at).path)
      /\ Node(file, at).op = "use"
  BY DEF VisitUse, Add
<1>2. QED
  BY <1>1, ReferencesFoundAre DEF Recorded

LEMMA CallVisit ==
  ASSUME VisitCall
  PROVE  /\ Recorded
         /\ CallMatches(Node(file, at).path) \cup ReferencesFound(Node(file, at).path) \subseteq matches'
         /\ NameInferences(Called(Node(file, at).path)) \cup ReferencesTold(Node(file, at).path)
              \subseteq inferences'
<1> DEFINE path == Node(file, at).path
           found == CallMatches(path) \cup ReferencesFound(path)
           told == NameInferences(Called(path)) \cup ReferencesTold(path)
           function == DynamicFunction(path)
           module == DynamicModule(Node(file, at).args, function.name)
           dynamic == {Here("dynamic", r, Combined(r.confidence, function.confidence)) :
                         r \in DynamicRules(module)}
<1>1. RecordDynamic(path, found, told) /\ Node(file, at).op = "call"
  BY DEF VisitCall
<1>2. \/ Add(found, told) \/ Add(found, told \cup {NotClassified(ImportModule)})
      \/ Add(found, told \cup {NotClassified(module)}) \/ Add(found \cup dynamic, told)
  BY <1>1, Zenon DEF RecordDynamic
<1>3. /\ matches' = matches \cup found \/ matches' = matches \cup (found \cup dynamic)
      /\ inferences \cup told \subseteq inferences'
  <2> HIDE DEF found, told, dynamic, module
  <2>1. QED
    BY <1>2 DEF Add
<1>4. \A m \in found : Found(m)
  <2>1. \A m \in CallMatches(path) : Found(m)
    BY <1>1 DEF Found, CallFound
  <2>2. QED
    BY <1>1, <2>1, ReferencesFoundAre
<1>5. \A m \in dynamic : Found(m)
  <2>1. SUFFICES ASSUME NEW r \in DynamicRules(module)
                 PROVE  Found(Here("dynamic", r, Combined(r.confidence, function.confidence)))
    OBVIOUS
  <2>2. r \in Rules
    BY DEF DynamicRules
  <2>3. ModuleFound(Here("dynamic", r, Combined(r.confidence, function.confidence)))
    BY <2>2, MatchFields DEF ModuleFound, Here
  <2>4. QED
    BY <2>3 DEF Found
<1>6. QED
  <2>1. matches \cup found \subseteq matches'
    BY <1>3
  <2> HIDE DEF dynamic
  <2>2. \A m \in matches' : m \in matches \/ Found(m)
    <3> HIDE DEF found
    <3> QED
      BY <1>3, <1>4, <1>5
  <2>3. QED
    BY <1>3, <2>1, <2>2 DEF Recorded

LEMMA InversionVisit ==
  ASSUME VisitInversion PROVE Recorded
<1> DEFINE found == {Here("pattern", r, "high") :
                       r \in {x \in Rules : /\ x.matcher = "pattern"
                                            /\ Node(file, at).operand \in {"True", "False"}}}
<1>1. matches' = matches \cup found /\ inferences' = inferences \cup {}
  BY DEF VisitInversion, Add
<1>2. \A m \in found : Found(m)
  <2>1. SUFFICES ASSUME NEW r \in Rules PROVE Found(Here("pattern", r, "high"))
    OBVIOUS
  <2>2. QED
    BY <2>1, MatchFields DEF Found, ModuleFound, Here
<1>3. QED
  <2> HIDE DEF found
  <2> QED
    BY <1>1, <1>2 DEF Recorded

LEMMA AssignVisit ==
  ASSUME VisitAssign PROVE Recorded
  BY DEF VisitAssign, Add, Recorded

LEMMA NodeVisit ==
  ASSUME VisitNode PROVE Recorded
  BY ImportVisit, FromVisit, UseVisit, CallVisit, InversionVisit, AssignVisit, Zenon DEF VisitNode

\* Whatever is found is of this construct, and of a rule.
LEMMA FoundHere ==
  ASSUME NEW m, Found(m) PROVE m.at = at /\ m.rule \in Rules
<1>1. CASE ModuleFound(m)
  BY <1>1 DEF ModuleFound
<1>2. CASE SymbolFound(m)
  <2>1. PICK a, r : a \in Node(file, at).names /\ r \in SymbolRules(ChildOf(a)) /\ m = SymbolMatch(r, a)
    BY <1>2 DEF SymbolFound, ChildOf
  <2>2. r \in Rules
    BY <2>1 DEF SymbolRules
  <2>3. QED
    BY <2>1, <2>2, SymbolFields
<1>3. CASE ReferenceFound(m)
  <2>1. PICK p \in Prefixes(Node(file, at).path) : m \in ReferenceMatches(p)
    BY <1>3 DEF ReferenceFound
  <2>2. PICK r \in Referred(p) :
          m = Match("reference", r, ImportResolution(p, r.name), GuardedVersions(r),
                    IF Deferred(at) THEN State.contexts \cap {"typing"} ELSE State.contexts)
    BY <2>1 DEF ReferenceMatches
  <2>3. r \in Rules
    BY DEF Referred, Candidates
  <2>4. QED
    BY <2>2, <2>3, MatchFields
<1>4. CASE CallFound(m)
  <2>1. PICK r \in Called(Node(file, at).path) :
          m = Match(r.matcher, r, ImportResolution(Node(file, at).path, r.name), GuardedVersions(r),
                    State.contexts)
    BY <1>4 DEF CallFound, CallMatches
  <2>2. r \in Rules
    BY DEF Called, Candidates
  <2>3. QED
    BY <2>1, <2>2, MatchFields
<1>5. QED
  BY <1>1, <1>2, <1>3, <1>4 DEF Found

-----------------------------------------------------------------------------
(* Where the traversal is.                                                  *)

PlaceInv ==
  /\ file \in Files /\ at \in Nat /\ at >= 1 /\ down \in BOOLEAN
  /\ ancestors \in Seq(CompoundForm)
  /\ Inside => Len(ancestors) <= Len(Frames)
  /\ ~Inside => down /\ ancestors = <<>>

\* What was found is of a construct visited before, and of a rule.
FoundInv == \A m \in matches : m.at \in 1..Len(file.lines) /\ m.rule \in Rules

\* The comments and the patterns are looked at once everything is found.
SuppressionHere(m) ==
  SuppressionsOf!Suppression(Regions(file), SuppressionsOf!Directives(file.comments),
                             file.ignores, m.rule.id, Location(file, m.at))
MutedInv == muted # <<>> => ~Inside /\ muted = [m \in matches |-> SuppressionHere(m)]

LEMMA InsideIs ==
  ASSUME PlaceInv, Inside PROVE at \in 1..Len(file.lines) /\ Len(file.lines) \in Nat
<1>1. Len(file.lines) \in Nat
  BY FileIs DEF PlaceInv
<1>2. QED
  BY <1>1 DEF PlaceInv, Inside

LEMMA DepthIs ==
  ASSUME PlaceInv, Inside
  PROVE  /\ Depth(at) \in Nat /\ Depth(at) <= Len(Frames) /\ Len(Frames) \in Nat
         /\ Frames \in Seq(CompoundForm)
<1>1. at \in 1..Len(file.lines)
  BY InsideIs
<1>2. /\ Len(Within(file, at)) \in Nat /\ Within(file, at) \in Seq(CompoundForm)
      /\ Node(file, at).place = "header" => Len(Within(file, at)) >= 1
  BY <1>1, LineIs DEF PlaceInv
<1>3. QED
  BY <1>2 DEF Depth, Frames

LEMMA PlaceInit == VisitorInit => PlaceInv
<1> SUFFICES ASSUME VisitorInit PROVE PlaceInv
  OBVIOUS
<1>1. file \in Files /\ at = 1 /\ down = TRUE /\ ancestors = <<>>
  BY DEF VisitorInit
<1>2. ancestors \in Seq(CompoundForm) /\ Len(ancestors) = 0
  BY <1>1, EmptySeq
<1>3. ASSUME Inside PROVE Len(ancestors) <= Len(Frames)
  <2>1. at \in 1..Len(file.lines)
    BY <1>1, <1>3, FileIs DEF Inside
  <2>2. Len(Frames) \in Nat
    BY <1>1, <2>1, LineIs DEF Frames
  <2>3. QED
    BY <1>2, <2>2
<1>4. QED
  BY <1>1, <1>2, <1>3 DEF PlaceInv

LEMMA PlaceNext == ASSUME PlaceInv, [VisitorNext]_visitorVars PROVE PlaceInv'
<1>1. CASE VisitCompound
  <2>1. /\ Inside /\ down /\ Len(ancestors) < Depth(at)
        /\ ancestors' = Append(ancestors, Frames[Len(ancestors) + 1])
        /\ file' = file /\ at' = at /\ down' = down
    BY <1>1 DEF VisitCompound
  <2>2. Depth(at) \in Nat /\ Depth(at) <= Len(Frames) /\ Len(Frames) \in Nat /\ Frames \in Seq(CompoundForm)
    BY <2>1, DepthIs
  <2>3. ancestors \in Seq(CompoundForm) /\ Len(ancestors) \in Nat
    BY LenProperties DEF PlaceInv
  <2>4. Len(ancestors) + 1 \in 1..Len(Frames)
    BY <2>1, <2>2, <2>3
  <2>5. Frames[Len(ancestors) + 1] \in CompoundForm
    BY <2>2, <2>4, ElementOfSeq
  <2>6. ancestors' \in Seq(CompoundForm) /\ Len(ancestors') = Len(ancestors) + 1
    BY <2>1, <2>3, <2>5, AppendProperties
  <2>7. Inside' /\ Frames' = Frames
    BY <2>1 DEF Inside, Frames
  <2>8. Len(ancestors') <= Len(Frames')
    BY <2>4, <2>6, <2>7
  <2>9. QED
    BY <2>1, <2>6, <2>7, <2>8 DEF PlaceInv
<1>2. CASE VisitNode
  <2>1. Inside /\ down' = FALSE /\ UNCHANGED <<file, at, ancestors>>
    BY <1>2 DEF VisitNode
  <2>2. Inside' /\ Frames' = Frames
    BY <2>1 DEF Inside, Frames
  <2>3. QED
    BY <2>1, <2>2 DEF PlaceInv
<1>3. CASE LeaveCompound
  <2>1. /\ ~down /\ ancestors # <<>> /\ ancestors' = SubSeq(ancestors, 1, Len(ancestors) - 1)
        /\ UNCHANGED <<file, at, down>>
    BY <1>3 DEF LeaveCompound
  <2>2. ancestors \in Seq(CompoundForm) /\ Len(ancestors) \in Nat /\ Len(ancestors) # 0
    BY <2>1, LenProperties, EmptySeq DEF PlaceInv
  <2>3. ancestors' \in Seq(CompoundForm) /\ Len(ancestors') = Len(ancestors) - 1
    BY <2>1, <2>2, AllButLast
  <2>4. Inside
    BY <2>1 DEF PlaceInv
  <2>5. Inside' /\ Frames' = Frames
    BY <2>1, <2>4 DEF Inside, Frames
  <2>6. Len(Frames) \in Nat /\ Len(ancestors) <= Len(Frames)
    BY <2>4, DepthIs DEF PlaceInv
  <2>7. Len(ancestors') <= Len(Frames')
    BY <2>2, <2>3, <2>5, <2>6
  <2>8. QED
    BY <2>1, <2>3, <2>5, <2>7 DEF PlaceInv
<1>4. CASE NextStatement
  <2>1. ~down /\ ancestors = <<>> /\ at' = at + 1 /\ down' = TRUE /\ UNCHANGED <<file, ancestors>>
    BY <1>4 DEF NextStatement
  <2>2. ancestors' \in Seq(CompoundForm) /\ Len(ancestors') = 0
    BY <2>1, EmptySeq
  <2>3. file' \in Files /\ at' \in Nat /\ at' >= 1 /\ file' = file
    BY <2>1 DEF PlaceInv
  <2>4. ASSUME Inside' PROVE Len(ancestors') <= Len(Frames')
    <3>1. at' \in 1..Len(file'.lines)
      BY <2>3, <2>4, FileIs DEF Inside
    <3>2. Len(Within(file', at')) \in Nat
      BY <2>3, <3>1, LineIs
    <3>3. Frames' = Within(file', at')
      BY DEF Frames
    <3>4. QED
      BY <2>2, <3>2, <3>3
  <2>5. QED
    BY <2>1, <2>2, <2>3, <2>4 DEF PlaceInv
<1>5. CASE Suppress
  BY <1>5 DEF Suppress, PlaceInv, Inside, Frames
<1>6. CASE UNCHANGED visitorVars
  BY <1>6 DEF visitorVars, PlaceInv, Inside, Frames
<1>7. QED
  BY <1>1, <1>2, <1>3, <1>4, <1>5, <1>6 DEF VisitorNext

LEMMA FoundInit == VisitorInit => FoundInv
  BY DEF VisitorInit, FoundInv

\* Only a visit of a construct finds anything, and nothing is forgotten.
LEMMA OnlyNodes ==
  ASSUME [VisitorNext]_visitorVars, ~VisitNode
  PROVE  matches' = matches /\ file' = file /\ inferences \subseteq inferences'
<1>1. CASE VisitCompound
  <2>1. \/ inferences' = inferences
        \/ inferences' = inferences \cup {[code |-> "PYA2002", at |-> at, name |-> <<>>]}
    BY <1>1 DEF VisitCompound
  <2>2. matches' = matches /\ file' = file
    BY <1>1 DEF VisitCompound
  <2>3. QED
    BY <2>1, <2>2
<1>2. CASE Suppress
  BY <1>2 DEF Suppress
<1>3. CASE LeaveCompound
  BY <1>3 DEF LeaveCompound
<1>4. CASE NextStatement
  BY <1>4 DEF NextStatement
<1>5. CASE UNCHANGED visitorVars
  BY <1>5 DEF visitorVars
<1>6. QED
  BY <1>1, <1>2, <1>3, <1>4, <1>5 DEF VisitorNext

LEMMA FoundNext ==
  ASSUME PlaceInv, FoundInv, [VisitorNext]_visitorVars PROVE FoundInv'
<1>1. CASE VisitNode
  <2>1. Inside /\ file' = file
    BY <1>1 DEF VisitNode
  <2>2. at \in 1..Len(file.lines)
    BY <2>1, InsideIs
  <2>3. \A m \in matches' : m \in matches \/ (m.at = at /\ m.rule \in Rules)
    BY <1>1, NodeVisit, FoundHere DEF Recorded
  <2>4. QED
    BY <2>1, <2>2, <2>3 DEF FoundInv
<1>2. CASE ~VisitNode
  BY <1>2, OnlyNodes DEF FoundInv
<1>3. QED
  BY <1>1, <1>2

LEMMA MutedInit == VisitorInit => MutedInv
  BY DEF VisitorInit, MutedInv

LEMMA MutedNext ==
  ASSUME PlaceInv, MutedInv, [VisitorNext]_visitorVars PROVE MutedInv'
<1>1. CASE Suppress
  <2>1. /\ ~Inside /\ UNCHANGED <<file, at, matches>>
        /\ muted' = [m \in matches |-> SuppressionHere(m)]
    BY <1>1 DEF Suppress, SuppressionHere
  <2>2. ~Inside' /\ \A m : SuppressionHere(m)' = SuppressionHere(m)
    BY <2>1 DEF Inside, SuppressionHere
  <2>3. muted' = [m \in matches' |-> SuppressionHere(m)']
    BY <2>1, <2>2
  <2>4. QED
    BY <2>2, <2>3 DEF MutedInv
<1>2. CASE ~Suppress
  <2>1. muted' = muted /\ file' = file
    <3>1. CASE VisitCompound
      BY <3>1 DEF VisitCompound
    <3>2. CASE VisitNode
      BY <3>2 DEF VisitNode
    <3>3. CASE LeaveCompound
      BY <3>3 DEF LeaveCompound
    <3>4. CASE NextStatement
      BY <3>4 DEF NextStatement
    <3>5. CASE UNCHANGED visitorVars
      BY <3>5 DEF visitorVars
    <3>6. QED
      BY <1>2, <3>1, <3>2, <3>3, <3>4, <3>5 DEF VisitorNext
  <2>2. SUFFICES ASSUME muted # <<>> PROVE ~Inside' /\ muted' = [m \in matches' |-> SuppressionHere(m)']
    BY <2>1 DEF MutedInv
  <2>3. ~Inside /\ muted = [m \in matches |-> SuppressionHere(m)]
    BY <2>2 DEF MutedInv
  <2>4. ~VisitNode /\ ~VisitCompound
    BY <2>3 DEF VisitNode, VisitCompound
  <2>5. matches' = matches
    BY <2>4, OnlyNodes
  <2>6. at' = at
    <3>1. down
      BY <2>3 DEF PlaceInv
    <3>2. ~LeaveCompound /\ ~NextStatement
      BY <3>1 DEF LeaveCompound, NextStatement
    <3>3. QED
      BY <1>2, <2>4, <3>2 DEF VisitorNext, visitorVars
  <2>7. ~Inside' /\ \A m : SuppressionHere(m)' = SuppressionHere(m)
    BY <2>1, <2>3, <2>6 DEF Inside, SuppressionHere
  <2>8. QED
    BY <2>1, <2>3, <2>5, <2>7
<1>3. QED
  BY <1>1, <1>2

LEMMA MutedHere ==
  ASSUME PlaceInv, FoundInv, MutedInv PROVE SuppressedAsWritten
<1> SUFFICES ASSUME Done, muted # <<>>, NEW m \in matches
             PROVE  LET inline == \E n \in 1..Len(file.comments) :
                            /\ file.comments[n].form = "directive" /\ Names(file.comments[n].ids, m.rule)
                            /\ file.comments[n].line \in StatementLines(file, m.at)
                        ignored == \E n \in 1..Len(file.ignores) :
                                     file.ignores[n].matches /\ Names(file.ignores[n].ids, m.rule)
                    IN  muted[m] = IF inline THEN "inline" ELSE IF ignored THEN "per-file" ELSE "none"
  BY DEF SuppressedAsWritten
<1> DEFINE inline == \E n \in 1..Len(file.comments) :
                       /\ file.comments[n].form = "directive" /\ Names(file.comments[n].ids, m.rule)
                       /\ file.comments[n].line \in StatementLines(file, m.at)
           ignored == \E n \in 1..Len(file.ignores) :
                        file.ignores[n].matches /\ Names(file.ignores[n].ids, m.rule)
<1>1. file \in Files /\ m.at \in 1..Len(file.lines) /\ m.rule \in Rules
  BY DEF PlaceInv, FoundInv
<1>2. muted[m] = SuppressionHere(m)
  BY DEF MutedInv
<1>3. SuppressionHere(m)
        = IF SuppressionsOf!MutedInline(Regions(file), Said(file), m.rule.id, Location(file, m.at))
          THEN "inline"
          ELSE IF SuppressionsOf!IgnoreFor(file.ignores, m.rule.id) # 0 THEN "per-file" ELSE "none"
  BY DEF SuppressionHere, SuppressionsOf!Suppression, Said
<1>4. SuppressionsOf!MutedInline(Regions(file), Said(file), m.rule.id, Location(file, m.at))
        <=> \E d \in Said(file) : d.rule = m.rule.id /\ d.line \in StatementLines(file, m.at)
  BY <1>1, InlineAsWritten
<1>5. (\E d \in Said(file) : d.rule = m.rule.id /\ d.line \in StatementLines(file, m.at)) <=> inline
  <2>1. \A line : (\E d \in Said(file) : d.rule = m.rule.id /\ d.line = line)
           <=> \E n \in 1..Len(file.comments) :
                 /\ file.comments[n].form = "directive" /\ Names(file.comments[n].ids, m.rule)
                 /\ file.comments[n].line = line
    BY <1>1, SaidIs
  <2>2. ASSUME NEW d \in Said(file), d.rule = m.rule.id, d.line \in StatementLines(file, m.at)
        PROVE  inline
    BY <2>1, <2>2
  <2>3. ASSUME inline
        PROVE  \E d \in Said(file) : d.rule = m.rule.id /\ d.line \in StatementLines(file, m.at)
    BY <2>1, <2>3
  <2>4. QED
    BY <2>2, <2>3
<1>6. SuppressionsOf!IgnoreFor(file.ignores, m.rule.id) # 0 <=> ignored
  BY <1>1, IgnoreAsWritten
<1>7. QED
  <2> HIDE DEF inline, ignored
  <2>1. muted[m] = IF inline THEN "inline" ELSE IF ignored THEN "per-file" ELSE "none"
    BY <1>2, <1>3, <1>4, <1>5, <1>6
  <2>2. QED
    BY <2>1 DEF inline, ignored

SuppressionInv == PlaceInv /\ FoundInv /\ MutedInv

LEMMA SuppressionAlways == VisitorSpec => []SuppressionInv
<1>1. VisitorInit => SuppressionInv
  BY PlaceInit, FoundInit, MutedInit DEF SuppressionInv
<1>2. SuppressionInv /\ [VisitorNext]_visitorVars => SuppressionInv'
  BY PlaceNext, FoundNext, MutedNext DEF SuppressionInv
<1>3. QED
  BY <1>1, <1>2, PTL DEF VisitorSpec

\* Suppression.  For every file and every registry, once the comments are bound: what
\* is found is suppressed by a comment exactly when one names its rule on a line of
\* its statement, and otherwise by a pattern exactly when one that matches the file
\* names it.
THEOREM CommentsMuteWhatTheyName == VisitorSpec => []SuppressedAsWritten
<1>1. SuppressionInv => SuppressedAsWritten
  BY MutedHere DEF SuppressionInv
<1>2. QED
  BY <1>1, SuppressionAlways, PTL

-----------------------------------------------------------------------------
(* Dotted names.                                                            *)

\* A set of words that has those the code knows.
Word == STRING \cup {"builtins", ".", "?", "hasattr", "ImportError", "Exception", "BaseException"}
Dotted == Seq(Word) \ {<<>>}

LEMMA WordIs ==
  /\ STRING \subseteq Word /\ "builtins" \in Word /\ "." \in Word /\ "?" \in Word
  /\ "hasattr" \in Word /\ {"ImportError", "Exception", "BaseException"} \subseteq Word
  BY DEF Word

LEMMA WordsAre == Seq(STRING) \subseteq Seq(Word) /\ DottedName \subseteq Dotted
<1>1. Seq(STRING) \subseteq Seq(Word)
  BY WordIs, SeqMonotonic
<1>2. QED
  BY <1>1 DEF DottedName, Dotted

LEMMA DottedIs ==
  ASSUME NEW s \in Dotted
  PROVE  s \in Seq(Word) /\ s # <<>> /\ Len(s) \in Nat /\ Len(s) >= 1 /\ s[1] \in Word
         /\ Last(s) = s[Len(s)] /\ Last(s) \in Word
<1>1. s \in Seq(Word) /\ s # <<>>
  BY DEF Dotted
<1>2. Len(s) \in Nat /\ Len(s) >= 1
  BY <1>1, EmptySeq, LenProperties
<1>3. 1 \in 1..Len(s) /\ Len(s) \in 1..Len(s)
  BY <1>2
<1>4. s[1] \in Word /\ s[Len(s)] \in Word
  BY <1>1, <1>3, ElementOfSeq
<1>5. QED
  BY <1>1, <1>2, <1>4 DEF Last

\* A name below another.
LEMMA BelowIs ==
  ASSUME NEW path \in Dotted, NEW first \in Word, NEW name \in Word
  PROVE  <<first>> \o path = <<first, name>> <=> path = <<name>>
<1> DEFINE b == <<first>>
<1>1. b \in Seq(Word) /\ b # <<>> /\ Len(b) = 1 /\ b[1] = first
  BY OneElement
<1>2. path \in Seq(Word)
  BY DottedIs
<1> HIDE DEF b
<1>3. b \o path = <<first, name>> <=> b[1] = first /\ SubSeq(b, 2, Len(b)) \o path = <<name>>
  <2>1. \A s, u \in Seq(Word) : \A x, y \in Word :
          s # <<>> => (s \o u = <<x, y>> <=> s[1] = x /\ SubSeq(s, 2, Len(s)) \o u = <<y>>)
    BY TwoParts
  <2>2. QED
    BY <1>1, <1>2, <2>1
<1>4. SubSeq(b, 2, Len(b)) = <<>>
  <2>1. Len(b) \in Int /\ Len(b) < 2
    BY <1>1
  <2>2. QED
    BY <2>1, SubSeqEmpty
<1>5. SubSeq(b, 2, Len(b)) \o path = path
  BY <1>2, <1>4, ConcatEmptySeq
<1>6. QED
  BY <1>1, <1>3, <1>5 DEF b

LEMMA BuiltinIs ==
  ASSUME NEW path \in Dotted, NEW name \in Word
  PROVE  <<"builtins">> \o path = <<"builtins", name>> <=> path = <<name>>
  BY WordIs, BelowIs

-----------------------------------------------------------------------------
(* Bindings.                                                                *)

BindingForm ==
  [at : Nat, name : Word, source : {"import", "local"}, target : Dotted]

LEMMA LocalIs ==
  ASSUME NEW i \in Nat, NEW name \in Word
  PROVE  Local(i, name) \in BindingForm /\ Local(i, name).source = "local" /\ Local(i, name).at = i
<1>1. <<name>> \in Dotted
  BY OneElement DEF Dotted
<1>2. QED
  BY <1>1 DEF Local, BindingForm

LEMMA BindsIs ==
  ASSUME NEW f \in Files, NEW i \in 1..Len(f.lines), NEW b \in Binds(f, i)
  PROVE  b \in BindingForm /\ b.at = i
<1> DEFINE node == Node(f, i)
<1>1. node \in NodeForm /\ i \in Nat
  BY LineIs
<1>2. CASE node.op = "import"
  <2>1. node.module \in Dotted /\ node.as \in Word
    <3>1. node.module \in DottedName /\ node.as \in STRING
      BY <1>1, <1>2 DEF NodeForm
    <3>2. QED
      BY <3>1, WordIs, WordsAre
  <2>2. node.module[1] \in Word /\ <<node.module[1]>> \in Dotted
    <3>1. node.module[1] \in Word
      BY <2>1, DottedIs
    <3>2. QED
      BY <3>1, OneElement DEF Dotted
  <2>3. b = Import(i, node.module[1], <<node.module[1]>>) \/ b = Import(i, node.as, node.module)
    BY <1>2 DEF Binds
  <2>4. QED
    BY <1>1, <2>1, <2>2, <2>3 DEF Import, BindingForm
<1>3. CASE node.op = "from"
  <2>1. node.module \in Seq(Word) /\ node.names \in SUBSET AliasForm
    <3>1. node.module \in Seq(STRING) /\ node.names \in SUBSET AliasForm
      BY <1>1, <1>3 DEF NodeForm, DottedName
    <3>2. QED
      BY <3>1, WordsAre
  <2>2. PICK a \in node.names :
          b = Import(i, BoundAs(a), (IF node.relative THEN <<".">> ELSE <<>>) \o node.module \o <<a.name>>)
    BY <1>3 DEF Binds
  <2>3. a.name \in Word /\ a.as \in Word
    BY <2>1, <2>2, WordIs DEF AliasForm
  <2>4. BoundAs(a) \in Word
    BY <2>3 DEF BoundAs
  <2> DEFINE start == IF node.relative THEN <<".">> ELSE <<>>
             target == start \o node.module \o <<a.name>>
  <2>5. start \in Seq(Word)
    <3>1. <<".">> \in Seq(Word) /\ <<>> \in Seq(Word)
      BY WordIs, OneElement, EmptySeq
    <3>2. QED
      BY <3>1
  <2> HIDE DEF start
  <2>6. start \o node.module \in Seq(Word)
    BY <2>1, <2>5, ConcatProperties
  <2>7. <<a.name>> \in Seq(Word) /\ Len(<<a.name>>) = 1
    BY <2>3, OneElement
  <2>8. target \in Seq(Word) /\ Len(target) = Len(start \o node.module) + 1
    BY <2>6, <2>7, ConcatProperties
  <2>9. target # <<>>
    <3>1. Len(start \o node.module) \in Nat
      BY <2>6, LenProperties
    <3>2. Len(target) # 0
      BY <2>8, <3>1
    <3> HIDE DEF target
    <3>3. QED
      BY <3>2, EmptySeq
  <2>10. b = Import(i, BoundAs(a), target)
    BY <2>2 DEF start
  <2> HIDE DEF target
  <2>11. QED
    BY <1>1, <2>4, <2>8, <2>9, <2>10 DEF Import, BindingForm, Dotted
<1>4. CASE node.op = "assign"
  <2>1. node.to \in Word
    BY <1>1, <1>4, WordIs DEF NodeForm
  <2>2. b = Local(i, node.to)
    BY <1>4 DEF Binds
  <2>3. QED
    BY <1>1, <2>1, <2>2, LocalIs
<1>5. CASE node.op \notin {"import", "from", "assign"}
  BY <1>5 DEF Binds
<1>6. QED
  BY <1>2, <1>3, <1>4, <1>5

LEMMA AssignmentIs ==
  ASSUME NEW f \in Files, NEW i \in 1..Len(f.lines), NEW name \in Word,
         NEW b \in Assignments(f, i, name)
  PROVE  b \in BindingForm /\ b.at \in 1..Len(f.lines)
<1>1. i \in Nat
  BY LineIs
<1>2. \A j \in 1..Len(f.lines) : \A c \in Binds(f, j) : c \in BindingForm /\ c.at = j
  BY BindsIs
<1>3. CASE name \in Params(f, i)
  <2>1. b = Local(i, name)
    BY <1>3 DEF Assignments
  <2>2. QED
    BY <1>1, <2>1, LocalIs
<1>4. CASE name \notin Params(f, i)
  <2>1. \E j \in 1..Len(f.lines) : b \in Binds(f, j)
    BY <1>4 DEF Assignments
  <2>2. QED
    BY <1>2, <2>1
<1>5. QED
  BY <1>3, <1>4

-----------------------------------------------------------------------------
(* What names resolve to, and what they denote.                             *)

\* A path is looked up by its first part.
LEMMA QualifiedIs ==
  ASSUME NEW f, NEW i, NEW path, Assignments(f, i, path[1]) # {}
  PROVE  /\ \A b \in Assignments(f, i, path[1]) : \E q \in QualifiedNames(f, i, path) :
              q.source = b.source /\ q.name = b.target \o SubSeq(path, 2, Len(path))
         /\ \A q \in QualifiedNames(f, i, path) : \E b \in Assignments(f, i, path[1]) :
              q.source = b.source /\ q.name = b.target \o SubSeq(path, 2, Len(path))
<1> DEFINE bound == Assignments(f, i, path[1])
           names == QualifiedNames(f, i, path)
           rest == SubSeq(path, 2, Len(path))
<1>1. names = {[source |-> b.source, name |-> b.target \o rest] : b \in bound}
  BY DEF QualifiedNames
<1> HIDE DEF bound, names, rest
<1>2. ASSUME NEW b \in bound
      PROVE  \E q \in names : q.source = b.source /\ q.name = b.target \o rest
  <2>1. [source |-> b.source, name |-> b.target \o rest] \in names
    BY <1>1
  <2>2. QED
    BY <2>1
<1>3. ASSUME NEW q \in names
      PROVE  \E b \in bound : q.source = b.source /\ q.name = b.target \o rest
  <2>1. PICK b \in bound : q = [source |-> b.source, name |-> b.target \o rest]
    BY <1>1
  <2>2. QED
    BY <2>1
<1>4. QED
  BY <1>2, <1>3 DEF bound, names, rest

LEMMA QualifiedFrom ==
  ASSUME NEW f, NEW i, NEW path, NEW q \in QualifiedNames(f, i, path),
         Assignments(f, i, path[1]) # {}
  PROVE  \E b \in Assignments(f, i, path[1]) :
           q.source = b.source /\ q.name = b.target \o SubSeq(path, 2, Len(path))
  BY QualifiedIs

LEMMA BuiltinNames ==
  ASSUME NEW f, NEW i, NEW path, Assignments(f, i, path[1]) = {}
  PROVE  QualifiedNames(f, i, path)
           = IF path[1] \in Builtins THEN {[source |-> "builtin", name |-> <<"builtins">> \o path]}
             ELSE {}
  BY DEF QualifiedNames

LEMMA ResolutionIs ==
  ASSUME NEW names, NEW expected, NEW sources
  PROVE  /\ Resolution(names, expected, sources) # "none"
              <=> /\ \E q \in names : q.source \in sources /\ q.name = expected
                  /\ \A q \in names : q.source \in sources
         /\ Resolution(names, expected, sources) = "high"
              <=> /\ \E q \in names : q.source \in sources /\ q.name = expected
                  /\ \A q \in names : q.source \in sources /\ q.name = expected
<1> DEFINE admitted == {q.name : q \in {n \in names : n.source \in sources}}
<1>1. Resolution(names, expected, sources)
        = IF expected \notin admitted \/ \E q \in names : q.source \notin sources THEN "none"
          ELSE IF admitted = {expected} THEN "high" ELSE "medium"
  BY DEF Resolution
<1>2. expected \in admitted <=> \E q \in names : q.source \in sources /\ q.name = expected
  OBVIOUS
<1>3. (expected \in admitted /\ \A q \in names : q.source \in sources)
        => (admitted = {expected} <=> \A q \in names : q.name = expected)
  <2>1. SUFFICES ASSUME expected \in admitted, \A q \in names : q.source \in sources
                 PROVE  admitted = {expected} <=> \A q \in names : q.name = expected
    OBVIOUS
  <2>2. \A x : x \in admitted <=> \E q \in names : q.name = x
    BY <2>1
  <2> HIDE DEF admitted
  <2>3. QED
    BY <2>1, <2>2
<1> HIDE DEF admitted
<1>4. QED
  BY <1>1, <1>2, <1>3

\* Through imports alone, a name resolves to what it denotes.
LEMMA ImportedName ==
  ASSUME NEW f, NEW i, NEW path, NEW name
  PROVE  /\ Resolve(f, i, path, name, {"import"}) # "none" <=> name \in Denoted(f, i, path)
         /\ Resolve(f, i, path, name, {"import"}) = "high" <=> Denoted(f, i, path) = {name}
         /\ name \in Denoted(f, i, path) => \E q \in QualifiedNames(f, i, path) : q.name = name
<1> DEFINE bound == Assignments(f, i, path[1])
           names == QualifiedNames(f, i, path)
           rest == SubSeq(path, 2, Len(path))
           denoted == Denoted(f, i, path)
           r == Resolve(f, i, path, name, {"import"})
<1>1. /\ r # "none"
           <=> /\ \E q \in names : q.source = "import" /\ q.name = name
               /\ \A q \in names : q.source = "import"
      /\ r = "high"
           <=> /\ \E q \in names : q.source = "import" /\ q.name = name
               /\ \A q \in names : q.source = "import" /\ q.name = name
  <2>1. \A s : s \in {"import"} <=> s = "import"
    OBVIOUS
  <2>2. QED
    BY <2>1, ResolutionIs DEF Resolve
<1>2. denoted = IF \E b \in bound : b.source # "import" THEN {} ELSE {b.target \o rest : b \in bound}
  BY DEF Denoted
<1>3. CASE bound = {}
  <2>1. \A q \in names : q.source # "import"
    <3>1. names = IF path[1] \in Builtins
                  THEN {[source |-> "builtin", name |-> <<"builtins">> \o path]} ELSE {}
      BY <1>3, BuiltinNames
    <3>2. QED
      BY <3>1
  <2>2. denoted = {}
    BY <1>2, <1>3
  <2>3. QED
    BY <1>1, <2>1, <2>2
<1>4. CASE bound # {}
  <2>2. /\ \A b \in bound : \E q \in names : q.source = b.source /\ q.name = b.target \o rest
        /\ \A q \in names : \E b \in bound : q.source = b.source /\ q.name = b.target \o rest
    BY <1>4, QualifiedIs
  <2> HIDE DEF bound, names, rest, denoted, r
  <2>3. CASE \E b \in bound : b.source # "import"
    <3>1. denoted = {} /\ ~ \A q \in names : q.source = "import"
      BY <1>2, <2>2, <2>3
    <3>2. r = "none" /\ name \notin denoted /\ denoted # {name}
      BY <1>1, <3>1
    <3>3. QED
      BY <3>2 DEF denoted, names, r
  <2>4. CASE \A b \in bound : b.source = "import"
    <3>1. denoted = {b.target \o rest : b \in bound}
      BY <1>2, <2>4
    <3>2. \A q \in names : q.source = "import"
      BY <2>2, <2>4
    <3>3. \A x : x \in denoted <=> \E q \in names : q.name = x
      <4>1. ASSUME NEW x, x \in denoted PROVE \E q \in names : q.name = x
        <5>1. PICK b \in bound : x = b.target \o rest
          BY <3>1, <4>1
        <5>2. QED
          BY <2>2, <5>1
      <4>2. ASSUME NEW q \in names PROVE q.name \in denoted
        <5>1. PICK b \in bound : q.name = b.target \o rest
          BY <2>2
        <5>2. QED
          BY <3>1, <5>1
      <4>3. QED
        BY <4>1, <4>2
    <3>4. denoted = {name} <=> (\E q \in names : q.name = name) /\ \A q \in names : q.name = name
      BY <3>3
    <3>5. /\ r # "none" <=> name \in denoted
          /\ r = "high" <=> denoted = {name}
          /\ name \in denoted => \E q \in names : q.name = name
      <4>1. r # "none" <=> \E q \in names : q.name = name
        BY <1>1, <3>2
      <4>2. r = "high" <=> (\E q \in names : q.name = name) /\ \A q \in names : q.name = name
        BY <1>1, <3>2
      <4>3. QED
        BY <3>3, <3>4, <4>1, <4>2
    <3>6. QED
      BY <3>5 DEF denoted, names, r
  <2>5. QED
    BY <2>3, <2>4
<1>5. QED
  BY <1>3, <1>4

\* Nothing denotes the empty name.
LEMMA DenotedIs ==
  ASSUME NEW f \in Files, NEW i \in 1..Len(f.lines), NEW path \in Dotted
  PROVE  <<>> \notin Denoted(f, i, path)
<1> DEFINE rest == SubSeq(path, 2, Len(path))
<1>1. rest \in Seq(Word) /\ path[1] \in Word
  BY DottedIs, RestOf
<1>2. ASSUME NEW b \in Assignments(f, i, path[1]) PROVE b.target \o rest # <<>>
  <2>1. b.target \in Dotted
    BY <1>1, AssignmentIs DEF BindingForm
  <2>2. b.target \in Seq(Word) /\ Len(b.target) \in Nat /\ Len(b.target) >= 1
    BY <2>1, DottedIs
  <2> HIDE DEF rest
  <2>3. Len(rest) \in Nat /\ Len(b.target \o rest) = Len(b.target) + Len(rest)
        /\ b.target \o rest \in Seq(Word)
    BY <1>1, <2>2, LenProperties, ConcatProperties
  <2>4. Len(b.target \o rest) # 0
    BY <2>2, <2>3
  <2>5. QED
    BY <2>3, <2>4, EmptySeq
<1>3. QED
  BY <1>2 DEF Denoted

\* The guard by hasattr that is looked for is the one that keeps the attribute from
\* being evaluated.
LEMMA HasattrIs ==
  ASSUME NEW f \in Files, NEW i \in 1..Len(f.lines), NEW left \in SUBSET AtomForm,
         NEW name \in Dotted
  PROVE  ExactHasattr(f, i, left, name) <=> \E atom \in left : Asks(f, i, atom, name)
<1> DEFINE parent == SubSeq(name, 1, Len(name) - 1)
<1>0. Last(name) = name[Len(name)] /\ Len(name) \in Nat /\ Len(name) >= 1 /\ name \in Seq(Word)
  BY DottedIs
<1>1. SUFFICES ASSUME NEW atom \in left
               PROVE  /\ atom.function # <<>> /\ Len(name) > 1
                      /\ Resolve(f, i, atom.function, <<"builtins", "hasattr">>, {"builtin"}) = "high"
                      /\ atom.attribute = Last(name)
                      /\ Resolve(f, i, atom.object, parent, {"import"}) = "high"
                      <=> Asks(f, i, atom, name)
  BY Zenon DEF ExactHasattr
<1>2. atom.function \in Seq(STRING) /\ atom.object \in DottedName
  BY DEF AtomForm
<1>3. atom.function \in Seq(Word) /\ atom.object \in Dotted
  BY <1>2, WordsAre
<1>4. Resolve(f, i, atom.object, parent, {"import"}) = "high" <=> Denoted(f, i, atom.object) = {parent}
  BY ImportedName
<1>5. Denoted(f, i, atom.object) = {parent} => Len(name) > 1
  <2>0. Len(name) = 1 \/ Len(name) > 1
    <3> DEFINE n == Len(name)
    <3>1. n \in Nat /\ n >= 1
      BY <1>0
    <3> HIDE DEF n
    <3>2. n = 1 \/ n > 1
      BY ONLY <3>1
    <3>3. QED
      BY <3>2 DEF n
  <2>1. SUFFICES ASSUME Denoted(f, i, atom.object) = {parent}, Len(name) = 1 PROVE FALSE
    BY <2>0
  <2>2. parent = <<>>
    BY <2>1, SubSeqEmpty
  <2>3. QED
    BY <1>3, <2>1, <2>2, DenotedIs
<1>6. atom.function # <<>>
        /\ Resolve(f, i, atom.function, <<"builtins", "hasattr">>, {"builtin"}) = "high"
        <=> atom.function = <<"hasattr">> /\ Assignments(f, i, "hasattr") = {}
  <2> DEFINE fn == atom.function
             bound == Assignments(f, i, fn[1])
             names == QualifiedNames(f, i, fn)
  <2>1. Resolve(f, i, fn, <<"builtins", "hasattr">>, {"builtin"}) = "high"
          <=> /\ \E q \in names : q.source = "builtin" /\ q.name = <<"builtins", "hasattr">>
              /\ \A q \in names : q.source = "builtin" /\ q.name = <<"builtins", "hasattr">>
    <3>1. \A s : s \in {"builtin"} <=> s = "builtin"
      OBVIOUS
    <3>2. QED
      BY <3>1, ResolutionIs DEF Resolve
  <2>2. fn = <<"hasattr">> => fn # <<>> /\ fn[1] = "hasattr"
    OBVIOUS
  <2>3. CASE fn = <<>>
    BY <2>2, <2>3
  <2>4. CASE fn # <<>> /\ bound # {}
    <3>1. fn \in Dotted
      BY <1>3, <2>4 DEF Dotted
    <3>2. fn[1] \in Word
      BY <3>1, DottedIs
    <3>3. \A q \in names : \E b \in bound : q.source = b.source
      <4>1. bound # {}
        BY <2>4
      <4>2. \A p : Assignments(f, i, p[1]) # {} => \A q \in QualifiedNames(f, i, p) :
              \E b \in Assignments(f, i, p[1]) :
                q.source = b.source /\ q.name = b.target \o SubSeq(p, 2, Len(p))
        BY QualifiedFrom
      <4> HIDE DEF fn
      <4>3. QED
        BY <4>1, <4>2
    <3>4. \A q \in names : q.source # "builtin"
      <4>1. \A b \in bound : b.source # "builtin"
        <5>1. SUFFICES ASSUME NEW b \in bound PROVE b.source # "builtin"
          OBVIOUS
        <5>2. b \in BindingForm
          BY <3>2, AssignmentIs
        <5>3. b.source \in {"import", "local"}
          BY <5>2 DEF BindingForm
        <5>4. QED
          BY <5>3
      <4> HIDE DEF bound, names
      <4>2. QED
        BY <3>3, <4>1
    <3>5. ~(fn = <<"hasattr">> /\ Assignments(f, i, "hasattr") = {})
      BY <2>2, <2>4
    <3> HIDE DEF fn, bound, names
    <3>6. Resolve(f, i, fn, <<"builtins", "hasattr">>, {"builtin"}) # "high"
      BY <2>1, <3>4
    <3>7. QED
      BY <3>5, <3>6 DEF fn
  <2>5. CASE fn # <<>> /\ bound = {}
    <3>1. fn \in Dotted
      BY <1>3, <2>5 DEF Dotted
    <3>2. names = IF fn[1] \in Builtins THEN {[source |-> "builtin", name |-> <<"builtins">> \o fn]} ELSE {}
      BY <2>5, BuiltinNames
    <3>3. <<"builtins">> \o fn = <<"builtins", "hasattr">> <=> fn = <<"hasattr">>
      BY <3>1, BuiltinIs, WordIs
    <3>4. fn = <<"hasattr">> => fn[1] \in Builtins /\ Assignments(f, i, "hasattr") = {}
      BY <2>2, <2>5 DEF Builtins
    <3> HIDE DEF fn, bound, names
    <3>5. CASE fn[1] \in Builtins
      <4>1. names = {[source |-> "builtin", name |-> <<"builtins">> \o fn]}
        BY <3>2, <3>5
      <4> DEFINE whole == <<"builtins">> \o fn
                 q == [source |-> "builtin", name |-> whole]
      <4>2. names = {q} /\ q.source = "builtin" /\ q.name = whole
        BY <4>1
      <4> HIDE DEF whole, q
      <4>3. Resolve(f, i, fn, <<"builtins", "hasattr">>, {"builtin"}) = "high"
              <=> whole = <<"builtins", "hasattr">>
        BY <2>1, <4>2
      <4>4. Resolve(f, i, fn, <<"builtins", "hasattr">>, {"builtin"}) = "high" <=> fn = <<"hasattr">>
        BY <3>3, <4>3 DEF whole
      <4>5. QED
        BY <2>5, <3>4, <4>4 DEF fn
    <3>6. CASE fn[1] \notin Builtins
      <4>1. Resolve(f, i, fn, <<"builtins", "hasattr">>, {"builtin"}) # "high"
        BY <2>1, <3>2, <3>6
      <4>2. QED
        BY <3>4, <3>6, <4>1 DEF fn
    <3>7. QED
      BY <3>5, <3>6
  <2>6. QED
    BY <2>3, <2>4, <2>5
<1>7. QED
  BY <1>0, <1>4, <1>5, <1>6 DEF Asks

-----------------------------------------------------------------------------
(* Handlers of an import that fails.                                        *)

ClassNames == {"ImportError", "Exception", "BaseException"}

LEMMA ClassNameIs ==
  ASSUME NEW name \in ClassNames
  PROVE  name \in Word /\ name \in Builtins /\ name # "?"
  BY WordIs DEF ClassNames, Builtins

\* What a name of several parts denotes, for one binding of its first part.
DenotedBy(b, path) ==
  IF b.source = "import" /\ b.target[1] = "builtins"
  THEN SubSeq(b.target, 2, Len(b.target)) \o SubSeq(path, 2, Len(path)) ELSE <<"?">>

LEMMA DenotesIs ==
  ASSUME NEW f, NEW i, NEW path
  PROVE  /\ Assignments(f, i, path[1]) = {} => Denotes(f, i, path) = {path}
         /\ Assignments(f, i, path[1]) # {} =>
              /\ \A b \in Assignments(f, i, path[1]) : DenotedBy(b, path) \in Denotes(f, i, path)
              /\ \A x \in Denotes(f, i, path) :
                   \E b \in Assignments(f, i, path[1]) : x = DenotedBy(b, path)
<1> DEFINE bound == Assignments(f, i, path[1])
<1>1. Denotes(f, i, path) = IF bound = {} THEN {path} ELSE {DenotedBy(b, path) : b \in bound}
  BY DEF Denotes, DenotedBy
<1>2. QED
  BY <1>1

LEMMA DenotedByIs ==
  ASSUME NEW path \in Dotted, NEW b \in BindingForm, NEW name \in ClassNames
  PROVE  DenotedBy(b, path) = <<name>>
           <=> b.source = "import" /\ b.target \o SubSeq(path, 2, Len(path)) = <<"builtins", name>>
<1> DEFINE rest == SubSeq(path, 2, Len(path))
           t == b.target
<1>1. t \in Seq(Word) /\ t # <<>> /\ rest \in Seq(Word)
  <2>1. t \in Dotted
    BY DEF BindingForm
  <2>2. QED
    BY <2>1, DottedIs, RestOf
<1>2. "builtins" \in Word /\ name \in Word /\ name # "?"
  BY WordIs, ClassNameIs
<1>3. <<"?">> # <<name>>
  BY <1>2
<1> HIDE DEF rest, t
<1>4. t \o rest = <<"builtins", name>> <=> t[1] = "builtins" /\ SubSeq(t, 2, Len(t)) \o rest = <<name>>
  <2>1. \A S : \A s, u \in Seq(S) : \A x, y \in S :
          s # <<>> => (s \o u = <<x, y>> <=> s[1] = x /\ SubSeq(s, 2, Len(s)) \o u = <<y>>)
    BY TwoParts
  <2>2. \A s, u \in Seq(Word) : \A x, y \in Word :
          s # <<>> => (s \o u = <<x, y>> <=> s[1] = x /\ SubSeq(s, 2, Len(s)) \o u = <<y>>)
    BY <2>1
  <2>3. QED
    BY <1>1, <1>2, <2>2
<1>5. CASE b.source = "import" /\ t[1] = "builtins"
  <2>1. DenotedBy(b, path) = SubSeq(t, 2, Len(t)) \o rest
    BY <1>5 DEF DenotedBy, t, rest
  <2>2. QED
    BY <1>4, <1>5, <2>1 DEF t, rest
<1>6. CASE ~(b.source = "import" /\ t[1] = "builtins")
  <2>1. DenotedBy(b, path) = <<"?">>
    BY <1>6 DEF DenotedBy, t
  <2>2. QED
    BY <1>3, <1>4, <1>6, <2>1 DEF t, rest
<1>7. QED
  BY <1>5, <1>6

LEMMA ClassIs ==
  ASSUME NEW f \in Files, NEW i \in 1..Len(f.lines), NEW path \in Dotted, NEW name \in ClassNames
  PROVE  Resolve(f, i, path, <<"builtins", name>>, {"import", "builtin"}) = "high"
           <=> Denotes(f, i, path) = {<<name>>}
<1> DEFINE bound == Assignments(f, i, path[1])
           names == QualifiedNames(f, i, path)
           rest == SubSeq(path, 2, Len(path))
           r == Resolve(f, i, path, <<"builtins", name>>, {"import", "builtin"})
           denotes == Denotes(f, i, path)
           class == <<"builtins", name>>
<1>1. r = "high"
        <=> /\ \E q \in names : (q.source = "import" \/ q.source = "builtin") /\ q.name = class
            /\ \A q \in names : (q.source = "import" \/ q.source = "builtin") /\ q.name = class
  <2>1. \A s : s \in {"import", "builtin"} <=> s = "import" \/ s = "builtin"
    OBVIOUS
  <2>2. r = "high"
          <=> /\ \E q \in names : q.source \in {"import", "builtin"} /\ q.name = class
              /\ \A q \in names : q.source \in {"import", "builtin"} /\ q.name = class
    BY ResolutionIs DEF Resolve
  <2>3. QED
    BY <2>1, <2>2
<1>2. path[1] \in Word
  BY DottedIs
<1>3. CASE bound = {}
  <2>1. denotes = {path}
    BY <1>3, DenotesIs
  <2>2. <<"builtins">> \o path = class <=> path = <<name>>
    BY BuiltinIs, ClassNameIs
  <2>3. CASE path[1] \in Builtins
    <3> DEFINE whole == <<"builtins">> \o path
               q == [source |-> "builtin", name |-> whole]
    <3>1. names = {q} /\ q.source = "builtin" /\ q.name = whole
      BY <1>3, <2>3, BuiltinNames
    <3> HIDE DEF q, whole, names, r, denotes, class
    <3>2. r = "high" <=> whole = class
      BY <1>1, <3>1
    <3>3. denotes = {<<name>>} <=> path = <<name>>
      BY <2>1
    <3>4. QED
      BY <2>2, <3>2, <3>3 DEF whole, r, denotes, class
  <2>4. CASE path[1] \notin Builtins
    <3>1. names = {}
      BY <1>3, <2>4, BuiltinNames
    <3>2. path # <<name>>
      BY <2>4, ClassNameIs
    <3> HIDE DEF names, r, denotes, class
    <3>3. r # "high"
      BY <1>1, <3>1
    <3>4. denotes # {<<name>>}
      BY <2>1, <3>2
    <3>5. QED
      BY <3>3, <3>4 DEF r, denotes, class
  <2>5. QED
    BY <2>3, <2>4
<1>4. CASE bound # {}
  <2>1. /\ \A b \in bound : \E q \in names : q.source = b.source /\ q.name = b.target \o rest
        /\ \A q \in names : \E b \in bound : q.source = b.source /\ q.name = b.target \o rest
    BY <1>4, QualifiedIs
  <2>2. /\ \A b \in bound : DenotedBy(b, path) \in denotes
        /\ \A x \in denotes : \E b \in bound : x = DenotedBy(b, path)
    BY <1>4, DenotesIs
  <2>3. \A b \in bound : b \in BindingForm
    BY <1>2, AssignmentIs
  <2>4. ASSUME NEW b \in bound
        PROVE  /\ DenotedBy(b, path) = <<name>> <=> b.source = "import" /\ b.target \o rest = class
               /\ b.source # "builtin"
    <3>1. b.source \in {"import", "local"}
      BY <2>3 DEF BindingForm
    <3>2. QED
      BY <2>3, <3>1, DenotedByIs
  <2> HIDE DEF bound, names, rest, r, denotes, class
  <2>5. r = "high" <=> \A b \in bound : b.source = "import" /\ b.target \o rest = class
    <3>1. ASSUME r = "high", NEW b \in bound PROVE b.source = "import" /\ b.target \o rest = class
      <4>1. PICK q \in names : q.source = b.source /\ q.name = b.target \o rest
        BY <2>1
      <4>2. (q.source = "import" \/ q.source = "builtin") /\ q.name = class
        BY <1>1, <3>1
      <4>3. b.source # "builtin"
        BY <2>4
      <4>4. QED
        BY <4>1, <4>2, <4>3
    <3>2. ASSUME \A b \in bound : b.source = "import" /\ b.target \o rest = class PROVE r = "high"
      <4>1. \A q \in names : q.source = "import" /\ q.name = class
        BY <2>1, <3>2
      <4>2. \E q \in names : TRUE
        BY <1>4, <2>1
      <4>3. QED
        BY <1>1, <4>1, <4>2
    <3>3. QED
      BY <3>1, <3>2
  <2>6. denotes = {<<name>>} <=> \A b \in bound : DenotedBy(b, path) = <<name>>
    <3>1. \E b \in bound : TRUE
      BY <1>4
    <3>2. QED
      BY <2>2, <3>1
  <2>7. QED
    BY <2>4, <2>5, <2>6 DEF r, denotes, class
<1>5. QED
  BY <1>3, <1>4

LEMMA CatchesIs ==
  ASSUME NEW f \in Files, NEW i \in 1..Len(f.lines), NEW handler \in HandlerForm
  PROVE  Catches(f, i, handler) <=> SurelyHandles(f, i, handler)
<1>1. \A t \in handler.types : t \in Dotted
  <2>1. handler.types \in SUBSET DottedName
    BY DEF HandlerForm
  <2>2. QED
    BY <2>1, WordsAre
<1>2. \A t \in handler.types : \A name \in ClassNames :
        Resolve(f, i, t, <<"builtins", name>>, {"import", "builtin"}) = "high"
          <=> Denotes(f, i, t) = {<<name>>}
  BY <1>1, ClassIs
<1>3. Catches(f, i, handler)
        <=> \/ handler.types = {}
            \/ \E t \in handler.types : \E name \in ClassNames :
                 Resolve(f, i, t, <<"builtins", name>>, {"import", "builtin"}) = "high"
  BY DEF Catches, ClassNames
<1>4. SurelyHandles(f, i, handler)
        <=> \/ handler.types = {}
            \/ \E t \in handler.types : \E name \in ClassNames : Denotes(f, i, t) = {<<name>>}
  <2>1. \A x : (\E c \in ImportErrorClasses : x = {c}) <=> \E name \in ClassNames : x = {<<name>>}
    BY DEF ImportErrorClasses, ClassNames
  <2>2. QED
    BY <2>1 DEF SurelyHandles
<1>5. QED
  BY <1>2, <1>3, <1>4

\* The compound statements around a construct.
LEMMA FrameIs ==
  ASSUME NEW f \in Files, NEW i \in 1..Len(f.lines), NEW k \in 1..Len(Within(f, i))
  PROVE  LET frame == Within(f, i)[k] IN
         /\ frame.kind \in {"if", "try", "def"}
         /\ frame.kind = "if" => frame.test \in GuardForm /\ frame.branch \in {"body", "else"}
         /\ frame.kind = "try" => /\ frame.handlers \in Seq(HandlerForm) /\ frame.skips \in SUBSET Nat
                                 /\ frame.branch \in {"body", "handler", "else"}
         /\ frame.kind = "def" => frame.decorated \in BOOLEAN /\ frame.params \in SUBSET STRING
<1>1. Within(f, i)[k] \in CompoundForm
  BY LineIs
<1>2. QED
  BY <1>1 DEF CompoundForm

\* A function over a range, each value of which depends on those before it.
Earlier(g, k) == [m \in 0..k - 1 |-> g[m]]
Follows(g, n, step) == \A k \in 0..n : g[k] = step[<<k, Earlier(g, k)>>]

LEMMA HistoryExists ==
  ASSUME NEW n \in Nat, NEW S, NEW step,
         \A k \in 0..n : \A h \in [0..k - 1 -> S] : step[<<k, h>>] \in S
  PROVE  \E g \in [0..n -> S] : Follows(g, n, step)
<1> DEFINE Builds(g, m) == /\ g \in [0..m -> S]
                           /\ \A k \in 0..m : g[k] = step[<<k, [j \in 0..k - 1 |-> g[j]]>>]
           C == {m \in 0..n : \E g \in [0..m -> S] : Builds(g, m)}
<1>1. 0 \in C
  <2> DEFINE g == [m \in 0..0 |-> step[<<0, [j \in 0..0 - 1 |-> 0]>>]]
  <2>1. 0 - 1 \in Int /\ 0..0 - 1 = {} /\ 0 \in 0..n /\ 0..0 = {0}
    OBVIOUS
  <2>2. \A x, y : [j \in 0..0 - 1 |-> x] \in [0..0 - 1 -> S]
    BY <2>1
  <2>3. step[<<0, [j \in 0..0 - 1 |-> 0]>>] \in S
    BY <2>1, <2>2
  <2>4. g \in [0..0 -> S]
    BY <2>3
  <2>5. g[0] = step[<<0, [j \in 0..0 - 1 |-> 0]>>]
    BY <2>1
  <2>6. [j \in 0..0 - 1 |-> g[j]] = [j \in 0..0 - 1 |-> 0]
    BY <2>1
  <2>7. \A k \in 0..0 : g[k] = step[<<k, [j \in 0..k - 1 |-> g[j]]>>]
    <3> HIDE DEF g
    <3>1. QED
      BY <2>1, <2>5, <2>6
  <2> HIDE DEF g
  <2>8. Builds(g, 0)
    BY <2>4, <2>7
  <2>9. QED
    BY <2>1, <2>4, <2>8
<1>2. ASSUME NEW m \in 0..n, m # n, m \in C PROVE m + 1 \in C
  <2>1. PICK g \in [0..m -> S] : Builds(g, m)
    BY <1>2
  <2>2. m \in Nat /\ m + 1 \in 0..n /\ (m + 1) - 1 = m
    BY <1>2
  <2> DEFINE x == step[<<m + 1, g>>]
             h == [k \in 0..m + 1 |-> IF k = m + 1 THEN x ELSE g[k]]
  <2>3. x \in S
    BY <2>2
  <2>4. h \in [0..m + 1 -> S]
    BY <2>2, <2>3
  <2>5. h[m + 1] = x /\ \A k \in 0..m : h[k] = g[k]
    BY <2>2
  <2> HIDE DEF h
  <2>6. ASSUME NEW k \in 0..m + 1 PROVE h[k] = step[<<k, [j \in 0..k - 1 |-> h[j]]>>]
    <3>1. CASE k = m + 1
      <4>1. [j \in 0..k - 1 |-> h[j]] = g
        BY <2>2, <2>5, <3>1
      <4>2. QED
        BY <2>5, <3>1, <4>1
    <3>2. CASE k # m + 1
      <4>1. k \in 0..m
        BY <2>2, <3>2
      <4>2. \A j \in 0..k - 1 : h[j] = g[j]
        BY <2>2, <2>5, <4>1
      <4>3. [j \in 0..k - 1 |-> h[j]] = [j \in 0..k - 1 |-> g[j]]
        BY <4>2
      <4>4. g[k] = step[<<k, [j \in 0..k - 1 |-> g[j]]>>]
        BY <2>1, <4>1
      <4>5. QED
        BY <2>5, <4>1, <4>3, <4>4
    <3>3. QED
      BY <3>1, <3>2
  <2>7. Builds(h, m + 1)
    BY <2>4, <2>6
  <2>8. QED
    BY <2>2, <2>4, <2>7
<1> HIDE DEF C
<1>3. n \in C
  BY <1>1, <1>2, CountsUp
<1>4. QED
  BY <1>3 DEF C, Follows, Earlier

Sure(f, i, k) ==
  {h \in 1..Len(Within(f, i)[k].handlers) : SurelyHandles(f, i, Within(f, i)[k].handlers[h])}

\* The failure of what is in the k-th compound statement ends there.
Kept(f, i, k) ==
  /\ Within(f, i)[k].kind = "try" /\ Within(f, i)[k].branch = "body" /\ Sure(f, i, k) # {}
  /\ ~Within(f, i)[k].handlers[Least(Sure(f, i, k))].raises

LEMMA OptionalIs ==
  ASSUME NEW f \in Files, NEW i \in 1..Len(f.lines)
  PROVE  Optional(f, i) <=> \E k \in 1..Len(Within(f, i)) :
                              /\ Kept(f, i, k)
                              /\ \A n \in k + 1..Len(Within(f, i)) : Within(f, i)[n].kind # "def"
<1>1. ASSUME NEW k \in 1..Len(Within(f, i)), Within(f, i)[k].kind = "try"
      PROVE  /\ FirstCatching(f, i, Within(f, i)[k].handlers)
                   = IF Sure(f, i, k) = {} THEN 0 ELSE Least(Sure(f, i, k))
             /\ Sure(f, i, k) # {} => Least(Sure(f, i, k)) # 0
  <2> DEFINE hs == Within(f, i)[k].handlers
             catching == {h \in 1..Len(hs) : Catches(f, i, hs[h])}
  <2>1. hs \in Seq(HandlerForm)
    BY <1>1, FrameIs
  <2>2. \A h \in 1..Len(hs) : Catches(f, i, hs[h]) <=> SurelyHandles(f, i, hs[h])
    BY <2>1, CatchesIs, ElementOfSeq
  <2>3. catching = Sure(f, i, k)
    BY <2>2 DEF Sure
  <2>4. FirstCatching(f, i, hs) = IF catching = {} THEN 0 ELSE Least(catching)
    BY DEF FirstCatching
  <2>5. ASSUME Sure(f, i, k) # {} PROVE Least(Sure(f, i, k)) # 0
    <3> DEFINE S == Sure(f, i, k)
    <3>1. S \in SUBSET Nat /\ 0 \notin S
      BY <2>1, LenProperties DEF Sure
    <3> HIDE DEF S
    <3>2. \E n \in S : \A m \in S : n <= m
      BY <2>5, <3>1, LeastElement DEF S
    <3>3. Least(S) \in S
      BY <3>2 DEF Least
    <3>4. QED
      BY <3>1, <3>3 DEF S
  <2>6. QED
    BY <2>3, <2>4, <2>5
<1>2. ASSUME NEW k \in 1..Len(Within(f, i))
      PROVE  (/\ Within(f, i)[k].kind = "try" /\ Within(f, i)[k].branch = "body"
              /\ LET h == FirstCatching(f, i, Within(f, i)[k].handlers)
                 IN  h # 0 /\ ~Within(f, i)[k].handlers[h].raises) <=> Kept(f, i, k)
  <2>1. CASE Within(f, i)[k].kind # "try"
    BY <2>1 DEF Kept
  <2>2. CASE Within(f, i)[k].kind = "try" /\ Sure(f, i, k) = {}
    BY <1>1, <2>2 DEF Kept
  <2>3. CASE Within(f, i)[k].kind = "try" /\ Sure(f, i, k) # {}
    BY <1>1, <2>3 DEF Kept
  <2>4. QED
    BY <2>1, <2>2, <2>3
<1>3. QED
  BY <1>2 DEF Optional

EscapesBy(out, f, i) ==
  out = [k \in 0..Len(Within(f, i)) |->
           IF k = 0 \/ Within(f, i)[k].kind = "def" THEN TRUE
           ELSE LET frame == Within(f, i)[k]
                    sure == {h \in 1..Len(frame.handlers) : SurelyHandles(f, i, frame.handlers[h])}
                IN  IF frame.kind = "try" /\ frame.branch = "body" /\ sure # {}
                    THEN frame.handlers[CHOOSE h \in sure : \A g \in sure : h <= g].raises /\ out[k - 1]
                    ELSE out[k - 1]]

LEMMA EscapesDefined ==
  ASSUME NEW f \in Files, NEW i \in 1..Len(f.lines)
  PROVE  \E out : EscapesBy(out, f, i)
<1> DEFINE L == Len(Within(f, i))
           Tables == UNION {[0..k - 1 -> BOOLEAN] : k \in 0..L}
           step == [a \in (0..L) \X Tables |->
                      IF a[1] = 0 \/ Within(f, i)[a[1]].kind = "def" THEN TRUE
                      ELSE IF /\ Within(f, i)[a[1]].kind = "try" /\ Within(f, i)[a[1]].branch = "body"
                              /\ Sure(f, i, a[1]) # {}
                           THEN Within(f, i)[a[1]].handlers[Least(Sure(f, i, a[1]))].raises /\ a[2][a[1] - 1]
                           ELSE a[2][a[1] - 1]]
<1>1. L \in Nat
  BY LineIs
<1>2. ASSUME NEW k \in 0..L, NEW h \in [0..k - 1 -> BOOLEAN]
      PROVE  /\ step[<<k, h>>]
                   = IF k = 0 \/ Within(f, i)[k].kind = "def" THEN TRUE
                     ELSE IF /\ Within(f, i)[k].kind = "try" /\ Within(f, i)[k].branch = "body"
                             /\ Sure(f, i, k) # {}
                          THEN Within(f, i)[k].handlers[Least(Sure(f, i, k))].raises /\ h[k - 1]
                          ELSE h[k - 1]
             /\ step[<<k, h>>] \in BOOLEAN
  <2>1. <<k, h>> \in (0..L) \X Tables /\ <<k, h>>[1] = k /\ <<k, h>>[2] = h
    OBVIOUS
  <2> HIDE DEF Tables, L
  <2>2. step[<<k, h>>]
                   = IF k = 0 \/ Within(f, i)[k].kind = "def" THEN TRUE
                     ELSE IF /\ Within(f, i)[k].kind = "try" /\ Within(f, i)[k].branch = "body"
                             /\ Sure(f, i, k) # {}
                          THEN Within(f, i)[k].handlers[Least(Sure(f, i, k))].raises /\ h[k - 1]
                          ELSE h[k - 1]
    BY <2>1
  <2>3. k # 0 => h[k - 1] \in BOOLEAN
    BY <1>1
  <2> HIDE DEF step
  <2>4. QED
    BY <2>2, <2>3
<1> HIDE DEF step
<1>3. PICK g \in [0..L -> BOOLEAN] : Follows(g, L, step)
  <2>1. \A k \in 0..L : \A h \in [0..k - 1 -> BOOLEAN] : step[<<k, h>>] \in BOOLEAN
    BY <1>2
  <2> HIDE DEF L
  <2>2. QED
    BY <1>1, <2>1, HistoryExists
<1>4. ASSUME NEW k \in 0..L
      PROVE  g[k] = IF k = 0 \/ Within(f, i)[k].kind = "def" THEN TRUE
                    ELSE LET frame == Within(f, i)[k]
                             sure == {h \in 1..Len(frame.handlers) : SurelyHandles(f, i, frame.handlers[h])}
                         IN  IF frame.kind = "try" /\ frame.branch = "body" /\ sure # {}
                             THEN frame.handlers[CHOOSE h \in sure : \A x \in sure : h <= x].raises /\ g[k - 1]
                             ELSE g[k - 1]
  <2> DEFINE h == [m \in 0..k - 1 |-> g[m]]
  <2>1. h \in [0..k - 1 -> BOOLEAN] /\ (k # 0 => h[k - 1] = g[k - 1])
    BY <1>1
  <2>2. g[k] = step[<<k, h>>]
    BY <1>3 DEF Follows, Earlier
  <2> HIDE DEF h, L
  <2>3. g[k] = IF k = 0 \/ Within(f, i)[k].kind = "def" THEN TRUE
               ELSE IF /\ Within(f, i)[k].kind = "try" /\ Within(f, i)[k].branch = "body"
                       /\ Sure(f, i, k) # {}
                    THEN Within(f, i)[k].handlers[Least(Sure(f, i, k))].raises /\ g[k - 1]
                    ELSE g[k - 1]
    BY <1>2, <2>1, <2>2
  <2>4. QED
    BY <2>3, Zenon DEF Sure, Least
<1>5. EscapesBy(g, f, i)
  <2>1. g = [k \in 0..L |-> g[k]]
    BY <1>3
  <2>2. QED
    BY <1>4, <2>1, Zenon DEF EscapesBy
<1>6. QED
  BY <1>5

\* An ImportError gets out of the module, or the function, exactly where no statement
\* around it is sure to keep it.
LEMMA EscapesIs ==
  ASSUME NEW f \in Files, NEW i \in 1..Len(f.lines)
  PROVE  Escapes(f, i) <=> ~Optional(f, i)
<1> DEFINE L == Len(Within(f, i))
           Def(n) == Within(f, i)[n].kind = "def"
           out == CHOOSE g : EscapesBy(g, f, i)
           Out(m) == \A k \in 1..m : Kept(f, i, k) => \E n \in k + 1..m : Def(n)
           C == {m \in 0..L : out[m] <=> Out(m)}
<1>1. L \in Nat
  BY LineIs
<1>2. EscapesBy(out, f, i)
  BY EscapesDefined, Zenon
<1>3. Escapes(f, i) <=> out[L]
  BY DEF Escapes, EscapesBy
<1> HIDE DEF out
<1>4. ASSUME NEW k \in 0..L
      PROVE  out[k] <=> (k = 0 \/ Def(k) \/ (~Kept(f, i, k) /\ out[k - 1]))
  <2>1. out[k] = IF k = 0 \/ Within(f, i)[k].kind = "def" THEN TRUE
                 ELSE LET frame == Within(f, i)[k]
                          sure == {h \in 1..Len(frame.handlers) : SurelyHandles(f, i, frame.handlers[h])}
                      IN  IF frame.kind = "try" /\ frame.branch = "body" /\ sure # {}
                          THEN frame.handlers[CHOOSE h \in sure : \A x \in sure : h <= x].raises /\ out[k - 1]
                          ELSE out[k - 1]
    BY <1>2 DEF EscapesBy
  <2>2. out[k] = IF k = 0 \/ Within(f, i)[k].kind = "def" THEN TRUE
                 ELSE IF /\ Within(f, i)[k].kind = "try" /\ Within(f, i)[k].branch = "body"
                         /\ Sure(f, i, k) # {}
                      THEN Within(f, i)[k].handlers[Least(Sure(f, i, k))].raises /\ out[k - 1]
                      ELSE out[k - 1]
    BY <2>1, Zenon DEF Sure, Least
  <2>3. QED
    BY <2>2, Zenon DEF Kept
<1>5. 0 \in C
  <2>1. out[0]
    BY <1>1, <1>4
  <2>2. Out(0)
    OBVIOUS
  <2>3. QED
    BY <1>1, <2>1, <2>2
<1>6. ASSUME NEW m \in 0..L, m # L, m \in C PROVE m + 1 \in C
  <2>1. m \in Nat /\ m + 1 \in 0..L /\ (m + 1) - 1 = m /\ m + 1 # 0
    BY <1>1, <1>6
  <2>2. out[m] <=> Out(m)
    BY <1>6
  <2>3. out[m + 1] <=> (Def(m + 1) \/ (~Kept(f, i, m + 1) /\ out[m]))
    BY <1>4, <2>1
  <2>4. CASE Def(m + 1)
    <3>1. out[m + 1]
      BY <2>3, <2>4
    <3>2. ASSUME NEW k \in 1..m + 1, Kept(f, i, k) PROVE \E n \in k + 1..m + 1 : Def(n)
      <4>1. k # m + 1
        BY <2>4, <3>2 DEF Kept
      <4>2. m + 1 \in k + 1..m + 1
        BY <2>1, <4>1
      <4>3. QED
        BY <2>4, <4>2
    <3>3. QED
      BY <2>1, <3>1, <3>2
  <2>5. CASE ~Def(m + 1)
    <3>1. \A k \in 1..m : (\E n \in k + 1..m + 1 : Def(n)) <=> \E n \in k + 1..m : Def(n)
      <4>1. \A k \in 1..m : \A n \in k + 1..m + 1 : n = m + 1 \/ n \in k + 1..m
        BY <2>1
      <4>2. \A k \in 1..m : k + 1..m \subseteq k + 1..m + 1
        BY <2>1
      <4> HIDE DEF Def
      <4>3. QED
        BY <2>5, <4>1, <4>2
    <3>2. m + 1 \in 1..m + 1 /\ (m + 1) + 1..m + 1 = {} /\ 1..m \subseteq 1..m + 1
          /\ \A k \in 1..m + 1 : k = m + 1 \/ k \in 1..m
      BY <2>1
    <3>3. Out(m + 1) <=> ~Kept(f, i, m + 1) /\ Out(m)
      <4> HIDE DEF Def
      <4>1. QED
        BY <3>1, <3>2
    <3>4. QED
      BY <2>1, <2>2, <2>3, <2>5, <3>3
  <2>6. QED
    BY <2>4, <2>5
<1> HIDE DEF C
<1>7. L \in C
  BY <1>1, <1>5, <1>6, CountsUp
<1>8. Escapes(f, i) <=> Out(L)
  BY <1>3, <1>7 DEF C
<1>9. Optional(f, i) <=> \E k \in 1..L : Kept(f, i, k) /\ \A n \in k + 1..L : ~Def(n)
  BY OptionalIs
<1>10. QED
  BY <1>8, <1>9

-----------------------------------------------------------------------------
(* The guards of a file.  What they may evaluate to is a set of truth       *)
(* values, which is never empty.                                            *)

Outcomes == (SUBSET BOOLEAN) \ {{}}

\* What is decided is what every outcome is.
Fit(truth, outcomes) ==
  truth \in TruthValues /\ outcomes \in Outcomes /\ \A b \in outcomes : Agrees(truth, b)

NotOf(S) == {~x : x \in S}
AndOf(S, T) == {x /\ y : x \in S, y \in T}
OrOf(S, T) == {x \/ y : x \in S, y \in T}

LEMMA NotFrom == ASSUME NEW S, NEW c \in NotOf(S) PROVE c \in BOOLEAN /\ \E p \in S : c = (~p)
<1>1. \A d \in NotOf(S) : d \in BOOLEAN
  BY Zenon DEF NotOf
<1>2. \E p \in S : c = (~p)
  BY Zenon DEF NotOf
<1>3. QED
  BY <1>1, <1>2, Zenon

LEMMA AndFrom ==
  ASSUME NEW S, NEW T, NEW c \in AndOf(S, T) PROVE \E p \in S, q \in T : c = (p /\ q)
  BY SMT DEF AndOf

LEMMA OrFrom ==
  ASSUME NEW S, NEW T, NEW c \in OrOf(S, T) PROVE \E p \in S, q \in T : c = (p \/ q)
  BY SMT DEF OrOf

LEMMA OutcomesAre ==
  /\ BOOLEAN \in Outcomes /\ \A b \in BOOLEAN : {b} \in Outcomes
  /\ \A S \in Outcomes : S \subseteq BOOLEAN /\ S # {}
  /\ \A S \in Outcomes : Fit("unknown", S)
<1>1. TRUE \in BOOLEAN
  OBVIOUS
<1>2. BOOLEAN # {} /\ \A b \in BOOLEAN : {b} # {}
  BY <1>1
<1>3. BOOLEAN \in Outcomes /\ \A b \in BOOLEAN : {b} \in Outcomes
  BY <1>2, Zenon DEF Outcomes
<1>4. \A S \in Outcomes : S \subseteq BOOLEAN /\ S # {}
  BY Zenon DEF Outcomes
<1>5. "unknown" \in TruthValues /\ \A b : Agrees("unknown", b)
  BY DEF Agrees, TruthValues
<1>6. QED
  BY <1>3, <1>4, <1>5, Zenon DEF Fit

LEMMA NotIs ==
  ASSUME NEW x, NEW S, Fit(x, S) PROVE Fit(TruthNot(x), NotOf(S))
<1>1. x \in TruthValues /\ S \in Outcomes /\ \A a \in S : Agrees(x, a)
  BY Zenon DEF Fit
<1>2. S \subseteq BOOLEAN /\ S # {}
  BY <1>1, OutcomesAre, Zenon
<1>3. ASSUME NEW a \in S PROVE Agrees(TruthNot(x), ~a)
  <2>1. a \in BOOLEAN /\ Agrees(x, a)
    BY <1>1, <1>2, Zenon
  <2>2. QED
    BY <1>1, <2>1, ConnectivesSound, Zenon
<1>4. TruthNot(x) \in TruthValues
  BY DEF TruthNot, Truth, TruthValues
<1>5. NotOf(S) \in Outcomes
  <2>1. PICK a \in S : TRUE
    BY <1>2, Zenon
  <2>2. (~a) \in NotOf(S)
    BY <2>1, SMT DEF NotOf
  <2>3. NotOf(S) \subseteq BOOLEAN
    BY NotFrom, Zenon
  <2>4. QED
    BY <2>2, <2>3, Zenon DEF Outcomes
<1>6. ASSUME NEW c \in NotOf(S) PROVE Agrees(TruthNot(x), c)
  <2>1. PICK p \in S : c = (~p)
    BY NotFrom, Zenon
  <2>2. Agrees(TruthNot(x), ~p)
    BY <1>3, Zenon
  <2>3. QED
    BY <2>1, <2>2, Zenon
<1>7. QED
  BY <1>4, <1>5, <1>6, Zenon DEF Fit

LEMMA AndIs ==
  ASSUME NEW x, NEW S, Fit(x, S), NEW y, NEW T, Fit(y, T) PROVE Fit(TruthAnd(x, y), AndOf(S, T))
<1>1. /\ x \in TruthValues /\ S \in Outcomes /\ \A a \in S : Agrees(x, a)
      /\ y \in TruthValues /\ T \in Outcomes /\ \A b \in T : Agrees(y, b)
  BY Zenon DEF Fit
<1>2. S \subseteq BOOLEAN /\ S # {} /\ T \subseteq BOOLEAN /\ T # {}
  BY <1>1, OutcomesAre, Zenon
<1>3. ASSUME NEW a \in S, NEW b \in T PROVE Agrees(TruthAnd(x, y), a /\ b)
  <2>1. a \in BOOLEAN /\ Agrees(x, a) /\ b \in BOOLEAN /\ Agrees(y, b)
    BY <1>1, <1>2, Zenon
  <2>2. QED
    BY <1>1, <2>1, ConnectivesSound, Zenon
<1>4. TruthAnd(x, y) \in TruthValues
  BY DEF TruthAnd, TruthValues
<1>5. AndOf(S, T) \in Outcomes
  <2>1. PICK a \in S, b \in T : TRUE
    BY <1>2, Zenon
  <2>2. (a /\ b) \in AndOf(S, T)
    BY <2>1, SMT DEF AndOf
  <2>3. AndOf(S, T) \subseteq BOOLEAN
    <3>1. SUFFICES ASSUME NEW c \in AndOf(S, T) PROVE c \in BOOLEAN
      BY Zenon
    <3>2. PICK p \in S, q \in T : c = (p /\ q)
      BY AndFrom, SMT
    <3>3. QED
      BY <3>2, Zenon
  <2>4. QED
    BY <2>2, <2>3, Zenon DEF Outcomes
<1>6. ASSUME NEW c \in AndOf(S, T) PROVE Agrees(TruthAnd(x, y), c)
  <2>1. PICK p \in S, q \in T : c = (p /\ q)
    BY AndFrom, SMT
  <2>2. Agrees(TruthAnd(x, y), p /\ q)
    BY <1>3, Zenon
  <2>3. QED
    BY <2>1, <2>2, Zenon
<1>7. QED
  BY <1>4, <1>5, <1>6, Zenon DEF Fit

LEMMA OrIs ==
  ASSUME NEW x, NEW S, Fit(x, S), NEW y, NEW T, Fit(y, T) PROVE Fit(TruthOr(x, y), OrOf(S, T))
<1>1. /\ x \in TruthValues /\ S \in Outcomes /\ \A a \in S : Agrees(x, a)
      /\ y \in TruthValues /\ T \in Outcomes /\ \A b \in T : Agrees(y, b)
  BY Zenon DEF Fit
<1>2. S \subseteq BOOLEAN /\ S # {} /\ T \subseteq BOOLEAN /\ T # {}
  BY <1>1, OutcomesAre, Zenon
<1>3. ASSUME NEW a \in S, NEW b \in T PROVE Agrees(TruthOr(x, y), a \/ b)
  <2>1. a \in BOOLEAN /\ Agrees(x, a) /\ b \in BOOLEAN /\ Agrees(y, b)
    BY <1>1, <1>2, Zenon
  <2>2. QED
    BY <1>1, <2>1, ConnectivesSound, Zenon
<1>4. TruthOr(x, y) \in TruthValues
  BY DEF TruthOr, TruthValues
<1>5. OrOf(S, T) \in Outcomes
  <2>1. PICK a \in S, b \in T : TRUE
    BY <1>2, Zenon
  <2>2. (a \/ b) \in OrOf(S, T)
    BY <2>1, SMT DEF OrOf
  <2>3. OrOf(S, T) \subseteq BOOLEAN
    <3>1. SUFFICES ASSUME NEW c \in OrOf(S, T) PROVE c \in BOOLEAN
      BY Zenon
    <3>2. PICK p \in S, q \in T : c = (p \/ q)
      BY OrFrom, SMT
    <3>3. QED
      BY <3>2, Zenon
  <2>4. QED
    BY <2>2, <2>3, Zenon DEF Outcomes
<1>6. ASSUME NEW c \in OrOf(S, T) PROVE Agrees(TruthOr(x, y), c)
  <2>1. PICK p \in S, q \in T : c = (p \/ q)
    BY OrFrom, SMT
  <2>2. Agrees(TruthOr(x, y), p \/ q)
    BY <1>3, Zenon
  <2>3. QED
    BY <2>1, <2>2, Zenon
<1>7. QED
  BY <1>4, <1>5, <1>6, Zenon DEF Fit

LEMMA OrderedIs ==
  ASSUME NEW e \in Comparisons, NEW x PROVE Ordered(e, x) \in BOOLEAN
  BY DEF Ordered, Compare, Comparisons, Operators, Before, Same

LEMMA TermIs ==
  ASSUME NEW guard \in GuardForm
  PROVE  /\ OperandsFirst(guard) /\ Len(guard) \in 1..Len(guard)
         /\ \A n \in 1..Len(guard) :
              /\ guard[n].kind \in {"compare", "typing", "other", "info", "name", "via", "not", "and", "or"}
              /\ guard[n].kind = "compare" => guard[n] \in Comparisons
              /\ guard[n].kind = "via" => guard[n].test \in Comparisons /\ guard[n].name \in Word
              /\ guard[n].kind = "name" => guard[n].name \in Word
<1>1. guard \in Seq(TermForm) /\ guard # <<>>
  BY DEF GuardForm
<1>2. Len(guard) \in Nat \ {0}
  BY <1>1, EmptySeq, LenProperties
<1>3. ASSUME NEW n \in 1..Len(guard)
      PROVE  /\ guard[n].kind \in {"compare", "typing", "other", "info", "name", "via", "not", "and", "or"}
             /\ guard[n].kind = "compare" => guard[n] \in Comparisons
             /\ guard[n].kind = "via" => guard[n].test \in Comparisons /\ guard[n].name \in Word
             /\ guard[n].kind = "name" => guard[n].name \in Word
  <2>1. guard[n] \in TermForm
    BY <1>1, ElementOfSeq
  <2>2. guard[n] \in Comparisons => guard[n].kind = "compare"
    BY DEF Comparisons
  <2>3. QED
    BY <2>1, <2>2, WordIs DEF TermForm
<1>4. OperandsFirst(guard)
  BY <1>2 DEF GuardForm, OperandsFirst
<1>5. QED
  BY <1>2, <1>3, <1>4

RunIs(run) == run.typing \in BOOLEAN

\* What the constants may be.
KnownIs(known) == \A j \in DOMAIN known : known[j] \in Outcomes

\* A part of a guard that has no operands.
LeafKinds == {"compare", "typing", "other", "info", "name", "via"}

LEMMA LeafValue ==
  ASSUME NEW f, NEW i, NEW guard \in GuardForm, NEW n \in 1..Len(guard),
         guard[n].kind \in LeafKinds, NEW run, RunIs(run), NEW known, KnownIs(known),
         NEW value
  PROVE  /\ TermValues(f, i, guard[n], value, run, known) \in Outcomes
         /\ TermValues(f, i, guard[n], value, run, known) \in {TermValues(f, i, guard[n], <<>>, run, known)}
<1> DEFINE e == guard[n]
           bound == Reaching(f, i, e.name)
           Told(b) == Assigned(f, b) /\ b.at \in DOMAIN known
           S(value0) == TermValues(f, i, e, value0, run, known)
<1>1. CASE e.kind = "compare"
  <2>1. \A x : S(x) = {Ordered(e, Shown(e.shape, run))}
    BY <1>1 DEF TermValues
  <2>2. e \in Comparisons
    BY <1>1, TermIs
  <2>3. QED
    BY <2>1, <2>2, OrderedIs, OutcomesAre
<1>2. CASE e.kind = "typing"
  <2>1. \A x : S(x) = {run.typing}
    BY <1>2 DEF TermValues
  <2>2. QED
    BY <2>1, OutcomesAre DEF RunIs
<1>3. CASE e.kind = "other"
  <2>1. \A x : S(x) = BOOLEAN
    BY <1>3 DEF TermValues
  <2>2. QED
    BY <2>1, OutcomesAre
<1>4. CASE e.kind = "info"
  <2>1. \A x : S(x) = {TRUE}
    BY <1>4 DEF TermValues
  <2>2. QED
    BY <2>1, OutcomesAre
<1>5. CASE e.kind = "name"
  <2>1. \A x : S(x) = IF bound = {} \/ \E b \in bound : ~Told(b) THEN BOOLEAN
                      ELSE UNION {known[b.at] : b \in bound}
    BY <1>5 DEF TermValues
  <2>2. CASE bound = {} \/ \E b \in bound : ~Told(b)
    BY <2>1, <2>2, OutcomesAre
  <2>3. CASE ~(bound = {} \/ \E b \in bound : ~Told(b))
    <3> DEFINE all == UNION {known[b.at] : b \in bound}
    <3>1. \A x : S(x) = all
      BY <2>1, <2>3
    <3>2. \A b \in bound : known[b.at] \subseteq BOOLEAN /\ known[b.at] # {}
      <4>1. \A b \in bound : b.at \in DOMAIN known
        BY <2>3
      <4>2. \A b \in bound : known[b.at] \in Outcomes
        BY <4>1 DEF KnownIs
      <4>3. QED
        BY <4>2, OutcomesAre
    <3>3. all \in Outcomes
      <4>1. PICK b0 \in bound : TRUE
        BY <2>3
      <4>2. PICK x \in known[b0.at] : TRUE
        BY <3>2
      <4>3. x \in all
        BY <4>1, <4>2
      <4>4. all \subseteq BOOLEAN
        BY <3>2
      <4>5. QED
        BY <4>3, <4>4, Zenon DEF Outcomes
    <3>4. QED
      BY <3>1, <3>3
  <2>4. QED
    BY <2>2, <2>3
<1>6. CASE e.kind = "via"
  <2>1. \A x : S(x) = IF \E b \in bound : ~Told(b) \/ Node(f, b.at).value # <<[kind |-> "info"]>>
                      THEN BOOLEAN ELSE {Ordered(e.test, Shown(e.test.shape, run))}
    BY <1>6 DEF TermValues
  <2>2. e.test \in Comparisons
    BY <1>6, TermIs
  <2>3. {Ordered(e.test, Shown(e.test.shape, run))} \in Outcomes
    BY <2>2, OrderedIs, OutcomesAre
  <2>4. QED
    BY <2>1, <2>3, OutcomesAre
<1>7. QED
  BY <1>1, <1>2, <1>3, <1>4, <1>5, <1>6 DEF LeafKinds

LEMMA OperandValues ==
  ASSUME NEW f, NEW i, NEW e, NEW value, NEW run, NEW known
  PROVE  /\ e.kind = "not" => TermValues(f, i, e, value, run, known) = NotOf(value[e.arg])
         /\ e.kind = "and" =>
              TermValues(f, i, e, value, run, known) = AndOf(value[e.arg], value[e.arg2])
         /\ e.kind = "or" =>
              TermValues(f, i, e, value, run, known) = OrOf(value[e.arg], value[e.arg2])
<1>1. CASE e.kind = "not"
  <2>1. TermValues(f, i, e, value, run, known) = {~x : x \in value[e.arg]}
    BY <1>1 DEF TermValues
  <2>2. QED
    BY <1>1, <2>1 DEF NotOf
<1>2. CASE e.kind = "and"
  <2>1. TermValues(f, i, e, value, run, known) = {x /\ y : x \in value[e.arg], y \in value[e.arg2]}
    BY <1>2 DEF TermValues
  <2>2. QED
    BY <1>2, <2>1 DEF AndOf
<1>3. CASE e.kind = "or"
  <2>1. TermValues(f, i, e, value, run, known) = {x \/ y : x \in value[e.arg], y \in value[e.arg2]}
    BY <1>3 DEF TermValues
  <2>2. QED
    BY <1>3, <2>1 DEF OrOf
<1>4. QED
  BY <1>1, <1>2, <1>3, Zenon

ValuedBy(value, f, i, guard, run, known) ==
  value = [n \in 1..Len(guard) |-> TermValues(f, i, guard[n], value, run, known)]

LEMMA ValuesDefined ==
  ASSUME NEW f, NEW i, NEW guard \in GuardForm, NEW run, RunIs(run),
         NEW known, KnownIs(known)
  PROVE  \E value : ValuedBy(value, f, i, guard, run, known) /\ value \in [1..Len(guard) -> Outcomes]
<1> DEFINE leaf == [n \in 1..Len(guard) |->
                      IF guard[n].kind \in LeafKinds
                      THEN TermValues(f, i, guard[n], <<>>, run, known) ELSE BOOLEAN]
           neg == [S \in Outcomes |-> NotOf(S)]
           conj == [a \in Outcomes \X Outcomes |-> AndOf(a[1], a[2])]
           disj == [a \in Outcomes \X Outcomes |-> OrOf(a[1], a[2])]
<1>1. leaf \in [1..Len(guard) -> Outcomes]
  <2>1. ASSUME NEW n \in 1..Len(guard), guard[n].kind \in LeafKinds
        PROVE  TermValues(f, i, guard[n], <<>>, run, known) \in Outcomes
    BY <2>1, LeafValue
  <2>2. QED
    BY <2>1, OutcomesAre
<1>2. /\ \A S \in Outcomes : NotOf(S) \in Outcomes
      /\ \A S, T \in Outcomes : AndOf(S, T) \in Outcomes /\ OrOf(S, T) \in Outcomes
  <2>1. \A S \in Outcomes : Fit("unknown", S)
    BY OutcomesAre
  <2>2. \A S \in Outcomes : Fit(TruthNot("unknown"), NotOf(S))
    BY <2>1, NotIs
  <2>3. \A S, T \in Outcomes : Fit(TruthAnd("unknown", "unknown"), AndOf(S, T))
    BY <2>1, AndIs
  <2>4. \A S, T \in Outcomes : Fit(TruthOr("unknown", "unknown"), OrOf(S, T))
    BY <2>1, OrIs
  <2>5. QED
    BY <2>2, <2>3, <2>4 DEF Fit
<1>3. /\ \A S \in Outcomes : neg[S] = NotOf(S)
      /\ \A S, T \in Outcomes : conj[<<S, T>>] = AndOf(S, T)
      /\ \A S, T \in Outcomes : disj[<<S, T>>] = OrOf(S, T)
  OBVIOUS
<1>4. /\ neg \in [Outcomes -> Outcomes]
      /\ conj \in [Outcomes \X Outcomes -> Outcomes]
      /\ disj \in [Outcomes \X Outcomes -> Outcomes]
  BY <1>2
<1>5. \A n \in 1..Len(guard) :
        guard[n].kind \in LeafKinds => leaf[n] = TermValues(f, i, guard[n], <<>>, run, known)
  OBVIOUS
<1> HIDE DEF leaf, neg, conj, disj
<1>11. ASSUME NEW n \in 1..Len(guard), guard[n].kind \in LeafKinds, NEW value
       PROVE  TermValues(f, i, guard[n], value, run, known) = TermValues(f, i, guard[n], <<>>, run, known)
  <2>1. TermValues(f, i, guard[n], value, run, known) \in {TermValues(f, i, guard[n], <<>>, run, known)}
    BY <1>11, LeafValue, Zenon
  <2>2. QED
    BY <2>1
<1>6. PICK g \in [1..Len(guard) -> Outcomes] : Tabulates(g, Len(guard), guard, leaf, neg, conj, disj)
  BY <1>1, <1>4, TermIs, TableExists
<1>7. ASSUME NEW n \in 1..Len(guard) PROVE g[n] = TermValues(f, i, guard[n], g, run, known)
  <2>1. g[n] = NodeValue(g, guard, leaf, neg, conj, disj, n)
    BY <1>6 DEF Tabulates
  <2>2. /\ guard[n].kind \in LeafKinds \cup {"not", "and", "or"}
        /\ guard[n].kind \in {"not", "and", "or"} => g[guard[n].arg] \in Outcomes
        /\ guard[n].kind \in {"and", "or"} => g[guard[n].arg2] \in Outcomes
    <3>1. n \in Nat /\ 1..n - 1 \subseteq 1..Len(guard)
      BY TermIs DEF OperandsFirst
    <3>2. QED
      BY <1>6, <3>1, TermIs DEF OperandsFirst, LeafKinds
  <2>3. CASE guard[n].kind \in LeafKinds
    <3>1. g[n] = leaf[n]
      BY <2>1, <2>3 DEF NodeValue, LeafKinds
    <3>2. TermValues(f, i, guard[n], g, run, known) = TermValues(f, i, guard[n], <<>>, run, known)
      BY <2>3, <1>11, Zenon
    <3>3. QED
      BY <1>5, <2>3, <3>1, <3>2, Zenon
  <2>4. CASE guard[n].kind = "not"
    <3>1. g[n] = NotOf(g[guard[n].arg])
      BY <1>3, <2>1, <2>2, <2>4 DEF NodeValue
    <3>2. QED
      BY <2>4, <3>1, OperandValues
  <2>5. CASE guard[n].kind = "and"
    <3>1. g[n] = AndOf(g[guard[n].arg], g[guard[n].arg2])
      BY <1>3, <2>1, <2>2, <2>5 DEF NodeValue
    <3>2. QED
      BY <2>5, <3>1, OperandValues
  <2>6. CASE guard[n].kind = "or"
    <3>1. g[n] = OrOf(g[guard[n].arg], g[guard[n].arg2])
      BY <1>3, <2>1, <2>2, <2>6 DEF NodeValue
    <3>2. QED
      BY <2>6, <3>1, OperandValues
  <2>7. QED
    BY <2>2, <2>3, <2>4, <2>5, <2>6
<1>8. g = [n \in 1..Len(guard) |-> TermValues(f, i, guard[n], g, run, known)]
  BY <1>6, <1>7
<1>9. ValuedBy(g, f, i, guard, run, known)
  BY <1>8, Zenon DEF ValuedBy
<1>10. QED
  BY <1>6, <1>9

\* The values of a guard are those of its last part, and there is always one.
LEMMA ValuesAre ==
  ASSUME NEW f, NEW i, NEW guard \in GuardForm, NEW run, RunIs(run),
         NEW known, KnownIs(known)
  PROVE  \E value : /\ ValuedBy(value, f, i, guard, run, known)
                    /\ Values(f, i, guard, run, known) = value[Len(guard)]
<1> DEFINE g == CHOOSE value : ValuedBy(value, f, i, guard, run, known)
<1>1. ValuedBy(g, f, i, guard, run, known)
  <2>1. \E value : ValuedBy(value, f, i, guard, run, known)
    BY ValuesDefined
  <2>2. QED
    BY <2>1, Zenon
<1>2. Values(f, i, guard, run, known) = g[Len(guard)]
  BY DEF Values, ValuedBy
<1>3. QED
  BY <1>1, <1>2, Zenon

\* A guard of one part that is no operator.
LEMMA Alone ==
  ASSUME NEW e, e.kind \in {"compare", "typing", "other"}, NEW v
  PROVE  /\ e.kind = "compare" => EvaluateImport(<<e>>, v) = IF Patch(e) THEN PatchComparison(e, v)
                                                             ELSE Comparison(e, v)
         /\ e.kind = "typing" => EvaluateImport(<<e>>, v) = "false"
         /\ e.kind = "other" => EvaluateImport(<<e>>, v) = "unknown"
<1> DEFINE guard == <<e>>
<1>1. Len(guard) = 1 /\ guard[1] = e /\ 1..Len(guard) = {1}
  OBVIOUS
<1> HIDE DEF guard
<1>2. Parsed(guard)
  BY <1>1 DEF Parsed, OperandsFirst
<1>3. PICK f : ImportEvaluatedBy(f, guard, v) /\ EvaluateImport(guard, v) = f[Len(guard)]
  BY <1>2, ImportEvaluateIs
<1>4. f[1] = ImportTruthOf(e, f, v)
  BY <1>1, <1>3 DEF ImportEvaluatedBy
<1>5. EvaluateImport(guard, v) = ImportTruthOf(e, f, v)
  BY <1>1, <1>3, <1>4
<1>6. QED
  BY <1>5 DEF ImportTruthOf, guard

LEMMA RunningIs ==
  ASSUME NEW v \in Targets, NEW run \in Running(v)
  PROVE  /\ run \in Interpreter(Nat, Nat) /\ ~run.typing /\ run.typing = FALSE /\ run.minor = v
         /\ RunIs(run)
<1>1. run \in Interpreter({v}, Micros) /\ ~run.typing
  BY DEF Running
<1>2. Targets \subseteq Nat /\ Micros \subseteq Nat
  BY TargetsAssumption
<1>3. QED
  BY <1>1, <1>2 DEF Interpreter, RunIs

\* A comparison a guard makes, whether with sys.version_info or with what holds it.
LEMMA ComparedIs ==
  ASSUME NEW e \in Comparisons, NEW v \in Targets, NEW run \in Running(v)
  PROVE  Fit(EvaluateImport(<<e>>, v), {Ordered(e, Shown(e.shape, run))})
<1>1. e.kind = "compare" /\ Ordered(e, Shown(e.shape, run)) \in BOOLEAN
  BY OrderedIs DEF Comparisons
<1>2. /\ Agrees(Comparison(e, v), Ordered(e, Shown(e.shape, run)))
      /\ Agrees(PatchComparison(e, v), Ordered(e, Shown(e.shape, run)))
  BY RunningIs, ComparisonSound, PatchComparisonSound
<1>3. Comparison(e, v) \in TruthValues /\ PatchComparison(e, v) \in TruthValues
  BY DEF Comparison, PatchComparison, Truth, TruthValues
<1>4. EvaluateImport(<<e>>, v) = IF Patch(e) THEN PatchComparison(e, v) ELSE Comparison(e, v)
  BY <1>1, Alone
<1>5. /\ EvaluateImport(<<e>>, v) \in TruthValues
      /\ Agrees(EvaluateImport(<<e>>, v), Ordered(e, Shown(e.shape, run)))
  BY <1>2, <1>3, <1>4
<1>6. {Ordered(e, Shown(e.shape, run))} \in Outcomes
  BY <1>1, OutcomesAre
<1>7. QED
  BY <1>5, <1>6 DEF Fit

\* _guard_alias_value: the constant is the only binding, made above by the module.
LEMMA ConstantIs ==
  ASSUME NEW f \in Files, NEW i \in 1..Len(f.lines), NEW name \in Word
  PROVE  /\ Constant(f, i, name) \in 0..i - 1
         /\ Constant(f, i, name) # 0 =>
              \E b : /\ Assignments(f, i, name) = {b} /\ b.source = "local" /\ b.at < i
                     /\ Constant(f, i, name) = b.at /\ Node(f, b.at).op = "assign"
                     /\ Within(f, b.at) = <<>>
<1> DEFINE found == Assignments(f, i, name)
           Only(b) == /\ found = {b} /\ b.source = "local" /\ b.at < i
                      /\ Node(f, b.at).op = "assign" /\ Within(f, b.at) = <<>>
<1>1. CASE \E b \in found : Only(b)
  <2>1. PICK b \in found : Only(b)
    BY <1>1
  <2>2. (CHOOSE x \in found : TRUE) = b
    BY <2>1
  <2>3. Constant(f, i, name) = b.at
    BY <1>1, <2>2 DEF Constant
  <2>4. b.at \in 1..Len(f.lines) /\ Len(f.lines) \in Nat
    BY AssignmentIs, FileIs
  <2>5. QED
    BY <2>1, <2>3, <2>4
<1>2. CASE ~\E b \in found : Only(b)
  <2>1. Constant(f, i, name) = 0
    BY <1>2 DEF Constant
  <2>2. i \in Nat /\ i >= 1
    BY FileIs
  <2>3. QED
    BY <2>1, <2>2
<1>3. QED
  BY <1>1, <1>2

\* What is told of the constants fits what they may be.
FitKnown(i, told, known) ==
  /\ KnownIs(known) /\ told[0] = "unknown"
  /\ \A j \in 0..i - 1 : j \in DOMAIN known /\ Fit(told[j], known[j])

LEMMA LeafFits ==
  ASSUME NEW f \in Files, NEW i \in 1..Len(f.lines), NEW guard \in GuardForm,
         NEW n \in 1..Len(guard), guard[n].kind \in LeafKinds,
         NEW v \in Targets, NEW run \in Running(v), NEW told, NEW known, FitKnown(i, told, known),
         NEW truth, NEW value
  PROVE  Fit(TermTruth(f, i, guard[n], truth, v, told), TermValues(f, i, guard[n], value, run, known))
<1> DEFINE e == guard[n]
           T == TermTruth(f, i, e, truth, v, told)
           S == TermValues(f, i, e, value, run, known)
           found == Assignments(f, i, e.name)
           bound == Reaching(f, i, e.name)
           Told(b) == Assigned(f, b) /\ b.at \in DOMAIN known
           c == Constant(f, i, e.name)
<1>1. S \in Outcomes
  <2>1. RunIs(run) /\ KnownIs(known)
    BY RunningIs DEF FitKnown
  <2>2. QED
    BY <2>1, LeafValue, Zenon
<1>2. T = "unknown" => Fit(T, S)
  BY <1>1, OutcomesAre, Zenon
<1>3. CASE e.kind = "compare"
  <2>1. T = EvaluateImport(<<e>>, v) /\ S = {Ordered(e, Shown(e.shape, run))}
    BY <1>3 DEF TermTruth, TermValues
  <2>2. e \in Comparisons
    BY <1>3, TermIs
  <2>3. QED
    BY <2>1, <2>2, ComparedIs, Zenon
<1>4. CASE e.kind = "typing"
  <2>1. T = "false" /\ S = {run.typing}
    BY <1>4, Alone DEF TermTruth, TermValues
  <2>2. run.typing = FALSE
    BY RunningIs
  <2>3. "false" \in TruthValues /\ Agrees("false", FALSE)
    BY DEF Agrees, TruthValues
  <2>4. QED
    BY <1>1, <2>1, <2>2, <2>3 DEF Fit
<1>5. CASE e.kind = "other"
  <2>1. T = "unknown"
    BY <1>5, Alone DEF TermTruth
  <2>2. QED
    BY <1>2, <2>1
<1>6. CASE e.kind = "info"
  <2>1. T = "unknown"
    BY <1>6 DEF TermTruth
  <2>2. QED
    BY <1>2, <2>1
<1>7. ASSUME e.kind \in {"name", "via"}, c # 0
      PROVE  \E b : /\ bound = {b} /\ Told(b) /\ b.at = c /\ c \in 0..i - 1
  <2>1. e.name \in Word
    BY <1>7, TermIs
  <2>2. PICK b : /\ found = {b} /\ b.source = "local" /\ b.at < i
                 /\ c = b.at /\ Node(f, b.at).op = "assign" /\ Within(f, b.at) = <<>>
    BY <1>7, <2>1, ConstantIs
  <2>3. c \in 0..i - 1
    BY <2>1, ConstantIs
  <2>4. bound = {b}
    BY <2>2 DEF Reaching
  <2>5. ~Function(f, b.at)
    BY <2>2 DEF Function
  <2>6. Told(b)
    BY <2>2, <2>3, <2>5 DEF Assigned, FitKnown
  <2>7. QED
    BY <2>2, <2>3, <2>4, <2>6
<1>8. CASE e.kind = "name"
  <2>1. T = told[c]
    BY <1>8 DEF TermTruth
  <2>2. CASE c = 0
    BY <1>2, <2>1, <2>2 DEF FitKnown
  <2>3. CASE c # 0
    <3>1. PICK b : bound = {b} /\ Told(b) /\ b.at = c /\ c \in 0..i - 1
      BY <1>7, <1>8, <2>3
    <3>2. S = IF bound = {} \/ \E x \in bound : ~Told(x) THEN BOOLEAN
              ELSE UNION {known[x.at] : x \in bound}
      BY <1>8 DEF TermValues
    <3>3. S = known[c]
      <4>1. ~(bound = {} \/ \E x \in bound : ~Told(x))
        BY <3>1
      <4>2. S = UNION {known[x.at] : x \in bound}
        BY <3>2, <4>1, Zenon
      <4>3. {known[x.at] : x \in bound} = {known[c]}
        BY <3>1
      <4>4. QED
        BY <4>2, <4>3
    <3>4. Fit(told[c], known[c])
      BY <3>1 DEF FitKnown
    <3>5. QED
      BY <2>1, <3>3, <3>4, Zenon
  <2>4. QED
    BY <2>2, <2>3
<1>9. CASE e.kind = "via"
  <2>1. T = IF IsVersionInfo(f, c) THEN EvaluateImport(<<e.test>>, v) ELSE "unknown"
    BY <1>9 DEF TermTruth
  <2>2. CASE ~IsVersionInfo(f, c)
    BY <1>2, <2>1, <2>2
  <2>3. CASE IsVersionInfo(f, c)
    <3>1. c # 0 /\ Node(f, c).value = <<[kind |-> "info"]>>
      BY <2>3 DEF IsVersionInfo
    <3>2. PICK b : bound = {b} /\ Told(b) /\ b.at = c /\ c \in 0..i - 1
      BY <1>7, <1>9, <3>1
    <3>3. S = IF \E x \in bound : ~Told(x) \/ Node(f, x.at).value # <<[kind |-> "info"]>>
              THEN BOOLEAN ELSE {Ordered(e.test, Shown(e.test.shape, run))}
      BY <1>9 DEF TermValues
    <3>4. S = {Ordered(e.test, Shown(e.test.shape, run))}
      <4>1. ~\E x \in bound : ~Told(x) \/ Node(f, x.at).value # <<[kind |-> "info"]>>
        BY <3>1, <3>2
      <4>2. QED
        BY <3>3, <4>1, Zenon
    <3>5. e.test \in Comparisons
      BY <1>9, TermIs
    <3>6. QED
      BY <2>1, <2>3, <3>4, <3>5, ComparedIs, Zenon
  <2>4. QED
    BY <2>2, <2>3
<1>10. QED
  BY <1>3, <1>4, <1>5, <1>6, <1>8, <1>9 DEF LeafKinds

TruthsBy(truth, f, i, guard, v, told) ==
  truth = [n \in 1..Len(guard) |-> TermTruth(f, i, guard[n], truth, v, told)]

\* A part of a guard that has no operands is told a truth without them.
LEMMA LeafTruth ==
  ASSUME NEW f \in Files, NEW i \in 1..Len(f.lines), NEW guard \in GuardForm,
         NEW n \in 1..Len(guard), guard[n].kind \in LeafKinds, NEW v,
         NEW told, \A j \in 0..i - 1 : told[j] \in TruthValues, NEW truth
  PROVE  /\ TermTruth(f, i, guard[n], truth, v, told) \in TruthValues
         /\ TermTruth(f, i, guard[n], truth, v, told) \in {TermTruth(f, i, guard[n], <<>>, v, told)}
<1> DEFINE e == guard[n]
           c == Constant(f, i, e.name)
           T(x) == TermTruth(f, i, e, x, v, told)
<1>1. \A w \in Comparisons : EvaluateImport(<<w>>, v) \in TruthValues
  <2>1. SUFFICES ASSUME NEW w \in Comparisons PROVE EvaluateImport(<<w>>, v) \in TruthValues
    OBVIOUS
  <2>2. Comparison(w, v) \in TruthValues /\ PatchComparison(w, v) \in TruthValues
    BY DEF Comparison, PatchComparison, Truth, TruthValues
  <2>3. w.kind = "compare"
    BY DEF Comparisons
  <2>4. EvaluateImport(<<w>>, v) = IF Patch(w) THEN PatchComparison(w, v) ELSE Comparison(w, v)
    BY <2>3, Alone
  <2>5. QED
    BY <2>2, <2>4
<1>2. "unknown" \in TruthValues /\ "false" \in TruthValues
  BY DEF TruthValues
<1>3. CASE e.kind = "compare"
  <2>1. \A x : T(x) = EvaluateImport(<<e>>, v)
    BY <1>3 DEF TermTruth
  <2>2. QED
    BY <1>1, <1>3, <2>1, TermIs
<1>4. CASE e.kind \in {"typing", "other"}
  <2>1. \A x : T(x) = EvaluateImport(<<e>>, v)
    BY <1>4 DEF TermTruth
  <2>2. QED
    BY <1>2, <1>4, <2>1, Alone
<1>5. CASE e.kind = "info"
  <2>1. \A x : T(x) = "unknown"
    BY <1>5 DEF TermTruth
  <2>2. QED
    BY <1>2, <2>1
<1>6. CASE e.kind = "name"
  <2>1. \A x : T(x) = told[c]
    BY <1>6 DEF TermTruth
  <2>2. c \in 0..i - 1
    BY <1>6, TermIs, ConstantIs
  <2>3. QED
    BY <2>1, <2>2
<1>7. CASE e.kind = "via"
  <2>1. \A x : T(x) = IF IsVersionInfo(f, c) THEN EvaluateImport(<<e.test>>, v) ELSE "unknown"
    BY <1>7 DEF TermTruth
  <2>2. e.test \in Comparisons
    BY <1>7, TermIs
  <2>3. QED
    BY <1>1, <1>2, <2>1, <2>2
<1>8. QED
  BY <1>3, <1>4, <1>5, <1>6, <1>7 DEF LeafKinds

LEMMA OperandTruths ==
  ASSUME NEW f, NEW i, NEW e, NEW truth, NEW v, NEW told
  PROVE  /\ e.kind = "not" => TermTruth(f, i, e, truth, v, told) = TruthNot(truth[e.arg])
         /\ e.kind = "and" =>
              TermTruth(f, i, e, truth, v, told) = TruthAnd(truth[e.arg], truth[e.arg2])
         /\ e.kind = "or" =>
              TermTruth(f, i, e, truth, v, told) = TruthOr(truth[e.arg], truth[e.arg2])
  BY DEF TermTruth

LEMMA TruthsDefined ==
  ASSUME NEW f \in Files, NEW i \in 1..Len(f.lines), NEW guard \in GuardForm, NEW v,
         NEW told, \A j \in 0..i - 1 : told[j] \in TruthValues
  PROVE  \E truth : TruthsBy(truth, f, i, guard, v, told) /\ truth \in [1..Len(guard) -> TruthValues]
<1> DEFINE leaf == [n \in 1..Len(guard) |->
                      IF guard[n].kind \in LeafKinds
                      THEN TermTruth(f, i, guard[n], <<>>, v, told) ELSE "unknown"]
           neg == [x \in TruthValues |-> TruthNot(x)]
           conj == [a \in TruthValues \X TruthValues |-> TruthAnd(a[1], a[2])]
           disj == [a \in TruthValues \X TruthValues |-> TruthOr(a[1], a[2])]
<1>1. leaf \in [1..Len(guard) -> TruthValues]
  <2>1. ASSUME NEW n \in 1..Len(guard), guard[n].kind \in LeafKinds
        PROVE  TermTruth(f, i, guard[n], <<>>, v, told) \in TruthValues
    BY <2>1, LeafTruth
  <2>2. QED
    BY <2>1 DEF TruthValues
<1>2. /\ neg \in [TruthValues -> TruthValues]
      /\ conj \in [TruthValues \X TruthValues -> TruthValues]
      /\ disj \in [TruthValues \X TruthValues -> TruthValues]
  BY DEF TruthNot, TruthAnd, TruthOr, Truth, TruthValues
<1>3. /\ \A x \in TruthValues : neg[x] = TruthNot(x)
      /\ \A x, y \in TruthValues : conj[<<x, y>>] = TruthAnd(x, y)
      /\ \A x, y \in TruthValues : disj[<<x, y>>] = TruthOr(x, y)
  OBVIOUS
<1>4. \A n \in 1..Len(guard) :
        guard[n].kind \in LeafKinds => leaf[n] = TermTruth(f, i, guard[n], <<>>, v, told)
  OBVIOUS
<1> HIDE DEF leaf, neg, conj, disj
<1>5. ASSUME NEW n \in 1..Len(guard), guard[n].kind \in LeafKinds, NEW truth
      PROVE  TermTruth(f, i, guard[n], truth, v, told) = TermTruth(f, i, guard[n], <<>>, v, told)
  <2>1. TermTruth(f, i, guard[n], truth, v, told) \in {TermTruth(f, i, guard[n], <<>>, v, told)}
    BY <1>5, LeafTruth, Zenon
  <2>2. QED
    BY <2>1
<1>6. PICK g \in [1..Len(guard) -> TruthValues] :
        Tabulates(g, Len(guard), guard, leaf, neg, conj, disj)
  BY <1>1, <1>2, TermIs, TableExists
<1>7. ASSUME NEW n \in 1..Len(guard) PROVE g[n] = TermTruth(f, i, guard[n], g, v, told)
  <2>1. g[n] = NodeValue(g, guard, leaf, neg, conj, disj, n)
    BY <1>6 DEF Tabulates
  <2>2. /\ guard[n].kind \in LeafKinds \cup {"not", "and", "or"}
        /\ guard[n].kind \in {"not", "and", "or"} => g[guard[n].arg] \in TruthValues
        /\ guard[n].kind \in {"and", "or"} => g[guard[n].arg2] \in TruthValues
    <3>1. n \in Nat /\ 1..n - 1 \subseteq 1..Len(guard)
      BY TermIs DEF OperandsFirst
    <3>2. QED
      BY <1>6, <3>1, TermIs DEF OperandsFirst, LeafKinds
  <2>3. CASE guard[n].kind \in LeafKinds
    <3>1. g[n] = leaf[n]
      BY <2>1, <2>3 DEF NodeValue, LeafKinds
    <3>2. TermTruth(f, i, guard[n], g, v, told) = TermTruth(f, i, guard[n], <<>>, v, told)
      BY <2>3, <1>5, Zenon
    <3>3. QED
      BY <1>4, <2>3, <3>1, <3>2, Zenon
  <2>4. CASE guard[n].kind = "not"
    <3>1. g[n] = TruthNot(g[guard[n].arg])
      BY <1>3, <2>1, <2>2, <2>4 DEF NodeValue
    <3>2. QED
      BY <2>4, <3>1, OperandTruths
  <2>5. CASE guard[n].kind = "and"
    <3>1. g[n] = TruthAnd(g[guard[n].arg], g[guard[n].arg2])
      BY <1>3, <2>1, <2>2, <2>5 DEF NodeValue
    <3>2. QED
      BY <2>5, <3>1, OperandTruths
  <2>6. CASE guard[n].kind = "or"
    <3>1. g[n] = TruthOr(g[guard[n].arg], g[guard[n].arg2])
      BY <1>3, <2>1, <2>2, <2>6 DEF NodeValue
    <3>2. QED
      BY <2>6, <3>1, OperandTruths
  <2>7. QED
    BY <2>2, <2>3, <2>4, <2>5, <2>6
<1>8. g = [n \in 1..Len(guard) |-> TermTruth(f, i, guard[n], g, v, told)]
  BY <1>6, <1>7
<1>9. TruthsBy(g, f, i, guard, v, told)
  BY <1>8, Zenon DEF TruthsBy
<1>10. QED
  BY <1>6, <1>9

LEMMA TruthsAre ==
  ASSUME NEW f \in Files, NEW i \in 1..Len(f.lines), NEW guard \in GuardForm, NEW v,
         NEW told, \A j \in 0..i - 1 : told[j] \in TruthValues
  PROVE  \E truth : /\ TruthsBy(truth, f, i, guard, v, told)
                    /\ GuardTruth(f, i, guard, v, told) = truth[Len(guard)]
<1> DEFINE g == CHOOSE truth : TruthsBy(truth, f, i, guard, v, told)
<1>1. TruthsBy(g, f, i, guard, v, told)
  <2>1. \E truth : TruthsBy(truth, f, i, guard, v, told)
    BY TruthsDefined
  <2>2. QED
    BY <2>1, Zenon
<1>2. GuardTruth(f, i, guard, v, told) = g[Len(guard)]
  BY DEF GuardTruth, TruthsBy
<1>3. QED
  BY <1>1, <1>2, Zenon

\* Truths and outcomes fit when they do where there are no operands.
LEMMA TablesFit ==
  ASSUME NEW guard, OperandsFirst(guard),
         \A n \in 1..Len(guard) : guard[n].kind \in LeafKinds \cup {"not", "and", "or"},
         NEW truth, NEW value,
         \A n \in 1..Len(guard) :
           /\ guard[n].kind \in LeafKinds => Fit(truth[n], value[n])
           /\ guard[n].kind = "not" => /\ truth[n] = TruthNot(truth[guard[n].arg])
                                       /\ value[n] = NotOf(value[guard[n].arg])
           /\ guard[n].kind = "and" =>
                /\ truth[n] = TruthAnd(truth[guard[n].arg], truth[guard[n].arg2])
                /\ value[n] = AndOf(value[guard[n].arg], value[guard[n].arg2])
           /\ guard[n].kind = "or" =>
                /\ truth[n] = TruthOr(truth[guard[n].arg], truth[guard[n].arg2])
                /\ value[n] = OrOf(value[guard[n].arg], value[guard[n].arg2])
  PROVE  Fit(truth[Len(guard)], value[Len(guard)])
<1> DEFINE C == {n \in 1..Len(guard) : Fit(truth[n], value[n])}
<1>1. ASSUME NEW n \in 1..Len(guard),
             guard[n].kind \in {"not", "and", "or"} => guard[n].arg \in C,
             guard[n].kind \in {"and", "or"} => guard[n].arg2 \in C
      PROVE  n \in C
  <2>1. CASE guard[n].kind \in LeafKinds
    BY <2>1
  <2>2. CASE guard[n].kind = "not"
    <3>1. Fit(truth[guard[n].arg], value[guard[n].arg])
      BY <1>1, <2>2
    <3>2. Fit(TruthNot(truth[guard[n].arg]), NotOf(value[guard[n].arg]))
      BY <3>1, NotIs
    <3>3. truth[n] = TruthNot(truth[guard[n].arg]) /\ value[n] = NotOf(value[guard[n].arg])
      BY <2>2
    <3>4. QED
      BY <3>2, <3>3
  <2>3. CASE guard[n].kind = "and"
    <3>1. /\ Fit(truth[guard[n].arg], value[guard[n].arg])
          /\ Fit(truth[guard[n].arg2], value[guard[n].arg2])
      BY <1>1, <2>3
    <3>2. Fit(TruthAnd(truth[guard[n].arg], truth[guard[n].arg2]),
              AndOf(value[guard[n].arg], value[guard[n].arg2]))
      BY <3>1, AndIs
    <3>3. /\ truth[n] = TruthAnd(truth[guard[n].arg], truth[guard[n].arg2])
          /\ value[n] = AndOf(value[guard[n].arg], value[guard[n].arg2])
      BY <2>3
    <3>4. QED
      BY <3>2, <3>3
  <2>4. CASE guard[n].kind = "or"
    <3>1. /\ Fit(truth[guard[n].arg], value[guard[n].arg])
          /\ Fit(truth[guard[n].arg2], value[guard[n].arg2])
      BY <1>1, <2>4
    <3>2. Fit(TruthOr(truth[guard[n].arg], truth[guard[n].arg2]),
              OrOf(value[guard[n].arg], value[guard[n].arg2]))
      BY <3>1, OrIs
    <3>3. /\ truth[n] = TruthOr(truth[guard[n].arg], truth[guard[n].arg2])
          /\ value[n] = OrOf(value[guard[n].arg], value[guard[n].arg2])
      BY <2>4
    <3>4. QED
      BY <3>2, <3>3
  <2>5. QED
    BY <2>1, <2>2, <2>3, <2>4
<1>2. Len(guard) \in 1..Len(guard)
  BY DEF OperandsFirst
<1> HIDE DEF C
<1>3. \A n \in 1..Len(guard) : n \in C
  BY <1>1, FromOperands
<1>4. QED
  BY <1>2, <1>3 DEF C

\* What evaluate_import_guard decides of a guard is what every run makes of it.
LEMMA GuardFits ==
  ASSUME NEW f \in Files, NEW i \in 1..Len(f.lines), NEW guard \in GuardForm,
         NEW v \in Targets, NEW run \in Running(v), NEW told, NEW known, FitKnown(i, told, known)
  PROVE  Fit(GuardTruth(f, i, guard, v, told), Values(f, i, guard, run, known))
<1>1. RunIs(run) /\ KnownIs(known) /\ \A j \in 0..i - 1 : told[j] \in TruthValues
  BY RunningIs DEF FitKnown, Fit
<1>2. PICK value : /\ ValuedBy(value, f, i, guard, run, known)
                   /\ Values(f, i, guard, run, known) = value[Len(guard)]
  BY <1>1, ValuesAre
<1>3. PICK truth : /\ TruthsBy(truth, f, i, guard, v, told)
                   /\ GuardTruth(f, i, guard, v, told) = truth[Len(guard)]
  BY <1>1, TruthsAre
<1>4. ASSUME NEW n \in 1..Len(guard)
      PROVE  /\ truth[n] = TermTruth(f, i, guard[n], truth, v, told)
             /\ value[n] = TermValues(f, i, guard[n], value, run, known)
  <2>1. truth[n] = TermTruth(f, i, guard[n], truth, v, told)
    BY <1>3 DEF TruthsBy
  <2>2. value[n] = TermValues(f, i, guard[n], value, run, known)
    BY <1>2 DEF ValuedBy
  <2>3. QED
    BY <2>1, <2>2
<1>5. ASSUME NEW n \in 1..Len(guard), guard[n].kind \in LeafKinds
      PROVE  Fit(truth[n], value[n])
  <2>1. Fit(TermTruth(f, i, guard[n], truth, v, told), TermValues(f, i, guard[n], value, run, known))
    BY <1>5, LeafFits
  <2>2. QED
    BY <1>4, <2>1
<1>6. ASSUME NEW n \in 1..Len(guard)
      PROVE  /\ guard[n].kind = "not" => /\ truth[n] = TruthNot(truth[guard[n].arg])
                                         /\ value[n] = NotOf(value[guard[n].arg])
             /\ guard[n].kind = "and" =>
                  /\ truth[n] = TruthAnd(truth[guard[n].arg], truth[guard[n].arg2])
                  /\ value[n] = AndOf(value[guard[n].arg], value[guard[n].arg2])
             /\ guard[n].kind = "or" =>
                  /\ truth[n] = TruthOr(truth[guard[n].arg], truth[guard[n].arg2])
                  /\ value[n] = OrOf(value[guard[n].arg], value[guard[n].arg2])
  BY <1>4, OperandTruths, OperandValues
<1>7. OperandsFirst(guard) /\ \A n \in 1..Len(guard) : guard[n].kind \in LeafKinds \cup {"not", "and", "or"}
  BY TermIs DEF LeafKinds
<1>8. Fit(truth[Len(guard)], value[Len(guard)])
  BY <1>5, <1>6, <1>7, TablesFit
<1>9. QED
  BY <1>2, <1>3, <1>8

LEMMA NodeIs ==
  ASSUME NEW f \in Files, NEW j \in 1..Len(f.lines), Node(f, j).op = "assign"
  PROVE  Node(f, j).value \in GuardForm
<1>1. Node(f, j) \in NodeForm
  BY LineIs
<1>2. QED
  BY <1>1 DEF NodeForm

\* The constants above a line; what is told of none of them fits anything.
LEMMA UntoldFits ==
  ASSUME NEW j \in Nat \ {0}, NEW known \in [0..j - 1 -> Outcomes]
  PROVE  FitKnown(j, [k \in 0..j - 1 |-> "unknown"], known)
<1>1. KnownIs(known)
  BY DEF KnownIs
<1>2. 0 \in 0..j - 1
  OBVIOUS
<1>3. \A k \in 0..j - 1 : Fit("unknown", known[k])
  BY OutcomesAre
<1>4. QED
  BY <1>1, <1>2, <1>3 DEF FitKnown

LEMMA ValuesIn ==
  ASSUME NEW f \in Files, NEW j \in 1..Len(f.lines), NEW guard \in GuardForm,
         NEW v \in Targets, NEW run \in Running(v), NEW known \in [0..j - 1 -> Outcomes]
  PROVE  Values(f, j, guard, run, known) \in Outcomes
<1>1. j \in Nat \ {0}
  BY FileIs
<1>2. Fit(GuardTruth(f, j, guard, v, [k \in 0..j - 1 |-> "unknown"]), Values(f, j, guard, run, known))
  BY <1>1, UntoldFits, GuardFits
<1>3. QED
  BY <1>2 DEF Fit

LEMMA SomeRun == ASSUME NEW v \in Targets PROVE Running(v) # {}
<1>1. PICK m \in Micros : TRUE
  BY TargetsAssumption
<1> DEFINE run == [minor |-> v, micro |-> m, typing |-> FALSE]
<1>2. run \in Running(v)
  BY DEF Running, Interpreter
<1>3. QED
  BY <1>2

LEMMA TruthIn ==
  ASSUME NEW f \in Files, NEW j \in 1..Len(f.lines), NEW guard \in GuardForm,
         NEW v \in Targets, NEW told \in [0..j - 1 -> TruthValues], told[0] = "unknown"
  PROVE  GuardTruth(f, j, guard, v, told) \in TruthValues
<1> DEFINE fitting(x) == IF x = "unknown" THEN BOOLEAN ELSE IF x = "true" THEN {TRUE} ELSE {FALSE}
           known == [k \in 0..j - 1 |-> fitting(told[k])]
<1>1. j \in Nat \ {0}
  BY FileIs
<1>2. ASSUME NEW x \in TruthValues PROVE Fit(x, fitting(x))
  <2>1. CASE x = "unknown"
    BY <2>1, OutcomesAre
  <2>2. CASE x = "true"
    <3>1. fitting(x) = {TRUE} /\ {TRUE} \in Outcomes /\ Agrees("true", TRUE)
      BY <2>2, OutcomesAre DEF Agrees
    <3>2. QED
      BY <2>2, <3>1 DEF Fit
  <2>3. CASE x = "false"
    <3>1. fitting(x) = {FALSE} /\ {FALSE} \in Outcomes /\ Agrees("false", FALSE)
      BY <2>3, OutcomesAre DEF Agrees
    <3>2. QED
      BY <2>3, <3>1 DEF Fit
  <2>4. QED
    BY <2>1, <2>2, <2>3 DEF TruthValues
<1>3. \A k \in 0..j - 1 : k \in DOMAIN known /\ Fit(told[k], known[k])
  <2> HIDE DEF fitting
  <2> QED
    BY <1>2
<1>4. KnownIs(known)
  <2>1. \A k \in 0..j - 1 : known[k] \in Outcomes
    BY <1>3 DEF Fit
  <2>2. DOMAIN known = 0..j - 1
    OBVIOUS
  <2> HIDE DEF known
  <2>3. QED
    BY <2>1, <2>2 DEF KnownIs
<1> HIDE DEF known
<1>5. FitKnown(j, told, known)
  BY <1>3, <1>4 DEF FitKnown
<1>6. PICK run \in Running(v) : TRUE
  BY SomeRun
<1>7. QED
  BY <1>5, <1>6, GuardFits DEF Fit

-----------------------------------------------------------------------------
(* The constants of a file.                                                 *)

ConstantValue(f, j, run, known) ==
  IF j = 0 \/ Node(f, j).op # "assign" THEN BOOLEAN
  ELSE Values(f, j, Node(f, j).value, run, known)

ConstantTold(f, j, v, told) ==
  IF j = 0 \/ Node(f, j).op # "assign" THEN "unknown"
  ELSE GuardTruth(f, j, Node(f, j).value, v, told)

ConstantsBy(known, f, run) ==
  known = [j \in 0..Len(f.lines) |-> ConstantValue(f, j, run, [k \in 0..j - 1 |-> known[k]])]

ToldBy(told, f, v) ==
  told = [j \in 0..Len(f.lines) |-> ConstantTold(f, j, v, [k \in 0..j - 1 |-> told[k]])]

Tables(n, S) == UNION {[0..k - 1 -> S] : k \in 0..n}

LEMMA PairIs ==
  ASSUME NEW n, NEW S, NEW j \in 0..n, NEW h \in [0..j - 1 -> S]
  PROVE  <<j, h>> \in (0..n) \X Tables(n, S)
  BY DEF Tables

LEMMA ConstantsDefined ==
  ASSUME NEW f \in Files, NEW v \in Targets, NEW run \in Running(v)
  PROVE  \E known : ConstantsBy(known, f, run)
<1> DEFINE F(j, h) == ConstantValue(f, j, run, h)
           n == Len(f.lines)
<1>1. n \in Nat
  BY FileIs
<1>2. ASSUME NEW j \in 0..n, NEW h \in [0..j - 1 -> Outcomes] PROVE F(j, h) \in Outcomes
  <2>1. CASE j = 0 \/ Node(f, j).op # "assign"
    BY <2>1, OutcomesAre DEF ConstantValue
  <2>2. CASE ~(j = 0 \/ Node(f, j).op # "assign")
    <3>1. j \in 1..Len(f.lines) /\ Node(f, j).op = "assign"
      BY <1>1, <2>2
    <3>2. Node(f, j).value \in GuardForm
      BY <3>1, NodeIs
    <3>3. Values(f, j, Node(f, j).value, run, h) \in Outcomes
      BY <3>1, <3>2, ValuesIn
    <3>4. QED
      BY <2>2, <3>3 DEF ConstantValue
  <2>3. QED
    BY <2>1, <2>2
<1> DEFINE step == [a \in (0..n) \X Tables(n, Outcomes) |-> F(a[1], a[2])]
<1> HIDE DEF F
<1>6. ASSUME NEW j \in 0..n, NEW h \in [0..j - 1 -> Outcomes] PROVE step[<<j, h>>] = F(j, h)
  <2>1. <<j, h>> \in (0..n) \X Tables(n, Outcomes)
    BY PairIs
  <2>2. QED
    BY <2>1
<1> HIDE DEF step
<1>3. PICK g \in [0..n -> Outcomes] : \A j \in 0..n : g[j] = F(j, [k \in 0..j - 1 |-> g[k]])
  <2>1. \A j \in 0..n : \A h \in [0..j - 1 -> Outcomes] : step[<<j, h>>] \in Outcomes
    BY <1>2, <1>6
  <2> HIDE DEF n
  <2>2. PICK g \in [0..n -> Outcomes] : Follows(g, n, step)
    BY <1>1, <2>1, HistoryExists
  <2>3. ASSUME NEW j \in 0..n PROVE g[j] = F(j, [k \in 0..j - 1 |-> g[k]])
    <3> DEFINE h == [k \in 0..j - 1 |-> g[k]]
    <3>1. g[j] = step[<<j, h>>] /\ h \in [0..j - 1 -> Outcomes]
      <4>1. g[j] = step[<<j, h>>]
        BY <2>2 DEF Follows, Earlier
      <4>2. \A k \in 0..j - 1 : g[k] \in Outcomes
        BY <1>1
      <4>3. h \in [0..j - 1 -> Outcomes]
        BY <4>2
      <4>4. QED
        BY <4>1, <4>3
    <3> HIDE DEF h
    <3>2. g[j] = F(j, h)
      BY <1>6, <3>1
    <3>3. QED
      BY <3>2 DEF h
  <2>4. QED
    BY <2>3
<1>4. g = [j \in 0..n |-> F(j, [k \in 0..j - 1 |-> g[k]])]
  BY <1>3
<1>5. ConstantsBy(g, f, run)
  BY <1>4, Zenon DEF ConstantsBy, F
<1>7. QED
  BY <1>5

LEMMA ToldDefined ==
  ASSUME NEW f \in Files, NEW v \in Targets
  PROVE  \E told : ToldBy(told, f, v)
<1> DEFINE F(j, h) == IF j = 0 \/ h[0] = "unknown" THEN ConstantTold(f, j, v, h) ELSE "unknown"
           n == Len(f.lines)
<1>1. n \in Nat
  BY FileIs
<1>2. ASSUME NEW j \in 0..n, NEW h \in [0..j - 1 -> TruthValues] PROVE F(j, h) \in TruthValues
  <2>0. "unknown" \in TruthValues
    BY DEF TruthValues
  <2>1. CASE j = 0 \/ Node(f, j).op # "assign"
    BY <2>0, <2>1 DEF ConstantTold
  <2>2. CASE ~(j = 0 \/ Node(f, j).op # "assign")
    <3>1. j \in 1..Len(f.lines) /\ Node(f, j).op = "assign"
      BY <1>1, <2>2
    <3>2. Node(f, j).value \in GuardForm
      BY <3>1, NodeIs
    <3>3. h[0] = "unknown" => GuardTruth(f, j, Node(f, j).value, v, h) \in TruthValues
      BY <3>1, <3>2, TruthIn
    <3>4. QED
      BY <2>0, <2>2, <3>3 DEF ConstantTold
  <2>3. QED
    BY <2>1, <2>2
<1> DEFINE step == [a \in (0..n) \X Tables(n, TruthValues) |-> F(a[1], a[2])]
<1> HIDE DEF F
<1>9. ASSUME NEW j \in 0..n, NEW h \in [0..j - 1 -> TruthValues] PROVE step[<<j, h>>] = F(j, h)
  <2>1. <<j, h>> \in (0..n) \X Tables(n, TruthValues)
    BY PairIs
  <2>2. QED
    BY <2>1
<1> HIDE DEF step
<1>3. PICK g \in [0..n -> TruthValues] : \A j \in 0..n : g[j] = F(j, [k \in 0..j - 1 |-> g[k]])
  <2>1. \A j \in 0..n : \A h \in [0..j - 1 -> TruthValues] : step[<<j, h>>] \in TruthValues
    BY <1>2, <1>9
  <2> HIDE DEF n
  <2>2. PICK g \in [0..n -> TruthValues] : Follows(g, n, step)
    BY <1>1, <2>1, HistoryExists
  <2>3. ASSUME NEW j \in 0..n PROVE g[j] = F(j, [k \in 0..j - 1 |-> g[k]])
    <3> DEFINE h == [k \in 0..j - 1 |-> g[k]]
    <3>1. g[j] = step[<<j, h>>] /\ h \in [0..j - 1 -> TruthValues]
      <4>1. g[j] = step[<<j, h>>]
        BY <2>2 DEF Follows, Earlier
      <4>2. \A k \in 0..j - 1 : g[k] \in TruthValues
        BY <1>1
      <4>3. h \in [0..j - 1 -> TruthValues]
        BY <4>2
      <4>4. QED
        BY <4>1, <4>3
    <3> HIDE DEF h
    <3>2. g[j] = F(j, h)
      BY <1>9, <3>1
    <3>3. QED
      BY <3>2 DEF h
  <2>4. QED
    BY <2>3
<1>4. g[0] = "unknown"
  <2>1. 0 \in 0..n
    BY <1>1
  <2>2. g[0] = F(0, [k \in 0..0 - 1 |-> g[k]])
    BY <1>3, <2>1
  <2>3. QED
    BY <2>2, Zenon DEF ConstantTold, F
<1> USE DEF F
<1>5. ASSUME NEW j \in 0..n PROVE g[j] = ConstantTold(f, j, v, [k \in 0..j - 1 |-> g[k]])
  <2> DEFINE h == [k \in 0..j - 1 |-> g[k]]
  <2>1. j = 0 \/ h[0] = "unknown"
    BY <1>1, <1>4
  <2>2. g[j] = F(j, h)
    BY <1>3
  <2> HIDE DEF h
  <2>3. F(j, h) = ConstantTold(f, j, v, h)
    BY <2>1
  <2>4. QED
    BY <2>2, <2>3 DEF h
<1>6. g = [j \in 0..n |-> ConstantTold(f, j, v, [k \in 0..j - 1 |-> g[k]])]
  BY <1>3, <1>5
<1>7. ToldBy(g, f, v)
  BY <1>6, Zenon DEF ToldBy
<1>8. QED
  BY <1>7

LEMMA ConstantsAre ==
  ASSUME NEW f \in Files, NEW v \in Targets, NEW run \in Running(v)
  PROVE  ConstantsBy(Constants(f, run), f, run) /\ ToldBy(ConstantTruth(f, v), f, v)
<1> DEFINE g == CHOOSE known : ConstantsBy(known, f, run)
           t == CHOOSE told : ToldBy(told, f, v)
<1>1. ConstantsBy(g, f, run)
  <2>1. \E known : ConstantsBy(known, f, run)
    BY ConstantsDefined
  <2>2. QED
    BY <2>1, Zenon
<1>2. ToldBy(t, f, v)
  <2>1. \E told : ToldBy(told, f, v)
    BY ToldDefined
  <2>2. QED
    BY <2>1, Zenon
<1>3. Constants(f, run) = g
  BY DEF Constants, ConstantsBy, ConstantValue
<1>4. ConstantTruth(f, v) = t
  BY DEF ConstantTruth, ToldBy, ConstantTold
<1>5. QED
  BY <1>1, <1>2, <1>3, <1>4, Zenon

\* _guard_alias_value: what is told of a constant fits what it may be.
LEMMA ConstantsFit ==
  ASSUME NEW f \in Files, NEW v \in Targets, NEW run \in Running(v)
  PROVE  /\ DOMAIN Constants(f, run) = 0..Len(f.lines)
         /\ \A j \in 0..Len(f.lines) : Fit(ConstantTruth(f, v)[j], Constants(f, run)[j])
         /\ ConstantTruth(f, v)[0] = "unknown"
<1> DEFINE g == Constants(f, run)
           t == ConstantTruth(f, v)
           n == Len(f.lines)
           Bad == {j \in 0..n : ~Fit(t[j], g[j])}
<1>1. ConstantsBy(g, f, run) /\ ToldBy(t, f, v) /\ n \in Nat
  BY ConstantsAre, FileIs
<1>2. DOMAIN g = 0..n
  BY <1>1 DEF ConstantsBy
<1>3. ASSUME NEW j \in 0..n
      PROVE  /\ g[j] = ConstantValue(f, j, run, [k \in 0..j - 1 |-> g[k]])
             /\ t[j] = ConstantTold(f, j, v, [k \in 0..j - 1 |-> t[k]])
  <2>1. g[j] = ConstantValue(f, j, run, [k \in 0..j - 1 |-> g[k]])
    <3> HIDE DEF g
    <3> QED
      BY <1>1 DEF ConstantsBy
  <2>2. t[j] = ConstantTold(f, j, v, [k \in 0..j - 1 |-> t[k]])
    <3> HIDE DEF t
    <3> QED
      BY <1>1 DEF ToldBy
  <2>3. QED
    BY <2>1, <2>2
<1>4. t[0] = "unknown"
  <2>1. 0 \in 0..n
    BY <1>1
  <2>2. t[0] = ConstantTold(f, 0, v, [k \in 0..0 - 1 |-> t[k]])
    BY <1>3, <2>1
  <2>3. QED
    BY <2>2, Zenon DEF ConstantTold
<1> HIDE DEF g, t
<1>5. ASSUME NEW j \in 0..n, \A k \in 0..j - 1 : Fit(t[k], g[k]) PROVE Fit(t[j], g[j])
  <2> DEFINE known == [k \in 0..j - 1 |-> g[k]]
             told == [k \in 0..j - 1 |-> t[k]]
  <2>1. CASE j = 0 \/ Node(f, j).op # "assign"
    <3>1. t[j] = "unknown" /\ g[j] = BOOLEAN
      BY <1>3, <2>1 DEF ConstantValue, ConstantTold
    <3>2. QED
      BY <3>1, OutcomesAre
  <2>2. CASE ~(j = 0 \/ Node(f, j).op # "assign")
    <3>1. j \in 1..Len(f.lines) /\ Node(f, j).op = "assign" /\ 0 \in 0..j - 1
      BY <1>1, <2>2
    <3>2. Node(f, j).value \in GuardForm
      BY <3>1, NodeIs
    <3>3. g[j] = Values(f, j, Node(f, j).value, run, known)
      BY <1>3, <2>2 DEF ConstantValue
    <3>4. t[j] = GuardTruth(f, j, Node(f, j).value, v, told)
      BY <1>3, <2>2 DEF ConstantTold
    <3>5. /\ DOMAIN known = 0..j - 1 /\ told[0] = "unknown"
          /\ \A k \in 0..j - 1 : known[k] = g[k] /\ told[k] = t[k]
      BY <1>4, <3>1
    <3> HIDE DEF known, told
    <3>6. KnownIs(known)
      BY <1>5, <3>5 DEF KnownIs, Fit
    <3>7. FitKnown(j, told, known)
      BY <1>5, <3>5, <3>6 DEF FitKnown
    <3>8. Fit(GuardTruth(f, j, Node(f, j).value, v, told), Values(f, j, Node(f, j).value, run, known))
      BY <3>1, <3>2, <3>7, GuardFits
    <3>9. QED
      BY <3>3, <3>4, <3>8
  <2>3. QED
    BY <2>1, <2>2
<1>6. Bad = {}
  <2> SUFFICES ASSUME Bad # {} PROVE FALSE
    OBVIOUS
  <2>1. Bad \in SUBSET Nat
    OBVIOUS
  <2>2. PICK j \in Bad : \A k \in Bad : j <= k
    <3> HIDE DEF Bad
    <3> QED
      BY <2>1, LeastElement
  <2>3. \A k \in 0..j - 1 : Fit(t[k], g[k])
    BY <1>1, <2>2
  <2>4. QED
    BY <1>5, <2>2, <2>3
<1>7. QED
  BY <1>2, <1>4, <1>6 DEF g, t

LEMMA KnownFits ==
  ASSUME NEW f \in Files, NEW i \in 1..Len(f.lines), NEW v \in Targets, NEW run \in Running(v)
  PROVE  FitKnown(i, ConstantTruth(f, v), Constants(f, run))
<1>1. Len(f.lines) \in Nat
  BY FileIs
<1>2. 0..i - 1 \subseteq 0..Len(f.lines)
  BY <1>1
<1>3. KnownIs(Constants(f, run))
  BY ConstantsFit DEF KnownIs, Fit
<1>4. QED
  BY <1>2, <1>3, ConstantsFit DEF FitKnown

\* evaluate_import_guard, through the constants of the module.
LEMMA ImportFits ==
  ASSUME NEW f \in Files, NEW i \in 1..Len(f.lines), NEW guard \in GuardForm,
         NEW v \in Targets, NEW run \in Running(v)
  PROVE  Fit(ImportTruth(f, i, guard, v), TestValues(f, i, guard, run))
  BY KnownFits, GuardFits DEF ImportTruth, TestValues

-----------------------------------------------------------------------------
(* The guards as the other visits see them.                                 *)

LEMMA PlainIs ==
  ASSUME NEW guard \in GuardForm
  PROVE  /\ Len(Plain(guard)) = Len(guard) /\ Parsed(Plain(guard))
         /\ \A n \in 1..Len(guard) :
              IF guard[n].kind \in {"name", "via", "info"} THEN Plain(guard)[n] = [kind |-> "other"]
              ELSE Plain(guard)[n] = guard[n]
<1> DEFINE g == Plain(guard)
<1>1. /\ g = [n \in 1..Len(guard) |-> IF guard[n].kind \in {"name", "via", "info"}
                                      THEN [kind |-> "other"] ELSE guard[n]]
      /\ Len(guard) \in Nat \ {0}
  BY TermIs DEF Plain, OperandsFirst
<1>2. Len(g) = Len(guard)
  BY <1>1
<1>3. ASSUME NEW n \in 1..Len(guard)
      PROVE  IF guard[n].kind \in {"name", "via", "info"} THEN g[n] = [kind |-> "other"]
             ELSE g[n] = guard[n]
  BY <1>1
<1> HIDE DEF g
<1>4. ASSUME NEW n \in 1..Len(guard)
      PROVE  /\ g[n].kind \in {"compare", "typing", "other", "not", "and", "or"}
             /\ g[n].kind \in {"not", "and", "or"} => g[n].arg \in 1..n - 1
             /\ g[n].kind \in {"and", "or"} => g[n].arg2 \in 1..n - 1
  <2>1. CASE guard[n].kind \in {"name", "via", "info"}
    BY <1>3, <2>1
  <2>2. CASE guard[n].kind \notin {"name", "via", "info"}
    BY <1>3, <2>2, TermIs DEF OperandsFirst
  <2>3. QED
    BY <2>1, <2>2
<1>5. Parsed(g)
  BY <1>1, <1>2, <1>4 DEF Parsed, OperandsFirst
<1>6. QED
  BY <1>2, <1>3, <1>5 DEF g

LEMMA ComparisonIn == ASSUME NEW e, NEW v PROVE Comparison(e, v) \in TruthValues
  BY DEF Comparison, Truth, TruthValues

\* evaluate_guard: what it decides of a guard is what every run makes of it.
LEMMA PlainFits ==
  ASSUME NEW f \in Files, NEW i \in 1..Len(f.lines), NEW guard \in GuardForm,
         NEW v \in Targets, NEW run \in Running(v)
  PROVE  Fit(Evaluate(Plain(guard), v), TestValues(f, i, guard, run))
<1> DEFINE g == Plain(guard)
           known == Constants(f, run)
<1>1. RunIs(run) /\ KnownIs(known)
  BY RunningIs, KnownFits DEF FitKnown
<1>2. PICK value : /\ ValuedBy(value, f, i, guard, run, known)
                   /\ TestValues(f, i, guard, run) = value[Len(guard)]
  BY <1>1, ValuesAre DEF TestValues
<1>3. PICK truth : EvaluatedBy(truth, g, v) /\ Evaluate(g, v) = truth[Len(g)]
  BY PlainIs, EvaluateIs
<1>4. ASSUME NEW n \in 1..Len(guard)
      PROVE  /\ truth[n] = TruthOf(g[n], truth, v)
             /\ value[n] = TermValues(f, i, guard[n], value, run, known)
  <2>1. truth[n] = TruthOf(g[n], truth, v)
    BY <1>3, PlainIs DEF EvaluatedBy
  <2>2. value[n] = TermValues(f, i, guard[n], value, run, known)
    BY <1>2 DEF ValuedBy
  <2>3. QED
    BY <2>1, <2>2
<1> HIDE DEF g
<1>5. ASSUME NEW n \in 1..Len(guard), guard[n].kind \in LeafKinds
      PROVE  Fit(truth[n], value[n])
  <2>1. TermValues(f, i, guard[n], value, run, known) \in Outcomes
    BY <1>1, <1>5, LeafValue, Zenon
  <2>2. CASE guard[n].kind = "compare"
    <3>1. g[n] = guard[n] /\ guard[n] \in Comparisons
      BY <2>2, PlainIs, TermIs DEF g
    <3>2. truth[n] = Comparison(guard[n], v)
      BY <1>4, <2>2, <3>1 DEF TruthOf
    <3>10. TermValues(f, i, guard[n], value, run, known) = {Ordered(guard[n], Shown(guard[n].shape, run))}
      BY <2>2 DEF TermValues
    <3>3. value[n] = {Ordered(guard[n], Shown(guard[n].shape, run))}
      BY <1>4, <3>10, Zenon
    <3>4. Comparison(guard[n], v) \in TruthValues
      BY ComparisonIn
    <3>5. Agrees(Comparison(guard[n], v), Ordered(guard[n], Shown(guard[n].shape, run)))
      BY <3>1, RunningIs, ComparisonSound
    <3>6. value[n] \in Outcomes
      BY <1>4, <2>1
    <3>9. {Ordered(guard[n], Shown(guard[n].shape, run))} \in Outcomes
      BY <3>3, <3>6
    <3>7. Fit(Comparison(guard[n], v), {Ordered(guard[n], Shown(guard[n].shape, run))})
      BY <3>4, <3>5, <3>9 DEF Fit
    <3>8. QED
      BY <3>2, <3>3, <3>7
  <2>3. CASE guard[n].kind # "compare"
    <3>1. g[n].kind \in {"typing", "other"}
      BY <1>5, <2>3, PlainIs DEF g, LeafKinds
    <3>2. truth[n] = "unknown"
      BY <1>4, <3>1 DEF TruthOf
    <3>3. QED
      BY <1>4, <2>1, <3>2, OutcomesAre
  <2>4. QED
    BY <2>2, <2>3
<1>6. ASSUME NEW n \in 1..Len(guard)
      PROVE  /\ guard[n].kind = "not" => /\ truth[n] = TruthNot(truth[guard[n].arg])
                                         /\ value[n] = NotOf(value[guard[n].arg])
             /\ guard[n].kind = "and" =>
                  /\ truth[n] = TruthAnd(truth[guard[n].arg], truth[guard[n].arg2])
                  /\ value[n] = AndOf(value[guard[n].arg], value[guard[n].arg2])
             /\ guard[n].kind = "or" =>
                  /\ truth[n] = TruthOr(truth[guard[n].arg], truth[guard[n].arg2])
                  /\ value[n] = OrOf(value[guard[n].arg], value[guard[n].arg2])
  <2>1. guard[n].kind \in {"not", "and", "or"} => g[n] = guard[n]
    BY PlainIs DEF g
  <2>2. /\ guard[n].kind = "not" => truth[n] = TruthNot(truth[guard[n].arg])
        /\ guard[n].kind = "and" => truth[n] = TruthAnd(truth[guard[n].arg], truth[guard[n].arg2])
        /\ guard[n].kind = "or" => truth[n] = TruthOr(truth[guard[n].arg], truth[guard[n].arg2])
    BY <1>4, <2>1 DEF TruthOf
  <2>3. QED
    BY <1>4, <2>2, OperandValues
<1>7. OperandsFirst(guard) /\ \A n \in 1..Len(guard) : guard[n].kind \in LeafKinds \cup {"not", "and", "or"}
  BY TermIs DEF LeafKinds
<1>8. Fit(truth[Len(guard)], value[Len(guard)])
  BY <1>5, <1>6, <1>7, TablesFit
<1>9. Len(g) = Len(guard)
  BY PlainIs DEF g
<1>10. QED
  BY <1>2, <1>3, <1>8, <1>9 DEF g

\* A run that takes a branch is one of a program, not of a type checker.
LEMMA RuntimeKept ==
  ASSUME NEW f \in Files, NEW i \in 1..Len(f.lines), NEW guard \in GuardForm,
         NEW v \in Targets, NEW run \in Running(v), NEW branch \in BOOLEAN,
         branch \in TestValues(f, i, guard, run), NEW state, "runtime" \in state.contexts
  PROVE  "runtime" \in Contexts(state, Plain(guard), branch)
<1> DEFINE g == Plain(guard)
           known == Constants(f, run)
           L == Len(guard)
<1>1. RunIs(run) /\ KnownIs(known) /\ run.typing = FALSE
  BY RunningIs, KnownFits DEF FitKnown
<1>2. PICK value : /\ ValuedBy(value, f, i, guard, run, known)
                   /\ TestValues(f, i, guard, run) = value[L]
  BY <1>1, ValuesAre DEF TestValues
<1>3. ASSUME NEW n \in 1..L PROVE value[n] = TermValues(f, i, guard[n], value, run, known)
  BY <1>2 DEF ValuedBy
<1>4. L \in 1..L /\ Len(g) = L
  BY TermIs, PlainIs
<1>5. ASSUME NEW n \in 1..L, guard[n].kind = "typing" PROVE value[n] = {FALSE}
  <2>4. TermValues(f, i, guard[n], value, run, known) = {run.typing}
    BY <1>5 DEF TermValues
  <2>1. value[n] = {run.typing}
    BY <1>3, <2>4, Zenon
  <2>2. run.typing = FALSE
    BY <1>1
  <2>3. QED
    BY <2>1, <2>2, Zenon
<1>6. CASE Polarity(g) = "positive"
  <2>1. g[L].kind = "typing"
    BY <1>4, <1>6 DEF Polarity
  <2>2. guard[L].kind = "typing"
    BY <1>4, <2>1, PlainIs
  <2>5. value[L] = {FALSE}
    BY <1>4, <1>5, <2>2
  <2>6. branch \in {FALSE}
    BY <1>2, <2>5, Zenon
  <2>3. branch = FALSE
    BY <2>6, Zenon
  <2>4. QED
    BY <1>6, <2>3 DEF Contexts
<1>7. CASE Polarity(g) = "negative"
  <2>1. g[L].kind = "not" /\ g[g[L].arg].kind = "typing"
    BY <1>4, <1>7 DEF Polarity
  <2>2. g[L] = guard[L] /\ guard[L].kind = "not"
    BY <1>4, <2>1, PlainIs
  <2>3. guard[L].arg \in 1..L
    BY <1>4, <2>2, TermIs DEF OperandsFirst
  <2>4. guard[guard[L].arg].kind = "typing"
    BY <2>1, <2>2, <2>3, PlainIs
  <2>5. value[L] = NotOf(value[guard[L].arg])
    BY <1>3, <1>4, <2>2, OperandValues
  <2>6. NotOf({FALSE}) = {TRUE}
    BY Zenon DEF NotOf
  <2>7. value[L] = {TRUE}
    BY <1>5, <2>3, <2>4, <2>5, <2>6
  <2>8. branch \in {TRUE}
    BY <1>2, <2>7, Zenon
  <2>9. branch = TRUE
    BY <2>8, Zenon
  <2>10. QED
    BY <1>7, <2>9 DEF Contexts
<1>8. CASE Polarity(g) = "none"
  BY <1>8 DEF Contexts
<1>9. QED
  BY <1>6, <1>7, <1>8 DEF Polarity

\* A run passes the k-th compound statement around a construct.
Passes(f, i, k, run, v) ==
  /\ Within(f, i)[k].kind = "if" =>
       (Within(f, i)[k].branch = "body") \in TestValues(f, i, Within(f, i)[k].test, run)
  /\ Within(f, i)[k].kind = "try" /\ Within(f, i)[k].branch = "handler" => v \notin Within(f, i)[k].skips

StateForm == [versions : SUBSET Targets, contexts : SUBSET {"runtime", "typing"}]

LEMMA EnteredIs ==
  ASSUME NEW f \in Files, NEW i \in 1..Len(f.lines), NEW k \in 1..Len(Within(f, i)),
         NEW state \in StateForm
  PROVE  /\ Entered(state, Within(f, i)[k]) \in StateForm
         /\ Entered(state, Within(f, i)[k]).versions \subseteq state.versions
<1> DEFINE frame == Within(f, i)[k]
<1>1. CASE frame.kind = "if"
  <2>1. Entered(state, frame) = Branch(state, Plain(frame.test), frame.branch = "body")
    BY <1>1 DEF Entered
  <2>2. QED
    BY <2>1 DEF Branch, Contexts, StateForm
<1>2. CASE frame.kind = "def"
  BY <1>2 DEF Entered
<1>3. CASE frame.kind = "try"
  BY <1>3 DEF Entered, StateForm
<1>4. QED
  BY <1>1, <1>2, <1>3, FrameIs

LEMMA EnteredKeeps ==
  ASSUME NEW f \in Files, NEW i \in 1..Len(f.lines), NEW k \in 1..Len(Within(f, i)),
         NEW v \in Targets, NEW run \in Running(v), Passes(f, i, k, run, v),
         NEW state \in StateForm, v \in state.versions, "runtime" \in state.contexts
  PROVE  /\ v \in Entered(state, Within(f, i)[k]).versions
         /\ "runtime" \in Entered(state, Within(f, i)[k]).contexts
<1> DEFINE frame == Within(f, i)[k]
<1>1. CASE frame.kind = "if"
  <2> DEFINE branch == frame.branch = "body"
  <2>1. frame.test \in GuardForm /\ branch \in BOOLEAN
    BY <1>1, FrameIs
  <2>2. branch \in TestValues(f, i, frame.test, run)
    BY <1>1 DEF Passes
  <2>3. Entered(state, frame) = Branch(state, Plain(frame.test), branch)
    BY <1>1 DEF Entered
  <2> HIDE DEF branch
  <2>4. "runtime" \in Contexts(state, Plain(frame.test), branch)
    BY <2>1, <2>2, RuntimeKept
  <2>5. Evaluate(Plain(frame.test), v) # Truth(~branch)
    <3>1. Fit(Evaluate(Plain(frame.test), v), TestValues(f, i, frame.test, run))
      BY <2>1, PlainFits
    <3>2. Agrees(Evaluate(Plain(frame.test), v), branch)
      BY <2>2, <3>1 DEF Fit
    <3>3. QED
      BY <2>1, <3>2 DEF Agrees, Truth
  <2>6. v \in Branch(state, Plain(frame.test), branch).versions
    BY <2>5 DEF Branch
  <2>7. "runtime" \in Branch(state, Plain(frame.test), branch).contexts
    BY <2>4 DEF Branch
  <2>8. QED
    BY <2>3, <2>6, <2>7
<1>2. CASE frame.kind = "def"
  BY <1>2 DEF Entered
<1>3. CASE frame.kind = "try"
  <2>1. CASE frame.branch = "handler"
    <3>1. Entered(state, frame) = [state EXCEPT !.versions = @ \ frame.skips] /\ v \notin frame.skips
      BY <1>3, <2>1 DEF Entered, Passes
    <3>2. QED
      BY <3>1 DEF StateForm
  <2>2. CASE frame.branch # "handler"
    BY <1>3, <2>2 DEF Entered
  <2>3. QED
    BY <2>1, <2>2
<1>4. QED
  BY <1>1, <1>2, <1>3, FrameIs

-----------------------------------------------------------------------------
(* The lexical states of the traversal: a run that gets through the first   *)
(* compound statements around a construct is in the state they leave.       *)

GetsTo(k, run, v) == \A j \in 1..k - 1 : Passes(file, at, j, run, v)

KeptAt(k) ==
  \A v \in Targets : \A run \in Running(v) :
    GetsTo(k, run, v) => v \in reach[k].versions /\ "runtime" \in reach[k].contexts

LexicalInv ==
  /\ reach \in Seq(StateForm) /\ Len(reach) = Len(ancestors) + 1
  /\ ~file.stub => \A k \in 1..Len(reach) : KeptAt(k)

LEMMA LexicalInit == VisitorInit => LexicalInv
<1> SUFFICES ASSUME VisitorInit PROVE LexicalInv
  OBVIOUS
<1> DEFINE state == [versions |-> Targets,
                     contexts |-> IF file.stub THEN {"typing"} ELSE {"runtime", "typing"}]
<1>1. reach = <<state>> /\ ancestors = <<>>
  BY DEF VisitorInit
<1>2. state \in StateForm
  BY DEF StateForm
<1>3. /\ reach \in Seq(StateForm) /\ Len(reach) = 1 /\ reach[1] = state /\ Len(ancestors) = 0
      /\ 1..Len(reach) = {1}
  <2> HIDE DEF state
  <2> QED
    BY <1>1, <1>2, EmptySeq
<1>4. ~file.stub => KeptAt(1)
  <2>1. ~file.stub => state.versions = Targets /\ "runtime" \in state.contexts
    OBVIOUS
  <2>2. QED
    BY <1>3, <2>1 DEF KeptAt
<1>5. QED
  BY <1>3, <1>4 DEF LexicalInv

\* Within one statement, what is kept of the states is kept.
LEMMA KeptStays ==
  ASSUME NEW k, KeptAt(k), reach'[k] = reach[k], file' = file, at' = at
  PROVE  KeptAt(k)'
  BY DEF KeptAt, GetsTo

LEMMA LexicalNext ==
  ASSUME PlaceInv, LexicalInv, [VisitorNext]_visitorVars PROVE LexicalInv'
<1>0. ancestors \in Seq(CompoundForm) /\ Len(ancestors) \in Nat /\ Len(reach) \in Nat
  BY LenProperties DEF PlaceInv, LexicalInv
<1>1. CASE VisitCompound
  <2> DEFINE k == Len(ancestors) + 1
             frame == Frames[k]
  <2>11. PICK n \in Nat : n = Len(reach)
    BY <1>0
  <2>1. /\ Inside /\ down /\ Len(ancestors) < Depth(at)
        /\ ancestors' = Append(ancestors, frame) /\ reach' = Append(reach, Entered(State, frame))
        /\ file' = file /\ at' = at
    BY <1>1 DEF VisitCompound
  <2>2. at \in 1..Len(file.lines) /\ file \in Files
    BY <2>1, InsideIs DEF PlaceInv
  <2>3. k \in 1..Len(Frames) /\ Frames = Within(file, at)
    BY <1>0, <2>1, DepthIs DEF Frames
  <2>4. n = k /\ reach \in Seq(StateForm) /\ State = reach[n] /\ reach[n] \in StateForm
    <3>1. n = k /\ reach \in Seq(StateForm) /\ n \in 1..Len(reach)
      BY <1>0, <2>11 DEF LexicalInv
    <3>2. QED
      BY <2>11, <3>1, ElementOfSeq DEF State, Last
  <2>5. /\ Entered(State, frame) \in StateForm
        /\ Len(ancestors') = k /\ frame \in CompoundForm
    <3>1. frame \in CompoundForm
      BY <2>2, <2>3, LineIs
    <3>2. Len(ancestors') = k
      BY <1>0, <2>1, <3>1, AppendProperties
    <3>3. QED
      BY <2>2, <2>3, <2>4, <3>1, <3>2, EnteredIs
  <2>6. /\ reach' \in Seq(StateForm) /\ Len(reach') = n + 1
        /\ reach'[n + 1] = Entered(State, frame) /\ \A j \in 1..n : reach'[j] = reach[j]
    BY <2>1, <2>4, <2>5, <2>11, AppendProperties
  <2>7. ASSUME ~file.stub, NEW j \in 1..n PROVE KeptAt(j)'
    <3>1. KeptAt(j)
      BY <2>7, <2>11 DEF LexicalInv
    <3>2. QED
      BY <2>1, <2>6, <3>1, KeptStays
  <2>8. ASSUME ~file.stub PROVE KeptAt(n + 1)'
    <3> SUFFICES ASSUME NEW v \in Targets, NEW run \in Running(v), GetsTo(n + 1, run, v)'
                 PROVE  v \in reach'[n + 1].versions /\ "runtime" \in reach'[n + 1].contexts
      BY DEF KeptAt
    <3>1. \A j \in 1..n : Passes(file, at, j, run, v)
      BY <1>0, <2>1 DEF GetsTo
    <3>2. GetsTo(n, run, v) /\ Passes(file, at, n, run, v)
      BY <1>0, <2>4, <3>1 DEF GetsTo
    <3>3. v \in State.versions /\ "runtime" \in State.contexts
      BY <1>0, <2>4, <2>8, <2>11, <3>2 DEF LexicalInv, KeptAt
    <3> HIDE DEF k
    <3>4. Passes(file, at, k, run, v) /\ frame = Within(file, at)[k]
      BY <2>3, <2>4, <3>2
    <3>5. State \in StateForm /\ k \in 1..Len(Within(file, at))
      BY <2>3, <2>4
    <3>6. v \in Entered(State, frame).versions /\ "runtime" \in Entered(State, frame).contexts
      <4> HIDE DEF frame
      <4> QED
        BY <2>2, <3>3, <3>4, <3>5, EnteredKeeps
    <3>7. QED
      BY <2>6, <3>6
  <2>9. ASSUME ~file.stub, NEW j \in 1..n + 1 PROVE KeptAt(j)'
    <3>1. j \in 1..n \/ j = n + 1
      BY <1>0, <2>9
    <3>2. QED
      BY <2>7, <2>8, <2>9, <3>1
  <2>10. QED
    BY <2>1, <2>4, <2>5, <2>6, <2>9, <2>11 DEF LexicalInv
<1>2. CASE LeaveCompound
  <2>1. /\ ~down /\ ancestors # <<>> /\ ancestors' = SubSeq(ancestors, 1, Len(ancestors) - 1)
        /\ reach' = SubSeq(reach, 1, Len(reach) - 1) /\ UNCHANGED <<file, at, down>>
    BY <1>2 DEF LeaveCompound
  <2>2. Len(ancestors) # 0 /\ Len(ancestors') = Len(ancestors) - 1
    BY <1>0, <2>1, EmptySeq, AllButLast
  <2>3. reach # <<>> /\ Len(reach) = Len(ancestors) + 1 /\ reach \in Seq(StateForm)
    BY <1>0 DEF LexicalInv
  <2>4. /\ reach' \in Seq(StateForm) /\ Len(reach') = Len(reach) - 1
        /\ \A k \in 1..Len(reach) - 1 : reach'[k] = reach[k]
    BY <2>1, <2>3, AllButLast
  <2>5. ASSUME ~file.stub, NEW k \in 1..Len(reach) - 1 PROVE KeptAt(k)'
    <3>1. KeptAt(k)
      BY <1>0, <2>5 DEF LexicalInv
    <3>2. QED
      BY <2>1, <2>4, <3>1, KeptStays
  <2>6. QED
    BY <2>1, <2>2, <2>3, <2>4, <2>5 DEF LexicalInv
<1>3. CASE NextStatement
  <2>1. ancestors = <<>> /\ UNCHANGED <<file, ancestors, reach>>
    BY <1>3 DEF NextStatement
  <2>2. Len(ancestors) = 0 /\ 1..Len(reach) = {1} /\ Len(reach) = 1
    BY <2>1, EmptySeq DEF LexicalInv
  <2>3. ASSUME ~file.stub PROVE KeptAt(1)'
    <3>1. KeptAt(1)
      BY <2>2, <2>3 DEF LexicalInv
    <3>2. \A run, v : GetsTo(1, run, v)
      BY DEF GetsTo
    <3>3. QED
      BY <2>1, <3>1, <3>2 DEF KeptAt
  <2>4. QED
    BY <2>1, <2>2, <2>3 DEF LexicalInv
<1>4. CASE VisitNode \/ Suppress \/ UNCHANGED visitorVars
  <2>1. UNCHANGED <<file, at, ancestors, reach>>
    BY <1>4 DEF VisitNode, Suppress, visitorVars
  <2>2. \A k : KeptAt(k) => KeptAt(k)'
    BY <2>1, KeptStays
  <2>3. QED
    BY <2>1, <2>2 DEF LexicalInv
<1>5. QED
  BY <1>1, <1>2, <1>3, <1>4 DEF VisitorNext

\* A run that reaches a construct is in the state its visit reads.
LEMMA StateKept ==
  ASSUME PlaceInv, LexicalInv, Inside, Len(ancestors) = Depth(at), ~file.stub,
         NEW v \in Targets, MayRun(file, at, v)
  PROVE  v \in State.versions /\ "runtime" \in State.contexts
<1>1. PICK run \in Running(v) : \A k \in 1..Len(Frames) : Passes(file, at, k, run, v)
  BY DEF MayRun, Passes, Frames
<1>2. Depth(at) \in Nat /\ Depth(at) <= Len(Frames) /\ Len(Frames) \in Nat
  BY DepthIs
<1> DEFINE n == Len(reach)
<1>3. n = Depth(at) + 1 /\ n \in 1..Len(reach) /\ State = reach[n]
  BY <1>2 DEF LexicalInv, State, Last
<1>4. GetsTo(n, run, v)
  BY <1>1, <1>2, <1>3 DEF GetsTo
<1>5. KeptAt(n)
  BY <1>3 DEF LexicalInv
<1>6. QED
  BY <1>3, <1>4, <1>5 DEF KeptAt

LEMMA StateIs ==
  ASSUME PlaceInv, LexicalInv PROVE State \in StateForm
<1>1. Len(ancestors) \in Nat
  BY LenProperties DEF PlaceInv
<1>2. reach \in Seq(StateForm) /\ Len(reach) \in 1..Len(reach)
  BY <1>1 DEF LexicalInv
<1>3. QED
  BY <1>2, ElementOfSeq DEF State, Last

-----------------------------------------------------------------------------
(* The arguments of a call, counted from the left.                          *)

PositionalUpTo(s, k) == {n \in 1..k : s[n].star = "" /\ s[n].key = ""}
NamedUpTo(s, k) == {n \in 1..k : s[n].star = "" /\ s[n].key # ""}

-----------------------------------------------------------------------------
(* The positional arguments that are visible.                               *)

PositionalBy(upTo, call) ==
  upTo = [n \in 0..Len(call) |->
            IF n = 0 THEN <<>>
            ELSE IF call[n].star = "" /\ call[n].key = "" THEN Append(upTo[n - 1], call[n])
            ELSE upTo[n - 1]]

LEMMA PositionalDefined ==
  ASSUME NEW S, NEW call \in Seq(S)
  PROVE  \E upTo : PositionalBy(upTo, call)
<1> DEFINE L == Len(call)
           step == [a \in (0..L) \X Tables(L, Seq(S)) |->
                      IF a[1] = 0 THEN <<>>
                      ELSE IF call[a[1]].star = "" /\ call[a[1]].key = ""
                           THEN Append(a[2][a[1] - 1], call[a[1]])
                      ELSE a[2][a[1] - 1]]
<1>1. L \in Nat
  BY LenProperties
<1>2. ASSUME NEW k \in 0..L, NEW h \in [0..k - 1 -> Seq(S)]
      PROVE  /\ step[<<k, h>>] = IF k = 0 THEN <<>>
                                 ELSE IF call[k].star = "" /\ call[k].key = ""
                                      THEN Append(h[k - 1], call[k])
                                 ELSE h[k - 1]
             /\ step[<<k, h>>] \in Seq(S)
  <2>1. <<k, h>> \in (0..L) \X Tables(L, Seq(S)) /\ <<k, h>>[1] = k /\ <<k, h>>[2] = h
    BY PairIs
  <2> HIDE DEF L
  <2>2. step[<<k, h>>] = IF k = 0 THEN <<>>
                         ELSE IF call[k].star = "" /\ call[k].key = ""
                              THEN Append(h[k - 1], call[k])
                         ELSE h[k - 1]
    BY <2>1
  <2>3. k # 0 => h[k - 1] \in Seq(S) /\ call[k] \in S
    <3>1. k # 0 => k \in 1..Len(call) /\ k - 1 \in 0..k - 1
      BY <1>1 DEF L
    <3>2. QED
      BY <3>1, ElementOfSeq
  <2>4. k # 0 => Append(h[k - 1], call[k]) \in Seq(S)
    BY <2>3, AppendProperties
  <2>5. <<>> \in Seq(S)
    BY EmptySeq
  <2> HIDE DEF step
  <2>6. QED
    BY <2>2, <2>3, <2>4, <2>5
<1> HIDE DEF step
<1>3. PICK g \in [0..L -> Seq(S)] : Follows(g, L, step)
  <2>1. \A k \in 0..L : \A h \in [0..k - 1 -> Seq(S)] : step[<<k, h>>] \in Seq(S)
    BY <1>2
  <2> HIDE DEF L
  <2>2. QED
    BY <1>1, <2>1, HistoryExists
<1>4. ASSUME NEW k \in 0..L
      PROVE  g[k] = IF k = 0 THEN <<>>
                    ELSE IF call[k].star = "" /\ call[k].key = "" THEN Append(g[k - 1], call[k])
                    ELSE g[k - 1]
  <2> DEFINE h == [m \in 0..k - 1 |-> g[m]]
  <2>1. h \in [0..k - 1 -> Seq(S)] /\ (k # 0 => h[k - 1] = g[k - 1])
    BY <1>1
  <2>2. g[k] = step[<<k, h>>]
    BY <1>3 DEF Follows, Earlier
  <2> HIDE DEF h, L
  <2>3. QED
    BY <1>2, <2>1, <2>2
<1>5. PositionalBy(g, call)
  <2>1. g = [k \in 0..L |-> g[k]]
    BY <1>3
  <2>2. QED
    BY <1>4, <2>1, Zenon DEF PositionalBy
<1>6. QED
  BY <1>5

\* They are in order.
LEMMA PositionalIs ==
  ASSUME NEW S, NEW call \in Seq(S)
  PROVE  LET B == PositionalUpTo(call, Len(call)) IN
         /\ Len(Positional(call)) = Cardinality(B)
         /\ \A n \in B : Positional(call)[RankIn(B, n) + 1] = call[n]
<1> DEFINE L == Len(call)
           upTo == CHOOSE g : PositionalBy(g, call)
           B(k) == PositionalUpTo(call, k)
           Listed(s, k) == /\ s \in Seq(S) /\ Len(s) = Cardinality(B(k))
                           /\ \A n \in B(k) : s[RankIn(B(k), n) + 1] = call[n]
           C == {k \in 0..L : Listed(upTo[k], k)}
<1>1. L \in Nat
  BY LenProperties
<1>2. PositionalBy(upTo, call)
  BY PositionalDefined, Zenon
<1>3. Positional(call) = upTo[L]
  BY DEF Positional, PositionalBy
<1> HIDE DEF upTo
<1>4. ASSUME NEW k \in 0..L
      PROVE  upTo[k] = IF k = 0 THEN <<>>
                       ELSE IF call[k].star = "" /\ call[k].key = "" THEN Append(upTo[k - 1], call[k])
                       ELSE upTo[k - 1]
  BY <1>2 DEF PositionalBy
<1>5. 0 \in C
  <2>1. upTo[0] = <<>>
    <3>1. 0 \in 0..L
      BY <1>1
    <3>2. QED
      BY <1>4, <3>1, Zenon
  <2>2. B(0) = {}
    BY DEF PositionalUpTo
  <2>3. <<>> \in Seq(S) /\ Len(<<>>) = 0 /\ Cardinality({}) = 0
    BY EmptySeq, FS_EmptySet
  <2> HIDE DEF B
  <2>4. Listed(upTo[0], 0)
    BY <2>1, <2>2, <2>3
  <2>5. QED
    BY <1>1, <2>4
<1>6. ASSUME NEW k \in 0..L, k # L, k \in C PROVE k + 1 \in C
  <2>1. k \in Nat /\ k + 1 \in 0..L /\ (k + 1) - 1 = k /\ k + 1 # 0 /\ k + 1 \in 1..L
    BY <1>1, <1>6
  <2>2. Listed(upTo[k], k)
    BY <1>6
  <2>3. upTo[k + 1] = IF call[k + 1].star = "" /\ call[k + 1].key = ""
                      THEN Append(upTo[k], call[k + 1]) ELSE upTo[k]
    BY <1>4, <2>1
  <2>4. B(k) \in SUBSET (1..k)
    BY DEF PositionalUpTo
  <2>5. B(k + 1) = IF call[k + 1].star = "" /\ call[k + 1].key = ""
                   THEN B(k) \cup {k + 1} ELSE B(k)
    <3>1. 1..k + 1 = (1..k) \cup {k + 1}
      BY <2>1
    <3>2. QED
      BY <3>1 DEF PositionalUpTo
  <2>6. call[k + 1] \in S
    BY <2>1, ElementOfSeq
  <2> HIDE DEF B
  <2>7. CASE call[k + 1].star = "" /\ call[k + 1].key = ""
    <3> DEFINE s == upTo[k]
               t == Append(s, call[k + 1])
    <3>1. upTo[k + 1] = t /\ B(k + 1) = B(k) \cup {k + 1}
      BY <2>3, <2>5, <2>7
    <3>2. s \in Seq(S) /\ Len(s) = Cardinality(B(k))
      BY <2>2
    <3> HIDE DEF s
    <3>3. /\ t \in Seq(S) /\ Len(t) = Len(s) + 1 /\ t[Len(s) + 1] = call[k + 1]
          /\ \A n \in 1..Len(s) : t[n] = s[n]
      BY <2>6, <3>2, AppendProperties
    <3> HIDE DEF t
    <3>4. /\ Cardinality(B(k + 1)) = Cardinality(B(k)) + 1
          /\ RankIn(B(k + 1), k + 1) = Cardinality(B(k))
          /\ \A n \in 1..k : RankIn(B(k + 1), n) = RankIn(B(k), n)
      <4>1. \A A \in SUBSET (1..k) :
              /\ Cardinality(A \cup {k + 1}) = Cardinality(A) + 1
              /\ RankIn(A \cup {k + 1}, k + 1) = Cardinality(A)
              /\ \A n \in 1..k : RankIn(A \cup {k + 1}, n) = RankIn(A, n)
        BY <2>1, OneMoreCounted
      <4>2. QED
        BY <2>4, <3>1, <4>1
    <3>5. ASSUME NEW n \in B(k) PROVE t[RankIn(B(k + 1), n) + 1] = call[n]
      <4>1. RankIn(B(k), n) < Cardinality(B(k)) /\ RankIn(B(k), n) \in Nat
        <5>1. {m \in B(k) : m < n} \in SUBSET B(k) /\ n \in B(k) /\ n \notin {m \in B(k) : m < n}
          BY <2>4
        <5>2. IsFiniteSet(B(k)) /\ Cardinality(B(k)) \in Nat
          BY <2>1, <2>4, CountIs
        <5>3. RankIn(B(k), n) <= Cardinality(B(k)) /\ RankIn(B(k), n) # Cardinality(B(k))
          BY <5>1, <5>2, FS_Subset DEF RankIn
        <5>4. RankIn(B(k), n) \in Nat
          BY <5>1, <5>2, FS_Subset, FS_CardinalityType DEF RankIn
        <5>5. QED
          BY <5>2, <5>3, <5>4
      <4>2. s[RankIn(B(k), n) + 1] = call[n]
        BY <2>2 DEF s
      <4>3. RankIn(B(k), n) + 1 \in 1..Len(s)
        BY <3>2, <4>1
      <4>4. RankIn(B(k + 1), n) = RankIn(B(k), n)
        BY <2>4, <3>4
      <4>5. QED
        BY <3>3, <4>2, <4>3, <4>4
    <3>6. t[RankIn(B(k + 1), k + 1) + 1] = call[k + 1]
      BY <3>2, <3>3, <3>4
    <3>7. Listed(t, k + 1)
      BY <3>1, <3>2, <3>3, <3>4, <3>5, <3>6
    <3>8. QED
      BY <2>1, <3>1, <3>7
  <2>8. CASE ~(call[k + 1].star = "" /\ call[k + 1].key = "")
    <3>1. upTo[k + 1] = upTo[k] /\ B(k + 1) = B(k)
      BY <2>3, <2>5, <2>8
    <3>2. Listed(upTo[k + 1], k + 1)
      BY <2>2, <3>1
    <3>3. QED
      BY <2>1, <3>2
  <2>9. QED
    BY <2>7, <2>8
<1>7. L \in C
  <2> HIDE DEF C
  <2> QED
    BY <1>1, <1>5, <1>6, CountsUp
<1>8. QED
  BY <1>3, <1>7

-----------------------------------------------------------------------------
(* What a call may pass stands for its arguments.                           *)

KeylessIn(s) == {n \in 1..Len(s) : s[n].key = ""}
KeyedIn(s) == {n \in 1..Len(s) : s[n].key # ""}

IsPositional(a) == a.star = "" /\ a.key = ""
IsNamed(a) == a.star = "" /\ a.key # ""
IsStar(a) == a.star # ""
IsKeyless(a) == a.key = ""
IsCall(args) == args \in Seq(ArgumentForm)
StarIn(args) == \E n \in 1..Len(args) : args[n].star = "*"
DoubleIn(args) == \E n \in 1..Len(args) : args[n].star = "**"

Counts(s, args, k) ==
  /\ Cardinality(KeylessIn(s)) >= Cardinality(PositionalUpTo(args, k))
  /\ Cardinality(KeyedIn(s)) >= Cardinality(NamedUpTo(args, k))
  /\ ~StarIn(args) => Cardinality(KeylessIn(s)) = Cardinality(PositionalUpTo(args, k))
  /\ ~DoubleIn(args) => Cardinality(KeyedIn(s)) = Cardinality(NamedUpTo(args, k))

\* Every name is kept, and without stars nothing is added or moved.
Stands(s, args, k) ==
  /\ Counts(s, args, k)
  /\ \A n \in NamedUpTo(args, k) : \E m \in KeyedIn(s) : s[m] = args[n]
  /\ ~DoubleIn(args) => \A m \in KeyedIn(s) : \E n \in NamedUpTo(args, k) : s[m] = args[n]
  /\ ~StarIn(args) => \A m \in KeylessIn(s) : s[m] = Positional(args)[RankIn(KeylessIn(s), m) + 1]

Counted(s) == Cardinality(KeylessIn(s)) \in Nat /\ Cardinality(KeyedIn(s)) \in Nat

LEMMA PartsAre ==
  ASSUME NEW X, NEW s \in Seq(X)
  PROVE  /\ Len(s) \in Nat
         /\ KeylessIn(s) \in SUBSET (1..Len(s)) /\ KeyedIn(s) \in SUBSET (1..Len(s))
         /\ IsFiniteSet(KeylessIn(s)) /\ Cardinality(KeylessIn(s)) \in Nat
         /\ IsFiniteSet(KeyedIn(s)) /\ Cardinality(KeyedIn(s)) \in Nat
<1>1. Len(s) \in Nat
  BY LenProperties
<1>2. KeylessIn(s) \in SUBSET (1..Len(s)) /\ KeyedIn(s) \in SUBSET (1..Len(s))
  BY DEF KeylessIn, KeyedIn
<1>3. QED
  BY <1>1, <1>2, CountIs

LEMMA UpToIs ==
  ASSUME NEW s, NEW k \in Nat
  PROVE  /\ PositionalUpTo(s, k) \in SUBSET (1..k) /\ NamedUpTo(s, k) \in SUBSET (1..k)
         /\ IsFiniteSet(PositionalUpTo(s, k)) /\ Cardinality(PositionalUpTo(s, k)) \in Nat
         /\ IsFiniteSet(NamedUpTo(s, k)) /\ Cardinality(NamedUpTo(s, k)) \in Nat
         /\ PositionalUpTo(s, k + 1) = IF s[k + 1].star = "" /\ s[k + 1].key = ""
                                       THEN PositionalUpTo(s, k) \cup {k + 1} ELSE PositionalUpTo(s, k)
         /\ NamedUpTo(s, k + 1) = IF s[k + 1].star = "" /\ s[k + 1].key # ""
                                  THEN NamedUpTo(s, k) \cup {k + 1} ELSE NamedUpTo(s, k)
<1>1. PositionalUpTo(s, k) \in SUBSET (1..k) /\ NamedUpTo(s, k) \in SUBSET (1..k)
  BY DEF PositionalUpTo, NamedUpTo
<1>2. 1..k + 1 = (1..k) \cup {k + 1}
  OBVIOUS
<1>3. PositionalUpTo(s, k + 1) = IF s[k + 1].star = "" /\ s[k + 1].key = ""
                                 THEN PositionalUpTo(s, k) \cup {k + 1} ELSE PositionalUpTo(s, k)
  BY <1>2 DEF PositionalUpTo
<1>4. NamedUpTo(s, k + 1) = IF s[k + 1].star = "" /\ s[k + 1].key # ""
                            THEN NamedUpTo(s, k) \cup {k + 1} ELSE NamedUpTo(s, k)
  BY <1>2 DEF NamedUpTo
<1>5. QED
  BY <1>1, <1>3, <1>4, CountIs

\* What was passed keeps its rank and its place.
Grown(s, t, a) ==
  /\ \A m \in KeylessIn(s) : /\ m \in KeylessIn(t) /\ t[m] = s[m]
                             /\ RankIn(KeylessIn(t), m) = RankIn(KeylessIn(s), m)
  /\ \A m \in KeyedIn(s) : m \in KeyedIn(t) /\ t[m] = s[m]
  /\ IsKeyless(a) =>
       /\ Cardinality(KeylessIn(t)) = Cardinality(KeylessIn(s)) + 1
       /\ RankIn(KeylessIn(t), Len(s) + 1) = Cardinality(KeylessIn(s))
       /\ \A m \in KeylessIn(t) : m \in KeylessIn(s) \/ m = Len(s) + 1
       /\ KeyedIn(t) = KeyedIn(s)
  /\ ~IsKeyless(a) =>
       /\ Cardinality(KeyedIn(t)) = Cardinality(KeyedIn(s)) + 1
       /\ \A m \in KeyedIn(t) : m \in KeyedIn(s) \/ m = Len(s) + 1
       /\ Len(s) + 1 \in KeyedIn(t)
       /\ KeylessIn(t) = KeylessIn(s)
  /\ t[Len(s) + 1] = a

LEMMA RanksKept ==
  ASSUME NEW X, NEW s \in Seq(X), NEW a \in X PROVE Grown(s, Append(s, a), a)
<1> DEFINE t == Append(s, a)
           L == Len(s)
           B == KeylessIn(s)
           D == KeyedIn(s)
<1>8. /\ Len(t) = L + 1 /\ t[L + 1] = a
      /\ \A n \in 1..L : t[n] = s[n]
  BY AppendProperties
<1>9. L \in Nat
  BY LenProperties
<1>1. /\ t[L + 1] = a /\ \A n \in 1..L : t[n] = s[n]
      /\ KeylessIn(t) = IF a.key = "" THEN B \cup {L + 1} ELSE B
      /\ KeyedIn(t) = IF a.key # "" THEN D \cup {L + 1} ELSE D
  <2> HIDE DEF t
  <2>1. 1..Len(t) = (1..L) \cup {L + 1}
    BY <1>8, <1>9
  <2>2. KeylessIn(t) = IF a.key = "" THEN KeylessIn(s) \cup {L + 1} ELSE KeylessIn(s)
    BY <1>8, <2>1 DEF KeylessIn
  <2>3. KeyedIn(t) = IF a.key # "" THEN KeyedIn(s) \cup {L + 1} ELSE KeyedIn(s)
    BY <1>8, <2>1 DEF KeyedIn
  <2>4. QED
    BY <1>8, <2>2, <2>3
<1>2. L \in Nat /\ B \in SUBSET (1..L) /\ D \in SUBSET (1..L)
  BY PartsAre
<1> HIDE DEF t, L, B, D
<1>3. /\ Cardinality(B \cup {L + 1}) = Cardinality(B) + 1
      /\ RankIn(B \cup {L + 1}, L + 1) = Cardinality(B)
      /\ \A n \in 1..L : RankIn(B \cup {L + 1}, n) = RankIn(B, n)
  BY <1>2, OneMoreCounted
<1>4. Cardinality(D \cup {L + 1}) = Cardinality(D) + 1
  BY <1>2, OneMoreCounted
<1>5. CASE a.key = ""
  <2>1. KeylessIn(t) = B \cup {L + 1} /\ KeyedIn(t) = D
    BY <1>1, <1>5
  <2>2. QED
    BY <1>1, <1>2, <1>3, <1>5, <2>1 DEF t, L, B, D, Grown, IsKeyless
<1>6. CASE a.key # ""
  <2>1. KeylessIn(t) = B /\ KeyedIn(t) = D \cup {L + 1}
    BY <1>1, <1>6
  <2>2. QED
    BY <1>1, <1>2, <1>4, <1>6, <2>1 DEF t, L, B, D, Grown, IsKeyless
<1>7. QED
  BY <1>5, <1>6

\* What a sequence that stands says, part by part.
LEMMA StandsParts ==
  ASSUME NEW s, NEW args, NEW k, Stands(s, args, k)
  PROVE  /\ Counts(s, args, k)
         /\ \A n \in NamedUpTo(args, k) : \E m \in KeyedIn(s) : s[m] = args[n]
         /\ ~DoubleIn(args) => \A m \in KeyedIn(s) : \E n \in NamedUpTo(args, k) : s[m] = args[n]
         /\ ~StarIn(args) =>
              \A m \in KeylessIn(s) : s[m] = Positional(args)[RankIn(KeylessIn(s), m) + 1]
  BY Zenon DEF Stands

\* An argument that is no star passes itself.
LEMMA StandsPosition ==
  ASSUME NEW s, Counted(s), NEW args, IsCall(args), NEW k \in Nat,
         k + 1 \in 1..Len(args), IsPositional(args[k + 1]),
         NEW t, Grown(s, t, args[k + 1]), Stands(s, args, k)
  PROVE  Stands(t, args, k + 1)
<1> DEFINE a == args[k + 1]
           L == Len(s)
<1>1. /\ \A m \in KeylessIn(s) : t[m] = s[m] /\ RankIn(KeylessIn(t), m) = RankIn(KeylessIn(s), m)
      /\ \A m \in KeyedIn(s) : t[m] = s[m]
      /\ Cardinality(KeylessIn(t)) = Cardinality(KeylessIn(s)) + 1
      /\ RankIn(KeylessIn(t), L + 1) = Cardinality(KeylessIn(s))
      /\ \A m \in KeylessIn(t) : m \in KeylessIn(s) \/ m = L + 1
      /\ KeyedIn(t) = KeyedIn(s) /\ t[L + 1] = a
  <2>1. IsKeyless(a)
    BY Zenon DEF IsKeyless, IsPositional
  <2>2. QED
    BY <2>1, Zenon DEF Grown
<1>2. /\ PositionalUpTo(args, k) \in SUBSET (1..k)
      /\ Cardinality(PositionalUpTo(args, k)) \in Nat /\ Cardinality(NamedUpTo(args, k)) \in Nat
      /\ PositionalUpTo(args, k + 1) = PositionalUpTo(args, k) \cup {k + 1}
      /\ NamedUpTo(args, k + 1) = NamedUpTo(args, k)
  BY UpToIs DEF IsPositional
<1>3. Cardinality(KeylessIn(s)) \in Nat /\ Cardinality(KeyedIn(s)) \in Nat
  BY DEF Counted
<1>4. Cardinality(PositionalUpTo(args, k + 1)) = Cardinality(PositionalUpTo(args, k)) + 1
  <2>1. \A B \in SUBSET (1..k) : Cardinality(B \cup {k + 1}) = Cardinality(B) + 1
    BY OneMoreCounted
  <2>2. QED
    BY <1>2, <2>1
<1> HIDE DEF L
<1>5. Counts(s, args, k)
  BY StandsParts
<1>6. Counts(t, args, k + 1)
  BY <1>1, <1>2, <1>3, <1>4, <1>5 DEF Counts
<1>7. ASSUME ~StarIn(args), NEW m \in KeylessIn(t)
      PROVE  t[m] = Positional(args)[RankIn(KeylessIn(t), m) + 1]
  <2>1. CASE m \in KeylessIn(s)
    <3>1. s[m] = Positional(args)[RankIn(KeylessIn(s), m) + 1]
      BY <1>7, <2>1, StandsParts
    <3>2. QED
      BY <1>1, <2>1, <3>1
  <2>2. CASE m = L + 1
    <3>1. RankIn(KeylessIn(t), m) = Cardinality(PositionalUpTo(args, k))
      BY <1>1, <1>5, <1>7, <2>2 DEF Counts
    <3>2. {j \in PositionalUpTo(args, Len(args)) : j < k + 1} = PositionalUpTo(args, k)
      <4>1. Len(args) \in Nat
        BY LenProperties DEF IsCall
      <4>2. \A j \in 1..Len(args) : j \in Nat /\ j >= 1
        BY <4>1
      <4>3. \A j \in 1..Len(args) : j < k + 1 <=> j \in 1..k
        BY <4>2
      <4>4. 1..k \subseteq 1..Len(args)
        BY <4>1
      <4>5. QED
        BY <4>3, <4>4 DEF PositionalUpTo
    <3>3. RankIn(PositionalUpTo(args, Len(args)), k + 1) = Cardinality(PositionalUpTo(args, k))
      BY <3>2 DEF RankIn
    <3>4. k + 1 \in PositionalUpTo(args, Len(args))
      BY DEF PositionalUpTo, IsPositional
    <3>5. Positional(args)[RankIn(PositionalUpTo(args, Len(args)), k + 1) + 1] = args[k + 1]
      BY <3>4, PositionalIs, Zenon DEF IsCall
    <3>6. QED
      BY <1>1, <2>2, <3>1, <3>3, <3>5
  <2>3. QED
    BY <1>1, <1>7, <2>1, <2>2
<1>8. \A n \in NamedUpTo(args, k + 1) : \E m \in KeyedIn(t) : t[m] = args[n]
  <2>1. ASSUME NEW n \in NamedUpTo(args, k) PROVE \E m \in KeyedIn(t) : t[m] = args[n]
    <3>1. PICK m \in KeyedIn(s) : s[m] = args[n]
      BY <2>1, StandsParts
    <3>2. QED
      BY <1>1, <3>1
  <2>2. QED
    BY <1>2, <2>1
<1>9. ASSUME ~DoubleIn(args), NEW m \in KeyedIn(t)
      PROVE  \E n \in NamedUpTo(args, k + 1) : t[m] = args[n]
  <2>1. \E n \in NamedUpTo(args, k) : s[m] = args[n]
    BY <1>1, <1>9, StandsParts
  <2>2. QED
    BY <1>1, <1>2, <1>9, <2>1
<1>10. QED
  BY <1>6, <1>7, <1>8, <1>9, Zenon DEF Stands

LEMMA StandsName ==
  ASSUME NEW s, Counted(s), NEW args, IsCall(args), NEW k \in Nat,
         IsNamed(args[k + 1]),
         NEW t, Grown(s, t, args[k + 1]), Stands(s, args, k)
  PROVE  Stands(t, args, k + 1)
<1> DEFINE a == args[k + 1]
           L == Len(s)
<1>1. /\ \A m \in KeylessIn(s) : t[m] = s[m] /\ RankIn(KeylessIn(t), m) = RankIn(KeylessIn(s), m)
      /\ \A m \in KeyedIn(s) : m \in KeyedIn(t) /\ t[m] = s[m]
      /\ Cardinality(KeyedIn(t)) = Cardinality(KeyedIn(s)) + 1
      /\ \A m \in KeyedIn(t) : m \in KeyedIn(s) \/ m = L + 1
      /\ L + 1 \in KeyedIn(t)
      /\ KeylessIn(t) = KeylessIn(s) /\ t[L + 1] = a
  <2>1. ~IsKeyless(a)
    BY Zenon DEF IsKeyless, IsNamed
  <2>2. QED
    BY <2>1, Zenon DEF Grown
<1>2. /\ NamedUpTo(args, k) \in SUBSET (1..k)
      /\ Cardinality(PositionalUpTo(args, k)) \in Nat /\ Cardinality(NamedUpTo(args, k)) \in Nat
      /\ PositionalUpTo(args, k + 1) = PositionalUpTo(args, k)
      /\ NamedUpTo(args, k + 1) = NamedUpTo(args, k) \cup {k + 1}
  BY UpToIs DEF IsNamed
<1>3. Cardinality(KeylessIn(s)) \in Nat /\ Cardinality(KeyedIn(s)) \in Nat
  BY DEF Counted
<1>4. Cardinality(NamedUpTo(args, k + 1)) = Cardinality(NamedUpTo(args, k)) + 1
  <2>1. \A B \in SUBSET (1..k) : Cardinality(B \cup {k + 1}) = Cardinality(B) + 1
    BY OneMoreCounted
  <2>2. QED
    BY <1>2, <2>1
<1> HIDE DEF L
<1>5. Counts(s, args, k)
  BY StandsParts
<1>6. Counts(t, args, k + 1)
  BY <1>1, <1>2, <1>3, <1>4, <1>5 DEF Counts
<1>7. ASSUME ~StarIn(args), NEW m \in KeylessIn(t)
      PROVE  t[m] = Positional(args)[RankIn(KeylessIn(t), m) + 1]
  <2>1. m \in KeylessIn(s) /\ s[m] = Positional(args)[RankIn(KeylessIn(s), m) + 1]
    BY <1>1, <1>7, StandsParts
  <2>2. QED
    BY <1>1, <2>1
<1>8. ASSUME NEW n \in NamedUpTo(args, k + 1) PROVE \E m \in KeyedIn(t) : t[m] = args[n]
  <2>1. CASE n = k + 1
    BY <1>1, <2>1
  <2>2. CASE n \in NamedUpTo(args, k)
    <3>1. PICK m \in KeyedIn(s) : s[m] = args[n]
      BY <2>2, StandsParts
    <3>2. QED
      BY <1>1, <3>1
  <2>3. QED
    BY <1>2, <1>8, <2>1, <2>2
<1>9. ASSUME ~DoubleIn(args), NEW m \in KeyedIn(t)
      PROVE  \E n \in NamedUpTo(args, k + 1) : t[m] = args[n]
  <2>1. CASE m = L + 1
    BY <1>1, <1>2, <2>1
  <2>2. CASE m \in KeyedIn(s)
    <3>1. PICK n \in NamedUpTo(args, k) : s[m] = args[n]
      BY <1>9, <2>2, StandsParts
    <3>2. QED
      BY <1>1, <1>2, <2>2, <3>1
  <2>3. QED
    BY <1>1, <1>9, <2>1, <2>2
<1>10. QED
  BY <1>6, <1>7, <1>8, <1>9, Zenon DEF Stands

\* A star adds no name, two stars add no position.
LEMMA StandsMore ==
  ASSUME NEW s, Counted(s), NEW args, IsCall(args), NEW k \in Nat, NEW a,
         IF IsKeyless(a) THEN StarIn(args) ELSE DoubleIn(args), NEW t, Grown(s, t, a),
         Stands(s, args, k)
  PROVE  Stands(t, args, k)
<1>1. /\ \A m \in KeylessIn(s) : t[m] = s[m] /\ RankIn(KeylessIn(t), m) = RankIn(KeylessIn(s), m)
      /\ \A m \in KeyedIn(s) : m \in KeyedIn(t) /\ t[m] = s[m]
  BY DEF Grown
<1>2. Cardinality(PositionalUpTo(args, k)) \in Nat /\ Cardinality(NamedUpTo(args, k)) \in Nat
  BY UpToIs
<1>3. Cardinality(KeylessIn(s)) \in Nat /\ Cardinality(KeyedIn(s)) \in Nat
  BY DEF Counted
<1>4. \/ /\ StarIn(args) /\ KeyedIn(t) = KeyedIn(s)
         /\ Cardinality(KeylessIn(t)) = Cardinality(KeylessIn(s)) + 1
      \/ /\ DoubleIn(args) /\ KeylessIn(t) = KeylessIn(s)
         /\ Cardinality(KeyedIn(t)) = Cardinality(KeyedIn(s)) + 1
  <2>1. CASE IsKeyless(a)
    BY <2>1, Zenon DEF Grown
  <2>2. CASE ~IsKeyless(a)
    BY <2>2, Zenon DEF Grown
  <2>3. QED
    BY <2>1, <2>2
<1>5. Counts(s, args, k)
  BY StandsParts
<1>6. Counts(t, args, k)
  BY <1>2, <1>3, <1>4, <1>5 DEF Counts
<1>7. ASSUME ~StarIn(args), NEW m \in KeylessIn(t)
      PROVE  t[m] = Positional(args)[RankIn(KeylessIn(t), m) + 1]
  <2>1. m \in KeylessIn(s) /\ s[m] = Positional(args)[RankIn(KeylessIn(s), m) + 1]
    BY <1>4, <1>7, StandsParts
  <2>2. QED
    BY <1>1, <2>1
<1>8. ASSUME NEW n \in NamedUpTo(args, k) PROVE \E m \in KeyedIn(t) : t[m] = args[n]
  <2>1. PICK m \in KeyedIn(s) : s[m] = args[n]
    BY <1>8, StandsParts
  <2>2. QED
    BY <1>1, <2>1
<1>9. ASSUME ~DoubleIn(args), NEW m \in KeyedIn(t)
      PROVE  \E n \in NamedUpTo(args, k) : t[m] = args[n]
  <2>1. m \in KeyedIn(s)
    BY <1>4, <1>9
  <2>2. PICK n \in NamedUpTo(args, k) : s[m] = args[n]
    BY <1>9, <2>1, StandsParts
  <2>3. QED
    BY <1>1, <2>1, <2>2
<1>10. QED
  BY <1>6, <1>7, <1>8, <1>9, Zenon DEF Stands

LEMMA StandsSkip ==
  ASSUME NEW s, NEW args, NEW k \in Nat, IsStar(args[k + 1]), Stands(s, args, k)
  PROVE  Stands(s, args, k + 1)
<1>1. PositionalUpTo(args, k + 1) = PositionalUpTo(args, k) /\ NamedUpTo(args, k + 1) = NamedUpTo(args, k)
  BY UpToIs DEF IsStar
<1>2. QED
  BY <1>1, Zenon DEF Stands, Counts

OfAll(names, x) == {Given(k, x) : k \in names \cup {""}}
Passable(args, names, values) ==
  {args[n] : n \in 1..Len(args)} \cup UNION {OfAll(names, x) : x \in values}

LEMMA GivenIs ==
  ASSUME NEW args, NEW names, NEW values, NEW x \in values, NEW k \in names \cup {""}
  PROVE  /\ Given(k, x) \in Passable(args, names, values)
         /\ IsKeyless(Given(k, x)) <=> k = ""
         /\ Given(k, x).key = k /\ Given(k, x).value = x
<1>1. Given(k, x).key = k /\ Given(k, x).value = x
  BY DEF Given
<1>2. Given(k, x) \in OfAll(names, x)
  BY Zenon DEF OfAll
<1>3. Given(k, x) \in Passable(args, names, values)
  BY <1>2, Zenon DEF Passable
<1>4. QED
  BY <1>1, <1>3, Zenon DEF IsKeyless

LEMMA OwnIs ==
  ASSUME NEW args, IsCall(args), NEW n \in 1..Len(args)
  PROVE  /\ args[n].star \in {"", "*", "**"}
         /\ ~IsStar(args[n]) => IsPositional(args[n]) \/ IsNamed(args[n])
         /\ args[n].star = "*" => StarIn(args) /\ IsStar(args[n])
         /\ args[n].star = "**" => DoubleIn(args) /\ IsStar(args[n])
         /\ args[n].star = "" => ~IsStar(args[n])
<1>1. args[n] \in ArgumentForm
  BY ElementOfSeq DEF IsCall
<1>2. args[n].star \in {"", "*", "**"}
  BY <1>1 DEF ArgumentForm
<1>3. ~IsStar(args[n]) => IsPositional(args[n]) \/ IsNamed(args[n])
  BY Zenon DEF IsStar, IsPositional, IsNamed
<1>4. args[n].star = "*" => StarIn(args)
  BY Zenon DEF StarIn
<1>5. args[n].star = "**" => DoubleIn(args)
  BY Zenon DEF DoubleIn
<1>6. /\ args[n].star = "*" => IsStar(args[n])
      /\ args[n].star = "**" => IsStar(args[n])
      /\ args[n].star = "" => ~IsStar(args[n])
  <2> DEFINE a == args[n]
             t == a.star
  <2>1. IsStar(a) <=> t # ""
    BY Zenon DEF IsStar
  <2> HIDE DEF t
  <2>2. (t = "*" => t # "") /\ (t = "**" => t # "")
    OBVIOUS
  <2> HIDE DEF a
  <2>3. /\ t = "*" => IsStar(a)
        /\ t = "**" => IsStar(a)
        /\ t = "" => ~IsStar(a)
    BY <2>1, <2>2, Zenon
  <2>4. QED
    BY <2>3, Zenon DEF t, a
<1>7. QED
  BY <1>2, <1>3, <1>4, <1>5, <1>6, Zenon

Blank == ""
Lone(k, x) == <<Given(k, x)>>
Twice(x, y) == <<Given("", x), Given("", y)>>
OneOf(a) == <<a>>
StarPassed(values) ==
  {<<>>} \cup {Lone(Blank, x) : x \in values} \cup {Twice(x, y) : x \in values, y \in values}
DoublePassed(names, values) == {<<>>} \cup {Lone(k, x) : k \in names, x \in values}

LEMMA ExpandedIs ==
  ASSUME NEW a, NEW names, NEW values
  PROVE  Expansions(a, names, values)
           = CASE a.star = "" -> {OneOf(a)}
               [] a.star = "*" -> StarPassed(values)
               [] a.star = "**" -> DoublePassed(names, values)
  BY SMT DEF Expansions, StarPassed, DoublePassed, Lone, Twice, Blank, OneOf

\* What an argument may pass.
Split(args, n, names, values, t) ==
  \/ ~IsStar(args[n]) /\ t = OneOf(args[n])
  \/ IsStar(args[n]) /\ t = <<>>
  \/ IsStar(args[n]) /\ StarIn(args) /\ \E x \in values : t = Lone(Blank, x)
  \/ IsStar(args[n]) /\ StarIn(args) /\ \E x \in values, y \in values : t = Twice(x, y)
  \/ IsStar(args[n]) /\ DoubleIn(args) /\ \E k \in names, x \in values : t = Lone(k, x)

LEMMA ExpansionIs ==
  ASSUME NEW args, IsCall(args), NEW n \in 1..Len(args), NEW names, NEW values,
         NEW t \in Expansions(args[n], names, values)
  PROVE  Split(args, n, names, values, t)
<1> DEFINE a == args[n]
<1>1. Expansions(a, names, values)
        = CASE a.star = "" -> {OneOf(a)}
            [] a.star = "*" -> StarPassed(values)
            [] a.star = "**" -> DoublePassed(names, values)
  BY ExpandedIs, Zenon
<1>2. a.star \in {"", "*", "**"}
  BY OwnIs
<1> DEFINE w == a.star
<1>3. \/ w = "" /\ t \in {OneOf(a)}
      \/ w = "*" /\ t \in StarPassed(values)
      \/ w = "**" /\ t \in DoublePassed(names, values)
  <2>1. Expansions(a, names, values)
        = CASE w = "" -> {OneOf(a)}
            [] w = "*" -> StarPassed(values)
            [] w = "**" -> DoublePassed(names, values)
    BY <1>1
  <2>2. w \in {"", "*", "**"}
    BY <1>2
  <2> DEFINE all == Expansions(a, names, values)
             single == {OneOf(a)}
             star == StarPassed(values)
             double == DoublePassed(names, values)
  <2> HIDE DEF w
  <2>3. t \in all
    OBVIOUS
  <2>4. all = CASE w = "" -> single [] w = "*" -> star [] w = "**" -> double
    BY <2>1
  <2> HIDE DEF all, single, star, double
  <2>5. \/ w = "" /\ t \in single
        \/ w = "*" /\ t \in star
        \/ w = "**" /\ t \in double
    BY <2>2, <2>3, <2>4, Zenon
  <2>6. QED
    BY <2>5, Zenon DEF single, star, double
<1>4. CASE w = "" /\ t \in {OneOf(a)}
  BY <1>4, OwnIs, Zenon DEF Split
<1>5. CASE w = "*" /\ t \in StarPassed(values)
  <2>1. \/ t \in {<<>>} \/ \E x \in values : t = Lone(Blank, x)
        \/ \E x \in values, y \in values : t = Twice(x, y)
    <3>1. t \in StarPassed(values)
      BY <1>5
    <3> HIDE DEF w, a
    <3>2. QED
      BY <3>1, SMT DEF StarPassed
  <2>2. StarIn(args) /\ IsStar(a)
    BY <1>5, OwnIs, Zenon
  <2>3. QED
    BY <2>1, <2>2, Zenon DEF Split
<1>6. CASE w = "**" /\ t \in DoublePassed(names, values)
  <2>1. t \in {<<>>} \/ \E k \in names, x \in values : t = Lone(k, x)
    <3>1. t \in DoublePassed(names, values)
      BY <1>6
    <3> HIDE DEF w, a
    <3>2. QED
      BY <3>1, SMT DEF DoublePassed
  <2>2. DoubleIn(args) /\ IsStar(a)
    BY <1>6, OwnIs, Zenon
  <2>3. QED
    BY <2>1, <2>2, Zenon DEF Split
<1>7. QED
  BY <1>3, <1>4, <1>5, <1>6, Zenon

\* One argument more.
LEMMA PassedMore ==
  ASSUME NEW X, NEW s \in Seq(X), NEW b \in X
  PROVE  /\ s \o <<b>> \in Seq(X) /\ s \o <<b>> = Append(s, b) /\ Grown(s, s \o <<b>>, b)
         /\ Counted(s)
<1>1. Append(s, b) = s \o <<b>> /\ Append(s, b) \in Seq(X)
  BY AppendIsConcat, AppendProperties
<1>2. Grown(s, Append(s, b), b)
  BY RanksKept
<1>3. Counted(s)
  BY PartsAre DEF Counted
<1>4. QED
  BY <1>1, <1>2, <1>3, Zenon

\* A star passes one more.
LEMMA StarStands ==
  ASSUME NEW args, IsCall(args), NEW k \in Nat, NEW names, NEW values,
         NEW key \in names \cup {""}, NEW x \in values,
         IF key = "" THEN StarIn(args) ELSE DoubleIn(args),
         NEW s \in Seq(Passable(args, names, values)), Stands(s, args, k)
  PROVE  /\ s \o Lone(key, x) \in Seq(Passable(args, names, values))
         /\ Stands(s \o Lone(key, x), args, k)
<1> DEFINE X == Passable(args, names, values)
           b == Given(key, x)
<1>1. b \in X /\ (IsKeyless(b) <=> key = "")
  BY GivenIs, Zenon
<1>2. s \o <<b>> \in Seq(X) /\ Grown(s, s \o <<b>>, b) /\ Counted(s)
  <2> HIDE DEF X, b
  <2>1. s \in Seq(X)
    BY DEF X
  <2>2. QED
    BY <1>1, <2>1, PassedMore, Zenon
<1>3. IF IsKeyless(b) THEN StarIn(args) ELSE DoubleIn(args)
  BY <1>1, Zenon
<1> HIDE DEF b
<1>4. Stands(s \o <<b>>, args, k)
  BY <1>2, <1>3, StandsMore, Zenon
<1>5. QED
  BY <1>2, <1>4, Zenon DEF Lone, b

LEMMA OneThenOne ==
  ASSUME NEW X, NEW s \in Seq(X), NEW b \in X, NEW c \in X
  PROVE  (s \o <<b>>) \o <<c>> = s \o <<b, c>>
<1>1. Append(Append(s, b), c) = s \o <<b, c>>
  OBVIOUS
<1>2. s \o <<b>> = Append(s, b) /\ Append(s, b) \in Seq(X)
  BY AppendIsConcat, AppendProperties
<1>4. Append(s, b) \o <<c>> = Append(Append(s, b), c)
  BY <1>2, AppendIsConcat, Zenon
<1>3. (s \o <<b>>) \o <<c>> = Append(Append(s, b), c)
  BY <1>2, <1>4
<1>5. QED
  BY <1>1, <1>3

LEMMA NextIsNat == \A k \in Nat : k + 1 \in Nat
  OBVIOUS

\* The sequences that stand for the first arguments, and those one argument more makes.
LEMMA ExpansionStands ==
  ASSUME NEW args, IsCall(args), NEW k \in Nat, k + 1 \in 1..Len(args), NEW names, NEW values,
         DoubleIn(args) => "" \notin names,
         NEW s \in Seq(Passable(args, names, values)), Stands(s, args, k),
         NEW t \in Expansions(args[k + 1], names, values)
  PROVE  s \o t \in Seq(Passable(args, names, values)) /\ Stands(s \o t, args, k + 1)
<1> DEFINE X == Passable(args, names, values)
           a == args[k + 1]
           Right(r) == r \in Seq(X) /\ Stands(r, args, k + 1)
<1>1. a \in X
  BY Zenon DEF Passable
<1>2. k + 1 \in Nat
  BY NextIsNat, Zenon
<1>3. CASE ~IsStar(a) /\ t = OneOf(a)
  <2>1. s \o OneOf(a) \in Seq(X) /\ Grown(s, s \o OneOf(a), a) /\ Counted(s)
    <3> HIDE DEF X, a
    <3>1. s \in Seq(X)
      BY DEF X
    <3>2. QED
      BY <1>1, <3>1, PassedMore, Zenon DEF OneOf
  <2>2. IsPositional(a) \/ IsNamed(a)
    BY <1>3, OwnIs, Zenon
  <2>3. Stands(s \o OneOf(a), args, k + 1)
    BY <2>1, <2>2, StandsPosition, StandsName, Zenon
  <2>4. QED
    BY <1>3, <2>1, <2>3, Zenon
<1>4. ASSUME IsStar(a) PROVE Right(s)
  BY <1>4, StandsSkip, Zenon
<1>5. ASSUME NEW r, Right(r), NEW key \in names \cup {""}, NEW x \in values,
             IF key = "" THEN StarIn(args) ELSE DoubleIn(args)
      PROVE  Right(r \o Lone(key, x))
  BY <1>2, <1>5, StarStands, Zenon
<1>6. CASE IsStar(a) /\ t = <<>>
  <2>1. s \o t = s
    BY <1>6, ConcatEmptySeq
  <2>2. QED
    BY <1>4, <1>6, <2>1, Zenon
<1>7. ASSUME StarIn(args), NEW r, Right(r), NEW x \in values PROVE Right(r \o Lone(Blank, x))
  <2>1. Blank \in names \cup {""} /\ Blank = ""
    BY Zenon DEF Blank
  <2> HIDE DEF Right
  <2>2. IF Blank = "" THEN StarIn(args) ELSE DoubleIn(args)
    BY <1>7, <2>1, Zenon
  <2>3. QED
    BY <1>5, <1>7, <2>1, <2>2, Zenon
<1> HIDE DEF Right
<1>8. CASE IsStar(a) /\ StarIn(args) /\ \E x \in values : t = Lone(Blank, x)
  <2>1. Right(s \o t)
    BY <1>4, <1>7, <1>8, Zenon
  <2>2. QED
    BY <2>1, Zenon DEF Right
<1>9. CASE IsStar(a) /\ StarIn(args) /\ \E x \in values, y \in values : t = Twice(x, y)
  <2>1. PICK x \in values, y \in values : t = Twice(x, y)
    BY <1>9
  <2>2. Right((s \o Lone(Blank, x)) \o Lone(Blank, y))
    BY <1>4, <1>7, <1>9, Zenon
  <2>3. (s \o Lone(Blank, x)) \o Lone(Blank, y) = s \o Twice(x, y)
    <3> DEFINE b == Given("", x)
               c == Given("", y)
    <3>1. b \in X /\ c \in X
      BY GivenIs, Zenon
    <3>2. Lone(Blank, x) = <<b>> /\ Lone(Blank, y) = <<c>> /\ Twice(x, y) = <<b, c>>
      BY Zenon DEF Lone, Twice, Blank
    <3>3. s \in Seq(X)
      OBVIOUS
    <3> HIDE DEF b, c, X
    <3>4. (s \o <<b>>) \o <<c>> = s \o <<b, c>>
      BY <3>1, <3>3, OneThenOne
    <3>5. QED
      BY <3>2, <3>4, Zenon
  <2>4. Right(s \o t)
    BY <2>1, <2>2, <2>3, Zenon
  <2>5. QED
    BY <2>4, Zenon DEF Right
<1>10. CASE IsStar(a) /\ DoubleIn(args) /\ \E key \in names, x \in values : t = Lone(key, x)
  <2>1. PICK key \in names, x \in values : t = Lone(key, x)
    BY <1>10
  <2>2. key # ""
    BY <1>10, Zenon
  <2>3. IF key = "" THEN StarIn(args) ELSE DoubleIn(args)
    BY <1>10, <2>2, Zenon
  <2>4. Right(s \o t)
    BY <1>4, <1>5, <1>10, <2>1, <2>3, Zenon
  <2>5. QED
    BY <2>4, Zenon DEF Right
<1>11. \/ ~IsStar(a) /\ t = OneOf(a)
       \/ IsStar(a) /\ t = <<>>
       \/ IsStar(a) /\ StarIn(args) /\ \E x \in values : t = Lone(Blank, x)
       \/ IsStar(a) /\ StarIn(args) /\ \E x \in values, y \in values : t = Twice(x, y)
       \/ IsStar(a) /\ DoubleIn(args) /\ \E key \in names, x \in values : t = Lone(key, x)
  <2>1. Split(args, k + 1, names, values, t)
    BY ExpansionIs, Zenon
  <2>2. QED
    BY <2>1, Zenon DEF Split
<1>12. QED
  BY <1>3, <1>6, <1>8, <1>9, <1>10, <1>11, Zenon

LEMMA ExpansionListed ==
  ASSUME NEW args, IsCall(args), NEW n \in 1..Len(args), NEW names, NEW values,
         NEW t \in Expansions(args[n], names, values)
  PROVE  t \in Seq(Passable(args, names, values))
<1> DEFINE X == Passable(args, names, values)
           Empty == <<>>
<1>1. Split(args, n, names, values, t)
  BY ExpansionIs, Zenon
<1>2. args[n] \in X
  BY Zenon DEF Passable
<1>3. \A k \in names \cup {""}, x \in values : Given(k, x) \in X
  BY GivenIs, Zenon
<1>4. \A k \in names \cup {""}, x \in values : Lone(k, x) \in Seq(X)
  <2>1. \A b \in X : <<b>> \in Seq(X)
    <3> HIDE DEF X
    <3> QED OBVIOUS
  <2>2. QED
    BY <1>3, <2>1, Zenon DEF Lone
<1>5. \A x \in values, y \in values : Twice(x, y) \in Seq(X)
  <2>1. \A b \in X, c \in X : <<b, c>> \in Seq(X)
    <3> HIDE DEF X
    <3> QED OBVIOUS
  <2>2. "" \in names \cup {""}
    OBVIOUS
  <2>3. QED
    BY <1>3, <2>1, <2>2, Zenon DEF Twice
<1>6. OneOf(args[n]) \in Seq(X)
  <2>1. \A b \in X : <<b>> \in Seq(X)
    <3> HIDE DEF X
    <3> QED OBVIOUS
  <2>2. QED
    BY <1>2, <2>1, Zenon DEF OneOf
<1>7. <<>> \in Seq(X)
  BY EmptySeq
<1>8. Blank \in names \cup {""} /\ names \subseteq names \cup {""}
  BY DEF Blank
<1> HIDE DEF X
<1>9. \/ t = OneOf(args[n]) \/ t = <<>> \/ (\E x \in values : t = Lone(Blank, x))
      \/ (\E x \in values, y \in values : t = Twice(x, y))
      \/ \E k \in names \cup {""}, x \in values : t = Lone(k, x)
  BY <1>1, <1>8, Zenon DEF Split
<1>10. t \in Seq(X)
  BY <1>4, <1>5, <1>6, <1>7, <1>8, <1>9, Zenon
<1>11. QED
  BY <1>10 DEF X

Joined(S, E) == {s \o t : s \in S, t \in E}

LEMMA JoinedIs ==
  ASSUME NEW S, NEW E, NEW u \in Joined(S, E) PROVE \E s \in S, t \in E : u = s \o t
  BY SMT DEF Joined

PassedBy(upTo, args, names, values) ==
  upTo = [n \in 0..Len(args) |->
            IF n = 0 THEN {<<>>}
            ELSE {s \o t : s \in upTo[n - 1], t \in Expansions(args[n], names, values)}]

LEMMA PassedByIs ==
  ASSUME NEW upTo, NEW args, NEW names, NEW values
  PROVE  PassedBy(upTo, args, names, values)
           <=> upTo = [n \in 0..Len(args) |->
                         IF n = 0 THEN {<<>>}
                         ELSE Joined(upTo[n - 1], Expansions(args[n], names, values))]
  BY DEF PassedBy, Joined

LEMMA PassedIs ==
  ASSUME NEW args, NEW names, NEW values
  PROVE  Passed(args, names, values) = (CHOOSE g : PassedBy(g, args, names, values))[Len(args)]
  BY SMT DEF Passed, PassedBy

LEMMA PassedDefined ==
  ASSUME NEW args, IsCall(args), NEW names, NEW values
  PROVE  \E upTo : PassedBy(upTo, args, names, values)
<1> DEFINE L == Len(args)
           S == SUBSET Seq(Passable(args, names, values))
           step == [a \in (0..L) \X Tables(L, S) |->
                      IF a[1] = 0 THEN {<<>>}
                      ELSE Joined(a[2][a[1] - 1], Expansions(args[a[1]], names, values))]
<1>1. L \in Nat
  BY LenProperties DEF IsCall
<1>2. ASSUME NEW k \in 0..L, NEW h \in [0..k - 1 -> S]
      PROVE  /\ step[<<k, h>>] = IF k = 0 THEN {<<>>}
                                 ELSE Joined(h[k - 1], Expansions(args[k], names, values))
             /\ step[<<k, h>>] \in S
  <2>1. <<k, h>> \in (0..L) \X Tables(L, S) /\ <<k, h>>[1] = k /\ <<k, h>>[2] = h
    BY PairIs
  <2> HIDE DEF L, S
  <2>2. step[<<k, h>>] = IF k = 0 THEN {<<>>}
                         ELSE Joined(h[k - 1], Expansions(args[k], names, values))
    BY <2>1
  <2>3. ASSUME k # 0, NEW u \in Joined(h[k - 1], Expansions(args[k], names, values))
        PROVE  u \in Seq(Passable(args, names, values))
    <3>1. k \in 1..Len(args) /\ k - 1 \in 0..k - 1
      BY <1>1, <2>3 DEF L
    <3>2. PICK s \in h[k - 1], t \in Expansions(args[k], names, values) : u = s \o t
      BY <2>3, JoinedIs
    <3>3. h[k - 1] \in S
      BY <3>1
    <3>4. s \in Seq(Passable(args, names, values))
      BY <3>2, <3>3, Zenon DEF S
    <3>5. t \in Seq(Passable(args, names, values))
      BY <3>1, <3>2, ExpansionListed, Zenon
    <3>6. QED
      BY <3>2, <3>4, <3>5, ConcatProperties
  <2>4. k # 0 => Joined(h[k - 1], Expansions(args[k], names, values)) \in S
    BY <2>3, Zenon DEF S
  <2>5. {<<>>} \in S
    BY EmptySeq DEF S
  <2> HIDE DEF step
  <2>6. QED
    BY <2>2, <2>4, <2>5, Zenon
<1> HIDE DEF step, S
<1>3. PICK g \in [0..L -> S] : Follows(g, L, step)
  <2>1. \A k \in 0..L : \A h \in [0..k - 1 -> S] : step[<<k, h>>] \in S
    BY <1>2
  <2> HIDE DEF L
  <2>2. QED
    BY <1>1, <2>1, HistoryExists
<1>4. ASSUME NEW k \in 0..L
      PROVE  g[k] = IF k = 0 THEN {<<>>} ELSE Joined(g[k - 1], Expansions(args[k], names, values))
  <2> DEFINE h == [m \in 0..k - 1 |-> g[m]]
  <2>1. h \in [0..k - 1 -> S] /\ (k # 0 => h[k - 1] = g[k - 1])
    BY <1>1
  <2>2. g[k] = step[<<k, h>>]
    BY <1>3 DEF Follows, Earlier
  <2> HIDE DEF h, L
  <2>3. QED
    BY <1>2, <2>1, <2>2
<1>5. PassedBy(g, args, names, values)
  <2>1. g = [k \in 0..L |-> g[k]]
    BY <1>3
  <2>2. QED
    BY <1>4, <2>1, PassedByIs, Zenon
<1>6. QED
  BY <1>5

LEMMA NothingStands == ASSUME NEW args PROVE Stands(<<>>, args, 0)
<1> DEFINE Empty == <<>>
<1>1. Len(Empty) = 0 /\ 1..0 = {}
  BY EmptySeq
<1> HIDE DEF Empty
<1>2. KeylessIn(Empty) = {} /\ KeyedIn(Empty) = {}
  BY <1>1 DEF KeylessIn, KeyedIn
<1>3. PositionalUpTo(args, 0) = {} /\ NamedUpTo(args, 0) = {}
  BY <1>1 DEF PositionalUpTo, NamedUpTo
<1>4. Cardinality({}) = 0
  BY FS_EmptySet
<1>5. Counts(Empty, args, 0)
  <2>1. /\ Cardinality(KeylessIn(Empty)) >= Cardinality(PositionalUpTo(args, 0))
        /\ Cardinality(KeyedIn(Empty)) >= Cardinality(NamedUpTo(args, 0))
    BY <1>2, <1>3, <1>4
  <2>2. QED
    BY <1>2, <1>3, <2>1, Zenon DEF Counts
<1>6. Stands(Empty, args, 0)
  BY <1>2, <1>3, <1>5, Zenon DEF Stands
<1>7. QED
  BY <1>6, Zenon DEF Empty

NamesAll(args, names) == DoubleIn(args) => "" \notin names

\* Whatever a call may really pass stands for its arguments.
LEMMA PassedStands ==
  ASSUME NEW args, IsCall(args), NEW names, NEW values, NamesAll(args, names),
         NEW s \in Passed(args, names, values)
  PROVE  s \in Seq(Passable(args, names, values)) /\ Stands(s, args, Len(args))
<1> DEFINE L == Len(args)
           upTo == CHOOSE g : PassedBy(g, args, names, values)
           Right(r, k) == r \in Seq(Passable(args, names, values)) /\ Stands(r, args, k)
           C == {k \in 0..L : \A r \in upTo[k] : Right(r, k)}
<1>1. L \in Nat
  BY LenProperties DEF IsCall
<1>2. PassedBy(upTo, args, names, values)
  BY PassedDefined, Zenon
<1>3. Passed(args, names, values) = upTo[L]
  BY PassedIs, Zenon
<1> HIDE DEF upTo
<1> HIDE DEF L, C
<1>4. ASSUME NEW k \in 0..L
      PROVE  upTo[k] = IF k = 0 THEN {<<>>}
                       ELSE Joined(upTo[k - 1], Expansions(args[k], names, values))
  <2>1. upTo = [n \in 0..L |-> IF n = 0 THEN {<<>>}
                              ELSE Joined(upTo[n - 1], Expansions(args[n], names, values))]
    BY <1>2, PassedByIs, Zenon DEF L
  <2>2. QED
    BY <2>1
<1>5. 0 \in C
  <2>1. 0 \in 0..L
    BY <1>1
  <2>2. upTo[0] = {<<>>}
    BY <1>4, <2>1, Zenon
  <2>3. Right(<<>>, 0)
    BY NothingStands, EmptySeq
  <2> HIDE DEF Right
  <2>4. QED
    BY <2>1, <2>2, <2>3, Zenon DEF C
<1>6. ASSUME NEW k \in 0..L, k # L, k \in C PROVE k + 1 \in C
  <2>1. k \in Nat /\ k + 1 \in 0..L /\ (k + 1) - 1 = k /\ k + 1 # 0 /\ k + 1 \in 1..L
    BY <1>1, <1>6
  <2>2. upTo[k + 1] = Joined(upTo[k], Expansions(args[k + 1], names, values))
    BY <1>4, <2>1, Zenon
  <2>3. ASSUME NEW u \in upTo[k + 1] PROVE Right(u, k + 1)
    <3>1. PICK r \in upTo[k], t \in Expansions(args[k + 1], names, values) : u = r \o t
      <4>1. u \in Joined(upTo[k], Expansions(args[k + 1], names, values))
        BY <2>2, <2>3, Zenon
      <4>2. QED
        BY <4>1, JoinedIs
    <3>2. Right(r, k)
      BY <1>6, <3>1, Zenon DEF C
    <3>3. Right(r \o t, k + 1)
      BY <2>1, <3>1, <3>2, ExpansionStands, Zenon DEF L, NamesAll
    <3>4. QED
      BY <3>1, <3>3, Zenon
  <2> HIDE DEF Right
  <2>4. QED
    BY <2>1, <2>3, Zenon DEF C
<1>7. L \in C
  BY <1>1, <1>5, <1>6, CountsUp
<1>8. Right(s, L)
  <2> HIDE DEF Right
  <2> QED
    BY <1>3, <1>7, Zenon DEF C
<1>9. QED
  BY <1>8 DEF L

KeyOf(a) == a.key
PassedValue(a) == a.value
NamedIn(args) == NamedUpTo(args, Len(args))
PositionalIn(args) == PositionalUpTo(args, Len(args))
Keys(args) == {KeyOf(args[n]) : n \in NamedIn(args)}

LEMMA NamedInIs ==
  ASSUME NEW args, IsCall(args)
  PROVE  /\ NamedIn(args) = {n \in 1..Len(args) : args[n].star = "" /\ args[n].key # ""}
         /\ NamedIn(args) \in SUBSET (1..Len(args)) /\ Len(args) \in Nat
         /\ Cardinality(NamedIn(args)) \in Nat /\ IsFiniteSet(NamedIn(args))
         /\ Cardinality(PositionalIn(args)) \in Nat
         /\ Len(Positional(args)) = Cardinality(PositionalIn(args))
<1>1. Len(args) \in Nat
  BY LenProperties DEF IsCall
<1>2. NamedIn(args) = {n \in 1..Len(args) : args[n].star = "" /\ args[n].key # ""}
  BY Zenon DEF NamedIn, NamedUpTo
<1>3. NamedIn(args) \in SUBSET (1..Len(args))
  BY <1>2, Zenon
<1>4. /\ IsFiniteSet(NamedIn(args)) /\ Cardinality(NamedIn(args)) \in Nat
      /\ Cardinality(PositionalIn(args)) \in Nat
  BY <1>1, UpToIs, Zenon DEF NamedIn, PositionalIn
<1>5. Len(Positional(args)) = Cardinality(PositionalIn(args))
  BY PositionalIs, Zenon DEF IsCall, PositionalIn
<1>6. QED
  BY <1>1, <1>2, <1>3, <1>4, <1>5, Zenon

LatestOf(args, k) ==
  LET same == {n \in NamedIn(args) : KeyOf(args[n]) = k} IN CHOOSE n \in same : \A m \in same : m <= n

LEMMA LatestIs ==
  ASSUME NEW args, IsCall(args), NEW k \in Keys(args)
  PROVE  LatestOf(args, k) \in NamedIn(args) /\ KeyOf(args[LatestOf(args, k)]) = k
<1> DEFINE same == {n \in NamedIn(args) : KeyOf(args[n]) = k}
<1>1. same # {} /\ same \in SUBSET NamedIn(args)
  BY Zenon DEF Keys
<1>2. Len(args) \in Nat /\ same \in SUBSET (0..Len(args))
  <2>1. Len(args) \in Nat /\ NamedIn(args) \in SUBSET (1..Len(args))
    BY NamedInIs, Zenon
  <2> DEFINE L == Len(args)
  <2> HIDE DEF same, L
  <2>2. L \in Nat /\ same \in SUBSET (1..L)
    BY <1>1, <2>1, Zenon DEF L
  <2>3. L \in Nat /\ same \in SUBSET (0..L)
    BY <2>2
  <2>4. QED
    BY <2>3, Zenon DEF L
<1> HIDE DEF same
<1>3. \E n \in same : \A m \in same : m <= n
  BY <1>1, <1>2, GreatestElement, Zenon
<1>4. LatestOf(args, k) \in same
  BY <1>3, Zenon DEF LatestOf, same
<1>5. QED
  BY <1>4, Zenon DEF same

\* What call_arguments collects.
Collected(args, collected) ==
  /\ collected.positional = Positional(args)
  /\ DOMAIN collected.keywords = Keys(args)
  /\ \A k \in Keys(args) : collected.keywords[k] = PassedValue(args[LatestOf(args, k)])
  /\ collected.starred <=> StarIn(args)
  /\ collected.doubleStarred <=> DoubleIn(args)
  /\ collected.duplicate <=> Cardinality(Keys(args)) # Cardinality(NamedIn(args))

KeywordsOf(args) == [k \in Keys(args) |-> PassedValue(args[LatestOf(args, k)])]

LEMMA ArgumentsAre ==
  ASSUME NEW args, IsCall(args) PROVE Collected(args, Arguments(args))
<1>1. Arguments(args) =
        [positional |-> Positional(args), keywords |-> KeywordsOf(args),
         starred |-> StarIn(args), doubleStarred |-> DoubleIn(args),
         duplicate |-> Cardinality(Keys(args)) # Cardinality(NamedIn(args))]
  BY Zenon DEF Arguments, KeywordsOf, Keys, NamedIn, NamedUpTo, LatestOf, KeyOf, PassedValue, StarIn,
     DoubleIn
<1>2. /\ Arguments(args).positional = Positional(args)
      /\ Arguments(args).keywords = KeywordsOf(args)
      /\ Arguments(args).starred = StarIn(args)
      /\ Arguments(args).doubleStarred = DoubleIn(args)
      /\ Arguments(args).duplicate = (Cardinality(Keys(args)) # Cardinality(NamedIn(args)))
  BY <1>1
<1>3. /\ DOMAIN KeywordsOf(args) = Keys(args)
      /\ \A k \in Keys(args) : KeywordsOf(args)[k] = PassedValue(args[LatestOf(args, k)])
  BY DEF KeywordsOf
<1>4. QED
  BY <1>2, <1>3, Zenon DEF Collected

IsShape(shape) == shape \in ShapeForm

LEMMA ShapeIs ==
  ASSUME NEW shape, IsShape(shape)
  PROVE  /\ shape.minPositional \in LimitForm /\ shape.maxPositional \in LimitForm
         /\ shape.minKeywords \in LimitForm /\ shape.maxKeywords \in LimitForm
         /\ shape.literals \in SUBSET LiteralForm
  BY DEF IsShape, ShapeForm

LEMMA LiteralIs ==
  ASSUME NEW l \in LiteralForm
  PROVE  l.position \in LimitForm /\ l.equals.kind # "other"
  BY DEF LiteralForm

\* What a rule says of the numbers of arguments.
CountsFit(positional, keywords, shape) ==
  /\ AtLeast(positional, shape.minPositional) /\ AtMost(positional, shape.maxPositional)
  /\ AtLeast(keywords, shape.minKeywords) /\ AtMost(keywords, shape.maxKeywords)

\* The shape, of a call all of whose arguments are seen.
NamesFit(s, shape) ==
  /\ \A k \in shape.required : \E n \in KeyedIn(s) : KeyOf(s[n]) = k
  /\ \A n \in KeyedIn(s) : KeyOf(s[n]) \notin shape.forbidden

NthIn(s, p) == CHOOSE n \in KeylessIn(s) : RankIn(KeylessIn(s), n) = p

LiteralFits(s, l) ==
  IF l.position # Unlimited
  THEN Cardinality(KeylessIn(s)) > l.position /\ PassedValue(s[NthIn(s, l.position)]) = l.equals
  ELSE \E n \in KeyedIn(s) : KeyOf(s[n]) = l.keyword /\ PassedValue(s[n]) = l.equals

LEMMA FitsIs ==
  ASSUME NEW s, NEW shape
  PROVE  Fits(s, shape) <=>
           /\ CountsFit(Cardinality(KeylessIn(s)), Cardinality(KeyedIn(s)), shape)
           /\ NamesFit(s, shape)
           /\ \A l \in shape.literals : LiteralFits(s, l)
  BY Zenon DEF Fits, CountsFit, AtLeast, AtMost, NamesFit, LiteralFits, NthIn, RankIn, KeylessIn,
     KeyedIn, KeyOf, PassedValue

\* The shape, of a call as it is written.
LiteralSeen(args, l) ==
  IF l.position # Unlimited
  THEN /\ l.position < Len(Positional(args))
       /\ LiteralEquals(PassedValue(Positional(args)[l.position + 1]), l.equals)
  ELSE /\ l.keyword \in Keys(args)
       /\ LiteralEquals(PassedValue(args[LatestOf(args, l.keyword)]), l.equals)

Seen(args, shape) ==
  /\ Cardinality(Keys(args)) = Cardinality(NamedIn(args))
  /\ StarIn(args) => shape.maxPositional = Unlimited /\ \A l \in shape.literals : l.position = Unlimited
  /\ CountsFit(Len(Positional(args)), Cardinality(Keys(args)), shape)
  /\ shape.required \subseteq Keys(args)
  /\ shape.forbidden \cap Keys(args) = {}
  /\ DoubleIn(args) => shape.maxKeywords = Unlimited /\ shape.forbidden = {}
  /\ \A l \in shape.literals : LiteralSeen(args, l)

LEMMA ShapeMatchesIs ==
  ASSUME NEW args, IsCall(args), NEW shape PROVE ShapeMatches(args, shape) <=> Seen(args, shape)
<1> DEFINE c == Arguments(args)
<1>1. Collected(args, c)
  BY ArgumentsAre, Zenon
<1>2. ShapeMatches(args, shape) <=>
        ~c.duplicate /\ PositionalShape(c, shape) /\ KeywordShape(c, shape) /\ LiteralShape(c, shape)
  BY Zenon DEF ShapeMatches
<1> HIDE DEF c
<1>3. ~c.duplicate <=> Cardinality(Keys(args)) = Cardinality(NamedIn(args))
  BY <1>1, Zenon DEF Collected
<1>4. PositionalShape(c, shape) <=>
        /\ StarIn(args) => /\ shape.maxPositional = Unlimited
                           /\ \A l \in shape.literals : l.position = Unlimited
        /\ AtLeast(Len(Positional(args)), shape.minPositional)
        /\ AtMost(Len(Positional(args)), shape.maxPositional)
  BY <1>1, Zenon DEF Collected, PositionalShape
<1>5. KeywordShape(c, shape) <=>
        /\ AtLeast(Cardinality(Keys(args)), shape.minKeywords)
        /\ AtMost(Cardinality(Keys(args)), shape.maxKeywords)
        /\ shape.required \subseteq Keys(args)
        /\ shape.forbidden \cap Keys(args) = {}
        /\ DoubleIn(args) => shape.maxKeywords = Unlimited /\ shape.forbidden = {}
  BY <1>1, Zenon DEF Collected, KeywordShape
<1>6. LiteralShape(c, shape) <=> \A l \in shape.literals : LiteralSeen(args, l)
  <2>1. ASSUME NEW l \in shape.literals
        PROVE  (IF l.position # Unlimited
                THEN /\ l.position < Len(c.positional)
                     /\ LiteralEquals(c.positional[l.position + 1].value, l.equals)
                ELSE /\ l.keyword \in DOMAIN c.keywords
                     /\ LiteralEquals(c.keywords[l.keyword], l.equals))
               <=> LiteralSeen(args, l)
    <3>1. CASE l.position # Unlimited
      BY <1>1, <3>1, Zenon DEF Collected, LiteralSeen, PassedValue
    <3>2. CASE l.position = Unlimited
      <4>1. DOMAIN c.keywords = Keys(args)
        BY <1>1, Zenon DEF Collected
      <4>2. ASSUME l.keyword \in Keys(args)
            PROVE  c.keywords[l.keyword] = PassedValue(args[LatestOf(args, l.keyword)])
        BY <1>1, <4>2, Zenon DEF Collected
      <4>3. QED
        BY <3>2, <4>1, <4>2, Zenon DEF LiteralSeen
    <3>3. QED
      BY <3>1, <3>2, Zenon
  <2>2. LiteralShape(c, shape) <=>
          \A l \in shape.literals :
            IF l.position # Unlimited
            THEN /\ l.position < Len(c.positional)
                 /\ LiteralEquals(c.positional[l.position + 1].value, l.equals)
            ELSE /\ l.keyword \in DOMAIN c.keywords
                 /\ LiteralEquals(c.keywords[l.keyword], l.equals)
    BY Zenon DEF LiteralShape
  <2>3. QED
    BY <2>1, <2>2, Zenon
<1>7. QED
  BY <1>2, <1>3, <1>4, <1>5, <1>6, Zenon DEF Seen, CountsFit

LEMMA NthIs ==
  ASSUME NEW k \in Nat, NEW s, KeylessIn(s) \in SUBSET (1..k), NEW p \in Nat,
         p < Cardinality(KeylessIn(s))
  PROVE  NthIn(s, p) \in KeylessIn(s) /\ RankIn(KeylessIn(s), NthIn(s, p)) = p
<1>1. \E n \in KeylessIn(s) : RankIn(KeylessIn(s), n) = p
  <2>1. \A B \in SUBSET (1..k) : p < Cardinality(B) => \E n \in B : RankIn(B, n) = p
    BY RankOnto
  <2>2. QED
    BY <2>1, Zenon
<1>2. QED
  BY <1>1, Zenon DEF NthIn

\* A call that has the shape has it whatever its stars stand for.
LEMMA ShapeProven ==
  ASSUME NEW args, IsCall(args), NEW shape, IsShape(shape), ShapeMatches(args, shape)
  PROVE  SurelyFits(args, shape)
<1> DEFINE names == {"fresh"} \cup shape.required \cup shape.forbidden
<1>1. Seen(args, shape)
  BY ShapeMatchesIs, Zenon
<1>2. \A n \in NamedIn(args) : KeyOf(args[n]) # ""
  BY NamedInIs, Zenon DEF KeyOf
<1>3. NamesAll(args, names)
  <2>1. CASE DoubleIn(args)
    <3>1. shape.forbidden = {} /\ shape.required \subseteq Keys(args)
      BY <1>1, <2>1, Zenon DEF Seen
    <3>2. "" \notin Keys(args)
      BY <1>2, Zenon DEF Keys
    <3>3. "" # "fresh"
      OBVIOUS
    <3>4. "" \notin names
      BY <3>1, <3>2, <3>3, Zenon
    <3>5. QED
      BY <3>4, Zenon DEF NamesAll
  <2>2. QED
    BY <2>1, Zenon DEF NamesAll
<1> HIDE DEF names
<1>4. ASSUME NEW values, NEW s \in Passed(args, names, values) PROVE Fits(s, shape)
  <2>1. s \in Seq(Passable(args, names, values)) /\ Stands(s, args, Len(args))
    BY <1>3, PassedStands, Zenon
  <2> DEFINE P == Cardinality(KeylessIn(s))
             K == Cardinality(KeyedIn(s))
             P0 == Cardinality(PositionalIn(args))
             K0 == Cardinality(NamedIn(args))
  <2>2. /\ Len(s) \in Nat /\ KeylessIn(s) \in SUBSET (1..Len(s))
        /\ P \in Nat /\ K \in Nat
    BY <2>1, PartsAre
  <2>3. /\ P0 \in Nat /\ K0 \in Nat /\ Len(Positional(args)) = P0
        /\ Cardinality(Keys(args)) = K0
    <3>1. Cardinality(Keys(args)) = K0
      BY <1>1, Zenon DEF Seen
    <3>2. QED
      BY <3>1, NamedInIs, Zenon
  <2>4. /\ P >= P0 /\ K >= K0
        /\ ~StarIn(args) => P = P0
        /\ ~DoubleIn(args) => K = K0
    BY <2>1, StandsParts, Zenon DEF Counts, PositionalIn, NamedIn
  <2>5. CountsFit(P, K, shape)
    <3>1. CountsFit(P0, K0, shape)
      BY <1>1, <2>3, Zenon DEF Seen
    <3>2. /\ StarIn(args) => shape.maxPositional = Unlimited
          /\ DoubleIn(args) => shape.maxKeywords = Unlimited
      BY <1>1, Zenon DEF Seen
    <3> HIDE DEF P, K, P0, K0
    <3>3. AtLeast(P, shape.minPositional)
      BY <2>2, <2>3, <2>4, <3>1, ShapeIs DEF CountsFit, AtLeast, LimitForm, Unlimited
    <3>4. AtLeast(K, shape.minKeywords)
      BY <2>2, <2>3, <2>4, <3>1, ShapeIs DEF CountsFit, AtLeast, LimitForm, Unlimited
    <3>5. AtMost(P, shape.maxPositional)
      BY <2>4, <3>1, <3>2, Zenon DEF CountsFit, AtMost
    <3>6. AtMost(K, shape.maxKeywords)
      BY <2>4, <3>1, <3>2, Zenon DEF CountsFit, AtMost
    <3>7. QED
      BY <3>3, <3>4, <3>5, <3>6, Zenon DEF CountsFit
  <2>6. /\ \A n \in NamedIn(args) : \E m \in KeyedIn(s) : s[m] = args[n]
        /\ ~DoubleIn(args) => \A m \in KeyedIn(s) : \E n \in NamedIn(args) : s[m] = args[n]
        /\ ~StarIn(args) =>
             \A m \in KeylessIn(s) : s[m] = Positional(args)[RankIn(KeylessIn(s), m) + 1]
    <3>1. /\ \A n \in NamedUpTo(args, Len(args)) : \E m \in KeyedIn(s) : s[m] = args[n]
          /\ ~DoubleIn(args) => \A m \in KeyedIn(s) : \E n \in NamedUpTo(args, Len(args)) : s[m] = args[n]
          /\ ~StarIn(args) =>
               \A m \in KeylessIn(s) : s[m] = Positional(args)[RankIn(KeylessIn(s), m) + 1]
      BY <2>1, StandsParts
    <3>2. QED
      BY <3>1, Zenon DEF NamedIn
  <2>7. ASSUME NEW k \in Keys(args)
        PROVE  \E m \in KeyedIn(s) : /\ KeyOf(s[m]) = k
                                     /\ PassedValue(s[m]) = PassedValue(args[LatestOf(args, k)])
    <3> DEFINE n == LatestOf(args, k)
    <3>1. n \in NamedIn(args) /\ KeyOf(args[n]) = k
      BY LatestIs, Zenon
    <3> HIDE DEF n
    <3>2. PICK m \in KeyedIn(s) : s[m] = args[n]
      BY <2>6, <3>1, Zenon
    <3>3. QED
      BY <3>1, <3>2, Zenon DEF n
  <2>8. NamesFit(s, shape)
    <3>1. ASSUME NEW k \in shape.required PROVE \E n \in KeyedIn(s) : KeyOf(s[n]) = k
      BY <1>1, <2>7, Zenon DEF Seen
    <3>2. ASSUME NEW m \in KeyedIn(s) PROVE KeyOf(s[m]) \notin shape.forbidden
      <4>1. CASE DoubleIn(args)
        BY <1>1, <4>1, Zenon DEF Seen
      <4>2. CASE ~DoubleIn(args)
        <5>1. KeyOf(s[m]) \in Keys(args)
          BY <2>6, <4>2, Zenon DEF Keys
        <5>2. QED
          BY <1>1, <5>1, Zenon DEF Seen
      <4>3. QED
        BY <4>1, <4>2
    <3>3. QED
      BY <3>1, <3>2, Zenon DEF NamesFit
  <2>9. ASSUME NEW l \in shape.literals PROVE LiteralFits(s, l)
    <3>1. LiteralSeen(args, l)
      BY <1>1, Zenon DEF Seen
    <3>2. CASE l.position # Unlimited
      <4>1. ~StarIn(args)
        BY <1>1, <3>2, Zenon DEF Seen
      <4>2. l.position < P0 /\ LiteralEquals(PassedValue(Positional(args)[l.position + 1]), l.equals)
        BY <2>3, <3>1, <3>2, Zenon DEF LiteralSeen
      <4>3. l.position \in Nat
        <5>1. l.position \in LimitForm
          BY ShapeIs, LiteralIs, Zenon
        <5>2. QED
          BY <3>2, <5>1, Zenon DEF LimitForm
      <4>4. P = P0
        BY <2>4, <4>1
      <4> DEFINE p == l.position
                 n == NthIn(s, p)
      <4>5. n \in KeylessIn(s) /\ RankIn(KeylessIn(s), n) = p
        BY <2>2, <4>2, <4>3, <4>4, NthIs, Zenon
      <4>6. PassedValue(s[n]) = l.equals
        BY <2>6, <4>1, <4>2, <4>5, Zenon DEF LiteralEquals
      <4>7. P > p
        <5> HIDE DEF P, P0, p
        <5> QED
          BY <4>2, <4>4 DEF p
      <4>8. QED
        BY <3>2, <4>6, <4>7, Zenon DEF LiteralFits
    <3>3. CASE l.position = Unlimited
      <4>1. /\ l.keyword \in Keys(args)
            /\ PassedValue(args[LatestOf(args, l.keyword)]) = l.equals
        BY <3>1, <3>3, Zenon DEF LiteralSeen, LiteralEquals
      <4>2. \E n \in KeyedIn(s) : KeyOf(s[n]) = l.keyword /\ PassedValue(s[n]) = l.equals
        BY <2>7, <4>1, Zenon
      <4>3. QED
        BY <3>3, <4>2, Zenon DEF LiteralFits
    <3>4. QED
      BY <3>2, <3>3
  <2>10. QED
    BY <2>5, <2>8, <2>9, FitsIs, Zenon
<1>5. QED
  BY <1>4, Zenon DEF SurelyFits, names

\* A call without stars is what it passes.
LEMMA UnstarredIs ==
  ASSUME NEW args, IsCall(args), Unstarred(args)
  PROVE  /\ KeylessIn(args) = PositionalIn(args) /\ KeyedIn(args) = NamedIn(args)
         /\ ~StarIn(args) /\ ~DoubleIn(args)
<1>1. \A n \in 1..Len(args) : args[n].star = ""
  BY Zenon DEF Unstarred
<1>2. KeylessIn(args) = PositionalIn(args) /\ KeyedIn(args) = NamedIn(args)
  BY <1>1, Zenon DEF KeylessIn, KeyedIn, PositionalIn, PositionalUpTo, NamedIn, NamedUpTo
<1>3. "" # "*" /\ "" # "**"
  OBVIOUS
<1>4. QED
  BY <1>1, <1>2, <1>3, Zenon DEF StarIn, DoubleIn

\* When no name is passed twice, there are as many names as there are named arguments.
LEMMA OneNameEach ==
  ASSUME NEW args, IsCall(args), Legal(args)
  PROVE  /\ Cardinality(Keys(args)) = Cardinality(NamedIn(args))
         /\ \A m \in NamedIn(args), n \in NamedIn(args) : KeyOf(args[m]) = KeyOf(args[n]) => m = n
<1>1. \A n \in NamedIn(args) : n \in 1..Len(args) /\ KeyOf(args[n]) # ""
  BY NamedInIs, Zenon DEF KeyOf
<1>2. \A m \in NamedIn(args), n \in NamedIn(args) : KeyOf(args[m]) = KeyOf(args[n]) => m = n
  BY <1>1, Zenon DEF Legal, KeyOf
<1> DEFINE key == [n \in NamedIn(args) |-> KeyOf(args[n])]
<1>3. key \in Surjection(NamedIn(args), Keys(args))
  <2>1. key \in [NamedIn(args) -> Keys(args)]
    BY DEF Keys
  <2>2. \A k \in Keys(args) : \E n \in NamedIn(args) : key[n] = k
    BY DEF Keys
  <2> HIDE DEF key
  <2>3. QED
    BY <2>1, <2>2, Zenon DEF Surjection
<1>4. key \in Injection(NamedIn(args), Keys(args))
  <2>1. key \in [NamedIn(args) -> Keys(args)]
    BY DEF Keys
  <2>2. \A m \in NamedIn(args), n \in NamedIn(args) : key[m] = key[n] => m = n
    BY <1>2
  <2> HIDE DEF key
  <2>3. QED
    BY <2>1, <2>2, Zenon DEF Injection, IsInjective
<1>5. IsFiniteSet(NamedIn(args))
  BY NamedInIs, Zenon
<1> HIDE DEF key
<1>6. Cardinality(Keys(args)) = Cardinality(NamedIn(args))
  BY <1>3, <1>4, <1>5, FS_Surjection, Zenon
<1>7. QED
  BY <1>2, <1>6

\* A legal call without stars that the rule is about is seen to have its shape.
LEMMA ShapeFound ==
  ASSUME NEW args, IsCall(args), NEW shape, IsShape(shape),
         Unstarred(args), Legal(args), Fits(args, shape)
  PROVE  ShapeMatches(args, shape)
<1>1. /\ KeylessIn(args) = PositionalIn(args) /\ KeyedIn(args) = NamedIn(args)
      /\ ~StarIn(args) /\ ~DoubleIn(args)
  BY UnstarredIs, Zenon
<1>2. /\ Cardinality(Keys(args)) = Cardinality(NamedIn(args))
      /\ \A m \in NamedIn(args), n \in NamedIn(args) : KeyOf(args[m]) = KeyOf(args[n]) => m = n
  BY OneNameEach, Zenon
<1>3. /\ CountsFit(Cardinality(KeylessIn(args)), Cardinality(KeyedIn(args)), shape)
      /\ NamesFit(args, shape)
      /\ \A l \in shape.literals : LiteralFits(args, l)
  BY FitsIs, Zenon
<1>4. Len(Positional(args)) = Cardinality(PositionalIn(args))
  BY NamedInIs, Zenon
<1>5. CountsFit(Len(Positional(args)), Cardinality(Keys(args)), shape)
  BY <1>1, <1>2, <1>3, <1>4, Zenon
<1>6. shape.required \subseteq Keys(args) /\ shape.forbidden \cap Keys(args) = {}
  BY <1>1, <1>3, Zenon DEF NamesFit, Keys
<1>7. ASSUME NEW l \in shape.literals PROVE LiteralSeen(args, l)
  <2>1. LiteralFits(args, l)
    BY <1>3
  <2>2. l.position \in LimitForm /\ l.equals.kind # "other"
    BY ShapeIs, LiteralIs, Zenon
  <2>3. CASE l.position # Unlimited
    <3> DEFINE p == l.position
               n == NthIn(args, p)
               C == Cardinality(KeylessIn(args))
    <3>1. C > p /\ PassedValue(args[n]) = l.equals
      BY <2>1, <2>3, Zenon DEF LiteralFits
    <3>2. p \in Nat
      BY <2>2, <2>3, Zenon DEF LimitForm
    <3>3. KeylessIn(args) \in SUBSET (1..Len(args)) /\ Len(args) \in Nat /\ C \in Nat
      BY PartsAre, Zenon DEF IsCall
    <3>4. p < C
      <4> HIDE DEF p, C, n
      <4> QED
        BY <3>1, <3>2, <3>3
    <3>5. n \in KeylessIn(args) /\ RankIn(KeylessIn(args), n) = p
      BY <3>2, <3>3, <3>4, NthIs, Zenon
    <3>6. Positional(args)[p + 1] = args[n]
      <4> HIDE DEF n
      <4>1. \A m \in PositionalIn(args) : Positional(args)[RankIn(PositionalIn(args), m) + 1] = args[m]
        BY PositionalIs, Zenon DEF IsCall, PositionalIn
      <4>2. QED
        BY <1>1, <3>5, <4>1, Zenon
    <3>7. p < Len(Positional(args))
      BY <1>1, <1>4, <3>4, Zenon
    <3>8. LiteralEquals(PassedValue(Positional(args)[p + 1]), l.equals)
      BY <2>2, <3>1, <3>6, Zenon DEF LiteralEquals
    <3>9. QED
      BY <2>3, <3>7, <3>8, Zenon DEF LiteralSeen
  <2>4. CASE l.position = Unlimited
    <3>1. PICK n \in NamedIn(args) : KeyOf(args[n]) = l.keyword /\ PassedValue(args[n]) = l.equals
      BY <1>1, <2>1, <2>4, Zenon DEF LiteralFits
    <3>2. l.keyword \in Keys(args)
      BY <3>1, Zenon DEF Keys
    <3>3. LatestOf(args, l.keyword) = n
      BY <1>2, <3>1, <3>2, LatestIs, Zenon
    <3>4. QED
      BY <2>2, <2>4, <3>1, <3>2, <3>3, Zenon DEF LiteralSeen, LiteralEquals
  <2>5. QED
    BY <2>3, <2>4
<1>8. Seen(args, shape)
  BY <1>1, <1>2, <1>5, <1>6, <1>7, Zenon DEF Seen
<1>9. QED
  BY <1>8, ShapeMatchesIs, Zenon

-----------------------------------------------------------------------------
(* What a construct is looked at with.                                      *)

LEMMA UseIs ==
  ASSUME NEW f \in Files, NEW i \in 1..Len(f.lines), Node(f, i).op \in {"use", "call"}
  PROVE  /\ Node(f, i).wraps \in Seq(WrapForm) /\ Node(f, i).path \in Dotted
         /\ Node(f, i).op = "call" => IsCall(Node(f, i).args)
<1>1. Node(f, i) \in NodeForm
  BY LineIs
<1>2. /\ Node(f, i).wraps \in Seq(WrapForm) /\ Node(f, i).path \in DottedName
      /\ Node(f, i).op = "call" => Node(f, i).args \in Seq(ArgumentForm)
  BY <1>1 DEF NodeForm
<1>3. QED
  BY <1>2, WordsAre, Zenon DEF IsCall

LEMMA RuleParts ==
  ASSUME NEW r \in Rules
  PROVE  r.name \in Dotted /\ IsShape(r.shape) /\ r.removed \in SUBSET Nat
<1>1. r \in RuleForm
  BY RulesAssumption
<1>2. r.name \in DottedName /\ r.shape \in ShapeForm /\ r.removed \in SUBSET Nat
  BY <1>1 DEF RuleForm
<1>3. QED
  BY <1>2, WordsAre, Zenon DEF IsShape

\* Where the code sees a guard by hasattr, the attribute is evaluated in spite of it.
LEMMA GuardedIs ==
  ASSUME file \in Files, at \in 1..Len(file.lines), Node(file, at).op \in {"use", "call"},
         NEW r \in Rules
  PROVE  Guarded(r) <=> Sheltered(file, at, r.name)
<1> DEFINE wraps == Node(file, at).wraps
<1>1. wraps \in Seq(WrapForm)
  BY UseIs, Zenon
<1>2. ASSUME NEW n \in 1..Len(wraps)
      PROVE  ExactHasattr(file, at, wraps[n].left, r.name)
               <=> \E atom \in wraps[n].left : Asks(file, at, atom, r.name)
  <2>1. wraps[n] \in WrapForm
    <3> HIDE DEF wraps
    <3> QED
      BY <1>1, ElementOfSeq
  <2>2. wraps[n].left \in SUBSET AtomForm
    BY <2>1 DEF WrapForm
  <2>3. r.name \in Dotted
    BY RuleParts, Zenon
  <2>4. QED
    BY <2>2, <2>3, HasattrIs, Zenon
<1>3. QED
  BY <1>2, Zenon DEF Guarded, Sheltered

\* No module of the project takes the place of a name that is classified.
LEMMA NotShadowed ==
  ASSUME file \in Files, NEW name, ~Competing(file, name) PROVE ~Shadowed(file, name)
<1>1. \A n \in file.nested : n[1] \in file.project
  BY FileIs, Zenon
<1>2. "*" \notin file.project /\ name[1] \notin file.project
  BY Zenon DEF Competing
<1>3. QED
  BY <1>1, <1>2, Zenon DEF Shadowed

\* What may prevent the k-th compound statement from letting an import run.
Told(f, i, k, v) == ImportTruth(f, i, Within(f, i)[k].test, v)
Reached(f, i, v) ==
  \A k \in 1..Len(Within(f, i)) :
    Within(f, i)[k].kind = "if" => Told(f, i, k, v) # Truth(Within(f, i)[k].branch # "body")
Certain(f, i, v) ==
  \A k \in 1..Len(Within(f, i)) :
    /\ Within(f, i)[k].kind = "if" => Told(f, i, k, v) # "unknown"
    /\ Within(f, i)[k].kind = "try" => Within(f, i)[k].branch # "handler"
    /\ Within(f, i)[k].kind = "def" => ~Within(f, i)[k].decorated

LEMMA SymbolVersionsAre ==
  ASSUME NEW f, NEW i, NEW versions
  PROVE  LET found == SymbolImportVersions(f, i, versions) IN
         /\ \A v : v \in found.reachable <=> v \in versions /\ Reached(f, i, v)
         /\ \A v : v \in found.uncertain <=> v \in found.reachable /\ ~Certain(f, i, v)
<1> DEFINE frames == Within(f, i)
           found == SymbolImportVersions(f, i, versions)
           Ifs == {k \in 1..Len(frames) : frames[k].kind = "if"}
           Prevents(k) == \/ frames[k].kind = "try" /\ frames[k].branch = "handler"
                          \/ frames[k].kind = "def" /\ frames[k].decorated
           reachable == {v \in versions :
                           \A k \in Ifs : Told(f, i, k, v) # Truth(frames[k].branch # "body")}
           uncertain == {v \in reachable : \/ \E k \in 1..Len(frames) : Prevents(k)
                                           \/ \E k \in Ifs : Told(f, i, k, v) = "unknown"}
<1>1. found = [reachable |-> reachable, uncertain |-> uncertain]
  BY Zenon DEF SymbolImportVersions, Told
<1>2. found.reachable = reachable /\ found.uncertain = uncertain
  <2> HIDE DEF found, reachable, uncertain
  <2> QED BY <1>1
<1>3. \A v : v \in reachable <=> v \in versions /\ Reached(f, i, v)
  BY Zenon DEF Reached
<1> HIDE DEF reachable
<1>4. \A v : v \in uncertain <=> v \in reachable /\ ~Certain(f, i, v)
  BY Zenon DEF Certain
<1>5. QED
  BY <1>2, <1>3, <1>4, Zenon

\* A run that is sure of its way gets to the import.
LEMMA CertainRuns ==
  ASSUME NEW f \in Files, NEW i \in 1..Len(f.lines), NEW v \in Targets,
         Reached(f, i, v), Certain(f, i, v)
  PROVE  MustRun(f, i, v)
<1> SUFFICES ASSUME NEW run \in Running(v), NEW k \in 1..Len(Within(f, i)),
                    Within(f, i)[k].kind = "if"
             PROVE  TestValues(f, i, Within(f, i)[k].test, run) = {Within(f, i)[k].branch = "body"}
  BY Zenon DEF MustRun, Certain
<1> DEFINE truth == Told(f, i, k, v)
           outcomes == TestValues(f, i, Within(f, i)[k].test, run)
           holds == Within(f, i)[k].branch = "body"
<1>1. Fit(truth, outcomes)
  <2>1. Within(f, i)[k].test \in GuardForm
    BY FrameIs, Zenon
  <2>2. QED
    BY <2>1, ImportFits, Zenon DEF Told
<1>2. truth # "unknown" /\ truth # Truth(~holds)
  BY Zenon DEF Reached, Certain
<1>3. holds \in BOOLEAN
  OBVIOUS
<1> HIDE DEF truth, outcomes, holds
<1>4. outcomes \in Outcomes /\ truth \in TruthValues /\ \A b \in outcomes : Agrees(truth, b)
  BY <1>1, Zenon DEF Fit
<1>5. outcomes \subseteq BOOLEAN /\ outcomes # {}
  BY <1>4, OutcomesAre, Zenon
<1>6. (truth = "true" /\ holds = TRUE) \/ (truth = "false" /\ holds = FALSE)
  BY <1>2, <1>3, <1>4 DEF TruthValues, Truth
<1>7. \A b \in outcomes : b = holds
  BY <1>4, <1>5, <1>6 DEF Agrees
<1>8. outcomes = {holds}
  BY <1>5, <1>7, Zenon
<1>9. QED
  BY <1>8, Zenon DEF outcomes, holds

\* A run that may get to the import is not said to be prevented.
LEMMA MayReach ==
  ASSUME NEW f \in Files, NEW i \in 1..Len(f.lines), NEW v \in Targets, MayRun(f, i, v)
  PROVE  Reached(f, i, v)
<1>1. PICK run \in Running(v) : \A k \in 1..Len(Within(f, i)) : Passes(f, i, k, run, v)
  BY Zenon DEF MayRun, Passes
<1> SUFFICES ASSUME NEW k \in 1..Len(Within(f, i)), Within(f, i)[k].kind = "if"
             PROVE  Told(f, i, k, v) # Truth(Within(f, i)[k].branch # "body")
  BY Zenon DEF Reached
<1> DEFINE truth == Told(f, i, k, v)
           outcomes == TestValues(f, i, Within(f, i)[k].test, run)
           holds == Within(f, i)[k].branch = "body"
<1>2. Fit(truth, outcomes)
  <2>1. Within(f, i)[k].test \in GuardForm
    BY FrameIs, Zenon
  <2>2. QED
    BY <2>1, ImportFits, Zenon DEF Told
<1>3. holds \in outcomes
  BY <1>1, Zenon DEF Passes
<1>4. holds \in BOOLEAN
  OBVIOUS
<1> HIDE DEF truth, outcomes, holds
<1>5. Agrees(truth, holds)
  BY <1>2, <1>3, Zenon DEF Fit
<1>6. truth # Truth(~holds)
  BY <1>4, <1>5 DEF Agrees, Truth
<1>7. QED
  BY <1>6, Zenon DEF truth, holds

-----------------------------------------------------------------------------
(* A match of high confidence is proof.                                     *)

NameKinds == {"reference", "call", "shape"}

SymbolProved(m) ==
  /\ ~Shadowed(file, m.rule.name) /\ Escapes(file, m.at)
  /\ \A v \in m.versions :
       Affected(m.rule, v) /\ (v \notin m.unknown => MustRun(file, m.at, v))

NameProved(m) ==
  /\ ~Shadowed(file, m.rule.name)
  /\ \E p \in Prefixes(Node(file, m.at).path) : Denoted(file, m.at, p) = {m.rule.name}
  /\ Sheltered(file, m.at, m.rule.name) =>
       \A v \in m.versions : m.rule.removed = {} \/ ~Affected(m.rule, v)
  /\ m.kind = "shape" => SurelyFits(Node(file, m.at).args, m.rule.shape)

Proved(m) ==
  m.confidence = "high" =>
    (m.kind = "symbol" => SymbolProved(m)) /\ (m.kind \in NameKinds => NameProved(m))

ProofInv == \A m \in matches : Proved(m)

LEMMA ProvedStays ==
  ASSUME NEW m, Proved(m), file' = file PROVE Proved(m)'
  BY DEF Proved, SymbolProved, NameProved

LEMMA ProofHere == ASSUME ProofInv PROVE HighIsProven
<1> SUFFICES ASSUME NEW m \in matches, m.confidence = "high"
             PROVE  CASE m.kind = "symbol" ->
                           /\ ~Shadowed(file, m.rule.name) /\ Escapes(file, m.at)
                           /\ \A v \in m.versions :
                                Affected(m.rule, v) /\ (v \notin m.unknown => MustRun(file, m.at, v))
                      [] m.kind \in {"reference", "call", "shape"} ->
                           /\ ~Shadowed(file, m.rule.name)
                           /\ \E p \in Prefixes(Node(file, m.at).path) :
                                Denoted(file, m.at, p) = {m.rule.name}
                           /\ Sheltered(file, m.at, m.rule.name) =>
                                \A v \in m.versions : m.rule.removed = {} \/ ~Affected(m.rule, v)
                           /\ m.kind = "shape" => SurelyFits(Node(file, m.at).args, m.rule.shape)
                      [] OTHER -> TRUE
  BY Zenon DEF HighIsProven
<1>1. (m.kind = "symbol" => SymbolProved(m)) /\ (m.kind \in NameKinds => NameProved(m))
  BY Zenon DEF ProofInv, Proved
<1>2. (CASE m.kind = "symbol" -> SymbolProved(m)
         [] m.kind \in NameKinds -> NameProved(m)
         [] OTHER -> TRUE)
  <2>1. CASE m.kind = "symbol"
    <3>1. m.kind \notin NameKinds
      BY <2>1 DEF NameKinds
    <3>2. QED
      BY <1>1, <2>1, <3>1, Zenon
  <2>2. CASE m.kind \in NameKinds
    <3>1. m.kind # "symbol"
      BY <2>2 DEF NameKinds
    <3>2. QED
      BY <1>1, <2>2, <3>1, Zenon
  <2>3. CASE m.kind # "symbol" /\ m.kind \notin NameKinds
    BY <2>3, Zenon
  <2>4. QED
    BY <2>1, <2>2, <2>3, Zenon
<1>3. QED
  BY <1>2, Zenon DEF SymbolProved, NameProved, NameKinds

LEMMA LeastIn ==
  ASSUME NEW S \in SUBSET Nat, S # {} PROVE Least(S) \in S /\ Least(S) \in Nat
  BY LeastElement, Zenon DEF Least

LEMMA SymbolIsProved ==
  ASSUME PlaceInv, LexicalInv, at \in 1..Len(file.lines), NEW m, SymbolFound(m) PROVE Proved(m)
<1>1. PICK a \in Node(file, at).names :
        /\ ~Competing(file, Append(Node(file, at).module, a.name))
        /\ \E r \in SymbolRules(Append(Node(file, at).module, a.name)) : m = SymbolMatch(r, a)
  BY Zenon DEF SymbolFound
<1> DEFINE name == Append(Node(file, at).module, a.name)
           found == SymbolImportVersions(file, at, State.versions)
<1>2. PICK r \in SymbolRules(name) : m = SymbolMatch(r, a)
  BY <1>1
<1>3. r.name = name /\ r.removed # {} /\ ~Optional(file, at) /\ r \in Rules
  BY <1>2, Zenon DEF SymbolRules
<1>4. /\ m.at = at /\ m.kind = "symbol" /\ m.rule = r
      /\ m.versions = {v \in found.reachable : v >= Least(r.removed)}
      /\ m.unknown = found.uncertain
  BY <1>2, SymbolFields
<1>5. file \in Files
  BY Zenon DEF PlaceInv
<1>6. ~Shadowed(file, r.name) /\ Escapes(file, at)
  <2>1. ~Competing(file, r.name)
    BY <1>1, <1>3, Zenon
  <2>2. ~Shadowed(file, r.name)
    BY <1>5, <2>1, NotShadowed, Zenon
  <2>3. Escapes(file, at)
    BY <1>3, <1>5, EscapesIs, Zenon
  <2>4. QED
    BY <2>2, <2>3
<1> HIDE DEF found
<1>7. ASSUME NEW v \in m.versions
      PROVE  Affected(r, v) /\ (v \notin m.unknown => MustRun(file, at, v))
  <2>1. v \in found.reachable /\ v >= Least(r.removed)
    BY <1>4, <1>7, Zenon
  <2>2. Affected(r, v)
    BY <2>1, Zenon DEF Affected
  <2>3. v \in State.versions /\ Reached(file, at, v)
    BY <2>1, SymbolVersionsAre, Zenon DEF found
  <2>4. v \in Targets
    <3>1. State \in StateForm
      BY StateIs, Zenon
    <3>2. State.versions \in SUBSET Targets
      BY <3>1 DEF StateForm
    <3>3. QED
      BY <2>3, <3>2, Zenon
  <2>5. ASSUME v \notin m.unknown PROVE MustRun(file, at, v)
    <3>1. Certain(file, at, v)
      BY <1>4, <2>1, <2>5, SymbolVersionsAre, Zenon DEF found
    <3>2. QED
      BY <1>5, <2>3, <2>4, <3>1, CertainRuns, Zenon
  <2>6. QED
    BY <2>2, <2>5
<1>8. SymbolProved(m)
  BY <1>4, <1>6, <1>7, Zenon DEF SymbolProved
<1>9. m.kind \notin NameKinds
  <2> DEFINE kind == m.kind
  <2>1. kind = "symbol"
    BY <1>4
  <2> HIDE DEF kind
  <2>2. kind \notin NameKinds
    BY <2>1 DEF NameKinds
  <2>3. QED
    BY <2>2 DEF kind
<1>10. QED
  BY <1>8, <1>9, Zenon DEF Proved

\* Where hasattr holds, the versions that lost the attribute are left out.
LEMMA ShelteredVersions ==
  ASSUME PlaceInv, LexicalInv, at \in 1..Len(file.lines), Node(file, at).op \in {"use", "call"},
         NEW r \in Rules, Sheltered(file, at, r.name), NEW v \in GuardedVersions(r)
  PROVE  r.removed = {} \/ ~Affected(r, v)
<1> SUFFICES ASSUME r.removed # {} PROVE ~Affected(r, v)
  OBVIOUS
<1>1. Guarded(r)
  BY GuardedIs, Zenon DEF PlaceInv
<1>2. v \in State.versions /\ v < Least(r.removed)
  BY <1>1, Zenon DEF GuardedVersions
<1>3. v \in Nat
  <2>1. State \in StateForm
    BY StateIs, Zenon
  <2>2. State.versions \in SUBSET Targets
    BY <2>1 DEF StateForm
  <2>3. v \in Targets
    BY <1>2, <2>2, Zenon
  <2>4. QED
    BY <2>3, TargetsAssumption, Zenon
<1>4. Least(r.removed) \in Nat
  BY RuleParts, LeastIn, Zenon
<1> DEFINE least == Least(r.removed)
<1> HIDE DEF least
<1>5. ~(v >= least)
  <2>1. v < least /\ least \in Nat
    BY <1>2, <1>4 DEF least
  <2>2. QED
    BY <1>3, <2>1
<1>6. QED
  BY <1>5, Zenon DEF Affected, least

LEMMA NameIsProved ==
  ASSUME PlaceInv, LexicalInv, at \in 1..Len(file.lines), Node(file, at).op \in {"use", "call"},
         NEW p \in Prefixes(Node(file, at).path), NEW kind, NEW r \in Rules, NEW contexts, NEW m,
         m = Match(kind, r, ImportResolution(p, r.name), GuardedVersions(r), contexts),
         ~Competing(file, r.name), kind # "symbol",
         kind = "shape" => SurelyFits(Node(file, at).args, r.shape)
  PROVE  Proved(m)
<1>1. /\ m.at = at /\ m.kind = kind /\ m.rule = r /\ m.confidence = ImportResolution(p, r.name)
      /\ m.versions = GuardedVersions(r)
  BY MatchFields
<1>2. ~Shadowed(file, r.name)
  BY NotShadowed, Zenon DEF PlaceInv
<1>3. ASSUME m.confidence = "high" PROVE NameProved(m)
  <2>1. Denoted(file, at, p) = {r.name}
    <3>1. Resolve(file, at, p, r.name, {"import"}) = "high"
      BY <1>1, <1>3, Zenon DEF ImportResolution
    <3>2. QED
      BY <3>1, ImportedName
  <2>2. Sheltered(file, at, r.name) =>
          \A v \in m.versions : r.removed = {} \/ ~Affected(r, v)
    BY <1>1, ShelteredVersions, Zenon
  <2>3. QED
    BY <1>1, <1>2, <2>1, <2>2, Zenon DEF NameProved
<1>4. m.kind # "symbol"
  BY <1>1, Zenon
<1>5. QED
  BY <1>3, <1>4, Zenon DEF Proved

LEMMA WholePath ==
  ASSUME NEW path \in Dotted PROVE path \in Prefixes(path)
<1>1. path \in Seq(Word) /\ Len(path) \in Nat /\ Len(path) >= 1
  BY DottedIs
<1>2. SubSeq(path, 1, Len(path)) = path
  BY <1>1
<1>3. Len(path) \in 1..Len(path)
  BY <1>1
<1>4. QED
  BY <1>2, <1>3, Zenon DEF Prefixes

LEMMA MatcherKinds ==
  /\ {"call", "shape"} \subseteq NameKinds /\ "reference" \in NameKinds
  /\ "symbol" \notin NameKinds /\ "reference" # "shape" /\ "reference" # "symbol"
  /\ "call" # "symbol" /\ "shape" # "symbol"
  /\ \A kind \in {"module", "dynamic", "pattern"} : kind # "symbol" /\ kind \notin NameKinds
  BY DEF NameKinds

LEMMA ReferenceIsProved ==
  ASSUME PlaceInv, LexicalInv, at \in 1..Len(file.lines), NEW m, ReferenceFound(m) PROVE Proved(m)
<1>1. Node(file, at).op \in {"use", "call"}
  BY Zenon DEF ReferenceFound
<1>2. PICK p \in Prefixes(Node(file, at).path) : m \in ReferenceMatches(p)
  BY Zenon DEF ReferenceFound
<1>3. PICK r \in {x \in Referred(p) : ~Competing(file, x.name)} :
        m = Match("reference", r, ImportResolution(p, r.name), GuardedVersions(r),
                  IF Deferred(at) THEN State.contexts \cap {"typing"} ELSE State.contexts)
  BY <1>2 DEF ReferenceMatches
<1>4. r \in Rules /\ ~Competing(file, r.name)
  BY <1>3, Zenon DEF Referred, Candidates
<1>5. QED
  BY <1>1, <1>3, <1>4, MatcherKinds, NameIsProved, Zenon

LEMMA CallIsProved ==
  ASSUME PlaceInv, LexicalInv, at \in 1..Len(file.lines), NEW m, CallFound(m) PROVE Proved(m)
<1> DEFINE path == Node(file, at).path
<1>1. Node(file, at).op = "call" /\ m \in CallMatches(path)
  BY Zenon DEF CallFound
<1>2. PICK r \in {x \in Called(path) : ~Competing(file, x.name)} :
        m = Match(r.matcher, r, ImportResolution(path, r.name), GuardedVersions(r), State.contexts)
  BY <1>1 DEF CallMatches
<1>3. r.matcher = "shape" => ShapeMatches(Node(file, at).args, r.shape)
  BY <1>2, Zenon DEF Called, Candidates
<1>4. r \in Rules /\ ~Competing(file, r.name) /\ (r.matcher = "call" \/ r.matcher = "shape")
  BY <1>2, Zenon DEF Called, Candidates
<1>5. r.matcher = "shape" => SurelyFits(Node(file, at).args, r.shape)
  <2>1. IsCall(Node(file, at).args) /\ path \in Dotted
    BY <1>1, UseIs, Zenon DEF PlaceInv
  <2>2. IsShape(r.shape)
    BY <1>4, RuleParts, Zenon
  <2>3. QED
    BY <1>3, <2>1, <2>2, ShapeProven, Zenon
<1>6. path \in Prefixes(path) /\ Node(file, at).op \in {"use", "call"}
  BY <1>1, UseIs, WholePath, Zenon DEF PlaceInv
<1>7. r.matcher # "symbol"
  <2> DEFINE kind == r.matcher
  <2>1. kind = "call" \/ kind = "shape"
    BY <1>4
  <2> HIDE DEF kind
  <2>2. kind # "symbol"
    BY <2>1
  <2>3. QED
    BY <2>2 DEF kind
<1> HIDE DEF path
<1>8. path \in Prefixes(Node(file, at).path)
  BY <1>6, Zenon DEF path
<1>9. QED
  BY <1>2, <1>4, <1>5, <1>6, <1>7, <1>8, NameIsProved, Zenon

LEMMA FoundProved ==
  ASSUME PlaceInv, LexicalInv, at \in 1..Len(file.lines), NEW m, Found(m) PROVE Proved(m)
<1>1. CASE ModuleFound(m)
  <2>1. m.kind # "symbol" /\ m.kind \notin NameKinds
    BY <1>1, MatcherKinds, Zenon DEF ModuleFound
  <2>2. QED
    BY <2>1, Zenon DEF Proved
<1>2. QED
  BY <1>1, SymbolIsProved, ReferenceIsProved, CallIsProved, Zenon DEF Found

LEMMA ProofInit == VisitorInit => ProofInv
  BY DEF VisitorInit, ProofInv

LEMMA ProofNext ==
  ASSUME PlaceInv, LexicalInv, ProofInv, [VisitorNext]_visitorVars PROVE ProofInv'
<1>1. CASE VisitNode
  <2>1. Inside /\ file' = file
    BY <1>1 DEF VisitNode
  <2>2. at \in 1..Len(file.lines)
    BY <2>1, InsideIs
  <2>3. \A m \in matches' : m \in matches \/ Found(m)
    BY <1>1, NodeVisit DEF Recorded
  <2>4. ASSUME NEW m \in matches' PROVE Proved(m)'
    <3>1. Proved(m)
      BY <2>2, <2>3, FoundProved, Zenon DEF ProofInv
    <3>2. QED
      BY <2>1, <3>1, ProvedStays
  <2>5. QED
    BY <2>4 DEF ProofInv
<1>2. CASE ~VisitNode
  <2>1. matches' = matches /\ file' = file
    BY <1>2, OnlyNodes
  <2>2. ASSUME NEW m \in matches' PROVE Proved(m)'
    <3>1. Proved(m)
      BY <2>1, Zenon DEF ProofInv
    <3>2. QED
      BY <2>1, <3>1, ProvedStays
  <2>3. QED
    BY <2>2 DEF ProofInv
<1>3. QED
  BY <1>1, <1>2

ProvenInv == PlaceInv /\ LexicalInv /\ ProofInv

\* A match of high confidence is proof, whatever the file: a removed symbol that is
\* imported is not one of the project, no handler surely keeps its failure, and its
\* import is sure to run on the versions not listed as unknown; a name that is used or
\* called denotes nothing else, no hasattr around it leaves a version that lost it, and
\* a call has its shape whatever its stars stand for.  The whole of _MatcherVisitor,
\* with call_shape_matches and resolve_qualified_name_sources.
THEOREM HighProven == VisitorSpec => []HighIsProven
<1>1. VisitorInit => ProvenInv
  BY PlaceInit, LexicalInit, ProofInit DEF ProvenInv
<1>2. ProvenInv /\ [VisitorNext]_visitorVars => ProvenInv'
  BY PlaceNext, LexicalNext, ProofNext DEF ProvenInv
<1>3. ProvenInv => HighIsProven
  BY ProofHere DEF ProvenInv
<1>4. QED
  BY <1>1, <1>2, <1>3, PTL DEF VisitorSpec

-----------------------------------------------------------------------------
(* Whatever fails in a run is reported.                                     *)

Fails(i, r, v) ==
  /\ MayRun(file, i, v) /\ Affected(r, v)
  /\ Node(file, i).op \in {"use", "call"} /\ r.removed # {} => ~Sheltered(file, i, r.name)

ReportedAt(i) ==
  \A r \in Concerned(file, i) : \A v \in Targets : Fails(i, r, v) => Reported(i, r, v)

\* A construct has been visited.
Visited(i) == i < at \/ (i = at /\ ~down)

ReportInv == ~file.stub => \A i \in 1..Len(file.lines) : Visited(i) => ReportedAt(i)

\* The rules a construct falls under, one kind of construct after the other.
ImportConcern(node) == {r \in Rules : r.matcher = "module" /\ Prefix(r.name, node.module)}
FromConcern(f, i, node) ==
  {r \in Rules :
     \/ r.matcher = "module" /\ (Prefix(r.name, node.module) \/ r.name \in Named(node))
     \/ /\ r.matcher = "reference" /\ r.name \in Named(node) /\ r.removed # {}
        /\ r.contexts \in {{}, {"read"}} /\ Escapes(f, i)}
UseConcern(f, i, node) ==
  {r \in Rules :
     \/ /\ r.matcher = "reference" /\ (r.contexts = {} \/ node.context \in r.contexts)
        /\ \E p \in Prefixes(node.path) : r.name \in Denoted(f, i, p)
     \/ /\ node.op = "call" /\ r.name \in Denoted(f, i, node.path)
        /\ r.matcher = "call" \/ (r.matcher = "shape" /\ Unstarred(node.args)
                                  /\ Legal(node.args) /\ Fits(node.args, r.shape))}

LEMMA ConcernedIs ==
  ASSUME NEW f, NEW i, NEW r \in Concerned(f, i)
  PROVE  \/ Node(f, i).op = "import" /\ r \in ImportConcern(Node(f, i))
         \/ Node(f, i).op = "from" /\ ~Node(f, i).relative /\ r \in FromConcern(f, i, Node(f, i))
         \/ Node(f, i).op \in {"use", "call"} /\ ~Deferred(i) /\ r \in UseConcern(f, i, Node(f, i))
<1> DEFINE node == Node(f, i)
<1>1. Concerned(f, i)
        = CASE node.op = "import" -> ImportConcern(node)
            [] node.op = "from" /\ ~node.relative -> FromConcern(f, i, node)
            [] node.op \in {"use", "call"} /\ ~Deferred(i) -> UseConcern(f, i, node)
            [] OTHER -> {}
  BY Zenon DEF Concerned, ImportConcern, FromConcern, UseConcern
<1> DEFINE A == node.op = "import"
           B == node.op = "from" /\ ~node.relative
           C == node.op \in {"use", "call"} /\ ~Deferred(i)
           S == ImportConcern(node)
           T == FromConcern(f, i, node)
           U == UseConcern(f, i, node)
           W == Concerned(f, i)
<1>2. ~(A /\ B) /\ ~(A /\ C) /\ ~(B /\ C)
  OBVIOUS
<1>3. r \in W
  OBVIOUS
<1>4. W = CASE A -> S [] B -> T [] C -> U [] OTHER -> {}
  BY <1>1
<1> HIDE DEF A, B, C, S, T, U, W
<1>5. (A /\ r \in S) \/ (B /\ r \in T) \/ (C /\ r \in U)
  <2>1. CASE A
    <3>1. W = S
      BY <1>2, <1>4, <2>1, Zenon
    <3>2. QED
      BY <1>3, <2>1, <3>1
  <2>2. CASE B
    <3>1. W = T
      BY <1>2, <1>4, <2>2, Zenon
    <3>2. QED
      BY <1>3, <2>2, <3>1
  <2>3. CASE C
    <3>1. W = U
      BY <1>2, <1>4, <2>3, Zenon
    <3>2. QED
      BY <1>3, <2>3, <3>1
  <2>4. CASE ~A /\ ~B /\ ~C
    <3>1. W = {}
      BY <1>4, <2>4, Zenon
    <3>2. QED
      BY <1>3, <3>1
  <2>5. QED
    BY <2>1, <2>2, <2>3, <2>4
<1>6. QED
  BY <1>5, Zenon DEF A, B, C, S, T, U

\* What was reported stays so.
LEMMA ReportStays ==
  ASSUME NEW i, ReportedAt(i), file' = file, matches \subseteq matches',
         inferences \subseteq inferences'
  PROVE  ReportedAt(i)'
<1>1. ASSUME NEW r, NEW v, Reported(i, r, v) PROVE Reported(i, r, v)'
  BY <1>1 DEF Reported
<1>2. \A r, v : Fails(i, r, v)' <=> Fails(i, r, v)
  BY DEF Fails
<1>3. Concerned(file, i)' = Concerned(file, i)
  BY DEF Concerned, Deferred
<1>4. QED
  BY <1>1, <1>2, <1>3 DEF ReportedAt

\* What a visit has to add for a failure to be reported.
Announced(r, v) ==
  \/ \E m \in matches' : m.at = at /\ m.rule = r /\ v \in m.versions /\ "runtime" \in m.contexts
  \/ \E e \in inferences' : e.code = "PYA2001" /\ e.at = at

LEMMA NotClassifiedIs ==
  ASSUME NEW name PROVE NotClassified(name).code = "PYA2001" /\ NotClassified(name).at = at
  BY DEF NotClassified

LEMMA SaidNotClassified ==
  ASSUME NEW r, NEW v, NEW name, NotClassified(name) \in inferences' PROVE Announced(r, v)
  BY NotClassifiedIs DEF Announced

LEMMA SaidByMatch ==
  ASSUME NEW r, NEW v, NEW kind, NEW confidence, NEW versions, NEW contexts,
         Match(kind, r, confidence, versions, contexts) \in matches',
         v \in versions, "runtime" \in contexts
  PROVE  Announced(r, v)
<1> DEFINE m == Match(kind, r, confidence, versions, contexts)
<1>1. m.at = at /\ m.rule = r /\ m.versions = versions /\ m.contexts = contexts
  BY MatchFields
<1>2. m \in matches'
  OBVIOUS
<1> HIDE DEF m
<1>3. QED
  BY <1>1, <1>2, Zenon DEF Announced

\* A run gets to the construct on a version where the rule matters.
Coming(v) ==
  /\ file \in Files /\ at \in 1..Len(file.lines) /\ v \in Targets /\ MayRun(file, at, v)
  /\ v \in State.versions /\ "runtime" \in State.contexts

LEMMA ImportSaid ==
  ASSUME NEW module, NEW r \in ModuleRules(module), NEW v, Coming(v),
         ImportMatches(module) \subseteq matches', ImportInferences(module) \subseteq inferences'
  PROVE  Announced(r, v)
<1>1. CASE CompetingModule(file, module)
  <2>1. NotClassified(module) \in inferences'
    BY <1>1 DEF ImportInferences
  <2>2. QED
    BY <2>1, SaidNotClassified, Zenon
<1>2. CASE ~CompetingModule(file, module)
  <2>1. Match("module", r, "high", State.versions, State.contexts) \in matches'
    BY <1>2 DEF ImportMatches, Here
  <2>2. QED
    BY <2>1, SaidByMatch, Zenon DEF Coming
<1>3. QED
  BY <1>1, <1>2

LEMMA SymbolSaid ==
  ASSUME NEW name, NEW a, NEW r \in SymbolRules(name), NEW v, Coming(v), Affected(r, v),
         SymbolMatches(name, a) \subseteq matches', SymbolInferences(name) \subseteq inferences'
  PROVE  Announced(r, v)
<1>1. CASE Competing(file, name)
  <2>1. NotClassified(name) \in inferences'
    BY <1>1 DEF SymbolInferences
  <2>2. QED
    BY <2>1, SaidNotClassified, Zenon
<1>2. CASE ~Competing(file, name)
  <2> DEFINE m == SymbolMatch(r, a)
             found == SymbolImportVersions(file, at, State.versions)
  <2>1. m \in matches'
    BY <1>2 DEF SymbolMatches
  <2>2. /\ m.at = at /\ m.rule = r /\ m.contexts = State.contexts \cap {"runtime"}
        /\ m.versions = {w \in found.reachable : w >= Least(r.removed)}
    BY SymbolFields
  <2>3. v \in found.reachable
    <3>1. Reached(file, at, v)
      BY MayReach, Zenon DEF Coming
    <3>2. QED
      BY <3>1, SymbolVersionsAre, Zenon DEF Coming
  <2>4. v >= Least(r.removed)
    <3>1. r.removed # {}
      BY Zenon DEF SymbolRules
    <3>2. QED
      BY <3>1, Zenon DEF Affected
  <2> HIDE DEF m, found
  <2>5. v \in m.versions
    BY <2>2, <2>3, <2>4, Zenon
  <2>6. "runtime" \in m.contexts
    BY <2>2, Zenon DEF Coming
  <2>7. QED
    BY <2>1, <2>2, <2>5, <2>6, Zenon DEF Announced
<1>3. QED
  BY <1>1, <1>2

LEMMA PrefixOfItself ==
  ASSUME NEW s \in Dotted PROVE Prefix(s, s)
<1>1. s \in Seq(Word) /\ Len(s) \in Nat
  BY DottedIs
<1>2. SubSeq(s, 1, Len(s)) = s /\ Len(s) <= Len(s)
  BY <1>1
<1>3. QED
  BY <1>2, Zenon DEF Prefix

\* The names the code looks a construct up under include those that it denotes.
LEMMA CandidateFound ==
  ASSUME NEW path, NEW r \in Rules, r.name \in Denoted(file, at, path)
  PROVE  r \in Candidates(file, at, path, r.matcher) /\ ImportResolution(path, r.name) # "none"
<1>1. ImportResolution(path, r.name) # "none"
  BY ImportedName, Zenon DEF ImportResolution
<1> DEFINE name == r.name
<1>2. \E q \in QualifiedNames(file, at, path) : q.name = name
  <2>1. name \in Denoted(file, at, path)
    OBVIOUS
  <2> HIDE DEF name
  <2>2. QED
    BY <2>1, ImportedName
<1>3. Last(r.name) \in {Last(n.name) : n \in QualifiedNames(file, at, path)}
  BY <1>2, Zenon
<1>4. r \in Candidates(file, at, path, r.matcher)
  BY <1>3, Zenon DEF Candidates
<1>5. QED
  BY <1>1, <1>4

\* The versions a guard by hasattr leaves are all of them, unless it shelters the use.
LEMMA VersionsLeft ==
  ASSUME NEW r \in Rules, NEW v, Coming(v), Node(file, at).op \in {"use", "call"},
         r.removed # {} => ~Sheltered(file, at, r.name)
  PROVE  v \in GuardedVersions(r)
<1>1. ~(Guarded(r) /\ r.removed # {})
  BY GuardedIs, Zenon DEF Coming
<1>2. GuardedVersions(r) = State.versions
  BY <1>1, Zenon DEF GuardedVersions
<1>3. QED
  BY <1>2, Zenon DEF Coming

LEMMA ReferenceSaid ==
  ASSUME NEW p \in Prefixes(Node(file, at).path), NEW r \in Referred(p), NEW v, Coming(v),
         v \in GuardedVersions(r), ~Deferred(at),
         ReferencesFound(Node(file, at).path) \subseteq matches',
         ReferencesTold(Node(file, at).path) \subseteq inferences'
  PROVE  Announced(r, v)
<1>1. CASE Competing(file, r.name)
  <2>1. NotClassified(r.name) \in NameInferences(Referred(p))
    BY <1>1 DEF NameInferences
  <2>2. NotClassified(r.name) \in inferences'
    BY <2>1, Zenon DEF ReferencesTold
  <2>3. QED
    BY <2>2, SaidNotClassified, Zenon
<1>2. CASE ~Competing(file, r.name)
  <2> DEFINE m == Match("reference", r, ImportResolution(p, r.name), GuardedVersions(r),
                        State.contexts)
  <2>1. m \in ReferenceMatches(p)
    BY <1>2 DEF ReferenceMatches
  <2> HIDE DEF m
  <2>2. m \in matches'
    BY <2>1, Zenon DEF ReferencesFound
  <2>3. QED
    BY <2>2, SaidByMatch, Zenon DEF m, Coming
<1>3. QED
  BY <1>1, <1>2

LEMMA CallSaid ==
  ASSUME NEW path, NEW r \in Called(path), NEW v, Coming(v), v \in GuardedVersions(r),
         CallMatches(path) \subseteq matches', NameInferences(Called(path)) \subseteq inferences'
  PROVE  Announced(r, v)
<1>1. CASE Competing(file, r.name)
  <2>1. NotClassified(r.name) \in NameInferences(Called(path))
    BY <1>1 DEF NameInferences
  <2>2. QED
    BY <2>1, SaidNotClassified, Zenon
<1>2. CASE ~Competing(file, r.name)
  <2> DEFINE m == Match(r.matcher, r, ImportResolution(path, r.name), GuardedVersions(r),
                        State.contexts)
  <2>1. m \in CallMatches(path)
    BY <1>2 DEF CallMatches
  <2> HIDE DEF m
  <2>2. m \in matches'
    BY <2>1, Zenon
  <2>3. QED
    BY <2>2, SaidByMatch, Zenon DEF m, Coming
<1>3. QED
  BY <1>1, <1>2

\* Which visit there is depends on the construct.
LEMMA VisitOf ==
  ASSUME VisitNode
  PROVE  /\ Node(file, at).op = "import" => VisitImport
         /\ Node(file, at).op = "from" => VisitImportFrom
         /\ Node(file, at).op = "use" => VisitUse
         /\ Node(file, at).op = "call" => VisitCall
<1> DEFINE op == Node(file, at).op
<1>1. VisitImport \/ VisitImportFrom \/ VisitUse \/ VisitCall \/ VisitInversion \/ VisitAssign
  BY DEF VisitNode
<1>2. /\ VisitImport => op = "import"
      /\ VisitImportFrom => op = "from"
      /\ VisitUse => op = "use"
      /\ VisitCall => op = "call"
      /\ VisitInversion => op = "invert"
      /\ VisitAssign => op = "assign"
  BY Zenon DEF VisitImport, VisitImportFrom, VisitUse, VisitCall, VisitInversion, VisitAssign
<1> HIDE DEF op
<1>3. QED
  BY <1>1, <1>2 DEF op

LEMMA ImportReported ==
  ASSUME VisitNode, Node(file, at).op = "import", NEW r \in ImportConcern(Node(file, at)),
         NEW v, Coming(v)
  PROVE  Announced(r, v)
<1>1. VisitImport
  BY VisitOf
<1>2. r \in ModuleRules(Node(file, at).module)
  BY DEF ImportConcern, ModuleRules
<1>3. QED
  BY <1>1, <1>2, ImportVisit, ImportSaid, Zenon

LEMMA FromReported ==
  ASSUME VisitNode, Node(file, at).op = "from", ~Node(file, at).relative,
         NEW r \in FromConcern(file, at, Node(file, at)), NEW v, Coming(v), Affected(r, v)
  PROVE  Announced(r, v)
<1> DEFINE node == Node(file, at)
<1>1. /\ ImportMatches(node.module) \subseteq matches'
      /\ ImportInferences(node.module) \subseteq inferences'
      /\ \A a \in Submodules : /\ ImportMatches(ChildOf(a)) \subseteq matches'
                               /\ ImportInferences(ChildOf(a)) \subseteq inferences'
      /\ \A a \in node.names : /\ SymbolMatches(ChildOf(a), a) \subseteq matches'
                               /\ SymbolInferences(ChildOf(a)) \subseteq inferences'
  <2>1. VisitImportFrom
    BY VisitOf
  <2>2. QED
    BY <2>1, FromVisit, Zenon
<1>2. r \in Rules
  BY DEF FromConcern
<1>3. CASE r.matcher = "module" /\ Prefix(r.name, node.module)
  <2>1. r \in ModuleRules(node.module)
    BY <1>2, <1>3 DEF ModuleRules
  <2>2. QED
    BY <1>1, <2>1, ImportSaid, Zenon
<1>4. CASE r.matcher = "module" /\ r.name \in Named(node)
  <2>1. PICK a \in node.names : r.name = ChildOf(a)
    BY <1>4, Zenon DEF Named, ChildOf
  <2>2. a \in Submodules
    BY <1>2, <1>4, <2>1, Zenon DEF Submodules
  <2>3. Prefix(r.name, ChildOf(a))
    BY <1>2, <2>1, RuleParts, PrefixOfItself, Zenon
  <2>4. r \in ModuleRules(ChildOf(a))
    BY <1>2, <1>4, <2>3, Zenon DEF ModuleRules
  <2>5. QED
    BY <1>1, <2>2, <2>4, ImportSaid, Zenon
<1>5. CASE /\ r.matcher = "reference" /\ r.name \in Named(node) /\ r.removed # {}
           /\ r.contexts \in {{}, {"read"}} /\ Escapes(file, at)
  <2>1. PICK a \in node.names : r.name = ChildOf(a)
    BY <1>5, Zenon DEF Named, ChildOf
  <2>2. ~Optional(file, at)
    BY <1>5, EscapesIs, Zenon DEF Coming
  <2>3. r.contexts = {} \/ "read" \in r.contexts
    BY <1>5
  <2>4. r \in SymbolRules(ChildOf(a))
    BY <1>2, <1>5, <2>1, <2>2, <2>3, Zenon DEF SymbolRules
  <2>5. QED
    BY <1>1, <2>1, <2>4, SymbolSaid, Zenon
<1>6. QED
  BY <1>3, <1>4, <1>5, Zenon DEF FromConcern

LEMMA UseReported ==
  ASSUME VisitNode, Node(file, at).op \in {"use", "call"}, ~Deferred(at),
         NEW r \in UseConcern(file, at, Node(file, at)), NEW v, Coming(v),
         r.removed # {} => ~Sheltered(file, at, r.name)
  PROVE  Announced(r, v)
<1> DEFINE node == Node(file, at)
           path == Node(file, at).path
<1>1. r \in Rules
  BY DEF UseConcern
<1>2. v \in GuardedVersions(r)
  BY <1>1, VersionsLeft
<1>3. /\ ReferencesFound(path) \subseteq matches' /\ ReferencesTold(path) \subseteq inferences'
      /\ node.op = "call" => /\ CallMatches(path) \subseteq matches'
                             /\ NameInferences(Called(path)) \subseteq inferences'
  <2>1. CASE node.op = "use"
    <3>1. VisitUse
      BY <2>1, VisitOf
    <3>2. ReferencesFound(path) \subseteq matches' /\ ReferencesTold(path) \subseteq inferences'
      BY <3>1, UseVisit
    <3>3. node.op # "call"
      BY <2>1
    <3>4. QED
      BY <3>2, <3>3, Zenon
  <2>2. CASE node.op = "call"
    <3>1. VisitCall
      BY <2>2, VisitOf
    <3>2. /\ CallMatches(path) \cup ReferencesFound(path) \subseteq matches'
          /\ NameInferences(Called(path)) \cup ReferencesTold(path) \subseteq inferences'
      BY <3>1, CallVisit
    <3>3. QED
      BY <3>2, Zenon
  <2>3. QED
    BY <2>1, <2>2
<1>4. ASSUME r.matcher = "reference", r.contexts = {} \/ node.context \in r.contexts,
             \E p \in Prefixes(path) : r.name \in Denoted(file, at, p)
      PROVE  Announced(r, v)
  <2>1. PICK p \in Prefixes(path) : r.name \in Denoted(file, at, p)
    BY <1>4
  <2>2. r \in Candidates(file, at, p, "reference") /\ ImportResolution(p, r.name) # "none"
    BY <1>1, <1>4, <2>1, CandidateFound, Zenon
  <2>3. r \in Referred(p)
    BY <1>4, <2>2, Zenon DEF Referred
  <2>4. QED
    BY <1>2, <1>3, <2>3, ReferenceSaid, Zenon
<1>5. ASSUME node.op = "call", r.name \in Denoted(file, at, path),
             r.matcher = "call" \/ (r.matcher = "shape" /\ Unstarred(node.args)
                                    /\ Legal(node.args) /\ Fits(node.args, r.shape))
      PROVE  Announced(r, v)
  <2>1. r \in Candidates(file, at, path, r.matcher) /\ ImportResolution(path, r.name) # "none"
    BY <1>1, <1>5, CandidateFound, Zenon
  <2>2. r.matcher = "shape" => ShapeMatches(node.args, r.shape)
    <3>1. SUFFICES ASSUME r.matcher = "shape" PROVE ShapeMatches(node.args, r.shape)
      OBVIOUS
    <3>2. Unstarred(node.args) /\ Legal(node.args) /\ Fits(node.args, r.shape)
      <4> DEFINE kind == r.matcher
                 shaped == Unstarred(node.args) /\ Legal(node.args) /\ Fits(node.args, r.shape)
      <4>1. kind = "call" \/ (kind = "shape" /\ shaped)
        BY <1>5, Zenon
      <4>2. kind = "shape"
        BY <3>1
      <4> HIDE DEF kind, shaped
      <4>3. shaped
        BY <4>1, <4>2
      <4>4. QED
        BY <4>3 DEF shaped
    <3>3. IsCall(node.args) /\ IsShape(r.shape)
      BY <1>1, <1>5, UseIs, RuleParts, Zenon DEF Coming
    <3>4. QED
      BY <3>2, <3>3, ShapeFound, Zenon
  <2>3. r \in Candidates(file, at, path, "call") \cup Candidates(file, at, path, "shape")
    BY <1>5, <2>1, Zenon
  <2>4. r \in Called(path)
    BY <2>1, <2>2, <2>3, Zenon DEF Called
  <2>5. QED
    BY <1>2, <1>3, <1>5, <2>4, CallSaid, Zenon
<1>6. QED
  BY <1>4, <1>5, Zenon DEF UseConcern

LEMMA VisitReported ==
  ASSUME PlaceInv, LexicalInv, VisitNode, ~file.stub, NEW r \in Concerned(file, at),
         NEW v \in Targets, Fails(at, r, v)
  PROVE  Announced(r, v)
<1>1. Inside /\ Len(ancestors) = Depth(at)
  BY DEF VisitNode
<1>2. MayRun(file, at, v) /\ Affected(r, v)
  BY DEF Fails
<1>3. Coming(v)
  <2>1. v \in State.versions /\ "runtime" \in State.contexts
    BY <1>1, <1>2, StateKept, Zenon
  <2>2. at \in 1..Len(file.lines)
    BY <1>1, InsideIs
  <2>3. QED
    BY <1>2, <2>1, <2>2, Zenon DEF Coming, PlaceInv
<1>4. CASE Node(file, at).op = "import" /\ r \in ImportConcern(Node(file, at))
  BY <1>3, <1>4, ImportReported, Zenon
<1>5. CASE /\ Node(file, at).op = "from" /\ ~Node(file, at).relative
           /\ r \in FromConcern(file, at, Node(file, at))
  BY <1>2, <1>3, <1>5, FromReported, Zenon
<1>6. CASE /\ Node(file, at).op \in {"use", "call"} /\ ~Deferred(at)
           /\ r \in UseConcern(file, at, Node(file, at))
  <2>1. r.removed # {} => ~Sheltered(file, at, r.name)
    BY <1>6, Zenon DEF Fails
  <2>2. QED
    BY <1>3, <1>6, <2>1, UseReported, Zenon
<1>7. QED
  BY <1>4, <1>5, <1>6, ConcernedIs, Zenon

LEMMA NodeReported ==
  ASSUME PlaceInv, LexicalInv, VisitNode, ~file.stub, NEW i, i = at PROVE ReportedAt(i)'
<1>1. file' = file
  BY DEF VisitNode
<1>2. \A r, v : Fails(i, r, v)' <=> Fails(i, r, v)
  BY <1>1 DEF Fails
<1>3. Concerned(file, i)' = Concerned(file, i)
  BY <1>1 DEF Concerned, Deferred
<1>4. ASSUME NEW r \in Concerned(file, i), NEW v \in Targets, Fails(i, r, v)
      PROVE  Reported(i, r, v)'
  <2>1. r \in Concerned(file, at) /\ Fails(at, r, v)
    BY <1>4
  <2>2. Announced(r, v)
    BY <2>1, VisitReported
  <2>3. \/ \E m \in matches' : m.at = i /\ m.rule = r /\ v \in m.versions /\ "runtime" \in m.contexts
        \/ \E e \in inferences' : e.code = "PYA2001" /\ e.at = i
    BY <2>2 DEF Announced
  <2>4. QED
    BY <2>3 DEF Reported
<1>5. QED
  BY <1>2, <1>3, <1>4 DEF ReportedAt

LEMMA ReportInit == VisitorInit => ReportInv
<1> SUFFICES ASSUME VisitorInit, NEW i \in 1..Len(file.lines) PROVE ~Visited(i)
  BY DEF ReportInv
<1>1. at = 1 /\ down = TRUE /\ i \in Nat /\ i >= 1
  BY DEF VisitorInit
<1>2. QED
  BY <1>1 DEF Visited

\* A step visits the construct it is at, or none.
LEMMA VisitedStays ==
  ASSUME PlaceInv, [VisitorNext]_visitorVars, NEW i \in Nat, Visited(i)'
  PROVE  file' = file /\ (Visited(i) \/ (VisitNode /\ i = at))
<1>1. CASE VisitNode
  <2>1. at' = at /\ file' = file
    BY <1>1 DEF VisitNode
  <2>2. QED
    BY <1>1, <2>1 DEF Visited
<1>2. CASE NextStatement
  <2>1. at' = at + 1 /\ down' = TRUE /\ ~down /\ file' = file
    BY <1>2 DEF NextStatement
  <2>2. at \in Nat
    BY DEF PlaceInv
  <2>3. QED
    BY <2>1, <2>2 DEF Visited
<1>3. CASE VisitCompound
  BY <1>3 DEF VisitCompound, Visited
<1>4. CASE LeaveCompound
  BY <1>4 DEF LeaveCompound, Visited
<1>5. CASE Suppress
  BY <1>5 DEF Suppress, Visited
<1>6. CASE UNCHANGED visitorVars
  BY <1>6 DEF visitorVars, Visited
<1>7. QED
  BY <1>1, <1>2, <1>3, <1>4, <1>5, <1>6 DEF VisitorNext

LEMMA ReportNext ==
  ASSUME PlaceInv, LexicalInv, ReportInv, [VisitorNext]_visitorVars PROVE ReportInv'
<1>1. file' = file
  <2>1. CASE VisitNode
    BY <2>1 DEF VisitNode
  <2>2. QED
    BY <2>1, OnlyNodes
<1>2. matches \subseteq matches' /\ inferences \subseteq inferences'
  <2>1. CASE VisitNode
    BY <2>1, NodeVisit DEF Recorded
  <2>2. CASE ~VisitNode
    BY <2>2, OnlyNodes
  <2>3. QED
    BY <2>1, <2>2
<1>3. ASSUME ~file.stub, NEW i \in 1..Len(file.lines), Visited(i)' PROVE ReportedAt(i)'
  <2>1. i \in Nat
    OBVIOUS
  <2>2. Visited(i) \/ (VisitNode /\ i = at)
    BY <1>3, <2>1, VisitedStays
  <2>3. CASE Visited(i)
    <3>1. ReportedAt(i)
      BY <1>3, <2>3, Zenon DEF ReportInv
    <3>2. QED
      BY <1>1, <1>2, <3>1, ReportStays
  <2>4. CASE VisitNode /\ i = at
    BY <1>3, <2>4, NodeReported
  <2>5. QED
    BY <2>2, <2>3, <2>4
<1>4. QED
  BY <1>1, <1>3 DEF ReportInv

LEMMA ReportHere == ASSUME PlaceInv, ReportInv PROVE FailuresAreReported
<1> SUFFICES ASSUME Done, ~file.stub, NEW i \in 1..Len(file.lines), NEW r \in Concerned(file, i),
                    NEW v \in Targets, Fails(i, r, v)
             PROVE  Reported(i, r, v)
  BY Zenon DEF FailuresAreReported, Fails
<1>1. file \in Files /\ at \in Nat
  BY DEF PlaceInv
<1>2. Len(file.lines) \in Nat
  BY <1>1, FileIs
<1>3. Visited(i)
  BY <1>1, <1>2 DEF Done, Inside, Visited
<1>4. QED
  BY <1>3, Zenon DEF ReportInv, ReportedAt

CompleteInv == PlaceInv /\ LexicalInv /\ ReportInv

\* Whatever fails in some run of a file on a target is reported for that target, or it
\* is said that a module of the project takes its place.  The whole of _MatcherVisitor:
\* imports and from-imports, references, calls and call shapes, through the aliases,
\* the constants, the guards, the handlers and the short circuits around them.
THEOREM FailuresReported == VisitorSpec => []FailuresAreReported
<1>1. VisitorInit => CompleteInv
  BY PlaceInit, LexicalInit, ReportInit DEF CompleteInv
<1>2. CompleteInv /\ [VisitorNext]_visitorVars => CompleteInv'
  BY PlaceNext, LexicalNext, ReportNext DEF CompleteInv
<1>3. CompleteInv => FailuresAreReported
  BY ReportHere DEF CompleteInv
<1>4. QED
  BY <1>1, <1>2, <1>3, PTL DEF VisitorSpec
=============================================================================
