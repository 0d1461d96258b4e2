---------------------------- MODULE VersionGuards ----------------------------
(***************************************************************************)
(* Guard evaluation: evaluate_guard and branch_reachability of             *)
(* src/pyahead/analysis/reachability.py and evaluate_import_guard of       *)
(* src/pyahead/analysis/import_guards.py, next to what the interpreter     *)
(* that runs the guard makes of it.                                        *)
(*                                                                         *)
(* A guard is the sequence of its subexpressions, operands before the      *)
(* operators that use them, the whole guard last.  A comparison of some    *)
(* form of sys.version_info with a literal keeps its operator, shape and   *)
(* literal; whatever else the grammar does not recognise is "other".       *)
(***************************************************************************)
EXTENDS Integers, Sequences

CONSTANTS
  Targets,   \* the target minor versions
  Micros     \* micro versions of the interpreters

ASSUME TargetsAssumption == Targets \subseteq Nat /\ Micros \subseteq Nat /\ Micros # {}

\* An interpreter that may run the guard, or the type checker that reads it as
\* running on that version.
Interpreter(minors, micros) == [minor : minors, micro : micros, typing : BOOLEAN]

\* sys.version_info; the fields after the micro version only make it longer.
VersionInfo(i) == <<3, i.minor, i.micro, 0>>

-----------------------------------------------------------------------------
(* Comparison of sequences of integers.                                     *)

SamePrefix(s, t, n) == \A k \in 1..n : s[k] = t[k]

Before(s, t) ==
  \/ \E n \in 1..Len(s) : n <= Len(t) /\ SamePrefix(s, t, n - 1) /\ s[n] < t[n]
  \/ Len(s) < Len(t) /\ SamePrefix(s, t, Len(s))

Same(s, t) == Len(s) = Len(t) /\ SamePrefix(s, t, Len(s))

Operators == {"<", "<=", ">", ">=", "==", "!="}

Compare(op, s, t) ==
  CASE op = "<"  -> Before(s, t)
    [] op = "<=" -> Before(s, t) \/ Same(s, t)
    [] op = ">"  -> Before(t, s)
    [] op = ">=" -> Before(t, s) \/ Same(s, t)
    [] op = "==" -> Same(s, t)
    [] op = "!=" -> ~Same(s, t)

\* left is TRUE when version_info is the left operand.
Ordered(node, value) ==
  IF node.left THEN Compare(node.op, value, node.literal)
               ELSE Compare(node.op, node.literal, value)

-----------------------------------------------------------------------------
(* The grammar of guards.                                                   *)

Comparisons ==
  [kind : {"compare"}, shape : {"unsliced", "minor-slice", "patch-slice", "major-index"},
   op : Operators, literal : Seq(Nat), left : BOOLEAN]

\* The n-th subexpression of a guard uses only those before it.
Expressions(n) ==
  Comparisons \cup [kind : {"typing"}] \cup [kind : {"other"}, holds : SUBSET Interpreter(Nat, Nat)]
    \cup [kind : {"not"}, arg : 1..n - 1]
    \cup [kind : {"and", "or"}, arg : 1..n - 1, arg2 : 1..n - 1]

WellFormed(guard) ==
  Len(guard) \in Nat \ {0} /\ \A n \in 1..Len(guard) : guard[n] \in Expressions(n)

-----------------------------------------------------------------------------
(* What the interpreter does.  A bare integer literal is a sequence of one. *)

Shown(shape, i) ==
  CASE shape = "unsliced"    -> VersionInfo(i)
    [] shape = "minor-slice" -> SubSeq(VersionInfo(i), 1, 2)
    [] shape = "patch-slice" -> SubSeq(VersionInfo(i), 1, 3)
    [] shape = "major-index" -> SubSeq(VersionInfo(i), 1, 1)

\* An expression, from the values of its operands.
ValueOf(e, value, i) ==
  CASE e.kind = "compare" -> Ordered(e, Shown(e.shape, i))
    [] e.kind = "typing"  -> i.typing
    [] e.kind = "other"   -> i \in e.holds
    [] e.kind = "not"     -> ~value[e.arg]
    [] e.kind = "and"     -> value[e.arg] /\ value[e.arg2]
    [] e.kind = "or"      -> value[e.arg] \/ value[e.arg2]

Holds(guard, i) ==
  LET value[n \in 1..Len(guard)] == ValueOf(guard[n], value, i)
  IN  value[Len(guard)]

-----------------------------------------------------------------------------
(* The three-valued logic.                                                  *)

Truth(b) == IF b THEN "true" ELSE "false"

TruthNot(x) == IF x = "unknown" THEN "unknown" ELSE Truth(x = "false")

TruthAnd(x, y) ==
  IF "false" \in {x, y} THEN "false" ELSE IF x = "true" /\ y = "true" THEN "true" ELSE "unknown"

TruthOr(x, y) ==
  IF "true" \in {x, y} THEN "true" ELSE IF x = "false" /\ y = "false" THEN "false" ELSE "unknown"

\* The comparison looks at patch versions, which targets do not have.
Patch(e) ==
  e.kind = "compare" /\ e.shape # "major-index"
    /\ (e.shape = "patch-slice" \/ Len(e.literal) > 2)

\* One arbitrary field stands for the rest of an unsliced version_info.
Modelled(shape, v) ==
  CASE shape = "unsliced"    -> <<3, v, 0>>
    [] shape = "minor-slice" -> <<3, v>>
    [] shape = "major-index" -> <<3>>

\* Mutant: an unsliced version_info is compared as if it ended with the minor.
ComparisonTruncated(e, v) ==
  IF Patch(e) \/ Len(e.literal) # (IF e.shape = "major-index" THEN 1 ELSE 2)
  THEN "unknown"
  ELSE Truth(Ordered(e, IF e.shape = "major-index" THEN <<3>> ELSE <<3, v>>))

Comparison(e, v) ==
  IF Patch(e) \/ Len(e.literal) # (IF e.shape = "major-index" THEN 1 ELSE 2)
  THEN "unknown"
  ELSE Truth(Ordered(e, Modelled(e.shape, v)))

\* evaluate_guard for one target minor.
TruthOf(e, truth, v) ==
  CASE e.kind = "compare"           -> Comparison(e, v)
    [] e.kind \in {"typing", "other"} -> "unknown"
    [] e.kind = "not"               -> TruthNot(truth[e.arg])
    [] e.kind = "and"               -> TruthAnd(truth[e.arg], truth[e.arg2])
    [] e.kind = "or"                -> TruthOr(truth[e.arg], truth[e.arg2])

Evaluate(guard, v) ==
  LET truth[n \in 1..Len(guard)] == TruthOf(guard[n], truth, v)
  IN  truth[Len(guard)]

-----------------------------------------------------------------------------
(* Import guards are only asked about the runtime, and a patch comparison   *)
(* is decided when the major and minor versions differ from its literal's.  *)

\* Mutant: the projected comparison also decides for the literal's own minor.
PatchComparisonProjected(e, v) ==
  IF e.shape # "unsliced" \/ Len(e.literal) # 3 THEN "unknown"
  ELSE Comparison([e EXCEPT !.literal = SubSeq(@, 1, 2)], v)

PatchComparison(e, v) ==
  IF \/ e.shape # "unsliced" \/ Len(e.literal) # 3
     \/ SubSeq(e.literal, 1, 2) = <<3, v>>
  THEN "unknown"
  ELSE Comparison([e EXCEPT !.literal = SubSeq(@, 1, 2)], v)

ImportTruthOf(e, truth, v) ==
  CASE e.kind = "compare" -> IF Patch(e) THEN PatchComparison(e, v) ELSE Comparison(e, v)
    [] e.kind = "typing"  -> "false"
    [] e.kind = "other"   -> "unknown"
    [] e.kind = "not"     -> TruthNot(truth[e.arg])
    [] e.kind = "and"     -> TruthAnd(truth[e.arg], truth[e.arg2])
    [] e.kind = "or"      -> TruthOr(truth[e.arg], truth[e.arg2])

EvaluateImport(guard, v) ==
  LET truth[n \in 1..Len(guard)] == ImportTruthOf(guard[n], truth, v)
  IN  truth[Len(guard)]

-----------------------------------------------------------------------------
(* branch_reachability: a lexical state is a set of versions and a set of   *)
(* usage contexts.                                                          *)

Polarity(guard) ==
  LET e == guard[Len(guard)] IN
  IF e.kind = "typing" THEN "positive"
  ELSE IF e.kind = "not" /\ guard[e.arg].kind = "typing" THEN "negative"
  ELSE "none"

Mixed(guard) == Polarity(guard) = "none" /\ \E n \in 1..Len(guard) : guard[n].kind = "typing"

Contexts(active, guard, branch) ==
  IF Polarity(guard) = "none" THEN active.contexts
  ELSE active.contexts \cap {IF (Polarity(guard) = "positive") = branch THEN "typing"
                                                                      ELSE "runtime"}

\* The excluded truth of a branch is the one under which it does not run.
Branch(active, guard, branch) ==
  [versions |-> {v \in active.versions : Mixed(guard) \/ Evaluate(guard, v) # Truth(~branch)},
   contexts |-> Contexts(active, guard, branch)]

\* The guards the grammar decides exactly.
Decidable(guard) ==
  \/ Polarity(guard) # "none"
  \/ \A n \in 1..Len(guard) :
       /\ guard[n].kind \notin {"typing", "other"}
       /\ guard[n].kind = "compare" => Comparison(guard[n], 0) # "unknown"
=============================================================================
