----------------------------- MODULE Reachability -----------------------------
(***************************************************************************)
(* Lexical reachability: the ReachabilityTracker of                        *)
(* src/pyahead/analysis/reachability.py, driven by the visitor of          *)
(* src/pyahead/analysis/engine.py over every module made of if, elif, else *)
(* and try statements.  Beside the tracker runs the truth: the set of      *)
(* interpreters that may execute the suite being visited.                  *)
(***************************************************************************)
EXTENDS VersionGuards, FiniteSets

CONSTANTS
  Tests,       \* the guards the n-th compound statement may use, for each n from 0
  Bodies,      \* what try bodies import; {} is a body the grammar refuses
  Since,       \* KNOWN_IMPORTS: the minor version a module exists from
  Contested,   \* imports a project module competes with
  Uncertain,   \* uncertain_imports: versions each import may fail on
  MaxNodes     \* bound: compound statements in a module

ASSUME ReachabilityAssumption ==
  /\ MaxNodes \in Nat
  /\ \A n \in 0..MaxNodes - 1 : \A test \in Tests[n] : WellFormed(test)
  /\ Since \in [DOMAIN Since -> Nat] /\ DOMAIN Uncertain = DOMAIN Since

VARIABLES
  open,     \* the statements and suites being visited, outermost first
  nodes,    \* compound statements visited so far
  stack,    \* ReachabilityTracker._stack
  suites,   \* _suites: the state recorded for a suite
  elifs,    \* _elifs: the incoming state recorded for an elif
  pushed,   \* _pushed
  fallback, \* _fallback_suites
  depth     \* _fallback_depth

tracker == <<stack, suites, elifs, pushed, fallback, depth>>
vars == <<open, nodes, tracker>>

Interpreters == Interpreter(Targets, Micros)
Top == open[Len(open)]
Current == stack[Len(stack)]
WithoutLast(s) == SubSeq(s, 1, Len(s) - 1)
Put(f, key, value) == [x \in DOMAIN f \cup {key} |-> IF x = key THEN value ELSE f[x]]

\* A frame: the node with its test or its imports, the part being visited, the
\* interpreters that may get there, whether every guard around it is decidable,
\* and the tracker before it was entered.
Frame(kind, id, syntax, at, truth, plain) ==
  [kind |-> kind, id |-> id, syntax |-> syntax, at |-> at, truth |-> truth, plain |-> plain,
   height |-> Len(stack), before |-> Current, depth |-> depth]

\* A stub file is only ever read by the type checker.
Init ==
  \E contexts \in {{"typing"}, {"runtime", "typing"}} :
    LET initial == [versions |-> Targets, contexts |-> contexts] IN
    /\ stack = <<initial>>
    /\ open = <<[kind |-> "suite", id |-> <<>>, syntax |-> <<>>, at |-> 0, plain |-> TRUE,
                 truth |-> {i \in Interpreters : i.typing \/ "runtime" \in contexts},
                 height |-> 1, before |-> initial, depth |-> 0]>>
    /\ nodes = 0 /\ depth = 0
    /\ suites = <<>> /\ elifs = <<>> /\ pushed = {} /\ fallback = {}

-----------------------------------------------------------------------------
(* ReachabilityTracker.                                                     *)

Child(id, part) == Append(id, part)

\* enter and leave a node; a suite nothing was recorded for is left alone.
Enter(id) ==
  IF id \in DOMAIN suites
  THEN /\ stack' = Append(stack, suites[id])
       /\ pushed' = pushed \cup {id}
       /\ depth' = IF id \in fallback THEN depth + 1 ELSE depth
  ELSE UNCHANGED <<stack, pushed, depth>>

\* Mutant: only suites are left, so the state of an elif outlives it.
LeaveSuite(id) ==
  IF id \in pushed /\ id \in DOMAIN suites
  THEN /\ pushed' = pushed \ {id}
       /\ stack' = WithoutLast(stack)
       /\ depth' = IF id \in fallback THEN depth - 1 ELSE depth
  ELSE UNCHANGED <<stack, pushed, depth>>

Leave(id) ==
  IF id \in pushed
  THEN /\ pushed' = pushed \ {id}
       /\ stack' = WithoutLast(stack)
       /\ depth' = IF id \in fallback THEN depth - 1 ELSE depth
  ELSE UNCHANGED <<stack, pushed, depth>>

-----------------------------------------------------------------------------
(* The visitor in if statements.                                            *)

\* Mutant: an elif is evaluated in the state around the whole if statement.
IgnoreElifState(id) == UNCHANGED <<stack, pushed>>

\* enter_if: an elif takes the false state of the if before it.
EnterIf(id) ==
  IF id \in DOMAIN elifs
  THEN stack' = Append(stack, elifs[id]) /\ pushed' = pushed \cup {id}
  ELSE UNCHANGED <<stack, pushed>>

\* visit_If and assign_if; the else branch is "none", "else" or "elif".
VisitIf(id, test, orelse, path, truth, plain) ==
  LET active == stack'[Len(stack')]
      body == Put(suites, Child(id, "body"), Branch(active, test, TRUE))
      false == Branch(active, test, FALSE)
  IN
  /\ EnterIf(id)
  /\ suites' = IF orelse = "else" THEN Put(body, Child(id, "orelse"), false) ELSE body
  /\ elifs' = IF orelse = "elif" THEN Put(elifs, Child(id, "orelse"), false) ELSE elifs
  /\ open' = Append(path, Frame("if", id, [test |-> test, orelse |-> orelse], "test",
                                truth, plain))
  /\ UNCHANGED <<fallback, depth>>

OrElse == {"none", "else", "elif"}

\* An elif is counted with the statement it belongs to.
Count(own, orelse) ==
  /\ nodes' = nodes + own + (IF orelse = "elif" THEN 1 ELSE 0)
  /\ nodes' <= MaxNodes

\* An if statement among the statements of a suite.
StartIf ==
  /\ Top.kind = "suite" /\ nodes < MaxNodes
  /\ \E test \in Tests[nodes], orelse \in OrElse :
       /\ VisitIf(<<nodes>>, test, orelse, open, Top.truth, Top.plain)
       /\ Count(1, orelse)

\* The interpreters that take a branch, and the next part of the statement.
Taken(branch) == {i \in Top.truth : Holds(Top.syntax.test, i) = branch}
StillPlain == Top.plain /\ Decidable(Top.syntax.test)
At(part) == [open EXCEPT ![Len(open)].at = part]

EnterBranch(part, branch) ==
  LET id == Child(Top.id, part) IN
  /\ open' = Append(At(part), Frame("suite", id, <<>>, 0, Taken(branch), StillPlain))
  /\ Enter(id)
  /\ UNCHANGED <<nodes, suites, elifs, fallback>>

EnterBody == Top.kind = "if" /\ Top.at = "test" /\ EnterBranch("body", TRUE)

EnterElse ==
  /\ Top.kind = "if" /\ Top.at = "body" /\ Top.syntax.orelse = "else"
  /\ EnterBranch("orelse", FALSE)

StartElif ==
  /\ Top.kind = "if" /\ Top.at = "body" /\ Top.syntax.orelse = "elif"
  /\ \E test \in Tests[nodes - 1], orelse \in OrElse :
       /\ VisitIf(Child(Top.id, "orelse"), test, orelse, At("orelse"), Taken(FALSE), StillPlain)
       /\ Count(0, orelse)

LeaveIf ==
  /\ Top.kind = "if"
  /\ Top.at = "orelse" \/ (Top.at = "body" /\ Top.syntax.orelse = "none")
  /\ open' = WithoutLast(open)
  /\ Leave(Top.id)
  /\ UNCHANGED <<nodes, suites, elifs, fallback>>

-----------------------------------------------------------------------------
(* The visitor in try statements.                                           *)

\* import_fallback_versions: targets on which every import succeeds.
Known(imports) ==
  IF imports = {} \/ ~imports \subseteq DOMAIN Since THEN {}
  ELSE {v \in Current.versions : \A name \in imports : v >= Since[name]}

\* visit_Try: without the versions on which a changed sys.path can shadow one.
Succeeding(imports) ==
  {v \in Known(imports) : \A name \in imports : v \notin Uncertain[name]}

\* A handler catches only import errors, or more than that.
VisitTry(imports, catches) ==
  LET narrow == imports \cap Contested = {} /\ Known(imports) # {}
      narrowed == {<<nodes, n>> : n \in {m \in 1..Len(catches) : narrow /\ catches[m] = "import"}}
      state == [Current EXCEPT !.versions = @ \ Succeeding(imports)]
  IN
  /\ nodes < MaxNodes /\ nodes' = nodes + 1
  /\ suites' = [id \in DOMAIN suites \cup narrowed |->
                  IF id \in narrowed THEN state ELSE suites[id]]
  /\ fallback' = fallback \cup narrowed
  /\ open' = Append(open, Frame("try", <<nodes>>, [imports |-> imports, catches |-> catches], 0,
                                Top.truth, FALSE))
  /\ UNCHANGED <<stack, elifs, pushed, depth>>

StartTry ==
  /\ Top.kind = "suite"
  /\ \E imports \in Bodies, catches \in {<<"import">>, <<"any">>, <<"import", "any">>} :
       VisitTry(imports, catches)

\* A module of the table exists from its version on, and can be imported unless
\* something of the project's own takes its name.
MayFail(name, i) ==
  \/ name \notin DOMAIN Since \/ name \in Contested
  \/ i.minor < Since[name] \/ i.minor \in Uncertain[name]

EnterHandler ==
  LET n == Top.at + 1
      id == Child(Top.id, n)
      reach == {i \in Top.truth : Top.syntax.imports = {}
                                    \/ \E name \in Top.syntax.imports : MayFail(name, i)}
  IN
  /\ Top.kind = "try" /\ Top.at < Len(Top.syntax.catches)
  /\ open' = Append(At(n), Frame("suite", id, <<>>, 0, reach, FALSE))
  /\ Enter(id)
  /\ UNCHANGED <<nodes, suites, elifs, fallback>>

LeaveTry ==
  /\ Top.kind = "try" /\ Top.at = Len(Top.syntax.catches)
  /\ open' = WithoutLast(open)
  /\ UNCHANGED <<nodes, tracker>>

-----------------------------------------------------------------------------
LeaveBlock ==
  /\ Top.kind = "suite" /\ Len(open) > 1
  /\ open' = WithoutLast(open)
  /\ Leave(Top.id)
  /\ UNCHANGED <<nodes, suites, elifs, fallback>>

Next ==
  \/ StartIf \/ EnterBody \/ EnterElse \/ StartElif \/ LeaveIf
  \/ StartTry \/ EnterHandler \/ LeaveTry
  \/ LeaveBlock

Spec == Init /\ [][Next]_vars

-----------------------------------------------------------------------------
(* _symbol_import_versions: on which versions an import statement in the    *)
(* suite being visited runs, and on which of them that is not certain.      *)

Around(kind) == {n \in 1..Len(open) - 1 : open[n].kind = kind}
TruthAround(n, v) == EvaluateImport(open[n].syntax.test, v)

ImportVersions ==
  {v \in Current.versions :
     \A n \in Around("if") : TruthAround(n, v) # Truth(open[n].at # "body")}

UncertainVersions ==
  IF Around("try") # {} THEN ImportVersions
  ELSE {v \in ImportVersions : \E n \in Around("if") : TruthAround(n, v) = "unknown"}

-----------------------------------------------------------------------------
(* Properties.                                                              *)

States == [versions : SUBSET Targets, contexts : SUBSET {"runtime", "typing"}]

\* The tracker's stack is never empty and holds lexical states only; every
\* node it has pushed is one it has a state for.
TypeOK ==
  /\ Len(stack) = Cardinality(pushed) + 1
  /\ \A n \in 1..Len(stack) : stack[n] \in States
  /\ pushed \subseteq DOMAIN suites \cup DOMAIN elifs
  /\ fallback \subseteq DOMAIN suites
  /\ nodes \in 0..MaxNodes /\ depth \in 0..MaxNodes

\* No suite that some interpreter executes is pruned for its version or its
\* usage context: whatever micro version it is, whichever guards and handlers
\* surround it (evaluate_guard, branch_reachability, visit_Try).
Sound ==
  \A i \in Top.truth :
    /\ i.minor \in Current.versions
    /\ (IF i.typing THEN "typing" ELSE "runtime") \in Current.contexts

\* Where every enclosing guard is one the grammar decides, nothing is kept that
\* no interpreter reaches.
Exact ==
  Top.plain /\ Top.kind = "suite" =>
    {<<i.minor, i.typing>> : i \in Top.truth} =
      Current.versions \X {c = "typing" : c \in Current.contexts}

\* A version on which an import is reported as certain to run is one on which
\* every runtime interpreter gets to it, and no version on which one does is
\* left out (_symbol_import_versions, evaluate_import_guard).
CertainImports ==
  Top.kind = "suite" =>
    LET runs == ImportVersions
        certain == runs \ UncertainVersions
    IN  \A i \in {i \in open[1].truth : ~i.typing} :
          /\ i \in Top.truth => i.minor \in runs
          /\ i.minor \in certain => i \in Top.truth

\* Leaving a statement or suite puts back exactly the state it was entered in,
\* and the count of enclosing fallback handlers with it (ReachabilityTracker.leave).
Restores ==
  [][Len(open') < Len(open) =>
       Len(stack') = Top.height /\ Current' = Top.before /\ depth' = Top.depth]_vars
=============================================================================
