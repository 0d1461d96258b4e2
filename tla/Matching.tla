------------------------------ MODULE Matching ------------------------------
(***************************************************************************)
(* The matcher traversal: _MatcherVisitor of                               *)
(* src/pyahead/analysis/engine.py walks one file, keeps the compound       *)
(* statements around it and the lexical state they leave, and records what *)
(* each construct matches; the comments of the file and the patterns of    *)
(* the configuration then suppress what they name.                         *)
(*                                                                         *)
(* The visits of if and try statements are those of Reachability; here     *)
(* their states are what those visits leave for one path through them.     *)
(***************************************************************************)
EXTENDS ProgramRuns

CONSTANTS
  Files,   \* the files
  Room     \* the lines the layout keeps for a statement

ASSUME IdentifiersAssumption == \A r, s \in Rules : r.ids \cap s.ids # {} => r = s

ASSUME FilesAssumption ==
  /\ Files \subseteq FileForm /\ Room \in Nat
  /\ \A f \in Files : \A i \in 1..Len(f.lines) :
       3 * Len(Within(f, i)) + f.lines[i].span <= Room

VARIABLES
  file,       \* the file being visited
  at,         \* the statement being visited; past the last one when all were
  down,       \* whether its construct is still to be visited
  ancestors,  \* _ancestors: the compound statements around it, outermost first
  reach,      \* the lexical states, innermost last
  matches,    \* matches
  inferences, \* inferences and suppression diagnostics, each recorded once
  mutations,  \* path_mutations
  muted       \* the suppression of each match, once they are bound

visitorVars == <<file, at, down, ancestors, reach, matches, inferences, mutations, muted>>

SuppressionsOf == INSTANCE Suppressions WITH RuleNames <- {[id |-> r.id, ids |-> r.ids] : r \in Rules}

State == Last(reach)
Frames == Within(file, at)

\* What is visited in the header of a compound statement is not yet inside it.
Depth(i) == Len(Within(file, i)) - (IF Node(file, i).place = "header" THEN 1 ELSE 0)

VisitorInit ==
  /\ file \in Files
  /\ at = 1 /\ down = TRUE /\ ancestors = <<>>
  /\ reach = <<[versions |-> Targets,
                contexts |-> IF file.stub THEN {"typing"} ELSE {"runtime", "typing"}]>>
  /\ matches = {} /\ inferences = {} /\ mutations = {} /\ muted = <<>>

-----------------------------------------------------------------------------
(* Records.                                                                 *)

Match(kind, rule, confidence, versions, contexts) ==
  [at |-> at, kind |-> kind, rule |-> rule, confidence |-> confidence, versions |-> versions,
   contexts |-> contexts, unknown |-> {}, links |-> {}]

Here(kind, rule, confidence) == Match(kind, rule, confidence, State.versions, State.contexts)

\* _record_competing_module.
NotClassified(name) == [code |-> "PYA2001", at |-> at, name |-> name]

\* A visit adds what it found.
Add(found, told) ==
  /\ matches' = matches \cup found
  /\ inferences' = inferences \cup told

-----------------------------------------------------------------------------
(* Imports.                                                                 *)

\* _record_import.
ModuleRules(module) == {r \in Rules : r.matcher = "module" /\ Prefix(r.name, module)}
ImportMatches(module) ==
  IF CompetingModule(file, module) THEN {}
  ELSE {Here("module", r, "high") : r \in ModuleRules(module)}
ImportInferences(module) ==
  IF CompetingModule(file, module) /\ ModuleRules(module) # {} THEN {NotClassified(module)} ELSE {}

\* The references that LibCST links to an import.
References(name) ==
  {j \in 1..Len(file.lines) :
     /\ Node(file, j).op \in {"use", "call"} /\ Node(file, j).path[1] = name
     /\ \E b \in Assignments(file, j, name) : b.at = at}

\* _record_symbol_import.
SymbolRules(name) ==
  {r \in Rules : /\ r.matcher = "reference" /\ r.name = name
                 /\ r.contexts = {} \/ "read" \in r.contexts
                 /\ r.removed # {} /\ ~Optional(file, at)}

SymbolMatch(rule, alias) ==
  LET found == SymbolImportVersions(file, at, State.versions) IN
  [Match("symbol", rule, "high", {v \in found.reachable : v >= Least(rule.removed)},
         State.contexts \cap {"runtime"})
   EXCEPT !.unknown = found.uncertain, !.links = References(BoundAs(alias))]

SymbolMatches(name, alias) ==
  IF Competing(file, name) THEN {} ELSE {SymbolMatch(r, alias) : r \in SymbolRules(name)}
SymbolInferences(name) ==
  IF Competing(file, name) /\ SymbolRules(name) # {} THEN {NotClassified(name)} ELSE {}

VisitImport ==
  /\ Node(file, at).op = "import"
  /\ Add(ImportMatches(Node(file, at).module), ImportInferences(Node(file, at).module))
  /\ UNCHANGED mutations

\* visit_ImportFrom: the module, then each name as a submodule and as a symbol.
ChildOf(a) == Append(Node(file, at).module, a.name)
Submodules ==
  {a \in Node(file, at).names : \E r \in Rules : r.matcher = "module" /\ r.name = ChildOf(a)}

NamedMatches ==
  (UNION {ImportMatches(ChildOf(a)) : a \in Submodules})
    \cup (UNION {SymbolMatches(ChildOf(a), a) : a \in Node(file, at).names})
NamedInferences ==
  (UNION {ImportInferences(ChildOf(a)) : a \in Submodules})
    \cup (UNION {SymbolInferences(ChildOf(a)) : a \in Node(file, at).names})

VisitImportFrom ==
  LET node == Node(file, at) IN
  /\ node.op = "from"
  /\ IF node.relative THEN Add({}, {})
     ELSE Add(ImportMatches(node.module) \cup NamedMatches,
              ImportInferences(node.module) \cup NamedInferences)
  /\ UNCHANGED mutations

-----------------------------------------------------------------------------
(* References and calls.                                                    *)

\* _hasattr_guarded_versions: the right side of an "and" whose left side asks for
\* the attribute runs only where it still is.
Guarded(rule) ==
  \E n \in 1..Len(Node(file, at).wraps) :
    LET wrap == Node(file, at).wraps[n] IN
    wrap.op = "and" /\ wrap.right /\ ExactHasattr(file, at, wrap.left, rule.name)

GuardedVersions(rule) ==
  IF Guarded(rule) /\ rule.removed # {}
  THEN {v \in State.versions : v < Least(rule.removed)} ELSE State.versions

\* _annotation_is_deferred: a local variable's annotation is never evaluated.
Deferred(i) ==
  Node(file, i).context = "annotation" /\ Node(file, i).variable /\ Function(file, i)

ImportResolution(path, name) == Resolve(file, at, path, name, {"import"})

\* _visit_reference, for a name and every attribute of it.
Referred(path) ==
  {r \in Candidates(file, at, path, "reference") :
     /\ r.contexts = {} \/ Node(file, at).context \in r.contexts
     /\ ImportResolution(path, r.name) # "none"}

ReferenceMatches(path) ==
  {Match("reference", r, ImportResolution(path, r.name), GuardedVersions(r),
         IF Deferred(at) THEN State.contexts \cap {"typing"} ELSE State.contexts) :
     r \in {x \in Referred(path) : ~Competing(file, x.name)}}

\* _record_qualified_call.
Called(path) ==
  {r \in Candidates(file, at, path, "call") \cup Candidates(file, at, path, "shape") :
     /\ r.matcher = "shape" => ShapeMatches(Node(file, at).args, r.shape)
     /\ ImportResolution(path, r.name) # "none"}

CallMatches(path) ==
  {Match(r.matcher, r, ImportResolution(path, r.name), GuardedVersions(r), State.contexts) :
     r \in {x \in Called(path) : ~Competing(file, x.name)}}

\* _project_safe_resolution tells why a name was not classified.
NameInferences(found) == {NotClassified(r.name) : r \in {x \in found : Competing(file, x.name)}}

\* _record_dynamic_import.
ImportModule == <<"importlib", "import_module">>
BuiltinImport == <<"builtins", "__import__">>

DynamicFunction(path) ==
  IF Resolve(file, at, path, ImportModule, {"import"}) # "none"
  THEN [name |-> "import_module", confidence |-> Resolve(file, at, path, ImportModule, {"import"})]
  ELSE [name |-> "__import__",
        confidence |-> Resolve(file, at, path, BuiltinImport, {"builtin", "import"})]

DynamicRules(module) == {r \in Rules : r.matcher = "dynamic" /\ Prefix(r.name, module)}

Combined(authored, confidence) == IF "medium" \in {authored, confidence} THEN "medium" ELSE authored

RecordDynamic(path, found, told) ==
  LET function == DynamicFunction(path)
      module == DynamicModule(Node(file, at).args, function.name)
      unsafe == function.name = "import_module" /\ Competing(file, ImportModule)
  IN
  IF function.confidence = "none" \/ module = NoModule \/ DynamicRules(module) = {}
  THEN Add(found, told)
  ELSE IF unsafe THEN Add(found, told \cup {NotClassified(ImportModule)})
  ELSE IF CompetingModule(file, module) THEN Add(found, told \cup {NotClassified(module)})
  ELSE Add(found \cup {Here("dynamic", r, Combined(r.confidence, function.confidence)) :
                         r \in DynamicRules(module)}, told)

\* A name is visited with each of the names it is an attribute of.
Prefixes(path) == {SubSeq(path, 1, n) : n \in 1..Len(path)}

ReferencesFound(path) == UNION {ReferenceMatches(p) : p \in Prefixes(path)}
ReferencesTold(path) == UNION {NameInferences(Referred(p)) : p \in Prefixes(path)}

VisitUse ==
  /\ Node(file, at).op = "use"
  /\ Add(ReferencesFound(Node(file, at).path), ReferencesTold(Node(file, at).path))
  /\ UNCHANGED mutations

\* visit_Call: changes of sys.path, calls, dynamic imports; the function is also a
\* reference.
VisitCall ==
  LET path == Node(file, at).path
      operation == Last(path)
  IN
  /\ Node(file, at).op = "call"
  /\ mutations' =
       IF /\ operation \in {"append", "insert"}
          /\ State.versions # {} /\ "runtime" \in State.contexts
          /\ ImportResolution(path, <<"sys", "path", operation>>) = "high"
       THEN mutations \cup {[at |-> at, operation |-> operation, versions |-> State.versions]}
       ELSE mutations
  /\ RecordDynamic(path, CallMatches(path) \cup ReferencesFound(path),
                   NameInferences(Called(path)) \cup ReferencesTold(path))

\* visit_UnaryOperation: the inversion of a boolean constant.
VisitInversion ==
  /\ Node(file, at).op = "invert"
  /\ Add({Here("pattern", r, "high") :
            r \in {x \in Rules : x.matcher = "pattern" /\ Node(file, at).operand \in {"True", "False"}}}, {})
  /\ UNCHANGED mutations

VisitAssign == Node(file, at).op = "assign" /\ Add({}, {}) /\ UNCHANGED mutations

-----------------------------------------------------------------------------
(* The traversal.                                                           *)

Inside == at <= Len(file.lines)

\* What a compound statement leaves for the part of it that is entered.
Entered(state, frame) ==
  CASE frame.kind = "if" -> Branch(state, Plain(frame.test), frame.branch = "body")
    [] frame.kind = "try" -> IF frame.branch = "handler"
                             THEN [state EXCEPT !.versions = @ \ frame.skips] ELSE state
    [] frame.kind = "def" -> state

\* on_visit of a compound statement and of the suite that leads to the construct.
VisitCompound ==
  /\ Inside /\ down /\ Len(ancestors) < Depth(at)
  /\ LET frame == Frames[Len(ancestors) + 1]
         patch == frame.kind = "if" /\ \E n \in 1..Len(frame.test) : Patch(frame.test[n])
     IN
     /\ ancestors' = Append(ancestors, frame)
     /\ reach' = Append(reach, Entered(State, frame))
     /\ inferences' = IF patch
                      THEN inferences \cup {[code |-> "PYA2002", at |-> at, name |-> <<>>]}
                      ELSE inferences
  /\ UNCHANGED <<file, at, down, matches, mutations, muted>>

VisitNode ==
  /\ Inside /\ down /\ Len(ancestors) = Depth(at)
  /\ VisitImport \/ VisitImportFrom \/ VisitUse \/ VisitCall \/ VisitInversion \/ VisitAssign
  /\ down' = FALSE
  /\ UNCHANGED <<file, at, ancestors, reach, muted>>

\* on_leave.
LeaveCompound ==
  /\ ~down /\ ancestors # <<>>
  /\ ancestors' = SubSeq(ancestors, 1, Len(ancestors) - 1)
  /\ reach' = SubSeq(reach, 1, Len(reach) - 1)
  /\ UNCHANGED <<file, at, down, matches, inferences, mutations, muted>>

NextStatement ==
  /\ ~down /\ ancestors = <<>>
  /\ at' = at + 1 /\ down' = TRUE
  /\ UNCHANGED <<file, ancestors, reach, matches, inferences, mutations, muted>>

-----------------------------------------------------------------------------
(* The layout of a file: where its statements and its headers are.          *)

\* A compound statement takes a line for its decorator, its header and its branch.
Line(i, k, part) == Room * i + 3 * k + part
HeaderLine(i, k) == Line(i, k, 1)
BranchLine(i, k) == Line(i, k, 2)

\* The construct is below its compound statements, or on the line of the last one.
FirstLine(f, i) ==
  LET n == Len(Within(f, i)) IN
  IF f.lines[i].oneline
  THEN IF Within(f, i)[n].branch = "body" THEN HeaderLine(i, n) ELSE BranchLine(i, n)
  ELSE Line(i, n + 1, 0)

Region(first, start, last) == [first |-> first, start |-> start, last |-> last, end |-> 9]

\* bind_inline_suppressions: simple statements, one-line suites, decorators, and the
\* headers of compound statements with a block of their own.  An else has none.
HeaderRegions(f, i, k) ==
  LET frame == Within(f, i)[k]
      block == k < Len(Within(f, i)) \/ ~f.lines[i].oneline
  IN  (IF frame.kind = "def" /\ frame.decorated THEN {Region(Line(i, k, 0), 0, Line(i, k, 0))}
       ELSE {})
      \cup (IF block \/ frame.branch # "body" THEN {Region(HeaderLine(i, k), 0, HeaderLine(i, k))}
            ELSE {})
      \cup (IF block /\ frame.branch = "handler"
            THEN {Region(BranchLine(i, k), 0, BranchLine(i, k))} ELSE {})

StatementRegion(f, i) ==
  Region(FirstLine(f, i), IF f.lines[i].oneline THEN 5 ELSE 0,
         FirstLine(f, i) + f.lines[i].span - 1)

Regions(f) ==
  UNION {{StatementRegion(f, i)} \cup UNION {HeaderRegions(f, i, k) : k \in 1..Len(Within(f, i))} :
           i \in 1..Len(f.lines)}

\* Where a construct is: in the header of the last compound statement, or on the
\* last line of its own statement.
Location(f, i) ==
  LET line == IF Node(f, i).place = "header" THEN HeaderLine(i, Len(Within(f, i)))
              ELSE StatementRegion(f, i).last
  IN  [first |-> line, start |-> IF Node(f, i).place = "header" THEN 2 ELSE 6,
       last |-> line, end |-> IF Node(f, i).place = "header" THEN 4 ELSE 8]

\* The comments are bound and the patterns resolved once, and suppression_for_finding
\* is asked about everything that was found.
Suppress ==
  /\ ~Inside /\ muted = <<>>
  /\ muted' = [m \in matches |->
                 SuppressionsOf!Suppression(Regions(file), SuppressionsOf!Directives(file.comments),
                                            file.ignores, m.rule.id, Location(file, m.at))]
  /\ inferences' = inferences \cup SuppressionsOf!CommentDiagnostics(file.comments)
                              \cup SuppressionsOf!IgnoreDiagnostics(file.ignores)
  /\ UNCHANGED <<file, at, down, ancestors, reach, matches, mutations>>

VisitorNext == VisitCompound \/ VisitNode \/ LeaveCompound \/ NextStatement \/ Suppress

VisitorSpec == VisitorInit /\ [][VisitorNext]_visitorVars

-----------------------------------------------------------------------------
(* What the findings are worth.                                             *)

Done == ~Inside
Affected(rule, v) == rule.removed = {} \/ v >= Least(rule.removed)

\* The match says so for an interpreter of that version.
Reported(i, rule, v) ==
  \/ \E m \in matches : m.at = i /\ m.rule = rule /\ v \in m.versions /\ "runtime" \in m.contexts
  \/ \E e \in inferences : e.code = "PYA2001" /\ e.at = i

\* Each name a from-import gives is a submodule or an attribute of its module.
Named(node) == {Append(node.module, a.name) : a \in node.names}

\* Stars are given no benefit of the doubt.
Unstarred(args) == \A n \in 1..Len(args) : args[n].star = ""

\* The rules a construct falls under when it runs, whatever the analysis thinks of it.
Concerned(f, i) ==
  LET node == Node(f, i) IN
  CASE node.op = "import" -> {r \in Rules : r.matcher = "module" /\ Prefix(r.name, node.module)}
    [] node.op = "from" /\ ~node.relative ->
         {r \in Rules :
            \/ r.matcher = "module" /\ (Prefix(r.name, node.module) \/ r.name \in Named(node))
            \/ /\ r.matcher = "reference" /\ r.name \in Named(node) /\ r.removed # {}
               /\ r.contexts \in {{}, {"read"}} /\ Escapes(f, i)}
    [] node.op \in {"use", "call"} /\ ~Deferred(i) ->
         {r \in Rules :
            \/ /\ r.matcher = "reference" /\ (r.contexts = {} \/ node.context \in r.contexts)
               /\ \E p \in Prefixes(node.path) : r.name \in Denoted(f, i, p)
            \/ /\ node.op = "call" /\ r.name \in Denoted(f, i, node.path)
               /\ r.matcher = "call" \/ (r.matcher = "shape" /\ Unstarred(node.args)
                                         /\ Legal(node.args) /\ Fits(node.args, r.shape))}
    [] OTHER -> {}

\* Whatever fails in some run of the file on a target is reported for that target, or
\* it is said that a module of the project takes its place: nothing is lost between
\* the aliases, the guards, the handlers and the short circuits around it.  The whole
\* of _MatcherVisitor; an import whose failure a handler keeps is left out on purpose.
FailuresAreReported ==
  Done /\ ~file.stub =>
    \A i \in 1..Len(file.lines) : \A r \in Concerned(file, i) : \A v \in Targets :
      /\ MayRun(file, i, v) /\ Affected(r, v)
      /\ Node(file, i).op \in {"use", "call"} /\ r.removed # {} => ~Sheltered(file, i, r.name)
      => Reported(i, r, v)

\* A match of high confidence is proof.  A symbol that is imported is removed, its
\* import is sure to run when the module or the function around it does, except on
\* the versions it lists as unknown, and no handler surely keeps its failure.  A name
\* is bound to nothing else, it is evaluated in spite of hasattr, and the call has the
\* shape whatever its stars stand for.  _record_symbol_import, _record_qualified_call,
\* call_shape_matches and resolve_qualified_name_sources.
HighIsProven ==
  \A m \in matches :
    LET node == Node(file, m.at) IN
    m.confidence = "high" =>
      CASE m.kind = "symbol" ->
             /\ ~Shadowed(file, m.rule.name) /\ Escapes(file, m.at)
             /\ \A v \in m.versions :
                  Affected(m.rule, v) /\ (v \notin m.unknown => MustRun(file, m.at, v))
        [] m.kind \in {"reference", "call", "shape"} ->
             /\ ~Shadowed(file, m.rule.name)
             /\ \E p \in Prefixes(node.path) : Denoted(file, m.at, p) = {m.rule.name}
             /\ Sheltered(file, m.at, m.rule.name) =>
                  \A v \in m.versions : m.rule.removed = {} \/ ~Affected(m.rule, v)
             /\ m.kind = "shape" => SurelyFits(node.args, m.rule.shape)
        [] OTHER -> TRUE

\* The lines of the statement that holds a construct.  A header whose suite is on its
\* own line has no lines of its own, so that a comment there speaks of the suite.
StatementLines(f, i) ==
  LET n == Len(Within(f, i)) IN
  IF Node(f, i).place = "body" THEN FirstLine(f, i)..FirstLine(f, i) + f.lines[i].span - 1
  ELSE IF f.lines[i].oneline /\ Within(f, i)[n].branch = "body" THEN {}
  ELSE {HeaderLine(i, n)}

Names(ids, rule) == ids \cap rule.ids # {}

\* What is found is suppressed by a comment exactly when one names its rule on a line
\* of its statement, and otherwise by a pattern exactly when one that matches the file
\* names it.  The sweep of bind_inline_suppressions and the search of
\* matching_directive only look at one statement for each comment, and at one comment
\* for each finding.
SuppressedAsWritten ==
  Done /\ muted # <<>> =>
    \A m \in matches :
      LET inline == \E n \in 1..Len(file.comments) :
                      /\ file.comments[n].form = "directive" /\ Names(file.comments[n].ids, m.rule)
                      /\ file.comments[n].line \in StatementLines(file, m.at)
          ignored == \E n \in 1..Len(file.ignores) :
                       file.ignores[n].matches /\ Names(file.ignores[n].ids, m.rule)
      IN  muted[m] = IF inline THEN "inline" ELSE IF ignored THEN "per-file" ELSE "none"
=============================================================================
