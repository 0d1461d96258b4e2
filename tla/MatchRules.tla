----------------------------- MODULE MatchRules -----------------------------
(***************************************************************************)
(* What one construct of a file matches: the names LibCST gives it, the    *)
(* constants its guards go through, the shape of its arguments, and the    *)
(* comments that suppress what is found in it.                             *)
(* src/pyahead/analysis/matchers/, the helpers of _MatcherVisitor in       *)
(* engine.py, and src/pyahead/analysis/suppressions.py.                    *)
(*                                                                         *)
(* A file is a sequence of statements in source order; each is one         *)
(* construct with the compound statements around it, outermost first, and  *)
(* shares none of them with the others.  A dotted name is the sequence of  *)
(* its parts.                                                              *)
(***************************************************************************)
EXTENDS VersionGuards, FiniteSets

CONSTANT
  Rules      \* the registry: matcher, name, removals, contexts, shape, aliases

DottedName == Seq(STRING) \ {<<>>}

\* The value of an argument: a literal, a name, or anything else.
ValueForm == [kind : STRING, value : Seq(STRING)]

Unlimited == -1
LimitForm == Nat \cup {Unlimited}
LiteralForm ==
  [position : LimitForm, keyword : STRING, equals : {x \in ValueForm : x.kind # "other"}]
ShapeForm ==
  [minPositional : LimitForm, maxPositional : LimitForm, minKeywords : LimitForm,
   maxKeywords : LimitForm, required : SUBSET STRING, forbidden : SUBSET STRING,
   literals : SUBSET LiteralForm]

RuleForm ==
  [id : STRING, ids : SUBSET STRING, name : DottedName, removed : SUBSET Nat,
   matcher : {"module", "reference", "call", "shape", "dynamic", "pattern"},
   contexts : SUBSET STRING, shape : ShapeForm, confidence : {"high", "medium"}]

ASSUME RulesAssumption ==
  /\ Rules \subseteq RuleForm
  /\ \A r, s \in Rules : r.id = s.id => r = s

Last(s) == s[Len(s)]
Prefix(s, t) == Len(s) <= Len(t) /\ SubSeq(t, 1, Len(s)) = s
Least(S) == CHOOSE n \in S : \A m \in S : n <= m

-----------------------------------------------------------------------------
(* The form of a file.                                                      *)

\* A guard may go through constants of the module; operands come first.
TermForm ==
  Comparisons \cup [kind : {"typing", "other", "info"}] \cup [kind : {"name"}, name : STRING]
    \cup [kind : {"via"}, name : STRING, test : Comparisons]
    \cup [kind : {"not"}, arg : Nat] \cup [kind : {"and", "or"}, arg : Nat, arg2 : Nat]
GuardForm ==
  {guard \in Seq(TermForm) \ {<<>>} :
     \A n \in 1..Len(guard) :
       /\ guard[n].kind \in {"not", "and", "or"} => guard[n].arg \in 1..n - 1
       /\ guard[n].kind \in {"and", "or"} => guard[n].arg2 \in 1..n - 1}

HandlerForm == [types : SUBSET DottedName, raises : BOOLEAN]
CompoundForm ==
  [kind : {"if"}, test : GuardForm, branch : {"body", "else"}]
    \cup [kind : {"try"}, handlers : Seq(HandlerForm), branch : {"body", "handler", "else"},
          skips : SUBSET Nat]
    \cup [kind : {"def"}, decorated : BOOLEAN, params : SUBSET STRING, branch : {"body"}]

AtomForm == [function : Seq(STRING), object : DottedName, attribute : STRING]
WrapForm == [op : {"and", "or"}, right : BOOLEAN, left : SUBSET AtomForm]
ArgumentForm ==
  [star : {""}, key : STRING, value : ValueForm]
    \cup [star : {"*", "**"}, key : {""}, value : ValueForm]

AliasForm == [name : STRING, as : STRING]
NodeForm ==
  [op : {"import"}, place : {"body"}, module : DottedName, as : STRING]
    \cup [op : {"from"}, place : {"body"}, relative : {FALSE}, module : DottedName,
          names : SUBSET AliasForm]
    \cup [op : {"from"}, place : {"body"}, relative : {TRUE}, module : Seq(STRING),
          names : SUBSET AliasForm]
    \cup [op : {"assign"}, place : {"body"}, to : STRING, value : GuardForm]
    \cup [op : {"use"}, place : {"body", "header"}, path : DottedName, context : STRING,
          variable : BOOLEAN, wraps : Seq(WrapForm)]
    \cup [op : {"call"}, place : {"body", "header"}, path : DottedName, context : STRING,
          variable : BOOLEAN, wraps : Seq(WrapForm), args : Seq(ArgumentForm)]
    \cup [op : {"invert"}, place : {"body", "header"}, operand : STRING]

LineForm ==
  {line \in [within : Seq(CompoundForm), oneline : BOOLEAN, span : Nat \ {0}, node : NodeForm] :
     line.oneline \/ line.node.place = "header" => line.within # <<>>}

CommentForm == [line : Nat, form : {"directive", "malformed", "text"}, ids : SUBSET STRING]
IgnoreForm == [matches : BOOLEAN, ids : SUBSET STRING]

\* A nested module of the project is one of a package of the project
\* (_project_module_prefixes).
FileForm ==
  {file \in [lines : Seq(LineForm), comments : Seq(CommentForm), ignores : Seq(IgnoreForm),
             stub : BOOLEAN, project : SUBSET STRING, nested : SUBSET DottedName] :
     \A name \in file.nested : name[1] \in file.project}

-----------------------------------------------------------------------------
Within(file, i) == file.lines[i].within
Node(file, i) == file.lines[i].node
Function(file, i) == \E k \in 1..Len(Within(file, i)) : Within(file, i)[k].kind = "def"

-----------------------------------------------------------------------------
(* The scopes of LibCST.                                                    *)

Builtins == {"hasattr", "__import__", "ImportError", "ModuleNotFoundError", "Exception",
             "BaseException", "ValueError"}

\* The name a construct binds, and what an import binds it to.
Import(at, name, target) == [at |-> at, name |-> name, source |-> "import", target |-> target]
Local(at, name) == [at |-> at, name |-> name, source |-> "local", target |-> <<name>>]
BoundAs(alias) == IF alias.as = "" THEN alias.name ELSE alias.as

Binds(file, i) ==
  LET node == Node(file, i) IN
  CASE node.op = "import" /\ node.as = "" -> {Import(i, node.module[1], <<node.module[1]>>)}
    [] node.op = "import" /\ node.as # "" -> {Import(i, node.as, node.module)}
    [] node.op = "from" ->
         {Import(i, BoundAs(a), (IF node.relative THEN <<".">> ELSE <<>>)
                                 \o node.module \o <<a.name>>) : a \in node.names}
    [] node.op = "assign" -> {Local(i, node.to)}
    [] OTHER -> {}

Params(file, i) ==
  UNION {Within(file, i)[k].params : k \in {n \in 1..Len(Within(file, i)) :
                                              Within(file, i)[n].kind = "def"}}

\* scope[name]: the innermost scope that assigns the name, whatever the order.
Assignments(file, i, name) ==
  LET own == {b \in Binds(file, i) : b.name = name} IN
  IF name \in Params(file, i) THEN {Local(i, name)}
  ELSE IF Function(file, i) /\ own # {} THEN own
  ELSE UNION {{b \in Binds(file, j) : b.name = name} :
                j \in {n \in 1..Len(file.lines) : ~Function(file, n)}}

\* _qualified_names.
QualifiedNames(file, i, path) ==
  LET found == Assignments(file, i, path[1]) IN
  IF found # {}
  THEN {[source |-> b.source, name |-> b.target \o SubSeq(path, 2, Len(path))] : b \in found}
  ELSE IF path[1] \in Builtins THEN {[source |-> "builtin", name |-> <<"builtins">> \o path]}
  ELSE {}

\* resolve_qualified_name_sources.
Resolution(names, expected, sources) ==
  LET admitted == {q.name : q \in {n \in names : n.source \in sources}} IN
  IF expected \notin admitted \/ \E q \in names : q.source \notin sources THEN "none"
  ELSE IF admitted = {expected} THEN "high" ELSE "medium"

Resolve(file, i, path, expected, sources) ==
  Resolution(QualifiedNames(file, i, path), expected, sources)

\* qualified_project_candidates: a project module takes the leading name.
Competing(file, path) == {"*", path[1]} \cap file.project # {}

\* competing_project_paths also looks for the module itself.
CompetingModule(file, module) == Competing(file, module) \/ module \in file.nested

\* Mutant: candidates are looked up by the name that is written.
CandidatesAsWritten(file, i, path, kind) ==
  {r \in Rules : r.matcher = kind /\ Last(r.name) = Last(path)}

\* _indexed_bindings: rules by the last part of the name, as written or resolved.
Candidates(file, i, path, kind) ==
  LET terminals == {Last(path)} \cup {Last(q.name) : q \in QualifiedNames(file, i, path)} IN
  {r \in Rules : r.matcher = kind /\ Last(r.name) \in terminals}

-----------------------------------------------------------------------------
(* Guards of imports, through constants of the module.                      *)

\* _guard_alias_value: the only assignment of the name, a plain one of the module on
\* an earlier line; 0 when there is none.
Constant(file, i, name) ==
  LET found == Assignments(file, i, name) IN
  IF \E b \in found : /\ found = {b} /\ b.source = "local" /\ b.at < i
                      /\ Node(file, b.at).op = "assign" /\ Within(file, b.at) = <<>>
  THEN (CHOOSE b \in found : TRUE).at ELSE 0

\* A comparison may reach sys.version_info through such a constant.
IsVersionInfo(file, j) == j # 0 /\ Node(file, j).value = <<[kind |-> "info"]>>

\* evaluate_import_guard, given what the constants before it evaluate to: a part of
\* the guard, from what its operands evaluate to.
TermTruth(file, i, e, truth, v, known) ==
  CASE e.kind = "name" -> known[Constant(file, i, e.name)]
    [] e.kind = "via"  -> IF IsVersionInfo(file, Constant(file, i, e.name))
                          THEN EvaluateImport(<<e.test>>, v) ELSE "unknown"
    [] e.kind = "not"  -> TruthNot(truth[e.arg])
    [] e.kind = "and"  -> TruthAnd(truth[e.arg], truth[e.arg2])
    [] e.kind = "or"   -> TruthOr(truth[e.arg], truth[e.arg2])
    [] e.kind = "info" -> "unknown"
    [] OTHER -> EvaluateImport(<<e>>, v)

GuardTruth(file, i, guard, v, known) ==
  LET truth[n \in 1..Len(guard)] == TermTruth(file, i, guard[n], truth, v, known)
  IN  truth[Len(guard)]

ConstantTruth(file, v) ==
  LET value[j \in 0..Len(file.lines)] ==
        IF j = 0 \/ Node(file, j).op # "assign" THEN "unknown"
        ELSE GuardTruth(file, j, Node(file, j).value, v, [k \in 0..j - 1 |-> value[k]])
  IN  value

ImportTruth(file, i, guard, v) == GuardTruth(file, i, guard, v, ConstantTruth(file, v))

\* The guard as the other visits see it: no constant is followed.
Plain(guard) ==
  [n \in 1..Len(guard) |-> IF guard[n].kind \in {"name", "via", "info"}
                           THEN [kind |-> "other"] ELSE guard[n]]

\* Mutant: what may prevent an import is not looked for.
SymbolImportVersionsPlain(file, i, versions) ==
  [reachable |-> versions, uncertain |-> {}]

\* _symbol_import_versions.
SymbolImportVersions(file, i, versions) ==
  LET frames == Within(file, i)
      Ifs == {k \in 1..Len(frames) : frames[k].kind = "if"}
      Told(k, v) == ImportTruth(file, i, frames[k].test, v)
      reachable == {v \in versions :
                      \A k \in Ifs : Told(k, v) # Truth(frames[k].branch # "body")}
      Prevents(k) == \/ frames[k].kind = "try" /\ frames[k].branch = "handler"
                     \/ frames[k].kind = "def" /\ frames[k].decorated
  IN  [reachable |-> reachable,
       uncertain |-> {v \in reachable : \/ \E k \in 1..Len(frames) : Prevents(k)
                                        \/ \E k \in Ifs : Told(k, v) = "unknown"}]

-----------------------------------------------------------------------------
(* Imports whose failure is handled.                                        *)

\* A handler of everything, or of a type that resolves to one of these.
Catches(file, i, handler) ==
  \/ handler.types = {}
  \/ \E type \in handler.types, name \in {"ImportError", "Exception", "BaseException"} :
       Resolve(file, i, type, <<"builtins", name>>, {"import", "builtin"}) = "high"

FirstCatching(file, i, handlers) ==
  LET catching == {h \in 1..Len(handlers) : Catches(file, i, handlers[h])} IN
  IF catching = {} THEN 0 ELSE Least(catching)

\* _symbol_import_is_optional: up to the function around the import, some try has a
\* handler for it that does not merely raise again.
Optional(file, i) ==
  \E k \in 1..Len(Within(file, i)) :
    LET frame == Within(file, i)[k] IN
    /\ frame.kind = "try" /\ frame.branch = "body"
    /\ \A n \in k + 1..Len(Within(file, i)) : Within(file, i)[n].kind # "def"
    /\ LET h == FirstCatching(file, i, frame.handlers) IN h # 0 /\ ~frame.handlers[h].raises

-----------------------------------------------------------------------------
(* Calls.  An argument is [star, key, value], its value a literal or not:   *)
(* [kind, value], a name as the sequence of its parts.                      *)

\* The positional arguments that are visible, in order.
Positional(call) ==
  LET upTo[n \in 0..Len(call)] ==
        IF n = 0 THEN <<>>
        ELSE IF call[n].star = "" /\ call[n].key = "" THEN Append(upTo[n - 1], call[n])
        ELSE upTo[n - 1]
  IN  upTo[Len(call)]

\* call_arguments: the arguments that are visible, and what may hide others.
Arguments(call) ==
  LET named == {n \in 1..Len(call) : call[n].star = "" /\ call[n].key # ""}
      keys == {call[n].key : n \in named}
  IN  [positional |-> Positional(call),
       keywords |-> [k \in keys |-> LET at == {n \in named : call[n].key = k} IN
                                    call[CHOOSE n \in at : \A m \in at : m <= n].value],
       starred |-> \E n \in 1..Len(call) : call[n].star = "*",
       doubleStarred |-> \E n \in 1..Len(call) : call[n].star = "**",
       duplicate |-> Cardinality(keys) # Cardinality(named)]

AtLeast(count, minimum) == minimum = Unlimited \/ count >= minimum
AtMost(count, maximum) == maximum = Unlimited \/ count <= maximum

\* _literal_equals: the type of the literal counts too.
LiteralEquals(value, expected) == value.kind # "other" /\ value = expected

\* _positional_shape_matches.
PositionalShape(arguments, shape) ==
  LET count == Len(arguments.positional) IN
  /\ arguments.starred => /\ shape.maxPositional = Unlimited
                          /\ \A l \in shape.literals : l.position = Unlimited
  /\ AtLeast(count, shape.minPositional) /\ AtMost(count, shape.maxPositional)

\* _keyword_shape_matches.
KeywordShape(arguments, shape) ==
  LET names == DOMAIN arguments.keywords IN
  /\ AtLeast(Cardinality(names), shape.minKeywords)
  /\ AtMost(Cardinality(names), shape.maxKeywords)
  /\ shape.required \subseteq names
  /\ shape.forbidden \cap names = {}
  /\ arguments.doubleStarred => shape.maxKeywords = Unlimited /\ shape.forbidden = {}

\* _literal_shape_matches.
LiteralShape(arguments, shape) ==
  \A l \in shape.literals :
    IF l.position # Unlimited
    THEN /\ l.position < Len(arguments.positional)
         /\ LiteralEquals(arguments.positional[l.position + 1].value, l.equals)
    ELSE /\ l.keyword \in DOMAIN arguments.keywords
         /\ LiteralEquals(arguments.keywords[l.keyword], l.equals)

\* call_shape_matches.
ShapeMatches(call, shape) ==
  LET arguments == Arguments(call) IN
  /\ ~arguments.duplicate
  /\ PositionalShape(arguments, shape)
  /\ KeywordShape(arguments, shape)
  /\ LiteralShape(arguments, shape)

\* The parameters of importlib.import_module and __import__.
Parameters(function) ==
  IF function = "import_module" THEN <<"name", "package">>
  ELSE <<"name", "globals", "locals", "fromlist", "level">>

NoModule == <<>>
Zero == [kind |-> "int", value |-> <<"0">>]

\* The argument a parameter takes, given its position from 0.
ArgumentOf(arguments, position, name) ==
  IF position < Len(arguments.positional) THEN <<arguments.positional[position + 1].value>>
  ELSE IF name \in DOMAIN arguments.keywords THEN <<arguments.keywords[name]>>
  ELSE <<>>

\* literal_dynamic_module: the absolute module a call certainly imports.
DynamicModule(call, function) ==
  LET arguments == Arguments(call)
      parameters == Parameters(function)
      Names == {parameters[n] : n \in 1..Len(parameters)}
      twice == \E n \in 1..Len(parameters) : /\ parameters[n] \in DOMAIN arguments.keywords
                                             /\ n <= Len(arguments.positional)
      level == IF function = "import_module" THEN <<>> ELSE ArgumentOf(arguments, 4, "level")
      name == ArgumentOf(arguments, 0, "name")
  IN  IF \/ arguments.duplicate \/ arguments.starred \/ arguments.doubleStarred
         \/ Len(arguments.positional) > Len(parameters)
         \/ ~(DOMAIN arguments.keywords \subseteq Names) \/ twice
         \/ level \notin {<<>>, <<Zero>>}
         \/ name = <<>>
      THEN NoModule
      ELSE IF name[1].kind = "module" THEN name[1].value ELSE NoModule

\* _exact_hasattr_guard for a conjunction: one of its members asks for the attribute.
\* An atom is [function, object, attribute], or something else.
ExactHasattr(file, i, conjunction, name) ==
  \E atom \in conjunction :
    /\ atom.function # <<>> /\ Len(name) > 1
    /\ Resolve(file, i, atom.function, <<"builtins", "hasattr">>, {"builtin"}) = "high"
    /\ atom.attribute = Last(name)
    /\ Resolve(file, i, atom.object, SubSeq(name, 1, Len(name) - 1), {"import"}) = "high"
=============================================================================
