----------------------------- MODULE ProgramRuns -----------------------------
(***************************************************************************)
(* What running a file does: which of its constructs an interpreter may    *)
(* reach, or must, what a name is bound to by then, and where an import    *)
(* that fails is caught.  Nothing of this is in the analyser: it is what   *)
(* the findings of src/pyahead/analysis/engine.py are about, for files in  *)
(* the form of MatchRules.                                                 *)
(***************************************************************************)
EXTENDS MatchRules

Running(v) == {i \in Interpreter({v}, Micros) : ~i.typing}

\* The bindings that may have run before a construct does: those above it, or any
\* when it is in a function, which is called later.
Reaching(f, i, name) ==
  {b \in Assignments(f, i, name) : Function(f, i) \/ b.at < i}

Assigned(f, b) == b.source = "local" /\ Node(f, b.at).op = "assign" /\ ~Function(f, b.at)

\* The truth values a part of a guard may have when it is evaluated, given those of
\* its operands and of the assignments above it.  A local assignment that was not
\* above may have any value.
TermValues(f, i, e, value, run, known) ==
  LET bound == Reaching(f, i, e.name)
      Told(b) == Assigned(f, b) /\ b.at \in DOMAIN known
  IN
  CASE e.kind = "compare" -> {Ordered(e, Shown(e.shape, run))}
    [] e.kind = "typing"  -> {run.typing}
    [] e.kind = "other"   -> BOOLEAN
    [] e.kind = "info"    -> {TRUE}
    [] e.kind = "not"     -> {~x : x \in value[e.arg]}
    [] e.kind = "and"     -> {x /\ y : x \in value[e.arg], y \in value[e.arg2]}
    [] e.kind = "or"      -> {x \/ y : x \in value[e.arg], y \in value[e.arg2]}
    [] e.kind = "name"    -> IF bound = {} \/ \E b \in bound : ~Told(b) THEN BOOLEAN
                             ELSE UNION {known[b.at] : b \in bound}
    [] e.kind = "via"     ->
         IF \E b \in bound : ~Told(b) \/ Node(f, b.at).value # <<[kind |-> "info"]>>
         THEN BOOLEAN ELSE {Ordered(e.test, Shown(e.test.shape, run))}

Values(f, i, guard, run, known) ==
  LET value[n \in 1..Len(guard)] == TermValues(f, i, guard[n], value, run, known)
  IN  value[Len(guard)]

Constants(f, run) ==
  LET known[j \in 0..Len(f.lines)] ==
        IF j = 0 \/ Node(f, j).op # "assign" THEN BOOLEAN
        ELSE Values(f, j, Node(f, j).value, run, [k \in 0..j - 1 |-> known[k]])
  IN  known

TestValues(f, i, guard, run) == Values(f, i, guard, run, Constants(f, run))

\* Each compound statement around the construct may let it run, or is sure to.
MayRun(f, i, v) ==
  \E run \in Running(v) : \A k \in 1..Len(Within(f, i)) :
    LET frame == Within(f, i)[k] IN
    /\ frame.kind = "if" => (frame.branch = "body") \in TestValues(f, i, frame.test, run)
    /\ frame.kind = "try" /\ frame.branch = "handler" => v \notin frame.skips

\* What a handler needs is a failure, and what a decorator leaves is anything.
MustRun(f, i, v) ==
  \A run \in Running(v) : \A k \in 1..Len(Within(f, i)) :
    LET frame == Within(f, i)[k] IN
    /\ frame.kind = "if" => TestValues(f, i, frame.test, run) = {frame.branch = "body"}
    /\ frame.kind = "try" => frame.branch # "handler"
    /\ frame.kind = "def" => ~frame.decorated

-----------------------------------------------------------------------------
(* Exceptions.                                                              *)

ImportErrorClasses == {<<"ImportError">>, <<"Exception">>, <<"BaseException">>}

\* The classes a path may denote where the handler is.
Denotes(f, i, path) ==
  LET bound == Assignments(f, i, path[1]) IN
  IF bound = {} THEN {path}
  ELSE {IF b.source = "import" /\ b.target[1] = "builtins"
        THEN SubSeq(b.target, 2, Len(b.target)) \o SubSeq(path, 2, Len(path))
        ELSE <<"?">> : b \in bound}

SurelyHandles(f, i, handler) ==
  handler.types = {} \/ \E t \in handler.types : \E c \in ImportErrorClasses : Denotes(f, i, t) = {c}

\* An ImportError raised inside the first k compound statements leaves the module,
\* or the function it is in, unless a handler surely takes it and keeps it.
Escapes(f, i) ==
  LET out[k \in 0..Len(Within(f, i))] ==
        IF k = 0 \/ Within(f, i)[k].kind = "def" THEN TRUE
        ELSE LET frame == Within(f, i)[k]
                 sure == {h \in 1..Len(frame.handlers) : SurelyHandles(f, i, frame.handlers[h])}
             IN  IF frame.kind = "try" /\ frame.branch = "body" /\ sure # {}
                 THEN frame.handlers[CHOOSE h \in sure : \A g \in sure : h <= g].raises /\ out[k - 1]
                 ELSE out[k - 1]
  IN  out[Len(Within(f, i))]

-----------------------------------------------------------------------------
(* Names.                                                                   *)

\* What a name may be by then, when nothing but imports bind it.
Denoted(f, i, path) ==
  LET bound == Assignments(f, i, path[1]) IN
  IF \E b \in bound : b.source # "import" THEN {}
  ELSE {b.target \o SubSeq(path, 2, Len(path)) : b \in bound}

\* The module of the standard library is the one that is found.
Shadowed(f, name) == "*" \in f.project \/ name[1] \in f.project \/ name \in f.nested

\* One of the conditions of an "and" asks for the attribute itself.
Asks(f, i, atom, name) ==
  /\ atom.function = <<"hasattr">> /\ Assignments(f, i, "hasattr") = {}
  /\ Denoted(f, i, atom.object) = {SubSeq(name, 1, Len(name) - 1)}
  /\ atom.attribute = name[Len(name)]

\* The attribute is only evaluated where hasattr holds.
Sheltered(f, i, name) ==
  \E n \in 1..Len(Node(f, i).wraps) :
    LET wrap == Node(f, i).wraps[n] IN
    wrap.op = "and" /\ wrap.right /\ \E atom \in wrap.left : Asks(f, i, atom, name)

-----------------------------------------------------------------------------
(* Calls.                                                                   *)

Literals(shape) == {l.equals : l \in shape.literals} \cup {[kind |-> "other", value |-> <<>>]}
Given(key, value) == [star |-> "", key |-> key, value |-> value]

\* The arguments a call may really pass: a star stands for up to two positional
\* arguments, two stars for up to one keyword argument of any name.
Expansions(arg, names, values) ==
  CASE arg.star = ""   -> {<<arg>>}
    [] arg.star = "*"  -> {<<>>} \cup {<<Given("", x)>> : x \in values}
                            \cup {<<Given("", x), Given("", y)>> : x \in values, y \in values}
    [] arg.star = "**" -> {<<>>} \cup {<<Given(k, x)>> : k \in names, x \in values}

Passed(args, names, values) ==
  LET upTo[n \in 0..Len(args)] ==
        IF n = 0 THEN {<<>>}
        ELSE {s \o t : s \in upTo[n - 1], t \in Expansions(args[n], names, values)}
  IN  upTo[Len(args)]

\* What the rule says of the call, of its arguments as they are passed.
Fits(args, shape) ==
  LET positional == {n \in 1..Len(args) : args[n].key = ""}
      named == {n \in 1..Len(args) : args[n].key # ""}
      \* The positional argument with a number of others before it.
      Nth(p) == CHOOSE n \in positional : Cardinality({m \in positional : m < n}) = p
  IN
  /\ shape.minPositional = Unlimited \/ Cardinality(positional) >= shape.minPositional
  /\ shape.maxPositional = Unlimited \/ Cardinality(positional) <= shape.maxPositional
  /\ shape.minKeywords = Unlimited \/ Cardinality(named) >= shape.minKeywords
  /\ shape.maxKeywords = Unlimited \/ Cardinality(named) <= shape.maxKeywords
  /\ \A k \in shape.required : \E n \in named : args[n].key = k
  /\ \A n \in named : args[n].key \notin shape.forbidden
  /\ \A l \in shape.literals :
       IF l.position # Unlimited
       THEN Cardinality(positional) > l.position /\ args[Nth(l.position)].value = l.equals
       ELSE \E n \in named : args[n].key = l.keyword /\ args[n].value = l.equals

\* No name is passed twice.
Legal(args) ==
  \A m, n \in 1..Len(args) : m # n /\ args[m].key = args[n].key => args[m].key = ""

SurelyFits(args, shape) ==
  LET names == {"fresh"} \cup shape.required \cup shape.forbidden IN
  \A passed \in Passed(args, names, Literals(shape)) : Legal(passed) => Fits(passed, shape)
=============================================================================
