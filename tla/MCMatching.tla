------------------------------ MODULE MCMatching ------------------------------
(***************************************************************************)
(* Small instances of Matching: for each kind of matcher, the files that   *)
(* put its construct behind the bindings, guards, handlers, conditions and *)
(* comments the code looks at.                                             *)
(***************************************************************************)
EXTENDS Matching

MCTargets == 1..3

-----------------------------------------------------------------------------
(* Rules.                                                                   *)

AnyShape == [minPositional |-> Unlimited, maxPositional |-> Unlimited, minKeywords |-> Unlimited,
             maxKeywords |-> Unlimited, required |-> {}, forbidden |-> {}, literals |-> {}]
Literal(word) == [kind |-> "str", value |-> <<word>>]

Rule(id, matcher, name, removed) ==
  [id |-> id, ids |-> {id, "old-" \o id}, matcher |-> matcher, name |-> name, removed |-> removed,
   contexts |-> {}, shape |-> AnyShape, confidence |-> "high"]

MCRules == {
  Rule("module", "module", <<"cgi">>, {2}),
  Rule("submodule", "module", <<"tk", "tix">>, {3}),
  Rule("removed", "reference", <<"m", "x">>, {2, 3}),
  Rule("deprecated", "reference", <<"m", "d">>, {}),
  [Rule("base", "reference", <<"m", "b">>, {2}) EXCEPT !.contexts = {"base"}],
  Rule("call", "call", <<"m", "f">>, {2}),
  [Rule("few", "shape", <<"m", "g">>, {2}) EXCEPT !.shape.maxPositional = 1],
  [Rule("many", "shape", <<"m", "h">>, {2}) EXCEPT
     !.shape.minPositional = 1, !.shape.required = {"k"},
     !.shape.literals = {[position |-> Unlimited, keyword |-> "k", equals |-> Literal("a")]}],
  [Rule("first", "shape", <<"m", "p">>, {2}) EXCEPT
     !.shape.forbidden = {"k"}, !.shape.maxKeywords = 1,
     !.shape.literals = {[position |-> 1, keyword |-> "", equals |-> Literal("a")]}],
  [Rule("dynamic", "dynamic", <<"cgi">>, {2}) EXCEPT !.confidence = "medium"],
  Rule("dynamic tk", "dynamic", <<"tk">>, {2}),
  Rule("inversion", "pattern", <<"~bool">>, {3})}

-----------------------------------------------------------------------------
(* Guards.                                                                  *)

Since(minor) == [kind |-> "compare", op |-> ">=", shape |-> "unsliced", literal |-> <<3, minor>>, left |-> TRUE]
SincePatch == [Since(2) EXCEPT !.literal = <<3, 2, 1>>]
Name == [kind |-> "name", name |-> "C"]
Via == [kind |-> "via", name |-> "V", test |-> Since(2)]
Info == [kind |-> "info"]
Unknown == [kind |-> "other"]

Guards == {<<Since(2)>>, <<SincePatch>>, <<[kind |-> "typing"]>>, <<Unknown>>, <<Name>>, <<Via>>,
           <<Name, [kind |-> "not", arg |-> 1]>>, <<Name, Since(3), [kind |-> "or", arg |-> 1, arg2 |-> 2]>>,
           <<Name, Unknown, [kind |-> "and", arg |-> 1, arg2 |-> 2]>>}

-----------------------------------------------------------------------------
(* Compound statements.                                                     *)

IfFrame(test, branch) == [kind |-> "if", test |-> test, branch |-> branch]
Handler(types, raises) == [types |-> {<<t>> : t \in types}, raises |-> raises]
TryFrame(handlers, branch, skips) == [kind |-> "try", handlers |-> handlers, branch |-> branch, skips |-> skips]
DefFrame(decorated, params) == [kind |-> "def", decorated |-> decorated, params |-> params, branch |-> "body"]

Keep == Handler({"ImportError"}, FALSE)
Raise == Handler({"Exception", "ValueError"}, TRUE)
Wrong == Handler({"ModuleNotFoundError"}, FALSE)
Bare == Handler({}, FALSE)
Alias == Handler({"E"}, FALSE)

Handlers == {<<Keep>>, <<Wrong>>, <<Bare>>, <<Raise, Keep>>, <<Wrong, Keep>>, <<Alias>>}
Tries == {TryFrame(h, "body", {}) : h \in Handlers}
           \cup {TryFrame(<<Keep>>, "handler", {}), TryFrame(<<Keep>>, "handler", {3}), TryFrame(<<Keep>>, "else", {})}
Ifs == {IfFrame(g, b) : g \in Guards, b \in {"body", "else"}}
Defs == {DefFrame(FALSE, {}), DefFrame(TRUE, {}), DefFrame(FALSE, {"C"})}
Outer == {IfFrame(<<Since(2)>>, "body"), IfFrame(<<Name>>, "else"), IfFrame(<<Unknown>>, "body"),
          TryFrame(<<Keep>>, "body", {}), TryFrame(<<Raise>>, "body", {}), DefFrame(FALSE, {}),
          DefFrame(FALSE, {"ImportError"})}

-----------------------------------------------------------------------------
(* Constructs.                                                              *)

Stmt(within, node) == [within |-> within, oneline |-> FALSE, span |-> 1, node |-> node]
ImportOf(module, as) == [op |-> "import", place |-> "body", module |-> module, as |-> as]
From(module, name, as) ==
  [op |-> "from", place |-> "body", relative |-> FALSE, module |-> module, names |-> {[name |-> name, as |-> as]}]
Assign(name, value) == [op |-> "assign", place |-> "body", to |-> name, value |-> value]
UseOf(path) ==
  [op |-> "use", place |-> "body", path |-> path, context |-> "read", variable |-> FALSE, wraps |-> <<>>]
CallOf(path, args) ==
  [op |-> "call", place |-> "body", path |-> path, context |-> "call", variable |-> FALSE, wraps |-> <<>>,
   args |-> args]
Invert(operand) == [op |-> "invert", place |-> "body", operand |-> operand]

File(lines) ==
  [lines |-> lines, comments |-> <<>>, ignores |-> <<>>, stub |-> FALSE, project |-> {}, nested |-> {}]

-----------------------------------------------------------------------------
(* Imports of symbols, after the assignments of the constants.              *)

Constants0 == {<<>>, <<Stmt(<<>>, Assign("C", <<Since(2)>>))>>}
Constants1 == Constants0 \cup {
  <<Stmt(<<>>, Assign("C", <<Since(2)>>)), Stmt(<<>>, Assign("C", <<Unknown>>))>>,
  <<Stmt(<<IfFrame(<<Unknown>>, "body")>>, Assign("C", <<Since(2)>>))>>,
  <<Stmt(<<>>, Assign("V", <<Info>>)), Stmt(<<>>, Assign("C", <<Via>>))>>,
  <<Stmt(<<>>, Assign("D", <<SincePatch>>)),
    Stmt(<<>>, Assign("C", <<[kind |-> "name", name |-> "D"]>>))>>,
  <<Stmt(<<>>, ImportOf(<<"o">>, "C")), Stmt(<<>>, From(<<"builtins">>, "ImportError", "E"))>>,
  <<Stmt(<<>>, Assign("E", <<Unknown>>)), Stmt(<<DefFrame(FALSE, {})>>, Assign("C", <<Since(3)>>))>>}

Symbol == From(<<"m">>, "x", "")
After == {<<>>, <<Stmt(<<>>, Assign("C", <<Since(3)>>))>>, <<Stmt(<<>>, UseOf(<<"x">>))>>}

SymbolFiles ==
  {File(before \o <<Stmt(within, Symbol)>>) :
     before \in Constants1, within \in {<<>>} \cup {<<f>> : f \in Ifs \cup Tries \cup Defs}}
  \cup {File(before \o <<Stmt(<<f, g>>, Symbol)>>) :
          before \in Constants0, f \in Outer, g \in Ifs \cup Tries \cup Defs}
  \cup {File(before \o <<Stmt(within, Symbol)>> \o after) :
          before \in Constants0, after \in After,
          within \in {<<>>, <<DefFrame(FALSE, {})>>, <<DefFrame(FALSE, {}), IfFrame(<<Name>>, "body")>>}}

-----------------------------------------------------------------------------
(* Modules.                                                                 *)

ModuleImports == {ImportOf(<<"cgi">>, ""), ImportOf(<<"cgi", "sub">>, "c"), ImportOf(<<"tk", "tix">>, ""),
                  From(<<"tk">>, "tix", ""), From(<<"tk">>, "other", ""), From(<<"cgi">>, "escape", "e"),
                  [From(<<"cgi">>, "x", "") EXCEPT !.relative = TRUE], [From(<<"cgi">>, "x", "") EXCEPT !.names = {}],
                  Invert("True"), Invert("1"), Symbol}

ModuleFiles ==
  {[File(<<Stmt(within, node)>>) EXCEPT !.stub = stub, !.nested = nested,
                                        !.project = project \cup {name[1] : name \in nested}] :
     within \in {<<>>, <<IfFrame(<<SincePatch>>, "body")>>, <<IfFrame(<<[kind |-> "typing"]>>, "else")>>},
     node \in ModuleImports, stub \in BOOLEAN, project \in {{}, {"cgi"}, {"m"}, {"*"}},
     nested \in {{}, {<<"tk", "tix">>}}}

-----------------------------------------------------------------------------
(* References: the name is bound, and then used.                            *)

Plainly(node) == Stmt(<<>>, node)
Either(branch) == <<IfFrame(<<Unknown>>, branch)>>
Bindings == {
  <<>>, <<Plainly(ImportOf(<<"m">>, ""))>>, <<Plainly(ImportOf(<<"m">>, "n"))>>, <<Plainly(From(<<"m">>, "x", "y"))>>,
  <<Plainly(ImportOf(<<"m", "sub">>, "")), Plainly(ImportOf(<<"m">>, ""))>>,
  <<Plainly(ImportOf(<<"m">>, "")), Plainly(Assign("m", <<Unknown>>))>>,
  <<Stmt(Either("body"), ImportOf(<<"m">>, "")), Stmt(Either("else"), ImportOf(<<"o">>, "m"))>>,
  <<Stmt(Either("body"), From(<<"m">>, "x", "y")), Stmt(Either("else"), From(<<"o">>, "x", "y"))>>}

Atom(function, object, attribute) == [function |-> function, object |-> object, attribute |-> attribute]
HasX == Atom(<<"hasattr">>, <<"m">>, "x")
SomethingElse == Atom(<<>>, <<"m">>, "")
Wrap(op, right, left) == [op |-> op, right |-> right, left |-> left]

Wraps == {
  <<>>, <<Wrap("and", TRUE, {HasX})>>, <<Wrap("and", TRUE, {SomethingElse, HasX})>>,
  <<Wrap("or", TRUE, {HasX})>>, <<Wrap("and", FALSE, {HasX})>>,
  <<Wrap("or", TRUE, {SomethingElse}), Wrap("and", TRUE, {HasX})>>,
  <<Wrap("and", TRUE, {Atom(<<"hasattr">>, <<"m">>, "y")})>>,
  <<Wrap("and", TRUE, {Atom(<<"hasattr">>, <<"o">>, "x")})>>}

Uses == {UseOf(<<"m", "x">>), UseOf(<<"n", "x">>), UseOf(<<"y">>), UseOf(<<"m", "x", "attr">>), UseOf(<<"m", "d">>),
         UseOf(<<"m", "b">>), [UseOf(<<"m", "b">>) EXCEPT !.context = "base"],
         [UseOf(<<"m", "x">>) EXCEPT !.context = "annotation"],
         [UseOf(<<"m", "x">>) EXCEPT !.context = "annotation", !.variable = TRUE]}

Sites == {<<>>, <<IfFrame(<<Since(3)>>, "body")>>, <<DefFrame(FALSE, {})>>, <<DefFrame(FALSE, {"m"})>>}

ReferenceFiles ==
  {[File(before \o <<Stmt(within, use)>>) EXCEPT !.project = project] :
     before \in Bindings, within \in Sites, use \in Uses, project \in {{}, {"m"}}}
  \cup {File(before \o <<Stmt(within, [UseOf(<<"m", "x">>) EXCEPT !.wraps = wraps])>>) :
          before \in Bindings \cup {<<Plainly(ImportOf(<<"m">>, "")), Plainly(Assign("hasattr", <<Unknown>>))>>},
          within \in Sites, wraps \in Wraps}

-----------------------------------------------------------------------------
(* Calls.                                                                   *)

Arg(star, key, value) == [star |-> star, key |-> key, value |-> value]
Opaque == [kind |-> "other", value |-> <<>>]
Arglist == {Arg("", "", Literal("a")), Arg("", "", Opaque), Arg("*", "", Opaque), Arg("**", "", Opaque),
            Arg("", "k", Literal("a")), Arg("", "j", Opaque)}
ArgSeqs == {<<>>} \cup {<<a>> : a \in Arglist} \cup {<<a, b>> : a, b \in Arglist}
             \cup {<<Arg("", "", Opaque), a, b>> : a, b \in Arglist}
\* Positional arguments come before the others, as the grammar asks.
Keyed(arg) == arg.key # "" \/ arg.star = "**"
Grammatical(args) == \A m, n \in 1..Len(args) : m < n /\ Keyed(args[m]) => Keyed(args[n]) \/ args[n].star = "*"

CallFiles ==
  {File(<<Plainly(ImportOf(<<"m">>, "")), Plainly(CallOf(<<"m", f>>, args))>>) :
     f \in {"f", "g", "h", "p"}, args \in {s \in ArgSeqs : Grammatical(s)}}
  \cup {File(before \o <<Plainly([CallOf(<<"m", f>>, <<>>) EXCEPT !.wraps = wraps])>>) :
          before \in Bindings, f \in {"x", "f"}, wraps \in Wraps}

-----------------------------------------------------------------------------
(* Dynamic imports and changes of the import path.                          *)

ModuleName(path) == [kind |-> "module", value |-> path]
One == [kind |-> "int", value |-> <<"1">>]
DynamicArgs == {
  <<Arg("", "", ModuleName(<<"cgi">>))>>, <<Arg("", "name", ModuleName(<<"tk", "tix">>))>>,
  <<Arg("", "", ModuleName(<<"cgi">>)), Arg("", "level", Zero)>>,
  <<Arg("", "", ModuleName(<<"cgi">>)), Arg("", "level", One)>>,
  <<Arg("", "", ModuleName(<<"cgi">>)), Arg("", "package", Literal("p"))>>,
  <<Arg("", "", ModuleName(<<"cgi">>)), Arg("", "name", ModuleName(<<"tk">>))>>,
  <<Arg("", "", [kind |-> "relative", value |-> <<"cgi">>])>>, <<Arg("", "", Opaque)>>,
  <<Arg("*", "", Opaque)>>, <<>>}

Loaders == {
  <<>>, <<Plainly(ImportOf(<<"importlib">>, ""))>>, <<Plainly(From(<<"importlib">>, "import_module", "__import__"))>>,
  <<Stmt(Either("body"), ImportOf(<<"importlib">>, "")), Stmt(Either("else"), ImportOf(<<"o">>, "importlib"))>>,
  <<Plainly(Assign("__import__", <<Unknown>>))>>}

DynamicFiles ==
  {[File(before \o <<Plainly(CallOf(path, args))>>) EXCEPT !.project = project] :
     before \in Loaders, path \in {<<"importlib", "import_module">>, <<"__import__">>}, args \in DynamicArgs,
     project \in {{}, {"importlib"}, {"cgi"}}}
  \cup {[File(<<Plainly(before), Stmt(within, CallOf(<<"sys", "path", f>>, <<>>))>>) EXCEPT !.stub = stub] :
          before \in {ImportOf(<<"sys">>, ""), ImportOf(<<"o">>, "sys")}, f \in {"append", "insert", "pop"},
          within \in {<<>>, <<IfFrame(<<Since(4)>>, "body")>>}, stub \in BOOLEAN}

-----------------------------------------------------------------------------
(* Suppressions: a use in each place of a file, and comments on every line. *)

Directive(line, ids) == [line |-> line, form |-> "directive", ids |-> ids]
Decorated == DefFrame(TRUE, {})
Laid(within, oneline, span, place) ==
  [within |-> within, oneline |-> oneline, span |-> span, node |-> [UseOf(<<"m", "x">>) EXCEPT !.place = place]]

Layouts ==
  {Laid(within, FALSE, span, "body") : within \in {<<>>, <<IfFrame(<<Unknown>>, "else"), Decorated>>}, span \in 1..2}
  \cup {Laid(<<Decorated, frame>>, oneline, 1, place) :
          frame \in {IfFrame(<<Unknown>>, "body"), IfFrame(<<Unknown>>, "else"), TryFrame(<<Keep>>, "handler", {})},
          oneline \in BOOLEAN, place \in {"header", "body"}}

\* Lines of the layout, which comes second, and of the statement before and after it.
CommentLines == {23} \cup 43..54 \cup {63}
Identifiers == {{"removed"}, {"old-removed", "nobody"}, {"module"}}
Ignore(hit, ids) == [matches |-> hit, ids |-> ids]

SuppressionFiles ==
  {[File(<<Plainly(ImportOf(<<"m">>, "")), laid, Plainly(UseOf(<<"m", "x">>))>>) EXCEPT !.comments = comments] :
     laid \in Layouts,
     comments \in {<<Directive(l, ids)>> : l \in CommentLines, ids \in Identifiers}
                  \cup {<<Directive(k, {"removed"}), Directive(l, {"removed"})>> : k, l \in CommentLines}}
  \cup {[File(<<Plainly(ImportOf(<<"m">>, "")), Plainly(UseOf(<<"m", "x">>))>>)
         EXCEPT !.ignores = ignores,
                !.comments = <<[line |-> 43, form |-> form, ids |-> ids]>>] :
          ignores \in {<<Ignore(h, {"removed"})>> : h \in BOOLEAN}
                      \cup {<<Ignore(TRUE, {"module", "nobody"}), Ignore(h, {"old-removed"})>> : h \in BOOLEAN},
          form \in {"directive", "malformed", "text"}, ids \in Identifiers}

MCFiles == SymbolFiles \cup ModuleFiles \cup ReferenceFiles \cup CallFiles \cup DynamicFiles \cup SuppressionFiles
=============================================================================
