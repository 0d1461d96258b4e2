------------------------------- MODULE MCScan -------------------------------
(***************************************************************************)
(* Small instances of Scan: the path policy and the dynamic modules on     *)
(* trees nobody edits, and edits at every point of scans of small trees.   *)
(***************************************************************************)
EXTENDS Scan, TLC

MCTargets == 10..12
MCKnownSince == [tomllib |-> 11, zoneinfo |-> 9]
MCNameOrder == <<".gitignore", "__init__.py", "app.py", "build", "compat", "lib", "notes.txt", "src", "stub.pyi",
                 "tomllib.py">>
MCSources == {"__init__.py", "app.py", "stub.pyi", "tomllib.py"}
MCRuntime == MCSources \ {"stub.pyi"}
MCStem == [n \in Range(MCNameOrder) |->
              CASE n = "app.py" -> "app" [] n = "tomllib.py" -> "tomllib" [] n = "stub.pyi" -> "stub" [] OTHER -> n]
MCBuiltIn == {"build"}
MCLimit == 4
MCDepth == 3

(***************************************************************************)
(* Contents                                                                *)
(***************************************************************************)

Content(tries, mutations) ==
    [broken |-> FALSE, big |-> FALSE, tries |-> tries, mutations |-> mutations, pattern |-> NoPattern]

Try(module, inserts) == [module |-> module, inserts |-> inserts]

Plain == Content(<<>>, {})
Fallback == Content(<<Try("tomllib", FALSE), Try("unknown", FALSE)>>, {})
FallbackInserts == Content(<<Try("tomllib", TRUE)>>, {})
FallbackBoth == Content(<<Try("zoneinfo", TRUE), Try("tomllib", FALSE)>>, {Operation("append", {10})})
Inserts == Content(<<>>, {Operation("insert", {11})})
Appends == Content(<<>>, {Operation("append", {11, 12})})
Broken == [Plain EXCEPT !.broken = TRUE]
Large == [Plain EXCEPT !.big = TRUE]

Pattern(name, dirOnly, keep) == [name |-> name, dirOnly |-> dirOnly, keep |-> keep]
Ignoring(pattern) == [Plain EXCEPT !.pattern = pattern]

(***************************************************************************)
(* Trees                                                                   *)
(***************************************************************************)

Dir(at) == [kind |-> "dir", at |-> at]
Leaf(content) == [kind |-> "file", content |-> content, stamp |-> 0]
Link(from, to) == [kind |-> "link", from |-> from, to |-> to]

\* A project with a package directory, a directory of replacements and a
\* build directory, all with the given sources.
Project(ignore, nested, app, source) == <<
    Dir((".gitignore" :> 2) @@ ("app.py" :> 3) @@ ("compat" :> 4) @@ ("src" :> 5) @@ ("build" :> 8)
        @@ ("notes.txt" :> 10)),
    Leaf(ignore), Leaf(app), Dir((".gitignore" :> 11) @@ ("tomllib.py" :> 6)), Dir("app.py" :> 7),
    Leaf(Plain), Leaf(source), Dir("tomllib.py" :> 9), Leaf(Plain), Leaf(Plain), Leaf(nested)>>

\* The same with links: to a directory, to a file, away, and to nothing.
Linked(app, source) == <<
    Dir(("app.py" :> 2) @@ ("lib" :> 3) @@ ("src" :> 4) @@ ("stub.pyi" :> 5) @@ ("tomllib.py" :> 6)),
    Leaf(app), Link(1, <<"src">>), Dir(("app.py" :> 7) @@ ("lib" :> 8) @@ ("__init__.py" :> 9)),
    Link(1, <<"src", "app.py">>), Link(10, <<>>), Leaf(source), Link(10, <<>>), Link(1, <<"compat">>), Dir(<<>>)>>

\* More entries than the bound.
Wide(app) == <<
    Dir(("app.py" :> 2) @@ ("compat" :> 3) @@ ("src" :> 4) @@ ("tomllib.py" :> 5)),
    Leaf(app), Dir(("__init__.py" :> 6) @@ ("tomllib.py" :> 7)), Dir("app.py" :> 8), Leaf(Large), Leaf(Broken),
    Leaf(Plain), Leaf(Inserts)>>

\* One source in one directory, with replacements of both.
Single(ignoring) == <<
    Dir("src" :> 2), Dir(("app.py" :> 3) @@ (IF ignoring THEN ".gitignore" :> 8 ELSE <<>>)), Leaf(Fallback),
    Dir("app.py" :> 5), Leaf(Plain), Link(1, <<"src">>), Leaf(Inserts), Leaf(Ignoring(Pattern("app.py", FALSE, FALSE))),
    Link(4, <<>>)>>

\* Two ignore files above one source, the inner one keeping what the outer
\* one ignores.
Layered == <<
    Dir((".gitignore" :> 2) @@ ("app.py" :> 6) @@ ("src" :> 3)), Leaf(Ignoring(Pattern("app.py", FALSE, FALSE))),
    Dir((".gitignore" :> 4) @@ ("app.py" :> 5)), Leaf(Ignoring(Pattern("app.py", FALSE, TRUE))), Leaf(Plain),
    Leaf(Plain)>>

\* A link to a directory with the name of a source, and a source to replace it.
Disguised == <<Dir(("app.py" :> 2) @@ ("tomllib.py" :> 3)), Link(1, <<>>), Leaf(Fallback), Leaf(Inserts), Dir(<<>>)>>

(***************************************************************************)
(* Scenarios                                                               *)
(***************************************************************************)

Scenario(t, requests, include, exclude, respect, inferred, roots) ==
    [tree |-> t, requests |-> requests, include |-> include, exclude |-> exclude, respectGitignore |-> respect,
     inferred |-> inferred, roots |-> roots, edits |-> 0, unstable |-> {}, spare |-> {}, writable |-> {},
     contents |-> {}]

Edited(s, n, unstable, spare, writable, contents) ==
    [s EXCEPT !.edits = n, !.unstable = unstable, !.spare = spare, !.writable = writable, !.contents = contents]

Everything == <<<<>>>>

Requests == {
    Everything, <<<<"src">>, <<>>>>, <<<<"src", "app.py">>, <<"src">>>>, <<<<"build">>, <<"compat">>>>,
    <<<<"compat", "tomllib.py">>, <<"app.py">>, <<"build", "tomllib.py">>>>, <<<<"notes.txt">>>>, <<<<"lib">>>>}

Directories == Pattern("compat", TRUE, FALSE)
Ignores == {Ignoring(NoPattern), Ignoring(Directories), Ignoring(Pattern("tomllib.py", FALSE, FALSE))}
Policies == {<<NoPattern, NoPattern>>, <<Pattern("app.py", FALSE, FALSE), NoPattern>>,
             <<NoPattern, Pattern("src", TRUE, FALSE)>>}
Roots == {<<TRUE, <<>>>>, <<FALSE, <<>>>>, <<FALSE, <<<<"src">>>>>>, <<FALSE, <<<<"build">>, <<"src">>>>>>}

PolicyScenarios ==
    {Scenario(Project(i, Ignoring(Pattern("tomllib.py", FALSE, TRUE)), Fallback, Inserts), r, p[1], p[2], TRUE,
              o[1], o[2]) : i \in Ignores, r \in Requests, p \in Policies, o \in Roots}

LinkScenarios ==
    {Scenario(Linked(app, source), r, NoPattern, exclude, FALSE, o[1], o[2]) :
        app \in {FallbackInserts, Fallback}, source \in {Inserts, Appends},
        r \in {Everything, <<<<"lib">>, <<"src">>>>, <<<<"lib", "app.py">>, <<"app.py">>>>, <<<<"tomllib.py">>>>},
        exclude \in {NoPattern, Pattern("lib", FALSE, FALSE)},
        o \in {<<TRUE, <<>>>>, <<FALSE, <<<<"src">>>>>>, <<FALSE, <<<<"lib">>>>>>, <<FALSE, <<>>>>}}

BoundScenarios ==
    {Scenario(Wide(app), r, NoPattern, exclude, FALSE, o[1], o[2]) :
        app \in {FallbackBoth, FallbackInserts},
        r \in {Everything, <<<<"compat">>, <<"src">>>>, <<<<"app.py">>, <<"src">>, <<"compat">>, <<"src">>>>,
               <<<<"src">>, <<"compat">>, <<"src">>, <<"app.py">>, <<>>>>},
        exclude \in {NoPattern, Pattern("tomllib.py", FALSE, FALSE), Pattern("compat", TRUE, FALSE)},
        o \in {<<TRUE, <<>>>>, <<FALSE, <<<<"src">>>>>>, <<FALSE, <<>>>>}}

\* Ignore files that cannot be used.
BadIgnores ==
    {Scenario([Project(Ignoring(NoPattern), n, Fallback, Inserts) EXCEPT ![2] = bad], r, NoPattern, NoPattern, TRUE,
              FALSE, <<>>) :
        bad \in {Dir(<<>>), Leaf(Large), Link(1, <<"notes.txt">>)},
        n \in {Ignoring(NoPattern), Large}, r \in {Everything, <<<<"src", "app.py">>>>, <<<<"compat">>>>}}

\* Two edits around one read, and one around the discovery of the source.
ReadScenarios ==
    {Edited(Scenario(Single(FALSE), <<<<"src", "app.py">>>>, NoPattern, NoPattern, FALSE, FALSE, <<>>), 2,
            {<<"src">>, <<"src", "app.py">>}, {2, 3, 4, 9, 5}, {3}, {Fallback, Plain, Large}),
     Edited(Scenario(Single(TRUE), Everything, NoPattern, NoPattern, TRUE, FALSE, <<<<"src">>>>), 1,
            {<<"src">>, <<"src", "app.py">>, <<"src", ".gitignore">>}, {4, 5, 9}, {3}, {Plain})}

\* Edits around the search for dynamic modules.
DynamicScenarios ==
    {Edited(Scenario(Project(Ignoring(Directories), Plain, FallbackInserts, source), Everything, NoPattern, NoPattern,
                     TRUE, o[1], o[2]), IF o[1] THEN 1 ELSE 2,
            {<<"compat">>, <<"compat", "tomllib.py">>, <<"app.py">>, <<"src">>}, {8, 4}, {3, 7},
            {Fallback, Inserts}) :
        source \in {Inserts, Fallback}, o \in {<<TRUE, <<>>>>, <<FALSE, <<<<"src">>>>>>}}

\* Edits of the rules, and of what an entry is, around the walk.
WalkScenarios ==
    {Edited(Scenario(Layered, Everything, NoPattern, NoPattern, TRUE, FALSE, <<>>), 2, {}, {}, {2, 4},
            {Ignoring(NoPattern)}),
     Edited(Scenario(Disguised, Everything, NoPattern, NoPattern, FALSE, TRUE, <<>>), 2, {<<"app.py">>}, {2, 4, 5}, {},
            {})}

MCScenarios ==
    PolicyScenarios \union LinkScenarios \union BoundScenarios \union BadIgnores \union ReadScenarios
    \union DynamicScenarios \union WalkScenarios
=============================================================================
