------------------------ MODULE MCDependencyReport -------------------------
(* Instances of DependencyReport: two packages, 1 and 2, with versions 10,  *)
(* its local variant 11, and 20.                                            *)
EXTENDS DependencyReport

MCMaxLocked == 2
MCMaxExpanded == 6
MCMaxRequires == 3

Req(name, op, ver, extras, when) ==
    [name |-> name, op |-> op, ver |-> ver, extras |-> extras, when |-> when]

Pin(name, ver) == Req(name, "eq", ver, {}, "always")

Tag(python, minor, abi, family, machine, glibc) ==
    [python |-> python, minor |-> minor, abi |-> abi, family |-> family, machine |-> machine,
     glibc |-> glibc]

Own == Tag("cp", 13, <<"cp", 13>>, "linux", "x86_64", 17)
Foreign == Tag("cp", 13, <<"cp", 13>>, "win", "amd64", 0)
PlainTag == Tag("py", 0, <<"none", 0>>, "any", "", 0)
AbiTag == Tag("cp", 13, <<"abi3", 0>>, "linux", "x86_64", 17)

Art(id, name, version, kind, fits, python, needs, extras, dynamic) ==
    [id |-> id, name |-> name, version |-> version, kind |-> kind, fits |-> FALSE,
     tags |-> IF kind # "wheel" THEN {} ELSE IF fits THEN {Own} ELSE {Foreign},
     python |-> python, needs |-> needs, extras |-> extras, dynamic |-> dynamic]

NeedsTwo == {Req(2, "any", 0, {}, "always")}
NeedsTwoX == {Req(2, "ge", 10, {"x"}, "always")}
BackX == {Req(1, "any", 0, {"x"}, "x")}

One == Art("one", 1, 10, "wheel", TRUE, "includes", NeedsTwo, {"x"}, {})
OneX == Art("oneX", 1, 10, "wheel", TRUE, "none", NeedsTwoX, {"x"}, {})
OneOther == Art("oneOther", 1, 10, "wheel", FALSE, "includes", {}, {}, {})
OneLocal == Art("oneLocal", 1, 11, "wheel", FALSE, "includes", {}, {}, {})
OneSource == Art("oneSource", 1, 10, "sdist", FALSE, "includes", NeedsTwo, {}, {})
OneDynamic == Art("oneDynamic", 1, 10, "sdist", FALSE, "none", {}, {},
                  {"requires-python", "requires-dist"})
LegacyFields == {"provides-extra", "requires-dist", "requires-python"}
OneLegacy == Art("oneLegacy", 1, 10, "sdist", FALSE, "excludes", {}, {}, LegacyFields)
OneOld == Art("oneOld", 1, 10, "wheel", TRUE, "excludes", {}, {}, {})
OneNext == Art("oneNext", 1, 20, "wheel", TRUE, "excludes", {}, {}, {})
OneMeta == Art("oneMeta", 1, 10, "core-metadata", FALSE, "excludes", {}, {}, {})
OneBroken == Art("oneBroken", 1, 10, "wheel", TRUE, "includes",
                 {Req(2, "any", 0, {}, "undefined")}, {}, {})
Two == Art("two", 2, 10, "wheel", TRUE, "includes", BackX, {"x"}, {})
TwoPlain == Art("twoPlain", 2, 20, "wheel", TRUE, "includes", {}, {}, {})

AppRoots == {{Pin(1, 10)}, {Pin(1, 10), Pin(1, 20)}, {Pin(1, 10), Pin(2, 10)},
             {Req(1, "eq", 10, {"x"}, "always")}}
LibRoots == {{Req(1, "any", 0, {}, "always")}, {Pin(1, 11)},
             {Req(1, "ge", 20, {}, "always"), Req(1, "lt", 20, {}, "always")},
             {Req(1, "le", 10, {}, "always"), Req(1, "gt", 0, {"x"}, "never")},
             {Req(2, "any", 0, {"x"}, "x")}, {Req(1, "any", 0, {}, "undefined")}}

Inventories == {{One, Two}, {OneX, Two}, {OneX, TwoPlain}, {One, OneSource, Two},
                {OneOther}, {OneOther, TwoPlain}, {OneOld, OneSource}, {OneOld, OneMeta},
                {OneDynamic}, {OneDynamic, OneOld}, {OneLegacy}, {OneOld, OneLegacy}, {OneNext, OneMeta}, {OneBroken, Two}}

ListOf(elements) == FoldSet(LAMBDA x, list : Append(list, x), <<>>, elements)

\* A sound file of an artifact: its metadata is one unit, and so is its WHEEL file.
MemberOf(a, is, size) == [is |-> is, name |-> a.name, version |-> a.version, top |-> TRUE, size |-> size]

CoreOf(a, schema) ==
    [sound |-> TRUE, size |-> 1, name |-> <<a.name>>, version |-> <<a.version>>, schema |-> <<schema>>,
     python |-> IF a.python = "none" THEN <<>> ELSE <<a.python>>, needs |-> ListOf(a.needs),
     extras |-> ListOf(a.extras), dynamic |-> IF schema < 22 THEN <<>> ELSE ListOf(a.dynamic)]

FileIn(a, form, schema) ==
    [written |-> a.id, path |-> a.id, content |-> a.id,
     label |-> [form |-> form, valid |-> TRUE, name |-> a.name, version |-> a.version, tags |-> a.tags],
     archive |-> [sound |-> TRUE,
                  members |-> <<MemberOf(a, "core", 1)>> \o
                      (IF form = "wheel" THEN <<MemberOf(a, "wheel", 1), MemberOf(a, "record", 0)>>
                       ELSE <<>>)],
     core |-> CoreOf(a, schema),
     wheel |-> [sound |-> TRUE, version |-> <<1>>, purelib |-> <<TRUE>>, tags |-> ListOf({{t} : t \in a.tags})]]

FileOf(a) ==
    FileIn(a, CASE a.kind = "wheel" -> "wheel" [] a.kind = "sdist" -> "zip" [] OTHER -> "other",
           IF a.dynamic = LegacyFields THEN 21 ELSE 22)
FilesOf(artifacts) == ListOf({FileOf(a) : a \in artifacts})

Target ==
    [name |-> "target", implementation |-> "cpython", label |-> "CPython", spelled |-> TRUE,
     minor |-> 13, aligned |-> TRUE, detailed |-> FALSE, tags |-> {Own},
     markers |-> [os |-> "posix", sys |-> "linux", machine |-> "x86_64", system |-> "Linux"],
     platform |-> [family |-> "linux", machine |-> "x86_64", glibc |-> 28]]

\* A second interpreter that nothing but its tags can serve, and one that uv cannot be told of.
PyPy == [Target EXCEPT !.name = "pypy", !.implementation = "pypy", !.label = "PyPy",
                       !.aligned = FALSE, !.tags = {Tag("pp", 13, <<"pp", 13>>, "any", "", 0)}]
Detailed == [Target EXCEPT !.name = "detailed", !.detailed = TRUE]

\* Declarations that contradict themselves, and tags at the edge of what is accepted.
Variants ==
    {[Target EXCEPT !.spelled = FALSE], [Target EXCEPT !.label = "PyPy"],
     [Target EXCEPT !.aligned = FALSE], [Target EXCEPT !.implementation = "other"],
     [Target EXCEPT !.markers.machine = "aarch64"], [Target EXCEPT !.platform.family = "musl"],
     [Target EXCEPT !.platform.glibc = 0], [Target EXCEPT !.platform.glibc = 12]}
    \cup {[Target EXCEPT !.tags = {Own, tag}] : tag \in
            {Foreign, Tag("py", 0, <<"none", 0>>, "any", "", 0), Tag("py", 12, <<"none", 0>>, "any", "", 0),
             Tag("py", 13, <<"abi3", 0>>, "any", "", 0), Tag("cp", 2, <<"abi3", 0>>, "any", "", 0),
             Tag("cp", 12, <<"cp", 12>>, "any", "", 0), Tag("cp", 14, <<"abi3", 0>>, "any", "", 0),
             Tag("cp", 13, <<"cp", 13>>, "linux", "x86_64", 28),
             Tag("cp", 13, <<"cp", 13>>, "linux", "x86_64", 29),
             Tag("cp", 13, <<"none", 0>>, "linux", "x86_64", 0)}}
    \cup {[Target EXCEPT !.tags = {Tag("cp", 13, <<"cp", 13>>, "macosx", machine, 0)},
             !.markers = [os |-> "posix", sys |-> "darwin", machine |-> "arm64", system |-> "Darwin"],
             !.platform = [family |-> "macosx", machine |-> "arm64", glibc |-> 0]] :
             machine \in {"arm64", "universal2", "x86_64"}}
    \cup {[Target EXCEPT !.tags = {Foreign},
             !.markers = [os |-> "nt", sys |-> "win32", machine |-> "amd64", system |-> "Windows"],
             !.platform = [family |-> "win", machine |-> "amd64", glibc |-> 0]]}

Setup(kind, network, resolve, builtin, roots, held) ==
    [document |-> "table", builtin |-> builtin, clash |-> FALSE, options |-> <<>>,
     table |->
        [kind |-> kind, requirements |-> ListOf(roots), files |-> FilesOf(held),
         extras |-> IF kind = "library" THEN <<"x">> ELSE <<>>, targets |-> <<Target>>,
         keys |-> [network |-> network, resolve |-> resolve, url |-> "plain"]]]

Applications ==
    {Setup("application", network, TRUE, TRUE, roots, held) :
        network \in BOOLEAN, roots \in AppRoots, held \in Inventories}
Libraries ==
    {Setup("library", FALSE, resolve, TRUE, roots, held) :
        resolve \in BOOLEAN, roots \in LibRoots, held \in Inventories}
InjectedCases ==
    {Setup("application", FALSE, TRUE, FALSE, roots, {One, Two}) : roots \in AppRoots}
\* Lists that are malformed, repeat a path or content, or hit a limit: an
\* archive that is too large comes first, in the middle or last.
Members(file, members) == [file EXCEPT !.archive.members = members]
Tar(sizes) == Members(FileIn(OneSource, "tar", 22),
                      <<MemberOf(OneSource, "core", 1)>> \o [n \in DOMAIN sizes |-> MemberOf(OneSource, "other", sizes[n])])
Big == Tar(<<3>>)
Wide == Members(FileOf(One), <<MemberOf(One, "core", 2), MemberOf(One, "wheel", 5), MemberOf(One, "record", 0)>>)
Malformed == [FileOf(OneOther) EXCEPT !.archive.sound = FALSE]
Wordy == [FileOf(TwoPlain) EXCEPT !.core.needs = [n \in 1..2 |-> Req(n, "any", 0, {}, "always")]]

FileLists ==
    {<<a, b, c>> : a, b, c \in {FileOf(One), FileOf(Two), FileOf(OneMeta), Big, Wide,
                                Malformed, Wordy}}
    \cup {<<FileOf(One), [FileOf(One) EXCEPT !.written = "copy", !.path = "copy"]>>,
           <<FileOf(One), [FileOf(One) EXCEPT !.written = "alias"]>>}

\* One defect each, in the archive, the core metadata, the names and the WHEEL file.
Archives(file) ==
    {Members(file, members) : members \in
        {<<>>, file.archive.members \o <<MemberOf(One, "core", 1)>>,
         <<MemberOf(One, "core", 6)>> \o Tail(file.archive.members),
         file.archive.members \o [n \in 1..2 |-> MemberOf(One, "other", 0)],
         file.archive.members \o <<MemberOf(One, "other", 9)>>,
         <<[MemberOf(One, "core", 1) EXCEPT !.top = FALSE]>> \o Tail(file.archive.members),
         <<[MemberOf(One, "core", 1) EXCEPT !.version = 20]>> \o Tail(file.archive.members)}}
    \cup {[file EXCEPT !.archive.sound = FALSE]}

Cores(file) ==
    {[file EXCEPT !.core[entry[1]] = entry[2]] : entry \in
        {<<"sound", FALSE>>, <<"name", <<>>>>, <<"name", <<1, 1>>>>, <<"name", <<2>>>>, <<"version", <<0>>>>,
         <<"version", <<20>>>>, <<"schema", <<20>>>>, <<"schema", <<12>>>>, <<"python", <<"invalid">>>>,
         <<"python", <<"includes", "includes">>>>, <<"needs", <<Req(2, "invalid", 0, {}, "always")>>>>,
         <<"needs", <<Req(2, "url", 0, {}, "always")>>>>, <<"needs", <<Req(2, "any", 0, {"x", "y"}, "always")>>>>,
         <<"needs", [n \in 1..3 |-> Req(n, "any", 0, {}, "always")]>>, <<"extras", <<"">>>>,
         <<"extras", <<"x", "x">>>>, <<"dynamic", <<"name">>>>, <<"dynamic", <<"summary">>>>,
         <<"dynamic", <<"summary", "summary">>>>}}

Wheels(file) ==
    {[file EXCEPT !.wheel[entry[1]] = entry[2]] : entry \in
        {<<"sound", FALSE>>, <<"version", <<2>>>>, <<"version", <<>>>>, <<"purelib", <<>>>>,
         <<"tags", <<>>>>, <<"tags", <<{}>>>>, <<"tags", <<{Foreign}>>>>, <<"tags", <<{Own}, {Foreign}>>>>,
         <<"tags", <<{Own}, {Own}>>>>, <<"tags", <<{Own}, {Own}, {Own}>>>>, <<"tags", <<{Own, Foreign}, {Own, Foreign}>>>>}}
    \cup {[file EXCEPT !.label.valid = FALSE], [file EXCEPT !.label.tags = {Own, Foreign, PlainTag, AbiTag}],
          [file EXCEPT !.label.tags = {Foreign}, !.wheel.tags = <<{Foreign}>>]}
    \cup {Members(file, SelectSeq(file.archive.members, LAMBDA m : m.is # is)) : is \in {"wheel", "record"}}
    \cup {Members(file, [file.archive.members EXCEPT ![2] = [@ EXCEPT !.version = 20]])}

Lone == [One EXCEPT !.needs = {}]
LoneSource == [OneSource EXCEPT !.needs = {}]
SourceFiles == {FileIn(LoneSource, form, 22) : form \in {"zip", "tar"}}
Defects ==
    UNION {Archives(f) \cup Cores(f) : f \in {FileOf(Lone)} \cup SourceFiles} \cup Wheels(FileOf(Lone))
    \cup {Tar(<<>>), Members(Tar(<<>>), <<MemberOf(OneSource, "sparse", 1)>>), Tar(<<5>>), Tar(<<6>>),
          [FileOf(OneMeta) EXCEPT !.core.size = 6]}

Plainest == Setup("application", FALSE, TRUE, TRUE, {Pin(1, 10)}, {One, Two})

OtherCases ==
    {[Plainest EXCEPT !.clash = TRUE], [Plainest EXCEPT !.table.targets = <<Detailed>>]}
    \cup {[Plainest EXCEPT !.table.files = files] : files \in FileLists}
    \cup {[Plainest EXCEPT !.table.files = <<defect>>] : defect \in Defects}
    \cup {Setup("application", FALSE, FALSE, TRUE, {}, i) : i \in Inventories}

\* Tables and options that are refused, or that only the options make valid.
MCLimits == [requirements |-> 2, extras |-> 1, files |-> 3, targets |-> 2, markers |-> 8,
             members |-> 4, archive |-> 8, metadata |-> 5, tags |-> 3, tagValues |-> 2]

WrittenTables ==
    LET table == Plainest.table
        Tables(field, values) == {[table EXCEPT ![field] = value] : value \in values}
    IN  Tables("kind", {"other"})
        \cup Tables("requirements", {<<>>, <<Pin(1, 10), Pin(1, 10)>>,
               <<Pin(1, 10), Pin(1, 20), Pin(2, 10)>>, <<Req(1, "url", 0, {}, "always")>>,
               <<Req(1, "any", 0, {}, "always")>>, <<Req(1, "eq", 10, {"x", "y"}, "always")>>})
        \cup Tables("extras", {<<"x">>, <<"x", "x">>, <<"x", "y">>})
        \cup Tables("files", {<<>>, <<FileOf(One), FileOf(One)>>,
               <<FileOf(One), FileOf(Two), FileOf(OneMeta), FileOf(TwoPlain)>>})
        \cup Tables("targets", {<<>>, <<Target, Target>>,
               <<Target, Detailed>>, <<Detailed, PyPy>>})
        \cup Tables("keys", {<<>>, [url |-> "credentials"], [network |-> TRUE],
               [timeout |-> 0], [resolver |-> "pip"], [network |-> TRUE, url |-> "plain"]})

WrittenOptions == {<<>>, [network |-> FALSE], [network |-> TRUE, resolve |-> TRUE],
                   [resolve |-> FALSE], [timeout |-> 86401], [timeout |-> 30, resolve |-> TRUE]}

WrittenCases ==
    {[Plainest EXCEPT !.table = table, !.options = options] :
        table \in WrittenTables, options \in WrittenOptions}
    \cup {[Plainest EXCEPT !.document = "unreadable"]}

\* Each target, with a wheel for each of its tags.
TargetCases ==
    {[Plainest EXCEPT !.table.targets = <<target>>, !.builtin = builtin,
                      !.table.files = ListOf({FileOf([One EXCEPT !.needs = {}, !.tags = {tag}])})] :
        <<target, tag>> \in UNION {{t} \X t.tags : t \in Variants \cup {PyPy}},
        builtin \in BOOLEAN}

MCSetups == Applications \cup Libraries \cup InjectedCases \cup OtherCases \cup WrittenCases
            \cup TargetCases

\* Any structured answer about the two packages, complete or not.
MCInjected ==
    {Unverified(TRUE, {})}
    \cup {Plain(status, complete, TRUE, packages) :
             status \in {"succeeded", "timed-out", "unverified"}, complete \in BOOLEAN,
             packages \in {{}, {[name |-> 1, version |-> 10, used |-> {"one"}]},
                           {[name |-> 1, version |-> 10, used |-> {"one", "two"}]},
                           {[name |-> 1, version |-> 10, used |-> {"one"}],
                            [name |-> 2, version |-> 10, used |-> {"two"}]}}}
    \cup {[Plain(status, TRUE, TRUE, {}) EXCEPT !.names = {1}, !.reqs = {Pin(1, 10)},
                                                 !.snapshot = {One, Two}] :
             status \in Negative}

\* Two local variants of one public pin, and a requested extra.
TinySetups ==
    {Setup("application", FALSE, TRUE, TRUE, roots, held) :
        roots \in {{Pin(1, 10)}, {Req(1, "eq", 10, {"x"}, "always")}},
        held \in {{OneOther}, {OneOther, OneLocal}}}
=============================================================================
