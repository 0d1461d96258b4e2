------------------------------ MODULE ScanTree ------------------------------
(***************************************************************************)
(* The part of a scan that depends on one state of the file system only:   *)
(* how a path is looked up, which entries the path policy of discovery.py  *)
(* selects, which modules an entry can provide, and what the visitor of    *)
(* engine.py retains of one source.                                        *)
(*                                                                         *)
(* A tree maps inode numbers to directories, files and links.  A path is   *)
(* the sequence of its names below the scan root.  The content of a file   *)
(* is a member of Contents; an ignore file and the include and exclude     *)
(* options hold one pattern each.                                          *)
(***************************************************************************)
EXTENDS Integers, Sequences, FiniteSets, FiniteSetsExt, SequencesExt, Functions

CONSTANTS
    Targets,    \* the target versions
    KnownSince, \* the imports the table knows, with the version they succeed from
    NameOrder,  \* every name an entry can have, in sorted order
    Sources,    \* the names that end in .py or .pyi
    Runtime,    \* the names that end in .py
    Stem,       \* the name a file or directory has as a module
    BuiltIn,    \* names of directories that are never entered
    Depth       \* a bound on the names in a path, for the reference definition

ASSUME NamesAssumption ==
    /\ Runtime \subseteq Sources
    /\ BuiltIn \intersect Sources = {}
    /\ NameOrder \in Seq(Range(NameOrder)) /\ DOMAIN Stem = Range(NameOrder)
    /\ Depth \in Nat
    /\ \A m \in DOMAIN KnownSince : KnownSince[m] \in Nat

IgnoreFile == ".gitignore"
Package == "__init__.py"

(***************************************************************************)
(* Paths of the operating system                                           *)
(***************************************************************************)

None == 0
Root == 1
Nothing == [kind |-> "none"]

\* A tree the operating system can hold: directories name inodes, links name
\* a place to start from, and the root is a directory.
IsTree(tree) ==
    /\ DOMAIN tree \subseteq Nat \ {None}
    /\ Root \in DOMAIN tree /\ tree[Root].kind = "dir"
    /\ \A i \in DOMAIN tree :
           \/ /\ tree[i].kind = "dir" /\ tree[i] = [kind |-> "dir", at |-> tree[i].at]
              /\ tree[i].at \in [DOMAIN tree[i].at -> DOMAIN tree]
              /\ DOMAIN tree[i].at \subseteq Range(NameOrder)
           \/ /\ tree[i].kind = "file" /\ tree[i] = [kind |-> "file", content |-> tree[i].content, stamp |-> tree[i].stamp]
              /\ tree[i].stamp \in Nat
              /\ \A m \in tree[i].content.mutations : m.versions \subseteq Targets
           \/ /\ tree[i].kind = "link" /\ tree[i] = [kind |-> "link", from |-> tree[i].from, to |-> tree[i].to]
              /\ tree[i].from \in DOMAIN tree /\ tree[i].to \in Seq(Range(NameOrder))

Inode(tree, i) == IF i = None THEN Nothing ELSE tree[i]

Child(tree, i, name) ==
    IF Inode(tree, i).kind = "dir" /\ name \in DOMAIN tree[i].at THEN tree[i].at[name] ELSE None

Below(tree, i, path) ==
    LET at[k \in 0..Len(path)] == IF k = 0 THEN i ELSE Child(tree, at[k - 1], path[k])
    IN at[Len(path)]

\* The inode a path names when no component may be a link.
At(tree, path) == Below(tree, Root, path)

\* A link names an inode and a path from there; away from the root when the
\* inode is not the root's.
Target(tree, i) ==
    IF Inode(tree, i).kind = "link" THEN Below(tree, tree[i].from, tree[i].to) ELSE i

\* The inode of a path whose last component is not followed: what lstat sees.
Lstat(tree, path) ==
    LET at[k \in 0..Len(path)] == IF k = 0 THEN Root ELSE Child(tree, Target(tree, at[k - 1]), path[k])
    IN at[Len(path)]

Resolved(tree, path) == Target(tree, Lstat(tree, path))
IsLink(tree, path) == Inode(tree, Lstat(tree, path)).kind = "link"
IsDirectory(tree, path) == Inode(tree, Resolved(tree, path)).kind = "dir"

\* Path.resolve stays beneath the root.
BeneathRoot(tree, path) ==
    \A p \in Prefixes(path) : IsLink(tree, p) => tree[Lstat(tree, p)].from = Root

(***************************************************************************)
(* Path policy                                                             *)
(***************************************************************************)

NoPattern == [name |-> "", dirOnly |-> FALSE, keep |-> FALSE]

\* The pattern matches the path or one of the directories above it.
Matches(pattern, path, directory) ==
    /\ path # <<>>
    /\ \/ pattern.name \in Range(Front(path))
       \/ Last(path) = pattern.name /\ (pattern.dirOnly => directory)

\* What reading the ignore file of a directory does.
IgnoreState(tree, directory) ==
    LET path == Append(directory, IgnoreFile)
        found == Inode(tree, Lstat(tree, path))
    IN CASE found.kind \in {"none", "link"} -> "absent"
         [] found.kind = "dir" -> "error"
         [] found.kind = "file" /\ (found.content.big \/ At(tree, path) = None) -> "incomplete"
         [] OTHER -> "read"

Rule(tree, directory) ==
    IF IgnoreState(tree, directory) = "read"
    THEN tree[Lstat(tree, Append(directory, IgnoreFile))].content.pattern
    ELSE NoPattern

\* The last rule that matches decides; "rules" has one for each directory
\* above the path whose ignore file was looked for.
IgnoredBy(rules, path, directory) ==
    LET rule(k) == rules[SubSeq(path, 1, k)]
        says == {k \in 0..Len(path) - 1 :
                    SubSeq(path, 1, k) \in DOMAIN rules /\ Matches(rule(k), SubSeq(path, k + 1, Len(path)), directory)}
    IN says # {} /\ ~rule(Max(says)).keep

\* What is below an ignored directory is ignored, whatever is said of it.
GitIgnores(rules, path, directory) ==
    \E k \in 1..Len(path) : IgnoredBy(rules, SubSeq(path, 1, k), k < Len(path) \/ directory)

\* _GitIgnoreHierarchy._context: from the root down to a directory, an ignore
\* file is looked for once, and not in a directory that is ignored itself.
Loading(tree, rules, directory) ==
    LET known == [d \in DOMAIN rules \union Prefixes(directory) |->
                     IF d \in DOMAIN rules THEN rules[d] ELSE Rule(tree, d)]
    IN {d \in Prefixes(directory) : ~GitIgnores(known, d, TRUE)} \ DOMAIN rules

WithRules(tree, rules, directory, options) ==
    IF options.respectGitignore
    THEN [d \in DOMAIN rules \union Loading(tree, rules, directory) |->
             IF d \in DOMAIN rules THEN rules[d] ELSE Rule(tree, d)]
    ELSE rules

\* How that fails: the outermost ignore file that cannot be used.
LoadFails(tree, rules, directory, options) ==
    LET bad == {k \in 0..Len(directory) :
                   /\ SubSeq(directory, 1, k) \in Loading(tree, rules, directory)
                   /\ IgnoreState(tree, SubSeq(directory, 1, k)) \in {"error", "incomplete"}}
    IN IF options.respectGitignore /\ bad # {} THEN IgnoreState(tree, SubSeq(directory, 1, Min(bad))) ELSE "none"

\* The root itself is never ignored and needs no rules.
Above(path) == IF path = <<>> THEN <<>> ELSE Front(path)

Ignored(rules, path, directory, options) == options.respectGitignore /\ GitIgnores(rules, path, directory)

Excludes(options, path, directory) ==
    options.exclude # NoPattern /\ Matches(options.exclude, path, directory)

FileSelected(rules, path, options) ==
    /\ ~Ignored(rules, path, FALSE, options)
    /\ options.include # NoPattern => Matches(options.include, path, FALSE)
    /\ ~Excludes(options, path, FALSE)

DirectoryExcluded(rules, path, options) ==
    Ignored(rules, path, TRUE, options) \/ Excludes(options, path, TRUE)

\* A link to a directory is judged as the non-directory Git sees.
SymlinkExcluded(rules, path, options) ==
    Ignored(rules, path, FALSE, options) \/ Excludes(options, path, FALSE)

BuiltInExcluded(path, directory) ==
    path # <<>> /\ Range(IF directory THEN path ELSE Front(path)) \intersect BuiltIn # {}

(***************************************************************************)
(* Entries                                                                 *)
(***************************************************************************)

File(path) == [path |-> path, code |-> "file", directory |-> FALSE]
Issue(path, code) == [path |-> path, code |-> code, directory |-> FALSE]
DirectorySymlink(path) == [path |-> path, code |-> "PYA1004", directory |-> TRUE]

\* _relative_source for a name with a source suffix, unless it raises OSError.
SourceVanished(tree, path) == Resolved(tree, path) = None /\ ~IsLink(tree, path)

SourceEntry(tree, path) ==
    LET found == Inode(tree, Resolved(tree, path)) IN
    IF ~BeneathRoot(tree, path) \/ found.kind # "file" THEN Issue(path, "PYA1004")
    ELSE IF found.content.big THEN Issue(path, "PYA1005")
    ELSE File(path)

\* The first directory link an explicit path goes through, as its prefix.
LinkedPrefixes(tree, path) ==
    LET directories == IF IsDirectory(tree, path) THEN Len(path) ELSE Len(path) - 1
    IN {k \in 1..directories : IsLink(tree, SubSeq(path, 1, k))}

(***************************************************************************)
(* Modules an entry can provide, by their top-level names                  *)
(***************************************************************************)

AnyModule == "*"

\* A module named by the path from a source root to an entry.
TopLevel(relative) ==
    IF relative = <<>> \/ relative = <<Package>> THEN {} ELSE {Stem[Head(relative)]}

Beyond(root, path) == IF IsPrefix(root, path) THEN SubSeq(path, Len(root) + 1, Len(path)) ELSE <<>>

ConventionalRoot(path) == IF Beyond(<<"src">>, path) # <<>> THEN <<"src">> ELSE <<>>

FileModules(path, inferred, roots) ==
    IF path = <<>> \/ Last(path) \notin Runtime THEN {}
    ELSE IF inferred /\ TopLevel(Beyond(<<"src">>, path)) # {} THEN TopLevel(Beyond(<<"src">>, path))
    ELSE IF inferred THEN TopLevel(path)
    ELSE UNION {TopLevel(Beyond(root, path)) : root \in roots}

\* A directory that was not entered may provide anything below it, and any
\* module at all when a source root lies in it.
DirectoryModules(path, inferred, roots) ==
    IF inferred
    THEN IF path = <<"src">> THEN {AnyModule} ELSE TopLevel(Beyond(ConventionalRoot(path), path))
    ELSE UNION {IF IsPrefix(path, root) THEN {AnyModule} ELSE TopLevel(Beyond(root, path)) : root \in roots}

ProjectModules(entries, inferred, roots) ==
    UNION {IF e.directory THEN DirectoryModules(e.path, inferred, roots)
           ELSE FileModules(e.path, inferred, roots) : e \in entries}

\* competing_project_paths finds one.
Competes(module, modules) == AnyModule \in modules \/ module \in modules

\* Modules a directory put on sys.path at run time could expose.
DynamicModule(path) == IF Last(path) = Package THEN Last(Front(path)) ELSE Stem[Last(path)]

DynamicModules(entries) ==
    {DynamicModule(e.path) : e \in {x \in entries : ~x.directory /\ Len(x.path) >= 2 /\ Last(x.path) \in Runtime}}

(***************************************************************************)
(* What the visitor retains of one source                                  *)
(***************************************************************************)

NoSource == [broken |-> TRUE]

Unreadable(code) == [incomplete |-> TRUE, code |-> code, source |-> NoSource, fallbacks |-> {},
                     mutations |-> {}, handlers |-> <<>>]

\* import_fallback_versions of a try statement that imports one module.
Guaranteed(try) ==
    IF try.module \in DOMAIN KnownSince THEN {v \in Targets : v >= KnownSince[try.module]} ELSE {}

\* A try statement whose import may succeed without its handler.
Narrowed(try, modules) == ~Competes(try.module, modules) /\ Guaranteed(try) # {}

\* Targets on which the handler can run, where "uncertain" gives the targets
\* on which a module may not be the known one.
HandlerVersions(try, modules, uncertain) ==
    IF Narrowed(try, modules)
    THEN Targets \ (Guaranteed(try) \ (IF try.module \in DOMAIN uncertain THEN uncertain[try.module] ELSE {}))
    ELSE Targets

Operation(operation, versions) == [operation |-> operation, versions |-> versions]

\* _analyse_file: the mutations of sys.path the visitor reaches, and the
\* imports that narrow a handler.
Analysis(content, modules, uncertain) ==
    IF content.broken THEN Unreadable("PYA1003")
    ELSE LET handler == [k \in DOMAIN content.tries |-> HandlerVersions(content.tries[k], modules, uncertain)]
             fallbacks == {t.module : t \in {x \in Range(content.tries) : Narrowed(x, modules)}}
         IN [incomplete |-> FALSE, code |-> "", fallbacks |-> fallbacks,
             source |-> IF fallbacks = {} THEN NoSource ELSE content,
             mutations |-> content.mutations \union
                           {Operation("insert", handler[k]) :
                               k \in {j \in DOMAIN handler : content.tries[j].inserts /\ handler[j] # {}}},
             handlers |-> handler]

Inserted(analyses) ==
    UNION {m.versions : m \in {x \in UNION {a.mutations : a \in analyses} : x.operation = "insert"}}

(***************************************************************************)
(* A reference definition of what a scan has to find, without a walk       *)
(***************************************************************************)

\* Every path of the tree that goes through no link.
AllPaths(tree) ==
    LET upTo[k \in 0..Depth] ==
            IF k = 0 THEN {<<>>}
            ELSE upTo[k - 1] \union {Append(p, n) : p \in {q \in upTo[k - 1] : Inode(tree, At(tree, q)).kind = "dir"},
                                                   n \in Range(NameOrder)}
    IN {p \in upTo[Depth] : At(tree, p) # None}

\* The ignore files above a path in one state of the tree.
RulesAbove(tree, path) == [d \in {SubSeq(path, 1, k - 1) : k \in DOMAIN path} |-> Rule(tree, d)]

Eligible(tree, path, requests, options) ==
    LET directoryLink == IsLink(tree, path) /\ IsDirectory(tree, path)
        above == Prefixes(Above(path))
        below(r) == IF options.allowBuiltInRoots THEN Beyond(r, path) ELSE path
    IN /\ At(tree, path) # None
       /\ \/ directoryLink
          \/ Last(path) \in Sources /\ ~IsDirectory(tree, path)
       /\ \E r \in Range(requests) :
              /\ IsPrefix(r, path) \/ (directoryLink /\ IsPrefix(path, r))
              /\ ~BuiltInExcluded(below(r), directoryLink)
       /\ options.respectGitignore => ~GitIgnores(RulesAbove(tree, path), path, FALSE)
       /\ \A p \in above : ~Excludes(options, p, TRUE)
       /\ ~Excludes(options, path, FALSE)
       /\ directoryLink \/ options.include = NoPattern \/ Matches(options.include, path, FALSE)

EligiblePaths(tree, requests, options) ==
    {p \in AllPaths(tree) \ {<<>>} : Eligible(tree, p, requests, options)}
=============================================================================
