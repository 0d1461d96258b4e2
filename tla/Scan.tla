-------------------------------- MODULE Scan --------------------------------
(***************************************************************************)
(* One scan (engine.scan) of a tree that other programs edit meanwhile:    *)
(* discovery of the project's modules, discovery of the requested sources, *)
(* one bounded read per source that must not straddle an edit, and the     *)
(* second visit of the import fallbacks that a change of sys.path can make *)
(* fail.                                                                   *)
(*                                                                         *)
(* Every system call that looks at the tree is a step of its own where the *)
(* outcome of the scan depends on two of them; at most Edits edits happen  *)
(* between them.                                                           *)
(***************************************************************************)
EXTENDS ScanTree

CONSTANTS
    Scenarios, \* trees with the options of the scan and the edits to expect
    Limit      \* the source-entry bound of one discovery

ASSUME LimitAssumption == Limit \in Nat \ {0}

\* A tree no path of which is longer than the reference definition looks, and
\* edits that keep it a tree.
ASSUME ScenariosAssumption ==
    \A s \in Scenarios :
        /\ IsTree(s.tree)
        /\ \A p \in AllPaths(s.tree) : Len(p) = Depth => s.tree[At(s.tree, p)].kind # "dir"
        /\ s.requests \in Seq(Seq(Range(NameOrder))) /\ s.roots \in Seq(Seq(Range(NameOrder)))
        /\ s.unstable \subseteq Seq(Range(NameOrder)) \ {<<>>}
        /\ s.spare \subseteq DOMAIN s.tree /\ s.edits \in Nat
        /\ s.writable \subseteq {i \in DOMAIN s.tree : s.tree[i].kind = "file"}
        /\ \A c \in s.contents : \A m \in c.mutations : m.versions \subseteq Targets

VARIABLES
    scenario,   \* the scenario chosen, never changed
    tree,       \* the file system
    edits,      \* edits that may still happen
    phase,      \* "modules", "scan", "read", "dynamic" or "done"
    walk,       \* the discovery under way
    discovered, \* entries each finished discovery returned
    queue,      \* sources still to be read, in the order of their paths
    read,       \* the read under way
    analyses,   \* what was retained of each source
    report,     \* the report returned, or the error raised
    held,       \* ghost: contents the path being read has had since its read began
    accepted,   \* ghost: the data accepted for a path, and what the path held
    steady      \* ghost: paths eligible in every state so far, under the same rules

vars == <<scenario, tree, edits, phase, walk, discovered, queue, read, analyses, report, held, accepted, steady>>
treeVars == <<scenario, tree, edits, held, steady>>

(***************************************************************************)
(* Options                                                                 *)
(***************************************************************************)

ModuleOptions == [include |-> NoPattern, exclude |-> NoPattern, respectGitignore |-> FALSE,
                  allowBuiltInRoots |-> TRUE]

\* The options of a scan are those of the configuration; they never allow a
\* built-in excluded root.
ScanOptions == [include |-> scenario.include, exclude |-> scenario.exclude,
                respectGitignore |-> scenario.respectGitignore, allowBuiltInRoots |-> FALSE]

Options == IF phase = "scan" THEN ScanOptions ELSE ModuleOptions

WholeRoot == <<<<>>>>

(***************************************************************************)
(* discover_python_files                                                   *)
(***************************************************************************)

Begin(requests) ==
    [stage |-> "request", requests |-> requests, stack |-> {}, at |-> <<>>, boundary |-> <<>>,
     directories |-> {}, retained |-> {}, files |-> {}, rules |-> <<>>, found |-> {}, over |-> FALSE]

Idle == Begin(<<>>)

Discovering == phase \in {"modules", "scan", "dynamic"}

Position(name) == CHOOSE k \in DOMAIN NameOrder : NameOrder[k] = name

PathBefore(p, q) ==
    \/ IsStrictPrefix(p, q)
    \/ \E k \in DOMAIN p \intersect DOMAIN q :
           SubSeq(p, 1, k - 1) = SubSeq(q, 1, k - 1) /\ Position(p[k]) < Position(q[k])

\* The walk and the reads take what comes first in sorted order.
FirstName(S) == {n \in S : \A m \in S : Position(n) <= Position(m)}
FirstPath(S) == {p \in S : \A q \in S : p = q \/ PathBefore(p, q)}

\* Mutant: an entry seen before counts against the bound again.
SelectTwice(w, entry) ==
    IF Cardinality(w.found) >= Limit
    THEN [w EXCEPT !.found = @ \union {Issue(entry.path, "PYA1006")}, !.over = TRUE]
    ELSE [w EXCEPT !.found = @ \union {entry}]

\* _SourceEntryBudget.select: one bound for all requested paths.
Select(w, entry) ==
    IF entry.path \in {e.path : e \in w.found} THEN w
    ELSE IF Cardinality(w.found) >= Limit
         THEN [w EXCEPT !.found = @ \union {Issue(entry.path, "PYA1006")}, !.over = TRUE]
         ELSE [w EXCEPT !.found = @ \union {entry}]

Loaded(w, directory) == [w EXCEPT !.rules = WithRules(tree, @, directory, Options)]

\* A report that lists no analysed source.
Stopped(outcome, incomplete) == [outcome |-> outcome, analysed |-> {}, incomplete |-> incomplete]

Return(r) == report' = r /\ phase' = "done" /\ walk' = Idle

ScanIssues == {e \in discovered.scan : e.code # "file"}

(***************************************************************************)
(* The report and the second visit                                         *)
(***************************************************************************)

\* Entries that leave the dynamic index incomplete.
IndexIssues(entries) == {e \in entries : e.code = "PYA1006" \/ e.directory}

\* Mutant: an incomplete index is taken for a complete one.
UncertainFoundOnly(entries, issues) == DynamicModules(entries)

UncertainModules(entries, issues) ==
    DynamicModules(entries) \union (IF issues = {} THEN {} ELSE DOMAIN KnownSince)

\* The sources whose fallbacks the inserts make uncertain are visited again,
\* from the text of the first visit.
Revisited(entries, issues) ==
    LET inserted == Inserted(Range(analyses))
        uncertain == [m \in UncertainModules(entries, issues) |-> inserted]
        modules == ProjectModules(discovered.modules, scenario.inferred, Range(scenario.roots))
        affected == {p \in DOMAIN analyses : analyses[p].fallbacks \intersect DOMAIN uncertain # {}}
    IN IF inserted = {} THEN analyses
       ELSE [p \in DOMAIN analyses |->
                IF p \in affected THEN Analysis(analyses[p].source, modules, uncertain) ELSE analyses[p]]

Reported(final, issues) ==
    [outcome |-> "complete",
     analysed |-> {p \in DOMAIN final : ~final[p].incomplete},
     incomplete |-> Cardinality(ScanIssues)
                    + Cardinality({p \in DOMAIN final : final[p].incomplete})
                    + Cardinality(issues \ ScanIssues)]

Conclude(entries, issues) ==
    LET final == Revisited(entries, issues)
    IN analyses' = final /\ Return(Reported(final, issues))

\* No source changes sys.path: nothing is uncertain.
ReportStatic ==
    /\ phase = "read" /\ queue = {} /\ read.stage = "idle"
    /\ \A p \in DOMAIN analyses : analyses[p].mutations = {}
    /\ Return(Reported(analyses, {}))
    /\ UNCHANGED <<discovered, queue, read, analyses, accepted>>
    /\ UNCHANGED treeVars

\* The module discovery covered the whole root and is used again.
ReportInferred ==
    /\ phase = "read" /\ queue = {} /\ read.stage = "idle"
    /\ \E p \in DOMAIN analyses : analyses[p].mutations # {}
    /\ scenario.inferred
    /\ Conclude(discovered.modules, IndexIssues(discovered.modules))
    /\ UNCHANGED <<discovered, queue, read, accepted>>
    /\ UNCHANGED treeVars

SearchDynamic ==
    /\ phase = "read" /\ queue = {} /\ read.stage = "idle"
    /\ \E p \in DOMAIN analyses : analyses[p].mutations # {}
    /\ ~scenario.inferred
    /\ phase' = "dynamic"
    /\ walk' = Begin(WholeRoot)
    /\ UNCHANGED <<discovered, queue, read, analyses, report, accepted>>
    /\ UNCHANGED treeVars

\* DiscoveryIncompleteError: the scan ends with PYA1001, or goes on without
\* an index when only the dynamic modules were looked for.
Incomplete ==
    IF phase = "dynamic"
    THEN Conclude({}, {Issue(<<>>, "PYA1001")})
    ELSE Return(Stopped("incomplete", 1)) /\ UNCHANGED analyses

\* DiscoveryError is raised to the caller.
Invalid == Return(Stopped("error", 0)) /\ UNCHANGED analyses

\* Whether the ignore files above a path can be read.
Fails(directory) == LoadFails(tree, walk.rules, directory, Options)

Refuse(failure) == IF failure = "error" THEN Invalid ELSE Incomplete

Proceed(w) == walk' = w /\ UNCHANGED <<phase, analyses, report>>

(***************************************************************************)
(* Requested paths                                                         *)
(***************************************************************************)

Requested == Head(walk.requests)

AtRequest ==
    /\ Discovering
    /\ walk.stage = "request" /\ walk.requests # <<>> /\ ~walk.over

NextRequest(w) == [w EXCEPT !.requests = Tail(@)]

Untouched == UNCHANGED <<discovered, queue, read, accepted>> /\ UNCHANGED treeVars

RequestOutside ==
    /\ AtRequest
    /\ Resolved(tree, Requested) = None \/ ~BeneathRoot(tree, Requested)
    /\ Invalid
    /\ Untouched

RequestInside ==
    AtRequest /\ Resolved(tree, Requested) # None /\ BeneathRoot(tree, Requested)

RequestThroughLink ==
    /\ RequestInside
    /\ LinkedPrefixes(tree, Requested) # {}
    /\ LET alias == SubSeq(Requested, 1, Min(LinkedPrefixes(tree, Requested)))
           ready == Loaded(walk, Above(alias))
           hidden == BuiltInExcluded(alias, TRUE) /\ ~Options.allowBuiltInRoots
       IN IF ~hidden /\ Fails(Above(alias)) # "none" THEN Refuse(Fails(Above(alias)))
          ELSE IF hidden \/ SymlinkExcluded(ready.rules, alias, Options)
          THEN Proceed(NextRequest(IF hidden THEN walk ELSE ready))
          ELSE Proceed(NextRequest(Select(ready, DirectorySymlink(alias))))
    /\ Untouched

\* An excluded directory can be a source root, but not a path to scan.
RequestHidden ==
    BuiltInExcluded(Requested, IsDirectory(tree, Requested))
        /\ ~(Options.allowBuiltInRoots /\ IsDirectory(tree, Requested))

RequestBuiltIn ==
    /\ RequestInside
    /\ LinkedPrefixes(tree, Requested) = {}
    /\ RequestHidden
    /\ Proceed(NextRequest(walk))
    /\ Untouched

RequestDirectory ==
    /\ RequestInside
    /\ LinkedPrefixes(tree, Requested) = {} /\ ~RequestHidden
    /\ IsDirectory(tree, Requested)
    /\ LET ready == IF Requested = <<>> THEN walk ELSE Loaded(walk, Above(Requested))
       IN IF Requested # <<>> /\ Fails(Above(Requested)) # "none" THEN Refuse(Fails(Above(Requested)))
          ELSE IF DirectoryExcluded(ready.rules, Requested, Options) THEN Proceed(NextRequest(ready))
          ELSE Proceed([NextRequest(ready) EXCEPT !.stage = "list", !.stack = {Requested},
                            !.boundary = IF Options.allowBuiltInRoots THEN Requested ELSE <<>>])
    /\ Untouched

RequestFile ==
    /\ RequestInside
    /\ LinkedPrefixes(tree, Requested) = {} /\ ~RequestHidden
    /\ ~IsDirectory(tree, Requested)
    /\ LET ready == Loaded(walk, Above(Requested))
       IN IF Fails(Above(Requested)) # "none" THEN Refuse(Fails(Above(Requested)))
          ELSE IF ~FileSelected(ready.rules, Requested, Options) THEN Proceed(NextRequest(ready))
          ELSE IF Last(Requested) \notin Sources THEN Invalid
          ELSE Proceed(NextRequest(Select(ready, SourceEntry(tree, Requested))))
    /\ Untouched

(***************************************************************************)
(* The walk below a requested directory                                    *)
(***************************************************************************)

\* os.walk lists a directory and tells directories, links to them included,
\* from everything else.
ListDirectory ==
    /\ Discovering /\ walk.stage = "list"
    /\ \E directory \in FirstPath(walk.stack) :
           LET listed == Inode(tree, Resolved(tree, directory))
               inside(n) == Inode(tree, Target(tree, listed.at[n])).kind = "dir"
           IN IF listed.kind # "dir" THEN Incomplete
              ELSE Proceed([walk EXCEPT !.stage = "prepare", !.stack = @ \ {directory}, !.at = directory,
                                !.retained = {},
                                !.directories = {n \in DOMAIN listed.at : inside(n)},
                                !.files = {n \in DOMAIN listed.at : ~inside(n)}])
    /\ Untouched

PrepareDirectory ==
    /\ Discovering /\ walk.stage = "prepare"
    /\ IF Fails(walk.at) # "none" THEN Refuse(Fails(walk.at))
       ELSE Proceed([Loaded(walk, walk.at) EXCEPT !.stage = "directories"])
    /\ Untouched

EndWalk(w) == [w EXCEPT !.stage = "request", !.stack = {}, !.files = {}, !.retained = {}, !.directories = {}]

\* Nothing follows the entry that exceeds the bound.
WalkOn(w) == IF w.over THEN EndWalk(w) ELSE w

\* A link to a directory is reported unless excluded, any other subdirectory
\* is retained unless excluded.
VisitSubdirectory ==
    /\ Discovering /\ walk.stage = "directories"
    /\ \E name \in FirstName(walk.directories) :
           LET child == Append(walk.at, name)
               rest == [walk EXCEPT !.directories = @ \ {name}]
           IN Proceed(IF name \in BuiltIn THEN rest
                      ELSE IF IsLink(tree, child)
                      THEN IF SymlinkExcluded(walk.rules, child, Options) THEN rest
                           ELSE WalkOn(Select(rest, DirectorySymlink(child)))
                      ELSE IF DirectoryExcluded(walk.rules, child, Options) THEN rest
                      ELSE [rest EXCEPT !.retained = @ \union {name}])
    /\ Untouched

SubdirectoriesVisited ==
    /\ Discovering /\ walk.stage = "directories" /\ walk.directories = {}
    /\ Proceed([walk EXCEPT !.stage = "files"])
    /\ Untouched

\* Whether the name of a listed file makes it a source to inspect.
Wanted(path) ==
    /\ Last(path) \in Sources
    /\ ~BuiltInExcluded(SubSeq(path, Len(walk.boundary) + 1, Len(path)), FALSE)
    /\ FileSelected(walk.rules, path, Options)

AtFile(name) == Discovering /\ walk.stage = "files" /\ name \in FirstName(walk.files)
Visited(name) == Append(walk.at, name)
Beside(name) == [walk EXCEPT !.files = @ \ {name}]

SkipFile ==
    /\ \E name \in walk.files : AtFile(name) /\ ~Wanted(Visited(name)) /\ Proceed(Beside(name))
    /\ Untouched

\* A source that disappears after it was listed ends the discovery.
SourceDisappears ==
    /\ \E name \in walk.files :
           AtFile(name) /\ Wanted(Visited(name)) /\ SourceVanished(tree, Visited(name)) /\ Incomplete
    /\ Untouched

VisitSource ==
    /\ \E name \in walk.files :
           /\ AtFile(name) /\ Wanted(Visited(name)) /\ ~SourceVanished(tree, Visited(name))
           /\ Proceed(WalkOn(Select(Beside(name), SourceEntry(tree, Visited(name)))))
    /\ Untouched

\* os.walk goes on with the retained subdirectories that are no links now.
LeaveDirectory ==
    /\ Discovering /\ walk.stage = "files" /\ walk.files = {}
    /\ LET deeper == {Append(walk.at, n) : n \in {m \in walk.retained : ~IsLink(tree, Append(walk.at, m))}}
           stack == walk.stack \union deeper
       IN Proceed(IF stack = {} THEN EndWalk(walk) ELSE [walk EXCEPT !.stage = "list", !.stack = stack])
    /\ Untouched

(***************************************************************************)
(* The order of the discoveries                                            *)
(***************************************************************************)

DiscoveryEnds == Discovering /\ walk.stage = "request" /\ (walk.requests = <<>> \/ walk.over)

ModulesFound ==
    /\ DiscoveryEnds /\ phase = "modules"
    /\ discovered' = [discovered EXCEPT !.modules = walk.found]
    /\ phase' = "scan"
    /\ walk' = Begin(scenario.requests)
    /\ UNCHANGED <<queue, read, analyses, report, accepted>>
    /\ UNCHANGED treeVars

SourcesFound ==
    /\ DiscoveryEnds /\ phase = "scan"
    /\ \A e \in discovered.modules \union walk.found : e.code # "PYA1006"
    /\ discovered' = [discovered EXCEPT !.scan = walk.found]
    /\ queue' = {e.path : e \in {x \in walk.found : x.code = "file"}}
    /\ phase' = "read"
    /\ walk' = Idle
    /\ UNCHANGED <<read, analyses, report, accepted>>
    /\ UNCHANGED treeVars

\* Either discovery exceeded its bound: nothing is analysed.
BoundExceeded ==
    /\ DiscoveryEnds /\ phase = "scan"
    /\ LET limits == {e \in discovered.modules \union walk.found : e.code = "PYA1006"}
           issues == {e \in walk.found : e.code # "file"}
       IN limits # {} /\ Return(Stopped("bound", Cardinality(issues \union limits)))
    /\ discovered' = [discovered EXCEPT !.scan = walk.found]
    /\ UNCHANGED <<queue, read, analyses, accepted>>
    /\ UNCHANGED treeVars

DynamicFound ==
    /\ DiscoveryEnds /\ phase = "dynamic"
    /\ discovered' = [discovered EXCEPT !.dynamic = walk.found]
    /\ Conclude(walk.found, IndexIssues(walk.found))
    /\ UNCHANGED <<queue, read, accepted>>
    /\ UNCHANGED treeVars

(***************************************************************************)
(* read_rooted_bytes                                                       *)
(***************************************************************************)

NoRead == [stage |-> "idle"]
Chunks == 2 \* reads a source takes; more than one

\* Contents of the path in a tree, reached through real directories only.
HeldAt(t, path) ==
    LET found == Inode(t, At(t, path)) IN IF found.kind = "file" THEN {found.content} ELSE {}

\* The component to look up next, in the innermost directory opened.
Component == read.path[Len(read.pins)]
Looked == Child(tree, Last(read.pins), Component)
AtLeaf == Len(read.pins) = Len(read.path)
Oversized == Len(read.data) = Chunks /\ Last(read.data).big

Retain(analysis) ==
    /\ analyses' = [p \in DOMAIN analyses \union {read.path} |->
                        IF p = read.path THEN analysis ELSE analyses[p]]
    /\ queue' = queue \ {read.path}
    /\ read' = NoRead

\* OSError without a class of its own is PYA1002, an unsafe entry PYA1004;
\* a source known to be too large is PYA1005 whatever else fails.
ReadFails(inode) ==
    /\ Retain(Unreadable(IF Oversized THEN "PYA1005" ELSE IF inode = None THEN "PYA1002" ELSE "PYA1004"))
    /\ held' = {}
    /\ UNCHANGED accepted

ReadUnchanged ==
    /\ UNCHANGED <<phase, walk, discovered, report>>
    /\ UNCHANGED <<scenario, tree, edits, steady>>

BeginRead ==
    /\ phase = "read" /\ read.stage = "idle"
    /\ \E path \in FirstPath(queue) :
           /\ read' = [stage |-> "stat", path |-> path, pins |-> <<Root>>, expected |-> None,
                       stamp |-> 0, data |-> <<>>]
           /\ held' = HeldAt(tree, path)
    /\ UNCHANGED <<queue, analyses, accepted>>
    /\ ReadUnchanged

StatEntry ==
    /\ read.stage = "stat"
    /\ IF Inode(tree, Looked).kind = (IF AtLeaf THEN "file" ELSE "dir")
       THEN /\ read' = [read EXCEPT !.stage = "open", !.expected = Looked]
            /\ UNCHANGED <<queue, analyses, held, accepted>>
       ELSE ReadFails(Looked)
    /\ ReadUnchanged

OpenEntry ==
    /\ read.stage = "open"
    /\ IF Looked = read.expected
       THEN /\ read' = [read EXCEPT !.stage = IF AtLeaf THEN "data" ELSE "stat", !.pins = Append(@, Looked),
                            !.stamp = IF AtLeaf THEN tree[Looked].stamp ELSE 0]
            /\ UNCHANGED <<queue, analyses, held, accepted>>
       ELSE \* a link or another kind of entry cannot be opened at all
            ReadFails(IF Inode(tree, Looked).kind = (IF AtLeaf THEN "file" ELSE "dir") THEN Looked ELSE None)
    /\ ReadUnchanged

ReadChunk ==
    /\ read.stage = "data"
    /\ LET data == Append(read.data, tree[Last(read.pins)].content)
       IN read' = [read EXCEPT !.data = data, !.stage = IF Len(data) = Chunks THEN "chain" ELSE "data"]
    /\ UNCHANGED <<queue, analyses, held, accepted>>
    /\ ReadUnchanged

\* changed_binding: every directory opened must still be where it was.
Moved == {k \in 1..Len(read.path) - 1 : Child(tree, read.pins[k], read.path[k]) # read.pins[k + 1]}

ValidateChain ==
    /\ read.stage = "chain"
    /\ IF Moved = {}
       THEN /\ read' = [read EXCEPT !.stage = "leaf"]
            /\ UNCHANGED <<queue, analyses, held, accepted>>
       ELSE ReadFails(Child(tree, read.pins[Min(Moved)], read.path[Min(Moved)]))
    /\ ReadUnchanged

CurrentLeaf == Child(tree, read.pins[Len(read.path)], Last(read.path))

\* Mutant: only the identity of the file is compared.
SameLeaf == CurrentLeaf = Last(read.pins)

\* _same_stable_file for the path and for the open file.
StableLeaf == CurrentLeaf = Last(read.pins) /\ tree[Last(read.pins)].stamp = read.stamp

ValidateLeaf ==
    /\ read.stage = "leaf"
    /\ IF ~StableLeaf \/ Oversized
       THEN ReadFails(CurrentLeaf)
       ELSE /\ Retain(Analysis(read.data[1],
                               ProjectModules(discovered.modules, scenario.inferred, Range(scenario.roots)), <<>>))
            /\ accepted' = [p \in DOMAIN accepted \union {read.path} |->
                               IF p = read.path THEN [data |-> read.data, held |-> held] ELSE accepted[p]]
            /\ held' = {}
    /\ ReadUnchanged

(***************************************************************************)
(* Other programs                                                          *)
(***************************************************************************)

Attached(t) == {At(t, p) : p \in AllPaths(t)}

\* A path that is no longer what it was, or no longer judged as it was, has
\* no claim on the scan: a scan may combine ignore files of several moments.
SameKind(t, path) == IsDirectory(t, path) = IsDirectory(tree, path)
SameRules(t, path) == RulesAbove(t, path) = RulesAbove(tree, path)

StillEligible(t, S) ==
    {p \in S : /\ Eligible(t, p, scenario.requests, ScanOptions)
               /\ SameKind(t, p)
               /\ scenario.respectGitignore => SameRules(t, p)}
StillExposed(t, S) == {p \in S : Eligible(t, p, WholeRoot, ModuleOptions) /\ SameKind(t, p)}

EditTo(t) ==
    /\ tree' = t
    /\ edits' = edits - 1
    /\ held' = IF read.stage = "idle" THEN {} ELSE held \union HeldAt(t, read.path)
    /\ steady' = [scan |-> StillEligible(t, steady.scan), exposed |-> StillExposed(t, steady.exposed)]
    /\ UNCHANGED <<scenario, phase, walk, discovered, queue, read, analyses, report, accepted>>

\* A change of a file, or of the name of a file, gives it a new stamp.
Stamped(t, i) == IF Inode(t, i).kind = "file" THEN [t EXCEPT ![i].stamp = @ + 1] ELSE t

\* An entry is removed, or replaced by something from elsewhere.
Rebind(path, i) ==
    LET parent == At(tree, Front(path))
        names == IF Inode(tree, parent).kind = "dir" THEN tree[parent].at ELSE <<>>
        bound == IF i = None THEN DOMAIN names \ {Last(path)} ELSE DOMAIN names \union {Last(path)}
        moved == [tree EXCEPT ![parent].at = [n \in bound |-> IF n = Last(path) THEN i ELSE names[n]]]
    IN /\ phase # "done" /\ edits > 0
       /\ Inode(tree, parent).kind = "dir"
       /\ At(tree, path) # i
       /\ EditTo(Stamped(Stamped(moved, At(tree, path)), i))

Rewrite(i, content) ==
    /\ phase # "done" /\ edits > 0
    /\ tree[i].content # content
    /\ EditTo(Stamped([tree EXCEPT ![i].content = content], i))

Unlink == \E path \in scenario.unstable : At(tree, path) # None /\ Rebind(path, None)
Replace == \E path \in scenario.unstable, i \in scenario.spare \ Attached(tree) : Rebind(path, i)
Overwrite == \E i \in scenario.writable, content \in scenario.contents : Rewrite(i, content)

(***************************************************************************)
(* The specification                                                       *)
(***************************************************************************)

Init ==
    /\ scenario \in Scenarios
    /\ tree = scenario.tree
    /\ edits = scenario.edits
    /\ phase = IF scenario.inferred \/ scenario.roots # <<>> THEN "modules" ELSE "scan"
    /\ walk = Begin(IF scenario.inferred THEN WholeRoot
                    ELSE IF scenario.roots # <<>> THEN scenario.roots
                    ELSE scenario.requests)
    /\ discovered = [modules |-> {}, scan |-> {}, dynamic |-> {}]
    /\ queue = {}
    /\ read = NoRead
    /\ analyses = <<>>
    /\ report = [outcome |-> "none"]
    /\ held = {}
    /\ accepted = <<>>
    /\ steady = [scan |-> EligiblePaths(scenario.tree, scenario.requests, ScanOptions),
                 exposed |-> EligiblePaths(scenario.tree, WholeRoot, ModuleOptions)]

RequestStep ==
    \/ RequestOutside \/ RequestThroughLink \/ RequestBuiltIn \/ RequestDirectory \/ RequestFile

WalkStep ==
    \/ ListDirectory \/ PrepareDirectory \/ VisitSubdirectory \/ SubdirectoriesVisited
    \/ SkipFile \/ SourceDisappears \/ VisitSource \/ LeaveDirectory
    \/ ModulesFound \/ SourcesFound \/ BoundExceeded \/ DynamicFound

ReadStep ==
    BeginRead \/ StatEntry \/ OpenEntry \/ ReadChunk \/ ValidateChain \/ ValidateLeaf

ReportStep == ReportStatic \/ ReportInferred \/ SearchDynamic

ScanStep == RequestStep \/ WalkStep \/ ReadStep \/ ReportStep
Edit == Unlink \/ Replace \/ Overwrite

Next == ScanStep \/ Edit

Spec == Init /\ [][Next]_vars

(***************************************************************************)
(* Properties                                                              *)
(***************************************************************************)

\* What is analysed of a source is the whole text its path held, through real
\* directories, at some moment of the read (_fs/rooted.py), and what the
\* second visit starts from is that same text (engine.py:1700).
SnapshotPerFile ==
    /\ \A p \in DOMAIN accepted :
           /\ \A k \in 1..Chunks : accepted[p].data[k] = accepted[p].data[1]
           /\ accepted[p].data[1] \in accepted[p].held
    /\ \A p \in DOMAIN analyses :
           /\ ~analyses[p].incomplete => p \in DOMAIN accepted
           /\ analyses[p].fallbacks # {} => analyses[p].source = accepted[p].data[1]

Unedited == edits = scenario.edits

Exceeds(requests, options) == Cardinality(EligiblePaths(tree, requests, options)) > Limit

\* A report that owns up to no incomplete file analysed every source that was
\* eligible from the beginning to the end, whatever was edited but the ignore
\* files above it; on a tree
\* nobody edits a scan finds exactly the eligible entries and stops at its
\* bound exactly when there are more, in whatever order and however often the
\* paths are requested (discovery.py:403).
CompleteScanMissesNothing ==
    /\ report.outcome = "complete" /\ report.incomplete = 0 => steady.scan \subseteq report.analysed
    /\ report.outcome = "complete" /\ Unedited =>
           /\ {e.path : e \in discovered.scan} = steady.scan
           /\ ~Exceeds(scenario.requests, ScanOptions)
    /\ report.outcome = "bound" /\ Unedited =>
           \/ Exceeds(scenario.requests, ScanOptions)
           \/ Cardinality(discovered.modules) > Limit

\* Whether a path that was there all along can provide a module once another
\* directory is put first on sys.path; a linked directory can provide any.
Shadows(path, module) ==
    \/ Len(path) >= 2 /\ Last(path) \in Runtime /\ DynamicModule(path) = module
    \/ IsLink(tree, path) /\ IsDirectory(tree, path)

\* In the report, the handler of an import fallback can run on every target
\* on which some analysed source puts a directory first on sys.path while a
\* file or an unsearched directory of the project may shadow the import; and
\* one second visit is enough: what it makes reachable adds no target
\* (engine.py:1692).
HandlersSettled ==
    report.outcome = "complete" =>
        LET inserted == Inserted(Range(analyses)) IN
        \A p \in DOMAIN analyses : ~analyses[p].incomplete =>
            \A k \in DOMAIN accepted[p].data[1].tries :
                LET try == accepted[p].data[1].tries[k] IN
                /\ Targets \ Guaranteed(try) \subseteq analyses[p].handlers[k]
                /\ (\E q \in steady.exposed : Shadows(q, try.module)) => inserted \subseteq analyses[p].handlers[k]
                /\ try.module \in DOMAIN KnownSince /\ Narrowed(try, ProjectModules(discovered.modules, scenario.inferred, Range(scenario.roots)))
                       => analyses[p].handlers[k] \subseteq (Targets \ Guaranteed(try)) \union inserted
=============================================================================
