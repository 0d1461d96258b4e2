---------------------------- MODULE Configuration ----------------------------
(***************************************************************************)
(* The configuration of a scan: src/pyahead/config.py and the options of   *)
(* src/pyahead/cli.py, from the directory the command starts in to the     *)
(* policy and the options that are in effect, or to a refusal.             *)
(*                                                                         *)
(* A setup is everything the command reads before the scan:                *)
(*   ancestors  the directories from the current one up, each with its     *)
(*              pyproject.toml and whether it is a worktree                *)
(*   root       the one --root names, 0 without the option                 *)
(*   config     "" without --config, or "pyproject.toml", or "other"       *)
(*   other      the file --config names when it is another one             *)
(*   options    what the command line sets, of the keys it can set         *)
(*   flags      the switches of the command line                           *)
(* A document is [state, requires, options, malformed]: what was read of   *)
(* it, the requires-python it declares if any, the keys of [tool.pyahead]  *)
(* and those whose value is not of their type.  A declaration is a set of  *)
(* clauses [op, minor, patch]; without a patch it is Any.                  *)
(***************************************************************************)
EXTENDS Integers, Sequences, FiniteSets

CONSTANT Releases   \* the releases of the registry: [minor, status]

ASSUME ReleasesAssumption ==
  Releases # {} /\ IsFiniteSet(Releases) /\ \A r \in Releases : r.minor \in Nat

Lowest(S) == CHOOSE n \in S : \A m \in S : n <= m
Highest(S) == CHOOSE n \in S : \A m \in S : n >= m

-----------------------------------------------------------------------------
(* The analysis window.                                                     *)

Minors == {r.minor : r \in Releases}
Supported == Lowest(Minors)..Highest(Minors)
Active == {r.minor : r \in {x \in Releases : x.status \in {"stable", "prerelease"}}}

-----------------------------------------------------------------------------
(* requires-python.                                                         *)

Any == -1
Clauses ==
  [op : {">=", ">", "<", "<=", "==", "!=", "==.*", "!=.*", "~="}, minor : Nat, patch : Nat \cup {Any}]

PatchOf(clause) == IF clause.patch = Any THEN 0 ELSE clause.patch

Earlier(minor, patch, clause) ==
  minor < clause.minor \/ (minor = clause.minor /\ patch < PatchOf(clause))
Equal(minor, patch, clause) == minor = clause.minor /\ patch = PatchOf(clause)

\* SpecifierSet.contains, for final releases; "==.*" is the wildcard of a minor.
Meets(clause, minor, patch) ==
  CASE clause.op = ">="   -> ~Earlier(minor, patch, clause)
    [] clause.op = ">"    -> ~Earlier(minor, patch, clause) /\ ~Equal(minor, patch, clause)
    [] clause.op = "<"    -> Earlier(minor, patch, clause)
    [] clause.op = "<="   -> Earlier(minor, patch, clause) \/ Equal(minor, patch, clause)
    [] clause.op = "=="   -> Equal(minor, patch, clause)
    [] clause.op = "!="   -> ~Equal(minor, patch, clause)
    [] clause.op = "==.*" -> minor = clause.minor
    [] clause.op = "!=.*" -> minor # clause.minor
    [] clause.op = "~="   -> /\ ~Earlier(minor, patch, clause)
                             /\ clause.patch # Any => minor = clause.minor

Admitted(declaration, minor, patch) == \A c \in declaration : Meets(c, minor, patch)

Far == 999999

\* Mutant: only the first release of a minor version is asked about.
FirstPatch(declaration, minor) == {0}

\* _specifier_patch_candidates: the patches around those the clauses name.
PatchCandidates(declaration, minor) ==
  {0, 1, Far} \cup
  UNION {{p \in {PatchOf(c) - 1, PatchOf(c), PatchOf(c) + 1} : p >= 0} :
           c \in {x \in declaration : x.minor = minor}}

\* infer_baseline: the lowest supported minor that has an admitted candidate.
Included(declaration) ==
  {v \in Supported : \E p \in PatchCandidates(declaration, v) : Admitted(declaration, v, p)}

-----------------------------------------------------------------------------
(* The documents.                                                           *)

Absent == [state |-> "absent", requires |-> <<>>, options |-> <<>>, malformed |-> {}]

\* resolve_project_root.
RootOf(setup) ==
  LET With(Test(_)) == {n \in 1..Len(setup.ancestors) : Test(setup.ancestors[n])}
      configured == With(LAMBDA d : d.pyproject.state # "absent")
      worktrees == With(LAMBDA d : d.git)
  IN  IF setup.root # 0 THEN setup.root
      ELSE IF configured # {} THEN Lowest(configured)
      ELSE IF worktrees # {} THEN Lowest(worktrees)
      ELSE 1

Pyproject(setup) == setup.ancestors[RootOf(setup)].pyproject

\* _load_project_configuration_snapshot: the document that is selected.
Selected(setup) == IF setup.config = "other" THEN setup.other ELSE Pyproject(setup)

Keys == {"baseline", "horizon", "include", "exclude", "sourceRoots", "respectGitignore",
         "minimum", "failOn", "showUnscheduled", "maxSize", "ignores"}

\* _read_toml and _parse_project_configuration; low confidence is for findings only.
Unparsed(document) ==
  \/ document.state = "unreadable"
  \/ document.malformed \cap Keys # {} \/ ~(DOMAIN document.options \subseteq Keys)
  \/ "minimum" \in DOMAIN document.options /\ document.options["minimum"] = "low"

DocumentRefused(setup) ==
  \/ setup.config # "" /\ Selected(setup).state = "absent"
  \/ Unparsed(Selected(setup))

-----------------------------------------------------------------------------
(* Precedence: the command line, the table, what is inferred or the default.*)

Defaults == [include |-> {}, exclude |-> {}, respectGitignore |-> TRUE, minimum |-> "high",
             failOn |-> "breaking", showUnscheduled |-> TRUE, maxSize |-> 2 * 1024 * 1024]

Says(setup, key) == key \in DOMAIN setup.options \/ key \in DOMAIN Selected(setup).options
Said(setup, key) ==
  IF key \in DOMAIN setup.options THEN setup.options[key] ELSE Selected(setup).options[key]

\* _first.
Effective(setup, key) == IF Says(setup, key) THEN Said(setup, key) ELSE Defaults[key]

\* The pyproject.toml of the root declares it, whichever file configures the scan;
\* it is only read for that when the other one was selected.
Declares(setup) == Pyproject(setup).requires # <<>>
Declaration(setup) == Pyproject(setup).requires[1]
Infers(setup) == ~Says(setup, "baseline")

BaselineRefused(setup) ==
  Infers(setup) /\ (\/ Pyproject(setup).state = "unreadable"
                    \/ "requires-python" \in Pyproject(setup).malformed
                    \/ ~Declares(setup) \/ Included(Declaration(setup)) = {})

BaselineOf(setup) ==
  IF Infers(setup) THEN Lowest(Included(Declaration(setup))) ELSE Said(setup, "baseline")

\* _default_horizon.
HorizonRefused(setup) == ~Says(setup, "horizon") /\ Active = {}
HorizonOf(setup) == IF Says(setup, "horizon") THEN Said(setup, "horizon") ELSE Highest(Active)

\* Policy and _validate_policy_window; a value that is not a minor is in no window.
PolicyRefused(setup) ==
  \/ HorizonOf(setup) < BaselineOf(setup)
  \/ ~({BaselineOf(setup), HorizonOf(setup)} \subseteq Supported)

\* _resolve_source_roots, each of them [path, directory]: "" is refused on reading.
RootsInferred(setup) == ~Says(setup, "sourceRoots")
SourceRoots(setup) ==
  IF RootsInferred(setup) THEN {[path |-> ".", directory |-> TRUE], [path |-> "src", directory |-> TRUE]}
  ELSE Said(setup, "sourceRoots")
RootsRefused(setup) == ~RootsInferred(setup) /\ \E r \in SourceRoots(setup) : ~r.directory

\* _merge_per_file_ignores: the command line adds to the table.
Ignores(setup) ==
  LET Of(options) == IF "ignores" \in DOMAIN options THEN options["ignores"] ELSE {}
      given == Of(Selected(setup).options) \cup Of(setup.options)
  IN  {[pattern |-> p, ids |-> UNION {i.ids : i \in {x \in given : x.pattern = p}}] :
         p \in {i.pattern : i \in given}}

\* _resolve_configuration, and the checks of the options together.
OptionsRefused(setup) ==
  \/ Effective(setup, "minimum") = "low" \/ Effective(setup, "maxSize") <= 0
  \/ "fail-new-only" \in setup.flags /\ "baseline-file" \notin setup.flags
  \/ "evidence" \in setup.flags /\ "sarif" \in setup.flags
  \/ "source-commit" \in setup.flags /\ "evidence" \notin setup.flags

Refused(setup) ==
  \/ setup.root > Len(setup.ancestors)
  \/ DocumentRefused(setup) \/ BaselineRefused(setup) \/ HorizonRefused(setup)
  \/ PolicyRefused(setup) \/ RootsRefused(setup) \/ OptionsRefused(setup)

\* What is in effect.  A refused setup has no policy: nothing is scanned under it.
InEffect(setup, targets) ==
  [valid |-> targets # {}, targets |-> targets,
   minimum |-> Effective(setup, "minimum"), failOn |-> Effective(setup, "failOn"),
   showUnscheduled |-> Effective(setup, "showUnscheduled"),
   respectGitignore |-> Effective(setup, "respectGitignore"), maxSize |-> Effective(setup, "maxSize"),
   include |-> Effective(setup, "include"), exclude |-> Effective(setup, "exclude"),
   sourceRoots |-> SourceRoots(setup), rootsInferred |-> RootsInferred(setup),
   ignores |-> Ignores(setup), allowIncomplete |-> "allow-incomplete" \in setup.flags]

NoPolicy ==
  [valid |-> FALSE, targets |-> {}, minimum |-> "high", failOn |-> "never", showUnscheduled |-> FALSE,
   ignores |-> {}, allowIncomplete |-> FALSE]

ResolvePolicy(setup) ==
  IF Refused(setup) THEN NoPolicy
  ELSE InEffect(setup, BaselineOf(setup)..HorizonOf(setup))
=============================================================================
