---------------------- MODULE DependencyConfiguration ----------------------
(***************************************************************************)
(* The configuration of a dependency report (dependencies/_config.py): the *)
(* [tool.pyahead.dependencies] table of a TOML file, the command-line      *)
(* options that override it, and the validation of what results.           *)
(*                                                                         *)
(* A setup is [document, table, options, builtin, clash]: whether the file *)
(* could be read as a table, the table, the options, whether the built-in  *)
(* adapter resolves, and whether two configured files have names that      *)
(* differ only in case.  A table is                                        *)
(*   [kind, requirements, extras, files, targets, keys]                    *)
(* where files are those of ArtifactMetadata, targets are those of         *)
(* DependencyTargets, and keys holds the scalar keys that are present.     *)
(* Requirements are those of DependencyRules; "url" is the operator of a   *)
(* direct reference.  Two spellings of one requirement or extra are equal. *)
(***************************************************************************)
EXTENDS ArtifactMetadata

\* The keys are read one at a time, whatever they hold.
IsTable(table) ==
    /\ table.requirements \in Seq(AllRequirements)
    /\ table.extras \in Seq(STRING)
    /\ table.files \in Seq(AllFiles)
    /\ table.targets \in Seq(AllTargets)

(***************************************************************************)
(* What the table lists                                                    *)
(***************************************************************************)
DocumentRefused(setup) == setup.document # "table"

RequirementRefused(r, kind) ==
    \/ r.op = "url"
    \/ Cardinality(r.extras) > Limits.extras
    \/ kind = "application" /\ r.op # "eq"

RequirementsRefused(table) ==
    \/ Len(table.requirements) > Limits.requirements
    \/ ~IsInjective(table.requirements)
    \/ \E r \in ToSet(table.requirements) : RequirementRefused(r, table.kind)

ExtrasRefused(extras) == Len(extras) > Limits.extras \/ ~IsInjective(extras)

\* Two entries that lead to one file are only noticed when it is inspected.
MetadataRefused(files) ==
    \/ Len(files) > Limits.files
    \/ ~IsInjective([n \in DOMAIN files |-> files[n].written])

TargetsRefused(targets) ==
    \/ targets = <<>> \/ Len(targets) > Limits.targets
    \/ \E t \in ToSet(targets) : ~Coherent(t)
    \/ ~IsInjective([n \in DOMAIN targets |-> targets[n].name])

InputsRefused(table) ==
    \/ table.kind \notin {"application", "library"}
    \/ RequirementsRefused(table) \/ ExtrasRefused(table.extras)
    \/ MetadataRefused(table.files) \/ TargetsRefused(table.targets)
    \/ table.requirements = <<>> /\ table.files = <<>>

(***************************************************************************)
(* Options before keys before defaults                                     *)
(***************************************************************************)
Said(f, key, default) == IF key \in DOMAIN f THEN f[key] ELSE default

Control(setup, key, default) ==
    Said(setup.options, key, Said(setup.table.keys, key, default))

Network(setup) == Control(setup, "network", FALSE)
Resolve(setup) == Control(setup, "resolve", FALSE)

\* The URL is judged when it is present, with or without network.
UrlRefused(keys) == Said(keys, "url", "plain") # "plain"

ControlsRefused(setup) ==
    LET keys == setup.table.keys
    IN  \/ Control(setup, "timeout", 30) \notin 1..86400
        \/ Said(keys, "resolver", "uv") # "uv"
        \/ UrlRefused(keys)
        \/ Network(setup) /\ "url" \notin DOMAIN keys

\* What has to be there for what was asked.
RelationsRefused(setup) ==
    LET table == setup.table
    IN  \/ Resolve(setup) /\ table.requirements = <<>>
        \/ Resolve(setup) /\ ~Network(setup) /\ table.files = <<>>
        \/ ~Resolve(setup) /\ table.files = <<>>

(***************************************************************************)
(* The marker evaluations a report may need                                *)
(***************************************************************************)
MarkerUnits(reqs, extras) ==
    Cardinality(reqs)
    + Cardinality({r \in reqs : r.when # "always"})
        * (IF extras = {} THEN 0 ELSE Cardinality(extras) - 1)

Passes(resolve) == IF resolve THEN 2 ELSE 1

MarkersRefused(setup) ==
    Len(setup.table.targets) * Passes(Resolve(setup))
      * MarkerUnits(ToSet(setup.table.requirements), ToSet(setup.table.extras))
    > Limits.markers

SetupRefused(setup) ==
    \/ DocumentRefused(setup)
    \/ InputsRefused(setup.table) \/ ControlsRefused(setup)
    \/ RelationsRefused(setup) \/ MarkersRefused(setup)

\* The configuration of the report of one target.
CaseOf(setup, target) ==
    [kind |-> setup.table.kind, network |-> Network(setup), resolve |-> Resolve(setup),
     roots |-> ToSet(setup.table.requirements), extras |-> ToSet(setup.table.extras),
     files |-> setup.table.files,
     targets |-> Len(setup.table.targets), target |-> target,
     builtin |-> setup.builtin, clash |-> setup.clash]

NoCase ==
    [kind |-> "library", network |-> FALSE, resolve |-> FALSE, roots |-> {}, extras |-> {},
     files |-> <<>>, targets |-> 0, target |-> [name |-> ""], builtin |-> FALSE, clash |-> FALSE]
=============================================================================
