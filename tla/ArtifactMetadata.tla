-------------------------- MODULE ArtifactMetadata --------------------------
(***************************************************************************)
(* What the inspection reads in one configured file: the archive           *)
(* (dependencies/_archives.py), the core metadata in it, and the agreement *)
(* of both with the file's name (dependencies/_metadata.py).               *)
(*                                                                         *)
(* A file is [written, path, content, label, archive, core, wheel]: the    *)
(* configured entry, the path it leads to, the digest of its bytes, and    *)
(*   label    its name: [form, valid, name, version, tags], with form      *)
(*            "wheel", "zip" and "tar" (source distributions) or "other"   *)
(*   archive  [sound, members] with members [is, name, version, top, size] *)
(*            that are "core", "wheel", "record", "sparse" or "other",     *)
(*            beneath a directory named for a name and a version           *)
(*   core     [sound, size, name, version, schema, python, needs, extras,  *)
(*            dynamic]: each header with the sequence of its values        *)
(*   wheel    the WHEEL file: [sound, version, purelib, tags], where each  *)
(*            Tag header is the set of tags it expands to                  *)
(* Sizes are in units.  A number 0, a text "" and an op "invalid" stand    *)
(* for values that do not parse.  A tar that is not sound has no end.      *)
(***************************************************************************)
EXTENDS DependencyRules, DependencyTargets, Sequences, FiniteSetsExt, SequencesExt

CONSTANT Limits  \* bounds on requirements, extras, files, targets, markers and archives

ASSUME LimitsAssumption == {Limits.members, Limits.archive, Limits.metadata} \subseteq Nat

AllMembers == [is : STRING, name : Nat, version : Nat, top : BOOLEAN, size : Nat]

AllFiles ==
    [written : STRING, path : STRING, content : STRING,
     label : [form : STRING, valid : BOOLEAN, name : Nat, version : Nat, tags : SUBSET AllTags],
     archive : [sound : BOOLEAN, members : Seq(AllMembers)],
     core : [sound : BOOLEAN, size : Nat, name : Seq(Nat), version : Seq(Nat), schema : Seq(Nat),
             python : Seq(STRING), needs : Seq(AllRequirements), extras : Seq(STRING),
             dynamic : Seq(STRING)],
     wheel : [sound : BOOLEAN, version : Seq(Nat), purelib : Seq(BOOLEAN),
              tags : Seq(SUBSET AllTags)]]

(***************************************************************************)
(* The archive                                                             *)
(***************************************************************************)
Positions(archive, is) == {n \in DOMAIN archive.members : archive.members[n].is = is}

Sizes(members) == FoldLeft(LAMBDA sum, m : sum + m.size, 0, members)

\* The central directory is judged before any entry is.
DirectoryHolds(archive) ==
    /\ archive.sound
    /\ Len(archive.members) <= Limits.members /\ Sizes(archive.members) <= Limits.archive

\* Every member has a header of one unit.
Blocks(archive, n) == n + Sizes(SubSeq(archive.members, 1, n))

\* The members the preflight gets past.
Passed(archive) ==
    Max({n \in 0..Len(archive.members) :
           /\ n <= Limits.members /\ Blocks(archive, n) <= Limits.archive
           /\ \A m \in Positions(archive, "sparse") : m > n})

Ended(archive) == Passed(archive) = Len(archive.members)

TarHolds(archive) ==
    /\ archive.sound /\ Ended(archive)
    /\ Blocks(archive, Passed(archive)) + 1 <= Limits.archive

\* The members the second pass stops at: a second or oversized PKG-INFO.
Stops(archive) ==
    {n \in Positions(archive, "core") :
        archive.members[n].size > Limits.metadata \/ \E m \in Positions(archive, "core") : m < n}

\* A tar is expanded twice, and to the header or the end it fails at.
TarCost(archive) ==
    Blocks(archive, Passed(archive))
    + (IF archive.sound \/ ~Ended(archive) THEN 1 ELSE 0)
    + (IF ~TarHolds(archive) THEN 0
       ELSE 1 + Blocks(archive, IF Stops(archive) = {} THEN Len(archive.members)
                                ELSE Min(Stops(archive)) - 1))

OneMember(archive, S) ==
    Cardinality(S) = 1 /\ \A n \in S : archive.members[n].size <= Limits.metadata

SizeOf(archive, S) == archive.members[CHOOSE n \in S : TRUE].size

PayloadHolds(file) ==
    CASE file.label.form = "other" -> file.core.size <= Limits.metadata
      [] file.label.form = "tar"   ->
           TarHolds(file.archive) /\ OneMember(file.archive, Positions(file.archive, "core"))
      [] OTHER ->
           DirectoryHolds(file.archive) /\ OneMember(file.archive, Positions(file.archive, "core"))

PayloadCost(file) ==
    CASE file.label.form = "other" -> 0
      [] file.label.form = "tar"   -> TarCost(file.archive)
      [] OTHER -> IF PayloadHolds(file)
                  THEN SizeOf(file.archive, Positions(file.archive, "core")) ELSE 0

(***************************************************************************)
(* The core metadata                                                       *)
(***************************************************************************)
RequiredHeader(values) == Len(values) = 1 /\ values[1] # 0
OptionalHeader(values) == Len(values) <= 1 /\ values # <<"invalid">>

HeadersHold(core) ==
    /\ core.sound
    /\ RequiredHeader(core.name) /\ RequiredHeader(core.version) /\ RequiredHeader(core.schema)
    /\ OptionalHeader(core.python)

\* Where the entries are charged to the budget, valid or not.
NeedsCounted(core) == HeadersHold(core) /\ Len(core.needs) <= Limits.requirements

NeedsHold(core) ==
    \A r \in ToSet(core.needs) :
        r.op \notin {"invalid", "url"} /\ Cardinality(r.extras) <= Limits.extras

ExtrasHold(core) ==
    Len(core.extras) <= Limits.extras /\ "" \notin ToSet(core.extras) /\ IsInjective(core.extras)

Identifying == {"metadata-version", "name", "version"}

DynamicHolds(core) ==
    ToSet(core.dynamic) \cap (Identifying \cup {""}) = {} /\ IsInjective(core.dynamic)

\* The schemas that are supported, and those that brought the fields.
Schemas == {10, 11, 12, 21, 22, 23, 24}
Since == [python |-> 12, needs |-> 12, extras |-> 21, dynamic |-> 22]

SchemaHolds(core) ==
    /\ core.schema[1] \in Schemas
    /\ \A field \in DOMAIN Since : core[field] # <<>> => core.schema[1] >= Since[field]

CoreHolds(core) ==
    NeedsCounted(core) /\ NeedsHold(core) /\ ExtrasHold(core) /\ DynamicHolds(core) /\ SchemaHolds(core)

(***************************************************************************)
(* The identity of a file, and the structure of a wheel                    *)
(***************************************************************************)
Beside(file, n) ==
    LET member == file.archive.members[n]
    IN  member.top /\ member.name = file.core.name[1] /\ member.version = file.core.version[1]

Identified(file) ==
    \/ file.label.form = "other"
    \/ /\ file.label.valid
       /\ file.label.name = file.core.name[1] /\ file.label.version = file.core.version[1]
       /\ \A n \in Positions(file.archive, "core") : Beside(file, n)

InDistInfo(file, is) == {n \in Positions(file.archive, is) : Beside(file, n)}

StructureFound(file) ==
    /\ OneMember(file.archive, InDistInfo(file, "wheel"))
    /\ Cardinality(InDistInfo(file, "record")) = 1

StructureCost(file) ==
    IF StructureFound(file) THEN SizeOf(file.archive, InDistInfo(file, "wheel")) ELSE 0

Expansions(tags) == FoldLeft(LAMBDA sum, S : sum + Cardinality(S), 0, tags)

WheelTagsHold(wheel) ==
    /\ Len(wheel.tags) \in 1..Limits.tagValues
    /\ {} \notin ToSet(wheel.tags) /\ Expansions(wheel.tags) <= Limits.tags

WheelHolds(wheel) ==
    /\ wheel.sound /\ wheel.version = <<1>>
    /\ Len(wheel.purelib) = 1 /\ wheel.purelib[1] \in BOOLEAN
    /\ WheelTagsHold(wheel)

TagsAgree(file) == UNION ToSet(file.wheel.tags) = file.label.tags

(***************************************************************************)
(* One file, with what is left to expand                                   *)
(***************************************************************************)
IsWheel(file) == file.label.form = "wheel"

PayloadRead(file, left) == PayloadHolds(file) /\ PayloadCost(file) <= left

Established(file, left) ==
    /\ PayloadRead(file, left) /\ CoreHolds(file.core)
    /\ IsWheel(file) => file.core.dynamic = <<>>
    /\ IsWheel(file) => Cardinality(file.label.tags) <= Limits.tags
    /\ Identified(file)

ExpansionOf(file, left) ==
    PayloadCost(file) + (IF IsWheel(file) /\ Established(file, left) THEN StructureCost(file) ELSE 0)

EntriesOf(file, left) ==
    IF PayloadRead(file, left) /\ NeedsCounted(file.core) THEN Len(file.core.needs) ELSE 0

\* The metadata of the file is valid and can be read.
Readable(file, left) ==
    /\ Established(file, left)
    /\ IsWheel(file) => /\ StructureFound(file) /\ ExpansionOf(file, left) <= left
                        /\ WheelHolds(file.wheel) /\ TagsAgree(file)

KindOf(file) ==
    IF IsWheel(file) THEN "wheel" ELSE IF file.label.form = "other" THEN "core-metadata" ELSE "sdist"

StaticSchema == 22
Implicit == {"provides-extra", "requires-dist", "requires-python"}

\* Before its fields could be declared dynamic, any of them may be.
DynamicOf(file) ==
    IF ~IsWheel(file) /\ file.core.schema[1] < StaticSchema THEN Implicit
    ELSE ToSet(file.core.dynamic)

\* The artifact as the target sees it: a wheel fits by one of its tags.
ArtifactOf(file, target) ==
    [id |-> file.content, name |-> file.core.name[1], version |-> file.core.version[1],
     kind |-> KindOf(file), tags |-> IF IsWheel(file) THEN file.label.tags ELSE {},
     fits |-> IsWheel(file) /\ file.label.tags \cap target.tags # {},
     python |-> IF file.core.python = <<>> THEN "none" ELSE file.core.python[1],
     needs |-> ToSet(file.core.needs), extras |-> ToSet(file.core.extras),
     dynamic |-> DynamicOf(file)]
=============================================================================
