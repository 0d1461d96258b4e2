------------------------- MODULE DependencyTargets -------------------------
(***************************************************************************)
(* Environments a report is made for (dependencies/_targets.py): whether   *)
(* the markers and the tags that a configuration declares describe one     *)
(* interpreter on one platform, and whether uv can be told of it.          *)
(*                                                                         *)
(* A target is a record                                                    *)
(*   [name, implementation, label, spelled, minor, aligned, markers,       *)
(*    detailed, platform, tags]                                            *)
(* where spelled says that the names of the implementation have their      *)
(* canonical spelling, aligned that its version is Python's, detailed that *)
(* platform-release or platform-version is declared, markers is [os, sys,  *)
(* machine, system], and platform is the resolver platform [family,        *)
(* machine, glibc], with glibc 0 where it names no manylinux policy.       *)
(* A tag is [python, minor, abi, family, machine, glibc]: "py" with minor  *)
(* 0 is py3, abi is a pair, and glibc 0 is the bare linux tag.             *)
(***************************************************************************)
EXTENDS Integers

Families ==
    [linux |-> [os |-> "posix", sys |-> "linux", system |-> "Linux"],
     macosx |-> [os |-> "posix", sys |-> "darwin", system |-> "Darwin"],
     win |-> [os |-> "nt", sys |-> "win32", system |-> "Windows"]]

AllTags ==
    [python : STRING, minor : Nat, abi : STRING \X Nat, family : STRING, machine : STRING,
     glibc : Nat]

AllTargets ==
    [name : STRING, implementation : STRING, label : STRING, spelled : BOOLEAN, minor : Nat,
     aligned : BOOLEAN, detailed : BOOLEAN, tags : SUBSET AllTags,
     markers : [os : STRING, sys : STRING, machine : STRING, system : STRING],
     platform : [family : STRING, machine : STRING, glibc : Nat]]

Represented(platform) == platform.family \in DOMAIN Families

MarkersOf(platform) ==
    LET family == Families[platform.family]
    IN  [os |-> family.os, sys |-> family.sys, machine |-> platform.machine,
         system |-> family.system]

(***************************************************************************)
(* Tags                                                                    *)
(***************************************************************************)
NoAbi == <<"none", 0>>
StableAbi == <<"abi3", 0>>

GenericTag(tag, target) == tag.python = "py" /\ tag.minor \in {0, target.minor}

CPythonTag(tag, target) ==
    /\ tag.python = "cp"
    /\ \/ tag.minor = target.minor /\ tag.abi \in {NoAbi, StableAbi, <<"cp", tag.minor>>}
       \/ tag.minor \in 2..target.minor /\ tag.abi = StableAbi

PyPyTag(tag, target) ==
    tag.python = "pp" /\ tag.minor = target.minor /\ tag.abi \in {NoAbi, <<"pp", tag.minor>>}

\* A generic tag of the interpreter never falls through to the other forms.
InterpreterTag(tag, target) ==
    IF GenericTag(tag, target) THEN tag.abi = NoAbi
    ELSE \/ target.implementation = "cpython" /\ CPythonTag(tag, target)
         \/ target.implementation = "pypy" /\ PyPyTag(tag, target)

LinuxTag(tag, platform) ==
    tag.machine = platform.machine /\ (platform.glibc = 0 \/ tag.glibc \in 1..platform.glibc)

PlatformTag(tag, platform) ==
    \/ tag.family = "any"
    \/ /\ tag.family = platform.family
       /\ CASE platform.family = "linux" -> LinuxTag(tag, platform)
            [] platform.family = "macosx" -> tag.machine \in {platform.machine, "universal2"}
            [] platform.family = "win" -> tag.machine = platform.machine

(***************************************************************************)
(* Coherence, and what uv represents faithfully                            *)
(***************************************************************************)
Implementations == {<<"cpython", "CPython">>, <<"pypy", "PyPy">>}

ImplementationHolds(target) ==
    /\ target.spelled
    /\ (\E pair \in Implementations :
            pair[1] = target.implementation \/ pair[2] = target.label)
       => <<target.implementation, target.label>> \in Implementations
    /\ target.implementation = "cpython" => target.aligned

TagsHold(target) ==
    \A tag \in target.tags : InterpreterTag(tag, target) /\ PlatformTag(tag, target.platform)

Coherent(target) ==
    /\ ImplementationHolds(target) /\ Represented(target.platform)
    /\ target.markers = MarkersOf(target.platform)
    /\ TagsHold(target)

Canonical(target) ==
    /\ target.implementation = "cpython" /\ target.label = "CPython" /\ target.aligned
    /\ ~target.detailed
    /\ Represented(target.platform) /\ target.markers.sys # "win32"
    /\ target.markers = MarkersOf(target.platform)
    /\ TagsHold(target)
=============================================================================
