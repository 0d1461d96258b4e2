----------------------------- MODULE MCFindings -----------------------------
(* Three target versions, a removed symbol, a removed module and a symbol    *)
(* that is only deprecated, in two files.                                    *)
EXTENDS Findings

Both == {"runtime", "typing"}
Deprecation(v) == [python |-> v, kind |-> "deprecated", impact |-> "deprecated"]
Removal(v) == [python |-> v, kind |-> "removed", impact |-> "breaking"]

MCRules ==
  [r \in {"symbol", "module", "aged"} |->
     [contexts |-> IF r = "symbol" THEN {"runtime"} ELSE Both,
      events |-> CASE r = "symbol" -> {Deprecation(1), Removal(2)}
                   [] r = "module" -> {Removal(2)}
                   [] r = "aged"   -> {Deprecation(2)},
      module |-> r = "module"]]

Use(confidence, versions, contexts) ==
  [kind |-> "use", confidence |-> confidence, versions |-> versions, contexts |-> contexts,
   unknown |-> {}, links |-> {}]
Import(versions, unknown, links) ==
  [kind |-> "import", confidence |-> "high", versions |-> versions, contexts |-> {"runtime"},
   unknown |-> unknown, links |-> links]

MCRaw ==
  [s \in {"plain", "vague", "guarded", "typed", "import", "bare", "library", "aged",
          "insert", "append"} |->
     CASE s = "plain"   -> {Use("high", {1, 2, 3}, Both)}
       [] s = "vague"   -> {Use("medium", {1, 2, 3}, Both)}
       [] s = "guarded" -> {Use("high", {1, 3}, {"typing"}), Use("medium", {1, 3}, Both),
                            Import({2, 3}, {}, {})}
       [] s = "typed"   -> {Use("high", {1, 2, 3}, {"typing"})}
       [] s = "import"  -> {Import({2, 3}, {3}, {"plain", "guarded", "typed"})}
       [] s = "bare"    -> {Import({2, 3}, {}, {"vague"}), Import({2, 3}, {}, {"guarded"})}
       [] s = "library" -> {Use("high", {1, 2, 3}, Both)}
       [] s = "aged"    -> {Use("high", {1, 2, 3}, Both)}
       [] s \in {"insert", "append"} -> {}]

MCPath == [s \in DOMAIN MCRaw |-> IF s \in {"library", "insert", "append", "aged"} THEN "n" ELSE "m"]
MCRuleOf ==
  [s \in DOMAIN MCRaw |-> CASE s = "library" -> "module" [] s = "aged" -> "aged"
                            [] OTHER -> "symbol"]

MCMutates ==
  [s \in DOMAIN MCRaw |->
     CASE s = "insert" -> {[operation |-> "insert", versions |-> {2}]}
       [] s = "append" -> {[operation |-> "append", versions |-> {3}]}
       [] OTHER -> {}]

MCReleases ==
  {[minor |-> 1, status |-> "stable"], [minor |-> 2, status |-> "stable"],
   [minor |-> 3, status |-> "prerelease"], [minor |-> 4, status |-> "planned"]}

Clause(op, minor, patch) == [op |-> op, minor |-> minor, patch |-> patch]
Document(declaration, options) ==
  [state |-> "parsed", requires |-> <<declaration>>, options |-> options, malformed |-> {}]

Started(ancestors, options, flags) ==
  [ancestors |-> [n \in 1..Len(ancestors) |-> [pyproject |-> ancestors[n], git |-> n > 1]],
   root |-> 0, config |-> "", other |-> Absent, options |-> options, flags |-> flags]

Table == [failOn |-> "any", showUnscheduled |-> FALSE]
Project1 == Document({Clause(">=", 1, Any)}, Table)
\* Some patch of the second minor version is admitted, but not the first ones.
Patched == Document({Clause(">=", 2, 0), Clause("!=", 2, 0), Clause("!=", 2, 1), Clause("<", 4, Any)}, <<>>)
Chosen == Document({}, [baseline |-> 3, minimum |-> "medium", showUnscheduled |-> FALSE,
                        ignores |-> {[pattern |-> "n", ids |-> {"module"}]}])

MCSetups ==
  {Started(<<Project1>>, <<>>, {}), Started(<<Project1>>, [minimum |-> "medium"], {}),
   Started(<<Absent, Project1>>, [horizon |-> 2], {}),
   Started(<<Chosen, Project1>>, [ignores |-> {[pattern |-> "n", ids |-> {"aged"}]}], {}),
   [Started(<<Patched>>, [minimum |-> "medium"], {"allow-incomplete"}) EXCEPT
      !.config = "other", !.other = [Absent EXCEPT !.state = "parsed", !.options = [failOn |-> "any"]]],
   [Started(<<Project1>>, <<>>, {}) EXCEPT !.config = "other"]}

MCInitial ==
  {<<"import", "plain", "vague">>,
   <<"bare", "vague", "typed", "guarded">>,
   <<"insert", "library", "import", "guarded">>,
   <<"append", "library", "aged">>}
=============================================================================
