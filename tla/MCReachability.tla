--------------------------- MODULE MCReachability ---------------------------
(* Three target versions with two micro versions each.                       *)
EXTENDS Reachability

Cmp(shape, op, literal) ==
  [kind |-> "compare", shape |-> shape, op |-> op, literal |-> literal, left |-> TRUE]
Flipped(shape, op, literal) == [Cmp(shape, op, literal) EXCEPT !.left = FALSE]
Typing == [kind |-> "typing"]
Flag == [kind |-> "other", holds |-> {i \in Interpreter(0..2, 0..1) : i.micro = 1}]
Not(n) == [kind |-> "not", arg |-> n]
And(m, n) == [kind |-> "and", arg |-> m, arg2 |-> n]
Or(m, n) == [kind |-> "or", arg |-> m, arg2 |-> n]

From1 == Cmp("unsliced", ">=", <<3, 1>>)

\* Every form of guard for the first statement of a module.
AllTests ==
  { <<From1>>,
    <<Cmp("unsliced", "<=", <<3, 1>>)>>,
    <<Flipped("unsliced", "<", <<3, 1>>)>>,
    <<Cmp("unsliced", "==", <<3, 1>>)>>,
    <<Cmp("minor-slice", "==", <<3, 1>>)>>,
    <<Cmp("minor-slice", "<=", <<3, 0>>)>>,
    <<Cmp("unsliced", ">", <<3, 1, 1>>)>>,
    <<Cmp("patch-slice", "<", <<3, 1, 1>>)>>,
    <<Cmp("major-index", ">=", <<3>>)>>,
    <<Cmp("unsliced", "<", <<3>>)>>,
    <<Typing>>,
    <<Typing, Not(1)>>,
    <<Typing, From1, Or(1, 2)>>,
    <<Flag>>,
    <<From1, Flag, And(1, 2)>>,
    <<Cmp("minor-slice", "==", <<3, 1>>), Flag, Or(1, 2), Not(3)>> }

\* Combinations that depend on what surrounds them for the others.
InnerTests ==
  { <<Cmp("unsliced", "==", <<3, 1>>)>>,
    <<Typing>>,
    <<Typing, From1, Or(1, 2)>>,
    <<From1, Flag, And(1, 2)>> }

MCTests == [n \in 0..2 |-> IF n = 0 THEN AllTests ELSE InnerTests]

MCSince == [name \in {"old", "new", "taken"} |-> IF name = "new" THEN 1 ELSE 0]
MCUncertain == [name \in {"old", "new", "taken"} |-> IF name = "new" THEN {2} ELSE {}]
MCBodies == {{}, {"old", "new"}, {"taken"}, {"old", "odd"}}
=============================================================================
