------------------------- MODULE MCWarningEvidence -------------------------
(***************************************************************************)
(* A small instance of WarningEvidence: two artifact paths, two sessions,  *)
(* five warnings, and every bound small enough to be reached.              *)
(***************************************************************************)
EXTENDS WarningEvidence

MCPaths == 1..2

Record(kind, phase, line, names, text, rendered) ==
    [kind |-> kind, phase |-> phase, file |-> IF line = 0 THEN "none" ELSE "a", line |-> line,
     names |-> names, text |-> text, rendered |-> rendered]

\* The configuration's three warnings fill the record bound and must be cut
\* by one to fit the byte bound; the first runtest warning fills the text
\* bound; the last is no deprecation.
MCRecords == <<
    Record("deprecation", "config", 2, {"asyncore", "rule1"}, 1, 3),
    Record("pending", "config", 0, {"imp"}, 1, 3),
    Record("pending", "config", 5, {"imp"}, 1, 2),
    Record("deprecation", "runtest", 2, {"asyncore"}, 4, 5),
    Record("pending", "runtest", 4, {"imp"}, 1, 4),
    Record("other", "runtest", 2, {"imp"}, 1, 2) >>

MCEarly == {{}, {1, 2, 3}}

MCEnvironments == {[implementation |-> "cpython", minor |-> 12], [implementation |-> "pypy", minor |-> 12]}

MCLimits == [envelope |-> 10, bytes |-> 17, text |-> 4, records |-> 3, artifacts |-> 2,
             totalBytes |-> 32, totalWarnings |-> 3, checks |-> 5, relationships |-> 4]

Removed(v) == {[from |-> 11, to |-> v - 1, state |-> "deprecated"], [from |-> v, to |-> 14, state |-> "removed"]}

Finding(id, from, to, subject, states, suppressed) ==
    [fingerprint |-> id, rule |-> IF id = 1 THEN "rule1" ELSE "other", subject |-> subject,
     last |-> subject, file |-> "a", from |-> from, to |-> to, states |-> states, suppressed |-> suppressed]

Scan(findings, policy, show) == [findings |-> findings, policy |-> policy, showSuppressed |-> show]

\* One finding; two that share a line and a name; nested regions of which the
\* outer one ends last; regions on both sides of the median; a suppressed one;
\* one removed before the observed Python, and more than the bounds allow.
MCScans == {
    Scan({Finding(1, 1, 2, "asyncore", Removed(13), FALSE)}, 11..13, FALSE),
    Scan({Finding(1, 1, 2, "asyncore", Removed(13), FALSE), Finding(2, 2, 3, "asyncore", Removed(12), FALSE)},
         11..13, FALSE),
    Scan({Finding(1, 1, 7, "x", Removed(13), FALSE), Finding(2, 4, 4, "imp", Removed(13), FALSE),
          Finding(3, 2, 2, "y", Removed(13), FALSE), Finding(4, 6, 7, "imp", Removed(13), TRUE)},
         11..13, TRUE),
    Scan({Finding(2, 1, 2, "asyncore", Removed(13), TRUE), Finding(3, 4, 5, "imp", Removed(12), FALSE)},
         11..13, FALSE),
    Scan({Finding(2, 2, 2, "asyncore", Removed(13), FALSE), Finding(3, 4, 5, "imp", Removed(13), FALSE),
          Finding(4, 1, 1, "imp", Removed(13), FALSE)}, {13}, FALSE),
    Scan({Finding(i, 1, 4, "z", Removed(13), FALSE) : i \in 2..4}, 11..13, FALSE)}

MCSelections == {<<1>>, <<1, 2>>, <<2, 1>>, <<1, 1>>, <<1, 2, 1>>}

\* Documents of another job: one in another layout, one that says the same thing
\* twice, and others that the reader must refuse.
Said(w, n) == [warning |-> w, occurrences |-> n]
Body(warnings, commit, minor) ==
    [warnings |-> warnings, complete |-> TRUE, dropped |-> 0, commit |-> commit,
     env |-> [implementation |-> "cpython", minor |-> minor]]
Copied(body) == [form |-> "json", padding |-> 0, body |-> body]
Foreign == Copied(Body(<<Said(4, 1)>>, 2, 12))

MCDelivered ==
    {Foreign, [Foreign EXCEPT !.padding = 1], [Foreign EXCEPT !.padding = 3],
     [Foreign EXCEPT !.form = "syntax"], [Foreign EXCEPT !.form = "repeated member"], [Foreign EXCEPT !.form = "other shape"],
     [Foreign EXCEPT !.body.dropped = 1], [Foreign EXCEPT !.body.commit = NoCommit],
     [Foreign EXCEPT !.body.complete = FALSE], [Foreign EXCEPT !.body.env.minor = 0],
     Copied(Body(<<Said(3, 1), Said(2, 1), Said(3, 2)>>, 1, 12)),
     Copied(Body(<<Said(3, 2), Said(3, 2)>>, 1, 11)),
     Copied(Body(<<Said(3, 0)>>, 1, 12)), Copied(Body(<<Said(6, 1)>>, 1, 12)),
     Copied(Body(<<Said(3, 1), Said(3, 1), Said(3, 1), Said(3, 1)>>, 1, 12))}

MCMaxSessions == 2
MCMaxRaised == 2
MCMaxToggles == 2
MCMaxCommit == 2
=============================================================================
