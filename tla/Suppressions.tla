---------------------------- MODULE Suppressions ----------------------------
(***************************************************************************)
(* Suppression of what is found in a file: the comments that name a rule,  *)
(* the logical statements they stand in, and the patterns of the           *)
(* configuration.  src/pyahead/analysis/suppressions.py.                   *)
(*                                                                         *)
(* A comment is [line, form, ids]; a region is [first, start, last, end],  *)
(* its lines and its columns; an ignore is [matches, ids], whether its     *)
(* pattern matches the file.                                               *)
(***************************************************************************)
EXTENDS Integers, Sequences, FiniteSets

\* The rules, with their identifiers: [id, ids].  No two share an identifier.
CONSTANT RuleNames

\* _canonical_rule_ids.
Known(identifier) == \E r \in RuleNames : identifier \in r.ids
Canonical(identifier) == (CHOOSE r \in RuleNames : identifier \in r.ids).id

-----------------------------------------------------------------------------
(* collect_inline_suppressions.                                             *)

WellFormed(comment) == comment.form = "directive" /\ comment.ids # {}

\* Comments that are not directives at all are passed over.
Directives(comments) ==
  UNION {{[rule |-> Canonical(id), line |-> comments[n].line, comment |-> n] :
            id \in {x \in comments[n].ids : Known(x)}} :
           n \in {k \in 1..Len(comments) : WellFormed(comments[k])}}

CommentDiagnostics(comments) ==
  UNION {IF WellFormed(comments[n])
         THEN {[code |-> "PYA3001", comment |-> n] : id \in {x \in comments[n].ids : ~Known(x)}}
         ELSE IF comments[n].form = "text" THEN {}
         ELSE {[code |-> "PYA3002", comment |-> n]} : n \in 1..Len(comments)}

-----------------------------------------------------------------------------
(* bind_inline_suppressions.                                                *)

Spans(region) == region.last - region.first

\* The order of the heap of active regions.
Shorter(r, s) ==
  \/ Spans(r) < Spans(s)
  \/ Spans(r) = Spans(s) /\ (r.first < s.first \/ (r.first = s.first /\ r.start <= s.start))

Unbound == [first |-> 0, start |-> 0, last |-> 0, end |-> 0]

\* Mutant: regions that ended before the comment stay active.
EndedToo(regions, directive) ==
  LET active == {r \in regions : r.first <= directive.line} IN
  IF active = {} THEN Unbound ELSE CHOOSE r \in active : \A s \in active : Shorter(r, s)

\* The shortest region that started and has not ended: the sweep pops from the heap
\* what ended before the line of the comment.
Bound(regions, directive) ==
  LET active == {r \in regions : r.first <= directive.line /\ directive.line <= r.last} IN
  IF active = {} THEN Unbound ELSE CHOOSE r \in active : \A s \in active : Shorter(r, s)

-----------------------------------------------------------------------------
(* matching_directive and suppression_for_finding.                          *)

StartsBy(r, s) == r.first < s.first \/ (r.first = s.first /\ r.start <= s.start)
EndsBy(r, s) == r.last < s.last \/ (r.last = s.last /\ r.end <= s.end)

\* The regions of a file that hold a directive for a rule.
Held(regions, directives, rule) ==
  {Bound(regions, d) : d \in {x \in directives : x.rule = rule}} \ {Unbound}

\* The only region looked at: the last one that starts by the finding.
Owner(regions, directives, rule, found) ==
  LET by == {r \in Held(regions, directives, rule) : StartsBy(r, found)} IN
  IF by = {} THEN Unbound ELSE CHOOSE r \in by : \A s \in by : StartsBy(s, r)

MutedInline(regions, directives, rule, found) ==
  LET owner == Owner(regions, directives, rule, found) IN
  owner # Unbound /\ StartsBy(owner, found) /\ EndsBy(found, owner)

\* resolve_per_file_ignores and matching_ignore: the first that matches; 0 for none.
IgnoreFor(ignores, rule) ==
  LET S == {n \in 1..Len(ignores) :
              ignores[n].matches /\ \E id \in ignores[n].ids : Known(id) /\ Canonical(id) = rule}
  IN  IF S = {} THEN 0 ELSE CHOOSE n \in S : \A m \in S : n <= m

IgnoreDiagnostics(ignores) ==
  UNION {{[code |-> "PYA3001", pattern |-> n] : id \in {x \in ignores[n].ids : ~Known(x)}} :
           n \in 1..Len(ignores)}

\* An inline directive goes first.
Suppression(regions, directives, ignores, rule, found) ==
  IF MutedInline(regions, directives, rule, found) THEN "inline"
  ELSE IF IgnoreFor(ignores, rule) # 0 THEN "per-file"
  ELSE "none"
=============================================================================
