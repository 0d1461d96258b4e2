----------------------------- MODULE OutputStore -----------------------------
(***************************************************************************)
(* What write_text_atomic promises whoever opens an output file: in every  *)
(* directory the file holds the whole text of one write or the text it had *)
(* before, each write takes effect at most once and at one instant, and a  *)
(* write reports success only after it took effect.                        *)
(***************************************************************************)
CONSTANTS
  Writers,  \* the calls of write_text_atomic
  Dirs      \* the directories that may hold the destination

VARIABLES
  value,    \* the text a reader of the destination finds in each directory
  result    \* how far each write is

Old == "old"

Init ==
  /\ value = [d \in Dirs |-> Old]
  /\ result = [w \in Writers |-> "pending"]

Publish(w) ==
  /\ result[w] = "pending"
  /\ result' = [result EXCEPT ![w] = "published"]
  /\ \E d \in Dirs : value' = [value EXCEPT ![d] = w]

Succeed(w) ==
  /\ result[w] = "published"
  /\ result' = [result EXCEPT ![w] = "ok"]
  /\ UNCHANGED value

\* Writes fail one by one, or together when the machine stops.
Fail(S) ==
  /\ \A w \in S : result[w] \in {"pending", "published"}
  /\ result' = [w \in Writers |-> IF w \in S THEN "failed" ELSE result[w]]
  /\ UNCHANGED value

Next ==
  \/ \E w \in Writers : Publish(w) \/ Succeed(w)
  \/ \E S \in (SUBSET Writers) \ {{}} : Fail(S)

Spec == Init /\ [][Next]_<<value, result>>
=============================================================================
