---------------------------- MODULE AtomicOutput ----------------------------
(***************************************************************************)
(* Output replacement: src/pyahead/output.py on the directory chains of    *)
(* src/pyahead/_fs/chain.py.  Concurrent calls of write_text_atomic for    *)
(* one destination, while directories on its path are moved, a cleaner     *)
(* removes temporary files, writers are interrupted or killed and the      *)
(* machine stops.                                                          *)
(*                                                                         *)
(* A writer that was given a root pins one descriptor per directory and    *)
(* works beneath the innermost; one that was not follows the path again in *)
(* every call.  A random name is either in use in the directory it is      *)
(* drawn for, which the code must notice, or new: no other repetition of   *)
(* 64 random bits is considered.                                           *)
(***************************************************************************)
EXTENDS Naturals, Sequences

CONSTANTS
  Writers,        \* the calls of write_text_atomic
  Pinned,         \* those that name a trusted root
  Dirs,           \* directories
  Level,          \* their position on the path: 1 is the root itself
  Depth,          \* position of the directory that holds the file
  Tokens,         \* random names
  Attempts,       \* _TEMPORARY_ATTEMPTS
  MaxChanges,     \* bound: changes other programs make to the file system
  MaxInterrupts   \* bound: SIGINTs

ASSUME OutputAssumption ==
  /\ Pinned \subseteq Writers
  /\ Depth \in Nat \ {0} /\ Level \in [Dirs -> 1..Depth]
  /\ Attempts \in Nat \ {0}
  /\ MaxChanges \in Nat /\ MaxInterrupts \in Nat
  /\ "old" \notin Writers /\ "nothing" \notin Writers
  /\ "dest" \notin Tokens
  /\ "top" \notin Dirs /\ "absent" \notin Dirs

VARIABLES
  bind,       \* the directory that each directory's name on the path is bound to
  entry,      \* the files in each directory
  content,    \* how much of its text each writer's file holds, and how safely
  pc,         \* where each writer is
  chain,      \* DirectoryChain.descriptors
  seen,       \* the directory the last lstat found
  checked,    \* positions of the chain the validation in progress has passed
  draws,      \* temporary names already refused
  temp,       \* the name of the temporary file, "dest" while there is none
  tracked,    \* writers whose finally clause has a temporary file to remove
  used,       \* names drawn so far
  changes,    \* changes by other programs so far
  interrupts, \* SIGINTs so far
  left,       \* history: directories that were moved off the path
  restored,   \* history: one of them was moved back
  published,  \* history: writers whose file replaced the destination
  visible,    \* history: those that did so where the path led at that moment
  spoiled     \* history: writers kept from validating or cleaning up after themselves

world == <<bind, changes, left, restored>>
store == <<entry, content, used>>
pins == <<chain, seen, checked>>
named == <<draws, temp, tracked, spoiled>>
history == <<published, visible>>
vars == <<world, store, pins, named, history, pc, interrupts>>

Old == "old"
Nothing == "nothing"
Names == Tokens \cup {"dest"}

\* What the requested path leads to, one position after another.
Parent ==
  LET Reach[i \in 0..Depth] ==
        IF i = 0 THEN "top"
        ELSE IF Reach[i - 1] = "absent" THEN "absent" ELSE bind[Reach[i - 1]]
  IN  Reach[Depth]

\* The directory a writer's names are looked up in, and what it finds there.
Where(w) == IF w \in Pinned THEN chain[w][Depth] ELSE Parent
Found(w, name) == IF Where(w) = "absent" THEN Nothing ELSE entry[Where(w)][name]

\* A directory is bound in one place, one position further from the top.
Bindings ==
  {b \in [Dirs \cup {"top"} -> Dirs \cup {"absent"}] :
     \A x \in DOMAIN b : b[x] # "absent" =>
       /\ Level[b[x]] = (IF x = "top" THEN 1 ELSE Level[x] + 1)
       /\ \A y \in DOMAIN b : b[x] = b[y] => x = y}

Init ==
  /\ bind \in Bindings /\ Parent # "absent"
  /\ entry = [d \in Dirs |-> [n \in Names |-> IF n = "dest" THEN Old ELSE Nothing]]
  /\ content = [w \in Writers |-> "none"]
  /\ pc = [w \in Writers |-> IF w \in Pinned THEN "open" ELSE "create"]
  /\ chain = [w \in Writers |-> <<>>]
  /\ seen = [w \in Writers |-> "absent"]
  /\ checked = [w \in Writers |-> 0] /\ draws = [w \in Writers |-> 0]
  /\ temp = [w \in Writers |-> "dest"] /\ tracked = {} /\ used = {}
  /\ changes = 0 /\ interrupts = 0
  /\ left = {} /\ restored = FALSE
  /\ published = {} /\ visible = {} /\ spoiled = {}

-----------------------------------------------------------------------------
(* Control of one writer.                                                   *)

Goto(w, label) == pc' = [pc EXCEPT ![w] = label]

\* An exception runs the finally clause, which has something to do once the
\* temporary file is known to it.
Raise(w) == Goto(w, IF w \in tracked THEN "cleanup" ELSE "failed")

Active(w) == pc[w] \notin {"ok", "failed", "dead"}

-----------------------------------------------------------------------------
(* open_directory_chain: lstat a name, open it, compare.                    *)

Outer(w) == IF chain[w] = <<>> THEN "top" ELSE chain[w][Len(chain[w])]

LookUp(w) ==
  /\ pc[w] = "open"
  /\ seen' = [seen EXCEPT ![w] = bind[Outer(w)]]
  /\ IF bind[Outer(w)] = "absent" THEN Raise(w) ELSE Goto(w, "opening")
  /\ UNCHANGED <<world, store, chain, checked, named, history, interrupts>>

OpenNext(w) ==
  /\ pc[w] = "opening"
  /\ IF bind[Outer(w)] = seen[w]
     THEN /\ chain' = [chain EXCEPT ![w] = Append(@, seen[w])]
          /\ Goto(w, IF Len(chain[w]) + 1 = Depth THEN "check_opened" ELSE "open")
     ELSE Raise(w) /\ UNCHANGED chain
  /\ UNCHANGED <<world, store, seen, checked, named, history, interrupts>>

\* _validate_chain, one position of changed_binding at a time.
Checks == {"check_opened", "check_before", "check_written", "check_replaced"}
AfterCheck(c) == CASE c = "check_opened"   -> "check_before"
                   [] c = "check_before"   -> "create"
                   [] c = "check_written"  -> "check_temp"
                   [] c = "check_replaced" -> "ok"

Holder(w, i) == IF i = 1 THEN "top" ELSE chain[w][i - 1]
Holds(w, i) == bind[Holder(w, i)] = chain[w][i]

Validate(w) ==
  /\ pc[w] \in Checks
  /\ LET i == checked[w] + 1
     IN  IF ~Holds(w, i) THEN Raise(w) /\ UNCHANGED checked
         ELSE IF i < Depth THEN checked' = [checked EXCEPT ![w] = i] /\ UNCHANGED pc
         ELSE checked' = [checked EXCEPT ![w] = 0] /\ Goto(w, AfterCheck(pc[w]))
  /\ UNCHANGED <<world, store, chain, seen, named, history, interrupts>>

-----------------------------------------------------------------------------
(* The temporary file and the replacement.                                  *)

\* _create_temporary_at, or mkstemp: a name that exists is refused (O_EXCL).
CreateTemporary(w) ==
  /\ pc[w] = "create" /\ Where(w) # "absent"
  /\ \E t \in Tokens \ used :
       /\ entry' = [entry EXCEPT ![Where(w)][t] = w]
       /\ used' = used \cup {t}
       /\ temp' = [temp EXCEPT ![w] = t]
  /\ content' = [content EXCEPT ![w] = "part"]
  /\ Goto(w, "created")
  /\ UNCHANGED <<world, pins, draws, tracked, spoiled, history, interrupts>>

RefuseName(w) ==
  /\ pc[w] = "create" /\ Where(w) # "absent"
  /\ \E t \in Tokens : entry[Where(w)][t] # Nothing
  /\ draws' = [draws EXCEPT ![w] = @ + 1]
  /\ IF draws[w] + 1 = Attempts THEN Raise(w) ELSE UNCHANGED pc
  /\ UNCHANGED <<world, store, pins, temp, tracked, spoiled, history, interrupts>>

\* The name and the status of the new file reach the variables of finally.
Track(w) ==
  /\ pc[w] = "created"
  /\ tracked' = tracked \cup {w}
  /\ Goto(w, "write")
  /\ UNCHANGED <<world, store, pins, draws, temp, spoiled, history, interrupts>>

WriteText(w) ==
  /\ pc[w] = "write"
  /\ content' = [content EXCEPT ![w] = "whole"]
  /\ Goto(w, "sync")
  /\ UNCHANGED <<world, entry, used, pins, named, history, interrupts>>

\* Mutant: the text is left to the file system's own time.
SkipSync(w) ==
  /\ pc[w] = "sync"
  /\ Goto(w, IF w \in Pinned THEN "check_written" ELSE "check_temp")
  /\ UNCHANGED <<world, store, pins, named, history, interrupts>>

Sync(w) ==
  /\ pc[w] = "sync"
  /\ content' = [content EXCEPT ![w] = "synced"]
  /\ Goto(w, IF w \in Pinned THEN "check_written" ELSE "check_temp")
  /\ UNCHANGED <<world, entry, used, pins, named, history, interrupts>>

\* _validate_temporary_at, _matching_path_entry: the name still is that file.
CheckTemporary(w) ==
  /\ pc[w] = "check_temp"
  /\ IF Found(w, temp[w]) = w THEN Goto(w, "replace") ELSE Raise(w)
  /\ UNCHANGED <<world, store, pins, named, history, interrupts>>

\* Mutant: the replacement is trusted and the chain not looked at again.
ReplaceUnverified(w) ==
  /\ pc[w] = "replace" /\ Found(w, temp[w]) # Nothing
  /\ entry' = [entry EXCEPT ![Where(w)] = [@ EXCEPT !["dest"] = Found(w, temp[w]),
                                                    ![temp[w]] = Nothing]]
  /\ tracked' = tracked \ {w}
  /\ published' = published \cup {w}
  /\ visible' = IF Where(w) = Parent THEN visible \cup {w} ELSE visible
  /\ Goto(w, "ok")
  /\ UNCHANGED <<world, content, used, pins, draws, temp, spoiled, interrupts>>

\* Mutant: something that may fail follows the replacement.
ReplaceThenFail(w) ==
  /\ pc[w] = "replace" /\ Found(w, temp[w]) # Nothing
  /\ entry' = [entry EXCEPT ![Where(w)] = [@ EXCEPT !["dest"] = Found(w, temp[w]),
                                                    ![temp[w]] = Nothing]]
  /\ tracked' = tracked \ {w}
  /\ published' = published \cup {w}
  /\ visible' = IF Where(w) = Parent THEN visible \cup {w} ELSE visible
  /\ \E label \in {"failed", IF w \in Pinned THEN "check_replaced" ELSE "ok"} : Goto(w, label)
  /\ UNCHANGED <<world, content, used, pins, draws, temp, spoiled, interrupts>>

Replace(w) ==
  /\ pc[w] = "replace" /\ Found(w, temp[w]) # Nothing
  /\ entry' = [entry EXCEPT ![Where(w)] = [@ EXCEPT !["dest"] = Found(w, temp[w]),
                                                    ![temp[w]] = Nothing]]
  /\ tracked' = tracked \ {w}
  /\ published' = published \cup {w}
  /\ visible' = IF Where(w) = Parent THEN visible \cup {w} ELSE visible
  /\ Goto(w, IF w \in Pinned THEN "check_replaced" ELSE "returning")
  /\ UNCHANGED <<world, content, used, pins, draws, temp, spoiled, interrupts>>

\* A writer without a chain has nothing left to validate.
Return(w) ==
  /\ pc[w] = "returning"
  /\ Goto(w, "ok")
  /\ UNCHANGED <<world, store, pins, named, history, interrupts>>

\* An operating-system call fails, a lookup in a missing directory among them.
\* When it is the fstat of the new file, finally never learns its name.
CallFails(w) ==
  /\ pc[w] \in {"open", "opening", "create", "created", "write", "sync", "check_temp", "replace"}
             \cup Checks
  /\ Raise(w)
  /\ spoiled' = IF pc[w] \in {"created", "check_replaced"} THEN spoiled \cup {w} ELSE spoiled
  /\ UNCHANGED <<world, store, pins, draws, temp, tracked, history, interrupts>>

-----------------------------------------------------------------------------
(* The finally clause.                                                      *)

\* Mutant: only the exceptions after the replacement are cleaned up.
ForgetTemporary(w) ==
  /\ pc[w] = "cleanup"
  /\ Goto(w, "failed")
  /\ UNCHANGED <<world, store, pins, named, history, interrupts>>

MatchTemporary(w) ==
  /\ pc[w] = "cleanup"
  /\ Goto(w, IF Found(w, temp[w]) = w THEN "unlink" ELSE "failed")
  /\ UNCHANGED <<world, store, pins, named, history, interrupts>>

Unlink(w) ==
  /\ pc[w] = "unlink"
  /\ entry' = IF Found(w, temp[w]) = Nothing THEN entry
              ELSE [entry EXCEPT ![Where(w)][temp[w]] = Nothing]
  /\ Goto(w, "failed")
  /\ UNCHANGED <<world, content, used, pins, named, history, interrupts>>

\* suppress(OSError).
CleanupFails(w) ==
  /\ pc[w] \in {"cleanup", "unlink"}
  /\ spoiled' = spoiled \cup {w}
  /\ Goto(w, "failed")
  /\ UNCHANGED <<world, store, pins, draws, temp, tracked, history, interrupts>>

\* KeyboardInterrupt: from the body to its finally clause, from there out.
Interrupt(w) ==
  /\ Active(w) /\ interrupts < MaxInterrupts
  /\ interrupts' = interrupts + 1
  /\ IF pc[w] \in {"cleanup", "unlink"} THEN Goto(w, "failed") ELSE Raise(w)
  /\ spoiled' = IF pc[w] \in {"created", "check_replaced", "returning", "cleanup", "unlink"}
                THEN spoiled \cup {w} ELSE spoiled
  /\ UNCHANGED <<world, store, pins, draws, temp, tracked, history>>

WriterStep(w) ==
  \/ LookUp(w) \/ OpenNext(w) \/ Validate(w)
  \/ CreateTemporary(w) \/ RefuseName(w) \/ Track(w)
  \/ WriteText(w) \/ Sync(w) \/ CheckTemporary(w) \/ Replace(w) \/ Return(w)
  \/ CallFails(w) \/ MatchTemporary(w) \/ Unlink(w) \/ CleanupFails(w) \/ Interrupt(w)

-----------------------------------------------------------------------------
(* The rest of the machine.                                                 *)

\* A directory is moved away, and another, or none, takes its name.
Rebind(x) ==
  /\ changes < MaxChanges /\ changes' = changes + 1
  /\ \E y \in Dirs \cup {"absent"} :
       /\ y # bind[x]
       /\ bind' = [bind EXCEPT ![x] = y]
       /\ bind' \in Bindings
       /\ restored' = (restored \/ y \in left)
  /\ left' = left \cup ({bind[x]} \ {"absent"})
  /\ UNCHANGED <<store, pins, named, history, pc, interrupts>>

RemoveTemporary(d, t) ==
  /\ changes < MaxChanges /\ changes' = changes + 1
  /\ entry[d][t] # Nothing
  /\ entry' = [entry EXCEPT ![d][t] = Nothing]
  /\ UNCHANGED <<bind, left, restored, content, used, pins, named, history, pc, interrupts>>

Kill(w) ==
  /\ Active(w)
  /\ Goto(w, "dead")
  /\ UNCHANGED <<world, store, pins, named, history, interrupts>>

\* Text that was not synchronized may not have reached the disk.  A rename that
\* had not either leaves the file of an earlier state behind.
PowerLoss ==
  /\ \E w \in Writers : Active(w)
  /\ pc' = [w \in Writers |-> IF Active(w) THEN "dead" ELSE pc[w]]
  /\ content' = [w \in Writers |-> IF content[w] = "whole" THEN "part" ELSE content[w]]
  /\ UNCHANGED <<world, entry, used, pins, named, history, interrupts>>

Next ==
  \/ \E w \in Writers : WriterStep(w) \/ Kill(w)
  \/ \E x \in Dirs \cup {"top"} : Rebind(x)
  \/ \E d \in Dirs, t \in Tokens : RemoveTemporary(d, t)
  \/ PowerLoss

Spec == Init /\ [][Next]_vars

-----------------------------------------------------------------------------
(* Properties.                                                              *)

Labels == Checks \cup {"open", "opening", "create", "created", "write", "sync", "check_temp",
                       "replace", "returning", "cleanup", "unlink", "ok", "failed", "dead"}

\* Every variable keeps to the values the code gives it; a chain never grows
\* beyond the requested path, and a validation never beyond its chain.
TypeOK ==
  /\ bind \in Bindings /\ left \subseteq Dirs /\ restored \in BOOLEAN
  /\ changes \in 0..MaxChanges /\ interrupts \in 0..MaxInterrupts
  /\ entry \in [Dirs -> [Names -> Writers \cup {Old, Nothing}]]
  /\ content \in [Writers -> {"none", "part", "whole", "synced"}]
  /\ used \subseteq Tokens
  /\ pc \in [Writers -> Labels]
  /\ chain \in [Writers -> Seq(Dirs)] /\ \A w \in Writers : Len(chain[w]) <= Depth
  /\ seen \in [Writers -> Dirs \cup {"absent"}]
  /\ checked \in [Writers -> 0..Depth - 1] /\ draws \in [Writers -> 0..Attempts]
  /\ temp \in [Writers -> Names]
  /\ tracked \subseteq Writers /\ spoiled \subseteq Writers
  /\ published \subseteq Writers /\ visible \subseteq published

\* A pinned write that reports success replaced the destination the requested
\* path led to at that moment: its second validation tells (_write_pinned_atomic).
\* A directory that was moved away and back again can hide from the validation.
SuccessIsVisible ==
  \A w \in Pinned : pc[w] = "ok" /\ ~restored => w \in visible

\* A pinned write that fails leaves nothing of its own at the requested path,
\* also when it fails after the replacement, as long as it could finish the
\* validation that follows it (_write_pinned_atomic).
FailureIsInvisible ==
  \A w \in Pinned \ spoiled :
    pc[w] = "failed" /\ ~restored /\ Parent # "absent" => entry[Parent]["dest"] # w

\* A write that ends, either way, leaves no temporary file behind (the finally
\* clauses), unless the clause was kept from its work; one that follows the
\* path anew in every call may lose its file with a directory on the path.
NoLitter ==
  \A w \in Writers :
    /\ pc[w] \in {"ok", "failed"} /\ w \notin spoiled
    /\ w \in Pinned \/ left = {}
    => \A d \in Dirs, t \in Tokens : entry[d][t] # w

Text(f) == IF f = Old \/ (f \in Writers /\ content[f] \in {"whole", "synced"}) THEN f ELSE "torn"

Result(w) ==
  CASE pc[w] \in {"failed", "dead"} -> "failed"
    [] pc[w] = "ok" -> "ok"
    [] OTHER -> IF w \in published THEN "published" ELSE "pending"

Store == INSTANCE OutputStore WITH
  value <- [d \in Dirs |-> Text(entry[d]["dest"])],
  result <- [w \in Writers |-> Result(w)]

\* Whatever happens, each directory's output file holds the whole text of one
\* write or its earlier text: write_text_atomic implements OutputStore.
AtomicStore == Store!Spec
=============================================================================
