-------------------------- MODULE AtomicOutput_proofs --------------------------
(***************************************************************************)
(* What write_text_atomic guarantees for every number of writers,          *)
(* directories and levels, and for any number of moves, interrupts, kills  *)
(* and power losses: it implements OutputStore, a pinned success is        *)
(* visible, a pinned failure is not, and no temporary file stays behind.   *)
(***************************************************************************)
EXTENDS AtomicOutput, FiniteInduction

-----------------------------------------------------------------------------
(* The path.  Parent follows it by recursion over its positions; these      *)
(* lemmas say what that recursion yields, by the least position at which    *)
(* two descriptions of it would differ.                                     *)

Places == Dirs \cup {"top", "absent"}

\* The next position of the path under the bindings b, and the whole path.
Step(b, x) == IF x = "absent" THEN "absent" ELSE b[x]
Follows(b, g, n) == g = [i \in 0..n |-> IF i = 0 THEN "top" ELSE Step(b, g[i - 1])]
Route(b) == CHOOSE g : Follows(b, g, Depth)

LEMMA ParentRoute == Parent = Route(bind)[Depth]
  BY DEF Parent, Route, Follows, Step

LEMMA ParentRoutePrimed == Parent' = Route(bind')[Depth]
  BY DEF Parent, Route, Follows, Step

\* Two paths that follow the same bindings are the same.
LEMMA RouteUnique ==
  ASSUME NEW b, NEW g, NEW h, NEW n \in Nat, Follows(b, g, n), Follows(b, h, n)
  PROVE  g = h
<1> DEFINE Differ == {i \in 0..n : g[i] # h[i]}
<1>1. Differ = {}
  <2> SUFFICES ASSUME Differ # {} PROVE FALSE
    OBVIOUS
  <2>1. PICK m \in Differ : \A k \in Differ : m <= k
    <3>1. Differ \in SUBSET Nat
      OBVIOUS
    <3>2. QED
      BY <3>1, LeastElement
  <2>2. m # 0
    BY <2>1 DEF Follows
  <2>3. m - 1 \in 0..n /\ m - 1 \notin Differ
    BY <2>1, <2>2
  <2>4. QED
    BY <2>1, <2>2, <2>3 DEF Follows
<1>2. QED
  BY <1>1 DEF Follows

\* Whatever the bindings, there is a path, and it stays among the places.
LEMMA RouteExists ==
  ASSUME NEW b \in [Dirs \cup {"top"} -> Dirs \cup {"absent"}], NEW n \in Nat
  PROVE  \E g \in [0..n -> Places] : Follows(b, g, n)
<1> DEFINE Missing == {k \in Nat : ~ \E g \in [0..k -> Places] : Follows(b, g, k)}
<1>1. Missing = {}
  <2> SUFFICES ASSUME Missing # {} PROVE FALSE
    OBVIOUS
  <2>1. PICK m \in Missing : \A k \in Missing : m <= k
    <3>1. Missing \in SUBSET Nat
      OBVIOUS
    <3>2. QED
      BY <3>1, LeastElement
  <2>2. m # 0
    <3>1. [i \in 0..0 |-> "top"] \in [0..0 -> Places] /\ Follows(b, [i \in 0..0 |-> "top"], 0)
      BY DEF Follows, Places
    <3>2. QED
      BY <2>1, <3>1
  <2>3. PICK g \in [0..m - 1 -> Places] : Follows(b, g, m - 1)
    <3>1. m - 1 \in Nat /\ m - 1 \notin Missing
      BY <2>1, <2>2
    <3>2. QED
      BY <3>1
  <2> DEFINE h == [i \in 0..m |-> IF i = m THEN Step(b, g[m - 1]) ELSE g[i]]
  <2>4. g[m - 1] \in Places
    <3>1. m - 1 \in 0..m - 1
      BY <2>1, <2>2
    <3>2. QED
      BY <2>3, <3>1
  <2>5. Step(b, g[m - 1]) \in Places
    BY <2>4 DEF Step, Places
  <2>6. h \in [0..m -> Places]
    BY <2>5
  <2>7. Follows(b, h, m)
    <3>1. ASSUME NEW i \in 0..m PROVE h[i] = IF i = 0 THEN "top" ELSE Step(b, h[i - 1])
      BY <2>2, <2>3 DEF Follows
    <3>2. QED
      BY <3>1 DEF Follows
  <2>8. QED
    BY <2>1, <2>6, <2>7
<1>2. QED
  BY <1>1

LEMMA RouteFollows ==
  ASSUME NEW b \in [Dirs \cup {"top"} -> Dirs \cup {"absent"}]
  PROVE  /\ Follows(b, Route(b), Depth)
         /\ Route(b) \in [0..Depth -> Places]
         /\ Route(b)[0] = "top"
         /\ \A i \in 1..Depth : Route(b)[i] = Step(b, Route(b)[i - 1])
         /\ \A i \in 1..Depth : Route(b)[i] \in Dirs \cup {"absent"}
<1> USE OutputAssumption
<1>1. PICK g \in [0..Depth -> Places] : Follows(b, g, Depth)
  BY RouteExists
<1>2. Follows(b, Route(b), Depth)
  BY <1>1 DEF Route
<1>3. Route(b) = g
  BY <1>1, <1>2, RouteUnique
<1>4. Route(b)[0] = "top" /\ \A i \in 1..Depth : Route(b)[i] = Step(b, Route(b)[i - 1])
  BY <1>2 DEF Follows
<1>5. ASSUME NEW i \in 1..Depth PROVE Route(b)[i] \in Dirs \cup {"absent"}
  <2>1. i - 1 \in 0..Depth /\ g[i - 1] \in Places
    BY <1>1
  <2>2. QED
    BY <1>3, <1>4, <2>1 DEF Step, Places
<1>6. QED
  BY <1>1, <1>2, <1>3, <1>4, <1>5

\* A position that the path reaches shows that it reaches all before it.
LEMMA RouteReaches ==
  ASSUME NEW b \in [Dirs \cup {"top"} -> Dirs \cup {"absent"}], Route(b)[Depth] # "absent",
         NEW i \in 0..Depth
  PROVE  Route(b)[i] # "absent"
<1> USE OutputAssumption
<1> SUFFICES ASSUME Route(b)[i] = "absent" PROVE FALSE
  OBVIOUS
<1> DEFINE Reached == {j \in i..Depth : Route(b)[j] # "absent"}
<1>1. PICK m \in Reached : \A k \in Reached : m <= k
  <2>1. Reached \in SUBSET Nat /\ Depth \in Reached
    OBVIOUS
  <2>2. QED
    BY <2>1, LeastElement
<1>2. m \in 1..Depth /\ m - 1 \in i..Depth /\ m - 1 \notin Reached
  BY <1>1
<1>3. QED
  BY <1>1, <1>2, RouteFollows DEF Step

\* A chain whose every position still holds is the path.
LEMMA ChainIsRoute ==
  ASSUME NEW b \in [Dirs \cup {"top"} -> Dirs \cup {"absent"}],
         NEW c \in [1..Depth -> Dirs],
         \A i \in 1..Depth : b[IF i = 1 THEN "top" ELSE c[i - 1]] = c[i]
  PROVE  Route(b)[Depth] = c[Depth]
<1> USE OutputAssumption
<1> DEFINE g == [i \in 0..Depth |-> IF i = 0 THEN "top" ELSE c[i]]
<1>1. ASSUME NEW i \in 0..Depth PROVE g[i] = IF i = 0 THEN "top" ELSE Step(b, g[i - 1])
  <2>1. CASE i = 0
    BY <2>1
  <2>2. CASE i # 0
    <3>1. i \in 1..Depth /\ i - 1 \in 0..Depth
      BY <2>2
    <3>2. g[i - 1] = (IF i = 1 THEN "top" ELSE c[i - 1]) /\ g[i - 1] # "absent"
      BY <3>1
    <3>3. QED
      BY <3>1, <3>2 DEF Step
  <2>3. QED
    BY <2>1, <2>2
<1>2. Follows(b, g, Depth)
  BY <1>1 DEF Follows
<1>3. Route(b) = g
  BY <1>2, RouteFollows, RouteUnique
<1>4. QED
  BY <1>3

\* Binding a name that was free leaves the path where it was.
LEMMA RouteUnmoved ==
  ASSUME NEW b \in [Dirs \cup {"top"} -> Dirs \cup {"absent"}], Route(b)[Depth] # "absent",
         NEW x, b[x] = "absent", NEW y \in Dirs \cup {"absent"}
  PROVE  Route([b EXCEPT ![x] = y])[Depth] = Route(b)[Depth]
<1> USE OutputAssumption
<1> DEFINE c == [b EXCEPT ![x] = y]
<1>1. c \in [Dirs \cup {"top"} -> Dirs \cup {"absent"}]
  OBVIOUS
<1>2. ASSUME NEW i \in 1..Depth PROVE Route(b)[i] = Step(c, Route(b)[i - 1])
  <2>1. i \in 0..Depth /\ i - 1 \in 0..Depth
    OBVIOUS
  <2>2. Route(b)[i] # "absent" /\ Route(b)[i - 1] # "absent"
    BY <2>1, RouteReaches
  <2>3. Route(b)[i] = b[Route(b)[i - 1]] /\ Route(b)[i - 1] \in Dirs \cup {"top"}
    BY <2>1, <2>2, RouteFollows DEF Step, Places
  <2>4. Route(b)[i - 1] # x
    BY <2>2, <2>3
  <2>5. QED
    BY <2>2, <2>3, <2>4 DEF Step
<1>3. Follows(c, Route(b), Depth)
  <2>1. Route(b) = [i \in 0..Depth |-> Route(b)[i]] /\ Route(b)[0] = "top"
    BY RouteFollows
  <2>2. ASSUME NEW i \in 0..Depth
        PROVE  Route(b)[i] = IF i = 0 THEN "top" ELSE Step(c, Route(b)[i - 1])
    <3>1. i = 0 \/ i \in 1..Depth
      OBVIOUS
    <3> HIDE DEF c
    <3>2. QED
      BY <1>2, <2>1, <3>1
  <2>3. QED
    BY <2>1, <2>2 DEF Follows
<1>4. Route(c) = Route(b)
  BY <1>1, <1>3, RouteFollows, RouteUnique
<1>5. QED
  BY <1>4

\* When the path ends where a chain ends, and each position of the chain either
\* still holds or holds a directory that is bound nowhere, every position holds
\* a directory that is bound.
LEMMA RouteIsChain ==
  ASSUME NEW b \in Bindings, NEW c \in [1..Depth -> Dirs], NEW lost,
         \A x \in DOMAIN b : b[x] \notin lost,
         \A i \in 1..Depth : b[IF i = 1 THEN "top" ELSE c[i - 1]] = c[i] \/ c[i] \in lost,
         Route(b)[Depth] = c[Depth]
  PROVE  \A i \in 1..Depth : c[i] \notin lost
<1> USE OutputAssumption
<1>1. /\ b \in [Dirs \cup {"top"} -> Dirs \cup {"absent"}]
      /\ \A x, y \in Dirs \cup {"top"} : b[x] # "absent" /\ b[x] = b[y] => x = y
      /\ Route(b)[Depth] # "absent"
  BY DEF Bindings
<1>2. ASSUME NEW i \in 1..Depth
      PROVE  /\ Route(b)[i] # "absent" /\ Route(b)[i] = b[Route(b)[i - 1]]
             /\ Route(b)[i - 1] \in Dirs \cup {"top"} /\ Route(b)[i] \notin lost
  <2>1. i \in 0..Depth /\ i - 1 \in 0..Depth
    OBVIOUS
  <2>2. Route(b)[i] # "absent" /\ Route(b)[i - 1] # "absent"
    BY <1>1, <2>1, RouteReaches
  <2>3. Route(b)[i - 1] \in Dirs \cup {"top"}
    BY <1>1, <2>1, <2>2, RouteFollows DEF Places
  <2>4. Route(b)[i] = b[Route(b)[i - 1]]
    BY <1>1, <2>2, RouteFollows DEF Step
  <2>5. QED
    BY <1>1, <2>2, <2>3, <2>4
<1> DEFINE Differ == {k \in 0..Depth - 1 : Route(b)[Depth - k] # c[Depth - k]}
<1>3. Differ = {}
  <2> SUFFICES ASSUME Differ # {} PROVE FALSE
    OBVIOUS
  <2>1. PICK m \in Differ : \A k \in Differ : m <= k
    <3>1. Differ \in SUBSET Nat
      OBVIOUS
    <3>2. QED
      BY <3>1, LeastElement
  <2>2. m \in 0..Depth - 1 /\ Route(b)[Depth - m] # c[Depth - m]
    BY <2>1
  <2>3. m # 0
    BY <2>2
  <2> DEFINE j == Depth - (m - 1)
  <2>4. j \in 1..Depth /\ j # 1 /\ j - 1 = Depth - m /\ j - 1 \in 1..Depth /\ m - 1 \in 0..Depth - 1
    BY <2>2, <2>3
  <2>5. Route(b)[j] = c[j]
    <3>1. m - 1 \notin Differ
      <4>1. ~(m <= m - 1)
        BY <2>2
      <4> HIDE DEF Differ
      <4>2. QED
        BY <2>1, <4>1
    <3>2. QED
      BY <2>4, <3>1
  <2> HIDE DEF j
  <2>6. c[j] \notin lost /\ b[Route(b)[j - 1]] = c[j] /\ Route(b)[j - 1] \in Dirs \cup {"top"}
    BY <1>2, <2>4, <2>5
  <2>7. b[c[j - 1]] = c[j] /\ c[j - 1] \in Dirs
    BY <2>4, <2>6
  <2>8. c[j - 1] = Route(b)[j - 1]
    <3>1. c[j] # "absent" /\ c[j - 1] \in Dirs \cup {"top"} /\ b[c[j - 1]] = b[Route(b)[j - 1]]
      BY <2>4, <2>6, <2>7
    <3>2. QED
      BY <1>1, <2>6, <2>7, <3>1
  <2>9. QED
    BY <2>2, <2>4, <2>8
<1>4. ASSUME NEW i \in 1..Depth PROVE c[i] \notin lost
  <2>1. Depth - i \in 0..Depth - 1 /\ Depth - (Depth - i) = i
    OBVIOUS
  <2>2. c[i] = Route(b)[i]
    BY <1>3, <2>1
  <2>3. QED
    BY <1>2, <2>2
<1>5. QED
  BY <1>4

-----------------------------------------------------------------------------
(* Type correctness, and what each label of a writer says of its variables. *)

Early == {"open", "opening", "check_opened", "check_before", "create"}
Writing == {"write", "sync", "check_written", "check_temp", "replace", "cleanup", "unlink"}
Settled == {"check_replaced", "returning", "ok"}
Over == {"failed", "dead"}

\* The order of write_text_atomic: a pinned writer has its whole chain before
\* it creates a file, finally knows the file from then until it replaces the
\* destination, and the text is synchronized before that.
Control(w) ==
  /\ pc[w] \in {"open", "opening"} => Len(chain[w]) < Depth
  /\ pc[w] \in {"open", "opening"} \cup Checks => w \in Pinned
  /\ pc[w] = "opening" => seen[w] # "absent"
  /\ pc[w] = "returning" => w \notin Pinned
  /\ w \in Pinned /\ pc[w] \notin {"open", "opening"} \cup Over => Len(chain[w]) = Depth
  /\ pc[w] \in Early => draws[w] < Attempts
  /\ pc[w] \notin Checks \cup {"cleanup", "unlink"} \cup Over => checked[w] = 0
  /\ pc[w] \in Early => temp[w] = "dest"
  /\ pc[w] \in {"created"} \cup Writing => temp[w] \in Tokens
  /\ pc[w] \in Early \cup {"created"} \cup Settled => w \notin tracked
  /\ pc[w] \in Writing => w \in tracked
  /\ pc[w] \in Early \cup {"created"} \cup Writing => w \notin published
  /\ pc[w] \in Settled => w \in published
  /\ pc[w] \in {"check_written", "check_temp", "replace"} => content[w] = "synced"

ControlInv == \A w \in Writers : Control(w)
Labelled == TypeOK /\ ControlInv

LEMMA ParentType == bind \in Bindings => Parent \in Dirs \cup {"absent"}
<1>1. bind \in Bindings => bind \in [Dirs \cup {"top"} -> Dirs \cup {"absent"}]
  BY DEF Bindings
<1>2. Depth \in 1..Depth
  BY OutputAssumption
<1>3. QED
  BY <1>1, <1>2, ParentRoute, RouteFollows

\* A writer past the opening of its chain looks its names up in a directory, or
\* where the path is broken.
LEMMA WhereType ==
  ASSUME Labelled, NEW w \in Writers, pc[w] \notin {"open", "opening"} \cup Over
  PROVE  Where(w) \in Dirs \cup {"absent"} /\ (w \in Pinned => Where(w) = chain[w][Depth] /\ Where(w) \in Dirs)
<1>1. CASE w \in Pinned
  <2>1. chain[w] \in Seq(Dirs) /\ Len(chain[w]) = Depth /\ Depth \in 1..Depth
    BY <1>1, OutputAssumption DEF Labelled, TypeOK, ControlInv, Control
  <2>2. QED
    BY <1>1, <2>1 DEF Where
<1>2. CASE w \notin Pinned
  BY <1>2, ParentType DEF Where, Labelled, TypeOK
<1>3. QED
  BY <1>1, <1>2

LEMMA LabelledInit == Init => Labelled
<1> SUFFICES ASSUME Init PROVE Labelled
  OBVIOUS
<1>1. TypeOK
  <2>1. bind \in Bindings /\ left \subseteq Dirs /\ restored \in BOOLEAN
    BY DEF Init
  <2>2. changes \in 0..MaxChanges /\ interrupts \in 0..MaxInterrupts
    BY OutputAssumption DEF Init
  <2>3. /\ used \subseteq Tokens /\ tracked \subseteq Writers /\ spoiled \subseteq Writers
        /\ published \subseteq Writers /\ visible \subseteq published
    BY DEF Init
  <2>4. entry \in [Dirs -> [Names -> Writers \cup {Old, Nothing}]]
    BY DEF Init
  <2>5. /\ content \in [Writers -> {"none", "part", "whole", "synced"}]
        /\ seen \in [Writers -> Dirs \cup {"absent"}]
        /\ checked \in [Writers -> 0..Depth - 1] /\ draws \in [Writers -> 0..Attempts]
        /\ temp \in [Writers -> Names]
    BY OutputAssumption DEF Init, Names
  <2>6. pc \in [Writers -> Labels]
    BY DEF Init, Labels
  <2>7. chain \in [Writers -> Seq(Dirs)] /\ \A w \in Writers : Len(chain[w]) <= Depth
    BY OutputAssumption DEF Init
  <2>8. QED
    BY <2>1, <2>2, <2>3, <2>4, <2>5, <2>6, <2>7 DEF TypeOK
<1>2. ASSUME NEW w \in Writers PROVE Control(w)
  <2>1. /\ pc[w] = IF w \in Pinned THEN "open" ELSE "create"
        /\ chain[w] = <<>> /\ draws[w] = 0 /\ checked[w] = 0 /\ temp[w] = "dest"
        /\ w \notin tracked /\ w \notin published
    BY DEF Init
  <2>2. Len(chain[w]) < Depth /\ draws[w] < Attempts
    BY <2>1, OutputAssumption
  <2>3. QED
    BY <2>1, <2>2 DEF Control, Early, Writing, Settled, Over, Checks
<1>3. QED
  BY <1>1, <1>2 DEF Labelled, ControlInv

\* A step of one writer leaves the variables of the others alone.
LEMMA OthersKeep ==
  ASSUME Labelled, NEW w \in Writers, WriterStep(w) \/ Kill(w), NEW v \in Writers, v # w
  PROVE  /\ pc'[v] = pc[v] /\ chain'[v] = chain[v] /\ seen'[v] = seen[v]
         /\ checked'[v] = checked[v] /\ draws'[v] = draws[v] /\ temp'[v] = temp[v]
         /\ content'[v] = content[v]
         /\ (v \in tracked' <=> v \in tracked) /\ (v \in published' <=> v \in published)
         /\ (v \in visible' <=> v \in visible) /\ (v \in spoiled' <=> v \in spoiled)
<1> USE DEF Goto, Raise, Labelled, TypeOK, world, store, pins, named, history
<1>1. CASE LookUp(w) \/ OpenNext(w) \/ Validate(w)
  BY <1>1 DEF LookUp, OpenNext, Validate
<1>2. CASE CreateTemporary(w) \/ RefuseName(w) \/ Track(w)
  BY <1>2 DEF CreateTemporary, RefuseName, Track
<1>3. CASE WriteText(w) \/ Sync(w) \/ CheckTemporary(w)
  BY <1>3 DEF WriteText, Sync, CheckTemporary
<1>4. CASE Replace(w) \/ Return(w) \/ CallFails(w)
  BY <1>4 DEF Replace, Return, CallFails
<1>5. CASE MatchTemporary(w) \/ Unlink(w) \/ CleanupFails(w) \/ Interrupt(w) \/ Kill(w)
  BY <1>5 DEF MatchTemporary, Unlink, CleanupFails, Interrupt, Kill
<1>6. QED
  BY <1>1, <1>2, <1>3, <1>4, <1>5 DEF WriterStep

LEMMA ControlFrame ==
  ASSUME Labelled, NEW w \in Writers, WriterStep(w) \/ Kill(w), Control(w)'
  PROVE  ControlInv'
<1>1. ASSUME NEW v \in Writers, v # w PROVE Control(v)'
  <2>1. Control(v)
    BY DEF Labelled, ControlInv
  <2>2. QED
    BY <1>1, <2>1, OthersKeep DEF Control
<1>2. QED
  BY <1>1 DEF ControlInv

LEMMA OpeningLabelled ==
  ASSUME Labelled, NEW w \in Writers, LookUp(w) \/ OpenNext(w) \/ Validate(w)
  PROVE  TypeOK' /\ Control(w)'
<1> USE DEF Goto, Raise, Labelled, world, store, pins, named, history
<1>0. Control(w)
  BY DEF ControlInv
<1>1. CASE LookUp(w)
  <2>1. bind[Outer(w)] \in Dirs \cup {"absent"}
    BY <1>0, <1>1 DEF LookUp, TypeOK, Outer, Bindings
  <2>2. TypeOK'
    BY <1>1, <2>1 DEF LookUp, TypeOK, Labels
  <2>3. Control(w)'
    BY <1>0, <1>1 DEF LookUp, Control, TypeOK, Early, Writing, Settled, Over, Checks
  <2>4. QED
    BY <2>2, <2>3
<1>2. CASE OpenNext(w)
  <2>1. chain[w] \in Seq(Dirs) /\ Len(chain[w]) < Depth /\ seen[w] \in Dirs
    BY <1>0, <1>2 DEF OpenNext, Control, TypeOK
  <2> DEFINE longer == Append(chain[w], seen[w])
  <2>2. longer \in Seq(Dirs) /\ Len(longer) = Len(chain[w]) + 1 /\ Len(longer) <= Depth
    BY <2>1, OutputAssumption
  <2>3. chain' = chain \/ chain' = [chain EXCEPT ![w] = longer]
    BY <1>2 DEF OpenNext
  <2>4. pc' \in [Writers -> Labels]
    BY <1>2 DEF OpenNext, TypeOK, Labels, Checks
  <2> HIDE DEF longer
  <2>5. chain' \in [Writers -> Seq(Dirs)] /\ \A v \in Writers : Len(chain'[v]) <= Depth
    <3>1. chain \in [Writers -> Seq(Dirs)] /\ \A v \in Writers : Len(chain[v]) <= Depth
      BY DEF TypeOK
    <3>2. CASE chain' = chain
      BY <3>1, <3>2
    <3>3. CASE chain' = [chain EXCEPT ![w] = longer]
      <4>1. \A v \in Writers : chain'[v] = IF v = w THEN longer ELSE chain[v]
        BY <3>1, <3>3
      <4>2. chain' \in [Writers -> Seq(Dirs)]
        BY <2>2, <3>1, <3>3
      <4>3. QED
        BY <2>2, <3>1, <4>1, <4>2
    <3>4. QED
      BY <2>3, <3>2, <3>3
  <2>6. TypeOK'
    BY <1>2, <2>4, <2>5 DEF OpenNext, TypeOK
  <2>7. Control(w)'
    <3>1. CASE bind[Outer(w)] = seen[w]
      <4>1. /\ chain'[w] = longer /\ pc'[w] = (IF Len(chain[w]) + 1 = Depth THEN "check_opened" ELSE "open")
            /\ pc[w] = "opening" /\ UNCHANGED <<checked, draws, temp, tracked, published, content>>
        BY <1>2, <3>1 DEF OpenNext, TypeOK, longer
      <4>2. Len(longer) = Depth \/ Len(longer) < Depth
        BY <2>2, OutputAssumption
      <4>3. QED
        BY <1>0, <2>2, <4>1, <4>2 DEF Control, Early, Writing, Settled, Over, Checks
    <3>2. CASE bind[Outer(w)] # seen[w]
      BY <1>0, <1>2, <3>2 DEF OpenNext, Control, TypeOK, Early, Writing, Settled, Over, Checks
    <3>3. QED
      BY <3>1, <3>2
  <2>8. QED
    BY <2>6, <2>7
<1>3. CASE Validate(w)
  <2>1. pc[w] \in Checks /\ UNCHANGED <<world, store, chain, seen, named, history, interrupts>>
    BY <1>3 DEF Validate
  <2>2. AfterCheck(pc[w]) \in {"check_before", "create", "check_temp", "ok"}
        /\ AfterCheck(pc[w]) \in Labels
    BY <2>1 DEF AfterCheck, Checks, Labels
  <2>3. CASE ~Holds(w, checked[w] + 1)
    <3>1. checked' = checked /\ pc' = [pc EXCEPT ![w] = IF w \in tracked THEN "cleanup" ELSE "failed"]
      BY <1>3, <2>3 DEF Validate
    <3>2. TypeOK'
      BY <2>1, <3>1 DEF TypeOK, Labels
    <3>3. Control(w)'
      BY <1>0, <2>1, <3>1 DEF Control, TypeOK, Early, Writing, Settled, Over, Checks
    <3>4. QED
      BY <3>2, <3>3
  <2>4. CASE Holds(w, checked[w] + 1) /\ checked[w] + 1 < Depth
    <3>1. checked' = [checked EXCEPT ![w] = checked[w] + 1] /\ pc' = pc
      BY <1>3, <2>4 DEF Validate
    <3>2. checked[w] + 1 \in 0..Depth - 1
      BY <2>4, OutputAssumption DEF TypeOK
    <3>3. TypeOK'
      BY <2>1, <3>1, <3>2 DEF TypeOK
    <3>4. Control(w)'
      BY <1>0, <2>1, <3>1 DEF Control, TypeOK
    <3>5. QED
      BY <3>3, <3>4
  <2>5. CASE Holds(w, checked[w] + 1) /\ ~(checked[w] + 1 < Depth)
    <3>1. checked' = [checked EXCEPT ![w] = 0] /\ pc' = [pc EXCEPT ![w] = AfterCheck(pc[w])]
      BY <1>3, <2>5 DEF Validate
    <3>2. 0 \in 0..Depth - 1
      BY OutputAssumption
    <3>3. TypeOK'
      BY <2>1, <2>2, <3>1, <3>2 DEF TypeOK
    <3>4. Control(w)'
      <4>1. pc'[w] = AfterCheck(pc[w]) /\ checked'[w] = 0
        BY <3>1 DEF TypeOK
      <4>2. QED
        BY <1>0, <2>1, <4>1 DEF Control, Early, Writing, Settled, Over, Checks, AfterCheck
    <3>5. QED
      BY <3>3, <3>4
  <2>6. QED
    BY <2>3, <2>4, <2>5
<1>4. QED
  BY <1>1, <1>2, <1>3

LEMMA CreatingLabelled ==
  ASSUME Labelled, NEW w \in Writers, CreateTemporary(w) \/ RefuseName(w) \/ Track(w)
  PROVE  TypeOK' /\ Control(w)'
<1> USE DEF Goto, Raise, Labelled, world, store, pins, named, history
<1>0. Control(w)
  BY DEF ControlInv
<1>1. CASE CreateTemporary(w)
  <2>1. PICK t \in Tokens \ used : /\ entry' = [entry EXCEPT ![Where(w)][t] = w]
                                  /\ used' = used \cup {t}
                                  /\ temp' = [temp EXCEPT ![w] = t]
    BY <1>1 DEF CreateTemporary
  <2>2. entry' \in [Dirs -> [Names -> Writers \cup {Old, Nothing}]]
    BY <2>1 DEF TypeOK
  <2>3. TypeOK'
    BY <1>1, <2>1, <2>2 DEF CreateTemporary, TypeOK, Labels, Names
  <2>4. Control(w)'
    BY <1>0, <1>1, <2>1 DEF CreateTemporary, Control, TypeOK, Early, Writing, Settled, Over, Checks
  <2>5. QED
    BY <2>3, <2>4
<1>2. CASE RefuseName(w)
  <2>1. draws[w] < Attempts /\ w \notin tracked
    BY <1>0, <1>2 DEF RefuseName, Control, Early
  <2>2. draws[w] + 1 \in 0..Attempts
    BY <2>1, OutputAssumption DEF TypeOK
  <2>3. TypeOK'
    BY <1>2, <2>1, <2>2 DEF RefuseName, TypeOK, Labels
  <2>4. Control(w)'
    BY <1>0, <1>2, <2>1, <2>2, OutputAssumption
       DEF RefuseName, Control, TypeOK, Early, Writing, Settled, Over, Checks
  <2>5. QED
    BY <2>3, <2>4
<1>3. CASE Track(w)
  <2>1. TypeOK'
    BY <1>3 DEF Track, TypeOK, Labels
  <2>2. Control(w)'
    BY <1>0, <1>3 DEF Track, Control, TypeOK, Early, Writing, Settled, Over, Checks
  <2>3. QED
    BY <2>1, <2>2
<1>4. QED
  BY <1>1, <1>2, <1>3

LEMMA WritingLabelled ==
  ASSUME Labelled, NEW w \in Writers,
         WriteText(w) \/ Sync(w) \/ CheckTemporary(w) \/ Replace(w) \/ Return(w)
  PROVE  TypeOK' /\ Control(w)'
<1> USE DEF Goto, Raise, Labelled, world, store, pins, named, history
<1>0. Control(w)
  BY DEF ControlInv
<1>1. CASE WriteText(w) \/ Sync(w)
  <2>1. TypeOK'
    BY <1>1 DEF WriteText, Sync, TypeOK, Labels, Checks
  <2>2. Control(w)'
    BY <1>0, <1>1 DEF WriteText, Sync, Control, TypeOK, Early, Writing, Settled, Over, Checks
  <2>3. QED
    BY <2>1, <2>2
<1>2. CASE CheckTemporary(w) \/ Return(w)
  <2>1. TypeOK'
    BY <1>2 DEF CheckTemporary, Return, TypeOK, Labels
  <2>2. Control(w)'
    BY <1>0, <1>2 DEF CheckTemporary, Return, Control, TypeOK, Early, Writing, Settled, Over, Checks
  <2>3. QED
    BY <2>1, <2>2
<1>3. CASE Replace(w)
  <2> DEFINE d == Where(w)
             f == Found(w, temp[w])
  <2>1. entry' \in [Dirs -> [Names -> Writers \cup {Old, Nothing}]]
    <3>1. entry' = [entry EXCEPT ![d] = [@ EXCEPT !["dest"] = f, ![temp[w]] = Nothing]]
      BY <1>3 DEF Replace
    <3>2. temp[w] \in Names
      BY DEF TypeOK
    <3>3. d \in Dirs => f \in Writers \cup {Old, Nothing}
      BY <3>2 DEF Found, TypeOK
    <3> HIDE DEF d, f
    <3>4. entry \in [Dirs -> [Names -> Writers \cup {Old, Nothing}]]
      BY DEF TypeOK
    <3>5. CASE d \notin Dirs
      BY <3>1, <3>4, <3>5
    <3>6. CASE d \in Dirs
      <4>1. [entry[d] EXCEPT !["dest"] = f, ![temp[w]] = Nothing]
              \in [Names -> Writers \cup {Old, Nothing}]
        BY <3>2, <3>3, <3>4, <3>6
      <4>2. QED
        BY <3>1, <3>4, <3>6, <4>1
    <3>7. QED
      BY <3>5, <3>6
  <2>2. /\ UNCHANGED <<world, content, used, pins, draws, temp, spoiled, interrupts>>
        /\ tracked' = tracked \ {w} /\ published' = published \cup {w}
        /\ visible' \subseteq visible \cup {w}
        /\ pc' = [pc EXCEPT ![w] = IF w \in Pinned THEN "check_replaced" ELSE "returning"]
        /\ pc[w] = "replace"
    BY <1>3 DEF Replace
  <2>3. TypeOK'
    BY <2>1, <2>2 DEF TypeOK, Labels, Checks
  <2>4. Control(w)'
    BY <1>0, <2>2 DEF Control, TypeOK, Early, Writing, Settled, Over, Checks
  <2>5. QED
    BY <2>3, <2>4
<1>4. QED
  BY <1>1, <1>2, <1>3

LEMMA EndingLabelled ==
  ASSUME Labelled, NEW w \in Writers,
         \/ CallFails(w) \/ MatchTemporary(w) \/ Unlink(w) \/ CleanupFails(w)
         \/ Interrupt(w) \/ Kill(w)
  PROVE  TypeOK' /\ Control(w)'
<1> USE DEF Goto, Raise, Labelled, world, store, pins, named, history
<1>0. Control(w)
  BY DEF ControlInv
<1>1. CASE CallFails(w)
  <2>1. TypeOK'
    BY <1>1 DEF CallFails, TypeOK, Labels
  <2>2. Control(w)'
    BY <1>0, <1>1 DEF CallFails, Control, TypeOK, Early, Writing, Settled, Over, Checks
  <2>3. QED
    BY <2>1, <2>2
<1>2. CASE MatchTemporary(w) \/ CleanupFails(w)
  <2>1. TypeOK'
    BY <1>2 DEF MatchTemporary, CleanupFails, TypeOK, Labels
  <2>2. Control(w)'
    BY <1>0, <1>2 DEF MatchTemporary, CleanupFails, Control, TypeOK, Early, Writing, Settled, Over, Checks
  <2>3. QED
    BY <2>1, <2>2
<1>3. CASE Unlink(w)
  <2>1. entry' = entry \/ entry' = [entry EXCEPT ![Where(w)][temp[w]] = Nothing]
    BY <1>3 DEF Unlink
  <2>2. entry \in [Dirs -> [Names -> Writers \cup {Old, Nothing}]]
        /\ Nothing \in Writers \cup {Old, Nothing}
    BY DEF TypeOK
  <2>3. entry' \in [Dirs -> [Names -> Writers \cup {Old, Nothing}]]
    <3> HIDE DEF Nothing, Old
    <3>1. QED
      BY <2>1, <2>2
  <2>4. TypeOK'
    BY <1>3, <2>3 DEF Unlink, TypeOK, Labels
  <2>5. Control(w)'
    BY <1>0, <1>3 DEF Unlink, Control, TypeOK, Early, Writing, Settled, Over, Checks
  <2>6. QED
    BY <2>4, <2>5
<1>4. CASE Interrupt(w)
  <2>1. interrupts + 1 \in 0..MaxInterrupts
    BY <1>4, OutputAssumption DEF Interrupt, TypeOK
  <2>2. /\ UNCHANGED <<world, store, pins, draws, temp, tracked, history>>
        /\ interrupts' = interrupts + 1 /\ spoiled' \subseteq spoiled \cup {w}
        /\ \/ pc' = [pc EXCEPT ![w] = "failed"]
           \/ pc' = [pc EXCEPT ![w] = "cleanup"] /\ w \in tracked
                /\ pc[w] \notin {"cleanup", "unlink", "ok", "failed", "dead"}
    BY <1>4 DEF Interrupt, Active
  <2>3. TypeOK'
    BY <2>1, <2>2 DEF TypeOK, Labels
  <2>4. Control(w)'
    <3>1. w \in tracked /\ pc'[w] # "failed" => pc[w] \in Writing
      BY <1>0, <2>2 DEF Control, TypeOK, Labels, Early, Writing, Settled, Over, Checks
    <3>2. QED
      BY <1>0, <2>2, <3>1 DEF Control, TypeOK, Early, Writing, Settled, Over, Checks
  <2>5. QED
    BY <2>3, <2>4
<1>5. CASE Kill(w)
  <2>1. TypeOK'
    BY <1>5 DEF Kill, TypeOK, Labels
  <2>2. Control(w)'
    BY <1>0, <1>5 DEF Kill, Control, TypeOK, Early, Writing, Settled, Over, Checks
  <2>3. QED
    BY <2>1, <2>2
<1>6. QED
  BY <1>1, <1>2, <1>3, <1>4, <1>5

\* What other programs and the machine do to the file system.
LEMMA WorldLabelled ==
  ASSUME Labelled,
         \/ \E x \in Dirs \cup {"top"} : Rebind(x)
         \/ \E d \in Dirs, t \in Tokens : RemoveTemporary(d, t)
         \/ PowerLoss
  PROVE  Labelled'
<1> USE DEF Labelled, world, store, pins, named, history
<1>1. CASE \E x \in Dirs \cup {"top"} : Rebind(x)
  <2>1. PICK x \in Dirs \cup {"top"} : Rebind(x)
    BY <1>1
  <2>2. bind[x] \in Dirs \cup {"absent"}
    BY DEF TypeOK, Bindings
  <2>3. /\ bind' \in Bindings /\ left' = left \cup ({bind[x]} \ {"absent"})
        /\ changes' = changes + 1 /\ changes < MaxChanges
        /\ \E y : restored' = (restored \/ y \in left)
        /\ UNCHANGED <<store, pins, named, history, pc, interrupts>>
    BY <2>1 DEF Rebind
  <2>4. changes' \in 0..MaxChanges
    BY <2>3, OutputAssumption DEF TypeOK
  <2>5. restored' \in BOOLEAN /\ left' \subseteq Dirs
    BY <2>2, <2>3 DEF TypeOK
  <2>6. TypeOK'
    BY <2>3, <2>4, <2>5 DEF TypeOK
  <2>7. ControlInv'
    BY <2>3 DEF ControlInv, Control
  <2>8. QED
    BY <2>6, <2>7
<1>2. CASE \E d \in Dirs, t \in Tokens : RemoveTemporary(d, t)
  <2>1. PICK d \in Dirs, t \in Tokens : RemoveTemporary(d, t)
    BY <1>2
  <2>2. changes' \in 0..MaxChanges
    BY <2>1, OutputAssumption DEF RemoveTemporary, TypeOK
  <2>3. entry' \in [Dirs -> [Names -> Writers \cup {Old, Nothing}]]
    BY <2>1 DEF RemoveTemporary, TypeOK
  <2>4. TypeOK'
    BY <2>1, <2>2, <2>3 DEF RemoveTemporary, TypeOK
  <2>5. ControlInv'
    BY <2>1 DEF RemoveTemporary, ControlInv, Control
  <2>6. QED
    BY <2>4, <2>5
<1>3. CASE PowerLoss
  <2>1. TypeOK'
    BY <1>3 DEF PowerLoss, TypeOK, Labels
  <2>2. ASSUME NEW w \in Writers PROVE Control(w)'
    <3>1. Control(w) /\ pc'[w] \in {"ok", "failed", "dead"} /\ (pc'[w] # "dead" => pc'[w] = pc[w])
      BY <1>3 DEF PowerLoss, Active, ControlInv, TypeOK
    <3>2. UNCHANGED <<chain, seen, draws, checked, temp, tracked, published>>
      BY <1>3 DEF PowerLoss
    <3>3. QED
      BY <3>1, <3>2 DEF Control, Early, Writing, Settled, Over, Checks
  <2>3. QED
    BY <2>1, <2>2 DEF ControlInv
<1>4. QED
  BY <1>1, <1>2, <1>3

LEMMA LabelledStep == Labelled /\ [Next]_vars => Labelled'
<1> SUFFICES ASSUME Labelled, [Next]_vars PROVE Labelled'
  OBVIOUS
<1>1. ASSUME NEW w \in Writers, WriterStep(w) \/ Kill(w) PROVE Labelled'
  <2>1. TypeOK' /\ Control(w)'
    BY <1>1, OpeningLabelled, CreatingLabelled, WritingLabelled, EndingLabelled DEF WriterStep
  <2>2. QED
    BY <1>1, <2>1, ControlFrame DEF Labelled
<1>2. CASE UNCHANGED vars
  BY <1>2 DEF vars, world, store, pins, named, history, Labelled, TypeOK, ControlInv, Control
<1>3. QED
  BY <1>1, <1>2, WorldLabelled DEF Next

\* Every variable keeps its type, no chain grows beyond the path, and each
\* label of write_text_atomic implies what the code has done by then.
THEOREM OutputTypes == Spec => []TypeOK
<1>1. Spec => []Labelled
  BY LabelledInit, LabelledStep, PTL DEF Spec
<1>2. QED
  BY <1>1, PTL DEF Labelled

-----------------------------------------------------------------------------
(* Whose file a directory entry is.                                         *)

\* A random name leads only to the file it was drawn for, no two writers hold
\* the same name, and the destination holds its earlier file or one that was
\* synchronized before it was put there.
OwnerInv ==
  /\ \A d \in Dirs, t \in Tokens, w \in Writers : entry[d][t] = w => temp[w] = t
  /\ \A d \in Dirs, t \in Tokens : entry[d][t] # Old
  /\ \A d \in Dirs : entry[d]["dest"] # Nothing
  /\ \A d \in Dirs, w \in Writers :
       entry[d]["dest"] = w => w \in published /\ content[w] = "synced"
  /\ \A v, w \in Writers : temp[v] = temp[w] /\ temp[w] # "dest" => v = w
  /\ \A w \in Writers : temp[w] # "dest" => temp[w] \in used

LEMMA OwnerInit == Init => OwnerInv
  BY OutputAssumption DEF Init, OwnerInv, Names, Old, Nothing

\* Nothing is disturbed by a step that at most removes temporary files.
LEMMA OwnerFrame ==
  ASSUME Labelled, OwnerInv, UNCHANGED <<temp, used, published>>,
         \A d \in Dirs : entry'[d]["dest"] = entry[d]["dest"],
         \A d \in Dirs, t \in Tokens : entry'[d][t] = entry[d][t] \/ entry'[d][t] = Nothing,
         \A w \in published : content[w] = "synced" => content'[w] = "synced"
  PROVE  OwnerInv'
<1>1. Nothing \notin Writers /\ Nothing # Old
  BY OutputAssumption DEF Nothing, Old
<1>2. QED
  BY <1>1 DEF OwnerInv

\* What a writer's step other than CreateTemporary and Replace leaves alone.
LEMMA WriterKeeps ==
  ASSUME Labelled, NEW w \in Writers, WriterStep(w) \/ Kill(w),
         ~CreateTemporary(w), ~Replace(w)
  PROVE  /\ UNCHANGED <<world, temp, used, history>>
         /\ \A d \in Dirs : entry'[d]["dest"] = entry[d]["dest"]
         /\ \A d \in Dirs, t \in Tokens : entry'[d][t] = entry[d][t] \/ entry'[d][t] = Nothing
         /\ \A v \in published : content'[v] = content[v]
         /\ spoiled \subseteq spoiled' /\ (chain' = chain \/ pc[w] = "opening")
<1> USE DEF world, store, pins, named, history
<1>0. Control(w)
  BY DEF Labelled, ControlInv
<1>1. CASE LookUp(w) \/ OpenNext(w) \/ Validate(w)
  BY <1>1 DEF LookUp, OpenNext, Validate
<1>2. CASE RefuseName(w) \/ Track(w) \/ CheckTemporary(w) \/ Return(w)
  BY <1>2 DEF RefuseName, Track, CheckTemporary, Return
<1>3. CASE WriteText(w) \/ Sync(w)
  <2>1. w \notin published
    BY <1>0, <1>3 DEF WriteText, Sync, Control, Writing
  <2>2. QED
    BY <1>3, <2>1 DEF WriteText, Sync, Labelled, TypeOK
<1>4. CASE CallFails(w) \/ MatchTemporary(w) \/ CleanupFails(w) \/ Interrupt(w) \/ Kill(w)
  BY <1>4 DEF CallFails, MatchTemporary, CleanupFails, Interrupt, Kill
<1>5. CASE Unlink(w)
  <2>1. temp[w] \in Tokens /\ "dest" \notin Tokens
    BY <1>0, <1>5, OutputAssumption DEF Unlink, Control, Writing
  <2>2. entry \in [Dirs -> [Names -> Writers \cup {Old, Nothing}]]
    BY DEF Labelled, TypeOK
  <2>3. /\ entry' = entry \/ entry' = [entry EXCEPT ![Where(w)][temp[w]] = Nothing]
        /\ UNCHANGED <<world, content, used, pins, named, history, interrupts>>
    BY <1>5 DEF Unlink
  <2>4. \A d \in Dirs, n \in Names :
          entry'[d][n] = entry[d][n] \/ (n = temp[w] /\ entry'[d][n] = Nothing)
    <3> HIDE DEF Nothing, Old
    <3>1. QED
      BY <2>2, <2>3
  <2>5. QED
    BY <2>1, <2>3, <2>4 DEF Names
<1>6. QED
  BY <1>1, <1>2, <1>3, <1>4, <1>5 DEF WriterStep

\* The file that Replace puts in place is the writer's own.
LEMMA ReplacesOwn ==
  ASSUME Labelled, OwnerInv, NEW w \in Writers, Replace(w)
  PROVE  /\ Found(w, temp[w]) = w /\ Where(w) \in Dirs /\ temp[w] \in Tokens
         /\ entry[Where(w)][temp[w]] = w
         /\ w \notin published /\ content[w] = "synced" /\ pc[w] = "replace"
<1>1. /\ temp[w] \in Tokens /\ pc[w] = "replace" /\ w \notin published
      /\ content[w] = "synced" /\ Found(w, temp[w]) # Nothing
  BY DEF Replace, Labelled, ControlInv, Control, Writing
<1>2. Where(w) \in Dirs /\ Found(w, temp[w]) = entry[Where(w)][temp[w]]
  <2>1. Where(w) \in Dirs \cup {"absent"}
    BY <1>1, WhereType DEF Over
  <2>2. QED
    BY <1>1, <2>1 DEF Found
<1>3. entry[Where(w)][temp[w]] \in Writers
  BY <1>1, <1>2 DEF Labelled, TypeOK, OwnerInv, Names
<1>4. temp[w] # "dest"
  BY <1>1, OutputAssumption
<1>5. QED
  BY <1>1, <1>2, <1>3, <1>4 DEF OwnerInv

\* Exactly two entries change: the destination's, and the name's that it had.
LEMMA ReplaceEntries ==
  ASSUME Labelled, OwnerInv, NEW w \in Writers, Replace(w), NEW d \in Dirs, NEW n \in Names
  PROVE  entry'[d][n] = IF d # Where(w) THEN entry[d][n]
                        ELSE IF n = "dest" THEN w
                        ELSE IF n = temp[w] THEN Nothing ELSE entry[d][n]
<1>1. Where(w) \in Dirs /\ temp[w] \in Names /\ "dest" \in Names /\ temp[w] # "dest"
  BY ReplacesOwn, OutputAssumption DEF Names
<1>2. entry' = [entry EXCEPT ![Where(w)] = [@ EXCEPT !["dest"] = w, ![temp[w]] = Nothing]]
  BY ReplacesOwn DEF Replace
<1>3. entry \in [Dirs -> [Names -> Writers \cup {Old, Nothing}]]
  BY DEF Labelled, TypeOK
<1> HIDE DEF Nothing, Old, Names
<1>4. QED
  BY <1>1, <1>2, <1>3

LEMMA OwnerStep == Labelled /\ OwnerInv /\ [Next]_vars => OwnerInv'
<1> SUFFICES ASSUME Labelled, OwnerInv, [Next]_vars PROVE OwnerInv'
  OBVIOUS
<1> USE DEF world, store, pins, named, history
<1>0. "dest" \notin Tokens /\ Nothing \notin Writers /\ Old \notin Writers /\ Nothing # Old
  BY OutputAssumption DEF Nothing, Old
<1>1. ASSUME NEW w \in Writers, CreateTemporary(w) PROVE OwnerInv'
  <2>1. PICK t \in Tokens \ used : /\ entry' = [entry EXCEPT ![Where(w)][t] = w]
                                  /\ used' = used \cup {t}
                                  /\ temp' = [temp EXCEPT ![w] = t]
    BY <1>1 DEF CreateTemporary
  <2>2. temp[w] = "dest" /\ content' = [content EXCEPT ![w] = "part"] /\ w \notin published
        /\ published' = published
    BY <1>1 DEF CreateTemporary, Labelled, ControlInv, Control, Early
  <2>3. \A d \in Dirs, n \in Names :
          entry'[d][n] = IF d = Where(w) /\ n = t THEN w ELSE entry[d][n]
    BY <2>1 DEF Labelled, TypeOK
  <2>4. /\ \A v \in Writers : temp'[v] = IF v = w THEN t ELSE temp[v]
        /\ \A v \in published : content'[v] = content[v]
    BY <2>1, <2>2 DEF Labelled, TypeOK
  <2>5. t \in Tokens /\ t \notin used /\ t # "dest"
    BY <1>0
  <2>6. \A d \in Dirs, n \in Tokens, v \in Writers : entry'[d][n] = v => temp'[v] = n
    BY <2>2, <2>3, <2>4, <1>0 DEF OwnerInv, Names
  <2>7. \A d \in Dirs : entry'[d]["dest"] = entry[d]["dest"]
    BY <2>3, <2>5 DEF Names
  <2>8. \A d \in Dirs, n \in Tokens : entry'[d][n] # Old
    BY <2>3, <1>0 DEF OwnerInv, Names
  <2>9. \A u, v \in Writers : temp'[u] = temp'[v] /\ temp'[v] # "dest" => u = v
    BY <2>4, <2>5 DEF OwnerInv
  <2>10. \A v \in Writers : temp'[v] # "dest" => temp'[v] \in used'
    BY <2>1, <2>4 DEF OwnerInv
  <2>11. \A d \in Dirs, v \in Writers :
           entry'[d]["dest"] = v => v \in published' /\ content'[v] = "synced"
    BY <2>2, <2>4, <2>7 DEF OwnerInv
  <2>12. QED
    BY <2>6, <2>7, <2>8, <2>9, <2>10, <2>11 DEF OwnerInv
<1>2. ASSUME NEW w \in Writers, Replace(w) PROVE OwnerInv'
  <2>1. \A d \in Dirs, n \in Names :
          entry'[d][n] = IF d # Where(w) THEN entry[d][n]
                         ELSE IF n = "dest" THEN w
                         ELSE IF n = temp[w] THEN Nothing ELSE entry[d][n]
    BY <1>2, ReplaceEntries
  <2>2. /\ UNCHANGED <<content, used, temp>> /\ published' = published \cup {w}
        /\ content[w] = "synced"
    BY <1>2, ReplacesOwn DEF Replace
  <2>3. \A d \in Dirs, n \in Tokens : entry'[d][n] = entry[d][n] \/ entry'[d][n] = Nothing
    BY <2>1, <1>0 DEF Names
  <2>4. \A d \in Dirs : entry'[d]["dest"] = entry[d]["dest"] \/ entry'[d]["dest"] = w
    BY <2>1 DEF Names
  <2>5. QED
    BY <2>2, <2>3, <2>4, <1>0 DEF OwnerInv
<1>3. ASSUME NEW w \in Writers, WriterStep(w) \/ Kill(w), ~CreateTemporary(w), ~Replace(w)
      PROVE  OwnerInv'
  BY <1>3, WriterKeeps, OwnerFrame
<1>4. CASE \E x \in Dirs \cup {"top"} : Rebind(x)
  BY <1>4, OwnerFrame DEF Rebind
<1>5. ASSUME NEW e \in Dirs, NEW s \in Tokens, RemoveTemporary(e, s) PROVE OwnerInv'
  <2>1. entry' = [entry EXCEPT ![e][s] = Nothing] /\ UNCHANGED <<content, used, temp, published>>
    BY <1>5 DEF RemoveTemporary
  <2>2. entry \in [Dirs -> [Names -> Writers \cup {Old, Nothing}]] /\ s \in Names
    BY DEF Labelled, TypeOK, Names
  <2>3. \A d \in Dirs, n \in Names :
          entry'[d][n] = entry[d][n] \/ (n = s /\ entry'[d][n] = Nothing)
    <3> HIDE DEF Nothing, Old, Names
    <3>1. QED
      BY <2>1, <2>2
  <2>4. QED
    BY <1>0, <2>1, <2>3, OwnerFrame DEF Names
<1>6. CASE PowerLoss
  <2>1. \A w \in published : content[w] = "synced" => content'[w] = "synced"
    BY <1>6 DEF PowerLoss, Labelled, TypeOK
  <2>2. QED
    BY <1>6, <2>1, OwnerFrame DEF PowerLoss
<1>7. CASE UNCHANGED vars
  BY <1>7, OwnerFrame DEF vars
<1>8. QED
  BY <1>1, <1>2, <1>3, <1>4, <1>5, <1>6, <1>7 DEF Next, WriterStep

Owned == Labelled /\ OwnerInv

LEMMA OwnedAlways == Spec => []Owned
<1>1. Init => Owned
  BY LabelledInit, OwnerInit DEF Owned
<1>2. Owned /\ [Next]_vars => Owned'
  BY LabelledStep, OwnerStep DEF Owned
<1>3. QED
  BY <1>1, <1>2, PTL DEF Spec

-----------------------------------------------------------------------------
(* write_text_atomic implements OutputStore.                                *)

Value == [d \in Dirs |-> Text(entry[d]["dest"])]
Results == [w \in Writers |-> Result(w)]

\* No destination is ever torn: its text is whole, and stays what it is.
Whole == Value = [d \in Dirs |-> entry[d]["dest"]]

LEMMA TextWhole == Owned => Whole
<1> SUFFICES ASSUME Owned, NEW d \in Dirs PROVE Text(entry[d]["dest"]) = entry[d]["dest"]
  BY DEF Value, Whole
<1>1. entry[d]["dest"] = Old \/ entry[d]["dest"] \in Writers
  BY DEF Owned, Labelled, TypeOK, Names, OwnerInv
<1>2. QED
  BY <1>1 DEF Text, Owned, OwnerInv

LEMMA TextStaysWhole == Owned' => Whole'
  BY TextWhole, PTL

LEMMA ValueKept ==
  ASSUME Owned, Owned', \A d \in Dirs : entry'[d]["dest"] = entry[d]["dest"]
  PROVE  Value' = Value
<1>1. Value' = [d \in Dirs |-> entry'[d]["dest"]]
  BY TextStaysWhole DEF Whole
<1>2. QED
  BY <1>1, TextWhole DEF Whole

\* A step of one writer changes no other's result.
LEMMA ResultsOfOthers ==
  ASSUME Labelled, NEW w \in Writers, WriterStep(w) \/ Kill(w)
  PROVE  Results' = [Results EXCEPT ![w] = Result(w)']
<1>1. ASSUME NEW v \in Writers, v # w PROVE Result(v)' = Result(v)
  BY <1>1, OthersKeep DEF Result
<1>2. QED
  BY <1>1 DEF Results

\* The outcome of every step but Replace: nothing, success or failure.
LEMMA ResultStep ==
  ASSUME Labelled, NEW w \in Writers, WriterStep(w) \/ Kill(w), ~Replace(w)
  PROVE  \/ Result(w)' = Result(w)
         \/ Result(w) = "published" /\ Result(w)' = "ok"
         \/ Result(w) \in {"pending", "published"} /\ Result(w)' = "failed"
<1> USE DEF Goto, Raise, history
<1>0. Control(w) /\ pc \in [Writers -> Labels]
  BY DEF Labelled, ControlInv, TypeOK
<1>1. CASE LookUp(w) \/ OpenNext(w)
  BY <1>0, <1>1 DEF LookUp, OpenNext, Result
<1>2. CASE Validate(w)
  <2>1. published' = published /\ pc[w] \in Checks
    BY <1>2 DEF Validate
  <2>2. CASE pc[w] = "check_replaced"
    BY <1>0, <1>2, <2>1, <2>2 DEF Validate, Result, Checks, AfterCheck, Control, Settled
  <2>3. CASE pc[w] # "check_replaced"
    BY <1>0, <1>2, <2>1, <2>3 DEF Validate, Result, Checks, AfterCheck
  <2>4. QED
    BY <2>2, <2>3
<1>3. CASE CreateTemporary(w) \/ RefuseName(w) \/ Track(w) \/ WriteText(w) \/ Sync(w)
  BY <1>0, <1>3 DEF CreateTemporary, RefuseName, Track, WriteText, Sync, Result
<1>4. CASE CheckTemporary(w) \/ Return(w)
  BY <1>0, <1>4 DEF CheckTemporary, Return, Result, Control, Settled
<1>5. CASE CallFails(w) \/ MatchTemporary(w) \/ Unlink(w) \/ CleanupFails(w)
  BY <1>0, <1>5 DEF CallFails, MatchTemporary, Unlink, CleanupFails, Checks, Result
<1>6. CASE Interrupt(w) \/ Kill(w)
  BY <1>0, <1>6 DEF Interrupt, Kill, Active, Result
<1>7. QED
  BY <1>1, <1>2, <1>3, <1>4, <1>5, <1>6 DEF WriterStep

LEMMA StoreStep ==
  ASSUME Owned, Owned', [Next]_vars
  PROVE  [Store!Next]_<<Value, Results>>
<1> USE DEF Owned
<1>0. Value' = [d \in Dirs |-> entry'[d]["dest"]] /\ Value = [d \in Dirs |-> entry[d]["dest"]]
  BY TextWhole, TextStaysWhole DEF Whole
<1>1. ASSUME NEW w \in Writers, Replace(w) PROVE Store!Publish(w)
  <2>1. Result(w) = "pending" /\ Result(w)' = "published"
    <3>1. pc[w] = "replace" /\ w \notin published /\ published' = published \cup {w}
      BY <1>1, ReplacesOwn DEF Replace
    <3>2. pc'[w] \in {"check_replaced", "returning"}
      BY <1>1 DEF Replace, Goto, Labelled, TypeOK
    <3>3. QED
      BY <3>1, <3>2 DEF Result
  <2>2. Results' = [Results EXCEPT ![w] = "published"] /\ Results[w] = "pending"
    BY <1>1, <2>1, ResultsOfOthers DEF WriterStep, Results
  <2>3. Where(w) \in Dirs /\ Value' = [Value EXCEPT ![Where(w)] = w]
    <3>1. ASSUME NEW d \in Dirs
          PROVE  entry'[d]["dest"] = IF d = Where(w) THEN w ELSE entry[d]["dest"]
      BY <1>1, ReplaceEntries DEF Names
    <3>2. QED
      BY <1>0, <1>1, <3>1, ReplacesOwn
  <2>4. QED
    BY <2>2, <2>3 DEF Store!Publish, Value, Results
<1>2. ASSUME NEW w \in Writers, WriterStep(w) \/ Kill(w), ~Replace(w)
      PROVE  \/ Store!Succeed(w) \/ Store!Fail({w}) \/ UNCHANGED <<Value, Results>>
  <2>1. Value' = Value
    <3>1. \A d \in Dirs : entry'[d]["dest"] = entry[d]["dest"]
      <4>1. CASE CreateTemporary(w)
        <5>1. PICK t \in Tokens : entry' = [entry EXCEPT ![Where(w)][t] = w]
          BY <4>1 DEF CreateTemporary
        <5>2. t # "dest"
          BY OutputAssumption
        <5>3. QED
          BY <5>1, <5>2 DEF Labelled, TypeOK
      <4>2. CASE ~CreateTemporary(w)
        BY <1>2, <4>2, WriterKeeps
      <4>3. QED
        BY <4>1, <4>2
    <3>2. QED
      BY <3>1, ValueKept
  <2>2. Results' = [Results EXCEPT ![w] = Result(w)'] /\ Results[w] = Result(w)
    BY <1>2, ResultsOfOthers DEF Results
  <2>3. CASE Result(w)' = Result(w)
    BY <2>1, <2>2, <2>3 DEF Results
  <2>4. CASE Result(w) = "published" /\ Result(w)' = "ok"
    BY <2>1, <2>2, <2>4 DEF Store!Succeed, Value, Results
  <2>5. CASE Result(w) \in {"pending", "published"} /\ Result(w)' = "failed"
    <3>1. Results' = [v \in Writers |-> IF v \in {w} THEN "failed" ELSE Results[v]]
      BY <2>2, <2>5 DEF Results
    <3>2. QED
      BY <2>1, <2>2, <2>5, <3>1 DEF Store!Fail, Value, Results
  <2>6. QED
    BY <1>2, <2>3, <2>4, <2>5, ResultStep
<1>3. ASSUME NEW x \in Dirs \cup {"top"}, Rebind(x) PROVE UNCHANGED <<Value, Results>>
  BY <1>0, <1>3 DEF Rebind, store, history, Results, Result
<1>4. ASSUME NEW d \in Dirs, NEW t \in Tokens, RemoveTemporary(d, t)
      PROVE  UNCHANGED <<Value, Results>>
  <2>1. t # "dest"
    BY OutputAssumption
  <2>2. \A e \in Dirs : entry'[e]["dest"] = entry[e]["dest"]
    BY <1>4, <2>1 DEF RemoveTemporary, Labelled, TypeOK
  <2>3. Value' = Value
    BY <2>2, ValueKept
  <2>4. Results' = Results
    BY <1>4 DEF RemoveTemporary, history, Results, Result
  <2>5. QED
    BY <2>3, <2>4
<1>5. CASE PowerLoss
  <2> DEFINE Stopped == {w \in Writers : Active(w)}
  <2>1. Value' = Value
    BY <1>0, <1>5 DEF PowerLoss
  <2>2. \A w \in Stopped : Results[w] \in {"pending", "published"}
    BY DEF Active, Results, Result
  <2>3. Results' = [w \in Writers |-> IF w \in Stopped THEN "failed" ELSE Results[w]]
    <3>1. ASSUME NEW w \in Writers
          PROVE  Result(w)' = IF w \in Stopped THEN "failed" ELSE Result(w)
      BY <1>5 DEF PowerLoss, Active, history, Result, Labelled, TypeOK
    <3>2. QED
      BY <3>1 DEF Results
  <2>4. Stopped \in (SUBSET Writers) \ {{}}
    BY <1>5 DEF PowerLoss
  <2>5. Store!Fail(Stopped)
    BY <2>1, <2>2, <2>3 DEF Store!Fail, Value, Results
  <2>6. QED
    BY <2>4, <2>5 DEF Store!Next
<1>6. CASE UNCHANGED vars
  BY <1>0, <1>6 DEF vars, store, history, Results, Result
<1>7. CASE \E w \in Writers : WriterStep(w) \/ Kill(w)
  <2>1. PICK w \in Writers : WriterStep(w) \/ Kill(w)
    BY <1>7
  <2>2. {w} \in (SUBSET Writers) \ {{}}
    OBVIOUS
  <2>3. QED
    BY <1>1, <1>2, <2>1, <2>2 DEF Store!Next
<1>8. QED
  BY <1>3, <1>4, <1>5, <1>6, <1>7 DEF Next

\* Whatever writers, cleaners, signals and power losses do, each directory's
\* output file holds the whole text of one write or its earlier text, and each
\* write takes effect at one instant or not at all: every behaviour of
\* write_text_atomic is one of OutputStore.
THEOREM StoreImplemented == Spec => AtomicStore
<1>1. Init => Store!Init
  <2> SUFFICES ASSUME Init PROVE Store!Init
    OBVIOUS
  <2>1. \A d \in Dirs : Text(entry[d]["dest"]) = "old"
    BY DEF Init, Names, Text, Old
  <2>2. \A w \in Writers : Result(w) = "pending"
    BY DEF Init, Result
  <2>3. QED
    BY <2>1, <2>2 DEF Store!Init, Store!Old
<1>2. Owned /\ Owned' /\ [Next]_vars => [Store!Next]_<<Value, Results>>
  BY StoreStep
<1>3. QED
  BY <1>1, <1>2, OwnedAlways, PTL DEF Spec, AtomicStore, Store!Spec, Value, Results

-----------------------------------------------------------------------------
(* Where a pinned writer's files are, and what became of its directories.   *)

\* The files of a pinned writer are beneath the innermost directory it pinned.
HomeInv ==
  \A w \in Pinned, d \in Dirs, n \in Names :
    entry[d][n] = w => Len(chain[w]) = Depth /\ d = chain[w][Depth]

\* A pinned position is still bound as it was, or its directory was moved away;
\* until one comes back, no such directory is bound anywhere.
LinkInv ==
  /\ ~restored => \A x \in Dirs \cup {"top"} : bind[x] \notin left
  /\ \A w \in Pinned : \A i \in 1..Len(chain[w]) : Holds(w, i) \/ chain[w][i] \in left

\* A writer that replaced the destination off the path has a moved directory in
\* the part of its chain it has still to validate, and cannot succeed; one that
\* failed of itself has found such a directory.
SightInv ==
  \A w \in Pinned : w \in published =>
    /\ ~restored /\ w \notin visible =>
         /\ pc[w] # "ok"
         /\ pc[w] = "check_replaced" => \E i \in checked[w] + 1..Depth : chain[w][i] \in left
    /\ pc[w] = "failed" /\ w \notin spoiled =>
         Len(chain[w]) = Depth /\ \E i \in 1..Depth : chain[w][i] \in left

Sighted == Owned /\ HomeInv /\ LinkInv /\ SightInv

LEMMA SightedInit == Init => HomeInv /\ LinkInv /\ SightInv
<1> SUFFICES ASSUME Init PROVE HomeInv /\ LinkInv /\ SightInv
  OBVIOUS
<1>1. HomeInv
  <2>1. \A d \in Dirs, n \in Names : entry[d][n] \in {Old, Nothing}
    BY DEF Init
  <2>2. QED
    BY <2>1, OutputAssumption DEF HomeInv, Old, Nothing
<1>2. LinkInv
  BY OutputAssumption DEF Init, LinkInv
<1>3. SightInv
  BY DEF Init, SightInv
<1>4. QED
  BY <1>1, <1>2, <1>3

\* New entries appear beneath the directory in which the writer works.
LEMMA EntriesGrow ==
  ASSUME Owned, NEW w \in Writers, WriterStep(w) \/ Kill(w), NEW d \in Dirs, NEW n \in Names
  PROVE  \/ entry'[d][n] = entry[d][n] \/ entry'[d][n] = Nothing
         \/ /\ entry'[d][n] = w /\ d = Where(w) /\ chain' = chain
            /\ w \in Pinned => Len(chain[w]) = Depth
<1> USE DEF Owned
<1>1. CASE CreateTemporary(w)
  <2>1. PICK t \in Tokens : entry' = [entry EXCEPT ![Where(w)][t] = w]
    BY <1>1 DEF CreateTemporary
  <2>2. chain' = chain /\ (w \in Pinned => Len(chain[w]) = Depth)
    BY <1>1 DEF CreateTemporary, pins, Labelled, ControlInv, Control, Checks, Over
  <2>3. entry'[d][n] = IF d = Where(w) /\ n = t THEN w ELSE entry[d][n]
    BY <2>1 DEF Labelled, TypeOK
  <2>4. QED
    BY <2>2, <2>3
<1>2. CASE Replace(w)
  <2>1. chain' = chain /\ (w \in Pinned => Len(chain[w]) = Depth)
    BY <1>2 DEF Replace, pins, Labelled, ControlInv, Control, Checks, Over
  <2>2. QED
    BY <1>2, <2>1, ReplaceEntries
<1>3. CASE ~CreateTemporary(w) /\ ~Replace(w)
  BY <1>3, WriterKeeps DEF Names
<1>4. QED
  BY <1>1, <1>2, <1>3

LEMMA HomeStep == Owned /\ HomeInv /\ [Next]_vars => HomeInv'
<1> SUFFICES ASSUME Owned, HomeInv, [Next]_vars PROVE HomeInv'
  OBVIOUS
<1> USE DEF Owned
<1>0. Nothing \notin Writers /\ Pinned \subseteq Writers
  BY OutputAssumption DEF Nothing
<1>1. ASSUME NEW w \in Writers, WriterStep(w) \/ Kill(w) PROVE HomeInv'
  <2> SUFFICES ASSUME NEW v \in Pinned, NEW d \in Dirs, NEW n \in Names, entry'[d][n] = v
               PROVE  Len(chain'[v]) = Depth /\ d = chain'[v][Depth]
    BY DEF HomeInv
  <2>1. CASE entry[d][n] = v
    <3>1. Len(chain[v]) = Depth /\ d = chain[v][Depth]
      BY <2>1 DEF HomeInv
    <3>2. chain'[v] = chain[v]
      <4>1. CASE v # w
        BY <1>0, <1>1, <4>1, OthersKeep
      <4>2. CASE v = w
        <5>1. pc[w] # "opening"
          BY <1>0, <3>1, <4>2, OutputAssumption DEF Labelled, ControlInv, Control
        <5>2. QED
          BY <1>1, <5>1, WriterKeeps DEF CreateTemporary, Replace, pins
      <4>3. QED
        BY <4>1, <4>2
    <3>3. QED
      BY <3>1, <3>2
  <2>2. CASE entry[d][n] # v
    <3>1. v = w /\ d = Where(w) /\ chain' = chain /\ Len(chain[w]) = Depth
      BY <1>0, <1>1, <2>2, EntriesGrow
    <3>2. QED
      BY <3>1 DEF Where
  <2>3. QED
    BY <2>1, <2>2
<1>2. CASE \E x \in Dirs \cup {"top"} : Rebind(x)
  BY <1>2 DEF Rebind, store, pins, HomeInv
<1>3. ASSUME NEW e \in Dirs, NEW s \in Tokens, RemoveTemporary(e, s) PROVE HomeInv'
  <2>1. entry' = [entry EXCEPT ![e][s] = Nothing] /\ chain' = chain
    BY <1>3 DEF RemoveTemporary, pins
  <2>2. entry \in [Dirs -> [Names -> Writers \cup {Old, Nothing}]]
    BY DEF Labelled, TypeOK
  <2>3. \A d \in Dirs, n \in Names : entry'[d][n] = entry[d][n] \/ entry'[d][n] = Nothing
    <3> HIDE DEF Nothing, Old, Names
    <3>1. QED
      BY <2>1, <2>2
  <2>4. QED
    BY <1>0, <2>1, <2>3 DEF HomeInv
<1>4. CASE PowerLoss \/ UNCHANGED vars
  BY <1>4 DEF PowerLoss, vars, store, pins, HomeInv
<1>5. QED
  BY <1>1, <1>2, <1>3, <1>4 DEF Next

LEMMA LinkStep == Owned /\ LinkInv /\ [Next]_vars => LinkInv'
<1> SUFFICES ASSUME Owned, LinkInv, [Next]_vars PROVE LinkInv'
  OBVIOUS
<1> USE DEF Owned
<1>0. "absent" \notin Dirs /\ Pinned \subseteq Writers
  BY OutputAssumption
<1>1. ASSUME NEW x \in Dirs \cup {"top"}, Rebind(x) PROVE LinkInv'
  <2>1. PICK y \in Dirs \cup {"absent"} :
          /\ y # bind[x] /\ bind' = [bind EXCEPT ![x] = y] /\ restored' = (restored \/ y \in left)
    BY <1>1 DEF Rebind
  <2>2. left' = left \cup ({bind[x]} \ {"absent"}) /\ chain' = chain
    BY <1>1 DEF Rebind, pins
  <2>3. /\ bind \in [Dirs \cup {"top"} -> Dirs \cup {"absent"}]
        /\ \A u, v \in Dirs \cup {"top"} : bind[u] # "absent" /\ bind[u] = bind[v] => u = v
        /\ left \subseteq Dirs
    BY DEF Labelled, TypeOK, Bindings
  <2>4. ASSUME ~restored', NEW z \in Dirs \cup {"top"} PROVE bind'[z] \notin left'
    <3>1. ~restored /\ y \notin left /\ bind[z] \notin left
      BY <2>1, <2>4 DEF LinkInv
    <3>2. bind'[z] = IF z = x THEN y ELSE bind[z]
      BY <2>1, <2>3
    <3>3. QED
      BY <2>1, <2>2, <2>3, <3>1, <3>2, <1>0
  <2>5. ASSUME NEW w \in Pinned, NEW i \in 1..Len(chain[w])
        PROVE  Holds(w, i)' \/ chain'[w][i] \in left'
    <3>1. chain[w] \in Seq(Dirs) /\ chain[w][i] \in Dirs
      BY <1>0 DEF Labelled, TypeOK
    <3>2. Holds(w, i) \/ chain[w][i] \in left
      BY DEF LinkInv
    <3>3. Holder(w, i) \in Dirs \cup {"top"} /\ Holder(w, i)' = Holder(w, i)
      BY <2>2, <3>1 DEF Holder
    <3>4. CASE Holds(w, i) /\ Holder(w, i) = x
      BY <1>0, <2>2, <3>1, <3>4 DEF Holds
    <3>5. CASE Holds(w, i) /\ Holder(w, i) # x
      BY <2>1, <2>2, <2>3, <3>3, <3>5 DEF Holds
    <3>6. QED
      BY <2>2, <3>2, <3>4, <3>5
  <2>6. QED
    BY <2>2, <2>4, <2>5 DEF LinkInv
<1>2. ASSUME NEW w \in Writers, OpenNext(w) PROVE LinkInv'
  <2>1. UNCHANGED <<bind, left, restored>> /\ pc[w] = "opening"
    BY <1>2 DEF OpenNext, world
  <2>2. CASE chain' = chain
    BY <2>1, <2>2 DEF LinkInv, Holds, Holder
  <2>3. CASE chain' # chain
    <3>1. bind[Outer(w)] = seen[w] /\ chain' = [chain EXCEPT ![w] = Append(chain[w], seen[w])]
      BY <1>2, <2>3 DEF OpenNext
    <3>2. chain[w] \in Seq(Dirs) /\ seen[w] \in Dirs
      BY <2>1 DEF Labelled, TypeOK, ControlInv, Control
    <3>3. ASSUME NEW v \in Pinned, NEW i \in 1..Len(chain'[v])
          PROVE  Holds(v, i)' \/ chain'[v][i] \in left'
      <4>1. CASE v # w
        <5>1. chain'[v] = chain[v]
          BY <1>0, <3>1, <4>1 DEF Labelled, TypeOK
        <5>2. QED
          BY <2>1, <5>1 DEF LinkInv, Holds, Holder
      <4>2. CASE v = w
        <5>1. chain'[w] = Append(chain[w], seen[w])
          BY <3>1 DEF Labelled, TypeOK
        <5>2. CASE i \in 1..Len(chain[w])
          <6>1. Holds(w, i) \/ chain[w][i] \in left
            BY <4>2, <5>2 DEF LinkInv
          <6>2. chain'[w][i] = chain[w][i] /\ Holder(w, i)' = Holder(w, i)
            BY <3>2, <5>1, <5>2 DEF Holder
          <6>3. QED
            BY <2>1, <4>2, <6>1, <6>2 DEF Holds
        <5>3. CASE i = Len(chain[w]) + 1
          <6>1. chain'[w][i] = seen[w] /\ Holder(w, i)' = Outer(w)
            BY <3>2, <5>1, <5>3 DEF Holder, Outer
          <6>2. QED
            BY <2>1, <3>1, <4>2, <6>1 DEF Holds
        <5>4. QED
          BY <3>2, <4>2, <5>1, <5>2, <5>3
      <4>3. QED
        BY <4>1, <4>2
    <3>4. QED
      BY <2>1, <3>3 DEF LinkInv
  <2>4. QED
    BY <2>2, <2>3
<1>3. ASSUME NEW w \in Writers, WriterStep(w) \/ Kill(w), ~OpenNext(w) PROVE LinkInv'
  <2>1. UNCHANGED <<bind, left, restored, chain>>
    BY <1>3 DEF WriterStep, LookUp, Validate, CreateTemporary, RefuseName, Track, WriteText, Sync,
                CheckTemporary, Replace, Return, CallFails, MatchTemporary, Unlink, CleanupFails,
                Interrupt, Kill, world, pins
  <2>2. QED
    BY <2>1 DEF LinkInv, Holds, Holder
<1>4. CASE (\E d \in Dirs, t \in Tokens : RemoveTemporary(d, t)) \/ PowerLoss \/ UNCHANGED vars
  BY <1>4 DEF RemoveTemporary, PowerLoss, vars, world, pins, LinkInv, Holds, Holder
<1>5. QED
  BY <1>1, <1>2, <1>3, <1>4 DEF Next, WriterStep

\* A writer that replaces the destination while the path leads elsewhere has a
\* position of its chain that no longer holds.
LEMMA OffThePath ==
  ASSUME Owned, LinkInv, NEW w \in Pinned, pc[w] = "replace", Where(w) # Parent
  PROVE  \E i \in 1..Depth : chain[w][i] \in left
<1> USE DEF Owned
<1>0. w \in Writers /\ Depth \in Nat \ {0}
  BY OutputAssumption
<1>1. chain[w] \in Seq(Dirs) /\ Len(chain[w]) = Depth
  BY <1>0 DEF Labelled, TypeOK, ControlInv, Control, Checks, Over
<1>2. bind \in [Dirs \cup {"top"} -> Dirs \cup {"absent"}]
  BY DEF Labelled, TypeOK, Bindings
<1>3. \E i \in 1..Depth : ~Holds(w, i)
  <2> SUFFICES ASSUME \A i \in 1..Depth : Holds(w, i) PROVE FALSE
    OBVIOUS
  <2>1. chain[w] \in [1..Depth -> Dirs]
    BY <1>0, <1>1
  <2>2. \A i \in 1..Depth : bind[IF i = 1 THEN "top" ELSE chain[w][i - 1]] = chain[w][i]
    BY DEF Holds, Holder
  <2>3. Route(bind)[Depth] = chain[w][Depth]
    BY <1>2, <2>1, <2>2, ChainIsRoute
  <2>4. QED
    BY <2>3, ParentRoute DEF Where
<1>4. QED
  BY <1>1, <1>3 DEF LinkInv

LEMMA SightStep == Owned /\ LinkInv /\ SightInv /\ [Next]_vars => SightInv'
<1> SUFFICES ASSUME Owned, LinkInv, SightInv, [Next]_vars PROVE SightInv'
  OBVIOUS
<1> USE DEF Owned
<1>0. Pinned \subseteq Writers /\ Depth \in Nat \ {0}
  BY OutputAssumption
<1> DEFINE Seen(v) ==
      v \in published =>
        /\ ~restored /\ v \notin visible =>
             /\ pc[v] # "ok"
             /\ pc[v] = "check_replaced" => \E i \in checked[v] + 1..Depth : chain[v][i] \in left
        /\ pc[v] = "failed" /\ v \notin spoiled =>
             Len(chain[v]) = Depth /\ \E i \in 1..Depth : chain[v][i] \in left
<1>1. \A v \in Pinned : Seen(v)
  BY DEF SightInv
<1>2. ASSUME NEW w \in Writers, WriterStep(w) \/ Kill(w) PROVE SightInv'
  <2>1. UNCHANGED <<bind, left, restored>>
    BY <1>2 DEF WriterStep, LookUp, OpenNext, Validate, CreateTemporary, RefuseName, Track,
                WriteText, Sync, CheckTemporary, Replace, Return, CallFails, MatchTemporary, Unlink,
                CleanupFails, Interrupt, Kill, world
  <2>2. ASSUME NEW v \in Pinned, v # w PROVE Seen(v)'
    <3>1. /\ pc'[v] = pc[v] /\ chain'[v] = chain[v] /\ checked'[v] = checked[v]
          /\ (v \in published' <=> v \in published) /\ (v \in visible' <=> v \in visible)
          /\ (v \in spoiled' <=> v \in spoiled)
      BY <1>0, <1>2, <2>2, OthersKeep
    <3>2. QED
      BY <1>1, <2>1, <3>1
  <2>3. ASSUME w \in Pinned PROVE Seen(w)'
    <3>0. Control(w) /\ Control(w)' /\ checked[w] \in 0..Depth - 1
          /\ chain[w] \in Seq(Dirs) /\ pc \in [Writers -> Labels]
      <4>1. Labelled'
        BY LabelledStep
      <4>2. QED
        BY <4>1 DEF Labelled, TypeOK, ControlInv
    <3>1. CASE Replace(w)
      <4>1. /\ pc[w] = "replace" /\ pc'[w] = "check_replaced" /\ checked' = checked
            /\ chain' = chain /\ checked[w] = 0
            /\ (Where(w) = Parent => w \in visible')
        BY <2>3, <3>0, <3>1 DEF Replace, Goto, pins, Labelled, TypeOK, Control, Checks, Over
      <4>2. Where(w) # Parent => \E i \in 1..Depth : chain[w][i] \in left
        BY <2>3, <4>1, OffThePath
      <4>3. checked'[w] + 1 = 1
        BY <4>1
      <4>4. QED
        BY <2>1, <4>1, <4>2, <4>3
    <3>2. CASE Validate(w) /\ w \in published
      <4>1. /\ pc[w] = "check_replaced" /\ w \notin tracked
            /\ UNCHANGED <<chain, published, visible, spoiled>> /\ Len(chain[w]) = Depth
        BY <2>3, <3>0, <3>2 DEF Validate, named, history, Control, Checks, Writing, Settled, Early, Over
      <4>2. CASE ~Holds(w, checked[w] + 1)
        <5>1. pc'[w] = "failed"
          BY <3>2, <4>1, <4>2 DEF Validate, Raise, Goto, Labelled, TypeOK
        <5>2. checked[w] + 1 \in 1..Depth
          BY <1>0, <3>0
        <5>3. chain[w][checked[w] + 1] \in left
          BY <2>3, <4>1, <4>2, <5>2 DEF LinkInv
        <5>4. QED
          BY <2>1, <4>1, <5>1, <5>2, <5>3
      <4>3. CASE Holds(w, checked[w] + 1)
        <5>1. \/ checked'[w] = checked[w] + 1 /\ pc'[w] = pc[w] /\ checked[w] + 1 < Depth
              \/ pc'[w] = "ok" /\ checked[w] + 1 = Depth
          BY <1>0, <3>0, <3>2, <4>1, <4>3 DEF Validate, Goto, AfterCheck, Labelled, TypeOK
        <5>2. ASSUME ~restored, w \notin visible
              PROVE  \E i \in checked[w] + 2..Depth : chain[w][i] \in left
          <6>1. PICK i \in checked[w] + 1..Depth : chain[w][i] \in left
            BY <1>1, <2>3, <3>2, <4>1, <5>2
          <6>2. bind[Holder(w, checked[w] + 1)] \notin left
            <7>1. Holder(w, checked[w] + 1) \in Dirs \cup {"top"}
              BY <1>0, <3>0, <4>1 DEF Holder
            <7>2. QED
              BY <5>2, <7>1 DEF LinkInv
          <6>3. i # checked[w] + 1
            BY <4>3, <6>1, <6>2 DEF Holds
          <6>4. i \in checked[w] + 2..Depth
            BY <3>0, <6>3, <1>0
          <6>5. QED
            BY <6>1, <6>4
        <5>3. CASE pc'[w] = "ok" /\ checked[w] + 1 = Depth
          <6>1. restored \/ w \in visible
            BY <1>0, <3>0, <5>2, <5>3
          <6>2. QED
            BY <2>1, <4>1, <5>3, <6>1
        <5>4. CASE checked'[w] = checked[w] + 1 /\ pc'[w] = pc[w] /\ checked[w] + 1 < Depth
          <6>1. checked'[w] + 1 = checked[w] + 2
            BY <3>0, <5>4
          <6>2. QED
            BY <2>1, <4>1, <5>2, <5>4, <6>1
        <5>5. QED
          BY <5>1, <5>3, <5>4
      <4>4. QED
        BY <4>2, <4>3
    <3>3. CASE CallFails(w) \/ Interrupt(w)
      <4>1. CASE pc[w] = "check_replaced"
        <5>1. w \in spoiled' /\ pc'[w] \in {"failed", "cleanup"}
          BY <3>3, <4>1 DEF CallFails, Interrupt, Raise, Goto, Labelled, TypeOK
        <5>2. QED
          BY <5>1
      <4>2. CASE pc[w] # "check_replaced"
        <5>1. w \in published' => pc[w] = "returning"
          BY <3>0, <3>3, <4>2 DEF CallFails, Interrupt, Active, history, Checks, Labels,
                                  Control, Early, Writing, Settled, Over
        <5>2. w \notin published'
          BY <2>3, <3>0, <5>1 DEF Control
        <5>3. QED
          BY <5>2
      <4>3. QED
        BY <4>1, <4>2
    <3>4. CASE Return(w)
      BY <2>3, <3>0, <3>4 DEF Return, Control
    <3>5. CASE Kill(w)
      BY <3>5 DEF Kill, Goto, Labelled, TypeOK
    <3>6. CASE ~Replace(w) /\ ~Validate(w) /\ ~CallFails(w) /\ ~Interrupt(w) /\ ~Return(w) /\ ~Kill(w)
      <4>1. pc[w] \in Early \cup {"created"} \cup Writing
        BY <1>2, <3>6 DEF WriterStep, LookUp, OpenNext, CreateTemporary, RefuseName, Track,
               WriteText, Sync, CheckTemporary, MatchTemporary, Unlink, CleanupFails, Early, Writing
      <4>2. w \notin published
        BY <3>0, <4>1 DEF Control
      <4>3. published' = published
        BY <1>2, <3>6 DEF WriterStep, LookUp, OpenNext, CreateTemporary, RefuseName, Track, WriteText,
               Sync, CheckTemporary, MatchTemporary, Unlink, CleanupFails, history
      <4>4. QED
        BY <4>2, <4>3
    <3>7. CASE Validate(w) /\ w \notin published
      BY <3>7 DEF Validate, history
    <3>8. QED
      BY <3>1, <3>2, <3>3, <3>4, <3>5, <3>6, <3>7
  <2>4. QED
    <3>1. \A v \in Pinned : Seen(v)'
      BY <2>2, <2>3
    <3>2. QED
      BY <3>1 DEF SightInv
<1>3. ASSUME NEW x \in Dirs \cup {"top"}, Rebind(x) PROVE SightInv'
  <2>1. left \subseteq left' /\ (restored => restored')
    BY <1>3 DEF Rebind, Labelled, TypeOK
  <2>2. UNCHANGED <<pins, named, history, pc>>
    BY <1>3 DEF Rebind
  <2>3. QED
    BY <2>1, <2>2 DEF SightInv, pins, named, history
<1>4. CASE PowerLoss
  <2>1. UNCHANGED <<left, restored, chain, checked, spoiled, published, visible>>
    BY <1>4 DEF PowerLoss, world, pins, named, history
  <2>2. \A w \in Writers : pc'[w] = pc[w] \/ pc'[w] = "dead"
    BY <1>4 DEF PowerLoss, Labelled, TypeOK
  <2>3. QED
    BY <1>0, <2>1, <2>2 DEF SightInv
<1>5. CASE (\E d \in Dirs, t \in Tokens : RemoveTemporary(d, t)) \/ UNCHANGED vars
  BY <1>5 DEF RemoveTemporary, vars, world, pins, named, history, SightInv
<1>6. QED
  BY <1>2, <1>3, <1>4, <1>5 DEF Next

LEMMA SightedAlways == Spec => []Sighted
<1>1. Init => Sighted
  BY LabelledInit, OwnerInit, SightedInit DEF Sighted, Owned
<1>2. Sighted /\ [Next]_vars => Sighted'
  BY LabelledStep, OwnerStep, HomeStep, LinkStep, SightStep DEF Sighted, Owned
<1>3. QED
  BY <1>1, <1>2, PTL DEF Spec

\* When a pinned write reports success, the destination it replaced was, at that
\* moment, the one the requested path led to: no move of a directory escapes the
\* second validation (_write_pinned_atomic), except one that was undone.
THEOREM SuccessSeen == Spec => []SuccessIsVisible
<1>1. Sighted => SuccessIsVisible
  <2> SUFFICES ASSUME Sighted, NEW w \in Pinned, pc[w] = "ok", ~restored PROVE w \in visible
    BY DEF SuccessIsVisible
  <2>1. w \in published
    BY OutputAssumption DEF Sighted, Owned, Labelled, ControlInv, Control, Settled
  <2>2. QED
    BY <2>1 DEF Sighted, SightInv
<1>2. QED
  BY <1>1, SightedAlways, PTL

\* When a pinned write fails, the requested path does not lead to its text, not
\* even when it had replaced the destination: the replaced file is then beneath
\* a directory that was moved away (_write_pinned_atomic).
THEOREM FailureUnseen == Spec => []FailureIsInvisible
<1>1. Sighted => FailureIsInvisible
  <2> SUFFICES ASSUME Sighted, NEW w \in Pinned \ spoiled, pc[w] = "failed", ~restored,
                      Parent # "absent", entry[Parent]["dest"] = w
               PROVE  FALSE
    BY DEF FailureIsInvisible
  <2> USE DEF Sighted, Owned
  <2>1. bind \in Bindings /\ Parent \in Dirs /\ w \in Writers
    BY ParentType, OutputAssumption DEF Labelled, TypeOK
  <2>2. w \in published
    BY <2>1 DEF OwnerInv
  <2>3. Len(chain[w]) = Depth /\ \E i \in 1..Depth : chain[w][i] \in left
    BY <2>2 DEF SightInv
  <2>4. Parent = chain[w][Depth]
    BY <2>1 DEF HomeInv, Names
  <2>5. chain[w] \in [1..Depth -> Dirs]
    <3>1. chain[w] \in Seq(Dirs)
      BY <2>1 DEF Labelled, TypeOK
    <3>2. QED
      BY <2>3, <3>1
  <2>6. \A x \in DOMAIN bind : bind[x] \notin left
    BY <2>1 DEF Bindings, LinkInv
  <2>7. \A i \in 1..Depth :
          bind[IF i = 1 THEN "top" ELSE chain[w][i - 1]] = chain[w][i] \/ chain[w][i] \in left
    BY <2>3 DEF LinkInv, Holds, Holder
  <2>8. \A i \in 1..Depth : chain[w][i] \notin left
    BY <2>1, <2>4, <2>5, <2>6, <2>7, ParentRoute, RouteIsChain
  <2>9. QED
    BY <2>3, <2>8
<1>2. QED
  BY <1>1, SightedAlways, PTL

-----------------------------------------------------------------------------
(* What is left behind.                                                     *)

\* Until a directory is moved away the path leads on, and a writer without a
\* root has its temporary file where the path leads.
PathInv ==
  left = {} =>
    /\ Parent # "absent"
    /\ \A w \in Writers \ Pinned, d \in Dirs, t \in Tokens : entry[d][t] = w => d = Parent

\* A writer that has replaced the destination or failed has no other file, if
\* its finally clause could do its work.
LitterInv ==
  \A w \in Writers :
    /\ pc[w] \in Settled \cup {"failed"} /\ w \notin spoiled
    /\ w \in Pinned \/ left = {}
    => \A d \in Dirs, t \in Tokens : entry[d][t] # w

Tidy == Sighted /\ PathInv /\ LitterInv

LEMMA TidyInit == Init => PathInv /\ LitterInv
<1> SUFFICES ASSUME Init PROVE PathInv /\ LitterInv
  OBVIOUS
<1>1. \A d \in Dirs, t \in Tokens : entry[d][t] = Nothing
  BY OutputAssumption DEF Init, Names
<1>2. QED
  BY <1>1, OutputAssumption DEF Init, PathInv, LitterInv, Nothing

LEMMA PathStep == Owned /\ PathInv /\ [Next]_vars => PathInv'
<1> SUFFICES ASSUME Owned, PathInv, [Next]_vars, left' = {}
             PROVE  /\ Parent' # "absent"
                    /\ \A w \in Writers \ Pinned, d \in Dirs, t \in Tokens :
                         entry'[d][t] = w => d = Parent'
  BY DEF PathInv
<1>0. Nothing \notin Writers
  BY OutputAssumption DEF Nothing
<1>1. ASSUME NEW w \in Writers, WriterStep(w) \/ Kill(w)
      PROVE  /\ Parent' # "absent"
             /\ \A v \in Writers \ Pinned, d \in Dirs, t \in Tokens :
                  entry'[d][t] = v => d = Parent'
  <2>1. UNCHANGED <<bind, left>>
    BY <1>1 DEF WriterStep, LookUp, OpenNext, Validate, CreateTemporary, RefuseName, Track,
                WriteText, Sync, CheckTemporary, Replace, Return, CallFails, MatchTemporary, Unlink,
                CleanupFails, Interrupt, Kill, world
  <2>2. Parent' = Parent /\ left = {}
    BY <2>1 DEF Parent
  <2>3. ASSUME NEW v \in Writers \ Pinned, NEW d \in Dirs, NEW t \in Tokens, entry'[d][t] = v
        PROVE  d = Parent
    <3>1. CASE entry[d][t] = v
      BY <2>2, <3>1 DEF PathInv
    <3>2. CASE entry[d][t] # v
      <4>1. v = w /\ d = Where(w)
        BY <1>0, <1>1, <2>3, <3>2, EntriesGrow DEF Names
      <4>2. QED
        BY <4>1 DEF Where
    <3>3. QED
      BY <3>1, <3>2
  <2>4. QED
    BY <2>2, <2>3 DEF PathInv
<1>2. ASSUME NEW x \in Dirs \cup {"top"}, Rebind(x)
      PROVE  /\ Parent' # "absent"
             /\ \A v \in Writers \ Pinned, d \in Dirs, t \in Tokens :
                  entry'[d][t] = v => d = Parent'
  <2>1. PICK y \in Dirs \cup {"absent"} : bind' = [bind EXCEPT ![x] = y]
    BY <1>2 DEF Rebind
  <2>2. left = {} /\ bind[x] = "absent" /\ entry' = entry
    BY <1>2 DEF Rebind, store
  <2>3. bind \in [Dirs \cup {"top"} -> Dirs \cup {"absent"}]
    BY DEF Owned, Labelled, TypeOK, Bindings
  <2>4. Route(bind)[Depth] # "absent"
    BY <2>2, ParentRoute DEF PathInv
  <2>5. Parent' = Parent
    BY <2>1, <2>2, <2>3, <2>4, RouteUnmoved, ParentRoute, ParentRoutePrimed
  <2>6. QED
    BY <2>2, <2>5 DEF PathInv
<1>3. ASSUME NEW e \in Dirs, NEW s \in Tokens, RemoveTemporary(e, s)
      PROVE  /\ Parent' # "absent"
             /\ \A v \in Writers \ Pinned, d \in Dirs, t \in Tokens :
                  entry'[d][t] = v => d = Parent'
  <2>1. UNCHANGED <<bind, left>> /\ entry' = [entry EXCEPT ![e][s] = Nothing]
    BY <1>3 DEF RemoveTemporary
  <2>2. entry \in [Dirs -> [Names -> Writers \cup {Old, Nothing}]]
    BY DEF Owned, Labelled, TypeOK
  <2>3. \A d \in Dirs, t \in Tokens : entry'[d][t] = entry[d][t] \/ entry'[d][t] = Nothing
    <3>1. \A d \in Dirs, n \in Names : entry'[d][n] = entry[d][n] \/ entry'[d][n] = Nothing
      <4> HIDE DEF Nothing, Old, Names
      <4>1. QED
        BY <2>1, <2>2
    <3>2. QED
      BY <3>1 DEF Names
  <2>4. Parent' = Parent
    BY <2>1 DEF Parent
  <2>5. QED
    BY <1>0, <2>1, <2>3, <2>4 DEF PathInv
<1>4. CASE PowerLoss \/ UNCHANGED vars
  <2>1. UNCHANGED <<bind, left, entry>>
    BY <1>4 DEF PowerLoss, vars, world, store
  <2>2. Parent' = Parent
    BY <2>1 DEF Parent
  <2>3. QED
    BY <2>1, <2>2 DEF PathInv
<1>5. QED
  BY <1>1, <1>2, <1>3, <1>4 DEF Next

\* A temporary file is under its writer's name where the writer looks for it.
LEMMA LooksInPlace ==
  ASSUME Owned, HomeInv, PathInv, NEW w \in Writers, w \in Pinned \/ left = {},
         NEW d \in Dirs, NEW t \in Tokens, entry[d][t] = w
  PROVE  t = temp[w] /\ d = Where(w) /\ Found(w, temp[w]) = w
<1>1. t = temp[w]
  BY DEF Owned, OwnerInv
<1>2. d = Where(w)
  BY DEF HomeInv, PathInv, Where, Names
<1>3. QED
  BY <1>1, <1>2, OutputAssumption DEF Found

LEMMA LitterStep == Owned /\ HomeInv /\ PathInv /\ LitterInv /\ [Next]_vars => LitterInv'
<1> SUFFICES ASSUME Owned, HomeInv, PathInv, LitterInv, [Next]_vars,
                    NEW w \in Writers, pc'[w] \in Settled \cup {"failed"}, w \notin spoiled',
                    w \in Pinned \/ left' = {},
                    NEW d \in Dirs, NEW t \in Tokens, entry'[d][t] = w
             PROVE  FALSE
  BY DEF LitterInv
<1> USE DEF Owned
<1>0. Nothing \notin Writers /\ t \in Names /\ t # "dest"
  BY OutputAssumption DEF Nothing, Names
<1>1. ASSUME NEW v \in Writers, v # w, WriterStep(v) \/ Kill(v) PROVE FALSE
  <2>1. pc'[w] = pc[w] /\ (w \in spoiled' <=> w \in spoiled) /\ entry[d][t] = w
    BY <1>0, <1>1, OthersKeep, EntriesGrow
  <2>2. left' = left
    BY <1>1 DEF WriterStep, LookUp, OpenNext, Validate, CreateTemporary, RefuseName, Track,
                WriteText, Sync, CheckTemporary, Replace, Return, CallFails, MatchTemporary, Unlink,
                CleanupFails, Interrupt, Kill, world
  <2>3. QED
    BY <2>1, <2>2 DEF LitterInv
<1>2. ASSUME WriterStep(w) \/ Kill(w) PROVE FALSE
  <2>0. Control(w) /\ pc \in [Writers -> Labels]
    BY DEF Labelled, ControlInv, TypeOK
  <2>1. left' = left
    BY <1>2 DEF WriterStep, LookUp, OpenNext, Validate, CreateTemporary, RefuseName, Track,
                WriteText, Sync, CheckTemporary, Replace, Return, CallFails, MatchTemporary, Unlink,
                CleanupFails, Interrupt, Kill, world
  <2>2. CASE CreateTemporary(w) \/ Track(w) \/ WriteText(w) \/ Sync(w) \/ Kill(w)
    BY <2>0, <2>2 DEF CreateTemporary, Track, WriteText, Sync, Kill, Goto, Settled
  <2>3. CASE Replace(w)
    <3>1. temp[w] # "dest" /\ d \in Dirs
      BY <2>3, ReplacesOwn, OutputAssumption
    <3>2. entry[d][t] = w /\ (d = Where(w) => t # temp[w])
      BY <1>0, <2>3, ReplaceEntries
    <3>3. QED
      BY <2>1, <3>2, LooksInPlace
  <2>4. CASE ~CreateTemporary(w) /\ ~Replace(w)
    <3>1. entry[d][t] = w /\ spoiled \subseteq spoiled'
      BY <1>0, <1>2, <2>4, WriterKeeps
    <3>2. t = temp[w] /\ d = Where(w) /\ Found(w, temp[w]) = w
      BY <2>1, <3>1, LooksInPlace
    <3>3. pc[w] \notin Settled \cup {"failed"} \cup Early
      <4>1. pc[w] \notin Early
        BY <1>0, <2>0, <3>2 DEF Control
      <4>2. QED
        BY <2>1, <3>1, <4>1 DEF LitterInv
    <3>4. pc[w] \in Writing => w \in tracked
      BY <2>0 DEF Control
    <3>5. CASE CheckTemporary(w) \/ Return(w) \/ LookUp(w) \/ OpenNext(w) \/ RefuseName(w)
      BY <2>0, <3>3, <3>4, <3>5 DEF CheckTemporary, Return, LookUp, OpenNext, RefuseName, Goto, Raise,
                                 Early, Writing, Settled
    <3>6. CASE Validate(w)
      <4>1. pc[w] = "check_written"
        BY <3>3, <3>6 DEF Validate, Checks, Early, Settled
      <4>2. pc'[w] \in {"cleanup", "check_written", "check_temp"}
        BY <2>0, <3>4, <3>6, <4>1 DEF Validate, Goto, Raise, AfterCheck, Writing
      <4>3. QED
        BY <4>2 DEF Settled
    <3>7. CASE CallFails(w)
      <4>1. pc[w] \in Writing \/ w \in spoiled'
        BY <3>3, <3>7 DEF CallFails, Checks, Early, Writing, Settled
      <4>2. pc'[w] = "cleanup"
        BY <2>0, <3>4, <3>7, <4>1 DEF CallFails, Goto, Raise
      <4>3. QED
        BY <4>2 DEF Settled
    <3>8. CASE Interrupt(w)
      <4>1. pc[w] \in Writing \ {"cleanup", "unlink"}
        BY <2>0, <3>3, <3>8 DEF Interrupt, Active, Labels, Checks, Early, Writing, Settled, Over
      <4>2. pc'[w] = "cleanup"
        BY <2>0, <3>4, <3>8, <4>1 DEF Interrupt, Goto, Raise
      <4>3. QED
        BY <4>2 DEF Settled
    <3>9. CASE MatchTemporary(w)
      BY <2>0, <3>2, <3>9 DEF MatchTemporary, Goto, Settled
    <3>10. CASE Unlink(w)
      <4>1. entry' = [entry EXCEPT ![d][t] = Nothing]
        BY <1>0, <3>2, <3>10 DEF Unlink
      <4>2. entry'[d][t] = Nothing
        <5>1. entry \in [Dirs -> [Names -> Writers \cup {Old, Nothing}]]
          BY DEF Labelled, TypeOK
        <5> HIDE DEF Nothing, Old, Names
        <5>2. QED
          BY <1>0, <4>1, <5>1
      <4>3. QED
        BY <1>0, <4>2
    <3>11. CASE CleanupFails(w)
      BY <3>11 DEF CleanupFails
    <3>12. QED
      BY <1>2, <2>2, <2>4, <3>5, <3>6, <3>7, <3>8, <3>9, <3>10, <3>11 DEF WriterStep
  <2>5. QED
    BY <2>2, <2>3, <2>4
<1>3. ASSUME NEW x \in Dirs \cup {"top"}, Rebind(x) PROVE FALSE
  <2>1. left' = {} => left = {}
    BY <1>3 DEF Rebind
  <2>2. UNCHANGED <<pc, spoiled, entry>>
    BY <1>3 DEF Rebind, store, named
  <2>3. QED
    BY <2>1, <2>2 DEF LitterInv
<1>4. ASSUME NEW e \in Dirs, NEW s \in Tokens, RemoveTemporary(e, s) PROVE FALSE
  <2>1. UNCHANGED <<left, pc, spoiled>> /\ entry' = [entry EXCEPT ![e][s] = Nothing]
    BY <1>4 DEF RemoveTemporary, named
  <2>2. entry \in [Dirs -> [Names -> Writers \cup {Old, Nothing}]]
    BY DEF Labelled, TypeOK
  <2>3. entry'[d][t] = entry[d][t] \/ entry'[d][t] = Nothing
    <3> HIDE DEF Nothing, Old, Names
    <3>1. QED
      BY <1>0, <2>1, <2>2
  <2>4. QED
    BY <1>0, <2>1, <2>3 DEF LitterInv
<1>5. CASE PowerLoss
  <2>1. UNCHANGED <<left, spoiled, entry>>
    BY <1>5 DEF PowerLoss, world, named
  <2>2. pc'[w] = pc[w]
    BY <1>5 DEF PowerLoss, Settled
  <2>3. QED
    BY <2>1, <2>2 DEF LitterInv
<1>6. CASE UNCHANGED vars
  BY <1>6 DEF vars, world, store, named, LitterInv
<1>7. QED
  BY <1>1, <1>2, <1>3, <1>4, <1>5, <1>6 DEF Next

\* A write that ends, with success or without, leaves no temporary file behind
\* (the finally clauses of output.py), unless an interrupt or a failing system
\* call kept the clause from its work, or the path itself was moved under a
\* writer without a root.
THEOREM NothingLeft == Spec => []NoLitter
<1>1. Init => Tidy
  BY LabelledInit, OwnerInit, SightedInit, TidyInit DEF Tidy, Sighted, Owned
<1>2. Tidy /\ [Next]_vars => Tidy'
  BY LabelledStep, OwnerStep, HomeStep, LinkStep, SightStep, PathStep, LitterStep
     DEF Tidy, Sighted, Owned
<1>3. Tidy => NoLitter
  BY DEF Tidy, LitterInv, NoLitter, Settled
<1>4. QED
  BY <1>1, <1>2, <1>3, PTL DEF Spec
=============================================================================
