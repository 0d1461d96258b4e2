----------------------------- MODULE Scan_proofs -----------------------------
(***************************************************************************)
(* What a scan promises on every tree and under any edits: what is         *)
(* analysed of a source is one whole content it had, no source is missed   *)
(* without a word, and the handlers of import fallbacks take every         *)
(* inserted directory into account.                                        *)
(***************************************************************************)
EXTENDS Scan, FiniteInduction, SequenceTheorems

Names == Range(NameOrder)
Paths == Seq(Names)

-----------------------------------------------------------------------------
(* Paths.  Up(p, k) are the first k names of p.                             *)

Up(p, k) == SubSeq(p, 1, k)

\* A shorter path is a path, of the names it starts with.
LEMMA UpIs ==
  ASSUME NEW p \in Paths, NEW k \in 0..Len(p)
  PROVE  /\ Up(p, k) \in Paths /\ Len(Up(p, k)) = k
         /\ \A j \in 1..k : Up(p, k)[j] = p[j]
<1>1. k \in Int /\ 1 \in Int /\ \A i \in 1..k : p[i] \in Names
  BY ElementOfSeq DEF Paths
<1>2. /\ SubSeq(p, 1, k) \in Seq(Names)
      /\ Len(SubSeq(p, 1, k)) = IF 1 <= k THEN k - 1 + 1 ELSE 0
      /\ \A i \in 1..k - 1 + 1 : SubSeq(p, 1, k)[i] = p[1 + i - 1]
  BY <1>1, SubSeqProperties
<1>3. QED
  BY <1>2 DEF Up, Paths

\* The first names of the first names, all names, and no names.
LEMMA UpOfUp ==
  ASSUME NEW p \in Paths, NEW k \in 0..Len(p)
  PROVE  /\ Up(p, Len(p)) = p /\ Up(p, 0) = <<>>
         /\ \A j \in 0..k : Up(Up(p, k), j) = Up(p, j)
<1>1. Up(p, Len(p)) = p
  BY SubSeqFull DEF Up, Paths
<1>2. Up(p, 0) = <<>>
  BY SubSeqEmpty DEF Up
<1>3. ASSUME NEW j \in 0..k PROVE Up(Up(p, k), j) = Up(p, j)
  <2>1. j \in 0..Len(p) /\ Up(p, k) \in Paths /\ Len(Up(p, k)) = k /\ \A i \in 1..k : Up(p, k)[i] = p[i]
    BY UpIs
  <2>2. /\ Up(Up(p, k), j) \in Paths /\ Len(Up(Up(p, k), j)) = j
        /\ \A i \in 1..j : Up(Up(p, k), j)[i] = Up(p, k)[i]
    BY <2>1, UpIs
  <2>3. Up(p, j) \in Paths /\ Len(Up(p, j)) = j /\ \A i \in 1..j : Up(p, j)[i] = p[i]
    BY <2>1, UpIs
  <2>4. \A i \in 1..j : Up(Up(p, k), j)[i] = Up(p, j)[i]
    BY <2>1, <2>2, <2>3
  <2> DEFINE s == Up(Up(p, k), j)
             t == Up(p, j)
  <2>5. s \in Seq(Names) /\ t \in Seq(Names) /\ Len(s) = Len(t) /\ \A i \in 1..Len(s) : s[i] = t[i]
    BY <2>2, <2>3, <2>4 DEF Paths
  <2> HIDE DEF s, t
  <2>6. s = t
    BY <2>5, SeqEqual
  <2>7. QED
    BY <2>6 DEF s, t
<1>4. QED
  BY <1>1, <1>2, <1>3

\* A path with one more name.
LEMMA OneNameMore ==
  ASSUME NEW p \in Paths, NEW n \in Names
  PROVE  /\ Append(p, n) \in Paths /\ Len(Append(p, n)) = Len(p) + 1
         /\ \A j \in 1..Len(p) : Append(p, n)[j] = p[j]
         /\ Append(p, n)[Len(p) + 1] = n /\ Last(Append(p, n)) = n
         /\ Up(Append(p, n), Len(p)) = p /\ Front(Append(p, n)) = p
         /\ \A k \in 0..Len(p) : Up(Append(p, n), k) = Up(p, k)
<1> DEFINE q == Append(p, n)
<1>1. /\ q \in Seq(Names) /\ Len(q) = Len(p) + 1 /\ q[Len(p) + 1] = n
      /\ \A j \in 1..Len(p) : q[j] = p[j]
  BY DEF Paths
<1>2. Len(p) \in Nat /\ Len(p) \in 0..Len(q)
  BY <1>1 DEF Paths
<1> HIDE DEF q
<1>3. ASSUME NEW k \in 0..Len(p) PROVE Up(q, k) = Up(p, k)
  <2>1. Up(q, k) \in Paths /\ Len(Up(q, k)) = k /\ \A i \in 1..k : Up(q, k)[i] = q[i]
    <3>1. q \in Paths /\ k \in 0..Len(q)
      BY <1>1, <1>2 DEF Paths
    <3>2. QED
      BY <3>1, UpIs
  <2>2. Up(p, k) \in Paths /\ Len(Up(p, k)) = k /\ \A i \in 1..k : Up(p, k)[i] = p[i]
    BY UpIs
  <2>3. \A i \in 1..k : Up(q, k)[i] = Up(p, k)[i]
    BY <1>1, <1>2, <2>1, <2>2
  <2> DEFINE s == Up(q, k)
             t == Up(p, k)
  <2>4. s \in Seq(Names) /\ t \in Seq(Names) /\ Len(s) = Len(t) /\ \A i \in 1..Len(s) : s[i] = t[i]
    BY <2>1, <2>2, <2>3 DEF Paths
  <2> HIDE DEF s, t
  <2>5. s = t
    BY <2>4, SeqEqual
  <2>6. QED
    BY <2>5 DEF s, t
<1>4. Up(p, Len(p)) = p /\ Len(p) \in 0..Len(p)
  BY <1>2, UpOfUp
<1>5. Up(q, Len(p)) = p
  BY <1>3, <1>4
<1>6. Front(q) = p /\ Last(q) = n
  BY <1>1, <1>2, <1>5 DEF Front, Last, Up
<1>7. QED
  BY <1>1, <1>2, <1>3, <1>5, <1>6 DEF q, Paths

\* A path is the path above it with its last name.
LEMMA NameByName ==
  ASSUME NEW p \in Paths, NEW k \in 1..Len(p)
  PROVE  /\ p[k] \in Names /\ k - 1 \in 0..Len(p)
         /\ Up(p, k) = Append(Up(p, k - 1), p[k])
<1>1. p[k] \in Names /\ k - 1 \in 0..Len(p) /\ k \in 0..Len(p)
  BY ElementOfSeq DEF Paths
<1>2. Up(p, k - 1) \in Paths /\ Len(Up(p, k - 1)) = k - 1 /\ \A j \in 1..k - 1 : Up(p, k - 1)[j] = p[j]
  BY <1>1, UpIs
<1>3. Up(p, k) \in Paths /\ Len(Up(p, k)) = k /\ \A j \in 1..k : Up(p, k)[j] = p[j]
  BY <1>1, UpIs
<1> DEFINE s == Up(p, k)
           t == Append(Up(p, k - 1), p[k])
<1>4. /\ t \in Paths /\ Len(t) = k /\ t[k] = p[k]
      /\ \A j \in 1..k - 1 : t[j] = p[j]
  <2>1. /\ t \in Paths /\ Len(t) = (k - 1) + 1 /\ t[(k - 1) + 1] = p[k]
        /\ \A j \in 1..k - 1 : t[j] = Up(p, k - 1)[j]
    BY <1>1, <1>2, OneNameMore
  <2> HIDE DEF t
  <2>2. (k - 1) + 1 = k
    OBVIOUS
  <2>3. QED
    BY <1>2, <2>1, <2>2
<1>5. \A j \in 1..k : s[j] = t[j]
  BY <1>3, <1>4
<1> HIDE DEF s, t
<1>6. s \in Seq(Names) /\ t \in Seq(Names) /\ Len(s) = Len(t) /\ \A j \in 1..Len(s) : s[j] = t[j]
  BY <1>3, <1>4, <1>5 DEF Paths, s
<1>7. s = t
  BY <1>6, SeqEqual
<1>8. QED
  BY <1>1, <1>7 DEF s, t

\* The prefixes of a path are its first names, in the model's words.
LEMMA PrefixIs ==
  ASSUME NEW p \in Paths
  PROVE  /\ Prefixes(p) = {Up(p, k) : k \in 0..Len(p)}
         /\ p # <<>> => /\ Len(p) - 1 \in 0..Len(p) /\ Len(p) \in 1..Len(p)
                        /\ Front(p) = Up(p, Len(p) - 1) /\ Last(p) = p[Len(p)]
                        /\ Above(p) = Front(p) /\ Front(p) \in Paths /\ Last(p) \in Names
                        /\ p = Append(Front(p), Last(p)) /\ Len(Front(p)) = Len(p) - 1
         /\ \A d \in Paths : IsPrefix(d, p) <=> Len(d) \in 0..Len(p) /\ d = Up(p, Len(d))
<1>0. Len(p) \in Nat
  BY DEF Paths
<1>1. Prefixes(p) = {Up(p, k) : k \in 0..Len(p)}
  BY DEF Prefixes, Up
<1>2. ASSUME p # <<>>
      PROVE  /\ Len(p) - 1 \in 0..Len(p) /\ Len(p) \in 1..Len(p)
             /\ Front(p) = Up(p, Len(p) - 1) /\ Last(p) = p[Len(p)]
             /\ Above(p) = Front(p) /\ Front(p) \in Paths /\ Last(p) \in Names
             /\ p = Append(Front(p), Last(p)) /\ Len(Front(p)) = Len(p) - 1
  <2>1. Len(p) # 0
    BY <1>2, EmptySeq DEF Paths
  <2>2. Len(p) - 1 \in 0..Len(p) /\ Len(p) \in 1..Len(p)
    BY <1>0, <2>1
  <2>3. Front(p) = Up(p, Len(p) - 1) /\ Last(p) = p[Len(p)] /\ Above(p) = Front(p)
    BY <1>2 DEF Front, Last, Above, Up
  <2>4. Up(p, Len(p)) = Append(Up(p, Len(p) - 1), p[Len(p)]) /\ p[Len(p)] \in Names
    BY <2>2, NameByName
  <2>5. Up(p, Len(p)) = p
    BY <2>2, UpOfUp
  <2>6. Up(p, Len(p) - 1) \in Paths /\ Len(Up(p, Len(p) - 1)) = Len(p) - 1
    BY <2>2, UpIs
  <2>7. QED
    BY <2>2, <2>3, <2>4, <2>5, <2>6
<1>3. ASSUME NEW d \in Paths
      PROVE  IsPrefix(d, p) <=> Len(d) \in 0..Len(p) /\ d = Up(p, Len(d))
  <2>1. Len(d) \in Nat /\ SubSeq(d, 1, Len(d)) = d
    BY SubSeqFull DEF Paths
  <2>2. QED
    BY <1>0, <2>1 DEF IsPrefix, Up
<1>4. QED
  BY <1>1, <1>2, <1>3

-----------------------------------------------------------------------------
(* Looking a path up, one name after another.                               *)

\* The inodes on the way along the first m names, without links and with.
Chain(t, i, p, m, g) == g = [k \in 0..m |-> IF k = 0 THEN i ELSE Child(t, g[k - 1], p[k])]
Trail(t, p, m, g) == g = [k \in 0..m |-> IF k = 0 THEN Root ELSE Child(t, Target(t, g[k - 1]), p[k])]

LEMMA BelowChain ==
  ASSUME NEW t, NEW i, NEW p
  PROVE  Below(t, i, p) = (CHOOSE g : Chain(t, i, p, Len(p), g))[Len(p)]
  BY DEF Below, Chain

LEMMA LstatTrail ==
  ASSUME NEW t, NEW p
  PROVE  Lstat(t, p) = (CHOOSE g : Trail(t, p, Len(p), g))[Len(p)]
  BY DEF Lstat, Trail

LEMMA ChainExists ==
  ASSUME NEW t, NEW i, NEW p, NEW m \in Nat PROVE \E g : Chain(t, i, p, m, g)
<1> DEFINE C == {k \in 0..m : \E g : Chain(t, i, p, k, g)}
<1>1. 0 \in C
  <2>1. Chain(t, i, p, 0, [k \in 0..0 |-> i])
    BY DEF Chain
  <2>2. QED
    BY <2>1
<1>2. ASSUME NEW k \in 0..m, k # m, k \in C PROVE k + 1 \in C
  <2>1. PICK g : Chain(t, i, p, k, g)
    BY <1>2
  <2> DEFINE h == [j \in 0..k + 1 |-> IF j = k + 1 THEN Child(t, g[k], p[k + 1]) ELSE g[j]]
  <2>2. Chain(t, i, p, k + 1, h)
    <3>1. ASSUME NEW j \in 0..k + 1 PROVE h[j] = IF j = 0 THEN i ELSE Child(t, h[j - 1], p[j])
      BY <2>1 DEF Chain
    <3>2. QED
      BY <3>1 DEF Chain
  <2>3. k + 1 \in 0..m
    BY <1>2
  <2>4. QED
    BY <2>2, <2>3
<1>3. m \in C
  <2> HIDE DEF C
  <2>1. QED
    BY <1>1, <1>2, CountsUp
<1>4. QED
  BY <1>3

LEMMA TrailExists ==
  ASSUME NEW t, NEW p, NEW m \in Nat PROVE \E g : Trail(t, p, m, g)
<1> DEFINE C == {k \in 0..m : \E g : Trail(t, p, k, g)}
<1>1. 0 \in C
  <2>1. Trail(t, p, 0, [k \in 0..0 |-> Root])
    BY DEF Trail
  <2>2. QED
    BY <2>1
<1>2. ASSUME NEW k \in 0..m, k # m, k \in C PROVE k + 1 \in C
  <2>1. PICK g : Trail(t, p, k, g)
    BY <1>2
  <2> DEFINE h == [j \in 0..k + 1 |-> IF j = k + 1 THEN Child(t, Target(t, g[k]), p[k + 1]) ELSE g[j]]
  <2>2. Trail(t, p, k + 1, h)
    <3>1. ASSUME NEW j \in 0..k + 1 PROVE h[j] = IF j = 0 THEN Root ELSE Child(t, Target(t, h[j - 1]), p[j])
      BY <2>1 DEF Trail
    <3>2. QED
      BY <3>1 DEF Trail
  <2>3. k + 1 \in 0..m
    BY <1>2
  <2>4. QED
    BY <2>2, <2>3
<1>3. m \in C
  <2> HIDE DEF C
  <2>1. QED
    BY <1>1, <1>2, CountsUp
<1>4. QED
  BY <1>3

\* Two ways along one path agree as far as both go.
LEMMA ChainsAgree ==
  ASSUME NEW t, NEW i, NEW p, NEW q, NEW m \in Nat, NEW n \in Nat, NEW g, NEW h,
         Chain(t, i, p, m, g), Chain(t, i, q, n, h),
         NEW k \in Nat, k <= m, k <= n, \A j \in 1..k : p[j] = q[j]
  PROVE  g[k] = h[k]
<1> DEFINE C == {j \in 0..k : g[j] = h[j]}
<1>1. 0 \in C
  BY DEF Chain
<1>2. ASSUME NEW j \in 0..k, j # k, j \in C PROVE j + 1 \in C
  <2>1. j + 1 \in 0..m /\ j + 1 \in 0..n /\ j + 1 \in 1..k /\ (j + 1) - 1 = j /\ j + 1 # 0
    BY <1>2
  <2>2. g[j + 1] = Child(t, g[j], p[j + 1]) /\ h[j + 1] = Child(t, h[j], q[j + 1])
    BY <2>1 DEF Chain
  <2>3. QED
    BY <1>2, <2>1, <2>2
<1> HIDE DEF C
<1>3. k \in C
  BY <1>1, <1>2, CountsUp
<1>4. QED
  BY <1>3 DEF C

LEMMA TrailsAgree ==
  ASSUME NEW t, NEW p, NEW q, NEW m \in Nat, NEW n \in Nat, NEW g, NEW h,
         Trail(t, p, m, g), Trail(t, q, n, h),
         NEW k \in Nat, k <= m, k <= n, \A j \in 1..k : p[j] = q[j]
  PROVE  g[k] = h[k]
<1> DEFINE C == {j \in 0..k : g[j] = h[j]}
<1>1. 0 \in C
  BY DEF Trail
<1>2. ASSUME NEW j \in 0..k, j # k, j \in C PROVE j + 1 \in C
  <2>1. j + 1 \in 0..m /\ j + 1 \in 0..n /\ j + 1 \in 1..k /\ (j + 1) - 1 = j /\ j + 1 # 0
    BY <1>2
  <2>2. g[j + 1] = Child(t, Target(t, g[j]), p[j + 1]) /\ h[j + 1] = Child(t, Target(t, h[j]), q[j + 1])
    BY <2>1 DEF Trail
  <2>3. QED
    BY <1>2, <2>1, <2>2
<1> HIDE DEF C
<1>3. k \in C
  BY <1>1, <1>2, CountsUp
<1>4. QED
  BY <1>3 DEF C

\* One name further.
LEMMA BelowStep ==
  ASSUME NEW t, NEW i, NEW p \in Paths, NEW n \in Names
  PROVE  Below(t, i, Append(p, n)) = Child(t, Below(t, i, p), n)
<1> DEFINE q == Append(p, n)
           g == CHOOSE f : Chain(t, i, p, Len(p), f)
           h == CHOOSE f : Chain(t, i, q, Len(q), f)
<1>0. Len(p) \in Nat /\ Len(q) = Len(p) + 1 /\ q[Len(q)] = n /\ \A j \in 1..Len(p) : p[j] = q[j]
  BY OneNameMore DEF Paths
<1>1. Chain(t, i, p, Len(p), g)
  BY <1>0, ChainExists
<1>2. Chain(t, i, q, Len(q), h)
  <2>1. Len(q) \in Nat
    BY <1>0
  <2> HIDE DEF q
  <2>2. \E f : Chain(t, i, q, Len(q), f)
    BY <2>1, ChainExists
  <2>3. QED
    BY <2>2
<1>3. Below(t, i, p) = g[Len(p)] /\ Below(t, i, q) = h[Len(q)]
  BY BelowChain
<1> HIDE DEF g, h, q
<1>4. g[Len(p)] = h[Len(p)]
  <2> DEFINE a == Len(p)
             b == Len(q)
  <2>1. a \in Nat /\ b \in Nat /\ a <= a /\ a <= b /\ \A j \in 1..a : p[j] = q[j]
    BY <1>0
  <2>2. Chain(t, i, p, a, g) /\ Chain(t, i, q, b, h)
    BY <1>1, <1>2
  <2> HIDE DEF a, b
  <2>3. g[a] = h[a]
    BY <2>1, <2>2, ChainsAgree
  <2>4. QED
    BY <2>3 DEF a
<1>5. h[Len(q)] = Child(t, h[Len(p)], n)
  BY <1>0, <1>2 DEF Chain
<1>6. QED
  BY <1>3, <1>4, <1>5 DEF q

LEMMA BelowNothing ==
  ASSUME NEW t, NEW i PROVE Below(t, i, <<>>) = i
<1> DEFINE g == CHOOSE f : Chain(t, i, <<>>, 0, f)
<1>1. Chain(t, i, <<>>, 0, g)
  BY ChainExists
<1>2. Len(<<>>) = 0 /\ Below(t, i, <<>>) = g[Len(<<>>)]
  BY BelowChain
<1>3. QED
  BY <1>1, <1>2 DEF Chain

LEMMA LstatStep ==
  ASSUME NEW t, NEW p \in Paths, NEW n \in Names
  PROVE  Lstat(t, Append(p, n)) = Child(t, Resolved(t, p), n)
<1> DEFINE q == Append(p, n)
           g == CHOOSE f : Trail(t, p, Len(p), f)
           h == CHOOSE f : Trail(t, q, Len(q), f)
<1>0. Len(p) \in Nat /\ Len(q) = Len(p) + 1 /\ q[Len(q)] = n /\ \A j \in 1..Len(p) : p[j] = q[j]
  BY OneNameMore DEF Paths
<1>1. Trail(t, p, Len(p), g)
  BY <1>0, TrailExists
<1>2. Trail(t, q, Len(q), h)
  <2>1. Len(q) \in Nat
    BY <1>0
  <2> HIDE DEF q
  <2>2. \E f : Trail(t, q, Len(q), f)
    BY <2>1, TrailExists
  <2>3. QED
    BY <2>2
<1>3. Lstat(t, p) = g[Len(p)] /\ Lstat(t, q) = h[Len(q)]
  BY LstatTrail
<1> HIDE DEF g, h, q
<1>4. g[Len(p)] = h[Len(p)]
  <2> DEFINE a == Len(p)
             b == Len(q)
  <2>1. a \in Nat /\ b \in Nat /\ a <= a /\ a <= b /\ \A j \in 1..a : p[j] = q[j]
    BY <1>0
  <2>2. Trail(t, p, a, g) /\ Trail(t, q, b, h)
    BY <1>1, <1>2
  <2> HIDE DEF a, b
  <2>3. g[a] = h[a]
    BY <2>1, <2>2, TrailsAgree
  <2>4. QED
    BY <2>3 DEF a
<1>5. h[Len(q)] = Child(t, Target(t, h[Len(p)]), n)
  BY <1>0, <1>2 DEF Trail
<1>6. QED
  BY <1>3, <1>4, <1>5 DEF q, Resolved

LEMMA LstatNothing ==
  ASSUME NEW t PROVE Lstat(t, <<>>) = Root
<1> DEFINE g == CHOOSE f : Trail(t, <<>>, 0, f)
<1>1. Trail(t, <<>>, 0, g)
  BY TrailExists
<1>2. Len(<<>>) = 0 /\ Lstat(t, <<>>) = g[Len(<<>>)]
  BY LstatTrail
<1>3. QED
  BY <1>1, <1>2 DEF Trail

-----------------------------------------------------------------------------
(* Trees.                                                                   *)

Inodes(t) == DOMAIN t \cup {None}

LEMMA InodeIs ==
  ASSUME NEW t, IsTree(t), NEW i \in Inodes(t)
  PROVE  /\ i # None <=> i \in DOMAIN t
         /\ i \in DOMAIN t => Inode(t, i) = t[i] /\ t[i].kind \in {"dir", "file", "link"}
         /\ i = None => Inode(t, i).kind = "none"
         /\ \A n \in Names : /\ Child(t, i, n) \in Inodes(t)
                             /\ Child(t, i, n) # None =>
                                  /\ i \in DOMAIN t /\ t[i].kind = "dir" /\ n \in DOMAIN t[i].at
                                  /\ Child(t, i, n) = t[i].at[n]
<1>1. None \notin DOMAIN t
  BY DEF IsTree
<1>2. i # None <=> i \in DOMAIN t
  BY <1>1 DEF Inodes
<1>3. i \in DOMAIN t => Inode(t, i) = t[i] /\ t[i].kind \in {"dir", "file", "link"}
  BY <1>2 DEF Inode, IsTree
<1>4. i = None => Inode(t, i).kind = "none"
  BY DEF Inode, Nothing
<1>5. ASSUME NEW n \in Names
      PROVE  /\ Child(t, i, n) \in Inodes(t)
             /\ Child(t, i, n) # None =>
                  /\ i \in DOMAIN t /\ t[i].kind = "dir" /\ n \in DOMAIN t[i].at
                  /\ Child(t, i, n) = t[i].at[n]
  <2>1. CASE Inode(t, i).kind = "dir" /\ n \in DOMAIN t[i].at
    <3>1. i \in DOMAIN t /\ t[i].kind = "dir"
      BY <1>2, <1>3, <1>4, <2>1
    <3>2. t[i].at \in [DOMAIN t[i].at -> DOMAIN t]
      BY <3>1 DEF IsTree
    <3>3. Child(t, i, n) = t[i].at[n] /\ t[i].at[n] \in DOMAIN t
      BY <2>1, <3>2 DEF Child
    <3>4. QED
      BY <2>1, <3>1, <3>3 DEF Inodes
  <2>2. CASE ~(Inode(t, i).kind = "dir" /\ n \in DOMAIN t[i].at)
    BY <2>2 DEF Child, Inodes
  <2>3. QED
    BY <2>1, <2>2
<1>6. QED
  BY <1>2, <1>3, <1>4, <1>5

\* A path leads to an inode of the tree or to nothing.
LEMMA BelowInside ==
  ASSUME NEW t, IsTree(t), NEW i \in Inodes(t), NEW p \in Paths
  PROVE  Below(t, i, p) \in Inodes(t)
<1> DEFINE C == {k \in 0..Len(p) : Below(t, i, Up(p, k)) \in Inodes(t)}
<1>0. Len(p) \in Nat /\ Up(p, 0) = <<>> /\ Up(p, Len(p)) = p
  BY UpOfUp DEF Paths
<1>1. 0 \in C
  BY <1>0, BelowNothing
<1>2. ASSUME NEW k \in 0..Len(p), k # Len(p), k \in C PROVE k + 1 \in C
  <2>1. k + 1 \in 1..Len(p) /\ (k + 1) - 1 = k
    BY <1>0, <1>2
  <2>2. Up(p, k + 1) = Append(Up(p, k), p[k + 1]) /\ p[k + 1] \in Names
    BY <2>1, NameByName
  <2>3. Up(p, k) \in Paths
    BY UpIs
  <2>4. Below(t, i, Append(Up(p, k), p[k + 1])) = Child(t, Below(t, i, Up(p, k)), p[k + 1])
    BY <2>2, <2>3, BelowStep
  <2>5. Child(t, Below(t, i, Up(p, k)), p[k + 1]) \in Inodes(t)
    BY <1>2, <2>2, InodeIs
  <2>6. k + 1 \in 0..Len(p)
    BY <2>1
  <2>7. QED
    BY <2>2, <2>4, <2>5, <2>6
<1> HIDE DEF C
<1>3. Len(p) \in C
  BY <1>0, <1>1, <1>2, CountsUp
<1>4. QED
  BY <1>0, <1>3 DEF C

LEMMA AtInside ==
  ASSUME NEW t, IsTree(t), NEW p \in Paths
  PROVE  /\ At(t, p) \in Inodes(t) /\ At(t, <<>>) = Root
         /\ \A n \in Names : At(t, Append(p, n)) = Child(t, At(t, p), n)
<1>1. Root \in Inodes(t)
  BY DEF IsTree, Inodes
<1>2. QED
  BY <1>1, BelowInside, BelowNothing, BelowStep DEF At

LEMMA TargetInside ==
  ASSUME NEW t, IsTree(t), NEW i \in Inodes(t)
  PROVE  /\ Target(t, i) \in Inodes(t)
         /\ Inode(t, i).kind # "link" => Target(t, i) = i
<1>1. CASE Inode(t, i).kind = "link"
  <2>1. i \in DOMAIN t /\ t[i].kind = "link"
    BY <1>1, InodeIs
  <2>2. t[i].from \in Inodes(t) /\ t[i].to \in Paths
    BY <2>1 DEF IsTree, Inodes, Paths, Names
  <2>3. Below(t, t[i].from, t[i].to) \in Inodes(t)
    BY <2>2, BelowInside
  <2>4. QED
    BY <1>1, <2>3 DEF Target
<1>2. CASE Inode(t, i).kind # "link"
  BY <1>2 DEF Target
<1>3. QED
  BY <1>1, <1>2

LEMMA LstatInside ==
  ASSUME NEW t, IsTree(t), NEW p \in Paths
  PROVE  Lstat(t, p) \in Inodes(t) /\ Resolved(t, p) \in Inodes(t)
<1> DEFINE C == {k \in 0..Len(p) : Lstat(t, Up(p, k)) \in Inodes(t)}
<1>0. Len(p) \in Nat /\ Up(p, 0) = <<>> /\ Up(p, Len(p)) = p
  BY UpOfUp DEF Paths
<1>1. 0 \in C
  BY <1>0, LstatNothing DEF IsTree, Inodes
<1>2. ASSUME NEW k \in 0..Len(p), k # Len(p), k \in C PROVE k + 1 \in C
  <2>1. k + 1 \in 1..Len(p) /\ (k + 1) - 1 = k
    BY <1>0, <1>2
  <2>2. Up(p, k + 1) = Append(Up(p, k), p[k + 1]) /\ p[k + 1] \in Names
    BY <2>1, NameByName
  <2>3. Up(p, k) \in Paths
    BY UpIs
  <2>4. Lstat(t, Up(p, k + 1)) = Child(t, Target(t, Lstat(t, Up(p, k))), p[k + 1])
    BY <2>2, <2>3, LstatStep DEF Resolved
  <2>5. Target(t, Lstat(t, Up(p, k))) \in Inodes(t)
    BY <1>2, TargetInside
  <2>6. QED
    BY <1>2, <2>1, <2>2, <2>4, <2>5, InodeIs
<1> HIDE DEF C
<1>3. Len(p) \in C
  BY <1>0, <1>1, <1>2, CountsUp
<1>4. Lstat(t, p) \in Inodes(t)
  BY <1>0, <1>3 DEF C
<1>5. QED
  BY <1>4, TargetInside DEF Resolved

\* Whatever is above something that is there is a directory and no link.
LEMMA AboveThere ==
  ASSUME NEW t, IsTree(t), NEW p \in Paths, At(t, p) # None, NEW k \in 0..Len(p)
  PROVE  /\ At(t, Up(p, k)) \in DOMAIN t
         /\ k < Len(p) => /\ t[At(t, Up(p, k))].kind = "dir"
                          /\ p[k + 1] \in DOMAIN t[At(t, Up(p, k))].at
                          /\ At(t, Up(p, k + 1)) = t[At(t, Up(p, k))].at[p[k + 1]]
<1>0. Len(p) \in Nat /\ Up(p, Len(p)) = p
  BY UpOfUp DEF Paths
<1>1. ASSUME NEW j \in 0..Len(p), j < Len(p), At(t, Up(p, j + 1)) # None
      PROVE  /\ At(t, Up(p, j)) # None /\ t[At(t, Up(p, j))].kind = "dir"
             /\ p[j + 1] \in DOMAIN t[At(t, Up(p, j))].at
             /\ At(t, Up(p, j + 1)) = t[At(t, Up(p, j))].at[p[j + 1]]
  <2>1. j + 1 \in 1..Len(p) /\ (j + 1) - 1 = j
    BY <1>0, <1>1
  <2>2. Up(p, j + 1) = Append(Up(p, j), p[j + 1]) /\ p[j + 1] \in Names
    BY <2>1, NameByName
  <2>3. Up(p, j) \in Paths
    BY UpIs
  <2>4. At(t, Up(p, j + 1)) = Child(t, At(t, Up(p, j)), p[j + 1]) /\ At(t, Up(p, j)) \in Inodes(t)
    BY <2>2, <2>3, AtInside
  <2>5. QED
    BY <1>1, <2>2, <2>4, InodeIs
<1> DEFINE C == {j \in 0..Len(p) : At(t, Up(p, Len(p) - j)) # None}
<1>2. 0 \in C
  BY <1>0
<1>3. ASSUME NEW j \in 0..Len(p), j # Len(p), j \in C PROVE j + 1 \in C
  <2>1. /\ Len(p) - (j + 1) \in 0..Len(p) /\ Len(p) - (j + 1) < Len(p)
        /\ (Len(p) - (j + 1)) + 1 = Len(p) - j /\ j + 1 \in 0..Len(p)
    BY <1>0, <1>3
  <2>2. At(t, Up(p, Len(p) - (j + 1))) # None
    BY <1>1, <1>3, <2>1
  <2>3. QED
    BY <2>1, <2>2
<1>4. ASSUME NEW j \in 0..Len(p) PROVE At(t, Up(p, j)) # None
  <2>1. Len(p) - j \in Nat /\ Len(p) - (Len(p) - j) = j /\ \A i \in 0..Len(p) - j : i \in 0..Len(p)
    BY <1>0
  <2>2. \A i \in 0..Len(p) - j : i # Len(p) - j /\ i \in C => i + 1 \in C
    BY <1>0, <1>3, <2>1
  <2> HIDE DEF C
  <2>3. Len(p) - j \in C
    <3> DEFINE n == Len(p) - j
    <3>1. n \in Nat /\ \A i \in 0..n : i # n /\ i \in C => i + 1 \in C
      BY <2>1, <2>2
    <3> HIDE DEF n
    <3>2. n \in C
      BY <1>2, <3>1, CountsUp
    <3>3. QED
      BY <3>2 DEF n
  <2>4. QED
    BY <2>1, <2>3 DEF C
<1>5. At(t, Up(p, k)) \in DOMAIN t
  <2>1. Up(p, k) \in Paths
    BY UpIs
  <2>2. QED
    BY <1>4, <2>1, AtInside, InodeIs
<1>6. ASSUME k < Len(p)
      PROVE  /\ t[At(t, Up(p, k))].kind = "dir" /\ p[k + 1] \in DOMAIN t[At(t, Up(p, k))].at
             /\ At(t, Up(p, k + 1)) = t[At(t, Up(p, k))].at[p[k + 1]]
  <2>1. k + 1 \in 0..Len(p)
    BY <1>0, <1>6
  <2>2. QED
    BY <1>1, <1>4, <1>6, <2>1
<1>7. QED
  BY <1>5, <1>6

\* So nothing is followed on the way to it.
LEMMA FoundThere ==
  ASSUME NEW t, IsTree(t), NEW p \in Paths, At(t, p) # None, NEW k \in 0..Len(p)
  PROVE  /\ Lstat(t, Up(p, k)) = At(t, Up(p, k))
         /\ k < Len(p) => /\ ~IsLink(t, Up(p, k)) /\ IsDirectory(t, Up(p, k))
                          /\ Resolved(t, Up(p, k)) = At(t, Up(p, k))
<1>0. Len(p) \in Nat /\ Up(p, 0) = <<>>
  BY UpOfUp DEF Paths
<1>1. ASSUME NEW j \in 0..Len(p), j < Len(p), Lstat(t, Up(p, j)) = At(t, Up(p, j))
      PROVE  /\ ~IsLink(t, Up(p, j)) /\ IsDirectory(t, Up(p, j))
             /\ Resolved(t, Up(p, j)) = At(t, Up(p, j))
  <2>1. At(t, Up(p, j)) \in DOMAIN t /\ t[At(t, Up(p, j))].kind = "dir"
    BY <1>1, AboveThere
  <2>2. At(t, Up(p, j)) \in Inodes(t) /\ Inode(t, At(t, Up(p, j))).kind = "dir"
    BY <2>1, InodeIs DEF Inodes
  <2>3. Target(t, At(t, Up(p, j))) = At(t, Up(p, j))
    BY <2>2, TargetInside
  <2>4. QED
    BY <1>1, <2>2, <2>3 DEF IsLink, IsDirectory, Resolved
<1> DEFINE C == {j \in 0..Len(p) : Lstat(t, Up(p, j)) = At(t, Up(p, j))}
<1>2. 0 \in C
  BY <1>0, LstatNothing, BelowNothing DEF At
<1>3. ASSUME NEW j \in 0..Len(p), j # Len(p), j \in C PROVE j + 1 \in C
  <2>1. j + 1 \in 1..Len(p) /\ (j + 1) - 1 = j /\ j < Len(p)
    BY <1>0, <1>3
  <2>2. Up(p, j + 1) = Append(Up(p, j), p[j + 1]) /\ p[j + 1] \in Names
    BY <2>1, NameByName
  <2>3. Up(p, j) \in Paths
    BY UpIs
  <2>4. /\ Lstat(t, Up(p, j + 1)) = Child(t, Resolved(t, Up(p, j)), p[j + 1])
        /\ At(t, Up(p, j + 1)) = Child(t, At(t, Up(p, j)), p[j + 1])
    BY <2>2, <2>3, LstatStep, AtInside
  <2>5. Resolved(t, Up(p, j)) = At(t, Up(p, j))
    BY <1>1, <1>3, <2>1
  <2>6. QED
    BY <2>1, <2>4, <2>5
<1>4. k \in C
  <2>1. k \in Nat /\ \A i \in 0..k : i # k /\ i \in C => i + 1 \in C
    BY <1>0, <1>3
  <2> HIDE DEF C
  <2>2. QED
    BY <1>2, <2>1, CountsUp
<1>5. QED
  BY <1>1, <1>4

\* The root is a directory.
LEMMA RootIs ==
  ASSUME NEW t, IsTree(t)
  PROVE  /\ Lstat(t, <<>>) = Root /\ Resolved(t, <<>>) = Root /\ Inode(t, Root) = t[Root]
         /\ IsDirectory(t, <<>>) /\ ~IsLink(t, <<>>)
<1>1. Lstat(t, <<>>) = Root /\ Root \in Inodes(t) /\ Inode(t, Root) = t[Root] /\ t[Root].kind = "dir"
  BY LstatNothing, InodeIs DEF IsTree, Inodes
<1>2. QED
  BY <1>1, TargetInside DEF Resolved, IsDirectory, IsLink

-----------------------------------------------------------------------------
(* Edits.  A tree stays a tree of the same inodes; a file that changes, or  *)
(* whose name changes, has a later stamp.                                   *)

\* The same inodes of the same kinds, and no stamp that goes back.
Follower(t, u) ==
  /\ IsTree(u) /\ DOMAIN u = DOMAIN t
  /\ \A i \in DOMAIN t :
       /\ u[i].kind = t[i].kind
       /\ t[i].kind = "file" => u[i].stamp \in Nat /\ t[i].stamp <= u[i].stamp

\* A file with its old stamp is what it was, where it was.
Witness(t, u) ==
  \A i \in DOMAIN t : t[i].kind = "file" /\ u[i].stamp = t[i].stamp =>
     /\ u[i].content = t[i].content
     /\ \A d \in Inodes(t), n \in Names : Child(t, d, n) = i => Child(u, d, n) = i

LEMMA StampedIs ==
  ASSUME NEW t, IsTree(t), NEW i \in Inodes(t)
  PROVE  LET u == Stamped(t, i) IN
         /\ IsTree(u) /\ DOMAIN u = DOMAIN t
         /\ \A j \in DOMAIN t :
              /\ u[j].kind = t[j].kind
              /\ t[j].kind = "dir" => u[j] = t[j]
              /\ t[j].kind = "file" => /\ u[j].content = t[j].content
                                       /\ u[j].stamp = IF j = i THEN t[j].stamp + 1 ELSE t[j].stamp
<1>1. CASE Inode(t, i).kind = "file"
  <2> DEFINE u == [t EXCEPT ![i].stamp = @ + 1]
  <2>1. i \in DOMAIN t /\ t[i].kind = "file" /\ Stamped(t, i) = u
    BY <1>1, InodeIs DEF Stamped
  <2>2. /\ t[i] = [kind |-> "file", content |-> t[i].content, stamp |-> t[i].stamp]
        /\ t[i].stamp \in Nat /\ \A m \in t[i].content.mutations : m.versions \subseteq Targets
    BY <2>1 DEF IsTree
  <2>3. u[i] = [kind |-> "file", content |-> t[i].content, stamp |-> t[i].stamp + 1]
    BY <2>1, <2>2
  <2>4. DOMAIN u = DOMAIN t /\ \A j \in DOMAIN t : j # i => u[j] = t[j]
    OBVIOUS
  <2> HIDE DEF u
  <2>5. ASSUME NEW j \in DOMAIN t
        PROVE  \/ /\ u[j].kind = "dir" /\ u[j] = [kind |-> "dir", at |-> u[j].at]
                  /\ u[j].at \in [DOMAIN u[j].at -> DOMAIN u]
                  /\ DOMAIN u[j].at \subseteq Range(NameOrder)
               \/ /\ u[j].kind = "file" /\ u[j] = [kind |-> "file", content |-> u[j].content, stamp |-> u[j].stamp]
                  /\ u[j].stamp \in Nat
                  /\ \A m \in u[j].content.mutations : m.versions \subseteq Targets
               \/ /\ u[j].kind = "link" /\ u[j] = [kind |-> "link", from |-> u[j].from, to |-> u[j].to]
                  /\ u[j].from \in DOMAIN u /\ u[j].to \in Seq(Range(NameOrder))
    <3>1. CASE j = i
      BY <2>2, <2>3, <3>1
    <3>2. CASE j # i
      BY <2>4, <3>2 DEF IsTree
    <3>3. QED
      BY <3>1, <3>2
  <2>6. DOMAIN u \subseteq Nat \ {None} /\ Root \in DOMAIN u /\ u[Root].kind = "dir"
    BY <2>1, <2>4 DEF IsTree
  <2>7. IsTree(u)
    BY <2>4, <2>5, <2>6 DEF IsTree
  <2>8. QED
    BY <2>1, <2>2, <2>3, <2>4, <2>7
<1>2. CASE Inode(t, i).kind # "file"
  <2>1. Stamped(t, i) = t
    BY <1>2 DEF Stamped
  <2>2. i \in DOMAIN t => t[i].kind # "file"
    BY <1>2, InodeIs
  <2>3. QED
    BY <2>1, <2>2
<1>3. QED
  BY <1>1, <1>2

\* New names for a directory.
LEMMA RenamedIs ==
  ASSUME NEW t, IsTree(t), NEW d \in DOMAIN t, t[d].kind = "dir",
         NEW f, f \in [DOMAIN f -> DOMAIN t], DOMAIN f \subseteq Names
  PROVE  LET u == [t EXCEPT ![d].at = f] IN
         /\ IsTree(u) /\ DOMAIN u = DOMAIN t
         /\ \A j \in DOMAIN t : u[j].kind = t[j].kind /\ (j # d => u[j] = t[j])
         /\ u[d].at = f
<1> DEFINE u == [t EXCEPT ![d].at = f]
<1>1. t[d] = [kind |-> "dir", at |-> t[d].at]
  BY DEF IsTree
<1>2. u[d] = [kind |-> "dir", at |-> f]
  BY <1>1
<1>3. DOMAIN u = DOMAIN t /\ \A j \in DOMAIN t : j # d => u[j] = t[j]
  OBVIOUS
<1> HIDE DEF u
<1>4. ASSUME NEW j \in DOMAIN t
      PROVE  \/ /\ u[j].kind = "dir" /\ u[j] = [kind |-> "dir", at |-> u[j].at]
                /\ u[j].at \in [DOMAIN u[j].at -> DOMAIN u]
                /\ DOMAIN u[j].at \subseteq Range(NameOrder)
             \/ /\ u[j].kind = "file" /\ u[j] = [kind |-> "file", content |-> u[j].content, stamp |-> u[j].stamp]
                /\ u[j].stamp \in Nat
                /\ \A m \in u[j].content.mutations : m.versions \subseteq Targets
             \/ /\ u[j].kind = "link" /\ u[j] = [kind |-> "link", from |-> u[j].from, to |-> u[j].to]
                /\ u[j].from \in DOMAIN u /\ u[j].to \in Seq(Range(NameOrder))
  <2>1. CASE j = d
    <3>1. u[j].at = f /\ u[j].kind = "dir" /\ u[j] = [kind |-> "dir", at |-> u[j].at]
      BY <1>2, <2>1
    <3>2. QED
      BY <1>3, <3>1 DEF Names
  <2>2. CASE j # d
    BY <1>3, <2>2 DEF IsTree
  <2>3. QED
    BY <2>1, <2>2
<1>5. DOMAIN u \subseteq Nat \ {None} /\ Root \in DOMAIN u /\ u[Root].kind = "dir"
  BY <1>2, <1>3 DEF IsTree
<1>6. IsTree(u)
  BY <1>3, <1>4, <1>5 DEF IsTree
<1>7. /\ IsTree(u) /\ DOMAIN u = DOMAIN t /\ u[d].at = f
      /\ \A j \in DOMAIN t : u[j].kind = t[j].kind /\ (j # d => u[j] = t[j])
  BY <1>2, <1>3, <1>6
<1>8. QED
  BY <1>7 DEF u

\* The names of a directory that is as it was lead where they led.
LEMMA ChildSame ==
  ASSUME NEW t, IsTree(t), NEW u, IsTree(u), DOMAIN u = DOMAIN t,
         NEW d \in Inodes(t), d # None => u[d].kind = t[d].kind /\ (t[d].kind = "dir" => u[d].at = t[d].at),
         NEW n
  PROVE  Child(u, d, n) = Child(t, d, n)
<1>1. Inodes(u) = Inodes(t)
  BY DEF Inodes
<1>2. CASE d = None
  <2>1. Inode(t, d).kind = "none" /\ Inode(u, d).kind = "none"
    BY <1>1, <1>2, InodeIs
  <2>2. QED
    BY <2>1 DEF Child
<1>3. CASE d # None
  <2>1. Inode(t, d) = t[d] /\ Inode(u, d) = u[d]
    BY <1>3 DEF Inode
  <2>2. QED
    BY <1>3, <2>1 DEF Child
<1>4. QED
  BY <1>2, <1>3

TreeInv ==
  /\ scenario \in Scenarios
  /\ IsTree(tree) /\ DOMAIN tree = DOMAIN scenario.tree
  /\ \A i \in DOMAIN tree : tree[i].kind = scenario.tree[i].kind

LEMMA RebindIs ==
  ASSUME TreeInv, NEW path \in Paths, path # <<>>, NEW i \in Inodes(tree), Rebind(path, i)
  PROVE  Follower(tree, tree') /\ Witness(tree, tree') /\ scenario' = scenario
<1> DEFINE parent == At(tree, Front(path))
           old == At(tree, path)
           names == IF Inode(tree, parent).kind = "dir" THEN tree[parent].at ELSE <<>>
           bound == IF i = None THEN DOMAIN names \ {Last(path)} ELSE DOMAIN names \union {Last(path)}
           f == [n \in bound |-> IF n = Last(path) THEN i ELSE names[n]]
           u1 == [tree EXCEPT ![parent].at = f]
           u2 == Stamped(u1, old)
           u3 == Stamped(u2, i)
<1>1. IsTree(tree) /\ tree' = u3 /\ scenario' = scenario /\ Inode(tree, parent).kind = "dir"
  BY DEF Rebind, EditTo, TreeInv
<1>2. /\ Front(path) \in Paths /\ Last(path) \in Names /\ path = Append(Front(path), Last(path))
      /\ parent \in Inodes(tree) /\ old \in Inodes(tree) /\ old = Child(tree, parent, Last(path))
  <2>1. Front(path) \in Paths /\ Last(path) \in Names /\ path = Append(Front(path), Last(path))
    BY PrefixIs
  <2>2. At(tree, Front(path)) \in Inodes(tree) /\ At(tree, path) \in Inodes(tree)
    BY <1>1, <2>1, AtInside
  <2>3. At(tree, Append(Front(path), Last(path))) = Child(tree, At(tree, Front(path)), Last(path))
    BY <1>1, <2>1, AtInside
  <2>4. At(tree, path) = Child(tree, At(tree, Front(path)), Last(path))
    BY <2>1, <2>3
  <2>5. QED
    BY <2>1, <2>2, <2>4
<1>3. /\ parent \in DOMAIN tree /\ tree[parent].kind = "dir" /\ names = tree[parent].at
      /\ names \in [DOMAIN names -> DOMAIN tree] /\ DOMAIN names \subseteq Names
  <2>1. parent \in DOMAIN tree /\ tree[parent].kind = "dir"
    BY <1>1, <1>2, InodeIs
  <2>2. names = tree[parent].at
    BY <1>1
  <2>3. tree[parent].at \in [DOMAIN tree[parent].at -> DOMAIN tree] /\ DOMAIN tree[parent].at \subseteq Names
    BY <1>1, <2>1 DEF IsTree, Names
  <2> HIDE DEF names
  <2>4. QED
    BY <2>1, <2>2, <2>3
<1>4. f \in [DOMAIN f -> DOMAIN tree] /\ DOMAIN f \subseteq Names /\ DOMAIN f = bound
      /\ \A n \in bound : f[n] = IF n = Last(path) THEN i ELSE names[n]
  <2> HIDE DEF names
  <2>1. \A n \in bound : n \in Names /\ (IF n = Last(path) THEN i ELSE names[n]) \in DOMAIN tree
    <3>1. ASSUME NEW n \in bound PROVE n \in Names /\ (IF n = Last(path) THEN i ELSE names[n]) \in DOMAIN tree
      <4>1. CASE n = Last(path)
        <5>1. i # None
          BY <4>1
        <5>2. QED
          BY <1>2, <4>1, <5>1 DEF Inodes
      <4>2. CASE n # Last(path)
        <5>1. n \in DOMAIN names
          BY <4>2
        <5>2. QED
          BY <1>3, <4>2, <5>1
      <4>3. QED
        BY <4>1, <4>2
    <3>2. QED
      BY <3>1
  <2>2. QED
    BY <2>1
<1> HIDE DEF parent, old, names, f
<1>5. /\ IsTree(u1) /\ DOMAIN u1 = DOMAIN tree /\ u1[parent].at = f
      /\ \A j \in DOMAIN tree : u1[j].kind = tree[j].kind /\ (j # parent => u1[j] = tree[j])
  <2>1. f \in [DOMAIN f -> DOMAIN tree] /\ DOMAIN f \subseteq Names
    BY <1>4
  <2>2. parent \in DOMAIN tree /\ tree[parent].kind = "dir"
    BY <1>3
  <2>3. LET u == [tree EXCEPT ![parent].at = f] IN
        /\ IsTree(u) /\ DOMAIN u = DOMAIN tree
        /\ \A j \in DOMAIN tree : u[j].kind = tree[j].kind /\ (j # parent => u[j] = tree[j])
        /\ u[parent].at = f
    <3> HIDE DEF u1, bound, u2, u3
    <3>1. QED
      BY ONLY <1>1, <2>1, <2>2, RenamedIs
  <2>4. QED
    BY <2>3
<1> HIDE DEF u1
<1>6. /\ IsTree(u2) /\ DOMAIN u2 = DOMAIN u1
      /\ \A j \in DOMAIN u1 :
           /\ u2[j].kind = u1[j].kind
           /\ u1[j].kind = "dir" => u2[j] = u1[j]
           /\ u1[j].kind = "file" => /\ u2[j].content = u1[j].content
                                     /\ u2[j].stamp = IF j = old THEN u1[j].stamp + 1 ELSE u1[j].stamp
  <2>1. old \in Inodes(u1)
    BY <1>2, <1>5 DEF Inodes
  <2>2. QED
    BY <1>5, <2>1, StampedIs
<1> HIDE DEF u2
<1>7. /\ IsTree(u3) /\ DOMAIN u3 = DOMAIN u2
      /\ \A j \in DOMAIN u2 :
           /\ u3[j].kind = u2[j].kind
           /\ u2[j].kind = "dir" => u3[j] = u2[j]
           /\ u2[j].kind = "file" => /\ u3[j].content = u2[j].content
                                     /\ u3[j].stamp = IF j = i THEN u2[j].stamp + 1 ELSE u2[j].stamp
  <2>1. i \in Inodes(u2)
    BY <1>5, <1>6 DEF Inodes
  <2>2. QED
    BY <1>6, <2>1, StampedIs
<1> HIDE DEF u3
<1>8. ASSUME NEW j \in DOMAIN tree
      PROVE  /\ u3[j].kind = tree[j].kind
             /\ tree[j].kind = "dir" => u3[j] = u1[j]
             /\ tree[j].kind = "file" =>
                  /\ tree[j].stamp \in Nat /\ u3[j].stamp \in Nat /\ u3[j].content = tree[j].content
                  /\ tree[j].stamp <= u3[j].stamp
                  /\ j \in {old, i} => u3[j].stamp # tree[j].stamp
  <2>1. u3[j].kind = tree[j].kind /\ (tree[j].kind = "dir" => u3[j] = u1[j])
    BY <1>5, <1>6, <1>7
  <2>2. ASSUME tree[j].kind = "file"
        PROVE  /\ tree[j].stamp \in Nat /\ u3[j].stamp \in Nat /\ u3[j].content = tree[j].content
               /\ tree[j].stamp <= u3[j].stamp
               /\ j \in {old, i} => u3[j].stamp # tree[j].stamp
    <3>1. tree[j].stamp \in Nat
      BY <1>1, <2>2 DEF IsTree
    <3>2. u1[j] = tree[j]
      BY <1>3, <1>5, <2>2
    <3>3. u2[j].content = tree[j].content /\ u2[j].kind = "file"
          /\ u2[j].stamp = IF j = old THEN tree[j].stamp + 1 ELSE tree[j].stamp
      BY <1>5, <1>6, <2>2, <3>2
    <3>4. u3[j].content = tree[j].content
          /\ u3[j].stamp = IF j = i THEN u2[j].stamp + 1 ELSE u2[j].stamp
      BY <1>5, <1>6, <1>7, <3>3
    <3>5. QED
      BY <3>1, <3>3, <3>4
  <2>3. QED
    BY <2>1, <2>2
<1>9. Follower(tree, u3)
  BY <1>5, <1>6, <1>7, <1>8 DEF Follower
<1>10. ASSUME NEW j \in DOMAIN tree, tree[j].kind = "file", u3[j].stamp = tree[j].stamp,
              NEW d \in Inodes(tree), NEW n \in Names, Child(tree, d, n) = j
       PROVE  Child(u3, d, n) = j
  <2>1. j # None /\ j # old /\ j # i
    BY <1>1, <1>8, <1>10 DEF IsTree
  <2>2. d \in DOMAIN tree /\ tree[d].kind = "dir" /\ n \in DOMAIN tree[d].at /\ j = tree[d].at[n]
    BY <1>1, <1>10, <2>1, InodeIs
  <2>3. d \in Inodes(u3) /\ d # None /\ Inode(u3, d) = u3[d] /\ u3[d] = u1[d] /\ u3[d].kind = "dir"
    BY <1>1, <1>5, <1>6, <1>7, <1>8, <2>2, InodeIs DEF Inodes
  <2>4. CASE d = parent
    <3>1. n # Last(path)
      BY <1>2, <1>10, <2>1, <2>4
    <3>2. n \in DOMAIN names /\ names[n] = j
      BY <1>3, <2>2, <2>4
    <3>3. n \in bound /\ f[n] = j
      BY <1>4, <3>1, <3>2
    <3>4. u3[d].at = f
      BY <1>5, <2>3, <2>4
    <3>5. QED
      BY <1>4, <2>3, <3>3, <3>4 DEF Child
  <2>5. CASE d # parent
    <3>1. u3[d] = tree[d]
      BY <1>5, <2>2, <2>3, <2>5
    <3>2. QED
      BY <2>2, <2>3, <3>1 DEF Child
  <2>6. QED
    BY <2>4, <2>5
<1>11. Witness(tree, u3)
  BY <1>8, <1>10 DEF Witness
<1>12. QED
  BY <1>1, <1>9, <1>11

LEMMA RewriteIs ==
  ASSUME TreeInv, NEW i \in scenario.writable, NEW content \in scenario.contents, Rewrite(i, content)
  PROVE  Follower(tree, tree') /\ Witness(tree, tree') /\ scenario' = scenario
<1> DEFINE u1 == [tree EXCEPT ![i].content = content]
           u2 == Stamped(u1, i)
<1>1. IsTree(tree) /\ tree' = u2 /\ scenario' = scenario /\ scenario \in Scenarios
  BY DEF Rewrite, EditTo, TreeInv
<1>2. /\ i \in DOMAIN tree /\ tree[i].kind = "file"
      /\ \A m \in content.mutations : m.versions \subseteq Targets
  BY <1>1, ScenariosAssumption DEF TreeInv
<1>3. tree[i] = [kind |-> "file", content |-> tree[i].content, stamp |-> tree[i].stamp] /\ tree[i].stamp \in Nat
  BY <1>1, <1>2 DEF IsTree
<1>4. u1[i] = [kind |-> "file", content |-> content, stamp |-> tree[i].stamp]
  BY <1>2, <1>3
<1>5. DOMAIN u1 = DOMAIN tree /\ \A j \in DOMAIN tree : j # i => u1[j] = tree[j]
  OBVIOUS
<1> HIDE DEF u1
<1>6. ASSUME NEW j \in DOMAIN tree
      PROVE  \/ /\ u1[j].kind = "dir" /\ u1[j] = [kind |-> "dir", at |-> u1[j].at]
                /\ u1[j].at \in [DOMAIN u1[j].at -> DOMAIN u1]
                /\ DOMAIN u1[j].at \subseteq Range(NameOrder)
             \/ /\ u1[j].kind = "file" /\ u1[j] = [kind |-> "file", content |-> u1[j].content, stamp |-> u1[j].stamp]
                /\ u1[j].stamp \in Nat
                /\ \A m \in u1[j].content.mutations : m.versions \subseteq Targets
             \/ /\ u1[j].kind = "link" /\ u1[j] = [kind |-> "link", from |-> u1[j].from, to |-> u1[j].to]
                /\ u1[j].from \in DOMAIN u1 /\ u1[j].to \in Seq(Range(NameOrder))
  <2>1. CASE j = i
    BY <1>2, <1>3, <1>4, <2>1
  <2>2. CASE j # i
    BY <1>1, <1>5, <2>2 DEF IsTree
  <2>3. QED
    BY <2>1, <2>2
<1>7. DOMAIN u1 \subseteq Nat \ {None} /\ Root \in DOMAIN u1 /\ u1[Root].kind = "dir"
  BY <1>1, <1>2, <1>5 DEF IsTree
<1>8. IsTree(u1)
  BY <1>5, <1>6, <1>7 DEF IsTree
<1>9. /\ IsTree(u2) /\ DOMAIN u2 = DOMAIN u1
      /\ \A j \in DOMAIN u1 :
           /\ u2[j].kind = u1[j].kind
           /\ u1[j].kind = "dir" => u2[j] = u1[j]
           /\ u1[j].kind = "file" => /\ u2[j].content = u1[j].content
                                     /\ u2[j].stamp = IF j = i THEN u1[j].stamp + 1 ELSE u1[j].stamp
  <2>1. i \in Inodes(u1)
    BY <1>2, <1>5 DEF Inodes
  <2>2. QED
    BY <1>8, <2>1, StampedIs
<1> HIDE DEF u2
<1>10. ASSUME NEW j \in DOMAIN tree
       PROVE  /\ u2[j].kind = tree[j].kind
              /\ tree[j].kind = "dir" => u2[j] = tree[j]
              /\ tree[j].kind = "file" =>
                   /\ u2[j].stamp \in Nat /\ tree[j].stamp <= u2[j].stamp
                   /\ j = i => u2[j].stamp # tree[j].stamp
                   /\ j # i => u2[j].content = tree[j].content
  <2>1. CASE j = i
    BY <1>2, <1>3, <1>4, <1>5, <1>9, <2>1
  <2>2. CASE j # i
    <3>1. u1[j] = tree[j] /\ j \in DOMAIN u1
      BY <1>5, <2>2
    <3>2. tree[j].kind = "file" => tree[j].stamp \in Nat
      BY <1>1 DEF IsTree
    <3>3. QED
      BY <1>9, <2>2, <3>1, <3>2
  <2>3. QED
    BY <2>1, <2>2
<1>11. Follower(tree, u2)
  BY <1>5, <1>9, <1>10 DEF Follower
<1>12. ASSUME NEW d \in Inodes(tree), NEW n \in Names PROVE Child(u2, d, n) = Child(tree, d, n)
  <2>1. d # None => d \in DOMAIN tree
    BY <1>1, InodeIs
  <2>2. d # None => u2[d].kind = tree[d].kind /\ (tree[d].kind = "dir" => u2[d].at = tree[d].at)
    BY <1>10, <2>1
  <2>3. DOMAIN u2 = DOMAIN tree
    BY <1>5, <1>9
  <2>4. QED
    BY <1>1, <1>9, <2>2, <2>3, ChildSame
<1>13. Witness(tree, u2)
  BY <1>10, <1>12 DEF Witness
<1>14. QED
  BY <1>1, <1>11, <1>13

\* Every edit is the change to some tree, before the scan is over.
LEMMA EditFrame ==
  ASSUME Edit
  PROVE  EditTo(tree') /\ phase # "done" /\ edits > 0
<1>1. ASSUME NEW path, NEW i, Rebind(path, i)
      PROVE  phase # "done" /\ edits > 0 /\ \E t : EditTo(t)
  BY <1>1 DEF Rebind
<1>2. ASSUME NEW i, NEW content, Rewrite(i, content)
      PROVE  phase # "done" /\ edits > 0 /\ \E t : EditTo(t)
  BY <1>2 DEF Rewrite
<1>3. phase # "done" /\ edits > 0 /\ \E t : EditTo(t)
  BY <1>1, <1>2 DEF Edit, Unlink, Replace, Overwrite
<1>4. PICK t : EditTo(t)
  BY <1>3
<1>5. tree' = t
  BY <1>4 DEF EditTo
<1>6. QED
  BY <1>3, <1>4, <1>5

LEMMA EditIs ==
  ASSUME TreeInv, Edit
  PROVE  Follower(tree, tree') /\ Witness(tree, tree') /\ scenario' = scenario
<1>1. ASSUME Unlink PROVE Follower(tree, tree') /\ Witness(tree, tree') /\ scenario' = scenario
  <2>1. PICK path \in scenario.unstable : Rebind(path, None)
    BY <1>1 DEF Unlink
  <2>2. path \in Paths /\ path # <<>> /\ None \in Inodes(tree)
    BY ScenariosAssumption DEF TreeInv, Paths, Names, Inodes
  <2>3. QED
    BY <2>1, <2>2, RebindIs
<1>2. ASSUME Replace PROVE Follower(tree, tree') /\ Witness(tree, tree') /\ scenario' = scenario
  <2>1. PICK path \in scenario.unstable, i \in scenario.spare : Rebind(path, i)
    BY <1>2 DEF Replace
  <2>2. path \in Paths /\ path # <<>> /\ i \in Inodes(tree)
    BY ScenariosAssumption DEF TreeInv, Paths, Names, Inodes
  <2>3. QED
    BY <2>1, <2>2, RebindIs
<1>3. ASSUME Overwrite PROVE Follower(tree, tree') /\ Witness(tree, tree') /\ scenario' = scenario
  <2>1. PICK i \in scenario.writable, content \in scenario.contents : Rewrite(i, content)
    BY <1>3 DEF Overwrite
  <2>2. QED
    BY <2>1, RewriteIs
<1>4. QED
  BY <1>1, <1>2, <1>3 DEF Edit

-----------------------------------------------------------------------------
(* The discovery under way.                                                 *)

Entries == [path : Paths, code : {"file", "PYA1004", "PYA1005", "PYA1006"}, directory : BOOLEAN]

\* Only the path of something that is no directory is a file's.
Found(S) == S \subseteq Entries /\ IsFiniteSet(S) /\ \A e \in S : e.code = "file" => e.path # <<>> /\ ~e.directory

Stages == {"request", "list", "prepare", "directories", "files"}

IsWalk(w) ==
  /\ w \in [stage : Stages, requests : Seq(Paths), stack : SUBSET Paths, at : Paths, boundary : Paths,
            directories : SUBSET Names, retained : SUBSET Names, files : SUBSET Names, rules : {w.rules},
            found : SUBSET Entries, over : BOOLEAN]
  /\ Found(w.found)

LEMMA BeginIs ==
  ASSUME NEW requests \in Seq(Paths)
  PROVE  IsWalk(Begin(requests))
<1>1. <<>> \in Paths
  BY DEF Paths
<1>2. Found({})
  BY FS_EmptySet DEF Found
<1>3. QED
  BY <1>1, <1>2 DEF IsWalk, Begin, Stages

\* One entry more, or the mark of the bound.
LEMMA SelectIs ==
  ASSUME NEW w, IsWalk(w), NEW e \in Entries, e.code = "file" => e.path # <<>> /\ ~e.directory
  PROVE  LET v == Select(w, e) IN
         /\ IsWalk(v)
         /\ \/ /\ v.over = w.over /\ v.found = w.found /\ \E x \in w.found : x.path = e.path
            \/ /\ v.over = TRUE /\ v.found = w.found \union {Issue(e.path, "PYA1006")}
               /\ Cardinality(w.found) >= Limit /\ \A x \in w.found : x.path # e.path
            \/ /\ v.over = w.over /\ v.found = w.found \union {e}
               /\ ~(Cardinality(w.found) >= Limit) /\ \A x \in w.found : x.path # e.path
<1>1. CASE e.path \in {x.path : x \in w.found}
  <2>1. Select(w, e) = w
    BY <1>1 DEF Select
  <2>2. QED
    BY <1>1, <2>1
<1>2. CASE e.path \notin {x.path : x \in w.found} /\ Cardinality(w.found) >= Limit
  <2> DEFINE i == Issue(e.path, "PYA1006")
  <2>1. i \in Entries /\ i.code # "file"
    BY DEF Issue, Entries
  <2>2. Found(w.found \union {i})
    <3>1. IsFiniteSet(w.found \union {i})
      BY FS_AddElement DEF IsWalk, Found
    <3> HIDE DEF i
    <3>2. QED
      BY <2>1, <3>1 DEF IsWalk, Found
  <2> HIDE DEF i
  <2> DEFINE v == [w EXCEPT !.found = @ \union {i}, !.over = TRUE]
  <2>3. Select(w, e) = v
    BY <1>2 DEF Select, i
  <2>4. /\ v.stage = w.stage /\ v.requests = w.requests /\ v.stack = w.stack /\ v.at = w.at
        /\ v.boundary = w.boundary /\ v.directories = w.directories /\ v.retained = w.retained
        /\ v.files = w.files /\ v.rules = w.rules /\ v.over = TRUE /\ v.found = w.found \union {i}
    BY DEF IsWalk
  <2>5. IsWalk(v)
    BY <2>2 DEF IsWalk, Found
  <2>6. QED
    BY <1>2, <2>3, <2>4, <2>5 DEF i
<1>3. CASE e.path \notin {x.path : x \in w.found} /\ ~(Cardinality(w.found) >= Limit)
  <2>2. Found(w.found \union {e})
    <3>1. IsFiniteSet(w.found \union {e})
      BY FS_AddElement DEF IsWalk, Found
    <3>2. QED
      BY <3>1 DEF IsWalk, Found
  <2> DEFINE v == [w EXCEPT !.found = @ \union {e}]
  <2>3. Select(w, e) = v
    BY <1>3 DEF Select
  <2>4. /\ v.stage = w.stage /\ v.requests = w.requests /\ v.stack = w.stack /\ v.at = w.at
        /\ v.boundary = w.boundary /\ v.directories = w.directories /\ v.retained = w.retained
        /\ v.files = w.files /\ v.rules = w.rules /\ v.over = w.over /\ v.found = w.found \union {e}
    BY DEF IsWalk
  <2>5. IsWalk(v)
    BY <2>2 DEF IsWalk, Found
  <2>6. QED
    BY <1>3, <2>3, <2>4, <2>5
<1>4. QED
  BY <1>1, <1>2, <1>3

\* Nothing but that changes.
LEMMA SelectKeeps ==
  ASSUME NEW w, IsWalk(w), NEW e
  PROVE  /\ Select(w, e).stage = w.stage /\ Select(w, e).requests = w.requests /\ Select(w, e).stack = w.stack
         /\ Select(w, e).at = w.at /\ Select(w, e).boundary = w.boundary
         /\ Select(w, e).directories = w.directories /\ Select(w, e).retained = w.retained
         /\ Select(w, e).files = w.files /\ Select(w, e).rules = w.rules
BY DEF Select, IsWalk

\* What a directory link or a source is recorded as.
LEMMA EntryIs ==
  ASSUME IsTree(tree), NEW p \in Paths
  PROVE  /\ DirectorySymlink(p) \in Entries /\ DirectorySymlink(p).path = p
         /\ DirectorySymlink(p).code # "file" /\ DirectorySymlink(p).directory
         /\ SourceEntry(tree, p) \in Entries /\ SourceEntry(tree, p).path = p
         /\ ~SourceEntry(tree, p).directory
         /\ SourceEntry(tree, p).code # "PYA1006" /\ DirectorySymlink(p).code # "PYA1006"
<1>1. /\ File(p) \in Entries /\ Issue(p, "PYA1004") \in Entries /\ Issue(p, "PYA1005") \in Entries
      /\ DirectorySymlink(p) \in Entries
  BY DEF File, Issue, DirectorySymlink, Entries
<1>2. SourceEntry(tree, p) \in {File(p), Issue(p, "PYA1004"), Issue(p, "PYA1005")}
  BY DEF SourceEntry
<1>3. /\ File(p).path = p /\ ~File(p).directory /\ File(p).code = "file"
      /\ \A c \in {"PYA1004", "PYA1005"} : Issue(p, c).path = p /\ ~Issue(p, c).directory /\ Issue(p, c).code = c
      /\ DirectorySymlink(p).path = p /\ DirectorySymlink(p).directory /\ DirectorySymlink(p).code = "PYA1004"
  BY DEF File, Issue, DirectorySymlink
<1>4. /\ SourceEntry(tree, p) \in Entries /\ SourceEntry(tree, p).path = p
      /\ ~SourceEntry(tree, p).directory /\ SourceEntry(tree, p).code # "PYA1006"
  <2>1. CASE SourceEntry(tree, p) = File(p)
    BY <1>1, <1>3, <2>1
  <2>2. CASE SourceEntry(tree, p) = Issue(p, "PYA1004")
    BY <1>1, <1>3, <2>2
  <2>3. CASE SourceEntry(tree, p) = Issue(p, "PYA1005")
    BY <1>1, <1>3, <2>3
  <2>4. QED
    BY <1>2, <2>1, <2>2, <2>3
<1>5. QED
  BY <1>1, <1>3, <1>4

Discoveries == [modules : SUBSET Entries, scan : SUBSET Entries, dynamic : SUBSET Entries]

WalkInv ==
  /\ IsWalk(walk)
  /\ discovered \in Discoveries
  /\ Found(discovered.modules) /\ Found(discovered.scan) /\ Found(discovered.dynamic)
  /\ queue \subseteq Paths \ {<<>>}

\* A discovery that ends early leaves no walk.
LEMMA StopIs ==
  ASSUME NEW f, Incomplete \/ Invalid \/ Refuse(f)
  PROVE  walk' = Idle /\ phase' = "done"
<1>1. ASSUME Incomplete PROVE walk' = Idle /\ phase' = "done"
  <2>1. CASE phase = "dynamic"
    BY <1>1, <2>1 DEF Incomplete, Conclude, Return
  <2>2. CASE phase # "dynamic"
    BY <1>1, <2>2 DEF Incomplete, Return
  <2>3. QED
    BY <2>1, <2>2
<1>2. ASSUME Invalid PROVE walk' = Idle /\ phase' = "done"
  BY <1>2 DEF Invalid, Return
<1>3. CASE Refuse(f)
  <2>1. CASE f = "error"
    <3>1. Invalid
      BY <1>3, <2>1 DEF Refuse
    <3>2. QED
      BY <1>2, <3>1
  <2>2. CASE f # "error"
    <3>1. Incomplete
      BY <1>3, <2>2 DEF Refuse
    <3>2. QED
      BY <1>1, <3>1
  <2>3. QED
    BY <2>1, <2>2
<1>4. QED
  BY <1>1, <1>2, <1>3

LEMMA IdleIs == IsWalk(Idle)
<1>1. <<>> \in Seq(Paths)
  OBVIOUS
<1>2. QED
  BY <1>1, BeginIs DEF Idle

\* A requested path.
LEMMA RequestedIs ==
  ASSUME IsWalk(walk), walk.requests # <<>>
  PROVE  /\ Requested \in Paths /\ Tail(walk.requests) \in Seq(Paths)
         /\ \A k \in DOMAIN walk.requests : walk.requests[k] \in Paths
         /\ walk.requests[1] = Requested
         /\ \A k \in DOMAIN walk.requests : k = 1 \/ \E j \in DOMAIN Tail(walk.requests) :
                                                        Tail(walk.requests)[j] = walk.requests[k]
<1> DEFINE s == walk.requests
<1>1. s \in Seq(Paths) /\ s # <<>>
  BY DEF IsWalk
<1> HIDE DEF s
<1>2. Head(s) \in Paths /\ Tail(s) \in Seq(Paths) /\ Head(s) = s[1] /\ \A k \in DOMAIN s : s[k] \in Paths
  BY <1>1
<1>3. ASSUME NEW k \in DOMAIN s, k # 1 PROVE \E j \in DOMAIN Tail(s) : Tail(s)[j] = s[k]
  <2>1. k - 1 \in DOMAIN Tail(s) /\ Tail(s)[k - 1] = s[k]
    BY <1>1, <1>3
  <2>2. QED
    BY <2>1
<1>4. QED
  BY <1>2, <1>3 DEF s, Requested

\* The fields of a walk are set one by one.
LEMMA WalkSet ==
  ASSUME NEW w, IsWalk(w)
  PROVE  /\ \A r : IsWalk([w EXCEPT !.rules = r])
         /\ \A r \in Seq(Paths) : IsWalk([w EXCEPT !.requests = r])
         /\ \A f \in SUBSET Names : IsWalk([w EXCEPT !.files = f]) /\ IsWalk([w EXCEPT !.directories = f])
<1>1. ASSUME NEW r PROVE IsWalk([w EXCEPT !.rules = r])
  BY DEF IsWalk
<1>2. ASSUME NEW r \in Seq(Paths) PROVE IsWalk([w EXCEPT !.requests = r])
  BY DEF IsWalk
<1>3. ASSUME NEW f \in SUBSET Names PROVE IsWalk([w EXCEPT !.files = f]) /\ IsWalk([w EXCEPT !.directories = f])
  BY DEF IsWalk
<1>4. QED
  BY <1>1, <1>2, <1>3

\* The outermost link of a requested path.
LEMMA AliasIs ==
  ASSUME NEW r \in Paths, LinkedPrefixes(tree, r) # {}
  PROVE  LET m == Min(LinkedPrefixes(tree, r)) IN
         /\ m \in LinkedPrefixes(tree, r) /\ m \in 1..Len(r)
         /\ IsLink(tree, Up(r, m)) /\ SubSeq(r, 1, m) = Up(r, m)
         /\ Up(r, m) \in Paths /\ Up(r, m) # <<>> /\ Len(Up(r, m)) = m
         /\ \A k \in LinkedPrefixes(tree, r) : m <= k
<1> DEFINE S == LinkedPrefixes(tree, r)
           m == Min(S)
<1>1. Len(r) \in Nat
  BY DEF Paths
<1>2. \A k \in S : k \in 1..Len(r) /\ IsLink(tree, SubSeq(r, 1, k))
  BY <1>1 DEF LinkedPrefixes
<1>3. S \subseteq Nat /\ S # {}
  BY <1>1, <1>2
<1> HIDE DEF S
<1>4. m \in S /\ \A k \in S : m <= k
  <2>1. \E x \in S : \A y \in S : x <= y
    BY <1>3, LeastElement
  <2>2. QED
    BY <2>1 DEF Min
<1> HIDE DEF m
<1>5. m \in 1..Len(r) /\ IsLink(tree, SubSeq(r, 1, m)) /\ m \in 0..Len(r)
  BY <1>1, <1>2, <1>4
<1>6. Up(r, m) \in Paths /\ Len(Up(r, m)) = m
  BY <1>5, UpIs
<1>7. Up(r, m) # <<>>
  BY <1>5, <1>6
<1>8. QED
  BY <1>4, <1>5, <1>6, <1>7 DEF S, m, Up

\* The ignore files above a path change nothing but the rules.
LEMMA LoadedIs ==
  ASSUME NEW w, IsWalk(w), NEW d
  PROVE  LET v == Loaded(w, d) IN
         /\ IsWalk(v) /\ v.rules = WithRules(tree, w.rules, d, Options)
         /\ v.stage = w.stage /\ v.requests = w.requests /\ v.stack = w.stack /\ v.at = w.at
         /\ v.boundary = w.boundary /\ v.directories = w.directories /\ v.retained = w.retained
         /\ v.files = w.files /\ v.found = w.found /\ v.over = w.over
<1> DEFINE r == WithRules(tree, w.rules, d, Options)
<1>1. IsWalk([w EXCEPT !.rules = r]) /\ Loaded(w, d) = [w EXCEPT !.rules = r]
  BY WalkSet DEF Loaded, IsWalk
<1> HIDE DEF r
<1> DEFINE v == [w EXCEPT !.rules = r]
<1>2. /\ v.stage = w.stage /\ v.requests = w.requests /\ v.stack = w.stack /\ v.at = w.at
      /\ v.boundary = w.boundary /\ v.directories = w.directories /\ v.retained = w.retained
      /\ v.files = w.files /\ v.found = w.found /\ v.over = w.over /\ v.rules = r
  BY DEF IsWalk
<1> HIDE DEF v
<1>3. QED
  BY <1>1, <1>2 DEF v, r

\* Nor does the next request change anything else.
LEMMA NextRequestIs ==
  ASSUME NEW w, IsWalk(w), w.requests # <<>>
  PROVE  LET v == NextRequest(w) IN
         /\ IsWalk(v) /\ v.requests = Tail(w.requests) /\ v.requests \in Seq(Paths)
         /\ v.stage = w.stage /\ v.stack = w.stack /\ v.at = w.at /\ v.boundary = w.boundary
         /\ v.directories = w.directories /\ v.retained = w.retained /\ v.files = w.files
         /\ v.rules = w.rules /\ v.found = w.found /\ v.over = w.over
<1>1. Tail(w.requests) \in Seq(Paths)
  <2>1. w.requests \in Seq(Paths)
    BY DEF IsWalk
  <2>2. QED
    BY <2>1
<1>2. IsWalk([w EXCEPT !.requests = Tail(w.requests)]) /\ NextRequest(w) = [w EXCEPT !.requests = Tail(w.requests)]
  BY <1>1, WalkSet DEF NextRequest
<1> DEFINE v == [w EXCEPT !.requests = Tail(w.requests)]
<1>3. /\ v.stage = w.stage /\ v.stack = w.stack /\ v.at = w.at /\ v.boundary = w.boundary
      /\ v.directories = w.directories /\ v.retained = w.retained /\ v.files = w.files
      /\ v.rules = w.rules /\ v.found = w.found /\ v.over = w.over /\ v.requests = Tail(w.requests)
  BY DEF IsWalk
<1> HIDE DEF v
<1>4. QED
  BY <1>1, <1>2, <1>3 DEF v

LEMMA ThroughLinkWalk ==
  ASSUME TreeInv, WalkInv, RequestThroughLink
  PROVE  IsWalk(walk')
<1>1. /\ IsTree(tree) /\ AtRequest /\ IsWalk(walk) /\ walk.requests # <<>>
      /\ LinkedPrefixes(tree, Requested) # {} /\ Requested \in Paths
  BY RequestedIs DEF TreeInv, WalkInv, RequestThroughLink, RequestInside, AtRequest
<1> DEFINE alias == SubSeq(Requested, 1, Min(LinkedPrefixes(tree, Requested)))
           ready == Loaded(walk, Above(alias))
           entry == DirectorySymlink(alias)
           chosen == Select(ready, entry)
<1>2. \/ Refuse(Fails(Above(alias)))
      \/ walk' \in {NextRequest(walk), NextRequest(ready), NextRequest(chosen)}
  BY DEF RequestThroughLink, Proceed
<1>3. alias \in Paths
  BY <1>1, AliasIs
<1> HIDE DEF alias
<1>4. IsWalk(ready) /\ ready.requests = walk.requests
  BY <1>1, LoadedIs
<1> HIDE DEF ready
<1>5. entry \in Entries /\ entry.code # "file"
  BY <1>1, <1>3, EntryIs
<1> HIDE DEF entry
<1>6. IsWalk(chosen) /\ chosen.requests = walk.requests
  <2>1. IsWalk(Select(ready, entry))
    BY <1>4, <1>5, SelectIs
  <2>2. Select(ready, entry).requests = ready.requests
    BY ONLY <1>4, SelectKeeps
  <2>3. QED
    BY <1>4, <2>1, <2>2
<1> HIDE DEF chosen
<1>7. IsWalk(NextRequest(walk)) /\ IsWalk(NextRequest(ready)) /\ IsWalk(NextRequest(chosen))
  BY <1>1, <1>4, <1>6, NextRequestIs
<1>8. QED
  BY <1>2, <1>7, StopIs, IdleIs

LEMMA DirectoryWalk ==
  ASSUME TreeInv, WalkInv, RequestDirectory
  PROVE  IsWalk(walk')
<1>1. IsTree(tree) /\ AtRequest /\ IsWalk(walk) /\ walk.requests # <<>> /\ Requested \in Paths
  BY RequestedIs DEF TreeInv, WalkInv, RequestDirectory, RequestInside, AtRequest
<1> DEFINE ready == IF Requested = <<>> THEN walk ELSE Loaded(walk, Above(Requested))
           next == NextRequest(ready)
           descending == [next EXCEPT !.stage = "list", !.stack = {Requested},
                             !.boundary = IF Options.allowBuiltInRoots THEN Requested ELSE <<>>]
<1>2. \/ Refuse(Fails(Above(Requested)))
      \/ walk' \in {next, descending}
  BY DEF RequestDirectory, Proceed
<1>3. IsWalk(ready) /\ ready.requests = walk.requests
  BY <1>1, LoadedIs
<1> HIDE DEF ready
<1>4. IsWalk(next)
  BY <1>1, <1>3, NextRequestIs
<1> HIDE DEF next
<1>5. IsWalk(descending)
  <2>1. (IF Options.allowBuiltInRoots THEN Requested ELSE <<>>) \in Paths
    BY <1>1 DEF Paths
  <2> DEFINE b == IF Options.allowBuiltInRoots THEN Requested ELSE <<>>
  <2>2. b \in Paths
    BY <2>1
  <2> HIDE DEF b
  <2>3. IsWalk([next EXCEPT !.stage = "list", !.stack = {Requested}, !.boundary = b])
    BY <1>1, <1>4, <2>2 DEF IsWalk, Stages
  <2>4. QED
    BY <2>3 DEF b
<1> HIDE DEF descending
<1>6. QED
  BY <1>2, <1>4, <1>5, StopIs, IdleIs

LEMMA FileWalk ==
  ASSUME TreeInv, WalkInv, RequestFile
  PROVE  IsWalk(walk') /\ Requested # <<>>
<1>1. /\ IsTree(tree) /\ AtRequest /\ IsWalk(walk) /\ walk.requests # <<>> /\ Requested \in Paths
      /\ ~IsDirectory(tree, Requested)
  BY RequestedIs DEF TreeInv, WalkInv, RequestFile, RequestInside, AtRequest
<1> DEFINE ready == Loaded(walk, Above(Requested))
           entry == SourceEntry(tree, Requested)
           chosen == Select(ready, entry)
<1>2. Requested # <<>>
  BY <1>1, RootIs
<1>3. \/ Refuse(Fails(Above(Requested))) \/ Invalid
      \/ walk' \in {NextRequest(ready), NextRequest(chosen)}
  BY DEF RequestFile, Proceed
<1>4. IsWalk(ready) /\ ready.requests = walk.requests
  BY <1>1, LoadedIs
<1> HIDE DEF ready
<1>5. IsWalk(chosen) /\ chosen.requests = walk.requests
  <2>1. entry \in Entries /\ entry.path # <<>> /\ ~entry.directory
    BY <1>1, <1>2, EntryIs
  <2> HIDE DEF entry
  <2>2. IsWalk(Select(ready, entry))
    BY <1>4, <2>1, SelectIs
  <2>3. Select(ready, entry).requests = ready.requests
    BY ONLY <1>4, SelectKeeps
  <2>4. QED
    BY <1>4, <2>2, <2>3
<1> HIDE DEF chosen
<1>6. IsWalk(NextRequest(ready)) /\ IsWalk(NextRequest(chosen))
  BY <1>1, <1>4, <1>5, NextRequestIs
<1>7. QED
  BY <1>2, <1>3, <1>6, StopIs, IdleIs

LEMMA RequestWalk ==
  ASSUME TreeInv, WalkInv, RequestStep
  PROVE  IsWalk(walk')
<1>1. ASSUME RequestOutside PROVE IsWalk(walk')
  BY <1>1, StopIs, IdleIs DEF RequestOutside
<1>2. ASSUME RequestBuiltIn PROVE IsWalk(walk')
  <2>1. IsWalk(walk) /\ walk.requests # <<>> /\ walk' = NextRequest(walk)
    BY <1>2 DEF RequestBuiltIn, RequestInside, AtRequest, Proceed, WalkInv
  <2>2. QED
    BY <2>1, NextRequestIs
<1>3. QED
  BY <1>1, <1>2, ThroughLinkWalk, DirectoryWalk, FileWalk DEF RequestStep

LEMMA EndWalkIs ==
  ASSUME NEW w, IsWalk(w)
  PROVE  /\ IsWalk(EndWalk(w)) /\ EndWalk(w).stage = "request" /\ EndWalk(w).requests = w.requests
         /\ EndWalk(w).found = w.found /\ EndWalk(w).over = w.over /\ EndWalk(w).rules = w.rules
         /\ EndWalk(w).stack = {} /\ EndWalk(w).boundary = w.boundary
         /\ IsWalk(WalkOn(w)) /\ WalkOn(w).requests = w.requests /\ WalkOn(w).found = w.found
         /\ WalkOn(w).over = w.over /\ WalkOn(w).rules = w.rules /\ WalkOn(w).boundary = w.boundary
         /\ ~w.over => WalkOn(w) = w
         /\ w.over => WalkOn(w).stage = "request" /\ WalkOn(w).stack = {}
<1>1. /\ IsWalk(EndWalk(w)) /\ EndWalk(w).stage = "request" /\ EndWalk(w).requests = w.requests
      /\ EndWalk(w).found = w.found /\ EndWalk(w).over = w.over /\ EndWalk(w).rules = w.rules
      /\ EndWalk(w).stack = {} /\ EndWalk(w).boundary = w.boundary
  BY DEF EndWalk, IsWalk, Stages
<1>2. CASE w.over
  <2>1. WalkOn(w) = EndWalk(w)
    BY <1>2 DEF WalkOn
  <2>2. QED
    BY <1>1, <1>2, <2>1
<1>3. CASE ~w.over
  <2>1. WalkOn(w) = w
    BY <1>3 DEF WalkOn
  <2>2. QED
    BY <1>1, <1>3, <2>1
<1>4. QED
  BY <1>2, <1>3

LEMMA ListWalk ==
  ASSUME TreeInv, WalkInv, ListDirectory
  PROVE  IsWalk(walk')
<1>1. IsTree(tree) /\ IsWalk(walk)
  BY DEF TreeInv, WalkInv
<1>2. PICK directory \in FirstPath(walk.stack) :
        LET listed == Inode(tree, Resolved(tree, directory))
            inside(n) == Inode(tree, Target(tree, listed.at[n])).kind = "dir"
        IN IF listed.kind # "dir" THEN Incomplete
           ELSE Proceed([walk EXCEPT !.stage = "prepare", !.stack = @ \ {directory}, !.at = directory,
                             !.retained = {},
                             !.directories = {n \in DOMAIN listed.at : inside(n)},
                             !.files = {n \in DOMAIN listed.at : ~inside(n)}])
  BY DEF ListDirectory
<1> DEFINE listed == Inode(tree, Resolved(tree, directory))
           inside(n) == Inode(tree, Target(tree, listed.at[n])).kind = "dir"
<1>3. CASE listed.kind # "dir"
  BY <1>2, <1>3, StopIs, IdleIs
<1>4. CASE listed.kind = "dir"
  <2>1. directory \in Paths
    BY <1>1 DEF IsWalk, FirstPath
  <2>2. Resolved(tree, directory) \in DOMAIN tree /\ listed = tree[Resolved(tree, directory)]
    BY <1>1, <1>4, <2>1, LstatInside, InodeIs
  <2>3. DOMAIN listed.at \subseteq Names
    BY <1>1, <1>4, <2>2 DEF IsTree, Names
  <2> DEFINE D == {n \in DOMAIN listed.at : inside(n)}
             F == {n \in DOMAIN listed.at : ~inside(n)}
  <2>4. D \subseteq Names /\ F \subseteq Names
    BY <2>3
  <2>5. walk' = [walk EXCEPT !.stage = "prepare", !.stack = @ \ {directory}, !.at = directory,
                             !.retained = {}, !.directories = D, !.files = F]
    BY <1>2, <1>4 DEF Proceed
  <2> HIDE DEF D, F
  <2>6. QED
    BY <1>1, <2>1, <2>4, <2>5 DEF IsWalk, Stages
<1>5. QED
  BY <1>3, <1>4

LEMMA SubdirectoryWalk ==
  ASSUME TreeInv, WalkInv, VisitSubdirectory
  PROVE  IsWalk(walk')
<1>1. IsTree(tree) /\ IsWalk(walk)
  BY DEF TreeInv, WalkInv
<1>2. PICK name \in walk.directories :
        LET child == Append(walk.at, name)
            rest == [walk EXCEPT !.directories = @ \ {name}]
        IN walk' \in {rest, [rest EXCEPT !.retained = @ \union {name}], WalkOn(Select(rest, DirectorySymlink(child)))}
  BY DEF VisitSubdirectory, FirstName, Proceed
<1> DEFINE child == Append(walk.at, name)
           rest == [walk EXCEPT !.directories = @ \ {name}]
<1>3. name \in Names /\ walk.at \in Paths
  BY <1>1 DEF IsWalk
<1>4. IsWalk(rest) /\ IsWalk([rest EXCEPT !.retained = @ \union {name}])
  BY <1>1, <1>3 DEF IsWalk
<1>5. child \in Paths
  BY <1>3, OneNameMore
<1> DEFINE entry == DirectorySymlink(child)
<1>6. entry \in Entries /\ entry.code # "file"
  BY <1>1, <1>5, EntryIs
<1> HIDE DEF rest, entry
<1>7. IsWalk(Select(rest, entry))
  BY <1>4, <1>6, SelectIs
<1>8. IsWalk(WalkOn(Select(rest, entry)))
  BY <1>7, EndWalkIs
<1>9. QED
  BY <1>2, <1>4, <1>8 DEF rest, entry

LEMMA SourceWalk ==
  ASSUME TreeInv, WalkInv, VisitSource
  PROVE  IsWalk(walk')
<1>1. IsTree(tree) /\ IsWalk(walk)
  BY DEF TreeInv, WalkInv
<1>2. PICK name \in walk.files : walk' = WalkOn(Select(Beside(name), SourceEntry(tree, Visited(name))))
  BY DEF VisitSource, Proceed
<1>3. name \in Names /\ walk.at \in Paths
  BY <1>1 DEF IsWalk
<1>4. IsWalk(Beside(name))
  BY <1>1, WalkSet DEF Beside, IsWalk
<1>5. Visited(name) \in Paths /\ Visited(name) # <<>>
  BY <1>3, OneNameMore DEF Visited, Paths
<1> DEFINE entry == SourceEntry(tree, Visited(name))
<1>6. entry \in Entries /\ entry.path # <<>> /\ ~entry.directory
  BY <1>1, <1>5, EntryIs
<1> HIDE DEF entry
<1>7. IsWalk(Select(Beside(name), entry))
  BY <1>4, <1>6, SelectIs
<1>8. IsWalk(WalkOn(Select(Beside(name), entry)))
  BY <1>7, EndWalkIs
<1>9. QED
  BY <1>2, <1>8 DEF entry

LEMMA LeaveWalk ==
  ASSUME TreeInv, WalkInv, LeaveDirectory
  PROVE  IsWalk(walk')
<1>1. IsWalk(walk)
  BY DEF WalkInv
<1> DEFINE deeper == {Append(walk.at, n) : n \in {m \in walk.retained : ~IsLink(tree, Append(walk.at, m))}}
           stack == walk.stack \union deeper
<1>2. walk' \in {EndWalk(walk), [walk EXCEPT !.stage = "list", !.stack = stack]}
  BY DEF LeaveDirectory, Proceed
<1>3. stack \subseteq Paths
  <2>1. walk.stack \subseteq Paths /\ walk.at \in Paths /\ walk.retained \subseteq Names
    BY <1>1 DEF IsWalk
  <2>2. \A n \in walk.retained : Append(walk.at, n) \in Paths
    BY <2>1, OneNameMore
  <2>3. QED
    BY <2>1, <2>2
<1> HIDE DEF stack
<1>4. IsWalk([walk EXCEPT !.stage = "list", !.stack = stack])
  BY <1>1, <1>3 DEF IsWalk, Stages
<1>5. QED
  BY <1>1, <1>2, <1>4, EndWalkIs

\* Every other step of the walk drops a name, moves on, or ends.
LEMMA WalkWalk ==
  ASSUME TreeInv, WalkInv, WalkStep
  PROVE  IsWalk(walk')
<1>1. IsWalk(walk)
  BY DEF WalkInv
<1>2. ASSUME PrepareDirectory PROVE IsWalk(walk')
  <2>1. Refuse(Fails(walk.at)) \/ walk' = [Loaded(walk, walk.at) EXCEPT !.stage = "directories"]
    BY <1>2 DEF PrepareDirectory, Proceed
  <2>2. IsWalk(Loaded(walk, walk.at))
    BY <1>1, LoadedIs
  <2>3. IsWalk([Loaded(walk, walk.at) EXCEPT !.stage = "directories"])
    BY <2>2 DEF IsWalk, Stages
  <2>4. QED
    BY <2>1, <2>3, StopIs, IdleIs
<1>3. ASSUME SubdirectoriesVisited PROVE IsWalk(walk')
  <2>1. walk' = [walk EXCEPT !.stage = "files"]
    BY <1>3 DEF SubdirectoriesVisited, Proceed
  <2>2. QED
    BY <1>1, <2>1 DEF IsWalk, Stages
<1>4. ASSUME SkipFile PROVE IsWalk(walk')
  <2>1. PICK name \in walk.files : walk' = Beside(name)
    BY <1>4 DEF SkipFile, Proceed
  <2>2. QED
    BY <1>1, <2>1, WalkSet DEF Beside, IsWalk
<1>5. ASSUME SourceDisappears PROVE IsWalk(walk')
  <2>1. Incomplete
    BY <1>5 DEF SourceDisappears
  <2>2. QED
    BY <2>1, StopIs, IdleIs
<1>6. ASSUME ModulesFound PROVE IsWalk(walk')
  <2>1. walk' = Begin(scenario.requests) /\ scenario.requests \in Seq(Paths)
    BY <1>6, ScenariosAssumption DEF ModulesFound, TreeInv, Paths, Names
  <2>2. QED
    BY <2>1, BeginIs
<1>7. ASSUME SourcesFound \/ BoundExceeded \/ DynamicFound PROVE IsWalk(walk')
  <2>1. walk' = Idle
    BY <1>7 DEF SourcesFound, BoundExceeded, DynamicFound, Conclude, Return
  <2>2. QED
    BY <2>1, IdleIs
<1>8. QED
  BY <1>2, <1>3, <1>4, <1>5, <1>6, <1>7, ListWalk, SubdirectoryWalk, SourceWalk, LeaveWalk DEF WalkStep

LEMMA ReportWalk ==
  ASSUME WalkInv, ReportStep \/ ReadStep
  PROVE  IsWalk(walk')
<1>1. ASSUME ReportStatic \/ ReportInferred PROVE IsWalk(walk')
  BY <1>1, IdleIs DEF ReportStatic, ReportInferred, Conclude, Return
<1>2. ASSUME SearchDynamic PROVE IsWalk(walk')
  <2>1. walk' = Begin(WholeRoot) /\ WholeRoot \in Seq(Paths)
    BY <1>2 DEF SearchDynamic, WholeRoot, Paths
  <2>2. QED
    BY <2>1, BeginIs
<1>3. ASSUME ReadStep PROVE walk' = walk
  BY <1>3 DEF ReadStep, BeginRead, StatEntry, OpenEntry, ReadChunk, ValidateChain, ValidateLeaf, ReadUnchanged
<1>4. QED
  BY <1>1, <1>2, <1>3 DEF ReportStep, WalkInv

\* The steps of the scan that read no source.
LEMMA WalkFrame ==
  ASSUME RequestStep \/ WalkStep \/ ReportStep
  PROVE  /\ UNCHANGED <<scenario, tree, edits, held, steady, read, accepted>>
         /\ analyses' = analyses \/ \E entries, issues : analyses' = Revisited(entries, issues)
<1>1. ASSUME Incomplete \/ Invalid
      PROVE  analyses' = analyses \/ \E entries, issues : analyses' = Revisited(entries, issues)
  <2>1. CASE phase = "dynamic" /\ Incomplete
    BY <2>1 DEF Incomplete, Conclude
  <2>2. CASE phase # "dynamic" /\ Incomplete
    BY <2>2 DEF Incomplete
  <2>3. CASE Invalid
    BY <2>3 DEF Invalid
  <2>4. QED
    BY <1>1, <2>1, <2>2, <2>3
<1>2. ASSUME NEW f, Refuse(f)
      PROVE  analyses' = analyses \/ \E entries, issues : analyses' = Revisited(entries, issues)
  <2>1. CASE f = "error"
    BY <1>1, <1>2, <2>1 DEF Refuse
  <2>2. CASE f # "error"
    BY <1>1, <1>2, <2>2 DEF Refuse
  <2>3. QED
    BY <2>1, <2>2
<1>3. ASSUME RequestStep
      PROVE  /\ UNCHANGED <<scenario, tree, edits, held, steady, read, accepted>>
             /\ analyses' = analyses \/ \E entries, issues : analyses' = Revisited(entries, issues)
  <2>1. UNCHANGED <<scenario, tree, edits, held, steady, read, accepted>>
    BY <1>3 DEF RequestStep, RequestOutside, RequestThroughLink, RequestBuiltIn, RequestDirectory, RequestFile,
       Untouched, treeVars
  <2>2. \/ Invalid \/ (\E d : Refuse(Fails(d))) \/ analyses' = analyses
    BY <1>3 DEF RequestStep, RequestOutside, RequestThroughLink, RequestBuiltIn, RequestDirectory, RequestFile, Proceed
  <2>3. QED
    BY <1>1, <1>2, <2>1, <2>2
<1>4. ASSUME WalkStep
      PROVE  /\ UNCHANGED <<scenario, tree, edits, held, steady, read, accepted>>
             /\ analyses' = analyses \/ \E entries, issues : analyses' = Revisited(entries, issues)
  <2>1. UNCHANGED <<scenario, tree, edits, held, steady, read, accepted>>
    BY <1>4 DEF WalkStep, ListDirectory, PrepareDirectory, VisitSubdirectory, SubdirectoriesVisited, SkipFile,
       SourceDisappears, VisitSource, LeaveDirectory, ModulesFound, SourcesFound, BoundExceeded, DynamicFound,
       Untouched, treeVars
  <2>2. CASE ListDirectory \/ PrepareDirectory \/ SourceDisappears
    <3>1. Incomplete \/ (\E d : Refuse(Fails(d))) \/ analyses' = analyses
      BY <2>2 DEF ListDirectory, PrepareDirectory, SourceDisappears, Proceed
    <3>2. QED
      BY <1>1, <1>2, <2>1, <3>1
  <2>3. CASE VisitSubdirectory \/ SubdirectoriesVisited \/ SkipFile \/ VisitSource \/ LeaveDirectory
    BY <2>1, <2>3 DEF VisitSubdirectory, SubdirectoriesVisited, SkipFile, VisitSource, LeaveDirectory, Proceed
  <2>4. CASE ModulesFound \/ SourcesFound \/ BoundExceeded
    BY <2>1, <2>4 DEF ModulesFound, SourcesFound, BoundExceeded
  <2>5. CASE DynamicFound
    BY <2>1, <2>5 DEF DynamicFound, Conclude
  <2>6. QED
    BY <1>4, <2>2, <2>3, <2>4, <2>5 DEF WalkStep
<1>5. ASSUME ReportStep
      PROVE  /\ UNCHANGED <<scenario, tree, edits, held, steady, read, accepted>>
             /\ analyses' = analyses \/ \E entries, issues : analyses' = Revisited(entries, issues)
  <2>1. UNCHANGED <<scenario, tree, edits, held, steady, read, accepted>>
    BY <1>5 DEF ReportStep, ReportStatic, ReportInferred, SearchDynamic, treeVars
  <2>2. QED
    BY <1>5, <2>1 DEF ReportStep, ReportStatic, ReportInferred, SearchDynamic, Conclude
<1>6. QED
  BY <1>3, <1>4, <1>5

LEMMA TypesKept ==
  ASSUME TreeInv, WalkInv, [Next]_vars
  PROVE  TreeInv' /\ WalkInv'
<1>1. CASE Edit
  <2>1. Follower(tree, tree') /\ scenario' = scenario
    BY <1>1, EditIs
  <2>2. TreeInv'
    BY <2>1 DEF TreeInv, Follower
  <2>3. UNCHANGED <<walk, discovered, queue>>
    BY <1>1 DEF Edit, Unlink, Replace, Overwrite, Rebind, Rewrite, EditTo
  <2>4. QED
    BY <2>2, <2>3 DEF WalkInv
<1>2. CASE ScanStep
  <2>1. UNCHANGED <<scenario, tree>>
    BY <1>2, WalkFrame DEF ScanStep, ReadStep, BeginRead, StatEntry, OpenEntry, ReadChunk, ValidateChain, ValidateLeaf,
       ReadUnchanged
  <2>2. TreeInv'
    BY <2>1 DEF TreeInv
  <2>3. IsWalk(walk')
    BY <1>2, RequestWalk, WalkWalk, ReportWalk DEF ScanStep
  <2>4. \/ discovered' = discovered /\ queue' \subseteq queue
        \/ ModulesFound \/ SourcesFound \/ BoundExceeded \/ DynamicFound
    <3>1. CASE RequestStep
      BY <3>1 DEF RequestStep, RequestOutside, RequestThroughLink, RequestBuiltIn, RequestDirectory, RequestFile,
         Untouched
    <3>2. CASE WalkStep
      BY <3>2 DEF WalkStep, ListDirectory, PrepareDirectory, VisitSubdirectory, SubdirectoriesVisited, SkipFile,
         SourceDisappears, VisitSource, LeaveDirectory, Untouched
    <3>3. CASE ReadStep
      <4>1. discovered' = discovered
        BY <3>3 DEF ReadStep, BeginRead, StatEntry, OpenEntry, ReadChunk, ValidateChain, ValidateLeaf, ReadUnchanged
      <4>2. queue' = queue \/ queue' = queue \ {read.path}
        BY <3>3 DEF ReadStep, BeginRead, StatEntry, OpenEntry, ReadChunk, ValidateChain, ValidateLeaf, ReadFails, Retain
      <4>3. QED
        BY <4>1, <4>2
    <3>4. CASE ReportStep
      BY <3>4 DEF ReportStep, ReportStatic, ReportInferred, SearchDynamic
    <3>5. QED
      BY <1>2, <3>1, <3>2, <3>3, <3>4 DEF ScanStep
  <2>5. CASE discovered' = discovered /\ queue' \subseteq queue
    BY <2>2, <2>3, <2>5 DEF WalkInv
  <2>6. Found(walk.found) /\ walk.found \in SUBSET Entries
    BY DEF WalkInv, IsWalk
  <2>7. CASE ModulesFound \/ BoundExceeded \/ DynamicFound
    <3>1. queue' = queue
      BY <2>7 DEF ModulesFound, BoundExceeded, DynamicFound
    <3>2. \/ discovered' = [discovered EXCEPT !.modules = walk.found]
          \/ discovered' = [discovered EXCEPT !.scan = walk.found]
          \/ discovered' = [discovered EXCEPT !.dynamic = walk.found]
      BY <2>7 DEF ModulesFound, BoundExceeded, DynamicFound
    <3>3. discovered' \in Discoveries /\ Found(discovered'.modules) /\ Found(discovered'.scan) /\ Found(discovered'.dynamic)
      BY <2>6, <3>2 DEF WalkInv, Discoveries
    <3>4. QED
      BY <2>2, <2>3, <3>1, <3>3 DEF WalkInv
  <2>8. CASE SourcesFound
    <3>1. discovered' = [discovered EXCEPT !.scan = walk.found] /\ queue' = {e.path : e \in {x \in walk.found : x.code = "file"}}
      BY <2>8 DEF SourcesFound
    <3>2. discovered' \in Discoveries /\ Found(discovered'.modules) /\ Found(discovered'.scan) /\ Found(discovered'.dynamic)
      BY <2>6, <3>1 DEF WalkInv, Discoveries
    <3>3. queue' \subseteq Paths \ {<<>>}
      BY <2>6, <3>1 DEF Found, Entries
    <3>4. QED
      BY <2>2, <2>3, <3>2, <3>3 DEF WalkInv
  <2>9. QED
    BY <2>4, <2>5, <2>7, <2>8
<1>3. CASE UNCHANGED vars
  BY <1>3 DEF vars, TreeInv, WalkInv
<1>4. QED
  BY <1>1, <1>2, <1>3 DEF Next

LEMMA TypesStart ==
  ASSUME Init
  PROVE  TreeInv /\ WalkInv
<1>1. scenario \in Scenarios /\ tree = scenario.tree
  BY DEF Init
<1>2. TreeInv
  BY <1>1, ScenariosAssumption DEF TreeInv
<1>3. IsWalk(walk)
  <2>1. /\ WholeRoot \in Seq(Paths) /\ scenario.roots \in Seq(Paths) /\ scenario.requests \in Seq(Paths)
    BY <1>1, ScenariosAssumption DEF Paths, Names, WholeRoot
  <2>2. \E r \in {WholeRoot, scenario.roots, scenario.requests} : walk = Begin(r)
    BY DEF Init
  <2>3. QED
    BY <2>1, <2>2, BeginIs
<1>4. /\ discovered \in Discoveries /\ Found(discovered.modules) /\ Found(discovered.scan) /\ Found(discovered.dynamic)
      /\ queue \subseteq Paths \ {<<>>}
  <2>1. Found({})
    BY FS_EmptySet DEF Found
  <2>2. QED
    BY <2>1 DEF Init, Discoveries
<1>5. QED
  BY <1>2, <1>3, <1>4 DEF WalkInv

-----------------------------------------------------------------------------
(* A read keeps an inode for every component of its path.  What it has read *)
(* of a file whose stamp is still the one it was opened with is what the    *)
(* file holds, and the file is still where it was found.                    *)

LeafOf(r) == r.pins[Len(r.path) + 1]

ReadShape(r, t) ==
  /\ r \in [stage : {"stat", "open", "data", "chain", "leaf"}, path : Paths \ {<<>>}, pins : Seq(DOMAIN t),
            expected : Inodes(t), stamp : Nat, data : {r.data}]
  /\ r.pins # <<>> /\ r.pins[1] = Root
  /\ r.stage \in {"stat", "open"} => Len(r.pins) <= Len(r.path) /\ r.data = <<>>
  /\ r.stage = "open" => /\ r.expected \in DOMAIN t
                         /\ Len(r.pins) = Len(r.path) => t[r.expected].kind = "file"
  /\ r.stage \in {"data", "chain", "leaf"} =>
       /\ Len(r.pins) = Len(r.path) + 1 /\ t[LeafOf(r)].kind = "file" /\ r.stamp <= t[LeafOf(r)].stamp
  /\ r.stage = "data" => r.data = <<>> \/ r.data = <<r.data[1]>>
  /\ r.stage \in {"chain", "leaf"} => r.data = <<r.data[1], r.data[2]>>

\* What a file holds that is as it was opened.
Faithful(r, t, h) ==
  r.stage \in {"data", "chain", "leaf"} /\ t[LeafOf(r)].stamp = r.stamp =>
    /\ \A k \in DOMAIN r.data : r.data[k] = t[LeafOf(r)].content
    /\ Child(t, r.pins[Len(r.path)], Last(r.path)) = LeafOf(r)
    /\ r.stage = "leaf" => t[LeafOf(r)].content \in h

ReadInv ==
  read.stage # "idle" =>
    ReadShape(read, tree) /\ Faithful(read, tree, held) /\ HeldAt(tree, read.path) \subseteq held

\* What was retained of a source.
KeptInv ==
  /\ \A p \in DOMAIN accepted :
       /\ \A k \in 1..Chunks : accepted[p].data[k] = accepted[p].data[1]
       /\ accepted[p].data[1] \in accepted[p].held
  /\ \A p \in DOMAIN analyses :
       /\ ~analyses[p].incomplete => p \in DOMAIN accepted
       /\ analyses[p].fallbacks # {} => p \in DOMAIN accepted /\ analyses[p].source = accepted[p].data[1]

\* What an analysis keeps.
LEMMA AnalysisIs ==
  ASSUME NEW content, NEW modules, NEW uncertain
  PROVE  LET a == Analysis(content, modules, uncertain) IN
         a.fallbacks # {} => a.source = content /\ ~a.incomplete
BY DEF Analysis, Unreadable

\* Where a read looks next.
LEMMA LookedIs ==
  ASSUME IsTree(tree), ReadShape(read, tree), read.stage \in {"stat", "open"}
  PROVE  /\ Len(read.pins) \in 1..Len(read.path) /\ Last(read.pins) = read.pins[Len(read.pins)]
         /\ Last(read.pins) \in DOMAIN tree /\ Component \in Names /\ Looked \in Inodes(tree)
         /\ AtLeaf => Component = Last(read.path)
         /\ Inode(tree, Looked).kind \in {"dir", "file"} => Looked \in DOMAIN tree /\ tree[Looked].kind = Inode(tree, Looked).kind
<1> DEFINE p == read.path
           s == read.pins
<1>1. p \in Seq(Names) /\ p # <<>> /\ s \in Seq(DOMAIN tree) /\ s # <<>> /\ Len(s) <= Len(p)
  BY DEF ReadShape, Paths
<1> HIDE DEF p, s
<1>2. Len(s) \in 1..Len(p) /\ s[Len(s)] \in DOMAIN tree /\ p[Len(s)] \in Names
  BY <1>1
<1>3. Component \in Names /\ Last(s) = s[Len(s)] /\ (AtLeaf => Component = Last(p))
  BY <1>2 DEF Component, AtLeaf, Last, p, s
<1>4. Looked \in Inodes(tree)
  BY <1>2, <1>3, InodeIs DEF Looked, Inodes, s
<1>5. Inode(tree, Looked).kind \in {"dir", "file"} => Looked \in DOMAIN tree /\ tree[Looked].kind = Inode(tree, Looked).kind
  BY <1>4, InodeIs
<1>6. QED
  BY <1>2, <1>3, <1>4, <1>5 DEF p, s

LEMMA StatKept ==
  ASSUME TreeInv, ReadInv, StatEntry, read'.stage # "idle"
  PROVE  ReadShape(read', tree) /\ Faithful(read', tree, held) /\ read'.path = read.path /\ held' = held
<1>1. IsTree(tree) /\ read.stage = "stat" /\ ReadShape(read, tree)
  BY DEF TreeInv, ReadInv, StatEntry
<1>2. /\ Inode(tree, Looked).kind = (IF AtLeaf THEN "file" ELSE "dir") /\ held' = held
      /\ read' = [read EXCEPT !.stage = "open", !.expected = Looked]
  BY DEF StatEntry, ReadFails, Retain, NoRead
<1>3. Looked \in DOMAIN tree /\ (AtLeaf => tree[Looked].kind = "file")
  BY <1>1, <1>2, LookedIs
<1>4. /\ read'.path = read.path /\ read'.pins = read.pins /\ read'.data = read.data /\ read'.stage = "open"
      /\ read'.expected = Looked
  BY <1>1, <1>2 DEF ReadShape
<1>5. read' \in [stage : {"stat", "open", "data", "chain", "leaf"}, path : Paths \ {<<>>}, pins : Seq(DOMAIN tree),
                 expected : Inodes(tree), stamp : Nat, data : {read'.data}]
  BY <1>1, <1>2, <1>3, <1>4 DEF ReadShape, Inodes
<1>6. ReadShape(read', tree)
  BY <1>1, <1>3, <1>4, <1>5 DEF ReadShape, AtLeaf
<1>7. QED
  BY <1>2, <1>4, <1>6 DEF Faithful

LEMMA OpenKept ==
  ASSUME TreeInv, ReadInv, OpenEntry, read'.stage # "idle"
  PROVE  ReadShape(read', tree) /\ Faithful(read', tree, held) /\ read'.path = read.path /\ held' = held
<1>1. IsTree(tree) /\ read.stage = "open" /\ ReadShape(read, tree)
  BY DEF TreeInv, ReadInv, OpenEntry
<1>2. /\ Looked = read.expected /\ held' = held
      /\ read' = [read EXCEPT !.stage = IF AtLeaf THEN "data" ELSE "stat", !.pins = Append(@, Looked),
                              !.stamp = IF AtLeaf THEN tree[Looked].stamp ELSE 0]
  BY DEF OpenEntry, ReadFails, Retain, NoRead
<1>3. /\ Looked \in DOMAIN tree /\ (AtLeaf => tree[Looked].kind = "file" /\ tree[Looked].stamp \in Nat)
      /\ Len(read.pins) \in 1..Len(read.path) /\ read.pins \in Seq(DOMAIN tree)
  BY <1>1, <1>2, LookedIs DEF ReadShape, AtLeaf, IsTree
<1> DEFINE pins == Append(read.pins, Looked)
<1>4. /\ pins \in Seq(DOMAIN tree) /\ pins # <<>> /\ Len(pins) = Len(read.pins) + 1 /\ pins[Len(read.pins) + 1] = Looked
      /\ \A k \in 1..Len(read.pins) : pins[k] = read.pins[k]
  BY <1>3
<1> HIDE DEF pins
<1>5. CASE AtLeaf
  <2>1. /\ read'.path = read.path /\ read'.pins = pins /\ read'.data = <<>> /\ read'.stage = "data"
        /\ read'.stamp = tree[Looked].stamp
    BY <1>1, <1>2, <1>5 DEF ReadShape, pins
  <2>2. read' \in [stage : {"stat", "open", "data", "chain", "leaf"}, path : Paths \ {<<>>}, pins : Seq(DOMAIN tree),
                   expected : Inodes(tree), stamp : Nat, data : {read'.data}]
    BY <1>1, <1>2, <1>3, <1>4, <1>5, <2>1 DEF ReadShape, pins
  <2>3. LeafOf(read') = Looked /\ Len(pins) = Len(read.path) + 1 /\ pins[1] = Root /\ Len(read.pins) = Len(read.path)
        /\ pins[Len(read.path)] = Last(read.pins)
    <3>1. Len(read.pins) = Len(read.path) /\ read.pins[1] = Root /\ Last(read.pins) = read.pins[Len(read.pins)]
      BY <1>1, <1>5, LookedIs DEF AtLeaf, ReadShape
    <3>2. QED
      BY <1>3, <1>4, <2>1, <3>1 DEF LeafOf
  <2>4. ReadShape(read', tree)
    BY <1>3, <1>4, <1>5, <2>1, <2>2, <2>3 DEF ReadShape
  <2>5. Child(tree, read'.pins[Len(read'.path)], Last(read'.path)) = LeafOf(read')
    BY <1>1, <1>5, <2>1, <2>3, LookedIs DEF Looked
  <2>6. DOMAIN read'.data = {}
    BY <2>1
  <2>7. QED
    BY <1>2, <2>1, <2>4, <2>5, <2>6 DEF Faithful
<1>6. CASE ~AtLeaf
  <2>1. /\ read'.path = read.path /\ read'.pins = pins /\ read'.data = <<>> /\ read'.stage = "stat"
    BY <1>1, <1>2, <1>6 DEF ReadShape, pins
  <2>2. read' \in [stage : {"stat", "open", "data", "chain", "leaf"}, path : Paths \ {<<>>}, pins : Seq(DOMAIN tree),
                   expected : Inodes(tree), stamp : Nat, data : {read'.data}]
    BY <1>1, <1>2, <1>3, <1>4, <1>6, <2>1 DEF ReadShape, pins
  <2>3. Len(pins) <= Len(read.path) /\ pins[1] = Root
    BY <1>1, <1>3, <1>4, <1>6 DEF AtLeaf, ReadShape, Paths
  <2>4. ReadShape(read', tree)
    BY <1>4, <2>1, <2>2, <2>3 DEF ReadShape
  <2>5. QED
    BY <1>2, <2>1, <2>4 DEF Faithful
<1>7. QED
  BY <1>5, <1>6

\* A second chunk.
LEMMA TwoChunks ==
  ASSUME NEW X, NEW d \in X, NEW c \in X, NEW e \in Seq(X), Len(e) = 1, e[1] = d
  PROVE  Append(e, c) = <<d, c>>
<1> DEFINE s == Append(e, c)
           t == <<d, c>>
<1>1. s \in Seq(X) /\ Len(s) = Len(e) + 1 /\ s[Len(e) + 1] = c /\ \A i \in 1..Len(e) : s[i] = e[i]
  OBVIOUS
<1>2. t \in Seq(X) /\ Len(t) = 2 /\ t[1] = d /\ t[2] = c
  OBVIOUS
<1> HIDE DEF s, t
<1>3. Len(s) = 2 /\ s[1] = d /\ s[2] = c
  BY <1>1
<1>4. \A k \in 1..Len(s) : s[k] = t[k]
  BY <1>2, <1>3
<1>5. s = t
  BY <1>1, <1>2, <1>3, <1>4, SeqEqual
<1>6. QED
  BY <1>5 DEF s, t

\* Once the path is opened, its last inode is the file.
LEMMA LeafIs ==
  ASSUME NEW t, IsTree(t), NEW r, ReadShape(r, t), r.stage \in {"data", "chain", "leaf"}
  PROVE  /\ Last(r.pins) = LeafOf(r) /\ LeafOf(r) \in DOMAIN t /\ t[LeafOf(r)].kind = "file"
         /\ r.stamp \in Nat /\ t[LeafOf(r)].stamp \in Nat /\ r.stamp <= t[LeafOf(r)].stamp
         /\ \A k \in 1..Len(r.path) + 1 : r.pins[k] \in DOMAIN t
         /\ r.path \in Paths /\ r.path # <<>> /\ Len(r.path) \in 1..Len(r.path) /\ Last(r.path) \in Names
<1>1. r.pins \in Seq(DOMAIN t) /\ Len(r.pins) = Len(r.path) + 1 /\ r.path \in Paths /\ r.path # <<>>
  BY DEF ReadShape
<1>2. Len(r.path) \in 1..Len(r.path) /\ Last(r.path) \in Names
  BY <1>1, PrefixIs
<1>3. \A k \in 1..Len(r.path) + 1 : r.pins[k] \in DOMAIN t
  BY <1>1, <1>2
<1>4. Last(r.pins) = LeafOf(r)
  BY <1>1 DEF Last, LeafOf
<1>5. LeafOf(r) \in DOMAIN t
  BY <1>2, <1>3 DEF LeafOf
<1>6. t[LeafOf(r)].kind = "file" /\ r.stamp \in Nat /\ r.stamp <= t[LeafOf(r)].stamp
  BY DEF ReadShape
<1>7. t[LeafOf(r)].stamp \in Nat
  BY <1>5, <1>6 DEF IsTree
<1>8. QED
  BY <1>1, <1>2, <1>3, <1>4, <1>5, <1>6, <1>7

LEMMA ChunkKept ==
  ASSUME TreeInv, ReadInv, ReadChunk
  PROVE  ReadShape(read', tree) /\ Faithful(read', tree, held) /\ read'.path = read.path /\ held' = held
<1>1. IsTree(tree) /\ read.stage = "data" /\ ReadShape(read, tree) /\ Faithful(read, tree, held)
  BY DEF TreeInv, ReadInv, ReadChunk
<1> DEFINE c == tree[LeafOf(read)].content
           data == Append(read.data, c)
<1>2. /\ held' = held
      /\ read' = [read EXCEPT !.data = data, !.stage = IF Len(data) = Chunks THEN "chain" ELSE "data"]
  <2>1. Last(read.pins) = LeafOf(read)
    BY <1>1, LeafIs
  <2>2. QED
    BY <2>1 DEF ReadChunk
<1>3. \/ read.data = <<>> /\ data = <<c>> /\ Len(data) # Chunks
      \/ read.data = <<read.data[1]>> /\ data = <<read.data[1], c>> /\ Len(data) = Chunks
  <2>1. CASE read.data = <<>>
    BY <2>1 DEF Chunks
  <2>2. CASE read.data = <<read.data[1]>>
    <3> DEFINE d == read.data[1]
           e == <<d>>
    <3>1. Append(e, c) = <<d, c>>
      <4>1. d \in {d, c} /\ c \in {d, c} /\ e \in Seq({d, c}) /\ Len(e) = 1 /\ e[1] = d
        <5> HIDE DEF c, d
        <5>1. QED
          OBVIOUS
      <4> HIDE DEF c, d, e
      <4>2. QED
        BY ONLY <4>1, TwoChunks
    <3>2. data = Append(e, c) /\ Len(<<d, c>>) = 2
      BY <2>2
    <3> HIDE DEF d, data, e
    <3>3. QED
      BY <2>2, <3>1, <3>2 DEF Chunks, d
  <2>3. QED
    BY <1>1, <2>1, <2>2 DEF ReadShape
<1>4. /\ read'.path = read.path /\ read'.pins = read.pins /\ read'.data = data /\ read'.stamp = read.stamp
      /\ read'.stage \in {"data", "chain"} /\ (read'.stage = "chain" <=> Len(data) = Chunks)
      /\ LeafOf(read') = LeafOf(read)
  BY <1>1, <1>2 DEF ReadShape, LeafOf
<1>5. read' \in [stage : {"stat", "open", "data", "chain", "leaf"}, path : Paths \ {<<>>}, pins : Seq(DOMAIN tree),
                 expected : Inodes(tree), stamp : Nat, data : {read'.data}]
  BY <1>1, <1>2, <1>4 DEF ReadShape
<1>6. ReadShape(read', tree)
  <2>1. /\ read'.stage = "data" => read'.data = <<>> \/ read'.data = <<read'.data[1]>>
        /\ read'.stage = "chain" => read'.data = <<read'.data[1], read'.data[2]>>
    BY <1>3, <1>4
  <2> HIDE DEF data
  <2>2. QED
    BY <1>1, <1>4, <1>5, <2>1 DEF ReadShape
<1> HIDE DEF data
<1>7. \A k \in DOMAIN data : data[k] = c \/ (k \in DOMAIN read.data /\ data[k] = read.data[k])
  <2>1. CASE read.data = <<>> /\ data = <<c>>
    <3>1. DOMAIN data = {1} /\ data[1] = c
      <4> HIDE DEF c
      <4>1. data = <<c>>
        BY <2>1
      <4>2. QED
        BY ONLY <4>1
    <3>2. QED
      BY <3>1
  <2>2. CASE read.data = <<read.data[1]>> /\ data = <<read.data[1], c>>
    <3>1. DOMAIN data = {1, 2} /\ data[1] = read.data[1] /\ data[2] = c /\ DOMAIN read.data = {1}
      <4> DEFINE d == read.data[1]
                 old == read.data
      <4> HIDE DEF c, d, old
      <4>1. data = <<d, c>> /\ old = <<d>>
        BY <2>2 DEF d, old
      <4>2. DOMAIN data = {1, 2} /\ data[1] = d /\ data[2] = c /\ DOMAIN old = {1}
        BY ONLY <4>1
      <4>3. QED
        BY <4>2 DEF d, old
    <3>2. QED
      BY <3>1
  <2>3. QED
    BY <1>3, <2>1, <2>2
<1>8. Faithful(read', tree, held)
  BY <1>1, <1>4, <1>7 DEF Faithful
<1>9. QED
  BY <1>2, <1>4, <1>6, <1>8

\* A path every component of which is where it was found leads to the file.
LEMMA ChainKept ==
  ASSUME TreeInv, ReadInv, ValidateChain, read'.stage # "idle"
  PROVE  ReadShape(read', tree) /\ Faithful(read', tree, held) /\ read'.path = read.path /\ held' = held
<1>1. /\ IsTree(tree) /\ read.stage = "chain" /\ ReadShape(read, tree) /\ Faithful(read, tree, held)
      /\ HeldAt(tree, read.path) \subseteq held
  BY DEF TreeInv, ReadInv, ValidateChain
<1>2. Moved = {} /\ held' = held /\ read' = [read EXCEPT !.stage = "leaf"]
  BY DEF ValidateChain, ReadFails, Retain, NoRead
<1>3. /\ read'.path = read.path /\ read'.pins = read.pins /\ read'.data = read.data /\ read'.stamp = read.stamp
      /\ read'.stage = "leaf" /\ LeafOf(read') = LeafOf(read)
  BY <1>1, <1>2 DEF ReadShape, LeafOf
<1>4. ReadShape(read', tree)
  <2>1. read' \in [stage : {"stat", "open", "data", "chain", "leaf"}, path : Paths \ {<<>>}, pins : Seq(DOMAIN tree),
                   expected : Inodes(tree), stamp : Nat, data : {read'.data}]
    BY <1>1, <1>2, <1>3 DEF ReadShape
  <2>2. QED
    BY <1>1, <1>3, <2>1 DEF ReadShape
<1> DEFINE p == read.path
           n == Len(p) - 1
           C == {k \in 0..n : At(tree, Up(p, k)) = read.pins[k + 1]}
<1>5. /\ p \in Paths /\ p # <<>> /\ Len(p) \in Nat /\ n \in Nat /\ n < Len(p) /\ n + 1 = Len(p)
      /\ \A k \in 1..n : k \in 0..Len(p) /\ k \in 1..Len(p) /\ k - 1 \in 0..Len(p)
  BY <1>1, LeafIs DEF Paths
<1>6. n \in C
  <2>1. 0 \in C
    BY <1>1, <1>5, UpOfUp, AtInside DEF ReadShape
  <2>2. ASSUME NEW k \in 0..n, k # n, k \in C PROVE k + 1 \in C
    <3>1. k + 1 \in 1..Len(p) /\ k + 1 \in 1..n /\ (k + 1) - 1 = k /\ k \in 0..Len(p)
      BY <1>5, <2>2
    <3>2. Up(p, k + 1) = Append(Up(p, k), p[k + 1]) /\ p[k + 1] \in Names /\ Up(p, k) \in Paths
      BY <1>5, <3>1, NameByName, UpIs
    <3>3. At(tree, Up(p, k + 1)) = Child(tree, At(tree, Up(p, k)), p[k + 1])
      BY <1>1, <3>2, AtInside
    <3>4. Child(tree, read.pins[k + 1], p[k + 1]) = read.pins[(k + 1) + 1]
      BY <1>2, <3>1 DEF Moved
    <3>5. QED
      BY <2>2, <3>1, <3>3, <3>4
  <2> HIDE DEF C, n
  <2>3. QED
    BY <1>5, <2>1, <2>2, CountsUp
<1>7. ASSUME tree[LeafOf(read)].stamp = read.stamp
      PROVE  tree[LeafOf(read)].content \in held
  <2>1. Child(tree, read.pins[Len(p)], Last(p)) = LeafOf(read)
    BY <1>1, <1>7 DEF Faithful
  <2>2. Front(p) = Up(p, n) /\ p = Append(Front(p), Last(p)) /\ Front(p) \in Paths /\ Last(p) \in Names
    BY <1>5, PrefixIs
  <2>3. At(tree, Front(p)) = read.pins[Len(p)]
    BY <1>5, <1>6, <2>2
  <2>4. At(tree, p) = LeafOf(read)
    <3>1. At(tree, Append(Front(p), Last(p))) = Child(tree, At(tree, Front(p)), Last(p))
      BY <1>1, <2>2, AtInside
    <3>2. QED
      BY <2>1, <2>2, <2>3, <3>1
  <2>5. Inode(tree, LeafOf(read)) = tree[LeafOf(read)] /\ tree[LeafOf(read)].kind = "file"
    BY <1>1, LeafIs, InodeIs DEF Inodes
  <2>6. HeldAt(tree, p) = {tree[LeafOf(read)].content}
    BY <2>4, <2>5 DEF HeldAt
  <2>7. QED
    BY <1>1, <2>6
<1>8. Faithful(read', tree, held)
  BY <1>1, <1>3, <1>7 DEF Faithful
<1>9. QED
  BY <1>2, <1>3, <1>4, <1>8

LEMMA ReadBegun ==
  ASSUME TreeInv, WalkInv, BeginRead
  PROVE  ReadShape(read', tree) /\ Faithful(read', tree, held') /\ HeldAt(tree, read'.path) \subseteq held'
<1>1. PICK path \in FirstPath(queue) :
        /\ read' = [stage |-> "stat", path |-> path, pins |-> <<Root>>, expected |-> None, stamp |-> 0, data |-> <<>>]
        /\ held' = HeldAt(tree, path)
  BY DEF BeginRead
<1>2. path \in Paths \ {<<>>} /\ Root \in DOMAIN tree
  BY DEF FirstPath, WalkInv, TreeInv, IsTree
<1>3. <<Root>> \in Seq(DOMAIN tree) /\ Len(<<Root>>) = 1 /\ <<Root>>[1] = Root /\ <<Root>> # <<>>
  BY <1>2
<1>4. 1 <= Len(path)
  BY <1>2 DEF Paths
<1>5. read' \in [stage : {"stat", "open", "data", "chain", "leaf"}, path : Paths \ {<<>>}, pins : Seq(DOMAIN tree),
                 expected : Inodes(tree), stamp : Nat, data : {read'.data}]
  BY <1>1, <1>2, <1>3 DEF Inodes
<1>6. ReadShape(read', tree)
  BY <1>1, <1>3, <1>4, <1>5 DEF ReadShape
<1>7. QED
  BY <1>1, <1>6 DEF Faithful

\* Edits leave what was found true of the files they leave alone.
LEMMA ReadEdited ==
  ASSUME TreeInv, ReadInv, Edit
  PROVE  ReadInv'
<1>1. Follower(tree, tree') /\ Witness(tree, tree') /\ IsTree(tree)
  <2>1. Follower(tree, tree') /\ Witness(tree, tree')
    BY EditIs
  <2>2. QED
    BY <2>1 DEF TreeInv
<1>2. read' = read /\ held' = IF read.stage = "idle" THEN {} ELSE held \union HeldAt(tree', read.path)
  <2>1. EditTo(tree')
    BY EditFrame
  <2>2. QED
    BY <2>1 DEF EditTo
<1> SUFFICES ASSUME read.stage # "idle"
             PROVE  ReadShape(read, tree') /\ Faithful(read, tree', held') /\ HeldAt(tree', read.path) \subseteq held'
  BY <1>2 DEF ReadInv
<1>3. ReadShape(read, tree) /\ Faithful(read, tree, held) /\ held \subseteq held' /\ HeldAt(tree', read.path) \subseteq held'
  BY <1>2 DEF ReadInv
<1>4. DOMAIN tree' = DOMAIN tree /\ Inodes(tree') = Inodes(tree)
  BY <1>1 DEF Follower, Inodes
<1>5. ASSUME read.stage \in {"data", "chain", "leaf"}
      PROVE  /\ tree'[LeafOf(read)].kind = "file" /\ read.stamp <= tree'[LeafOf(read)].stamp
             /\ tree'[LeafOf(read)].stamp = read.stamp => tree[LeafOf(read)].stamp = read.stamp
  <2>1. /\ LeafOf(read) \in DOMAIN tree /\ tree[LeafOf(read)].kind = "file" /\ read.stamp <= tree[LeafOf(read)].stamp
        /\ read.stamp \in Nat /\ tree[LeafOf(read)].stamp \in Nat
    BY <1>1, <1>3, <1>5, LeafIs
  <2>2. /\ tree'[LeafOf(read)].kind = tree[LeafOf(read)].kind
        /\ tree'[LeafOf(read)].stamp \in Nat /\ tree[LeafOf(read)].stamp <= tree'[LeafOf(read)].stamp
    BY <1>1, <2>1 DEF Follower
  <2>3. QED
    BY <2>1, <2>2
<1>6. ReadShape(read, tree')
  <2>1. \A i \in DOMAIN tree : tree[i].kind = "file" => tree'[i].kind = "file"
    BY <1>1 DEF Follower
  <2>2. read \in [stage : {"stat", "open", "data", "chain", "leaf"}, path : Paths \ {<<>>}, pins : Seq(DOMAIN tree'),
                  expected : Inodes(tree'), stamp : Nat, data : {read.data}]
    BY <1>3, <1>4 DEF ReadShape
  <2>3. QED
    BY <1>3, <1>4, <1>5, <2>1, <2>2 DEF ReadShape
<1>7. Faithful(read, tree', held')
  <2> SUFFICES ASSUME read.stage \in {"data", "chain", "leaf"}, tree'[LeafOf(read)].stamp = read.stamp
               PROVE  /\ \A k \in DOMAIN read.data : read.data[k] = tree'[LeafOf(read)].content
                      /\ Child(tree', read.pins[Len(read.path)], Last(read.path)) = LeafOf(read)
                      /\ read.stage = "leaf" => tree'[LeafOf(read)].content \in held'
    BY DEF Faithful
  <2>1. tree[LeafOf(read)].stamp = read.stamp
    BY <1>5
  <2>2. /\ \A k \in DOMAIN read.data : read.data[k] = tree[LeafOf(read)].content
        /\ Child(tree, read.pins[Len(read.path)], Last(read.path)) = LeafOf(read)
        /\ read.stage = "leaf" => tree[LeafOf(read)].content \in held
    BY <1>3, <2>1 DEF Faithful
  <2>3. /\ LeafOf(read) \in DOMAIN tree /\ tree[LeafOf(read)].kind = "file"
        /\ read.pins[Len(read.path)] \in Inodes(tree) /\ Last(read.path) \in Names
    BY <1>1, <1>3, LeafIs DEF Inodes
  <2>4. /\ tree'[LeafOf(read)].content = tree[LeafOf(read)].content
        /\ Child(tree', read.pins[Len(read.path)], Last(read.path)) = LeafOf(read)
    BY <1>1, <2>1, <2>2, <2>3 DEF Witness
  <2>5. QED
    BY <1>3, <2>2, <2>4
<1>8. QED
  BY <1>3, <1>6, <1>7

LEMMA ReadKept ==
  ASSUME TreeInv, WalkInv, ReadInv, [Next]_vars
  PROVE  ReadInv'
<1>1. ASSUME BeginRead PROVE ReadInv'
  <2>1. tree' = tree
    BY <1>1 DEF BeginRead, ReadUnchanged
  <2>2. QED
    BY <1>1, <2>1, ReadBegun DEF ReadInv
<1>2. ASSUME StatEntry \/ OpenEntry \/ ReadChunk \/ ValidateChain PROVE ReadInv'
  <2>1. tree' = tree /\ read.stage # "idle"
    BY <1>2 DEF StatEntry, OpenEntry, ReadChunk, ValidateChain, ReadUnchanged
  <2>2. CASE read'.stage # "idle"
    <3>1. ReadShape(read', tree) /\ Faithful(read', tree, held) /\ read'.path = read.path /\ held' = held
      BY <1>2, <2>2, StatKept, OpenKept, ChunkKept, ChainKept
    <3>2. HeldAt(tree, read.path) \subseteq held
      BY <2>1 DEF ReadInv
    <3>3. QED
      BY <2>1, <3>1, <3>2 DEF ReadInv
  <2>3. QED
    BY <2>2 DEF ReadInv
<1>3. ASSUME ValidateLeaf PROVE ReadInv'
  <2>1. read' = NoRead
    BY <1>3 DEF ValidateLeaf, ReadFails, Retain
  <2>2. QED
    BY <2>1 DEF ReadInv, NoRead
<1>4. ASSUME RequestStep \/ WalkStep \/ ReportStep PROVE ReadInv'
  <2>1. UNCHANGED <<tree, held, read>>
    BY <1>4, WalkFrame
  <2>2. QED
    BY <2>1 DEF ReadInv
<1>5. ASSUME UNCHANGED vars PROVE ReadInv'
  BY <1>5 DEF vars, ReadInv
<1>6. QED
  BY <1>1, <1>2, <1>3, <1>4, <1>5, ReadEdited DEF Next, ScanStep, ReadStep

\* A second visit keeps the text of the first.
LEMMA RevisitKept ==
  ASSUME KeptInv, NEW entries, NEW issues, analyses' = Revisited(entries, issues), accepted' = accepted
  PROVE  KeptInv'
<1>1. DOMAIN analyses' = DOMAIN analyses
  BY DEF Revisited
<1>2. ASSUME NEW p \in DOMAIN analyses
      PROVE  /\ ~analyses'[p].incomplete => p \in DOMAIN accepted
             /\ analyses'[p].fallbacks # {} => p \in DOMAIN accepted /\ analyses'[p].source = accepted[p].data[1]
  <2>1. \/ analyses'[p] = analyses[p]
        \/ /\ analyses[p].fallbacks # {}
           /\ \E modules, uncertain : analyses'[p] = Analysis(analyses[p].source, modules, uncertain)
    <3> DEFINE inserted == Inserted(Range(analyses))
               uncertain == [m \in UncertainModules(entries, issues) |-> inserted]
               modules == ProjectModules(discovered.modules, scenario.inferred, Range(scenario.roots))
               affected == {q \in DOMAIN analyses : analyses[q].fallbacks \intersect DOMAIN uncertain # {}}
    <3>1. analyses' = IF inserted = {} THEN analyses
                      ELSE [q \in DOMAIN analyses |->
                              IF q \in affected THEN Analysis(analyses[q].source, modules, uncertain) ELSE analyses[q]]
      BY DEF Revisited
    <3>2. p \in affected => analyses[p].fallbacks # {}
      OBVIOUS
    <3> HIDE DEF inserted, uncertain, modules, affected
    <3>3. QED
      BY <3>1, <3>2
  <2>2. CASE analyses'[p] = analyses[p]
    BY <2>2 DEF KeptInv
  <2>3. CASE /\ analyses[p].fallbacks # {}
             /\ \E modules, uncertain : analyses'[p] = Analysis(analyses[p].source, modules, uncertain)
    <3>1. p \in DOMAIN accepted /\ analyses[p].source = accepted[p].data[1]
      BY <2>3 DEF KeptInv
    <3>2. analyses'[p].fallbacks # {} => analyses'[p].source = analyses[p].source
      BY <2>3, AnalysisIs
    <3>3. QED
      BY <3>1, <3>2
  <2>4. QED
    BY <2>1, <2>2, <2>3
<1>3. QED
  BY <1>1, <1>2 DEF KeptInv

\* A read that fails retains nothing, one that ends well what it read.
LEMMA RetainKept ==
  ASSUME KeptInv, NEW a, Retain(a),
         \/ accepted' = accepted /\ a.incomplete /\ a.fallbacks = {}
         \/ /\ \E d, h : /\ accepted' = [p \in DOMAIN accepted \union {read.path} |->
                                          IF p = read.path THEN [data |-> d, held |-> h] ELSE accepted[p]]
                         /\ d[1] \in h /\ d[2] = d[1]
                         /\ a.fallbacks # {} => a.source = d[1]
  PROVE  KeptInv'
<1>1. analyses' = [p \in DOMAIN analyses \union {read.path} |-> IF p = read.path THEN a ELSE analyses[p]]
  BY DEF Retain
<1>2. CASE accepted' = accepted /\ a.incomplete /\ a.fallbacks = {}
  <2>1. ASSUME NEW p \in DOMAIN analyses'
        PROVE  /\ ~analyses'[p].incomplete => p \in DOMAIN accepted
               /\ analyses'[p].fallbacks # {} => p \in DOMAIN accepted /\ analyses'[p].source = accepted[p].data[1]
    BY <1>1, <1>2 DEF KeptInv
  <2>2. QED
    BY <1>2, <2>1 DEF KeptInv
<1>3. CASE \E d, h : /\ accepted' = [p \in DOMAIN accepted \union {read.path} |->
                                          IF p = read.path THEN [data |-> d, held |-> h] ELSE accepted[p]]
                     /\ d[1] \in h /\ d[2] = d[1]
                     /\ a.fallbacks # {} => a.source = d[1]
  <2>1. PICK d, h : /\ accepted' = [p \in DOMAIN accepted \union {read.path} |->
                                          IF p = read.path THEN [data |-> d, held |-> h] ELSE accepted[p]]
                    /\ d[1] \in h /\ d[2] = d[1]
                    /\ a.fallbacks # {} => a.source = d[1]
    BY <1>3
  <2>2. DOMAIN accepted' = DOMAIN accepted \union {read.path} /\ accepted'[read.path] = [data |-> d, held |-> h]
        /\ \A p \in DOMAIN accepted : p # read.path => accepted'[p] = accepted[p]
    BY <2>1
  <2>3. ASSUME NEW p \in DOMAIN accepted'
        PROVE  /\ \A k \in 1..Chunks : accepted'[p].data[k] = accepted'[p].data[1]
               /\ accepted'[p].data[1] \in accepted'[p].held
    <3>1. CASE p = read.path
      <4>1. accepted'[p].data = d /\ accepted'[p].held = h
        BY <2>2, <3>1
      <4>2. \A k \in 1..Chunks : k = 1 \/ k = 2
        BY DEF Chunks
      <4>3. QED
        BY <2>1, <4>1, <4>2
    <3>2. CASE p # read.path
      BY <2>2, <3>2 DEF KeptInv
    <3>3. QED
      BY <3>1, <3>2
  <2>4. ASSUME NEW p \in DOMAIN analyses'
        PROVE  /\ ~analyses'[p].incomplete => p \in DOMAIN accepted'
               /\ analyses'[p].fallbacks # {} => p \in DOMAIN accepted' /\ analyses'[p].source = accepted'[p].data[1]
    <3>1. CASE p = read.path
      <4>1. analyses'[p] = a /\ p \in DOMAIN accepted' /\ accepted'[p].data = d
        BY <1>1, <2>2, <3>1
      <4>2. QED
        BY <2>1, <4>1
    <3>2. CASE p # read.path
      <4>1. p \in DOMAIN analyses /\ analyses'[p] = analyses[p]
        BY <1>1, <3>2
      <4>2. p \in DOMAIN accepted => p \in DOMAIN accepted' /\ accepted'[p] = accepted[p]
        BY <2>2, <3>2
      <4>3. QED
        BY <4>1, <4>2 DEF KeptInv
    <3>3. QED
      BY <3>1, <3>2
  <2>5. QED
    BY <2>3, <2>4 DEF KeptInv
<1>4. QED
  BY <1>2, <1>3

LEMMA LeafKept ==
  ASSUME TreeInv, ReadInv, KeptInv, ValidateLeaf
  PROVE  KeptInv'
<1>1. /\ IsTree(tree) /\ read.stage = "leaf" /\ ReadShape(read, tree) /\ Faithful(read, tree, held)
  BY DEF TreeInv, ReadInv, ValidateLeaf
<1>2. CASE ~StableLeaf \/ Oversized
  <2>1. ReadFails(CurrentLeaf)
    BY <1>2 DEF ValidateLeaf
  <2>2. accepted' = accepted /\ \E code : Retain(Unreadable(code))
    BY <2>1 DEF ReadFails
  <2>3. QED
    BY <2>2, RetainKept DEF Unreadable
<1>3. CASE ~(~StableLeaf \/ Oversized)
  <2> DEFINE modules == ProjectModules(discovered.modules, scenario.inferred, Range(scenario.roots))
             a == Analysis(read.data[1], modules, <<>>)
             d == read.data
  <2>1. /\ Retain(a)
        /\ accepted' = [p \in DOMAIN accepted \union {read.path} |->
                               IF p = read.path THEN [data |-> d, held |-> held] ELSE accepted[p]]
    BY <1>3 DEF ValidateLeaf
  <2>2. tree[LeafOf(read)].stamp = read.stamp
    BY <1>1, <1>3, LeafIs DEF StableLeaf
  <2>3. DOMAIN d = {1, 2}
    <3>1. d = <<d[1], d[2]>>
      BY <1>1 DEF ReadShape
    <3> DEFINE x == d[1]
               y == d[2]
    <3> HIDE DEF d, x, y
    <3>2. d = <<x, y>>
      BY <3>1 DEF x, y
    <3>3. QED
      BY ONLY <3>2
  <2>4. d[1] = tree[LeafOf(read)].content /\ d[2] = tree[LeafOf(read)].content /\ d[1] \in held
    BY <1>1, <2>2, <2>3 DEF Faithful
  <2>5. a.fallbacks # {} => a.source = d[1]
    BY AnalysisIs
  <2> HIDE DEF a, d
  <2>6. QED
    BY <2>1, <2>4, <2>5, RetainKept
<1>4. QED
  BY <1>2, <1>3

LEMMA KeptKept ==
  ASSUME TreeInv, ReadInv, KeptInv, [Next]_vars
  PROVE  KeptInv'
<1>1. ASSUME UNCHANGED <<analyses, accepted>> PROVE KeptInv'
  BY <1>1 DEF KeptInv
<1>2. ASSUME StatEntry \/ OpenEntry \/ ValidateChain PROVE KeptInv'
  <2>1. UNCHANGED <<analyses, accepted>> \/ \E inode : ReadFails(inode)
    BY <1>2 DEF StatEntry, OpenEntry, ValidateChain
  <2>2. ASSUME NEW inode, ReadFails(inode) PROVE KeptInv'
    <3>1. accepted' = accepted /\ \E code : Retain(Unreadable(code))
      BY <2>2 DEF ReadFails
    <3>2. QED
      BY <3>1, RetainKept DEF Unreadable
  <2>3. QED
    BY <1>1, <2>1, <2>2
<1>3. ASSUME BeginRead \/ ReadChunk PROVE KeptInv'
  BY <1>1, <1>3 DEF BeginRead, ReadChunk
<1>4. ASSUME RequestStep \/ WalkStep \/ ReportStep PROVE KeptInv'
  <2>1. accepted' = accepted /\ (analyses' = analyses \/ \E entries, issues : analyses' = Revisited(entries, issues))
    BY <1>4, WalkFrame
  <2>2. QED
    BY <1>1, <2>1, RevisitKept
<1>5. ASSUME Edit \/ UNCHANGED vars PROVE KeptInv'
  BY <1>1, <1>5 DEF Edit, Unlink, Replace, Overwrite, Rebind, Rewrite, EditTo, vars
<1>6. QED
  BY <1>2, <1>3, <1>4, <1>5, LeafKept DEF Next, ScanStep, ReadStep

\* What is analysed of a source is the whole text its path held at some moment
\* of the read, however the tree is edited meanwhile, and a second visit starts
\* from that text (_fs/rooted.py, engine.py).
THEOREM SnapshotTaken == Spec => []SnapshotPerFile
<1>1. Init => TreeInv /\ WalkInv /\ ReadInv /\ KeptInv
  <2> SUFFICES ASSUME Init PROVE TreeInv /\ WalkInv /\ ReadInv /\ KeptInv
    OBVIOUS
  <2>1. ReadInv /\ KeptInv
    BY DEF Init, ReadInv, KeptInv, NoRead
  <2>2. QED
    BY <2>1, TypesStart
<1>2. TreeInv /\ WalkInv /\ ReadInv /\ KeptInv /\ [Next]_vars => (TreeInv /\ WalkInv /\ ReadInv /\ KeptInv)'
  BY TypesKept, ReadKept, KeptKept
<1>3. KeptInv => SnapshotPerFile
  BY DEF KeptInv, SnapshotPerFile
<1>4. QED
  BY <1>1, <1>2, <1>3, PTL DEF Spec

-----------------------------------------------------------------------------
(* Path policy.  What is ignored depends on the rules above a path only, so *)
(* the rules a scan happens to have loaded decide about it as those of the  *)
(* tree do.                                                                 *)

\* Rules that agree above a path agree on it.
LEMMA IgnoredAgree ==
  ASSUME NEW p \in Paths, NEW r, NEW s,
         \A k \in 0..Len(p) - 1 : /\ Up(p, k) \in DOMAIN r <=> Up(p, k) \in DOMAIN s
                                  /\ Up(p, k) \in DOMAIN r => r[Up(p, k)] = s[Up(p, k)],
         NEW directory
  PROVE  IgnoredBy(r, p, directory) <=> IgnoredBy(s, p, directory)
<1> DEFINE says(x) == {k \in 0..Len(p) - 1 :
                         Up(p, k) \in DOMAIN x /\ Matches(x[Up(p, k)], SubSeq(p, k + 1, Len(p)), directory)}
<1>1. \A x : IgnoredBy(x, p, directory) <=> says(x) # {} /\ ~x[Up(p, Max(says(x)))].keep
  BY DEF IgnoredBy, Up
<1>2. says(r) = says(s)
  OBVIOUS
<1>3. ASSUME says(r) # {}
      PROVE  r[Up(p, Max(says(r)))] = s[Up(p, Max(says(r)))]
  <2> DEFINE S == says(r)
  <2>1. S \subseteq 0..Len(p) /\ Len(p) \in Nat /\ S # {}
    BY <1>3 DEF Paths
  <2>2. \A k \in S : r[Up(p, k)] = s[Up(p, k)]
    OBVIOUS
  <2> HIDE DEF S
  <2>3. Max(S) \in S
    <3>1. \E x \in S : \A y \in S : y <= x
      BY <2>1, GreatestElement
    <3>2. \E x \in S : \A y \in S : x >= y
      <4>1. PICK x \in S : \A y \in S : y <= x
        BY <3>1
      <4>2. \A y \in S : x >= y
        BY <2>1, <4>1
      <4>3. QED
        BY <4>2
    <3>3. QED
      BY <3>2 DEF Max
  <2>4. QED
    BY <2>2, <2>3 DEF S
<1> HIDE DEF says
<1>4. CASE says(r) = {}
  BY <1>1, <1>2, <1>4
<1>5. CASE says(r) # {}
  BY <1>1, <1>2, <1>3, <1>5
<1>6. QED
  BY <1>4, <1>5

\* The rules above the k-th directory of a path are there, and right.
Agrees(rules, t, p, k) ==
  \A j \in 0..k - 1 : Up(p, j) \in DOMAIN rules /\ rules[Up(p, j)] = Rule(t, Up(p, j))

LEMMA RulesAboveIs ==
  ASSUME NEW t, NEW p \in Paths
  PROVE  Agrees(RulesAbove(t, p), t, p, Len(p))
<1>1. ASSUME NEW j \in 0..Len(p) - 1
      PROVE  Up(p, j) \in DOMAIN RulesAbove(t, p) /\ RulesAbove(t, p)[Up(p, j)] = Rule(t, Up(p, j))
  <2>1. j + 1 \in DOMAIN p /\ (j + 1) - 1 = j
    BY DEF Paths
  <2>2. Up(p, j) \in {SubSeq(p, 1, k - 1) : k \in DOMAIN p}
    BY <2>1 DEF Up
  <2>3. QED
    BY <2>2 DEF RulesAbove
<1>2. QED
  BY <1>1 DEF Agrees

\* What is not ignored in the tree is not ignored under rules that agree, nor
\* is a directory above it.
LEMMA NotIgnored ==
  ASSUME NEW t, NEW p \in Paths, ~GitIgnores(RulesAbove(t, p), p, FALSE),
         NEW k \in 0..Len(p), NEW rules, Agrees(rules, t, p, k)
  PROVE  /\ k < Len(p) => ~GitIgnores(rules, Up(p, k), TRUE)
         /\ k = Len(p) => ~GitIgnores(rules, p, FALSE)
<1>0. Len(p) \in Nat /\ Up(p, Len(p)) = p /\ Len(Up(p, k)) = k /\ Up(p, k) \in Paths
  BY UpOfUp, UpIs DEF Paths
<1>1. ASSUME NEW j \in 1..k, NEW directory, IgnoredBy(rules, Up(p, j), directory)
      PROVE  IgnoredBy(RulesAbove(t, p), Up(p, j), directory)
  <2>1. j \in 0..Len(p) /\ j - 1 \in 0..Len(p) - 1
    BY <1>0
  <2>2. Up(p, j) \in Paths /\ Len(Up(p, j)) = j /\ \A i \in 0..j : Up(Up(p, j), i) = Up(p, i)
    BY <2>1, UpIs, UpOfUp
  <2>3. ASSUME NEW i \in 0..Len(Up(p, j)) - 1
        PROVE  /\ Up(Up(p, j), i) \in DOMAIN rules <=> Up(Up(p, j), i) \in DOMAIN RulesAbove(t, p)
               /\ Up(Up(p, j), i) \in DOMAIN rules => rules[Up(Up(p, j), i)] = RulesAbove(t, p)[Up(Up(p, j), i)]
    <3>1. i \in 0..k - 1 /\ i \in 0..Len(p) - 1 /\ i \in 0..j
      BY <1>0, <2>2
    <3>2. Up(Up(p, j), i) = Up(p, i)
      BY <2>2, <3>1
    <3>3. Up(p, i) \in DOMAIN rules /\ rules[Up(p, i)] = Rule(t, Up(p, i))
      BY <3>1 DEF Agrees
    <3>4. Up(p, i) \in DOMAIN RulesAbove(t, p) /\ RulesAbove(t, p)[Up(p, i)] = Rule(t, Up(p, i))
      BY <3>1, RulesAboveIs DEF Agrees
    <3>5. QED
      BY <3>2, <3>3, <3>4
  <2>4. QED
    BY <1>1, <2>2, <2>3, IgnoredAgree
<1>2. ASSUME k < Len(p), GitIgnores(rules, Up(p, k), TRUE) PROVE FALSE
  <2>1. PICK j \in 1..k : IgnoredBy(rules, SubSeq(Up(p, k), 1, j), TRUE)
    <3>1. PICK j \in 1..Len(Up(p, k)) : IgnoredBy(rules, SubSeq(Up(p, k), 1, j), j < Len(Up(p, k)) \/ TRUE)
      BY <1>2 DEF GitIgnores
    <3>2. (j < Len(Up(p, k)) \/ TRUE) = TRUE
      OBVIOUS
    <3>3. IgnoredBy(rules, SubSeq(Up(p, k), 1, j), TRUE)
      BY <3>1, <3>2
    <3>4. QED
      BY <1>0, <3>3
  <2>2. j \in 0..k /\ j \in 1..Len(p) /\ j < Len(p)
    BY <1>0, <1>2
  <2>3. SubSeq(Up(p, k), 1, j) = Up(p, j)
    BY <2>2, UpOfUp DEF Up
  <2>4. IgnoredBy(RulesAbove(t, p), Up(p, j), TRUE)
    BY <1>1, <2>1, <2>3
  <2>5. (j < Len(p) \/ FALSE) = TRUE
    BY <2>2
  <2>6. IgnoredBy(RulesAbove(t, p), SubSeq(p, 1, j), j < Len(p) \/ FALSE)
    BY <2>4, <2>5 DEF Up
  <2>7. QED
    BY <2>2, <2>6 DEF GitIgnores
<1>3. ASSUME k = Len(p), GitIgnores(rules, p, FALSE) PROVE FALSE
  <2>1. PICK j \in 1..Len(p) : IgnoredBy(rules, SubSeq(p, 1, j), j < Len(p) \/ FALSE)
    BY <1>3 DEF GitIgnores
  <2>2. IgnoredBy(RulesAbove(t, p), SubSeq(p, 1, j), j < Len(p) \/ FALSE)
    BY <1>1, <1>3, <2>1 DEF Up
  <2>3. QED
    BY <2>2 DEF GitIgnores
<1>4. QED
  BY <1>2, <1>3

\* Rules that are right as far as they go.
RulesRight(rules, t, p) ==
  \A j \in 0..Len(p) - 1 : Up(p, j) \in DOMAIN rules => rules[Up(p, j)] = Rule(t, Up(p, j))

LEMMA WithRulesIs ==
  ASSUME NEW t, NEW p \in Paths, NEW rules, RulesRight(rules, t, p), NEW d, NEW o
  PROVE  /\ RulesRight(WithRules(t, rules, d, o), t, p)
         /\ \A q \in DOMAIN rules : q \in DOMAIN WithRules(t, rules, d, o) /\ WithRules(t, rules, d, o)[q] = rules[q]
<1>1. CASE o.respectGitignore
  <2> DEFINE more == Loading(t, rules, d)
             new == [q \in DOMAIN rules \union more |-> IF q \in DOMAIN rules THEN rules[q] ELSE Rule(t, q)]
  <2>1. WithRules(t, rules, d, o) = new
    BY <1>1 DEF WithRules
  <2> HIDE DEF more
  <2>2. DOMAIN new = DOMAIN rules \union more
    OBVIOUS
  <2>3. \A q \in DOMAIN new : new[q] = IF q \in DOMAIN rules THEN rules[q] ELSE Rule(t, q)
    OBVIOUS
  <2> HIDE DEF new
  <2>4. RulesRight(new, t, p)
    BY <2>2, <2>3 DEF RulesRight
  <2>5. QED
    BY <2>1, <2>2, <2>3, <2>4
<1>2. CASE ~o.respectGitignore
  BY <1>2 DEF WithRules
<1>3. QED
  BY <1>1, <1>2

\* Looking for the ignore files above something that is not ignored finds all
\* of them.
LEMMA AllLoaded ==
  ASSUME NEW t, NEW p \in Paths, ~GitIgnores(RulesAbove(t, p), p, FALSE),
         NEW k \in 0..Len(p), k < Len(p), NEW rules, RulesRight(rules, t, p),
         NEW o, o.respectGitignore
  PROVE  Agrees(WithRules(t, rules, Up(p, k), o), t, p, k + 1)
<1>0. Len(p) \in Nat /\ Up(p, k) \in Paths /\ Len(Up(p, k)) = k
  BY UpIs DEF Paths
<1> DEFINE known == [d \in DOMAIN rules \union Prefixes(Up(p, k)) |->
                        IF d \in DOMAIN rules THEN rules[d] ELSE Rule(t, d)]
           new == WithRules(t, rules, Up(p, k), o)
<1>1. ASSUME NEW j \in 0..k PROVE Up(p, j) \in Prefixes(Up(p, k))
  <2>1. Prefixes(Up(p, k)) = {Up(Up(p, k), i) : i \in 0..k}
    BY <1>0, PrefixIs
  <2>2. Up(Up(p, k), j) = Up(p, j)
    BY UpOfUp
  <2>3. QED
    BY <2>1, <2>2
<1>2. Agrees(known, t, p, k + 1)
  BY <1>0, <1>1 DEF Agrees, RulesRight
<1> HIDE DEF known
<1>3. ASSUME NEW j \in 0..k PROVE ~GitIgnores(known, Up(p, j), TRUE)
  <2>1. j \in 0..Len(p) /\ j < Len(p) /\ Agrees(known, t, p, j)
    BY <1>0, <1>2 DEF Agrees
  <2>2. QED
    BY <2>1, NotIgnored
<1>4. ASSUME NEW j \in 0..k PROVE Up(p, j) \in DOMAIN rules \union Loading(t, rules, Up(p, k))
  BY <1>1, <1>3, <1>4 DEF Loading, known
<1>5. DOMAIN new = DOMAIN rules \union Loading(t, rules, Up(p, k))
  BY DEF WithRules
<1>6. RulesRight(new, t, p)
  BY WithRulesIs
<1> HIDE DEF new
<1>7. ASSUME NEW j \in 0..(k + 1) - 1 PROVE Up(p, j) \in DOMAIN new /\ new[Up(p, j)] = Rule(t, Up(p, j))
  <2>1. j \in 0..k /\ j \in 0..Len(p) - 1
    BY <1>0
  <2>2. Up(p, j) \in DOMAIN new
    BY <1>4, <1>5, <2>1
  <2>3. QED
    BY <1>6, <2>1, <2>2 DEF RulesRight
<1>8. QED
  BY <1>7 DEF Agrees, new

-----------------------------------------------------------------------------
(* What a scan has to find.                                                 *)

\* An entry no part of the path policy has anything against.
Sure(t, p, o) ==
  /\ p \in Paths /\ p # <<>> /\ At(t, p) # None
  /\ IF IsDirectory(t, p) THEN IsLink(t, p) ELSE Last(p) \in Sources
  /\ ~BuiltInExcluded(p, IsDirectory(t, p))
  /\ o.respectGitignore => ~GitIgnores(RulesAbove(t, p), p, FALSE)
  /\ \A k \in 0..Len(p) - 1 : ~Excludes(o, Up(p, k), TRUE)
  /\ ~Excludes(o, p, FALSE)
  /\ IsDirectory(t, p) \/ o.include = NoPattern \/ Matches(o.include, p, FALSE)

\* A request that has the entry below it, or leads through it.
Leads(r, p, directory) == IsPrefix(r, p) \/ (directory /\ IsPrefix(p, r))

LEMMA EligibleIs ==
  ASSUME NEW t, NEW p \in Paths, p # <<>>, NEW requests, NEW o, Eligible(t, p, requests, o),
         ~o.allowBuiltInRoots \/ requests = WholeRoot
  PROVE  Sure(t, p, o) /\ \E k \in DOMAIN requests : Leads(requests[k], p, IsDirectory(t, p))
<1> DEFINE link == IsLink(t, p) /\ IsDirectory(t, p)
           below(r) == IF o.allowBuiltInRoots THEN Beyond(r, p) ELSE p
<1>1. /\ At(t, p) # None
      /\ \/ link
         \/ Last(p) \in Sources /\ ~IsDirectory(t, p)
      /\ o.respectGitignore => ~GitIgnores(RulesAbove(t, p), p, FALSE)
      /\ \A q \in Prefixes(Above(p)) : ~Excludes(o, q, TRUE)
      /\ ~Excludes(o, p, FALSE)
      /\ link \/ o.include = NoPattern \/ Matches(o.include, p, FALSE)
  BY DEF Eligible
<1>2. PICK r \in Range(requests) : (IsPrefix(r, p) \/ (link /\ IsPrefix(p, r))) /\ ~BuiltInExcluded(below(r), link)
  BY DEF Eligible
<1>3. /\ link <=> IsDirectory(t, p)
      /\ IF IsDirectory(t, p) THEN IsLink(t, p) ELSE Last(p) \in Sources
      /\ \A q : BuiltInExcluded(q, link) <=> BuiltInExcluded(q, IsDirectory(t, p))
  <2>1. link <=> IsDirectory(t, p)
    BY <1>1
  <2>2. link = IsDirectory(t, p)
    BY <2>1 DEF IsDirectory, IsLink
  <2> HIDE DEF link
  <2>3. QED
    BY <1>1, <2>1, <2>2 DEF link
<1>8. IsDirectory(t, p) \/ o.include = NoPattern \/ Matches(o.include, p, FALSE)
  BY <1>1, <1>3
<1> HIDE DEF link
<1>4. below(r) = p
  <2>1. CASE ~o.allowBuiltInRoots
    BY <2>1
  <2>2. CASE requests = WholeRoot /\ o.allowBuiltInRoots
    <3>1. r = <<>>
      BY <2>2 DEF WholeRoot, Range
    <3>2. <<>> \in Paths /\ Len(<<>>) = 0 /\ Up(p, 0) = <<>> /\ Up(p, Len(p)) = p /\ Len(p) \in Nat
      BY UpOfUp DEF Paths
    <3>3. IsPrefix(<<>>, p)
      <4>1. Len(<<>>) \in 0..Len(p) /\ <<>> = Up(p, Len(<<>>))
        BY <3>2
      <4>2. QED
        BY <3>2, <4>1, PrefixIs
    <3>4. Beyond(r, p) = SubSeq(p, 0 + 1, Len(p))
      BY <3>1, <3>2, <3>3 DEF Beyond
    <3>5. SubSeq(p, 0 + 1, Len(p)) = p
      BY <3>2 DEF Up
    <3>6. QED
      BY <2>2, <3>4, <3>5
  <2>3. QED
    BY <2>1, <2>2
<1> HIDE DEF below
<1>5. \A k \in 0..Len(p) - 1 : ~Excludes(o, Up(p, k), TRUE)
  <2>1. /\ Above(p) = Up(p, Len(p) - 1) /\ Len(p) - 1 \in 0..Len(p) /\ Above(p) \in Paths
        /\ Len(Above(p)) = Len(p) - 1
    BY PrefixIs
  <2>2. Prefixes(Above(p)) = {Up(Above(p), k) : k \in 0..Len(p) - 1}
    BY <2>1, PrefixIs
  <2>3. \A k \in 0..Len(p) - 1 : Up(Above(p), k) = Up(p, k)
    BY <2>1, UpOfUp
  <2>4. QED
    BY <1>1, <2>2, <2>3
<1>6. \E k \in DOMAIN requests : requests[k] = r
  BY <1>2 DEF Range
<1>7. ~BuiltInExcluded(p, IsDirectory(t, p))
  BY <1>2, <1>3, <1>4
<1>9. Sure(t, p, o)
  BY <1>1, <1>3, <1>5, <1>7, <1>8 DEF Sure
<1>10. PICK k \in DOMAIN requests : requests[k] = r
  BY <1>6
<1>11. Leads(requests[k], p, IsDirectory(t, p))
  BY <1>2, <1>3, <1>10 DEF Leads
<1>12. QED
  BY <1>9, <1>11

\* The policy keeps the directories above such an entry, and the entry itself,
\* under rules that are right.
LEMMA PolicyKeeps ==
  ASSUME NEW t, NEW p, NEW o, Sure(t, p, o), NEW k \in 0..Len(p), NEW rules,
         o.respectGitignore => Agrees(rules, t, p, k)
  PROVE  /\ k < Len(p) => ~DirectoryExcluded(rules, Up(p, k), o)
         /\ k = Len(p) => ~SymlinkExcluded(rules, p, o)
         /\ k = Len(p) /\ ~IsDirectory(t, p) => FileSelected(rules, p, o)
<1>1. p \in Paths /\ Len(p) \in Nat
  BY DEF Sure, Paths
<1>2. k < Len(p) => ~Ignored(rules, Up(p, k), TRUE, o)
  BY <1>1, NotIgnored DEF Ignored, Sure
<1>3. k = Len(p) => ~Ignored(rules, p, FALSE, o)
  <2>1. ASSUME k = Len(p), o.respectGitignore PROVE ~GitIgnores(rules, p, FALSE)
    <3>1. Agrees(rules, t, p, k) /\ ~GitIgnores(RulesAbove(t, p), p, FALSE)
      BY <2>1 DEF Sure
    <3>2. QED
      BY <1>1, <2>1, <3>1, NotIgnored
  <2>2. QED
    BY <2>1 DEF Ignored
<1>4. ASSUME k < Len(p) PROVE ~Excludes(o, Up(p, k), TRUE)
  <2>1. k \in 0..Len(p) - 1
    BY <1>1, <1>4
  <2>2. QED
    BY <2>1 DEF Sure
<1>5. ~Excludes(o, p, FALSE) /\ (IsDirectory(t, p) \/ o.include = NoPattern \/ Matches(o.include, p, FALSE))
  BY DEF Sure
<1>6. k < Len(p) => ~DirectoryExcluded(rules, Up(p, k), o)
  BY <1>2, <1>4 DEF DirectoryExcluded
<1>7. k = Len(p) => ~SymlinkExcluded(rules, p, o)
  BY <1>3, <1>5 DEF SymlinkExcluded
<1>8. k = Len(p) /\ ~IsDirectory(t, p) => FileSelected(rules, p, o)
  BY <1>3, <1>5 DEF FileSelected
<1>9. QED
  BY <1>6, <1>7, <1>8

\* No name on the way to it is one of a directory that is never entered.
LEMMA NamesKept ==
  ASSUME NEW t, IsTree(t), NEW p, NEW o, Sure(t, p, o), NEW k \in 1..Len(p)
  PROVE  /\ p[k] \notin BuiltIn
         /\ k < Len(p) => ~BuiltInExcluded(Up(p, k), TRUE)
<1>1. p \in Paths /\ Len(p) \in Nat /\ p # <<>> /\ ~BuiltInExcluded(p, IsDirectory(t, p))
  BY DEF Sure, Paths
<1>2. Range(Front(p)) \intersect BuiltIn = {} /\ (IsDirectory(t, p) => Range(p) \intersect BuiltIn = {})
  <2>1. CASE IsDirectory(t, p)
    <3>1. Range(p) \intersect BuiltIn = {}
      BY <1>1, <2>1 DEF BuiltInExcluded
    <3>2. Front(p) = Up(p, Len(p) - 1) /\ Len(p) - 1 \in 0..Len(p)
      BY <1>1, PrefixIs
    <3>3. Range(Front(p)) \subseteq Range(p)
      <4>1. Front(p) \in Paths /\ Len(Front(p)) = Len(p) - 1 /\ \A j \in 1..Len(p) - 1 : Front(p)[j] = p[j]
        BY <1>1, <3>2, UpIs
      <4>2. DOMAIN Front(p) = 1..Len(p) - 1 /\ DOMAIN p = 1..Len(p)
        BY <1>1, <4>1 DEF Paths
      <4>3. QED
        BY <1>1, <4>1, <4>2 DEF Range
    <3>4. QED
      BY <3>1, <3>3
  <2>2. CASE ~IsDirectory(t, p)
    BY <1>1, <2>2 DEF BuiltInExcluded
  <2>3. QED
    BY <2>1, <2>2
<1>3. \A j \in 1..Len(p) - 1 : p[j] \notin BuiltIn
  <2>1. Front(p) = Up(p, Len(p) - 1) /\ Len(p) - 1 \in 0..Len(p)
    BY <1>1, PrefixIs
  <2>2. Front(p) \in Paths /\ Len(Front(p)) = Len(p) - 1 /\ \A j \in 1..Len(p) - 1 : Front(p)[j] = p[j]
    BY <1>1, <2>1, UpIs
  <2>3. DOMAIN Front(p) = 1..Len(p) - 1
    BY <2>2 DEF Paths
  <2>4. QED
    BY <1>2, <2>2, <2>3 DEF Range
<1>4. p[Len(p)] \notin BuiltIn
  <2>1. Last(p) = p[Len(p)] /\ Len(p) \in DOMAIN p
    BY <1>1, PrefixIs DEF Paths
  <2>2. CASE IsDirectory(t, p)
    BY <1>2, <2>1, <2>2 DEF Range
  <2>3. CASE ~IsDirectory(t, p)
    <3>1. Last(p) \in Sources
      BY <2>3 DEF Sure
    <3>2. QED
      BY <2>1, <3>1, NamesAssumption
  <2>4. QED
    BY <2>2, <2>3
<1>5. p[k] \notin BuiltIn
  <2>1. k = Len(p) \/ k \in 1..Len(p) - 1
    BY <1>1
  <2>2. QED
    BY <1>3, <1>4, <2>1
<1>6. ASSUME k < Len(p) PROVE ~BuiltInExcluded(Up(p, k), TRUE)
  <2>1. k \in 0..Len(p)
    BY <1>1
  <2>2. Up(p, k) \in Paths /\ Len(Up(p, k)) = k /\ \A j \in 1..k : Up(p, k)[j] = p[j]
    BY <1>1, <2>1, UpIs
  <2>3. DOMAIN Up(p, k) = 1..k
    BY <2>2 DEF Paths
  <2>4. \A j \in 1..k : j \in 1..Len(p) - 1
    BY <1>1, <1>6
  <2>5. Range(Up(p, k)) \intersect BuiltIn = {}
    BY <1>3, <2>2, <2>3, <2>4 DEF Range
  <2>6. QED
    BY <2>5 DEF BuiltInExcluded
<1>7. QED
  BY <1>5, <1>6

-----------------------------------------------------------------------------
(* What the steady paths are.                                               *)

\* One name more below every directory.
Further(t, s) ==
  s \union {Append(p, n) : p \in {q \in s : Inode(t, At(t, q)).kind = "dir"}, n \in Range(NameOrder)}

JustRoot == {<<>>}

\* The paths of the tree, for a count of names.
Upward(t, m, g) == g = [k \in 0..m |-> IF k = 0 THEN JustRoot ELSE Further(t, g[k - 1])]

LEMMA AllPathsUpward ==
  ASSUME NEW t
  PROVE  AllPaths(t) = {p \in (CHOOSE g : Upward(t, Depth, g))[Depth] : At(t, p) # None}
  BY DEF AllPaths, Upward, Further, JustRoot

LEMMA UpwardExists ==
  ASSUME NEW t, NEW m \in Nat PROVE \E g : Upward(t, m, g)
<1> DEFINE C == {k \in 0..m : \E g : Upward(t, k, g)}
<1>1. 0 \in C
  <2>1. Upward(t, 0, [k \in 0..0 |-> JustRoot])
    BY DEF Upward
  <2>2. QED
    BY <2>1
<1>2. ASSUME NEW k \in 0..m, k # m, k \in C PROVE k + 1 \in C
  <2>1. PICK g : Upward(t, k, g)
    BY <1>2
  <2> DEFINE h == [j \in 0..k + 1 |-> IF j = k + 1 THEN Further(t, g[k]) ELSE g[j]]
  <2>2. Upward(t, k + 1, h)
    <3>1. ASSUME NEW j \in 0..k + 1 PROVE h[j] = IF j = 0 THEN JustRoot ELSE Further(t, h[j - 1])
      BY <2>1 DEF Upward
    <3> DEFINE w == [j \in 0..k + 1 |-> IF j = 0 THEN JustRoot ELSE Further(t, h[j - 1])]
    <3>2. h = w
      <4>1. DOMAIN h = 0..k + 1 /\ DOMAIN w = 0..k + 1
        OBVIOUS
      <4>2. \A j \in 0..k + 1 : w[j] = IF j = 0 THEN JustRoot ELSE Further(t, h[j - 1])
        OBVIOUS
      <4>3. h = [j \in 0..k + 1 |-> h[j]] /\ w = [j \in 0..k + 1 |-> w[j]]
        <5>1. h \in [0..k + 1 -> {h[j] : j \in 0..k + 1}]
          OBVIOUS
        <5>2. w \in [0..k + 1 -> {w[j] : j \in 0..k + 1}]
          OBVIOUS
        <5> HIDE DEF h, w
        <5>3. QED
          BY <5>1, <5>2
      <4> HIDE DEF h, w
      <4>4. \A j \in 0..k + 1 : h[j] = w[j]
        BY <3>1, <4>2
      <4>5. QED
        BY <4>1, <4>3, <4>4
    <3>3. QED
      BY <3>2 DEF Upward
  <2>3. k + 1 \in 0..m
    BY <1>2
  <2>4. QED
    BY <2>2, <2>3
<1>3. m \in C
  <2> HIDE DEF C
  <2>1. QED
    BY <1>1, <1>2, CountsUp
<1>4. QED
  BY <1>3

LEMMA NamesFinite == IsFiniteSet(Names)
<1>1. NameOrder \in Seq(Names)
  BY NamesAssumption DEF Names
<1>2. Len(NameOrder) \in Nat /\ DOMAIN NameOrder = 1..Len(NameOrder)
  BY <1>1
<1>3. IsFiniteSet(1..Len(NameOrder))
  BY <1>2, FS_Interval
<1>4. Names = {NameOrder[k] : k \in 1..Len(NameOrder)}
  BY <1>2 DEF Names, Range
<1>5. QED
  BY <1>3, <1>4, FiniteImage

LEMMA FurtherIs ==
  ASSUME NEW t, NEW s, s \subseteq Paths, IsFiniteSet(s)
  PROVE  Further(t, s) \subseteq Paths /\ IsFiniteSet(Further(t, s)) /\ s \subseteq Further(t, s)
<1> DEFINE a == {q \in s : Inode(t, At(t, q)).kind = "dir"}
           f == [x \in a \X Names |-> Append(x[1], x[2])]
           new == {f[x] : x \in a \X Names}
<1>1. a \subseteq s /\ IsFiniteSet(a)
  BY FS_Subset
<1>2. Further(t, s) = s \union {Append(p, n) : p \in a, n \in Names}
  BY DEF Further, Names
<1> HIDE DEF a
<1>3. {Append(p, n) : p \in a, n \in Names} = new
  <2>1. ASSUME NEW x \in a \X Names PROVE f[x] \in {Append(p, n) : p \in a, n \in Names}
    BY <2>1
  <2>2. ASSUME NEW p \in a, NEW n \in Names PROVE Append(p, n) \in new
    <3>1. <<p, n>> \in a \X Names /\ f[<<p, n>>] = Append(p, n)
      OBVIOUS
    <3>2. QED
      BY <3>1
  <2>3. new \subseteq {Append(p, n) : p \in a, n \in Names}
    BY <2>1
  <2> HIDE DEF new
  <2>4. ASSUME NEW y \in {Append(p, n) : p \in a, n \in Names} PROVE y \in new
    <3>1. PICK p \in a, n \in Names : y = Append(p, n)
      BY <2>4
    <3>2. Append(p, n) \in new
      BY <2>2
    <3>3. QED
      BY <3>1, <3>2
  <2>5. QED
    BY <2>3, <2>4
<1>4. new \subseteq Paths
  <2>1. ASSUME NEW p \in a, NEW n \in Names PROVE Append(p, n) \in Paths
    <3>1. p \in Paths
      BY <1>1
    <3>2. QED
      BY <3>1, OneNameMore
  <2>2. QED
    BY <1>3, <2>1
<1>5. IsFiniteSet(new)
  <2>1. IsFiniteSet(a \X Names)
    BY <1>1, NamesFinite, FS_Product
  <2> HIDE DEF f
  <2>2. QED
    BY <2>1, FiniteImage
<1> HIDE DEF new
<1>6. Further(t, s) = s \union new
  BY <1>2, <1>3
<1>7. IsFiniteSet(s \union new)
  BY <1>5, FS_Union
<1>8. QED
  BY <1>4, <1>6, <1>7

\* They are paths, finitely many of them, and each is there in one step more
\* than its parent.
LEMMA UpwardIs ==
  ASSUME NEW t, NEW m \in Nat, NEW g, Upward(t, m, g)
  PROVE  /\ g[0] = JustRoot /\ \A k \in 0..m : k # 0 => g[k] = Further(t, g[k - 1])
         /\ \A k \in 0..m : g[k] \subseteq Paths /\ IsFiniteSet(g[k]) /\ \A j \in 0..k : g[j] \subseteq g[k]
<1> DEFINE Good(k) == g[k] \subseteq Paths /\ IsFiniteSet(g[k]) /\ \A j \in 0..k : g[j] \subseteq g[k]
<1>1. g[0] = JustRoot /\ \A k \in 0..m : k # 0 => g[k] = Further(t, g[k - 1])
  <2>1. g = [k \in 0..m |-> IF k = 0 THEN JustRoot ELSE Further(t, g[k - 1])]
    BY DEF Upward
  <2>2. \A k \in 0..m : g[k] = IF k = 0 THEN JustRoot ELSE Further(t, g[k - 1])
    BY <2>1
  <2>3. 0 \in 0..m
    OBVIOUS
  <2>4. QED
    BY <2>2, <2>3
<1>2. Good(0)
  <2>1. JustRoot \subseteq Paths /\ IsFiniteSet(JustRoot)
    <3>1. <<>> \in Paths
      BY DEF Paths
    <3>2. IsFiniteSet({<<>>})
      BY FS_Singleton
    <3>3. QED
      BY <3>1, <3>2 DEF JustRoot
  <2>2. \A j \in 0..0 : j = 0
    OBVIOUS
  <2>3. QED
    BY <1>1, <2>1, <2>2
<1>3. ASSUME NEW k \in 0..m, k # m, Good(k) PROVE Good(k + 1)
  <2>1. k + 1 \in 0..m /\ k + 1 # 0 /\ (k + 1) - 1 = k
    BY <1>3
  <2>2. g[k + 1] = Further(t, g[k])
    BY <1>1, <2>1
  <2>3. g[k] \subseteq Paths /\ IsFiniteSet(g[k]) /\ \A j \in 0..k : g[j] \subseteq g[k]
    BY <1>3
  <2>4. g[k + 1] \subseteq Paths /\ IsFiniteSet(g[k + 1]) /\ g[k] \subseteq g[k + 1]
    BY <2>2, <2>3, FurtherIs
  <2>5. \A j \in 0..k + 1 : g[j] \subseteq g[k + 1]
    BY <2>1, <2>3, <2>4
  <2>6. QED
    BY <2>1, <2>4, <2>5
<1>4. ASSUME NEW n \in 0..m PROVE Good(n)
  <2> DEFINE C == {k \in 0..n : Good(k)}
  <2>1. 0 \in C /\ n \in Nat
    BY <1>2
  <2>2. \A k \in 0..n : k # n /\ k \in C => k + 1 \in C
    <3> HIDE DEF Good
    <3>1. ASSUME NEW k \in 0..n, k # n, Good(k) PROVE k + 1 \in 0..n /\ Good(k + 1)
      <4>1. k \in 0..m /\ k # m /\ k + 1 \in 0..n
        BY <3>1
      <4>2. QED
        BY <1>3, <3>1, <4>1
    <3>2. QED
      BY <3>1
  <2> HIDE DEF C
  <2>3. n \in C
    BY <2>1, <2>2, CountsUp
  <2>4. QED
    BY <2>3 DEF C
<1>5. QED
  BY <1>1, <1>4

\* The reference definition looks at every path of a tree that is not deeper
\* than it looks.
LEMMA AllPathsAre ==
  ASSUME NEW t, IsTree(t)
  PROVE  /\ AllPaths(t) \subseteq Paths /\ IsFiniteSet(AllPaths(t))
         /\ \A p \in AllPaths(t) : At(t, p) # None
         /\ (\A p \in AllPaths(t) : Len(p) = Depth => t[At(t, p)].kind # "dir")
               => \A p \in Paths : At(t, p) # None => p \in AllPaths(t)
<1>0. Depth \in Nat
  BY NamesAssumption
<1> DEFINE g == CHOOSE g : Upward(t, Depth, g)
<1>1. Upward(t, Depth, g)
  BY <1>0, UpwardExists
<1>2. AllPaths(t) = {p \in g[Depth] : At(t, p) # None}
  BY AllPathsUpward
<1> HIDE DEF g
<1>3. /\ g[0] = JustRoot /\ \A k \in 0..Depth : k # 0 => g[k] = Further(t, g[k - 1])
      /\ \A k \in 0..Depth : g[k] \subseteq Paths /\ IsFiniteSet(g[k]) /\ \A j \in 0..k : g[j] \subseteq g[k]
  BY <1>0, <1>1, UpwardIs
<1>4. Depth \in 0..Depth
  BY <1>0
<1>5. AllPaths(t) \subseteq Paths /\ IsFiniteSet(AllPaths(t)) /\ \A p \in AllPaths(t) : At(t, p) # None
  <2>1. AllPaths(t) \subseteq g[Depth]
    BY <1>2
  <2>2. g[Depth] \subseteq Paths /\ IsFiniteSet(g[Depth])
    BY <1>3, <1>4
  <2>3. IsFiniteSet(AllPaths(t))
    BY <2>1, <2>2, FS_Subset
  <2>4. QED
    BY <1>2, <2>1, <2>2, <2>3
<1>6. ASSUME NEW p \in Paths, At(t, p) # None, NEW m \in 0..Len(p), m <= Depth
      PROVE  Up(p, m) \in g[m]
  <2>0. Len(p) \in Nat /\ m \in Nat
    BY DEF Paths
  <2> DEFINE C == {k \in 0..m : Up(p, k) \in g[k]}
  <2>1. 0 \in C
    <3>1. Up(p, 0) = <<>>
      BY <2>0, UpOfUp
    <3>2. QED
      BY <1>3, <2>0, <3>1 DEF JustRoot
  <2>2. ASSUME NEW k \in 0..m, k # m, k \in C PROVE k + 1 \in C
    <3>1. k \in 0..Len(p) /\ k < Len(p) /\ k + 1 \in 1..Len(p) /\ k + 1 \in 0..Depth /\ k + 1 # 0 /\ (k + 1) - 1 = k
          /\ k + 1 \in 0..m
      BY <1>0, <1>6, <2>0, <2>2
    <3>2. At(t, Up(p, k)) \in DOMAIN t /\ t[At(t, Up(p, k))].kind = "dir"
      BY <1>6, <3>1, AboveThere
    <3>3. Up(p, k) \in Paths
      BY <3>1, UpIs
    <3>4. Inode(t, At(t, Up(p, k))).kind = "dir"
      <4>1. At(t, Up(p, k)) \in Inodes(t)
        BY <3>3, AtInside
      <4>2. QED
        BY <3>2, <4>1, InodeIs
    <3>5. Up(p, k + 1) = Append(Up(p, k), p[k + 1]) /\ p[k + 1] \in Names
      BY <3>1, NameByName
    <3>6. Append(Up(p, k), p[k + 1]) \in Further(t, g[k])
      <4>1. Up(p, k) \in g[k]
        BY <2>2
      <4>2. Up(p, k) \in {q \in g[k] : Inode(t, At(t, q)).kind = "dir"}
        BY <3>4, <4>1
      <4>3. QED
        BY <3>5, <4>2 DEF Further, Names
    <3>7. g[k + 1] = Further(t, g[k])
      BY <1>3, <3>1
    <3>8. QED
      BY <3>1, <3>5, <3>6, <3>7
  <2>3. m \in C
    <3> HIDE DEF C
    <3>1. QED
      BY <2>0, <2>1, <2>2, CountsUp
  <2>4. QED
    BY <2>3
<1>7. ASSUME \A p \in AllPaths(t) : Len(p) = Depth => t[At(t, p)].kind # "dir",
             NEW p \in Paths, At(t, p) # None
      PROVE  p \in AllPaths(t)
  <2>0. Len(p) \in Nat
    BY DEF Paths
  <2>1. ~(Len(p) > Depth)
    <3>1. SUFFICES ASSUME Len(p) > Depth PROVE FALSE
      OBVIOUS
    <3>2. Depth \in 0..Len(p) /\ Depth < Len(p) /\ Depth <= Depth
      BY <1>0, <2>0, <3>1
    <3>3. At(t, Up(p, Depth)) \in DOMAIN t /\ t[At(t, Up(p, Depth))].kind = "dir"
      BY <1>7, <3>2, AboveThere
    <3>4. Up(p, Depth) \in g[Depth] /\ Len(Up(p, Depth)) = Depth
      BY <1>6, <1>7, <3>2, UpIs
    <3>5. At(t, Up(p, Depth)) # None
      BY <3>3 DEF IsTree
    <3>6. Up(p, Depth) \in AllPaths(t)
      BY <1>2, <3>4, <3>5
    <3>7. QED
      BY <1>7, <3>3, <3>4, <3>6
  <2>2. Len(p) \in 0..Len(p) /\ Len(p) <= Depth /\ Len(p) \in 0..Depth
    BY <1>0, <2>0, <2>1
  <2>3. Up(p, Len(p)) = p
    BY <2>2, UpOfUp
  <2>4. p \in g[Len(p)]
    BY <1>6, <1>7, <2>2, <2>3
  <2>5. g[Len(p)] \subseteq g[Depth]
    BY <1>3, <1>4, <2>2
  <2>6. QED
    BY <1>2, <1>7, <2>4, <2>5
<1>8. QED
  BY <1>5, <1>7

\* Every steady path is still eligible.
SteadyInv ==
  /\ \A p \in steady.scan : p \in Paths /\ p # <<>> /\ Eligible(tree, p, scenario.requests, ScanOptions)
  /\ \A p \in steady.exposed : p \in Paths /\ p # <<>> /\ Eligible(tree, p, WholeRoot, ModuleOptions)

LEMMA SteadyStart ==
  ASSUME Init, TreeInv
  PROVE  SteadyInv
<1>1. IsTree(tree) /\ tree = scenario.tree
  BY DEF Init, TreeInv
<1>2. AllPaths(tree) \subseteq Paths
  BY <1>1, AllPathsAre
<1>3. /\ steady.scan = EligiblePaths(tree, scenario.requests, ScanOptions)
      /\ steady.exposed = EligiblePaths(tree, WholeRoot, ModuleOptions)
  BY <1>1 DEF Init
<1>4. QED
  BY <1>2, <1>3 DEF SteadyInv, EligiblePaths

LEMMA SteadyKept ==
  ASSUME TreeInv, SteadyInv, [Next]_vars
  PROVE  SteadyInv'
<1>1. CASE Edit
  <2>1. EditTo(tree') /\ scenario' = scenario
    BY <1>1, EditFrame DEF EditTo
  <2>2. /\ steady'.scan = StillEligible(tree', steady.scan)
        /\ steady'.exposed = StillExposed(tree', steady.exposed)
    BY <2>1 DEF EditTo
  <2>3. ScanOptions' = ScanOptions /\ ModuleOptions' = ModuleOptions /\ WholeRoot' = WholeRoot
    BY <2>1 DEF ScanOptions, ModuleOptions, WholeRoot
  <2>4. ASSUME NEW p \in steady'.scan
        PROVE  p \in Paths /\ p # <<>> /\ Eligible(tree', p, scenario.requests, ScanOptions)
    BY <2>2 DEF SteadyInv, StillEligible
  <2>5. ASSUME NEW p \in steady'.exposed
        PROVE  p \in Paths /\ p # <<>> /\ Eligible(tree', p, WholeRoot, ModuleOptions)
    BY <2>2 DEF SteadyInv, StillExposed
  <2>6. QED
    BY <2>1, <2>3, <2>4, <2>5 DEF SteadyInv
<1>2. CASE ScanStep \/ UNCHANGED vars
  <2>1. UNCHANGED <<scenario, tree, steady>>
    BY <1>2, WalkFrame DEF ScanStep, ReadStep, BeginRead, StatEntry, OpenEntry, ReadChunk, ValidateChain, ValidateLeaf,
       ReadUnchanged, vars
  <2>2. ScanOptions' = ScanOptions /\ ModuleOptions' = ModuleOptions /\ WholeRoot' = WholeRoot
    BY <2>1 DEF ScanOptions, ModuleOptions, WholeRoot
  <2>3. QED
    BY <2>1, <2>2 DEF SteadyInv
<1>3. QED
  BY <1>1, <1>2 DEF Next

-----------------------------------------------------------------------------
(* Where what the discovery under way has to find is still to be found: a   *)
(* request leads to it, a directory that waits to be listed is above it, or *)
(* the walk is on its way to it.                                            *)

\* The discovery is one of the whole root by source roots' options.
Whole == phase = "dynamic" \/ (phase = "modules" /\ scenario.inferred)

Sought == IF phase = "scan" THEN steady.scan ELSE IF Whole THEN steady.exposed ELSE {}

\* The name the walk is at has not been dealt with, for the k-th directory on
\* the way.
ToVisit(w, t, p, k) ==
  IF k + 1 < Len(p)
  THEN (w.stage # "files" /\ p[k + 1] \in w.directories) \/ (w.stage # "prepare" /\ p[k + 1] \in w.retained)
  ELSE IF IsDirectory(t, p) THEN w.stage # "files" /\ p[k + 1] \in w.directories
  ELSE p[k + 1] \in w.files

Ahead(w, t, p, o, k) ==
  /\ w.stage \in {"prepare", "directories", "files"} /\ w.at = Up(p, k)
  /\ w.stage # "prepare" /\ o.respectGitignore => Agrees(w.rules, t, p, k + 1)
  /\ ToVisit(w, t, p, k)

Covered(w, t, p, o) ==
  \/ w.over
  \/ \E e \in w.found : e.path = p
  \/ \E k \in DOMAIN w.requests : Leads(w.requests[k], p, IsDirectory(t, p))
  \/ \E k \in 0..Len(p) - 1 : Up(p, k) \in w.stack
  \/ \E k \in 0..Len(p) - 1 : Ahead(w, t, p, o, k)

Steered(w) ==
  /\ w.stage = "request" => w.stack = {}
  /\ w.over => w.stage = "request" /\ \E e \in w.found : e.code = "PYA1006"
  /\ phase = "scan" \/ Whole => w.boundary = <<>>
  /\ Whole => w.requests \in {WholeRoot, <<>>}
  /\ \A p \in Sought : /\ Options.respectGitignore => RulesRight(w.rules, tree, p)
                       /\ Covered(w, tree, p, Options)

CoverInv == Steered(walk)

LEMMA SoughtIs ==
  ASSUME SteadyInv, NEW p \in Sought
  PROVE  /\ p \in Paths /\ p # <<>> /\ Len(p) \in Nat \ {0}
         /\ Sure(tree, p, Options)
         /\ phase = "scan" \/ Whole
         /\ Whole => Options.allowBuiltInRoots
         /\ \E k \in DOMAIN (IF phase = "scan" THEN scenario.requests ELSE WholeRoot) :
               Leads((IF phase = "scan" THEN scenario.requests ELSE WholeRoot)[k], p, IsDirectory(tree, p))
<1>1. CASE phase = "scan"
  <2>1. p \in Paths /\ p # <<>> /\ Eligible(tree, p, scenario.requests, ScanOptions)
    BY <1>1 DEF Sought, SteadyInv
  <2>2. ~ScanOptions.allowBuiltInRoots /\ Options = ScanOptions
    BY <1>1 DEF ScanOptions, Options
  <2>3. /\ Sure(tree, p, ScanOptions)
        /\ \E k \in DOMAIN scenario.requests : Leads(scenario.requests[k], p, IsDirectory(tree, p))
    BY <2>1, <2>2, EligibleIs
  <2>4. Len(p) \in Nat \ {0}
    BY <2>1 DEF Paths
  <2>5. QED
    BY <1>1, <2>1, <2>2, <2>3, <2>4 DEF Whole
<1>2. CASE phase # "scan"
  <2>1. Whole /\ p \in steady.exposed
    BY <1>2 DEF Sought
  <2>2. p \in Paths /\ p # <<>> /\ Eligible(tree, p, WholeRoot, ModuleOptions)
    BY <2>1 DEF SteadyInv
  <2>3. Options = ModuleOptions /\ ModuleOptions.allowBuiltInRoots
    BY <1>2 DEF ModuleOptions, Options
  <2>4. /\ Sure(tree, p, ModuleOptions)
        /\ \E k \in DOMAIN WholeRoot : Leads(WholeRoot[k], p, IsDirectory(tree, p))
    BY <2>2, EligibleIs
  <2>5. Len(p) \in Nat \ {0}
    BY <2>2 DEF Paths
  <2>6. QED
    BY <1>2, <2>1, <2>2, <2>3, <2>4, <2>5
<1>3. QED
  BY <1>1, <1>2

\* A walk that begins has everything before it.
LEMMA CoverBegins ==
  ASSUME SteadyInv, NEW requests, requests = IF phase = "scan" THEN scenario.requests ELSE WholeRoot
  PROVE  Steered(Begin(requests))
<1> DEFINE w == Begin(requests)
<1>1. /\ w.stage = "request" /\ w.stack = {} /\ w.over = FALSE /\ w.boundary = <<>> /\ w.requests = requests
      /\ w.rules = <<>>
  BY DEF Begin
<1> HIDE DEF w
<1>2. Whole => w.requests \in {WholeRoot, <<>>}
  BY <1>1 DEF Whole
<1>3. ASSUME NEW p \in Sought PROVE RulesRight(w.rules, tree, p) /\ Covered(w, tree, p, Options)
  <2>1. \E k \in DOMAIN requests : Leads(requests[k], p, IsDirectory(tree, p))
    BY SoughtIs
  <2>2. RulesRight(w.rules, tree, p)
    <3>1. DOMAIN w.rules = {}
      BY <1>1
    <3>2. QED
      BY <3>1 DEF RulesRight
  <2>3. QED
    BY <1>1, <2>1, <2>2 DEF Covered
<1>4. Steered(w)
  BY <1>1, <1>2, <1>3 DEF Steered
<1>5. QED
  BY <1>4 DEF w

\* Nothing is sought when no discovery is under way.
LEMMA CoverEnds ==
  ASSUME walk' = Idle, phase' \in {"read", "done"}
  PROVE  CoverInv'
<1>1. Sought' = {} /\ ~(phase' = "scan") /\ ~Whole'
  BY DEF Sought, Whole
<1>2. walk'.stage = "request" /\ walk'.stack = {} /\ walk'.over = FALSE
  BY DEF Idle, Begin
<1>3. QED
  BY <1>1, <1>2 DEF CoverInv, Steered

\* A step of the walk in a tree that stays as it is.
LEMMA CoverGoesOn ==
  ASSUME UNCHANGED <<scenario, tree, steady, phase>>, Steered(walk')
  PROVE  CoverInv'
<1>1. Options' = Options /\ Sought' = Sought /\ Whole' = Whole /\ WholeRoot' = WholeRoot
  BY DEF Options, Sought, Whole, ScanOptions, ModuleOptions, WholeRoot
<1>2. QED
  BY <1>1 DEF CoverInv, Steered

\* Selecting an entry loses none, and leaves one of its path or the bound's
\* mark.
LEMMA ChosenIs ==
  ASSUME NEW w, IsWalk(w), ~w.over, NEW e \in Entries, e.code = "file" => e.path # <<>> /\ ~e.directory
  PROVE  LET v == Select(w, e) IN
         /\ w.found \subseteq v.found
         /\ v.over => \E x \in v.found : x.code = "PYA1006"
         /\ v.over \/ \E x \in v.found : x.path = e.path
<1> DEFINE v == Select(w, e)
<1>1. \/ /\ v.over = w.over /\ v.found = w.found /\ \E x \in w.found : x.path = e.path
      \/ /\ v.over = TRUE /\ v.found = w.found \union {Issue(e.path, "PYA1006")}
      \/ /\ v.over = w.over /\ v.found = w.found \union {e}
  BY SelectIs
<1> HIDE DEF v
<1>2. CASE v.over = w.over /\ v.found = w.found /\ \E x \in w.found : x.path = e.path
  BY <1>2 DEF v
<1>3. CASE v.over = TRUE /\ v.found = w.found \union {Issue(e.path, "PYA1006")}
  <2>1. Issue(e.path, "PYA1006") \in v.found /\ Issue(e.path, "PYA1006").code = "PYA1006"
    BY <1>3 DEF Issue
  <2>2. w.found \subseteq v.found
    BY <1>3
  <2>3. QED
    BY <1>3, <2>1, <2>2 DEF v
<1>4. CASE v.over = w.over /\ v.found = w.found \union {e}
  BY <1>4 DEF v
<1>5. QED
  BY <1>1, <1>2, <1>3, <1>4

\* A directory above an entry: no link leads to it.
LEMMA AboveIs ==
  ASSUME NEW t, IsTree(t), NEW p, NEW o, Sure(t, p, o), NEW k \in 0..Len(p) - 1
  PROVE  /\ Up(p, k) \in Paths /\ Len(Up(p, k)) = k /\ k \in 0..Len(p) /\ k < Len(p)
         /\ IsDirectory(t, Up(p, k)) /\ ~IsLink(t, Up(p, k)) /\ LinkedPrefixes(t, Up(p, k)) = {}
         /\ ~BuiltInExcluded(Up(p, k), TRUE)
<1>1. p \in Paths /\ Len(p) \in Nat /\ At(t, p) # None /\ k \in 0..Len(p) /\ k < Len(p) /\ k \in Nat
  BY DEF Sure, Paths
<1>2. Up(p, k) \in Paths /\ Len(Up(p, k)) = k
  BY <1>1, UpIs
<1>3. \A j \in 0..k : ~IsLink(t, Up(p, j)) /\ IsDirectory(t, Up(p, j))
  <2>1. ASSUME NEW j \in 0..k PROVE j \in 0..Len(p) /\ j < Len(p)
    BY <1>1
  <2>2. QED
    BY <1>1, <2>1, FoundThere
<1>4. \A j \in 1..k : SubSeq(Up(p, k), 1, j) = Up(p, j)
  BY <1>1, UpOfUp DEF Up
<1>5. LinkedPrefixes(t, Up(p, k)) = {}
  <2>1. IsDirectory(t, Up(p, k))
    BY <1>1, <1>3
  <2>2. LinkedPrefixes(t, Up(p, k)) = {j \in 1..k : IsLink(t, SubSeq(Up(p, k), 1, j))}
    BY <1>2, <2>1 DEF LinkedPrefixes
  <2>3. ASSUME NEW j \in 1..k PROVE ~IsLink(t, SubSeq(Up(p, k), 1, j))
    <3>1. j \in 0..k
      BY <1>1
    <3>2. QED
      BY <1>3, <1>4, <3>1
  <2>4. QED
    BY <2>2, <2>3
<1>6. ~BuiltInExcluded(Up(p, k), TRUE)
  <2>1. CASE k = 0
    <3>1. Up(p, k) = <<>>
      BY <1>2, <2>1
    <3>2. QED
      BY <3>1 DEF BuiltInExcluded
  <2>2. CASE k # 0
    <3>1. k \in 1..Len(p)
      BY <1>1, <2>2
    <3>2. QED
      BY <1>1, <3>1, NamesKept
  <2>3. QED
    BY <2>1, <2>2
<1>7. IsDirectory(t, Up(p, k)) /\ ~IsLink(t, Up(p, k))
  BY <1>1, <1>3
<1>8. QED
  BY <1>1, <1>2, <1>5, <1>6, <1>7

\* The link to a directory that is sought is the first one on any path
\* through it.
LEMMA LinkFirst ==
  ASSUME NEW p, NEW o, IsTree(tree), Sure(tree, p, o), IsDirectory(tree, p), NEW r \in Paths, IsPrefix(p, r)
  PROVE  LinkedPrefixes(tree, r) # {} /\ SubSeq(r, 1, Min(LinkedPrefixes(tree, r))) = p
<1>1. p \in Paths /\ p # <<>> /\ Len(p) \in Nat \ {0} /\ IsLink(tree, p) /\ Len(r) \in Nat
  BY DEF Sure, Paths
<1>2. Len(p) \in 0..Len(r) /\ p = Up(r, Len(p))
  BY <1>1, PrefixIs
<1>3. \A j \in 0..Len(p) : Up(r, j) = Up(p, j)
  BY <1>2, UpOfUp
<1>0. IsLink(tree, SubSeq(r, 1, Len(p)))
  BY <1>1, <1>2 DEF Up
<1>4. Len(p) \in LinkedPrefixes(tree, r)
  <2>1. CASE IsDirectory(tree, r)
    <3>1. LinkedPrefixes(tree, r) = {k \in 1..Len(r) : IsLink(tree, SubSeq(r, 1, k))}
      BY <2>1 DEF LinkedPrefixes
    <3>2. Len(p) \in 1..Len(r)
      BY <1>1, <1>2
    <3>3. QED
      BY <1>0, <3>1, <3>2
  <2>2. CASE ~IsDirectory(tree, r)
    <3>1. LinkedPrefixes(tree, r) = {k \in 1..Len(r) - 1 : IsLink(tree, SubSeq(r, 1, k))}
      BY <2>2 DEF LinkedPrefixes
    <3>2. Len(p) # Len(r)
      <4>1. Up(r, Len(r)) = r
        BY <1>1, UpOfUp
      <4>2. QED
        BY <1>2, <2>2, <4>1
    <3>3. Len(p) \in 1..Len(r) - 1
      BY <1>1, <1>2, <3>2
    <3>4. QED
      BY <1>0, <3>1, <3>3
  <2>3. QED
    BY <2>1, <2>2
<1> DEFINE m == Min(LinkedPrefixes(tree, r))
<1>5. /\ LinkedPrefixes(tree, r) # {} /\ m \in 1..Len(r) /\ IsLink(tree, Up(r, m)) /\ SubSeq(r, 1, m) = Up(r, m)
      /\ \A k \in LinkedPrefixes(tree, r) : m <= k
  BY <1>4, AliasIs
<1> HIDE DEF m
<1>6. ~(m < Len(p))
  <2>1. SUFFICES ASSUME m < Len(p) PROVE FALSE
    OBVIOUS
  <2>2. m \in 0..Len(p) - 1 /\ m \in 0..Len(p)
    BY <1>1, <1>5, <2>1
  <2>3. ~IsLink(tree, Up(p, m))
    BY <2>2, AboveIs
  <2>4. QED
    BY <1>3, <1>5, <2>2, <2>3
<1>7. m = Len(p)
  BY <1>1, <1>4, <1>5, <1>6
<1>8. QED
  BY <1>2, <1>5, <1>7 DEF m

\* Nothing on the way to a source is a link, and its own name is not hidden.
LEMMA FileIs ==
  ASSUME NEW t, NEW p, NEW o, IsTree(t), Sure(t, p, o), ~IsDirectory(t, p)
  PROVE  LinkedPrefixes(t, p) = {} /\ ~BuiltInExcluded(p, FALSE) /\ Last(p) \in Sources
<1>1. p \in Paths /\ Len(p) \in Nat \ {0} /\ Last(p) \in Sources
  BY DEF Sure, Paths
<1>2. LinkedPrefixes(t, p) = {k \in 1..Len(p) - 1 : IsLink(t, SubSeq(p, 1, k))}
  BY DEF LinkedPrefixes
<1>3. \A k \in 1..Len(p) - 1 : ~IsLink(t, SubSeq(p, 1, k))
  <2>1. ASSUME NEW k \in 1..Len(p) - 1 PROVE ~IsLink(t, Up(p, k))
    <3>1. k \in 0..Len(p) - 1
      BY <1>1
    <3>2. QED
      BY <3>1, AboveIs
  <2>2. QED
    BY <2>1 DEF Up
<1>4. ~BuiltInExcluded(p, FALSE)
  <2>1. BuiltInExcluded(p, IsDirectory(t, p)) <=> BuiltInExcluded(p, FALSE)
    BY DEF BuiltInExcluded
  <2>2. QED
    BY <2>1 DEF Sure
<1>5. QED
  BY <1>1, <1>2, <1>3, <1>4

\* A request that does not lead to an entry leaves it where it was.
LEMMA OthersCover ==
  ASSUME IsWalk(walk), CoverInv, AtRequest, NEW p \in Sought, ~Leads(Requested, p, IsDirectory(tree, p)),
         NEW v, v.requests = Tail(walk.requests), walk.found \subseteq v.found
  PROVE  Covered(v, tree, p, Options)
<1>1. Covered(walk, tree, p, Options) /\ walk.stack = {} /\ ~walk.over /\ walk.stage = "request" /\ walk.requests # <<>>
  BY DEF CoverInv, Steered, AtRequest
<1>2. CASE \E e \in walk.found : e.path = p
  BY <1>2 DEF Covered
<1>3. CASE \E k \in DOMAIN walk.requests : Leads(walk.requests[k], p, IsDirectory(tree, p))
  <2>1. PICK k \in DOMAIN walk.requests : Leads(walk.requests[k], p, IsDirectory(tree, p))
    BY <1>3
  <2>2. k # 1
    BY <1>1, <2>1, RequestedIs
  <2>3. \E j \in DOMAIN v.requests : v.requests[j] = walk.requests[k]
    BY <1>1, <2>1, <2>2, RequestedIs
  <2>4. QED
    BY <2>1, <2>3 DEF Covered
<1>4. QED
  BY <1>1, <1>2, <1>3 DEF Covered, Ahead

\* A request leads to an entry from above, names it, or goes through it.
LEMMA LeadCases ==
  ASSUME NEW t, NEW p, NEW o, Sure(t, p, o), NEW r \in Paths, Leads(r, p, IsDirectory(t, p))
  PROVE  \/ \E k \in 0..Len(p) - 1 : r = Up(p, k)
         \/ r = p /\ ~IsDirectory(t, p)
         \/ IsDirectory(t, p) /\ IsPrefix(p, r)
<1>1. p \in Paths /\ Len(p) \in Nat \ {0}
  BY DEF Sure, Paths
<1>2. CASE IsPrefix(r, p)
  <2>1. Len(r) \in 0..Len(p) /\ r = Up(p, Len(r))
    BY <1>1, <1>2, PrefixIs
  <2>2. CASE Len(r) = Len(p)
    <3>1. r = p
      BY <1>1, <2>1, <2>2, UpOfUp
    <3>2. QED
      BY <1>2, <3>1
  <2>3. CASE Len(r) # Len(p)
    <3>1. Len(r) \in 0..Len(p) - 1
      BY <1>1, <2>1, <2>3
    <3>2. QED
      BY <2>1, <3>1
  <2>4. QED
    BY <2>2, <2>3
<1>3. QED
  BY <1>2 DEF Leads

\* The rules above an entry that is sought are right, and there once they are
\* looked for.
LEMMA RulesStay ==
  ASSUME SteadyInv, NEW p \in Sought, NEW w, IsWalk(w), NEW d,
         Options.respectGitignore => RulesRight(w.rules, tree, p)
  PROVE  Options.respectGitignore => RulesRight(Loaded(w, d).rules, tree, p)
<1>1. p \in Paths
  BY SoughtIs
<1>2. Loaded(w, d).rules = WithRules(tree, w.rules, d, Options)
  BY LoadedIs
<1>3. ASSUME Options.respectGitignore PROVE RulesRight(WithRules(tree, w.rules, d, Options), tree, p)
  <2>1. RulesRight(w.rules, tree, p)
    BY <1>3
  <2>2. QED
    BY <1>1, <2>1, WithRulesIs
<1>4. QED
  BY <1>2, <1>3

LEMMA RulesCome ==
  ASSUME SteadyInv, NEW p \in Sought, NEW w, IsWalk(w), NEW k \in 0..Len(p) - 1,
         Options.respectGitignore => RulesRight(w.rules, tree, p)
  PROVE  Options.respectGitignore => Agrees(Loaded(w, Up(p, k)).rules, tree, p, k + 1)
<1>1. p \in Paths /\ Sure(tree, p, Options) /\ k \in 0..Len(p) /\ k < Len(p)
  BY SoughtIs
<1>2. Loaded(w, Up(p, k)).rules = WithRules(tree, w.rules, Up(p, k), Options)
  BY LoadedIs
<1>3. ASSUME Options.respectGitignore PROVE Agrees(WithRules(tree, w.rules, Up(p, k), Options), tree, p, k + 1)
  <2>1. RulesRight(w.rules, tree, p)
    BY <1>3
  <2>2. ~GitIgnores(RulesAbove(tree, p), p, FALSE)
    BY <1>1, <1>3 DEF Sure
  <2>3. QED
    BY <1>1, <1>3, <2>1, <2>2, AllLoaded
<1>4. QED
  BY <1>2, <1>3

\* The next request, when everything the last one led to was found.
LEMMA RequestSteers ==
  ASSUME TreeInv, WalkInv, SteadyInv, CoverInv, AtRequest, NEW w, IsWalk(w),
         w.stage = walk.stage, w.requests = walk.requests, w.stack = walk.stack, w.boundary = walk.boundary,
         walk.found \subseteq w.found, w.over => \E e \in w.found : e.code = "PYA1006",
         \A p \in Sought : Options.respectGitignore => RulesRight(w.rules, tree, p),
         \A p \in Sought : Leads(Requested, p, IsDirectory(tree, p)) => w.over \/ \E e \in w.found : e.path = p
  PROVE  Steered(NextRequest(w))
<1> DEFINE v == NextRequest(w)
<1>1. IsWalk(walk) /\ walk.requests # <<>> /\ walk.stage = "request"
  BY DEF WalkInv, AtRequest
<1>2. /\ v.requests = Tail(walk.requests) /\ v.stage = "request" /\ v.stack = walk.stack /\ v.boundary = walk.boundary
      /\ v.rules = w.rules /\ v.found = w.found /\ v.over = w.over
  BY <1>1, NextRequestIs
<1> HIDE DEF v
<1>3. v.stack = {}
  BY <1>1, <1>2 DEF CoverInv, Steered
<1>4. Whole => v.requests \in {WholeRoot, <<>>}
  <2>1. Whole => walk.requests = WholeRoot
    BY <1>1 DEF CoverInv, Steered
  <2>2. Tail(WholeRoot) = <<>>
    BY DEF WholeRoot
  <2>3. QED
    BY <1>2, <2>1, <2>2
<1>5. phase = "scan" \/ Whole => v.boundary = <<>>
  BY <1>2 DEF CoverInv, Steered
<1>6. ASSUME NEW p \in Sought PROVE Covered(v, tree, p, Options)
  <2>1. CASE Leads(Requested, p, IsDirectory(tree, p))
    BY <1>2, <2>1 DEF Covered
  <2>2. CASE ~Leads(Requested, p, IsDirectory(tree, p))
    BY <1>1, <1>2, <2>2, OthersCover
  <2>3. QED
    BY <2>1, <2>2
<1>7. Steered(v)
  BY <1>2, <1>3, <1>4, <1>5, <1>6 DEF Steered
<1>8. QED
  BY <1>7 DEF v

LEMMA ThroughLinkCovers ==
  ASSUME TreeInv, WalkInv, SteadyInv, CoverInv, RequestThroughLink
  PROVE  CoverInv'
<1> DEFINE alias == SubSeq(Requested, 1, Min(LinkedPrefixes(tree, Requested)))
           ready == Loaded(walk, Above(alias))
           entry == DirectorySymlink(alias)
           chosen == Select(ready, entry)
           hidden == BuiltInExcluded(alias, TRUE) /\ ~Options.allowBuiltInRoots
           excluded == SymlinkExcluded(ready.rules, alias, Options)
<1>1. /\ IsTree(tree) /\ AtRequest /\ IsWalk(walk) /\ walk.requests # <<>> /\ ~walk.over
      /\ LinkedPrefixes(tree, Requested) # {} /\ Requested \in Paths /\ UNCHANGED <<scenario, tree, steady>>
  BY RequestedIs DEF TreeInv, WalkInv, RequestThroughLink, RequestInside, AtRequest, Untouched, treeVars
<1>2. \/ Refuse(Fails(Above(alias)))
      \/ (hidden /\ Proceed(NextRequest(walk)))
      \/ (~hidden /\ excluded /\ Proceed(NextRequest(ready)))
      \/ (~hidden /\ ~excluded /\ Proceed(NextRequest(chosen)))
  BY DEF RequestThroughLink
<1>3. alias \in Paths
  BY <1>1, AliasIs
<1>4. ASSUME NEW p \in Sought, Leads(Requested, p, IsDirectory(tree, p)) PROVE alias = p /\ IsDirectory(tree, p)
  <2>1. Sure(tree, p, Options)
    BY SoughtIs
  <2>2. CASE \E k \in 0..Len(p) - 1 : Requested = Up(p, k)
    BY <1>1, <2>1, <2>2, AboveIs
  <2>3. CASE Requested = p /\ ~IsDirectory(tree, p)
    BY <1>1, <2>1, <2>3, FileIs
  <2>4. CASE IsDirectory(tree, p) /\ IsPrefix(p, Requested)
    BY <1>1, <2>1, <2>4, LinkFirst
  <2>5. QED
    BY <1>1, <1>4, <2>1, <2>2, <2>3, <2>4, LeadCases
<1> HIDE DEF alias
<1>5. /\ IsWalk(ready) /\ ready.requests = walk.requests /\ ready.stage = walk.stage /\ ready.stack = walk.stack
      /\ ready.boundary = walk.boundary /\ ready.found = walk.found /\ ready.over = walk.over
  BY <1>1, LoadedIs
<1>6. \A p \in Sought : Options.respectGitignore => RulesRight(walk.rules, tree, p) /\ RulesRight(ready.rules, tree, p)
  BY <1>1, RulesStay DEF CoverInv, Steered
<1>7. ASSUME NEW p \in Sought, Leads(Requested, p, IsDirectory(tree, p)) PROVE ~hidden /\ ~excluded
  <2>1. alias = p /\ IsDirectory(tree, p)
    BY <1>4, <1>7
  <2>2. /\ Sure(tree, p, Options) /\ p \in Paths /\ p # <<>> /\ Len(p) \in Nat \ {0}
        /\ Len(p) \in 0..Len(p) /\ Len(p) - 1 \in 0..Len(p) - 1 /\ (Len(p) - 1) + 1 = Len(p)
    BY SoughtIs
  <2>3. ~BuiltInExcluded(p, TRUE)
    <3>1. BuiltInExcluded(p, IsDirectory(tree, p)) <=> BuiltInExcluded(p, TRUE)
      BY <2>1 DEF BuiltInExcluded
    <3>2. QED
      BY <2>2, <3>1 DEF Sure
  <2>4. Above(p) = Up(p, Len(p) - 1)
    BY <2>2, PrefixIs
  <2>5. Options.respectGitignore => Agrees(ready.rules, tree, p, Len(p))
    <3>1. Options.respectGitignore => RulesRight(walk.rules, tree, p)
      BY <1>6
    <3>2. Options.respectGitignore => Agrees(Loaded(walk, Up(p, Len(p) - 1)).rules, tree, p, (Len(p) - 1) + 1)
      BY <1>1, <2>2, <3>1, RulesCome
    <3>3. QED
      BY <2>1, <2>2, <2>4, <3>2
  <2> HIDE DEF ready
  <2>6. ~SymlinkExcluded(ready.rules, p, Options)
    BY <2>2, <2>5, PolicyKeeps
  <2>7. QED
    BY <2>1, <2>3, <2>6
<1> HIDE DEF ready
<1>8. entry \in Entries /\ entry.code # "file" /\ entry.path = alias
  BY <1>1, <1>3, EntryIs
<1> HIDE DEF entry
<1>9. /\ IsWalk(chosen) /\ chosen.requests = walk.requests /\ chosen.stage = walk.stage /\ chosen.stack = walk.stack
      /\ chosen.boundary = walk.boundary /\ chosen.rules = ready.rules /\ walk.found \subseteq chosen.found
      /\ chosen.over => \E x \in chosen.found : x.code = "PYA1006"
      /\ chosen.over \/ \E x \in chosen.found : x.path = alias
  <2>1. IsWalk(Select(ready, entry))
    BY <1>5, <1>8, SelectIs
  <2>2. /\ Select(ready, entry).requests = ready.requests /\ Select(ready, entry).stage = ready.stage
        /\ Select(ready, entry).stack = ready.stack /\ Select(ready, entry).boundary = ready.boundary
        /\ Select(ready, entry).rules = ready.rules
    BY ONLY <1>5, SelectKeeps
  <2>3. LET v == Select(ready, entry) IN
        /\ ready.found \subseteq v.found
        /\ v.over => \E x \in v.found : x.code = "PYA1006"
        /\ v.over \/ \E x \in v.found : x.path = entry.path
    BY <1>1, <1>5, <1>8, ChosenIs
  <2>4. QED
    BY <1>5, <1>8, <2>1, <2>2, <2>3
<1> HIDE DEF chosen, hidden, excluded
<1>10. CASE Refuse(Fails(Above(alias)))
  BY <1>10, StopIs, CoverEnds
<1>11. CASE hidden /\ Proceed(NextRequest(walk))
  <2>1. Steered(NextRequest(walk))
    BY <1>1, <1>6, <1>7, <1>11, RequestSteers
  <2>2. QED
    BY <1>1, <1>11, <2>1, CoverGoesOn DEF Proceed
<1>12. CASE ~hidden /\ excluded /\ Proceed(NextRequest(ready))
  <2>1. Steered(NextRequest(ready))
    BY <1>1, <1>5, <1>6, <1>7, <1>12, RequestSteers
  <2>2. QED
    BY <1>1, <1>12, <2>1, CoverGoesOn DEF Proceed
<1>13. CASE ~hidden /\ ~excluded /\ Proceed(NextRequest(chosen))
  <2>1. \A p \in Sought : Leads(Requested, p, IsDirectory(tree, p)) => chosen.over \/ \E e \in chosen.found : e.path = p
    BY <1>4, <1>9
  <2>2. \A p \in Sought : Options.respectGitignore => RulesRight(chosen.rules, tree, p)
    BY <1>6, <1>9
  <2>3. Steered(NextRequest(chosen))
    BY <1>1, <1>9, <2>1, <2>2, RequestSteers
  <2>4. QED
    BY <1>1, <1>13, <2>3, CoverGoesOn DEF Proceed
<1>14. QED
  BY <1>2, <1>10, <1>11, <1>12, <1>13

\* A request that goes through no link leads to an entry from above, or names
\* it.
LEMMA StraightLead ==
  ASSUME IsTree(tree), NEW p, NEW o, Sure(tree, p, o), NEW r \in Paths, LinkedPrefixes(tree, r) = {},
         Leads(r, p, IsDirectory(tree, p))
  PROVE  /\ ~BuiltInExcluded(r, IsDirectory(tree, r))
         /\ IsDirectory(tree, r) => \E k \in 0..Len(p) - 1 : r = Up(p, k)
         /\ ~IsDirectory(tree, r) => r = p
<1>1. CASE \E k \in 0..Len(p) - 1 : r = Up(p, k)
  <2>1. IsDirectory(tree, r) /\ ~BuiltInExcluded(r, TRUE)
    <3>1. PICK k \in 0..Len(p) - 1 : r = Up(p, k)
      BY <1>1
    <3>2. IsDirectory(tree, Up(p, k)) /\ ~BuiltInExcluded(Up(p, k), TRUE)
      BY AboveIs
    <3>3. QED
      BY <3>1, <3>2
  <2>2. BuiltInExcluded(r, IsDirectory(tree, r)) <=> BuiltInExcluded(r, TRUE)
    BY <2>1 DEF BuiltInExcluded
  <2>3. QED
    BY <1>1, <2>1, <2>2
<1>2. CASE r = p /\ ~IsDirectory(tree, p)
  <2>1. ~BuiltInExcluded(p, IsDirectory(tree, p))
    BY DEF Sure
  <2>2. QED
    BY <1>2, <2>1
<1>3. CASE IsDirectory(tree, p) /\ IsPrefix(p, r)
  BY <1>3, LinkFirst
<1>4. QED
  BY <1>1, <1>2, <1>3, LeadCases

LEMMA BuiltInCovers ==
  ASSUME TreeInv, WalkInv, SteadyInv, CoverInv, RequestBuiltIn
  PROVE  CoverInv'
<1>1. /\ IsTree(tree) /\ AtRequest /\ IsWalk(walk) /\ ~walk.over /\ BuiltInExcluded(Requested, IsDirectory(tree, Requested))
      /\ LinkedPrefixes(tree, Requested) = {} /\ Requested \in Paths /\ UNCHANGED <<scenario, tree, steady>>
      /\ Proceed(NextRequest(walk))
  BY RequestedIs DEF TreeInv, WalkInv, RequestBuiltIn, RequestInside, RequestHidden, AtRequest, Untouched, treeVars
<1>2. \A p \in Sought : ~Leads(Requested, p, IsDirectory(tree, p))
  BY <1>1, SoughtIs, StraightLead
<1>3. \A p \in Sought : Options.respectGitignore => RulesRight(walk.rules, tree, p)
  BY DEF CoverInv, Steered
<1>4. Steered(NextRequest(walk))
  BY <1>1, <1>2, <1>3, RequestSteers
<1>5. QED
  BY <1>1, <1>4, CoverGoesOn DEF Proceed

LEMMA DirectoryCovers ==
  ASSUME TreeInv, WalkInv, SteadyInv, CoverInv, RequestDirectory
  PROVE  CoverInv'
<1> DEFINE ready == IF Requested = <<>> THEN walk ELSE Loaded(walk, Above(Requested))
           next == NextRequest(ready)
           boundary == IF Options.allowBuiltInRoots THEN Requested ELSE <<>>
           descending == [next EXCEPT !.stage = "list", !.stack = {Requested}, !.boundary = boundary]
           excluded == DirectoryExcluded(ready.rules, Requested, Options)
<1>1. /\ IsTree(tree) /\ AtRequest /\ IsWalk(walk) /\ walk.requests # <<>> /\ ~walk.over
      /\ LinkedPrefixes(tree, Requested) = {} /\ Requested \in Paths /\ UNCHANGED <<scenario, tree, steady>>
      /\ IsDirectory(tree, Requested)
  BY RequestedIs DEF TreeInv, WalkInv, RequestDirectory, RequestInside, AtRequest, Untouched, treeVars
<1>2. \/ Refuse(Fails(Above(Requested)))
      \/ excluded /\ Proceed(next)
      \/ ~excluded /\ Proceed(descending)
  BY DEF RequestDirectory
<1>3. /\ IsWalk(ready) /\ ready.requests = walk.requests /\ ready.stage = walk.stage /\ ready.stack = walk.stack
      /\ ready.boundary = walk.boundary /\ ready.found = walk.found /\ ready.over = walk.over
  BY <1>1, LoadedIs
<1>4. ASSUME NEW p \in Sought
      PROVE  /\ Options.respectGitignore => RulesRight(walk.rules, tree, p)
             /\ Options.respectGitignore => RulesRight(ready.rules, tree, p)
  <2>1. Options.respectGitignore => RulesRight(walk.rules, tree, p)
    BY DEF CoverInv, Steered
  <2>2. CASE Requested = <<>>
    BY <2>1, <2>2
  <2>3. CASE Requested # <<>>
    <3>1. Options.respectGitignore => RulesRight(Loaded(walk, Above(Requested)).rules, tree, p)
      BY <1>1, <2>1, RulesStay
    <3>2. QED
      BY <2>1, <2>3, <3>1
  <2>4. QED
    BY <2>2, <2>3
<1>5. ASSUME NEW p \in Sought, Leads(Requested, p, IsDirectory(tree, p))
      PROVE  ~excluded /\ \E k \in 0..Len(p) - 1 : Requested = Up(p, k)
  <2>1. Sure(tree, p, Options) /\ p \in Paths /\ Len(p) \in Nat \ {0}
    BY SoughtIs
  <2>2. PICK k \in 0..Len(p) - 1 : Requested = Up(p, k)
    BY <1>1, <1>5, <2>1, StraightLead
  <2>3. k \in 0..Len(p) /\ k < Len(p) /\ Len(Requested) = k
    BY <2>1, <2>2, AboveIs, <1>1
  <2>4. Options.respectGitignore => Agrees(ready.rules, tree, p, k)
    <3>1. CASE Requested = <<>>
      <4>1. k = 0
        BY <2>3, <3>1
      <4>2. QED
        BY <4>1 DEF Agrees
    <3>2. CASE Requested # <<>>
      <4>1. k \in 1..Len(p) /\ k - 1 \in 0..Len(p) - 1 /\ (k - 1) + 1 = k /\ k - 1 \in 0..k
        BY <1>1, <2>1, <2>3, <3>2 DEF Paths
      <4>2. Above(Requested) = Up(p, k - 1)
        <5>1. Above(Requested) = Up(Requested, k - 1)
          BY <1>1, <2>3, <3>2, PrefixIs
        <5>2. Up(Up(p, k), k - 1) = Up(p, k - 1)
          BY <2>1, <2>3, <4>1, UpOfUp
        <5>3. QED
          BY <2>2, <5>1, <5>2
      <4>3. Options.respectGitignore => Agrees(Loaded(walk, Up(p, k - 1)).rules, tree, p, (k - 1) + 1)
        BY <1>1, <1>4, <4>1, RulesCome
      <4>4. QED
        BY <3>2, <4>1, <4>2, <4>3
    <3>3. QED
      BY <3>1, <3>2
  <2> HIDE DEF ready
  <2>5. ~DirectoryExcluded(ready.rules, Up(p, k), Options)
    BY <2>1, <2>3, <2>4, PolicyKeeps
  <2>6. QED
    BY <2>2, <2>5
<1> HIDE DEF ready
<1>6. next.requests = Tail(walk.requests) /\ next.found = walk.found /\ next.over = FALSE /\ next.rules = ready.rules
      /\ IsWalk(next)
  BY <1>1, <1>3, NextRequestIs DEF IsWalk
<1>7. CASE Refuse(Fails(Above(Requested)))
  BY <1>7, StopIs, CoverEnds
<1>8. CASE excluded /\ Proceed(next)
  <2>1. \A p \in Sought : ~Leads(Requested, p, IsDirectory(tree, p))
    BY <1>5, <1>8
  <2>2. Steered(NextRequest(ready))
    BY <1>1, <1>3, <1>4, <2>1, RequestSteers
  <2>3. QED
    BY <1>1, <1>8, <2>2, CoverGoesOn DEF Proceed
<1>9. CASE ~excluded /\ Proceed(descending)
  <2> HIDE DEF next
  <2>1. /\ descending.stage = "list" /\ descending.stack = {Requested} /\ descending.boundary = boundary
        /\ descending.requests = Tail(walk.requests) /\ descending.found = walk.found /\ descending.over = FALSE
        /\ descending.rules = ready.rules
    BY <1>6 DEF IsWalk
  <2>2. Whole => descending.requests \in {WholeRoot, <<>>} /\ Requested = <<>>
    <3>1. Whole => walk.requests = WholeRoot
      BY <1>1 DEF CoverInv, Steered
    <3>2. Tail(WholeRoot) = <<>> /\ Head(WholeRoot) = <<>>
      BY DEF WholeRoot
    <3>3. QED
      BY <2>1, <3>1, <3>2 DEF Requested
  <2>3. phase = "scan" \/ Whole => descending.boundary = <<>>
    <3>1. phase = "scan" => boundary = <<>>
      BY DEF Options, ScanOptions
    <3>2. QED
      BY <2>1, <2>2, <3>1
  <2> HIDE DEF descending, excluded
  <2>4. ASSUME NEW p \in Sought PROVE Covered(descending, tree, p, Options)
    <3>1. CASE Leads(Requested, p, IsDirectory(tree, p))
      BY <1>5, <2>1, <3>1 DEF Covered
    <3>2. CASE ~Leads(Requested, p, IsDirectory(tree, p))
      BY <1>1, <2>1, <3>2, OthersCover
    <3>3. QED
      BY <3>1, <3>2
  <2>5. Steered(descending)
    BY <1>4, <2>1, <2>2, <2>3, <2>4 DEF Steered
  <2>6. QED
    BY <1>1, <1>9, <2>5, CoverGoesOn DEF Proceed
<1>10. QED
  BY <1>2, <1>7, <1>8, <1>9

LEMMA FileCovers ==
  ASSUME TreeInv, WalkInv, SteadyInv, CoverInv, RequestFile
  PROVE  CoverInv'
<1> DEFINE ready == Loaded(walk, Above(Requested))
           entry == SourceEntry(tree, Requested)
           chosen == Select(ready, entry)
           wanted == FileSelected(ready.rules, Requested, Options)
<1>1. /\ IsTree(tree) /\ AtRequest /\ IsWalk(walk) /\ walk.requests # <<>> /\ ~walk.over
      /\ LinkedPrefixes(tree, Requested) = {} /\ Requested \in Paths /\ UNCHANGED <<scenario, tree, steady>>
      /\ ~IsDirectory(tree, Requested) /\ Requested # <<>>
  BY RequestedIs, FileWalk DEF TreeInv, WalkInv, RequestFile, RequestInside, AtRequest, Untouched, treeVars
<1>2. \/ Refuse(Fails(Above(Requested))) \/ Invalid
      \/ ~wanted /\ Proceed(NextRequest(ready))
      \/ Proceed(NextRequest(chosen))
  BY DEF RequestFile
<1>3. /\ IsWalk(ready) /\ ready.requests = walk.requests /\ ready.stage = walk.stage /\ ready.stack = walk.stack
      /\ ready.boundary = walk.boundary /\ ready.found = walk.found /\ ready.over = walk.over
  BY <1>1, LoadedIs
<1>4. \A p \in Sought : Options.respectGitignore => RulesRight(walk.rules, tree, p) /\ RulesRight(ready.rules, tree, p)
  BY <1>1, RulesStay DEF CoverInv, Steered
<1>5. ASSUME NEW p \in Sought, Leads(Requested, p, IsDirectory(tree, p)) PROVE wanted /\ Requested = p
  <2>1. Sure(tree, p, Options) /\ p \in Paths /\ p # <<>> /\ Len(p) \in Nat \ {0}
    BY SoughtIs
  <2>2. Requested = p
    BY <1>1, <1>5, <2>1, StraightLead
  <2>3. Len(p) \in 0..Len(p) /\ Len(p) - 1 \in 0..Len(p) - 1 /\ (Len(p) - 1) + 1 = Len(p)
    BY <2>1
  <2>4. Above(p) = Up(p, Len(p) - 1)
    BY <2>1, PrefixIs
  <2>5. Options.respectGitignore => Agrees(ready.rules, tree, p, Len(p))
    <3>1. Options.respectGitignore => RulesRight(walk.rules, tree, p)
      BY <1>4
    <3>2. Options.respectGitignore => Agrees(Loaded(walk, Up(p, Len(p) - 1)).rules, tree, p, (Len(p) - 1) + 1)
      BY <1>1, <2>3, <3>1, RulesCome
    <3>3. QED
      BY <2>2, <2>3, <2>4, <3>2
  <2> HIDE DEF ready
  <2>6. FileSelected(ready.rules, p, Options)
    BY <1>1, <2>1, <2>2, <2>3, <2>5, PolicyKeeps
  <2>7. QED
    BY <2>2, <2>6
<1> HIDE DEF ready
<1>6. entry \in Entries /\ entry.path = Requested /\ ~entry.directory
  BY <1>1, EntryIs
<1> HIDE DEF entry
<1>7. /\ IsWalk(chosen) /\ chosen.requests = walk.requests /\ chosen.stage = walk.stage /\ chosen.stack = walk.stack
      /\ chosen.boundary = walk.boundary /\ chosen.rules = ready.rules /\ walk.found \subseteq chosen.found
      /\ chosen.over => \E x \in chosen.found : x.code = "PYA1006"
      /\ chosen.over \/ \E x \in chosen.found : x.path = Requested
  <2>1. IsWalk(Select(ready, entry))
    BY <1>1, <1>3, <1>6, SelectIs
  <2>2. /\ Select(ready, entry).requests = ready.requests /\ Select(ready, entry).stage = ready.stage
        /\ Select(ready, entry).stack = ready.stack /\ Select(ready, entry).boundary = ready.boundary
        /\ Select(ready, entry).rules = ready.rules
    BY ONLY <1>3, SelectKeeps
  <2>3. LET v == Select(ready, entry) IN
        /\ ready.found \subseteq v.found
        /\ v.over => \E x \in v.found : x.code = "PYA1006"
        /\ v.over \/ \E x \in v.found : x.path = entry.path
    BY <1>1, <1>3, <1>6, ChosenIs
  <2>4. QED
    BY <1>3, <1>6, <2>1, <2>2, <2>3
<1> HIDE DEF chosen, wanted
<1>8. CASE Refuse(Fails(Above(Requested))) \/ Invalid
  BY <1>8, StopIs, CoverEnds
<1>9. CASE ~wanted /\ Proceed(NextRequest(ready))
  <2>1. Steered(NextRequest(ready))
    BY <1>1, <1>3, <1>4, <1>5, <1>9, RequestSteers
  <2>2. QED
    BY <1>1, <1>9, <2>1, CoverGoesOn DEF Proceed
<1>10. CASE Proceed(NextRequest(chosen))
  <2>1. \A p \in Sought : Leads(Requested, p, IsDirectory(tree, p)) => chosen.over \/ \E e \in chosen.found : e.path = p
    BY <1>5, <1>7
  <2>2. \A p \in Sought : Options.respectGitignore => RulesRight(chosen.rules, tree, p)
    BY <1>4, <1>7
  <2>3. Steered(NextRequest(chosen))
    BY <1>1, <1>7, <2>1, <2>2, RequestSteers
  <2>4. QED
    BY <1>1, <1>10, <2>3, CoverGoesOn DEF Proceed
<1>11. QED
  BY <1>2, <1>8, <1>9, <1>10

\* A step of the walk below a request.
LEMMA WalkSteers ==
  ASSUME SteadyInv, CoverInv, walk.stage # "request",
         NEW w, w.requests = walk.requests, w.boundary = walk.boundary, walk.found \subseteq w.found,
         w.stage = "request" => w.stack = {},
         w.over => w.stage = "request" /\ \E e \in w.found : e.code = "PYA1006",
         \A p \in Sought : Options.respectGitignore => RulesRight(w.rules, tree, p),
         \A p \in Sought : \A k \in 0..Len(p) - 1 : Up(p, k) \in walk.stack => Covered(w, tree, p, Options),
         \A p \in Sought : \A k \in 0..Len(p) - 1 : Ahead(walk, tree, p, Options, k) => Covered(w, tree, p, Options)
  PROVE  Steered(w)
<1>1. ASSUME NEW p \in Sought PROVE Covered(w, tree, p, Options)
  <2>1. Covered(walk, tree, p, Options) /\ ~walk.over
    BY DEF CoverInv, Steered
  <2>2. CASE \E e \in walk.found : e.path = p
    BY <2>2 DEF Covered
  <2>3. CASE \E k \in DOMAIN walk.requests : Leads(walk.requests[k], p, IsDirectory(tree, p))
    BY <2>3 DEF Covered
  <2>4. CASE \E k \in 0..Len(p) - 1 : Up(p, k) \in walk.stack
    BY <2>4
  <2>5. CASE \E k \in 0..Len(p) - 1 : Ahead(walk, tree, p, Options, k)
    BY <2>5
  <2>6. QED
    BY <2>1, <2>2, <2>3, <2>4, <2>5 DEF Covered
<1>2. QED
  BY <1>1 DEF CoverInv, Steered

\* What the listing of a directory says of the names on the way.
LEMMA ListedIs ==
  ASSUME IsTree(tree), NEW p, NEW o, Sure(tree, p, o), NEW k \in 0..Len(p) - 1
  PROVE  LET listed == Inode(tree, Resolved(tree, Up(p, k))) IN
         /\ p[k + 1] \in DOMAIN listed.at
         /\ LET there == Inode(tree, Target(tree, listed.at[p[k + 1]])).kind IN
            /\ k + 1 < Len(p) => there = "dir"
            /\ k + 1 = Len(p) => (there = "dir" <=> IsDirectory(tree, p))
<1> DEFINE i == At(tree, Up(p, k))
<1>1. p \in Paths /\ Len(p) \in Nat \ {0} /\ At(tree, p) # None /\ k \in 0..Len(p) /\ k < Len(p) /\ k + 1 \in 0..Len(p)
  BY DEF Sure, Paths
<1>2. /\ i \in DOMAIN tree /\ p[k + 1] \in DOMAIN tree[i].at /\ At(tree, Up(p, k + 1)) = tree[i].at[p[k + 1]]
  BY <1>1, AboveThere
<1>3. Resolved(tree, Up(p, k)) = i
  BY <1>1, FoundThere
<1>4. Inode(tree, i) = tree[i]
  BY <1>2, InodeIs DEF Inodes
<1>5. Lstat(tree, Up(p, k + 1)) = At(tree, Up(p, k + 1)) /\ (k + 1 < Len(p) => IsDirectory(tree, Up(p, k + 1)))
  BY <1>1, FoundThere
<1>6. Target(tree, tree[i].at[p[k + 1]]) = Resolved(tree, Up(p, k + 1))
  BY <1>2, <1>5 DEF Resolved
<1>7. k + 1 = Len(p) => Up(p, k + 1) = p
  BY <1>1, UpOfUp
<1> HIDE DEF i
<1>8. Inode(tree, Resolved(tree, Up(p, k + 1))).kind = "dir" <=> IsDirectory(tree, Up(p, k + 1))
  BY DEF IsDirectory
<1>9. QED
  BY <1>2, <1>3, <1>4, <1>5, <1>6, <1>7, <1>8

LEMMA ListCovers ==
  ASSUME TreeInv, WalkInv, SteadyInv, CoverInv, ListDirectory
  PROVE  CoverInv'
<1>1. IsTree(tree) /\ IsWalk(walk) /\ UNCHANGED <<scenario, tree, steady>> /\ walk.stage = "list"
  BY DEF TreeInv, WalkInv, ListDirectory, Untouched, treeVars
<1>2. PICK directory \in FirstPath(walk.stack) :
        LET listed == Inode(tree, Resolved(tree, directory))
            inside(n) == Inode(tree, Target(tree, listed.at[n])).kind = "dir"
        IN IF listed.kind # "dir" THEN Incomplete
           ELSE Proceed([walk EXCEPT !.stage = "prepare", !.stack = @ \ {directory}, !.at = directory,
                             !.retained = {},
                             !.directories = {n \in DOMAIN listed.at : inside(n)},
                             !.files = {n \in DOMAIN listed.at : ~inside(n)}])
  BY DEF ListDirectory
<1> DEFINE listed == Inode(tree, Resolved(tree, directory))
           inside(n) == Inode(tree, Target(tree, listed.at[n])).kind = "dir"
           D == {n \in DOMAIN listed.at : inside(n)}
           F == {n \in DOMAIN listed.at : ~inside(n)}
           w == [walk EXCEPT !.stage = "prepare", !.stack = @ \ {directory}, !.at = directory,
                             !.retained = {}, !.directories = D, !.files = F]
<1>3. CASE listed.kind # "dir"
  BY <1>2, <1>3, StopIs, CoverEnds
<1>4. CASE listed.kind = "dir"
  <2>1. Proceed(w)
    BY <1>2, <1>4
  <2>2. ASSUME NEW p \in Sought, NEW k \in 0..Len(p) - 1, Up(p, k) = directory
        PROVE  /\ k + 1 < Len(p) => p[k + 1] \in D
               /\ k + 1 = Len(p) => IF IsDirectory(tree, p) THEN p[k + 1] \in D ELSE p[k + 1] \in F
    <3>1. Sure(tree, p, Options)
      BY SoughtIs
    <3>2. /\ p[k + 1] \in DOMAIN listed.at
          /\ k + 1 < Len(p) => inside(p[k + 1])
          /\ k + 1 = Len(p) => (inside(p[k + 1]) <=> IsDirectory(tree, p))
      BY <1>1, <2>2, <3>1, ListedIs
    <3>3. QED
      BY <3>2
  <2> HIDE DEF D, F
  <2>3. /\ w.stage = "prepare" /\ w.stack = walk.stack \ {directory} /\ w.at = directory /\ w.retained = {}
        /\ w.directories = D /\ w.files = F /\ w.requests = walk.requests /\ w.boundary = walk.boundary
        /\ w.found = walk.found /\ w.rules = walk.rules /\ w.over = walk.over
    BY <1>1 DEF IsWalk
  <2> HIDE DEF w
  <2>4. ASSUME NEW p \in Sought, NEW k \in 0..Len(p) - 1, Up(p, k) \in walk.stack
        PROVE  Covered(w, tree, p, Options)
    <3>1. CASE Up(p, k) # directory
      BY <2>3, <2>4, <3>1 DEF Covered
    <3>2. CASE Up(p, k) = directory
      <4>1. Len(p) \in Nat \ {0}
        BY SoughtIs
      <4>2. k + 1 < Len(p) \/ k + 1 = Len(p)
        BY <4>1
      <4>3. ToVisit(w, tree, p, k)
        BY <2>2, <2>3, <3>2, <4>2 DEF ToVisit
      <4>4. Ahead(w, tree, p, Options, k)
        BY <2>3, <3>2, <4>3 DEF Ahead
      <4>5. QED
        BY <4>4 DEF Covered
    <3>3. QED
      BY <3>1, <3>2
  <2>5. ~walk.over
    BY <1>1 DEF CoverInv, Steered
  <2>6. \A p \in Sought : Options.respectGitignore => RulesRight(w.rules, tree, p)
    BY <2>3 DEF CoverInv, Steered
  <2>7. \A p \in Sought : \A k \in 0..Len(p) - 1 : ~Ahead(walk, tree, p, Options, k)
    BY <1>1 DEF Ahead
  <2>8. Steered(w)
    BY <1>1, <2>3, <2>4, <2>5, <2>6, <2>7, WalkSteers
  <2>9. QED
    BY <1>1, <2>1, <2>8, CoverGoesOn DEF Proceed
<1>5. QED
  BY <1>3, <1>4

LEMMA PrepareCovers ==
  ASSUME TreeInv, WalkInv, SteadyInv, CoverInv, PrepareDirectory
  PROVE  CoverInv'
<1> DEFINE ready == Loaded(walk, walk.at)
           w == [ready EXCEPT !.stage = "directories"]
<1>1. IsTree(tree) /\ IsWalk(walk) /\ UNCHANGED <<scenario, tree, steady>> /\ walk.stage = "prepare"
  BY DEF TreeInv, WalkInv, PrepareDirectory, Untouched, treeVars
<1>2. Refuse(Fails(walk.at)) \/ Proceed(w)
  BY DEF PrepareDirectory
<1>3. /\ IsWalk(ready) /\ ready.requests = walk.requests /\ ready.stack = walk.stack /\ ready.at = walk.at
      /\ ready.boundary = walk.boundary /\ ready.found = walk.found /\ ready.over = walk.over
      /\ ready.directories = walk.directories /\ ready.retained = walk.retained /\ ready.files = walk.files
  BY <1>1, LoadedIs
<1>4. \A p \in Sought : Options.respectGitignore => RulesRight(walk.rules, tree, p) /\ RulesRight(ready.rules, tree, p)
  BY <1>1, RulesStay DEF CoverInv, Steered
<1>5. ASSUME NEW p \in Sought, NEW k \in 0..Len(p) - 1, walk.at = Up(p, k)
      PROVE  Options.respectGitignore => Agrees(ready.rules, tree, p, k + 1)
  <2>1. Options.respectGitignore => RulesRight(walk.rules, tree, p)
    BY <1>4
  <2>2. Options.respectGitignore => Agrees(Loaded(walk, Up(p, k)).rules, tree, p, k + 1)
    BY <1>1, <2>1, RulesCome
  <2>3. QED
    BY <1>5, <2>2
<1> HIDE DEF ready
<1>6. /\ w.stage = "directories" /\ w.requests = walk.requests /\ w.stack = walk.stack /\ w.at = walk.at
      /\ w.boundary = walk.boundary /\ w.found = walk.found /\ w.over = walk.over /\ w.rules = ready.rules
      /\ w.directories = walk.directories /\ w.retained = walk.retained /\ w.files = walk.files
  BY <1>3 DEF IsWalk
<1> HIDE DEF w
<1>7. CASE Refuse(Fails(walk.at))
  BY <1>7, StopIs, CoverEnds
<1>8. CASE Proceed(w)
  <2>1. ASSUME NEW p \in Sought, NEW k \in 0..Len(p) - 1, Ahead(walk, tree, p, Options, k)
        PROVE  Covered(w, tree, p, Options)
    <3>1. ToVisit(w, tree, p, k)
      BY <1>1, <1>6, <2>1 DEF Ahead, ToVisit
    <3>2. walk.at = Up(p, k)
      BY <2>1 DEF Ahead
    <3>3. Ahead(w, tree, p, Options, k)
      BY <1>5, <1>6, <3>1, <3>2 DEF Ahead
    <3>4. QED
      BY <3>3 DEF Covered
  <2>2. \A p \in Sought : \A k \in 0..Len(p) - 1 : Up(p, k) \in walk.stack => Covered(w, tree, p, Options)
    BY <1>6 DEF Covered
  <2>3. ~walk.over
    BY <1>1 DEF CoverInv, Steered
  <2>4. \A p \in Sought : Options.respectGitignore => RulesRight(w.rules, tree, p)
    BY <1>4, <1>6
  <2>5. Steered(w)
    BY <1>1, <1>6, <2>1, <2>2, <2>3, <2>4, WalkSteers
  <2>6. QED
    BY <1>1, <1>8, <2>5, CoverGoesOn DEF Proceed
<1>9. QED
  BY <1>2, <1>7, <1>8

\* One listed subdirectory: a link on the way is selected, a directory on the
\* way is retained.
LEMMA SubdirectoryCovers ==
  ASSUME TreeInv, WalkInv, SteadyInv, CoverInv, VisitSubdirectory
  PROVE  CoverInv'
<1>1. /\ IsTree(tree) /\ IsWalk(walk) /\ UNCHANGED <<scenario, tree, steady>> /\ walk.stage = "directories" /\ ~walk.over
      /\ walk.at \in Paths
  BY DEF TreeInv, WalkInv, VisitSubdirectory, Untouched, treeVars, CoverInv, Steered, IsWalk
<1>2. PICK name \in FirstName(walk.directories) :
        LET child == Append(walk.at, name)
            rest == [walk EXCEPT !.directories = @ \ {name}]
        IN Proceed(IF name \in BuiltIn THEN rest
                   ELSE IF IsLink(tree, child)
                   THEN IF SymlinkExcluded(walk.rules, child, Options) THEN rest
                        ELSE WalkOn(Select(rest, DirectorySymlink(child)))
                   ELSE IF DirectoryExcluded(walk.rules, child, Options) THEN rest
                   ELSE [rest EXCEPT !.retained = @ \union {name}])
  BY DEF VisitSubdirectory
<1> DEFINE child == Append(walk.at, name)
           rest == [walk EXCEPT !.directories = @ \ {name}]
           kept == [rest EXCEPT !.retained = @ \union {name}]
           entry == DirectorySymlink(child)
           chosen == WalkOn(Select(rest, entry))
           skipped == \/ name \in BuiltIn
                      \/ IsLink(tree, child) /\ SymlinkExcluded(walk.rules, child, Options)
                      \/ ~IsLink(tree, child) /\ DirectoryExcluded(walk.rules, child, Options)
<1>3. name \in walk.directories /\ name \in Names
  BY <1>1 DEF FirstName, IsWalk
<1>4. child \in Paths
  BY <1>1, <1>3, OneNameMore
<1>5. \/ skipped /\ Proceed(rest)
      \/ IsLink(tree, child) /\ Proceed(chosen)
      \/ ~IsLink(tree, child) /\ Proceed(kept)
  BY <1>2
<1>6. /\ IsWalk(rest) /\ rest.stage = "directories" /\ rest.requests = walk.requests /\ rest.stack = walk.stack
      /\ rest.at = walk.at /\ rest.boundary = walk.boundary /\ rest.found = walk.found /\ rest.over = walk.over
      /\ rest.rules = walk.rules /\ rest.directories = walk.directories \ {name} /\ rest.retained = walk.retained
      /\ rest.files = walk.files
  BY <1>1 DEF IsWalk
<1>7. entry \in Entries /\ entry.code # "file" /\ entry.path = child
  BY <1>1, <1>4, EntryIs
<1> HIDE DEF entry
<1>8. ASSUME NEW p \in Sought, NEW k \in 0..Len(p) - 1, Ahead(walk, tree, p, Options, k), p[k + 1] = name,
                 k + 1 < Len(p) \/ IsDirectory(tree, p)
      PROVE  /\ child = Up(p, k + 1) /\ ~skipped /\ walk.at = Up(p, k)
             /\ IsLink(tree, child) <=> k + 1 = Len(p) /\ IsDirectory(tree, p)
             /\ k + 1 < Len(p) \/ (k + 1 = Len(p) /\ Up(p, k + 1) = p)
             /\ Options.respectGitignore => Agrees(walk.rules, tree, p, k + 1)
  <2>1. /\ p \in Paths /\ Len(p) \in Nat \ {0} /\ Sure(tree, p, Options) /\ k + 1 \in 1..Len(p) /\ (k + 1) - 1 = k
        /\ k + 1 \in 0..Len(p) /\ (k + 1 < Len(p) \/ k + 1 = Len(p))
    BY SoughtIs
  <2>2. walk.at = Up(p, k) /\ (Options.respectGitignore => Agrees(walk.rules, tree, p, k + 1)) /\ ToVisit(walk, tree, p, k)
    BY <1>1, <1>8 DEF Ahead
  <2>3. child = Up(p, k + 1)
    BY <1>8, <2>1, <2>2, NameByName
  <2>4. name \notin BuiltIn
    BY <1>1, <1>8, <2>1, NamesKept
  <2>5. Up(p, Len(p)) = p
    BY <2>1, UpOfUp
  <2>6. CASE k + 1 < Len(p)
    <3>1. k + 1 \in 0..Len(p) - 1
      BY <2>1, <2>6
    <3>2. ~IsLink(tree, Up(p, k + 1))
      BY <1>1, <2>1, <3>1, AboveIs
    <3>3. ~DirectoryExcluded(walk.rules, Up(p, k + 1), Options)
      BY <2>1, <2>2, <2>6, PolicyKeeps
    <3>4. QED
      BY <2>1, <2>2, <2>3, <2>4, <2>6, <3>2, <3>3
  <2>7. CASE k + 1 = Len(p) /\ IsDirectory(tree, p)
    <3>1. IsLink(tree, p)
      BY <2>1, <2>7 DEF Sure
    <3>2. ~SymlinkExcluded(walk.rules, p, Options)
      BY <2>1, <2>2, <2>7, PolicyKeeps
    <3>3. QED
      BY <2>2, <2>3, <2>4, <2>5, <2>7, <3>1, <3>2
  <2>8. QED
    BY <1>8, <2>1, <2>6, <2>7
<1> HIDE DEF child, rest, skipped
<1>9. /\ IsWalk(kept) /\ kept.stage = "directories" /\ kept.requests = walk.requests /\ kept.stack = walk.stack
      /\ kept.at = walk.at /\ kept.boundary = walk.boundary /\ kept.found = walk.found /\ kept.over = walk.over
      /\ kept.rules = walk.rules /\ kept.directories = rest.directories
      /\ kept.retained = walk.retained \union {name} /\ kept.files = walk.files
  BY <1>3, <1>6 DEF IsWalk
<1> HIDE DEF kept
<1>10. \A p \in Sought : Options.respectGitignore => RulesRight(walk.rules, tree, p)
  BY DEF CoverInv, Steered
<1>11. ASSUME NEW p \in Sought, NEW k \in 0..Len(p) - 1, Ahead(walk, tree, p, Options, k),
              NEW w, w.stage = "directories", w.at = walk.at, w.rules = walk.rules, w.files = walk.files,
              walk.retained \subseteq w.retained, walk.directories \ {name} \subseteq w.directories,
              (k + 1 < Len(p) \/ IsDirectory(tree, p)) /\ p[k + 1] = name =>
                 k + 1 < Len(p) /\ name \in w.retained
       PROVE  Covered(w, tree, p, Options)
  <2>1. /\ walk.at = Up(p, k) /\ (Options.respectGitignore => Agrees(walk.rules, tree, p, k + 1))
        /\ ToVisit(walk, tree, p, k)
    BY <1>1, <1>11 DEF Ahead
  <2>2. ToVisit(w, tree, p, k)
    BY <1>1, <1>11, <2>1 DEF ToVisit
  <2>3. Ahead(w, tree, p, Options, k)
    BY <1>11, <2>1, <2>2 DEF Ahead
  <2>4. QED
    BY <2>3 DEF Covered
<1>12. CASE skipped /\ Proceed(rest)
  <2>1. ASSUME NEW p \in Sought, NEW k \in 0..Len(p) - 1, Ahead(walk, tree, p, Options, k)
        PROVE  Covered(rest, tree, p, Options)
    BY <1>6, <1>8, <1>11, <1>12, <2>1
  <2>2. \A p \in Sought : \A k \in 0..Len(p) - 1 : Up(p, k) \in walk.stack => Covered(rest, tree, p, Options)
    BY <1>6 DEF Covered
  <2>3. Steered(rest)
    BY <1>1, <1>6, <1>10, <2>1, <2>2, WalkSteers
  <2>4. QED
    BY <1>1, <1>12, <2>3, CoverGoesOn DEF Proceed
<1>13. CASE ~IsLink(tree, child) /\ Proceed(kept)
  <2>1. ASSUME NEW p \in Sought, NEW k \in 0..Len(p) - 1, Ahead(walk, tree, p, Options, k)
        PROVE  Covered(kept, tree, p, Options)
    <3>1. (k + 1 < Len(p) \/ IsDirectory(tree, p)) /\ p[k + 1] = name => k + 1 < Len(p)
      BY <1>8, <1>13, <2>1
    <3>2. QED
      BY <1>6, <1>9, <1>11, <2>1, <3>1
  <2>2. \A p \in Sought : \A k \in 0..Len(p) - 1 : Up(p, k) \in walk.stack => Covered(kept, tree, p, Options)
    BY <1>9 DEF Covered
  <2>3. Steered(kept)
    BY <1>1, <1>9, <1>10, <2>1, <2>2, WalkSteers
  <2>4. QED
    BY <1>1, <1>13, <2>3, CoverGoesOn DEF Proceed
<1>14. CASE IsLink(tree, child) /\ Proceed(chosen)
  <2> DEFINE v == Select(rest, entry)
  <2>1. /\ IsWalk(v) /\ v.stage = "directories" /\ v.requests = walk.requests /\ v.stack = walk.stack
        /\ v.at = walk.at /\ v.boundary = walk.boundary /\ v.rules = walk.rules
        /\ v.directories = rest.directories /\ v.retained = walk.retained /\ v.files = walk.files
    <3>1. IsWalk(Select(rest, entry))
      BY <1>6, <1>7, SelectIs
    <3>2. /\ Select(rest, entry).stage = rest.stage /\ Select(rest, entry).requests = rest.requests
          /\ Select(rest, entry).stack = rest.stack
          /\ Select(rest, entry).at = rest.at /\ Select(rest, entry).boundary = rest.boundary
          /\ Select(rest, entry).directories = rest.directories /\ Select(rest, entry).retained = rest.retained
          /\ Select(rest, entry).files = rest.files /\ Select(rest, entry).rules = rest.rules
      BY ONLY <1>6, SelectKeeps
    <3>3. QED
      BY <1>6, <3>1, <3>2
  <2>2. LET v0 == Select(rest, entry) IN
        /\ rest.found \subseteq v0.found
        /\ v0.over => \E x \in v0.found : x.code = "PYA1006"
        /\ v0.over \/ \E x \in v0.found : x.path = entry.path
    BY <1>1, <1>6, <1>7, ChosenIs
  <2> HIDE DEF v
  <2>3. /\ chosen.requests = walk.requests /\ chosen.boundary = walk.boundary /\ walk.found \subseteq chosen.found
        /\ chosen.rules = walk.rules /\ chosen.over = v.over
        /\ v.over => chosen.stage = "request" /\ chosen.stack = {} /\ \E x \in chosen.found : x.code = "PYA1006"
        /\ ~v.over => chosen = v /\ \E x \in chosen.found : x.path = child
    <3>1. chosen = WalkOn(v)
      BY DEF v
    <3>2. QED
      BY <1>6, <1>7, <2>1, <2>2, <3>1, EndWalkIs DEF v
  <2> HIDE DEF chosen
  <2>4. ASSUME NEW p \in Sought, NEW k \in 0..Len(p) - 1, Ahead(walk, tree, p, Options, k), ~v.over
        PROVE  Covered(chosen, tree, p, Options)
    <3>1. CASE (k + 1 < Len(p) \/ IsDirectory(tree, p)) /\ p[k + 1] = name
      <4>1. child = p
        BY <1>8, <1>14, <2>4, <3>1
      <4>2. QED
        BY <2>3, <2>4, <4>1 DEF Covered
    <3>2. CASE ~((k + 1 < Len(p) \/ IsDirectory(tree, p)) /\ p[k + 1] = name)
      BY <1>6, <1>11, <2>1, <2>3, <2>4, <3>2
    <3>3. QED
      BY <3>1, <3>2
  <2>5. \A p \in Sought : \A k \in 0..Len(p) - 1 : Ahead(walk, tree, p, Options, k) => Covered(chosen, tree, p, Options)
    BY <2>3, <2>4 DEF Covered
  <2>6. \A p \in Sought : \A k \in 0..Len(p) - 1 : Up(p, k) \in walk.stack => Covered(chosen, tree, p, Options)
    BY <2>1, <2>3 DEF Covered
  <2>7. chosen.stage = "request" => chosen.stack = {}
    BY <2>1, <2>3
  <2>8. Steered(chosen)
    BY <1>1, <1>10, <2>3, <2>5, <2>6, <2>7, WalkSteers
  <2>9. QED
    BY <1>1, <1>14, <2>8, CoverGoesOn DEF Proceed
<1>15. QED
  BY <1>5, <1>12, <1>13, <1>14

LEMMA VisitedCovers ==
  ASSUME TreeInv, WalkInv, SteadyInv, CoverInv, SubdirectoriesVisited
  PROVE  CoverInv'
<1> DEFINE w == [walk EXCEPT !.stage = "files"]
<1>1. /\ IsWalk(walk) /\ UNCHANGED <<scenario, tree, steady>> /\ walk.stage = "directories" /\ walk.directories = {}
      /\ Proceed(w) /\ ~walk.over
  BY DEF WalkInv, SubdirectoriesVisited, Untouched, treeVars, CoverInv, Steered
<1>2. /\ w.stage = "files" /\ w.requests = walk.requests /\ w.stack = walk.stack /\ w.at = walk.at
      /\ w.boundary = walk.boundary /\ w.found = walk.found /\ w.over = walk.over /\ w.rules = walk.rules
      /\ w.retained = walk.retained /\ w.files = walk.files
  BY <1>1 DEF IsWalk
<1> HIDE DEF w
<1>3. ASSUME NEW p \in Sought, NEW k \in 0..Len(p) - 1, Ahead(walk, tree, p, Options, k)
      PROVE  Covered(w, tree, p, Options)
  <2>1. ToVisit(w, tree, p, k)
    BY <1>1, <1>2, <1>3 DEF Ahead, ToVisit
  <2>2. Ahead(w, tree, p, Options, k)
    BY <1>1, <1>2, <1>3, <2>1 DEF Ahead
  <2>3. QED
    BY <2>2 DEF Covered
<1>4. \A p \in Sought : \A k \in 0..Len(p) - 1 : Up(p, k) \in walk.stack => Covered(w, tree, p, Options)
  BY <1>2 DEF Covered
<1>5. \A p \in Sought : Options.respectGitignore => RulesRight(w.rules, tree, p)
  BY <1>2 DEF CoverInv, Steered
<1>6. Steered(w)
  BY <1>1, <1>2, <1>3, <1>4, <1>5, WalkSteers
<1>7. QED
  BY <1>1, <1>6, CoverGoesOn DEF Proceed

\* One listed file: a source that is sought is wanted.
LEMMA WantedIs ==
  ASSUME TreeInv, WalkInv, SteadyInv, CoverInv, walk.stage = "files",
         NEW p \in Sought, NEW k \in 0..Len(p) - 1, Ahead(walk, tree, p, Options, k)
  PROVE  \/ k + 1 < Len(p)
         \/ /\ k + 1 = Len(p) /\ ~IsDirectory(tree, p)
            /\ Visited(p[k + 1]) = p /\ Wanted(p)
<1>1. /\ p \in Paths /\ Len(p) \in Nat \ {0} /\ Sure(tree, p, Options) /\ k + 1 \in 1..Len(p) /\ (k + 1) - 1 = k
      /\ k + 1 \in 0..Len(p) /\ (k + 1 < Len(p) \/ k + 1 = Len(p)) /\ (phase = "scan" \/ Whole)
  BY SoughtIs
<1>2. walk.at = Up(p, k) /\ (Options.respectGitignore => Agrees(walk.rules, tree, p, k + 1)) /\ ToVisit(walk, tree, p, k)
  BY DEF Ahead
<1>3. CASE k + 1 = Len(p)
  <2>1. ~IsDirectory(tree, p)
    BY <1>1, <1>2, <1>3 DEF ToVisit
  <2>2. Visited(p[k + 1]) = p
    <3>1. Up(p, k + 1) = Append(Up(p, k), p[k + 1]) /\ Up(p, Len(p)) = p
      BY <1>1, NameByName, UpOfUp
    <3>2. QED
      BY <1>2, <1>3, <3>1 DEF Visited
  <2>3. ~BuiltInExcluded(p, FALSE) /\ Last(p) \in Sources
    BY <1>1, <2>1, FileIs DEF TreeInv
  <2>4. SubSeq(p, Len(walk.boundary) + 1, Len(p)) = p
    <3>1. walk.boundary = <<>>
      BY <1>1 DEF CoverInv, Steered
    <3>2. Len(walk.boundary) + 1 = 1
      BY <3>1
    <3>3. SubSeq(p, 1, Len(p)) = p
      BY <1>1, UpOfUp DEF Up
    <3>4. QED
      BY <3>2, <3>3
  <2>5. FileSelected(walk.rules, p, Options)
    BY <1>1, <1>2, <1>3, <2>1, PolicyKeeps
  <2>6. Wanted(p)
    BY <2>3, <2>4, <2>5 DEF Wanted
  <2>7. QED
    BY <1>3, <2>1, <2>2, <2>6
<1>4. QED
  BY <1>1, <1>3

\* What is ahead stays there, when its own name is not the one that is dealt
\* with.
LEMMA BesideCovers ==
  ASSUME NEW p, NEW k \in 0..Len(p) - 1, Ahead(walk, tree, p, Options, k), walk.stage = "files", IsWalk(walk),
         NEW name, NEW w, w.stage = "files", w.at = walk.at, w.rules = walk.rules, w.files = walk.files \ {name},
         w.retained = walk.retained, k + 1 < Len(p) \/ p[k + 1] # name
  PROVE  Covered(w, tree, p, Options)
<1>1. ToVisit(w, tree, p, k)
  BY DEF Ahead, ToVisit
<1>2. Ahead(w, tree, p, Options, k)
  BY <1>1 DEF Ahead
<1>3. QED
  BY <1>2 DEF Covered

LEMMA BesideIs ==
  ASSUME IsWalk(walk), walk.stage = "files", NEW name
  PROVE  LET w == Beside(name) IN
         /\ IsWalk(w) /\ w.stage = "files" /\ w.requests = walk.requests /\ w.stack = walk.stack
         /\ w.at = walk.at /\ w.boundary = walk.boundary /\ w.found = walk.found /\ w.over = walk.over
         /\ w.rules = walk.rules /\ w.retained = walk.retained /\ w.files = walk.files \ {name}
BY DEF IsWalk, Beside

LEMMA SkipCovers ==
  ASSUME TreeInv, WalkInv, SteadyInv, CoverInv, SkipFile
  PROVE  CoverInv'
<1>1. /\ IsTree(tree) /\ IsWalk(walk) /\ UNCHANGED <<scenario, tree, steady>> /\ walk.stage = "files" /\ ~walk.over
  BY DEF TreeInv, WalkInv, SkipFile, AtFile, Untouched, treeVars, CoverInv, Steered
<1>2. PICK name \in walk.files : ~Wanted(Visited(name)) /\ Proceed(Beside(name))
  BY DEF SkipFile
<1> DEFINE w == Beside(name)
<1>3. /\ IsWalk(w) /\ w.stage = "files" /\ w.requests = walk.requests /\ w.stack = walk.stack
      /\ w.at = walk.at /\ w.boundary = walk.boundary /\ w.found = walk.found /\ w.over = walk.over
      /\ w.rules = walk.rules /\ w.retained = walk.retained /\ w.files = walk.files \ {name}
  BY <1>1, BesideIs
<1> HIDE DEF w
<1>4. ASSUME NEW p \in Sought, NEW k \in 0..Len(p) - 1, Ahead(walk, tree, p, Options, k)
      PROVE  Covered(w, tree, p, Options)
  <2>1. k + 1 < Len(p) \/ p[k + 1] # name
    BY <1>1, <1>2, <1>4, WantedIs
  <2>2. QED
    BY <1>1, <1>3, <1>4, <2>1, BesideCovers
<1>5. \A p \in Sought : \A k \in 0..Len(p) - 1 : Up(p, k) \in walk.stack => Covered(w, tree, p, Options)
  BY <1>3 DEF Covered
<1>6. \A p \in Sought : Options.respectGitignore => RulesRight(w.rules, tree, p)
  BY <1>3 DEF CoverInv, Steered
<1>7. Steered(w)
  BY <1>1, <1>3, <1>4, <1>5, <1>6, WalkSteers
<1>8. QED
  BY <1>1, <1>2, <1>7, CoverGoesOn DEF Proceed, w

LEMMA SourceCovers ==
  ASSUME TreeInv, WalkInv, SteadyInv, CoverInv, VisitSource
  PROVE  CoverInv'
<1>1. /\ IsTree(tree) /\ IsWalk(walk) /\ UNCHANGED <<scenario, tree, steady>> /\ walk.stage = "files" /\ ~walk.over
      /\ walk.at \in Paths
  BY DEF TreeInv, WalkInv, VisitSource, AtFile, Untouched, treeVars, CoverInv, Steered, IsWalk
<1>2. PICK name \in walk.files : Proceed(WalkOn(Select(Beside(name), SourceEntry(tree, Visited(name)))))
  BY DEF VisitSource
<1> DEFINE rest == Beside(name)
           entry == SourceEntry(tree, Visited(name))
           v == Select(rest, entry)
           w == WalkOn(v)
<1>3. /\ IsWalk(rest) /\ rest.stage = "files" /\ rest.requests = walk.requests /\ rest.stack = walk.stack
      /\ rest.at = walk.at /\ rest.boundary = walk.boundary /\ rest.found = walk.found /\ rest.over = walk.over
      /\ rest.rules = walk.rules /\ rest.retained = walk.retained /\ rest.files = walk.files \ {name}
  BY <1>1, BesideIs
<1>4. Visited(name) \in Paths /\ Visited(name) # <<>>
  <2>1. name \in Names
    BY <1>1 DEF IsWalk
  <2>2. QED
    BY <1>1, <2>1, OneNameMore DEF Visited, Paths
<1>5. entry \in Entries /\ entry.path = Visited(name) /\ ~entry.directory
  BY <1>1, <1>4, EntryIs
<1> HIDE DEF rest, entry
<1>6. LET v0 == Select(rest, entry) IN
      /\ rest.found \subseteq v0.found
      /\ v0.over => \E x \in v0.found : x.code = "PYA1006"
      /\ v0.over \/ \E x \in v0.found : x.path = entry.path
  BY <1>1, <1>3, <1>4, <1>5, ChosenIs
<1>7. /\ IsWalk(v) /\ v.stage = "files" /\ v.requests = walk.requests /\ v.stack = walk.stack
      /\ v.at = walk.at /\ v.boundary = walk.boundary /\ v.rules = walk.rules /\ v.retained = walk.retained
      /\ v.files = walk.files \ {name}
  <2>1. IsWalk(Select(rest, entry))
    BY <1>3, <1>4, <1>5, SelectIs
  <2>2. /\ Select(rest, entry).stage = rest.stage /\ Select(rest, entry).requests = rest.requests
        /\ Select(rest, entry).stack = rest.stack
        /\ Select(rest, entry).at = rest.at /\ Select(rest, entry).boundary = rest.boundary
        /\ Select(rest, entry).retained = rest.retained
        /\ Select(rest, entry).files = rest.files /\ Select(rest, entry).rules = rest.rules
    BY ONLY <1>3, SelectKeeps
  <2>3. QED
    BY <1>3, <2>1, <2>2
<1>8. /\ walk.found \subseteq v.found /\ (v.over => \E x \in v.found : x.code = "PYA1006")
      /\ v.over \/ \E x \in v.found : x.path = Visited(name)
  BY <1>3, <1>5, <1>6
<1> HIDE DEF v
<1>9. /\ w.requests = walk.requests /\ w.boundary = walk.boundary /\ walk.found \subseteq w.found
      /\ w.rules = walk.rules /\ w.over = v.over
      /\ v.over => w.stage = "request" /\ w.stack = {} /\ \E x \in w.found : x.code = "PYA1006"
      /\ ~v.over => w = v
  BY <1>7, <1>8, EndWalkIs
<1> HIDE DEF w
<1>10. ASSUME NEW p \in Sought, NEW k \in 0..Len(p) - 1, Ahead(walk, tree, p, Options, k), ~v.over
       PROVE  Covered(w, tree, p, Options)
  <2>1. k + 1 < Len(p) \/ Visited(p[k + 1]) = p
    BY <1>1, <1>10, WantedIs
  <2>2. CASE k + 1 < Len(p) \/ p[k + 1] # name
    BY <1>1, <1>7, <1>9, <1>10, <2>2, BesideCovers
  <2>3. CASE Visited(p[k + 1]) = p /\ p[k + 1] = name
    BY <1>8, <1>9, <1>10, <2>3 DEF Covered
  <2>4. QED
    BY <2>1, <2>2, <2>3
<1>11. \A p \in Sought : \A k \in 0..Len(p) - 1 : Ahead(walk, tree, p, Options, k) => Covered(w, tree, p, Options)
  BY <1>9, <1>10 DEF Covered
<1>12. \A p \in Sought : \A k \in 0..Len(p) - 1 : Up(p, k) \in walk.stack => Covered(w, tree, p, Options)
  BY <1>7, <1>9 DEF Covered
<1>13. \A p \in Sought : Options.respectGitignore => RulesRight(w.rules, tree, p)
  BY <1>9 DEF CoverInv, Steered
<1>14. w.stage = "request" => w.stack = {}
  BY <1>7, <1>9
<1>15. Steered(w)
  BY <1>1, <1>9, <1>11, <1>12, <1>13, <1>14, WalkSteers
<1>16. QED
  BY <1>1, <1>2, <1>15, CoverGoesOn DEF Proceed, w, v, rest, entry

\* The directories on the way that were retained wait to be listed.
LEMMA LeaveCovers ==
  ASSUME TreeInv, WalkInv, SteadyInv, CoverInv, LeaveDirectory
  PROVE  CoverInv'
<1> DEFINE deeper == {Append(walk.at, n) : n \in {m \in walk.retained : ~IsLink(tree, Append(walk.at, m))}}
           stack == walk.stack \union deeper
           on == [walk EXCEPT !.stage = "list", !.stack = stack]
<1>1. /\ IsTree(tree) /\ IsWalk(walk) /\ UNCHANGED <<scenario, tree, steady>> /\ walk.stage = "files" /\ ~walk.over
      /\ walk.files = {} /\ Proceed(IF stack = {} THEN EndWalk(walk) ELSE on)
  BY DEF TreeInv, WalkInv, LeaveDirectory, Untouched, treeVars, CoverInv, Steered
<1>2. ASSUME NEW p \in Sought, NEW k \in 0..Len(p) - 1, Ahead(walk, tree, p, Options, k)
      PROVE  \E j \in 0..Len(p) - 1 : Up(p, j) \in stack
  <2>1. /\ p \in Paths /\ Len(p) \in Nat \ {0} /\ Sure(tree, p, Options) /\ k + 1 \in 1..Len(p) /\ (k + 1) - 1 = k
    BY SoughtIs
  <2>2. walk.at = Up(p, k) /\ ToVisit(walk, tree, p, k)
    BY <1>2 DEF Ahead
  <2>3. k + 1 < Len(p) /\ p[k + 1] \in walk.retained
    BY <1>1, <2>2 DEF ToVisit
  <2>4. Append(walk.at, p[k + 1]) = Up(p, k + 1)
    BY <2>1, <2>2, NameByName
  <2>5. k + 1 \in 0..Len(p) - 1
    BY <2>1, <2>3
  <2>6. ~IsLink(tree, Up(p, k + 1))
    BY <1>1, <2>1, <2>5, AboveIs
  <2>7. Up(p, k + 1) \in deeper
    BY <2>3, <2>4, <2>6
  <2>8. QED
    BY <2>5, <2>7
<1> HIDE DEF deeper
<1>3. \A p \in Sought : Options.respectGitignore => RulesRight(walk.rules, tree, p)
  BY DEF CoverInv, Steered
<1>4. CASE stack = {}
  <2> DEFINE w == EndWalk(walk)
  <2>1. /\ w.stage = "request" /\ w.stack = {} /\ w.requests = walk.requests /\ w.found = walk.found
        /\ w.over = walk.over /\ w.rules = walk.rules /\ w.boundary = walk.boundary
    BY <1>1, EndWalkIs
  <2> HIDE DEF w
  <2>2. Steered(w)
    BY <1>1, <1>2, <1>3, <1>4, <2>1, WalkSteers
  <2>3. QED
    BY <1>1, <1>4, <2>2, CoverGoesOn DEF Proceed, w
<1>5. CASE stack # {}
  <2>1. /\ on.stage = "list" /\ on.stack = stack /\ on.requests = walk.requests /\ on.found = walk.found
        /\ on.over = walk.over /\ on.rules = walk.rules /\ on.boundary = walk.boundary
    BY <1>1 DEF IsWalk
  <2>2. Proceed(on)
    BY <1>1, <1>5
  <2> HIDE DEF on
  <2>3. \A p \in Sought : \A k \in 0..Len(p) - 1 : Ahead(walk, tree, p, Options, k) => Covered(on, tree, p, Options)
    BY <1>2, <2>1 DEF Covered
  <2>4. \A p \in Sought : \A k \in 0..Len(p) - 1 : Up(p, k) \in walk.stack => Covered(on, tree, p, Options)
    BY <2>1 DEF Covered
  <2>5. Steered(on)
    BY <1>1, <1>3, <2>1, <2>3, <2>4, WalkSteers
  <2>6. QED
    BY <1>1, <2>2, <2>5, CoverGoesOn DEF Proceed
<1>6. QED
  BY <1>4, <1>5

\* The next discovery has everything before it.
LEMMA CoverBeginsNext ==
  ASSUME SteadyInv, UNCHANGED <<scenario, tree, steady>>,
         (phase' = "scan" /\ walk' = Begin(scenario.requests)) \/ (phase' = "dynamic" /\ walk' = Begin(WholeRoot))
  PROVE  CoverInv'
<1> DEFINE requests == IF phase' = "scan" THEN scenario.requests ELSE WholeRoot
<1>1. /\ walk'.stage = "request" /\ walk'.stack = {} /\ walk'.over = FALSE /\ walk'.boundary = <<>>
      /\ walk'.requests = requests /\ walk'.rules = <<>>
  BY DEF Begin
<1>2. Whole' => walk'.requests \in {WholeRoot', <<>>}
  BY <1>1 DEF Whole, WholeRoot
<1>3. ASSUME NEW p \in Sought'
      PROVE  RulesRight(walk'.rules, tree', p) /\ Covered(walk', tree', p, Options')
  <2>1. \E k \in DOMAIN requests : Leads(requests[k], p, IsDirectory(tree, p))
    <3>1. CASE phase' = "scan"
      <4>1. p \in Paths /\ p # <<>> /\ Eligible(tree, p, scenario.requests, ScanOptions) /\ ~ScanOptions.allowBuiltInRoots
        BY <3>1 DEF Sought, SteadyInv, ScanOptions
      <4>2. QED
        BY <3>1, <4>1, EligibleIs
    <3>2. CASE phase' = "dynamic"
      <4>1. p \in Paths /\ p # <<>> /\ Eligible(tree, p, WholeRoot, ModuleOptions)
        BY <3>2 DEF Sought, Whole, SteadyInv
      <4>2. QED
        BY <3>2, <4>1, EligibleIs
    <3>3. QED
      BY <3>1, <3>2
  <2>2. RulesRight(walk'.rules, tree', p)
    <3>1. DOMAIN walk'.rules = {}
      BY <1>1
    <3>2. QED
      BY <3>1 DEF RulesRight
  <2>3. \E k \in DOMAIN walk'.requests : Leads(walk'.requests[k], p, IsDirectory(tree', p))
    BY <1>1, <2>1
  <2>4. QED
    BY <2>2, <2>3 DEF Covered
<1>4. QED
  BY <1>1, <1>2, <1>3 DEF CoverInv, Steered

LEMMA CoverStarts ==
  ASSUME Init, SteadyInv
  PROVE  CoverInv
<1>1. CASE phase = "scan"
  <2>1. walk = Begin(scenario.requests)
    BY <1>1 DEF Init
  <2>2. QED
    BY <1>1, <2>1, CoverBegins DEF CoverInv
<1>2. CASE phase # "scan" /\ scenario.inferred
  <2>1. walk = Begin(WholeRoot)
    BY <1>2 DEF Init
  <2>2. QED
    BY <1>2, <2>1, CoverBegins DEF CoverInv
<1>3. CASE phase # "scan" /\ ~scenario.inferred
  <2>1. phase = "modules" /\ walk = Begin(scenario.roots)
    BY <1>3 DEF Init
  <2>2. ~Whole /\ Sought = {}
    BY <1>3, <2>1 DEF Whole, Sought
  <2>3. walk.stage = "request" /\ walk.stack = {} /\ walk.over = FALSE
    BY <2>1 DEF Begin
  <2>4. QED
    BY <1>3, <2>2, <2>3 DEF CoverInv, Steered
<1>4. QED
  BY <1>1, <1>2, <1>3

\* What is still sought after an edit is where it was, judged as it was.
LEMMA CoverEdited ==
  ASSUME SteadyInv, CoverInv, Edit
  PROVE  CoverInv'
<1>1. EditTo(tree') /\ UNCHANGED <<scenario, walk, phase>>
  BY EditFrame DEF EditTo
<1>2. /\ steady'.scan = StillEligible(tree', steady.scan)
      /\ steady'.exposed = StillExposed(tree', steady.exposed)
  BY <1>1 DEF EditTo
<1>3. Options' = Options /\ Whole' = Whole /\ WholeRoot' = WholeRoot
  BY <1>1 DEF Options, Whole, ScanOptions, ModuleOptions, WholeRoot
<1>4. ASSUME NEW p \in Sought'
      PROVE  /\ p \in Sought /\ IsDirectory(tree', p) = IsDirectory(tree, p)
             /\ Options.respectGitignore => RulesAbove(tree', p) = RulesAbove(tree, p)
  <2>1. CASE phase = "scan"
    BY <1>1, <1>2, <2>1 DEF Sought, StillEligible, SameKind, SameRules, Options, ScanOptions
  <2>2. CASE phase # "scan"
    <3>1. p \in StillExposed(tree', steady.exposed) /\ Whole
      BY <1>1, <1>2, <1>3, <2>2 DEF Sought
    <3>2. ~Options.respectGitignore
      BY <2>2 DEF Options, ModuleOptions
    <3>3. QED
      BY <2>2, <3>1, <3>2 DEF Sought, StillExposed, SameKind
  <2>3. QED
    BY <2>1, <2>2
<1>5. ASSUME NEW p \in Sought', Options.respectGitignore, NEW j \in 0..Len(p) - 1
      PROVE  Rule(tree', Up(p, j)) = Rule(tree, Up(p, j))
  <2>1. p \in Paths
    BY <1>4, SoughtIs
  <2>2. /\ RulesAbove(tree', p)[Up(p, j)] = Rule(tree', Up(p, j))
        /\ RulesAbove(tree, p)[Up(p, j)] = Rule(tree, Up(p, j))
    BY <2>1, RulesAboveIs DEF Agrees
  <2>3. RulesAbove(tree', p) = RulesAbove(tree, p)
    BY <1>4, <1>5
  <2>4. QED
    BY <2>2, <2>3
<1>6. ASSUME NEW p \in Sought'
      PROVE  /\ Options.respectGitignore => RulesRight(walk.rules, tree', p)
             /\ Covered(walk, tree', p, Options)
  <2>1. /\ p \in Sought /\ IsDirectory(tree', p) = IsDirectory(tree, p) /\ Len(p) \in Nat
        /\ Options.respectGitignore => RulesRight(walk.rules, tree, p)
        /\ Covered(walk, tree, p, Options)
    BY <1>4, SoughtIs DEF CoverInv, Steered
  <2>2. Options.respectGitignore => RulesRight(walk.rules, tree', p)
    BY <1>5, <2>1 DEF RulesRight
  <2>3. ASSUME NEW k \in 0..Len(p) - 1, Ahead(walk, tree, p, Options, k)
        PROVE  Ahead(walk, tree', p, Options, k)
    <3>1. ASSUME Options.respectGitignore, Agrees(walk.rules, tree, p, k + 1)
          PROVE  Agrees(walk.rules, tree', p, k + 1)
      <4>1. \A j \in 0..(k + 1) - 1 : j \in 0..Len(p) - 1
        BY <2>1
      <4>2. QED
        BY <1>5, <3>1, <4>1 DEF Agrees
    <3>2. ToVisit(walk, tree', p, k)
      BY <2>1, <2>3 DEF Ahead, ToVisit
    <3>3. QED
      BY <2>3, <3>1, <3>2 DEF Ahead
  <2>4. Covered(walk, tree', p, Options)
    BY <2>1, <2>3 DEF Covered
  <2>5. QED
    BY <2>2, <2>4
<1>7. QED
  BY <1>1, <1>3, <1>6 DEF CoverInv, Steered

LEMMA CoverKept ==
  ASSUME TreeInv, WalkInv, SteadyInv, CoverInv, [Next]_vars
  PROVE  CoverInv'
<1>1. CASE RequestStep
  <2>1. CASE RequestOutside
    BY <2>1, StopIs, CoverEnds DEF RequestOutside
  <2>2. QED
    BY <1>1, <2>1, ThroughLinkCovers, BuiltInCovers, DirectoryCovers, FileCovers DEF RequestStep
<1>2. CASE WalkStep
  <2>1. CASE SourceDisappears
    <3>1. Incomplete
      BY <2>1 DEF SourceDisappears
    <3>2. QED
      BY <3>1, StopIs, CoverEnds
  <2>2. CASE ModulesFound
    <3>1. phase' = "scan" /\ walk' = Begin(scenario.requests)
      BY <2>2 DEF ModulesFound
    <3>2. UNCHANGED <<scenario, tree, steady>>
      BY <2>2 DEF ModulesFound, treeVars
    <3>3. QED
      BY <3>1, <3>2, CoverBeginsNext
  <2>3. CASE SourcesFound \/ BoundExceeded \/ DynamicFound
    <3>1. walk' = Idle /\ phase' \in {"read", "done"}
      BY <2>3 DEF SourcesFound, BoundExceeded, DynamicFound, Conclude, Return
    <3>2. QED
      BY <3>1, CoverEnds
  <2>4. QED
    BY <1>2, <2>1, <2>2, <2>3, ListCovers, PrepareCovers, SubdirectoryCovers, VisitedCovers, SkipCovers,
       SourceCovers, LeaveCovers DEF WalkStep
<1>3. CASE ReadStep
  <2>1. UNCHANGED <<scenario, tree, steady, phase, walk>>
    BY <1>3 DEF ReadStep, BeginRead, StatEntry, OpenEntry, ReadChunk, ValidateChain, ValidateLeaf, ReadUnchanged
  <2>2. QED
    BY <2>1, CoverGoesOn DEF CoverInv
<1>4. CASE ReportStep
  <2>1. CASE SearchDynamic
    <3>1. phase' = "dynamic" /\ walk' = Begin(WholeRoot) /\ UNCHANGED <<scenario, tree, steady>>
      BY <2>1 DEF SearchDynamic, treeVars
    <3>2. QED
      BY <3>1, CoverBeginsNext
  <2>2. CASE ReportStatic \/ ReportInferred
    <3>1. walk' = Idle /\ phase' \in {"read", "done"}
      BY <2>2 DEF ReportStatic, ReportInferred, Conclude, Return
    <3>2. QED
      BY <3>1, CoverEnds
  <2>3. QED
    BY <1>4, <2>1, <2>2 DEF ReportStep
<1>5. CASE UNCHANGED vars
  <2>1. UNCHANGED <<scenario, tree, steady, phase, walk>>
    BY <1>5 DEF vars
  <2>2. QED
    BY <2>1, CoverGoesOn DEF CoverInv
<1>6. QED
  BY <1>1, <1>2, <1>3, <1>4, <1>5, CoverEdited DEF Next, ScanStep

-----------------------------------------------------------------------------
(* From the entries found to the report.                                    *)

Listed == {e.path : e \in {x \in discovered.scan : x.code = "file"}}
ListedPaths == {e.path : e \in discovered.scan}

FoundInv ==
  /\ phase \in {"modules", "scan", "read", "dynamic", "done"}
  /\ phase # "read" => read.stage = "idle"
  /\ phase # "done" => report.outcome # "complete"
  /\ IsFiniteSet(DOMAIN analyses)
  /\ phase \in {"read", "dynamic"} => steady.scan \subseteq ListedPaths /\ Listed \subseteq queue \union DOMAIN analyses
  /\ phase = "dynamic" => queue = {}
  /\ report.outcome = "complete" /\ report.incomplete = 0 => steady.scan \subseteq report.analysed

\* A discovery that ends within its bound has found everything.
LEMMA EndFinds ==
  ASSUME CoverInv, DiscoveryEnds, \A e \in walk.found : e.code # "PYA1006"
  PROVE  \A p \in Sought : \E e \in walk.found : e.path = p
<1>1. /\ walk.stage = "request" /\ walk.stack = {} /\ ~walk.over /\ walk.requests = <<>>
      /\ \A p \in Sought : Covered(walk, tree, p, Options)
  BY DEF CoverInv, Steered, DiscoveryEnds
<1>2. DOMAIN walk.requests = {}
  BY <1>1
<1>3. QED
  BY <1>1, <1>2 DEF Covered, Ahead

LEMMA EmptyCount ==
  ASSUME NEW S, IsFiniteSet(S) PROVE Cardinality(S) \in Nat /\ (Cardinality(S) = 0 => S = {})
  BY FS_EmptySet, FS_CardinalityType

LEMMA RevisitDomain ==
  ASSUME NEW entries, NEW issues
  PROVE  DOMAIN Revisited(entries, issues) = DOMAIN analyses
<1> DEFINE inserted == Inserted(Range(analyses))
<1>1. CASE inserted = {}
  BY <1>1 DEF Revisited
<1>2. CASE inserted # {}
  BY <1>2 DEF Revisited
<1>3. QED
  BY <1>1, <1>2

\* A report that owns up to nothing lists every source found.
LEMMA ReportedIs ==
  ASSUME WalkInv, NEW final, DOMAIN final = DOMAIN analyses, IsFiniteSet(DOMAIN analyses), NEW issues, IsFiniteSet(issues),
         steady.scan \subseteq ListedPaths, Listed \subseteq DOMAIN analyses
  PROVE  Reported(final, issues).incomplete = 0 => steady.scan \subseteq Reported(final, issues).analysed
<1> DEFINE bad == {p \in DOMAIN final : final[p].incomplete}
           more == issues \ ScanIssues
<1>1. IsFiniteSet(ScanIssues) /\ IsFiniteSet(bad) /\ IsFiniteSet(more)
  <2>1. IsFiniteSet(discovered.scan)
    BY DEF WalkInv, Found
  <2>2. QED
    BY <2>1, FS_Subset DEF ScanIssues
<1>2. Reported(final, issues).incomplete = Cardinality(ScanIssues) + Cardinality(bad) + Cardinality(more)
  BY DEF Reported
<1>3. Reported(final, issues).analysed = {p \in DOMAIN final : ~final[p].incomplete}
  BY DEF Reported
<1> HIDE DEF more
<1>4. ASSUME Reported(final, issues).incomplete = 0 PROVE ScanIssues = {} /\ bad = {}
  <2> HIDE DEF bad
  <2>1. /\ Cardinality(ScanIssues) \in Nat /\ Cardinality(bad) \in Nat /\ Cardinality(more) \in Nat
        /\ (Cardinality(ScanIssues) = 0 => ScanIssues = {}) /\ (Cardinality(bad) = 0 => bad = {})
    BY <1>1, EmptyCount
  <2>2. QED
    BY <1>2, <1>4, <2>1
<1>5. ASSUME ScanIssues = {}, NEW p \in steady.scan PROVE p \in DOMAIN final
  <2>1. PICK e \in discovered.scan : e.path = p
    BY DEF ListedPaths
  <2>2. e.code = "file"
    BY <1>5 DEF ScanIssues
  <2>3. QED
    BY <2>1, <2>2 DEF Listed
<1>6. QED
  BY <1>3, <1>4, <1>5

\* So does every end of a scan.
LEMMA ReturnFound ==
  ASSUME WalkInv, FoundInv, phase # "done", UNCHANGED <<scenario, tree, steady, read>>, read.stage = "idle",
         phase' = "done", DOMAIN analyses' = DOMAIN analyses,
         report'.outcome = "complete" =>
            /\ phase \in {"read", "dynamic"} /\ queue = {}
            /\ \E final, issues : /\ DOMAIN final = DOMAIN analyses /\ IsFiniteSet(issues)
                                  /\ report' = Reported(final, issues)
  PROVE  FoundInv'
<1>1. ASSUME report'.outcome = "complete", report'.incomplete = 0 PROVE steady.scan \subseteq report'.analysed
  <2>1. PICK final, issues : /\ DOMAIN final = DOMAIN analyses /\ IsFiniteSet(issues)
                             /\ report' = Reported(final, issues)
    BY <1>1
  <2>2. /\ IsFiniteSet(DOMAIN analyses) /\ steady.scan \subseteq ListedPaths /\ Listed \subseteq DOMAIN analyses
    BY <1>1 DEF FoundInv
  <2>3. Reported(final, issues).incomplete = 0 => steady.scan \subseteq Reported(final, issues).analysed
    BY <2>1, <2>2, ReportedIs
  <2>4. QED
    BY <1>1, <2>1, <2>3
<1>2. QED
  BY <1>1 DEF FoundInv

LEMMA ConcludeIs ==
  ASSUME NEW entries, NEW issues, IsFiniteSet(issues), Conclude(entries, issues)
  PROVE  /\ phase' = "done" /\ DOMAIN analyses' = DOMAIN analyses
         /\ \E final, i : /\ DOMAIN final = DOMAIN analyses /\ IsFiniteSet(i)
                          /\ report' = Reported(final, i)
<1>1. /\ phase' = "done" /\ analyses' = Revisited(entries, issues)
      /\ report' = Reported(Revisited(entries, issues), issues)
  BY DEF Conclude, Return
<1>2. DOMAIN Revisited(entries, issues) = DOMAIN analyses
  BY RevisitDomain
<1>3. QED
  BY <1>1, <1>2

LEMMA StopFound ==
  ASSUME WalkInv, FoundInv, Discovering, UNCHANGED <<scenario, tree, steady, read>>, NEW f,
         Incomplete \/ Invalid \/ Refuse(f)
  PROVE  FoundInv'
<1>1. read.stage = "idle" /\ phase # "done"
  BY DEF FoundInv, Discovering
<1>2. ASSUME Invalid PROVE FoundInv'
  <2>1. phase' = "done" /\ analyses' = analyses /\ report'.outcome # "complete"
    BY <1>2 DEF Invalid, Return, Stopped
  <2>2. QED
    BY <1>1, <2>1, ReturnFound
<1>3. ASSUME Incomplete PROVE FoundInv'
  <2>1. CASE phase = "dynamic"
    <3>1. IsFiniteSet({Issue(<<>>, "PYA1001")})
      BY FS_Singleton
    <3>2. Conclude({}, {Issue(<<>>, "PYA1001")})
      BY <1>3, <2>1 DEF Incomplete
    <3>3. /\ phase' = "done" /\ DOMAIN analyses' = DOMAIN analyses
          /\ \E final, i : /\ DOMAIN final = DOMAIN analyses /\ IsFiniteSet(i)
                           /\ report' = Reported(final, i)
      BY <3>1, <3>2, ConcludeIs
    <3>4. queue = {}
      BY <2>1 DEF FoundInv
    <3>5. QED
      BY <1>1, <2>1, <3>3, <3>4, ReturnFound
  <2>2. CASE phase # "dynamic"
    <3>1. phase' = "done" /\ analyses' = analyses /\ report'.outcome # "complete"
      BY <1>3, <2>2 DEF Incomplete, Return, Stopped
    <3>2. QED
      BY <1>1, <3>1, ReturnFound
  <2>3. QED
    BY <2>1, <2>2
<1>4. ASSUME Refuse(f) PROVE FoundInv'
  <2>1. CASE f = "error"
    <3>1. Invalid
      BY <1>4, <2>1 DEF Refuse
    <3>2. QED
      BY <1>2, <3>1
  <2>2. CASE f # "error"
    <3>1. Incomplete
      BY <1>4, <2>2 DEF Refuse
    <3>2. QED
      BY <1>3, <3>1
  <2>3. QED
    BY <2>1, <2>2
<1>5. QED
  BY <1>2, <1>3, <1>4

LEMMA FoundSame ==
  ASSUME FoundInv, UNCHANGED <<phase, read, report, analyses, queue, discovered>>, steady'.scan \subseteq steady.scan
  PROVE  FoundInv'
<1>1. Listed' = Listed /\ ListedPaths' = ListedPaths
  BY DEF Listed, ListedPaths
<1>2. QED
  BY <1>1 DEF FoundInv

LEMMA RequestFound ==
  ASSUME WalkInv, FoundInv, RequestStep
  PROVE  FoundInv'
<1>1. Discovering /\ UNCHANGED <<scenario, tree, steady, read, discovered, queue>>
  BY DEF RequestStep, RequestOutside, RequestThroughLink, RequestBuiltIn, RequestDirectory, RequestFile,
     RequestInside, AtRequest, Untouched, treeVars
<1>2. \/ Invalid \/ (\E d : Refuse(Fails(d))) \/ UNCHANGED <<phase, analyses, report>>
  BY DEF RequestStep, RequestOutside, RequestThroughLink, RequestBuiltIn, RequestDirectory, RequestFile, Proceed
<1>3. CASE Invalid \/ \E d : Refuse(Fails(d))
  <2>1. UNCHANGED <<scenario, tree, steady, read>>
    BY <1>1
  <2>2. QED
    BY <1>1, <1>3, <2>1, StopFound
<1>4. CASE UNCHANGED <<phase, analyses, report>>
  BY <1>1, <1>4, FoundSame
<1>5. QED
  BY <1>2, <1>3, <1>4

LEMMA WalkFound ==
  ASSUME WalkInv, CoverInv, FoundInv, WalkStep
  PROVE  FoundInv'
<1>1. Discovering /\ UNCHANGED <<scenario, tree, steady, read>>
  BY DEF WalkStep, ListDirectory, PrepareDirectory, VisitSubdirectory, SubdirectoriesVisited, SkipFile,
     SourceDisappears, VisitSource, LeaveDirectory, ModulesFound, SourcesFound, BoundExceeded, DynamicFound,
     AtFile, DiscoveryEnds, Untouched, treeVars
<1>2. CASE ListDirectory \/ PrepareDirectory \/ VisitSubdirectory \/ SubdirectoriesVisited \/ SkipFile
           \/ SourceDisappears \/ VisitSource \/ LeaveDirectory
  <2>1. UNCHANGED <<discovered, queue>>
    BY <1>2 DEF ListDirectory, PrepareDirectory, VisitSubdirectory, SubdirectoriesVisited, SkipFile,
       SourceDisappears, VisitSource, LeaveDirectory, Untouched
  <2>2. \/ Incomplete \/ (\E d : Refuse(Fails(d))) \/ UNCHANGED <<phase, analyses, report>>
    BY <1>2 DEF ListDirectory, PrepareDirectory, VisitSubdirectory, SubdirectoriesVisited, SkipFile,
       SourceDisappears, VisitSource, LeaveDirectory, Proceed
  <2>3. CASE Incomplete \/ \E d : Refuse(Fails(d))
    BY <1>1, <2>3, StopFound
  <2>4. CASE UNCHANGED <<phase, analyses, report>>
    BY <1>1, <2>1, <2>4, FoundSame
  <2>5. QED
    BY <2>2, <2>3, <2>4
<1>3. CASE ModulesFound
  <2>1. phase = "modules" /\ phase' = "scan" /\ UNCHANGED <<queue, read, analyses, report>>
    BY <1>3 DEF ModulesFound
  <2>2. QED
    BY <2>1 DEF FoundInv
<1>4. CASE SourcesFound
  <2>1. /\ phase = "scan" /\ DiscoveryEnds /\ \A e \in walk.found : e.code # "PYA1006"
        /\ discovered' = [discovered EXCEPT !.scan = walk.found]
        /\ queue' = {e.path : e \in {x \in walk.found : x.code = "file"}}
        /\ phase' = "read" /\ UNCHANGED <<read, analyses, report>>
    BY <1>4 DEF SourcesFound
  <2>2. discovered'.scan = walk.found
    BY <2>1 DEF WalkInv, Discoveries
  <2>3. steady'.scan \subseteq ListedPaths'
    <3>1. \A p \in Sought : \E e \in walk.found : e.path = p
      BY <2>1, EndFinds
    <3>2. Sought = steady.scan
      BY <2>1 DEF Sought
    <3>3. QED
      BY <1>1, <2>2, <3>1, <3>2 DEF ListedPaths
  <2>4. Listed' \subseteq queue'
    BY <2>1, <2>2 DEF Listed
  <2>5. QED
    BY <1>1, <2>1, <2>3, <2>4 DEF FoundInv
<1>5. CASE BoundExceeded
  <2>1. phase' = "done" /\ analyses' = analyses /\ report'.outcome # "complete" /\ read.stage = "idle" /\ phase # "done"
    BY <1>1, <1>5 DEF BoundExceeded, Return, Stopped, FoundInv
  <2>2. QED
    BY <1>1, <2>1, ReturnFound
<1>6. CASE DynamicFound
  <2>1. phase = "dynamic" /\ Conclude(walk.found, IndexIssues(walk.found))
    BY <1>6 DEF DynamicFound
  <2>2. IsFiniteSet(IndexIssues(walk.found))
    BY FS_Subset DEF WalkInv, IsWalk, Found, IndexIssues
  <2>3. /\ phase' = "done" /\ DOMAIN analyses' = DOMAIN analyses
        /\ \E final, i : /\ DOMAIN final = DOMAIN analyses /\ IsFiniteSet(i)
                         /\ report' = Reported(final, i)
    BY <2>1, <2>2, ConcludeIs
  <2>4. queue = {} /\ read.stage = "idle" /\ phase # "done"
    BY <2>1 DEF FoundInv
  <2>5. QED
    BY <1>1, <2>1, <2>3, <2>4, ReturnFound
<1>7. QED
  BY <1>2, <1>3, <1>4, <1>5, <1>6 DEF WalkStep

LEMMA ReportFound ==
  ASSUME WalkInv, FoundInv, ReportStep
  PROVE  FoundInv'
<1>1. /\ phase = "read" /\ queue = {} /\ read.stage = "idle"
      /\ UNCHANGED <<scenario, tree, steady, read>> /\ UNCHANGED <<queue, discovered>>
  BY DEF ReportStep, ReportStatic, ReportInferred, SearchDynamic, treeVars
<1>2. CASE ReportStatic
  <2>1. phase' = "done" /\ analyses' = analyses /\ report' = Reported(analyses, {}) /\ IsFiniteSet({})
    BY <1>2, FS_EmptySet DEF ReportStatic, Return
  <2>2. \E final, i : DOMAIN final = DOMAIN analyses /\ IsFiniteSet(i) /\ report' = Reported(final, i)
    BY <2>1
  <2>3. QED
    BY <1>1, <2>1, <2>2, ReturnFound
<1>3. CASE ReportInferred
  <2>1. Conclude(discovered.modules, IndexIssues(discovered.modules))
    BY <1>3 DEF ReportInferred
  <2>2. IsFiniteSet(IndexIssues(discovered.modules))
    BY FS_Subset DEF WalkInv, Found, IndexIssues
  <2>3. /\ phase' = "done" /\ DOMAIN analyses' = DOMAIN analyses
        /\ \E final, i : /\ DOMAIN final = DOMAIN analyses /\ IsFiniteSet(i)
                         /\ report' = Reported(final, i)
    BY <2>1, <2>2, ConcludeIs
  <2>4. QED
    BY <1>1, <2>3, ReturnFound
<1>4. CASE SearchDynamic
  <2>1. phase' = "dynamic" /\ UNCHANGED <<analyses, report>>
    BY <1>4 DEF SearchDynamic
  <2>2. Listed' = Listed /\ ListedPaths' = ListedPaths
    BY <1>1 DEF Listed, ListedPaths
  <2>3. QED
    BY <1>1, <2>1, <2>2 DEF FoundInv
<1>5. QED
  BY <1>2, <1>3, <1>4 DEF ReportStep

LEMMA ReadFound ==
  ASSUME FoundInv, ReadStep
  PROVE  FoundInv'
<1>1. phase = "read" /\ UNCHANGED <<phase, discovered, report, steady>>
  BY DEF FoundInv, ReadStep, BeginRead, StatEntry, OpenEntry, ReadChunk, ValidateChain, ValidateLeaf, ReadUnchanged
<1>2. \/ UNCHANGED <<analyses, queue>>
      \/ \E a : Retain(a)
  BY DEF ReadStep, BeginRead, StatEntry, OpenEntry, ReadChunk, ValidateChain, ValidateLeaf, ReadFails
<1>3. /\ IsFiniteSet(DOMAIN analyses') /\ queue \union DOMAIN analyses \subseteq queue' \union DOMAIN analyses'
  <2>1. CASE UNCHANGED <<analyses, queue>>
    BY <2>1 DEF FoundInv
  <2>2. CASE \E a : Retain(a)
    <3>1. DOMAIN analyses' = DOMAIN analyses \union {read.path} /\ queue' = queue \ {read.path}
      BY <2>2 DEF Retain
    <3>2. IsFiniteSet(DOMAIN analyses \union {read.path})
      BY FS_AddElement DEF FoundInv
    <3>3. QED
      BY <3>1, <3>2
  <2>3. QED
    BY <1>2, <2>1, <2>2
<1>4. Listed' = Listed /\ ListedPaths' = ListedPaths
  BY <1>1 DEF Listed, ListedPaths
<1>5. QED
  BY <1>1, <1>3, <1>4 DEF FoundInv

LEMMA FoundKept ==
  ASSUME WalkInv, CoverInv, FoundInv, [Next]_vars
  PROVE  FoundInv'
<1>1. CASE Edit
  <2>1. EditTo(tree') /\ phase # "done"
    BY <1>1, EditFrame
  <2>2. UNCHANGED <<phase, read, report, analyses, queue, discovered>> /\ steady'.scan \subseteq steady.scan
    BY <2>1 DEF EditTo, StillEligible
  <2>3. QED
    BY <2>2, FoundSame
<1>2. CASE UNCHANGED vars
  <2>1. UNCHANGED <<phase, read, report, analyses, queue, discovered>> /\ steady'.scan \subseteq steady.scan
    BY <1>2 DEF vars
  <2>2. QED
    BY <2>1, FoundSame
<1>3. QED
  BY <1>1, <1>2, RequestFound, WalkFound, ReadFound, ReportFound DEF Next, ScanStep

LEMMA FoundStarts ==
  ASSUME Init
  PROVE  FoundInv
<1>1. DOMAIN analyses = {}
  BY DEF Init
<1>2. IsFiniteSet(DOMAIN analyses)
  BY <1>1, FS_EmptySet
<1>3. phase \in {"modules", "scan"} /\ read.stage = "idle" /\ report.outcome = "none"
  BY DEF Init, NoRead
<1>4. QED
  BY <1>2, <1>3 DEF FoundInv

-----------------------------------------------------------------------------
(* The other way round, on a tree nobody edits: what is found is eligible.  *)

\* Every rule is the one of the tree.
RulesTrue(rules, t) == \A d \in DOMAIN rules : rules[d] = Rule(t, d)

\* The ignore files from the root down to a directory were looked for, unless
\* it is ignored.
LookedFor(rules, q) ==
  \/ \A k \in 0..Len(q) : Up(q, k) \in DOMAIN rules
  \/ \E i \in 1..Len(q) : IgnoredBy(rules, Up(q, i), TRUE)

LEMMA RulesSame ==
  ASSUME NEW t, NEW p \in Paths, NEW n \in 0..Len(p), NEW r, NEW s, Agrees(r, t, p, n), Agrees(s, t, p, n),
         NEW j \in 1..n, NEW directory
  PROVE  IgnoredBy(r, Up(p, j), directory) <=> IgnoredBy(s, Up(p, j), directory)
<1>1. j \in 0..Len(p) /\ Len(p) \in Nat
  BY DEF Paths
<1>2. Up(p, j) \in Paths /\ Len(Up(p, j)) = j /\ \A i \in 0..j : Up(Up(p, j), i) = Up(p, i)
  BY <1>1, UpIs, UpOfUp
<1>3. ASSUME NEW i \in 0..Len(Up(p, j)) - 1
      PROVE  /\ Up(Up(p, j), i) \in DOMAIN r <=> Up(Up(p, j), i) \in DOMAIN s
             /\ Up(Up(p, j), i) \in DOMAIN r => r[Up(Up(p, j), i)] = s[Up(Up(p, j), i)]
  <2>1. i \in 0..n - 1 /\ i \in 0..j
    BY <1>1, <1>2
  <2>2. Up(Up(p, j), i) = Up(p, i)
    BY <1>2, <2>1
  <2>3. Up(p, i) \in DOMAIN r /\ r[Up(p, i)] = Rule(t, Up(p, i)) /\ Up(p, i) \in DOMAIN s /\ s[Up(p, i)] = Rule(t, Up(p, i))
    BY <2>1 DEF Agrees
  <2>4. QED
    BY <2>2, <2>3
<1>4. QED
  BY <1>2, <1>3, IgnoredAgree

LEMMA TrueAgrees ==
  ASSUME NEW rules, NEW t, RulesTrue(rules, t), NEW p, NEW n, \A k \in 0..n - 1 : Up(p, k) \in DOMAIN rules
  PROVE  Agrees(rules, t, p, n)
BY DEF RulesTrue, Agrees

\* An entry that is not ignored by rules that were looked for above it is not
\* ignored in the tree.
LEMMA NotIgnoredInTree ==
  ASSUME NEW t, NEW p \in Paths, p # <<>>, NEW rules, RulesTrue(rules, t), LookedFor(rules, Above(p)),
         NEW directory, ~GitIgnores(rules, p, directory)
  PROVE  ~GitIgnores(RulesAbove(t, p), p, directory)
<1>1. /\ Len(p) \in Nat /\ Len(p) - 1 \in 0..Len(p) /\ Above(p) = Up(p, Len(p) - 1) /\ Len(Above(p)) = Len(p) - 1
      /\ Len(p) \in 0..Len(p)
  BY PrefixIs DEF Paths
<1>2. \A i \in 0..Len(p) - 1 : Up(Above(p), i) = Up(p, i)
  BY <1>1, UpOfUp
<1>3. ASSUME NEW i \in 1..Len(p) - 1 PROVE ~IgnoredBy(rules, Up(p, i), TRUE)
  <2>1. i \in 1..Len(p) /\ i < Len(p)
    BY <1>1
  <2>2. (i < Len(p) \/ directory) = TRUE
    BY <2>1
  <2>3. ~IgnoredBy(rules, SubSeq(p, 1, i), i < Len(p) \/ directory)
    BY <2>1 DEF GitIgnores
  <2>4. QED
    BY <2>2, <2>3 DEF Up
<1>4. \A k \in 0..Len(p) - 1 : Up(p, k) \in DOMAIN rules
  <2>1. ~\E i \in 1..Len(Above(p)) : IgnoredBy(rules, Up(Above(p), i), TRUE)
    <3>1. ASSUME NEW i \in 1..Len(Above(p)) PROVE ~IgnoredBy(rules, Up(Above(p), i), TRUE)
      <4>1. i \in 1..Len(p) - 1 /\ i \in 0..Len(p) - 1
        BY <1>1
      <4>2. QED
        BY <1>2, <1>3, <4>1
    <3>2. QED
      BY <3>1
  <2>2. \A k \in 0..Len(p) - 1 : Up(Above(p), k) \in DOMAIN rules
    BY <1>1, <2>1 DEF LookedFor
  <2>3. QED
    BY <1>2, <2>2
<1>5. Agrees(rules, t, p, Len(p))
  BY <1>4, TrueAgrees
<1>6. Agrees(RulesAbove(t, p), t, p, Len(p))
  BY RulesAboveIs
<1>7. ASSUME NEW j \in 1..Len(p), IgnoredBy(RulesAbove(t, p), SubSeq(p, 1, j), j < Len(p) \/ directory) PROVE FALSE
  <2> DEFINE dir == j < Len(p) \/ directory
  <2>1. ~IgnoredBy(rules, Up(p, j), dir)
    BY DEF GitIgnores, Up
  <2>2. IgnoredBy(RulesAbove(t, p), Up(p, j), dir)
    BY <1>7 DEF Up
  <2> HIDE DEF dir
  <2>3. IgnoredBy(rules, Up(p, j), dir) <=> IgnoredBy(RulesAbove(t, p), Up(p, j), dir)
    BY <1>1, <1>5, <1>6, RulesSame
  <2>4. QED
    BY <2>1, <2>2, <2>3
<1>8. QED
  BY <1>7 DEF GitIgnores

\* Looking for the ignore files of a directory looks for all of them, unless
\* it is ignored.
LEMMA LooksFor ==
  ASSUME NEW t, NEW rules, RulesTrue(rules, t), NEW q \in Paths, NEW o, o.respectGitignore
  PROVE  RulesTrue(WithRules(t, rules, q, o), t) /\ LookedFor(WithRules(t, rules, q, o), q)
<1> DEFINE new == WithRules(t, rules, q, o)
           known == [d \in DOMAIN rules \union Prefixes(q) |-> IF d \in DOMAIN rules THEN rules[d] ELSE Rule(t, d)]
<1>0. Len(q) \in Nat /\ Prefixes(q) = {Up(q, k) : k \in 0..Len(q)}
  BY PrefixIs DEF Paths
<1>1. DOMAIN new = DOMAIN rules \union Loading(t, rules, q)
  BY DEF WithRules
<1>2. RulesTrue(new, t)
  BY DEF WithRules, RulesTrue
<1>3. RulesTrue(known, t) /\ \A k \in 0..Len(q) : Up(q, k) \in DOMAIN known
  BY <1>0 DEF RulesTrue
<1>4. Loading(t, rules, q) = {d \in Prefixes(q) : ~GitIgnores(known, d, TRUE)} \ DOMAIN rules
  BY DEF Loading
<1> HIDE DEF known, new
<1>5. ASSUME NEW k \in 0..Len(q), Up(q, k) \notin DOMAIN new, \A j \in 0..k - 1 : Up(q, j) \in DOMAIN new
      PROVE  \E i \in 1..Len(q) : IgnoredBy(new, Up(q, i), TRUE)
  <2>1. GitIgnores(known, Up(q, k), TRUE)
    BY <1>0, <1>1, <1>4, <1>5
  <2>2. PICK i \in 1..Len(Up(q, k)) : IgnoredBy(known, SubSeq(Up(q, k), 1, i), i < Len(Up(q, k)) \/ TRUE)
    BY <2>1 DEF GitIgnores
  <2>3. (i < Len(Up(q, k)) \/ TRUE) = TRUE
    OBVIOUS
  <2>4. Len(Up(q, k)) = k /\ i \in 1..k /\ i \in 0..k /\ i \in 1..Len(q)
    BY <1>0, <2>2, UpIs
  <2>5. SubSeq(Up(q, k), 1, i) = Up(q, i)
    BY <2>4, UpOfUp DEF Up
  <2>6. IgnoredBy(known, Up(q, i), TRUE)
    BY <2>2, <2>3, <2>5
  <2>7. Agrees(new, t, q, k)
    BY <1>2, <1>5, TrueAgrees
  <2>8. Agrees(known, t, q, k)
    <3>1. \A j \in 0..k - 1 : Up(q, j) \in DOMAIN known
      BY <1>0, <1>3
    <3>2. QED
      BY <1>3, <3>1, TrueAgrees
  <2>9. IgnoredBy(new, Up(q, i), TRUE)
    BY <2>4, <2>6, <2>7, <2>8, RulesSame
  <2>10. QED
    BY <2>4, <2>9
<1>6. LookedFor(new, q)
  <2>1. CASE \A k \in 0..Len(q) : Up(q, k) \in DOMAIN new
    BY <2>1 DEF LookedFor
  <2>2. CASE ~\A k \in 0..Len(q) : Up(q, k) \in DOMAIN new
    <3> DEFINE B == {k \in 0..Len(q) : Up(q, k) \notin DOMAIN new}
    <3>1. B \in SUBSET Nat /\ B # {}
      BY <1>0, <2>2
    <3>2. PICK k \in B : \A j \in B : k <= j
      <4> HIDE DEF B
      <4>1. QED
        BY <3>1, LeastElement
    <3>3. k \in 0..Len(q) /\ Up(q, k) \notin DOMAIN new
      BY <3>2
    <3>4. \A j \in 0..k - 1 : Up(q, j) \in DOMAIN new
      <4>1. ASSUME NEW j \in 0..k - 1, j \in B PROVE FALSE
        BY <1>0, <3>2, <3>3, <4>1
      <4>2. \A j \in 0..k - 1 : j \in 0..Len(q)
        BY <1>0, <3>3
      <4>3. QED
        BY <4>1, <4>2
    <3>5. QED
      BY <1>5, <3>3, <3>4 DEF LookedFor
  <2>3. QED
    BY <2>1, <2>2
<1>7. QED
  BY <1>2, <1>6 DEF new

\* A pattern that excludes a directory excludes what is below it.
LEMMA ExcludesBelow ==
  ASSUME NEW o, NEW p \in Paths, NEW directory, ~Excludes(o, p, directory), NEW k \in 0..Len(p) - 1
  PROVE  ~Excludes(o, Up(p, k), TRUE)
<1>1. SUFFICES ASSUME o.exclude # NoPattern, Matches(o.exclude, Up(p, k), TRUE) PROVE FALSE
  BY DEF Excludes
<1>2. /\ Len(p) \in Nat /\ k \in 0..Len(p) /\ p # <<>> /\ Len(p) - 1 \in 0..Len(p)
      /\ Up(p, k) \in Paths /\ Len(Up(p, k)) = k /\ \A j \in 1..k : Up(p, k)[j] = p[j]
  <2>1. Len(p) \in Nat /\ k \in 0..Len(p)
    BY DEF Paths
  <2>2. QED
    BY <2>1, UpIs
<1>3. Front(p) \in Paths /\ Len(Front(p)) = Len(p) - 1 /\ \A j \in 1..Len(p) - 1 : Front(p)[j] = p[j]
  <2>1. Front(p) = Up(p, Len(p) - 1)
    BY <1>2, PrefixIs
  <2>2. QED
    BY <1>2, <2>1, UpIs
<1>4. Range(Front(p)) = {p[j] : j \in 1..Len(p) - 1}
  BY <1>3 DEF Range, Paths
<1>5. PICK j \in 1..k : o.exclude.name = p[j]
  <2>1. Up(p, k) # <<>> /\ (o.exclude.name \in Range(Front(Up(p, k))) \/ Last(Up(p, k)) = o.exclude.name)
    BY <1>1 DEF Matches
  <2>2. k \in 1..k /\ Last(Up(p, k)) = p[k]
    <3>1. k # 0 /\ Last(Up(p, k)) = Up(p, k)[Len(Up(p, k))]
      BY <1>2, <2>1, PrefixIs
    <3>2. k \in 1..k
      BY <3>1
    <3>3. QED
      BY <1>2, <3>1, <3>2
  <2>3. ASSUME o.exclude.name \in Range(Front(Up(p, k))) PROVE \E j \in 1..k : o.exclude.name = p[j]
    <3>1. Front(Up(p, k)) = Up(Up(p, k), k - 1) /\ k - 1 \in 0..k
      BY <1>2, <2>1, PrefixIs
    <3>2. Front(Up(p, k)) = Up(p, k - 1) /\ k - 1 \in 0..Len(p)
      BY <1>2, <3>1, UpOfUp
    <3>3. /\ Front(Up(p, k)) \in Paths /\ Len(Front(Up(p, k))) = k - 1
          /\ \A j \in 1..k - 1 : Front(Up(p, k))[j] = p[j]
      BY <3>2, UpIs
    <3>4. PICK j \in 1..k - 1 : o.exclude.name = Front(Up(p, k))[j]
      BY <2>3, <3>3 DEF Range, Paths
    <3>5. QED
      BY <1>2, <3>3, <3>4
  <2>4. QED
    BY <2>1, <2>2, <2>3
<1>6. j \in 1..Len(p) - 1
  BY <1>2
<1>7. o.exclude.name \in Range(Front(p))
  BY <1>4, <1>5, <1>6
<1>8. QED
  BY <1>1, <1>2, <1>7 DEF Matches, Excludes

\* What is followed somewhere is something, and not a directory unless it is
\* one.
LEMMA ResolvedIs ==
  ASSUME NEW t, IsTree(t), NEW p \in Paths, Resolved(t, p) # None
  PROVE  Lstat(t, p) \in DOMAIN t /\ Lstat(t, p) # None
<1>1. Lstat(t, p) \in Inodes(t)
  BY LstatInside
<1>2. Lstat(t, p) # None
  <2>1. ASSUME Lstat(t, p) = None PROVE FALSE
    <3>1. Inode(t, None).kind = "none"
      BY <1>1, <2>1, InodeIs
    <3>2. Target(t, None) = None
      BY <1>1, <2>1, <3>1, TargetInside
    <3>3. QED
      BY <2>1, <3>2 DEF Resolved
  <2>2. QED
    BY <2>1
<1>3. QED
  BY <1>1, <1>2, InodeIs

\* A path that leads somewhere goes through directories.
LEMMA ThroughDirectories ==
  ASSUME NEW t, IsTree(t), NEW p \in Paths, Lstat(t, p) # None, NEW k \in 0..Len(p), k < Len(p)
  PROVE  IsDirectory(t, Up(p, k))
<1>0. Len(p) \in Nat /\ Up(p, Len(p)) = p
  BY UpOfUp DEF Paths
<1> DEFINE B == {j \in 0..Len(p) - 1 : ~IsDirectory(t, Up(p, j))}
<1>1. ASSUME NEW j \in B PROVE j + 1 \in B
  <2>0. j \in 0..Len(p) /\ j + 1 \in 1..Len(p) /\ (j + 1) - 1 = j
    BY <1>0
  <2>1. Up(p, j) \in Paths /\ Up(p, j + 1) \in Paths /\ Up(p, j + 1) = Append(Up(p, j), p[j + 1]) /\ p[j + 1] \in Names
    <3>1. j + 1 \in 0..Len(p)
      BY <1>0, <2>0
    <3>2. QED
      BY <2>0, <3>1, UpIs, NameByName
  <2>2. Lstat(t, Up(p, j + 1)) = Child(t, Resolved(t, Up(p, j)), p[j + 1]) /\ Resolved(t, Up(p, j)) \in Inodes(t)
    BY <2>1, LstatStep, LstatInside
  <2>3. Child(t, Resolved(t, Up(p, j)), p[j + 1]) = None
    BY DEF IsDirectory, Child
  <2>4. j + 1 # Len(p)
    BY <1>0, <2>2, <2>3
  <2>5. ~IsDirectory(t, Up(p, j + 1))
    <3>1. Resolved(t, Up(p, j + 1)) = None
      <4>1. Resolved(t, Up(p, j + 1)) # None => Lstat(t, Up(p, j + 1)) # None
        BY <2>1, ResolvedIs
      <4>2. QED
        BY <2>2, <2>3, <4>1
    <3>2. QED
      BY <3>1 DEF IsDirectory, Inode, Nothing
  <2>6. j + 1 \in 0..Len(p) - 1
    BY <1>0, <2>0, <2>4
  <2>7. QED
    BY <2>5, <2>6
<1>2. ASSUME B # {} PROVE FALSE
  <2>1. B \in SUBSET (0..Len(p))
    BY <1>0
  <2> HIDE DEF B
  <2>2. PICK m \in B : \A j \in B : j <= m
    BY <1>0, <1>2, <2>1, GreatestElement
  <2>3. m + 1 \in B /\ m \in 0..Len(p)
    BY <1>1, <2>1
  <2>4. m + 1 <= m
    BY <2>2, <2>3
  <2>5. QED
    BY <1>0, <2>3, <2>4
<1>3. k \in 0..Len(p) - 1
  BY <1>0
<1>4. QED
  BY <1>2, <1>3

\* Where nothing is a link, nothing is followed.
LEMMA StraightThere ==
  ASSUME NEW t, IsTree(t), NEW p \in Paths, NEW k \in 0..Len(p), \A j \in 1..k - 1 : ~IsLink(t, Up(p, j))
  PROVE  At(t, Up(p, k)) = Lstat(t, Up(p, k))
<1>0. Len(p) \in Nat /\ Up(p, 0) = <<>> /\ k \in Nat
  BY UpOfUp DEF Paths
<1> DEFINE C == {j \in 0..k : At(t, Up(p, j)) = Lstat(t, Up(p, j))}
<1>2. 0 \in C
  BY <1>0, LstatNothing, BelowNothing DEF At
<1>3. ASSUME NEW j \in 0..k, j # k, j \in C PROVE j + 1 \in C
  <2>1. j + 1 \in 1..Len(p) /\ (j + 1) - 1 = j /\ j \in 0..Len(p) /\ j + 1 \in 0..k
    BY <1>0, <1>3
  <2>2. Up(p, j + 1) = Append(Up(p, j), p[j + 1]) /\ p[j + 1] \in Names /\ Up(p, j) \in Paths
    BY <2>1, NameByName, UpIs
  <2>3. ~IsLink(t, Up(p, j))
    <3>1. CASE j = 0
      BY <1>0, <3>1, RootIs
    <3>2. CASE j # 0
      <4>1. j \in 1..k - 1
        BY <1>0, <1>3, <3>2
      <4>2. QED
        BY <4>1
    <3>3. QED
      BY <3>1, <3>2
  <2>4. /\ Lstat(t, Up(p, j + 1)) = Child(t, Resolved(t, Up(p, j)), p[j + 1])
        /\ At(t, Up(p, j + 1)) = Child(t, At(t, Up(p, j)), p[j + 1])
    BY <2>2, LstatStep, AtInside
  <2>5. Resolved(t, Up(p, j)) = At(t, Up(p, j))
    <3>1. Lstat(t, Up(p, j)) \in Inodes(t) /\ Inode(t, Lstat(t, Up(p, j))).kind # "link"
      BY <2>2, <2>3, LstatInside DEF IsLink
    <3>2. QED
      BY <1>3, <3>1, TargetInside DEF Resolved
  <2>6. QED
    BY <2>1, <2>4, <2>5
<1>4. k \in C
  <2> HIDE DEF C
  <2>1. QED
    BY <1>0, <1>2, <1>3, CountsUp
<1>5. QED
  BY <1>4

\* The link an explicit path leads through leads to a directory, and is there.
LEMMA AliasThere ==
  ASSUME IsTree(tree), NEW r \in Paths, LinkedPrefixes(tree, r) # {}, Resolved(tree, r) # None
  PROVE  LET alias == SubSeq(r, 1, Min(LinkedPrefixes(tree, r))) IN
         /\ alias \in Paths /\ alias # <<>> /\ At(tree, alias) # None
         /\ IsLink(tree, alias) /\ IsDirectory(tree, alias) /\ IsPrefix(alias, r)
<1> DEFINE m == Min(LinkedPrefixes(tree, r))
<1>0. Len(r) \in Nat /\ Up(r, Len(r)) = r
  BY UpOfUp DEF Paths
<1>1. /\ m \in LinkedPrefixes(tree, r) /\ m \in 1..Len(r) /\ IsLink(tree, Up(r, m)) /\ SubSeq(r, 1, m) = Up(r, m)
      /\ Up(r, m) \in Paths /\ Up(r, m) # <<>> /\ Len(Up(r, m)) = m
      /\ \A k \in LinkedPrefixes(tree, r) : m <= k
  BY AliasIs
<1> HIDE DEF m
<1>2. Lstat(tree, r) # None
  BY ResolvedIs
<1>3. m \in 0..Len(r) /\ (m < Len(r) \/ m = Len(r))
  BY <1>0, <1>1
<1>4. IsDirectory(tree, Up(r, m))
  <2>1. CASE m < Len(r)
    BY <1>2, <1>3, <2>1, ThroughDirectories
  <2>2. CASE m = Len(r)
    <3>1. ASSUME ~IsDirectory(tree, r) PROVE FALSE
      <4>1. m \in 1..Len(r) - 1
        BY <1>1, <3>1 DEF LinkedPrefixes
      <4>2. QED
        BY <1>0, <2>2, <4>1
    <3>2. QED
      BY <1>0, <2>2, <3>1
  <2>3. QED
    BY <1>3, <2>1, <2>2
<1>5. \A j \in 1..m - 1 : ~IsLink(tree, Up(r, j))
  <2>1. ASSUME NEW j \in 1..m - 1, IsLink(tree, Up(r, j)) PROVE FALSE
    <3>1. j \in 1..Len(r) - 1 /\ j \in 1..Len(r) /\ ~(m <= j)
      BY <1>0, <1>1
    <3>2. j \in LinkedPrefixes(tree, r)
      BY <2>1, <3>1 DEF LinkedPrefixes, Up
    <3>3. QED
      BY <1>1, <3>1, <3>2
  <2>2. QED
    BY <2>1
<1>6. At(tree, Up(r, m)) = Lstat(tree, Up(r, m))
  BY <1>3, <1>5, StraightThere
<1>7. Lstat(tree, Up(r, m)) # None
  <2>1. Resolved(tree, Up(r, m)) # None
    BY <1>4 DEF IsDirectory, Inode, Nothing
  <2>2. QED
    BY <1>1, <2>1, ResolvedIs
<1>8. IsPrefix(Up(r, m), r)
  BY <1>0, <1>1, <1>3, PrefixIs
<1>9. QED
  BY <1>1, <1>4, <1>6, <1>7, <1>8 DEF m

\* A path through no link is there itself.
LEMMA StraightIs ==
  ASSUME IsTree(tree), NEW r \in Paths, LinkedPrefixes(tree, r) = {}, Resolved(tree, r) # None
  PROVE  /\ At(tree, r) # None /\ At(tree, r) = Lstat(tree, r)
         /\ IsDirectory(tree, r) => ~IsLink(tree, r)
<1>0. Len(r) \in Nat /\ Up(r, Len(r)) = r /\ Len(r) \in 0..Len(r) /\ Up(r, 0) = <<>>
  BY UpOfUp DEF Paths
<1>1. \A j \in 1..Len(r) - 1 : ~IsLink(tree, Up(r, j))
  <2>1. ASSUME NEW j \in 1..Len(r) - 1, IsLink(tree, Up(r, j)) PROVE FALSE
    <3>1. j \in 1..Len(r)
      BY <1>0
    <3>2. j \in LinkedPrefixes(tree, r)
      BY <2>1, <3>1 DEF LinkedPrefixes, Up
    <3>3. QED
      BY <3>2
  <2>2. QED
    BY <2>1
<1>2. At(tree, Up(r, Len(r))) = Lstat(tree, Up(r, Len(r)))
  BY <1>0, <1>1, StraightThere
<1>3. Lstat(tree, r) # None
  BY ResolvedIs
<1>4. ASSUME IsDirectory(tree, r), IsLink(tree, r) PROVE FALSE
  <2>1. CASE r = <<>>
    BY <1>4, <2>1, RootIs
  <2>2. CASE r # <<>>
    <3>1. Len(r) \in 1..Len(r)
      BY <2>2, PrefixIs
    <3>2. Len(r) \in LinkedPrefixes(tree, r)
      BY <1>0, <1>4, <3>1 DEF LinkedPrefixes, Up
    <3>3. QED
      BY <3>2
  <2>3. QED
    BY <2>1, <2>2
<1>5. QED
  BY <1>0, <1>2, <1>3, <1>4

\* A directory the scan may list for one of its requests.
Entered(d) ==
  /\ d \in Paths /\ At(tree, d) # None /\ ~IsLink(tree, d) /\ ~BuiltInExcluded(d, TRUE)
  /\ \E r \in Range(scenario.requests) : IsPrefix(r, d)

\* What was listed of the directory the walk is in.
Present(w) ==
  /\ Entered(w.at)
  /\ \A n \in w.directories \union w.retained : At(tree, Append(w.at, n)) # None /\ IsDirectory(tree, Append(w.at, n))
  /\ \A n \in w.files : At(tree, Append(w.at, n)) # None /\ ~IsDirectory(tree, Append(w.at, n))
  /\ \A n \in w.retained : n \notin BuiltIn

\* A discovery of the requests that finds eligible entries only.
Genuine(w) ==
  /\ \A e \in w.found : e.path # <<>> /\ Eligible(tree, e.path, scenario.requests, ScanOptions)
  /\ Range(w.requests) \subseteq Range(scenario.requests)
  /\ scenario.respectGitignore => RulesTrue(w.rules, tree)
  /\ \A d \in w.stack : Entered(d)
  /\ w.stage \in {"prepare", "directories", "files"} => Present(w)
  /\ w.stage \in {"directories", "files"} /\ scenario.respectGitignore => LookedFor(w.rules, w.at)

LEMMA PolicyEligible ==
  ASSUME IsTree(tree), NEW p \in Paths, p # <<>>, NEW rules,
         scenario.respectGitignore => RulesTrue(rules, tree) /\ LookedFor(rules, Above(p)),
         ~SymlinkExcluded(rules, p, ScanOptions)
  PROVE  /\ ScanOptions.respectGitignore => ~GitIgnores(RulesAbove(tree, p), p, FALSE)
         /\ \A q \in Prefixes(Above(p)) : ~Excludes(ScanOptions, q, TRUE)
         /\ ~Excludes(ScanOptions, p, FALSE)
<1> DEFINE o == ScanOptions
<1>0. o.respectGitignore = scenario.respectGitignore
  BY DEF ScanOptions
<1> HIDE DEF o
<1>1. ~Excludes(o, p, FALSE) /\ ~Ignored(rules, p, FALSE, o)
  BY DEF o, SymlinkExcluded
<1>2. o.respectGitignore => ~GitIgnores(RulesAbove(tree, p), p, FALSE)
  <2>1. SUFFICES ASSUME o.respectGitignore PROVE ~GitIgnores(RulesAbove(tree, p), p, FALSE)
    OBVIOUS
  <2>2. ~GitIgnores(rules, p, FALSE) /\ RulesTrue(rules, tree) /\ LookedFor(rules, Above(p))
    BY <1>0, <1>1, <2>1 DEF Ignored
  <2>3. QED
    BY <2>2, NotIgnoredInTree
<1>3. ASSUME NEW q \in Prefixes(Above(p)) PROVE ~Excludes(o, q, TRUE)
  <2>1. /\ Len(p) \in Nat /\ Len(p) - 1 \in 0..Len(p) /\ Above(p) = Up(p, Len(p) - 1) /\ Above(p) \in Paths
        /\ Len(Above(p)) = Len(p) - 1
    BY PrefixIs DEF Paths
  <2>2. PICK k \in 0..Len(p) - 1 : q = Up(Above(p), k)
    BY <1>3, <2>1, PrefixIs
  <2>3. q = Up(p, k)
    BY <2>1, <2>2, UpOfUp
  <2>4. QED
    BY <1>1, <2>3, ExcludesBelow
<1>4. QED
  BY <1>1, <1>2, <1>3 DEF o

LEMMA LinkEligible ==
  ASSUME IsTree(tree), NEW p \in Paths, p # <<>>, At(tree, p) # None, IsLink(tree, p), IsDirectory(tree, p),
         ~BuiltInExcluded(p, TRUE), NEW r \in Range(scenario.requests), IsPrefix(r, p) \/ IsPrefix(p, r), NEW rules,
         scenario.respectGitignore => RulesTrue(rules, tree) /\ LookedFor(rules, Above(p)),
         ~SymlinkExcluded(rules, p, ScanOptions)
  PROVE  Eligible(tree, p, scenario.requests, ScanOptions)
<1>1. /\ ScanOptions.respectGitignore => ~GitIgnores(RulesAbove(tree, p), p, FALSE)
      /\ \A q \in Prefixes(Above(p)) : ~Excludes(ScanOptions, q, TRUE)
      /\ ~Excludes(ScanOptions, p, FALSE)
  BY PolicyEligible
<1>2. ~ScanOptions.allowBuiltInRoots
  BY DEF ScanOptions
<1>3. IsLink(tree, p) /\ IsDirectory(tree, p) <=> TRUE
  OBVIOUS
<1>4. ~BuiltInExcluded(p, IsLink(tree, p) /\ IsDirectory(tree, p))
  BY DEF BuiltInExcluded
<1>5. QED
  BY <1>1, <1>2, <1>4 DEF Eligible

LEMMA FileEligible ==
  ASSUME IsTree(tree), NEW p \in Paths, p # <<>>, At(tree, p) # None, ~IsDirectory(tree, p), Last(p) \in Sources,
         ~BuiltInExcluded(p, FALSE), NEW r \in Range(scenario.requests), IsPrefix(r, p), NEW rules,
         scenario.respectGitignore => RulesTrue(rules, tree) /\ LookedFor(rules, Above(p)),
         FileSelected(rules, p, ScanOptions)
  PROVE  Eligible(tree, p, scenario.requests, ScanOptions)
<1>0. ~SymlinkExcluded(rules, p, ScanOptions)
  BY DEF SymlinkExcluded, FileSelected
<1>1. /\ ScanOptions.respectGitignore => ~GitIgnores(RulesAbove(tree, p), p, FALSE)
      /\ \A q \in Prefixes(Above(p)) : ~Excludes(ScanOptions, q, TRUE)
      /\ ~Excludes(ScanOptions, p, FALSE)
  BY <1>0, PolicyEligible
<1>2. ~ScanOptions.allowBuiltInRoots
  BY DEF ScanOptions
<1>3. ~BuiltInExcluded(p, IsLink(tree, p) /\ IsDirectory(tree, p))
  BY DEF BuiltInExcluded
<1>4. ScanOptions.include = NoPattern \/ Matches(ScanOptions.include, p, FALSE)
  BY DEF FileSelected
<1>5. QED
  BY <1>1, <1>2, <1>3, <1>4 DEF Eligible

\* What a listing gives is there, below what was entered.
LEMMA ListingIs ==
  ASSUME IsTree(tree), NEW d, Entered(d), NEW n \in Names, At(tree, Append(d, n)) # None
  PROVE  /\ Append(d, n) \in Paths /\ Append(d, n) # <<>> /\ Above(Append(d, n)) = d /\ Last(Append(d, n)) = n
         /\ Resolved(tree, Append(d, n)) = Target(tree, At(tree, Append(d, n)))
         /\ \E r \in Range(scenario.requests) : IsPrefix(r, Append(d, n))
         /\ n \notin BuiltIn => ~BuiltInExcluded(Append(d, n), TRUE)
         /\ ~BuiltInExcluded(Append(d, n), FALSE)
<1> DEFINE c == Append(d, n)
<1>0. d \in Paths /\ Len(d) \in Nat
  BY DEF Entered, Paths
<1>1. /\ c \in Paths /\ Len(c) = Len(d) + 1 /\ Last(c) = n /\ Up(c, Len(d)) = d /\ Front(c) = d /\ c[Len(d) + 1] = n
      /\ \A j \in 1..Len(d) : c[j] = d[j]
      /\ \A k \in 0..Len(d) : Up(c, k) = Up(d, k)
  BY <1>0, OneNameMore
<1>2. c # <<>> /\ Above(c) = d
  BY <1>0, <1>1 DEF Above
<1> HIDE DEF c
<1>3. Lstat(tree, c) = At(tree, c)
  <2>1. Len(c) \in 0..Len(c) /\ Up(c, Len(c)) = c
    BY <1>0, <1>1, UpOfUp
  <2>2. At(tree, c) # None
    BY DEF c
  <2>3. Lstat(tree, Up(c, Len(c))) = At(tree, Up(c, Len(c)))
    BY <1>1, <2>1, <2>2, FoundThere
  <2>4. QED
    BY <2>1, <2>3
<1>4. PICK r \in Range(scenario.requests) : IsPrefix(r, d)
  BY DEF Entered
<1>5. IsPrefix(r, c)
  BY <1>0, <1>1, <1>4, <1>2 DEF IsPrefix, c
<1>6. Range(c) = Range(d) \union {n}
  <2>1. Range(c) = {c[j] : j \in 1..Len(d) + 1} /\ Range(d) = {d[j] : j \in 1..Len(d)}
    BY <1>0, <1>1 DEF Range, Paths
  <2>2. ASSUME NEW x \in Range(c) PROVE x \in Range(d) \union {n}
    <3>1. PICK j \in 1..Len(d) + 1 : x = c[j]
      BY <2>1, <2>2
    <3>2. CASE j = Len(d) + 1
      BY <1>1, <3>1, <3>2
    <3>3. CASE j # Len(d) + 1
      <4>1. j \in 1..Len(d)
        BY <1>0, <3>3
      <4>2. QED
        BY <1>1, <2>1, <3>1, <4>1
    <3>4. QED
      BY <3>2, <3>3
  <2>3. ASSUME NEW x \in Range(d) \union {n} PROVE x \in Range(c)
    <3>1. CASE x = n
      <4>1. Len(d) + 1 \in 1..Len(d) + 1
        BY <1>0
      <4>2. QED
        BY <1>1, <2>1, <3>1, <4>1
    <3>2. CASE x \in Range(d)
      <4>1. PICK j \in 1..Len(d) : x = d[j]
        BY <2>1, <3>2
      <4>2. j \in 1..Len(d) + 1
        BY <1>0
      <4>3. QED
        BY <1>1, <2>1, <4>1, <4>2
    <3>3. QED
      BY <2>3, <3>1, <3>2
  <2>4. QED
    BY <2>2, <2>3
<1>7. Range(d) \intersect BuiltIn = {}
  <2>1. CASE d = <<>>
    BY <2>1 DEF Range
  <2>2. CASE d # <<>>
    BY <2>2 DEF Entered, BuiltInExcluded
  <2>3. QED
    BY <2>1, <2>2
<1>8. n \notin BuiltIn => ~BuiltInExcluded(c, TRUE)
  BY <1>6, <1>7 DEF BuiltInExcluded
<1>9. ~BuiltInExcluded(c, FALSE)
  BY <1>1, <1>7 DEF BuiltInExcluded
<1>10. QED
  BY <1>1, <1>2, <1>3, <1>4, <1>5, <1>8, <1>9 DEF c, Resolved

LEMMA GenuineBegins == Genuine(Begin(scenario.requests))
<1>1. \A d \in DOMAIN <<>> : FALSE
  OBVIOUS
<1>2. RulesTrue(<<>>, tree)
  BY <1>1 DEF RulesTrue
<1>3. QED
  BY <1>2 DEF Genuine, Begin

LEMMA GenuineNext ==
  ASSUME NEW w, IsWalk(w), Genuine(w), w.requests # <<>>
  PROVE  Genuine(NextRequest(w))
<1> DEFINE v == NextRequest(w)
<1>1. /\ IsWalk(v) /\ v.requests = Tail(w.requests) /\ v.requests \in Seq(Paths)
      /\ v.stage = w.stage /\ v.stack = w.stack /\ v.at = w.at /\ v.boundary = w.boundary
      /\ v.directories = w.directories /\ v.retained = w.retained /\ v.files = w.files
      /\ v.rules = w.rules /\ v.found = w.found /\ v.over = w.over
  BY NextRequestIs
<1> HIDE DEF v
<1>2. Range(v.requests) \subseteq Range(w.requests)
  <2>1. w.requests \in Seq(Paths)
    BY DEF IsWalk
  <2>2. \A k \in DOMAIN v.requests : k + 1 \in DOMAIN w.requests /\ v.requests[k] = w.requests[k + 1]
    BY <1>1, <2>1
  <2>3. QED
    BY <2>2 DEF Range
<1>3. Present(w) => Present(v)
  BY <1>1 DEF Present
<1>4. Genuine(v)
  BY <1>1, <1>2, <1>3 DEF Genuine
<1>5. QED
  BY <1>4 DEF v

\* Looking for more ignore files.
LEMMA GenuineLoaded ==
  ASSUME phase = "scan", NEW w, IsWalk(w), Genuine(w), w.stage \in {"request", "prepare"}, NEW d \in Paths
  PROVE  /\ Genuine(Loaded(w, d))
         /\ scenario.respectGitignore => RulesTrue(Loaded(w, d).rules, tree) /\ LookedFor(Loaded(w, d).rules, d)
<1> DEFINE v == Loaded(w, d)
<1>1. /\ IsWalk(v) /\ v.rules = WithRules(tree, w.rules, d, Options)
      /\ v.stage = w.stage /\ v.requests = w.requests /\ v.stack = w.stack /\ v.at = w.at
      /\ v.boundary = w.boundary /\ v.directories = w.directories /\ v.retained = w.retained
      /\ v.files = w.files /\ v.found = w.found /\ v.over = w.over
  BY LoadedIs
<1> HIDE DEF v
<1>2. Options = ScanOptions /\ ScanOptions.respectGitignore = scenario.respectGitignore
  BY DEF Options, ScanOptions
<1>3. scenario.respectGitignore => RulesTrue(v.rules, tree) /\ LookedFor(v.rules, d)
  <2>1. SUFFICES ASSUME scenario.respectGitignore PROVE RulesTrue(v.rules, tree) /\ LookedFor(v.rules, d)
    OBVIOUS
  <2>2. RulesTrue(w.rules, tree) /\ Options.respectGitignore
    BY <1>2, <2>1 DEF Genuine
  <2>3. QED
    BY <1>1, <2>2, LooksFor
<1>4. Present(w) => Present(v)
  BY <1>1 DEF Present
<1>5. Genuine(v)
  BY <1>1, <1>3, <1>4 DEF Genuine
<1>6. QED
  BY <1>3, <1>5 DEF v

LEMMA GenuineSelect ==
  ASSUME NEW w, IsWalk(w), Genuine(w), NEW e \in Entries, e.code = "file" => e.path # <<>> /\ ~e.directory,
         e.path # <<>>, Eligible(tree, e.path, scenario.requests, ScanOptions)
  PROVE  Genuine(Select(w, e)) /\ IsWalk(Select(w, e))
<1> DEFINE v == Select(w, e)
<1>1. /\ v.stage = w.stage /\ v.requests = w.requests /\ v.stack = w.stack /\ v.at = w.at
      /\ v.directories = w.directories /\ v.retained = w.retained /\ v.files = w.files /\ v.rules = w.rules
  BY SelectKeeps
<1>2. /\ IsWalk(v)
      /\ v.found = w.found \/ v.found = w.found \union {Issue(e.path, "PYA1006")} \/ v.found = w.found \union {e}
  BY SelectIs
<1> HIDE DEF v
<1>3. Issue(e.path, "PYA1006").path = e.path
  BY DEF Issue
<1>4. \A x \in v.found : x \in w.found \/ x.path = e.path
  BY <1>2, <1>3
<1>5. Present(w) => Present(v)
  BY <1>1 DEF Present
<1>6. Genuine(v)
  BY <1>1, <1>4, <1>5 DEF Genuine
<1>7. QED
  BY <1>2, <1>6 DEF v

\* A step that may end the discovery keeps what it found eligible.
Stays == phase' = "scan" => Genuine(walk')

LEMMA StopGenuine ==
  ASSUME NEW f, Incomplete \/ Invalid \/ Refuse(f)
  PROVE  Stays
BY StopIs DEF Stays

LEMMA ThroughLinkGenuine ==
  ASSUME TreeInv, WalkInv, phase = "scan", Genuine(walk), RequestThroughLink
  PROVE  Stays
<1> DEFINE alias == SubSeq(Requested, 1, Min(LinkedPrefixes(tree, Requested)))
           ready == Loaded(walk, Above(alias))
           hidden == BuiltInExcluded(alias, TRUE) /\ ~Options.allowBuiltInRoots
           skipped == hidden \/ SymlinkExcluded(ready.rules, alias, Options)
           chosen == Select(ready, DirectorySymlink(alias))
<1>1. /\ IsTree(tree) /\ IsWalk(walk) /\ walk.requests # <<>> /\ Requested \in Paths /\ walk.stage = "request"
      /\ LinkedPrefixes(tree, Requested) # {} /\ Resolved(tree, Requested) # None
  BY RequestedIs DEF TreeInv, WalkInv, RequestThroughLink, RequestInside, AtRequest
<1>2. \/ Refuse(Fails(Above(alias)))
      \/ Proceed(NextRequest(IF hidden THEN walk ELSE ready))
      \/ ~skipped /\ Proceed(NextRequest(chosen))
  BY DEF RequestThroughLink
<1>3. /\ alias \in Paths /\ alias # <<>> /\ At(tree, alias) # None /\ IsLink(tree, alias) /\ IsDirectory(tree, alias)
      /\ IsPrefix(alias, Requested)
  BY <1>1, AliasThere
<1>4. Requested \in Range(scenario.requests)
  <2>1. 1 \in DOMAIN walk.requests /\ walk.requests[1] = Requested
    BY <1>1, RequestedIs DEF IsWalk
  <2>2. QED
    BY <2>1 DEF Genuine, Range
<1> HIDE DEF alias
<1>5. Above(alias) \in Paths
  BY <1>3, PrefixIs
<1>6. /\ IsWalk(ready) /\ Genuine(ready) /\ ready.requests = walk.requests
      /\ scenario.respectGitignore => RulesTrue(ready.rules, tree) /\ LookedFor(ready.rules, Above(alias))
  BY <1>1, <1>5, GenuineLoaded, LoadedIs
<1>7. Options = ScanOptions /\ ~ScanOptions.allowBuiltInRoots
  BY DEF Options, ScanOptions
<1> HIDE DEF ready
<1>8. ASSUME ~skipped PROVE Genuine(NextRequest(chosen))
  <2>1. Eligible(tree, alias, scenario.requests, ScanOptions)
    BY <1>1, <1>3, <1>4, <1>6, <1>7, <1>8, LinkEligible
  <2>2. DirectorySymlink(alias) \in Entries /\ DirectorySymlink(alias).path = alias /\ DirectorySymlink(alias).code # "file"
    BY <1>1, <1>3, EntryIs
  <2>3. Genuine(chosen) /\ IsWalk(chosen)
    BY <1>3, <1>6, <2>1, <2>2, GenuineSelect
  <2>4. chosen.requests = walk.requests
    BY <1>6, SelectKeeps
  <2> HIDE DEF chosen
  <2>5. QED
    BY <1>1, <2>3, <2>4, GenuineNext
<1>9. CASE Proceed(NextRequest(IF hidden THEN walk ELSE ready))
  <2>1. Genuine(NextRequest(walk)) /\ Genuine(NextRequest(ready))
    BY <1>1, <1>6, GenuineNext
  <2>2. QED
    BY <1>9, <2>1 DEF Proceed, Stays
<1>10. CASE ~skipped /\ Proceed(NextRequest(chosen))
  BY <1>8, <1>10 DEF Proceed, Stays
<1>11. QED
  BY <1>2, <1>9, <1>10, StopGenuine

LEMMA DirectoryGenuine ==
  ASSUME TreeInv, WalkInv, phase = "scan", Genuine(walk), RequestDirectory
  PROVE  Stays
<1> DEFINE ready == IF Requested = <<>> THEN walk ELSE Loaded(walk, Above(Requested))
           next == NextRequest(ready)
           boundary == IF Options.allowBuiltInRoots THEN Requested ELSE <<>>
           descending == [next EXCEPT !.stage = "list", !.stack = {Requested}, !.boundary = boundary]
<1>1. /\ IsTree(tree) /\ IsWalk(walk) /\ walk.requests # <<>> /\ Requested \in Paths /\ walk.stage = "request"
      /\ LinkedPrefixes(tree, Requested) = {} /\ Resolved(tree, Requested) # None /\ IsDirectory(tree, Requested)
      /\ ~RequestHidden
  BY RequestedIs DEF TreeInv, WalkInv, RequestDirectory, RequestInside, AtRequest
<1>2. Refuse(Fails(Above(Requested))) \/ Proceed(next) \/ Proceed(descending)
  BY DEF RequestDirectory
<1>3. IsWalk(ready) /\ Genuine(ready) /\ ready.requests = walk.requests
  <2>1. CASE Requested = <<>>
    BY <1>1, <2>1
  <2>2. CASE Requested # <<>>
    <3>1. Above(Requested) \in Paths
      BY <1>1, <2>2, PrefixIs
    <3>2. QED
      BY <1>1, <2>2, <3>1, GenuineLoaded, LoadedIs
  <2>3. QED
    BY <2>1, <2>2
<1>4. Entered(Requested)
  <2>1. At(tree, Requested) # None /\ ~IsLink(tree, Requested)
    BY <1>1, StraightIs
  <2>2. ~BuiltInExcluded(Requested, TRUE)
    <3>1. ~Options.allowBuiltInRoots
      BY DEF Options, ScanOptions
    <3>2. IsDirectory(tree, Requested) = TRUE
      BY <1>1 DEF IsDirectory
    <3>3. QED
      BY <1>1, <3>1, <3>2 DEF RequestHidden
  <2>3. 1 \in DOMAIN walk.requests /\ walk.requests[1] = Requested
    BY <1>1, RequestedIs DEF IsWalk
  <2>4. Requested \in Range(scenario.requests)
    BY <2>3 DEF Genuine, Range
  <2>5. IsPrefix(Requested, Requested)
    <3>1. Len(Requested) \in 0..Len(Requested) /\ Up(Requested, Len(Requested)) = Requested
      BY <1>1, UpOfUp DEF Paths
    <3>2. QED
      BY <1>1, <3>1, PrefixIs
  <2>6. QED
    BY <1>1, <2>1, <2>2, <2>4, <2>5 DEF Entered
<1> HIDE DEF ready
<1>5. Genuine(next) /\ IsWalk(next)
  BY <1>1, <1>3, GenuineNext, NextRequestIs
<1> HIDE DEF next
<1>6. Genuine(descending)
  <2>1. /\ descending.stage = "list" /\ descending.stack = {Requested} /\ descending.requests = next.requests
        /\ descending.found = next.found /\ descending.rules = next.rules
    BY <1>5 DEF IsWalk
  <2> HIDE DEF descending
  <2>2. QED
    BY <1>4, <1>5, <2>1 DEF Genuine
<1>7. QED
  BY <1>2, <1>5, <1>6, StopGenuine DEF Proceed, Stays

LEMMA FileGenuine ==
  ASSUME TreeInv, WalkInv, phase = "scan", Genuine(walk), RequestFile
  PROVE  Stays
<1> DEFINE ready == Loaded(walk, Above(Requested))
           entry == SourceEntry(tree, Requested)
           chosen == Select(ready, entry)
           wanted == FileSelected(ready.rules, Requested, Options) /\ Last(Requested) \in Sources
<1>1. /\ IsTree(tree) /\ IsWalk(walk) /\ walk.requests # <<>> /\ Requested \in Paths /\ walk.stage = "request"
      /\ LinkedPrefixes(tree, Requested) = {} /\ Resolved(tree, Requested) # None /\ ~IsDirectory(tree, Requested)
      /\ ~RequestHidden /\ Requested # <<>>
  BY RequestedIs, FileWalk DEF TreeInv, WalkInv, RequestFile, RequestInside, AtRequest
<1>2. \/ Refuse(Fails(Above(Requested))) \/ Invalid
      \/ Proceed(NextRequest(ready))
      \/ wanted /\ Proceed(NextRequest(chosen))
  BY DEF RequestFile
<1>3. Above(Requested) \in Paths
  BY <1>1, PrefixIs
<1>4. /\ IsWalk(ready) /\ Genuine(ready) /\ ready.requests = walk.requests
      /\ scenario.respectGitignore => RulesTrue(ready.rules, tree) /\ LookedFor(ready.rules, Above(Requested))
  BY <1>1, <1>3, GenuineLoaded, LoadedIs
<1>5. Options = ScanOptions
  BY DEF Options
<1>6. Requested \in Range(scenario.requests)
  <2>1. 1 \in DOMAIN walk.requests /\ walk.requests[1] = Requested
    BY <1>1, RequestedIs DEF IsWalk
  <2>2. QED
    BY <2>1 DEF Genuine, Range
<1>7. IsPrefix(Requested, Requested)
  <2>1. Len(Requested) \in 0..Len(Requested) /\ Up(Requested, Len(Requested)) = Requested
    BY <1>1, UpOfUp DEF Paths
  <2>2. QED
    BY <1>1, <2>1, PrefixIs
<1>8. ~BuiltInExcluded(Requested, FALSE)
  <2>1. IsDirectory(tree, Requested) = FALSE
    BY <1>1 DEF IsDirectory
  <2>2. QED
    BY <1>1, <2>1 DEF RequestHidden
<1>9. At(tree, Requested) # None
  BY <1>1, StraightIs
<1> HIDE DEF ready
<1>10. entry \in Entries /\ entry.path = Requested /\ ~entry.directory
  BY <1>1, EntryIs
<1> HIDE DEF entry
<1>11. ASSUME wanted PROVE Genuine(NextRequest(chosen))
  <2>1. Eligible(tree, Requested, scenario.requests, ScanOptions)
    BY <1>1, <1>4, <1>5, <1>6, <1>7, <1>8, <1>9, <1>11, FileEligible
  <2>2. Genuine(chosen) /\ IsWalk(chosen)
    BY <1>1, <1>4, <1>10, <2>1, GenuineSelect
  <2>3. chosen.requests = walk.requests
    BY <1>4, SelectKeeps
  <2> HIDE DEF chosen
  <2>4. QED
    BY <1>1, <2>2, <2>3, GenuineNext
<1>12. Genuine(NextRequest(ready))
  BY <1>1, <1>4, GenuineNext
<1>13. QED
  BY <1>2, <1>11, <1>12, StopGenuine DEF Proceed, Stays

LEMMA GenuineEnd ==
  ASSUME NEW w, IsWalk(w), Genuine(w)
  PROVE  Genuine(EndWalk(w)) /\ Genuine(WalkOn(w))
<1> DEFINE v == EndWalk(w)
<1>1. v.stage = "request" /\ v.stack = {} /\ v.requests = w.requests /\ v.found = w.found /\ v.rules = w.rules
  BY EndWalkIs
<1> HIDE DEF v
<1>2. Genuine(v)
  BY <1>1 DEF Genuine
<1>3. QED
  BY <1>2 DEF v, WalkOn

\* A directory is itself where it was entered.
LEMMA EnteredIs ==
  ASSUME IsTree(tree), NEW d, Entered(d)
  PROVE  /\ d \in Paths /\ Resolved(tree, d) = At(tree, d) /\ At(tree, d) \in DOMAIN tree
         /\ Inode(tree, At(tree, d)) = tree[At(tree, d)]
<1>1. d \in Paths /\ At(tree, d) # None /\ ~IsLink(tree, d) /\ Len(d) \in Nat
  BY DEF Entered, Paths
<1>2. Len(d) \in 0..Len(d) /\ Up(d, Len(d)) = d
  BY <1>1, UpOfUp
<1>3. Lstat(tree, d) = At(tree, d)
  <2>1. Lstat(tree, Up(d, Len(d))) = At(tree, Up(d, Len(d)))
    BY <1>1, <1>2, FoundThere
  <2>2. QED
    BY <1>2, <2>1
<1>4. At(tree, d) \in Inodes(tree) /\ Inode(tree, At(tree, d)).kind # "link"
  BY <1>1, <1>3, AtInside DEF IsLink
<1>5. QED
  BY <1>1, <1>3, <1>4, TargetInside, InodeIs DEF Resolved

LEMMA ListGenuine ==
  ASSUME TreeInv, WalkInv, phase = "scan", Genuine(walk), ListDirectory
  PROVE  Stays
<1>1. IsTree(tree) /\ IsWalk(walk)
  BY DEF TreeInv, WalkInv
<1>2. PICK d \in FirstPath(walk.stack) :
        LET listed == Inode(tree, Resolved(tree, d))
            inside(n) == Inode(tree, Target(tree, listed.at[n])).kind = "dir"
        IN IF listed.kind # "dir" THEN Incomplete
           ELSE Proceed([walk EXCEPT !.stage = "prepare", !.stack = @ \ {d}, !.at = d, !.retained = {},
                             !.directories = {n \in DOMAIN listed.at : inside(n)},
                             !.files = {n \in DOMAIN listed.at : ~inside(n)}])
  BY DEF ListDirectory
<1> DEFINE listed == Inode(tree, Resolved(tree, d))
           inside(n) == Inode(tree, Target(tree, listed.at[n])).kind = "dir"
           directories == {n \in DOMAIN listed.at : inside(n)}
           files == {n \in DOMAIN listed.at : ~inside(n)}
           v == [walk EXCEPT !.stage = "prepare", !.stack = @ \ {d}, !.at = d, !.retained = {},
                     !.directories = directories, !.files = files]
<1>3. d \in walk.stack /\ Entered(d)
  BY DEF FirstPath, Genuine
<1>4. CASE listed.kind # "dir"
  BY <1>2, <1>4, StopGenuine
<1>5. CASE listed.kind = "dir"
  <2>1. Proceed(v)
    BY <1>2, <1>5
  <2>2. /\ d \in Paths /\ At(tree, d) \in DOMAIN tree /\ listed = tree[At(tree, d)]
    BY <1>1, <1>3, EnteredIs
  <2>3. ASSUME NEW n \in DOMAIN listed.at
        PROVE  /\ At(tree, Append(d, n)) # None
               /\ IsDirectory(tree, Append(d, n)) <=> inside(n)
    <3>1. n \in Names /\ listed.at[n] \in DOMAIN tree /\ listed.at[n] # None
      BY <1>1, <1>5, <2>2, <2>3 DEF IsTree, Names
    <3>2. Child(tree, At(tree, d), n) = listed.at[n]
      <4>1. Inode(tree, At(tree, d)) = tree[At(tree, d)]
        BY <1>1, <1>3, EnteredIs
      <4>2. QED
        BY <1>5, <2>2, <2>3, <4>1 DEF Child
    <3>3. At(tree, Append(d, n)) = listed.at[n]
      BY <1>1, <2>2, <3>1, <3>2, AtInside
    <3>4. Resolved(tree, Append(d, n)) = Target(tree, listed.at[n])
      BY <1>1, <1>3, <3>1, <3>3, ListingIs
    <3>5. QED
      BY <3>1, <3>3, <3>4 DEF IsDirectory
  <2> HIDE DEF listed, inside
  <2>4. /\ v.stage = "prepare" /\ v.stack = walk.stack \ {d} /\ v.at = d /\ v.retained = {}
        /\ v.directories = directories /\ v.files = files
        /\ v.requests = walk.requests /\ v.found = walk.found /\ v.rules = walk.rules
    BY <1>1 DEF IsWalk
  <2> HIDE DEF v
  <2>5. Present(v)
    BY <1>3, <2>3, <2>4 DEF Present
  <2>6. Genuine(v)
    BY <2>4, <2>5 DEF Genuine
  <2>7. QED
    BY <2>1, <2>6 DEF Proceed, Stays
<1>6. QED
  BY <1>4, <1>5

LEMMA PrepareGenuine ==
  ASSUME TreeInv, WalkInv, phase = "scan", Genuine(walk), PrepareDirectory
  PROVE  Stays
<1> DEFINE ready == Loaded(walk, walk.at)
           v == [ready EXCEPT !.stage = "directories"]
<1>1. IsTree(tree) /\ IsWalk(walk) /\ walk.stage = "prepare" /\ walk.at \in Paths
  BY DEF TreeInv, WalkInv, PrepareDirectory, IsWalk
<1>2. Refuse(Fails(walk.at)) \/ Proceed(v)
  BY DEF PrepareDirectory
<1>3. /\ IsWalk(ready) /\ Genuine(ready) /\ ready.stage = "prepare" /\ ready.at = walk.at
      /\ scenario.respectGitignore => RulesTrue(ready.rules, tree) /\ LookedFor(ready.rules, walk.at)
  BY <1>1, GenuineLoaded, LoadedIs
<1> HIDE DEF ready
<1>4. /\ v.stage = "directories" /\ v.requests = ready.requests /\ v.stack = ready.stack /\ v.at = ready.at
      /\ v.directories = ready.directories /\ v.retained = ready.retained /\ v.files = ready.files
      /\ v.rules = ready.rules /\ v.found = ready.found
  BY <1>3 DEF IsWalk
<1> HIDE DEF v
<1>5. Present(ready)
  BY <1>3 DEF Genuine
<1>6. Present(v)
  BY <1>4, <1>5 DEF Present
<1>7. Genuine(v)
  BY <1>3, <1>4, <1>6 DEF Genuine
<1>8. QED
  BY <1>2, <1>7, StopGenuine DEF Proceed, Stays

LEMMA SubdirectoryGenuine ==
  ASSUME TreeInv, WalkInv, phase = "scan", Genuine(walk), VisitSubdirectory
  PROVE  Stays
<1>1. IsTree(tree) /\ IsWalk(walk) /\ walk.stage = "directories" /\ walk.at \in Paths
  BY DEF TreeInv, WalkInv, VisitSubdirectory, IsWalk
<1>2. PICK name \in FirstName(walk.directories) :
        LET child == Append(walk.at, name)
            rest == [walk EXCEPT !.directories = @ \ {name}]
        IN Proceed(IF name \in BuiltIn THEN rest
                   ELSE IF IsLink(tree, child)
                   THEN IF SymlinkExcluded(walk.rules, child, Options) THEN rest
                        ELSE WalkOn(Select(rest, DirectorySymlink(child)))
                   ELSE IF DirectoryExcluded(walk.rules, child, Options) THEN rest
                   ELSE [rest EXCEPT !.retained = @ \union {name}])
  BY DEF VisitSubdirectory
<1> DEFINE child == Append(walk.at, name)
           rest == [walk EXCEPT !.directories = @ \ {name}]
           kept == [rest EXCEPT !.retained = @ \union {name}]
           entry == DirectorySymlink(child)
           linked == name \notin BuiltIn /\ IsLink(tree, child) /\ ~SymlinkExcluded(walk.rules, child, Options)
<1>3. name \in walk.directories /\ name \in Names
  BY <1>1 DEF FirstName, IsWalk
<1>4. \/ Proceed(rest)
      \/ linked /\ Proceed(WalkOn(Select(rest, entry)))
      \/ name \notin BuiltIn /\ Proceed(kept)
  BY <1>2
<1>5. /\ IsWalk(rest) /\ rest.stage = "directories" /\ rest.requests = walk.requests /\ rest.stack = walk.stack
      /\ rest.at = walk.at /\ rest.found = walk.found
      /\ rest.rules = walk.rules /\ rest.directories = walk.directories \ {name} /\ rest.retained = walk.retained
      /\ rest.files = walk.files
  BY <1>1 DEF IsWalk
<1>6. Present(walk) /\ Entered(walk.at) /\ (scenario.respectGitignore => RulesTrue(walk.rules, tree) /\ LookedFor(walk.rules, walk.at))
  BY <1>1 DEF Genuine, Present
<1>7. At(tree, child) # None /\ IsDirectory(tree, child)
  BY <1>3, <1>6 DEF Present
<1>8. /\ child \in Paths /\ child # <<>> /\ Above(child) = walk.at
      /\ \E r \in Range(scenario.requests) : IsPrefix(r, child)
      /\ name \notin BuiltIn => ~BuiltInExcluded(child, TRUE)
  BY <1>1, <1>3, <1>6, <1>7, ListingIs
<1> HIDE DEF rest, child
<1>9. Genuine(rest)
  <2>1. Present(rest)
    BY <1>5, <1>6 DEF Present
  <2>2. QED
    BY <1>1, <1>5, <2>1 DEF Genuine
<1>10. ASSUME linked PROVE Genuine(WalkOn(Select(rest, entry)))
  <2>1. PICK r \in Range(scenario.requests) : IsPrefix(r, child)
    BY <1>8
  <2>2. Options = ScanOptions
    BY DEF Options
  <2>3. Eligible(tree, child, scenario.requests, ScanOptions)
    BY <1>1, <1>6, <1>7, <1>8, <1>10, <2>1, <2>2, LinkEligible
  <2>4. entry \in Entries /\ entry.path = child /\ entry.code # "file"
    BY <1>1, <1>8, EntryIs
  <2> HIDE DEF entry
  <2>5. Genuine(Select(rest, entry)) /\ IsWalk(Select(rest, entry))
    BY <1>5, <1>8, <1>9, <2>3, <2>4, GenuineSelect
  <2>6. QED
    BY <2>5, GenuineEnd
<1>11. ASSUME name \notin BuiltIn PROVE Genuine(kept)
  <2>1. /\ kept.stage = "directories" /\ kept.requests = walk.requests /\ kept.stack = walk.stack
        /\ kept.at = walk.at /\ kept.found = walk.found /\ kept.rules = walk.rules
        /\ kept.directories = rest.directories /\ kept.retained = walk.retained \union {name}
        /\ kept.files = walk.files
    BY <1>3, <1>5 DEF IsWalk
  <2> HIDE DEF kept
  <2>2. Present(kept)
    BY <1>5, <1>6, <1>7, <1>11, <2>1 DEF Present, child
  <2>3. QED
    BY <1>1, <2>1, <2>2 DEF Genuine
<1>12. QED
  BY <1>4, <1>9, <1>10, <1>11 DEF Proceed, Stays

LEMMA SourceGenuine ==
  ASSUME TreeInv, WalkInv, phase = "scan", walk.boundary = <<>>, Genuine(walk), VisitSource
  PROVE  Stays
<1>1. IsTree(tree) /\ IsWalk(walk) /\ walk.stage = "files" /\ walk.at \in Paths
  BY DEF TreeInv, WalkInv, VisitSource, AtFile, IsWalk
<1>2. PICK name \in walk.files :
        Wanted(Visited(name)) /\ Proceed(WalkOn(Select(Beside(name), SourceEntry(tree, Visited(name)))))
  BY DEF VisitSource
<1> DEFINE child == Append(walk.at, name)
           rest == Beside(name)
           entry == SourceEntry(tree, child)
<1>3. Visited(name) = child /\ name \in Names
  BY <1>1 DEF Visited, IsWalk
<1>4. Present(walk) /\ Entered(walk.at) /\ (scenario.respectGitignore => RulesTrue(walk.rules, tree) /\ LookedFor(walk.rules, walk.at))
  BY <1>1 DEF Genuine, Present
<1>5. At(tree, child) # None /\ ~IsDirectory(tree, child)
  BY <1>4 DEF Present
<1>6. /\ child \in Paths /\ child # <<>> /\ Above(child) = walk.at /\ ~BuiltInExcluded(child, FALSE)
      /\ \E r \in Range(scenario.requests) : IsPrefix(r, child)
  BY <1>1, <1>3, <1>4, <1>5, ListingIs
<1>7. /\ IsWalk(rest) /\ rest.stage = "files" /\ rest.requests = walk.requests /\ rest.stack = walk.stack
      /\ rest.at = walk.at /\ rest.boundary = walk.boundary /\ rest.found = walk.found
      /\ rest.rules = walk.rules /\ rest.retained = walk.retained /\ rest.files = walk.files \ {name}
      /\ rest.directories = walk.directories
  <2>1. rest.directories = walk.directories
    BY <1>1 DEF Beside, IsWalk
  <2>2. QED
    BY <1>1, <2>1, BesideIs
<1> HIDE DEF rest, child
<1>8. Genuine(rest)
  <2>1. Present(rest)
    BY <1>4, <1>7 DEF Present
  <2>2. QED
    BY <1>1, <1>7, <2>1 DEF Genuine
<1>9. Eligible(tree, child, scenario.requests, ScanOptions)
  <2>1. Options = ScanOptions
    BY DEF Options
  <2>2. Last(child) \in Sources /\ FileSelected(walk.rules, child, ScanOptions)
    BY <1>2, <1>3, <2>1 DEF Wanted
  <2>3. PICK r \in Range(scenario.requests) : IsPrefix(r, child)
    BY <1>6
  <2>4. QED
    BY <1>1, <1>4, <1>5, <1>6, <2>2, <2>3, FileEligible
<1>10. entry \in Entries /\ entry.path = child /\ ~entry.directory
  BY <1>1, <1>6, EntryIs
<1> HIDE DEF entry
<1>11. Genuine(Select(rest, entry)) /\ IsWalk(Select(rest, entry))
  BY <1>6, <1>7, <1>8, <1>9, <1>10, GenuineSelect
<1>12. Genuine(WalkOn(Select(rest, entry)))
  BY <1>11, GenuineEnd
<1>13. QED
  BY <1>2, <1>3, <1>12 DEF Proceed, Stays, rest, entry

LEMMA LeaveGenuine ==
  ASSUME TreeInv, WalkInv, phase = "scan", Genuine(walk), LeaveDirectory
  PROVE  Stays
<1> DEFINE deeper == {Append(walk.at, n) : n \in {m \in walk.retained : ~IsLink(tree, Append(walk.at, m))}}
           stack == walk.stack \union deeper
           v == [walk EXCEPT !.stage = "list", !.stack = stack]
<1>1. IsTree(tree) /\ IsWalk(walk) /\ walk.stage = "files" /\ walk.at \in Paths
  BY DEF TreeInv, WalkInv, LeaveDirectory, IsWalk
<1>2. Proceed(EndWalk(walk)) \/ Proceed(v)
  BY DEF LeaveDirectory
<1>3. Present(walk) /\ Entered(walk.at)
  BY <1>1 DEF Genuine, Present
<1>4. ASSUME NEW n \in walk.retained, ~IsLink(tree, Append(walk.at, n)) PROVE Entered(Append(walk.at, n))
  <2>1. n \in Names /\ n \notin BuiltIn /\ At(tree, Append(walk.at, n)) # None
    BY <1>1, <1>3 DEF Present, IsWalk
  <2>2. /\ Append(walk.at, n) \in Paths /\ ~BuiltInExcluded(Append(walk.at, n), TRUE)
        /\ \E r \in Range(scenario.requests) : IsPrefix(r, Append(walk.at, n))
    BY <1>1, <1>3, <2>1, ListingIs
  <2>3. QED
    BY <1>4, <2>1, <2>2 DEF Entered
<1>5. Genuine(v)
  <2>1. \A d \in stack : Entered(d)
    BY <1>4 DEF Genuine
  <2> HIDE DEF stack
  <2>2. /\ v.stage = "list" /\ v.stack = stack /\ v.requests = walk.requests /\ v.found = walk.found
        /\ v.rules = walk.rules
    BY <1>1 DEF IsWalk
  <2> HIDE DEF v
  <2>3. QED
    BY <2>1, <2>2 DEF Genuine
<1>6. Genuine(EndWalk(walk))
  BY <1>1, GenuineEnd
<1>7. QED
  BY <1>2, <1>5, <1>6 DEF Proceed, Stays

\* Before the first edit the tree and the steady paths are those of the start.
UneditedInv ==
  /\ edits \in Nat /\ edits <= scenario.edits
  /\ Unedited => /\ tree = scenario.tree
                 /\ steady.scan = EligiblePaths(tree, scenario.requests, ScanOptions)

LEMMA UneditedStarts ==
  ASSUME Init
  PROVE  UneditedInv
<1>1. scenario \in Scenarios /\ scenario.edits \in Nat
  BY ScenariosAssumption DEF Init
<1>2. /\ edits = scenario.edits /\ tree = scenario.tree
      /\ steady.scan = EligiblePaths(scenario.tree, scenario.requests, ScanOptions)
  BY DEF Init
<1>3. QED
  BY <1>1, <1>2 DEF UneditedInv

\* Only edits touch the tree.
LEMMA TreeFrame ==
  ASSUME [Next]_vars
  PROVE  UNCHANGED <<scenario, tree, edits, steady>> \/ Edit
<1>1. CASE RequestStep \/ WalkStep \/ ReportStep
  BY <1>1, WalkFrame
<1>2. CASE ReadStep
  BY <1>2 DEF ReadStep, BeginRead, StatEntry, OpenEntry, ReadChunk, ValidateChain, ValidateLeaf, ReadUnchanged
<1>3. CASE UNCHANGED vars
  BY <1>3 DEF vars
<1>4. QED
  BY <1>1, <1>2, <1>3 DEF Next, ScanStep

LEMMA EditedNow ==
  ASSUME TreeInv, UneditedInv, Edit
  PROVE  edits' \in Nat /\ edits' < scenario.edits /\ scenario' = scenario /\ ~Unedited'
<1>1. EditTo(tree') /\ edits > 0
  BY EditFrame
<1>2. edits' = edits - 1 /\ scenario' = scenario
  BY <1>1 DEF EditTo
<1>3. edits \in Nat /\ edits <= scenario.edits /\ scenario.edits \in Nat
  BY ScenariosAssumption DEF UneditedInv, TreeInv
<1>4. edits' \in Nat /\ edits' < scenario.edits
  BY <1>1, <1>2, <1>3
<1>5. ~Unedited'
  BY <1>2, <1>3, <1>4 DEF Unedited
<1>6. QED
  BY <1>2, <1>4, <1>5

LEMMA UneditedKept ==
  ASSUME TreeInv, UneditedInv, [Next]_vars
  PROVE  UneditedInv'
<1>1. CASE UNCHANGED <<scenario, tree, edits, steady>>
  <2>1. ScanOptions' = ScanOptions
    BY <1>1 DEF ScanOptions
  <2>2. QED
    BY <1>1, <2>1 DEF UneditedInv, Unedited
<1>2. CASE Edit
  <2>1. edits' \in Nat /\ edits' < scenario.edits /\ scenario' = scenario /\ ~Unedited' /\ scenario.edits \in Nat
    BY <1>2, EditedNow, ScenariosAssumption DEF TreeInv
  <2>2. QED
    BY <2>1 DEF UneditedInv
<1>3. QED
  BY <1>1, <1>2, TreeFrame

\* On a tree nobody edited yet, the discovery finds eligible entries only.
SoundInv == Unedited /\ phase = "scan" => Genuine(walk)

LEMMA SoundGoesOn ==
  ASSUME UNCHANGED <<scenario, tree, edits>>, Unedited /\ phase' = "scan" => Genuine(walk')
  PROVE  SoundInv'
<1>1. ScanOptions' = ScanOptions /\ (Unedited' <=> Unedited)
  BY DEF ScanOptions, Unedited
<1>2. QED
  BY <1>1 DEF SoundInv, Genuine, Present, Entered

LEMMA PhaseStays ==
  ASSUME RequestStep \/ (WalkStep /\ ~ModulesFound)
  PROVE  phase' = phase \/ phase' \in {"read", "done"}
<1>1. CASE RequestStep
  BY <1>1, StopIs DEF RequestStep, RequestOutside, RequestThroughLink, RequestBuiltIn, RequestDirectory, RequestFile, Proceed
<1>2. CASE ListDirectory \/ PrepareDirectory \/ VisitSubdirectory \/ SubdirectoriesVisited
  BY <1>2, StopIs DEF ListDirectory, PrepareDirectory, VisitSubdirectory, SubdirectoriesVisited, Proceed
<1>3. CASE SkipFile \/ SourceDisappears \/ VisitSource \/ LeaveDirectory
  BY <1>3, StopIs DEF SkipFile, SourceDisappears, VisitSource, LeaveDirectory, Proceed
<1>4. CASE SourcesFound \/ BoundExceeded \/ DynamicFound
  BY <1>4 DEF SourcesFound, BoundExceeded, DynamicFound, Conclude, Return
<1>5. QED
  BY <1>1, <1>2, <1>3, <1>4 DEF WalkStep

LEMMA StepGenuine ==
  ASSUME TreeInv, WalkInv, CoverInv, phase = "scan", Genuine(walk), RequestStep \/ WalkStep
  PROVE  Stays
<1>1. IsWalk(walk) /\ walk.boundary = <<>>
  BY DEF WalkInv, CoverInv, Steered
<1>2. CASE RequestOutside
  BY <1>2, StopGenuine DEF RequestOutside
<1>3. CASE RequestBuiltIn
  <2>1. walk.requests # <<>> /\ Proceed(NextRequest(walk))
    BY <1>3 DEF RequestBuiltIn, RequestInside, AtRequest
  <2>2. QED
    BY <1>1, <2>1, GenuineNext DEF Proceed, Stays
<1>4. CASE SubdirectoriesVisited
  <2> DEFINE v == [walk EXCEPT !.stage = "files"]
  <2>1. walk.stage = "directories" /\ Proceed(v)
    BY <1>4 DEF SubdirectoriesVisited
  <2>2. /\ v.stage = "files" /\ v.requests = walk.requests /\ v.stack = walk.stack /\ v.at = walk.at
        /\ v.directories = walk.directories /\ v.retained = walk.retained /\ v.files = walk.files
        /\ v.rules = walk.rules /\ v.found = walk.found
    BY <1>1 DEF IsWalk
  <2> HIDE DEF v
  <2>3. Present(walk)
    BY <2>1 DEF Genuine
  <2>4. Present(v)
    BY <2>2, <2>3 DEF Present
  <2>5. Genuine(v)
    BY <2>1, <2>2, <2>4 DEF Genuine
  <2>6. QED
    BY <2>1, <2>5 DEF Proceed, Stays
<1>5. CASE SkipFile
  <2>1. PICK name \in walk.files : Proceed(Beside(name))
    BY <1>5 DEF SkipFile
  <2> DEFINE v == Beside(name)
  <2>2. walk.stage = "files"
    BY <1>5 DEF SkipFile, AtFile
  <2>3. /\ v.stage = "files" /\ v.requests = walk.requests /\ v.stack = walk.stack /\ v.at = walk.at
        /\ v.directories = walk.directories /\ v.retained = walk.retained /\ v.files = walk.files \ {name}
        /\ v.rules = walk.rules /\ v.found = walk.found
    BY <1>1, <2>2 DEF Beside, IsWalk
  <2> HIDE DEF v
  <2>4. Present(walk)
    BY <2>2 DEF Genuine
  <2>5. Present(v)
    BY <2>3, <2>4 DEF Present
  <2>6. Genuine(v)
    BY <2>2, <2>3, <2>5 DEF Genuine
  <2>7. QED
    BY <2>1, <2>6 DEF Proceed, Stays, v
<1>6. CASE SourceDisappears
  <2>1. Incomplete
    BY <1>6 DEF SourceDisappears
  <2>2. QED
    BY <2>1, StopGenuine
<1>7. CASE ModulesFound
  BY <1>7 DEF ModulesFound
<1>8. CASE SourcesFound \/ BoundExceeded \/ DynamicFound
  BY <1>8 DEF SourcesFound, BoundExceeded, DynamicFound, Conclude, Return, Stays
<1>9. QED
  BY <1>1, <1>2, <1>3, <1>4, <1>5, <1>6, <1>7, <1>8, ThroughLinkGenuine, DirectoryGenuine, FileGenuine,
     ListGenuine, PrepareGenuine, SubdirectoryGenuine, SourceGenuine, LeaveGenuine DEF RequestStep, WalkStep

LEMMA SoundKept ==
  ASSUME TreeInv, WalkInv, CoverInv, UneditedInv, SoundInv, [Next]_vars
  PROVE  SoundInv'
<1>1. CASE Edit
  BY <1>1, EditedNow DEF SoundInv
<1>2. CASE UNCHANGED <<scenario, tree, edits, steady>>
  <2>1. CASE ModulesFound
    <3>1. walk' = Begin(scenario.requests)
      BY <2>1 DEF ModulesFound
    <3>2. QED
      BY <1>2, <3>1, GenuineBegins, SoundGoesOn
  <2>2. CASE RequestStep \/ (WalkStep /\ ~ModulesFound)
    <3>1. ASSUME Unedited, phase' = "scan" PROVE Genuine(walk')
      <4>1. phase = "scan"
        BY <2>2, <3>1, PhaseStays
      <4>2. Genuine(walk)
        BY <3>1, <4>1 DEF SoundInv
      <4>3. QED
        BY <2>2, <3>1, <4>1, <4>2, StepGenuine DEF Stays
    <3>2. QED
      BY <1>2, <3>1, SoundGoesOn
  <2>3. CASE ReportStep
    <3>1. phase' # "scan"
      BY <2>3 DEF ReportStep, ReportStatic, ReportInferred, SearchDynamic, Conclude, Return
    <3>2. QED
      BY <3>1 DEF SoundInv
  <2>4. CASE ReadStep \/ UNCHANGED vars
    <3>1. UNCHANGED <<phase, walk>>
      BY <2>4 DEF vars, ReadStep, BeginRead, StatEntry, OpenEntry, ReadChunk, ValidateChain, ValidateLeaf, ReadUnchanged
    <3>2. Unedited /\ phase' = "scan" => Genuine(walk')
      BY <3>1 DEF SoundInv
    <3>3. QED
      BY <1>2, <3>2, SoundGoesOn
  <2>5. CASE Edit
    BY <2>5, <1>1
  <2>6. QED
    BY <2>1, <2>2, <2>3, <2>4, <2>5 DEF Next, ScanStep
<1>3. QED
  BY <1>1, <1>2, TreeFrame

\* The bound is exceeded by entries of different paths.
Counted(w) ==
  /\ \A e, f \in w.found : e.path = f.path => e = f
  /\ w.over => Cardinality(w.found) > Limit
  /\ ~w.over => Cardinality(w.found) <= Limit /\ \A e \in w.found : e.code # "PYA1006"

CountInv ==
  /\ Counted(walk)
  /\ \A e \in discovered.modules : e.code = "PYA1006" => Cardinality(discovered.modules) > Limit

LEMMA CountBegins ==
  ASSUME NEW requests
  PROVE  Counted(Begin(requests))
<1>1. Cardinality({}) = 0
  BY FS_EmptySet
<1>2. QED
  BY <1>1, LimitAssumption DEF Counted, Begin

LEMMA CountSame ==
  ASSUME NEW w, Counted(w), NEW v, v.found = w.found, v.over = w.over
  PROVE  Counted(v)
BY DEF Counted

LEMMA CountSelect ==
  ASSUME NEW w, IsWalk(w), Counted(w), NEW e \in Entries, e.code = "file" => e.path # <<>> /\ ~e.directory,
         e.code # "PYA1006"
  PROVE  Counted(Select(w, e)) /\ IsWalk(Select(w, e))
<1> DEFINE v == Select(w, e)
           i == Issue(e.path, "PYA1006")
<1>1. /\ IsWalk(v)
      /\ \/ /\ v.over = w.over /\ v.found = w.found /\ \E x \in w.found : x.path = e.path
         \/ /\ v.over = TRUE /\ v.found = w.found \union {i}
            /\ Cardinality(w.found) >= Limit /\ \A x \in w.found : x.path # e.path
         \/ /\ v.over = w.over /\ v.found = w.found \union {e}
            /\ ~(Cardinality(w.found) >= Limit) /\ \A x \in w.found : x.path # e.path
  BY SelectIs
<1>2. IsFiniteSet(w.found) /\ Cardinality(w.found) \in Nat /\ Limit \in Nat \ {0} /\ w.over \in BOOLEAN
  BY LimitAssumption, FS_CardinalityType DEF IsWalk, Found
<1>3. i.path = e.path
  BY DEF Issue
<1> HIDE DEF v, i
<1>4. CASE v.over = w.over /\ v.found = w.found
  BY <1>4, CountSame, <1>1 DEF v
<1>5. CASE /\ v.over = TRUE /\ v.found = w.found \union {i}
           /\ Cardinality(w.found) >= Limit /\ \A x \in w.found : x.path # e.path
  <2>1. i \notin w.found
    BY <1>3, <1>5
  <2>2. Cardinality(v.found) = Cardinality(w.found) + 1
    <3>1. Cardinality(w.found \union {i}) = Cardinality(w.found) + 1
      BY ONLY <1>2, <2>1, FS_AddElement
    <3>2. v.found = w.found \union {i}
      BY <1>5
    <3>3. QED
      BY ONLY <3>1, <3>2
  <2>3. Counted(v)
    BY <1>2, <1>3, <1>5, <2>2 DEF Counted
  <2>4. QED
    BY <1>1, <2>3 DEF v
<1>6. CASE /\ v.over = w.over /\ v.found = w.found \union {e}
           /\ ~(Cardinality(w.found) >= Limit) /\ \A x \in w.found : x.path # e.path
  <2>1. e \notin w.found
    BY <1>6
  <2>2. Cardinality(v.found) = Cardinality(w.found) + 1
    <3>1. Cardinality(w.found \union {e}) = Cardinality(w.found) + 1
      BY ONLY <1>2, <2>1, FS_AddElement
    <3>2. v.found = w.found \union {e}
      BY <1>6
    <3>3. QED
      BY ONLY <3>1, <3>2
  <2>3. ~w.over
    BY <1>2, <1>6 DEF Counted
  <2>4. Counted(v)
    BY <1>2, <1>6, <2>2, <2>3 DEF Counted
  <2>5. QED
    BY <1>1, <2>4 DEF v
<1>7. QED
  BY <1>1, <1>4, <1>5, <1>6

LEMMA RequestCounts ==
  ASSUME TreeInv, WalkInv, Counted(walk), RequestStep
  PROVE  Counted(walk')
<1>1. IsTree(tree) /\ IsWalk(walk) /\ walk.requests # <<>> /\ Requested \in Paths
  BY RequestedIs DEF TreeInv, WalkInv, RequestStep, RequestOutside, RequestThroughLink, RequestBuiltIn, RequestDirectory,
     RequestFile, RequestInside, AtRequest
<1>2. ASSUME NEW w, IsWalk(w), Counted(w), w.requests # <<>> PROVE Counted(NextRequest(w))
  BY <1>2, NextRequestIs, CountSame
<1>3. ASSUME NEW d PROVE Counted(Loaded(walk, d)) /\ IsWalk(Loaded(walk, d)) /\ Loaded(walk, d).requests = walk.requests
  BY <1>1, LoadedIs, CountSame
<1>4. ASSUME NEW w, IsWalk(w), Counted(w), w.requests = walk.requests, NEW e \in Entries,
             e.code = "file" => e.path # <<>> /\ ~e.directory, e.code # "PYA1006"
      PROVE  Counted(NextRequest(Select(w, e)))
  <2>1. Counted(Select(w, e)) /\ IsWalk(Select(w, e)) /\ Select(w, e).requests = walk.requests
    BY <1>4, CountSelect, SelectKeeps
  <2>2. QED
    BY <1>1, <1>2, <2>1
<1>5. ASSUME NEW f, Incomplete \/ Invalid \/ Refuse(f) PROVE Counted(walk')
  <2>1. walk' = Idle
    BY <1>5, StopIs
  <2>2. QED
    BY <2>1, CountBegins DEF Idle
<1>6. CASE RequestOutside
  BY <1>5, <1>6 DEF RequestOutside
<1>7. CASE RequestBuiltIn
  BY <1>1, <1>2, <1>7 DEF RequestBuiltIn, Proceed
<1>8. CASE RequestThroughLink
  <2> DEFINE alias == SubSeq(Requested, 1, Min(LinkedPrefixes(tree, Requested)))
             ready == Loaded(walk, Above(alias))
             hidden == BuiltInExcluded(alias, TRUE) /\ ~Options.allowBuiltInRoots
  <2>1. \/ Refuse(Fails(Above(alias)))
        \/ Proceed(NextRequest(IF hidden THEN walk ELSE ready))
        \/ Proceed(NextRequest(Select(ready, DirectorySymlink(alias))))
    BY <1>8 DEF RequestThroughLink
  <2>2. alias \in Paths
    BY <1>1, <1>8, AliasIs DEF RequestThroughLink
  <2> HIDE DEF alias, hidden
  <2>3. DirectorySymlink(alias) \in Entries /\ DirectorySymlink(alias).code # "file" /\ DirectorySymlink(alias).code # "PYA1006"
    BY <1>1, <2>2, EntryIs
  <2>4. Counted(NextRequest(walk)) /\ Counted(NextRequest(ready)) /\ Counted(NextRequest(Select(ready, DirectorySymlink(alias))))
    BY <1>1, <1>2, <1>3, <1>4, <2>3
  <2> HIDE DEF ready
  <2>5. CASE Proceed(NextRequest(IF hidden THEN walk ELSE ready))
    BY <2>4, <2>5 DEF Proceed
  <2>6. QED
    BY <1>5, <2>1, <2>4, <2>5 DEF Proceed
<1>9. CASE RequestDirectory
  <2> DEFINE ready == IF Requested = <<>> THEN walk ELSE Loaded(walk, Above(Requested))
             next == NextRequest(ready)
             boundary == IF Options.allowBuiltInRoots THEN Requested ELSE <<>>
             descending == [next EXCEPT !.stage = "list", !.stack = {Requested}, !.boundary = boundary]
  <2>1. Refuse(Fails(Above(Requested))) \/ Proceed(next) \/ Proceed(descending)
    BY <1>9 DEF RequestDirectory
  <2>2. Counted(ready) /\ IsWalk(ready) /\ ready.requests = walk.requests
    BY <1>1, <1>3
  <2> HIDE DEF ready
  <2>3. Counted(next) /\ IsWalk(next)
    BY <1>1, <1>2, <2>2, NextRequestIs
  <2> HIDE DEF next
  <2>4. descending.found = next.found /\ descending.over = next.over
    BY <2>3 DEF IsWalk
  <2> HIDE DEF descending
  <2>5. Counted(descending)
    BY <2>3, <2>4, CountSame
  <2>6. QED
    BY <1>5, <2>1, <2>3, <2>5 DEF Proceed
<1>10. CASE RequestFile
  <2> DEFINE ready == Loaded(walk, Above(Requested))
             entry == SourceEntry(tree, Requested)
  <2>1. \/ Refuse(Fails(Above(Requested))) \/ Invalid
        \/ Proceed(NextRequest(ready))
        \/ Proceed(NextRequest(Select(ready, entry)))
    BY <1>10 DEF RequestFile
  <2>2. Requested # <<>>
    BY <1>10, FileWalk
  <2>3. entry \in Entries /\ entry.path = Requested /\ ~entry.directory /\ entry.code # "PYA1006"
    BY <1>1, EntryIs
  <2> HIDE DEF entry
  <2>4. Counted(NextRequest(ready)) /\ Counted(NextRequest(Select(ready, entry)))
    BY <1>1, <1>2, <1>3, <1>4, <2>2, <2>3
  <2> HIDE DEF ready
  <2>5. QED
    BY <1>5, <2>1, <2>4 DEF Proceed
<1>11. QED
  BY <1>6, <1>7, <1>8, <1>9, <1>10 DEF RequestStep

LEMMA WalkCounts ==
  ASSUME TreeInv, WalkInv, Counted(walk), WalkStep
  PROVE  Counted(walk')
<1>1. IsTree(tree) /\ IsWalk(walk) /\ walk.at \in Paths
  BY DEF TreeInv, WalkInv, IsWalk
<1>2. ASSUME NEW f, Incomplete \/ Invalid \/ Refuse(f) PROVE Counted(walk')
  <2>1. walk' = Idle
    BY <1>2, StopIs
  <2>2. QED
    BY <2>1, CountBegins DEF Idle
<1>3. ASSUME NEW w, IsWalk(w), Counted(w) PROVE Counted(WalkOn(w)) /\ Counted(EndWalk(w))
  BY <1>3, EndWalkIs, CountSame
<1>4. CASE ListDirectory
  <2>1. \/ Incomplete
        \/ \E d, directories, files :
             Proceed([walk EXCEPT !.stage = "prepare", !.stack = @ \ {d}, !.at = d, !.retained = {},
                          !.directories = directories, !.files = files])
    BY <1>4 DEF ListDirectory
  <2>2. ASSUME NEW d, NEW directories, NEW files,
               Proceed([walk EXCEPT !.stage = "prepare", !.stack = @ \ {d}, !.at = d, !.retained = {},
                            !.directories = directories, !.files = files])
        PROVE  Counted(walk')
    <3>1. walk'.found = walk.found /\ walk'.over = walk.over
      BY <1>1, <2>2 DEF Proceed, IsWalk
    <3>2. QED
      BY <3>1, CountSame
  <2>3. QED
    BY <1>2, <2>1, <2>2
<1>5. CASE PrepareDirectory
  <2> DEFINE ready == Loaded(walk, walk.at)
  <2>1. Refuse(Fails(walk.at)) \/ Proceed([ready EXCEPT !.stage = "directories"])
    BY <1>5 DEF PrepareDirectory
  <2>2. IsWalk(ready) /\ ready.found = walk.found /\ ready.over = walk.over
    BY <1>1, LoadedIs
  <2> HIDE DEF ready
  <2>3. ASSUME Proceed([ready EXCEPT !.stage = "directories"]) PROVE Counted(walk')
    <3>1. walk'.found = walk.found /\ walk'.over = walk.over
      BY <2>2, <2>3 DEF Proceed, IsWalk
    <3>2. QED
      BY <3>1, CountSame
  <2>4. QED
    BY <1>2, <2>1, <2>3
<1>6. CASE VisitSubdirectory
  <2>1. PICK name \in FirstName(walk.directories) :
          LET child == Append(walk.at, name)
              rest == [walk EXCEPT !.directories = @ \ {name}]
          IN Proceed(IF name \in BuiltIn THEN rest
                     ELSE IF IsLink(tree, child)
                     THEN IF SymlinkExcluded(walk.rules, child, Options) THEN rest
                          ELSE WalkOn(Select(rest, DirectorySymlink(child)))
                     ELSE IF DirectoryExcluded(walk.rules, child, Options) THEN rest
                     ELSE [rest EXCEPT !.retained = @ \union {name}])
    BY <1>6 DEF VisitSubdirectory
  <2> DEFINE child == Append(walk.at, name)
             rest == [walk EXCEPT !.directories = @ \ {name}]
             entry == DirectorySymlink(child)
             kept == [rest EXCEPT !.retained = @ \union {name}]
  <2>2. Proceed(rest) \/ Proceed(WalkOn(Select(rest, entry))) \/ Proceed(kept)
    BY <2>1
  <2>3. name \in Names
    BY <1>1 DEF FirstName, IsWalk
  <2>4. IsWalk(rest) /\ rest.found = walk.found /\ rest.over = walk.over
    BY <1>1 DEF IsWalk
  <2>5. entry \in Entries /\ entry.code # "file" /\ entry.code # "PYA1006"
    BY <1>1, <2>3, OneNameMore, EntryIs
  <2> HIDE DEF entry, rest
  <2>6. kept.found = walk.found /\ kept.over = walk.over
    BY <2>4 DEF IsWalk
  <2> HIDE DEF kept
  <2>7. Counted(rest) /\ Counted(kept)
    BY <2>4, <2>6, CountSame
  <2>8. Counted(WalkOn(Select(rest, entry)))
    BY <1>3, <2>4, <2>5, <2>7, CountSelect
  <2>9. QED
    BY <2>2, <2>7, <2>8 DEF Proceed
<1>7. CASE SubdirectoriesVisited
  <2>1. Proceed([walk EXCEPT !.stage = "files"])
    BY <1>7 DEF SubdirectoriesVisited
  <2>2. walk'.found = walk.found /\ walk'.over = walk.over
    BY <1>1, <2>1 DEF Proceed, IsWalk
  <2>3. QED
    BY <2>2, CountSame
<1>8. ASSUME NEW name PROVE Beside(name).found = walk.found /\ Beside(name).over = walk.over /\ IsWalk(Beside(name))
  BY <1>1 DEF Beside, IsWalk
<1>9. CASE SkipFile
  <2>1. PICK name \in walk.files : Proceed(Beside(name))
    BY <1>9 DEF SkipFile
  <2>2. QED
    BY <1>8, <2>1, CountSame DEF Proceed
<1>10. CASE SourceDisappears
  <2>1. Incomplete
    BY <1>10 DEF SourceDisappears
  <2>2. QED
    BY <1>2, <2>1
<1>11. CASE VisitSource
  <2>1. PICK name \in walk.files : Proceed(WalkOn(Select(Beside(name), SourceEntry(tree, Visited(name)))))
    BY <1>11 DEF VisitSource
  <2> DEFINE entry == SourceEntry(tree, Visited(name))
             rest == Beside(name)
  <2>2. Visited(name) \in Paths /\ Visited(name) # <<>>
    <3>1. name \in Names
      BY <1>1 DEF IsWalk
    <3>2. Append(walk.at, name) \in Paths /\ Len(Append(walk.at, name)) = Len(walk.at) + 1 /\ Len(walk.at) \in Nat
      BY <1>1, <3>1, OneNameMore DEF Paths
    <3>3. QED
      BY <3>2 DEF Visited
  <2>3. entry \in Entries /\ entry.path = Visited(name) /\ ~entry.directory /\ entry.code # "PYA1006"
    BY <1>1, <2>2, EntryIs
  <2>4. Counted(rest) /\ IsWalk(rest)
    BY <1>8, CountSame
  <2> HIDE DEF entry, rest
  <2>5. Counted(WalkOn(Select(rest, entry)))
    BY <1>3, <2>2, <2>3, <2>4, CountSelect
  <2>6. QED
    BY <2>1, <2>5 DEF Proceed, entry, rest
<1>12. CASE LeaveDirectory
  <2>1. Proceed(EndWalk(walk)) \/ \E stack : Proceed([walk EXCEPT !.stage = "list", !.stack = stack])
    BY <1>12 DEF LeaveDirectory
  <2>2. ASSUME NEW stack, Proceed([walk EXCEPT !.stage = "list", !.stack = stack]) PROVE Counted(walk')
    <3>1. walk'.found = walk.found /\ walk'.over = walk.over
      BY <1>1, <2>2 DEF Proceed, IsWalk
    <3>2. QED
      BY <3>1, CountSame
  <2>3. QED
    BY <1>1, <1>3, <2>1, <2>2 DEF Proceed
<1>13. CASE ModulesFound \/ SourcesFound \/ BoundExceeded \/ DynamicFound
  <2>1. walk' = Idle \/ walk' = Begin(scenario.requests)
    BY <1>13 DEF ModulesFound, SourcesFound, BoundExceeded, DynamicFound, Conclude, Return
  <2>2. QED
    BY <2>1, CountBegins DEF Idle
<1>14. QED
  BY <1>4, <1>5, <1>6, <1>7, <1>9, <1>10, <1>11, <1>12, <1>13 DEF WalkStep

LEMMA CountStarts ==
  ASSUME Init
  PROVE  CountInv
<1>1. \E requests : walk = Begin(requests)
  BY DEF Init
<1>2. discovered.modules = {}
  BY DEF Init
<1>3. QED
  BY <1>1, <1>2, CountBegins DEF CountInv

LEMMA CountKept ==
  ASSUME TreeInv, WalkInv, CountInv, [Next]_vars
  PROVE  CountInv'
<1>1. Counted(walk) /\ discovered \in Discoveries
  BY DEF CountInv, WalkInv
<1>2. Counted(walk')
  <2>1. CASE RequestStep \/ WalkStep
    BY <1>1, <2>1, RequestCounts, WalkCounts
  <2>2. CASE ReportStep
    <3>1. walk' = Idle \/ walk' = Begin(WholeRoot)
      BY <2>2 DEF ReportStep, ReportStatic, ReportInferred, SearchDynamic, Conclude, Return
    <3>2. QED
      BY <3>1, CountBegins DEF Idle
  <2>3. CASE ReadStep \/ Edit \/ UNCHANGED vars
    <3>1. walk' = walk
      BY <2>3, EditFrame DEF vars, ReadStep, BeginRead, StatEntry, OpenEntry, ReadChunk, ValidateChain, ValidateLeaf,
         ReadUnchanged, EditTo
    <3>2. QED
      BY <1>1, <3>1
  <2>4. QED
    BY <2>1, <2>2, <2>3 DEF Next, ScanStep
<1>3. discovered'.modules = discovered.modules \/ ModulesFound
  <2>1. CASE ModulesFound
    BY <2>1
  <2>2. CASE SourcesFound \/ BoundExceeded \/ DynamicFound
    BY <1>1, <2>2 DEF SourcesFound, BoundExceeded, DynamicFound, Discoveries
  <2>3. CASE RequestStep \/ ReportStep \/ ReadStep \/ Edit \/ UNCHANGED vars
    <3>1. CASE RequestStep
      BY <3>1 DEF RequestStep, RequestOutside, RequestThroughLink, RequestBuiltIn, RequestDirectory, RequestFile, Untouched
    <3>2. CASE ReportStep
      BY <3>2 DEF ReportStep, ReportStatic, ReportInferred, SearchDynamic
    <3>3. CASE ReadStep
      BY <3>3 DEF ReadStep, BeginRead, StatEntry, OpenEntry, ReadChunk, ValidateChain, ValidateLeaf, ReadUnchanged
    <3>4. CASE Edit
      BY <3>4, EditFrame DEF EditTo
    <3>5. CASE UNCHANGED vars
      BY <3>5 DEF vars
    <3>6. QED
      BY <2>3, <3>1, <3>2, <3>3, <3>4, <3>5
  <2>4. CASE ListDirectory \/ PrepareDirectory \/ VisitSubdirectory \/ SubdirectoriesVisited \/ SkipFile
             \/ SourceDisappears \/ VisitSource \/ LeaveDirectory
    BY <2>4 DEF ListDirectory, PrepareDirectory, VisitSubdirectory, SubdirectoriesVisited, SkipFile,
       SourceDisappears, VisitSource, LeaveDirectory, Untouched
  <2>5. QED
    BY <2>1, <2>2, <2>3, <2>4 DEF Next, ScanStep, WalkStep
<1>4. CASE ModulesFound
  <2>1. discovered'.modules = walk.found
    BY <1>1, <1>4 DEF ModulesFound, Discoveries
  <2>2. \A e \in walk.found : e.code = "PYA1006" => Cardinality(walk.found) > Limit
    BY <1>1 DEF Counted
  <2>3. \A e \in discovered'.modules : e.code = "PYA1006" => Cardinality(discovered'.modules) > Limit
    BY <2>1, <2>2
  <2>4. QED
    BY <1>2, <2>3 DEF CountInv, Counted
<1>5. CASE discovered'.modules = discovered.modules
  BY <1>2, <1>5 DEF CountInv, Counted
<1>6. QED
  BY <1>3, <1>4, <1>5

\* What was found of the requests before the first edit: eligible paths, one
\* for each entry.
LEMMA FoundCount ==
  ASSUME TreeInv, WalkInv, UneditedInv, Unedited, Genuine(walk), Counted(walk)
  PROVE  LET E == EligiblePaths(tree, scenario.requests, ScanOptions)
             P == {e.path : e \in walk.found}
         IN /\ IsFiniteSet(E) /\ P \subseteq E
            /\ Cardinality(P) = Cardinality(walk.found) /\ Cardinality(P) <= Cardinality(E)
            /\ Cardinality(P) \in Nat /\ Cardinality(E) \in Nat
<1> DEFINE E == EligiblePaths(tree, scenario.requests, ScanOptions)
           P == {e.path : e \in walk.found}
           f == [e \in walk.found |-> e.path]
<1>1. /\ IsTree(tree) /\ tree = scenario.tree /\ scenario \in Scenarios
      /\ walk.found \subseteq Entries /\ IsFiniteSet(walk.found)
  BY DEF TreeInv, UneditedInv, WalkInv, IsWalk, Found
<1>2. /\ AllPaths(tree) \subseteq Paths /\ IsFiniteSet(AllPaths(tree))
      /\ \A p \in Paths : At(tree, p) # None => p \in AllPaths(tree)
  <2>1. \A p \in AllPaths(tree) : Len(p) = Depth => tree[At(tree, p)].kind # "dir"
    BY <1>1, ScenariosAssumption
  <2>2. QED
    BY <1>1, <2>1, AllPathsAre
<1>3. IsFiniteSet(E)
  <2>1. E \subseteq AllPaths(tree)
    BY DEF EligiblePaths
  <2> HIDE DEF E
  <2>2. QED
    BY <1>2, <2>1, FS_Subset
<1>4. P \subseteq E
  <2>1. ASSUME NEW e \in walk.found PROVE e.path \in E
    <3>1. e.path \in Paths /\ e.path # <<>> /\ Eligible(tree, e.path, scenario.requests, ScanOptions)
      BY <1>1, <2>1 DEF Entries, Genuine
    <3>2. At(tree, e.path) # None
      BY <3>1 DEF Eligible
    <3>3. QED
      BY <1>2, <3>1, <3>2 DEF EligiblePaths
  <2>2. QED
    BY <2>1
<1>5. f \in Surjection(walk.found, P) /\ f \in Injection(walk.found, P)
  <2>1. f \in [walk.found -> P]
    OBVIOUS
  <2>2. \A e, g \in walk.found : f[e] = f[g] => e = g
    BY DEF Counted
  <2>3. \A p \in P : \E e \in walk.found : f[e] = p
    OBVIOUS
  <2>4. QED
    BY <2>1, <2>2, <2>3 DEF Surjection, Injection, IsInjective
<1> HIDE DEF f, P, E
<1>6. Cardinality(P) = Cardinality(walk.found)
  BY <1>1, <1>5, FS_Surjection
<1>7. Cardinality(P) <= Cardinality(E) /\ IsFiniteSet(P)
  BY <1>3, <1>4, FS_Subset
<1>8. Cardinality(P) \in Nat /\ Cardinality(E) \in Nat
  BY <1>3, <1>7, FS_CardinalityType
<1>9. QED
  BY <1>3, <1>4, <1>6, <1>7, <1>8 DEF E, P

\* What was listed is exactly what there is to list, within the bound.
ListedAll == ListedPaths = steady.scan /\ ~Exceeds(scenario.requests, ScanOptions)

CompleteInv ==
  /\ report.outcome \in {"complete", "bound"} => phase = "done"
  /\ Unedited =>
       /\ phase \in {"read", "dynamic"} \/ report.outcome = "complete" => ListedAll
       /\ report.outcome = "bound" =>
            Exceeds(scenario.requests, ScanOptions) \/ Cardinality(discovered.modules) > Limit

LEMMA CompleteStarts ==
  ASSUME Init
  PROVE  CompleteInv
<1>1. report.outcome = "none" /\ phase \in {"modules", "scan"}
  BY DEF Init
<1>2. QED
  BY <1>1 DEF CompleteInv

LEMMA CompleteGoesOn ==
  ASSUME CompleteInv, UNCHANGED <<scenario, tree, edits, steady>>,
         discovered'.scan = discovered.scan, discovered'.modules = discovered.modules,
         \/ phase' = phase /\ report' = report
         \/ phase' = "done" /\ report'.outcome \notin {"complete", "bound"}
         \/ phase \in {"read", "dynamic"} /\ phase' = "done" /\ report'.outcome = "complete"
         \/ phase \in {"read", "dynamic"} /\ phase' = "dynamic" /\ report' = report
  PROVE  CompleteInv'
<1>1. ScanOptions' = ScanOptions /\ (Unedited' <=> Unedited) /\ (ListedAll' <=> ListedAll)
      /\ (Exceeds(scenario.requests, ScanOptions)' <=> Exceeds(scenario.requests, ScanOptions))
  <2>1. ScanOptions' = ScanOptions /\ (Unedited' <=> Unedited)
    BY DEF ScanOptions, Unedited
  <2>2. ListedPaths' = ListedPaths
    BY DEF ListedPaths
  <2>3. Exceeds(scenario.requests, ScanOptions)' <=> Exceeds(scenario.requests, ScanOptions)
    BY <2>1 DEF Exceeds
  <2>4. QED
    BY <2>1, <2>2, <2>3 DEF ListedAll
<1>2. QED
  BY <1>1 DEF CompleteInv

LEMMA SourcesComplete ==
  ASSUME TreeInv, WalkInv, CoverInv, UneditedInv, SoundInv, CountInv, CompleteInv, SourcesFound
  PROVE  CompleteInv'
<1>1. /\ phase = "scan" /\ DiscoveryEnds /\ \A e \in walk.found : e.code # "PYA1006"
      /\ discovered' = [discovered EXCEPT !.scan = walk.found]
      /\ phase' = "read" /\ UNCHANGED <<report, scenario, tree, edits, steady>>
  BY DEF SourcesFound, treeVars
<1>2. discovered'.scan = walk.found
  BY <1>1 DEF WalkInv, Discoveries
<1>3. report.outcome \notin {"complete", "bound"}
  BY <1>1 DEF CompleteInv
<1>4. ASSUME Unedited PROVE ListedAll'
  <2> DEFINE E == EligiblePaths(tree, scenario.requests, ScanOptions)
             P == {e.path : e \in walk.found}
  <2>1. Genuine(walk) /\ Counted(walk) /\ steady.scan = E
    BY <1>1, <1>4 DEF SoundInv, CountInv, UneditedInv
  <2>2. /\ P \subseteq E /\ Cardinality(P) = Cardinality(walk.found) /\ Cardinality(P) \in Nat
    BY <1>4, <2>1, FoundCount
  <2>3. steady.scan \subseteq P
    <3>1. Sought = steady.scan
      BY <1>1 DEF Sought
    <3>2. \A p \in Sought : \E e \in walk.found : e.path = p
      BY <1>1, EndFinds
    <3>3. QED
      BY <3>1, <3>2
  <2>4. P = E /\ P = steady.scan
    BY <2>1, <2>2, <2>3
  <2>5. Cardinality(walk.found) <= Limit
    BY <1>1, <2>1 DEF Counted, CoverInv, Steered
  <2>6. ~(Cardinality(E) > Limit)
    <3> HIDE DEF E, P
    <3>1. Cardinality(E) = Cardinality(walk.found) /\ Cardinality(E) \in Nat
      BY <2>2, <2>4
    <3>2. QED
      BY <2>5, <3>1, LimitAssumption
  <2>7. ListedPaths' = P
    BY <1>2 DEF ListedPaths
  <2>8. ScanOptions' = ScanOptions
    BY <1>1 DEF ScanOptions
  <2>9. ~Exceeds(scenario.requests, ScanOptions)'
    BY <1>1, <2>6, <2>8 DEF Exceeds
  <2>10. QED
    BY <1>1, <2>4, <2>7, <2>9 DEF ListedAll
<1>5. Unedited' <=> Unedited
  BY <1>1 DEF Unedited
<1>6. QED
  BY <1>1, <1>3, <1>4, <1>5 DEF CompleteInv

LEMMA BoundComplete ==
  ASSUME TreeInv, WalkInv, CoverInv, UneditedInv, SoundInv, CountInv, CompleteInv, BoundExceeded
  PROVE  CompleteInv'
<1>1. /\ phase = "scan" /\ DiscoveryEnds
      /\ \E e \in discovered.modules \union walk.found : e.code = "PYA1006"
      /\ discovered' = [discovered EXCEPT !.scan = walk.found]
      /\ phase' = "done" /\ report'.outcome = "bound" /\ UNCHANGED <<scenario, tree, edits, steady>>
  BY DEF BoundExceeded, Return, Stopped, treeVars
<1>2. discovered'.modules = discovered.modules
  BY <1>1 DEF WalkInv, Discoveries
<1>3. ASSUME Unedited
      PROVE  Exceeds(scenario.requests, ScanOptions) \/ Cardinality(discovered.modules) > Limit
  <2>1. PICK e \in discovered.modules \union walk.found : e.code = "PYA1006"
    BY <1>1
  <2>2. CASE e \in discovered.modules
    BY <2>1, <2>2 DEF CountInv
  <2>3. CASE e \in walk.found
    <3>1. Genuine(walk) /\ Counted(walk)
      BY <1>1, <1>3 DEF SoundInv, CountInv
    <3>2. Cardinality(walk.found) > Limit
      BY <2>1, <2>3, <3>1 DEF Counted
    <3> DEFINE E == EligiblePaths(tree, scenario.requests, ScanOptions)
               P == {x.path : x \in walk.found}
    <3>3. /\ Cardinality(P) = Cardinality(walk.found) /\ Cardinality(P) <= Cardinality(E)
          /\ Cardinality(P) \in Nat /\ Cardinality(E) \in Nat
      BY <1>3, <3>1, FoundCount
    <3>4. Cardinality(E) > Limit
      <4> HIDE DEF E, P
      <4>1. QED
        BY <3>2, <3>3, LimitAssumption
    <3>5. QED
      BY <3>4 DEF Exceeds
  <2>4. QED
    BY <2>2, <2>3
<1>4. ScanOptions' = ScanOptions /\ (Unedited' <=> Unedited)
  BY <1>1 DEF Unedited, ScanOptions
<1>5. Unedited' => Exceeds(scenario.requests, ScanOptions)' \/ Cardinality(discovered'.modules) > Limit
  BY <1>1, <1>2, <1>3, <1>4 DEF Exceeds
<1>6. QED
  BY <1>1, <1>5 DEF CompleteInv

LEMMA StopComplete ==
  ASSUME CompleteInv, UNCHANGED <<scenario, tree, edits, steady>>, UNCHANGED discovered, Discovering, NEW f,
         Incomplete \/ Invalid \/ Refuse(f)
  PROVE  CompleteInv'
<1>1. phase' = "done"
  BY StopIs
<1>2. \/ report'.outcome \in {"incomplete", "error"}
      \/ phase = "dynamic" /\ report'.outcome = "complete"
  BY DEF Incomplete, Invalid, Refuse, Return, Stopped, Conclude, Reported
<1>3. QED
  BY <1>1, <1>2, CompleteGoesOn

LEMMA RequestComplete ==
  ASSUME CompleteInv, RequestStep
  PROVE  CompleteInv'
<1>1. Discovering /\ UNCHANGED <<scenario, tree, edits, steady>> /\ UNCHANGED discovered
  BY DEF RequestStep, RequestOutside, RequestThroughLink, RequestBuiltIn, RequestDirectory, RequestFile,
     RequestInside, AtRequest, Untouched, treeVars
<1>2. \/ Invalid \/ (\E d : Refuse(Fails(d))) \/ UNCHANGED <<phase, report>>
  BY DEF RequestStep, RequestOutside, RequestThroughLink, RequestBuiltIn, RequestDirectory, RequestFile, Proceed
<1>3. CASE UNCHANGED <<phase, report>>
  BY <1>1, <1>3, CompleteGoesOn
<1>4. QED
  BY <1>1, <1>2, <1>3, StopComplete

LEMMA WalkComplete ==
  ASSUME TreeInv, WalkInv, CoverInv, UneditedInv, SoundInv, CountInv, CompleteInv, WalkStep
  PROVE  CompleteInv'
<1>1. Discovering /\ UNCHANGED <<scenario, tree, edits, steady>>
  BY DEF WalkStep, ListDirectory, PrepareDirectory, VisitSubdirectory, SubdirectoriesVisited, SkipFile,
     SourceDisappears, VisitSource, LeaveDirectory, ModulesFound, SourcesFound, BoundExceeded, DynamicFound,
     AtFile, DiscoveryEnds, Untouched, treeVars
<1>2. CASE ListDirectory \/ PrepareDirectory \/ VisitSubdirectory \/ SubdirectoriesVisited \/ SkipFile
           \/ SourceDisappears \/ VisitSource \/ LeaveDirectory
  <2>1. UNCHANGED discovered
    BY <1>2 DEF ListDirectory, PrepareDirectory, VisitSubdirectory, SubdirectoriesVisited, SkipFile,
       SourceDisappears, VisitSource, LeaveDirectory, Untouched
  <2>2. \/ Incomplete \/ (\E d : Refuse(Fails(d))) \/ UNCHANGED <<phase, report>>
    BY <1>2 DEF ListDirectory, PrepareDirectory, VisitSubdirectory, SubdirectoriesVisited, SkipFile,
       SourceDisappears, VisitSource, LeaveDirectory, Proceed
  <2>3. CASE UNCHANGED <<phase, report>>
    BY <1>1, <2>1, <2>3, CompleteGoesOn
  <2>4. QED
    BY <1>1, <2>1, <2>2, <2>3, StopComplete
<1>3. CASE ModulesFound
  <2>1. phase = "modules" /\ phase' = "scan" /\ report' = report
    BY <1>3 DEF ModulesFound
  <2>2. QED
    BY <2>1 DEF CompleteInv
<1>4. CASE DynamicFound
  <2>1. phase = "dynamic" /\ phase' = "done" /\ report'.outcome = "complete"
    BY <1>4 DEF DynamicFound, Conclude, Return, Reported
  <2>2. discovered'.scan = discovered.scan /\ discovered'.modules = discovered.modules
    BY <1>4 DEF DynamicFound, WalkInv, Discoveries
  <2>3. QED
    BY <1>1, <2>1, <2>2, CompleteGoesOn
<1>5. QED
  BY <1>2, <1>3, <1>4, SourcesComplete, BoundComplete DEF WalkStep

LEMMA CompleteKept ==
  ASSUME TreeInv, WalkInv, CoverInv, UneditedInv, SoundInv, CountInv, CompleteInv, [Next]_vars
  PROVE  CompleteInv'
<1>1. CASE Edit
  <2>1. UNCHANGED <<phase, report>>
    BY <1>1, EditFrame DEF EditTo
  <2>2. ~Unedited'
    BY <1>1, EditedNow
  <2>3. QED
    BY <2>1, <2>2 DEF CompleteInv
<1>2. CASE UNCHANGED <<scenario, tree, edits, steady>>
  <2>1. CASE ReportStep
    <3>1. /\ phase = "read" /\ UNCHANGED discovered
          /\ \/ phase' = "dynamic" /\ report' = report
             \/ phase' = "done" /\ report'.outcome = "complete"
      BY <2>1 DEF ReportStep, ReportStatic, ReportInferred, SearchDynamic, Conclude, Return, Reported
    <3>2. QED
      BY <1>2, <3>1, CompleteGoesOn
  <2>2. CASE ReadStep \/ UNCHANGED vars
    <3>1. UNCHANGED <<phase, report, discovered>>
      BY <2>2 DEF vars, ReadStep, BeginRead, StatEntry, OpenEntry, ReadChunk, ValidateChain, ValidateLeaf, ReadUnchanged
    <3>2. QED
      BY <1>2, <3>1, CompleteGoesOn
  <2>3. QED
    BY <1>1, <2>1, <2>2, RequestComplete, WalkComplete DEF Next, ScanStep
<1>3. QED
  BY <1>1, <1>2, TreeFrame

\* Whatever is edited meanwhile, a report of no incomplete file analysed every
\* source that was eligible all along; on a tree nobody edits a scan finds
\* exactly the eligible entries, and stops at its bound only when there are
\* more (discovery.py, engine.py).
THEOREM ScanMissesNothing == Spec => []CompleteScanMissesNothing
<1> DEFINE Types == TreeInv /\ WalkInv /\ SteadyInv
           Covers == CoverInv /\ FoundInv
           Exact == UneditedInv /\ SoundInv /\ CountInv /\ CompleteInv
<1>1. Init => Types /\ Covers /\ Exact
  <2> SUFFICES ASSUME Init PROVE Types /\ Covers /\ Exact
    OBVIOUS
  <2>1. Types
    BY TypesStart, SteadyStart
  <2>2. Covers
    BY <2>1, CoverStarts, FoundStarts
  <2>3. SoundInv
    <3>1. phase = "scan" => walk = Begin(scenario.requests)
      BY DEF Init
    <3>2. QED
      BY <3>1, GenuineBegins DEF SoundInv
  <2>4. QED
    BY <2>1, <2>2, <2>3, UneditedStarts, CountStarts, CompleteStarts
<1>2. Types /\ Covers /\ Exact /\ [Next]_vars => (Types /\ Covers /\ Exact)'
  <2> SUFFICES ASSUME Types, Covers, Exact, [Next]_vars PROVE (Types /\ Covers /\ Exact)'
    OBVIOUS
  <2>1. Types'
    BY TypesKept, SteadyKept
  <2>2. Covers'
    BY CoverKept, FoundKept
  <2>3. Exact'
    BY UneditedKept, SoundKept, CountKept, CompleteKept
  <2>4. QED
    BY <2>1, <2>2, <2>3
<1>3. FoundInv /\ CompleteInv => CompleteScanMissesNothing
  BY DEF FoundInv, CompleteInv, ListedAll, ListedPaths, CompleteScanMissesNothing
<1>4. QED
  BY <1>1, <1>2, <1>3, PTL DEF Spec

-----------------------------------------------------------------------------
(* The handlers of import fallbacks.  The discovery of the whole root finds *)
(* every linked directory as one, and every other entry.                    *)

Marked(e) == e.directory \/ e.code = "PYA1006"

Kinds(w) ==
  Whole => /\ \A e \in w.found : e.path \in steady.exposed /\ IsDirectory(tree, e.path) => Marked(e)
           /\ \A n \in w.files : Append(w.at, n) \in steady.exposed => ~IsDirectory(tree, Append(w.at, n))

KindInv == Kinds(walk)

LEMMA KindBegins ==
  ASSUME NEW requests
  PROVE  Kinds(Begin(requests))
BY DEF Kinds, Begin

LEMMA KindSame ==
  ASSUME NEW w, Kinds(w), NEW v, v.found = w.found, v.files \subseteq w.files, v.files # {} => v.at = w.at
  PROVE  Kinds(v)
BY DEF Kinds

LEMMA KindSelect ==
  ASSUME NEW w, IsWalk(w), Kinds(w), NEW e \in Entries, e.code = "file" => e.path # <<>> /\ ~e.directory,
         e.directory \/ ~IsDirectory(tree, e.path)
  PROVE  Kinds(Select(w, e)) /\ IsWalk(Select(w, e))
<1> DEFINE v == Select(w, e)
<1>1. v.at = w.at /\ v.files = w.files
  BY SelectKeeps
<1>2. /\ IsWalk(v)
      /\ v.found = w.found \/ v.found = w.found \union {Issue(e.path, "PYA1006")} \/ v.found = w.found \union {e}
  BY SelectIs
<1> HIDE DEF v
<1>3. \A x \in v.found : x \in w.found \/ Marked(x) \/ ~IsDirectory(tree, x.path)
  <2>1. Marked(Issue(e.path, "PYA1006"))
    BY DEF Marked, Issue
  <2>2. Marked(e) \/ ~IsDirectory(tree, e.path)
    BY DEF Marked
  <2>3. QED
    BY <1>2, <2>1, <2>2
<1>4. Kinds(v)
  BY <1>1, <1>3 DEF Kinds
<1>5. QED
  BY <1>2, <1>4 DEF v

\* A step of the discovery keeps them.
Keeps == Kinds(walk')

LEMMA StopKinds ==
  ASSUME NEW f, Incomplete \/ Invalid \/ Refuse(f)
  PROVE  Keeps
<1>1. walk' = Idle
  BY StopIs
<1>2. QED
  BY <1>1, KindBegins DEF Keeps, Idle

LEMMA RequestKinds ==
  ASSUME TreeInv, WalkInv, Kinds(walk), RequestStep
  PROVE  Keeps
<1>1. IsTree(tree) /\ IsWalk(walk) /\ walk.requests # <<>> /\ Requested \in Paths
  BY RequestedIs DEF TreeInv, WalkInv, RequestStep, RequestOutside, RequestThroughLink, RequestBuiltIn, RequestDirectory,
     RequestFile, RequestInside, AtRequest
<1>2. ASSUME NEW w, IsWalk(w), Kinds(w), w.requests # <<>> PROVE Kinds(NextRequest(w))
  BY <1>2, NextRequestIs, KindSame
<1>3. ASSUME NEW d PROVE Kinds(Loaded(walk, d)) /\ IsWalk(Loaded(walk, d)) /\ Loaded(walk, d).requests = walk.requests
  BY <1>1, LoadedIs, KindSame
<1>4. ASSUME NEW w, IsWalk(w), Kinds(w), w.requests = walk.requests, NEW e \in Entries,
             e.code = "file" => e.path # <<>> /\ ~e.directory, e.directory \/ ~IsDirectory(tree, e.path)
      PROVE  Kinds(NextRequest(Select(w, e)))
  <2>1. Kinds(Select(w, e)) /\ IsWalk(Select(w, e)) /\ Select(w, e).requests = walk.requests
    BY <1>4, KindSelect, SelectKeeps
  <2>2. QED
    BY <1>1, <1>2, <2>1
<1>6. CASE RequestOutside
  BY <1>6, StopKinds DEF RequestOutside
<1>7. CASE RequestBuiltIn
  BY <1>1, <1>2, <1>7 DEF RequestBuiltIn, Proceed, Keeps
<1>8. CASE RequestThroughLink
  <2> DEFINE alias == SubSeq(Requested, 1, Min(LinkedPrefixes(tree, Requested)))
             ready == Loaded(walk, Above(alias))
             hidden == BuiltInExcluded(alias, TRUE) /\ ~Options.allowBuiltInRoots
             chosen == NextRequest(Select(ready, DirectorySymlink(alias)))
  <2>1. \/ Refuse(Fails(Above(alias)))
        \/ Proceed(NextRequest(IF hidden THEN walk ELSE ready))
        \/ Proceed(chosen)
    BY <1>8 DEF RequestThroughLink
  <2>2. alias \in Paths
    BY <1>1, <1>8, AliasIs DEF RequestThroughLink
  <2> HIDE DEF alias, hidden
  <2>3. DirectorySymlink(alias) \in Entries /\ DirectorySymlink(alias).code # "file" /\ DirectorySymlink(alias).directory
    BY <1>1, <2>2, EntryIs
  <2>4. Kinds(NextRequest(walk)) /\ Kinds(NextRequest(ready)) /\ Kinds(chosen)
    BY <1>1, <1>2, <1>3, <1>4, <2>3
  <2> HIDE DEF ready, chosen
  <2>5. CASE Proceed(NextRequest(IF hidden THEN walk ELSE ready))
    BY <2>4, <2>5 DEF Proceed, Keeps
  <2>6. QED
    BY <2>1, <2>4, <2>5, StopKinds DEF Proceed, Keeps
<1>9. CASE RequestDirectory
  <2> DEFINE ready == IF Requested = <<>> THEN walk ELSE Loaded(walk, Above(Requested))
             next == NextRequest(ready)
             boundary == IF Options.allowBuiltInRoots THEN Requested ELSE <<>>
             descending == [next EXCEPT !.stage = "list", !.stack = {Requested}, !.boundary = boundary]
  <2>1. Refuse(Fails(Above(Requested))) \/ Proceed(next) \/ Proceed(descending)
    BY <1>9 DEF RequestDirectory
  <2>2. Kinds(ready) /\ IsWalk(ready) /\ ready.requests = walk.requests
    BY <1>1, <1>3
  <2> HIDE DEF ready
  <2>3. Kinds(next) /\ IsWalk(next)
    BY <1>1, <1>2, <2>2, NextRequestIs
  <2> HIDE DEF next
  <2>4. descending.found = next.found /\ descending.files = next.files /\ descending.at = next.at
    BY <2>3 DEF IsWalk
  <2> HIDE DEF descending
  <2>5. Kinds(descending)
    BY <2>3, <2>4, KindSame
  <2>6. QED
    BY <2>1, <2>3, <2>5, StopKinds DEF Proceed, Keeps
<1>10. CASE RequestFile
  <2> DEFINE ready == Loaded(walk, Above(Requested))
             entry == SourceEntry(tree, Requested)
  <2>1. \/ Refuse(Fails(Above(Requested))) \/ Invalid
        \/ Proceed(NextRequest(ready))
        \/ Proceed(NextRequest(Select(ready, entry)))
    BY <1>10 DEF RequestFile
  <2>2. Requested # <<>> /\ ~IsDirectory(tree, Requested)
    BY <1>10, FileWalk DEF RequestFile
  <2>3. entry \in Entries /\ entry.path = Requested /\ ~entry.directory
    BY <1>1, EntryIs
  <2> HIDE DEF entry
  <2>4. Kinds(NextRequest(ready)) /\ Kinds(NextRequest(Select(ready, entry)))
    BY <1>1, <1>2, <1>3, <1>4, <2>2, <2>3
  <2> HIDE DEF ready
  <2>5. QED
    BY <2>1, <2>4, StopKinds DEF Proceed, Keeps
<1>11. QED
  BY <1>6, <1>7, <1>8, <1>9, <1>10 DEF RequestStep

LEMMA WalkKinds ==
  ASSUME TreeInv, WalkInv, SteadyInv, Kinds(walk), WalkStep
  PROVE  Keeps
<1>1. IsTree(tree) /\ IsWalk(walk) /\ walk.at \in Paths
  BY DEF TreeInv, WalkInv, IsWalk
<1>3. ASSUME NEW w, IsWalk(w), Kinds(w) PROVE Kinds(EndWalk(w)) /\ Kinds(WalkOn(w))
  <2> DEFINE v == EndWalk(w)
  <2>1. v.found = w.found /\ v.files = {}
    BY <1>3 DEF EndWalk, IsWalk
  <2> HIDE DEF v
  <2>2. Kinds(v)
    BY <1>3, <2>1, KindSame
  <2>3. QED
    BY <1>3, <2>2 DEF v, WalkOn
<1>4. CASE ListDirectory
  <2>1. PICK d \in FirstPath(walk.stack) :
          LET listed == Inode(tree, Resolved(tree, d))
              inside(n) == Inode(tree, Target(tree, listed.at[n])).kind = "dir"
          IN IF listed.kind # "dir" THEN Incomplete
             ELSE Proceed([walk EXCEPT !.stage = "prepare", !.stack = @ \ {d}, !.at = d, !.retained = {},
                               !.directories = {n \in DOMAIN listed.at : inside(n)},
                               !.files = {n \in DOMAIN listed.at : ~inside(n)}])
    BY <1>4 DEF ListDirectory
  <2> DEFINE listed == Inode(tree, Resolved(tree, d))
             inside(n) == Inode(tree, Target(tree, listed.at[n])).kind = "dir"
             directories == {n \in DOMAIN listed.at : inside(n)}
             files == {n \in DOMAIN listed.at : ~inside(n)}
             v == [walk EXCEPT !.stage = "prepare", !.stack = @ \ {d}, !.at = d, !.retained = {},
                       !.directories = directories, !.files = files]
  <2>2. Incomplete \/ (listed.kind = "dir" /\ Proceed(v))
    BY <2>1
  <2>3. d \in Paths /\ Len(d) \in Nat
    BY <1>1 DEF FirstPath, IsWalk, Paths
  <2>4. ASSUME listed.kind = "dir", Whole, NEW n \in files, Append(d, n) \in steady.exposed
        PROVE  ~IsDirectory(tree, Append(d, n))
    <3>1. n \in Names
      <4>1. Resolved(tree, d) \in Inodes(tree)
        BY <1>1, <2>3, LstatInside
      <4>2. Resolved(tree, d) \in DOMAIN tree /\ listed = tree[Resolved(tree, d)]
        BY <1>1, <2>4, <4>1, InodeIs
      <4>3. DOMAIN listed.at \subseteq Names
        BY <1>1, <2>4, <4>2 DEF IsTree, Names
      <4>4. QED
        BY <4>3
    <3> DEFINE p == Append(d, n)
    <3>2. Len(p) = Len(d) + 1 /\ Up(p, Len(d)) = d /\ p[Len(d) + 1] = n
      BY <2>3, <3>1, OneNameMore
    <3>3. Sure(tree, p, ModuleOptions)
      <4>1. p \in Paths /\ p # <<>> /\ Eligible(tree, p, WholeRoot, ModuleOptions)
        BY <2>4 DEF SteadyInv
      <4> HIDE DEF p
      <4>2. QED
        BY <4>1, EligibleIs
    <3> HIDE DEF p
    <3>4. Len(d) \in 0..Len(p) - 1 /\ Len(d) + 1 = Len(p)
      BY <2>3, <3>2
    <3>5. LET there == Inode(tree, Target(tree, Inode(tree, Resolved(tree, Up(p, Len(d)))).at[p[Len(d) + 1]])).kind IN
          Len(d) + 1 = Len(p) => (there = "dir" <=> IsDirectory(tree, p))
      BY <1>1, <3>3, <3>4, ListedIs
    <3>6. ~inside(n)
      BY <2>4
    <3>7. QED
      BY <3>2, <3>4, <3>5, <3>6 DEF p
  <2>5. v.found = walk.found /\ v.files = files /\ v.at = d
    BY <1>1 DEF IsWalk
  <2> HIDE DEF v, files, listed
  <2>6. ASSUME listed.kind = "dir" PROVE Kinds(v)
    BY <2>4, <2>5, <2>6 DEF Kinds
  <2>7. QED
    BY <2>2, <2>6, StopKinds DEF Proceed, Keeps
<1>5. CASE PrepareDirectory
  <2> DEFINE ready == Loaded(walk, walk.at)
             v == [ready EXCEPT !.stage = "directories"]
  <2>1. Refuse(Fails(walk.at)) \/ Proceed(v)
    BY <1>5 DEF PrepareDirectory
  <2>2. IsWalk(ready) /\ ready.found = walk.found /\ ready.files = walk.files /\ ready.at = walk.at
    BY <1>1, LoadedIs
  <2> HIDE DEF ready
  <2>3. v.found = walk.found /\ v.files = walk.files /\ v.at = walk.at
    BY <2>2 DEF IsWalk
  <2> HIDE DEF v
  <2>4. Kinds(v)
    BY <2>3, KindSame
  <2>5. QED
    BY <2>1, <2>4, StopKinds DEF Proceed, Keeps
<1>6. CASE VisitSubdirectory
  <2>1. PICK name \in FirstName(walk.directories) :
          LET child == Append(walk.at, name)
              rest == [walk EXCEPT !.directories = @ \ {name}]
          IN Proceed(IF name \in BuiltIn THEN rest
                     ELSE IF IsLink(tree, child)
                     THEN IF SymlinkExcluded(walk.rules, child, Options) THEN rest
                          ELSE WalkOn(Select(rest, DirectorySymlink(child)))
                     ELSE IF DirectoryExcluded(walk.rules, child, Options) THEN rest
                     ELSE [rest EXCEPT !.retained = @ \union {name}])
    BY <1>6 DEF VisitSubdirectory
  <2> DEFINE child == Append(walk.at, name)
             rest == [walk EXCEPT !.directories = @ \ {name}]
             entry == DirectorySymlink(child)
             kept == [rest EXCEPT !.retained = @ \union {name}]
  <2>2. Proceed(rest) \/ Proceed(WalkOn(Select(rest, entry))) \/ Proceed(kept)
    BY <2>1
  <2>3. name \in Names
    BY <1>1 DEF FirstName, IsWalk
  <2>4. IsWalk(rest) /\ rest.found = walk.found /\ rest.files = walk.files /\ rest.at = walk.at
    BY <1>1 DEF IsWalk
  <2>5. entry \in Entries /\ entry.code # "file" /\ entry.directory
    BY <1>1, <2>3, OneNameMore, EntryIs
  <2> HIDE DEF entry, rest
  <2>6. kept.found = walk.found /\ kept.files = walk.files /\ kept.at = walk.at
    BY <2>4 DEF IsWalk
  <2> HIDE DEF kept
  <2>7. Kinds(rest) /\ Kinds(kept)
    BY <2>4, <2>6, KindSame
  <2>8. Kinds(WalkOn(Select(rest, entry)))
    BY <1>3, <2>4, <2>5, <2>7, KindSelect
  <2>9. QED
    BY <2>2, <2>7, <2>8 DEF Proceed, Keeps
<1>7. CASE SubdirectoriesVisited
  <2>1. Proceed([walk EXCEPT !.stage = "files"])
    BY <1>7 DEF SubdirectoriesVisited
  <2>2. walk'.found = walk.found /\ walk'.files = walk.files /\ walk'.at = walk.at
    BY <1>1, <2>1 DEF Proceed, IsWalk
  <2>3. QED
    BY <2>2, KindSame DEF Keeps
<1>8. ASSUME NEW name
      PROVE  /\ IsWalk(Beside(name)) /\ Kinds(Beside(name))
  <2>1. /\ IsWalk(Beside(name)) /\ Beside(name).found = walk.found /\ Beside(name).files \subseteq walk.files
        /\ Beside(name).at = walk.at
    BY <1>1 DEF Beside, IsWalk
  <2>2. QED
    BY <2>1, KindSame
<1>9. CASE SkipFile
  <2>1. PICK name \in walk.files : Proceed(Beside(name))
    BY <1>9 DEF SkipFile
  <2>2. QED
    BY <1>8, <2>1 DEF Proceed, Keeps
<1>10. CASE SourceDisappears
  <2>1. Incomplete
    BY <1>10 DEF SourceDisappears
  <2>2. QED
    BY <2>1, StopKinds
<1>11. CASE VisitSource
  <2>1. PICK name \in walk.files : Proceed(WalkOn(Select(Beside(name), SourceEntry(tree, Visited(name)))))
    BY <1>11 DEF VisitSource
  <2> DEFINE entry == SourceEntry(tree, Visited(name))
             rest == Beside(name)
             chosen == Select(rest, entry)
  <2>2. Visited(name) \in Paths /\ Visited(name) # <<>>
    <3>1. name \in Names
      BY <1>1 DEF IsWalk
    <3>2. Append(walk.at, name) \in Paths /\ Len(Append(walk.at, name)) = Len(walk.at) + 1 /\ Len(walk.at) \in Nat
      BY <1>1, <3>1, OneNameMore DEF Paths
    <3>3. QED
      BY <3>2 DEF Visited
  <2>3. entry \in Entries /\ entry.path = Visited(name) /\ ~entry.directory
    BY <1>1, <2>2, EntryIs
  <2>4. Kinds(rest) /\ IsWalk(rest)
    BY <1>8
  <2>5. IsWalk(chosen) /\ chosen.at = rest.at /\ chosen.files = rest.files
        /\ \A x \in chosen.found : x \in rest.found \/ x = entry \/ Marked(x)
    <3>1. /\ IsWalk(chosen)
          /\ \/ chosen.found = rest.found \/ chosen.found = rest.found \union {entry}
             \/ chosen.found = rest.found \union {Issue(entry.path, "PYA1006")}
      <4> HIDE DEF entry, rest
      <4>1. QED
        BY <2>2, <2>3, <2>4, SelectIs
    <3>2. Marked(Issue(entry.path, "PYA1006"))
      BY DEF Marked, Issue
    <3>3. chosen.at = rest.at /\ chosen.files = rest.files
      <4> HIDE DEF entry, rest
      <4>1. QED
        BY <2>4, SelectKeeps
    <3> HIDE DEF chosen
    <3>4. QED
      BY <3>1, <3>2, <3>3
  <2> HIDE DEF entry, rest, chosen
  <2>6. Kinds(chosen)
    <3>1. Whole /\ entry.path \in steady.exposed => ~IsDirectory(tree, entry.path)
      BY <2>1, <2>3 DEF Kinds, Visited
    <3>2. QED
      BY <2>4, <2>5, <3>1 DEF Kinds
  <2>7. Kinds(WalkOn(chosen))
    BY <1>3, <2>5, <2>6
  <2>8. QED
    BY <2>1, <2>7 DEF Proceed, Keeps, entry, rest, chosen
<1>12. CASE LeaveDirectory
  <2>1. Proceed(EndWalk(walk)) \/ \E stack : Proceed([walk EXCEPT !.stage = "list", !.stack = stack])
    BY <1>12 DEF LeaveDirectory
  <2>2. ASSUME NEW stack, Proceed([walk EXCEPT !.stage = "list", !.stack = stack]) PROVE Kinds(walk')
    <3>1. walk'.found = walk.found /\ walk'.files = walk.files /\ walk'.at = walk.at
      BY <1>1, <2>2 DEF Proceed, IsWalk
    <3>2. QED
      BY <3>1, KindSame
  <2>3. QED
    BY <1>1, <1>3, <2>1, <2>2 DEF Proceed, Keeps
<1>13. CASE ModulesFound \/ SourcesFound \/ BoundExceeded \/ DynamicFound
  <2>1. walk' = Idle \/ walk' = Begin(scenario.requests)
    BY <1>13 DEF ModulesFound, SourcesFound, BoundExceeded, DynamicFound, Conclude, Return
  <2>2. QED
    BY <2>1, KindBegins DEF Idle, Keeps
<1>14. QED
  BY <1>4, <1>5, <1>6, <1>7, <1>9, <1>10, <1>11, <1>12, <1>13 DEF WalkStep

LEMMA KindSteps ==
  ASSUME Keeps, UNCHANGED <<scenario, tree, steady>>, Whole' => Whole \/ walk' = Begin(WholeRoot)
  PROVE  KindInv'
<1>1. CASE walk' = Begin(WholeRoot)
  BY <1>1 DEF KindInv, Kinds, Begin
<1>2. CASE Whole' => Whole
  BY <1>2 DEF KindInv, Keeps, Kinds
<1>3. QED
  BY <1>1, <1>2

LEMMA KindEdited ==
  ASSUME KindInv, Edit
  PROVE  KindInv'
<1>1. EditTo(tree') /\ UNCHANGED <<scenario, walk, phase>>
  BY EditFrame DEF EditTo
<1>2. steady'.exposed = StillExposed(tree', steady.exposed)
  BY <1>1 DEF EditTo
<1>3. \A q \in steady'.exposed : q \in steady.exposed /\ (IsDirectory(tree', q) <=> IsDirectory(tree, q))
  BY <1>2 DEF StillExposed, SameKind
<1>4. Whole' <=> Whole
  BY <1>1 DEF Whole
<1>5. QED
  BY <1>1, <1>3, <1>4 DEF KindInv, Kinds

LEMMA KindKept ==
  ASSUME TreeInv, WalkInv, SteadyInv, FoundInv, KindInv, [Next]_vars
  PROVE  KindInv'
<1>1. CASE RequestStep \/ (WalkStep /\ ~ModulesFound)
  <2>1. Keeps
    BY <1>1, RequestKinds, WalkKinds DEF KindInv
  <2>2. UNCHANGED <<scenario, tree, steady>>
    BY <1>1, WalkFrame
  <2>3. phase' = phase \/ phase' \in {"read", "done"}
    BY <1>1, PhaseStays
  <2>4. Whole' => Whole
    BY <2>2, <2>3 DEF Whole
  <2>5. QED
    BY <2>1, <2>2, <2>4, KindSteps
<1>2. CASE ModulesFound
  <2>1. phase' = "scan"
    BY <1>2 DEF ModulesFound
  <2>2. QED
    BY <2>1 DEF KindInv, Kinds, Whole
<1>3. CASE ReportStep
  <2>1. \/ phase' = "done"
        \/ phase' = "dynamic" /\ walk' = Begin(WholeRoot)
    BY <1>3 DEF ReportStep, ReportStatic, ReportInferred, SearchDynamic, Conclude, Return
  <2>2. CASE phase' = "done"
    BY <2>2 DEF KindInv, Kinds, Whole
  <2>3. CASE walk' = Begin(WholeRoot)
    BY <2>3 DEF KindInv, Kinds, Begin
  <2>4. QED
    BY <2>1, <2>2, <2>3
<1>4. CASE ReadStep \/ UNCHANGED vars
  <2>1. UNCHANGED <<scenario, tree, steady, phase, walk>>
    BY <1>4 DEF vars, ReadStep, BeginRead, StatEntry, OpenEntry, ReadChunk, ValidateChain, ValidateLeaf, ReadUnchanged
  <2>2. QED
    BY <2>1 DEF KindInv, Kinds, Whole
<1>5. QED
  BY <1>1, <1>2, <1>3, <1>4, KindEdited DEF Next, ScanStep

LEMMA KindStarts ==
  ASSUME Init
  PROVE  KindInv
<1>1. \E requests : walk = Begin(requests)
  BY DEF Init
<1>2. QED
  BY <1>1, KindBegins DEF KindInv

\* The entries of a discovery of the whole root serve as an index of what was
\* there all along.
Indexes(entries) ==
  \/ \E e \in entries : e.code = "PYA1006"
  \/ \A q \in steady.exposed : \E e \in entries : e.path = q /\ (IsDirectory(tree, q) => e.directory)

LEMMA EndIndexes ==
  ASSUME CoverInv, KindInv, DiscoveryEnds, Whole
  PROVE  Indexes(walk.found)
<1>1. CASE \E e \in walk.found : e.code = "PYA1006"
  BY <1>1 DEF Indexes
<1>2. CASE \A e \in walk.found : e.code # "PYA1006"
  <2>1. Sought = steady.exposed
    BY DEF Sought, Whole
  <2>2. \A p \in steady.exposed : \E e \in walk.found : e.path = p
    BY <1>2, <2>1, EndFinds
  <2>3. \A e \in walk.found : e.path \in steady.exposed /\ IsDirectory(tree, e.path) => e.directory
    BY <1>2 DEF KindInv, Kinds, Marked
  <2>4. QED
    BY <2>2, <2>3 DEF Indexes
<1>3. QED
  BY <1>1, <1>2

\* A module that something there all along can provide is uncertain.
LEMMA Indexed ==
  ASSUME NEW entries, Indexes(entries), NEW q \in steady.exposed, NEW module \in DOMAIN KnownSince, Shadows(q, module)
  PROVE  module \in UncertainModules(entries, IndexIssues(entries))
<1>1. ASSUME NEW e \in entries, e.code = "PYA1006" \/ e.directory
      PROVE  module \in UncertainModules(entries, IndexIssues(entries))
  <2>1. IndexIssues(entries) # {}
    BY <1>1 DEF IndexIssues
  <2>2. QED
    BY <2>1 DEF UncertainModules
<1>2. CASE \E e \in entries : e.code = "PYA1006"
  BY <1>1, <1>2
<1>3. CASE \A p \in steady.exposed : \E e \in entries : e.path = p /\ (IsDirectory(tree, p) => e.directory)
  <2>1. PICK e \in entries : e.path = q /\ (IsDirectory(tree, q) => e.directory)
    BY <1>3
  <2>2. CASE e.directory
    BY <1>1, <2>2
  <2>3. CASE ~e.directory
    <3>1. Len(q) >= 2 /\ Last(q) \in Runtime /\ DynamicModule(q) = module
      BY <2>1, <2>3 DEF Shadows
    <3>2. module \in DynamicModules(entries)
      BY <2>1, <2>3, <3>1 DEF DynamicModules
    <3>3. QED
      BY <3>2 DEF UncertainModules
  <2>4. QED
    BY <2>2, <2>3
<1>4. QED
  BY <1>2, <1>3 DEF Indexes

\* The modules found first are such an index when the whole root was searched.
IndexInv == scenario.inferred /\ phase \in {"scan", "read"} => Indexes(discovered.modules)

LEMMA IndexStarts ==
  ASSUME Init
  PROVE  IndexInv
BY DEF Init, IndexInv

LEMMA IndexKept ==
  ASSUME WalkInv, CoverInv, KindInv, IndexInv, [Next]_vars
  PROVE  IndexInv'
<1>1. CASE Edit
  <2>1. EditTo(tree') /\ UNCHANGED <<scenario, discovered, phase>>
    BY <1>1, EditFrame DEF EditTo
  <2>2. \A q \in steady'.exposed : q \in steady.exposed /\ (IsDirectory(tree', q) <=> IsDirectory(tree, q))
    BY <2>1 DEF EditTo, StillExposed, SameKind
  <2>3. QED
    BY <2>1, <2>2 DEF IndexInv, Indexes
<1>2. CASE ModulesFound
  <2>1. DiscoveryEnds /\ phase = "modules" /\ discovered' = [discovered EXCEPT !.modules = walk.found]
    BY <1>2 DEF ModulesFound
  <2>2. UNCHANGED <<scenario, tree, steady>> /\ discovered'.modules = walk.found
    BY <1>2, <2>1 DEF ModulesFound, treeVars, WalkInv, Discoveries
  <2>3. ASSUME scenario.inferred PROVE Indexes(walk.found)
    BY <2>1, <2>3, EndIndexes DEF Whole
  <2>4. QED
    BY <2>2, <2>3 DEF IndexInv, Indexes
<1>3. CASE UNCHANGED <<scenario, tree, edits, steady>> /\ ~ModulesFound
  <2>1. phase' \in {"scan", "read"} => phase \in {"scan", "read"} /\ discovered'.modules = discovered.modules
    <3>1. CASE RequestStep
      <4>1. UNCHANGED discovered
        BY <3>1 DEF RequestStep, RequestOutside, RequestThroughLink, RequestBuiltIn, RequestDirectory, RequestFile, Untouched
      <4>2. phase' = phase \/ phase' = "done"
        BY <3>1, StopIs DEF RequestStep, RequestOutside, RequestThroughLink, RequestBuiltIn, RequestDirectory, RequestFile,
           Proceed
      <4>3. QED
        BY <4>1, <4>2
    <3>2. CASE WalkStep
      <4>1. CASE ListDirectory \/ PrepareDirectory \/ VisitSubdirectory \/ SubdirectoriesVisited \/ SkipFile
                 \/ SourceDisappears \/ VisitSource \/ LeaveDirectory
        <5>1. UNCHANGED discovered
          BY <4>1 DEF ListDirectory, PrepareDirectory, VisitSubdirectory, SubdirectoriesVisited, SkipFile,
             SourceDisappears, VisitSource, LeaveDirectory, Untouched
        <5>2. phase' = phase \/ phase' = "done"
          BY <4>1, StopIs DEF ListDirectory, PrepareDirectory, VisitSubdirectory, SubdirectoriesVisited, SkipFile,
             SourceDisappears, VisitSource, LeaveDirectory, Proceed
        <5>3. QED
          BY <5>1, <5>2
      <4>2. CASE SourcesFound
        BY <4>2 DEF SourcesFound, WalkInv, Discoveries
      <4>3. CASE BoundExceeded \/ DynamicFound
        BY <4>3 DEF BoundExceeded, DynamicFound, Conclude, Return
      <4>4. QED
        BY <1>3, <3>2, <4>1, <4>2, <4>3 DEF WalkStep
    <3>3. CASE ReadStep \/ UNCHANGED vars
      BY <3>3 DEF vars, ReadStep, BeginRead, StatEntry, OpenEntry, ReadChunk, ValidateChain, ValidateLeaf, ReadUnchanged
    <3>4. CASE ReportStep
      BY <3>4 DEF ReportStep, ReportStatic, ReportInferred, SearchDynamic, Conclude, Return
    <3>5. CASE Edit
      <4>1. EditTo(tree')
        BY <3>5, EditFrame
      <4>2. QED
        BY <4>1 DEF EditTo
    <3>6. QED
      BY <3>1, <3>2, <3>3, <3>4, <3>5 DEF Next, ScanStep
  <2>2. QED
    BY <1>3, <2>1 DEF IndexInv, Indexes
<1>4. QED
  BY <1>1, <1>2, <1>3, TreeFrame

-----------------------------------------------------------------------------
(* What the first visits retained.  The modules the project can provide do  *)
(* not change while sources are read.                                       *)

Modules == ProjectModules(discovered.modules, scenario.inferred, Range(scenario.roots))

Unfinished(a) == a.incomplete /\ a.mutations = {} /\ a.fallbacks = {}

FirstInv ==
  /\ phase \in {"modules", "scan"} => DOMAIN analyses = {}
  /\ phase # "done" =>
       \A p \in DOMAIN analyses :
         \/ Unfinished(analyses[p])
         \/ p \in DOMAIN accepted /\ analyses[p] = Analysis(accepted[p].data[1], Modules, <<>>)
  /\ \A p \in DOMAIN accepted : \A m \in accepted[p].data[1].mutations : m.versions \subseteq Targets

LEMMA FirstStarts ==
  ASSUME Init
  PROVE  FirstInv
BY DEF Init, FirstInv

LEMMA FirstSame ==
  ASSUME FirstInv, UNCHANGED <<scenario, analyses, accepted>>, phase # "done",
         \/ DOMAIN analyses = {}
         \/ phase' \notin {"modules", "scan"} /\ discovered'.modules = discovered.modules
  PROVE  FirstInv'
<1>1. CASE DOMAIN analyses = {}
  BY <1>1 DEF FirstInv
<1>2. CASE phase' \notin {"modules", "scan"} /\ discovered'.modules = discovered.modules
  <2>1. Modules' = Modules
    BY <1>2 DEF Modules
  <2>2. QED
    BY <1>2, <2>1 DEF FirstInv
<1>3. QED
  BY <1>1, <1>2

\* The end of a scan leaves what was accepted.
LEMMA FirstEnds ==
  ASSUME FirstInv, phase' = "done", UNCHANGED accepted
  PROVE  FirstInv'
BY DEF FirstInv

LEMMA FirstRetained ==
  ASSUME FirstInv, phase \notin {"modules", "scan", "done"}, UNCHANGED <<scenario, phase, discovered>>, NEW a, Retain(a),
         \/ accepted' = accepted /\ Unfinished(a)
         \/ \E d, h : /\ accepted' = [p \in DOMAIN accepted \union {read.path} |->
                                       IF p = read.path THEN [data |-> d, held |-> h] ELSE accepted[p]]
                      /\ a = Analysis(d[1], Modules, <<>>)
                      /\ \A m \in d[1].mutations : m.versions \subseteq Targets
  PROVE  FirstInv'
<1>1. /\ DOMAIN analyses' = DOMAIN analyses \union {read.path} /\ analyses'[read.path] = a
      /\ \A p \in DOMAIN analyses : p # read.path => analyses'[p] = analyses[p]
  BY DEF Retain
<1>2. Modules' = Modules
  BY DEF Modules
<1>3. CASE accepted' = accepted /\ Unfinished(a)
  BY <1>1, <1>2, <1>3 DEF FirstInv
<1>4. CASE \E d, h : /\ accepted' = [p \in DOMAIN accepted \union {read.path} |->
                                       IF p = read.path THEN [data |-> d, held |-> h] ELSE accepted[p]]
                     /\ a = Analysis(d[1], Modules, <<>>)
                     /\ \A m \in d[1].mutations : m.versions \subseteq Targets
  <2>1. PICK d, h : /\ accepted' = [p \in DOMAIN accepted \union {read.path} |->
                                       IF p = read.path THEN [data |-> d, held |-> h] ELSE accepted[p]]
                    /\ a = Analysis(d[1], Modules, <<>>)
                    /\ \A m \in d[1].mutations : m.versions \subseteq Targets
    BY <1>4
  <2>2. DOMAIN accepted' = DOMAIN accepted \union {read.path} /\ accepted'[read.path].data = d
        /\ \A p \in DOMAIN accepted : p # read.path => accepted'[p] = accepted[p]
    BY <2>1
  <2>3. ASSUME NEW p \in DOMAIN accepted', NEW m \in accepted'[p].data[1].mutations PROVE m.versions \subseteq Targets
    <3>1. CASE p = read.path
      BY <2>1, <2>2, <2>3, <3>1
    <3>2. CASE p # read.path
      BY <2>2, <2>3, <3>2 DEF FirstInv
    <3>3. QED
      BY <3>1, <3>2
  <2>4. ASSUME NEW p \in DOMAIN analyses'
        PROVE  \/ Unfinished(analyses'[p])
               \/ p \in DOMAIN accepted' /\ analyses'[p] = Analysis(accepted'[p].data[1], Modules', <<>>)
    <3>1. CASE p = read.path
      BY <1>1, <1>2, <2>1, <2>2, <3>1
    <3>2. CASE p # read.path
      <4>1. p \in DOMAIN analyses /\ analyses'[p] = analyses[p]
        BY <1>1, <3>2
      <4>2. p \in DOMAIN accepted => p \in DOMAIN accepted' /\ accepted'[p] = accepted[p]
        BY <2>2, <3>2
      <4>3. QED
        BY <1>2, <4>1, <4>2 DEF FirstInv
    <3>3. QED
      BY <3>1, <3>2
  <2>5. QED
    BY <2>3, <2>4 DEF FirstInv
<1>5. QED
  BY <1>3, <1>4

LEMMA FirstFails ==
  ASSUME FirstInv, phase \notin {"modules", "scan", "done"}, UNCHANGED <<scenario, phase, discovered>>, NEW inode, ReadFails(inode)
  PROVE  FirstInv'
<1>1. accepted' = accepted /\ \E code : Retain(Unreadable(code))
  BY DEF ReadFails
<1>2. PICK code : Retain(Unreadable(code))
  BY <1>1
<1>3. Unfinished(Unreadable(code))
  BY DEF Unfinished, Unreadable
<1>4. QED
  BY <1>1, <1>2, <1>3, FirstRetained

LEMMA FirstLeaf ==
  ASSUME TreeInv, ReadInv, FirstInv, phase \notin {"modules", "scan", "done"}, ValidateLeaf
  PROVE  FirstInv'
<1>1. /\ IsTree(tree) /\ read.stage = "leaf" /\ ReadShape(read, tree) /\ Faithful(read, tree, held)
  BY DEF TreeInv, ReadInv, ValidateLeaf
<1>2. UNCHANGED <<scenario, phase, discovered>>
  BY DEF ValidateLeaf, ReadUnchanged
<1>3. CASE ~StableLeaf \/ Oversized
  <2>1. ReadFails(CurrentLeaf)
    BY <1>3 DEF ValidateLeaf
  <2>2. QED
    BY <1>2, <2>1, FirstFails
<1>4. CASE ~(~StableLeaf \/ Oversized)
  <2> DEFINE d == read.data
             a == Analysis(d[1], Modules, <<>>)
  <2>1. /\ Retain(a)
        /\ accepted' = [p \in DOMAIN accepted \union {read.path} |->
                               IF p = read.path THEN [data |-> d, held |-> held] ELSE accepted[p]]
    BY <1>4 DEF ValidateLeaf, Modules
  <2>2. tree[LeafOf(read)].stamp = read.stamp
    BY <1>1, <1>4, LeafIs DEF StableLeaf
  <2>3. 1 \in DOMAIN d
    <3>1. d = <<d[1], d[2]>>
      BY <1>1 DEF ReadShape
    <3> DEFINE x == d[1]
               y == d[2]
    <3> HIDE DEF d, x, y
    <3>2. d = <<x, y>>
      BY <3>1 DEF x, y
    <3>3. QED
      BY ONLY <3>2
  <2>4. d[1] = tree[LeafOf(read)].content
    BY <1>1, <2>2, <2>3 DEF Faithful
  <2>5. LeafOf(read) \in DOMAIN tree /\ tree[LeafOf(read)].kind = "file"
    BY <1>1, LeafIs
  <2>6. \A m \in d[1].mutations : m.versions \subseteq Targets
    <3>1. \A m \in tree[LeafOf(read)].content.mutations : m.versions \subseteq Targets
      BY <1>1, <2>5 DEF IsTree
    <3>2. QED
      BY <2>4, <3>1
  <2> HIDE DEF a, d
  <2>7. \E e, h : /\ accepted' = [p \in DOMAIN accepted \union {read.path} |->
                                       IF p = read.path THEN [data |-> e, held |-> h] ELSE accepted[p]]
                  /\ a = Analysis(e[1], Modules, <<>>)
                  /\ \A m \in e[1].mutations : m.versions \subseteq Targets
    BY <2>1, <2>6 DEF a
  <2>8. QED
    BY <1>2, <2>1, <2>7, FirstRetained
<1>5. QED
  BY <1>3, <1>4

LEMMA FirstKept ==
  ASSUME TreeInv, WalkInv, ReadInv, FoundInv, FirstInv, [Next]_vars
  PROVE  FirstInv'
<1>1. CASE RequestStep \/ WalkStep \/ ReportStep
  <2>1. UNCHANGED <<scenario, accepted>>
    BY <1>1, WalkFrame
  <2>2. phase # "done"
    BY <1>1 DEF RequestStep, RequestOutside, RequestThroughLink, RequestBuiltIn, RequestDirectory, RequestFile,
       RequestInside, AtRequest, WalkStep, ListDirectory, PrepareDirectory, VisitSubdirectory, SubdirectoriesVisited,
       SkipFile, SourceDisappears, VisitSource, LeaveDirectory, ModulesFound, SourcesFound, BoundExceeded, DynamicFound,
       AtFile, DiscoveryEnds, Discovering, ReportStep, ReportStatic, ReportInferred, SearchDynamic
  <2>3. CASE phase' = "done"
    BY <2>1, <2>3, FirstEnds
  <2>4. CASE phase' # "done"
    <3>1. /\ analyses' = analyses
          /\ \/ phase \in {"modules", "scan"}
             \/ phase' = "dynamic" /\ discovered'.modules = discovered.modules
      <4>1. CASE RequestStep
        <5>1. ASSUME NEW f, Incomplete \/ Invalid \/ Refuse(f) PROVE FALSE
          BY <2>4, <5>1, StopIs
        <5>2. UNCHANGED <<phase, analyses, discovered>> /\ Discovering
          BY <4>1, <5>1 DEF RequestStep, RequestOutside, RequestThroughLink, RequestBuiltIn, RequestDirectory, RequestFile,
             RequestInside, AtRequest, Untouched, Proceed
        <5>3. QED
          BY <5>2 DEF Discovering
      <4>2. CASE ListDirectory \/ PrepareDirectory \/ VisitSubdirectory \/ SubdirectoriesVisited \/ SkipFile
                 \/ SourceDisappears \/ VisitSource \/ LeaveDirectory
        <5>1. ASSUME NEW f, Incomplete \/ Invalid \/ Refuse(f) PROVE FALSE
          BY <2>4, <5>1, StopIs
        <5>2. UNCHANGED <<phase, analyses, discovered>> /\ Discovering
          BY <4>2, <5>1 DEF ListDirectory, PrepareDirectory, VisitSubdirectory, SubdirectoriesVisited, SkipFile,
             SourceDisappears, VisitSource, LeaveDirectory, Untouched, Proceed, AtFile
        <5>3. QED
          BY <5>2 DEF Discovering
      <4>3. CASE ModulesFound \/ SourcesFound
        BY <4>3 DEF ModulesFound, SourcesFound
      <4>4. CASE BoundExceeded \/ DynamicFound
        BY <2>4, <4>4 DEF BoundExceeded, DynamicFound, Conclude, Return
      <4>5. CASE ReportStep
        BY <2>4, <4>5 DEF ReportStep, ReportStatic, ReportInferred, SearchDynamic, Conclude, Return
      <4>6. QED
        BY <1>1, <4>1, <4>2, <4>3, <4>4, <4>5 DEF WalkStep
    <3>2. phase \in {"modules", "scan"} => DOMAIN analyses = {}
      BY DEF FirstInv
    <3>3. QED
      BY <2>1, <2>2, <3>1, <3>2, FirstSame
  <2>5. QED
    BY <2>3, <2>4
<1>2. CASE ReadStep
  <2>1. UNCHANGED <<scenario, phase, discovered>> /\ phase = "read"
    <3>1. NoRead.stage = "idle"
      BY DEF NoRead
    <3>2. read.stage # "idle" => phase = "read"
      BY DEF FoundInv
    <3>3. QED
      BY <1>2, <3>2 DEF ReadStep, BeginRead, StatEntry, OpenEntry, ReadChunk, ValidateChain, ValidateLeaf, ReadUnchanged
  <2>2. \/ UNCHANGED <<analyses, accepted>>
        \/ ValidateLeaf
        \/ \E inode : ReadFails(inode)
    BY <1>2 DEF ReadStep, BeginRead, StatEntry, OpenEntry, ReadChunk, ValidateChain
  <2>3. CASE UNCHANGED <<analyses, accepted>>
    BY <2>1, <2>3, FirstSame
  <2>4. QED
    BY <2>1, <2>2, <2>3, FirstLeaf, FirstFails
<1>3. CASE Edit
  <2>1. UNCHANGED <<scenario, phase, discovered, analyses, accepted>>
    BY <1>3, EditFrame DEF EditTo
  <2>2. QED
    BY <2>1 DEF FirstInv, Modules
<1>4. CASE UNCHANGED vars
  BY <1>4 DEF FirstInv, Modules, vars
<1>5. QED
  BY <1>1, <1>2, <1>3, <1>4 DEF Next, ScanStep

-----------------------------------------------------------------------------
(* The second visit.                                                        *)

\* What a handler is narrowed to.
LEMMA HandlerIs ==
  ASSUME NEW try, NEW modules, NEW U, NEW versions
  PROVE  /\ HandlerVersions(try, modules, <<>>)
              = IF Narrowed(try, modules) THEN Targets \ Guaranteed(try) ELSE Targets
         /\ HandlerVersions(try, modules, [m \in U |-> versions])
              = IF Narrowed(try, modules)
                THEN IF try.module \in U THEN Targets \ (Guaranteed(try) \ versions) ELSE Targets \ Guaranteed(try)
                ELSE Targets
<1>1. Guaranteed(try) \ {} = Guaranteed(try)
  OBVIOUS
<1>2. try.module \notin DOMAIN <<>>
  OBVIOUS
<1>3. DOMAIN [m \in U |-> versions] = U /\ (try.module \in U => [m \in U |-> versions][try.module] = versions)
  OBVIOUS
<1>4. QED
  BY <1>1, <1>2, <1>3 DEF HandlerVersions

\* What the handlers of a source insert.
Own(c, modules, uncertain) ==
  {Operation("insert", HandlerVersions(c.tries[k], modules, uncertain)) :
      k \in {j \in DOMAIN c.tries : c.tries[j].inserts /\ HandlerVersions(c.tries[j], modules, uncertain) # {}}}

\* What is retained of a source that could be analysed.
LEMMA AnalysedIs ==
  ASSUME NEW c, NEW modules, NEW uncertain, NEW a, a = Analysis(c, modules, uncertain), ~a.incomplete
  PROVE  /\ ~c.broken
         /\ \A k \in DOMAIN c.tries : a.handlers[k] = HandlerVersions(c.tries[k], modules, uncertain)
         /\ a.fallbacks = {t.module : t \in {x \in Range(c.tries) : Narrowed(x, modules)}}
         /\ a.mutations = c.mutations \union Own(c, modules, uncertain)
<1> DEFINE handlers == [k \in DOMAIN c.tries |-> HandlerVersions(c.tries[k], modules, uncertain)]
<1>1. ~c.broken
  BY DEF Analysis, Unreadable
<1>2. /\ DOMAIN handlers = DOMAIN c.tries
      /\ \A k \in DOMAIN c.tries : handlers[k] = HandlerVersions(c.tries[k], modules, uncertain)
  OBVIOUS
<1>3. {Operation("insert", handlers[k]) : k \in {j \in DOMAIN handlers : c.tries[j].inserts /\ handlers[j] # {}}}
       = Own(c, modules, uncertain)
  BY <1>2 DEF Own
<1>4. /\ a.handlers = handlers
      /\ a.fallbacks = {t.module : t \in {x \in Range(c.tries) : Narrowed(x, modules)}}
      /\ a.mutations = c.mutations \union
           {Operation("insert", handlers[k]) : k \in {j \in DOMAIN handlers : c.tries[j].inserts /\ handlers[j] # {}}}
  BY <1>1 DEF Analysis
<1>5. QED
  BY <1>1, <1>2, <1>3, <1>4

\* What an analysis inserts.
InsertedBy(a) == UNION {m.versions : m \in {x \in a.mutations : x.operation = "insert"}}

LEMMA InsertedIs ==
  ASSUME NEW f
  PROVE  Inserted(Range(f)) = UNION {InsertedBy(f[p]) : p \in DOMAIN f}
<1>1. \A v : v \in Inserted(Range(f)) <=> \E p \in DOMAIN f : v \in InsertedBy(f[p])
  BY DEF Inserted, Range, InsertedBy
<1>2. QED
  BY <1>1

LEMMA InsertedByIs ==
  ASSUME NEW c, NEW modules, NEW uncertain, NEW a, a = Analysis(c, modules, uncertain), ~a.incomplete, NEW v
  PROVE  v \in InsertedBy(a) <=>
           \/ v \in InsertedBy(c)
           \/ \E k \in DOMAIN c.tries : c.tries[k].inserts /\ v \in HandlerVersions(c.tries[k], modules, uncertain)
<1>1. a.mutations = c.mutations \union Own(c, modules, uncertain)
  BY AnalysedIs
<1>2. (\E m \in Own(c, modules, uncertain) : m.operation = "insert" /\ v \in m.versions)
        <=> \E k \in DOMAIN c.tries : c.tries[k].inserts /\ v \in HandlerVersions(c.tries[k], modules, uncertain)
  <2>1. ASSUME NEW m \in Own(c, modules, uncertain), v \in m.versions
        PROVE  \E k \in DOMAIN c.tries : c.tries[k].inserts /\ v \in HandlerVersions(c.tries[k], modules, uncertain)
    <3>1. PICK k \in DOMAIN c.tries : /\ c.tries[k].inserts
                                      /\ m = Operation("insert", HandlerVersions(c.tries[k], modules, uncertain))
      BY DEF Own
    <3>2. m.versions = HandlerVersions(c.tries[k], modules, uncertain)
      BY <3>1 DEF Operation
    <3>3. QED
      BY <2>1, <3>1, <3>2
  <2>2. ASSUME NEW k \in DOMAIN c.tries, c.tries[k].inserts, v \in HandlerVersions(c.tries[k], modules, uncertain)
        PROVE  \E m \in Own(c, modules, uncertain) : m.operation = "insert" /\ v \in m.versions
    <3> DEFINE m == Operation("insert", HandlerVersions(c.tries[k], modules, uncertain))
    <3>1. m.operation = "insert" /\ m.versions = HandlerVersions(c.tries[k], modules, uncertain)
      BY DEF Operation
    <3>2. m \in Own(c, modules, uncertain)
      BY <2>2 DEF Own
    <3> HIDE DEF m
    <3>3. QED
      BY <2>2, <3>1, <3>2
  <2>3. QED
    BY <2>1, <2>2
<1>3. v \in InsertedBy(a) <=> \E m \in a.mutations : m.operation = "insert" /\ v \in m.versions
  BY DEF InsertedBy
<1>4. v \in InsertedBy(c) <=> \E m \in c.mutations : m.operation = "insert" /\ v \in m.versions
  BY DEF InsertedBy
<1>5. QED
  BY <1>1, <1>2, <1>3, <1>4

\* The modules and versions of a second visit.
Before == Inserted(Range(analyses))
Doubts(entries, issues) == [m \in UncertainModules(entries, issues) |-> Before]

\* A source is unreadable whatever is uncertain.
LEMMA BrokenIs ==
  ASSUME NEW c, NEW modules, NEW uncertain
  PROVE  LET a == Analysis(c, modules, uncertain) IN
         /\ c.broken => a.incomplete /\ a.fallbacks = {} /\ a.mutations = {}
         /\ ~c.broken => ~a.incomplete
BY DEF Analysis, Unreadable

LEMMA FirstVisit ==
  ASSUME KeptInv, FirstInv, phase # "done", NEW p \in DOMAIN analyses
  PROVE  \/ analyses[p].incomplete /\ analyses[p].fallbacks = {} /\ analyses[p].mutations = {}
         \/ /\ p \in DOMAIN accepted /\ ~accepted[p].data[1].broken /\ ~analyses[p].incomplete
            /\ analyses[p] = Analysis(accepted[p].data[1], Modules, <<>>)
            /\ analyses[p].fallbacks # {} => analyses[p].source = accepted[p].data[1]
<1>1. CASE Unfinished(analyses[p])
  BY <1>1 DEF Unfinished
<1>2. CASE p \in DOMAIN accepted /\ analyses[p] = Analysis(accepted[p].data[1], Modules, <<>>)
  <2>1. CASE accepted[p].data[1].broken
    BY <1>2, <2>1, BrokenIs
  <2>2. CASE ~accepted[p].data[1].broken
    <3>1. ~analyses[p].incomplete
      BY <1>2, <2>2, BrokenIs
    <3>2. analyses[p].fallbacks # {} => analyses[p].source = accepted[p].data[1]
      BY DEF KeptInv
    <3>3. QED
      BY <1>2, <2>2, <3>1, <3>2
  <2>3. QED
    BY <2>1, <2>2
<1>3. QED
  BY <1>1, <1>2 DEF FirstInv

LEMMA RevisitIs ==
  ASSUME KeptInv, FirstInv, phase # "done", NEW entries, NEW issues, NEW p \in DOMAIN analyses
  PROVE  LET final == Revisited(entries, issues)
             again == Before # {} /\ analyses[p].fallbacks \intersect UncertainModules(entries, issues) # {}
         IN /\ again => final[p] = Analysis(accepted[p].data[1], Modules, Doubts(entries, issues))
            /\ ~again => final[p] = analyses[p]
<1> DEFINE final == Revisited(entries, issues)
           U == UncertainModules(entries, issues)
           doubts == Doubts(entries, issues)
           affected == {q \in DOMAIN analyses : analyses[q].fallbacks \intersect U # {}}
<1>1. final = IF Before = {} THEN analyses
              ELSE [q \in DOMAIN analyses |->
                      IF q \in affected THEN Analysis(analyses[q].source, Modules, doubts) ELSE analyses[q]]
  <2>1. DOMAIN doubts = U
    BY DEF Doubts
  <2>2. QED
    BY <2>1 DEF Revisited, Before, Doubts, Modules
<1>2. p \in affected <=> analyses[p].fallbacks \intersect U # {}
  OBVIOUS
<1>3. analyses[p].fallbacks # {} => analyses[p].source = accepted[p].data[1]
  BY DEF KeptInv
<1> HIDE DEF final, affected, U, doubts
<1>4. CASE Before # {} /\ analyses[p].fallbacks \intersect U # {}
  <2>1. final[p] = Analysis(analyses[p].source, Modules, doubts)
    BY <1>1, <1>2, <1>4
  <2>2. analyses[p].source = accepted[p].data[1]
    BY <1>3, <1>4
  <2>3. QED
    BY <1>4, <2>1, <2>2 DEF final, U, doubts
<1>5. CASE ~(Before # {} /\ analyses[p].fallbacks \intersect U # {})
  <2>1. final[p] = analyses[p]
    BY <1>1, <1>2, <1>5
  <2>2. QED
    BY <1>5, <2>1 DEF final, U
<1>6. QED
  BY <1>4, <1>5

\* Whatever is visited again, a handler ends as if everything had been.
LEMMA HandlerEnds ==
  ASSUME KeptInv, FirstInv, phase # "done", NEW entries, NEW issues, NEW p \in DOMAIN analyses,
         ~Revisited(entries, issues)[p].incomplete
  PROVE  /\ p \in DOMAIN accepted
         /\ \A k \in DOMAIN accepted[p].data[1].tries :
              LET try == accepted[p].data[1].tries[k] IN
              Revisited(entries, issues)[p].handlers[k]
                = IF Narrowed(try, Modules)
                  THEN IF try.module \in UncertainModules(entries, issues)
                       THEN Targets \ (Guaranteed(try) \ Before) ELSE Targets \ Guaranteed(try)
                  ELSE Targets
<1> DEFINE final == Revisited(entries, issues)
           U == UncertainModules(entries, issues)
           again == Before # {} /\ analyses[p].fallbacks \intersect U # {}
           c == accepted[p].data[1]
<1>1. /\ again => final[p] = Analysis(c, Modules, Doubts(entries, issues))
      /\ ~again => final[p] = analyses[p]
  BY RevisitIs
<1>2. /\ p \in DOMAIN accepted /\ ~c.broken /\ ~analyses[p].incomplete
      /\ analyses[p] = Analysis(c, Modules, <<>>)
  <2>1. analyses[p].incomplete /\ analyses[p].fallbacks = {} => ~again
    OBVIOUS
  <2> HIDE DEF again
  <2>2. QED
    BY <1>1, <2>1, FirstVisit
<1>3. ASSUME NEW k \in DOMAIN c.tries
      PROVE  LET try == c.tries[k] IN
             final[p].handlers[k]
                = IF Narrowed(try, Modules)
                  THEN IF try.module \in U THEN Targets \ (Guaranteed(try) \ Before) ELSE Targets \ Guaranteed(try)
                  ELSE Targets
  <2> DEFINE try == c.tries[k]
  <2>1. CASE again
    <3>1. final[p] = Analysis(c, Modules, Doubts(entries, issues)) /\ ~final[p].incomplete
      BY <1>1, <2>1
    <3>2. final[p].handlers[k] = HandlerVersions(try, Modules, Doubts(entries, issues))
      BY <3>1, AnalysedIs
    <3>3. HandlerVersions(try, Modules, Doubts(entries, issues))
            = IF Narrowed(try, Modules)
              THEN IF try.module \in U THEN Targets \ (Guaranteed(try) \ Before) ELSE Targets \ Guaranteed(try)
              ELSE Targets
      BY HandlerIs DEF Doubts
    <3>4. QED
      BY <3>2, <3>3
  <2>2. CASE ~again
    <3>1. final[p] = analyses[p]
      BY <1>1, <2>2
    <3>2. /\ analyses[p].handlers[k] = HandlerVersions(try, Modules, <<>>)
          /\ analyses[p].fallbacks = {t.module : t \in {x \in Range(c.tries) : Narrowed(x, Modules)}}
      BY <1>2, AnalysedIs
    <3>3. HandlerVersions(try, Modules, <<>>) = IF Narrowed(try, Modules) THEN Targets \ Guaranteed(try) ELSE Targets
      BY HandlerIs
    <3>4. Narrowed(try, Modules) => try.module \in analyses[p].fallbacks
      BY <3>2 DEF Range
    <3>5. CASE Before = {}
      <4>1. Guaranteed(try) \ Before = Guaranteed(try)
        BY <3>5
      <4>2. QED
        BY <3>1, <3>2, <3>3, <4>1
    <3>6. CASE analyses[p].fallbacks \intersect U = {}
      <4>1. Narrowed(try, Modules) => try.module \notin U
        BY <3>4, <3>6
      <4>2. QED
        BY <3>1, <3>2, <3>3, <4>1
    <3>7. QED
      BY <2>2, <3>5, <3>6
  <2>3. QED
    BY <2>1, <2>2
<1>4. QED
  BY <1>2, <1>3

\* Inserts are made on targets.
LEMMA BeforeIs ==
  ASSUME KeptInv, FirstInv, phase # "done"
  PROVE  Before \subseteq Targets
<1>1. ASSUME NEW p \in DOMAIN analyses, NEW v \in InsertedBy(analyses[p]) PROVE v \in Targets
  <2> DEFINE c == accepted[p].data[1]
  <2>1. p \in DOMAIN accepted /\ ~analyses[p].incomplete /\ analyses[p] = Analysis(c, Modules, <<>>)
    BY <1>1, FirstVisit DEF InsertedBy
  <2>2. CASE v \in InsertedBy(c)
    BY <2>1, <2>2 DEF FirstInv, InsertedBy
  <2>3. CASE \E k \in DOMAIN c.tries : v \in HandlerVersions(c.tries[k], Modules, <<>>)
    BY <2>3 DEF HandlerVersions
  <2>4. QED
    BY <1>1, <2>1, <2>2, <2>3, InsertedByIs
<1>2. Before = UNION {InsertedBy(analyses[p]) : p \in DOMAIN analyses}
  BY InsertedIs DEF Before
<1>3. QED
  BY <1>1, <1>2

\* A second visit inserts on no other target.
LEMMA InsertsStay ==
  ASSUME KeptInv, FirstInv, phase # "done", NEW entries, NEW issues
  PROVE  Inserted(Range(Revisited(entries, issues))) = Before
<1> DEFINE final == Revisited(entries, issues)
           U == UncertainModules(entries, issues)
           doubts == Doubts(entries, issues)
<1>1. DOMAIN final = DOMAIN analyses
  BY RevisitDomain
<1>2. /\ Before = UNION {InsertedBy(analyses[p]) : p \in DOMAIN analyses}
      /\ Inserted(Range(final)) = UNION {InsertedBy(final[p]) : p \in DOMAIN final}
  BY InsertedIs DEF Before
<1>3. ASSUME NEW p \in DOMAIN analyses
      PROVE  InsertedBy(analyses[p]) \subseteq InsertedBy(final[p]) /\ InsertedBy(final[p]) \subseteq InsertedBy(analyses[p]) \union Before
  <2> DEFINE c == accepted[p].data[1]
  <2>1. CASE final[p] = analyses[p]
    BY <2>1
  <2>2. CASE final[p] # analyses[p]
    <3>1. final[p] = Analysis(c, Modules, doubts) /\ analyses[p].fallbacks # {}
      BY <2>2, RevisitIs
    <3>2. ~c.broken /\ ~analyses[p].incomplete /\ analyses[p] = Analysis(c, Modules, <<>>)
      BY <3>1, FirstVisit
    <3>3. ~final[p].incomplete
      BY <3>1, <3>2, BrokenIs
    <3>4. ASSUME NEW k \in DOMAIN c.tries
          PROVE  /\ HandlerVersions(c.tries[k], Modules, <<>>) \subseteq HandlerVersions(c.tries[k], Modules, doubts)
                 /\ HandlerVersions(c.tries[k], Modules, doubts) \subseteq HandlerVersions(c.tries[k], Modules, <<>>) \union Before
      <4> DEFINE try == c.tries[k]
      <4>1. /\ HandlerVersions(try, Modules, <<>>) = IF Narrowed(try, Modules) THEN Targets \ Guaranteed(try) ELSE Targets
            /\ HandlerVersions(try, Modules, doubts)
                 = IF Narrowed(try, Modules)
                   THEN IF try.module \in U THEN Targets \ (Guaranteed(try) \ Before) ELSE Targets \ Guaranteed(try)
                   ELSE Targets
        BY HandlerIs DEF Doubts
      <4> HIDE DEF try, U, doubts
      <4>2. QED
        BY <4>1 DEF try
    <3>5. ASSUME NEW v
          PROVE  /\ v \in InsertedBy(analyses[p]) <=>
                      \/ v \in InsertedBy(c)
                      \/ \E k \in DOMAIN c.tries : c.tries[k].inserts /\ v \in HandlerVersions(c.tries[k], Modules, <<>>)
                 /\ v \in InsertedBy(final[p]) <=>
                      \/ v \in InsertedBy(c)
                      \/ \E k \in DOMAIN c.tries : c.tries[k].inserts /\ v \in HandlerVersions(c.tries[k], Modules, doubts)
      BY <3>1, <3>2, <3>3, InsertedByIs
    <3> HIDE DEF final, doubts, c
    <3>6. QED
      BY <3>4, <3>5
  <2>3. QED
    BY <2>1, <2>2
<1> HIDE DEF final
<1>4. QED
  BY <1>1, <1>2, <1>3 DEF final

\* HandlersSettled for what was retained of the sources.
Settled(final) ==
  \A p \in DOMAIN final : ~final[p].incomplete =>
    \A k \in DOMAIN accepted[p].data[1].tries :
      LET try == accepted[p].data[1].tries[k] IN
      /\ Targets \ Guaranteed(try) \subseteq final[p].handlers[k]
      /\ (\E q \in steady.exposed : Shadows(q, try.module)) => Inserted(Range(final)) \subseteq final[p].handlers[k]
      /\ try.module \in DOMAIN KnownSince /\ Narrowed(try, Modules)
           => final[p].handlers[k] \subseteq (Targets \ Guaranteed(try)) \union Inserted(Range(final))

LEMMA RevisitSettles ==
  ASSUME KeptInv, FirstInv, phase # "done", NEW entries, NEW issues,
         \/ Before = {}
         \/ \A q \in steady.exposed : \A module \in DOMAIN KnownSince :
              Shadows(q, module) => module \in UncertainModules(entries, issues)
  PROVE  Settled(Revisited(entries, issues))
<1> DEFINE final == Revisited(entries, issues)
           U == UncertainModules(entries, issues)
<1>1. SUFFICES ASSUME NEW p \in DOMAIN final, ~final[p].incomplete, NEW k \in DOMAIN accepted[p].data[1].tries
               PROVE  LET try == accepted[p].data[1].tries[k] IN
                      /\ Targets \ Guaranteed(try) \subseteq final[p].handlers[k]
                      /\ (\E q \in steady.exposed : Shadows(q, try.module)) => Inserted(Range(final)) \subseteq final[p].handlers[k]
                      /\ try.module \in DOMAIN KnownSince /\ Narrowed(try, Modules)
                           => final[p].handlers[k] \subseteq (Targets \ Guaranteed(try)) \union Inserted(Range(final))
  BY DEF Settled
<1>2. Inserted(Range(final)) = Before /\ Before \subseteq Targets
  BY InsertsStay, BeforeIs
<1> DEFINE try == accepted[p].data[1].tries[k]
           handler == final[p].handlers[k]
<1>3. handler = IF Narrowed(try, Modules)
                THEN IF try.module \in U THEN Targets \ (Guaranteed(try) \ Before) ELSE Targets \ Guaranteed(try)
                ELSE Targets
  <2>1. p \in DOMAIN analyses
    BY RevisitDomain
  <2>2. QED
    BY <1>1, <2>1, HandlerEnds
<1>4. ASSUME NEW q \in steady.exposed, Shadows(q, try.module), Narrowed(try, Modules) PROVE Before = {} \/ try.module \in U
  <2>1. try.module \in DOMAIN KnownSince
    BY <1>4 DEF Narrowed, Guaranteed
  <2>2. QED
    BY <1>4, <2>1
<1>5. Guaranteed(try) \subseteq Targets
  BY DEF Guaranteed
<1> HIDE DEF final, U, try, handler
<1>6. Targets \ Guaranteed(try) \subseteq handler
  BY <1>3, <1>5
<1>7. ASSUME NEW q \in steady.exposed, Shadows(q, try.module) PROVE Before \subseteq handler
  BY <1>2, <1>3, <1>4, <1>7
<1>8. ASSUME Narrowed(try, Modules) PROVE handler \subseteq (Targets \ Guaranteed(try)) \union Before
  BY <1>3, <1>8
<1>9. QED
  BY <1>2, <1>6, <1>7, <1>8 DEF try, handler, final

LEMMA ConcludeSettles ==
  ASSUME KeptInv, FirstInv, phase # "done", UNCHANGED <<scenario, tree, steady, accepted>>,
         discovered'.modules = discovered.modules, NEW entries, NEW issues, Conclude(entries, issues),
         \/ Indexes(entries) /\ issues = IndexIssues(entries)
         \/ issues # {}
  PROVE  HandlersSettled'
<1>1. \A q \in steady.exposed : \A module \in DOMAIN KnownSince :
        Shadows(q, module) => module \in UncertainModules(entries, issues)
  <2>1. CASE issues # {}
    BY <2>1 DEF UncertainModules
  <2>2. CASE Indexes(entries) /\ issues = IndexIssues(entries)
    BY <2>2, Indexed
  <2>3. QED
    BY <2>1, <2>2
<1>2. Settled(Revisited(entries, issues)) /\ analyses' = Revisited(entries, issues)
  BY <1>1, RevisitSettles DEF Conclude
<1>3. HandlersSettled'
  BY <1>2 DEF HandlersSettled, Settled, Shadows, Modules
<1>4. QED
  BY <1>3

\* Nothing to visit again.
LEMMA StaticSettles ==
  ASSUME KeptInv, FirstInv, ReportStatic
  PROVE  HandlersSettled'
<1>1. phase # "done" /\ UNCHANGED <<scenario, tree, steady, accepted, analyses, discovered>>
  BY DEF ReportStatic, treeVars
<1>2. Before = {}
  <2>1. \A p \in DOMAIN analyses : InsertedBy(analyses[p]) = {}
    BY DEF ReportStatic, InsertedBy
  <2>2. QED
    BY <2>1, InsertedIs DEF Before
<1>3. Revisited({}, {}) = analyses
  BY <1>2 DEF Revisited, Before
<1>4. Settled(analyses)
  <2>1. Settled(Revisited({}, {}))
    BY <1>1, <1>2, RevisitSettles
  <2>2. QED
    BY <1>3, <2>1
<1>5. HandlersSettled'
  BY <1>1, <1>4 DEF HandlersSettled, Settled, Shadows, Modules
<1>6. QED
  BY <1>5

\* A finished scan does nothing more.
LEMMA DoneStays ==
  ASSUME FoundInv, phase = "done", [Next]_vars
  PROVE  UNCHANGED vars
<1>1. read.stage = "idle" /\ ~Discovering
  BY DEF FoundInv, Discovering
<1>2. ~RequestStep
  BY <1>1 DEF RequestStep, RequestOutside, RequestThroughLink, RequestBuiltIn, RequestDirectory, RequestFile,
     RequestInside, AtRequest
<1>3. ~WalkStep
  BY <1>1 DEF WalkStep, ListDirectory, PrepareDirectory, VisitSubdirectory, SubdirectoriesVisited,
     SkipFile, SourceDisappears, VisitSource, LeaveDirectory, ModulesFound, SourcesFound, BoundExceeded, DynamicFound,
     AtFile, DiscoveryEnds
<1>4. ~ReadStep
  BY <1>1 DEF ReadStep, BeginRead, StatEntry, OpenEntry, ReadChunk, ValidateChain, ValidateLeaf
<1>5. ~ReportStep
  BY DEF ReportStep, ReportStatic, ReportInferred, SearchDynamic
<1>6. ~Edit
  BY EditFrame
<1>7. QED
  BY <1>2, <1>3, <1>4, <1>5, <1>6 DEF Next, ScanStep

LEMMA SettledKept ==
  ASSUME WalkInv, CoverInv, FoundInv, KeptInv, KindInv, IndexInv, FirstInv, HandlersSettled, [Next]_vars
  PROVE  HandlersSettled'
<1>1. CASE phase = "done"
  <2>1. UNCHANGED vars
    BY <1>1, DoneStays
  <2>2. QED
    BY <2>1 DEF vars, HandlersSettled, Shadows
<1>2. CASE phase # "done" /\ report'.outcome = "complete"
  <2>1. report.outcome # "complete"
    BY <1>2 DEF FoundInv
  <2>2. ASSUME NEW f, Incomplete \/ Invalid \/ Refuse(f), UNCHANGED <<scenario, tree, steady, accepted, discovered>>
        PROVE  HandlersSettled'
    <3>1. ~Invalid
      BY <1>2 DEF Invalid, Return, Stopped
    <3>2. Incomplete
      BY <2>2, <3>1 DEF Refuse
    <3>3. phase = "dynamic"
      BY <1>2, <3>2 DEF Incomplete, Return, Stopped
    <3>4. Conclude({}, {Issue(<<>>, "PYA1001")})
      BY <3>2, <3>3 DEF Incomplete
    <3>5. QED
      BY <1>2, <2>2, <3>4, ConcludeSettles
  <2>3. CASE RequestStep
    <3>1. UNCHANGED <<scenario, tree, steady, accepted, discovered>>
      BY <2>3 DEF RequestStep, RequestOutside, RequestThroughLink, RequestBuiltIn, RequestDirectory, RequestFile,
         Untouched, treeVars
    <3>2. Incomplete \/ Invalid \/ (\E d : Refuse(Fails(d))) \/ report' = report
      BY <2>3 DEF RequestStep, RequestOutside, RequestThroughLink, RequestBuiltIn, RequestDirectory, RequestFile, Proceed
    <3>3. QED
      BY <1>2, <2>1, <2>2, <3>1, <3>2
  <2>4. CASE ListDirectory \/ PrepareDirectory \/ VisitSubdirectory \/ SubdirectoriesVisited \/ SkipFile
             \/ SourceDisappears \/ VisitSource \/ LeaveDirectory
    <3>1. UNCHANGED <<scenario, tree, steady, accepted, discovered>>
      BY <2>4 DEF ListDirectory, PrepareDirectory, VisitSubdirectory, SubdirectoriesVisited, SkipFile,
         SourceDisappears, VisitSource, LeaveDirectory, Untouched, treeVars
    <3>2. Incomplete \/ Invalid \/ (\E d : Refuse(Fails(d))) \/ report' = report
      BY <2>4 DEF ListDirectory, PrepareDirectory, VisitSubdirectory, SubdirectoriesVisited, SkipFile,
         SourceDisappears, VisitSource, LeaveDirectory, Proceed
    <3>3. QED
      BY <1>2, <2>1, <2>2, <3>1, <3>2
  <2>5. CASE ModulesFound \/ SourcesFound \/ BoundExceeded
    BY <1>2, <2>1, <2>5 DEF ModulesFound, SourcesFound, BoundExceeded, Return, Stopped
  <2>6. CASE DynamicFound
    <3>1. /\ UNCHANGED <<scenario, tree, steady, accepted>> /\ discovered'.modules = discovered.modules
          /\ Conclude(walk.found, IndexIssues(walk.found))
      BY <2>6 DEF DynamicFound, treeVars, WalkInv, Discoveries
    <3>2. Indexes(walk.found)
      BY <2>6, EndIndexes DEF DynamicFound, Whole
    <3>3. QED
      BY <1>2, <3>1, <3>2, ConcludeSettles
  <2>7. CASE ReportInferred
    <3>1. /\ UNCHANGED <<scenario, tree, steady, accepted, discovered>>
          /\ Conclude(discovered.modules, IndexIssues(discovered.modules))
      BY <2>7 DEF ReportInferred, treeVars
    <3>2. Indexes(discovered.modules)
      BY <2>7 DEF ReportInferred, IndexInv
    <3>3. QED
      BY <1>2, <3>1, <3>2, ConcludeSettles
  <2>8. CASE SearchDynamic \/ ReadStep \/ UNCHANGED vars
    BY <1>2, <2>1, <2>8 DEF SearchDynamic, vars, ReadStep, BeginRead, StatEntry, OpenEntry, ReadChunk, ValidateChain,
       ValidateLeaf, ReadUnchanged
  <2>9. CASE Edit
    <3>1. report' = report
      BY <2>9, EditFrame DEF EditTo
    <3>2. QED
      BY <1>2, <2>1, <3>1
  <2>10. QED
    BY <2>3, <2>4, <2>5, <2>6, <2>7, <2>8, <2>9, StaticSettles DEF Next, ScanStep, WalkStep, ReportStep
<1>3. CASE report'.outcome # "complete"
  BY <1>3 DEF HandlersSettled
<1>4. QED
  BY <1>1, <1>2, <1>3

\* In the report, a handler can run on every target on which some source puts
\* a directory first on sys.path while something that was in the project all
\* along may shadow the import, and on no more targets than these and those
\* the import is not known to succeed on: one second visit is enough
\* (engine.py).
THEOREM HandlersEndSettled == Spec => []HandlersSettled
<1> DEFINE Types == TreeInv /\ WalkInv /\ SteadyInv /\ ReadInv /\ KeptInv
           Finds == CoverInv /\ FoundInv /\ KindInv /\ IndexInv
           Settles == FirstInv /\ HandlersSettled
<1>1. Init => Types /\ Finds /\ Settles
  <2> SUFFICES ASSUME Init PROVE Types /\ Finds /\ Settles
    OBVIOUS
  <2>1. Types
    <3>1. ReadInv /\ KeptInv
      BY DEF Init, ReadInv, KeptInv, NoRead
    <3>2. QED
      BY <3>1, TypesStart, SteadyStart
  <2>2. Finds
    BY <2>1, CoverStarts, FoundStarts, KindStarts, IndexStarts
  <2>3. HandlersSettled
    BY DEF Init, HandlersSettled
  <2>4. QED
    BY <2>1, <2>2, <2>3, FirstStarts
<1>2. Types /\ Finds /\ Settles /\ [Next]_vars => (Types /\ Finds /\ Settles)'
  <2> SUFFICES ASSUME Types, Finds, Settles, [Next]_vars PROVE (Types /\ Finds /\ Settles)'
    OBVIOUS
  <2>1. Types'
    BY TypesKept, SteadyKept, ReadKept, KeptKept
  <2>2. Finds'
    BY CoverKept, FoundKept, KindKept, IndexKept
  <2>3. Settles'
    BY FirstKept, SettledKept
  <2>4. QED
    BY <2>1, <2>2, <2>3
<1>3. QED
  BY <1>1, <1>2, PTL DEF Spec

=============================================================================
