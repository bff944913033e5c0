--------------------------- MODULE GroupArrayProofs ---------------------------
(***************************************************************************)
(* Lemmas about the array of groups, for any sequence of groups: what the  *)
(* operations do to the total size and to the offsets.  They are about     *)
(* prefixes: Upto(gs, n) is the size of the first n groups.                *)
(***************************************************************************)
EXTENDS GroupArray, SequenceTheorems, WellFoundedInduction, TLAPS

(***************************************************************************)
(* Numbers: the least of a set of them, and induction over them.           *)
(***************************************************************************)
Smaller == {p \in Nat \X Nat : p[1] < p[2]}

LEMMA LeastOf ==
  ASSUME NEW S \in SUBSET Nat, S # {}
  PROVE  \E m \in S : \A k \in S : m <= k
<1>1. IsWellFoundedOn(Smaller, Nat)
  <2>1. Smaller = OpToRel(<, Nat)
    BY DEF Smaller, OpToRel
  <2> QED BY <2>1, NatLessThanWellFounded
<1>2. PICK m \in S : \A k \in S : <<k, m>> \notin Smaller
  BY <1>1, WFMin
<1>3. ASSUME NEW k \in S PROVE m <= k
  <2>1. ~(k < m)
    BY <1>2 DEF Smaller
  <2> QED BY <2>1
<1> QED BY <1>3

LEMMA Inductive ==
  ASSUME NEW n \in Nat, NEW S, 0 \in S, \A k \in 1 .. n : k - 1 \in S => k \in S
  PROVE  0 .. n \subseteq S
<1> DEFINE Missing == {k \in 0 .. n : k \notin S}
<1> SUFFICES ASSUME Missing # {} PROVE FALSE
  OBVIOUS
<1>1. PICK m \in Missing : \A k \in Missing : m <= k
  <2>1. Missing \in SUBSET Nat
    OBVIOUS
  <2> HIDE DEF Missing
  <2> QED BY <2>1, LeastOf
<1>2. m \in 1 .. n
  BY <1>1
<1>3. m - 1 \notin Missing
  BY <1>1, <1>2
<1> QED BY <1>1, <1>2, <1>3

\* The greatest and the least of a bounded set of numbers.
LEMMA MinIs ==
  ASSUME NEW S \in SUBSET Nat, S # {}
  PROVE  Min(S) \in S /\ \A k \in S : Min(S) <= k
BY LeastOf DEF Min

LEMMA MaxIs ==
  ASSUME NEW S \in SUBSET Nat, S # {}, NEW n \in Nat, \A k \in S : k <= n
  PROVE  Max(S) \in S /\ \A k \in S : k <= Max(S)
<1> DEFINE Bounds == {b \in Nat : \A k \in S : k <= b}
<1>1. PICK b \in Bounds : \A c \in Bounds : b <= c
  <2>1. n \in Bounds
    OBVIOUS
  <2> HIDE DEF Bounds
  <2>2. Bounds \subseteq Nat
    BY DEF Bounds
  <2> QED BY <2>1, <2>2, LeastOf
<1>2. b \in S
  <2> SUFFICES ASSUME b \notin S PROVE FALSE
    OBVIOUS
  <2>1. PICK k \in S : TRUE
    OBVIOUS
  <2>2. k \in Nat /\ k < b
    BY <1>1, <2>1
  <2>3. b - 1 \in Bounds
    <3>1. ASSUME NEW j \in S PROVE j <= b - 1
      BY <1>1, <3>1
    <3> QED BY <2>2, <3>1, <1>1
  <2> QED BY <1>1, <2>3
<1>3. b \in S /\ \A k \in S : b >= k
  BY <1>1, <1>2
<1>4. Max(S) \in S /\ \A k \in S : Max(S) >= k
  BY <1>3 DEF Max
<1> QED BY <1>4

\* Finitely many numbers have a bound.
LEMMA BoundOf ==
  ASSUME NEW n \in Nat, NEW f, \A i \in 1 .. n : f[i] \in Nat
  PROVE  \E b \in Nat : \A i \in 1 .. n : f[i] <= b
<1> DEFINE S == {k \in 0 .. n : \E b \in Nat : \A i \in 1 .. k : f[i] <= b}
<1>1. 0 \in S
  OBVIOUS
<1>2. ASSUME NEW k \in 1 .. n, k - 1 \in S PROVE k \in S
  <2>1. PICK b \in Nat : \A i \in 1 .. k - 1 : f[i] <= b
    BY <1>2
  <2>2. f[k] \in Nat
    OBVIOUS
  <2>3. \A i \in 1 .. k : f[i] <= b + f[k]
    BY <2>1, <2>2
  <2> QED BY <2>2, <2>3
<1>3. n \in S
  <2> HIDE DEF S
  <2> QED BY <1>1, <1>2, Inductive
<1> QED BY <1>3

(***************************************************************************)
(* Total sizes.                                                            *)
(***************************************************************************)
Sized(G) == \A g \in G : g.size \in Nat

\* f[k] is the size of the first k groups, up to n and up to the last one.
RunsTo(f, gs, n) ==
  /\ f[0] = 0
  /\ \A k \in 1 .. n : f[k] = f[k - 1] + gs[k].size

Runs(f, gs) == RunsTo(f, gs, Len(gs))

Upto(gs, n) == TotalSize(SubSeq(gs, 1, n))

LEMMA TotalRuns ==
  ASSUME NEW G, NEW gs \in Seq(G), NEW f, Runs(f, gs)
  PROVE  TotalSize(gs) = f[Len(gs)]
<1> DEFINE Is(t) == t = [n \in 0 .. Len(gs) |-> IF n = 0 THEN 0 ELSE t[n - 1] + gs[n].size]
           total == CHOOSE t : Is(t)
<1>1. Len(gs) \in Nat
  BY LenProperties
<1>2. Is([n \in 0 .. Len(gs) |-> f[n]])
  BY <1>1 DEF Runs, RunsTo
<1>3. Is(total)
  <2> HIDE DEF Is
  <2> QED BY <1>2
<1>4. TotalSize(gs) = total[Len(gs)]
  BY DEF TotalSize
<1> HIDE DEF total
<1> DEFINE S == {n \in 0 .. Len(gs) : total[n] = f[n]}
<1>5. 0 \in S
  BY <1>1, <1>3 DEF Runs, RunsTo
<1>6. ASSUME NEW n \in 1 .. Len(gs), n - 1 \in S PROVE n \in S
  BY <1>1, <1>3, <1>6 DEF Runs, RunsTo
<1>7. 0 .. Len(gs) \subseteq S
  <2> HIDE DEF S
  <2> QED BY <1>1, <1>5, <1>6, Inductive
<1> QED BY <1>1, <1>4, <1>7

\* Every sequence of groups has its running size, and prefixes share it.
LEMMA RunningSize ==
  ASSUME NEW G, Sized(G), NEW gs \in Seq(G)
  PROVE  \E f \in [0 .. Len(gs) -> Nat] : Runs(f, gs)
<1> DEFINE S == {n \in 0 .. Len(gs) : \E f \in [0 .. n -> Nat] : RunsTo(f, gs, n)}
<1>1. Len(gs) \in Nat
  BY LenProperties
<1>2. 0 \in S
  <2>1. [k \in 0 .. 0 |-> 0] \in [0 .. 0 -> Nat] /\ RunsTo([k \in 0 .. 0 |-> 0], gs, 0)
    BY DEF RunsTo
  <2> QED BY <1>1, <2>1
<1>3. ASSUME NEW n \in 1 .. Len(gs), n - 1 \in S PROVE n \in S
  <2>1. PICK f \in [0 .. n - 1 -> Nat] : RunsTo(f, gs, n - 1)
    BY <1>3
  <2>2. gs[n].size \in Nat
    BY ElementOfSeq DEF Sized
  <2> DEFINE g == [k \in 0 .. n |-> IF k = n THEN f[n - 1] + gs[n].size ELSE f[k]]
  <2>3. g \in [0 .. n -> Nat]
    BY <1>1, <2>2
  <2>4. RunsTo(g, gs, n)
    <3>1. g[0] = 0
      BY <1>1, <2>1 DEF RunsTo
    <3>2. ASSUME NEW k \in 1 .. n PROVE g[k] = g[k - 1] + gs[k].size
      BY <1>1, <2>1 DEF RunsTo
    <3> QED BY <3>1, <3>2 DEF RunsTo
  <2> HIDE DEF g
  <2> QED BY <1>1, <2>3, <2>4, SMTT(60)
<1>4. 0 .. Len(gs) \subseteq S
  <2> HIDE DEF S
  <2> QED BY <1>1, <1>2, <1>3, Inductive
<1>5. Len(gs) \in S
  <2> HIDE DEF S
  <2> QED BY <1>1, <1>4
<1> QED BY <1>5 DEF Runs

LEMMA UptoRuns ==
  ASSUME NEW G, NEW gs \in Seq(G), NEW f, Runs(f, gs), NEW n \in 0 .. Len(gs)
  PROVE  Upto(gs, n) = f[n]
<1> DEFINE s == SubSeq(gs, 1, n)
<1>1. Len(gs) \in Nat /\ \A i \in 1 .. Len(gs) : gs[i] \in G
  BY LenProperties, ElementOfSeq
<1>2. s \in Seq(G) /\ Len(s) = n /\ \A i \in 1 .. n : s[i] = gs[i]
  <2>1. n \in Int /\ 1 \in Int /\ \A i \in 1 .. n : gs[i] \in G
    BY <1>1
  <2>2. /\ s \in Seq(G) /\ Len(s) = IF 1 <= n THEN n - 1 + 1 ELSE 0
        /\ \A i \in 1 .. n - 1 + 1 : s[i] = gs[1 + i - 1]
    BY <2>1, SubSeqProperties
  <2> QED BY <1>1, <2>1, <2>2
<1> HIDE DEF s
<1>3. Runs(f, s)
  BY <1>1, <1>2 DEF Runs, RunsTo
<1>4. TotalSize(s) = f[Len(s)]
  BY <1>2, <1>3, TotalRuns
<1> QED BY <1>2, <1>4 DEF Upto, s

\* Prefix by prefix.
LEMMA UptoSteps ==
  ASSUME NEW G, Sized(G), NEW gs \in Seq(G)
  PROVE  /\ Len(gs) \in Nat
         /\ Upto(gs, 0) = 0
         /\ \A n \in 1 .. Len(gs) : Upto(gs, n) = Upto(gs, n - 1) + gs[n].size
         /\ \A n \in 0 .. Len(gs) : Upto(gs, n) \in Nat
         /\ TotalSize(gs) = Upto(gs, Len(gs))
         /\ TotalSize(gs) \in Nat
         /\ \A n \in 1 .. Len(gs) : gs[n] \in G /\ gs[n].size \in Nat
<1>1. PICK f \in [0 .. Len(gs) -> Nat] : Runs(f, gs)
  BY RunningSize
<1>2. \A n \in 0 .. Len(gs) : Upto(gs, n) = f[n]
  BY <1>1, UptoRuns
<1>3. Len(gs) \in Nat /\ \A n \in 1 .. Len(gs) : gs[n] \in G /\ gs[n].size \in Nat
  BY LenProperties, ElementOfSeq DEF Sized
<1>4. TotalSize(gs) = f[Len(gs)] /\ Len(gs) \in 0 .. Len(gs) /\ 0 \in 0 .. Len(gs)
  BY <1>1, <1>3, TotalRuns
<1>5. Upto(gs, 0) = 0 /\ \A n \in 1 .. Len(gs) : Upto(gs, n) = Upto(gs, n - 1) + gs[n].size
  <2>1. \A n \in 1 .. Len(gs) : n \in 0 .. Len(gs) /\ n - 1 \in 0 .. Len(gs)
    BY <1>3
  <2> QED BY <1>1, <1>2, <1>4, <2>1 DEF Runs, RunsTo
<1> QED BY <1>5, <1>1, <1>2, <1>3, <1>4 DEF Runs, RunsTo

LEMMA UptoGrows ==
  ASSUME NEW G, Sized(G), NEW gs \in Seq(G), NEW m \in 0 .. Len(gs), NEW n \in m .. Len(gs)
  PROVE  /\ Upto(gs, m) <= Upto(gs, n)
         /\ (\A g \in G : g.size > 0) => n - m <= Upto(gs, n) - Upto(gs, m)
<1> DEFINE S == {k \in 0 .. Len(gs) : k < m \/
                   (/\ Upto(gs, m) <= Upto(gs, k)
                    /\ (\A g \in G : g.size > 0) => k - m <= Upto(gs, k) - Upto(gs, m))}
<1>1. /\ Len(gs) \in Nat
      /\ \A k \in 1 .. Len(gs) : Upto(gs, k) = Upto(gs, k - 1) + gs[k].size
      /\ \A k \in 0 .. Len(gs) : Upto(gs, k) \in Nat
      /\ \A k \in 1 .. Len(gs) : gs[k] \in G /\ gs[k].size \in Nat
  BY UptoSteps
<1>2. 0 \in S
  BY <1>1
<1>3. ASSUME NEW k \in 1 .. Len(gs), k - 1 \in S PROVE k \in S
  <2>1. CASE k <= m
    BY <1>1, <2>1
  <2>2. CASE k > m
    <3>1. /\ Upto(gs, m) <= Upto(gs, k - 1)
          /\ (\A g \in G : g.size > 0) => k - 1 - m <= Upto(gs, k - 1) - Upto(gs, m)
      BY <1>1, <1>3, <2>2
    <3>2. (\A g \in G : g.size > 0) => gs[k].size >= 1
      BY <1>1
    <3>3. /\ Upto(gs, k) = Upto(gs, k - 1) + gs[k].size /\ gs[k].size \in Nat
          /\ Upto(gs, k) \in Nat /\ Upto(gs, k - 1) \in Nat /\ Upto(gs, m) \in Nat
      BY <1>1
    <3>4. Upto(gs, m) <= Upto(gs, k)
      BY <3>1, <3>3
    <3>5. ASSUME \A g \in G : g.size > 0 PROVE k - m <= Upto(gs, k) - Upto(gs, m)
      <4>1. gs[k].size >= 1 /\ k - 1 - m <= Upto(gs, k - 1) - Upto(gs, m)
        BY <3>1, <3>2, <3>5
      <4> QED BY <1>1, <3>3, <4>1, SMTT(60)
    <3> QED BY <3>4, <3>5
  <2> QED BY <1>1, <2>1, <2>2
<1>4. 0 .. Len(gs) \subseteq S
  <2> HIDE DEF S
  <2> QED BY <1>1, <1>2, <1>3, Inductive
<1>5. n \in S
  <2> HIDE DEF S
  <2> QED BY <1>1, <1>4, SMTT(60)
<1> QED BY <1>1, <1>5

\* Groups of the same sizes have the same prefixes.
LEMMA SameSizes ==
  ASSUME NEW G, Sized(G), NEW s \in Seq(G), NEW H, NEW t \in Seq(H),
         Len(t) = Len(s), \A i \in 1 .. Len(s) : t[i].size = s[i].size
  PROVE  /\ \A n \in 0 .. Len(s) : Upto(t, n) = Upto(s, n)
         /\ TotalSize(t) = TotalSize(s)
<1>1. PICK f \in [0 .. Len(s) -> Nat] : Runs(f, s)
  BY RunningSize
<1>2. Runs(f, t)
  BY <1>1 DEF Runs, RunsTo
<1> QED BY <1>1, <1>2, UptoRuns, TotalRuns

LEMMA SubSeqTotal ==
  ASSUME NEW G, Sized(G), NEW gs \in Seq(G),
         NEW a \in 1 .. Len(gs) + 1, NEW b \in a - 1 .. Len(gs)
  PROVE  TotalSize(SubSeq(gs, a, b)) = Upto(gs, b) - Upto(gs, a - 1)
<1> DEFINE s == SubSeq(gs, a, b)
           f == [n \in 0 .. b - a + 1 |-> Upto(gs, n + a - 1) - Upto(gs, a - 1)]
<1>1. /\ Len(gs) \in Nat
      /\ \A k \in 1 .. Len(gs) : Upto(gs, k) = Upto(gs, k - 1) + gs[k].size
      /\ \A k \in 0 .. Len(gs) : Upto(gs, k) \in Nat
      /\ \A k \in 1 .. Len(gs) : gs[k] \in G /\ gs[k].size \in Nat
  BY UptoSteps
<1>2. s \in Seq(G) /\ Len(s) = b - a + 1 /\ \A i \in 1 .. b - a + 1 : s[i] = gs[a + i - 1]
  <2>1. a \in Int /\ b \in Int /\ \A i \in a .. b : gs[i] \in G
    BY <1>1
  <2> QED BY <1>1, <2>1, SubSeqProperties
<1>3. Runs(f, s)
  <2>1. f[0] = 0
    BY <1>1
  <2>2. ASSUME NEW k \in 1 .. b - a + 1 PROVE f[k] = f[k - 1] + s[k].size
    <3>1. k + a - 1 \in 1 .. Len(gs) /\ a - 1 \in 0 .. Len(gs) /\ k + a - 2 \in 0 .. Len(gs)
      BY <1>1, SMTT(60)
    <3>2. /\ Upto(gs, k + a - 1) = Upto(gs, k + a - 2) + gs[k + a - 1].size
          /\ s[k] = gs[k + a - 1]
          /\ f[k] = Upto(gs, k + a - 1) - Upto(gs, a - 1)
          /\ f[k - 1] = Upto(gs, k + a - 2) - Upto(gs, a - 1)
      BY <1>1, <1>2, <3>1
    <3> DEFINE j == k + a - 1
    <3>3. j \in 1 .. Len(gs) /\ j \in 0 .. Len(gs)
      BY <1>1, <3>1
    <3>4. Upto(gs, j) \in Nat /\ gs[j].size \in Nat
      <4> HIDE DEF j
      <4> QED BY <1>1, <3>3
    <3>5. Upto(gs, k + a - 2) \in Nat /\ Upto(gs, a - 1) \in Nat
      BY <1>1, <3>1
    <3> HIDE DEF f, s
    <3> QED BY <3>2, <3>4, <3>5, SMTT(60)
  <2> HIDE DEF f, s
  <2> QED BY <1>2, <2>1, <2>2 DEF Runs, RunsTo
<1>4. TotalSize(s) = f[Len(s)]
  <2> HIDE DEF f, s
  <2> QED BY <1>2, <1>3, TotalRuns
<1> QED BY <1>1, <1>2, <1>4

(***************************************************************************)
(* The operations on an array.                                             *)
(***************************************************************************)
Offset == Nat \cup {Stray}

\* A set of groups: with a size, and an offset that can be set.
Groups(G) ==
  /\ Sized(G)
  /\ \A g \in G : /\ g.at \in Offset
                  /\ \A at \in Offset : /\ At(g, at) \in G
                                        /\ At(g, at).size = g.size
                                        /\ At(g, at).at = at

\* The same group, perhaps at another offset.
Same(g, h) == g = h \/ \E at \in Offset : g = At(h, at)

\* Every group is where the ones in front of it end.
OffsetsFrom(gs, header) == \A i \in 1 .. Len(gs) : gs[i].at = header + Upto(gs, i - 1)

LEMMA PlusOffset ==
  ASSUME NEW at \in Offset, NEW size \in Nat
  PROVE  Plus(at, size) \in Offset /\ (at \in Nat => Plus(at, size) = at + size)
BY DEF Plus, Offset, Stray

LEMMA UpdateAbsOffsIs ==
  ASSUME NEW G, Groups(G), NEW gs \in Seq(G), NEW first \in 1 .. Len(gs) + 1, NEW at \in Offset
  PROVE  LET u == UpdateAbsOffs(gs, first, at)
         IN  /\ u \in Seq(G) /\ Len(u) = Len(gs)
             /\ \A i \in 1 .. first - 1 : u[i] = gs[i]
             /\ \A i \in first .. Len(gs) : /\ Same(u[i], gs[i])
                                            /\ at \in Nat => u[i].at = at + Upto(gs, i - 1) - Upto(gs, first - 1)
             /\ \A i \in 1 .. Len(gs) : u[i].size = gs[i].size
             /\ \A n \in 0 .. Len(gs) : Upto(u, n) = Upto(gs, n)
             /\ TotalSize(u) = TotalSize(gs)
<1> DEFINE u == UpdateAbsOffs(gs, first, at)
           Place(i) == Plus(at, TotalSize(SubSeq(gs, first, i - 1)))
<1>1. /\ Len(gs) \in Nat /\ DOMAIN gs = 1 .. Len(gs)
      /\ \A k \in 0 .. Len(gs) : Upto(gs, k) \in Nat
      /\ \A k \in 1 .. Len(gs) : gs[k] \in G
  BY UptoSteps, LenProperties DEF Groups
<1>2. \A i \in DOMAIN gs : u[i] = IF i < first THEN gs[i] ELSE At(gs[i], Place(i))
  BY DEF UpdateAbsOffs
<1>3. DOMAIN u = DOMAIN gs
  BY DEF UpdateAbsOffs
<1> HIDE DEF u, Place
<1>4. ASSUME NEW i \in first .. Len(gs)
      PROVE  Place(i) \in Offset /\ (at \in Nat => Place(i) = at + Upto(gs, i - 1) - Upto(gs, first - 1))
  <2>1. i - 1 \in first - 1 .. Len(gs)
    BY <1>1
  <2>2. TotalSize(SubSeq(gs, first, i - 1)) = Upto(gs, i - 1) - Upto(gs, first - 1)
    BY <2>1, SubSeqTotal DEF Groups
  <2>3. Upto(gs, first - 1) <= Upto(gs, i - 1)
    <3>1. Sized(G) /\ first - 1 \in 0 .. Len(gs)
      BY <1>1 DEF Groups
    <3> QED BY <2>1, <3>1, UptoGrows
  <2>4. Upto(gs, i - 1) - Upto(gs, first - 1) \in Nat
    BY <1>1, <2>1, <2>3
  <2>5. Upto(gs, i - 1) \in Nat /\ Upto(gs, first - 1) \in Nat
    BY <1>1, <2>1
  <2>6. /\ Plus(at, TotalSize(SubSeq(gs, first, i - 1))) \in Offset
        /\ at \in Nat => Plus(at, TotalSize(SubSeq(gs, first, i - 1)))
                           = at + (Upto(gs, i - 1) - Upto(gs, first - 1))
    BY <2>2, <2>4, PlusOffset
  <2> QED BY <2>5, <2>6 DEF Place
<1>5. ASSUME NEW i \in 1 .. Len(gs) PROVE u[i] \in G /\ u[i].size = gs[i].size
  <2>1. CASE i < first
    BY <1>1, <1>2, <2>1
  <2>2. CASE ~(i < first)
    <3>1. Place(i) \in Offset
      BY <1>1, <1>4, <2>2
    <3>2. u[i] = At(gs[i], Place(i)) /\ gs[i] \in G
      BY <1>1, <1>2, <2>2
    <3> QED BY <3>1, <3>2 DEF Groups
  <2> QED BY <2>1, <2>2
<1>6. u \in Seq(G) /\ Len(u) = Len(gs)
  <2>1. u = [i \in 1 .. Len(gs) |-> u[i]]
    BY <1>1, <1>3 DEF u, UpdateAbsOffs
  <2>2. [i \in 1 .. Len(gs) |-> u[i]] \in Seq(G) /\ Len([i \in 1 .. Len(gs) |-> u[i]]) = Len(gs)
    BY <1>1, <1>5
  <2> QED BY <2>1, <2>2
<1>7. \A i \in first .. Len(gs) :
        /\ Same(u[i], gs[i])
        /\ at \in Nat => u[i].at = at + Upto(gs, i - 1) - Upto(gs, first - 1)
  <2> SUFFICES ASSUME NEW i \in first .. Len(gs)
               PROVE  /\ Same(u[i], gs[i])
                      /\ at \in Nat => u[i].at = at + Upto(gs, i - 1) - Upto(gs, first - 1)
    OBVIOUS
  <2>1. i \in DOMAIN gs /\ ~(i < first)
    BY <1>1
  <2>2. u[i] = At(gs[i], Place(i)) /\ gs[i] \in G
    BY <1>1, <1>2, <2>1
  <2> QED BY <1>4, <2>2 DEF Same, Groups
<1>8. (\A n \in 0 .. Len(gs) : Upto(u, n) = Upto(gs, n)) /\ TotalSize(u) = TotalSize(gs)
  BY <1>5, <1>6, SameSizes DEF Groups
<1>9. ASSUME NEW i \in 1 .. first - 1 PROVE u[i] = gs[i]
  <2>1. i \in DOMAIN gs /\ i < first
    BY <1>1
  <2> QED BY <1>2, <2>1
<1> QED BY <1>5, <1>6, <1>7, <1>8, <1>9 DEF u

(***************************************************************************)
(* Removing and inserting one element, of any sequence.                    *)
(***************************************************************************)
LEMMA RemoveAtIs ==
  ASSUME NEW S, NEW s \in Seq(S), NEW i \in 1 .. Len(s)
  PROVE  /\ RemoveAt(s, i) \in Seq(S)
         /\ Len(RemoveAt(s, i)) = Len(s) - 1
         /\ \A j \in 1 .. i - 1 : RemoveAt(s, i)[j] = s[j]
         /\ \A j \in i .. Len(s) - 1 : RemoveAt(s, i)[j] = s[j + 1]
<1> DEFINE a == SubSeq(s, 1, i - 1)
           b == SubSeq(s, i + 1, Len(s))
<1>1. Len(s) \in Nat /\ \A j \in 1 .. Len(s) : s[j] \in S
  BY LenProperties, ElementOfSeq
<1>2. a \in Seq(S) /\ Len(a) = i - 1 /\ \A j \in 1 .. i - 1 : a[j] = s[j]
  <2>1. \A j \in 1 .. i - 1 : s[j] \in S
    BY <1>1
  <2> QED BY <1>1, <2>1, SubSeqProperties
<1>3. b \in Seq(S) /\ Len(b) = Len(s) - i /\ \A j \in 1 .. Len(s) - i : b[j] = s[i + j]
  <2>1. \A j \in i + 1 .. Len(s) : s[j] \in S
    BY <1>1
  <2> QED BY <1>1, <2>1, SubSeqProperties
<1>4. RemoveAt(s, i) = a \o b
  BY DEF RemoveAt
<1> HIDE DEF a, b
<1>5. /\ a \o b \in Seq(S) /\ Len(a \o b) = Len(a) + Len(b)
      /\ \A j \in 1 .. Len(a) + Len(b) : (a \o b)[j] = IF j <= Len(a) THEN a[j] ELSE b[j - Len(a)]
  BY <1>2, <1>3, ConcatProperties
<1>6. ASSUME NEW j \in i .. Len(s) - 1 PROVE (a \o b)[j] = s[j + 1]
  <2>1. j \in 1 .. Len(a) + Len(b) /\ ~(j <= Len(a)) /\ j - Len(a) \in 1 .. Len(s) - i
    BY <1>1, <1>2, <1>3
  <2>2. b[j - Len(a)] = s[i + (j - Len(a))]
    BY <1>3, <2>1
  <2>3. i + (j - Len(a)) = j + 1
    BY <1>1, <1>2
  <2> QED BY <1>5, <2>1, <2>2, <2>3
<1>7. ASSUME NEW j \in 1 .. i - 1 PROVE (a \o b)[j] = s[j]
  <2>1. j \in 1 .. Len(a) + Len(b) /\ j <= Len(a)
    BY <1>1, <1>2, <1>3
  <2> QED BY <1>2, <1>5, <2>1
<1> QED BY <1>1, <1>2, <1>3, <1>4, <1>5, <1>6, <1>7

LEMMA InsertAtIs ==
  ASSUME NEW S, NEW s \in Seq(S), NEW i \in 1 .. Len(s) + 1, NEW e \in S
  PROVE  /\ InsertAt(s, i, e) \in Seq(S)
         /\ Len(InsertAt(s, i, e)) = Len(s) + 1
         /\ \A j \in 1 .. i - 1 : InsertAt(s, i, e)[j] = s[j]
         /\ InsertAt(s, i, e)[i] = e
         /\ \A j \in i + 1 .. Len(s) + 1 : InsertAt(s, i, e)[j] = s[j - 1]
<1> DEFINE a == SubSeq(s, 1, i - 1)
           b == SubSeq(s, i, Len(s))
           c == a \o <<e>>
<1>1. Len(s) \in Nat /\ \A j \in 1 .. Len(s) : s[j] \in S
  BY LenProperties, ElementOfSeq
<1>2. a \in Seq(S) /\ Len(a) = i - 1 /\ \A j \in 1 .. i - 1 : a[j] = s[j]
  <2>1. \A j \in 1 .. i - 1 : s[j] \in S
    BY <1>1
  <2> QED BY <1>1, <2>1, SubSeqProperties
<1>3. b \in Seq(S) /\ Len(b) = Len(s) - i + 1 /\ \A j \in 1 .. Len(s) - i + 1 : b[j] = s[i + j - 1]
  <2>1. \A j \in i .. Len(s) : s[j] \in S
    BY <1>1
  <2> QED BY <1>1, <2>1, SubSeqProperties
<1> HIDE DEF a, b
<1>4. c \in Seq(S) /\ Len(c) = i /\ c[i] = e /\ \A j \in 1 .. i - 1 : c[j] = s[j]
  <2>1. <<e>> \in Seq(S) /\ Len(<<e>>) = 1 /\ <<e>>[1] = e
    OBVIOUS
  <2>2. /\ c \in Seq(S) /\ Len(c) = Len(a) + 1
        /\ \A j \in 1 .. Len(a) + 1 : c[j] = IF j <= Len(a) THEN a[j] ELSE <<e>>[j - Len(a)]
    BY <1>2, <2>1, ConcatProperties
  <2> QED BY <1>1, <1>2, <2>1, <2>2, SMTT(60)
<1>5. InsertAt(s, i, e) = c \o b
  BY DEF InsertAt, a, b
<1> HIDE DEF c
<1>6. /\ c \o b \in Seq(S) /\ Len(c \o b) = Len(c) + Len(b)
      /\ \A j \in 1 .. Len(c) + Len(b) : (c \o b)[j] = IF j <= Len(c) THEN c[j] ELSE b[j - Len(c)]
  BY <1>3, <1>4, ConcatProperties
<1>7. ASSUME NEW j \in i + 1 .. Len(s) + 1 PROVE (c \o b)[j] = s[j - 1]
  <2>1. j \in 1 .. Len(c) + Len(b) /\ ~(j <= Len(c)) /\ j - Len(c) \in 1 .. Len(s) - i + 1
    BY <1>1, <1>3, <1>4
  <2>2. b[j - Len(c)] = s[i + (j - Len(c)) - 1]
    BY <1>3, <2>1
  <2>3. i + (j - Len(c)) - 1 = j - 1
    BY <1>1, <1>4
  <2> QED BY <1>6, <2>1, <2>2, <2>3
<1>8. ASSUME NEW j \in 1 .. i PROVE (c \o b)[j] = c[j]
  <2>1. j \in 1 .. Len(c) + Len(b) /\ j <= Len(c)
    BY <1>1, <1>3, <1>4
  <2> QED BY <1>6, <2>1
<1> QED BY <1>1, <1>3, <1>4, <1>5, <1>6, <1>7, <1>8

\* Removing what was inserted, and inserting what was removed.
LEMMA RemoveInserted ==
  ASSUME NEW S, NEW s \in Seq(S), NEW i \in 1 .. Len(s) + 1, NEW e \in S
  PROVE  RemoveAt(InsertAt(s, i, e), i) = s
<1> DEFINE t == InsertAt(s, i, e)
<1>1. Len(s) \in Nat
  BY LenProperties
<1>2. /\ t \in Seq(S)
      /\ Len(t) = Len(s) + 1
      /\ \A j \in 1 .. i - 1 : t[j] = s[j]
      /\ t[i] = e
      /\ \A j \in i + 1 .. Len(s) + 1 : t[j] = s[j - 1]
  BY InsertAtIs
<1> HIDE DEF t
<1>0. i \in 1 .. Len(t) /\ Len(t) - 1 = Len(s)
  BY <1>1, <1>2
<1>3. /\ RemoveAt(t, i) \in Seq(S) /\ Len(RemoveAt(t, i)) = Len(s)
      /\ \A j \in 1 .. i - 1 : RemoveAt(t, i)[j] = t[j]
      /\ \A j \in i .. Len(s) : RemoveAt(t, i)[j] = t[j + 1]
  BY <1>0, <1>2, RemoveAtIs
<1>4. ASSUME NEW j \in 1 .. Len(s) PROVE RemoveAt(t, i)[j] = s[j]
  <2>1. CASE j < i
    BY <1>1, <1>2, <1>3, <2>1
  <2>2. CASE j >= i
    <3>1. j \in i .. Len(s) /\ j + 1 \in i + 1 .. Len(s) + 1
      BY <1>1, <2>2
    <3>2. t[j + 1] = s[j + 1 - 1]
      BY <1>2, <3>1
    <3> QED BY <1>1, <1>3, <3>1, <3>2
  <2> QED BY <1>1, <2>1, <2>2
<1>5. RemoveAt(t, i) = s
  BY <1>3, <1>4, SeqEqual
<1> QED BY <1>5 DEF t

LEMMA InsertRemoved ==
  ASSUME NEW S, NEW s \in Seq(S), NEW i \in 1 .. Len(s)
  PROVE  InsertAt(RemoveAt(s, i), i, s[i]) = s
<1> DEFINE r == RemoveAt(s, i)
<1>1. Len(s) \in Nat /\ s[i] \in S
  BY LenProperties, ElementOfSeq
<1>2. /\ r \in Seq(S) /\ Len(r) = Len(s) - 1
      /\ \A j \in 1 .. i - 1 : r[j] = s[j]
      /\ \A j \in i .. Len(s) - 1 : r[j] = s[j + 1]
  BY RemoveAtIs
<1> HIDE DEF r
<1>3. /\ InsertAt(r, i, s[i]) \in Seq(S) /\ Len(InsertAt(r, i, s[i])) = Len(s)
      /\ \A j \in 1 .. i - 1 : InsertAt(r, i, s[i])[j] = r[j]
      /\ InsertAt(r, i, s[i])[i] = s[i]
      /\ \A j \in i + 1 .. Len(s) : InsertAt(r, i, s[i])[j] = r[j - 1]
  BY <1>1, <1>2, InsertAtIs
<1>4. ASSUME NEW j \in 1 .. Len(s) PROVE InsertAt(r, i, s[i])[j] = s[j]
  <2>1. CASE j < i
    BY <1>1, <1>2, <1>3, <2>1
  <2>2. CASE j = i
    BY <1>3, <2>2
  <2>3. CASE j > i
    <3>1. j \in i + 1 .. Len(s) /\ j - 1 \in i .. Len(s) - 1
      BY <1>1, <2>3
    <3>2. r[j - 1] = s[j - 1 + 1]
      BY <1>2, <3>1
    <3> QED BY <1>1, <1>3, <3>1, <3>2
  <2> QED BY <1>1, <2>1, <2>2, <2>3
<1>5. InsertAt(r, i, s[i]) = s
  BY <1>3, <1>4, SeqEqual
<1> QED BY <1>5 DEF r

(***************************************************************************)
(* The operations, on groups with sizes and offsets.                       *)
(***************************************************************************)
LEMMA SizeOfSame ==
  ASSUME NEW G, Groups(G), NEW g \in G
  PROVE  /\ Same(g, g)
         /\ \A h : Same(h, g) => h \in G /\ h.size = g.size
BY DEF Same, Groups

LEMMA RemovedSizes ==
  ASSUME NEW G, Groups(G), NEW gs \in Seq(G), NEW i \in 1 .. Len(gs)
  PROVE  /\ \A n \in 0 .. i - 1 : Upto(RemoveAt(gs, i), n) = Upto(gs, n)
         /\ \A n \in i - 1 .. Len(gs) - 1 : Upto(RemoveAt(gs, i), n) = Upto(gs, n + 1) - gs[i].size
         /\ TotalSize(RemoveAt(gs, i)) = TotalSize(gs) - gs[i].size
<1> DEFINE r == RemoveAt(gs, i)
           f == [n \in 0 .. Len(gs) - 1 |-> IF n < i THEN Upto(gs, n) ELSE Upto(gs, n + 1) - gs[i].size]
<1>1. /\ Len(gs) \in Nat
      /\ Upto(gs, 0) = 0
      /\ \A n \in 1 .. Len(gs) : Upto(gs, n) = Upto(gs, n - 1) + gs[n].size
      /\ \A n \in 0 .. Len(gs) : Upto(gs, n) \in Nat
      /\ TotalSize(gs) = Upto(gs, Len(gs))
      /\ \A n \in 1 .. Len(gs) : gs[n].size \in Nat
  BY UptoSteps DEF Groups
<1>2. /\ r \in Seq(G)
      /\ Len(r) = Len(gs) - 1
      /\ \A j \in 1 .. i - 1 : r[j] = gs[j]
      /\ \A j \in i .. Len(gs) - 1 : r[j] = gs[j + 1]
  BY RemoveAtIs
<1>3. \A n \in 0 .. Len(gs) - 1 : f[n] = IF n < i THEN Upto(gs, n) ELSE Upto(gs, n + 1) - gs[i].size
  OBVIOUS
<1> HIDE DEF r, f
<1>4. Upto(gs, i) = Upto(gs, i - 1) + gs[i].size /\ Upto(gs, i - 1) \in Nat /\ gs[i].size \in Nat
  BY <1>1
<1>5. ASSUME NEW n \in 1 .. Len(r) PROVE f[n] = f[n - 1] + r[n].size
  <2>1. n \in 1 .. Len(gs) - 1 /\ n \in 1 .. Len(gs) /\ n + 1 \in 1 .. Len(gs) /\ n + 1 - 1 = n
    BY <1>1, <1>2
  <2>2. CASE n < i
    <3>1. f[n] = Upto(gs, n) /\ f[n - 1] = Upto(gs, n - 1) /\ r[n] = gs[n]
      BY <1>2, <1>3, <2>1, <2>2
    <3> QED BY <1>1, <2>1, <3>1
  <2>3. CASE n = i
    <3>1. f[n] = Upto(gs, n + 1) - gs[i].size /\ f[n - 1] = Upto(gs, i - 1) /\ r[n] = gs[n + 1]
      BY <1>2, <1>3, <2>1, <2>3
    <3>2. Upto(gs, n + 1) = Upto(gs, n) + gs[n + 1].size /\ Upto(gs, n) \in Nat /\ gs[n + 1].size \in Nat
      BY <1>1, <2>1
    <3>3. Upto(gs, n) = Upto(gs, i - 1) + gs[i].size
      BY <1>4, <2>3
    <3> QED BY <1>4, <3>1, <3>2, <3>3, SMTT(60)
  <2>4. CASE n > i
    <3>1. f[n] = Upto(gs, n + 1) - gs[i].size /\ f[n - 1] = Upto(gs, n - 1 + 1) - gs[i].size /\ r[n] = gs[n + 1]
      BY <1>2, <1>3, <2>1, <2>4
    <3>2. Upto(gs, n + 1) = Upto(gs, n) + gs[n + 1].size /\ Upto(gs, n) \in Nat /\ gs[n + 1].size \in Nat
      BY <1>1, <2>1
    <3>3. n - 1 + 1 = n
      BY <2>1
    <3> QED BY <1>4, <3>1, <3>2, <3>3, SMTT(60)
  <2> QED BY <2>1, <2>2, <2>3, <2>4
<1>6. f[0] = 0
  BY <1>1, <1>3
<1>7. Runs(f, r)
  BY <1>5, <1>6 DEF Runs, RunsTo
<1>8. \A n \in 0 .. Len(r) : Upto(r, n) = f[n]
  BY <1>2, <1>7, UptoRuns
<1>9. TotalSize(r) = f[Len(r)]
  BY <1>2, <1>7, TotalRuns
<1>10. \A n \in 0 .. i - 1 : Upto(r, n) = Upto(gs, n)
  BY <1>1, <1>2, <1>3, <1>8
<1>11. ASSUME NEW n \in i - 1 .. Len(gs) - 1 PROVE Upto(r, n) = Upto(gs, n + 1) - gs[i].size
  <2>1. n \in 0 .. Len(r) /\ n \in 0 .. Len(gs) - 1
    BY <1>1, <1>2
  <2>2. CASE n = i - 1
    <3>1. Upto(r, n) = Upto(gs, i - 1) /\ n + 1 = i
      BY <1>3, <1>8, <2>1, <2>2
    <3> QED BY <1>4, <3>1
  <2>3. CASE n >= i
    BY <1>3, <1>8, <2>1, <2>3
  <2> QED BY <2>1, <2>2, <2>3
<1>12. TotalSize(r) = TotalSize(gs) - gs[i].size
  <2>1. Len(gs) - 1 \in i - 1 .. Len(gs) - 1 /\ Len(gs) - 1 \in 0 .. Len(r) /\ Len(gs) - 1 + 1 = Len(gs)
    BY <1>1, <1>2
  <2>2. TotalSize(r) = Upto(r, Len(gs) - 1)
    BY <1>2, <1>8, <1>9, <2>1
  <2>3. Upto(r, Len(gs) - 1) = Upto(gs, Len(gs) - 1 + 1) - gs[i].size
    BY <1>11, <2>1
  <2> QED BY <1>1, <2>1, <2>2, <2>3
<1> QED BY <1>10, <1>11, <1>12 DEF r

LEMMA InsertedSizes ==
  ASSUME NEW G, Groups(G), NEW gs \in Seq(G), NEW i \in 1 .. Len(gs) + 1, NEW g \in G
  PROVE  /\ \A n \in 0 .. i - 1 : Upto(InsertAt(gs, i, g), n) = Upto(gs, n)
         /\ \A n \in i .. Len(gs) + 1 : Upto(InsertAt(gs, i, g), n) = Upto(gs, n - 1) + g.size
         /\ TotalSize(InsertAt(gs, i, g)) = TotalSize(gs) + g.size
<1> DEFINE t == InsertAt(gs, i, g)
           f == [n \in 0 .. Len(gs) + 1 |-> IF n < i THEN Upto(gs, n) ELSE Upto(gs, n - 1) + g.size]
<1>1. /\ Len(gs) \in Nat
      /\ Upto(gs, 0) = 0
      /\ \A n \in 1 .. Len(gs) : Upto(gs, n) = Upto(gs, n - 1) + gs[n].size
      /\ \A n \in 0 .. Len(gs) : Upto(gs, n) \in Nat
      /\ TotalSize(gs) = Upto(gs, Len(gs))
      /\ \A n \in 1 .. Len(gs) : gs[n].size \in Nat
  BY UptoSteps DEF Groups
<1>2. /\ t \in Seq(G)
      /\ Len(t) = Len(gs) + 1
      /\ \A j \in 1 .. i - 1 : t[j] = gs[j]
      /\ t[i] = g
      /\ \A j \in i + 1 .. Len(gs) + 1 : t[j] = gs[j - 1]
  BY Groups(G), InsertAtIs, SMTT(20)
<1>3. \A n \in 0 .. Len(gs) + 1 : f[n] = IF n < i THEN Upto(gs, n) ELSE Upto(gs, n - 1) + g.size
  OBVIOUS
<1> HIDE DEF t, f
<1>4. g.size \in Nat
  BY DEF Groups, Sized
<1>5. ASSUME NEW n \in 1 .. Len(t) PROVE f[n] = f[n - 1] + t[n].size
  <2>1. n \in 1 .. Len(gs) + 1
    BY <1>1, <1>2
  <2>2. CASE n < i
    <3>1. f[n] = Upto(gs, n) /\ f[n - 1] = Upto(gs, n - 1) /\ t[n] = gs[n] /\ n \in 1 .. Len(gs)
      BY <1>1, <1>2, <1>3, <2>1, <2>2
    <3> QED BY <1>1, <3>1
  <2>3. CASE n = i
    <3>1. f[n] = Upto(gs, n - 1) + g.size /\ f[n - 1] = Upto(gs, n - 1) /\ t[n] = g
      BY <1>1, <1>2, <1>3, <2>1, <2>3
    <3> QED BY <3>1
  <2>4. CASE n > i
    <3>1. /\ f[n] = Upto(gs, n - 1) + g.size /\ f[n - 1] = Upto(gs, n - 1 - 1) + g.size
          /\ t[n] = gs[n - 1] /\ n - 1 \in 1 .. Len(gs) /\ n - 1 - 1 \in 0 .. Len(gs)
      BY <1>1, <1>2, <1>3, <2>1, <2>4
    <3>2. Upto(gs, n - 1) = Upto(gs, n - 1 - 1) + gs[n - 1].size
      BY <1>1, <3>1
    <3>3. Upto(gs, n - 1 - 1) \in Nat /\ gs[n - 1].size \in Nat
      BY <1>1, <3>1
    <3> QED BY <1>4, <3>1, <3>2, <3>3, SMTT(60)
  <2> QED BY <2>1, <2>2, <2>3, <2>4
<1>6. f[0] = 0
  BY <1>1, <1>3
<1>7. Runs(f, t)
  BY <1>5, <1>6 DEF Runs, RunsTo
<1>8. \A n \in 0 .. Len(t) : Upto(t, n) = f[n]
  BY <1>2, <1>7, UptoRuns
<1>9. TotalSize(t) = f[Len(t)]
  BY <1>2, <1>7, TotalRuns
<1>10. \A n \in 0 .. i - 1 : Upto(t, n) = Upto(gs, n)
  BY <1>1, <1>2, <1>3, <1>8
<1>11. ASSUME NEW n \in i .. Len(gs) + 1 PROVE Upto(t, n) = Upto(gs, n - 1) + g.size
  <2>1. n \in 0 .. Len(t) /\ n \in 0 .. Len(gs) + 1 /\ ~(n < i)
    BY <1>1, <1>2
  <2> QED BY <1>3, <1>8, <2>1
<1>12. TotalSize(t) = TotalSize(gs) + g.size
  <2>1. Len(gs) + 1 \in 0 .. Len(gs) + 1 /\ ~(Len(gs) + 1 < i) /\ Len(gs) + 1 - 1 = Len(gs)
    BY <1>1
  <2> QED BY <1>1, <1>2, <1>3, <1>9, <2>1
<1> QED BY <1>10, <1>11, <1>12 DEF t

\* base_Cut.
LEMMA BaseCutIs ==
  ASSUME NEW G, Groups(G), NEW gs \in Seq(G), NEW i \in 1 .. Len(gs)
  PROVE  LET c == BaseCut(gs, i)
         IN  /\ c \in Seq(G) /\ Len(c) = Len(gs) - 1
             /\ \A j \in 1 .. i - 1 : c[j] = gs[j]
             /\ \A j \in i .. Len(gs) - 1 : Same(c[j], gs[j + 1])
             /\ TotalSize(c) = TotalSize(gs) - gs[i].size
             /\ \A header \in Nat : OffsetsFrom(gs, header) => OffsetsFrom(c, header)
<1> DEFINE r == RemoveAt(gs, i)
           c == BaseCut(gs, i)
<1>1. /\ Len(gs) \in Nat
      /\ \A n \in 0 .. Len(gs) : Upto(gs, n) \in Nat
      /\ \A n \in 1 .. Len(gs) : gs[n] \in G
      /\ Upto(gs, i) = Upto(gs, i - 1) + gs[i].size
      /\ gs[i].size \in Nat
  BY UptoSteps DEF Groups
<1>2. /\ r \in Seq(G)
      /\ Len(r) = Len(gs) - 1
      /\ \A j \in 1 .. i - 1 : r[j] = gs[j]
      /\ \A j \in i .. Len(gs) - 1 : r[j] = gs[j + 1]
  BY RemoveAtIs
<1>3. /\ \A n \in 0 .. i - 1 : Upto(r, n) = Upto(gs, n)
      /\ \A n \in i - 1 .. Len(gs) - 1 : Upto(r, n) = Upto(gs, n + 1) - gs[i].size
      /\ TotalSize(r) = TotalSize(gs) - gs[i].size
  BY RemovedSizes
<1>4. gs[i].at \in Offset
  BY <1>1 DEF Groups
<1>5. c = UpdateAbsOffs(r, i, gs[i].at)
  BY DEF BaseCut
<1> HIDE DEF r, c
<1>6. i \in 1 .. Len(r) + 1
  BY <1>1, <1>2
<1>7. /\ c \in Seq(G) /\ Len(c) = Len(r)
      /\ \A j \in 1 .. i - 1 : c[j] = r[j]
      /\ \A j \in i .. Len(r) : /\ Same(c[j], r[j])
                                /\ gs[i].at \in Nat => c[j].at = gs[i].at + Upto(r, j - 1) - Upto(r, i - 1)
      /\ \A n \in 0 .. Len(r) : Upto(c, n) = Upto(r, n)
      /\ TotalSize(c) = TotalSize(r)
  BY <1>2, <1>4, <1>5, <1>6, UpdateAbsOffsIs, ZenonT(60)
<1>8. \A j \in i .. Len(gs) - 1 : Same(c[j], gs[j + 1])
  BY <1>2, <1>7
<1>9. ASSUME NEW header \in Nat, OffsetsFrom(gs, header) PROVE OffsetsFrom(c, header)
  <2> SUFFICES ASSUME NEW j \in 1 .. Len(c) PROVE c[j].at = header + Upto(c, j - 1)
    BY DEF OffsetsFrom
  <2>1. j \in 1 .. Len(gs) - 1 /\ j \in 1 .. Len(gs) /\ j - 1 \in 0 .. Len(r) /\ j - 1 \in 0 .. Len(gs)
    BY <1>1, <1>2, <1>7
  <2>2. Upto(c, j - 1) = Upto(r, j - 1)
    BY <1>7, <2>1
  <2>3. CASE j < i
    <3>1. c[j] = gs[j] /\ Upto(r, j - 1) = Upto(gs, j - 1)
      BY <1>1, <1>2, <1>3, <1>7, <2>1, <2>3
    <3> QED BY <1>9, <2>1, <2>2, <3>1 DEF OffsetsFrom
  <2>4. CASE j >= i
    <3>1. gs[i].at = header + Upto(gs, i - 1) /\ Upto(gs, i - 1) \in Nat
      BY <1>1, <1>9 DEF OffsetsFrom
    <3>2. c[j].at = gs[i].at + Upto(r, j - 1) - Upto(r, i - 1)
      BY <1>2, <1>7, <2>1, <2>4, <3>1
    <3>3. Upto(r, i - 1) = Upto(gs, i - 1)
      BY <1>1, <1>3
    <3>4. Upto(r, j - 1) \in Int
      <4>1. j - 1 \in i - 1 .. Len(gs) - 1 /\ j - 1 + 1 \in 0 .. Len(gs)
        BY <1>1, <2>1, <2>4
      <4> QED BY <1>1, <1>3, <4>1
    <3> QED BY <2>2, <3>1, <3>2, <3>3, <3>4
  <2> QED BY <2>1, <2>3, <2>4
<1> QED BY <1>2, <1>3, <1>7, <1>8, <1>9 DEF c

\* base_InsertUp, and what InsertDn makes of it.
LEMMA PlaceAtIs ==
  ASSUME NEW G, Groups(G), NEW gs \in Seq(G), NEW i \in 1 .. Len(gs) + 1,
         NEW g \in G, NEW at \in Offset
  PROVE  LET p == PlaceAt(gs, i, g, at)
         IN  /\ p \in Seq(G) /\ Len(p) = Len(gs) + 1
             /\ \A j \in 1 .. i - 1 : p[j] = gs[j]
             /\ Same(p[i], g)
             /\ \A j \in i + 1 .. Len(gs) + 1 : Same(p[j], gs[j - 1])
             /\ TotalSize(p) = TotalSize(gs) + g.size
             /\ \A header \in Nat : OffsetsFrom(gs, header) /\ at = header + Upto(gs, i - 1)
                                      => OffsetsFrom(p, header)
<1> DEFINE t == InsertAt(gs, i, g)
           p == PlaceAt(gs, i, g, at)
<1>1. /\ Len(gs) \in Nat
      /\ \A n \in 0 .. Len(gs) : Upto(gs, n) \in Nat
      /\ \A n \in 1 .. Len(gs) : gs[n] \in G
      /\ g.size \in Nat
  BY UptoSteps DEF Groups, Sized
<1>2. /\ t \in Seq(G)
      /\ Len(t) = Len(gs) + 1
      /\ \A j \in 1 .. i - 1 : t[j] = gs[j]
      /\ t[i] = g
      /\ \A j \in i + 1 .. Len(gs) + 1 : t[j] = gs[j - 1]
  BY Groups(G), InsertAtIs, SMTT(20)
<1>3. /\ \A n \in 0 .. i - 1 : Upto(t, n) = Upto(gs, n)
      /\ \A n \in i .. Len(gs) + 1 : Upto(t, n) = Upto(gs, n - 1) + g.size
      /\ TotalSize(t) = TotalSize(gs) + g.size
  BY InsertedSizes
<1>4. p = UpdateAbsOffs(t, i, at)
  BY DEF PlaceAt
<1> HIDE DEF t, p
<1>5. i \in 1 .. Len(t) + 1 /\ i \in i .. Len(t)
  BY <1>1, <1>2
<1>6. /\ p \in Seq(G) /\ Len(p) = Len(t)
      /\ \A j \in 1 .. i - 1 : p[j] = t[j]
      /\ \A j \in i .. Len(t) : /\ Same(p[j], t[j])
                                /\ at \in Nat => p[j].at = at + Upto(t, j - 1) - Upto(t, i - 1)
      /\ \A n \in 0 .. Len(t) : Upto(p, n) = Upto(t, n)
      /\ TotalSize(p) = TotalSize(t)
  BY <1>2, <1>4, <1>5, UpdateAbsOffsIs
<1>7. Same(p[i], g)
  BY <1>2, <1>5, <1>6
<1>8. ASSUME NEW j \in i + 1 .. Len(gs) + 1 PROVE Same(p[j], gs[j - 1])
  <2>1. j \in i .. Len(t)
    BY <1>1, <1>2
  <2> QED BY <1>2, <1>6, <2>1
<1>9. ASSUME NEW header \in Nat, OffsetsFrom(gs, header), at = header + Upto(gs, i - 1)
      PROVE  OffsetsFrom(p, header)
  <2> SUFFICES ASSUME NEW j \in 1 .. Len(p) PROVE p[j].at = header + Upto(p, j - 1)
    BY DEF OffsetsFrom
  <2>1. j \in 1 .. Len(gs) + 1 /\ j - 1 \in 0 .. Len(t) /\ j - 1 \in 0 .. Len(gs)
    BY <1>1, <1>2, <1>6
  <2>2. Upto(p, j - 1) = Upto(t, j - 1)
    BY <1>6, <2>1
  <2>3. CASE j < i
    <3>1. p[j] = gs[j] /\ Upto(t, j - 1) = Upto(gs, j - 1) /\ j \in 1 .. Len(gs)
      BY <1>1, <1>2, <1>3, <1>6, <2>1, <2>3
    <3> QED BY <1>9, <2>2, <3>1 DEF OffsetsFrom
  <2>4. CASE j >= i
    <3>1. at \in Nat /\ at = header + Upto(gs, i - 1) /\ Upto(gs, i - 1) \in Nat
      BY <1>1, <1>9
    <3>2. p[j].at = at + Upto(t, j - 1) - Upto(t, i - 1)
      BY <1>2, <1>6, <2>1, <2>4, <3>1
    <3>3. Upto(t, i - 1) = Upto(gs, i - 1)
      BY <1>1, <1>3
    <3>4. Upto(t, j - 1) \in Int
      <4>1. CASE j = i
        BY <3>1, <3>3, <4>1
      <4>2. CASE j > i
        <5>1. j - 1 \in i .. Len(gs) + 1 /\ j - 1 - 1 \in 0 .. Len(gs)
          BY <1>1, <2>1, <4>2
        <5>2. Upto(t, j - 1) = Upto(gs, j - 1 - 1) + g.size
          BY <1>3, <5>1
        <5>3. Upto(gs, j - 1 - 1) \in Nat
          BY <1>1, <5>1
        <5> HIDE DEF Upto
        <5> QED BY <1>1, <5>2, <5>3
      <4> QED BY <2>1, <2>4, <4>1, <4>2
    <3> QED BY <2>2, <3>1, <3>2, <3>3, <3>4
  <2> QED BY <2>1, <2>3, <2>4
<1> QED BY <1>2, <1>3, <1>6, <1>7, <1>8, <1>9 DEF p

\* The offset an inserted group takes from the one it pushes down is its own.
LEMMA OffsetOfIs ==
  ASSUME NEW G, Groups(G), NEW gs \in Seq(G), NEW i \in 1 .. Len(gs), NEW header \in Nat,
         OffsetsFrom(gs, header)
  PROVE  gs[i].at = header + Upto(gs, i - 1) /\ Upto(gs, i - 1) \in Nat
<1>1. /\ Len(gs) \in Nat
      /\ \A n \in 0 .. Len(gs) : Upto(gs, n) \in Nat
  BY UptoSteps DEF Groups
<1> QED BY <1>1 DEF OffsetsFrom

LEMMA BaseInsertDnIs ==
  ASSUME NEW G, Groups(G), NEW gs \in Seq(G), NEW i \in 0 .. Len(gs), NEW g \in G,
         NEW header \in Nat
  PROVE  LET p == BaseInsertDn(gs, header, i, g)
         IN  /\ p \in Seq(G) /\ Len(p) = Len(gs) + 1
             /\ \A j \in 1 .. i : p[j] = gs[j]
             /\ Same(p[i + 1], g)
             /\ \A j \in i + 2 .. Len(gs) + 1 : Same(p[j], gs[j - 1])
             /\ TotalSize(p) = TotalSize(gs) + g.size
             /\ OffsetsFrom(gs, header) => OffsetsFrom(p, header)
<1> DEFINE n == Len(gs)
           at == IF i < n THEN gs[i + 1].at
                 ELSE IF n = 0 THEN header ELSE Plus(gs[n].at, gs[n].size)
           p == PlaceAt(gs, i + 1, g, at)
<1>1. /\ Len(gs) \in Nat
      /\ Upto(gs, 0) = 0
      /\ \A k \in 1 .. Len(gs) : Upto(gs, k) = Upto(gs, k - 1) + gs[k].size
      /\ \A k \in 0 .. Len(gs) : Upto(gs, k) \in Nat
      /\ \A k \in 1 .. Len(gs) : gs[k] \in G /\ gs[k].size \in Nat
  BY UptoSteps DEF Groups
<1>2. BaseInsertDn(gs, header, i, g) = p
  BY DEF BaseInsertDn
<1>3. at \in Offset /\ (OffsetsFrom(gs, header) => at = header + Upto(gs, i))
  <2>1. CASE i < n
    <3>1. i + 1 \in 1 .. Len(gs) /\ i + 1 - 1 = i
      BY <1>1, <2>1
    <3>2. gs[i + 1].at \in Offset /\ at = gs[i + 1].at
      BY <1>1, <2>1, <3>1 DEF Groups
    <3> HIDE DEF at, Upto
    <3> QED BY <3>1, <3>2 DEF OffsetsFrom
  <2>2. CASE i = n /\ n = 0
    BY <1>1, <2>2 DEF Offset
  <2>3. CASE i = n /\ n # 0
    <3>1. n \in 1 .. Len(gs)
      BY <1>1, <2>3
    <3>2. gs[n].at \in Offset /\ gs[n].size \in Nat
      BY <1>1, <3>1 DEF Groups
    <3>3. at = Plus(gs[n].at, gs[n].size)
      BY <1>1, <2>3
    <3>4. Upto(gs, n) = Upto(gs, n - 1) + gs[n].size /\ Upto(gs, n - 1) \in Nat
      BY <1>1, <3>1
    <3> HIDE DEF at, Upto
    <3>5. Plus(gs[n].at, gs[n].size) \in Offset
          /\ (gs[n].at \in Nat => Plus(gs[n].at, gs[n].size) = gs[n].at + gs[n].size)
      BY <3>2, PlusOffset
    <3>6. ASSUME OffsetsFrom(gs, header) PROVE at = header + Upto(gs, i)
      <4>1. gs[n].at = header + Upto(gs, n - 1)
        BY <3>1, <3>6 DEF OffsetsFrom
      <4> QED BY <2>3, <3>2, <3>3, <3>4, <3>5, <4>1
    <3> QED BY <3>3, <3>5, <3>6
  <2> QED BY <1>1, <2>1, <2>2, <2>3
<1> HIDE DEF at
<1>4. i + 1 \in 1 .. Len(gs) + 1 /\ i + 1 - 1 = i /\ i + 1 + 1 = i + 2
  BY <1>1
<1>5. /\ p \in Seq(G) /\ Len(p) = Len(gs) + 1
      /\ \A j \in 1 .. i + 1 - 1 : p[j] = gs[j]
      /\ Same(p[i + 1], g)
      /\ \A j \in i + 1 + 1 .. Len(gs) + 1 : Same(p[j], gs[j - 1])
      /\ TotalSize(p) = TotalSize(gs) + g.size
      /\ \A h \in Nat : OffsetsFrom(gs, h) /\ at = h + Upto(gs, i + 1 - 1)
                          => OffsetsFrom(p, h)
  BY <1>3, <1>4, PlaceAtIs
<1> HIDE DEF p
<1> QED BY <1>2, <1>3, <1>4, <1>5

LEMMA SwappedIs ==
  ASSUME NEW G, NEW gs \in Seq(G), NEW i \in 1 .. Len(gs) - 1
  PROVE  LET t == [gs EXCEPT ![i] = gs[i + 1], ![i + 1] = gs[i]]
         IN  /\ t \in Seq(G) /\ Len(t) = Len(gs)
             /\ t[i] = gs[i + 1] /\ t[i + 1] = gs[i]
             /\ \A j \in 1 .. Len(gs) : j # i /\ j # i + 1 => t[j] = gs[j]
<1> DEFINE t == [gs EXCEPT ![i] = gs[i + 1], ![i + 1] = gs[i]]
<1>1. Len(gs) \in Nat /\ gs \in [1 .. Len(gs) -> G]
  BY LenProperties
<1>2. i \in 1 .. Len(gs) /\ i + 1 \in 1 .. Len(gs) /\ i # i + 1
  BY <1>1
<1>3. t \in [1 .. Len(gs) -> G]
  BY <1>1, <1>2
<1>4. t \in Seq(G) /\ Len(t) = Len(gs)
  BY <1>1, <1>3, SeqDef, LenProperties
<1> QED BY <1>1, <1>2, <1>4

LEMMA SwappedSizes ==
  ASSUME NEW G, Groups(G), NEW gs \in Seq(G), NEW i \in 1 .. Len(gs) - 1,
         NEW t \in Seq(G), Len(t) = Len(gs),
         t[i] = gs[i + 1], t[i + 1] = gs[i],
         \A j \in 1 .. Len(gs) : j # i /\ j # i + 1 => t[j] = gs[j]
  PROVE  /\ \A n \in 0 .. Len(gs) : n # i => Upto(t, n) = Upto(gs, n)
         /\ Upto(t, i) = Upto(gs, i - 1) + gs[i + 1].size
         /\ TotalSize(t) = TotalSize(gs)
<1> DEFINE f == [n \in 0 .. Len(gs) |-> IF n = i THEN Upto(gs, i - 1) + gs[i + 1].size ELSE Upto(gs, n)]
<1>1. /\ Len(gs) \in Nat
      /\ Upto(gs, 0) = 0
      /\ \A k \in 1 .. Len(gs) : Upto(gs, k) = Upto(gs, k - 1) + gs[k].size
      /\ \A k \in 0 .. Len(gs) : Upto(gs, k) \in Nat
      /\ TotalSize(gs) = Upto(gs, Len(gs))
      /\ \A k \in 1 .. Len(gs) : gs[k] \in G /\ gs[k].size \in Nat
  BY UptoSteps DEF Groups
<1> HIDE DEF Upto
<1>2. i \in 1 .. Len(gs) /\ i + 1 \in 1 .. Len(gs) /\ i - 1 \in 0 .. Len(gs) /\ i \in 0 .. Len(gs)
  BY <1>1
<1>3. Runs(f, t)
  <2>1. f[0] = 0
    BY <1>1, <1>2
  <2>2. ASSUME NEW k \in 1 .. Len(t) PROVE f[k] = f[k - 1] + t[k].size
    <3>1. k \in 0 .. Len(gs) /\ k - 1 \in 0 .. Len(gs) /\ k \in 1 .. Len(gs)
      BY <1>1
    <3>2. Upto(gs, k) = Upto(gs, k - 1) + gs[k].size
      BY <1>1, <3>1
    <3>3. CASE k = i
      BY <1>1, <1>2, <3>1, <3>3
    <3>4. CASE k = i + 1
      <4>1. Upto(gs, i + 1) = Upto(gs, i) + gs[i + 1].size /\ Upto(gs, i) = Upto(gs, i - 1) + gs[i].size
        <5>1. Upto(gs, i + 1) = Upto(gs, i + 1 - 1) + gs[i + 1].size /\ i + 1 - 1 = i
          BY <1>1, <1>2
        <5> QED BY <1>1, <1>2, <5>1
      <4>2. gs[i].size \in Nat /\ gs[i + 1].size \in Nat /\ Upto(gs, i - 1) \in Nat
        BY <1>1, <1>2
      <4>3. f[k] = Upto(gs, i + 1) /\ f[k - 1] = Upto(gs, i - 1) + gs[i + 1].size /\ t[k].size = gs[i].size
        <5>1. k - 1 = i /\ k # i
          BY <1>1, <3>4
        <5> QED BY <3>1, <3>4, <5>1
      <4> QED BY <4>1, <4>2, <4>3
    <3>5. CASE k # i /\ k # i + 1
      <4>1. k - 1 # i
        BY <1>1, <3>1, <3>5
      <4>2. f[k] = Upto(gs, k) /\ f[k - 1] = Upto(gs, k - 1) /\ t[k] = gs[k]
        BY <3>1, <3>5, <4>1
      <4> QED BY <3>2, <4>2
    <3> QED BY <3>3, <3>4, <3>5
  <2> HIDE DEF f
  <2> QED BY <2>1, <2>2 DEF Runs, RunsTo
<1>4. \A n \in 0 .. Len(t) : Upto(t, n) = f[n]
  <2> HIDE DEF f
  <2> QED BY <1>3, UptoRuns
<1>5. TotalSize(t) = f[Len(t)]
  <2> HIDE DEF f
  <2> QED BY <1>3, TotalRuns
<1>6. Len(gs) # i /\ Len(gs) \in 0 .. Len(gs)
  BY <1>1
<1> QED BY <1>1, <1>2, <1>4, <1>5, <1>6

LEMMA BaseMoveDnIs ==
  ASSUME NEW G, Groups(G), NEW gs \in Seq(G), NEW i \in 1 .. Len(gs) - 1
  PROVE  LET m == BaseMoveDn(gs, i)
         IN  /\ m \in Seq(G) /\ Len(m) = Len(gs)
             /\ Same(m[i], gs[i + 1]) /\ Same(m[i + 1], gs[i])
             /\ \A j \in 1 .. Len(gs) : j # i /\ j # i + 1 => Same(m[j], gs[j])
             /\ TotalSize(m) = TotalSize(gs)
             /\ \A header \in Nat : OffsetsFrom(gs, header) => OffsetsFrom(m, header)
<1> DEFINE t == [gs EXCEPT ![i] = gs[i + 1], ![i + 1] = gs[i]]
           m == UpdateAbsOffs(t, i, gs[i].at)
<1>1. /\ Len(gs) \in Nat
      /\ \A n \in 0 .. Len(gs) : Upto(gs, n) \in Nat
      /\ \A n \in 1 .. Len(gs) : gs[n] \in G
  BY UptoSteps DEF Groups
<1>2. /\ t \in Seq(G) /\ Len(t) = Len(gs)
      /\ t[i] = gs[i + 1] /\ t[i + 1] = gs[i]
      /\ \A j \in 1 .. Len(gs) : j # i /\ j # i + 1 => t[j] = gs[j]
  BY SwappedIs
<1>3. BaseMoveDn(gs, i) = m
  BY DEF BaseMoveDn
<1> HIDE DEF t
<1>4. /\ \A n \in 0 .. Len(gs) : n # i => Upto(t, n) = Upto(gs, n)
      /\ Upto(t, i) = Upto(gs, i - 1) + gs[i + 1].size
      /\ TotalSize(t) = TotalSize(gs)
  BY Groups(G), <1>2, SwappedSizes, SMTT(60)
<1>5. /\ i \in 1 .. Len(t) + 1 /\ i \in 1 .. Len(gs) /\ i + 1 \in 1 .. Len(gs)
      /\ i \in i .. Len(gs) /\ i + 1 \in i .. Len(gs)
  BY <1>1, <1>2
<1>6. gs[i].at \in Offset
  BY <1>1, <1>5 DEF Groups
<1>7. /\ m \in Seq(G) /\ Len(m) = Len(t)
      /\ \A j \in 1 .. i - 1 : m[j] = t[j]
      /\ \A j \in i .. Len(t) : /\ Same(m[j], t[j])
                                /\ gs[i].at \in Nat => m[j].at = gs[i].at + Upto(t, j - 1) - Upto(t, i - 1)
      /\ \A j \in 1 .. Len(t) : m[j].size = t[j].size
      /\ \A n \in 0 .. Len(t) : Upto(m, n) = Upto(t, n)
      /\ TotalSize(m) = TotalSize(t)
  BY <1>2, <1>5, <1>6, UpdateAbsOffsIs
<1> HIDE DEF m
<1>8. ASSUME NEW j \in 1 .. Len(gs) PROVE Same(m[j], t[j])
  <2>1. CASE j < i
    BY <1>1, <1>7, <2>1 DEF Same
  <2>2. CASE j >= i
    BY <1>1, <1>2, <1>7, <2>2
  <2> QED BY <1>1, <2>1, <2>2
<1>9. ASSUME NEW header \in Nat, OffsetsFrom(gs, header) PROVE OffsetsFrom(m, header)
  <2> SUFFICES ASSUME NEW j \in 1 .. Len(m) PROVE m[j].at = header + Upto(m, j - 1)
    BY DEF OffsetsFrom
  <2> HIDE DEF Upto
  <2>1. j \in 1 .. Len(gs) /\ j - 1 \in 0 .. Len(t) /\ j - 1 \in 0 .. Len(gs) /\ i - 1 \in 0 .. Len(gs)
    BY <1>1, <1>2, <1>5, <1>7
  <2>2. Upto(m, j - 1) = Upto(t, j - 1)
    BY <1>7, <2>1
  <2>3. gs[i].at = header + Upto(gs, i - 1) /\ Upto(gs, i - 1) \in Nat
    BY <1>1, <1>5, <1>9, <2>1 DEF OffsetsFrom
  <2>4. Upto(t, i - 1) = Upto(gs, i - 1)
    BY <1>1, <1>4, <2>1
  <2>5. CASE j < i
    <3>1. m[j] = gs[j] /\ Upto(t, j - 1) = Upto(gs, j - 1)
      BY <1>1, <1>2, <1>4, <1>5, <1>7, <2>1, <2>5
    <3> QED BY <1>9, <2>1, <2>2, <3>1 DEF OffsetsFrom
  <2>6. CASE j >= i
    <3>1. m[j].at = gs[i].at + Upto(t, j - 1) - Upto(t, i - 1)
      <4>1. j \in i .. Len(t) /\ gs[i].at \in Nat
        BY <1>1, <1>2, <2>1, <2>3, <2>6, SMTT(60)
      <4> QED BY <1>7, <4>1
    <3>2. Upto(t, j - 1) \in Nat
      BY <1>2, <2>1, UptoSteps DEF Groups
    <3> QED BY <2>2, <2>3, <2>4, <3>1, <3>2
  <2> QED BY <2>1, <2>5, <2>6
<1> QED BY <1>2, <1>3, <1>4, <1>5, <1>7, <1>8, <1>9
=============================================================================
