----------------------- MODULE ScriptSelectionProofs -----------------------
(***************************************************************************)
(* Proofs about ScriptSelection.                                           *)
(*                                                                         *)
(* The reference definition Leaves is recursive, and so is FlattenSeq: what*)
(* is said of them for every depth and length needs induction.  The first  *)
(* part derives induction over sets of numbers and of sequences from the   *)
(* well-foundedness of strict inclusion of finite sets, so that none of the*)
(* lemmas has an operator as parameter; a definition by recursion gets its *)
(* values from Iteration.  The second part is about lists that are replaced*)
(* by lists, the third about the model.                                    *)
(***************************************************************************)
EXTENDS ScriptSelection, FiniteSetTheorems, WellFoundedInduction, SequenceTheorems, TLAPS

\* Every set of numbers has a least element: an endless descent would be one of
\* finite sets 0 .. n, each strictly inside the one before.
LEMMA LeastNumber ==
  ASSUME NEW T \in SUBSET Nat, T # {}
  PROVE  \E m \in T : \A n \in T : m <= n
<1>1. PICK R : R = {p \in Nat \X Nat : p[1] < p[2]}
  OBVIOUS
<1>2. IsWellFoundedOn(R, Nat)
  <2> SUFFICES ASSUME NEW f \in [Nat -> Nat], \A n \in Nat : <<f[n + 1], f[n]>> \in R
               PROVE  FALSE
    BY DEF IsWellFoundedOn
  <2>1. PICK g : g = [n \in Nat |-> 0 .. f[n]]
    OBVIOUS
  <2>2. \A n \in Nat : g[n] \in FiniteSubsetsOf(Nat)
    BY <2>1, FS_Interval DEF FiniteSubsetsOf
  <2>3. g \in [Nat -> FiniteSubsetsOf(Nat)]
    BY <2>1, <2>2
  <2>4. ASSUME NEW n \in Nat PROVE <<g[n + 1], g[n]>> \in StrictSubsetOrdering(Nat)
    <3>1. f[n + 1] < f[n] /\ f[n + 1] \in Nat /\ f[n] \in Nat
      BY <1>1
    <3>2. g[n] = 0 .. f[n] /\ g[n + 1] = 0 .. f[n + 1]
      BY <2>1
    <3>3. f[n] \in g[n] /\ f[n] \notin g[n + 1]
      BY <3>1, <3>2
    <3>4. g[n + 1] \subseteq g[n] /\ g[n + 1] # g[n]
      BY <3>1, <3>2, <3>3
    <3>5. g[n] \in SUBSET Nat /\ g[n + 1] \in SUBSET Nat
      BY <3>1, <3>2
    <3> QED BY <3>4, <3>5 DEF StrictSubsetOrdering
  <2> QED BY <2>3, <2>4, FS_StrictSubsetOrderingWellFounded DEF IsWellFoundedOn
<1>3. PICK m \in T : \A n \in T : ~ (<<n, m>> \in R)
  BY <1>2, WFMin
<1>4. ASSUME NEW n \in T PROVE m <= n
  <2>1. <<n, m>> \in Nat \X Nat /\ <<n, m>>[1] = n /\ <<n, m>>[2] = m
    OBVIOUS
  <2>2. ~ n < m
    BY <1>1, <1>3, <2>1
  <2> QED BY <2>2
<1> QED BY <1>4

\* Induction: a set with 0 and with every successor has all numbers.
LEMMA NatSetInduction ==
  ASSUME NEW T, 0 \in T, \A n \in Nat : n \in T => n + 1 \in T
  PROVE  Nat \subseteq T
<1> SUFFICES ASSUME ~ Nat \subseteq T PROVE FALSE
  OBVIOUS
<1>1. PICK m \in Nat \ T : \A n \in Nat \ T : m <= n
  BY LeastNumber
<1>2. m # 0 /\ m - 1 \in Nat /\ m - 1 < m
  OBVIOUS
<1>3. m - 1 \in T
  BY <1>1, <1>2
<1> QED BY <1>1, <1>2, <1>3

\* Induction over lists, by their last element.
LEMMA SeqAppendInduction ==
  ASSUME NEW S, NEW T, << >> \in T,
         \A s \in Seq(S), x \in S : s \in T => Append(s, x) \in T
  PROVE  Seq(S) \subseteq T
<1> DEFINE N == {n \in Nat : \A s \in Seq(S) : Len(s) = n => s \in T}
<1>1. 0 \in N
  OBVIOUS
<1>2. ASSUME NEW n \in Nat, n \in N PROVE n + 1 \in N
  <2> SUFFICES ASSUME NEW s \in Seq(S), Len(s) = n + 1 PROVE s \in T
    OBVIOUS
  <2>1. PICK t : t = [i \in 1 .. n |-> s[i]]
    OBVIOUS
  <2>2. t \in Seq(S) /\ Len(t) = n /\ s[n + 1] \in S
    BY <2>1
  <2>3. t \in T
    BY <1>2, <2>2
  <2>4. s = Append(t, s[n + 1])
    BY <2>1, <2>2
  <2> QED BY <2>2, <2>3, <2>4
<1> HIDE DEF N
<1>3. Nat \subseteq N
  BY <1>1, <1>2, NatSetInduction
<1> QED BY <1>3 DEF N

\* Functions that tell the next value, values number by number, and the values that
\* a first one and the functions give.
Steps(V) == [Nat -> [V -> V]]
Runs(V) == [Nat -> V]
IsRun(h, v0, G) == h[0] = v0 /\ \A n \in Nat : h[n + 1] = G[n][h[n]]

\* Recursion over numbers: there are values for every first one.
LEMMA Iteration ==
  ASSUME NEW V, NEW v0 \in V, NEW G \in Steps(V)
  PROVE  \E h \in Runs(V) : IsRun(h, v0, G)
<1> USE DEF Steps
<1> DEFINE A(n) == {h \in [0 .. n -> V] : h[0] = v0 /\ \A i \in 0 .. n - 1 : h[i + 1] = G[i][h[i]]}
           N == {n \in Nat : A(n) # {}}
           U == {i \in Nat : \A m, n \in Nat : \A g \in A(m), h \in A(n) :
                               i <= m /\ i <= n => g[i] = h[i]}
<1>1. 0 \in N
  <2>1. [i \in 0 .. 0 |-> v0] \in A(0)
    OBVIOUS
  <2> QED BY <2>1
<1>2. ASSUME NEW n \in Nat, n \in N PROVE n + 1 \in N
  <2>1. PICK h \in A(n) : TRUE
    BY <1>2
  <2>2. PICK g : g = [i \in 0 .. n + 1 |-> IF i = n + 1 THEN G[n][h[n]] ELSE h[i]]
    OBVIOUS
  <2>3. G[n][h[n]] \in V
    BY <2>1
  <2>4. g \in [0 .. n + 1 -> V]
    BY <2>1, <2>2, <2>3
  <2>5. ASSUME NEW i \in 0 .. (n + 1) - 1 PROVE g[i + 1] = G[i][g[i]]
    BY <2>1, <2>2
  <2>6. g[0] = v0
    BY <2>1, <2>2
  <2> QED BY <2>4, <2>5, <2>6
<1>3. 0 \in U
  OBVIOUS
<1>4. ASSUME NEW i \in Nat, i \in U PROVE i + 1 \in U
  <2>1. ASSUME NEW m \in Nat, NEW n \in Nat, NEW g \in A(m), NEW h \in A(n), i + 1 <= m, i + 1 <= n
        PROVE  g[i + 1] = h[i + 1]
    <3>1. i <= m /\ i <= n /\ i \in 0 .. m - 1 /\ i \in 0 .. n - 1
      BY <2>1
    <3>2. g[i + 1] = G[i][g[i]] /\ h[i + 1] = G[i][h[i]]
      BY <3>1
    <3>3. \A gg \in A(m), hh \in A(n) : i <= m /\ i <= n => gg[i] = hh[i]
      BY <1>4
    <3> HIDE DEF A
    <3>4. g[i] = h[i]
      BY <3>1, <3>3
    <3> QED BY <3>2, <3>4
  <2>2. i + 1 \in Nat
    OBVIOUS
  <2> HIDE DEF A
  <2> QED BY <2>1, <2>2
<1> HIDE DEF N, U
<1>5. Nat \subseteq N /\ Nat \subseteq U
  BY <1>1, <1>2, <1>3, <1>4, NatSetInduction
<1> DEFINE c(n) == CHOOSE h : h \in A(n)
<1>6. \A n \in Nat : c(n) \in A(n)
  BY <1>5 DEF N
<1> HIDE DEF c
<1>7. PICK h : h = [n \in Nat |-> c(n)[n]]
  OBVIOUS
<1>8. ASSUME NEW n \in Nat PROVE h[n] \in V
  BY <1>6, <1>7
<1>9. h[0] = v0
  BY <1>6, <1>7
<1>10. ASSUME NEW n \in Nat PROVE h[n + 1] = G[n][h[n]]
  <2>1. c(n) \in A(n) /\ c(n + 1) \in A(n + 1) /\ n + 1 \in Nat
    BY <1>6
  <2>2. c(n)[n] = c(n + 1)[n]
    <3>1. n <= n /\ n <= n + 1
      OBVIOUS
    <3>2. n \in U
      BY <1>5
    <3> HIDE DEF A
    <3> QED BY <2>1, <3>1, <3>2 DEF U
  <2>3. c(n + 1)[n + 1] = G[n][c(n + 1)[n]]
    BY <2>1
  <2> QED BY <1>7, <2>2, <2>3
<1>11. h \in [Nat -> V]
  BY <1>7, <1>8
<1> QED BY <1>9, <1>10, <1>11 DEF Runs, IsRun
-----------------------------------------------------------------------------
\* FlattenSeq is the last of the lists that begin empty and get one list more in
\* every step.
LEMMA FlattenPrefixes ==
  ASSUME NEW S, NEW ss \in Seq(Seq(S)), NEW h \in [Nat -> Seq(S)], h[0] = << >>,
         \A n \in 0 .. Len(ss) - 1 : h[n + 1] = h[n] \o ss[n + 1]
  PROVE  FlattenSeq(ss) = h[Len(ss)]
<1>1. CASE Len(ss) = 0
  BY <1>1 DEF FlattenSeq
<1>2. CASE Len(ss) # 0
  <2> DEFINE I == 1 .. Len(ss)
             Def(f) == [i \in I |-> IF i = 1 THEN ss[i] ELSE f[i - 1] \o ss[i]]
             flat == CHOOSE f : f = Def(f)
  <2>1. FlattenSeq(ss) = flat[Len(ss)]
    BY <1>2 DEF FlattenSeq
  <2>2. ASSUME NEW i \in I PROVE h[i] = IF i = 1 THEN ss[i] ELSE h[i - 1] \o ss[i]
    <3>1. i - 1 \in 0 .. Len(ss) - 1 /\ (i - 1) + 1 = i /\ ss[i] \in Seq(S)
      OBVIOUS
    <3>2. h[i] = h[i - 1] \o ss[i]
      BY <3>1
    <3>3. << >> \o ss[i] = ss[i]
      BY <3>1
    <3>4. i = 1 => h[i - 1] = << >>
      OBVIOUS
    <3>5. i = 1 => h[i] = ss[i]
      BY <3>2, <3>3, <3>4
    <3> QED BY <3>2, <3>5
  <2>3. PICK f : f = [i \in I |-> h[i]]
    OBVIOUS
  <2>4. f = Def(f)
    <3>1. \A i \in I : i # 1 => i - 1 \in I
      OBVIOUS
    <3> QED BY <2>2, <2>3, <3>1
  <2>5. flat = Def(flat)
    BY <2>4
  <2> HIDE DEF flat
  <2> DEFINE N == {n \in Nat : n + 1 \in I => flat[n + 1] = h[n + 1]}
  <2>6. 0 \in N
    <3>1. 1 \in I
      BY <1>2
    <3>2. flat[1] = ss[1] /\ h[1] = ss[1]
      BY <2>2, <2>5, <3>1
    <3>3. 0 + 1 = 1
      OBVIOUS
    <3> HIDE DEF I, Def
    <3> QED BY <3>2, <3>3
  <2>7. ASSUME NEW n \in Nat, n \in N PROVE n + 1 \in N
    <3> SUFFICES ASSUME n + 2 \in I PROVE flat[n + 2] = h[n + 2]
      OBVIOUS
    <3>1. n + 1 \in I /\ (n + 2) - 1 = n + 1 /\ n + 2 # 1
      OBVIOUS
    <3>2. flat[n + 2] = flat[n + 1] \o ss[n + 2]
      BY <2>5, <3>1
    <3>3. h[n + 2] = h[n + 1] \o ss[n + 2]
      BY <2>2, <3>1
    <3> QED BY <2>7, <3>1, <3>2, <3>3
  <2>8. Nat \subseteq N
    <3> HIDE DEF N
    <3> QED BY <2>6, <2>7, NatSetInduction
  <2>9. Len(ss) - 1 \in Nat /\ (Len(ss) - 1) + 1 = Len(ss) /\ Len(ss) \in I
    BY <1>2
  <2>10. flat[(Len(ss) - 1) + 1] = h[(Len(ss) - 1) + 1]
    BY <2>8, <2>9
  <2> QED BY <2>1, <2>9, <2>10
<1> QED BY <1>1, <1>2

\* There are such lists.
LEMMA FlattenHasPrefixes ==
  ASSUME NEW S, NEW ss \in Seq(Seq(S))
  PROVE  \E h \in [Nat -> Seq(S)] :
           h[0] = << >> /\ \A n \in 0 .. Len(ss) - 1 : h[n + 1] = h[n] \o ss[n + 1]
<1>1. PICK G : G = [n \in Nat |-> [v \in Seq(S) |-> IF n + 1 \in 1 .. Len(ss) THEN v \o ss[n + 1] ELSE v]]
  OBVIOUS
<1>2. ASSUME NEW n \in Nat, NEW v \in Seq(S) PROVE G[n][v] \in Seq(S)
  BY <1>1
<1>4. PICK h \in [Nat -> Seq(S)] : h[0] = << >> /\ \A n \in Nat : h[n + 1] = G[n][h[n]]
  <2>1. G \in Steps(Seq(S))
    BY <1>1, <1>2 DEF Steps
  <2>2. << >> \in Seq(S)
    OBVIOUS
  <2>3. \E h \in Runs(Seq(S)) : IsRun(h, << >>, G)
    BY <2>1, <2>2, Iteration
  <2> QED BY <2>3 DEF Runs, IsRun
<1>5. ASSUME NEW n \in 0 .. Len(ss) - 1 PROVE h[n + 1] = h[n] \o ss[n + 1]
  <2>1. n \in Nat /\ n + 1 \in 1 .. Len(ss)
    OBVIOUS
  <2> QED BY <1>1, <1>4, <2>1
<1> QED BY <1>4, <1>5

\* What FlattenSeq gives, and for one list more.
LEMMA FlattenSequences ==
  ASSUME NEW S, NEW ss \in Seq(Seq(S))
  PROVE  /\ FlattenSeq(ss) \in Seq(S)
         /\ \A s \in Seq(S) : FlattenSeq(Append(ss, s)) = FlattenSeq(ss) \o s
<1>1. FlattenSeq(ss) \in Seq(S)
  <2>1. PICK h \in [Nat -> Seq(S)] :
          h[0] = << >> /\ \A n \in 0 .. Len(ss) - 1 : h[n + 1] = h[n] \o ss[n + 1]
    BY FlattenHasPrefixes
  <2>2. FlattenSeq(ss) = h[Len(ss)]
    BY <2>1, FlattenPrefixes
  <2>3. Len(ss) \in Nat
    OBVIOUS
  <2> QED BY <2>2, <2>3
<1>2. ASSUME NEW s \in Seq(S) PROVE FlattenSeq(Append(ss, s)) = FlattenSeq(ss) \o s
  <2> DEFINE ts == Append(ss, s)
  <2>1. /\ ts \in Seq(Seq(S)) /\ Len(ts) = Len(ss) + 1 /\ Len(ss) \in Nat
        /\ \A i \in 1 .. Len(ss) : ts[i] = ss[i]
        /\ ts[Len(ss) + 1] = s
    OBVIOUS
  <2> HIDE DEF ts
  <2>2. PICK h \in [Nat -> Seq(S)] :
          h[0] = << >> /\ \A n \in 0 .. Len(ts) - 1 : h[n + 1] = h[n] \o ts[n + 1]
    BY <2>1, FlattenHasPrefixes
  <2>3. FlattenSeq(ts) = h[Len(ts)]
    BY <2>1, <2>2, FlattenPrefixes
  <2>4. h[Len(ss) + 1] = h[Len(ss)] \o s
    <3>1. Len(ss) \in 0 .. Len(ts) - 1
      BY <2>1
    <3> QED BY <2>1, <2>2, <3>1
  <2>5. \A n \in 0 .. Len(ss) - 1 : h[n + 1] = h[n] \o ss[n + 1]
    <3> SUFFICES ASSUME NEW n \in 0 .. Len(ss) - 1 PROVE h[n + 1] = h[n] \o ss[n + 1]
      OBVIOUS
    <3>1. n \in 0 .. Len(ts) - 1 /\ n + 1 \in 1 .. Len(ss)
      BY <2>1
    <3> QED BY <2>1, <2>2, <3>1
  <2>6. FlattenSeq(ss) = h[Len(ss)]
    BY <2>2, <2>5, FlattenPrefixes
  <2> QED BY <2>1, <2>3, <2>4, <2>6 DEF ts
<1> QED BY <1>1, <1>2
-----------------------------------------------------------------------------
\* Functions that replace an element of A by a list over B.
Lists(A, B) == [A -> Seq(B)]

\* The list s with every element replaced.
MapFlat(G, s) == FlattenSeq([i \in DOMAIN s |-> G[s[i]]])

\* Elements replaced, but not yet flattened.
LEMMA MapSequences ==
  ASSUME NEW A, NEW V, NEW G, \A a \in A : G[a] \in V, NEW s \in Seq(A)
  PROVE  /\ [i \in DOMAIN s |-> G[s[i]]] \in Seq(V)
         /\ \A x \in A : [i \in DOMAIN Append(s, x) |-> G[Append(s, x)[i]]]
                           = Append([i \in DOMAIN s |-> G[s[i]]], G[x])
  OBVIOUS

\* MapFlat of no element, of one more element, of one element, of two lists.
LEMMA MapFlatEmpty ==
  ASSUME NEW G PROVE MapFlat(G, << >>) = << >>
<1>1. [i \in DOMAIN << >> |-> G[<< >>[i]]] = << >>
  OBVIOUS
<1> QED BY <1>1 DEF MapFlat, FlattenSeq

LEMMA MapFlatAppend ==
  ASSUME NEW A, NEW B, NEW G \in Lists(A, B), NEW s \in Seq(A)
  PROVE  /\ MapFlat(G, s) \in Seq(B)
         /\ \A x \in A : MapFlat(G, Append(s, x)) = MapFlat(G, s) \o G[x]
<1> DEFINE M(t) == [i \in DOMAIN t |-> G[t[i]]]
<1>1. \A a \in A : G[a] \in Seq(B)
  BY DEF Lists
<1>2. M(s) \in Seq(Seq(B)) /\ \A x \in A : M(Append(s, x)) = Append(M(s), G[x])
  BY <1>1, MapSequences
<1> HIDE DEF M
<1>3. ASSUME NEW x \in A PROVE FlattenSeq(M(Append(s, x))) = FlattenSeq(M(s)) \o G[x]
  BY <1>1, <1>2, FlattenSequences
<1>4. FlattenSeq(M(s)) \in Seq(B)
  BY <1>2, FlattenSequences
<1> QED BY <1>3, <1>4 DEF MapFlat, M

LEMMA MapFlatOne ==
  ASSUME NEW A, NEW B, NEW G \in Lists(A, B), NEW x \in A
  PROVE  MapFlat(G, <<x>>) = G[x]
<1>1. << >> \in Seq(A) /\ Append(<< >>, x) = <<x>>
  OBVIOUS
<1>2. MapFlat(G, Append(<< >>, x)) = MapFlat(G, << >>) \o G[x]
  BY <1>1, MapFlatAppend
<1>3. G[x] \in Seq(B)
  BY DEF Lists
<1>4. << >> \o G[x] = G[x]
  BY <1>3
<1> QED BY <1>1, <1>2, <1>4, MapFlatEmpty

LEMMA MapFlatConcat ==
  ASSUME NEW A, NEW B, NEW G \in Lists(A, B), NEW s \in Seq(A), NEW t \in Seq(A)
  PROVE  MapFlat(G, s \o t) = MapFlat(G, s) \o MapFlat(G, t)
<1> DEFINE T == {u \in Seq(A) : MapFlat(G, s \o u) = MapFlat(G, s) \o MapFlat(G, u)}
<1>1. << >> \in T
  <2>1. s \o << >> = s /\ << >> \in Seq(A)
    OBVIOUS
  <2>2. MapFlat(G, s) \in Seq(B)
    BY MapFlatAppend
  <2>3. MapFlat(G, s) \o << >> = MapFlat(G, s)
    BY <2>2
  <2> QED BY <2>1, <2>3, MapFlatEmpty
<1>2. ASSUME NEW u \in Seq(A), NEW x \in A, u \in T PROVE Append(u, x) \in T
  <2>1. s \o Append(u, x) = Append(s \o u, x) /\ s \o u \in Seq(A) /\ Append(u, x) \in Seq(A)
    OBVIOUS
  <2>2. MapFlat(G, Append(s \o u, x)) = MapFlat(G, s \o u) \o G[x]
    BY <2>1, MapFlatAppend
  <2>3. MapFlat(G, Append(u, x)) = MapFlat(G, u) \o G[x]
    BY MapFlatAppend
  <2>4. MapFlat(G, s) \in Seq(B) /\ MapFlat(G, u) \in Seq(B)
    BY MapFlatAppend
  <2>5. G[x] \in Seq(B)
    BY DEF Lists
  <2>6. \A p, q, r \in Seq(B) : (p \o q) \o r = p \o (q \o r)
    BY ConcatAssociative
  <2>7. (MapFlat(G, s) \o MapFlat(G, u)) \o G[x] = MapFlat(G, s) \o (MapFlat(G, u) \o G[x])
    BY <2>4, <2>5, <2>6
  <2>8. MapFlat(G, s \o u) = MapFlat(G, s) \o MapFlat(G, u)
    BY <1>2
  <2>9. MapFlat(G, s \o Append(u, x)) = MapFlat(G, s) \o MapFlat(G, Append(u, x))
    BY <2>1, <2>2, <2>3, <2>7, <2>8
  <2> QED BY <2>1, <2>9
<1>3. Seq(A) \subseteq T
  <2> HIDE DEF T
  <2> QED BY <1>1, <1>2, SeqAppendInduction
<1> QED BY <1>3

\* To replace twice is to replace by what is replaced.
LEMMA MapFlatTwice ==
  ASSUME NEW A, NEW B, NEW C, NEW G \in Lists(A, B), NEW H \in Lists(B, C), NEW s \in Seq(A),
         NEW K \in Lists(A, C), \A a \in A : K[a] = MapFlat(H, G[a])
  PROVE  MapFlat(H, MapFlat(G, s)) = MapFlat(K, s)
<1> DEFINE T == {u \in Seq(A) : MapFlat(H, MapFlat(G, u)) = MapFlat(K, u)}
<1>1. << >> \in T
  <2>1. MapFlat(H, MapFlat(G, << >>)) = MapFlat(K, << >>)
    BY MapFlatEmpty
  <2>2. << >> \in Seq(A)
    OBVIOUS
  <2> QED BY <2>1, <2>2
<1>2. ASSUME NEW u \in Seq(A), NEW x \in A, u \in T PROVE Append(u, x) \in T
  <2>1. MapFlat(K, Append(u, x)) = MapFlat(K, u) \o K[x]
    BY MapFlatAppend
  <2>2. MapFlat(G, Append(u, x)) = MapFlat(G, u) \o G[x] /\ MapFlat(G, u) \in Seq(B)
    BY MapFlatAppend
  <2>3. G[x] \in Seq(B)
    BY DEF Lists
  <2>4. MapFlat(H, MapFlat(G, u) \o G[x]) = MapFlat(H, MapFlat(G, u)) \o MapFlat(H, G[x])
    BY <2>2, <2>3, MapFlatConcat
  <2>5. MapFlat(H, MapFlat(G, u)) = MapFlat(K, u)
    BY <1>2
  <2>6. K[x] = MapFlat(H, G[x]) /\ Append(u, x) \in Seq(A)
    OBVIOUS
  <2>7. MapFlat(H, MapFlat(G, Append(u, x))) = MapFlat(K, Append(u, x))
    BY <2>1, <2>2, <2>4, <2>5, <2>6
  <2> QED BY <2>6, <2>7
<1>3. Seq(A) \subseteq T
  <2> HIDE DEF T
  <2> QED BY <1>1, <1>2, SeqAppendInduction
<1> QED BY <1>3

\* To replace every element by itself changes nothing.
LEMMA MapFlatSingletons ==
  ASSUME NEW A, NEW s \in Seq(A), NEW K \in Lists(A, A), \A a \in A : K[a] = <<a>>
  PROVE  MapFlat(K, s) = s
<1> DEFINE T == {u \in Seq(A) : MapFlat(K, u) = u}
<1>1. << >> \in T
  BY MapFlatEmpty
<1>2. ASSUME NEW u \in Seq(A), NEW x \in A, u \in T PROVE Append(u, x) \in T
  <2>1. K[x] = <<x>> /\ Append(u, x) = u \o <<x>> /\ Append(u, x) \in Seq(A)
    OBVIOUS
  <2>2. MapFlat(K, Append(u, x)) = MapFlat(K, u) \o K[x]
    BY MapFlatAppend
  <2>3. MapFlat(K, u) = u
    BY <1>2
  <2>4. MapFlat(K, Append(u, x)) = Append(u, x)
    BY <2>1, <2>2, <2>3
  <2> QED BY <2>1, <2>4
<1>3. Seq(A) \subseteq T
  <2> HIDE DEF T
  <2> QED BY <1>1, <1>2, SeqAppendInduction
<1> QED BY <1>3

\* The core of the matter.  L[d] replaces an element by what following it to depth d
\* gives, defined from the top: one step, then depth d - 1 for every element found.
\* It is the same to take what depth d gives and to replace each element once more.
LEMMA LevelsAreDepths ==
  ASSUME NEW E, NEW Step \in Lists(E, E), NEW L, \A d \in Nat : L[d] \in Lists(E, E),
         \A e \in E : L[0][e] = <<e>>,
         \A d \in Nat, e \in E : L[d + 1][e] = MapFlat(L[d], Step[e]),
         NEW s \in Seq(E), NEW depth \in Nat
  PROVE  MapFlat(L[depth + 1], s) = MapFlat(Step, MapFlat(L[depth], s))
<1> DEFINE N == {d \in Nat : \A e \in E : L[d + 1][e] = MapFlat(Step, L[d][e])}
<1>0. \A e \in E : Step[e] \in Seq(E)
  BY DEF Lists
<1>a. ASSUME NEW G \in Lists(E, E), NEW K \in Lists(E, E), \A x \in E : K[x] = MapFlat(Step, G[x]),
             NEW t \in Seq(E)
      PROVE  MapFlat(Step, MapFlat(G, t)) = MapFlat(K, t)
  BY <1>a, MapFlatTwice
<1>1. 0 \in N
  <2>1. ASSUME NEW e \in E PROVE L[0 + 1][e] = MapFlat(Step, L[0][e])
    <3>1. L[0] \in Lists(E, E)
      OBVIOUS
    <3>2. MapFlat(L[0], Step[e]) = Step[e]
      BY <1>0, <3>1, MapFlatSingletons
    <3>3. MapFlat(Step, <<e>>) = Step[e]
      BY MapFlatOne
    <3>4. L[0 + 1][e] = MapFlat(L[0], Step[e]) /\ L[0][e] = <<e>>
      OBVIOUS
    <3> QED BY <3>2, <3>3, <3>4
  <2> QED BY <2>1
<1>2. ASSUME NEW d \in Nat, d \in N PROVE d + 1 \in N
  <2>1. ASSUME NEW e \in E PROVE L[(d + 1) + 1][e] = MapFlat(Step, L[d + 1][e])
    <3>1. d + 1 \in Nat /\ L[d] \in Lists(E, E) /\ L[d + 1] \in Lists(E, E)
      OBVIOUS
    <3>2. \A x \in E : L[d + 1][x] = MapFlat(Step, L[d][x])
      BY <1>2
    <3>3. MapFlat(Step, MapFlat(L[d], Step[e])) = MapFlat(L[d + 1], Step[e])
      BY <1>0, <1>a, <3>1, <3>2
    <3>4. L[(d + 1) + 1][e] = MapFlat(L[d + 1], Step[e]) /\ L[d + 1][e] = MapFlat(L[d], Step[e])
      BY <3>1
    <3> QED BY <3>3, <3>4
  <2> QED BY <2>1
<1>3. Nat \subseteq N
  <2> HIDE DEF N
  <2> QED BY <1>1, <1>2, NatSetInduction
<1>4. \A x \in E : L[depth + 1][x] = MapFlat(Step, L[depth][x])
  BY <1>3
<1>5. L[depth] \in Lists(E, E) /\ L[depth + 1] \in Lists(E, E)
  OBVIOUS
<1> QED BY <1>a, <1>4, <1>5
-----------------------------------------------------------------------------
\* A directory holds one file of a name.
UniqueNames == \A f, g \in disk : f.dir = g.dir /\ f.name = g.name => f = g

Disk == disk \subseteq Files /\ UniqueNames

\* What an entry of a YAML file can stand for: nothing or one file.
Entry == {{}} \cup {{f} : f \in disk}

LEMMA EntryIsAFile ==
  /\ {} \in Entry
  /\ \A f \in disk : {f} \in Entry /\ TheFile({f}) = f
  /\ \A e \in Entry : e # {} => TheFile(e) \in disk /\ e = {TheFile(e)}
BY DEF Entry, TheFile

LEMMA FoundIsOnDisk ==
  ASSUME NEW f, NEW n PROVE Found(f, n) \subseteq disk
<1>1. \A d : At(d, n) \subseteq disk
  BY DEF At
<1> QED BY <1>1 DEF Found

LEMMA FoundIsAnEntry ==
  ASSUME UniqueNames, NEW f, NEW n PROVE Found(f, n) \in Entry
<1>1. ASSUME NEW d PROVE At(d, n) \in Entry
  <2>1. CASE At(d, n) = {}
    BY <2>1, EntryIsAFile
  <2>2. CASE At(d, n) # {}
    <3>1. PICK g : g \in At(d, n)
      BY <2>2
    <3>2. g \in disk /\ \A h \in At(d, n) : h = g
      BY <3>1 DEF At, UniqueNames
    <3>3. At(d, n) = {g}
      BY <3>1, <3>2
    <3> QED BY <3>2, <3>3, EntryIsAFile
  <2> QED BY <2>1, <2>2
<1>2. {} \in Entry
  BY EntryIsAFile
<1> HIDE DEF Entry
<1> QED BY <1>1, <1>2 DEF Found

LEMMA ListsOfAFile ==
  ASSUME NEW f \in Files
  PROVE  /\ f.lists \in Seq(Nat) /\ f.path \in Seq(STRING) /\ f.order \in Int /\ f.name \in Nat
         /\ f.yaml \in BOOLEAN /\ f.quals \subseteq Attributes
BY FilesAssumption DEF File

LEMMA EntriesAreEntries ==
  ASSUME Disk, NEW f \in disk PROVE Entries(f) \in Seq(Entry)
<1>1. f.lists \in Seq(Nat)
  BY ListsOfAFile DEF Disk
<1>2. \A i \in DOMAIN f.lists : Found(f, f.lists[i]) \in Entry
  BY FoundIsAnEntry DEF Disk
<1>3. {f} \in Entry
  BY EntryIsAFile
<1>4. [i \in DOMAIN f.lists |-> Found(f, f.lists[i])] \in Seq(Entry)
  BY <1>1, <1>2
<1>5. <<{f}>> \in Seq(Entry)
  BY <1>3
<1> QED BY <1>4, <1>5 DEF Entries
-----------------------------------------------------------------------------
LEMMA FunctionIsASequence ==
  ASSUME NEW V, NEW n \in Nat, NEW g, \A i \in 1 .. n : g[i] \in V
  PROVE  [i \in 1 .. n |-> g[i]] \in Seq(V)
OBVIOUS

\* The recursion of Leaves: the lists of a file whose entries are followed by M.
LeafLists(M, f) ==
  [i \in DOMAIN f.lists |->
     LET e == Found(f, f.lists[i]) IN IF e = {} THEN <<{}>> ELSE M[TheFile(e)]]

LeafStep(M) ==
  [f \in Files |-> IF ~ f.yaml THEN <<{f}>> ELSE FlattenSeq(LeafLists(M, f))]

LEMMA LeafStepType ==
  ASSUME Disk, NEW M \in [Files -> Seq(SUBSET Files)]
  PROVE  LeafStep(M) \in [Files -> Seq(SUBSET Files)]
<1> SUFFICES ASSUME NEW f \in Files
             PROVE  (IF ~ f.yaml THEN <<{f}>> ELSE FlattenSeq(LeafLists(M, f))) \in Seq(SUBSET Files)
  BY DEF LeafStep
<1>1. f.lists \in Seq(Nat)
  BY ListsOfAFile
<1>2. ASSUME NEW i \in DOMAIN f.lists PROVE LeafLists(M, f)[i] \in Seq(SUBSET Files)
  <2>1. Found(f, f.lists[i]) \subseteq Files
    BY FoundIsOnDisk DEF Disk
  <2>2. Found(f, f.lists[i]) # {} => TheFile(Found(f, f.lists[i])) \in Files
    BY <2>1 DEF TheFile
  <2>3. <<{}>> \in Seq(SUBSET Files)
    OBVIOUS
  <2> QED BY <2>2, <2>3 DEF LeafLists
<1>3. LeafLists(M, f) \in Seq(Seq(SUBSET Files))
  <2>1. PICK V : V = Seq(SUBSET Files)
    OBVIOUS
  <2>2. LeafLists(M, f) \in Seq(V)
    <3>1. DOMAIN LeafLists(M, f) = DOMAIN f.lists /\ LeafLists(M, f) = [i \in DOMAIN f.lists |-> LeafLists(M, f)[i]]
      BY DEF LeafLists
    <3>2. \A i \in DOMAIN f.lists : LeafLists(M, f)[i] \in V
      BY <1>2, <2>1
    <3>3. DOMAIN f.lists = 1 .. Len(f.lists) /\ Len(f.lists) \in Nat
      BY <1>1
    <3> HIDE DEF LeafLists
    <3> QED BY <3>1, <3>2, <3>3, FunctionIsASequence
  <2> QED BY <2>1, <2>2
<1>4. FlattenSeq(LeafLists(M, f)) \in Seq(SUBSET Files)
  BY <1>3, FlattenSequences
<1>5. <<{f}>> \in Seq(SUBSET Files)
  OBVIOUS
<1> QED BY <1>4, <1>5

\* The recursive function Leaves exists and is what its definition says.
LEMMA LeavesEquation ==
  ASSUME Disk
  PROVE  /\ \A f \in Files : Leaves[0][f] = <<{f}>>
         /\ \A d \in Nat : Leaves[d + 1] = LeafStep(Leaves[d])
<1> DEFINE V == [Files -> Seq(SUBSET Files)]
           G == [n \in Nat |-> [M \in V |-> LeafStep(M)]]
           v0 == [f \in Files |-> <<{f}>>]
           Def(L) == [depth \in Nat |-> [f \in Files |->
                        IF ~ f.yaml \/ depth = 0 THEN <<{f}>>
                        ELSE FlattenSeq([i \in DOMAIN f.lists |->
                               LET e == Found(f, f.lists[i])
                               IN IF e = {} THEN <<{}>> ELSE L[depth - 1][TheFile(e)]])]]
<1>1. v0 \in V
  OBVIOUS
<1>2. \A M \in V : LeafStep(M) \in V
  BY LeafStepType
<1>3. G \in Steps(V)
  <2> HIDE DEF V
  <2> QED BY <1>2 DEF Steps
<1>4. PICK h \in Runs(V) : IsRun(h, v0, G)
  <2> HIDE DEF V, G, v0
  <2> QED BY <1>1, <1>3, Iteration
<1>5. h[0] = v0 /\ \A n \in Nat : h[n + 1] = LeafStep(h[n])
  <2> HIDE DEF V, v0
  <2> QED BY <1>4 DEF IsRun, Runs
<1>6. ASSUME NEW L PROVE Def(L) = [depth \in Nat |-> IF depth = 0 THEN v0 ELSE LeafStep(L[depth - 1])]
  BY DEF LeafStep, LeafLists
<1>7. h = [depth \in Nat |-> IF depth = 0 THEN v0 ELSE LeafStep(h[depth - 1])]
  <2>1. h = [depth \in Nat |-> h[depth]]
    BY <1>4 DEF Runs
  <2>2. \A depth \in Nat : depth # 0 => depth - 1 \in Nat /\ (depth - 1) + 1 = depth
    OBVIOUS
  <2>3. \A depth \in Nat : h[depth] = IF depth = 0 THEN v0 ELSE LeafStep(h[depth - 1])
    <3> HIDE DEF v0
    <3> QED BY <1>5, <2>2
  <2> HIDE DEF v0
  <2> QED BY <2>1, <2>3
<1>8. h = Def(h)
  <2> HIDE DEF Def, v0
  <2> QED BY <1>6, <1>7
<1>9. Leaves = CHOOSE L : L = Def(L)
  BY DEF Leaves
<1>10. Leaves = Def(Leaves)
  <2> HIDE DEF Def
  <2> QED BY <1>8, <1>9
<1>11. Leaves = [depth \in Nat |-> IF depth = 0 THEN v0 ELSE LeafStep(Leaves[depth - 1])]
  <2> HIDE DEF Def, v0
  <2> QED BY <1>6, <1>10
<1>12. Leaves[0] = v0
  <2> HIDE DEF Def, v0
  <2> QED BY <1>11
<1>13. ASSUME NEW d \in Nat PROVE Leaves[d + 1] = LeafStep(Leaves[d])
  <2>1. d + 1 \in Nat /\ d + 1 # 0 /\ (d + 1) - 1 = d
    OBVIOUS
  <2> HIDE DEF Def, v0
  <2> QED BY <1>11, <2>1
<1> QED BY <1>12, <1>13
-----------------------------------------------------------------------------
\* One level of the code, and a depth of the reference definition, for one entry.
Replace == [e \in Entry |-> IF e = {} THEN <<{}>> ELSE Entries(TheFile(e))]

Follow(depth) == [e \in Entry |-> IF e = {} THEN <<{}>> ELSE Leaves[depth][TheFile(e)]]

Singles(list) == [i \in DOMAIN list |-> {list[i]}]

LEMMA ReplaceType ==
  ASSUME Disk PROVE Replace \in Lists(Entry, Entry)
<1>1. \A e \in Entry : e # {} => Entries(TheFile(e)) \in Seq(Entry)
  BY EntryIsAFile, EntriesAreEntries
<1>2. <<{}>> \in Seq(Entry)
  BY EntryIsAFile
<1> HIDE DEF Entry
<1> QED BY <1>1, <1>2 DEF Replace, Lists

LEMMA FollowNothing ==
  ASSUME Disk, NEW e \in Entry PROVE Follow(0)[e] = <<e>>
<1>1. e # {} => TheFile(e) \in Files /\ e = {TheFile(e)}
  BY EntryIsAFile DEF Disk
<1>2. e # {} => Leaves[0][TheFile(e)] = <<e>>
  BY <1>1, LeavesEquation
<1> QED BY <1>2 DEF Follow

\* Following a file one level deeper is to follow its entries.
LEMMA FollowOneLevelMore ==
  ASSUME Disk, NEW depth \in Nat, Follow(depth) \in Lists(Entry, Entry),
         \A e \in Entry : e # {} /\ ~ TheFile(e).yaml => Follow(depth)[e] = <<e>>,
         NEW e \in Entry
  PROVE  Follow(depth + 1)[e] = MapFlat(Follow(depth), Replace[e])
<1>0. e # {} => TheFile(e) \in disk /\ TheFile(e) \in Files /\ e = {TheFile(e)}
  BY EntryIsAFile DEF Disk
<1>1. CASE e = {}
  <2>1. Follow(depth + 1)[e] = <<{}>> /\ Replace[e] = <<{}>> /\ Follow(depth)[{}] = <<{}>>
    BY <1>1 DEF Follow, Replace
  <2>2. MapFlat(Follow(depth), <<e>>) = Follow(depth)[e]
    BY MapFlatOne
  <2> QED BY <1>1, <2>1, <2>2
<1>2. CASE e # {} /\ ~ TheFile(e).yaml
  <2>1. Follow(depth + 1)[e] = <<e>>
    BY <1>0, <1>2, LeavesEquation DEF Follow, LeafStep
  <2>2. Replace[e] = <<e>>
    BY <1>0, <1>2 DEF Replace, Entries
  <2>3. MapFlat(Follow(depth), <<e>>) = Follow(depth)[e]
    BY MapFlatOne
  <2>4. Follow(depth)[e] = <<e>>
    BY <1>2
  <2> QED BY <2>1, <2>2, <2>3, <2>4
<1>3. CASE e # {} /\ TheFile(e).yaml
  <2> DEFINE f == TheFile(e)
  <2>1. Follow(depth + 1)[e] = FlattenSeq(LeafLists(Leaves[depth], f))
    BY <1>0, <1>3, LeavesEquation DEF Follow, LeafStep
  <2>2. Replace[e] = Entries(f) /\ Entries(f) = [i \in DOMAIN f.lists |-> Found(f, f.lists[i])]
    BY <1>3 DEF Replace, Entries
  <2>3. \A i \in DOMAIN f.lists : Found(f, f.lists[i]) \in Entry
    BY FoundIsAnEntry DEF Disk
  <2>4. \A i \in DOMAIN f.lists : LeafLists(Leaves[depth], f)[i] = Follow(depth)[Entries(f)[i]]
    BY <2>2, <2>3 DEF LeafLists, Follow
  <2>5. LeafLists(Leaves[depth], f) = [i \in DOMAIN f.lists |-> LeafLists(Leaves[depth], f)[i]]
    BY DEF LeafLists
  <2>6. DOMAIN Entries(f) = DOMAIN f.lists
    BY <2>2
  <2>7. LeafLists(Leaves[depth], f) = [i \in DOMAIN Entries(f) |-> Follow(depth)[Entries(f)[i]]]
    BY <2>4, <2>5, <2>6
  <2> QED BY <2>1, <2>2, <2>7 DEF MapFlat
<1> QED BY <1>1, <1>2, <1>3

\* Following an entry gives entries, and a plain script is followed to itself.
LEMMA FollowType ==
  ASSUME Disk
  PROVE  \A depth \in Nat :
           /\ Follow(depth) \in Lists(Entry, Entry)
           /\ \A e \in Entry : e # {} /\ ~ TheFile(e).yaml => Follow(depth)[e] = <<e>>
<1> DEFINE N == {d \in Nat :
                   /\ Follow(d) \in Lists(Entry, Entry)
                   /\ \A e \in Entry : e # {} /\ ~ TheFile(e).yaml => Follow(d)[e] = <<e>>}
<1>1. 0 \in N
  <2>1. ASSUME NEW e \in Entry PROVE Follow(0)[e] \in Seq(Entry)
    <3>1. <<e>> \in Seq(Entry)
      OBVIOUS
    <3> QED BY <3>1, FollowNothing
  <2>2. Follow(0) \in Lists(Entry, Entry)
    <3> HIDE DEF Entry
    <3> QED BY <2>1 DEF Lists, Follow
  <2> QED BY <2>2, FollowNothing
<1>2. ASSUME NEW d \in Nat, d \in N PROVE d + 1 \in N
  <2>1. \A e \in Entry : Replace[e] \in Seq(Entry)
    BY ReplaceType DEF Lists
  <2>2. \A e \in Entry : Follow(d + 1)[e] = MapFlat(Follow(d), Replace[e])
    BY <1>2, FollowOneLevelMore
  <2>3. \A e \in Entry : MapFlat(Follow(d), Replace[e]) \in Seq(Entry)
    BY <1>2, <2>1, MapFlatAppend
  <2>4. Follow(d + 1) \in Lists(Entry, Entry)
    BY <2>2, <2>3 DEF Lists, Follow
  <2>5. ASSUME NEW e \in Entry, e # {}, ~ TheFile(e).yaml PROVE Follow(d + 1)[e] = <<e>>
    <3>1. TheFile(e) \in Files /\ e = {TheFile(e)}
      BY <2>5, EntryIsAFile DEF Disk
    <3> QED BY <2>5, <3>1, LeavesEquation DEF Follow, LeafStep
  <2> QED BY <2>4, <2>5
<1>3. Nat \subseteq N
  <2> HIDE DEF N
  <2> QED BY <1>1, <1>2, NatSetInduction
<1> QED BY <1>3

LEMMA SinglesType ==
  ASSUME NEW list \in Seq(disk)
  PROVE  Singles(list) \in Seq(Entry) /\ DOMAIN Singles(list) = DOMAIN list
<1>1. ASSUME NEW i \in DOMAIN list PROVE {list[i]} \in Entry
  <2>1. list[i] \in disk
    OBVIOUS
  <2> QED BY <2>1, EntryIsAFile
<1> HIDE DEF Entry
<1> QED BY <1>1 DEF Singles

\* AllLeaves as a list whose elements are replaced.
LEMMA AllLeavesFollow ==
  ASSUME Disk, chosen \in Seq(disk), NEW depth \in Nat
  PROVE  AllLeaves(depth) = MapFlat(Follow(depth), Singles(chosen))
<1>1. ASSUME NEW i \in DOMAIN chosen
      PROVE  Leaves[depth][chosen[i]] = Follow(depth)[Singles(chosen)[i]]
  <2>1. chosen[i] \in disk
    OBVIOUS
  <2>2. Singles(chosen)[i] = {chosen[i]}
    BY DEF Singles
  <2>3. {chosen[i]} \in Entry /\ {chosen[i]} # {} /\ TheFile({chosen[i]}) = chosen[i]
    BY <2>1, EntryIsAFile
  <2> QED BY <2>2, <2>3 DEF Follow
<1>2. DOMAIN Singles(chosen) = DOMAIN chosen
  BY SinglesType
<1>3. [i \in DOMAIN chosen |-> Leaves[depth][chosen[i]]]
        = [i \in DOMAIN Singles(chosen) |-> Follow(depth)[Singles(chosen)[i]]]
  BY <1>1, <1>2
<1> QED BY <1>3 DEF AllLeaves, MapFlat

\* Following to depth d + 1 is to replace the YAML files in what depth d gives.
LEMMA LevelByLevel ==
  ASSUME Disk, chosen \in Seq(disk)
  PROVE  /\ AllLeaves(0) = Singles(chosen)
         /\ \A depth \in Nat : AllLeaves(depth + 1) = MapFlat(Replace, AllLeaves(depth))
<1>1. Singles(chosen) \in Seq(Entry)
  BY SinglesType
<1>2. Replace \in Lists(Entry, Entry)
  BY ReplaceType
<1>3. AllLeaves(0) = Singles(chosen)
  <2>1. Follow(0) \in Lists(Entry, Entry) /\ \A e \in Entry : Follow(0)[e] = <<e>>
    BY FollowType, FollowNothing
  <2>2. MapFlat(Follow(0), Singles(chosen)) = Singles(chosen)
    BY <1>1, <2>1, MapFlatSingletons
  <2> QED BY <2>2, AllLeavesFollow
<1>4. ASSUME NEW depth \in Nat PROVE AllLeaves(depth + 1) = MapFlat(Replace, AllLeaves(depth))
  <2>1. PICK L : L = [d \in Nat |-> Follow(d)]
    OBVIOUS
  <2>2. \A d \in Nat : L[d] = Follow(d) /\ L[d + 1] = Follow(d + 1)
    BY <2>1
  <2>3. \A d \in Nat : L[d] \in Lists(Entry, Entry)
    BY <2>2, FollowType
  <2>4. \A e \in Entry : L[0][e] = <<e>>
    BY <2>2, FollowNothing
  <2>5. \A d \in Nat, e \in Entry : L[d + 1][e] = MapFlat(L[d], Replace[e])
    BY <2>2, FollowType, FollowOneLevelMore
  <2>6. MapFlat(L[depth + 1], Singles(chosen)) = MapFlat(Replace, MapFlat(L[depth], Singles(chosen)))
    BY <1>1, <1>2, <2>3, <2>4, <2>5, LevelsAreDepths
  <2>7. AllLeaves(depth) = MapFlat(Follow(depth), Singles(chosen))
    BY AllLeavesFollow
  <2>8. AllLeaves(depth + 1) = MapFlat(Follow(depth + 1), Singles(chosen))
    BY AllLeavesFollow
  <2> QED BY <2>2, <2>6, <2>7, <2>8
<1> QED BY <1>3, <1>4

\* This replacement is what the code does in one level.
LEMMA ExpandedIsOneLevel ==
  ASSUME Disk, scripts \in Seq(disk)
  PROVE  /\ Expanded = MapFlat(Replace, Singles(scripts))
         /\ Expanded \in Seq(Entry)
<1>1. ASSUME NEW i \in DOMAIN scripts PROVE Entries(scripts[i]) = Replace[Singles(scripts)[i]]
  <2>1. Singles(scripts)[i] = {scripts[i]} /\ scripts[i] \in disk
    BY DEF Singles
  <2>2. {scripts[i]} \in Entry /\ {scripts[i]} # {} /\ TheFile({scripts[i]}) = scripts[i]
    BY <2>1, EntryIsAFile
  <2> QED BY <2>1, <2>2 DEF Replace
<1>2. DOMAIN Singles(scripts) = DOMAIN scripts /\ Singles(scripts) \in Seq(Entry)
  BY SinglesType
<1>3. [i \in DOMAIN scripts |-> Entries(scripts[i])]
        = [i \in DOMAIN Singles(scripts) |-> Replace[Singles(scripts)[i]]]
  BY <1>1, <1>2
<1>4. Expanded = MapFlat(Replace, Singles(scripts))
  BY <1>3 DEF Expanded, MapFlat
<1> QED BY <1>2, <1>4, ReplaceType, MapFlatAppend
-----------------------------------------------------------------------------
\* A finite set has a greatest element by any total transitive relation.
LEMMA FiniteMaximum ==
  ASSUME NEW B, IsFiniteSet(B), B # {}, NEW R,
         \A x, y \in B : <<x, y>> \in R \/ <<y, x>> \in R,
         \A x, y, z \in B : <<x, y>> \in R /\ <<y, z>> \in R => <<x, z>> \in R
  PROVE  \E m \in B : \A x \in B : <<x, m>> \in R
<1> DEFINE N == {n \in Nat : \A X \in SUBSET B :
                   Cardinality(X) = n /\ X # {} => \E m \in X : \A x \in X : <<x, m>> \in R}
<1>0. \A X \in SUBSET B : IsFiniteSet(X) /\ Cardinality(X) \in Nat
  BY FS_Subset, FS_CardinalityType
<1>1. 0 \in N
  BY <1>0, FS_EmptySet
<1>2. ASSUME NEW n \in Nat, n \in N PROVE n + 1 \in N
  <2>1. ASSUME NEW X \in SUBSET B, Cardinality(X) = n + 1, X # {}
        PROVE  \E m \in X : \A x \in X : <<x, m>> \in R
    <3>1. PICK y \in X : TRUE
      BY <2>1
    <3> DEFINE Y == X \ {y}
    <3>2. Cardinality(Y) = n /\ Y \in SUBSET B
      <4>1. IsFiniteSet(X)
        BY <1>0
      <4>2. Cardinality(Y) = Cardinality(X) - 1
        BY <3>1, <4>1, FS_RemoveElement
      <4> QED BY <2>1, <4>2
    <3>3. CASE Y = {}
      <4>1. \A x \in X : x = y
        BY <3>3
      <4>2. <<y, y>> \in R
        BY <3>1
      <4> QED BY <3>1, <4>1, <4>2
    <3>4. CASE Y # {}
      <4>1. PICK m \in Y : \A x \in Y : <<x, m>> \in R
        BY <1>2, <3>2, <3>4
      <4>2. y \in B /\ m \in B /\ m \in X
        BY <3>1
      <4>3. CASE <<y, m>> \in R
        <5>1. \A x \in X : x \in Y \/ x = y
          OBVIOUS
        <5> QED BY <4>1, <4>2, <4>3, <5>1
      <4>4. CASE <<m, y>> \in R
        <5>1. ASSUME NEW x \in X PROVE <<x, y>> \in R
          <6>1. x \in Y \/ x = y
            OBVIOUS
          <6>2. x \in Y => <<x, y>> \in R
            BY <4>1, <4>2, <4>4
          <6>3. <<y, y>> \in R
            BY <4>2
          <6> QED BY <6>1, <6>2, <6>3
        <5> QED BY <3>1, <5>1
      <4> QED BY <4>2, <4>3, <4>4
    <3> QED BY <3>3, <3>4
  <2> QED BY <2>1
<1>3. Nat \subseteq N
  <2> HIDE DEF N
  <2> QED BY <1>1, <1>2, NatSetInduction
<1> QED BY <1>0, <1>3

\* Lists by rising order number, and such lists of all elements of a set.
Increasing(s) == \A i, j \in DOMAIN s : i < j => s[i].order < s[j].order

Enumerations(B) == {s \in [1 .. Cardinality(B) -> B] : Increasing(s)}

\* Finitely many files with different order numbers can be listed in rising order,
\* and such a list has every one of them.
LEMMA Enumeration ==
  ASSUME NEW B, IsFiniteSet(B), \A f \in B : f.order \in Int,
         \A f, g \in B : f.order = g.order => f = g
  PROVE  \E s : s \in Enumerations(B)
<1> DEFINE N == {n \in Nat : \A X \in SUBSET B :
                   Cardinality(X) = n => \E s \in [1 .. n -> X] : Increasing(s)}
<1>0. \A X \in SUBSET B : IsFiniteSet(X) /\ Cardinality(X) \in Nat
  BY FS_Subset, FS_CardinalityType
<1>1. 0 \in N
  <2>1. ASSUME NEW X PROVE \E s \in [1 .. 0 -> X] : Increasing(s)
    <3>1. << >> \in [1 .. 0 -> X]
      OBVIOUS
    <3>2. Increasing(<< >>)
      BY DEF Increasing
    <3> QED BY <3>1, <3>2
  <2> QED BY <2>1
<1>2. ASSUME NEW n \in Nat, n \in N PROVE n + 1 \in N
  <2>1. ASSUME NEW X \in SUBSET B, Cardinality(X) = n + 1
        PROVE  \E s \in [1 .. n + 1 -> X] : Increasing(s)
    <3>1. X # {} /\ IsFiniteSet(X)
      BY <1>0, <2>1, FS_EmptySet
    <3>2. PICK m \in X : \A f \in X : f.order <= m.order
      <4>1. PICK R : R = {p \in X \X X : p[1].order <= p[2].order}
        OBVIOUS
      <4>2. ASSUME NEW x \in X, NEW y \in X PROVE <<x, y>> \in R <=> x.order <= y.order
        <5>1. <<x, y>> \in X \X X /\ <<x, y>>[1] = x /\ <<x, y>>[2] = y
          OBVIOUS
        <5> QED BY <4>1, <5>1
      <4>3. \A x \in X : x.order \in Int
        OBVIOUS
      <4>4. ASSUME NEW x \in X, NEW y \in X PROVE <<x, y>> \in R \/ <<y, x>> \in R
        <5>1. x.order \in Int /\ y.order \in Int
          BY <4>3
        <5>2. x.order <= y.order \/ y.order <= x.order
          BY <5>1
        <5> QED BY <4>2, <5>2
      <4>5. \A x, y, z \in X : <<x, y>> \in R /\ <<y, z>> \in R => <<x, z>> \in R
        BY <4>2, <4>3
      <4>6. \E m \in X : \A x \in X : <<x, m>> \in R
        BY <3>1, <4>4, <4>5, FiniteMaximum
      <4> QED BY <4>2, <4>6
    <3> DEFINE Y == X \ {m}
    <3>3. Cardinality(Y) = n /\ Y \in SUBSET B
      <4>1. Cardinality(Y) = Cardinality(X) - 1
        BY <3>1, FS_RemoveElement
      <4> QED BY <2>1, <4>1
    <3>4. PICK s \in [1 .. n -> Y] : Increasing(s)
      BY <1>2, <3>3
    <3> DEFINE t == [i \in 1 .. n + 1 |-> IF i = n + 1 THEN m ELSE s[i]]
    <3>5. t \in [1 .. n + 1 -> X]
      OBVIOUS
    <3>6. ASSUME NEW i \in 1 .. n + 1, NEW j \in 1 .. n + 1, i < j PROVE t[i].order < t[j].order
      <4>1. i \in 1 .. n /\ t[i] = s[i] /\ s[i] \in X /\ s[i] # m
        BY <3>6
      <4>2. CASE j = n + 1
        <5>1. t[j] = m
          BY <4>2
        <5>2. s[i].order <= m.order /\ s[i].order # m.order /\ s[i].order \in Int /\ m.order \in Int
          BY <3>2, <4>1
        <5> QED BY <4>1, <5>1, <5>2
      <4>3. CASE j # n + 1
        <5>1. j \in 1 .. n /\ t[j] = s[j]
          BY <4>3
        <5>2. s[i].order < s[j].order
          BY <3>4, <3>6, <4>1, <5>1 DEF Increasing
        <5> QED BY <4>1, <5>1, <5>2
      <4> QED BY <4>2, <4>3
    <3>7. Increasing(t)
      BY <3>6 DEF Increasing
    <3> QED BY <3>5, <3>7
  <2> QED BY <2>1
<1>3. Nat \subseteq N
  <2> HIDE DEF N
  <2> QED BY <1>1, <1>2, NatSetInduction
<1>4. Cardinality(B) \in N
  BY <1>0, <1>3
<1> QED BY <1>4 DEF Enumerations

LEMMA EnumerationIsOnto ==
  ASSUME NEW B, IsFiniteSet(B), \A f \in B : f.order \in Int,
         NEW s \in Enumerations(B), NEW b \in B
  PROVE  \E i \in DOMAIN s : s[i] = b
<1> DEFINE I == 1 .. Cardinality(B)
<1>0. s \in [I -> B] /\ Increasing(s)
  BY DEF Enumerations
<1>1. Cardinality(B) \in Nat /\ Cardinality(I) = Cardinality(B)
  BY FS_CardinalityType, FS_Interval
<1>2. ASSUME NEW i \in I, NEW j \in I, s[i] = s[j] PROVE i = j
  <2>1. s[i].order \in Int /\ s[j].order \in Int
    BY <1>0
  <2>2. ~ i < j /\ ~ j < i
    BY <1>0, <1>2, <2>1 DEF Increasing
  <2> QED BY <1>1, <2>2
<1>3. s \in Injection(I, B)
  BY <1>0, <1>2 DEF Injection, IsInjective
<1>4. s \in Surjection(I, B)
  <2> HIDE DEF I
  <2> QED BY <1>1, <1>3, FS_Injection
<1> QED BY <1>0, <1>4 DEF Surjection
-----------------------------------------------------------------------------
\* A file with a hit has fewer misses than one hit outweighs.
LEMMA HitsAndMisses ==
  ASSUME NEW quals \in SUBSET Attributes, attributes \subseteq Attributes
  PROVE  /\ Hits(quals) \in Nat /\ Misses(quals) \in Nat
         /\ Hits(quals) > 0 => Misses(quals) < 1000
         /\ Rank(quals) \in Int
<1>1. /\ IsFiniteSet(quals \cap attributes) /\ IsFiniteSet(quals \ attributes)
      /\ Cardinality(quals \ attributes) <= Cardinality(Attributes)
      /\ (Cardinality(Attributes) = Cardinality(quals \ attributes) => Attributes = quals \ attributes)
  BY FiniteAssumption, FS_Subset
<1>2. /\ Cardinality(quals \cap attributes) \in Nat /\ Cardinality(quals \ attributes) \in Nat
      /\ Cardinality(Attributes) \in Nat
  BY <1>1, FiniteAssumption, FS_CardinalityType
<1>3. Hits(quals) \in Nat /\ Misses(quals) \in Nat
  BY <1>2 DEF Hits, Misses
<1>4. Hits(quals) > 0 => Misses(quals) < 1000
  <2> SUFFICES ASSUME Hits(quals) > 0 PROVE Misses(quals) < 1000
    OBVIOUS
  <2>1. Hits(quals) # 0
    BY <1>3
  <2>2. quals \cap attributes # {}
    BY <2>1, FS_EmptySet DEF Hits
  <2>3. Attributes # quals \ attributes
    BY <2>2
  <2>4. Misses(quals) # Cardinality(Attributes)
    BY <1>1, <2>3 DEF Misses
  <2> QED BY <1>1, <1>2, <2>4, BoostAssumption DEF Misses
<1> QED BY <1>3, <1>4 DEF Rank

\* The rank of a file ranks hits first and misses next.
LEMMA RankIsLexicographic ==
  ASSUME attributes \subseteq Attributes, NEW p \in SUBSET Attributes, NEW q \in SUBSET Attributes
  PROVE  /\ Hits(p) > Hits(q) => Rank(p) > Rank(q)
         /\ Hits(p) = Hits(q) /\ Misses(p) < Misses(q) => Rank(p) > Rank(q)
         /\ Hits(p) = Hits(q) /\ Misses(p) = Misses(q) => Rank(p) = Rank(q)
<1>1. /\ Hits(p) \in Nat /\ Misses(p) \in Nat /\ Hits(q) \in Nat /\ Misses(q) \in Nat
      /\ Hits(p) > 0 => Misses(p) < 1000
  BY HitsAndMisses
<1> QED BY <1>1 DEF Rank
-----------------------------------------------------------------------------
\* f comes after g when sorted by name and then, stably, by rank.
AtLeastAsGood(f, g) ==
  Rank(g.quals) < Rank(f.quals) \/ (Rank(g.quals) = Rank(f.quals) /\ g.name <= f.name)

\* Sorting has a last file.
LEMMA BestFittingIsBest ==
  ASSUME Disk, attributes \subseteq Attributes, NEW G \in SUBSET disk, G # {}
  PROVE  BestFitting(G) \in G /\ \A g \in G : AtLeastAsGood(BestFitting(G), g)
<1>1. PICK R : R = {p \in G \X G : AtLeastAsGood(p[2], p[1])}
  OBVIOUS
<1>2. ASSUME NEW x \in G, NEW y \in G PROVE <<x, y>> \in R <=> AtLeastAsGood(y, x)
  <2>1. <<x, y>> \in G \X G /\ <<x, y>>[1] = x /\ <<x, y>>[2] = y
    OBVIOUS
  <2> QED BY <1>1, <2>1
<1>3. ASSUME NEW x \in G PROVE Rank(x.quals) \in Int /\ x.name \in Nat
  <2>1. x \in Files
    BY DEF Disk
  <2> QED BY <2>1, ListsOfAFile, HitsAndMisses
<1>4. ASSUME NEW x \in G, NEW y \in G PROVE <<x, y>> \in R \/ <<y, x>> \in R
  BY <1>2, <1>3 DEF AtLeastAsGood
<1>5. ASSUME NEW x \in G, NEW y \in G, NEW z \in G, <<x, y>> \in R, <<y, z>> \in R PROVE <<x, z>> \in R
  <2>1. AtLeastAsGood(y, x) /\ AtLeastAsGood(z, y)
    BY <1>2, <1>5
  <2>2. AtLeastAsGood(z, x)
    BY <1>3, <2>1 DEF AtLeastAsGood
  <2> QED BY <1>2, <2>2
<1>6. IsFiniteSet(G)
  BY FiniteAssumption, FS_Subset DEF Disk
<1>7. \E m \in G : \A x \in G : <<x, m>> \in R
  BY <1>4, <1>5, <1>6, FiniteMaximum
<1>8. \E m \in G : \A x \in G : AtLeastAsGood(m, x)
  BY <1>2, <1>7
<1> QED BY <1>8 DEF BestFitting, AtLeastAsGood

\* The file that comes last by rank and name fits best.
LEMMA NoneFitsBetter ==
  ASSUME attributes \subseteq Attributes, NEW f \in Files, NEW g \in Files, AtLeastAsGood(g, f)
  PROVE  ~ FitsBetter(f, g)
<1>1. f.quals \in SUBSET Attributes /\ g.quals \in SUBSET Attributes /\ f.name \in Nat /\ g.name \in Nat
  BY ListsOfAFile
<1>2. /\ Hits(f.quals) \in Nat /\ Misses(f.quals) \in Nat /\ Rank(f.quals) \in Int
      /\ Hits(g.quals) \in Nat /\ Misses(g.quals) \in Nat /\ Rank(g.quals) \in Int
  BY <1>1, HitsAndMisses
<1>3. /\ Hits(f.quals) > Hits(g.quals) => Rank(f.quals) > Rank(g.quals)
      /\ Hits(f.quals) = Hits(g.quals) /\ Misses(f.quals) < Misses(g.quals) => Rank(f.quals) > Rank(g.quals)
      /\ Hits(f.quals) = Hits(g.quals) /\ Misses(f.quals) = Misses(g.quals) => Rank(f.quals) = Rank(g.quals)
  BY <1>1, RankIsLexicographic
<1> QED BY <1>1, <1>2, <1>3 DEF AtLeastAsGood, FitsBetter

\* The candidates of an order number.
Same(o) == {f \in Candidates : f.order = o}

\* The best files are one for every order number of a candidate.
LEMMA BestFiles ==
  ASSUME Disk, attributes \subseteq Attributes
  PROVE  /\ Best \subseteq Candidates /\ Candidates \subseteq disk /\ IsFiniteSet(Best)
         /\ \A f \in Best : f.order \in Int
         /\ \A f, g \in Best : f.order = g.order => f = g
         /\ \A f \in Candidates : \E g \in Best : g.order = f.order /\ AtLeastAsGood(g, f)
<1>1. Candidates \subseteq disk
  BY DEF Candidates
<1>2. ASSUME NEW f \in Candidates
      PROVE  /\ BestFitting(Same(f.order)) \in Same(f.order)
             /\ \A g \in Same(f.order) : AtLeastAsGood(BestFitting(Same(f.order)), g)
  <2>1. f \in Same(f.order) /\ Same(f.order) \in SUBSET disk
    BY <1>1 DEF Same
  <2> QED BY <2>1, BestFittingIsBest
<1>3. Best = {BestFitting(Same(o)) : o \in {f.order : f \in Candidates}}
  BY DEF Best, Same
<1>4. \A b \in Best : \E f \in Candidates : b = BestFitting(Same(f.order))
  BY <1>3
<1>5. \A f \in Candidates : BestFitting(Same(f.order)) \in Best
  BY <1>3
<1>6. ASSUME NEW b \in Best
      PROVE  b \in Candidates /\ b = BestFitting(Same(b.order))
  <2>1. PICK f \in Candidates : b = BestFitting(Same(f.order))
    BY <1>4
  <2>2. b \in Same(f.order)
    BY <1>2, <2>1
  <2>3. b \in Candidates /\ b.order = f.order
    BY <2>2 DEF Same
  <2> QED BY <2>1, <2>3
<1>7. Best \subseteq Candidates
  BY <1>6
<1>8. IsFiniteSet(Best)
  BY <1>1, <1>7, FiniteAssumption, FS_Subset DEF Disk
<1>9. \A f \in Best : f.order \in Int
  <2>1. \A f \in Best : f \in Files
    BY <1>1, <1>7 DEF Disk
  <2> QED BY <2>1, ListsOfAFile
<1>10. \A f, g \in Best : f.order = g.order => f = g
  BY <1>6
<1>11. ASSUME NEW f \in Candidates PROVE \E g \in Best : g.order = f.order /\ AtLeastAsGood(g, f)
  <2>1. f \in Same(f.order)
    BY DEF Same
  <2>2. BestFitting(Same(f.order)).order = f.order
    BY <1>2 DEF Same
  <2> QED BY <1>2, <1>5, <2>1, <2>2
<1> QED BY <1>1, <1>7, <1>8, <1>9, <1>10, <1>11

\* What filterScriptFiles returns.
LEMMA FilteredIsTheBest ==
  ASSUME Disk, attributes \subseteq Attributes
  PROVE  /\ Filtered \in Seq(disk) /\ Filtered \in Seq(Candidates)
         /\ \A i, j \in DOMAIN Filtered : i < j => Filtered[i].order < Filtered[j].order
         /\ \A f \in Candidates : \E i \in DOMAIN Filtered :
              f.order = Filtered[i].order /\ ~ FitsBetter(f, Filtered[i])
<1>1. \E s : s \in Enumerations(Best)
  BY BestFiles, Enumeration
<1>2. Filtered \in [1 .. Cardinality(Best) -> Best] /\ Increasing(Filtered)
  BY <1>1 DEF Filtered, Increasing, Enumerations
<1>3. Cardinality(Best) \in Nat
  BY BestFiles, FS_CardinalityType
<1>4. Filtered \in Seq(Candidates) /\ Filtered \in Seq(disk)
  <2>1. Best \subseteq Candidates /\ Best \subseteq disk
    BY BestFiles
  <2>2. Filtered \in [1 .. Cardinality(Best) -> Candidates] /\ Filtered \in [1 .. Cardinality(Best) -> disk]
    BY <1>2, <2>1
  <2> QED BY <1>3, <2>2
<1>5. ASSUME NEW f \in Candidates
      PROVE  \E i \in DOMAIN Filtered : f.order = Filtered[i].order /\ ~ FitsBetter(f, Filtered[i])
  <2>1. PICK g \in Best : g.order = f.order /\ AtLeastAsGood(g, f)
    BY BestFiles
  <2>2. f \in Files /\ g \in Files
    BY BestFiles DEF Disk
  <2>3. ~ FitsBetter(f, g)
    BY <2>1, <2>2, NoneFitsBetter
  <2>4. \E i \in DOMAIN Filtered : Filtered[i] = g
    <3>1. IsFiniteSet(Best) /\ \A b \in Best : b.order \in Int
      BY BestFiles
    <3>2. Filtered \in Enumerations(Best)
      BY <1>2 DEF Enumerations
    <3> QED BY <3>1, <3>2, EnumerationIsOnto
  <2> QED BY <2>1, <2>3, <2>4
<1> QED BY <1>2, <1>4, <1>5 DEF Increasing
-----------------------------------------------------------------------------
\* f is what a name listed anywhere stands for, or lies in the stack.
InSight(f) == f.dir # StackDir => At(StackDir, f.name) = {}

ScriptsInSight == \A i \in DOMAIN scripts : InSight(scripts[i])

\* What following the lists to the current level gives is the list of the code; the
\* level is not looked at again unless the list has a YAML file.
LevelsDone ==
  /\ stage = "new" => chosen = << >> /\ scripts = << >> /\ level = 0
  /\ stage \in {"inject", "recursive", "missing"} =>
       /\ AllLeaves(level) = Singles(scripts)
       /\ level > 0 => HasYaml(scripts)
  /\ stage = "recursive" => level = MaxLevel
  /\ stage = "missing" => level < MaxLevel /\ Replaced = {}
  /\ stage = "done" =>
       level < MaxLevel /\ AllLeaves(level + 1) = Singles(scripts) /\ ~ HasYaml(scripts)

\* The inductive invariant.
Inv ==
  /\ TypeOK /\ UniqueNames /\ chosen \in Seq(disk)
  /\ BestOfEachOrder /\ MostSpecialPlugin /\ ScriptsInSight /\ LevelsDone

\* The files on disk, and so what entries stand for, never change.
LEMMA UnchangedDisk ==
  ASSUME disk' = disk
  PROVE  /\ Leaves' = Leaves /\ (Disk => Disk') /\ (UniqueNames <=> UniqueNames')
         /\ \A d, n : At(d, n)' = At(d, n)
         /\ Candidates' = Candidates
BY DEF Leaves, Found, At, LookupPath, TheFile, Disk, UniqueNames, Candidates

LEMMA UnchangedAttributes ==
  ASSUME attributes' = attributes
  PROVE  /\ \A f, g : FitsBetter(f, g)' <=> FitsBetter(f, g)
         /\ \A q : Rank(q)' = Rank(q)
BY DEF FitsBetter, Hits, Misses, Rank
-----------------------------------------------------------------------------
\* The directory of the stack is the first of every lookup path.
LEMMA FirstOfThePath ==
  ASSUME NEW f \in Files
  PROVE  /\ DOMAIN LookupPath(f) \subseteq Nat \ {0} /\ 1 \in DOMAIN LookupPath(f)
         /\ LookupPath(f)[1] = StackDir
<1>1. f.path \in Seq(STRING)
  BY ListsOfAFile
<1>2. LookupPath(f) = <<StackDir, f.dir>> \o f.path
  BY DEF LookupPath
<1>3. Len(f.path) \in Nat
  BY <1>1
<1>4. DOMAIN LookupPath(f) = 1 .. 2 + Len(f.path) /\ LookupPath(f)[1] = StackDir
  BY <1>1, <1>2, <1>3
<1> QED BY <1>3, <1>4

\* The first hit of the path is in the stack, or the stack has no file of the name.
LEMMA FoundIsInSight ==
  ASSUME Disk, NEW f \in Files, NEW n, NEW g \in Found(f, n)
  PROVE  InSight(g)
<1> DEFINE H == {i \in DOMAIN LookupPath(f) : At(LookupPath(f)[i], n) # {}}
           k == CHOOSE i \in H : \A j \in H : i <= j
<1>1. H # {} /\ g \in At(LookupPath(f)[k], n)
  BY DEF Found
<1>2. g.name = n /\ g.dir = LookupPath(f)[k]
  BY <1>1 DEF At
<1>3. H \in SUBSET Nat /\ \A i \in H : 1 <= i
  BY FirstOfThePath
<1>4. k \in H /\ \A j \in H : k <= j
  <2>1. \E i \in H : \A j \in H : i <= j
    <3> HIDE DEF H
    <3> QED BY <1>1, <1>3, LeastNumber
  <2> HIDE DEF H
  <2> QED BY <2>1
<1>5. CASE At(StackDir, n) = {}
  BY <1>2, <1>5 DEF InSight
<1>6. CASE At(StackDir, n) # {}
  <2>1. 1 \in H
    BY <1>6, FirstOfThePath
  <2>2. k = 1
    <3>1. k <= 1 /\ 1 <= k /\ k \in Nat
      BY <1>3, <1>4, <2>1
    <3> QED BY <3>1
  <2>3. g.dir = StackDir
    BY <1>2, <2>2, FirstOfThePath
  <2> QED BY <2>3 DEF InSight
<1> QED BY <1>5, <1>6

EntryInSight == {e \in Entry : \A f \in e : InSight(f)}

\* So are all entries that a level yields.
LEMMA ExpandedInSight ==
  ASSUME Disk, scripts \in Seq(disk), ScriptsInSight
  PROVE  Expanded \in Seq(EntryInSight)
<1>1. ASSUME NEW i \in DOMAIN scripts PROVE Entries(scripts[i]) \in Seq(EntryInSight)
  <2> DEFINE f == scripts[i]
  <2>1. f \in disk /\ f \in Files /\ InSight(f)
    BY DEF Disk, ScriptsInSight
  <2>2. CASE ~ f.yaml
    <3>1. {f} \in EntryInSight
      BY <2>1, EntryIsAFile DEF EntryInSight
    <3>2. Entries(f) = <<{f}>>
      BY <2>2 DEF Entries
    <3> QED BY <3>1, <3>2
  <2>3. CASE f.yaml
    <3>1. Entries(f) = [j \in DOMAIN f.lists |-> Found(f, f.lists[j])]
      BY <2>3 DEF Entries
    <3>2. ASSUME NEW j \in DOMAIN f.lists PROVE Found(f, f.lists[j]) \in EntryInSight
      BY <2>1, FoundIsAnEntry, FoundIsInSight DEF Disk, EntryInSight
    <3>3. f.lists \in Seq(Nat)
      BY <2>1, ListsOfAFile
    <3> HIDE DEF f
    <3>4. [j \in DOMAIN f.lists |-> Found(f, f.lists[j])] \in Seq(EntryInSight)
      BY <3>2, <3>3
    <3> QED BY <3>1, <3>4 DEF f
  <2> QED BY <2>2, <2>3
<1>2. PICK V : V = Seq(EntryInSight)
  OBVIOUS
<1>3. [i \in DOMAIN scripts |-> Entries(scripts[i])] \in Seq(V)
  <2>1. DOMAIN scripts = 1 .. Len(scripts) /\ Len(scripts) \in Nat
    OBVIOUS
  <2>2. PICK g : g = [i \in 1 .. Len(scripts) |-> Entries(scripts[i])]
    OBVIOUS
  <2>3. \A i \in 1 .. Len(scripts) : g[i] \in V
    BY <1>1, <1>2, <2>1, <2>2
  <2>4. [i \in 1 .. Len(scripts) |-> g[i]] \in Seq(V)
    BY <2>1, <2>3, FunctionIsASequence
  <2> QED BY <2>1, <2>2, <2>4
<1>4. FlattenSeq([i \in DOMAIN scripts |-> Entries(scripts[i])]) \in Seq(EntryInSight)
  BY <1>2, <1>3, FlattenSequences
<1> QED BY <1>4 DEF Expanded

\* A level that finds every entry yields files of the disk.
LEMMA ReplacedScripts ==
  ASSUME Disk, scripts \in Seq(disk), ScriptsInSight, NEW list \in Replaced
  PROVE  /\ list \in Seq(disk) /\ Expanded = Singles(list)
         /\ \A i \in DOMAIN list : InSight(list[i])
<1>1. /\ \A i \in DOMAIN Expanded : Expanded[i] # {}
      /\ list = [i \in DOMAIN Expanded |-> TheFile(Expanded[i])]
  BY DEF Replaced
<1>2. Expanded \in Seq(EntryInSight)
  BY ExpandedInSight
<1>3. ASSUME NEW i \in DOMAIN Expanded
      PROVE  list[i] \in disk /\ Expanded[i] = {list[i]} /\ InSight(list[i])
  <2>1. Expanded[i] \in EntryInSight /\ Expanded[i] # {} /\ list[i] = TheFile(Expanded[i])
    BY <1>1, <1>2
  <2>2. Expanded[i] \in Entry /\ \A f \in Expanded[i] : InSight(f)
    BY <2>1 DEF EntryInSight
  <2> QED BY <2>1, <2>2, EntryIsAFile
<1>4. DOMAIN list = DOMAIN Expanded
  BY <1>1
<1>5. list \in Seq(disk)
  <2>1. DOMAIN Expanded = 1 .. Len(Expanded) /\ Len(Expanded) \in Nat
    BY <1>2
  <2>2. list = [i \in 1 .. Len(Expanded) |-> list[i]]
    BY <1>1, <2>1
  <2>3. \A i \in 1 .. Len(Expanded) : list[i] \in disk
    BY <1>3, <2>1
  <2>4. [i \in 1 .. Len(Expanded) |-> list[i]] \in Seq(disk)
    BY <2>1, <2>3, FunctionIsASequence
  <2> QED BY <2>2, <2>4
<1>6. Expanded = Singles(list)
  <2>1. Expanded = [i \in DOMAIN Expanded |-> Expanded[i]]
    BY <1>2
  <2> QED BY <1>3, <1>4, <2>1 DEF Singles
<1> QED BY <1>3, <1>4, <1>5, <1>6
-----------------------------------------------------------------------------
\* One lemma for every action.
LEMMA InvInit == Init => Inv
<1> SUFFICES ASSUME Init PROVE Inv
  OBVIOUS
<1>1. disk \subseteq Files /\ UniqueNames
  BY DEF Init, UniqueNames
<1>2. /\ plugins = {} /\ attributes \subseteq Attributes /\ stage = "new" /\ level = 0
      /\ chosen = << >> /\ scripts = << >> /\ plugin = NoPlugin
  BY DEF Init
<1>3. chosen \in Seq(disk) /\ scripts \in Seq(disk) /\ chosen \in Seq(Files)
  BY <1>2
<1>4. TypeOK
  BY <1>1, <1>2, <1>3, FilesAssumption DEF TypeOK
<1>5. BestOfEachOrder /\ MostSpecialPlugin
  BY <1>2 DEF BestOfEachOrder, MostSpecialPlugin
<1>6. ScriptsInSight
  BY <1>2 DEF ScriptsInSight
<1>7. LevelsDone
  BY <1>2 DEF LevelsDone
<1> QED BY <1>1, <1>3, <1>4, <1>5, <1>6, <1>7 DEF Inv

LEMMA InvFacts ==
  ASSUME Inv
  PROVE  /\ Disk /\ attributes \subseteq Attributes /\ plugins \subseteq Plugins
         /\ level \in 0 .. MaxLevel /\ MaxLevel \in Nat \ {0}
         /\ chosen \in Seq(disk) /\ scripts \in Seq(disk) /\ chosen \in Seq(Files)
         /\ plugin \in plugins \cup {NoPlugin}
BY FilesAssumption DEF Inv, TypeOK, Disk

\* What the choice of the plugin and the levels have in common: the disk, the
\* attributes and what was chosen are left alone.
LEMMA ChoiceIsKept ==
  ASSUME Inv, stage # "new", UNCHANGED <<disk, attributes, chosen>>
  PROVE  UniqueNames' /\ (chosen \in Seq(disk))' /\ BestOfEachOrder'
<1>1. UniqueNames' /\ (chosen \in Seq(disk))'
  BY UnchangedDisk DEF Inv
<1>2. BestOfEachOrder'
  <2>1. BestOfEachOrder /\ chosen' = chosen
    BY DEF Inv
  <2>2. Candidates' = Candidates /\ \A f, g : FitsBetter(f, g)' <=> FitsBetter(f, g)
    BY UnchangedDisk, UnchangedAttributes
  <2> QED BY <2>1, <2>2 DEF BestOfEachOrder
<1> QED BY <1>1, <1>2

LEMMA PluginIsKept ==
  ASSUME MostSpecialPlugin, UNCHANGED <<attributes, plugins, plugin>>
  PROVE  MostSpecialPlugin'
BY DEF MostSpecialPlugin

\* At level 0 the list is what was chosen.
LEMMA NoLevel == Disk /\ chosen \in Seq(disk) => AllLeaves(0) = Singles(chosen)
BY LevelByLevel

LEMMA NoLevelNextState == (Disk /\ chosen \in Seq(disk))' => (AllLeaves(0) = Singles(chosen))'
BY NoLevel, PTL

LEMMA InvFilterScriptFiles == Inv /\ FilterScriptFiles => Inv'
<1> SUFFICES ASSUME Inv, FilterScriptFiles PROVE Inv'
  OBVIOUS
<1> USE DEF FilterScriptFiles
<1>0. /\ Disk /\ attributes \subseteq Attributes /\ disk \subseteq Files
      /\ level = 0 /\ MaxLevel \in Nat \ {0}
  BY InvFacts DEF Inv, LevelsDone, Disk
<1>1. Filtered \in Seq(disk) /\ Filtered \in Seq(Candidates)
  BY <1>0, FilteredIsTheBest
<1>2. TypeOK'
  <2>1. Filtered \in Seq(Files)
    BY <1>0, <1>1
  <2> QED BY <1>1, <2>1 DEF Inv, TypeOK
<1>3. UniqueNames' /\ (chosen \in Seq(disk))'
  BY <1>1, UnchangedDisk DEF Inv
<1>4. BestOfEachOrder'
  <2>1. Candidates' = Candidates /\ \A f, g : FitsBetter(f, g)' <=> FitsBetter(f, g)
    BY UnchangedDisk, UnchangedAttributes
  <2>2. /\ \A i, j \in DOMAIN Filtered : i < j => Filtered[i].order < Filtered[j].order
        /\ \A f \in Candidates : \E i \in DOMAIN Filtered :
              f.order = Filtered[i].order /\ ~ FitsBetter(f, Filtered[i])
    BY <1>0, FilteredIsTheBest
  <2> QED BY <2>1, <2>2 DEF BestOfEachOrder
<1>5. MostSpecialPlugin'
  BY PluginIsKept DEF Inv
<1>6. ScriptsInSight'
  <2>1. \A i \in DOMAIN Filtered : Filtered[i].dir = StackDir
    BY <1>1 DEF Candidates
  <2> QED BY <2>1 DEF ScriptsInSight, InSight
<1>7. LevelsDone'
  <2>1. Disk' /\ (chosen \in Seq(disk))'
    BY <1>0, <1>3, UnchangedDisk
  <2>2. AllLeaves(0)' = Singles(chosen)'
    BY <2>1, NoLevelNextState
  <2> QED BY <1>0, <2>2 DEF LevelsDone
<1> QED BY <1>2, <1>3, <1>4, <1>5, <1>6, <1>7 DEF Inv

\* What following the lists gives never changes once files are chosen.
LEMMA LeavesAreKept ==
  ASSUME UNCHANGED <<disk, chosen>>, NEW depth PROVE AllLeaves(depth)' = AllLeaves(depth)
BY UnchangedDisk DEF AllLeaves

\* The next level of the code is the next depth of the reference definition.
LEMMA NextLevel ==
  ASSUME Inv, stage \in {"inject", "missing"} PROVE AllLeaves(level + 1) = Expanded
<1>1. Disk /\ chosen \in Seq(disk) /\ scripts \in Seq(disk) /\ level \in Nat
  BY InvFacts
<1>2. AllLeaves(level) = Singles(scripts)
  BY DEF Inv, LevelsDone
<1>3. AllLeaves(level + 1) = MapFlat(Replace, AllLeaves(level))
  BY <1>1, LevelByLevel
<1> QED BY <1>1, <1>2, <1>3, ExpandedIsOneLevel

LEMMA InvInjectYamlScriptFiles == Inv /\ InjectYamlScriptFiles => Inv'
<1> SUFFICES ASSUME Inv, InjectYamlScriptFiles PROVE Inv'
  OBVIOUS
<1> USE DEF InjectYamlScriptFiles
<1>0. /\ Disk /\ level \in Nat /\ MaxLevel \in Nat \ {0} /\ level < MaxLevel
      /\ scripts \in Seq(disk) /\ ScriptsInSight
  BY InvFacts DEF Inv
<1>1. /\ scripts' \in Seq(disk) /\ Expanded = Singles(scripts')
      /\ \A i \in DOMAIN scripts' : InSight(scripts'[i])
  BY <1>0, ReplacedScripts
<1>2. TypeOK'
  <2>1. stage' \in {"inject", "done"} /\ level' \in 0 .. MaxLevel
    BY <1>0
  <2> QED BY <1>1, <2>1 DEF Inv, TypeOK
<1>3. UniqueNames' /\ (chosen \in Seq(disk))' /\ BestOfEachOrder'
  BY ChoiceIsKept
<1>4. MostSpecialPlugin'
  BY PluginIsKept DEF Inv
<1>5. ScriptsInSight'
  <2>1. \A f : InSight(f)' <=> InSight(f)
    BY UnchangedDisk DEF InSight
  <2> QED BY <1>1, <2>1 DEF ScriptsInSight
<1>6. LevelsDone'
  <2>1. AllLeaves(level + 1) = Singles(scripts')
    BY <1>1, NextLevel
  <2>2. AllLeaves(level + 1)' = AllLeaves(level' + 1) /\ \A d : AllLeaves(d)' = AllLeaves(d)
    BY LeavesAreKept DEF AllLeaves
  <2>3. Singles(scripts)' = Singles(scripts') /\ HasYaml(scripts)' = HasYaml(scripts')
    BY DEF Singles, HasYaml
  <2> QED BY <1>0, <2>1, <2>2, <2>3 DEF LevelsDone
<1> QED BY <1>1, <1>2, <1>3, <1>4, <1>5, <1>6 DEF Inv

\* The failures leave everything alone but the stage.
LEMMA LookupFailureKeeps ==
  ASSUME Inv, UNCHANGED <<disk, plugins, attributes, level, chosen, scripts, plugin>>, stage # "new"
  PROVE  /\ UniqueNames' /\ (chosen \in Seq(disk))' /\ (scripts \in Seq(disk))'
         /\ BestOfEachOrder' /\ MostSpecialPlugin' /\ ScriptsInSight'
         /\ \A d : AllLeaves(d)' = AllLeaves(d)
         /\ Singles(scripts)' = Singles(scripts) /\ HasYaml(scripts)' = HasYaml(scripts)
         /\ Replaced' = Replaced
<1>1. UniqueNames' /\ (chosen \in Seq(disk))' /\ BestOfEachOrder'
  BY ChoiceIsKept
<1>2. MostSpecialPlugin' /\ (scripts \in Seq(disk))'
  BY InvFacts, PluginIsKept DEF Inv
<1>3. ScriptsInSight'
  BY UnchangedDisk DEF Inv, ScriptsInSight, InSight
<1>4. \A d : AllLeaves(d)' = AllLeaves(d)
  BY LeavesAreKept
<1>5. Singles(scripts)' = Singles(scripts) /\ HasYaml(scripts)' = HasYaml(scripts)
  BY DEF Singles, HasYaml
<1>6. Replaced' = Replaced
  BY DEF Replaced, Expanded, Entries, Found, At, LookupPath, TheFile
<1> QED BY <1>1, <1>2, <1>3, <1>4, <1>5, <1>6

LEMMA InvEntryNotFound == Inv /\ EntryNotFound => Inv'
<1> SUFFICES ASSUME Inv, EntryNotFound PROVE Inv'
  OBVIOUS
<1> USE DEF EntryNotFound
<1>1. /\ UniqueNames' /\ (chosen \in Seq(disk))' /\ (scripts \in Seq(disk))'
      /\ BestOfEachOrder' /\ MostSpecialPlugin' /\ ScriptsInSight'
      /\ \A d : AllLeaves(d)' = AllLeaves(d)
      /\ Singles(scripts)' = Singles(scripts) /\ HasYaml(scripts)' = HasYaml(scripts)
      /\ Replaced' = Replaced
  BY LookupFailureKeeps
<1>2. TypeOK'
  BY <1>1 DEF Inv, TypeOK
<1>3. LevelsDone'
  <2>1. AllLeaves(level) = Singles(scripts) /\ (level > 0 => HasYaml(scripts))
    BY DEF Inv, LevelsDone
  <2>2. AllLeaves(level)' = AllLeaves(level)
    BY DEF AllLeaves, Leaves, Found, At, LookupPath, TheFile
  <2> QED BY <1>1, <2>1, <2>2 DEF LevelsDone
<1> QED BY <1>1, <1>2, <1>3 DEF Inv

LEMMA InvTooManyLevels == Inv /\ TooManyLevels => Inv'
<1> SUFFICES ASSUME Inv, TooManyLevels PROVE Inv'
  OBVIOUS
<1> USE DEF TooManyLevels
<1>1. /\ UniqueNames' /\ (chosen \in Seq(disk))' /\ (scripts \in Seq(disk))'
      /\ BestOfEachOrder' /\ MostSpecialPlugin' /\ ScriptsInSight'
      /\ \A d : AllLeaves(d)' = AllLeaves(d)
      /\ Singles(scripts)' = Singles(scripts) /\ HasYaml(scripts)' = HasYaml(scripts)
  BY LookupFailureKeeps
<1>2. TypeOK'
  BY <1>1 DEF Inv, TypeOK
<1>3. LevelsDone'
  <2>1. /\ AllLeaves(level) = Singles(scripts) /\ (level > 0 => HasYaml(scripts))
        /\ level = MaxLevel
    BY InvFacts DEF Inv, LevelsDone
  <2>2. AllLeaves(level)' = AllLeaves(level)
    BY DEF AllLeaves, Leaves, Found, At, LookupPath, TheFile
  <2> QED BY <1>1, <2>1, <2>2 DEF LevelsDone
<1> QED BY <1>1, <1>2, <1>3 DEF Inv

\* Among plugins whose qualifiers are all set the more special one ranks higher.
LEMMA MoreHits ==
  ASSUME attributes \subseteq Attributes, NEW p \in SUBSET attributes, NEW q \in SUBSET attributes,
         p \subseteq q, p # q
  PROVE  Rank(p) < Rank(q)
<1>1. p \in SUBSET Attributes /\ q \in SUBSET Attributes
  OBVIOUS
<1>2. Hits(p) = Cardinality(p) /\ Hits(q) = Cardinality(q)
  <2>1. p \cap attributes = p /\ q \cap attributes = q
    OBVIOUS
  <2> QED BY <2>1 DEF Hits
<1>3. IsFiniteSet(q)
  BY <1>1, FiniteAssumption, FS_Subset
<1>4. Cardinality(p) <= Cardinality(q) /\ Cardinality(p) # Cardinality(q)
  BY <1>3, FS_Subset
<1>5. Hits(p) \in Nat /\ Hits(q) \in Nat
  BY <1>1, HitsAndMisses
<1>6. Hits(p) < Hits(q)
  BY <1>2, <1>4, <1>5
<1>7. Hits(q) > Hits(p) => Rank(q) > Rank(p)
  BY <1>1, RankIsLexicographic
<1>8. Rank(p) \in Int /\ Rank(q) \in Int
  BY <1>1, HitsAndMisses
<1> QED BY <1>5, <1>6, <1>7, <1>8

LEMMA InvGetBestWeightedPlugin == Inv /\ GetBestWeightedPlugin => Inv'
<1> SUFFICES ASSUME Inv, GetBestWeightedPlugin PROVE Inv'
  OBVIOUS
<1>0. /\ UNCHANGED <<disk, attributes, stage, level, chosen, scripts>> /\ stage = "done"
      /\ plugins' \in SUBSET Plugins /\ plugin' \in Available(plugins')
      /\ \A p \in Available(plugins') : Rank(p) <= Rank(plugin')
  BY DEF GetBestWeightedPlugin
<1>1. UniqueNames' /\ (chosen \in Seq(disk))' /\ BestOfEachOrder'
  BY <1>0, ChoiceIsKept
<1>2. TypeOK'
  <2>1. plugin' \in plugins'
    BY <1>0 DEF Available
  <2> QED BY <1>0, <2>1 DEF Inv, TypeOK
<1>3. MostSpecialPlugin'
  <2>1. attributes \subseteq Attributes
    BY InvFacts
  <2>2. plugin' \in SUBSET attributes
    BY <1>0 DEF Available
  <2>3. ASSUME NEW q \in plugins', q \subseteq attributes, plugin' \subseteq q, plugin' # q PROVE FALSE
    <3>1. q \in Available(plugins')
      BY <2>3 DEF Available
    <3>2. Rank(q) <= Rank(plugin') /\ Rank(plugin') < Rank(q)
      BY <1>0, <2>1, <2>2, <2>3, <3>1, MoreHits
    <3>3. Rank(q) \in Int /\ Rank(plugin') \in Int
      BY <2>1, <2>2, <2>3, HitsAndMisses
    <3> QED BY <3>2, <3>3
  <2> QED BY <1>0, <2>2, <2>3 DEF MostSpecialPlugin
<1>4. ScriptsInSight'
  BY <1>0, UnchangedDisk DEF Inv, ScriptsInSight, InSight
<1>5. LevelsDone'
  <2>1. level < MaxLevel /\ AllLeaves(level + 1) = Singles(scripts) /\ ~ HasYaml(scripts)
    BY <1>0 DEF Inv, LevelsDone
  <2>2. AllLeaves(level + 1)' = AllLeaves(level + 1)
    BY <1>0 DEF AllLeaves, Leaves, Found, At, LookupPath, TheFile
  <2>3. Singles(scripts)' = Singles(scripts) /\ HasYaml(scripts)' = HasYaml(scripts)
    BY <1>0 DEF Singles, HasYaml
  <2> QED BY <1>0, <2>1, <2>2, <2>3 DEF LevelsDone
<1> QED BY <1>1, <1>2, <1>3, <1>4, <1>5 DEF Inv

LEMMA InvStutters == Inv /\ UNCHANGED vars => Inv'
<1> SUFFICES ASSUME Inv, UNCHANGED vars PROVE Inv'
  OBVIOUS
<1> USE DEF vars
<1>1. TypeOK' /\ UniqueNames' /\ (chosen \in Seq(disk))' /\ MostSpecialPlugin'
  BY UnchangedDisk, PluginIsKept DEF Inv, TypeOK
<1>2. BestOfEachOrder'
  BY UnchangedDisk, UnchangedAttributes DEF Inv, BestOfEachOrder
<1>3. ScriptsInSight'
  BY UnchangedDisk DEF Inv, ScriptsInSight, InSight
<1>4. AllLeaves(level)' = AllLeaves(level) /\ AllLeaves(level + 1)' = AllLeaves(level + 1)
  BY DEF AllLeaves, Leaves, Found, At, LookupPath, TheFile
<1>5. Replaced' = Replaced /\ Singles(scripts)' = Singles(scripts) /\ HasYaml(scripts)' = HasYaml(scripts)
  BY DEF Replaced, Expanded, Entries, Found, At, LookupPath, TheFile, Singles, HasYaml
<1>6. LevelsDone'
  BY <1>4, <1>5 DEF Inv, LevelsDone
<1> QED BY <1>1, <1>2, <1>3, <1>6 DEF Inv

\* The invariant holds in every behaviour of resolve() and getBestWeightedPlugin().
THEOREM InductiveInvariant == Spec => []Inv
<1>1. Init => Inv
  BY InvInit
<1>2. Inv /\ [Next]_vars => Inv'
  BY InvFilterScriptFiles, InvInjectYamlScriptFiles, InvEntryNotFound, InvTooManyLevels,
     InvGetBestWeightedPlugin, InvStutters DEF Next
<1> QED BY <1>1, <1>2, PTL DEF Spec
-----------------------------------------------------------------------------
\* The level counter never passes MaxLevel, the scripts are files of the disk and the
\* plugin is one that was found.
THEOREM TypeCorrect == Spec => []TypeOK
<1>1. Inv => TypeOK
  BY DEF Inv
<1> QED BY <1>1, InductiveInvariant, PTL

\* For every disk and every set of runtime attributes a stack runs one file of each
\* order number, in rising order, and none that fits better is left out.
THEOREM StackRunsTheBest == Spec => []BestOfEachOrder
<1>1. Inv => BestOfEachOrder
  BY DEF Inv
<1> QED BY <1>1, InductiveInvariant, PTL

\* Whatever YAML files list, a name the stack has a file for never means another file.
THEOREM StackHidesLibraries == Spec => []StackFilesComeFirst
<1>1. Inv => StackFilesComeFirst
  BY DEF Inv, ScriptsInSight, InSight, StackFilesComeFirst
<1> QED BY <1>1, InductiveInvariant, PTL

\* Whatever plugins there are, the one taken needs no attribute that is not set, and no
\* other such plugin has all its qualifiers and more.
THEOREM PluginIsMostSpecial == Spec => []MostSpecialPlugin
<1>1. Inv => MostSpecialPlugin
  BY DEF Inv
<1> QED BY <1>1, InductiveInvariant, PTL

\* Once no YAML file is left, following the lists further changes nothing.
LEMMA LevelsStop ==
  ASSUME Disk, chosen \in Seq(disk), scripts \in Seq(disk), ~ HasYaml(scripts),
         NEW depth \in Nat, AllLeaves(depth) = Singles(scripts)
  PROVE  \A more \in Nat : AllLeaves(depth + more) = Singles(scripts)
<1> DEFINE N == {n \in Nat : AllLeaves(depth + n) = Singles(scripts)}
<1>1. 0 \in N
  OBVIOUS
<1>2. ASSUME NEW n \in Nat, n \in N PROVE n + 1 \in N
  <2>1. depth + n \in Nat /\ depth + (n + 1) = (depth + n) + 1
    OBVIOUS
  <2>2. AllLeaves((depth + n) + 1) = MapFlat(Replace, Singles(scripts))
    BY <1>2, <2>1, LevelByLevel
  <2>3. MapFlat(Replace, Singles(scripts)) = Singles(scripts)
    <3>1. ASSUME NEW i \in DOMAIN scripts PROVE Entries(scripts[i]) = <<{scripts[i]}>>
      BY DEF HasYaml, Entries
    <3>2. Expanded = MapFlat([e \in Entry |-> <<e>>], Singles(scripts))
      <4>1. ASSUME NEW i \in DOMAIN scripts
            PROVE  Singles(scripts)[i] = {scripts[i]} /\ {scripts[i]} \in Entry
        <5>1. scripts[i] \in disk
          OBVIOUS
        <5> QED BY <5>1, EntryIsAFile DEF Singles
      <4>2. DOMAIN Singles(scripts) = DOMAIN scripts
        BY DEF Singles
      <4>3. [i \in DOMAIN scripts |-> Entries(scripts[i])]
              = [i \in DOMAIN Singles(scripts) |-> [e \in Entry |-> <<e>>][Singles(scripts)[i]]]
        BY <3>1, <4>1, <4>2
      <4> QED BY <4>3 DEF Expanded, MapFlat
    <3>3. [e \in Entry |-> <<e>>] \in Lists(Entry, Entry)
      BY DEF Lists
    <3>4. Singles(scripts) \in Seq(Entry)
      BY SinglesType
    <3>5. \A e \in Entry : [x \in Entry |-> <<x>>][e] = <<e>>
      OBVIOUS
    <3>6. MapFlat([e \in Entry |-> <<e>>], Singles(scripts)) = Singles(scripts)
      BY <3>3, <3>4, <3>5, MapFlatSingletons
    <3> QED BY <3>2, <3>6, ExpandedIsOneLevel
  <2> QED BY <2>1, <2>2, <2>3
<1>3. Nat \subseteq N
  <2> HIDE DEF N
  <2> QED BY <1>1, <1>2, NatSetInduction
<1> QED BY <1>3

\* The cases of InjectionFollowsTheLists.
LEMMA InvFollowsTheLists == Inv => InjectionFollowsTheLists
<1> SUFFICES ASSUME Inv PROVE InjectionFollowsTheLists
  OBVIOUS
<1>0. /\ Disk /\ chosen \in Seq(disk) /\ scripts \in Seq(disk)
      /\ level \in Nat /\ MaxLevel \in Nat \ {0} /\ LevelsDone
  BY InvFacts DEF Inv
<1>1. ASSUME stage = "done"
      PROVE  AllLeaves(MaxLevel) = [i \in DOMAIN scripts |-> {scripts[i]}] /\ ~ HasYaml(scripts)
  <2>1. level < MaxLevel /\ AllLeaves(level + 1) = Singles(scripts) /\ ~ HasYaml(scripts)
    BY <1>0, <1>1 DEF LevelsDone
  <2>2. MaxLevel - (level + 1) \in Nat /\ level + 1 \in Nat /\ (level + 1) + (MaxLevel - (level + 1)) = MaxLevel
    BY <1>0, <2>1
  <2>3. AllLeaves((level + 1) + (MaxLevel - (level + 1))) = Singles(scripts)
    BY <1>0, <2>1, <2>2, LevelsStop
  <2> QED BY <2>1, <2>2, <2>3 DEF Singles
<1>2. ASSUME stage = "recursive" PROVE Nested(MaxLevel)
  <2>1. AllLeaves(MaxLevel) = Singles(scripts) /\ HasYaml(scripts)
    BY <1>0, <1>2 DEF LevelsDone
  <2>2. PICK i \in DOMAIN scripts : scripts[i].yaml
    BY <2>1 DEF HasYaml
  <2>3. {scripts[i]} \in Range(AllLeaves(MaxLevel))
    BY <2>1 DEF Singles, Range
  <2> QED BY <2>2, <2>3 DEF Nested
<1>3. ASSUME stage = "missing" PROVE Contains(AllLeaves(level + 1), {})
  <2>1. Replaced = {}
    BY <1>0, <1>3 DEF LevelsDone
  <2>2. PICK i \in DOMAIN Expanded : Expanded[i] = {}
    BY <2>1 DEF Replaced
  <2>3. AllLeaves(level + 1) = Expanded /\ Expanded \in Seq(Entry)
    BY <1>0, <1>3, NextLevel, ExpandedIsOneLevel
  <2> QED BY <2>2, <2>3 DEF Contains
<1> QED BY <1>1, <1>2, <1>3 DEF InjectionFollowsTheLists

\* Replacing YAML files level by level, as injectYamlScriptFiles does, ends with what
\* following every list recursively gives, in that order, for every nesting of files;
\* it fails as recursive only if files are nested deeper than MaxLevel, and as missing
\* only if an entry has no file.
THEOREM ReplacementIsRecursion == Spec => []InjectionFollowsTheLists
BY InductiveInvariant, InvFollowsTheLists, PTL

\* resolve() takes at most MaxLevel + 2 steps, whatever the YAML files list, even
\* each other or themselves.
THEOREM ResolveAlwaysDescends == Spec => ResolveDescends
<1>1. Inv /\ [Next]_vars =>
        \/ 0 <= StepsLeft' /\ StepsLeft' < StepsLeft
        \/ UNCHANGED <<stage, level, chosen, scripts>>
  <2> SUFFICES ASSUME Inv, [Next]_vars
               PROVE  \/ 0 <= StepsLeft' /\ StepsLeft' < StepsLeft
                      \/ UNCHANGED <<stage, level, chosen, scripts>>
    OBVIOUS
  <2>1. level \in Nat /\ MaxLevel \in Nat \ {0} /\ level <= MaxLevel
    BY FilesAssumption DEF Inv, TypeOK
  <2>2. stage = "new" => level = 0
    BY DEF Inv, LevelsDone
  <2>3. CASE FilterScriptFiles
    BY <2>1, <2>2, <2>3 DEF FilterScriptFiles, StepsLeft
  <2>4. CASE InjectYamlScriptFiles
    BY <2>1, <2>4 DEF InjectYamlScriptFiles, StepsLeft
  <2>5. CASE EntryNotFound \/ TooManyLevels
    BY <2>1, <2>5 DEF EntryNotFound, TooManyLevels, StepsLeft
  <2>6. CASE GetBestWeightedPlugin \/ UNCHANGED vars
    BY <2>6 DEF GetBestWeightedPlugin, vars
  <2> QED
    BY <2>3, <2>4, <2>5, <2>6 DEF Next
<1> QED
  BY <1>1, InductiveInvariant, PTL DEF Spec, ResolveDescends
=============================================================================
