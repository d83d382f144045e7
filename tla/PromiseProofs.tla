--------------------------- MODULE PromiseProofs ---------------------------
(***************************************************************************)
(* Proofs about Promise: no callback is called twice, no chained promise is *)
(* forgotten, and a settled promise stays settled, for any number of        *)
(* promises and however deep callbacks are nested, up to the first throw    *)
(* that error_handle has no answer to.                                     *)
(*                                                                         *)
(* The argument follows the handlers.  A chained promise that is not        *)
(* settled is in one place: the list of a pending promise, the rest of a    *)
(* list that finale is walking, or the callback that runs for it.  Every    *)
(* piece of C code moves it from one place to another or settles it.        *)
(***************************************************************************)
EXTENDS Promise, FiniteSetTheorems, FunctionTheorems, SequenceTheorems, TLAPS

-----------------------------------------------------------------------------
(* Walks of a function *)

(* A set with 0 and with the successor of each of its numbers has them all. *)
LEMMA SetInduction ==
    ASSUME NEW S, 0 \in S, \A n \in Nat : n \in S => n + 1 \in S
    PROVE  Nat \subseteq S
<1> SUFFICES ASSUME NEW n \in Nat, n \notin S
             PROVE  FALSE
  OBVIOUS
<1> DEFINE A == {m \in 0 .. n : m \notin S}
           f == [m \in A |-> m - 1]
<1>1. \A m \in A : m - 1 \in A
  OBVIOUS
<1>2. IsFiniteSet(A)
  <2>1. IsFiniteSet(0 .. n)
    BY FS_Interval
  <2> QED
    BY <2>1, FS_Subset
<1>3. f \in Injection(A, A)
  BY <1>1 DEF Injection, IsInjective
<1>4. f \in Surjection(A, A)
  BY <1>2, <1>3, FS_Injection
<1>5. n \in A
  OBVIOUS
<1>6. PICK m \in A : f[m] = n
  BY <1>4, <1>5, Zenon DEF Surjection
<1> QED
  BY <1>6

(* g is the walk of F from a on. *)
IsWalk(g, F, D, a) ==
    /\ g \in [Nat -> D]
    /\ g[0] = a
    /\ \A n \in Nat : g[n + 1] = F[g[n]]

(* There is one. *)
LEMMA WalkExists ==
    ASSUME NEW D, NEW F \in [D -> D], NEW a \in D
    PROVE  \E g : IsWalk(g, F, D, a)
<1> DEFINE Path(h, n) == h \in [0 .. n -> D] /\ h[0] = a
                         /\ \A j \in 0 .. n - 1 : h[j + 1] = F[h[j]]
           S == {n \in Nat : \E h : Path(h, n)}
           C(n) == CHOOSE h : Path(h, n)
           g == [n \in Nat |-> C(n)[n]]
<1>1. Nat \subseteq S
  <2>1. 0 \in S
    <3>1. Path([j \in 0 .. 0 |-> a], 0)
      OBVIOUS
    <3> QED
      BY <3>1
  <2>2. \A n \in Nat : n \in S => n + 1 \in S
    <3> SUFFICES ASSUME NEW n \in Nat, n \in S
                 PROVE  n + 1 \in S
      OBVIOUS
    <3>1. PICK h : Path(h, n)
      OBVIOUS
    <3> DEFINE k == [j \in 0 .. n + 1 |-> IF j = n + 1 THEN F[h[n]] ELSE h[j]]
    <3>2. h[n] \in D /\ F[h[n]] \in D
      BY <3>1
    <3>3. Path(k, n + 1)
      <4>1. k \in [0 .. n + 1 -> D]
        BY <3>1, <3>2
      <4>2. k[0] = a
        BY <3>1
      <4>3. \A j \in 0 .. n : k[j + 1] = F[k[j]]
        BY <3>1
      <4>4. n = (n + 1) - 1
        OBVIOUS
      <4> HIDE DEF k
      <4> QED
        BY <4>1, <4>2, <4>3, <4>4
    <3> HIDE DEF k, Path
    <3> QED
      BY <3>3
  <2> HIDE DEF S
  <2> QED
    BY <2>1, <2>2, SetInduction
<1>2. \A n \in Nat : Path(C(n), n)
  <2> HIDE DEF Path
  <2> QED
    BY <1>1, Zenon
<1>3. ASSUME NEW n \in Nat
      PROVE  g[n + 1] = F[g[n]]
  <2> DEFINE T == {j \in Nat : j <= n => C(n)[j] = C(n + 1)[j]}
  <2>0. n + 1 \in Nat
    OBVIOUS
  <2> HIDE DEF C
  <2>1. Path(C(n), n) /\ Path(C(n + 1), n + 1)
    <3> HIDE DEF Path
    <3> QED
      BY <1>2, <2>0
  <2>2. Nat \subseteq T
    <3>1. 0 \in T
      BY <2>1
    <3>2. \A j \in Nat : j \in T => j + 1 \in T
      BY <2>1
    <3> HIDE DEF T
    <3> QED
      BY <3>1, <3>2, SetInduction
  <2>3. C(n)[n] = C(n + 1)[n]
    BY <2>2
  <2>4. C(n + 1)[n + 1] = F[C(n + 1)[n]]
    BY <2>1
  <2> QED
    BY <2>3, <2>4
<1>4. g \in [Nat -> D] /\ g[0] = a
  <2> HIDE DEF C
  <2>1. \A n \in Nat : C(n)[n] \in D
    BY <1>2
  <2>2. C(0)[0] = a
    BY <1>2
  <2> QED
    BY <2>1, <2>2
<1> HIDE DEF g
<1> QED
  BY <1>3, <1>4 DEF IsWalk

(* It stays where F does. *)
LEMMA WalkStays ==
    ASSUME NEW D, NEW F, NEW a, NEW g, IsWalk(g, F, D, a),
           NEW m \in Nat, F[g[m]] = g[m]
    PROVE  \A n \in Nat : n >= m => g[n] = g[m]
<1> DEFINE S == {n \in Nat : n >= m => g[n] = g[m]}
<1>1. 0 \in S
  OBVIOUS
<1>2. \A n \in Nat : n \in S => n + 1 \in S
  <2> SUFFICES ASSUME NEW n \in Nat, n \in S, n + 1 >= m
               PROVE  g[n + 1] = g[m]
    OBVIOUS
  <2>1. CASE n + 1 = m
    BY <2>1
  <2>2. CASE n >= m
    <3>1. g[n] = g[m]
      BY <2>2
    <3>2. g[n + 1] = F[g[n]]
      BY DEF IsWalk
    <3> QED
      BY <3>1, <3>2
  <2> QED
    BY <2>1, <2>2
<1>3. Nat \subseteq S
  <2> HIDE DEF S
  <2> QED
    BY <1>1, <1>2, SetInduction
<1> QED
  BY <1>3

(* Two functions that agree along a walk have it in common. *)
LEMMA WalksAgree ==
    ASSUME NEW D, NEW E, NEW F, NEW G, NEW a, NEW g, NEW h,
           IsWalk(g, F, D, a), IsWalk(h, G, E, a),
           \A n \in Nat : F[g[n]] = G[g[n]]
    PROVE  \A n \in Nat : g[n] = h[n]
<1> DEFINE S == {n \in Nat : g[n] = h[n]}
<1>1. 0 \in S
  BY DEF IsWalk
<1>2. \A n \in Nat : n \in S => n + 1 \in S
  <2> SUFFICES ASSUME NEW n \in Nat, g[n] = h[n]
               PROVE  g[n + 1] = h[n + 1]
    OBVIOUS
  <2>1. g[n + 1] = F[g[n]] /\ h[n + 1] = G[h[n]] /\ F[g[n]] = G[g[n]]
    BY DEF IsWalk
  <2> QED
    BY <2>1
<1>3. Nat \subseteq S
  <2> HIDE DEF S
  <2> QED
    BY <1>1, <1>2, SetInduction
<1> QED
  BY <1>3

(* The rest of a walk is the walk from there. *)
LEMMA WalkOnward ==
    ASSUME NEW D, NEW F, NEW a, NEW b, NEW g, NEW h, NEW j \in Nat,
           IsWalk(g, F, D, a), IsWalk(h, F, D, b), g[j] = b,
           NEW n \in Nat
    PROVE  g[j + n] = h[n]
<1> DEFINE S == {m \in Nat : g[j + m] = h[m]}
<1>1. 0 \in S
  BY DEF IsWalk
<1>2. \A m \in Nat : m \in S => m + 1 \in S
  <2> SUFFICES ASSUME NEW m \in Nat, g[j + m] = h[m]
               PROVE  g[j + (m + 1)] = h[m + 1]
    OBVIOUS
  <2>1. j + (m + 1) = (j + m) + 1 /\ j + m \in Nat
    OBVIOUS
  <2>2. g[(j + m) + 1] = F[g[j + m]] /\ h[m + 1] = F[h[m]]
    BY <2>1 DEF IsWalk
  <2> QED
    BY <2>1, <2>2
<1>3. Nat \subseteq S
  <2> HIDE DEF S
  <2> QED
    BY <1>1, <1>2, SetInduction
<1> QED
  BY <1>3

(* A walk that ever comes to rest does so in as many steps as there are     *)
(* elements: otherwise it has come somewhere twice, and goes round.         *)
LEMMA WalkRests ==
    ASSUME NEW N \in Nat, NEW D, D \subseteq 1 .. N,
           NEW F \in [D -> D], NEW a, NEW g, IsWalk(g, F, D, a),
           NEW n \in Nat, F[g[n]] = g[n]
    PROVE  g[N] = g[n]
<1>1. CASE F[g[N]] = g[N]
  <2>1. N >= n => g[N] = g[n]
    BY WalkStays
  <2>2. n >= N => g[n] = g[N]
    BY <1>1, WalkStays
  <2> QED
    BY <2>1, <2>2
<1>2. CASE F[g[N]] # g[N]
  <2> DEFINE f == [i \in 0 .. N |-> g[i]]
  <2>1. \A i \in 0 .. N : F[g[i]] # g[i]
    <3> SUFFICES ASSUME NEW i \in 0 .. N, F[g[i]] = g[i]
                 PROVE  FALSE
      OBVIOUS
    <3>1. g[N] = g[i]
      BY WalkStays
    <3> QED
      BY <3>1, <1>2
  <2>2. f \in [0 .. N -> 1 .. N]
    <3>1. \A i \in 0 .. N : i \in Nat /\ g[i] \in D
      BY DEF IsWalk
    <3> QED
      BY <3>1
  <2>3. \E i, j \in 0 .. N : i # j /\ f[i] = f[j]
    <3>1. IsFiniteSet(0 .. N) /\ Cardinality(0 .. N) = N + 1
      BY FS_Interval
    <3>2. IsFiniteSet(1 .. N) /\ Cardinality(1 .. N) = N
      BY FS_Interval
    <3>3. Cardinality(1 .. N) < Cardinality(0 .. N)
      BY <3>1, <3>2
    <3> DEFINE A == 0 .. N
               B == 1 .. N
    <3>4. IsFiniteSet(A) /\ IsFiniteSet(B) /\ Cardinality(B) < Cardinality(A) /\ f \in [A -> B]
      BY <2>2, <3>1, <3>2, <3>3
    <3> HIDE DEF f, A, B
    <3>5. \E i, j \in A : i # j /\ f[i] = f[j]
      BY <3>4, FS_PigeonHole
    <3> QED
      BY <3>5 DEF A
  <2>4. PICK i \in 0 .. N, j \in 0 .. N : i < j /\ g[i] = g[j]
    BY <2>3
  <2> DEFINE S == {m \in Nat : m <= j \/ \E l \in i .. j - 1 : g[m] = g[l]}
  <2>5. \A m \in Nat : m \in S => m + 1 \in S
    <3> SUFFICES ASSUME NEW m \in Nat, m \in S, m + 1 > j
                 PROVE  \E l \in i .. j - 1 : g[m + 1] = g[l]
      OBVIOUS
    <3>1. PICK l \in i .. j - 1 : g[m] = g[l]
      BY <2>4
    <3>2. l \in Nat /\ g[m + 1] = F[g[m]] /\ g[l + 1] = F[g[l]]
      BY DEF IsWalk
    <3>3. CASE l + 1 = j
      BY <2>4, <3>1, <3>2, <3>3
    <3>4. CASE l + 1 < j
      BY <3>1, <3>2, <3>4
    <3> QED
      BY <3>3, <3>4
  <2>6. Nat \subseteq S
    <3>1. 0 \in S
      OBVIOUS
    <3> HIDE DEF S
    <3> QED
      BY <2>5, <3>1, SetInduction
  <2>7. \E l \in 0 .. N : g[n] = g[l]
    BY <2>4, <2>6
  <2> QED
    BY <2>1, <2>7
<1> QED
  BY <1>1, <1>2

-----------------------------------------------------------------------------
(* What resolves a promise *)

(* The promise p is resolved by, or p. *)
Onward(P) == [p \in DOMAIN P |-> IF P[p].state = RESOLVING THEN P[p].value ELSE p]

Closed(P) ==
    /\ DOMAIN P \subseteq 1 .. NP
    /\ \A p \in DOMAIN P : P[p].state = RESOLVING => P[p].value \in DOMAIN P

LEMMA OnwardType ==
    ASSUME NEW P, Closed(P)
    PROVE  Onward(P) \in [DOMAIN P -> DOMAIN P]
BY DEF Closed, Onward

(* Target walks NP steps. *)
LEMMA TargetWalk ==
    ASSUME NEW P, Closed(P), NEW p \in DOMAIN P, NEW g,
           IsWalk(g, Onward(P), DOMAIN P, p)
    PROVE  Target(P, p) = g[NP]
<1> DEFINE F(t) == [n \in 0 .. NP |->
                       IF n = 0 THEN p
                       ELSE IF P[t[n - 1]].state = RESOLVING THEN P[t[n - 1]].value ELSE t[n - 1]]
           q == [n \in 0 .. NP |-> g[n]]
           f == CHOOSE t : t = F(t)
<1>0. NP \in Nat
  BY PromiseAssumption
<1>1. q = F(q)
  <2>1. \A n \in 0 .. NP : q[n] = IF n = 0 THEN p
             ELSE IF P[q[n - 1]].state = RESOLVING THEN P[q[n - 1]].value ELSE q[n - 1]
    <3> SUFFICES ASSUME NEW n \in 0 .. NP
                 PROVE  q[n] = IF n = 0 THEN p
                               ELSE IF P[q[n - 1]].state = RESOLVING
                               THEN P[q[n - 1]].value ELSE q[n - 1]
      OBVIOUS
    <3>0. CASE n = 0
      BY <1>0, <3>0 DEF IsWalk
    <3>4. SUFFICES ASSUME n # 0
                   PROVE  g[n] = IF P[g[n - 1]].state = RESOLVING
                                 THEN P[g[n - 1]].value ELSE g[n - 1]
      BY <1>0, <3>0
    <3>1. n - 1 \in Nat /\ (n - 1) + 1 = n
      BY <1>0, <3>4
    <3>2. g[n - 1] \in DOMAIN P /\ g[(n - 1) + 1] = Onward(P)[g[n - 1]]
      BY <3>1 DEF IsWalk
    <3> QED
      BY <3>1, <3>2 DEF Onward
  <2> QED
    BY <2>1
<1>2. f = F(f)
  <2> HIDE DEF q, F
  <2> QED
    BY <1>1, Zenon
<1>3. \A n \in 0 .. NP : f[n] = IF n = 0 THEN p
             ELSE IF P[f[n - 1]].state = RESOLVING THEN P[f[n - 1]].value ELSE f[n - 1]
  <2> HIDE DEF f
  <2> QED
    BY <1>2
<1> HIDE DEF f
<1> DEFINE S == {n \in Nat : n <= NP => f[n] = g[n]}
<1>4. Nat \subseteq S
  <2>1. 0 \in S
    BY <1>0, <1>3 DEF IsWalk
  <2>2. \A n \in Nat : n \in S => n + 1 \in S
    <3> SUFFICES ASSUME NEW n \in Nat, n + 1 <= NP, f[n] = g[n]
                 PROVE  f[n + 1] = g[n + 1]
      BY <1>0
    <3>1. n + 1 \in 0 .. NP /\ n + 1 # 0 /\ (n + 1) - 1 = n
      BY <1>0
    <3>2. f[n + 1] = IF P[f[n]].state = RESOLVING THEN P[f[n]].value ELSE f[n]
      BY <1>3, <3>1
    <3>3. g[n] \in DOMAIN P /\ g[n + 1] = Onward(P)[g[n]]
      BY DEF IsWalk
    <3> QED
      BY <3>2, <3>3 DEF Onward
  <2> HIDE DEF S
  <2> QED
    BY <2>1, <2>2, SetInduction
<1>5. Target(P, p) = f[NP]
  BY Zenon DEF Target, f
<1> QED
  BY <1>0, <1>4, <1>5

LEMMA TargetIn ==
    ASSUME NEW P, Closed(P), NEW p \in DOMAIN P
    PROVE  /\ Target(P, p) \in DOMAIN P
           /\ P[p].state # RESOLVING => Target(P, p) = p
<1>0. NP \in Nat
  BY PromiseAssumption
<1>1. PICK g : IsWalk(g, Onward(P), DOMAIN P, p)
  BY OnwardType, WalkExists
<1>2. Target(P, p) = g[NP]
  BY <1>1, TargetWalk
<1>3. g[NP] \in DOMAIN P /\ g[0] = p
  BY <1>0, <1>1 DEF IsWalk
<1>4. ASSUME P[p].state # RESOLVING
      PROVE  g[NP] = p
  <2>1. Onward(P)[g[0]] = g[0]
    BY <1>3, <1>4 DEF Onward
  <2> QED
    BY <1>0, <1>1, <1>3, <2>1, WalkStays
<1> QED
  BY <1>2, <1>3, <1>4

(* What does not resolve a promise by another one leaves Target alone. *)
LEMMA TargetKept ==
    ASSUME NEW P, NEW Q, Closed(P), Closed(Q), DOMAIN P \subseteq DOMAIN Q,
           \A x \in DOMAIN P : Onward(Q)[x] = Onward(P)[x],
           NEW p \in DOMAIN P
    PROVE  Target(Q, p) = Target(P, p)
<1>0. NP \in Nat
  BY PromiseAssumption
<1>1. PICK g : IsWalk(g, Onward(P), DOMAIN P, p)
  BY OnwardType, WalkExists
<1>2. PICK h : IsWalk(h, Onward(Q), DOMAIN Q, p)
  BY OnwardType, WalkExists
<1>3. \A n \in Nat : Onward(P)[g[n]] = Onward(Q)[g[n]]
  BY <1>1 DEF IsWalk
<1>4. \A n \in Nat : g[n] = h[n]
  BY <1>1, <1>2, <1>3, WalksAgree
<1> QED
  BY <1>0, <1>1, <1>2, <1>4, TargetWalk

(* What becomes of Target when p is resolved: those that did not lead to p  *)
(* lead where they did, the others where p does, if that is anywhere.       *)
LEMMA TargetMoved ==
    ASSUME NEW P, NEW Q, Closed(P), Closed(Q), DOMAIN P = DOMAIN Q,
           NEW p \in DOMAIN P, P[p].state # RESOLVING,
           \A x \in DOMAIN P : x # p => Onward(Q)[x] = Onward(P)[x],
           NEW a \in DOMAIN P
    PROVE  /\ Target(P, a) # p => Target(Q, a) = Target(P, a)
           /\ Target(P, a) = p /\ Q[Target(Q, p)].state # RESOLVING =>
                Target(Q, a) = Target(Q, p)
           /\ Target(P, a) = p /\ Q[Target(Q, p)].state = RESOLVING =>
                Q[Target(Q, a)].state = RESOLVING
<1>0. NP \in Nat
  BY PromiseAssumption
<1>1. PICK g : IsWalk(g, Onward(P), DOMAIN P, a)
  BY OnwardType, WalkExists
<1>2. PICK h : IsWalk(h, Onward(Q), DOMAIN Q, a)
  BY OnwardType, WalkExists
<1>3. Target(P, a) = g[NP] /\ Target(Q, a) = h[NP]
  BY <1>1, <1>2, TargetWalk
<1>4. Onward(P)[p] = p
  BY DEF Onward
<1>5. ASSUME Target(P, a) # p
      PROVE  Target(Q, a) = Target(P, a)
  <2>1. \A n \in 0 .. NP : g[n] # p
    <3> SUFFICES ASSUME NEW n \in 0 .. NP, g[n] = p
                 PROVE  FALSE
      OBVIOUS
    <3>1. g[NP] = p
      BY <1>0, <1>1, <1>4, WalkStays
    <3> QED
      BY <1>3, <1>5, <3>1
  <2> DEFINE S == {n \in Nat : n <= NP => g[n] = h[n]}
  <2>2. 0 \in S
    BY <1>1, <1>2 DEF IsWalk
  <2>3. \A n \in Nat : n \in S => n + 1 \in S
    <3> SUFFICES ASSUME NEW n \in Nat, n + 1 <= NP, g[n] = h[n]
                 PROVE  g[n + 1] = h[n + 1]
      BY <1>0
    <3>1. g[n] # p
      BY <1>0, <2>1
    <3>2. g[n] \in DOMAIN P /\ g[n + 1] = Onward(P)[g[n]] /\ h[n + 1] = Onward(Q)[h[n]]
      BY <1>1, <1>2 DEF IsWalk
    <3> QED
      BY <3>1, <3>2
  <2>4. Nat \subseteq S
    <3> HIDE DEF S
    <3> QED
      BY <2>2, <2>3, SetInduction
  <2> QED
    BY <1>0, <1>3, <2>4
<1>6. ASSUME Target(P, a) = p
      PROVE  /\ h[NP] \in DOMAIN Q /\ Target(Q, p) \in DOMAIN Q
             /\ \E n \in Nat : n >= NP /\ h[n] = Target(Q, p)
  <2>1. \E j \in Nat : h[j] = p
    <3> SUFFICES ASSUME \A j \in Nat : h[j] # p
                 PROVE  FALSE
      OBVIOUS
    <3>1. \A n \in Nat : Onward(Q)[h[n]] = Onward(P)[h[n]]
      BY <1>2 DEF IsWalk
    <3>2. \A n \in Nat : h[n] = g[n]
      BY <1>1, <1>2, <3>1, WalksAgree
    <3> QED
      BY <1>0, <1>3, <1>6, <3>2
  <2>2. PICK j \in Nat : h[j] = p
    BY <2>1
  <2>3. PICK k : IsWalk(k, Onward(Q), DOMAIN Q, p)
    BY OnwardType, WalkExists
  <2>4. Target(Q, p) = k[NP] /\ k[NP] \in DOMAIN Q
    BY <1>0, <2>3, TargetWalk DEF IsWalk
  <2>5. h[j + NP] = k[NP]
    <3>1. ASSUME NEW D, NEW F, IsWalk(h, F, D, a), IsWalk(k, F, D, p)
          PROVE  h[j + NP] = k[NP]
      <4>1. j \in Nat /\ NP \in Nat /\ h[j] = p
        BY <1>0, <2>2
      <4> QED
        BY <3>1, <4>1, WalkOnward
    <3> QED
      BY <1>2, <2>3, <3>1
  <2>6. j + NP \in Nat /\ j + NP >= NP
    BY <1>0
  <2>7. h[NP] \in DOMAIN Q
    BY <1>0, <1>2 DEF IsWalk
  <2> QED
    BY <2>4, <2>5, <2>6, <2>7
<1>7. ASSUME Target(P, a) = p, Q[Target(Q, p)].state # RESOLVING
      PROVE  Target(Q, a) = Target(Q, p)
  <2>1. PICK n \in Nat : n >= NP /\ h[n] = Target(Q, p)
    BY <1>6, <1>7
  <2>2. Onward(Q)[h[n]] = h[n]
    BY <1>6, <1>7, <2>1 DEF Onward
  <2>3. Onward(Q) \in [DOMAIN Q -> DOMAIN Q] /\ DOMAIN Q \subseteq 1 .. NP
    BY OnwardType DEF Closed
  <2>4. h[NP] = h[n]
    BY <1>0, <1>2, <2>2, <2>3, WalkRests
  <2> QED
    BY <1>3, <2>1, <2>4
<1>8. ASSUME Target(P, a) = p, Q[Target(Q, p)].state = RESOLVING
      PROVE  Q[Target(Q, a)].state = RESOLVING
  <2>1. PICK n \in Nat : n >= NP /\ h[n] = Target(Q, p)
    BY <1>6, <1>8
  <2> SUFFICES ASSUME Q[h[NP]].state # RESOLVING
               PROVE  FALSE
    BY <1>3
  <2>2. Onward(Q)[h[NP]] = h[NP]
    BY <1>6, <1>8 DEF Onward
  <2>3. h[n] = h[NP]
    BY <1>0, <1>2, <2>1, <2>2, WalkStays
  <2> QED
    BY <1>8, <2>1, <2>3
<1> QED
  BY <1>5, <1>7, <1>8

-----------------------------------------------------------------------------
(* The records *)

States == {PENDING, RESOLVED, REJECTED, RESOLVING}

Prom ==
    [state : States, value : Nat, dstate : 0 .. 2, deferreds : Seq(Nat),
     from : {"timer", "fn", "next"}, parent : Nat, f : {"fn", "nil"}, r : {"fn", "nil"},
     done : {"no", "yes", "freed"}, ran : [fulfilled : Nat, rejected : Nat]]

Frame ==
    [op : {"finale"}, self : Nat, list : BOOLEAN, todo : Seq(Nat)]
    \cup [op : {"clean"}, self : Nat]
    \cup [op : {"call"}, self : Nat, of : Nat]

(* Only the promise q is changed. *)
SameBut(P, Q, q) ==
    /\ Q \in Seq(Prom) /\ Len(Q) = Len(P) /\ DOMAIN Q = DOMAIN P
    /\ \A x \in DOMAIN P : x # q => Q[x] = P[x]
    /\ Q[q] \in Prom
    /\ Q[q].from = P[q].from /\ Q[q].parent = P[q].parent
    /\ Q[q].f = P[q].f /\ Q[q].r = P[q].r

SameState(P, Q, q) == Q[q].state = P[q].state /\ Q[q].value = P[q].value

SameList(P, Q, q) == Q[q].dstate = P[q].dstate /\ Q[q].deferreds = P[q].deferreds

SameDone(P, Q, q) == Q[q].done = P[q].done

SameRan(P, Q, q) == Q[q].ran = P[q].ran

LEMMA Changed ==
    ASSUME NEW P \in Seq(Prom), NEW q \in DOMAIN P, NEW r, r \in Prom,
           NEW Q, Q = [P EXCEPT ![q] = r]
    PROVE  /\ Q \in Seq(Prom) /\ Len(Q) = Len(P) /\ DOMAIN Q = DOMAIN P
           /\ \A x \in DOMAIN P : x # q => Q[x] = P[x]
           /\ Q[q] = r
<1>1. Q \in Seq(Prom) /\ Len(Q) = Len(P)
  BY ExceptSeq
<1> QED
  BY <1>1

LEMMA PromAt ==
    ASSUME NEW P \in Seq(Prom), NEW q \in DOMAIN P
    PROVE  P[q] \in Prom
BY ElementOfSeq

(* Settling. *)
Settle(P, q, st, v) == [P EXCEPT ![q].state = st, ![q].value = v]

LEMMA SettledFields ==
    ASSUME NEW P \in Seq(Prom), NEW q \in DOMAIN P, NEW st \in States, NEW v \in Nat
    PROVE  LET Q == Settle(P, q, st, v)
           IN  /\ SameBut(P, Q, q) /\ SameList(P, Q, q) /\ SameDone(P, Q, q) /\ SameRan(P, Q, q)
               /\ Q[q].state = st /\ Q[q].value = v
<1> DEFINE r == [P[q] EXCEPT !.state = st, !.value = v]
           Q == Settle(P, q, st, v)
<1>1. P[q] \in Prom
  BY PromAt
<1>2. /\ r \in Prom /\ r.state = st /\ r.value = v
      /\ r.dstate = P[q].dstate /\ r.deferreds = P[q].deferreds
      /\ r.from = P[q].from /\ r.parent = P[q].parent /\ r.f = P[q].f /\ r.r = P[q].r
      /\ r.done = P[q].done /\ r.ran = P[q].ran
  BY <1>1 DEF Prom
<1>3. Q = [P EXCEPT ![q] = r]
  BY DEF Settle
<1> HIDE DEF r, Q
<1>4. /\ Q \in Seq(Prom) /\ Len(Q) = Len(P) /\ DOMAIN Q = DOMAIN P
      /\ \A x \in DOMAIN P : x # q => Q[x] = P[x]
      /\ Q[q] = r
  BY <1>2, <1>3, Changed
<1>5. /\ SameBut(P, Q, q) /\ SameList(P, Q, q) /\ SameDone(P, Q, q) /\ SameRan(P, Q, q)
      /\ Q[q].state = st /\ Q[q].value = v
  BY <1>2, <1>4 DEF SameBut, SameList, SameDone, SameRan
<1> QED
  BY <1>5 DEF Q

(* Defer. *)
LEMMA DeferFields ==
    ASSUME NEW P \in Seq(Prom), NEW p \in DOMAIN P, NEW q \in Nat
    PROVE  LET Q == Defer(P, p, q)
           IN  /\ SameBut(P, Q, p) /\ SameState(P, Q, p) /\ SameDone(P, Q, p) /\ SameRan(P, Q, p)
               /\ Q[p].deferreds = Append(P[p].deferreds, q) /\ Q[p].dstate # 0
<1> DEFINE Q == Defer(P, p, q)
           d == IF P[p].dstate = 2 THEN 2 ELSE P[p].dstate + 1
           l == Append(P[p].deferreds, q)
           r == [P[p] EXCEPT !.deferreds = l, !.dstate = d]
<1>1. P[p] \in Prom
  BY PromAt
<1>2. d \in 0 .. 2 /\ d # 0
  <2>1. P[p].dstate \in 0 .. 2
    BY <1>1 DEF Prom
  <2> QED
    BY <2>1
<1>3. l \in Seq(Nat)
  BY <1>1 DEF Prom
<1>4. Q = [P EXCEPT ![p] = r]
  BY DEF Defer
<1> HIDE DEF d, l
<1>5. /\ r \in Prom /\ r.dstate = d /\ r.deferreds = l
      /\ r.state = P[p].state /\ r.value = P[p].value
      /\ r.from = P[p].from /\ r.parent = P[p].parent /\ r.f = P[p].f /\ r.r = P[p].r
      /\ r.done = P[p].done /\ r.ran = P[p].ran
  BY <1>1, <1>2, <1>3 DEF Prom
<1> HIDE DEF r, Q
<1>6. /\ Q \in Seq(Prom) /\ Len(Q) = Len(P) /\ DOMAIN Q = DOMAIN P
      /\ \A x \in DOMAIN P : x # p => Q[x] = P[x]
      /\ Q[p] = r
  BY <1>4, <1>5, Changed
<1>7. /\ SameBut(P, Q, p) /\ SameState(P, Q, p) /\ SameDone(P, Q, p) /\ SameRan(P, Q, p)
      /\ Q[p].deferreds = l /\ Q[p].dstate # 0
  BY <1>2, <1>5, <1>6 DEF SameBut, SameState, SameDone, SameRan
<1> QED
  BY <1>7 DEF Q, l

(* A list that is forgotten. *)
LEMMA ForgottenFields ==
    ASSUME NEW P \in Seq(Prom), NEW p \in DOMAIN P,
           NEW Q, Q = [P EXCEPT ![p].deferreds = <<>>]
    PROVE  SameBut(P, Q, p) /\ SameState(P, Q, p) /\ SameDone(P, Q, p) /\ SameRan(P, Q, p)
<1> DEFINE r == [P[p] EXCEPT !.deferreds = <<>>]
<1>1. P[p] \in Prom
  BY PromAt
<1>2. /\ r \in Prom
      /\ r.state = P[p].state /\ r.value = P[p].value
      /\ r.from = P[p].from /\ r.parent = P[p].parent /\ r.f = P[p].f /\ r.r = P[p].r
      /\ r.done = P[p].done /\ r.ran = P[p].ran
  BY <1>1, EmptySeq DEF Prom
<1>3. Q = [P EXCEPT ![p] = r]
  OBVIOUS
<1> HIDE DEF r
<1>4. /\ Q \in Seq(Prom) /\ Len(Q) = Len(P) /\ DOMAIN Q = DOMAIN P
      /\ \A x \in DOMAIN P : x # p => Q[x] = P[x]
      /\ Q[p] = r
  BY <1>2, <1>3, Changed
<1> QED
  BY <1>2, <1>4 DEF SameBut, SameState, SameDone, SameRan

(* A callback begins. *)
LEMMA BeginsFields ==
    ASSUME NEW P \in Seq(Prom), NEW q \in DOMAIN P, NEW k \in {"fulfilled", "rejected"}
    PROVE  LET Q == Begins(P, q, k)
           IN  /\ SameBut(P, Q, q) /\ SameState(P, Q, q) /\ SameList(P, Q, q) /\ SameDone(P, Q, q)
               /\ P[q].ran[k] = 0 => Q[q].ran[k] = 1
               /\ \A j \in {"fulfilled", "rejected"} : j # k => Q[q].ran[j] = P[q].ran[j]
<1> DEFINE Q == Begins(P, q, k)
           n == IF P[q].ran[k] < 2 THEN P[q].ran[k] + 1 ELSE P[q].ran[k]
           ran == [P[q].ran EXCEPT ![k] = n]
           r == [P[q] EXCEPT !.ran = ran]
<1>1. P[q] \in Prom
  BY PromAt
<1>2. P[q].ran \in [fulfilled : Nat, rejected : Nat]
  BY <1>1 DEF Prom
<1>3. n \in Nat /\ (P[q].ran[k] = 0 => n = 1)
  <2>1. P[q].ran[k] \in Nat
    BY <1>2
  <2> QED
    BY <2>1
<1>4. Q = [P EXCEPT ![q] = r]
  BY DEF Begins
<1> HIDE DEF n
<1>5. /\ ran \in [fulfilled : Nat, rejected : Nat]
      /\ ran[k] = n
      /\ \A j \in {"fulfilled", "rejected"} : j # k => ran[j] = P[q].ran[j]
  BY <1>2, <1>3
<1> HIDE DEF ran
<1>6. /\ r \in Prom /\ r.ran = ran
      /\ r.state = P[q].state /\ r.value = P[q].value
      /\ r.dstate = P[q].dstate /\ r.deferreds = P[q].deferreds
      /\ r.from = P[q].from /\ r.parent = P[q].parent /\ r.f = P[q].f /\ r.r = P[q].r
      /\ r.done = P[q].done
  BY <1>1, <1>5 DEF Prom
<1> HIDE DEF r, Q
<1>7. /\ Q \in Seq(Prom) /\ Len(Q) = Len(P) /\ DOMAIN Q = DOMAIN P
      /\ \A x \in DOMAIN P : x # q => Q[x] = P[x]
      /\ Q[q] = r
  BY <1>4, <1>6, Changed
<1>8. SameBut(P, Q, q) /\ SameState(P, Q, q) /\ SameList(P, Q, q) /\ SameDone(P, Q, q)
  BY <1>6, <1>7 DEF SameBut, SameState, SameList, SameDone
<1>9. /\ P[q].ran[k] = 0 => Q[q].ran[k] = 1
      /\ \A j \in {"fulfilled", "rejected"} : j # k => Q[q].ran[j] = P[q].ran[j]
  BY <1>3, <1>5, <1>6, <1>7
<1> QED
  BY <1>8, <1>9 DEF Q

(* A promise is created. *)
LEMMA NewRecord ==
    ASSUME NEW from \in {"timer", "fn", "next"}, NEW parent \in Nat,
           NEW h \in {"fn", "nil"} \X {"fn", "nil"}
    PROVE  LET r == NewPromise(from, parent, h)
           IN  /\ r \in Prom /\ r.state = PENDING /\ r.value = 0 /\ r.dstate = 0
               /\ r.deferreds = <<>> /\ r.from = from /\ r.parent = parent
               /\ r.ran.fulfilled = 0 /\ r.ran.rejected = 0
<1> DEFINE r == NewPromise(from, parent, h)
<1>1. h[1] \in {"fn", "nil"} /\ h[2] \in {"fn", "nil"}
  OBVIOUS
<1>2. <<>> \in Seq(Nat)
  BY EmptySeq
<1> QED
  BY <1>1, <1>2 DEF NewPromise, Prom, States, Plain

LEMMA DoneRecord ==
    ASSUME NEW r \in Prom, NEW s, s = [r EXCEPT !.done = "yes"]
    PROVE  /\ s \in Prom /\ s.state = r.state /\ s.value = r.value /\ s.dstate = r.dstate
           /\ s.deferreds = r.deferreds /\ s.from = r.from /\ s.ran = r.ran
BY DEF Prom

LEMMA CreatedFields ==
    ASSUME NEW P \in Seq(Prom), NEW r, r \in Prom
    PROVE  /\ Append(P, r) \in Seq(Prom) /\ Len(Append(P, r)) = Len(P) + 1
           /\ DOMAIN Append(P, r) = DOMAIN P \cup {Len(P) + 1}
           /\ Len(P) + 1 \notin DOMAIN P
           /\ \A x \in DOMAIN P : Append(P, r)[x] = P[x]
           /\ Append(P, r)[Len(P) + 1] = r
<1>1. /\ Append(P, r) \in Seq(Prom) /\ Len(Append(P, r)) = Len(P) + 1
      /\ \A i \in 1 .. Len(P) : Append(P, r)[i] = P[i]
      /\ Append(P, r)[Len(P) + 1] = r
  BY AppendProperties
<1>2. DOMAIN P = 1 .. Len(P) /\ DOMAIN Append(P, r) = 1 .. Len(Append(P, r)) /\ Len(P) \in Nat
  BY <1>1, LenProperties
<1> QED
  BY <1>1, <1>2

-----------------------------------------------------------------------------
(* The stack *)

LEMMA Pushed ==
    ASSUME NEW S \in Seq(Frame), NEW fr, fr \in Frame
    PROVE  /\ Append(S, fr) \in Seq(Frame) /\ Len(Append(S, fr)) = Len(S) + 1
           /\ \A k \in 1 .. Len(S) : Append(S, fr)[k] = S[k]
           /\ Append(S, fr)[Len(S) + 1] = fr
BY AppendProperties

LEMMA Popped ==
    ASSUME NEW S \in Seq(Frame), S # <<>>
    PROVE  /\ Front(S) \in Seq(Frame) /\ Len(Front(S)) = Len(S) - 1
           /\ Len(S) \in Nat \ {0}
           /\ \A k \in 1 .. Len(S) - 1 : Front(S)[k] = S[k]
           /\ Last(S) = S[Len(S)] /\ Last(S) \in Frame
<1>1. Len(S) \in Nat \ {0}
  BY EmptySeq
<1>2. \A k \in 1 .. Len(S) : S[k] \in Frame
  BY ElementOfSeq
<1>3. \A k \in 1 .. Len(S) - 1 : S[k] \in Frame
  BY <1>1, <1>2
<1> DEFINE n == Len(S) - 1
<1>4. n \in Int /\ n >= 0
  BY <1>1
<1>5. /\ SubSeq(S, 1, n) \in Seq(Frame)
      /\ Len(SubSeq(S, 1, n)) = IF 1 <= n THEN n - 1 + 1 ELSE 0
      /\ \A k \in 1 .. n - 1 + 1 : SubSeq(S, 1, n)[k] = S[1 + k - 1]
  <2> HIDE DEF n
  <2> QED
    BY <1>3, <1>4, SubSeqProperties DEF n
<1>6. Front(S) = SubSeq(S, 1, n)
  BY DEF Front
<1> HIDE DEF n
<1>7. n - 1 + 1 = n /\ (IF 1 <= n THEN n - 1 + 1 ELSE 0) = n /\ \A k \in 1 .. n : 1 + k - 1 = k
  BY <1>4
<1>8. /\ Front(S) \in Seq(Frame) /\ Len(Front(S)) = n
      /\ \A k \in 1 .. n : Front(S)[k] = S[k]
  BY <1>5, <1>6, <1>7
<1>9. Last(S) = S[Len(S)] /\ Last(S) \in Frame
  BY <1>1, <1>2 DEF Last
<1> QED
  BY <1>1, <1>8, <1>9 DEF n

LEMMA Advanced ==
    ASSUME NEW S \in Seq(Frame), S # <<>>, Last(S).op = "finale", Last(S).todo # <<>>
    PROVE  LET T == [S EXCEPT ![Len(S)].todo = Tail(@)]
           IN  /\ T \in Seq(Frame) /\ Len(T) = Len(S)
               /\ \A k \in 1 .. Len(S) - 1 : T[k] = S[k]
               /\ T[Len(S)].op = "finale" /\ T[Len(S)].self = S[Len(S)].self
               /\ T[Len(S)].todo = Tail(S[Len(S)].todo)
               /\ S[Len(S)].todo \in Seq(Nat)
<1> DEFINE top == S[Len(S)]
           fr == [top EXCEPT !.todo = Tail(top.todo)]
           T == [S EXCEPT ![Len(S)].todo = Tail(@)]
<1>1. Len(S) \in Nat \ {0} /\ top = Last(S) /\ Last(S) \in Frame
  BY Popped
<1>2. top \in [op : {"finale"}, self : Nat, list : BOOLEAN, todo : Seq(Nat)]
  BY <1>1 DEF Frame
<1>3. top.todo \in Seq(Nat) /\ Tail(top.todo) \in Seq(Nat)
  BY <1>1, <1>2, HeadTailProperties
<1>4. T = [S EXCEPT ![Len(S)] = fr]
  OBVIOUS
<1> HIDE DEF T
<1>5. /\ fr \in [op : {"finale"}, self : Nat, list : BOOLEAN, todo : Seq(Nat)]
      /\ fr.op = "finale" /\ fr.self = top.self /\ fr.todo = Tail(top.todo)
  <2> DEFINE t == Tail(top.todo)
  <2> HIDE DEF top, t
  <2> QED
    BY <1>2, <1>3 DEF t
<1> HIDE DEF fr
<1>6. fr \in Frame
  BY <1>5 DEF Frame
<1>7. /\ [S EXCEPT ![Len(S)] = fr] \in Seq(Frame)
      /\ Len([S EXCEPT ![Len(S)] = fr]) = Len(S)
      /\ \A j \in 1 .. Len(S) : [S EXCEPT ![Len(S)] = fr][j] = IF j = Len(S) THEN fr ELSE S[j]
  BY <1>1, <1>6, ExceptSeq
<1>8. /\ T \in Seq(Frame) /\ Len(T) = Len(S)
      /\ \A j \in 1 .. Len(S) : T[j] = IF j = Len(S) THEN fr ELSE S[j]
  BY <1>4, <1>7
<1>9. /\ \A k \in 1 .. Len(S) - 1 : T[k] = S[k]
      /\ T[Len(S)] = fr
  BY <1>1, <1>8
<1> QED
  BY <1>3, <1>5, <1>8, <1>9 DEF T

-----------------------------------------------------------------------------
(* The invariant *)

(* The chained promises that are not settled. *)
Open(P) == {q \in DOMAIN P : P[q].from = "next" /\ P[q].state = PENDING}

(* q waits in the list of x, at the i-th place. *)
InList(P, x, i, q) ==
    /\ x \in DOMAIN P /\ P[x].state = PENDING
    /\ i \in DOMAIN P[x].deferreds /\ P[x].deferreds[i] = q

(* The k-th frame has q still to handle, or runs the callback for q. *)
InFrame(S, k, i, q) ==
    /\ k \in 1 .. Len(S)
    /\ \/ S[k].op = "finale" /\ i \in DOMAIN S[k].todo /\ S[k].todo[i] = q
       \/ S[k].op = "call" /\ i = 1 /\ S[k].of = q

(* handle may come to q for p: onFulfilled has not been called, or has      *)
(* thrown and p is rejected for it.                                        *)
Fresh(P, p, q) ==
    /\ P[q].ran.rejected = 0
    /\ P[q].ran.fulfilled = 0 \/ P[p].state = REJECTED

(* And p is where the promise q is chained to leads, unless no list will be *)
(* asked for it.                                                           *)
LeadsTo(P, p, q) ==
    \/ P[p].state = REJECTED
    \/ P[Target(P, p)].state = RESOLVING
    \/ Target(P, P[q].parent) = Target(P, p)

Promises(P) ==
    /\ P \in Seq(Prom) /\ Len(P) <= NP
    /\ \A p \in DOMAIN P :
           /\ P[p].value \in DOMAIN P \cup {Plain}
           /\ P[p].value # Plain <=> P[p].state = RESOLVING
           /\ P[p].from = "next" => P[p].parent \in DOMAIN P
           /\ P[p].state = PENDING /\ P[p].dstate = 0 => P[p].deferreds = <<>>
           /\ P[p].from # "next" /\ P[p].done = "no" => P[p].state = PENDING
           /\ P[p].ran.fulfilled <= 1 /\ P[p].ran.rejected <= 1

Frames(P, S) ==
    /\ S \in Seq(Frame)
    /\ \A k \in 1 .. Len(S) :
           /\ S[k].self \in DOMAIN P
           /\ S[k].op \in {"finale", "call"} => P[S[k].self].state # PENDING
           /\ S[k].op = "call" => P[S[k].self].state # RESOLVING

(* An open promise is in one place, *)
Once(P, S) ==
    /\ \A x, y, i, j, q : InList(P, x, i, q) /\ InList(P, y, j, q) => x = y /\ i = j
    /\ \A k, l, i, j, q : InFrame(S, k, i, q) /\ InFrame(S, l, j, q) => k = l /\ i = j
    /\ \A x, k, i, j, q : ~(InList(P, x, i, q) /\ InFrame(S, k, j, q))

(* nothing else is in any, *)
Waits(P, S, H) ==
    /\ H \subseteq Open(P)
    /\ \A x, i, q : InList(P, x, i, q) => q \in Open(P) \ H
    /\ \A k, i, q : InFrame(S, k, i, q) => q \in Open(P) \ H

(* and it is in some place, unless the C code has it in hand. *)
Found(P, S, H) ==
    \A q \in Open(P) \ H :
        (\E x, i : InList(P, x, i, q)) \/ (\E k, i : InFrame(S, k, i, q))

(* Each place says which callbacks have been called, *)
Ran(P, S) ==
    /\ \A x, i, q : InList(P, x, i, q) => P[q].ran.fulfilled = 0 /\ P[q].ran.rejected = 0
    /\ \A k, i, q : InFrame(S, k, i, q) /\ S[k].op = "finale" => Fresh(P, S[k].self, q)
    /\ \A k, i, q : InFrame(S, k, i, q) /\ S[k].op = "call" =>
           P[q].ran.rejected = 0 \/ P[S[k].self].state = REJECTED

(* and is the right one. *)
Led(P, S) ==
    /\ \A x, i, q : InList(P, x, i, q) => Target(P, P[q].parent) = x
    /\ \A k, i, q : InFrame(S, k, i, q) /\ S[k].op = "finale" => LeadsTo(P, S[k].self, q)

Inv(P, S, H) ==
    Promises(P) /\ Frames(P, S) /\ Once(P, S) /\ Waits(P, S, H) /\ Found(P, S, H)
    /\ Ran(P, S) /\ Led(P, S)

LEMMA PromisesClosed ==
    ASSUME NEW P, Promises(P)
    PROVE  /\ Closed(P) /\ DOMAIN P = 1 .. Len(P) /\ Len(P) \in Nat
           /\ \A p \in DOMAIN P : P[p] \in Prom /\ p \in Nat
<1>1. P \in Seq(Prom) /\ DOMAIN P = 1 .. Len(P) /\ Len(P) \in Nat
  BY LenProperties DEF Promises
<1>2. \A p \in DOMAIN P : P[p] \in Prom
  BY <1>1, PromAt
<1>3. DOMAIN P \subseteq 1 .. NP
  BY <1>1, PromiseAssumption DEF Promises
<1> QED
  BY <1>1, <1>2, <1>3 DEF Closed, Promises

(* Steps that leave the places and what the promises are alone. *)
LEMMA SamePlaces ==
    ASSUME NEW P, NEW S, NEW H, Inv(P, S, H), NEW Q, NEW T,
           Promises(Q), Frames(Q, T), DOMAIN Q = DOMAIN P,
           \A x \in DOMAIN P : /\ Q[x].state = P[x].state /\ Q[x].value = P[x].value
                               /\ Q[x].from = P[x].from /\ Q[x].parent = P[x].parent
                               /\ Q[x].ran = P[x].ran
                               /\ P[x].state = PENDING => Q[x].deferreds = P[x].deferreds,
           \A k, i, q : InFrame(T, k, i, q) <=> InFrame(S, k, i, q),
           \A k, i, q : InFrame(S, k, i, q) => T[k].op = S[k].op /\ T[k].self = S[k].self
    PROVE  Inv(Q, T, H)
<1>1. \A x, i, q : InList(Q, x, i, q) <=> InList(P, x, i, q)
  BY DEF InList
<1>2. Open(Q) = Open(P)
  BY DEF Open
<1>3. \A x \in DOMAIN P : Onward(Q)[x] = Onward(P)[x]
  BY DEF Onward
<1>4. Closed(P) /\ Closed(Q)
  BY PromisesClosed DEF Inv
<1>5. \A x \in DOMAIN P : Target(Q, x) = Target(P, x) /\ Target(P, x) \in DOMAIN P
  BY <1>3, <1>4, TargetKept, TargetIn
<1>6. Once(Q, T) /\ Waits(Q, T, H) /\ Found(Q, T, H)
  BY <1>1, <1>2 DEF Once, Waits, Found, Inv
<1>7. \A q \in Open(P) : q \in DOMAIN P /\ P[q].parent \in DOMAIN P
  BY DEF Open, Inv, Promises
<1>8. \A x, i, q : InList(P, x, i, q) => q \in Open(P)
  BY DEF Inv, Waits
<1>9. \A k, i, q : InFrame(S, k, i, q) => q \in Open(P) /\ S[k].self \in DOMAIN P
  <2>1. \A k, i, q : InFrame(S, k, i, q) => q \in Open(P)
    BY DEF Inv, Waits
  <2>2. \A k, i, q : InFrame(S, k, i, q) => k \in 1 .. Len(S)
    BY DEF InFrame
  <2> QED
    BY <2>1, <2>2 DEF Inv, Frames
<1>10. Ran(Q, T)
  BY <1>1, <1>7, <1>8, <1>9 DEF Ran, Inv, Fresh
<1>11. Led(Q, T)
  BY <1>1, <1>5, <1>7, <1>8, <1>9 DEF Led, Inv, LeadsTo
<1> QED
  BY <1>6, <1>10, <1>11 DEF Inv

(* A promise is created; a chained one is in hand until handle has it. *)
LEMMA CreateKeeps ==
    ASSUME NEW P, NEW S, Inv(P, S, {}), Len(P) < NP,
           NEW r, r \in Prom, r.state = PENDING, r.value = 0, r.dstate = 0,
           r.deferreds = <<>>, r.ran.fulfilled = 0, r.ran.rejected = 0,
           r.from = "next" => r.parent \in DOMAIN P,
           NEW q, q = Len(P) + 1,
           NEW Q, Q = Append(P, r),
           NEW H, H = IF r.from = "next" THEN {q} ELSE {}
    PROVE  Inv(Q, S, H)
<1>1. /\ Promises(P) /\ Frames(P, S) /\ P \in Seq(Prom)
      /\ DOMAIN P = 1 .. Len(P) /\ Len(P) \in Nat /\ Closed(P)
  BY PromisesClosed DEF Inv, Promises
<1>2. /\ Q \in Seq(Prom) /\ Len(Q) = Len(P) + 1 /\ DOMAIN Q = DOMAIN P \cup {q}
      /\ q \notin DOMAIN P /\ Q[q] = r
      /\ \A x \in DOMAIN P : Q[x] = P[x]
  BY <1>1, CreatedFields
<1>3. Promises(Q)
  <2>1. Len(Q) <= NP
    BY <1>1, <1>2, PromiseAssumption
  <2> QED
    BY <1>1, <1>2, <2>1 DEF Promises, Plain, PENDING, RESOLVING
<1>4. Frames(Q, S)
  BY <1>1, <1>2 DEF Frames
<1>5. Closed(Q)
  BY <1>3, PromisesClosed
<1>6. \A x, i, z : InList(Q, x, i, z) <=> InList(P, x, i, z)
  <2>1. ~ \E i : i \in DOMAIN r.deferreds
    OBVIOUS
  <2> QED
    BY <1>2, <2>1 DEF InList
<1>7. Open(Q) = Open(P) \cup H /\ q \notin Open(P)
  BY <1>2 DEF Open
<1>8. \A x \in DOMAIN P : Onward(Q)[x] = Onward(P)[x]
  BY <1>2 DEF Onward
<1>9. \A x \in DOMAIN P : Target(Q, x) = Target(P, x) /\ Target(P, x) \in DOMAIN P
  BY <1>1, <1>2, <1>5, <1>8, TargetKept, TargetIn
<1>10. \A x, i, z : InList(P, x, i, z) => z \in Open(P)
  BY DEF Inv, Waits
<1>11. \A k, i, z : InFrame(S, k, i, z) => z \in Open(P) /\ S[k].self \in DOMAIN P
  <2>1. \A k, i, z : InFrame(S, k, i, z) => z \in Open(P)
    BY DEF Inv, Waits
  <2>2. \A k, i, z : InFrame(S, k, i, z) => k \in 1 .. Len(S)
    BY DEF InFrame
  <2> QED
    BY <1>1, <2>1, <2>2 DEF Frames
<1>12. \A z \in Open(P) : z \in DOMAIN P /\ P[z].parent \in DOMAIN P /\ Q[z] = P[z]
  BY <1>1, <1>2 DEF Open, Promises
<1>13. Once(Q, S) /\ Found(Q, S, H)
  BY <1>6, <1>7 DEF Once, Found, Inv
<1>14. Waits(Q, S, H)
  BY <1>6, <1>7, <1>10, <1>11 DEF Waits
<1>15. Ran(Q, S)
  BY <1>2, <1>6, <1>10, <1>11, <1>12 DEF Ran, Inv, Fresh
<1>16. Led(Q, S)
  BY <1>2, <1>6, <1>9, <1>10, <1>11, <1>12 DEF Led, Inv, LeadsTo
<1> QED
  BY <1>3, <1>4, <1>13, <1>14, <1>15, <1>16 DEF Inv

(* What is known of the promises in frames. *)
LEMMA FrameKnown ==
    ASSUME NEW P, NEW S, NEW H, Inv(P, S, H), NEW k, NEW i, NEW q, InFrame(S, k, i, q)
    PROVE  /\ k \in 1 .. Len(S) /\ S[k].self \in DOMAIN P
           /\ q \in Open(P) /\ q \notin H /\ q \in DOMAIN P /\ P[q].parent \in DOMAIN P
           /\ S[k].op \in {"finale", "call"}
<1>1. k \in 1 .. Len(S) /\ S[k].op \in {"finale", "call"}
  BY DEF InFrame
<1>2. q \in Open(P) /\ q \notin H
  BY DEF Inv, Waits
<1> QED
  BY <1>1, <1>2 DEF Inv, Frames, Promises, Open

(* finale takes the next handler of its list in hand. *)
LEMMA TakeKeeps ==
    ASSUME NEW P, NEW S, Inv(P, S, {}), S # <<>>,
           Last(S).op = "finale", Last(S).todo # <<>>
    PROVE  LET q == Head(Last(S).todo)
               T == [S EXCEPT ![Len(S)].todo = Tail(@)]
           IN  /\ Inv(P, T, {q})
               /\ Fresh(P, Last(S).self, q) /\ LeadsTo(P, Last(S).self, q)
               /\ Last(S).self \in DOMAIN P
<1> DEFINE n == Len(S)
           todo == S[n].todo
           q == Head(todo)
           T == [S EXCEPT ![Len(S)].todo = Tail(@)]
<1>1. Promises(P) /\ Frames(P, S) /\ S \in Seq(Frame)
  BY DEF Inv, Frames
<1>2. n \in Nat \ {0} /\ Last(S) = S[n]
  BY <1>1, Popped
<1>3. /\ T \in Seq(Frame) /\ Len(T) = n
      /\ \A k \in 1 .. n - 1 : T[k] = S[k]
      /\ T[n].op = "finale" /\ T[n].self = S[n].self /\ T[n].todo = Tail(todo)
      /\ todo \in Seq(Nat) /\ todo # <<>> /\ S[n].op = "finale"
  BY <1>1, <1>2, Advanced
<1>4. /\ q = todo[1] /\ 1 \in DOMAIN todo
      /\ \A i : i \in DOMAIN Tail(todo) <=> i \in Nat /\ i + 1 \in DOMAIN todo /\ i # 0
      /\ \A i \in DOMAIN Tail(todo) : Tail(todo)[i] = todo[i + 1]
      /\ DOMAIN todo = 1 .. Len(todo) /\ Len(todo) \in Nat
  <2>1. /\ Tail(todo) \in Seq(Nat) /\ Len(Tail(todo)) = Len(todo) - 1
        /\ \A i \in 1 .. Len(Tail(todo)) : Tail(todo)[i] = todo[i + 1]
    BY <1>3, HeadTailProperties
  <2>2. /\ DOMAIN todo = 1 .. Len(todo) /\ Len(todo) \in Nat \ {0}
        /\ DOMAIN Tail(todo) = 1 .. Len(Tail(todo))
    BY <1>3, <2>1, LenProperties, EmptySeq
  <2>3. q = todo[1]
    BY <1>3
  <2> HIDE DEF todo, q
  <2> QED
    BY <2>1, <2>2, <2>3
<1> HIDE DEF n, todo, q, T
<1>5. InFrame(S, n, 1, q)
  BY <1>2, <1>3, <1>4 DEF InFrame, n, todo
<1>6. \A k, i, z : InFrame(T, k, i, z) <=>
          \/ k # n /\ InFrame(S, k, i, z)
          \/ k = n /\ i \in Nat /\ i # 0 /\ InFrame(S, k, i + 1, z)
  <2>1. \A k, i, z : k # n => (InFrame(T, k, i, z) <=> InFrame(S, k, i, z))
    <3>1. \A k \in 1 .. n : k # n => T[k] = S[k]
      BY <1>2, <1>3
    <3> QED
      BY <1>3, <3>1 DEF InFrame, n
  <2>2. \A i, z : InFrame(T, n, i, z) <=> i \in DOMAIN Tail(todo) /\ Tail(todo)[i] = z
    BY <1>2, <1>3 DEF InFrame
  <2>3. \A i, z : InFrame(S, n, i, z) <=> i \in DOMAIN todo /\ todo[i] = z
    BY <1>2, <1>3 DEF InFrame, n, todo
  <2> QED
    BY <1>4, <2>1, <2>2, <2>3
<1>7. /\ q \in Open(P) /\ S[n].self \in DOMAIN P
      /\ Fresh(P, S[n].self, q) /\ LeadsTo(P, S[n].self, q)
  <2>1. q \in Open(P) /\ S[n].self \in DOMAIN P
    BY <1>5, FrameKnown
  <2> QED
    BY <1>3, <1>5, <2>1 DEF Inv, Ran, Led
<1>8. Frames(P, T)
  <2> SUFFICES ASSUME NEW k \in 1 .. n
               PROVE  T[k].op = S[k].op /\ T[k].self = S[k].self
    BY <1>1, <1>3 DEF Frames, n
  <2> QED
    BY <1>2, <1>3
<1>9. \A k, i, z : InFrame(T, k, i, z) => T[k].op = S[k].op /\ T[k].self = S[k].self
  <2>1. \A k, i, z : InFrame(T, k, i, z) => k \in 1 .. n
    BY <1>3 DEF InFrame
  <2> QED
    BY <1>2, <1>3, <2>1
<1>10. Once(P, T)
  <2>1. ASSUME NEW k, NEW l, NEW i, NEW j, NEW z, InFrame(T, k, i, z), InFrame(T, l, j, z)
        PROVE  k = l /\ i = j
    BY <1>6, <2>1 DEF Inv, Once
  <2> QED
    BY <1>6, <2>1 DEF Inv, Once
<1>11. \A k, i : ~InFrame(T, k, i, q)
  BY <1>5, <1>6 DEF Inv, Once
<1>12. Waits(P, T, {q})
  BY <1>5, <1>6, <1>7, <1>11 DEF Inv, Waits, Once
<1>13. Found(P, T, {q})
  <2> SUFFICES ASSUME NEW z \in Open(P), z # q, NEW k, NEW i, InFrame(S, k, i, z)
               PROVE  \E l, j : InFrame(T, l, j, z)
    BY DEF Inv, Found
  <2>1. CASE k # n
    BY <1>6, <2>1
  <2>2. CASE k = n
    <3>1. i \in DOMAIN todo /\ todo[i] = z
      BY <1>2, <1>3, <2>2 DEF InFrame, n, todo
    <3>2. i - 1 \in Nat /\ i - 1 # 0 /\ (i - 1) + 1 = i
      BY <1>4, <3>1
    <3> QED
      BY <1>6, <2>2, <3>2
  <2> QED
    BY <2>1, <2>2
<1>14. Ran(P, T) /\ Led(P, T)
  <2>1. \A k, i, z : InFrame(T, k, i, z) => \E j : InFrame(S, k, j, z)
    BY <1>6
  <2> QED
    BY <1>9, <2>1 DEF Inv, Ran, Led
<1>15. Inv(P, T, {q})
  BY <1>1, <1>8, <1>10, <1>12, <1>13, <1>14 DEF Inv
<1> QED
  BY <1>2, <1>7, <1>15 DEF q, T, todo, n

(* Frames come and go on top. *)
LEMMA PopPlaces ==
    ASSUME NEW S \in Seq(Frame), S # <<>>
    PROVE  /\ \A k, i, q : InFrame(Front(S), k, i, q) <=> InFrame(S, k, i, q) /\ k # Len(S)
           /\ \A k, i, q : InFrame(S, k, i, q) /\ k # Len(S) => Front(S)[k] = S[k]
           /\ \A k \in 1 .. Len(Front(S)) : k \in 1 .. Len(S) /\ Front(S)[k] = S[k]
<1>1. /\ Front(S) \in Seq(Frame) /\ Len(Front(S)) = Len(S) - 1
      /\ Len(S) \in Nat \ {0}
      /\ \A k \in 1 .. Len(S) - 1 : Front(S)[k] = S[k]
  BY Popped
<1>2. \A k : k \in 1 .. Len(Front(S)) <=> k \in 1 .. Len(S) /\ k # Len(S)
  BY <1>1
<1>3. \A k \in 1 .. Len(Front(S)) : Front(S)[k] = S[k]
  BY <1>1
<1> QED
  BY <1>2, <1>3 DEF InFrame

LEMMA PushPlaces ==
    ASSUME NEW S \in Seq(Frame), NEW fr, fr \in Frame
    PROVE  /\ \A k, i, q : InFrame(Append(S, fr), k, i, q) /\ k # Len(S) + 1 <=> InFrame(S, k, i, q)
           /\ \A i, q : InFrame(Append(S, fr), Len(S) + 1, i, q) <=>
                  \/ fr.op = "finale" /\ i \in DOMAIN fr.todo /\ fr.todo[i] = q
                  \/ fr.op = "call" /\ i = 1 /\ fr.of = q
           /\ \A k, i, q : InFrame(S, k, i, q) => Append(S, fr)[k] = S[k]
           /\ \A k \in 1 .. Len(Append(S, fr)) :
                  \/ k \in 1 .. Len(S) /\ Append(S, fr)[k] = S[k]
                  \/ k = Len(S) + 1 /\ Append(S, fr)[k] = fr
<1>1. /\ Append(S, fr) \in Seq(Frame) /\ Len(Append(S, fr)) = Len(S) + 1
      /\ \A k \in 1 .. Len(S) : Append(S, fr)[k] = S[k]
      /\ Append(S, fr)[Len(S) + 1] = fr
  BY Pushed
<1>2. Len(S) \in Nat
  BY LenProperties
<1> DEFINE T == Append(S, fr)
           n == Len(S)
<1>3. /\ \A k : k \in 1 .. Len(T) <=> k \in 1 .. n \/ k = n + 1
      /\ \A k \in 1 .. n : k # n + 1
  BY <1>1, <1>2
<1>4. \A k \in 1 .. n : T[k] = S[k]
  BY <1>1
<1>5. T[n + 1] = fr
  BY <1>1
<1> HIDE DEF T
<1>6. \A k, i, q : InFrame(T, k, i, q) /\ k # n + 1 <=> InFrame(S, k, i, q)
  BY <1>3, <1>4 DEF InFrame
<1>7. \A i, q : InFrame(T, n + 1, i, q) <=>
                  \/ fr.op = "finale" /\ i \in DOMAIN fr.todo /\ fr.todo[i] = q
                  \/ fr.op = "call" /\ i = 1 /\ fr.of = q
  BY <1>3, <1>5 DEF InFrame
<1>8. \A k, i, q : InFrame(S, k, i, q) => T[k] = S[k]
  BY <1>4 DEF InFrame
<1> QED
  BY <1>3, <1>4, <1>5, <1>6, <1>7, <1>8 DEF T

(* The callback on top is over, and what it was called for in hand. *)
LEMMA PopCallKeeps ==
    ASSUME NEW P, NEW S, Inv(P, S, {}), S # <<>>, Last(S).op = "call"
    PROVE  LET c == Last(S)
           IN  /\ Inv(P, Front(S), {c.of})
               /\ c.self \in DOMAIN P /\ c.of \in DOMAIN P
               /\ P[c.self].state \in {RESOLVED, REJECTED}
               /\ P[c.of].ran.rejected = 0 \/ P[c.self].state = REJECTED
<1> DEFINE T == Front(S)
           n == Len(S)
           q == S[n].of
           p == S[n].self
<1>1. Promises(P) /\ Frames(P, S) /\ S \in Seq(Frame)
  BY DEF Inv, Frames
<1>2. n \in Nat \ {0} /\ Last(S) = S[n] /\ T \in Seq(Frame)
  BY <1>1, Popped
<1>3. /\ \A k, i, z : InFrame(T, k, i, z) <=> InFrame(S, k, i, z) /\ k # n
      /\ \A k, i, z : InFrame(S, k, i, z) /\ k # n => T[k] = S[k]
      /\ \A k \in 1 .. Len(T) : k \in 1 .. n /\ T[k] = S[k]
  BY <1>1, PopPlaces
<1>4. \A i, z : InFrame(S, n, i, z) <=> i = 1 /\ z = q
  BY <1>2 DEF InFrame
<1> HIDE DEF T, q, n
<1>5. InFrame(S, n, 1, q)
  BY <1>4
<1>6. q \in Open(P) /\ p \in DOMAIN P /\ q \in DOMAIN P
  BY <1>5, FrameKnown
<1>7. P[p].state \in {RESOLVED, REJECTED}
  <2>1. P[p].state # PENDING /\ P[p].state # RESOLVING
    BY <1>1, <1>2, <1>5 DEF Frames, InFrame
  <2>2. P[p] \in Prom
    BY <1>1, <1>6, PromisesClosed
  <2> QED
    BY <2>1, <2>2 DEF Prom, States
<1>8. P[q].ran.rejected = 0 \/ P[p].state = REJECTED
  BY <1>2, <1>5 DEF Inv, Ran
<1>9. Frames(P, T)
  BY <1>1, <1>2, <1>3 DEF Frames, n
<1>10. Once(P, T)
  BY <1>3 DEF Inv, Once
<1>11. Waits(P, T, {q})
  BY <1>3, <1>4, <1>5, <1>6 DEF Inv, Waits, Once
<1>12. Found(P, T, {q})
  BY <1>3, <1>4 DEF Inv, Found
<1>13. Ran(P, T) /\ Led(P, T)
  BY <1>3 DEF Inv, Ran, Led
<1>14. Inv(P, T, {q})
  BY <1>1, <1>9, <1>10, <1>11, <1>12, <1>13 DEF Inv
<1> QED
  BY <1>2, <1>6, <1>7, <1>8, <1>14 DEF q, T, n

(* handle appends q, which it has in hand, to the list of the pending       *)
(* promise t.                                                              *)
LEMMA DeferKeeps ==
    ASSUME NEW P, NEW S, NEW q, Inv(P, S, {q}),
           NEW t, t \in DOMAIN P, P[t].state = PENDING, Target(P, P[q].parent) = t,
           P[q].ran.fulfilled = 0, P[q].ran.rejected = 0
    PROVE  Inv(Defer(P, t, q), S, {})
<1> DEFINE Q == Defer(P, t, q)
           l == P[t].deferreds
<1>1. /\ Promises(P) /\ Frames(P, S) /\ P \in Seq(Prom) /\ Closed(P)
      /\ \A p \in DOMAIN P : P[p] \in Prom /\ p \in Nat
  BY PromisesClosed DEF Inv, Promises
<1>2. q \in Open(P) /\ q \in DOMAIN P /\ q \in Nat
  BY <1>1 DEF Inv, Waits, Open
<1>3. /\ SameBut(P, Q, t) /\ SameState(P, Q, t) /\ SameDone(P, Q, t) /\ SameRan(P, Q, t)
      /\ Q[t].deferreds = Append(l, q) /\ Q[t].dstate # 0
  BY <1>1, <1>2, DeferFields
<1>4. l \in Seq(Nat) /\ DOMAIN l = 1 .. Len(l) /\ Len(l) \in Nat
  <2>1. l \in Seq(Nat)
    BY <1>1 DEF Prom
  <2> QED
    BY <2>1, LenProperties
<1>5. /\ \A i : i \in DOMAIN Append(l, q) <=> i \in DOMAIN l \/ i = Len(l) + 1
      /\ \A i \in DOMAIN l : Append(l, q)[i] = l[i] /\ i # Len(l) + 1
      /\ Append(l, q)[Len(l) + 1] = q
  <2>1. /\ Append(l, q) \in Seq(Nat) /\ Len(Append(l, q)) = Len(l) + 1
        /\ \A i \in 1 .. Len(l) : Append(l, q)[i] = l[i]
        /\ Append(l, q)[Len(l) + 1] = q
    BY <1>2, <1>4, AppendProperties
  <2>2. DOMAIN Append(l, q) = 1 .. Len(Append(l, q))
    BY <2>1, LenProperties
  <2> HIDE DEF l
  <2> QED
    BY <1>4, <2>1, <2>2
<1> HIDE DEF Q
<1>6. /\ DOMAIN Q = DOMAIN P /\ Len(Q) = Len(P) /\ Q \in Seq(Prom)
      /\ \A x \in DOMAIN P : /\ Q[x].state = P[x].state /\ Q[x].value = P[x].value
                             /\ Q[x].from = P[x].from /\ Q[x].parent = P[x].parent
                             /\ Q[x].ran = P[x].ran /\ Q[x].done = P[x].done
                             /\ x # t => Q[x] = P[x]
  BY <1>3 DEF SameBut, SameState, SameDone, SameRan
<1>7. Promises(Q)
  BY <1>1, <1>3, <1>6 DEF Promises
<1>8. Frames(Q, S)
  BY <1>1, <1>6 DEF Frames
<1>9. \A x, i, z : InList(Q, x, i, z) <=>
          InList(P, x, i, z) \/ (x = t /\ i = Len(l) + 1 /\ z = q)
  <2>1. \A x, i, z : x # t => (InList(Q, x, i, z) <=> InList(P, x, i, z))
    BY <1>6 DEF InList
  <2>2. \A i, z : InList(P, t, i, z) <=> i \in DOMAIN l /\ l[i] = z
    BY DEF InList
  <2>3. \A i, z : InList(Q, t, i, z) <=> i \in DOMAIN Append(l, q) /\ Append(l, q)[i] = z
    BY <1>3, <1>6 DEF InList
  <2> HIDE DEF l
  <2> QED
    BY <1>5, <2>1, <2>2, <2>3
<1>10. Open(Q) = Open(P)
  BY <1>6 DEF Open
<1>11. \A x \in DOMAIN P : Onward(Q)[x] = Onward(P)[x]
  BY <1>6 DEF Onward
<1>12. Closed(Q)
  BY <1>7, PromisesClosed
<1>13. \A x \in DOMAIN P : Target(Q, x) = Target(P, x) /\ Target(P, x) \in DOMAIN P
  BY <1>1, <1>6, <1>11, <1>12, TargetKept, TargetIn
<1>14. /\ \A x, i : ~InList(P, x, i, q)
       /\ \A k, i : ~InFrame(S, k, i, q)
  BY DEF Inv, Waits
<1>15. \A z \in Open(P) : z \in DOMAIN P /\ P[z].parent \in DOMAIN P
  BY <1>1 DEF Open, Promises
<1> HIDE DEF l
<1>16. Once(Q, S)
  BY <1>9, <1>14 DEF Inv, Once
<1>17. Waits(Q, S, {})
  BY <1>2, <1>9, <1>10 DEF Inv, Waits
<1>18. Found(Q, S, {})
  BY <1>9, <1>10 DEF Inv, Found
<1>19. \A x, i, z : InList(P, x, i, z) => z \in Open(P)
  BY DEF Inv, Waits
<1>20. \A k, i, z : InFrame(S, k, i, z) => z \in Open(P) /\ S[k].self \in DOMAIN P
  BY FrameKnown
<1>21. Ran(Q, S)
  BY <1>2, <1>6, <1>9, <1>15, <1>19, <1>20 DEF Ran, Inv, Fresh
<1>22. Led(Q, S)
  <2>1. \A x, i, z : InList(Q, x, i, z) => Target(Q, Q[z].parent) = x
    <3> SUFFICES ASSUME NEW x, NEW i, NEW z, InList(Q, x, i, z)
                 PROVE  Target(Q, Q[z].parent) = x
      OBVIOUS
    <3>1. z \in Open(P)
      BY <1>2, <1>9, <1>19
    <3>2. Target(Q, Q[z].parent) = Target(P, P[z].parent)
      BY <1>6, <1>13, <1>15, <3>1
    <3> QED
      BY <1>9, <3>2 DEF Led, Inv
  <2>2. \A k, i, z : InFrame(S, k, i, z) /\ S[k].op = "finale" => LeadsTo(Q, S[k].self, z)
    BY <1>6, <1>13, <1>15, <1>20 DEF Led, Inv, LeadsTo
  <2> QED
    BY <2>1, <2>2 DEF Led
<1> QED
  BY <1>7, <1>8, <1>16, <1>17, <1>18, <1>21, <1>22 DEF Inv, Q

(* handleResolved calls the callback of q, which it has in hand. *)
LEMMA CallKeeps ==
    ASSUME NEW P, NEW S, NEW q, Inv(P, S, {q}), NEW p, p \in DOMAIN P,
           NEW k \in {"fulfilled", "rejected"},
           P[p].state = IF k = "fulfilled" THEN RESOLVED ELSE REJECTED,
           Fresh(P, p, q)
    PROVE  Inv(Begins(P, q, k), Append(S, Call(p, q)), {})
<1> DEFINE Q == Begins(P, q, k)
           fr == Call(p, q)
           T == Append(S, fr)
           n == Len(S) + 1
<1>1. /\ Promises(P) /\ Frames(P, S) /\ P \in Seq(Prom) /\ Closed(P) /\ S \in Seq(Frame)
      /\ \A x \in DOMAIN P : P[x] \in Prom /\ x \in Nat
  BY PromisesClosed DEF Inv, Promises, Frames
<1>2. q \in Open(P) /\ q \in DOMAIN P /\ q \in Nat
  BY <1>1 DEF Inv, Waits, Open
<1>3. P[p].state # REJECTED => k = "fulfilled" /\ P[q].ran.fulfilled = 0 /\ P[q].ran.rejected = 0
  BY DEF Fresh
<1>4. P[q].ran[k] = 0
  <2>1. CASE k = "fulfilled"
    BY <2>1 DEF Fresh, RESOLVED, REJECTED
  <2>2. CASE k = "rejected"
    BY <2>2 DEF Fresh
  <2> QED
    BY <2>1, <2>2
<1>5. /\ SameBut(P, Q, q) /\ SameState(P, Q, q) /\ SameList(P, Q, q) /\ SameDone(P, Q, q)
      /\ Q[q].ran[k] = 1
      /\ \A j \in {"fulfilled", "rejected"} : j # k => Q[q].ran[j] = P[q].ran[j]
  BY <1>1, <1>2, <1>4, BeginsFields
<1>6. fr \in Frame /\ fr.op = "call" /\ fr.self = p /\ fr.of = q
  BY <1>1, <1>2 DEF Frame, Call
<1> HIDE DEF Q, fr
<1>7. /\ T \in Seq(Frame)
      /\ \A l, i, z : InFrame(T, l, i, z) /\ l # n <=> InFrame(S, l, i, z)
      /\ \A i, z : InFrame(T, n, i, z) <=> i = 1 /\ z = q
      /\ \A l, i, z : InFrame(S, l, i, z) => T[l] = S[l]
      /\ \A l \in 1 .. Len(T) : \/ l \in 1 .. Len(S) /\ T[l] = S[l]
                                \/ l = n /\ T[l] = fr
  <2>1. T \in Seq(Frame)
    BY <1>1, <1>6, Pushed
  <2>2. /\ \A l, i, z : InFrame(T, l, i, z) /\ l # n <=> InFrame(S, l, i, z)
        /\ \A i, z : InFrame(T, n, i, z) <=>
               \/ fr.op = "finale" /\ i \in DOMAIN fr.todo /\ fr.todo[i] = z
               \/ fr.op = "call" /\ i = 1 /\ fr.of = z
        /\ \A l, i, z : InFrame(S, l, i, z) => T[l] = S[l]
        /\ \A l \in 1 .. Len(T) : \/ l \in 1 .. Len(S) /\ T[l] = S[l]
                                  \/ l = n /\ T[l] = fr
    BY <1>1, <1>6, PushPlaces
  <2> HIDE DEF T, n
  <2> QED
    BY <1>6, <2>1, <2>2
<1>8. T[n] = fr
  BY <1>1, <1>6, Pushed
<1> HIDE DEF T, n
<1>9. /\ DOMAIN Q = DOMAIN P /\ Len(Q) = Len(P) /\ Q \in Seq(Prom)
      /\ \A x \in DOMAIN P : /\ Q[x].state = P[x].state /\ Q[x].value = P[x].value
                             /\ Q[x].from = P[x].from /\ Q[x].parent = P[x].parent
                             /\ Q[x].dstate = P[x].dstate /\ Q[x].deferreds = P[x].deferreds
                             /\ Q[x].done = P[x].done
                             /\ x # q => Q[x] = P[x]
  BY <1>5 DEF SameBut, SameState, SameDone, SameList
<1>10. /\ Q[q].ran.fulfilled <= 1 /\ Q[q].ran.rejected <= 1
       /\ Q[q].ran.rejected = 0 \/ P[p].state = REJECTED
  <2>1. P[q].ran.fulfilled <= 1 /\ P[q].ran.rejected <= 1
    BY <1>1, <1>2 DEF Promises
  <2>2. CASE k = "fulfilled"
    BY <1>5, <2>1, <2>2 DEF Fresh
  <2>3. CASE k = "rejected"
    BY <1>5, <2>1, <2>3
  <2> QED
    BY <2>2, <2>3
<1>11. Promises(Q)
  BY <1>1, <1>9, <1>10 DEF Promises
<1>12. Frames(Q, T)
  <2>1. P[p].state # PENDING /\ P[p].state # RESOLVING
    BY DEF PENDING, RESOLVED, REJECTED, RESOLVING
  <2> SUFFICES ASSUME NEW l \in 1 .. Len(T)
               PROVE  /\ T[l].self \in DOMAIN P
                      /\ T[l].op \in {"finale", "call"} => P[T[l].self].state # PENDING
                      /\ T[l].op = "call" => P[T[l].self].state # RESOLVING
    BY <1>7, <1>9 DEF Frames
  <2>2. CASE l \in 1 .. Len(S) /\ T[l] = S[l]
    BY <1>1, <2>2 DEF Frames
  <2>3. CASE T[l] = fr
    BY <1>6, <2>1, <2>3
  <2> QED
    BY <1>7, <2>2, <2>3
<1>13. \A x, i, z : InList(Q, x, i, z) <=> InList(P, x, i, z)
  BY <1>9 DEF InList
<1>14. Open(Q) = Open(P)
  BY <1>9 DEF Open
<1>15. \A x \in DOMAIN P : Onward(Q)[x] = Onward(P)[x]
  BY <1>9 DEF Onward
<1>16. Closed(Q)
  BY <1>11, PromisesClosed
<1>17. \A x \in DOMAIN P : Target(Q, x) = Target(P, x) /\ Target(P, x) \in DOMAIN P
  BY <1>1, <1>9, <1>15, <1>16, TargetKept, TargetIn
<1>18. /\ \A x, i : ~InList(P, x, i, q)
       /\ \A l, i : ~InFrame(S, l, i, q)
  BY DEF Inv, Waits
<1>19. \A z \in Open(P) : z \in DOMAIN P /\ P[z].parent \in DOMAIN P
  BY <1>1 DEF Open, Promises
<1>20. Once(Q, T)
  BY <1>7, <1>13, <1>18 DEF Inv, Once
<1>21. Waits(Q, T, {})
  BY <1>2, <1>7, <1>13, <1>14 DEF Inv, Waits
<1>22. Found(Q, T, {})
  <2>1. InFrame(T, n, 1, q)
    BY <1>7
  <2> QED
    BY <1>7, <1>13, <1>14, <2>1 DEF Inv, Found
<1>23. \A x, i, z : InList(P, x, i, z) => z \in Open(P)
  BY DEF Inv, Waits
<1>24. \A l, i, z : InFrame(S, l, i, z) => z \in Open(P) /\ S[l].self \in DOMAIN P
  BY FrameKnown
<1>25. Ran(Q, T)
  <2>1. \A x, i, z : InList(Q, x, i, z) => Q[z].ran.fulfilled = 0 /\ Q[z].ran.rejected = 0
    BY <1>9, <1>13, <1>18, <1>19, <1>23 DEF Ran, Inv
  <2>2. \A l, i, z : InFrame(T, l, i, z) /\ l # n =>
            Q[z] = P[z] /\ T[l] = S[l] /\ S[l].self \in DOMAIN P /\ InFrame(S, l, i, z)
    BY <1>7, <1>9, <1>18, <1>19, <1>24
  <2>3. \A i, z : InFrame(T, n, i, z) => z = q
    BY <1>7
  <2> QED
    BY <1>6, <1>8, <1>9, <1>10, <2>1, <2>2, <2>3 DEF Ran, Inv, Fresh
<1>26. Led(Q, T)
  <2>1. \A l, i, z : InFrame(T, l, i, z) /\ T[l].op = "finale" =>
            T[l] = S[l] /\ S[l].self \in DOMAIN P /\ InFrame(S, l, i, z)
    BY <1>6, <1>7, <1>8, <1>24
  <2> QED
    BY <1>9, <1>13, <1>17, <1>19, <1>23, <1>24, <2>1 DEF Led, Inv, LeadsTo
<1> QED
  BY <1>11, <1>12, <1>20, <1>21, <1>22, <1>25, <1>26 DEF Inv, Q, T, fr

-----------------------------------------------------------------------------
(* Settling *)

(* A pending promise is settled, and its list becomes the frame n. *)
LEMMA SettlePlaces ==
    ASSUME NEW P, NEW S, NEW H, Inv(P, S, H),
           NEW q, q \in DOMAIN P, P[q].state = PENDING,
           \/ H = {q}
           \/ H = {} /\ P[q].from # "next" /\ P[q].done # "no",
           NEW st \in {RESOLVED, REJECTED, RESOLVING},
           NEW v \in DOMAIN P \cup {Plain}, v # Plain <=> st = RESOLVING,
           NEW T, NEW n,
           \A k, i, z : InFrame(T, k, i, z) <=>
               InFrame(S, k, i, z) \/ (k = n /\ InList(P, q, i, z)),
           \A k, i, z : InFrame(S, k, i, z) => k # n /\ T[k] = S[k],
           \A i, z : InList(P, q, i, z) => T[n].op = "finale" /\ T[n].self = q,
           Frames(Settle(P, q, st, v), T)
    PROVE  Inv(Settle(P, q, st, v), T, {})
<1> DEFINE Q == Settle(P, q, st, v)
<1>1. /\ Promises(P) /\ Frames(P, S) /\ P \in Seq(Prom) /\ Closed(P)
      /\ \A p \in DOMAIN P : P[p] \in Prom /\ p \in Nat
  BY PromisesClosed DEF Inv, Promises
<1>2. v \in Nat /\ st \in States /\ st # PENDING
  BY <1>1 DEF States, Plain, PENDING, RESOLVED, REJECTED, RESOLVING
<1>3. /\ SameBut(P, Q, q) /\ SameList(P, Q, q) /\ SameDone(P, Q, q) /\ SameRan(P, Q, q)
      /\ Q[q].state = st /\ Q[q].value = v
  BY <1>1, <1>2, SettledFields
<1> HIDE DEF Q
<1>4. /\ DOMAIN Q = DOMAIN P /\ Len(Q) = Len(P) /\ Q \in Seq(Prom)
      /\ \A x \in DOMAIN P : /\ Q[x].from = P[x].from /\ Q[x].parent = P[x].parent
                             /\ Q[x].dstate = P[x].dstate /\ Q[x].deferreds = P[x].deferreds
                             /\ Q[x].ran = P[x].ran /\ Q[x].done = P[x].done
                             /\ x # q => Q[x] = P[x]
  BY <1>3 DEF SameBut, SameList, SameDone, SameRan
<1>5. q \in H => P[q].from = "next"
  BY DEF Inv, Waits, Open
<1>6. Promises(Q)
  <2> SUFFICES ASSUME NEW p \in DOMAIN P
               PROVE  /\ Q[p].value \in DOMAIN P \cup {Plain}
                      /\ Q[p].value # Plain <=> Q[p].state = RESOLVING
                      /\ Q[p].from = "next" => Q[p].parent \in DOMAIN P
                      /\ Q[p].state = PENDING /\ Q[p].dstate = 0 => Q[p].deferreds = <<>>
                      /\ Q[p].from # "next" /\ Q[p].done = "no" => Q[p].state = PENDING
                      /\ Q[p].ran.fulfilled <= 1 /\ Q[p].ran.rejected <= 1
    BY <1>1, <1>4 DEF Promises
  <2>1. CASE p # q
    BY <1>1, <1>4, <2>1 DEF Promises
  <2>2. CASE p = q
    BY <1>1, <1>2, <1>3, <1>4, <1>5, <2>2 DEF Promises
  <2> QED
    BY <2>1, <2>2
<1>7. Frames(Q, T)
  BY DEF Q
<1>8. Closed(Q)
  BY <1>6, PromisesClosed
<1>9. \A x, i, z : InList(Q, x, i, z) <=> InList(P, x, i, z) /\ x # q
  BY <1>2, <1>3, <1>4 DEF InList
<1>10. Open(Q) = Open(P) \ {q}
  BY <1>2, <1>3, <1>4 DEF Open
<1>11. q \in Open(P) => q \in H
  BY DEF Open
<1>12. Once(Q, T)
  BY <1>9 DEF Inv, Once
<1>13. Waits(Q, T, {})
  BY <1>9, <1>10, <1>11 DEF Inv, Waits
<1>14. Found(Q, T, {})
  <2>1. ASSUME NEW z \in Open(Q)
        PROVE  (\E x, i : InList(P, x, i, z)) \/ (\E k, i : InFrame(S, k, i, z))
    <3>1. z \in Open(P) \ H
      BY <1>10, <2>1
    <3> QED
      BY <3>1 DEF Inv, Found
  <2> QED
    BY <1>9, <2>1 DEF Found
<1>15. \A z \in Open(P) : z \in DOMAIN P /\ P[z].parent \in DOMAIN P
  BY <1>1 DEF Open, Promises
<1>16. \A x, i, z : InList(P, x, i, z) => z \in Open(P)
  BY DEF Inv, Waits
<1>17. \A k, i, z : InFrame(S, k, i, z) =>
           z \in Open(P) /\ S[k].self \in DOMAIN P /\ S[k].self # q
  <2>1. \A k, i, z : InFrame(S, k, i, z) =>
            /\ z \in Open(P) /\ S[k].self \in DOMAIN P /\ k \in 1 .. Len(S)
            /\ S[k].op \in {"finale", "call"}
    BY FrameKnown
  <2> QED
    BY <1>1, <2>1 DEF Frames
<1>18. Ran(Q, T)
  <2>1. \A x, i, z : InList(Q, x, i, z) => Q[z].ran.fulfilled = 0 /\ Q[z].ran.rejected = 0
    BY <1>4, <1>9, <1>15, <1>16 DEF Ran, Inv
  <2>2. ASSUME NEW k, NEW i, NEW z, InFrame(S, k, i, z)
        PROVE  /\ T[k].op = "finale" => Fresh(Q, T[k].self, z)
               /\ T[k].op = "call" => Q[z].ran.rejected = 0 \/ Q[T[k].self].state = REJECTED
    BY <1>4, <1>15, <1>17, <2>2 DEF Ran, Inv, Fresh
  <2>3. ASSUME NEW i, NEW z, InList(P, q, i, z)
        PROVE  Fresh(Q, q, z)
    BY <1>4, <1>15, <1>16, <2>3 DEF Ran, Inv, Fresh
  <2> QED
    BY <2>1, <2>2, <2>3 DEF Ran
<1>19. \A x \in DOMAIN P : x # q => Onward(Q)[x] = Onward(P)[x]
  BY <1>4 DEF Onward
<1>20. P[q].state # RESOLVING
  BY DEF PENDING, RESOLVING
<1>21. ASSUME NEW a \in DOMAIN P
       PROVE  /\ Target(P, a) \in DOMAIN P
              /\ Target(P, a) # q => Target(Q, a) = Target(P, a)
              /\ Target(P, a) = q /\ Q[Target(Q, q)].state # RESOLVING =>
                   Target(Q, a) = Target(Q, q)
              /\ Target(P, a) = q /\ Q[Target(Q, q)].state = RESOLVING =>
                   Q[Target(Q, a)].state = RESOLVING
  <2>1. Target(P, a) \in DOMAIN P
    BY <1>1, TargetIn
  <2>2. DOMAIN P = DOMAIN Q
    BY <1>4
  <2>3. /\ Target(P, a) # q => Target(Q, a) = Target(P, a)
        /\ Target(P, a) = q /\ Q[Target(Q, q)].state # RESOLVING =>
             Target(Q, a) = Target(Q, q)
        /\ Target(P, a) = q /\ Q[Target(Q, q)].state = RESOLVING =>
             Q[Target(Q, a)].state = RESOLVING
    BY <1>1, <1>8, <1>19, <1>20, <2>2, TargetMoved
  <2> QED
    BY <2>1, <2>3
<1>22. Led(Q, T)
  <2>1. \A x, i, z : InList(Q, x, i, z) => Target(Q, Q[z].parent) = x
    <3> SUFFICES ASSUME NEW x, NEW i, NEW z, InList(Q, x, i, z)
                 PROVE  Target(Q, Q[z].parent) = x
      OBVIOUS
    <3>1. InList(P, x, i, z) /\ x # q /\ z \in Open(P)
      BY <1>9, <1>16
    <3>2. Target(P, P[z].parent) = x
      BY <3>1 DEF Inv, Led
    <3> QED
      BY <1>4, <1>15, <1>21, <3>1, <3>2
  <2>2. ASSUME NEW k, NEW i, NEW z, InFrame(S, k, i, z), S[k].op = "finale"
        PROVE  LeadsTo(Q, S[k].self, z)
    <3> DEFINE p == S[k].self
               a == P[z].parent
    <3>1. /\ LeadsTo(P, p, z) /\ p \in DOMAIN P /\ p # q
          /\ z \in DOMAIN P /\ a \in DOMAIN P /\ Q[z].parent = a
      BY <1>4, <1>15, <1>17, <2>2 DEF Inv, Led
    <3>2. CASE P[p].state = REJECTED
      BY <1>4, <3>1, <3>2 DEF LeadsTo
    <3>3. CASE P[Target(P, p)].state = RESOLVING
      BY <1>4, <1>20, <1>21, <3>1, <3>3 DEF LeadsTo
    <3>4. CASE Target(P, a) = Target(P, p)
      BY <1>21, <3>1, <3>4 DEF LeadsTo
    <3> QED
      BY <3>1, <3>2, <3>3, <3>4 DEF LeadsTo
  <2>3. ASSUME NEW i, NEW z, InList(P, q, i, z)
        PROVE  LeadsTo(Q, q, z)
    <3>1. z \in Open(P) /\ Target(P, P[z].parent) = q
      BY <1>16, <2>3 DEF Inv, Led
    <3> QED
      BY <1>4, <1>15, <1>21, <3>1 DEF LeadsTo
  <2> QED
    BY <2>1, <2>2, <2>3 DEF Led
<1> QED
  BY <1>6, <1>7, <1>12, <1>13, <1>14, <1>18, <1>22 DEF Inv, Q

(* The frame that finale makes. *)
LEMMA FinaleFrame ==
    ASSUME NEW p \in Nat, NEW l \in BOOLEAN, NEW t, t \in Seq(Nat)
    PROVE  LET fr == Finale(p, l, t)
           IN  fr \in Frame /\ fr.op = "finale" /\ fr.self = p /\ fr.todo = t
BY DEF Finale, Frame

(* resolve and reject of a pending promise, with what finale does then. *)
LEMMA SettleKeeps ==
    ASSUME NEW P, NEW S, NEW H, Inv(P, S, H),
           NEW q, q \in DOMAIN P, P[q].state = PENDING,
           \/ H = {q}
           \/ H = {} /\ P[q].from # "next" /\ P[q].done # "no",
           NEW st \in {RESOLVED, REJECTED, RESOLVING},
           NEW v \in DOMAIN P \cup {Plain}, v # Plain <=> st = RESOLVING,
           finale(Settle(P, q, st, v), S, q).damage = "none"
    PROVE  LET e == finale(Settle(P, q, st, v), S, q)
           IN  e.pr = Settle(P, q, st, v) /\ Inv(e.pr, e.stack, {})
<1> DEFINE Q == Settle(P, q, st, v)
           e == finale(Q, S, q)
           n == Len(S) + 1
<1>1. /\ Promises(P) /\ Frames(P, S) /\ P \in Seq(Prom) /\ S \in Seq(Frame)
      /\ \A p \in DOMAIN P : P[p] \in Prom /\ p \in Nat
  BY PromisesClosed DEF Inv, Promises, Frames
<1>2. v \in Nat /\ st \in States /\ st # PENDING
  BY <1>1 DEF States, Plain, PENDING, RESOLVED, REJECTED, RESOLVING
<1>3. /\ DOMAIN Q = DOMAIN P /\ Q[q].state = st
      /\ Q[q].dstate = P[q].dstate /\ Q[q].deferreds = P[q].deferreds
      /\ \A x \in DOMAIN P : x # q => Q[x] = P[x]
  BY <1>1, <1>2, SettledFields DEF SameBut, SameList
<1> HIDE DEF Q
<1>4. Len(S) \in Nat
  BY <1>1, LenProperties
<1>5. \A k \in 1 .. Len(S) :
          /\ S[k].self \in DOMAIN Q
          /\ S[k].op \in {"finale", "call"} => S[k].self # q /\ Q[S[k].self].state # PENDING
          /\ S[k].op = "call" => Q[S[k].self].state # RESOLVING
  BY <1>1, <1>3 DEF Frames
<1>6. \A k, i, z : InFrame(S, k, i, z) => k # n
  BY <1>4 DEF InFrame
<1>7. CASE Q[q].dstate = 0
  <2>1. e.pr = Q /\ e.stack = S
    BY <1>7 DEF finale, Effect
  <2>2. P[q].deferreds = <<>>
    BY <1>1, <1>3, <1>7 DEF Promises
  <2>3. \A i, z : ~InList(P, q, i, z)
    BY <2>2 DEF InList
  <2>4. Frames(Q, S)
    BY <1>1, <1>5 DEF Frames
  <2>5. /\ \A k, i, z : InFrame(S, k, i, z) <=>
               InFrame(S, k, i, z) \/ (k = n /\ InList(P, q, i, z))
        /\ \A k, i, z : InFrame(S, k, i, z) => k # n /\ S[k] = S[k]
        /\ \A i, z : InList(P, q, i, z) => S[n].op = "finale" /\ S[n].self = q
    BY <1>6, <2>3
  <2>6. Inv(Q, S, {})
    <3> HIDE DEF n
    <3> QED
      BY <2>4, <2>5, SettlePlaces DEF Q
  <2> QED
    BY <2>1, <2>6 DEF Q
<1>8. CASE Q[q].dstate # 0
  <2> DEFINE l == P[q].deferreds
             b == Q[q].dstate = 2
             fr == Finale(q, b, l)
             T == Append(S, fr)
  <2>1. l # <<>>
    BY <1>3, <1>8 DEF finale, Effect, Q
  <2>2. e.pr = Q /\ e.stack = T
    BY <1>3, <1>8, <2>1 DEF finale, Effect
  <2>3. l \in Seq(Nat)
    BY <1>1 DEF Prom
  <2>4. fr \in Frame /\ fr.op = "finale" /\ fr.self = q /\ fr.todo = l
    <3>1. b \in BOOLEAN /\ q \in Nat
      BY <1>1
    <3> HIDE DEF b, l
    <3> QED
      BY <2>3, <3>1, FinaleFrame
  <2> HIDE DEF fr, e
  <2>5. /\ T \in Seq(Frame) /\ T[n] = fr
        /\ \A k, i, z : InFrame(T, k, i, z) /\ k # n <=> InFrame(S, k, i, z)
        /\ \A k, i, z : InFrame(S, k, i, z) => T[k] = S[k]
        /\ \A k \in 1 .. Len(T) : \/ k \in 1 .. Len(S) /\ T[k] = S[k]
                                  \/ k = n /\ T[k] = fr
    <3>1. T \in Seq(Frame) /\ T[n] = fr
      BY <1>1, <2>4, Pushed
    <3>2. /\ \A k, i, z : InFrame(T, k, i, z) /\ k # n <=> InFrame(S, k, i, z)
          /\ \A k, i, z : InFrame(S, k, i, z) => T[k] = S[k]
          /\ \A k \in 1 .. Len(T) : \/ k \in 1 .. Len(S) /\ T[k] = S[k]
                                    \/ k = n /\ T[k] = fr
      BY <1>1, <2>4, PushPlaces
    <3> QED
      BY <3>1, <3>2
  <2>6. \A i, z : InFrame(T, n, i, z) <=> InList(P, q, i, z)
    <3>1. \A i, z : InFrame(T, n, i, z) <=>
              \/ fr.op = "finale" /\ i \in DOMAIN fr.todo /\ fr.todo[i] = z
              \/ fr.op = "call" /\ i = 1 /\ fr.of = z
      BY <1>1, <2>4, PushPlaces
    <3>2. \A i, z : InList(P, q, i, z) <=> i \in DOMAIN l /\ l[i] = z
      BY DEF InList
    <3> HIDE DEF l, T, n
    <3> QED
      BY <2>4, <3>1, <3>2
  <2> HIDE DEF T, n
  <2>7. Frames(Q, T)
    <3> SUFFICES ASSUME NEW k \in 1 .. Len(T)
                 PROVE  /\ T[k].self \in DOMAIN Q
                        /\ T[k].op \in {"finale", "call"} => Q[T[k].self].state # PENDING
                        /\ T[k].op = "call" => Q[T[k].self].state # RESOLVING
      BY <2>5 DEF Frames
    <3>1. CASE k \in 1 .. Len(S) /\ T[k] = S[k]
      BY <1>5, <3>1
    <3>2. CASE T[k] = fr
      BY <1>2, <1>3, <2>4, <3>2
    <3> QED
      BY <2>5, <3>1, <3>2
  <2>8. /\ \A k, i, z : InFrame(T, k, i, z) <=>
               InFrame(S, k, i, z) \/ (k = n /\ InList(P, q, i, z))
        /\ \A k, i, z : InFrame(S, k, i, z) => k # n /\ T[k] = S[k]
        /\ \A i, z : InList(P, q, i, z) => T[n].op = "finale" /\ T[n].self = q
    BY <1>6, <2>4, <2>5, <2>6
  <2>9. Inv(Q, T, {})
    BY <2>7, <2>8, SettlePlaces DEF Q
  <2> QED
    BY <2>2, <2>9 DEF Q, e
<1> QED
  BY <1>7, <1>8

(* No promise that is settled changes. *)
Kept(P, Q) ==
    \A x \in DOMAIN P : x \in DOMAIN Q /\ (P[x].state # PENDING =>
        Q[x].state = P[x].state /\ Q[x].value = P[x].value)

LEMMA SettleKept ==
    ASSUME NEW P, Promises(P), NEW q, q \in DOMAIN P, P[q].state = PENDING,
           NEW st \in States, NEW v \in DOMAIN P \cup {Plain}
    PROVE  Kept(P, Settle(P, q, st, v))
<1>1. v \in Nat /\ P \in Seq(Prom)
  BY PromisesClosed DEF Plain, Promises
<1> DEFINE Q == Settle(P, q, st, v)
<1>2. DOMAIN Q = DOMAIN P /\ \A x \in DOMAIN P : x # q => Q[x] = P[x]
  BY <1>1, SettledFields DEF SameBut
<1> HIDE DEF Q
<1>3. Kept(P, Q)
  BY <1>2 DEF Kept
<1> QED
  BY <1>3 DEF Q

LEMMA ResolveKeeps ==
    ASSUME NEW P, NEW S, NEW H, Inv(P, S, H),
           NEW q, q \in DOMAIN P, P[q].state = PENDING,
           \/ H = {q}
           \/ H = {} /\ P[q].from # "next" /\ P[q].done # "no",
           NEW v \in DOMAIN P \cup {Plain},
           resolve(P, S, q, v).damage = "none"
    PROVE  LET e == resolve(P, S, q, v)
           IN  Inv(e.pr, e.stack, {}) /\ Kept(P, e.pr)
<1> DEFINE st == IF v = Plain THEN RESOLVED ELSE RESOLVING
<1>1. /\ st \in {RESOLVED, REJECTED, RESOLVING} /\ st \in States
      /\ v # Plain <=> st = RESOLVING
  BY DEF RESOLVED, RESOLVING, States
<1>2. resolve(P, S, q, v) = finale(Settle(P, q, st, v), S, q)
  BY DEF resolve, Settle
<1> HIDE DEF st
<1>3. /\ resolve(P, S, q, v).pr = Settle(P, q, st, v)
      /\ Inv(resolve(P, S, q, v).pr, resolve(P, S, q, v).stack, {})
  BY <1>1, <1>2, SettleKeeps
<1>4. Kept(P, Settle(P, q, st, v))
  BY <1>1, SettleKept DEF Inv
<1> QED
  BY <1>3, <1>4

LEMMA RejectKeeps ==
    ASSUME NEW P, NEW S, NEW H, Inv(P, S, H),
           NEW q, q \in DOMAIN P, P[q].state = PENDING,
           \/ H = {q}
           \/ H = {} /\ P[q].from # "next" /\ P[q].done # "no",
           reject(P, S, q).damage = "none"
    PROVE  LET e == reject(P, S, q)
           IN  Inv(e.pr, e.stack, {}) /\ Kept(P, e.pr)
<1>1. REJECTED # RESOLVING /\ REJECTED \in States /\ Plain \in DOMAIN P \cup {Plain}
  BY DEF REJECTED, RESOLVING, States
<1>2. reject(P, S, q) = finale(Settle(P, q, REJECTED, Plain), S, q)
  BY DEF reject, Settle
<1>3. /\ reject(P, S, q).pr = Settle(P, q, REJECTED, Plain)
      /\ Inv(reject(P, S, q).pr, reject(P, S, q).stack, {})
  BY <1>1, <1>2, SettleKeeps
<1>4. Kept(P, Settle(P, q, REJECTED, Plain))
  BY <1>1, SettleKept DEF Inv
<1> QED
  BY <1>3, <1>4

LEMMA HandleResolvedKeeps ==
    ASSUME NEW P, NEW S, NEW q, Inv(P, S, {q}), NEW p, p \in DOMAIN P,
           P[p].state \in {RESOLVED, REJECTED}, Fresh(P, p, q),
           handleResolved(P, S, p, q).damage = "none"
    PROVE  LET e == handleResolved(P, S, p, q)
           IN  Inv(e.pr, e.stack, {}) /\ Kept(P, e.pr)
<1> DEFINE e == handleResolved(P, S, p, q)
<1>1. Promises(P) /\ P \in Seq(Prom) /\ \A x \in DOMAIN P : P[x] \in Prom
  BY PromisesClosed DEF Inv, Promises
<1>2. q \in DOMAIN P /\ P[q].state = PENDING
  BY DEF Inv, Waits, Open
<1>3. P[q].f \in {"fn", "nil"} /\ P[q].r \in {"fn", "nil"}
  BY <1>1, <1>2 DEF Prom
<1>4. RESOLVED # REJECTED /\ RESOLVED # RESOLVING
  BY DEF RESOLVED, REJECTED, RESOLVING
<1>5. ASSUME NEW k \in {"fulfilled", "rejected"}
      PROVE  Kept(P, Begins(P, q, k))
  <2> DEFINE Q == Begins(P, q, k)
  <2>1. SameBut(P, Q, q) /\ SameState(P, Q, q)
    BY <1>1, <1>2, BeginsFields
  <2> HIDE DEF Q
  <2>2. Kept(P, Q)
    BY <2>1 DEF SameBut, SameState, Kept
  <2> QED
    BY <2>2 DEF Q
<1>6. CASE P[p].state = RESOLVED /\ P[q].f = "fn"
  <2>1. e.pr = Begins(P, q, "fulfilled") /\ e.stack = Append(S, Call(p, q))
    BY <1>3, <1>4, <1>6 DEF handleResolved, Effect
  <2>2. Inv(Begins(P, q, "fulfilled"), Append(S, Call(p, q)), {})
    BY <1>6, CallKeeps
  <2> QED
    BY <1>5, <2>1, <2>2
<1>7. CASE P[p].state = REJECTED /\ P[q].r = "fn"
  <2>1. e.pr = Begins(P, q, "rejected") /\ e.stack = Append(S, Call(p, q))
    BY <1>3, <1>4, <1>7 DEF handleResolved, Effect
  <2>2. Inv(Begins(P, q, "rejected"), Append(S, Call(p, q)), {})
    BY <1>7, CallKeeps
  <2> QED
    BY <1>5, <2>1, <2>2
<1>8. CASE P[p].state = RESOLVED /\ P[q].f = "nil"
  <2>1. e = resolve(P, S, q, P[p].value)
    BY <1>3, <1>4, <1>8 DEF handleResolved
  <2>2. P[p].value \in DOMAIN P \cup {Plain}
    BY <1>1 DEF Promises
  <2> QED
    BY <1>2, <2>1, <2>2, ResolveKeeps
<1>9. CASE P[p].state = REJECTED /\ P[q].r = "nil"
  <2>1. e = reject(P, S, q)
    BY <1>3, <1>4, <1>9 DEF handleResolved
  <2> QED
    BY <1>2, <2>1, RejectKeeps
<1> QED
  BY <1>3, <1>6, <1>7, <1>8, <1>9

LEMMA HandleKeeps ==
    ASSUME NEW P, NEW S, NEW q, Inv(P, S, {q}), NEW p, p \in DOMAIN P,
           Fresh(P, p, q), LeadsTo(P, p, q), handle(P, S, p, q).damage = "none"
    PROVE  LET e == handle(P, S, p, q)
           IN  Inv(e.pr, e.stack, {}) /\ Kept(P, e.pr)
<1> DEFINE e == handle(P, S, p, q)
           t == Target(P, p)
<1>1. /\ Promises(P) /\ P \in Seq(Prom) /\ Closed(P)
      /\ \A x \in DOMAIN P : P[x] \in Prom /\ x \in Nat
  BY PromisesClosed DEF Inv, Promises
<1>2. t \in DOMAIN P /\ (P[p].state # RESOLVING => t = p)
  BY <1>1, TargetIn
<1>3. q \in DOMAIN P /\ q \in Nat
  BY <1>1 DEF Inv, Waits, Open
<1>4. P[t].state # RESOLVING
  <2> SUFFICES ASSUME P[t].state = RESOLVING
               PROVE  FALSE
    OBVIOUS
  <2>1. e = [Effect(P, S) EXCEPT !.damage = "hung"]
    BY DEF handle, PENDING, RESOLVING
  <2>2. e.damage = "hung"
    BY <2>1 DEF Effect
  <2> QED
    BY <2>2
<1>5. P[p].state = REJECTED => t = p
  BY <1>2 DEF REJECTED, RESOLVING
<1>6. Fresh(P, t, q)
  BY <1>5 DEF Fresh
<1>7. CASE P[t].state = PENDING
  <2>1. P[p].state # REJECTED
    BY <1>5, <1>7 DEF PENDING, REJECTED
  <2>2. /\ P[q].ran.fulfilled = 0 /\ P[q].ran.rejected = 0
        /\ Target(P, P[q].parent) = t
    BY <1>4, <2>1 DEF Fresh, LeadsTo
  <2>3. e.pr = Defer(P, t, q) /\ e.stack = S
    BY <1>4, <1>7 DEF handle, Effect
  <2>4. Inv(Defer(P, t, q), S, {})
    BY <1>2, <1>7, <2>2, DeferKeeps
  <2>5. SameBut(P, Defer(P, t, q), t) /\ SameState(P, Defer(P, t, q), t)
    BY <1>1, <1>2, <1>3, DeferFields
  <2>6. Kept(P, Defer(P, t, q))
    BY <2>5 DEF SameBut, SameState, Kept
  <2> QED
    BY <2>3, <2>4, <2>6
<1>8. CASE P[t].state # PENDING
  <2>1. P[t].state \in {RESOLVED, REJECTED}
    BY <1>1, <1>2, <1>4, <1>8 DEF Prom, States
  <2>2. e = handleResolved(P, S, t, q)
    BY <1>4, <1>8 DEF handle
  <2> QED
    BY <1>2, <1>6, <2>1, <2>2, HandleResolvedKeeps
<1> QED
  BY <1>7, <1>8

(* error_handle rejects the promise p that the callback of q was waiting    *)
(* for: q, the only one in the list, comes into the frame that finale makes *)
(* of it.                                                                  *)
LEMMA AnswerKeeps ==
    ASSUME NEW P, NEW S, NEW q, Inv(P, S, {q}), NEW p, p \in DOMAIN P,
           P[p].state = RESOLVED, P[p].dstate = 1, P[p].deferreds = <<q>>,
           P[q].ran.rejected = 0
    PROVE  LET e == reject(P, S, p)
           IN  /\ Inv(e.pr, e.stack, {})
               /\ DOMAIN e.pr = DOMAIN P /\ \A x \in DOMAIN P : x # p => e.pr[x] = P[x]
<1> DEFINE Q == Settle(P, p, REJECTED, Plain)
           e == reject(P, S, p)
           b == Q[p].dstate = 2
           t == <<q>>
           fr == Finale(p, b, t)
           T == Append(S, fr)
           n == Len(S) + 1
<1>1. /\ Promises(P) /\ Frames(P, S) /\ P \in Seq(Prom) /\ S \in Seq(Frame) /\ Closed(P)
      /\ \A x \in DOMAIN P : P[x] \in Prom /\ x \in Nat
  BY PromisesClosed DEF Inv, Promises, Frames
<1>2. /\ Plain \in Nat /\ REJECTED \in States
      /\ REJECTED # PENDING /\ REJECTED # RESOLVING
      /\ RESOLVED # PENDING /\ RESOLVED # RESOLVING
  BY DEF States, Plain, PENDING, RESOLVED, REJECTED, RESOLVING
<1>3. /\ SameBut(P, Q, p) /\ SameList(P, Q, p) /\ SameDone(P, Q, p) /\ SameRan(P, Q, p)
      /\ Q[p].state = REJECTED /\ Q[p].value = Plain
  BY <1>1, <1>2, SettledFields
<1>4. q \in Open(P) /\ q \in DOMAIN P /\ q \in Nat
  BY <1>1 DEF Inv, Waits, Open
<1>5. e = finale(Q, S, p)
  BY DEF reject, Settle
<1> HIDE DEF Q
<1>6. /\ DOMAIN Q = DOMAIN P /\ Len(Q) = Len(P) /\ Q \in Seq(Prom)
      /\ \A x \in DOMAIN P : /\ Q[x].from = P[x].from /\ Q[x].parent = P[x].parent
                             /\ Q[x].dstate = P[x].dstate /\ Q[x].deferreds = P[x].deferreds
                             /\ Q[x].ran = P[x].ran /\ Q[x].done = P[x].done
                             /\ x # p => Q[x] = P[x]
  BY <1>3 DEF SameBut, SameList, SameDone, SameRan
<1>7. e.pr = Q /\ e.stack = T
  <2>1. Q[p].dstate # 0 /\ Q[p].deferreds = t /\ t # <<>>
    BY <1>6
  <2> QED
    BY <1>5, <2>1 DEF finale, Effect
<1>8. /\ fr \in Frame /\ fr.op = "finale" /\ fr.self = p /\ fr.todo = t
      /\ \A i, z : i \in DOMAIN t /\ t[i] = z <=> i = 1 /\ z = q
  <2>1. b \in BOOLEAN /\ t \in Seq(Nat) /\ p \in Nat
    BY <1>1, <1>4
  <2>2. \A i, z : i \in DOMAIN t /\ t[i] = z <=> i = 1 /\ z = q
    OBVIOUS
  <2> HIDE DEF b, t
  <2> QED
    BY <2>1, <2>2, FinaleFrame
<1> HIDE DEF fr, e, t
<1>9. /\ T \in Seq(Frame) /\ T[n] = fr
      /\ \A k, i, z : InFrame(T, k, i, z) /\ k # n <=> InFrame(S, k, i, z)
      /\ \A i, z : InFrame(T, n, i, z) <=> i = 1 /\ z = q
      /\ \A k, i, z : InFrame(S, k, i, z) => T[k] = S[k]
      /\ \A k \in 1 .. Len(T) : \/ k \in 1 .. Len(S) /\ T[k] = S[k]
                                \/ k = n /\ T[k] = fr
  <2>1. T \in Seq(Frame) /\ T[n] = fr
    BY <1>1, <1>8, Pushed
  <2>2. /\ \A k, i, z : InFrame(T, k, i, z) /\ k # n <=> InFrame(S, k, i, z)
        /\ \A i, z : InFrame(T, n, i, z) <=>
               \/ fr.op = "finale" /\ i \in DOMAIN fr.todo /\ fr.todo[i] = z
               \/ fr.op = "call" /\ i = 1 /\ fr.of = z
        /\ \A k, i, z : InFrame(S, k, i, z) => T[k] = S[k]
        /\ \A k \in 1 .. Len(T) : \/ k \in 1 .. Len(S) /\ T[k] = S[k]
                                  \/ k = n /\ T[k] = fr
    BY <1>1, <1>8, PushPlaces
  <2> HIDE DEF T, n
  <2> QED
    BY <1>8, <2>1, <2>2
<1> HIDE DEF T, n
<1>10. Promises(Q)
  <2> SUFFICES ASSUME NEW x \in DOMAIN P
               PROVE  /\ Q[x].value \in DOMAIN P \cup {Plain}
                      /\ Q[x].value # Plain <=> Q[x].state = RESOLVING
                      /\ Q[x].from = "next" => Q[x].parent \in DOMAIN P
                      /\ Q[x].state = PENDING /\ Q[x].dstate = 0 => Q[x].deferreds = <<>>
                      /\ Q[x].from # "next" /\ Q[x].done = "no" => Q[x].state = PENDING
                      /\ Q[x].ran.fulfilled <= 1 /\ Q[x].ran.rejected <= 1
    BY <1>1, <1>6 DEF Promises
  <2>1. CASE x # p
    BY <1>1, <1>6, <2>1 DEF Promises
  <2>2. CASE x = p
    BY <1>1, <1>2, <1>3, <1>6, <2>2 DEF Promises
  <2> QED
    BY <2>1, <2>2
<1>11. Frames(Q, T)
  <2> SUFFICES ASSUME NEW k \in 1 .. Len(T)
               PROVE  /\ T[k].self \in DOMAIN P
                      /\ T[k].op \in {"finale", "call"} => Q[T[k].self].state # PENDING
                      /\ T[k].op = "call" => Q[T[k].self].state # RESOLVING
    BY <1>6, <1>9 DEF Frames
  <2>0. \A x \in DOMAIN P :
            /\ P[x].state # PENDING => Q[x].state # PENDING
            /\ P[x].state # RESOLVING => Q[x].state # RESOLVING
    BY <1>2, <1>3, <1>6
  <2>1. CASE k \in 1 .. Len(S) /\ T[k] = S[k]
    BY <1>1, <2>0, <2>1 DEF Frames
  <2>2. CASE T[k] = fr
    BY <1>2, <1>3, <1>8, <2>2
  <2> QED
    BY <1>9, <2>1, <2>2
<1>12. \A x, i, z : InList(Q, x, i, z) <=> InList(P, x, i, z)
  BY <1>2, <1>3, <1>6 DEF InList
<1>13. Open(Q) = Open(P)
  BY <1>2, <1>3, <1>6 DEF Open
<1>14. \A x \in DOMAIN P : Onward(Q)[x] = Onward(P)[x]
  BY <1>2, <1>3, <1>6 DEF Onward
<1>15. Closed(Q)
  BY <1>10, PromisesClosed
<1>16. \A x \in DOMAIN P : Target(Q, x) = Target(P, x) /\ Target(P, x) \in DOMAIN P
  BY <1>1, <1>6, <1>14, <1>15, TargetKept, TargetIn
<1>17. /\ \A x, i : ~InList(P, x, i, q)
       /\ \A k, i : ~InFrame(S, k, i, q)
  BY DEF Inv, Waits
<1>18. \A z \in Open(P) : z \in DOMAIN P /\ P[z].parent \in DOMAIN P
  BY <1>1 DEF Open, Promises
<1>19. \A x, i, z : InList(P, x, i, z) => z \in Open(P)
  BY DEF Inv, Waits
<1>20. \A k, i, z : InFrame(S, k, i, z) => z \in Open(P) /\ S[k].self \in DOMAIN P
  BY FrameKnown
<1>21. Once(Q, T)
  BY <1>9, <1>12, <1>17 DEF Inv, Once
<1>22. Waits(Q, T, {})
  BY <1>4, <1>9, <1>12, <1>13 DEF Inv, Waits
<1>23. Found(Q, T, {})
  <2>1. InFrame(T, n, 1, q)
    BY <1>9
  <2> QED
    BY <1>9, <1>12, <1>13, <2>1 DEF Inv, Found
<1>24. \A x \in DOMAIN P : P[x].state = REJECTED => Q[x].state = REJECTED
  BY <1>3, <1>6
<1>25. Ran(Q, T)
  <2>1. \A x, i, z : InList(Q, x, i, z) => Q[z].ran.fulfilled = 0 /\ Q[z].ran.rejected = 0
    BY <1>6, <1>12, <1>18, <1>19 DEF Ran, Inv
  <2>2. ASSUME NEW k, NEW i, NEW z, InFrame(S, k, i, z)
        PROVE  /\ T[k].op = "finale" => Fresh(Q, T[k].self, z)
               /\ T[k].op = "call" => Q[z].ran.rejected = 0 \/ Q[T[k].self].state = REJECTED
    BY <1>6, <1>9, <1>18, <1>20, <1>24, <2>2 DEF Ran, Inv, Fresh
  <2>3. Fresh(Q, T[n].self, q) /\ T[n].op = "finale"
    BY <1>3, <1>4, <1>6, <1>8, <1>9 DEF Fresh
  <2>4. \A k, i, z : InFrame(T, k, i, z) => InFrame(S, k, i, z) \/ (k = n /\ z = q)
    BY <1>9
  <2> QED
    BY <2>1, <2>2, <2>3, <2>4 DEF Ran
<1>26. Led(Q, T)
  <2>1. \A x, i, z : InList(Q, x, i, z) => Target(Q, Q[z].parent) = x
    BY <1>6, <1>12, <1>16, <1>18, <1>19 DEF Led, Inv
  <2>2. ASSUME NEW k, NEW i, NEW z, InFrame(S, k, i, z), S[k].op = "finale"
        PROVE  LeadsTo(Q, S[k].self, z)
    <3>1. /\ LeadsTo(P, S[k].self, z) /\ S[k].self \in DOMAIN P
          /\ z \in DOMAIN P /\ P[z].parent \in DOMAIN P
      BY <1>18, <1>20, <2>2 DEF Inv, Led
    <3>2. \A x \in DOMAIN P : P[x].state = RESOLVING => Q[x].state = RESOLVING
      BY <1>2, <1>6
    <3> QED
      BY <1>6, <1>16, <1>24, <3>1, <3>2 DEF LeadsTo
  <2>3. LeadsTo(Q, T[n].self, q)
    BY <1>3, <1>8, <1>9 DEF LeadsTo
  <2>4. \A k, i, z : InFrame(T, k, i, z) =>
            (InFrame(S, k, i, z) /\ T[k] = S[k]) \/ (k = n /\ z = q)
    BY <1>9
  <2> QED
    BY <2>1, <2>2, <2>3, <2>4 DEF Led
<1>27. Inv(Q, T, {})
  BY <1>10, <1>11, <1>21, <1>22, <1>23, <1>25, <1>26 DEF Inv
<1> QED
  BY <1>6, <1>7, <1>27 DEF e

-----------------------------------------------------------------------------
(* The steps *)

(* A frame without a handler goes, *)
LEMMA PopEmptyKeeps ==
    ASSUME NEW P, NEW S, NEW H, Inv(P, S, H), S # <<>>,
           \/ Last(S).op = "clean"
           \/ Last(S).op = "finale" /\ Last(S).todo = <<>>
    PROVE  Inv(P, Front(S), H) /\ Last(S).self \in DOMAIN P
<1>1. Promises(P) /\ Frames(P, S) /\ S \in Seq(Frame)
  BY DEF Inv, Frames
<1>2. /\ Front(S) \in Seq(Frame) /\ Len(S) \in Nat \ {0} /\ Last(S) = S[Len(S)]
  BY <1>1, Popped
<1>3. /\ \A k, i, q : InFrame(Front(S), k, i, q) <=> InFrame(S, k, i, q) /\ k # Len(S)
      /\ \A k, i, q : InFrame(S, k, i, q) /\ k # Len(S) => Front(S)[k] = S[k]
      /\ \A k \in 1 .. Len(Front(S)) : k \in 1 .. Len(S) /\ Front(S)[k] = S[k]
  BY <1>1, PopPlaces
<1>4. \A i, q : ~InFrame(S, Len(S), i, q)
  BY <1>2 DEF InFrame
<1>5. /\ \A k, i, q : InFrame(Front(S), k, i, q) <=> InFrame(S, k, i, q)
      /\ \A k, i, q : InFrame(S, k, i, q) =>
             Front(S)[k].op = S[k].op /\ Front(S)[k].self = S[k].self
  BY <1>3, <1>4
<1>6. Frames(P, Front(S))
  BY <1>1, <1>2, <1>3 DEF Frames
<1>7. Inv(P, Front(S), H)
  BY <1>1, <1>5, <1>6, SamePlaces
<1>8. Last(S).self \in DOMAIN P
  BY <1>1, <1>2 DEF Frames
<1> QED
  BY <1>7, <1>8

(* or comes. *)
LEMMA PushCleanKeeps ==
    ASSUME NEW P, NEW S, NEW H, Inv(P, S, H), NEW p, p \in DOMAIN P
    PROVE  Inv(P, Append(S, Clean(p)), H)
<1> DEFINE fr == Clean(p)
           T == Append(S, fr)
           n == Len(S) + 1
<1>1. Promises(P) /\ Frames(P, S) /\ S \in Seq(Frame) /\ p \in Nat
  BY PromisesClosed DEF Inv, Frames
<1>2. fr \in Frame /\ fr.op = "clean" /\ fr.self = p
  BY <1>1 DEF Frame, Clean
<1> HIDE DEF fr
<1>3. T \in Seq(Frame)
  BY <1>1, <1>2, Pushed
<1>4. /\ \A k, i, z : InFrame(T, k, i, z) /\ k # n <=> InFrame(S, k, i, z)
      /\ \A i, z : InFrame(T, n, i, z) <=>
             \/ fr.op = "finale" /\ i \in DOMAIN fr.todo /\ fr.todo[i] = z
             \/ fr.op = "call" /\ i = 1 /\ fr.of = z
      /\ \A k, i, z : InFrame(S, k, i, z) => T[k] = S[k]
      /\ \A k \in 1 .. Len(T) : \/ k \in 1 .. Len(S) /\ T[k] = S[k]
                                \/ k = n /\ T[k] = fr
  BY <1>1, <1>2, PushPlaces
<1> HIDE DEF T, n
<1>5. /\ \A k, i, z : InFrame(T, k, i, z) <=> InFrame(S, k, i, z)
      /\ \A k, i, z : InFrame(S, k, i, z) => T[k].op = S[k].op /\ T[k].self = S[k].self
  BY <1>2, <1>4
<1>6. Frames(P, T)
  <2> SUFFICES ASSUME NEW k \in 1 .. Len(T)
               PROVE  /\ T[k].self \in DOMAIN P
                      /\ T[k].op \in {"finale", "call"} => P[T[k].self].state # PENDING
                      /\ T[k].op = "call" => P[T[k].self].state # RESOLVING
    BY <1>3 DEF Frames
  <2>1. CASE k \in 1 .. Len(S) /\ T[k] = S[k]
    BY <1>1, <2>1 DEF Frames
  <2>2. CASE T[k] = fr
    BY <1>2, <2>2
  <2> QED
    BY <1>4, <2>1, <2>2
<1>7. Inv(P, T, H)
  BY <1>1, <1>5, <1>6, SamePlaces
<1> QED
  BY <1>7 DEF T, fr

(* The flag changes, or the list of a promise that is settled. *)
LEMMA MarkKeeps ==
    ASSUME NEW P, NEW S, NEW H, Inv(P, S, H), NEW p, p \in DOMAIN P,
           NEW Q, SameBut(P, Q, p), SameState(P, Q, p), SameRan(P, Q, p),
           P[p].state = PENDING => SameList(P, Q, p),
           Q[p].done = "no" => P[p].done = "no"
    PROVE  Inv(Q, S, H) /\ Kept(P, Q)
<1>1. Promises(P) /\ Frames(P, S)
  BY DEF Inv
<1>2. /\ DOMAIN Q = DOMAIN P /\ Len(Q) = Len(P) /\ Q \in Seq(Prom)
      /\ \A x \in DOMAIN P : /\ Q[x].state = P[x].state /\ Q[x].value = P[x].value
                             /\ Q[x].from = P[x].from /\ Q[x].parent = P[x].parent
                             /\ Q[x].ran = P[x].ran
                             /\ P[x].state = PENDING => Q[x].deferreds = P[x].deferreds
                             /\ P[x].state = PENDING => Q[x].dstate = P[x].dstate
                             /\ Q[x].done = "no" => P[x].done = "no"
  BY DEF SameBut, SameState, SameRan, SameList
<1>3. Promises(Q)
  BY <1>1, <1>2 DEF Promises
<1>4. Frames(Q, S)
  BY <1>1, <1>2 DEF Frames
<1>5. Inv(Q, S, H)
  BY <1>2, <1>3, <1>4, SamePlaces
<1>6. Kept(P, Q)
  BY <1>2 DEF Kept
<1> QED
  BY <1>5, <1>6

LEMMA KeptTransitive ==
    ASSUME NEW P, NEW Q, NEW R, Kept(P, Q), Kept(Q, R)
    PROVE  Kept(P, R)
BY DEF Kept

(* What holds of the states until something has happened that the code has  *)
(* no answer to.                                                           *)
Sound == held \subseteq DOMAIN pr /\ Inv(pr, stack, {})

(* What a step that ends well keeps. *)
StepKeeps == held' \subseteq DOMAIN pr' /\ Inv(pr', stack', {}) /\ Kept(pr, pr')

LEMMA HeldKept ==
    ASSUME NEW P, NEW Q, Kept(P, Q), NEW h, h \subseteq DOMAIN P
    PROVE  h \subseteq DOMAIN Q
BY DEF Kept

(* Those that are created have no number yet. *)
LEMMA CreateKept ==
    ASSUME NEW P, P \in Seq(Prom), NEW r, r \in Prom
    PROVE  Kept(P, Append(P, r))
<1> DEFINE Q == Append(P, r)
<1>1. DOMAIN P \subseteq DOMAIN Q /\ \A x \in DOMAIN P : Q[x] = P[x]
  BY CreatedFields
<1> HIDE DEF Q
<1>2. Kept(P, Q)
  BY <1>1 DEF Kept
<1> QED
  BY <1>2 DEF Q

LEMMA NewPromiseKeeps ==
    ASSUME Sound, damage = "none", NEW from \in {"timer", "fn"}, lua_new_promise(from)
    PROVE  StepKeeps
<1> DEFINE r == NewPromise(from, Plain, <<"nil", "nil">>)
<1>1. held \subseteq DOMAIN pr /\ Inv(pr, stack, {}) /\ pr \in Seq(Prom)
  BY DEF Sound, Inv, Promises
<1>2. /\ r \in Prom /\ r.state = PENDING /\ r.value = 0 /\ r.dstate = 0
      /\ r.deferreds = <<>> /\ r.from = from
      /\ r.ran.fulfilled = 0 /\ r.ran.rejected = 0
  <2>1. Plain \in Nat /\ <<"nil", "nil">> \in {"fn", "nil"} \X {"fn", "nil"}
    BY DEF Plain
  <2>2. from \in {"timer", "fn", "next"}
    OBVIOUS
  <2> HIDE DEF r
  <2> QED
    BY <2>1, <2>2, NewRecord DEF r
<1>3. pr' = Append(pr, r) /\ stack' = stack /\ held' = held \cup {Len(pr) + 1} /\ Len(pr) < NP
  BY DEF lua_new_promise, MoreRoots
<1> HIDE DEF r
<1>4. r.from # "next"
  BY <1>2
<1>5. Inv(pr', stack', {})
  BY <1>1, <1>2, <1>3, <1>4, CreateKeeps
<1>6. Kept(pr, pr')
  BY <1>1, <1>2, <1>3, CreateKept
<1>7. DOMAIN pr' = DOMAIN pr \cup {Len(pr) + 1}
  BY <1>1, <1>2, <1>3, CreatedFields
<1> QED
  BY <1>1, <1>3, <1>5, <1>6, <1>7 DEF StepKeeps

LEMMA ExecutorThrowsKeeps ==
    ASSUME Sound, damage = "none", ExecutorThrows
    PROVE  StepKeeps
<1> DEFINE o == NewPromise("fn", Plain, <<"nil", "nil">>)
           r == [o EXCEPT !.done = "yes"]
<1>1. held \subseteq DOMAIN pr /\ Inv(pr, stack, {}) /\ pr \in Seq(Prom)
  BY DEF Sound, Inv, Promises
<1>2. /\ r \in Prom /\ r.state = PENDING /\ r.value = 0 /\ r.dstate = 0
      /\ r.deferreds = <<>> /\ r.from = "fn"
      /\ r.ran.fulfilled = 0 /\ r.ran.rejected = 0
  <2>1. Plain \in Nat /\ <<"nil", "nil">> \in {"fn", "nil"} \X {"fn", "nil"}
    BY DEF Plain
  <2>2. /\ o \in Prom /\ o.state = PENDING /\ o.value = 0 /\ o.dstate = 0
        /\ o.deferreds = <<>> /\ o.from = "fn"
        /\ o.ran.fulfilled = 0 /\ o.ran.rejected = 0
    BY <2>1, NewRecord
  <2> HIDE DEF o
  <2> QED
    BY <2>2, DoneRecord
<1>3. /\ pr' = Append(pr, r) /\ stack' = stack /\ Len(pr) < NP
      /\ held' \subseteq held \cup {Len(pr) + 1}
  BY DEF ExecutorThrows, MoreRoots
<1> HIDE DEF r, o
<1>4. r.from # "next"
  BY <1>2
<1>5. Inv(pr', stack', {})
  BY <1>1, <1>2, <1>3, <1>4, CreateKeeps
<1>6. Kept(pr, pr')
  BY <1>1, <1>2, <1>3, CreateKept
<1>7. DOMAIN pr' = DOMAIN pr \cup {Len(pr) + 1}
  BY <1>1, <1>2, <1>3, CreatedFields
<1> QED
  BY <1>1, <1>3, <1>5, <1>6, <1>7 DEF StepKeeps

LEMMA NextKeeps ==
    ASSUME Sound, damage = "none", damage' = "none",
           NEW p \in Created, NEW h \in Handlers, thennext(p, h)
    PROVE  StepKeeps
<1> DEFINE q == Len(pr) + 1
           r == NewPromise("next", p, h)
           P == Append(pr, r)
           e == handle(P, stack, p, q)
<1>1. /\ held \subseteq DOMAIN pr /\ Inv(pr, stack, {}) /\ Promises(pr) /\ pr \in Seq(Prom)
      /\ p \in DOMAIN pr /\ p \in Nat /\ Len(pr) \in Nat
  BY PromisesClosed DEF Sound, Inv, Promises, Created
<1>2. /\ r \in Prom /\ r.state = PENDING /\ r.value = 0 /\ r.dstate = 0
      /\ r.deferreds = <<>> /\ r.from = "next" /\ r.parent = p
      /\ r.ran.fulfilled = 0 /\ r.ran.rejected = 0
  <2>1. h \in {"fn", "nil"} \X {"fn", "nil"}
    BY PromiseAssumption
  <2>2. "next" \in {"timer", "fn", "next"}
    OBVIOUS
  <2> HIDE DEF r
  <2> QED
    BY <1>1, <2>1, <2>2, NewRecord DEF r
<1>3. /\ pr' = e.pr /\ stack' = e.stack /\ e.damage = "none" /\ q <= NP
      /\ held' \subseteq held \cup {q}
  BY DEF thennext, Becomes
<1> HIDE DEF r
<1>4. Len(pr) < NP
  BY <1>1, <1>3, PromiseAssumption
<1>5. Inv(P, stack, {q})
  BY <1>1, <1>2, <1>4, CreateKeeps
<1>6. /\ DOMAIN P = DOMAIN pr \cup {q} /\ P[q] = r
      /\ \A x \in DOMAIN pr : P[x] = pr[x]
  BY <1>1, <1>2, CreatedFields
<1>7. Kept(pr, P)
  BY <1>1, <1>2, CreateKept
<1>8. p \in DOMAIN P /\ Fresh(P, p, q) /\ LeadsTo(P, p, q)
  BY <1>1, <1>2, <1>6 DEF Fresh, LeadsTo
<1> HIDE DEF P, q
<1>9. Inv(e.pr, e.stack, {}) /\ Kept(P, e.pr)
  BY <1>3, <1>5, <1>8, HandleKeeps
<1> HIDE DEF e
<1>10. Kept(pr, pr')
  BY <1>3, <1>7, <1>9, KeptTransitive
<1>11. held' \subseteq DOMAIN pr'
  BY <1>1, <1>3, <1>6, <1>9 DEF Kept
<1> QED
  BY <1>3, <1>9, <1>10, <1>11 DEF StepKeeps

(* resolve and reject are called. *)
Flagged(P, p, d) == [P EXCEPT ![p].done = d]

(* All but the flag. *)
SameRest(o, r) ==
    /\ r \in Prom /\ r.state = o.state /\ r.value = o.value
    /\ r.dstate = o.dstate /\ r.deferreds = o.deferreds
    /\ r.from = o.from /\ r.parent = o.parent /\ r.f = o.f /\ r.r = o.r /\ r.ran = o.ran

LEMMA RestSame ==
    ASSUME NEW P \in Seq(Prom), NEW p \in DOMAIN P, NEW r, SameRest(P[p], r),
           NEW Q, Q = [P EXCEPT ![p] = r]
    PROVE  /\ SameBut(P, Q, p) /\ SameState(P, Q, p) /\ SameList(P, Q, p) /\ SameRan(P, Q, p)
           /\ Q[p] = r
<1>1. r \in Prom
  BY DEF SameRest
<1>2. /\ Q \in Seq(Prom) /\ Len(Q) = Len(P) /\ DOMAIN Q = DOMAIN P
      /\ \A x \in DOMAIN P : x # p => Q[x] = P[x]
      /\ Q[p] = r
  BY <1>1, Changed
<1> QED
  BY <1>2 DEF SameRest, SameBut, SameState, SameList, SameRan

LEMMA FlaggedFields ==
    ASSUME NEW P \in Seq(Prom), NEW p \in DOMAIN P, NEW d \in {"yes", "freed"},
           NEW Q, Q = Flagged(P, p, d)
    PROVE  /\ SameBut(P, Q, p) /\ SameState(P, Q, p) /\ SameList(P, Q, p) /\ SameRan(P, Q, p)
           /\ Q[p].done = d
<1> DEFINE o == P[p]
           r == [o EXCEPT !.done = d]
<1>1. o \in Prom
  BY PromAt
<1>2. Q = [P EXCEPT ![p] = r]
  BY DEF Flagged
<1>3. SameRest(o, r) /\ r.done = d
  <2> HIDE DEF o
  <2> QED
    BY <1>1 DEF Prom, SameRest
<1> HIDE DEF r
<1> QED
  BY <1>2, <1>3, RestSame

LEMMA FlagKeeps ==
    ASSUME NEW P, NEW S, NEW H, Inv(P, S, H), NEW p, p \in DOMAIN P,
           NEW d \in {"yes", "freed"}, NEW Q, Q = Flagged(P, p, d)
    PROVE  /\ Inv(Q, S, H) /\ Kept(P, Q) /\ DOMAIN Q = DOMAIN P
           /\ Q[p].state = P[p].state /\ Q[p].from = P[p].from /\ Q[p].done = d
<1>1. P \in Seq(Prom)
  BY DEF Inv, Promises
<1>2. /\ SameBut(P, Q, p) /\ SameState(P, Q, p) /\ SameList(P, Q, p) /\ SameRan(P, Q, p)
      /\ Q[p].done = d
  BY <1>1, FlaggedFields
<1>3. Inv(Q, S, H) /\ Kept(P, Q)
  BY <1>2, MarkKeeps
<1> QED
  BY <1>2, <1>3 DEF SameBut, SameState

(* resolve is called for the first time, again, or when done is set. *)
LEMMA MyResolveKeeps ==
    ASSUME Sound, damage = "none", damage' = "none", held' = held,
           NEW p \in Created, pr[p].from # "next", NEW v \in Values(p), my_resolve(p, v)
    PROVE  StepKeeps
<1> DEFINE Q == Flagged(pr, p, "yes")
           F == Flagged(pr, p, "freed")
           S == Append(stack, Clean(p))
           e == resolve(Q, S, p, v)
<1>1. /\ held \subseteq DOMAIN pr /\ Inv(pr, stack, {}) /\ Promises(pr) /\ pr \in Seq(Prom)
      /\ p \in DOMAIN pr /\ v \in DOMAIN pr \cup {Plain} /\ pr[p] \in Prom
  BY PromisesClosed DEF Sound, Inv, Promises, Created, Values
<1>2. pr[p].done \in {"no", "yes", "freed"}
  BY <1>1 DEF Prom
<1>3. /\ pr[p].done # "freed"
      /\ pr[p].done = "yes" => pr' = F /\ stack' = stack
      /\ pr[p].done = "no" => pr' = e.pr /\ stack' = e.stack /\ e.damage = "none"
  BY <1>2, Zenon DEF my_resolve, Becomes, Flagged
<1>4. Inv(F, stack, {}) /\ Kept(pr, F)
  BY <1>1, FlagKeeps
<1>5. /\ Inv(Q, stack, {}) /\ Kept(pr, Q) /\ DOMAIN Q = DOMAIN pr
      /\ Q[p].state = pr[p].state /\ Q[p].from = pr[p].from /\ Q[p].done = "yes"
  BY <1>1, FlagKeeps
<1> HIDE DEF Q, F
<1>6. CASE pr[p].done = "yes"
  BY <1>1, <1>3, <1>4, <1>6, HeldKept DEF StepKeeps
<1>7. CASE pr[p].done = "no"
  <2>1. pr[p].state = PENDING
    BY <1>1, <1>7 DEF Promises
  <2>2. Inv(Q, S, {})
    BY <1>1, <1>5, PushCleanKeeps
  <2> HIDE DEF S
  <2>3. p \in DOMAIN Q /\ v \in DOMAIN Q \cup {Plain} /\ e.damage = "none"
    BY <1>1, <1>3, <1>5, <1>7
  <2>4. Q[p].state = PENDING /\ Q[p].from # "next" /\ Q[p].done # "no"
    BY <1>5, <2>1
  <2>5. Inv(e.pr, e.stack, {}) /\ Kept(Q, e.pr)
    BY <2>2, <2>3, <2>4, ResolveKeeps
  <2> HIDE DEF e
  <2>6. Kept(pr, e.pr)
    BY <1>5, <2>5, KeptTransitive
  <2> QED
    BY <1>1, <1>3, <1>7, <2>5, <2>6, HeldKept DEF StepKeeps
<1> QED
  BY <1>2, <1>3, <1>6, <1>7

LEMMA MyRejectKeeps ==
    ASSUME Sound, damage = "none", damage' = "none", held' = held,
           NEW p \in Created, pr[p].from # "next", my_reject(p)
    PROVE  StepKeeps
<1> DEFINE Q == Flagged(pr, p, "yes")
           e == reject(Q, stack, p)
<1>1. /\ held \subseteq DOMAIN pr /\ Inv(pr, stack, {}) /\ Promises(pr) /\ pr \in Seq(Prom)
      /\ p \in DOMAIN pr /\ pr[p] \in Prom
  BY PromisesClosed DEF Sound, Inv, Promises, Created
<1>2. pr[p].done \in {"no", "yes", "freed"}
  BY <1>1 DEF Prom
<1>3. /\ pr[p].done # "freed"
      /\ pr[p].done = "yes" => pr' = pr /\ stack' = stack
      /\ pr[p].done = "no" => pr' = e.pr /\ stack' = e.stack /\ e.damage = "none"
  BY <1>2, Zenon DEF my_reject, Becomes, Flagged
<1>4. /\ Inv(Q, stack, {}) /\ Kept(pr, Q) /\ DOMAIN Q = DOMAIN pr
      /\ Q[p].state = pr[p].state /\ Q[p].from = pr[p].from /\ Q[p].done = "yes"
  BY <1>1, FlagKeeps
<1> HIDE DEF Q
<1>5. CASE pr[p].done = "yes"
  BY <1>1, <1>3, <1>5 DEF StepKeeps, Kept
<1>6. CASE pr[p].done = "no"
  <2>1. pr[p].state = PENDING
    BY <1>1, <1>6 DEF Promises
  <2>2. p \in DOMAIN Q /\ e.damage = "none"
    BY <1>1, <1>3, <1>4, <1>6
  <2>3. Q[p].state = PENDING /\ Q[p].from # "next" /\ Q[p].done # "no"
    BY <1>4, <2>1
  <2>4. Inv(e.pr, e.stack, {}) /\ Kept(Q, e.pr)
    BY <1>4, <2>2, <2>3, RejectKeeps
  <2> HIDE DEF e
  <2>5. Kept(pr, e.pr)
    BY <1>4, <2>4, KeptTransitive
  <2> QED
    BY <1>1, <1>3, <1>6, <2>4, <2>5, HeldKept DEF StepKeeps
<1> QED
  BY <1>2, <1>3, <1>5, <1>6

LEMMA ReturnKeeps ==
    ASSUME Sound, damage = "none", damage' = "none",
           NEW v \in {Plain} \cup held, Return(v)
    PROVE  StepKeeps
<1> DEFINE q == Top.of
           S == Front(stack)
           e == resolve(pr, S, q, v)
<1>1. /\ held \subseteq DOMAIN pr /\ Inv(pr, stack, {})
      /\ stack # <<>> /\ Last(stack).op = "call"
      /\ v \in DOMAIN pr \cup {Plain}
  BY DEF Sound, Return, TopIs, Top
<1>2. pr' = e.pr /\ stack' = e.stack /\ e.damage = "none" /\ held' = held
  BY DEF Return, Becomes
<1>3. Inv(pr, S, {q}) /\ q \in DOMAIN pr
  BY <1>1, PopCallKeeps DEF Top
<1> HIDE DEF S, q
<1>4. pr[q].state = PENDING
  BY <1>3 DEF Inv, Waits, Open
<1>5. Inv(e.pr, e.stack, {}) /\ Kept(pr, e.pr)
  BY <1>1, <1>2, <1>3, <1>4, ResolveKeeps
<1> HIDE DEF e
<1> QED
  BY <1>1, <1>2, <1>5, HeldKept DEF StepKeeps

(* error_handle changes the promise that the callback was called for, and   *)
(* only that.                                                              *)
LEMMA ErrorHandleEffect ==
    ASSUME error_handle
    PROVE  LET e == reject(pr, Front(stack), Top.self)
           IN  pr' = e.pr /\ stack' = e.stack /\ held' = held
<1> DEFINE e == reject(pr, Front(stack), Top.self)
           E == [e EXCEPT !.damage = IF @ = "error" THEN "none" ELSE @]
<1>1. pr' = E.pr /\ stack' = E.stack /\ held' = held
  BY DEF error_handle, Becomes
<1>2. DOMAIN e = {"pr", "stack", "damage"}
  BY DEF reject, finale, Effect
<1> HIDE DEF e
<1>3. E.pr = e.pr /\ E.stack = e.stack
  BY <1>2
<1> HIDE DEF E
<1>4. pr' = e.pr /\ stack' = e.stack /\ held' = held
  BY <1>1, <1>3
<1> QED
  BY <1>4 DEF e

LEMMA ErrorHandleChanges ==
    ASSUME Sound, error_handle
    PROVE  \A x \in DOMAIN pr : x # Top.self => pr'[x] = pr[x]
<1> DEFINE Q == [pr EXCEPT ![Top.self].state = REJECTED, ![Top.self].value = Plain]
<1>1. pr' = Q
  <2>1. pr' = reject(pr, Front(stack), Top.self).pr
    BY ErrorHandleEffect
  <2>2. \A S, p : finale(Q, S, p).pr = Q
    BY DEF finale, Effect
  <2> QED
    BY <2>1, <2>2 DEF reject
<1> QED
  BY <1>1

(* When the throw is answered, the callback that is called next was not      *)
(* called before.                                                          *)
LEMMA ErrorHandleKeeps ==
    ASSUME Sound, error_handle, Answered(Top)
    PROVE  held' \subseteq DOMAIN pr' /\ Inv(pr', stack', {})
<1> DEFINE c == Last(stack)
           S == Front(stack)
           e == reject(pr, S, c.self)
<1>1. /\ held \subseteq DOMAIN pr /\ Inv(pr, stack, {}) /\ stack # <<>> /\ c.op = "call"
  BY DEF Sound, error_handle, TopIs, Top
<1>2. Answered(c) /\ pr' = e.pr /\ stack' = e.stack /\ held' = held
  BY ErrorHandleEffect DEF Top
<1>3. /\ Inv(pr, S, {c.of}) /\ c.self \in DOMAIN pr
      /\ pr[c.of].ran.rejected = 0 \/ pr[c.self].state = REJECTED
  BY <1>1, PopCallKeeps
<1>4. /\ pr[c.self].state = RESOLVED /\ pr[c.self].dstate = 1
      /\ pr[c.self].deferreds = <<c.of>> /\ pr[c.of].ran.rejected = 0
  BY <1>2, <1>3 DEF Answered, RESOLVED, REJECTED
<1> HIDE DEF S
<1>5. Inv(e.pr, e.stack, {}) /\ DOMAIN e.pr = DOMAIN pr
  BY <1>3, <1>4, AnswerKeeps
<1> HIDE DEF e
<1> QED
  BY <1>1, <1>2, <1>5

LEMMA GiveBackKeeps ==
    ASSUME Sound, damage = "none", damage' = "none", GiveBack
    PROVE  StepKeeps
<1> DEFINE p == Last(stack).self
           S == Front(stack)
<1>1. /\ held \subseteq DOMAIN pr /\ Inv(pr, stack, {})
      /\ stack # <<>> /\ Last(stack).op = "clean"
  BY DEF Sound, GiveBack, TopIs, Top
<1>2. pr' = Flagged(pr, p, "freed") /\ stack' = S /\ held' = held
  BY DEF GiveBack, Top, Flagged
<1>3. Inv(pr, S, {}) /\ p \in DOMAIN pr
  BY <1>1, PopEmptyKeeps
<1> HIDE DEF S, p
<1>4. Inv(pr', S, {}) /\ Kept(pr, pr')
  BY <1>2, <1>3, FlagKeeps
<1> QED
  BY <1>1, <1>2, <1>4, HeldKept DEF StepKeeps

(* handle has an answer for every state of the promises. *)
LEMMA HandleEffect ==
    ASSUME NEW P, Promises(P), NEW S, NEW p \in DOMAIN P, NEW q \in DOMAIN P
    PROVE  DOMAIN handle(P, S, p, q) = {"pr", "stack", "damage"}
<1> DEFINE t == Target(P, p)
           D == {"pr", "stack", "damage"}
<1>1. Closed(P) /\ \A x \in DOMAIN P : P[x] \in Prom
  BY PromisesClosed
<1>2. t \in DOMAIN P
  BY <1>1, TargetIn
<1>3. /\ P[t].state \in States /\ P[q].f \in {"fn", "nil"} /\ P[q].r \in {"fn", "nil"}
  BY <1>1, <1>2 DEF Prom
<1>4. \A R, T : DOMAIN Effect(R, T) = D
  BY DEF Effect
<1>5. \A R, T, x : DOMAIN [Effect(R, T) EXCEPT !.damage = x] = D
  BY DEF Effect
<1>6. \A R, T, x : DOMAIN finale(R, T, x) = D
  BY <1>4, <1>5 DEF finale
<1>7. \A x, v : DOMAIN resolve(P, S, x, v) = D /\ DOMAIN reject(P, S, x) = D
  BY <1>6 DEF resolve, reject
<1>8. P[t].state \in {RESOLVED, REJECTED} => DOMAIN handleResolved(P, S, t, q) = D
  BY <1>3, <1>4, <1>7 DEF handleResolved, RESOLVED, REJECTED
<1>9. P[t].state \notin {RESOLVING, PENDING} => P[t].state \in {RESOLVED, REJECTED}
  BY <1>3 DEF States
<1> HIDE DEF D
<1>10. DOMAIN handle(P, S, p, q) = D
  BY <1>4, <1>5, <1>8, <1>9 DEF handle, PENDING, RESOLVING
<1> QED
  BY <1>10 DEF D

LEMMA FinaleStepKeeps ==
    ASSUME Sound, damage = "none", damage' = "none", FinaleStep
    PROVE  StepKeeps
<1> DEFINE p == Last(stack).self
           q == Head(Last(stack).todo)
           S == [stack EXCEPT ![Len(stack)].todo = Tail(@)]
           e == handle(pr, S, p, q)
           b == Last(stack).list /\ LeavesOne(pr, p)
           E == [e EXCEPT !.damage = IF b THEN "error" ELSE @]
<1>1. /\ held \subseteq DOMAIN pr /\ Inv(pr, stack, {})
      /\ stack # <<>> /\ Last(stack).op = "finale" /\ Last(stack).todo # <<>>
  BY DEF Sound, FinaleStep, TopIs, Top
<1>2. pr' = E.pr /\ stack' = E.stack /\ E.damage = "none" /\ held' = held
  BY Zenon DEF FinaleStep, Becomes, Top
<1>3. /\ Inv(pr, S, {q}) /\ p \in DOMAIN pr
      /\ Fresh(pr, p, q) /\ LeadsTo(pr, p, q)
  BY <1>1, TakeKeeps
<1> HIDE DEF S, p, q, b
<1>4. DOMAIN e = {"pr", "stack", "damage"}
  <2>1. Promises(pr) /\ q \in DOMAIN pr
    BY <1>3 DEF Inv, Waits, Open
  <2> QED
    BY <1>3, <2>1, HandleEffect
<1>5. E.pr = e.pr /\ E.stack = e.stack /\ E.damage = IF b THEN "error" ELSE e.damage
  <2> HIDE DEF e
  <2> QED
    BY <1>4
<1> HIDE DEF E
<1>6. e.damage = "none" /\ pr' = e.pr /\ stack' = e.stack
  BY <1>2, <1>5
<1>7. Inv(e.pr, e.stack, {}) /\ Kept(pr, e.pr)
  BY <1>3, <1>6, HandleKeeps
<1> HIDE DEF e
<1> QED
  BY <1>1, <1>2, <1>6, <1>7, HeldKept DEF StepKeeps

LEMMA FinaleEndsKeeps ==
    ASSUME Sound, damage = "none", damage' = "none", FinaleEnds
    PROVE  StepKeeps
<1> DEFINE c == Last(stack)
           p == c.self
           S == Front(stack)
<1>1. /\ held \subseteq DOMAIN pr /\ Inv(pr, stack, {})
      /\ stack # <<>> /\ c.op = "finale" /\ c.todo = <<>>
  BY DEF Sound, FinaleEnds, TopIs, Top
<1>2. /\ pr' = IF c.list THEN pr ELSE [pr EXCEPT ![p].deferreds = <<>>]
      /\ stack' = S /\ held' = held
  BY DEF FinaleEnds, Top
<1>3. Inv(pr, S, {}) /\ p \in DOMAIN pr
  BY <1>1, PopEmptyKeeps
<1>4. pr[p].state # PENDING
  <2>1. Frames(pr, stack) /\ stack \in Seq(Frame)
    BY <1>1 DEF Inv, Frames
  <2>2. Len(stack) \in Nat \ {0} /\ c = stack[Len(stack)]
    BY <1>1, <2>1, Popped
  <2>3. Len(stack) \in 1 .. Len(stack)
    BY <2>2
  <2> QED
    BY <1>1, <2>1, <2>2, <2>3 DEF Frames
<1> HIDE DEF S, p
<1>5. CASE c.list
  BY <1>1, <1>2, <1>3, <1>5 DEF StepKeeps, Kept
<1>6. CASE ~c.list
  <2> DEFINE Q == [pr EXCEPT ![p].deferreds = <<>>]
  <2>1. pr' = Q /\ pr \in Seq(Prom)
    BY <1>2, <1>3, <1>6 DEF Inv, Promises
  <2> HIDE DEF Q
  <2>2. /\ SameBut(pr, Q, p) /\ SameState(pr, Q, p) /\ SameDone(pr, Q, p) /\ SameRan(pr, Q, p)
    BY <1>3, <2>1, ForgottenFields DEF Q
  <2>3. Inv(Q, S, {}) /\ Kept(pr, Q)
    BY <1>3, <1>4, <2>2, MarkKeeps DEF SameDone
  <2> QED
    BY <1>1, <1>2, <2>1, <2>3, HeldKept DEF StepKeeps
<1> QED
  BY <1>5, <1>6

-----------------------------------------------------------------------------
(* The theorems *)

(* Up to the first throw that is not answered. *)
StateInv ==
    /\ \E D : lost \in Seq(D)
    /\ damage = "none" /\ lost = <<>> => Sound

LEMMA InitStateInv == Init => StateInv
<1> SUFFICES ASSUME Init
             PROVE  Inv(pr, stack, {})
  <2>1. Init => lost = <<>> /\ held = {} /\ <<>> \in Seq({})
    BY EmptySeq DEF Init
  <2> QED
    BY <2>1 DEF StateInv, Sound
<1>1. pr = <<>> /\ stack = <<>> /\ held = {}
  BY DEF Init
<1>2. pr \in Seq(Prom) /\ Len(pr) = 0 /\ DOMAIN pr = {}
  BY <1>1, EmptySeq
<1>3. stack \in Seq(Frame) /\ Len(stack) = 0
  BY <1>1, EmptySeq
<1>4. \A x, i, q : ~InList(pr, x, i, q)
  BY <1>2 DEF InList
<1>5. \A k, i, q : ~InFrame(stack, k, i, q)
  <2>1. ~ \E k : k \in 1 .. Len(stack)
    BY <1>3
  <2> QED
    BY <2>1 DEF InFrame
<1>6. Promises(pr)
  BY <1>2, PromiseAssumption DEF Promises
<1>7. Frames(pr, stack)
  BY <1>3 DEF Frames
<1>8. Open(pr) = {}
  BY <1>2 DEF Open
<1>9. Once(pr, stack) /\ Waits(pr, stack, {}) /\ Found(pr, stack, {})
  BY <1>4, <1>5, <1>8 DEF Once, Waits, Found
<1>10. Ran(pr, stack) /\ Led(pr, stack)
  BY <1>4, <1>5 DEF Ran, Led
<1> QED
  BY <1>1, <1>6, <1>7, <1>9, <1>10 DEF Inv

(* A step from a state without damage to another. *)
LEMMA NextKeepsAll ==
    ASSUME Sound, damage = "none", damage' = "none", Next
    PROVE  \/ StepKeeps
           \/ /\ error_handle
              /\ Answered(Top) => held' \subseteq DOMAIN pr' /\ Inv(pr', stack', {})
              /\ \A x \in DOMAIN pr : x # Top.self => pr'[x] = pr[x]
<1>1. CASE \E from \in {"timer", "fn"} : lua_new_promise(from)
  BY <1>1, NewPromiseKeeps
<1>2. CASE ExecutorThrows
  BY <1>2, ExecutorThrowsKeeps
<1>3. CASE \E p \in Created : \E h \in Handlers : thennext(p, h)
  BY <1>3, NextKeeps
<1>4. CASE \E p \in Created : ScriptSettles(p) \/ timeout_cb(p)
  <2>1. PICK p \in Created : ScriptSettles(p) \/ timeout_cb(p)
    BY <1>4
  <2>2. CASE ScriptSettles(p)
    <3>1. held' = held /\ pr[p].from # "next"
      BY <2>2 DEF ScriptSettles
    <3>2. (\E v \in Values(p) : my_resolve(p, v)) \/ my_reject(p)
      BY <2>2 DEF ScriptSettles
    <3> QED
      BY <3>1, <3>2, MyResolveKeeps, MyRejectKeeps
  <2>3. CASE timeout_cb(p)
    <3>1. held' = held /\ pr[p].from # "next" /\ my_resolve(p, Plain)
      BY <2>3 DEF timeout_cb
    <3>2. Plain \in Values(p)
      BY DEF Values
    <3> QED
      BY <3>1, <3>2, MyResolveKeeps
  <2> QED
    BY <2>1, <2>2, <2>3
<1>5. CASE CallbackEnds
  <2>1. CASE \E v \in {Plain} \cup held : Return(v)
    BY <2>1, ReturnKeeps
  <2>2. CASE error_handle
    BY <2>2, ErrorHandleKeeps, ErrorHandleChanges
  <2> QED
    BY <1>5, <2>1, <2>2 DEF CallbackEnds
<1>6. CASE CStep
  <2>1. CASE GiveBack
    BY <2>1, GiveBackKeeps
  <2>2. CASE FinaleStep
    BY <2>2, FinaleStepKeeps
  <2>3. CASE FinaleEnds
    BY <2>3, FinaleEndsKeeps
  <2> QED
    BY <1>6, <2>1, <2>2, <2>3 DEF CStep
<1> QED
  BY <1>1, <1>2, <1>3, <1>4, <1>5, <1>6 DEF Next

(* When damage is done no step is left. *)
LEMMA NextRuns == Next => damage = "none"
<1> SUFFICES ASSUME Next
             PROVE  Running
  BY DEF Running
<1>1. \A op : TopIs(op) => Running
  BY DEF TopIs
<1>2. Script => Running
  BY <1>1 DEF Script, Idle
<1>3. CASE (\E from \in {"timer", "fn"} : lua_new_promise(from)) \/ ExecutorThrows
  BY <1>2, <1>3 DEF lua_new_promise, ExecutorThrows
<1>4. CASE \E p \in Created : \E h \in Handlers : thennext(p, h)
  BY <1>2, <1>4 DEF thennext
<1>5. CASE \E p \in Created : ScriptSettles(p) \/ timeout_cb(p)
  BY <1>2, <1>5 DEF ScriptSettles, timeout_cb, Idle
<1>6. CASE CallbackEnds
  BY <1>1, <1>6 DEF CallbackEnds, Return, error_handle
<1>7. CASE CStep
  BY <1>1, <1>7 DEF CStep, GiveBack, FinaleStep, FinaleEnds
<1> QED
  BY <1>3, <1>4, <1>5, <1>6, <1>7 DEF Next

(* lost only grows, and by a throw that is not answered. *)
LEMMA NextLoses ==
    ASSUME Next
    PROVE  \/ lost' = lost
           \/ error_handle /\ lost' = IF Answered(Top) THEN lost ELSE Append(lost, Top.self)
<1>1. CASE (\E from \in {"timer", "fn"} : lua_new_promise(from)) \/ ExecutorThrows
  BY <1>1 DEF lua_new_promise, ExecutorThrows
<1>2. CASE \E p \in Created : \E h \in Handlers : thennext(p, h)
  BY <1>2 DEF thennext
<1>3. CASE \E p \in Created : ScriptSettles(p) \/ timeout_cb(p)
  BY <1>3 DEF ScriptSettles, timeout_cb
<1>4. CASE CallbackEnds
  BY <1>4 DEF CallbackEnds, Return, error_handle
<1>5. CASE CStep
  BY <1>5 DEF CStep, GiveBack, FinaleStep, FinaleEnds
<1> QED
  BY <1>1, <1>2, <1>3, <1>4, <1>5 DEF Next

LEMMA LostGrows ==
    ASSUME NEW D, lost \in Seq(D), Next
    PROVE  /\ \E E : lost' \in Seq(E)
           /\ lost' = <<>> => lost = <<>>
           /\ lost' = <<>> /\ error_handle => Answered(Top)
<1> DEFINE x == Top.self
           E == D \cup {x}
<1>1. lost \in Seq(E) /\ x \in E
  <2>1. \A i \in 1 .. Len(lost) : lost[i] \in E
    BY ElementOfSeq
  <2>2. lost = [i \in 1 .. Len(lost) |-> lost[i]] /\ Len(lost) \in Nat
    BY LenProperties
  <2> QED
    BY <2>1, <2>2, SeqDef
<1> HIDE DEF E, x
<1>2. Append(lost, x) \in Seq(E) /\ Append(lost, x) # <<>>
  BY <1>1, AppendProperties, EmptySeq
<1>3. error_handle => lost' = IF Answered(Top) THEN lost ELSE Append(lost, x)
  BY DEF error_handle, x
<1>4. lost' = lost \/ (error_handle /\ ~Answered(Top) /\ lost' = Append(lost, x))
  BY NextLoses DEF x
<1>5. \E B : lost' \in Seq(B)
  <2>1. lost' \in Seq(E)
    BY <1>1, <1>2, <1>4, Zenon
  <2> QED
    BY <2>1, Zenon
<1>6. lost' = <<>> => lost = <<>>
  BY <1>2, <1>4, Zenon
<1>7. lost' = <<>> /\ error_handle => Answered(Top)
  BY <1>2, <1>3, Zenon
<1> QED
  BY <1>5, <1>6, <1>7

LEMMA StepStateInv == StateInv /\ [Next]_vars => StateInv'
<1> SUFFICES ASSUME StateInv, [Next]_vars
             PROVE  StateInv'
  OBVIOUS
<1>1. CASE Next
  <2>1. PICK D : lost \in Seq(D)
    BY DEF StateInv
  <2>2. \E E : lost' \in Seq(E)
    BY <1>1, <2>1, LostGrows
  <2>3. ASSUME damage' = "none", lost' = <<>>
        PROVE  Sound'
    <3>1. lost = <<>> /\ (error_handle => Answered(Top))
      BY <1>1, <2>1, <2>3, LostGrows
    <3>2. Sound /\ damage = "none"
      BY <1>1, <3>1, NextRuns DEF StateInv
    <3> QED
      BY <1>1, <2>3, <3>1, <3>2, NextKeepsAll DEF StepKeeps, Sound
  <2> QED
    BY <2>2, <2>3 DEF StateInv
<1>2. CASE UNCHANGED vars
  BY <1>2 DEF vars, StateInv, Sound
<1> QED
  BY <1>1, <1>2

LEMMA AlwaysStateInv == Spec => []StateInv
BY InitStateInv, StepStateInv, PTL DEF Spec

(* As long as error_handle could answer every throw, no callback given to   *)
(* next is called twice by handleResolved: neither onFulfilled nor          *)
(* onRejected, whatever the callbacks before have done to the lists that    *)
(* finale was walking, and although error_handle rejects a promise that was *)
(* resolved and walks its list again.  After an onRejected has thrown, or   *)
(* one of several handlers, this is not so: see CalledOnce.                 *)
THEOREM CallbacksRunOnce == Spec => [](lost = <<>> => CalledOnce)
<1>1. StateInv => (lost = <<>> => CalledOnce)
  BY DEF StateInv, Sound, CalledOnce, Running, Created, Inv, Promises
<1> QED
  BY <1>1, AlwaysStateInv, PTL

(* When the poll loop has control, and error_handle could answer every      *)
(* throw so far, every promise that next has made and     *)
(* that is not settled waits in the _deferreds of one pending promise, once, *)
(* and this is the promise at the end of those that resolve its parent:     *)
(* handle finds it there whatever the order of next, resolve and nested     *)
(* callbacks was.                                                          *)
THEOREM NobodyLost == Spec => [](lost = <<>> => NobodyForgotten)
<1>1. ASSUME StateInv, lost = <<>>, Idle, NEW q \in Created, pr[q].from = "next", pr[q].state = PENDING
      PROVE  \E p \in Created :
                /\ pr[p].state = PENDING /\ p = Target(pr, pr[q].parent)
                /\ \A o \in Created :
                      Cardinality({i \in DOMAIN pr[o].deferreds :
                                       pr[o].deferreds[i] = q /\ pr[o].state = PENDING})
                          = IF o = p THEN 1 ELSE 0
  <2>1. Inv(pr, stack, {}) /\ stack = <<>>
    BY <1>1 DEF StateInv, Sound, Idle, Running
  <2>2. q \in Open(pr)
    BY <1>1 DEF Open, Created
  <2>3. \A k, i : ~InFrame(stack, k, i, q)
    <3>1. ~ \E k : k \in 1 .. Len(stack)
      BY <2>1, EmptySeq
    <3> QED
      BY <3>1 DEF InFrame
  <2>4. PICK p, j : InList(pr, p, j, q)
    BY <2>1, <2>2, <2>3 DEF Inv, Found
  <2>5. p \in Created /\ pr[p].state = PENDING /\ p = Target(pr, pr[q].parent)
    BY <2>1, <2>4 DEF Inv, Led, InList, Created
  <2>6. \A y, i : InList(pr, y, i, q) <=> y = p /\ i = j
    BY <2>1, <2>4 DEF Inv, Once
  <2>7. ASSUME NEW o \in Created
        PROVE  Cardinality({i \in DOMAIN pr[o].deferreds :
                                pr[o].deferreds[i] = q /\ pr[o].state = PENDING})
                   = IF o = p THEN 1 ELSE 0
    <3> DEFINE I == {i \in DOMAIN pr[o].deferreds :
                         pr[o].deferreds[i] = q /\ pr[o].state = PENDING}
    <3>1. \A i : i \in I <=> InList(pr, o, i, q)
      BY DEF InList, Created
    <3>2. I = IF o = p THEN {j} ELSE {}
      <4> HIDE DEF I
      <4> QED
        BY <2>6, <3>1
    <3> HIDE DEF I
    <3>3. Cardinality(I) = IF o = p THEN 1 ELSE 0
      BY <3>2, FS_Singleton, FS_EmptySet
    <3> QED
      BY <3>3 DEF I
  <2> QED
    BY <2>5, <2>7
<1>2. StateInv => (lost = <<>> => NobodyForgotten)
  BY <1>1 DEF NobodyForgotten
<1> QED
  BY <1>2, AlwaysStateInv, PTL

(* As long as error_handle could answer every throw, a promise that resolve *)
(* or reject has settled keeps its state and its value through every later  *)
(* step of the scripts, timers and C code, but for the one of error_handle, *)
(* which rejects the promise whose callback has thrown.  The first throw    *)
(* that is not answered changes no other promise either.                   *)
THEOREM SettledForGood ==
    Spec => [][lost = <<>> => \A p \in Created : pr[p].state # PENDING => StaysSettled(p)]_vars
<1>1. ASSUME StateInv, Next, lost = <<>>, NEW p \in Created, pr[p].state # PENDING,
             damage' = "none", ~(error_handle /\ Top.self = p)
      PROVE  pr'[p].state = pr[p].state /\ pr'[p].value = pr[p].value
  <2>1. Sound /\ damage = "none"
    BY <1>1, NextRuns DEF StateInv
  <2> QED
    BY <1>1, <2>1, NextKeepsAll DEF StepKeeps, Kept, Created
<1>2. StateInv /\ [Next]_vars =>
        [lost = <<>> => \A p \in Created : pr[p].state # PENDING => StaysSettled(p)]_vars
  BY <1>1 DEF StaysSettled
<1> QED
  BY <1>2, AlwaysStateInv, PTL DEF Spec
============================================================================
