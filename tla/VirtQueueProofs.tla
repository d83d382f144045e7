-------------------------- MODULE VirtQueueProofs --------------------------
(***************************************************************************)
(* Proofs about VirtQueue: the descriptors are shared out exactly between   *)
(* the free list and the chains of the requests, the rings hold every       *)
(* request once, and the comparison of indices modulo the size of the ring  *)
(* is never misled.                                                        *)
(*                                                                         *)
(* The lists of descriptors are walked by a recursive function, so the      *)
(* proofs need induction over the naturals.  It is stated for a set, not    *)
(* for a predicate, and follows from the fact that an injection of a        *)
(* finite set into itself is onto.                                         *)
(***************************************************************************)
EXTENDS VirtQueue, FiniteSetTheorems, FunctionTheorems, TLAPS

-----------------------------------------------------------------------------
(* Induction and arithmetic *)

(* A set with 0 and with the successor of each of its numbers has them all. *)
LEMMA SetInduction ==
    ASSUME NEW S, 0 \in S, \A n \in Nat : n \in S => n + 1 \in S
    PROVE  Nat \subseteq S
<1> SUFFICES ASSUME NEW n \in Nat, n \notin S
             PROVE  FALSE
  OBVIOUS
<1> DEFINE A == {m \in 0 .. n : m \notin S}
           f == [m \in A |-> m - 1]
<1>1. \A m \in A : m - 1 \in A
  OBVIOUS
<1>2. IsFiniteSet(A)
  <2>1. IsFiniteSet(0 .. n)
    BY FS_Interval
  <2> QED
    BY <2>1, FS_Subset
<1>3. f \in Injection(A, A)
  BY <1>1 DEF Injection, IsInjective
<1>4. f \in Surjection(A, A)
  BY <1>2, <1>3, FS_Injection
<1>5. n \in A
  OBVIOUS
<1>6. PICK m \in A : f[m] = n
  BY <1>4, <1>5, Zenon DEF Surjection
<1> QED
  BY <1>6

(* Quotient and remainder. *)
LEMMA ModRange ==
    ASSUME NEW a \in Int, NEW n \in Nat \ {0}
    PROVE  /\ a % n \in 0 .. n - 1
           /\ \E q \in Int : a = q * n + (a % n)
<1>1. a % n \in 0 .. n - 1
  OBVIOUS
<1>2. a \div n \in Int /\ a = (a \div n) * n + (a % n)
  OBVIOUS
<1> QED
  BY <1>1, <1>2, Zenon

(* The remainder is unique. *)
LEMMA ModUnique ==
    ASSUME NEW n \in Nat \ {0}, NEW q \in Int, NEW r \in 0 .. n - 1,
           NEW a \in Int, a = q * n + r
    PROVE  a % n = r
<1>1. PICK p \in Int : a = p * n + (a % n)
  BY ModRange, Zenon
<1>2. a % n \in 0 .. n - 1
  BY ModRange
<1>3. CASE q = p
  BY <1>1, <1>2, <1>3
<1>4. CASE q < p
  <2>1. PICK e \in Nat : p = q + 1 + e
    BY <1>4
  <2>2. p * n = q * n + n + e * n /\ e * n >= 0
    BY <2>1
  <2> QED
    BY <1>1, <1>2, <2>2
<1>5. CASE p < q
  <2>1. PICK e \in Nat : q = p + 1 + e
    BY <1>5
  <2>2. q * n = p * n + n + e * n /\ e * n >= 0
    BY <2>1
  <2> QED
    BY <1>1, <1>2, <2>2
<1> QED
  BY <1>3, <1>4, <1>5

(* A remainder may be taken before an addition. *)
LEMMA ModAdd ==
    ASSUME NEW n \in Nat \ {0}, NEW a \in Int, NEW b \in Int
    PROVE  ((a % n) + b) % n = (a + b) % n
<1> DEFINE r == a % n
           s == (r + b) % n
<1>0. r \in Int /\ r + b \in Int
  OBVIOUS
<1>1. PICK p \in Int : a = p * n + r
  BY ModRange, Zenon
<1> HIDE DEF r
<1>2. PICK q \in Int : r + b = q * n + s
  BY <1>0, ModRange, Zenon
<1>3. s \in 0 .. n - 1
  BY <1>0, ModRange, Zenon
<1> HIDE DEF s
<1>4. PICK y \in Int : y = p + q
  OBVIOUS
<1>5. PICK x \in Int : x = a + b
  OBVIOUS
<1>6. x = y * n + s
  <2>1. y * n = p * n + q * n
    BY <1>4
  <2> QED
    BY <1>0, <1>1, <1>2, <1>3, <1>5, <2>1
<1>7. x % n = s
  BY <1>3, <1>6, ModUnique
<1> QED
  BY <1>5, <1>7 DEF r, s

(* A multiple of n may be added and taken away. *)
LEMMA ModMultiple ==
    ASSUME NEW n \in Nat \ {0}, NEW a \in Int, NEW b \in Int, b % n = 0
    PROVE  (a + b) % n = a % n /\ (a - b) % n = a % n
<1>1. ((b % n) + a) % n = (b + a) % n
  BY ModAdd
<1>2. PICK c \in Int : c = a - b
  OBVIOUS
<1>3. ((b % n) + c) % n = (b + c) % n
  BY ModAdd
<1>4. b + a = a + b /\ b + c = a /\ (b % n) + a = a /\ (b % n) + c = c
  BY <1>2
<1> QED
  BY <1>1, <1>2, <1>3, <1>4

(* Numbers from 0 to n - 1 are their own remainders. *)
LEMMA ModSmall ==
    ASSUME NEW n \in Nat \ {0}, NEW a \in 0 .. n - 1
    PROVE  a % n = a
<1>1. a = 0 * n + a /\ 0 \in Int /\ a \in Int
  OBVIOUS
<1> QED
  BY <1>1, ModUnique

(* The remainder of n is 0. *)
LEMMA ModSelf ==
    ASSUME NEW n \in Nat \ {0}
    PROVE  n % n = 0
<1>1. n = 1 * n + 0 /\ 0 \in 0 .. n - 1 /\ 1 \in Int
  OBVIOUS
<1> QED
  BY <1>1, ModUnique

(* Numbers with the same remainder are at least n apart. *)
LEMMA ModApart ==
    ASSUME NEW n \in Nat \ {0}, NEW a \in Int, NEW b \in Int, a % n = b % n, a < b
    PROVE  a + n <= b
<1>1. PICK p \in Int : a = p * n + (a % n)
  BY ModRange, Zenon
<1>2. PICK q \in Int : b = q * n + (b % n)
  BY ModRange, Zenon
<1>3. p < q
  <2> SUFFICES ASSUME q <= p PROVE FALSE
    OBVIOUS
  <2>1. PICK e \in Nat : p = q + e
    OBVIOUS
  <2>2. p * n = q * n + e * n /\ e * n >= 0
    BY <2>1
  <2> QED
    BY <1>1, <1>2, <2>2
<1>4. PICK e \in Nat : q = p + 1 + e
  BY <1>3
<1>5. q * n = p * n + n + e * n /\ e * n >= 0
  BY <1>4
<1> QED
  BY <1>1, <1>2, <1>5

-----------------------------------------------------------------------------
(* The indices of the rings *)

(* How far an index has come since the start. *)
Count(i) == IF i >= Start THEN i - Start ELSE i - Start + Word

(* An index and its slot, told by its count. *)
LEMMA CountFacts ==
    ASSUME NEW i \in Index
    PROVE  /\ Count(i) \in Index
           /\ (i - Start) % Word = Count(i)
           /\ i % Num = Count(i) % Num
           /\ Count(i) < Word - 1 => Inc(i) \in Index /\ Count(Inc(i)) = Count(i) + 1
<1>0. /\ Num \in Nat \ {0} /\ Word \in Nat \ {0} /\ Start \in 0 .. Word - 1
      /\ Start % Num = 0 /\ Word % Num = 0
      /\ Start \in Int /\ Word \in Int /\ i \in Int
  BY NumAssumption DEF Index
<1> DEFINE c == Count(i)
<1>1. c \in 0 .. Word - 1
  BY <1>0 DEF Count, Index
<1>2. (i - Start) % Word = c
  <2>1. Word % Word = 0
    BY <1>0, ModSelf
  <2>2. PICK x \in Int : x = i - Start
    BY <1>0
  <2>3. x = c \/ x + Word = c
    BY <1>0, <2>2 DEF Count
  <2>4. (x + Word) % Word = x % Word
    BY <1>0, <2>1, ModMultiple
  <2>5. c % Word = c
    BY <1>0, <1>1, ModSmall
  <2> QED
    BY <2>2, <2>3, <2>4, <2>5
<1>3. i % Num = c % Num
  <2>1. PICK x \in Int : x = i - Start
    BY <1>0
  <2>2. x % Num = i % Num
    BY <1>0, <2>1, ModMultiple
  <2>3. (x + Word) % Num = x % Num
    BY <1>0, ModMultiple
  <2>4. c = x \/ c = x + Word
    BY <1>0, <2>1 DEF Count
  <2> QED
    BY <2>2, <2>3, <2>4
<1>4. ASSUME c < Word - 1
      PROVE  Inc(i) \in Index /\ Count(Inc(i)) = c + 1
  <2>1. CASE i = Word - 1
    <3>1. Inc(i) = 0
      <4>1. Word % Word = 0
        BY <1>0, ModSelf
      <4>2. i + 1 = Word
        BY <1>0, <2>1
      <4> QED
        BY <4>1, <4>2 DEF Inc
    <3> QED
      BY <1>0, <1>4, <2>1, <3>1 DEF Count, Index
  <2>2. CASE i < Word - 1
    <3>1. Inc(i) = i + 1
      <4>1. i + 1 \in 0 .. Word - 1
        BY <1>0, <2>2 DEF Index
      <4> QED
        BY <1>0, <4>1, ModSmall, Zenon DEF Inc
    <3> QED
      BY <1>0, <1>4, <2>2, <3>1 DEF Count, Index
  <2> QED
    BY <1>0, <2>1, <2>2 DEF Index
<1> QED
  BY <1>1, <1>2, <1>3, <1>4 DEF Index

(* The distance between two indices, and when they are the same. *)
LEMMA CountDistance ==
    ASSUME NEW i \in Index, NEW j \in Index, Count(i) <= Count(j)
    PROVE  /\ (j - i) % Word = Count(j) - Count(i)
           /\ Count(i) = Count(j) <=> i = j
<1>0. Word \in Nat \ {0} /\ Start \in 0 .. Word - 1
  BY NumAssumption
<1>1. PICK y \in 0 .. Word - 1 : y = Count(j) - Count(i)
  BY <1>0 DEF Count, Index
<1>2. PICK x \in Int : x = j - i
  BY DEF Index
<1>3. x = y \/ x + Word = y
  BY <1>0, <1>1, <1>2 DEF Count, Index
<1>4. y % Word = y
  BY <1>0, ModSmall
<1>5. (x + Word) % Word = x % Word
  <2>1. Word % Word = 0 /\ Word \in Int
    BY <1>0, ModSelf
  <2> QED
    BY <1>0, <2>1, ModMultiple
<1>6. Count(i) = Count(j) <=> i = j
  BY <1>0 DEF Count, Index
<1> QED
  BY <1>1, <1>2, <1>3, <1>4, <1>5, <1>6

-----------------------------------------------------------------------------
(* A stretch of a ring *)

(* What a ring holds from one count up to another. *)
Stretch(r, a, b) == {r[c % Num] : c \in a .. b - 1}

(* It holds nothing twice there. *)
Distinct(r, a, b) == \A c, e \in a .. b - 1 : r[c % Num] = r[e % Num] => c = e

(* A slot of the ring. *)
LEMMA SlotType ==
    ASSUME NEW c \in Int
    PROVE  c % Num \in Desc
  BY NumAssumption, ModRange DEF Desc

(* Slots less than a round apart are different. *)
LEMMA SlotsApart ==
    ASSUME NEW c \in Int, NEW e \in Int, c < e, e < c + Num
    PROVE  c % Num # e % Num
<1> SUFFICES ASSUME c % Num = e % Num
             PROVE  FALSE
  OBVIOUS
<1>1. Num \in Nat \ {0}
  BY NumAssumption
<1>2. c + Num <= e
  BY <1>1, ModApart, Zenon
<1> QED
  BY <1>1, <1>2

(* An entry that is stored at the end. *)
LEMMA StretchAdd ==
    ASSUME NEW r \in [Desc -> Desc], NEW x, NEW a \in Int, NEW b \in Int,
           a <= b, b < a + Num, Distinct(r, a, b), x \notin Stretch(r, a, b),
           NEW s, s = [r EXCEPT ![b % Num] = x]
    PROVE  Stretch(s, a, b + 1) = Stretch(r, a, b) \cup {x} /\ Distinct(s, a, b + 1)
<1>1. Num \in Nat \ {0}
  BY NumAssumption
<1>2. s[b % Num] = x
  BY SlotType
<1>3. \A c \in a .. b - 1 : c % Num \in Desc /\ c % Num # b % Num /\ s[c % Num] = r[c % Num]
  <2> SUFFICES ASSUME NEW c \in a .. b - 1
               PROVE  c % Num \in Desc /\ c % Num # b % Num /\ s[c % Num] = r[c % Num]
    OBVIOUS
  <2>1. c \in Int /\ c < b /\ b < c + Num
    BY <1>1
  <2>2. c % Num \in Desc /\ c % Num # b % Num
    BY <2>1, SlotType, SlotsApart
  <2> QED
    BY <2>2
<1>4. a .. (b + 1) - 1 = (a .. b - 1) \cup {b}
  OBVIOUS
<1>5. Stretch(s, a, b + 1) = {s[c % Num] : c \in (a .. b - 1) \cup {b}}
  BY <1>4, Zenon DEF Stretch
<1>6. {s[c % Num] : c \in (a .. b - 1) \cup {b}} = {r[c % Num] : c \in a .. b - 1} \cup {x}
  BY <1>2, <1>3
<1>7. \A c \in a .. b - 1 : s[c % Num] # s[b % Num]
  BY <1>2, <1>3 DEF Stretch
<1>8. Distinct(s, a, b + 1)
  BY <1>3, <1>4, <1>7 DEF Distinct
<1> QED
  BY <1>5, <1>6, <1>8 DEF Stretch

(* The entry that is read at the beginning. *)
LEMMA StretchDrop ==
    ASSUME NEW r, NEW a \in Int, NEW b \in Int, a < b, Distinct(r, a, b)
    PROVE  /\ r[a % Num] \in Stretch(r, a, b)
           /\ Stretch(r, a + 1, b) = Stretch(r, a, b) \ {r[a % Num]}
           /\ Distinct(r, a + 1, b)
<1>1. a .. b - 1 = ((a + 1) .. b - 1) \cup {a} /\ a \notin (a + 1) .. b - 1
  OBVIOUS
<1>2. \A c \in (a + 1) .. b - 1 : r[c % Num] # r[a % Num]
  BY <1>1 DEF Distinct
<1>3. Stretch(r, a, b) = {r[c % Num] : c \in ((a + 1) .. b - 1) \cup {a}}
  BY <1>1, Zenon DEF Stretch
<1>4. Stretch(r, a, b) = Stretch(r, a + 1, b) \cup {r[a % Num]}
  BY <1>3 DEF Stretch
<1>5. r[a % Num] \notin Stretch(r, a + 1, b)
  BY <1>2 DEF Stretch
<1>6. Distinct(r, a + 1, b)
  BY <1>1 DEF Distinct
<1> QED
  BY <1>4, <1>5, <1>6

(* How many entries there are. *)
LEMMA StretchCount ==
    ASSUME NEW r, NEW a \in Int, NEW b \in Int, a <= b, Distinct(r, a, b)
    PROVE  IsFiniteSet(Stretch(r, a, b)) /\ Cardinality(Stretch(r, a, b)) = b - a
<1> DEFINE f == [c \in a .. b - 1 |-> r[c % Num]]
<1>1. IsFiniteSet(a .. b - 1) /\ Cardinality(a .. b - 1) = b - a
  <2>1. PICK d \in Int : d = b - 1
    OBVIOUS
  <2>2. IsFiniteSet(a .. d) /\ Cardinality(a .. d) = IF a > d THEN 0 ELSE d - a + 1
    BY FS_Interval, Zenon
  <2> QED
    BY <2>1, <2>2
<1>2. f \in Surjection(a .. b - 1, Stretch(r, a, b))
  BY DEF Surjection, Stretch
<1>3. f \in Injection(a .. b - 1, Stretch(r, a, b))
  BY DEF Injection, IsInjective, Stretch, Distinct
<1> HIDE DEF f
<1>4. /\ IsFiniteSet(Stretch(r, a, b))
      /\ Cardinality(Stretch(r, a, b)) = Cardinality(a .. b - 1)
  BY <1>1, <1>2, <1>3, FS_Surjection
<1> QED
  BY <1>1, <1>4

-----------------------------------------------------------------------------
(* The descriptors *)

(* The owner of the descriptors of the free list. *)
Free == Num

Owners(heads) == heads \cup {Free}

(* Every descriptor has an owner, the request it belongs to or the free     *)
(* list, and a place in the owner's list; each place is taken once.         *)
Shared(heads, own, pos, len) ==
    /\ heads \subseteq Desc
    /\ own \in [Desc -> Owners(heads)]
    /\ pos \in [Desc -> Nat]
    /\ len \in [Owners(Desc) -> Nat]
    /\ \A d \in Desc : pos[d] < len[own[d]]
    /\ \A d, e \in Desc : own[d] = own[e] /\ pos[d] = pos[e] => d = e
    /\ \A o \in Owners(heads) : \A k \in 0 .. len[o] - 1 :
           \E d \in Desc : own[d] = o /\ pos[d] = k
    /\ \A h \in heads : own[h] = h /\ pos[h] = 0

(* The table links the descriptors of each owner in the order of their      *)
(* places, and the next bit is off at the end of a request.                 *)
Linked(t, own, pos, len) ==
    /\ t \in [Desc -> [next : Desc, more : BOOLEAN]]
    /\ \A d \in Desc : pos[d] + 1 < len[own[d]] =>
           own[t[d].next] = own[d] /\ pos[t[d].next] = pos[d] + 1
    /\ \A d \in Desc : t[d].more <=> own[d] = Free \/ pos[d] + 1 < len[own[d]]

(* The free list and its two ends. *)
Ended(num, head, tail, own, pos, len) ==
    /\ num \in Nat /\ num > 0 /\ len[Free] = num
    /\ head \in Desc /\ own[head] = Free /\ pos[head] = 0
    /\ tail \in Desc /\ own[tail] = Free /\ pos[tail] = num - 1

(* The walk along a path of the table. *)
LEMMA FollowPath ==
    ASSUME NEW t, NEW p, NEW k \in Nat,
           \A j \in 0 .. k - 1 : t[p[j]].next = p[j + 1]
    PROVE  Follow(t, p[0], k) = p[k]
<1> DEFINE F(g) == [j \in 0 .. k |-> IF j = 0 THEN p[0] ELSE t[g[j - 1]].next]
           q == [j \in 0 .. k |-> p[j]]
           f == CHOOSE g : g = F(g)
<1>1. q = F(q)
  <2>1. \A j \in 0 .. k : q[j] = IF j = 0 THEN p[0] ELSE t[q[j - 1]].next
    OBVIOUS
  <2> QED
    BY <2>1
<1>2. f = F(f)
  <2> HIDE DEF q, F
  <2> QED
    BY <1>1, Zenon
<1>3. \A j \in 0 .. k : f[j] = IF j = 0 THEN p[0] ELSE t[f[j - 1]].next
  <2> HIDE DEF f
  <2> QED
    BY <1>2
<1> HIDE DEF f
<1> DEFINE S == {n \in Nat : n <= k => f[n] = p[n]}
<1>4. Nat \subseteq S
  <2>1. 0 \in S
    BY <1>3
  <2>2. \A n \in Nat : n \in S => n + 1 \in S
    BY <1>3
  <2> HIDE DEF S
  <2> QED
    BY <2>1, <2>2, SetInduction
<1>5. Follow(t, p[0], k) = f[k]
  BY Zenon DEF Follow, f
<1> QED
  BY <1>4, <1>5

(* The walk from the first descriptor of an owner gets to each of them, as  *)
(* many steps on as its place says.                                        *)
LEMMA WalkFinds ==
    ASSUME NEW heads, NEW t, NEW own, NEW pos, NEW len,
           Shared(heads, own, pos, len), Linked(t, own, pos, len),
           NEW d \in Desc, NEW e \in Desc, own[e] = own[d], pos[d] = 0
    PROVE  Follow(t, d, pos[e]) = e
<1> DEFINE At(k) == CHOOSE x \in Desc : own[x] = own[d] /\ pos[x] = k
           k == pos[e]
           p == [j \in 0 .. k |-> At(j)]
<1>1. k \in Nat /\ k < len[own[d]] /\ own[d] \in Owners(heads) /\ len[own[d]] \in Nat
  BY DEF Shared, Owners
<1>2. \A j \in 0 .. k : At(j) \in Desc /\ own[At(j)] = own[d] /\ pos[At(j)] = j
  <2> SUFFICES ASSUME NEW j \in 0 .. k
               PROVE  At(j) \in Desc /\ own[At(j)] = own[d] /\ pos[At(j)] = j
    OBVIOUS
  <2>1. j \in 0 .. len[own[d]] - 1
    BY <1>1
  <2>2. \E x \in Desc : own[x] = own[d] /\ pos[x] = j
    BY <1>1, <2>1 DEF Shared
  <2> QED
    BY <2>2, Zenon
<1> HIDE DEF At
<1>3. p[0] = d /\ p[k] = e
  BY <1>1, <1>2 DEF Shared
<1>4. \A j \in 0 .. k - 1 : t[p[j]].next = p[j + 1]
  <2> SUFFICES ASSUME NEW j \in 0 .. k - 1
               PROVE  t[p[j]].next = p[j + 1]
    OBVIOUS
  <2>1. p[j] \in Desc /\ own[p[j]] = own[d] /\ pos[p[j]] = j
    BY <1>1, <1>2
  <2>2. p[j + 1] \in Desc /\ own[p[j + 1]] = own[d] /\ pos[p[j + 1]] = j + 1
    BY <1>1, <1>2
  <2> HIDE DEF p, k
  <2>3. /\ t[p[j]].next \in Desc
        /\ own[t[p[j]].next] = own[d] /\ pos[t[p[j]].next] = j + 1
    BY <1>1, <2>1 DEF Linked
  <2> QED
    BY <2>2, <2>3 DEF Shared
<1> HIDE DEF p, k
<1>5. Follow(t, p[0], k) = p[k]
  BY <1>1, <1>4, FollowPath
<1> QED
  BY <1>3, <1>5 DEF k

(* The first n naturals. *)
LEMMA IntervalCount ==
    ASSUME NEW n \in Nat
    PROVE  IsFiniteSet(0 .. n - 1) /\ Cardinality(0 .. n - 1) = n
<1>1. PICK m \in Int : m = n - 1
  OBVIOUS
<1>2. 0 \in Int
  OBVIOUS
<1>3. IsFiniteSet(0 .. m) /\ Cardinality(0 .. m) = IF 0 > m THEN 0 ELSE m - 0 + 1
  BY <1>2, FS_Interval, Zenon
<1> QED
  BY <1>1, <1>3

(* An owner has as many descriptors as its list is long. *)
LEMMA OwnCount ==
    ASSUME NEW heads, NEW own, NEW pos, NEW len, Shared(heads, own, pos, len),
           NEW o \in Owners(heads)
    PROVE  LET S == {d \in Desc : own[d] = o}
           IN  IsFiniteSet(S) /\ Cardinality(S) = len[o] /\ len[o] <= Num
<1> DEFINE S == {d \in Desc : own[d] = o}
           f == [d \in S |-> pos[d]]
<1>1. Num \in Nat \ {0}
  BY NumAssumption
<1>2. IsFiniteSet(Desc) /\ Cardinality(Desc) = Num
  BY <1>1, IntervalCount DEF Desc
<1>3. IsFiniteSet(S) /\ Cardinality(S) <= Num
  BY <1>2, FS_Subset
<1>4. len[o] \in Nat
  BY DEF Shared, Owners
<1>5. IsFiniteSet(0 .. len[o] - 1) /\ Cardinality(0 .. len[o] - 1) = len[o]
  BY <1>4, IntervalCount
<1>6. f \in Surjection(S, 0 .. len[o] - 1)
  <2>1. \A d \in S : pos[d] \in 0 .. len[o] - 1
    BY <1>4 DEF Shared
  <2>2. \A k \in 0 .. len[o] - 1 : \E d \in S : f[d] = k
    BY DEF Shared
  <2> QED
    BY <2>1, <2>2 DEF Surjection
<1>7. f \in Injection(S, 0 .. len[o] - 1)
  <2>1. f \in [S -> 0 .. len[o] - 1]
    BY <1>6 DEF Surjection
  <2> QED
    BY <2>1 DEF Injection, IsInjective, Shared
<1> HIDE DEF f, S
<1>8. Cardinality(0 .. len[o] - 1) = Cardinality(S)
  BY <1>3, <1>6, <1>7, FS_Surjection
<1> QED
  BY <1>3, <1>5, <1>8 DEF S

(* Where the walk from the first descriptor of an owner is after k steps. *)
LEMMA WalkAt ==
    ASSUME NEW heads, NEW t, NEW own, NEW pos, NEW len,
           Shared(heads, own, pos, len), Linked(t, own, pos, len),
           NEW d \in Desc, pos[d] = 0, NEW k \in 0 .. len[own[d]] - 1
    PROVE  LET e == Follow(t, d, k)
           IN  e \in Desc /\ own[e] = own[d] /\ pos[e] = k
<1>1. own[d] \in Owners(heads)
  BY DEF Shared
<1>2. PICK e \in Desc : own[e] = own[d] /\ pos[e] = k
  BY <1>1 DEF Shared
<1>3. Follow(t, d, pos[e]) = e
  BY <1>2, WalkFinds
<1> QED
  BY <1>2, <1>3

(* The table after set_direct_descriptors: the first n descriptors of the   *)
(* free list have their next bits, but the last of them has not.            *)
TakeTable(t, own, pos, n) ==
    [d \in Desc |-> IF own[d] = Free /\ pos[d] < n
                    THEN [t[d] EXCEPT !.more = (pos[d] # n - 1)]
                    ELSE t[d]]

(* The first n descriptors of the free list become a request. *)
LEMMA Taking ==
    ASSUME NEW heads, NEW t, NEW own, NEW pos, NEW len,
           Shared(heads, own, pos, len), Linked(t, own, pos, len),
           NEW num, NEW head, NEW tail, Ended(num, head, tail, own, pos, len),
           NEW n \in Nat \ {0}, n < num,
           NEW first \in Desc, own[first] = Free, pos[first] = n
    PROVE  \E own2, pos2, len2 :
               /\ Shared(heads \cup {head}, own2, pos2, len2)
               /\ Linked(TakeTable(t, own, pos, n), own2, pos2, len2)
               /\ Ended(num - n, first, tail, own2, pos2, len2)
<1> DEFINE Part(d) == own[d] = Free /\ pos[d] < n
           own2 == [d \in Desc |-> IF Part(d) THEN head ELSE own[d]]
           pos2 == [d \in Desc |-> IF own[d] = Free /\ n <= pos[d] THEN pos[d] - n ELSE pos[d]]
           len2 == [len EXCEPT ![Free] = num - n, ![head] = n]
           t2   == TakeTable(t, own, pos, n)
<1>1. Num \in Nat \ {0} /\ Free \notin Desc /\ head \in Desc /\ head \notin heads /\ head # Free
  BY NumAssumption DEF Desc, Free, Shared, Ended
<1>2. /\ len2 \in [Owners(Desc) -> Nat] /\ len2[Free] = num - n /\ len2[head] = n
      /\ \A o \in Owners(Desc) \ {Free, head} : len2[o] = len[o]
  BY <1>1 DEF Shared, Ended, Owners
<1>3. \A d \in Desc :
          \/ own[d] = Free /\ pos[d] < n /\ own2[d] = head /\ pos2[d] = pos[d]
          \/ own[d] = Free /\ n <= pos[d] /\ own2[d] = Free /\ pos2[d] = pos[d] - n
          \/ own[d] \in heads /\ own2[d] = own[d] /\ pos2[d] = pos[d]
  BY <1>1 DEF Shared, Owners
<1>4. \A d \in Desc : /\ own2[d] \in Owners(heads \cup {head}) /\ pos2[d] \in Nat
                      /\ pos2[d] < len2[own2[d]]
  <2> SUFFICES ASSUME NEW d \in Desc
               PROVE  /\ own2[d] \in Owners(heads \cup {head}) /\ pos2[d] \in Nat
                      /\ pos2[d] < len2[own2[d]]
    OBVIOUS
  <2>1. pos[d] \in Nat /\ pos[d] < len[own[d]] /\ heads \subseteq Desc /\ len[Free] = num
    BY DEF Shared, Ended
  <2> HIDE DEF own2, pos2, len2
  <2>2. CASE own[d] = Free /\ pos[d] < n /\ own2[d] = head /\ pos2[d] = pos[d]
    BY <1>1, <1>2, <2>1, <2>2 DEF Owners
  <2>3. CASE own[d] = Free /\ n <= pos[d] /\ own2[d] = Free /\ pos2[d] = pos[d] - n
    BY <1>1, <1>2, <2>1, <2>3 DEF Owners, Ended
  <2>4. CASE own[d] \in heads /\ own2[d] = own[d] /\ pos2[d] = pos[d]
    BY <1>1, <1>2, <2>1, <2>4 DEF Owners
  <2> QED
    BY <1>3, <2>2, <2>3, <2>4
<1>5. \A d, e \in Desc : own2[d] = own2[e] /\ pos2[d] = pos2[e] => d = e
  <2> SUFFICES ASSUME NEW d \in Desc, NEW e \in Desc, own2[d] = own2[e], pos2[d] = pos2[e]
               PROVE  d = e
    OBVIOUS
  <2>1. pos[d] \in Nat /\ pos[e] \in Nat /\ (own[d] = own[e] /\ pos[d] = pos[e] => d = e)
        /\ heads \subseteq Desc
    BY DEF Shared
  <2> HIDE DEF own2, pos2, len2
  <2> QED
    BY <1>1, <1>3, <2>1
<1>6. \A o \in Owners(heads \cup {head}) : \A k \in 0 .. len2[o] - 1 :
          \E d \in Desc : own2[d] = o /\ pos2[d] = k
  <2> SUFFICES ASSUME NEW o \in Owners(heads \cup {head}), NEW k \in 0 .. len2[o] - 1
               PROVE  \E d \in Desc : own2[d] = o /\ pos2[d] = k
    OBVIOUS
  <2>0. Free \in Owners(heads) /\ len[Free] = num /\ num \in Nat /\ heads \subseteq Desc
    BY DEF Owners, Ended, Shared
  <2> HIDE DEF len2
  <2>1. CASE o = head
    <3>1. k \in 0 .. len[Free] - 1 /\ k < n
      BY <1>2, <2>0, <2>1
    <3>2. PICK d \in Desc : own[d] = Free /\ pos[d] = k
      BY <2>0, <3>1 DEF Shared
    <3> QED
      BY <2>1, <3>1, <3>2
  <2>2. CASE o = Free
    <3>1. k + n \in 0 .. len[Free] - 1 /\ k \in Nat
      BY <1>2, <2>0, <2>2
    <3>2. PICK d \in Desc : own[d] = Free /\ pos[d] = k + n
      BY <2>0, <3>1 DEF Shared
    <3> QED
      BY <2>2, <3>1, <3>2
  <2>3. CASE o \in heads
    <3>1. len2[o] = len[o] /\ o # Free
      BY <1>1, <1>2, <2>0, <2>3 DEF Owners
    <3>2. PICK d \in Desc : own[d] = o /\ pos[d] = k
      BY <2>3, <3>1 DEF Shared, Owners
    <3> QED
      BY <3>1, <3>2
  <2> QED
    BY <2>1, <2>2, <2>3 DEF Owners
<1>7. \A h \in heads \cup {head} : own2[h] = h /\ pos2[h] = 0
  <2>1. \A h \in heads : h \in Desc /\ own[h] = h /\ pos[h] = 0
    BY DEF Shared
  <2>2. own[head] = Free /\ pos[head] = 0
    BY DEF Ended
  <2> QED
    BY <1>1, <2>1, <2>2
<1>8. Shared(heads \cup {head}, own2, pos2, len2)
  <2>1. own2 \in [Desc -> Owners(heads \cup {head})] /\ pos2 \in [Desc -> Nat]
    BY <1>4
  <2>2. heads \cup {head} \subseteq Desc
    BY <1>1 DEF Shared
  <2> HIDE DEF own2, pos2, len2
  <2> QED
    BY <1>2, <1>4, <1>5, <1>6, <1>7, <2>1, <2>2 DEF Shared
<1>9. Linked(t2, own2, pos2, len2)
  <2>0. t \in [Desc -> [next : Desc, more : BOOLEAN]]
    BY DEF Linked
  <2>1. \A d \in Desc : /\ t2[d] \in [next : Desc, more : BOOLEAN]
                        /\ t2[d].next = t[d].next
                        /\ Part(d) => (t2[d].more <=> pos[d] # n - 1)
                        /\ ~Part(d) => t2[d] = t[d]
    <3> SUFFICES ASSUME NEW d \in Desc
                 PROVE  /\ t2[d] \in [next : Desc, more : BOOLEAN]
                        /\ t2[d].next = t[d].next
                        /\ Part(d) => (t2[d].more <=> pos[d] # n - 1)
                        /\ ~Part(d) => t2[d] = t[d]
      OBVIOUS
    <3>1. t[d] \in [next : Desc, more : BOOLEAN]
      BY <2>0
    <3>2. CASE Part(d)
      <4>1. t2[d] = [t[d] EXCEPT !.more = (pos[d] # n - 1)]
        BY <3>2 DEF TakeTable
      <4>2. t2[d] = [next |-> t[d].next, more |-> (pos[d] # n - 1)]
        BY <3>1, <4>1
      <4>3. (pos[d] # n - 1) \in BOOLEAN
        OBVIOUS
      <4> HIDE DEF t2
      <4>4. t2[d].next = t[d].next /\ t2[d] \in [next : Desc, more : BOOLEAN]
        BY <3>1, <4>2, <4>3
      <4>5. t2[d].more = (pos[d] # n - 1)
        BY <4>2
      <4> QED
        BY <3>2, <4>4, <4>5
    <3>3. CASE ~Part(d)
      BY <3>1, <3>3 DEF TakeTable
    <3> QED
      BY <3>2, <3>3
  <2>2. t2 \in [Desc -> [next : Desc, more : BOOLEAN]]
    BY <2>1 DEF TakeTable
  <2>3. ASSUME NEW d \in Desc, pos2[d] + 1 < len2[own2[d]]
        PROVE  own2[t2[d].next] = own2[d] /\ pos2[t2[d].next] = pos2[d] + 1
    <3> DEFINE e == t[d].next
    <3>1. e \in Desc /\ t2[d].next = e
      BY <2>0, <2>1
    <3>2. pos[d] + 1 < len[own[d]] => own[e] = own[d] /\ pos[e] = pos[d] + 1
      BY DEF Linked
    <3>3. len[Free] = num /\ num \in Nat /\ pos[d] \in Nat /\ heads \subseteq Desc
      BY DEF Ended, Shared
    <3>4. pos[d] + 1 < len[own[d]]
      <4> HIDE DEF own2, pos2, len2
      <4> QED
        BY <1>1, <1>2, <1>3, <2>3, <3>3 DEF Owners
    <3>5. \/ own[d] = Free /\ pos[d] + 1 < n
          \/ own[d] = Free /\ n <= pos[d]
          \/ own[d] \in heads
      <4> HIDE DEF own2, pos2, len2
      <4> QED
        BY <1>1, <1>2, <1>3, <2>3, <3>3
    <3> HIDE DEF e
    <3> QED
      BY <1>1, <3>1, <3>2, <3>3, <3>4, <3>5
  <2>4. ASSUME NEW d \in Desc
        PROVE  t2[d].more <=> own2[d] = Free \/ pos2[d] + 1 < len2[own2[d]]
    <3>1. t[d].more <=> own[d] = Free \/ pos[d] + 1 < len[own[d]]
      BY DEF Linked
    <3>2. pos[d] \in Nat /\ heads \subseteq Desc
      BY DEF Shared
    <3>3. /\ Part(d) => (t2[d].more <=> pos[d] # n - 1)
          /\ ~Part(d) => t2[d] = t[d]
      BY <2>1
    <3> HIDE DEF own2, pos2, len2
    <3>4. CASE own[d] = Free /\ pos[d] < n
      <4>0. t2[d].more <=> pos[d] # n - 1
        BY <3>3, <3>4
      <4>1. own2[d] = head /\ pos2[d] = pos[d]
        BY <1>1, <1>3, <3>2, <3>4
      <4> QED
        BY <1>1, <1>2, <3>2, <3>4, <4>0, <4>1
    <3>5. CASE own[d] = Free /\ n <= pos[d]
      <4>1. ~Part(d)
        BY <3>2, <3>5
      <4>2. own2[d] = Free
        BY <1>1, <1>3, <3>2, <3>5
      <4> QED
        BY <3>1, <3>3, <3>5, <4>1, <4>2
    <3>6. CASE own[d] \in heads
      <4>1. ~Part(d) /\ own2[d] = own[d] /\ pos2[d] = pos[d] /\ own[d] # Free
        BY <1>1, <1>3, <3>2, <3>6
      <4>2. len2[own[d]] = len[own[d]]
        BY <1>1, <1>2, <3>2, <3>6 DEF Owners
      <4> QED
        BY <3>1, <3>3, <4>1, <4>2
    <3> QED
      BY <1>3, <3>4, <3>5, <3>6
  <2> HIDE DEF own2, pos2, len2
  <2> QED
    BY <2>2, <2>3, <2>4 DEF Linked
<1>10. Ended(num - n, first, tail, own2, pos2, len2)
  BY <1>1, <1>2 DEF Ended
<1> HIDE DEF own2, pos2, len2, t2
<1> QED
  BY <1>8, <1>9, <1>10 DEF t2

(* The end of a request's chain, as virtio_from_queue finds it. *)
LEMMA ChainLastFound ==
    ASSUME NEW heads, NEW t, NEW own, NEW pos, NEW len,
           Shared(heads, own, pos, len), Linked(t, own, pos, len), NEW h \in heads
    PROVE  LET last == ChainLast(t, h)
           IN  /\ last.at \in Desc /\ own[last.at] = h /\ pos[last.at] = len[h] - 1
               /\ last.count = len[h] /\ len[h] > 0
<1>1. h \in Desc /\ own[h] = h /\ pos[h] = 0 /\ h \in Owners(heads) /\ h # Free
  BY NumAssumption DEF Shared, Owners, Desc, Free
<1>2. len[h] \in Nat /\ len[h] > 0 /\ len[h] <= Num
  <2>1. len[h] \in Nat /\ len[h] > 0
    BY <1>1 DEF Shared, Owners
  <2> QED
    BY <1>1, <2>1, OwnCount
<1> DEFINE End(k) == /\ ~t[Follow(t, h, k)].more
                     /\ \A j \in 0 .. k - 1 : t[Follow(t, h, j)].more
<1>3. \A k \in 0 .. len[h] - 1 :
          LET e == Follow(t, h, k)
          IN  e \in Desc /\ own[e] = h /\ pos[e] = k /\ (t[e].more <=> k + 1 < len[h])
  <2> SUFFICES ASSUME NEW k \in 0 .. len[h] - 1
               PROVE  LET e == Follow(t, h, k)
                      IN  e \in Desc /\ own[e] = h /\ pos[e] = k /\ (t[e].more <=> k + 1 < len[h])
    OBVIOUS
  <2> DEFINE e == Follow(t, h, k)
  <2>1. e \in Desc /\ own[e] = h /\ pos[e] = k
    BY <1>1, WalkAt
  <2> HIDE DEF e
  <2>2. t[e].more <=> own[e] = Free \/ pos[e] + 1 < len[own[e]]
    BY <2>1 DEF Linked
  <2>3. t[e].more <=> k + 1 < len[h]
    BY <1>1, <2>1, <2>2
  <2> QED
    BY <2>1, <2>3 DEF e
<1>4. len[h] - 1 \in Desc /\ End(len[h] - 1)
  <2>1. len[h] - 1 \in Desc
    BY <1>2, NumAssumption DEF Desc
  <2> DEFINE F(k) == Follow(t, h, k)
  <2>2. \A k \in 0 .. len[h] - 1 : t[F(k)].more <=> k + 1 < len[h]
    BY <1>3
  <2> HIDE DEF F
  <2>3. ~t[F(len[h] - 1)].more
    BY <1>2, <2>2
  <2>4. \A j \in 0 .. (len[h] - 1) - 1 : t[F(j)].more
    BY <1>2, <2>2
  <2> QED
    BY <2>1, <2>3, <2>4 DEF F
<1>5. \A k \in Desc : End(k) => k = len[h] - 1
  <2> SUFFICES ASSUME NEW k \in Desc, End(k)
               PROVE  k = len[h] - 1
    OBVIOUS
  <2>0. k \in Nat
    BY NumAssumption DEF Desc
  <2>1. CASE k < len[h] - 1
    <3>1. k \in 0 .. len[h] - 1 /\ k + 1 < len[h]
      BY <1>2, <2>0, <2>1
    <3> QED
      BY <1>3, <3>1
  <2>2. CASE k > len[h] - 1
    <3>1. len[h] - 1 \in 0 .. k - 1 /\ len[h] - 1 \in 0 .. len[h] - 1
      BY <1>2, <2>0, <2>2
    <3> QED
      BY <1>4, <3>1
  <2> QED
    BY <1>2, <2>0, <2>1, <2>2
<1> DEFINE last == CHOOSE k \in Desc : End(k)
<1>6. last = len[h] - 1
  <2> HIDE DEF End
  <2> QED
    BY <1>4, <1>5
<1>7. ChainLast(t, h) = [at |-> Follow(t, h, last), count |-> last + 1]
  BY Zenon DEF ChainLast
<1> HIDE DEF last
<1>8. /\ ChainLast(t, h).at = Follow(t, h, len[h] - 1)
      /\ ChainLast(t, h).count = len[h]
  BY <1>2, <1>6, <1>7
<1>9. len[h] - 1 \in 0 .. len[h] - 1
  BY <1>2
<1> QED
  BY <1>2, <1>3, <1>8, <1>9

(* The table after virtio_from_queue linked the chain of h behind the tail  *)
(* of the free list.                                                       *)
GiveTable(t, h, head, tail, last) ==
    [[t EXCEPT ![tail].next = h] EXCEPT ![last] = [next |-> head, more |-> TRUE]]

(* The chain of the request h becomes the end of the free list. *)
LEMMA Giving ==
    ASSUME NEW heads, NEW t, NEW own, NEW pos, NEW len,
           Shared(heads, own, pos, len), Linked(t, own, pos, len),
           NEW num, NEW head, NEW tail, Ended(num, head, tail, own, pos, len),
           NEW h \in heads, NEW last \in Desc, own[last] = h, pos[last] = len[h] - 1
    PROVE  \E own2, pos2, len2 :
               /\ Shared(heads \ {h}, own2, pos2, len2)
               /\ Linked(GiveTable(t, h, head, tail, last), own2, pos2, len2)
               /\ Ended(num + len[h], head, last, own2, pos2, len2)
<1> DEFINE own2 == [d \in Desc |-> IF own[d] = h THEN Free ELSE own[d]]
           pos2 == [d \in Desc |-> IF own[d] = h THEN pos[d] + num ELSE pos[d]]
           len2 == [len EXCEPT ![Free] = num + len[h]]
           t2   == GiveTable(t, h, head, tail, last)
<1>1. /\ Num \in Nat \ {0} /\ Free \notin Desc /\ h \in Desc /\ h # Free
      /\ heads \subseteq Desc /\ own[h] = h /\ pos[h] = 0
      /\ num \in Nat /\ num > 0 /\ len[Free] = num /\ len[h] \in Nat /\ len[h] > 0
  <2> HIDE DEF own2, pos2, len2, t2
  <2>1. Num \in Nat \ {0} /\ Free \notin Desc
    BY NumAssumption DEF Desc, Free
  <2>2. heads \subseteq Desc /\ own[h] = h /\ pos[h] = 0 /\ pos[h] < len[own[h]]
    BY DEF Shared
  <2>3. h \in Desc /\ h # Free
    BY <2>1, <2>2
  <2>4. num \in Nat /\ num > 0 /\ len[Free] = num
    BY DEF Ended
  <2>5. len[h] \in Nat
    BY <2>3 DEF Shared, Owners
  <2> QED
    BY <2>1, <2>2, <2>3, <2>4, <2>5
<1>2. /\ len2 \in [Owners(Desc) -> Nat] /\ len2[Free] = num + len[h]
      /\ \A o \in Owners(Desc) \ {Free} : len2[o] = len[o]
  BY <1>1 DEF Shared, Owners
<1>3. \A d \in Desc :
          /\ pos[d] \in Nat /\ pos[d] < len[own[d]]
          /\ \/ own[d] = h /\ own2[d] = Free /\ pos2[d] = pos[d] + num
             \/ own[d] = Free /\ own2[d] = Free /\ pos2[d] = pos[d]
             \/ own[d] \in heads \ {h} /\ own2[d] = own[d] /\ pos2[d] = pos[d]
  BY <1>1 DEF Shared, Owners
<1>4. \A d \in Desc : /\ own2[d] \in Owners(heads \ {h}) /\ pos2[d] \in Nat
                      /\ pos2[d] < len2[own2[d]]
  <2> SUFFICES ASSUME NEW d \in Desc
               PROVE  /\ own2[d] \in Owners(heads \ {h}) /\ pos2[d] \in Nat
                      /\ pos2[d] < len2[own2[d]]
    OBVIOUS
  <2> HIDE DEF own2, pos2, len2
  <2>1. CASE own[d] = h /\ own2[d] = Free /\ pos2[d] = pos[d] + num
    BY <1>1, <1>2, <1>3, <2>1 DEF Owners
  <2>2. CASE own[d] = Free /\ own2[d] = Free /\ pos2[d] = pos[d]
    BY <1>1, <1>2, <1>3, <2>2 DEF Owners
  <2>3. CASE own[d] \in heads \ {h} /\ own2[d] = own[d] /\ pos2[d] = pos[d]
    BY <1>1, <1>2, <1>3, <2>3 DEF Owners
  <2> QED
    BY <1>3, <2>1, <2>2, <2>3
<1>5. \A d, e \in Desc : own2[d] = own2[e] /\ pos2[d] = pos2[e] => d = e
  <2> SUFFICES ASSUME NEW d \in Desc, NEW e \in Desc, own2[d] = own2[e], pos2[d] = pos2[e]
               PROVE  d = e
    OBVIOUS
  <2>1. own[d] = own[e] /\ pos[d] = pos[e] => d = e
    BY DEF Shared
  <2> HIDE DEF own2, pos2, len2
  <2> QED
    BY <1>1, <1>3, <2>1
<1>6. \A o \in Owners(heads \ {h}) : \A k \in 0 .. len2[o] - 1 :
          \E d \in Desc : own2[d] = o /\ pos2[d] = k
  <2> SUFFICES ASSUME NEW o \in Owners(heads \ {h}), NEW k \in 0 .. len2[o] - 1
               PROVE  \E d \in Desc : own2[d] = o /\ pos2[d] = k
    OBVIOUS
  <2>0. Free \in Owners(heads) /\ h \in Owners(heads)
    BY DEF Owners
  <2> HIDE DEF len2
  <2>1. CASE o = Free /\ k < num
    <3>1. k \in 0 .. len[Free] - 1
      BY <1>1, <2>1
    <3>2. PICK d \in Desc : own[d] = Free /\ pos[d] = k
      BY <2>0, <3>1 DEF Shared
    <3> QED
      BY <1>1, <2>1, <3>2
  <2>2. CASE o = Free /\ num <= k
    <3>1. k - num \in 0 .. len[h] - 1
      BY <1>1, <1>2, <2>2
    <3>2. PICK d \in Desc : own[d] = h /\ pos[d] = k - num
      BY <2>0, <3>1 DEF Shared
    <3> QED
      BY <1>1, <2>2, <3>2
  <2>3. CASE o \in heads \ {h}
    <3>1. len2[o] = len[o] /\ o # Free /\ o \in Owners(heads)
      BY <1>1, <1>2, <2>3 DEF Owners
    <3>2. PICK d \in Desc : own[d] = o /\ pos[d] = k
      BY <3>1 DEF Shared
    <3> QED
      BY <2>3, <3>1, <3>2
  <2> QED
    BY <1>1, <1>2, <2>1, <2>2, <2>3 DEF Owners
<1>7. Shared(heads \ {h}, own2, pos2, len2)
  <2>1. own2 \in [Desc -> Owners(heads \ {h})] /\ pos2 \in [Desc -> Nat]
    BY <1>4
  <2>2. \A g \in heads \ {h} : own2[g] = g /\ pos2[g] = 0
    BY <1>1 DEF Shared
  <2> HIDE DEF own2, pos2, len2
  <2> QED
    BY <1>1, <1>2, <1>4, <1>5, <1>6, <2>1, <2>2 DEF Shared
<1>8. tail \in Desc /\ head \in Desc /\ own[tail] = Free /\ pos[tail] = num - 1 /\ tail # last
      /\ own[head] = Free /\ pos[head] = 0
  BY <1>1 DEF Ended
<1>9. Linked(t2, own2, pos2, len2)
  <2>0. t \in [Desc -> [next : Desc, more : BOOLEAN]]
    BY DEF Linked
  <2>1. /\ t2[last] = [next |-> head, more |-> TRUE]
        /\ t2[tail] = [next |-> h, more |-> t[tail].more]
        /\ \A d \in Desc \ {last, tail} : t2[d] = t[d]
    BY <1>8, <2>0 DEF GiveTable
  <2>2. t2 \in [Desc -> [next : Desc, more : BOOLEAN]]
    BY <1>1, <1>8, <2>0 DEF GiveTable
  <2>3. ASSUME NEW d \in Desc, pos2[d] + 1 < len2[own2[d]]
        PROVE  own2[t2[d].next] = own2[d] /\ pos2[t2[d].next] = pos2[d] + 1
    <3>1. CASE d = tail
      <4>1. t2[d].next = h /\ own2[d] = Free /\ pos2[d] = num - 1
        BY <1>1, <1>8, <2>1, <3>1
      <4>2. own2[h] = Free /\ pos2[h] = num
        BY <1>1
      <4> QED
        BY <1>1, <4>1, <4>2
    <3>2. CASE d = last
      <4>1. own2[d] = Free /\ pos2[d] = len[h] - 1 + num
        BY <3>2
      <4> QED
        BY <1>1, <1>2, <2>3, <4>1
    <3>3. CASE d # tail /\ d # last
      <4> DEFINE e == t[d].next
      <4>1. t2[d].next = e /\ e \in Desc
        BY <2>0, <2>1, <3>3
      <4>2. pos[d] + 1 < len[own[d]] => own[e] = own[d] /\ pos[e] = pos[d] + 1
        BY DEF Linked
      <4>3. ~(own[d] = Free /\ pos[d] = num - 1) /\ ~(own[d] = h /\ pos[d] = len[h] - 1)
        BY <1>8, <3>3 DEF Shared
      <4>4. pos[d] + 1 < len[own[d]]
        <5> HIDE DEF own2, pos2, len2
        <5>1. CASE own[d] = h
          BY <1>1, <1>3, <4>3, <5>1
        <5>2. CASE own[d] = Free
          BY <1>1, <1>3, <4>3, <5>2
        <5>3. CASE own[d] \in heads \ {h}
          <6>1. own2[d] = own[d] /\ pos2[d] = pos[d] /\ own[d] # Free /\ own[d] \in Owners(Desc)
            BY <1>1, <1>3, <5>3 DEF Owners
          <6> QED
            BY <1>2, <2>3, <6>1
        <5> QED
          BY <1>3, <5>1, <5>2, <5>3
      <4> HIDE DEF e
      <4> QED
        BY <1>1, <1>3, <4>1, <4>2, <4>4
    <3> QED
      BY <3>1, <3>2, <3>3
  <2>4. ASSUME NEW d \in Desc
        PROVE  t2[d].more <=> own2[d] = Free \/ pos2[d] + 1 < len2[own2[d]]
    <3>1. t[d].more <=> own[d] = Free \/ pos[d] + 1 < len[own[d]]
      BY DEF Linked
    <3>2. CASE d = last
      <4>1. own2[d] = Free /\ t2[d].more
        BY <2>1, <3>2
      <4> QED
        BY <4>1
    <3>3. CASE d = tail
      <4>1. own2[d] = Free /\ t2[d].more = t[tail].more /\ own[d] = Free
        BY <1>1, <1>8, <2>1, <3>3
      <4> QED
        BY <3>1, <3>3, <4>1
    <3>4. CASE d # last /\ d # tail
      <4>0. t2[d] = t[d]
        BY <2>1, <3>4
      <4> HIDE DEF own2, pos2, len2
      <4>1. CASE own[d] = h
        <5>1. own2[d] = Free /\ pos[d] # len[h] - 1
          BY <1>1, <1>3, <3>4, <4>1 DEF Shared
        <5>2. pos[d] + 1 < len[own[d]]
          BY <1>1, <1>3, <4>1, <5>1
        <5> QED
          BY <3>1, <4>0, <5>1, <5>2
      <4>2. CASE own[d] = Free
        BY <1>1, <1>3, <3>1, <4>0, <4>2
      <4>3. CASE own[d] \in heads \ {h}
        <5>1. own2[d] = own[d] /\ pos2[d] = pos[d] /\ own[d] # Free /\ own[d] \in Owners(Desc)
          BY <1>1, <1>3, <4>3 DEF Owners
        <5>2. len2[own2[d]] = len[own[d]]
          BY <1>2, <5>1
        <5> QED
          BY <3>1, <4>0, <5>1, <5>2
      <4> QED
        BY <1>3, <4>1, <4>2, <4>3
    <3> QED
      BY <3>2, <3>3, <3>4
  <2> HIDE DEF own2, pos2, len2
  <2> QED
    BY <2>2, <2>3, <2>4 DEF Linked
<1>10. Ended(num + len[h], head, last, own2, pos2, len2)
  BY <1>1, <1>2, <1>8 DEF Ended
<1> HIDE DEF own2, pos2, len2, t2
<1> QED
  BY <1>7, <1>9, <1>10 DEF t2

-----------------------------------------------------------------------------
(* The inductive invariant *)

Heads == {d \in Desc : data[d] # NULL}

(* How many requests were queued, fetched, returned and read. *)
Queued == Count(avail_idx)
Taken  == Count(fetched)
Done   == Count(used_idx)
Read   == Count(last_used_idx)

Waiting  == Stretch(avail_ring, Taken, Queued)
Finished == Stretch(used_ring, Read, Done)

(* The rings: nothing is on them twice, and with what the device has they   *)
(* are the requests.                                                       *)
RingInv ==
    /\ Read <= Done /\ Done <= Taken /\ Taken <= Queued /\ Queued <= MaxRequests
    /\ last_used = last_used_idx % Num
    /\ IsFiniteSet(inflight) /\ Cardinality(inflight) = Taken - Done
    /\ Distinct(avail_ring, Taken, Queued) /\ Distinct(used_ring, Read, Done)
    /\ Waiting \cap Finished = {} /\ (Waiting \cup Finished) \cap inflight = {}
    /\ Heads = Waiting \cup inflight \cup Finished

(* The pointers. *)
DataInv ==
    /\ \A d, e \in Desc : data[d] # NULL /\ data[d] = data[e] => d = e
    /\ held = Bufs \ {data[d] : d \in Desc}

(* The call of virtio_to_queue that reads the queue first. *)
CallInv ==
    /\ pc = "idle" => request = NULL
    /\ pc = "queue" => request # NULL
    /\ request # NULL => request.buf \in held /\ Queued < MaxRequests

(* The descriptors. *)
DescInv ==
    \E own, pos, len :
        /\ Shared(Heads, own, pos, len)
        /\ Linked(desc, own, pos, len)
        /\ Ended(free_num, free_head, free_tail, own, pos, len)

Inv == TypeOK /\ RingInv /\ DataInv /\ CallInv /\ DescInv

(* The counts of the indices are counts. *)
LEMMA CountTypes ==
    ASSUME TypeOK
    PROVE  /\ Queued \in Nat /\ Taken \in Nat /\ Done \in Nat /\ Read \in Nat
           /\ avail_idx \in Index /\ fetched \in Index /\ used_idx \in Index
           /\ last_used_idx \in Index
           /\ MaxRequests \in Nat /\ MaxRequests <= Word - 1 /\ Word \in Nat
           /\ Num \in Nat \ {0}
           /\ InBound <=> Queued < MaxRequests
<1>1. /\ avail_idx \in Index /\ fetched \in Index /\ used_idx \in Index
      /\ last_used_idx \in Index
  BY DEF TypeOK
<1>2. /\ MaxRequests \in Nat /\ MaxRequests <= Word - 1 /\ Word \in Nat
      /\ Num \in Nat \ {0}
  BY NumAssumption
<1>3. /\ Queued \in Index /\ Taken \in Index /\ Done \in Index /\ Read \in Index
      /\ (avail_idx - Start) % Word = Queued
  BY <1>1, CountFacts DEF Queued, Taken, Done, Read
<1> QED
  BY <1>1, <1>2, <1>3 DEF Index, InBound

(* The size of two disjoint sets together. *)
LEMMA UnionCount ==
    ASSUME NEW S, NEW T, IsFiniteSet(S), IsFiniteSet(T), S \cap T = {}
    PROVE  /\ IsFiniteSet(S \cup T)
           /\ Cardinality(S \cup T) = Cardinality(S) + Cardinality(T)
<1>1. Cardinality(S \cap T) = 0
  BY FS_EmptySet, Zenon
<1>2. Cardinality(S) \in Nat /\ Cardinality(T) \in Nat
  BY FS_CardinalityType
<1>3. /\ IsFiniteSet(S \cup T)
      /\ Cardinality(S \cup T) = Cardinality(S) + Cardinality(T) - Cardinality(S \cap T)
  BY FS_Union, Zenon
<1> QED
  BY <1>1, <1>2, <1>3

(* There are no more requests than descriptors outside the free list, so    *)
(* fewer than the rings have slots.                                        *)
LEMMA RoomLeft ==
    ASSUME TypeOK, RingInv, DescInv
    PROVE  /\ Queued - Read + free_num <= Num
           /\ Queued - Read < Num
           /\ free_num \in 1 .. Num
<1>0. /\ Queued \in Nat /\ Taken \in Nat /\ Done \in Nat /\ Read \in Nat
      /\ Num \in Nat \ {0}
  BY CountTypes
<1>1. PICK own, pos, len :
          /\ Shared(Heads, own, pos, len)
          /\ Linked(desc, own, pos, len)
          /\ Ended(free_num, free_head, free_tail, own, pos, len)
  BY DEF DescInv
<1> DEFINE S == {d \in Desc : own[d] = Free}
<1>2. IsFiniteSet(S) /\ Cardinality(S) = free_num /\ free_num <= Num /\ free_num \in Nat
      /\ free_num > 0
  <2>1. Free \in Owners(Heads)
    BY DEF Owners
  <2>2. IsFiniteSet(S) /\ Cardinality(S) = len[Free] /\ len[Free] <= Num
    BY <1>1, <2>1, OwnCount
  <2> QED
    BY <1>1, <2>2 DEF Ended
<1>3. IsFiniteSet(Waiting) /\ Cardinality(Waiting) = Queued - Taken
  BY <1>0, StretchCount DEF RingInv, Waiting
<1>4. IsFiniteSet(Finished) /\ Cardinality(Finished) = Done - Read
  BY <1>0, StretchCount DEF RingInv, Finished
<1>5. IsFiniteSet(inflight) /\ Cardinality(inflight) = Taken - Done
  BY DEF RingInv
<1>6. /\ IsFiniteSet(Waiting \cup inflight)
      /\ Cardinality(Waiting \cup inflight) = Queued - Done
  <2>1. Waiting \cap inflight = {}
    BY DEF RingInv
  <2>2. /\ IsFiniteSet(Waiting \cup inflight)
        /\ Cardinality(Waiting \cup inflight) = Cardinality(Waiting) + Cardinality(inflight)
    BY <1>3, <1>5, <2>1, UnionCount
  <2> QED
    BY <1>0, <1>3, <1>5, <2>2
<1>8. IsFiniteSet(Heads) /\ Cardinality(Heads) = Queued - Read
  <2> DEFINE T == Waiting \cup inflight
  <2>1. T \cap Finished = {} /\ Heads = T \cup Finished
    BY DEF RingInv
  <2>2. IsFiniteSet(T) /\ Cardinality(T) = Queued - Done
    BY <1>6
  <2> HIDE DEF T
  <2>3. IsFiniteSet(Heads) /\ Cardinality(Heads) = Cardinality(T) + Cardinality(Finished)
    BY <1>4, <2>1, <2>2, UnionCount
  <2> QED
    BY <1>0, <1>4, <2>2, <2>3
<1>9. Heads \cap S = {} /\ Heads \cup S \subseteq Desc
  <2>1. \A h \in Heads : h \in Desc /\ own[h] = h /\ h # Free
    BY <1>1, NumAssumption DEF Shared, Desc, Free
  <2> QED
    BY <2>1
<1> HIDE DEF S
<1>10. /\ IsFiniteSet(Heads \cup S)
       /\ Cardinality(Heads \cup S) = Queued - Read + free_num
  <2>1. /\ IsFiniteSet(Heads \cup S)
        /\ Cardinality(Heads \cup S) = Cardinality(Heads) + Cardinality(S)
    BY <1>2, <1>8, <1>9, UnionCount
  <2> QED
    BY <1>0, <1>2, <1>8, <2>1
<1>11. IsFiniteSet(Desc) /\ Cardinality(Desc) = Num
  BY <1>0, IntervalCount DEF Desc
<1>12. Cardinality(Heads \cup S) <= Num
  BY <1>9, <1>11, FS_Subset
<1> QED
  BY <1>0, <1>2, <1>10, <1>12

(* The invariant holds in the initial states. *)
LEMMA InitInv == Init => Inv
<1> SUFFICES ASSUME Init
             PROVE  Inv
  OBVIOUS
<1>0. Num \in Nat \ {0} /\ Word \in Nat /\ Word > 0 /\ Start \in Index /\ Start % Num = 0
      /\ MaxRequests \in Nat
  BY NumAssumption DEF Index
<1>1. \A d \in Desc : (d + 1) % Num \in Desc /\ (d + 1 < Num => (d + 1) % Num = d + 1)
  <2> SUFFICES ASSUME NEW d \in Desc
               PROVE  (d + 1) % Num \in Desc /\ (d + 1 < Num => (d + 1) % Num = d + 1)
    OBVIOUS
  <2>1. d + 1 \in Int
    BY DEF Desc
  <2>2. (d + 1) % Num \in Desc
    BY <2>1, SlotType
  <2>3. d + 1 < Num => d + 1 \in 0 .. Num - 1
    BY <1>0 DEF Desc
  <2> QED
    BY <1>0, <2>2, <2>3, ModSmall
<1>2. TypeOK
  <2>1. desc \in [Desc -> [next : Desc, more : BOOLEAN]]
    BY <1>1 DEF Init
  <2> QED
    BY <1>0, <2>1 DEF Init, TypeOK, Desc
<1>3. Heads = {}
  BY DEF Heads, Init
<1>4. Queued = 0 /\ Taken = 0 /\ Done = 0 /\ Read = 0
  BY <1>0 DEF Init, Queued, Taken, Done, Read, Count, Index
<1>5. RingInv
  <2>1. Waiting = {} /\ Finished = {}
    BY <1>4 DEF Waiting, Finished, Stretch
  <2>2. Distinct(avail_ring, Taken, Queued) /\ Distinct(used_ring, Read, Done)
    BY <1>4 DEF Distinct
  <2>3. IsFiniteSet(inflight) /\ Cardinality(inflight) = 0
    BY FS_EmptySet DEF Init
  <2> QED
    BY <1>0, <1>3, <1>4, <2>1, <2>2, <2>3 DEF RingInv, Init
<1>6. DataInv
  BY RequestAssumption DEF Init, DataInv
<1>7. CallInv
  BY DEF Init, CallInv
<1>8. DescInv
  <2> DEFINE own == [d \in Desc |-> Free]
             pos == [d \in Desc |-> d]
             len == [o \in Owners(Desc) |-> Num]
  <2>1. Shared(Heads, own, pos, len)
    BY <1>0, <1>3 DEF Shared, Owners, Desc
  <2>2. Linked(desc, own, pos, len)
    BY <1>0, <1>1, <1>2 DEF Linked, Init, TypeOK, Owners
  <2>3. Ended(free_num, free_head, free_tail, own, pos, len)
    BY <1>0 DEF Ended, Init, Owners, Desc
  <2> HIDE DEF own, pos, len
  <2> QED
    BY <2>1, <2>2, <2>3 DEF DescInv
<1> QED
  BY <1>2, <1>5, <1>6, <1>7, <1>8 DEF Inv

-----------------------------------------------------------------------------
(* One lemma for each way the state changes *)

(* What Inv says of everything but the call that is under way. *)
ListTypes ==
    /\ desc \in [Desc -> [next : Desc, more : BOOLEAN]]
    /\ data \in [Desc -> Bufs \cup {NULL}]
    /\ free_num \in 0 .. Num
    /\ {free_head, free_tail, last_used} \subseteq Desc
    /\ {last_used_idx, avail_idx, used_idx, fetched} \subseteq Index
    /\ avail_ring \in [Desc -> Desc] /\ used_ring \in [Desc -> Desc]
    /\ held \subseteq Bufs
    /\ inflight \subseteq Desc

QueueInv == ListTypes /\ RingInv /\ DataInv /\ DescInv

(* virtio_to_queue takes descriptors and offers them to the device. *)
LEMMA EnqueueStep ==
    ASSUME Inv, NEW n \in Sizes, NEW b \in held, Queued < MaxRequests, ~NoRoom(n),
           Enqueue(n, b), UNCHANGED <<usedvars, readvars, devicevars>>
    PROVE  QueueInv'
<1>0. TypeOK /\ RingInv /\ DataInv /\ DescInv /\ ListTypes
  BY DEF Inv, TypeOK, ListTypes
<1>1. /\ Queued \in Nat /\ Taken \in Nat /\ Done \in Nat /\ Read \in Nat
      /\ avail_idx \in Index /\ Num \in Nat \ {0} /\ Word \in Nat /\ MaxRequests <= Word - 1
      /\ MaxRequests \in Nat
  BY <1>0, CountTypes
<1>2. Queued - Read < Num /\ free_num \in 1 .. Num
  BY <1>0, RoomLeft
<1>3. n \in Nat \ {0} /\ n < free_num
  BY <1>1, <1>2, RequestAssumption DEF NoRoom
<1>4. /\ avail_idx' = Inc(avail_idx) /\ avail_idx' \in Index
      /\ Queued' = Queued + 1 /\ AvailSlot = Queued % Num
  <2>1. avail_idx' = Inc(avail_idx)
    BY DEF Enqueue
  <2> QED
    BY <1>1, <2>1, CountFacts DEF Queued, AvailSlot
<1>5. Taken' = Taken /\ Done' = Done /\ Read' = Read
  BY DEF Taken, Done, Read, Count, usedvars, readvars, devicevars
<1>6. PICK own, pos, len :
          /\ Shared(Heads, own, pos, len)
          /\ Linked(desc, own, pos, len)
          /\ Ended(free_num, free_head, free_tail, own, pos, len)
  BY <1>0 DEF DescInv
<1>7. free_head \in Desc /\ own[free_head] = Free /\ pos[free_head] = 0 /\ len[Free] = free_num
      /\ free_tail \in Desc
  BY <1>6 DEF Ended
<1>8. free_head \notin Heads /\ data[free_head] = NULL
  <2>1. \A h \in Heads : own[h] # Free
    BY <1>6, NumAssumption DEF Shared, Desc, Free
  <2> QED
    BY <1>7, <2>1 DEF Heads
<1>9. b \in Bufs /\ b # NULL /\ \A d \in Desc : data[d] # b
  BY <1>0, RequestAssumption DEF TypeOK, DataInv
<1>10. data' = [data EXCEPT ![free_head] = b] /\ held' = held \ {b}
  BY DEF Enqueue
<1>11. Heads' = Heads \cup {free_head}
  BY <1>0, <1>7, <1>9, <1>10 DEF Heads, TypeOK
<1>12. RingInv'
  <2>1. avail_ring' = [avail_ring EXCEPT ![Queued % Num] = free_head]
    BY <1>4 DEF Enqueue
  <2>2. avail_ring \in [Desc -> Desc] /\ Taken <= Queued /\ Queued < Taken + Num
        /\ Distinct(avail_ring, Taken, Queued)
    BY <1>0, <1>1, <1>2 DEF TypeOK, RingInv
  <2>3. free_head \notin Stretch(avail_ring, Taken, Queued)
    BY <1>0, <1>8 DEF RingInv, Waiting
  <2>4. /\ Stretch(avail_ring', Taken, Queued + 1) = Stretch(avail_ring, Taken, Queued) \cup {free_head}
        /\ Distinct(avail_ring', Taken, Queued + 1)
    <3>1. Taken \in Int /\ Queued \in Int
      BY <1>1
    <3>2. \A r, x, s :
              /\ r \in [Desc -> Desc] /\ Distinct(r, Taken, Queued)
              /\ x \notin Stretch(r, Taken, Queued) /\ s = [r EXCEPT ![Queued % Num] = x]
              => /\ Stretch(s, Taken, Queued + 1) = Stretch(r, Taken, Queued) \cup {x}
                 /\ Distinct(s, Taken, Queued + 1)
      BY <2>2, <3>1, StretchAdd
    <3> QED
      BY <2>1, <2>2, <2>3, <3>2
  <2>5. Waiting' = Waiting \cup {free_head} /\ Distinct(avail_ring, Taken, Queued)'
    BY <1>4, <1>5, <2>4 DEF Waiting, Stretch, Distinct
  <2>6. Finished' = Finished /\ inflight' = inflight /\ Distinct(used_ring, Read, Done)'
    <3>1. used_ring' = used_ring /\ inflight' = inflight
      BY DEF usedvars, devicevars
    <3> QED
      BY <1>0, <1>5, <3>1 DEF Finished, Stretch, Distinct, RingInv
  <2>7. last_used' = last_used /\ last_used_idx' = last_used_idx
    BY DEF readvars
  <2>8. /\ Read <= Done /\ Done <= Taken /\ Taken <= Queued
        /\ last_used = last_used_idx % Num
        /\ IsFiniteSet(inflight) /\ Cardinality(inflight) = Taken - Done
        /\ Waiting \cap Finished = {} /\ (Waiting \cup Finished) \cap inflight = {}
        /\ Heads = Waiting \cup inflight \cup Finished
    BY <1>0 DEF RingInv
  <2>9. /\ (Waiting \cap Finished)' = {} /\ ((Waiting \cup Finished) \cap inflight)' = {}
        /\ Heads' = (Waiting \cup inflight \cup Finished)'
    BY <1>8, <1>11, <2>5, <2>6, <2>8
  <2>10. (Read <= Done /\ Done <= Taken /\ Taken <= Queued /\ Queued <= MaxRequests)'
    BY <1>1, <1>4, <1>5, <2>8
  <2>11. (IsFiniteSet(inflight) /\ Cardinality(inflight) = Taken - Done)'
    BY <1>5, <2>6, <2>8
  <2>12. (last_used = last_used_idx % Num)'
    BY <2>7, <2>8
  <2> QED
    BY <2>5, <2>6, <2>9, <2>10, <2>11, <2>12 DEF RingInv
<1>13. DataInv'
  <2>1. \A d \in Desc : data'[d] = IF d = free_head THEN b ELSE data[d]
    BY <1>0, <1>10 DEF TypeOK
  <2>2. \A d, e \in Desc : data'[d] # NULL /\ data'[d] = data'[e] => d = e
    BY <1>0, <1>9, <2>1 DEF DataInv
  <2>3. {data'[d] : d \in Desc} \cap Bufs = ({data[d] : d \in Desc} \cap Bufs) \cup {b}
    <3>1. NULL \notin Bufs
      BY RequestAssumption
    <3> QED
      BY <1>7, <1>8, <1>9, <2>1, <3>1
  <2>4. held' = Bufs \ {data'[d] : d \in Desc}
    BY <1>0, <1>10, <2>3 DEF DataInv
  <2> QED
    BY <2>2, <2>4 DEF DataInv
<1>14. PICK first \in Desc : own[first] = Free /\ pos[first] = n /\ free_head' = first
  <2>1. n \in 0 .. len[own[free_head]] - 1
    BY <1>2, <1>3, <1>7
  <2>2. LET e == Follow(desc, free_head, n)
        IN  e \in Desc /\ own[e] = own[free_head] /\ pos[e] = n
    BY <1>6, <1>7, <2>1, WalkAt
  <2>3. free_head' = Follow(desc, free_head, n)
    BY DEF Enqueue
  <2> QED
    BY <1>7, <2>2, <2>3
<1> DEFINE Part(d) == own[d] = Free /\ pos[d] < n
<1>15. desc' = [d \in Desc |-> IF Part(d) THEN [desc[d] EXCEPT !.more = (pos[d] # n - 1)]
                                          ELSE desc[d]]
  <2> DEFINE chain == {Follow(desc, free_head, k) : k \in 0 .. n - 1}
             last  == Follow(desc, free_head, n - 1)
  <2>1. \A k \in 0 .. n - 1 : LET e == Follow(desc, free_head, k)
                              IN  e \in Desc /\ own[e] = Free /\ pos[e] = k
    <3> SUFFICES ASSUME NEW k \in 0 .. n - 1
                 PROVE  LET e == Follow(desc, free_head, k)
                        IN  e \in Desc /\ own[e] = Free /\ pos[e] = k
      OBVIOUS
    <3>1. k \in 0 .. len[own[free_head]] - 1
      BY <1>2, <1>3, <1>7
    <3> QED
      BY <1>6, <1>7, <3>1, WalkAt
  <2>2. \A d \in Desc : d \in chain <=> Part(d)
    <3> SUFFICES ASSUME NEW d \in Desc
                 PROVE  d \in chain <=> Part(d)
      OBVIOUS
    <3>1. pos[d] \in Nat
      BY <1>6 DEF Shared
    <3>2. d \in chain => Part(d)
      BY <1>3, <2>1
    <3>3. ASSUME Part(d) PROVE d \in chain
      <4>1. Follow(desc, free_head, pos[d]) = d
        BY <1>6, <1>7, <3>3, WalkFinds
      <4>2. pos[d] \in 0 .. n - 1
        BY <1>3, <3>1, <3>3
      <4> QED
        BY <4>1, <4>2
    <3> QED
      BY <3>2, <3>3
  <2>3. \A d \in Desc : Part(d) => (d # last <=> pos[d] # n - 1)
    <3>1. n - 1 \in 0 .. n - 1
      BY <1>3
    <3>2. last \in Desc /\ own[last] = Free /\ pos[last] = n - 1
      BY <2>1, <3>1
    <3> HIDE DEF last
    <3> QED
      BY <1>6, <3>2 DEF Shared
  <2>4. desc' = [d \in Desc |-> IF d \in chain THEN [desc[d] EXCEPT !.more = (d # last)]
                                               ELSE desc[d]]
    BY Zenon DEF Enqueue, set_direct_descriptors
  <2> HIDE DEF chain, last
  <2>5. \A d \in Desc : (IF d \in chain THEN [desc[d] EXCEPT !.more = (d # last)] ELSE desc[d])
                      = (IF Part(d) THEN [desc[d] EXCEPT !.more = (pos[d] # n - 1)] ELSE desc[d])
    <3> SUFFICES ASSUME NEW d \in Desc
                 PROVE  (IF d \in chain THEN [desc[d] EXCEPT !.more = (d # last)] ELSE desc[d])
                      = (IF Part(d) THEN [desc[d] EXCEPT !.more = (pos[d] # n - 1)] ELSE desc[d])
      OBVIOUS
    <3>1. CASE Part(d)
      <4>1. (d # last) = (pos[d] # n - 1)
        BY <2>3, <3>1
      <4> QED
        BY <2>2, <3>1, <4>1, Zenon
    <3>2. CASE ~Part(d)
      BY <2>2, <3>2, Zenon
    <3> QED
      BY <3>1, <3>2, Zenon
  <2> QED
    BY <2>4, <2>5, Zenon
<1>16. DescInv'
  <2>1. PICK own2, pos2, len2 :
            /\ Shared(Heads \cup {free_head}, own2, pos2, len2)
            /\ Linked(desc', own2, pos2, len2)
            /\ Ended(free_num - n, free_head', free_tail, own2, pos2, len2)
    <3>1. desc' = TakeTable(desc, own, pos, n)
      BY <1>15, Zenon DEF TakeTable
    <3>2. \E own2, pos2, len2 :
              /\ Shared(Heads \cup {free_head}, own2, pos2, len2)
              /\ Linked(TakeTable(desc, own, pos, n), own2, pos2, len2)
              /\ Ended(free_num - n, first, free_tail, own2, pos2, len2)
      BY <1>3, <1>6, <1>14, Taking
    <3> QED
      BY <1>14, <3>1, <3>2, Zenon
  <2>2. free_num' = free_num - n /\ free_tail' = free_tail
    BY DEF Enqueue
  <2>3. /\ Shared(Heads', own2, pos2, len2)
        /\ Linked(desc', own2, pos2, len2)
        /\ Ended(free_num', free_head', free_tail', own2, pos2, len2)
    BY <1>11, <2>1, <2>2
  <2> QED
    BY <2>3 DEF DescInv, Shared, Linked, Ended
<1>17. ListTypes'
  <2>1. desc' \in [Desc -> [next : Desc, more : BOOLEAN]]
    BY <1>16 DEF DescInv, Linked
  <2>2. data' \in [Desc -> Bufs \cup {NULL}] /\ held' \subseteq Bufs
    BY <1>0, <1>9, <1>10 DEF TypeOK
  <2>3. free_num' \in 0 .. Num /\ free_head' \in Desc /\ free_tail' \in Desc
    BY <1>1, <1>2, <1>3, <1>7, <1>14 DEF Enqueue
  <2>4. avail_ring' \in [Desc -> Desc]
    BY <1>0, <1>7 DEF Enqueue, TypeOK
  <2> QED
    BY <1>0, <1>4, <2>1, <2>2, <2>3, <2>4 DEF ListTypes, usedvars, readvars, devicevars
<1> QED
  BY <1>12, <1>13, <1>16, <1>17 DEF QueueInv

(* virtio_from_queue reads a returned request and frees its chain. *)
LEMMA FromQueueStep ==
    ASSUME Inv, ~NothingUsed,
           last_used' = NextSlot, last_used_idx' = Inc(last_used_idx),
           FreeChain(UsedElement), held' = held \cup {data[UsedElement]},
           data' = [data EXCEPT ![UsedElement] = NULL],
           UNCHANGED <<availvars, usedvars, devicevars>>
    PROVE  QueueInv' /\ held \subseteq held'
<1> DEFINE h == UsedElement
<1>0. TypeOK /\ RingInv /\ DataInv /\ DescInv
  BY DEF Inv
<1>1. /\ Queued \in Nat /\ Taken \in Nat /\ Done \in Nat /\ Read \in Nat
      /\ last_used_idx \in Index /\ used_idx \in Index
      /\ Num \in Nat \ {0} /\ Word \in Nat /\ MaxRequests <= Word - 1 /\ MaxRequests \in Nat
  BY <1>0, CountTypes
<1>2. Queued - Read < Num /\ free_num \in 1 .. Num
  BY <1>0, RoomLeft
<1>3. last_used = Read % Num /\ used_idx % Num = Done % Num
  BY <1>0, <1>1, CountFacts DEF RingInv, Read, Done
<1>4. Read < Done
  <2>1. Read # Done
    BY <1>3 DEF NothingUsed
  <2> QED
    BY <1>0, <1>1, <2>1 DEF RingInv
<1>5. Read < Word - 1 /\ Read' = Read + 1 /\ last_used_idx' \in Index
      /\ last_used' = last_used_idx' % Num
  <2>1. Read < Word - 1
    BY <1>0, <1>1, <1>4 DEF RingInv
  <2>2. Read' = Read + 1 /\ last_used_idx' \in Index
    BY <1>1, <2>1, CountFacts DEF Read
  <2>3. last_used_idx' % Num = Read' % Num
    BY <2>2, CountFacts DEF Read
  <2>4. ((Read % Num) + 1) % Num = (Read + 1) % Num
    <3>1. Read \in Int /\ 1 \in Int
      BY <1>1
    <3> QED
      BY <1>1, <3>1, ModAdd, Zenon
  <2> QED
    BY <1>3, <2>1, <2>2, <2>3, <2>4 DEF NextSlot
<1>6. Queued' = Queued /\ Taken' = Taken /\ Done' = Done
  BY DEF Queued, Taken, Done, Count, usedvars, availvars, devicevars
<1>7. h = used_ring[Read % Num] /\ h \in Finished
      /\ Stretch(used_ring, Read + 1, Done) = Finished \ {h} /\ Distinct(used_ring, Read + 1, Done)
  <2>1. h = used_ring[Read % Num]
    BY <1>3 DEF UsedElement
  <2>2. Read \in Int /\ Done \in Int /\ Distinct(used_ring, Read, Done)
    BY <1>0, <1>1 DEF RingInv
  <2>3. /\ used_ring[Read % Num] \in Stretch(used_ring, Read, Done)
        /\ Stretch(used_ring, Read + 1, Done)
               = Stretch(used_ring, Read, Done) \ {used_ring[Read % Num]}
        /\ Distinct(used_ring, Read + 1, Done)
    BY <1>4, <2>2, StretchDrop
  <2> HIDE DEF h
  <2> QED
    BY <2>1, <2>3 DEF Finished
<1>8. h \in Heads /\ h \in Desc /\ data[h] # NULL /\ data[h] \in Bufs
  <2>1. h \in Heads
    BY <1>0, <1>7 DEF RingInv
  <2> HIDE DEF h
  <2> QED
    BY <1>0, <2>1 DEF Heads, TypeOK
<1> HIDE DEF h
<1>9. data' = [data EXCEPT ![h] = NULL] /\ held' = held \cup {data[h]}
  BY DEF h
<1>10. Heads' = Heads \ {h}
  BY <1>0, <1>8, <1>9 DEF Heads, TypeOK
<1>11. RingInv'
  <2>1. Finished' = Finished \ {h} /\ Distinct(used_ring, Read, Done)'
    <3>1. used_ring' = used_ring
      BY DEF usedvars
    <3> QED
      BY <1>5, <1>6, <1>7, <3>1 DEF Finished, Stretch, Distinct
  <2>2. Waiting' = Waiting /\ inflight' = inflight /\ Distinct(avail_ring, Taken, Queued)'
    <3>1. avail_ring' = avail_ring /\ inflight' = inflight
      BY DEF availvars, devicevars
    <3> QED
      BY <1>0, <1>6, <3>1 DEF Waiting, Stretch, Distinct, RingInv
  <2>3. /\ Read <= Done /\ Done <= Taken /\ Taken <= Queued /\ Queued <= MaxRequests
        /\ IsFiniteSet(inflight) /\ Cardinality(inflight) = Taken - Done
        /\ Waiting \cap Finished = {} /\ (Waiting \cup Finished) \cap inflight = {}
        /\ Heads = Waiting \cup inflight \cup Finished
    BY <1>0 DEF RingInv
  <2>4. /\ (Waiting \cap Finished)' = {} /\ ((Waiting \cup Finished) \cap inflight)' = {}
        /\ Heads' = (Waiting \cup inflight \cup Finished)'
    BY <1>7, <1>10, <2>1, <2>2, <2>3
  <2>5. (Read <= Done /\ Done <= Taken /\ Taken <= Queued /\ Queued <= MaxRequests)'
    BY <1>1, <1>4, <1>5, <1>6, <2>3
  <2>6. (IsFiniteSet(inflight) /\ Cardinality(inflight) = Taken - Done)'
    BY <1>6, <2>2, <2>3
  <2> QED
    BY <1>5, <2>1, <2>2, <2>4, <2>5, <2>6 DEF RingInv
<1>12. DataInv'
  <2>1. \A d \in Desc : data'[d] = IF d = h THEN NULL ELSE data[d]
    BY <1>0, <1>9 DEF TypeOK
  <2>2. \A d, e \in Desc : data'[d] # NULL /\ data'[d] = data'[e] => d = e
    BY <1>0, <2>1 DEF DataInv
  <2>3. {data'[d] : d \in Desc} \cap Bufs = ({data[d] : d \in Desc} \cap Bufs) \ {data[h]}
    <3>1. NULL \notin Bufs
      BY RequestAssumption
    <3>2. \A d \in Desc : data[d] = data[h] => d = h
      BY <1>0, <1>8 DEF DataInv
    <3> QED
      BY <1>8, <2>1, <3>1, <3>2
  <2>4. held' = Bufs \ {data'[d] : d \in Desc}
    <3>1. held = Bufs \ {data[d] : d \in Desc}
      BY <1>0 DEF DataInv
    <3> QED
      BY <1>8, <1>9, <2>3, <3>1
  <2> QED
    BY <2>2, <2>4 DEF DataInv
<1>13. PICK own, pos, len :
          /\ Shared(Heads, own, pos, len)
          /\ Linked(desc, own, pos, len)
          /\ Ended(free_num, free_head, free_tail, own, pos, len)
  BY <1>0 DEF DescInv
<1> DEFINE t == [desc EXCEPT ![free_tail].next = h]
           last == ChainLast(t, h)
<1>14. Linked(t, own, pos, len)
  <2>0. desc \in [Desc -> [next : Desc, more : BOOLEAN]] /\ free_tail \in Desc
    BY <1>0 DEF TypeOK
  <2>1. t \in [Desc -> [next : Desc, more : BOOLEAN]]
    BY <1>8, <2>0
  <2>2. \A d \in Desc : t[d].more = desc[d].more /\ (d # free_tail => t[d] = desc[d])
    BY <2>0
  <2>3. pos[free_tail] + 1 = len[own[free_tail]]
    BY <1>13 DEF Ended
  <2>4. len[own[free_tail]] \in Nat /\ own[free_tail] = Free /\ free_num \in Nat
    BY <1>13 DEF Ended
  <2> HIDE DEF t
  <2>5. \A d \in Desc : pos[d] + 1 < len[own[d]] =>
            own[t[d].next] = own[d] /\ pos[t[d].next] = pos[d] + 1
    <3> SUFFICES ASSUME NEW d \in Desc, pos[d] + 1 < len[own[d]]
                 PROVE  own[t[d].next] = own[d] /\ pos[t[d].next] = pos[d] + 1
      OBVIOUS
    <3>1. d # free_tail
      BY <2>3, <2>4
    <3> QED
      BY <1>13, <2>2, <3>1 DEF Linked
  <2>6. \A d \in Desc : t[d].more <=> own[d] = Free \/ pos[d] + 1 < len[own[d]]
    BY <1>13, <2>2 DEF Linked
  <2> QED
    BY <2>1, <2>5, <2>6 DEF Linked
<1> HIDE DEF t
<1>15. /\ last.at \in Desc /\ own[last.at] = h /\ pos[last.at] = len[h] - 1
       /\ last.count = len[h] /\ len[h] > 0
  BY <1>8, <1>13, <1>14, ChainLastFound
<1>16. /\ desc' = [t EXCEPT ![last.at] = [next |-> free_head, more |-> TRUE]]
       /\ free_tail' = last.at /\ free_num' = free_num + last.count /\ free_head' = free_head
  BY Zenon DEF FreeChain, h, t
<1> HIDE DEF last
<1>17. DescInv'
  <2>1. desc' = GiveTable(desc, h, free_head, free_tail, last.at)
    BY <1>16, Zenon DEF GiveTable, t
  <2>2. PICK own2, pos2, len2 :
            /\ Shared(Heads \ {h}, own2, pos2, len2)
            /\ Linked(GiveTable(desc, h, free_head, free_tail, last.at), own2, pos2, len2)
            /\ Ended(free_num + len[h], free_head, last.at, own2, pos2, len2)
    BY <1>8, <1>13, <1>15, Giving
  <2>3. /\ Shared(Heads', own2, pos2, len2)
        /\ Linked(desc', own2, pos2, len2)
        /\ Ended(free_num', free_head', free_tail', own2, pos2, len2)
    BY <1>10, <1>15, <1>16, <2>1, <2>2
  <2> QED
    BY <2>3 DEF DescInv, Shared, Linked, Ended
<1>18. free_num' \in 0 .. Num
  <2>1. PICK own2, pos2, len2 :
            /\ Shared(Heads', own2, pos2, len2)
            /\ Ended(free_num', free_head', free_tail', own2, pos2, len2)
    BY <1>17 DEF DescInv, Shared, Ended
  <2>2. Free \in Owners(Heads')
    BY DEF Owners
  <2>3. len2[Free] <= Num
    BY <2>1, <2>2, OwnCount
  <2> QED
    BY <1>1, <2>1, <2>3 DEF Ended
<1>19. ListTypes'
  <2>1. desc' \in [Desc -> [next : Desc, more : BOOLEAN]]
    BY <1>17 DEF DescInv, Linked
  <2>2. data' \in [Desc -> Bufs \cup {NULL}] /\ held' \subseteq Bufs
    BY <1>0, <1>8, <1>9 DEF TypeOK
  <2>3. last_used' \in Desc
    <3>1. last_used_idx' \in Int
      BY <1>1, <1>5 DEF Index
    <3> QED
      BY <1>5, <3>1, SlotType
  <2>4. free_head' \in Desc /\ free_tail' \in Desc
    BY <1>0, <1>15, <1>16 DEF TypeOK
  <2> QED
    BY <1>0, <1>5, <1>18, <2>1, <2>2, <2>3, <2>4 DEF ListTypes, TypeOK, usedvars, availvars, devicevars
<1> QED
  BY <1>9, <1>11, <1>12, <1>17, <1>19 DEF QueueInv

(* The descriptors' part of the invariant depends on these alone. *)
LEMMA DescStays ==
    ASSUME DescInv, UNCHANGED <<desc, data, free_num, free_head, free_tail>>
    PROVE  DescInv'
<1>1. PICK own, pos, len :
          /\ Shared(Heads, own, pos, len)
          /\ Linked(desc, own, pos, len)
          /\ Ended(free_num, free_head, free_tail, own, pos, len)
  BY DEF DescInv
<1>2. Heads' = Heads
  BY DEF Heads
<1>3. /\ Shared(Heads', own, pos, len)
      /\ Linked(desc', own, pos, len)
      /\ Ended(free_num', free_head', free_tail', own, pos, len)
  BY <1>1, <1>2
<1> QED
  BY <1>3 DEF DescInv, Shared, Linked, Ended

(* The device fetches a request. *)
LEMMA FetchStep ==
    ASSUME Inv, DeviceFetch
    PROVE  Inv'
<1> DEFINE d == avail_ring[fetched % Num]
<1>0. TypeOK /\ RingInv /\ DataInv /\ DescInv /\ CallInv
  BY DEF Inv
<1>1. /\ Queued \in Nat /\ Taken \in Nat /\ Done \in Nat /\ Read \in Nat
      /\ fetched \in Index /\ avail_idx \in Index
      /\ Num \in Nat \ {0} /\ Word \in Nat /\ MaxRequests <= Word - 1 /\ MaxRequests \in Nat
  BY <1>0, CountTypes
<1>2. UNCHANGED <<listvars, availvars, usedvars, readvars, request, pc>>
      /\ fetched # avail_idx /\ fetched' = Inc(fetched) /\ inflight' = inflight \cup {d}
  BY DEF DeviceFetch
<1>3. Taken < Queued
  <2>1. Taken <= Queued
    BY <1>0 DEF RingInv
  <2>2. Taken # Queued
    BY <1>1, <1>2, <2>1, CountDistance DEF Taken, Queued
  <2> QED
    BY <1>1, <2>1, <2>2
<1>4. Taken' = Taken + 1 /\ fetched' \in Index /\ fetched % Num = Taken % Num
  <2>1. Taken < Word - 1
    BY <1>0, <1>1, <1>3 DEF RingInv
  <2> QED
    BY <1>1, <1>2, <2>1, CountFacts DEF Taken
<1>5. Queued' = Queued /\ Done' = Done /\ Read' = Read
  BY <1>2 DEF Queued, Done, Read, Count, availvars, usedvars, readvars
<1>6. /\ d \in Waiting /\ Stretch(avail_ring, Taken + 1, Queued) = Waiting \ {d}
      /\ Distinct(avail_ring, Taken + 1, Queued)
  <2>1. Taken \in Int /\ Queued \in Int /\ Distinct(avail_ring, Taken, Queued)
    BY <1>0, <1>1 DEF RingInv
  <2>2. /\ avail_ring[Taken % Num] \in Stretch(avail_ring, Taken, Queued)
        /\ Stretch(avail_ring, Taken + 1, Queued)
               = Stretch(avail_ring, Taken, Queued) \ {avail_ring[Taken % Num]}
        /\ Distinct(avail_ring, Taken + 1, Queued)
    BY <1>3, <2>1, StretchDrop
  <2> QED
    BY <1>4, <2>2 DEF Waiting
<1> HIDE DEF d
<1>7. /\ Read <= Done /\ Done <= Taken /\ Taken <= Queued /\ Queued <= MaxRequests
      /\ last_used = last_used_idx % Num
      /\ IsFiniteSet(inflight) /\ Cardinality(inflight) = Taken - Done
      /\ Waiting \cap Finished = {} /\ (Waiting \cup Finished) \cap inflight = {}
      /\ Heads = Waiting \cup inflight \cup Finished
      /\ Distinct(used_ring, Read, Done)
  BY <1>0 DEF RingInv
<1>8. Waiting' = Waiting \ {d} /\ Distinct(avail_ring, Taken, Queued)'
  BY <1>2, <1>4, <1>5, <1>6 DEF Waiting, Stretch, Distinct, availvars
<1>9. Finished' = Finished /\ Distinct(used_ring, Read, Done)'
  BY <1>2, <1>5, <1>7 DEF Finished, Stretch, Distinct, usedvars
<1>10. Heads' = Heads
  BY <1>2 DEF Heads, listvars
<1>11. d \notin inflight /\ d \notin Finished /\ d \in Desc
  <2>1. d \in Heads
    BY <1>6, <1>7
  <2> QED
    BY <1>6, <1>7, <2>1 DEF Heads
<1>12. (IsFiniteSet(inflight) /\ Cardinality(inflight) = Taken - Done)'
  <2>1. IsFiniteSet(inflight \cup {d}) /\ Cardinality(inflight \cup {d}) = Cardinality(inflight) + 1
    BY <1>7, <1>11, FS_AddElement
  <2> QED
    BY <1>1, <1>2, <1>4, <1>5, <1>7, <2>1
<1>13. RingInv'
  <2>1. /\ (Waiting \cap Finished)' = {} /\ ((Waiting \cup Finished) \cap inflight)' = {}
        /\ Heads' = (Waiting \cup inflight \cup Finished)'
    BY <1>2, <1>6, <1>7, <1>8, <1>9, <1>10, <1>11
  <2>2. (Read <= Done /\ Done <= Taken /\ Taken <= Queued /\ Queued <= MaxRequests)'
    BY <1>1, <1>3, <1>4, <1>5, <1>7
  <2>3. (last_used = last_used_idx % Num)'
    BY <1>2, <1>7 DEF readvars
  <2> QED
    BY <1>8, <1>9, <1>12, <2>1, <2>2, <2>3 DEF RingInv
<1>14. TypeOK'
  BY <1>0, <1>2, <1>4, <1>11 DEF TypeOK, listvars, availvars, usedvars, readvars
<1>15. DataInv'
  BY <1>0, <1>2 DEF DataInv, listvars
<1>16. CallInv'
  BY <1>0, <1>2, <1>5 DEF CallInv, listvars
<1>17. DescInv'
  BY <1>0, <1>2, DescStays DEF listvars
<1> QED
  BY <1>13, <1>14, <1>15, <1>16, <1>17 DEF Inv

(* The device returns a request. *)
LEMMA UseStep ==
    ASSUME Inv, NEW d \in inflight, DeviceUse(d)
    PROVE  Inv'
<1>0. TypeOK /\ RingInv /\ DataInv /\ DescInv /\ CallInv
  BY DEF Inv
<1>1. /\ Queued \in Nat /\ Taken \in Nat /\ Done \in Nat /\ Read \in Nat
      /\ used_idx \in Index
      /\ Num \in Nat \ {0} /\ Word \in Nat /\ MaxRequests <= Word - 1 /\ MaxRequests \in Nat
  BY <1>0, CountTypes
<1>2. /\ UNCHANGED <<listvars, availvars, readvars, request, pc, fetched>>
      /\ inflight' = inflight \ {d} /\ used_idx' = Inc(used_idx)
      /\ used_ring' = [used_ring EXCEPT ![used_idx % Num] = d]
  BY DEF DeviceUse
<1>3. /\ Read <= Done /\ Done <= Taken /\ Taken <= Queued /\ Queued <= MaxRequests
      /\ last_used = last_used_idx % Num
      /\ IsFiniteSet(inflight) /\ Cardinality(inflight) = Taken - Done
      /\ Waiting \cap Finished = {} /\ (Waiting \cup Finished) \cap inflight = {}
      /\ Heads = Waiting \cup inflight \cup Finished
      /\ Distinct(used_ring, Read, Done) /\ Distinct(avail_ring, Taken, Queued)
  BY <1>0 DEF RingInv
<1>4. /\ IsFiniteSet(inflight') /\ Cardinality(inflight') = Cardinality(inflight) - 1
      /\ Cardinality(inflight') \in Nat
  <2>1. IsFiniteSet(inflight \ {d}) /\ Cardinality(inflight \ {d}) = Cardinality(inflight) - 1
    BY <1>3, FS_RemoveElement
  <2>2. Cardinality(inflight \ {d}) \in Nat
    BY <2>1, FS_CardinalityType
  <2> QED
    BY <1>2, <2>1, <2>2
<1>5. Done < Taken
  BY <1>1, <1>3, <1>4
<1>6. Done' = Done + 1 /\ used_idx' \in Index /\ used_idx % Num = Done % Num
  <2>1. Done < Word - 1
    BY <1>1, <1>3, <1>5
  <2> QED
    BY <1>1, <1>2, <2>1, CountFacts DEF Done
<1>7. Queued' = Queued /\ Taken' = Taken /\ Read' = Read
  BY <1>2 DEF Queued, Taken, Read, Count, availvars, readvars
<1>8. Queued - Read < Num
  BY <1>0, RoomLeft
<1>9. Finished' = Finished \cup {d} /\ Distinct(used_ring, Read, Done)'
  <2>1. used_ring' = [used_ring EXCEPT ![Done % Num] = d] /\ used_ring \in [Desc -> Desc]
    BY <1>0, <1>2, <1>6 DEF TypeOK
  <2>2. Read \in Int /\ Done \in Int /\ Read <= Done /\ Done < Read + Num
        /\ d \notin Stretch(used_ring, Read, Done)
    BY <1>1, <1>3, <1>5, <1>8 DEF Finished
  <2>3. \A r, x, s :
            /\ r \in [Desc -> Desc] /\ Distinct(r, Read, Done)
            /\ x \notin Stretch(r, Read, Done) /\ s = [r EXCEPT ![Done % Num] = x]
            => /\ Stretch(s, Read, Done + 1) = Stretch(r, Read, Done) \cup {x}
               /\ Distinct(s, Read, Done + 1)
    BY <2>2, StretchAdd
  <2>4. /\ Stretch(used_ring', Read, Done + 1) = Stretch(used_ring, Read, Done) \cup {d}
        /\ Distinct(used_ring', Read, Done + 1)
    BY <1>3, <2>1, <2>2, <2>3
  <2> QED
    BY <1>6, <1>7, <2>4 DEF Finished, Stretch, Distinct
<1>10. Waiting' = Waiting /\ Distinct(avail_ring, Taken, Queued)'
  BY <1>2, <1>3, <1>7 DEF Waiting, Stretch, Distinct, availvars
<1>11. Heads' = Heads
  BY <1>2 DEF Heads, listvars
<1>12. RingInv'
  <2>1. /\ (Waiting \cap Finished)' = {} /\ ((Waiting \cup Finished) \cap inflight)' = {}
        /\ Heads' = (Waiting \cup inflight \cup Finished)'
    BY <1>2, <1>3, <1>9, <1>10, <1>11
  <2>2. (Read <= Done /\ Done <= Taken /\ Taken <= Queued /\ Queued <= MaxRequests)'
    BY <1>1, <1>3, <1>5, <1>6, <1>7
  <2>3. (last_used = last_used_idx % Num)'
    BY <1>2, <1>3 DEF readvars
  <2>4. (IsFiniteSet(inflight) /\ Cardinality(inflight) = Taken - Done)'
    BY <1>1, <1>3, <1>4, <1>6, <1>7
  <2> QED
    BY <1>9, <1>10, <2>1, <2>2, <2>3, <2>4 DEF RingInv
<1>13. TypeOK'
  <2>1. used_ring' \in [Desc -> Desc]
    BY <1>0, <1>2 DEF TypeOK
  <2> QED
    BY <1>0, <1>2, <1>6, <2>1 DEF TypeOK, listvars, availvars, readvars
<1>14. DataInv'
  BY <1>0, <1>2 DEF DataInv, listvars
<1>15. CallInv'
  BY <1>0, <1>2, <1>7 DEF CallInv, listvars
<1>16. DescInv'
  BY <1>0, <1>2, DescStays DEF listvars
<1> QED
  BY <1>12, <1>13, <1>14, <1>15, <1>16 DEF Inv

(* A step that leaves the queue alone. *)
LEMMA QueueStays ==
    ASSUME Inv, UNCHANGED <<listvars, availvars, usedvars, readvars, devicevars>>
    PROVE  QueueInv' /\ Queued' = Queued
<1>0. TypeOK /\ RingInv /\ DataInv /\ DescInv
  BY DEF Inv
<1>1. Queued' = Queued /\ Taken' = Taken /\ Done' = Done /\ Read' = Read
  BY DEF Queued, Taken, Done, Read, Count, availvars, usedvars, readvars, devicevars
<1>2. RingInv'
  BY <1>0, <1>1 DEF RingInv, Waiting, Finished, Stretch, Distinct, Heads,
                    listvars, availvars, usedvars, readvars, devicevars
<1>3. DataInv'
  BY <1>0 DEF DataInv, listvars
<1>4. DescInv'
  BY <1>0, DescStays DEF listvars
<1>5. ListTypes'
  BY <1>0 DEF TypeOK, ListTypes, listvars, availvars, usedvars, readvars, devicevars
<1> QED
  BY <1>1, <1>2, <1>3, <1>4, <1>5 DEF QueueInv

(* The call under way is well. *)
LEMMA Together ==
    ASSUME QueueInv', CallInv',
           request' \in [size : Sizes, buf : Bufs] \cup {NULL},
           pc' \in {"idle", "read", "queue"}
    PROVE  Inv'
  BY DEF QueueInv, ListTypes, TypeOK, Inv

(* Every step keeps the invariant. *)
LEMMA NextInv == Inv /\ [Next]_vars => Inv'
<1> SUFFICES ASSUME Inv, [Next]_vars
             PROVE  Inv'
  OBVIOUS
<1>0. /\ TypeOK /\ CallInv
      /\ request \in [size : Sizes, buf : Bufs] \cup {NULL} /\ pc \in {"idle", "read", "queue"}
      /\ held \subseteq Bufs
  BY DEF Inv, TypeOK
<1>1. ASSUME NEW n \in Sizes, NEW b \in Bufs, virtio_to_queue(n, b)
      PROVE  Inv'
  <2>1. /\ Queued < MaxRequests /\ pc = "idle" /\ b \in held
        /\ UNCHANGED <<usedvars, readvars, devicevars>>
    BY <1>0, <1>1, CountTypes DEF virtio_to_queue
  <2>2. CASE free_num + Slack < Num
    <3>1. /\ pc' = "read" /\ request' = [size |-> n, buf |-> b]
          /\ UNCHANGED <<listvars, availvars>>
      BY <1>1, <2>2 DEF virtio_to_queue
    <3>2. QueueInv' /\ Queued' = Queued
      BY <2>1, <3>1, QueueStays
    <3>3. CallInv'
      BY <2>1, <3>1, <3>2 DEF CallInv, listvars
    <3>4. request' \in [size : Sizes, buf : Bufs]
      BY <3>1
    <3> QED
      BY <3>1, <3>2, <3>3, <3>4, Together
  <2>3. CASE ~(free_num + Slack < Num)
    <3>1. ~NoRoom(n) /\ Enqueue(n, b) /\ UNCHANGED <<pc, request>>
      BY <1>1, <2>3 DEF virtio_to_queue
    <3>2. QueueInv'
      BY <2>1, <3>1, EnqueueStep
    <3>3. CallInv'
      BY <1>0, <2>1, <3>1 DEF CallInv
    <3> QED
      BY <1>0, <3>1, <3>2, <3>3, Together
  <2> QED
    BY <2>2, <2>3
<1>2. ASSUME ToQueueAfterRead
      PROVE  Inv'
  <2>1. /\ pc = "queue" /\ pc' = "idle" /\ request' = NULL
        /\ UNCHANGED <<usedvars, readvars, devicevars>>
    BY <1>2 DEF ToQueueAfterRead
  <2>2. request # NULL /\ request.buf \in held /\ request.size \in Sizes /\ Queued < MaxRequests
    BY <1>0, <2>1 DEF CallInv
  <2>3. QueueInv'
    <3>1. CASE NoRoom(request.size)
      <4>1. UNCHANGED <<listvars, availvars>>
        BY <1>2, <3>1 DEF ToQueueAfterRead
      <4> QED
        BY <2>1, <4>1, QueueStays
    <3>2. CASE ~NoRoom(request.size)
      <4>1. Enqueue(request.size, request.buf)
        BY <1>2, <3>2 DEF ToQueueAfterRead
      <4> QED
        BY <2>1, <2>2, <3>2, <4>1, EnqueueStep
    <3> QED
      BY <3>1, <3>2
  <2>4. CallInv'
    BY <2>1 DEF CallInv
  <2> QED
    BY <2>1, <2>3, <2>4, Together
<1>3. ASSUME PollQueue
      PROVE  Inv'
  <2>1. /\ pc = "idle" /\ pc' = "read" /\ request' = request
        /\ UNCHANGED <<listvars, availvars, usedvars, readvars, devicevars>>
    BY <1>3 DEF PollQueue
  <2>2. QueueInv' /\ Queued' = Queued
    BY <2>1, QueueStays
  <2>3. CallInv'
    BY <1>0, <2>1 DEF CallInv
  <2> QED
    BY <1>0, <2>1, <2>2, <2>3, Together
<1>4. ASSUME virtio_from_queue
      PROVE  Inv'
  <2>1. pc = "read" /\ UNCHANGED <<availvars, usedvars, request, devicevars>>
    BY <1>4 DEF virtio_from_queue
  <2>2. CASE NothingUsed
    <3>1. /\ pc' = (IF request = NULL THEN "idle" ELSE "queue")
          /\ UNCHANGED <<listvars, readvars>>
      BY <1>4, <2>2 DEF virtio_from_queue
    <3>2. QueueInv' /\ Queued' = Queued
      BY <2>1, <3>1, QueueStays
    <3>3. CallInv'
      BY <1>0, <2>1, <3>1, <3>2 DEF CallInv, listvars
    <3> QED
      BY <1>0, <2>1, <3>1, <3>2, <3>3, Together
  <2>3. CASE ~NothingUsed
    <3>1. /\ pc' = pc /\ last_used' = NextSlot /\ last_used_idx' = Inc(last_used_idx)
          /\ FreeChain(UsedElement) /\ held' = held \cup {data[UsedElement]}
          /\ data' = [data EXCEPT ![UsedElement] = NULL]
      BY <1>4, <2>3 DEF virtio_from_queue
    <3>2. QueueInv' /\ held \subseteq held'
      BY <2>1, <2>3, <3>1, FromQueueStep
    <3>3. Queued' = Queued
      BY <2>1 DEF Queued, Count, availvars
    <3>4. CallInv'
      BY <1>0, <2>1, <3>1, <3>2, <3>3 DEF CallInv
    <3> QED
      BY <1>0, <2>1, <3>1, <3>2, <3>4, Together
  <2> QED
    BY <2>2, <2>3
<1>5. CASE UNCHANGED vars
  <2>1. UNCHANGED <<listvars, availvars, usedvars, readvars, devicevars>>
        /\ request' = request /\ pc' = pc /\ held' = held
    BY <1>5 DEF vars, listvars, availvars, usedvars, readvars, devicevars
  <2>2. QueueInv' /\ Queued' = Queued
    BY <2>1, QueueStays
  <2>3. CallInv'
    BY <1>0, <2>1, <2>2 DEF CallInv
  <2> QED
    BY <1>0, <2>1, <2>2, <2>3, Together
<1> QED
  BY <1>1, <1>2, <1>3, <1>4, <1>5, FetchStep, UseStep DEF Next

-----------------------------------------------------------------------------
(* The properties *)

(* Init establishes the invariant and every step keeps it. *)
THEOREM Invariant == Spec => []Inv
<1> QED
  BY InitInv, NextInv, PTL DEF Spec

(* Every reachable state is of the right type: virtio_to_queue and          *)
(* virtio_from_queue never leave the table, the rings or their indices.     *)
THEOREM TypeCorrect == Spec => []TypeOK
<1>1. Inv => TypeOK
  BY DEF Inv
<1> QED
  BY Invariant, <1>1, PTL

(* The slot virtio_from_queue compares tells whether anything was used.     *)
LEMMA InvNoAlias == Inv => NoAlias
<1> SUFFICES ASSUME Inv
             PROVE  NoAlias
  OBVIOUS
<1>0. TypeOK /\ RingInv /\ DescInv
  BY DEF Inv
<1>1. /\ Queued \in Nat /\ Taken \in Nat /\ Done \in Nat /\ Read \in Nat
      /\ used_idx \in Index /\ last_used_idx \in Index /\ Num \in Nat \ {0}
  BY <1>0, CountTypes
<1>2. Read <= Done /\ Done < Read + Num /\ last_used = last_used_idx % Num
  BY <1>0, <1>1, RoomLeft DEF RingInv
<1>3. used_idx % Num = Done % Num /\ last_used_idx % Num = Read % Num
  BY <1>1, CountFacts DEF Done, Read
<1>4. Read = Done <=> used_idx = last_used_idx
  <2>1. Count(last_used_idx) = Count(used_idx) <=> last_used_idx = used_idx
    BY <1>1, <1>2, CountDistance DEF Done, Read
  <2> QED
    BY <2>1 DEF Done, Read
<1>5. Read < Done => Read % Num # Done % Num
  <2>1. \A c, e \in Int : c < e /\ e < c + Num => c % Num # e % Num
    BY SlotsApart
  <2>2. Read \in Int /\ Done \in Int /\ Done < Read + Num
    BY <1>1, <1>2
  <2> QED
    BY <2>1, <2>2, Zenon
<1> QED
  BY <1>1, <1>2, <1>3, <1>4, <1>5 DEF NoAlias, NothingUsed

(* virtio_from_queue compares indices modulo the size of the ring, and that *)
(* never mistakes "everything returned" for "nothing returned": the         *)
(* descriptor virtio_to_queue leaves free keeps the rings from filling.     *)
THEOREM IndicesNeverMislead == Spec => []NoAlias
  BY Invariant, InvNoAlias, PTL

(* The slots between two indices hold the stretch between their counts.     *)
LEMMA SlotsStretch ==
    ASSUME NEW r, NEW i \in Index, NEW j \in Index, Count(i) <= Count(j)
    PROVE  {r[s] : s \in Slots(i, j)} = Stretch(r, Count(i), Count(j))
<1>1. Num \in Nat \ {0} /\ i \in Int
  BY NumAssumption DEF Index
<1>2. (j - i) % Word = Count(j) - Count(i)
  BY CountDistance
<1>3. Count(i) \in Int /\ Count(j) \in Int /\ i % Num = Count(i) % Num
  BY CountFacts, NumAssumption DEF Index
<1>4. PICK a \in Int : a = Count(i)
  BY <1>3
<1>5. PICK b \in Int : b = Count(j)
  BY <1>3
<1>6. \A k \in Int : (i + k) % Num = (a + k) % Num
  <2> SUFFICES ASSUME NEW k \in Int
               PROVE  (i + k) % Num = (a + k) % Num
    OBVIOUS
  <2>1. ((i % Num) + k) % Num = (i + k) % Num
    BY <1>1, ModAdd
  <2>2. ((a % Num) + k) % Num = (a + k) % Num
    BY <1>1, ModAdd
  <2> QED
    BY <1>3, <1>4, <2>1, <2>2
<1>7. \A k \in 0 .. b - a - 1 : a + k \in a .. b - 1
  OBVIOUS
<1>8. \A c \in a .. b - 1 : \E k \in 0 .. b - a - 1 : c = a + k
  <2> SUFFICES ASSUME NEW c \in a .. b - 1
               PROVE  \E k \in 0 .. b - a - 1 : c = a + k
    OBVIOUS
  <2>1. c - a \in 0 .. b - a - 1 /\ c = a + (c - a)
    OBVIOUS
  <2> QED
    BY <2>1
<1>9. Slots(i, j) = {(a + k) % Num : k \in 0 .. b - a - 1}
  <2>1. Slots(i, j) = {(i + k) % Num : k \in 0 .. b - a - 1}
    BY <1>2, <1>4, <1>5 DEF Slots
  <2>2. \A k \in 0 .. b - a - 1 : k \in Int
    OBVIOUS
  <2> QED
    BY <1>6, <2>1, <2>2, Zenon
<1>10. {r[s] : s \in Slots(i, j)} = {r[c % Num] : c \in a .. b - 1}
  <2>1. \A k \in 0 .. b - a - 1 : r[(a + k) % Num] \in {r[c % Num] : c \in a .. b - 1}
    BY <1>7
  <2>2. \A c \in a .. b - 1 : r[c % Num] \in {r[(a + k) % Num] : k \in 0 .. b - a - 1}
    BY <1>8
  <2>3. {r[s] : s \in Slots(i, j)} = {r[(a + k) % Num] : k \in 0 .. b - a - 1}
    BY <1>9
  <2> QED
    BY <2>1, <2>2, <2>3
<1> QED
  BY <1>4, <1>5, <1>10 DEF Stretch

(* The invariant accounts for the requests. *)
LEMMA InvRequests == Inv => RequestsConserved
<1> SUFFICES ASSUME Inv
             PROVE  RequestsConserved
  OBVIOUS
<1>0. TypeOK /\ RingInv /\ DataInv
  BY DEF Inv
<1>1. /\ Queued \in Nat /\ Taken \in Nat /\ Done \in Nat /\ Read \in Nat
      /\ avail_idx \in Index /\ fetched \in Index /\ used_idx \in Index
      /\ last_used_idx \in Index
  BY <1>0, CountTypes
<1>2. Taken <= Queued /\ Read <= Done
  BY <1>0 DEF RingInv
<1>3. Offered = Waiting /\ (avail_idx - fetched) % Word = Queued - Taken
  <2>1. Count(fetched) <= Count(avail_idx)
    BY <1>2 DEF Queued, Taken
  <2>2. \A r : {r[s] : s \in Slots(fetched, avail_idx)}
                  = Stretch(r, Count(fetched), Count(avail_idx))
    BY <1>1, <2>1, SlotsStretch
  <2>3. (avail_idx - fetched) % Word = Count(avail_idx) - Count(fetched)
    BY <1>1, <2>1, CountDistance
  <2> QED
    BY <2>2, <2>3 DEF Offered, Waiting, Queued, Taken
<1>4. Returned = Finished /\ (used_idx - last_used_idx) % Word = Done - Read
  <2>1. Count(last_used_idx) <= Count(used_idx)
    BY <1>2 DEF Done, Read
  <2>2. \A r : {r[s] : s \in Slots(last_used_idx, used_idx)}
                  = Stretch(r, Count(last_used_idx), Count(used_idx))
    BY <1>1, <2>1, SlotsStretch
  <2>3. (used_idx - last_used_idx) % Word = Count(used_idx) - Count(last_used_idx)
    BY <1>1, <2>1, CountDistance
  <2> QED
    BY <2>2, <2>3 DEF Returned, Finished, Done, Read
<1>5. Cardinality(Waiting) = Queued - Taken
  BY <1>0, <1>1, <1>2, StretchCount DEF RingInv, Waiting
<1>6. Cardinality(Finished) = Done - Read
  BY <1>0, <1>1, <1>2, StretchCount DEF RingInv, Finished
<1> QED
  BY <1>0, <1>3, <1>4, <1>5, <1>6 DEF RequestsConserved, RingInv, DataInv, Heads

(* A request queued by virtio_to_queue is at every moment in exactly one    *)
(* place, offered, with the device or returned, and virtio_from_queue hands *)
(* back the pointer it was queued with, once: for every queue size, every   *)
(* mix of request sizes, every order the device returns them in, and        *)
(* indices that have gone round.                                           *)
THEOREM EveryRequestOnce == Spec => []RequestsConserved
  BY Invariant, InvRequests, PTL

(* What ChainAt and FreeList walk over are the descriptors of their owner.  *)
LEMMA ListsFound ==
    ASSUME NEW own, NEW pos, NEW len,
           Shared(Heads, own, pos, len), Linked(desc, own, pos, len),
           Ended(free_num, free_head, free_tail, own, pos, len)
    PROVE  /\ FreeList = {d \in Desc : own[d] = Free}
           /\ free_tail = Follow(desc, free_head, free_num - 1)
           /\ \A h \in Heads : ChainAt(h) = {d \in Desc : own[d] = h}
<1>1. /\ free_num \in Nat /\ len[Free] = free_num
      /\ free_head \in Desc /\ own[free_head] = Free /\ pos[free_head] = 0
      /\ free_tail \in Desc /\ own[free_tail] = Free /\ pos[free_tail] = free_num - 1
  BY DEF Ended
<1>2. \A d \in Desc : own[d] = Free => Follow(desc, free_head, pos[d]) = d
  BY <1>1, WalkFinds
<1>3. \A k \in 0 .. free_num - 1 :
          LET e == Follow(desc, free_head, k)
          IN  e \in Desc /\ own[e] = Free
  BY <1>1, WalkAt
<1>4. \A d \in Desc : own[d] = Free => pos[d] \in 0 .. free_num - 1
  BY <1>1 DEF Shared
<1>5. FreeList = {d \in Desc : own[d] = Free}
  BY <1>2, <1>3, <1>4 DEF FreeList
<1>6. ASSUME NEW h \in Heads
      PROVE  ChainAt(h) = {d \in Desc : own[d] = h}
  <2>1. h \in Desc /\ own[h] = h /\ pos[h] = 0 /\ h \in Owners(Heads) /\ h # Free
    BY NumAssumption DEF Shared, Owners, Desc, Free
  <2>2. len[h] \in Nat /\ len[h] > 0 /\ len[h] <= Num
    <3>1. len[h] \in Nat /\ len[h] > 0
      BY <2>1 DEF Shared, Owners
    <3> QED
      BY <2>1, <3>1, OwnCount
  <2>3. \A k \in 0 .. len[h] - 1 :
            LET e == Follow(desc, h, k)
            IN  e \in Desc /\ own[e] = h /\ pos[e] = k
    BY <2>1, WalkAt
  <2>4. \A d \in Desc : own[d] = h => Follow(desc, h, pos[d]) = d
    BY <2>1, WalkFinds
  <2>5. \A d \in Desc : own[d] = h => pos[d] \in 0 .. len[h] - 1
    BY <2>2 DEF Shared
  <2>6. \A d \in Desc : own[d] = h => (desc[d].more <=> pos[d] + 1 < len[h])
    BY <2>1 DEF Linked
  <2> DEFINE On(k) == \A j \in 0 .. k - 1 : desc[Follow(desc, h, j)].more
  <2>7. \A k \in 0 .. len[h] - 1 : desc[Follow(desc, h, k)].more <=> k + 1 < len[h]
    BY <2>3, <2>6
  <2>8. \A k \in Desc : On(k) <=> k \in 0 .. len[h] - 1
    <3> SUFFICES ASSUME NEW k \in Desc
                 PROVE  On(k) <=> k \in 0 .. len[h] - 1
      OBVIOUS
    <3>1. k \in Nat
      BY NumAssumption DEF Desc
    <3>2. ASSUME k \in 0 .. len[h] - 1, NEW j \in 0 .. k - 1
          PROVE  desc[Follow(desc, h, j)].more
      <4>1. j \in 0 .. len[h] - 1 /\ j + 1 < len[h]
        BY <2>2, <3>1, <3>2
      <4> QED
        BY <2>7, <4>1
    <3>3. ASSUME k >= len[h]
          PROVE  ~On(k)
      <4>1. PICK j \in 0 .. len[h] - 1 : j = len[h] - 1
        BY <2>2
      <4>2. j \in 0 .. k - 1 /\ ~(j + 1 < len[h])
        BY <2>2, <3>1, <3>3, <4>1
      <4> QED
        BY <2>7, <4>2
    <3> QED
      BY <2>2, <3>1, <3>2, <3>3
  <2>9. 0 .. len[h] - 1 \subseteq Desc
    BY <2>2, NumAssumption DEF Desc
  <2>10. ChainAt(h) = {Follow(desc, h, k) : k \in 0 .. len[h] - 1}
    <3>1. {i \in Desc : On(i)} = 0 .. len[h] - 1
      <4> HIDE DEF On
      <4> QED
        BY <2>8, <2>9
    <3> QED
      BY <3>1 DEF ChainAt
  <2> QED
    BY <2>3, <2>4, <2>5, <2>10
<1>7. free_tail = Follow(desc, free_head, free_num - 1)
  BY <1>1, <1>2
<1> QED
  BY <1>5, <1>6, <1>7

(* The invariant shares the descriptors out exactly. *)
LEMMA InvLists == Inv => FreeListExact
<1> SUFFICES ASSUME Inv
             PROVE  FreeListExact
  OBVIOUS
<1>1. PICK own, pos, len :
          /\ Shared(Heads, own, pos, len)
          /\ Linked(desc, own, pos, len)
          /\ Ended(free_num, free_head, free_tail, own, pos, len)
  BY DEF Inv, DescInv
<1>2. /\ FreeList = {d \in Desc : own[d] = Free}
      /\ free_tail = Follow(desc, free_head, free_num - 1)
      /\ \A h \in Heads : ChainAt(h) = {d \in Desc : own[d] = h}
  BY <1>1, ListsFound
<1>3. free_num > 0 /\ Cardinality(FreeList) = free_num
  <2>1. Free \in Owners(Heads)
    BY DEF Owners
  <2>2. Cardinality({d \in Desc : own[d] = Free}) = len[Free]
    BY <1>1, <2>1, OwnCount
  <2> QED
    BY <1>1, <1>2, <2>2 DEF Ended
<1>4. \A d \in FreeList : desc[d].more
  BY <1>1, <1>2 DEF Linked
<1>5. \A h \in Heads : h # Free
  BY NumAssumption DEF Heads, Desc, Free
<1>6. \A h \in Heads : \E d \in ChainAt(h) : ~desc[d].more
  <2> SUFFICES ASSUME NEW h \in Heads
               PROVE  \E d \in ChainAt(h) : ~desc[d].more
    OBVIOUS
  <2> DEFINE e == ChainLast(desc, h).at
  <2>1. e \in Desc /\ own[e] = h /\ pos[e] = len[h] - 1 /\ len[h] > 0
    BY <1>1, ChainLastFound
  <2> HIDE DEF e
  <2>2. len[h] \in Nat
    BY <1>1 DEF Shared, Owners
  <2>3. ~desc[e].more
    BY <1>1, <1>5, <2>1, <2>2 DEF Linked
  <2> QED
    BY <1>2, <2>1, <2>3
<1>7. FreeList \cup UNION {ChainAt(h) : h \in Heads} = Desc
  <2>1. \A d \in Desc : own[d] \in Heads \/ own[d] = Free
    BY <1>1 DEF Shared, Owners
  <2> QED
    BY <1>2, <2>1
<1>8. \A h \in Heads : /\ ChainAt(h) \cap FreeList = {}
                       /\ \A g \in Heads \ {h} : ChainAt(g) \cap ChainAt(h) = {}
  BY <1>2, <1>5
<1> HIDE DEF Inv
<1> QED
  BY <1>2, <1>3, <1>4, <1>6, <1>7, <1>8 DEF FreeListExact, Heads

(* No descriptor is lost or in two lists: set_direct_descriptors and        *)
(* virtio_from_queue keep the free list as long as its counter says, ending *)
(* at its tail, and every chain of a request apart from it, for every size  *)
(* of the queue; the assertions of the two functions never fail.           *)
THEOREM DescriptorsSharedExactly == Spec => []FreeListExact
  BY Invariant, InvLists, PTL
=============================================================================
