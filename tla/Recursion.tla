------------------------------ MODULE Recursion ------------------------------
(***************************************************************************)
(* Induction and recursion over the positions of a sequence, stated for    *)
(* sets and functions, and the splitting of sequences: what the proofs     *)
(* about recursive functions of the models rest on.                        *)
(***************************************************************************)
EXTENDS Splitting, FiniteSetTheorems, TLAPS

\* A set of numbers that has 0 and every successor of its elements up to n has
\* all numbers up to n: if not, take the least that is missing.
LEMMA UpTo ==
    ASSUME NEW n \in Nat, NEW T, 0 \in T, \A k \in 1 .. n : k - 1 \in T => k \in T
    PROVE  0 .. n \subseteq T
  <1> DEFINE R == {ss \in Nat \X Nat : ss[1] < ss[2]}
             U == (0 .. n) \ T
  <1>1. SUFFICES ASSUME U # {}
                 PROVE  FALSE
    OBVIOUS
  <1>2. \A a, b \in Nat : a < b => <<a, b>> \in R
    OBVIOUS
  <1>3. IsWellFoundedOn(R, Nat)
    BY NatLessThanWellFounded DEF OpToRel
  <1> HIDE DEF R
  <1>4. PICK m \in U : \A k \in U : ~(<<k, m>> \in R)
    <2>1. U \subseteq Nat
      OBVIOUS
    <2> QED BY <1>1, <1>3, <2>1, WFMin
  <1>5. m # 0 /\ m \in 0 .. n
    BY <1>4
  <1>6. m \in 1 .. n /\ m - 1 \in Nat /\ m - 1 \in 0 .. n /\ m - 1 < m
    BY <1>5
  <1>7. <<m - 1, m>> \in R
    BY <1>2, <1>5, <1>6
  <1>8. m - 1 \in T
    BY <1>4, <1>6, <1>7
  <1> QED BY <1>4, <1>6, <1>8

\* The least element of a set of numbers, and the greatest of a bounded one.
LEMMA Least ==
    ASSUME NEW T, T \subseteq Nat, T # {}
    PROVE  \E m \in T : \A k \in T : m <= k
  <1> DEFINE R == {ss \in Nat \X Nat : ss[1] < ss[2]}
  <1>1. \A a, b \in Nat : a < b => <<a, b>> \in R
    OBVIOUS
  <1>2. IsWellFoundedOn(R, Nat)
    BY NatLessThanWellFounded DEF OpToRel
  <1> HIDE DEF R
  <1>3. PICK m \in T : \A k \in T : ~(<<k, m>> \in R)
    BY <1>2, WFMin
  <1>4. \A k \in T : ~(k < m)
    BY <1>1, <1>3
  <1> QED BY <1>4

LEMMA Greatest ==
    ASSUME NEW n \in Nat, NEW T, T \subseteq 0 .. n, T # {}
    PROVE  \E m \in T : \A k \in T : k <= m
  <1> DEFINE U == {n - k : k \in T}
  <1>1. U \subseteq Nat /\ U # {}
    <2>1. \A k \in T : n - k \in Nat /\ n - k \in U
      OBVIOUS
    <2>2. U \subseteq Nat
      BY <2>1
    <2> QED BY <2>1, <2>2
  <1>2. PICK u \in U : \A k \in U : u <= k
    BY <1>1, Least
  <1>3. PICK m \in T : u = n - m
    BY <1>2
  <1>4. \A k \in T : n - k \in U
    OBVIOUS
  <1> HIDE DEF U
  <1> QED BY <1>2, <1>3, <1>4

\* A function of 0 .. n that starts with `base' and takes the given steps.
Follows(f, n, base, step) ==
    f[0] = base /\ \A k \in 1 .. n : f[k] = step[<<k, f[k - 1]>>]

\* There is a function that starts with `base' and takes the given steps.
LEMMA Recursive ==
    ASSUME NEW n \in Nat, NEW S, NEW base \in S, NEW step \in [(1 .. n) \X S -> S]
    PROVE  \E f \in [0 .. n -> S] : Follows(f, n, base, step)
  <1> USE DEF Follows
  <1> DEFINE Good(m) == \E f \in [0 .. m -> S] :
                 f[0] = base /\ \A k \in 1 .. m : f[k] = step[<<k, f[k - 1]>>]
             T == {m \in 0 .. n : Good(m)}
  <1>1. 0 \in T
    <2> DEFINE f == [k \in 0 .. 0 |-> base]
    <2>1. f \in [0 .. 0 -> S] /\ f[0] = base
      OBVIOUS
    <2> HIDE DEF f
    <2> QED BY <2>1
  <1>2. ASSUME NEW m \in 1 .. n, m - 1 \in T
        PROVE  m \in T
    <2>1. PICK f \in [0 .. m - 1 -> S] :
             f[0] = base /\ \A k \in 1 .. m - 1 : f[k] = step[<<k, f[k - 1]>>]
      BY <1>2
    <2> DEFINE g == [k \in 0 .. m |-> IF k = m THEN step[<<m, f[m - 1]>>] ELSE f[k]]
    <2>2. m - 1 \in 0 .. m - 1 /\ f[m - 1] \in S /\ step[<<m, f[m - 1]>>] \in S
      BY <2>1
    <2>3. g \in [0 .. m -> S] /\ g[0] = base /\ g[m] = step[<<m, f[m - 1]>>]
          /\ \A k \in 0 .. m - 1 : g[k] = f[k]
      BY <2>1, <2>2
    <2> HIDE DEF g
    <2>4. \A k \in 1 .. m : g[k] = step[<<k, g[k - 1]>>]
      <3> SUFFICES ASSUME NEW k \in 1 .. m
                   PROVE  g[k] = step[<<k, g[k - 1]>>]
        OBVIOUS
      <3>1. k - 1 \in 0 .. m - 1 /\ g[k - 1] = f[k - 1]
        BY <2>3
      <3>2. k # m => k \in 1 .. m - 1 /\ k \in 0 .. m - 1
        OBVIOUS
      <3> QED BY <2>1, <2>3, <3>1, <3>2
    <2> QED BY <2>3, <2>4
  <1> HIDE DEF T
  <1>3. n \in T
    <2>1. 0 .. n \subseteq T
      BY <1>1, <1>2, UpTo
    <2> QED BY <2>1
  <1> QED BY <1>3 DEF T

\* Two sequences, one behind the other.
LEMMA Concat ==
    ASSUME NEW S, NEW s \in Seq(S), NEW t \in Seq(S)
    PROVE  /\ s \o t \in Seq(S) /\ Len(s \o t) = Len(s) + Len(t)
           /\ Len(s) \in Nat /\ Len(t) \in Nat
           /\ \A c \in 1 .. Len(s) : (s \o t)[c] = s[c]
           /\ \A c \in 1 .. Len(t) : (s \o t)[Len(s) + c] = t[c]
  OBVIOUS

----------------------------------------------------------------------------
(* Splitting. *)

\* The intervals of the first n cells of a sequence, in order.
Enumerates(w, s, S, n) ==
    /\ w \in Seq(Nat \X Nat)
    /\ \A k \in 1 .. Len(w) :
         /\ 1 <= w[k][1] /\ w[k][1] <= w[k][2] /\ w[k][2] <= n
         /\ \A i \in w[k][1] .. w[k][2] : s[i] \notin S
         /\ w[k][1] > 1 => s[w[k][1] - 1] \in S
         /\ w[k][2] < n => s[w[k][2] + 1] \in S
    /\ \A j, k \in 1 .. Len(w) : j < k => w[j][2] < w[k][1]
    /\ \A c \in 1 .. n : s[c] \notin S =>
         \E k \in 1 .. Len(w) : w[k][1] <= c /\ c <= w[k][2]

\* As many as there are numbers up to k.
LEMMA Counted ==
    ASSUME NEW n \in Nat, NEW w, NEW k \in 0 .. n,
           \A i, j \in 1 .. n : i # j => w[i] # w[j]
    PROVE  Cardinality({w[j] : j \in 1 .. k}) = k
  <1> DEFINE T == {w[j] : j \in 1 .. k}
             f == [j \in 1 .. k |-> w[j]]
  <1>1. f \in Bijection(1 .. k, T)
    <2>1. f \in [1 .. k -> T] /\ \A t \in T : \E j \in 1 .. k : f[j] = t
      OBVIOUS
    <2>2. \A i, j \in 1 .. k : f[i] = f[j] => i = j
      OBVIOUS
    <2> HIDE DEF T, f
    <2> QED BY <2>1, <2>2 DEF Bijection, Injection, Surjection, IsInjective
  <1>2. ExistsBijection(1 .. k, T)
    BY <1>1 DEF ExistsBijection
  <1>3. IsFiniteSet(1 .. k) /\ Cardinality(1 .. k) = k
    BY FS_Interval
  <1> HIDE DEF T
  <1>4. Cardinality(T) = Cardinality(1 .. k)
    BY <1>2, <1>3, FS_Bijection
  <1> QED BY <1>3, <1>4 DEF T

\* The elements of an enumeration by their first cells.
LEMMA InOrderIs ==
    ASSUME NEW w \in Seq(Nat \X Nat),
           \A j, k \in 1 .. Len(w) : j < k => w[j][1] < w[k][1]
    PROVE  InOrder({w[k] : k \in 1 .. Len(w)}) = w
  <1> DEFINE m == Len(w)
             I == {w[k] : k \in 1 .. m}
             Before(v) == {u \in I : u[1] < v[1]}
  <1>1. m \in Nat /\ \A k \in 1 .. m : w[k][1] \in Nat
    OBVIOUS
  <1>2. \A i, j \in 1 .. m : i # j => w[i] # w[j]
    <2> SUFFICES ASSUME NEW i \in 1 .. m, NEW j \in 1 .. m, i # j, w[i] = w[j]
                 PROVE  FALSE
      OBVIOUS
    <2>1. i < j \/ j < i
      OBVIOUS
    <2>2. w[i][1] = w[j][1] /\ w[i][1] \in Nat
      BY <1>1
    <2> QED BY <2>1, <2>2
  <1>3. Cardinality(I) = m
    <2>1. m \in 0 .. m
      BY <1>1
    <2> HIDE DEF m
    <2> QED BY <1>1, <1>2, <2>1, Counted
  <1>4. \A k \in 1 .. m : Cardinality(Before(w[k])) = k - 1
    <2> SUFFICES ASSUME NEW k \in 1 .. m
                 PROVE  Cardinality(Before(w[k])) = k - 1
      OBVIOUS
    <2>1. Before(w[k]) = {w[j] : j \in 1 .. k - 1}
      <3>1. \A j \in 1 .. m : w[j][1] < w[k][1] <=> j < k
        <4> SUFFICES ASSUME NEW j \in 1 .. m
                     PROVE  w[j][1] < w[k][1] <=> j < k
          OBVIOUS
        <4>1. w[j][1] \in Nat /\ w[k][1] \in Nat
          BY <1>1
        <4>2. j < k \/ j = k \/ k < j
          OBVIOUS
        <4>3. /\ j < k => w[j][1] < w[k][1]
              /\ k < j => w[k][1] < w[j][1]
          OBVIOUS
        <4> QED BY <4>1, <4>2, <4>3
      <3>2. \A j \in 1 .. m : j < k <=> j \in 1 .. k - 1
        OBVIOUS
      <3>3. 1 .. k - 1 \subseteq 1 .. m
        OBVIOUS
      <3> HIDE DEF m
      <3> QED BY <3>1, <3>2, <3>3
    <2>2. k - 1 \in 0 .. m
      BY <1>1
    <2> HIDE DEF m
    <2> QED BY <1>1, <1>2, <2>1, <2>2, Counted
  <1> HIDE DEF Before
  <1>5. \A k \in 1 .. m : (CHOOSE v \in I : Cardinality(Before(v)) = k - 1) = w[k]
    <2> SUFFICES ASSUME NEW k \in 1 .. m
                 PROVE  (CHOOSE v \in I : Cardinality(Before(v)) = k - 1) = w[k]
      OBVIOUS
    <2>1. w[k] \in I
      OBVIOUS
    <2>2. \A v \in I : Cardinality(Before(v)) = k - 1 => v = w[k]
      <3> SUFFICES ASSUME NEW j \in 1 .. m, Cardinality(Before(w[j])) = k - 1
                   PROVE  w[j] = w[k]
        OBVIOUS
      <3>1. j - 1 = k - 1
        BY <1>4
      <3>2. j = k
        BY <3>1
      <3> QED BY <3>2
    <2> HIDE DEF I
    <2> QED BY <1>4, <2>1, <2>2
  <1>6. InOrder(I) = [k \in 1 .. m |-> CHOOSE v \in I : Cardinality(Before(v)) = k - 1]
    BY <1>3 DEF InOrder, Before
  <1>7. w = [k \in 1 .. m |-> w[k]]
    OBVIOUS
  <1> HIDE DEF I, m
  <1>8. InOrder(I) = [k \in 1 .. m |-> w[k]]
    BY <1>5, <1>6
  <1> QED BY <1>7, <1>8 DEF I, m

\* An ascending sequence lists the set of its members.
LEMMA AscendingIs ==
    ASSUME NEW w \in Seq(Nat),
           \A j, k \in 1 .. Len(w) : j < k => w[j] < w[k]
    PROVE  Ascending({w[k] : k \in 1 .. Len(w)}) = w
  <1> DEFINE m == Len(w)
             I == {w[k] : k \in 1 .. m}
             Before(v) == {u \in I : u < v}
  <1>1. m \in Nat /\ \A k \in 1 .. m : w[k] \in Nat
    OBVIOUS
  <1>2. \A i, j \in 1 .. m : i # j => w[i] # w[j]
    <2> SUFFICES ASSUME NEW i \in 1 .. m, NEW j \in 1 .. m, i # j, w[i] = w[j]
                 PROVE  FALSE
      OBVIOUS
    <2>1. i < j \/ j < i
      OBVIOUS
    <2>2. w[i] = w[j] /\ w[i] \in Nat
      BY <1>1
    <2> QED BY <2>1, <2>2
  <1>3. Cardinality(I) = m
    <2>1. m \in 0 .. m
      BY <1>1
    <2> HIDE DEF m
    <2> QED BY <1>1, <1>2, <2>1, Counted
  <1>4. \A k \in 1 .. m : Cardinality(Before(w[k])) = k - 1
    <2> SUFFICES ASSUME NEW k \in 1 .. m
                 PROVE  Cardinality(Before(w[k])) = k - 1
      OBVIOUS
    <2>1. Before(w[k]) = {w[j] : j \in 1 .. k - 1}
      <3>1. \A j \in 1 .. m : w[j] < w[k] <=> j < k
        <4> SUFFICES ASSUME NEW j \in 1 .. m
                     PROVE  w[j] < w[k] <=> j < k
          OBVIOUS
        <4>1. w[j] \in Nat /\ w[k] \in Nat
          BY <1>1
        <4>2. j < k \/ j = k \/ k < j
          OBVIOUS
        <4>3. /\ j < k => w[j] < w[k]
              /\ k < j => w[k] < w[j]
          OBVIOUS
        <4> QED BY <4>1, <4>2, <4>3
      <3>2. \A j \in 1 .. m : j < k <=> j \in 1 .. k - 1
        OBVIOUS
      <3>3. 1 .. k - 1 \subseteq 1 .. m
        OBVIOUS
      <3> HIDE DEF m
      <3> QED BY <3>1, <3>2, <3>3
    <2>2. k - 1 \in 0 .. m
      BY <1>1
    <2> HIDE DEF m
    <2> QED BY <1>1, <1>2, <2>1, <2>2, Counted
  <1> HIDE DEF Before
  <1>5. \A k \in 1 .. m : (CHOOSE v \in I : Cardinality(Before(v)) = k - 1) = w[k]
    <2> SUFFICES ASSUME NEW k \in 1 .. m
                 PROVE  (CHOOSE v \in I : Cardinality(Before(v)) = k - 1) = w[k]
      OBVIOUS
    <2>1. w[k] \in I
      OBVIOUS
    <2>2. \A v \in I : Cardinality(Before(v)) = k - 1 => v = w[k]
      <3> SUFFICES ASSUME NEW j \in 1 .. m, Cardinality(Before(w[j])) = k - 1
                   PROVE  w[j] = w[k]
        OBVIOUS
      <3>1. j - 1 = k - 1
        BY <1>4
      <3>2. j = k
        BY <3>1
      <3> QED BY <3>2
    <2> HIDE DEF I
    <2> QED BY <1>4, <2>1, <2>2
  <1>6. Ascending(I) = [k \in 1 .. m |-> CHOOSE v \in I : Cardinality(Before(v)) = k - 1]
    BY <1>3 DEF Ascending, Before
  <1>7. w = [k \in 1 .. m |-> w[k]]
    OBVIOUS
  <1> HIDE DEF I, m
  <1>8. Ascending(I) = [k \in 1 .. m |-> w[k]]
    BY <1>5, <1>6
  <1> QED BY <1>7, <1>8 DEF I, m

\* An enumeration of the intervals of a sequence is their list.
LEMMA PiecesAre ==
    ASSUME NEW C, NEW s \in Seq(C), NEW S, NEW w, Enumerates(w, s, S, Len(s))
    PROVE  Pieces(s, S) = w
  <1> DEFINE n == Len(s)
             I == {w[k] : k \in 1 .. Len(w)}
  <1>1. n \in Nat /\ DOMAIN s = 1 .. n /\ w \in Seq(Nat \X Nat)
    BY DEF Enumerates
  <1>2. \A k \in 1 .. Len(w) :
          /\ w[k] \in Nat \X Nat /\ w[k][1] \in Nat /\ w[k][2] \in Nat
          /\ 1 <= w[k][1] /\ w[k][1] <= w[k][2] /\ w[k][2] <= n
          /\ \A i \in w[k][1] .. w[k][2] : s[i] \notin S
          /\ w[k][1] > 1 => s[w[k][1] - 1] \in S
          /\ w[k][2] < n => s[w[k][2] + 1] \in S
    BY <1>1 DEF Enumerates
  <1> HIDE DEF n
  <1>3. \A k \in 1 .. Len(w) : w[k] \in Intervals(s, S)
    <2> SUFFICES ASSUME NEW k \in 1 .. Len(w)
                 PROVE  w[k] \in Intervals(s, S)
      OBVIOUS
    <2>1. w[k] \in (1 .. n) \X (1 .. n)
      <3>1. \A p \in Nat \X Nat : p[1] \in 1 .. n /\ p[2] \in 1 .. n =>
                                   p \in (1 .. n) \X (1 .. n)
        OBVIOUS
      <3>2. w[k][1] \in 1 .. n /\ w[k][2] \in 1 .. n
        BY <1>1, <1>2
      <3> QED BY <1>2, <3>1, <3>2
    <2> QED BY <1>1, <1>2, <2>1 DEF Intervals, n
  <1>4. \A v \in Intervals(s, S) : v \in I
    <2> SUFFICES ASSUME NEW v \in Intervals(s, S)
                 PROVE  v \in I
      OBVIOUS
    <2>1. /\ v \in (1 .. n) \X (1 .. n) /\ v[1] \in 1 .. n /\ v[2] \in 1 .. n
          /\ v[1] <= v[2] /\ \A i \in v[1] .. v[2] : s[i] \notin S
          /\ v[1] > 1 => s[v[1] - 1] \in S
          /\ v[2] < n => s[v[2] + 1] \in S
      BY <1>1 DEF Intervals, n
    <2>2. s[v[1]] \notin S
      BY <2>1
    <2>3. PICK k \in 1 .. Len(w) : w[k][1] <= v[1] /\ v[1] <= w[k][2]
      BY <2>1, <2>2 DEF Enumerates, n
    <2>4. v[1] = w[k][1]
      <3> SUFFICES ASSUME w[k][1] < v[1]
                   PROVE  FALSE
        BY <1>2, <2>1, <2>3
      <3>1. v[1] - 1 \in w[k][1] .. w[k][2] /\ v[1] > 1
        BY <1>2, <2>1, <2>3
      <3> QED BY <1>2, <2>1, <3>1
    <2>5. ~(v[2] < w[k][2])
      <3> SUFFICES ASSUME v[2] < w[k][2]
                   PROVE  FALSE
        OBVIOUS
      <3>1. v[2] + 1 \in w[k][1] .. w[k][2] /\ v[2] < n
        BY <1>1, <1>2, <2>1, <2>4
      <3> QED BY <1>2, <2>1, <3>1
    <2>6. ~(w[k][2] < v[2])
      <3> SUFFICES ASSUME w[k][2] < v[2]
                   PROVE  FALSE
        OBVIOUS
      <3>1. w[k][2] + 1 \in v[1] .. v[2] /\ w[k][2] < n
        BY <1>1, <1>2, <2>1, <2>4
      <3> QED BY <1>2, <2>1, <3>1
    <2>7. v[2] = w[k][2]
      BY <1>2, <2>1, <2>5, <2>6
    <2>8. v = w[k]
      <3>1. \A p, q \in Nat \X Nat : p[1] = q[1] /\ p[2] = q[2] => p = q
        OBVIOUS
      <3>2. v \in Nat \X Nat /\ w[k] \in Nat \X Nat
        BY <1>2, <2>1
      <3> QED BY <2>4, <2>7, <3>1, <3>2
    <2> QED BY <2>8
  <1>5. Intervals(s, S) = I
    BY <1>3, <1>4
  <1>6. \A j, k \in 1 .. Len(w) : j < k => w[j][1] < w[k][1]
    <2> SUFFICES ASSUME NEW j \in 1 .. Len(w), NEW k \in 1 .. Len(w), j < k
                 PROVE  w[j][1] < w[k][1]
      OBVIOUS
    <2>1. w[j][2] < w[k][1]
      BY DEF Enumerates
    <2>2. w[j][1] \in Nat /\ w[j][2] \in Nat /\ w[k][1] \in Nat /\ w[j][1] <= w[j][2]
      BY <1>2
    <2> QED BY <2>1, <2>2
  <1> QED BY <1>1, <1>5, <1>6, InOrderIs DEF Pieces

LEMMA EnumerateNone ==
    ASSUME NEW s, NEW S
    PROVE  Enumerates(<<>>, s, S, 0)
  BY DEF Enumerates

\* One cell more: a separator; or a cell that makes the last interval longer, or
\* begins one.
LEMMA EnumerateSkip ==
    ASSUME NEW s, NEW S, NEW n \in Nat, NEW w, Enumerates(w, s, S, n), s[n + 1] \in S
    PROVE  Enumerates(w, s, S, n + 1)
  <1>1. w \in Seq(Nat \X Nat) /\ \A k \in 1 .. Len(w) : w[k][2] \in Nat /\ w[k][1] \in Nat
    BY DEF Enumerates
  <1>2. ASSUME NEW k \in 1 .. Len(w)
        PROVE  /\ w[k][2] <= n + 1
               /\ w[k][2] < n + 1 => s[w[k][2] + 1] \in S
    <2>1. w[k][2] <= n /\ (w[k][2] < n => s[w[k][2] + 1] \in S) /\ w[k][2] \in Nat
      BY <1>1 DEF Enumerates
    <2>2. w[k][2] = n \/ w[k][2] < n
      BY <2>1
    <2> QED BY <2>1, <2>2
  <1>3. \A c \in 1 .. n + 1 : s[c] \notin S => c \in 1 .. n
    OBVIOUS
  <1> QED BY <1>1, <1>2, <1>3 DEF Enumerates

LEMMA EnumerateBegin ==
    ASSUME NEW s, NEW S, NEW n \in Nat, NEW w, Enumerates(w, s, S, n),
           s[n + 1] \notin S, n > 0 => s[n] \in S
    PROVE  Enumerates(Append(w, <<n + 1, n + 1>>), s, S, n + 1)
  <1> DEFINE m == Len(w)
             v == Append(w, <<n + 1, n + 1>>)
  <1>1. /\ w \in Seq(Nat \X Nat) /\ m \in Nat
        /\ \A k \in 1 .. m : w[k][2] \in Nat /\ w[k][1] \in Nat
    BY DEF Enumerates
  <1>2. /\ v \in Seq(Nat \X Nat) /\ Len(v) = m + 1
        /\ \A k \in 1 .. m : v[k] = w[k]
        /\ v[m + 1][1] = n + 1 /\ v[m + 1][2] = n + 1
    <2>1. <<n + 1, n + 1>> \in Nat \X Nat
      OBVIOUS
    <2> QED BY <1>1, <2>1
  <1>3. \A k \in 1 .. m : 1 <= w[k][1] /\ w[k][1] <= w[k][2] /\ w[k][2] < n + 1
                          /\ s[w[k][2] + 1] \in S /\ w[k][2] <= n + 1
    <2> SUFFICES ASSUME NEW k \in 1 .. m
                 PROVE  1 <= w[k][1] /\ w[k][1] <= w[k][2] /\ w[k][2] < n + 1
                          /\ s[w[k][2] + 1] \in S /\ w[k][2] <= n + 1
      OBVIOUS
    <2>1. /\ w[k][2] <= n /\ (w[k][2] < n => s[w[k][2] + 1] \in S)
          /\ w[k][2] \in Nat /\ w[k][1] \in Nat /\ 1 <= w[k][1] /\ w[k][1] <= w[k][2]
          /\ \A i \in w[k][1] .. w[k][2] : s[i] \notin S
      BY <1>1 DEF Enumerates
    <2>2. w[k][2] # n
      <3> SUFFICES ASSUME w[k][2] = n
                   PROVE  FALSE
        OBVIOUS
      <3>1. n > 0 /\ n \in w[k][1] .. w[k][2]
        BY <2>1
      <3> QED BY <2>1, <3>1
    <2>3. w[k][2] < n
      BY <2>1, <2>2
    <2> QED BY <2>1, <2>3
  <1>4. /\ \A k \in 1 .. m : \A i \in w[k][1] .. w[k][2] : s[i] \notin S
        /\ \A k \in 1 .. m : w[k][1] > 1 => s[w[k][1] - 1] \in S
        /\ \A j, k \in 1 .. m : j < k => w[j][2] < w[k][1]
        /\ \A c \in 1 .. n : s[c] \notin S =>
             \E k \in 1 .. m : w[k][1] <= c /\ c <= w[k][2]
    BY DEF Enumerates
  <1> HIDE DEF m, v
  <1>5. \A k \in 1 .. m + 1 : k \in 1 .. m \/ k = m + 1
    BY <1>1
  <1>6. ASSUME NEW k \in 1 .. m + 1
        PROVE  /\ 1 <= v[k][1] /\ v[k][1] <= v[k][2] /\ v[k][2] <= n + 1
               /\ \A i \in v[k][1] .. v[k][2] : s[i] \notin S
               /\ v[k][1] > 1 => s[v[k][1] - 1] \in S
               /\ v[k][2] < n + 1 => s[v[k][2] + 1] \in S
    <2>1. CASE k \in 1 .. m
      BY <1>2, <1>3, <1>4, <2>1
    <2>2. CASE k = m + 1
      <3>1. \A i \in n + 1 .. n + 1 : i = n + 1
        OBVIOUS
      <3>2. n + 1 > 1 => s[(n + 1) - 1] \in S
        OBVIOUS
      <3> QED BY <1>2, <2>2, <3>1, <3>2
    <2> QED BY <1>5, <2>1, <2>2
  <1>7. ASSUME NEW j \in 1 .. m + 1, NEW k \in 1 .. m + 1, j < k
        PROVE  v[j][2] < v[k][1]
    <2>1. j \in 1 .. m
      BY <1>1, <1>7
    <2> QED BY <1>2, <1>3, <1>4, <1>5, <1>7, <2>1
  <1>8. ASSUME NEW c \in 1 .. n + 1, s[c] \notin S
        PROVE  \E k \in 1 .. m + 1 : v[k][1] <= c /\ c <= v[k][2]
    <2>1. CASE c = n + 1
      <3>1. m + 1 \in 1 .. m + 1
        BY <1>1
      <3> QED BY <1>2, <2>1, <3>1
    <2>2. CASE c \in 1 .. n
      <3>1. PICK k \in 1 .. m : w[k][1] <= c /\ c <= w[k][2]
        BY <1>4, <1>8, <2>2
      <3>2. k \in 1 .. m + 1
        BY <1>1
      <3> QED BY <1>2, <3>1, <3>2
    <2> QED BY <2>1, <2>2
  <1>9. Enumerates(v, s, S, n + 1)
    BY <1>2, <1>6, <1>7, <1>8 DEF Enumerates
  <1> QED BY <1>9 DEF v

LEMMA EnumerateMore ==
    ASSUME NEW s, NEW S, NEW n \in Nat, NEW w, Enumerates(w, s, S, n),
           s[n + 1] \notin S, n > 0, s[n] \notin S
    PROVE  /\ Len(w) > 0 /\ w[Len(w)][2] = n
           /\ Enumerates([w EXCEPT ![Len(w)] = <<@[1], n + 1>>], s, S, n + 1)
  <1> DEFINE m == Len(w)
             v == [w EXCEPT ![m] = <<@[1], n + 1>>]
  <1>1. /\ w \in Seq(Nat \X Nat) /\ m \in Nat
        /\ \A k \in 1 .. m : w[k][2] \in Nat /\ w[k][1] \in Nat
    BY DEF Enumerates
  <1>2. /\ \A k \in 1 .. m :
             /\ 1 <= w[k][1] /\ w[k][1] <= w[k][2] /\ w[k][2] <= n
             /\ \A i \in w[k][1] .. w[k][2] : s[i] \notin S
             /\ w[k][1] > 1 => s[w[k][1] - 1] \in S
             /\ w[k][2] < n => s[w[k][2] + 1] \in S
        /\ \A j, k \in 1 .. m : j < k => w[j][2] < w[k][1]
        /\ \A c \in 1 .. n : s[c] \notin S =>
             \E k \in 1 .. m : w[k][1] <= c /\ c <= w[k][2]
    BY DEF Enumerates
  <1>3. PICK l \in 1 .. m : w[l][1] <= n /\ n <= w[l][2]
    BY <1>2
  <1>4. w[l][2] = n
    BY <1>1, <1>2, <1>3
  <1>5. l = m
    <2> SUFFICES ASSUME l < m
                 PROVE  FALSE
      BY <1>1, <1>3
    <2>1. m \in 1 .. m
      BY <1>1, <1>3
    <2>2. n < w[m][1] /\ w[m][1] <= w[m][2] /\ w[m][2] <= n
      BY <1>2, <1>4, <2>1
    <2> QED BY <1>1, <2>1, <2>2
  <1>6. m > 0 /\ m \in 1 .. m /\ w[m][2] = n /\ w[m][1] <= n /\ 1 <= w[m][1]
        /\ w[m][1] \in Nat
    BY <1>1, <1>2, <1>3, <1>4, <1>5
  <1>7. /\ v \in Seq(Nat \X Nat) /\ Len(v) = m
        /\ \A k \in 1 .. m : k # m => v[k] = w[k]
        /\ v[m][1] = w[m][1] /\ v[m][2] = n + 1
    <2>1. <<w[m][1], n + 1>> \in Nat \X Nat
      BY <1>6
    <2> DEFINE p == <<w[m][1], n + 1>>
    <2>2. v = [w EXCEPT ![m] = p] /\ p[1] = w[m][1] /\ p[2] = n + 1
      OBVIOUS
    <2>4. p \in Nat \X Nat
      BY <2>1
    <2> HIDE DEF p, v
    <2>3. v \in Seq(Nat \X Nat) /\ Len(v) = m
      BY <1>1, <2>2, <2>4
    <2>5. DOMAIN w = 1 .. m
      BY <1>1
    <2>6. v[m] = p /\ \A k \in 1 .. m : k # m => v[k] = w[k]
      BY <1>6, <2>2, <2>5
    <2> QED BY <2>2, <2>3, <2>6
  <1> HIDE DEF m, v
  <1>8. \A k \in 1 .. m : k # m => w[k][2] < n /\ s[w[k][2] + 1] \in S
    <2> SUFFICES ASSUME NEW k \in 1 .. m, k # m
                 PROVE  w[k][2] < n /\ s[w[k][2] + 1] \in S
      OBVIOUS
    <2>1. w[k][2] < w[m][1] /\ w[k][2] \in Nat
      BY <1>1, <1>2, <1>6
    <2>2. w[k][2] < n
      BY <1>6, <2>1
    <2> QED BY <1>2, <2>2
  <1>9. ASSUME NEW k \in 1 .. m
        PROVE  /\ 1 <= v[k][1] /\ v[k][1] <= v[k][2] /\ v[k][2] <= n + 1
               /\ \A i \in v[k][1] .. v[k][2] : s[i] \notin S
               /\ v[k][1] > 1 => s[v[k][1] - 1] \in S
               /\ v[k][2] < n + 1 => s[v[k][2] + 1] \in S
    <2>1. CASE k # m
      <3> DEFINE y == w[k][2]
      <3>1. v[k] = w[k]
        BY <1>7, <2>1
      <3>2. y \in Nat /\ y < n
        BY <1>1, <1>8, <2>1
      <3> HIDE DEF y
      <3>3. y <= n + 1
        BY <3>2
      <3> QED BY <1>2, <1>8, <2>1, <3>1, <3>3 DEF y
    <2>2. CASE k = m
      <3>1. \A i \in w[m][1] .. n + 1 : i = n + 1 \/ i \in w[m][1] .. w[m][2]
        BY <1>6
      <3>2. \A i \in w[m][1] .. n + 1 : s[i] \notin S
        BY <1>2, <1>6, <3>1
      <3> QED BY <1>2, <1>6, <1>7, <2>2, <3>2
    <2> QED BY <2>1, <2>2
  <1>10. ASSUME NEW j \in 1 .. m, NEW k \in 1 .. m, j < k
         PROVE  v[j][2] < v[k][1]
    <2>0. j # m
      BY <1>1, <1>10
    <2>1. j # m /\ v[j][2] = w[j][2]
      BY <1>7, <2>0
    <2>2. v[k][1] = w[k][1]
      BY <1>7
    <2> QED BY <1>2, <1>10, <2>1, <2>2
  <1>11. ASSUME NEW c \in 1 .. n + 1, s[c] \notin S
         PROVE  \E k \in 1 .. m : v[k][1] <= c /\ c <= v[k][2]
    <2>1. CASE c = n + 1
      <3> DEFINE x == w[m][1]
      <3>1. x \in Nat /\ x <= n /\ m \in 1 .. m /\ v[m][1] = x /\ v[m][2] = n + 1
        BY <1>6, <1>7
      <3> HIDE DEF x
      <3>2. v[m][1] <= c /\ c <= v[m][2]
        BY <2>1, <3>1
      <3> QED BY <3>1, <3>2
    <2>2. CASE c \in 1 .. n
      <3>1. PICK k \in 1 .. m : w[k][1] <= c /\ c <= w[k][2]
        BY <1>2, <1>11, <2>2
      <3>2. CASE k # m
        <4>1. v[k] = w[k]
          BY <1>7, <3>2
        <4> QED BY <3>1, <4>1
      <3>3. CASE k = m
        <4>1. w[m][1] <= c /\ c <= n + 1
          BY <3>1, <3>3
        <4>2. v[m][1] <= c /\ c <= v[m][2]
          BY <1>7, <4>1
        <4> QED BY <1>6, <4>2
      <3> QED BY <3>2, <3>3
    <2> QED BY <2>1, <2>2
  <1>12. Enumerates(v, s, S, n + 1)
    BY <1>7, <1>9, <1>10, <1>11 DEF Enumerates
  <1> QED BY <1>6, <1>12 DEF m, v

\* The list of a sequence's intervals enumerates them.
LEMMA PiecesEnumerate ==
    ASSUME NEW C, NEW s \in Seq(C), NEW S
    PROVE  Enumerates(Pieces(s, S), s, S, Len(s))
  <1> DEFINE n == Len(s)
             T == {k \in 0 .. n : \E w : Enumerates(w, s, S, k)}
  <1>1. n \in Nat
    OBVIOUS
  <1>2. 0 \in T
    BY <1>1, EnumerateNone
  <1>3. ASSUME NEW k \in 1 .. n, k - 1 \in T
        PROVE  k \in T
    <2>1. PICK w : Enumerates(w, s, S, k - 1)
      BY <1>3
    <2> DEFINE i == k - 1
    <2>2. i \in Nat /\ i + 1 = k
      OBVIOUS
    <2> HIDE DEF i
    <2>3. Enumerates(w, s, S, i)
      BY <2>1 DEF i
    <2>4. \E v : Enumerates(v, s, S, i + 1)
      <3>1. CASE s[i + 1] \in S
        BY <2>2, <2>3, <3>1, EnumerateSkip
      <3>2. CASE s[i + 1] \notin S /\ (i > 0 => s[i] \in S)
        BY <2>2, <2>3, <3>2, EnumerateBegin
      <3>3. CASE s[i + 1] \notin S /\ i > 0 /\ s[i] \notin S
        BY <2>2, <2>3, <3>3, EnumerateMore
      <3> QED BY <3>1, <3>2, <3>3
    <2> QED BY <2>2, <2>4
  <1> HIDE DEF T
  <1>4. 0 .. n \subseteq T
    BY <1>1, <1>2, <1>3, UpTo
  <1>5. n \in T
    BY <1>1, <1>4
  <1>6. PICK w : Enumerates(w, s, S, n)
    BY <1>5 DEF T
  <1> QED BY <1>6, PiecesAre

----------------------------------------------------------------------------
(* Parts of sequences. *)

LEMMA Part ==
    ASSUME NEW C, NEW s \in Seq(C), NEW i \in Nat, NEW j \in Nat,
           1 <= i, i <= j + 1, j <= Len(s)
    PROVE  /\ SubSeq(s, i, j) \in Seq(C) /\ Len(SubSeq(s, i, j)) = j - i + 1
           /\ \A k \in 1 .. j - i + 1 : SubSeq(s, i, j)[k] = s[i + k - 1]
  OBVIOUS

LEMMA Same ==
    ASSUME NEW C, NEW D, NEW s \in Seq(C), NEW t \in Seq(D), Len(s) = Len(t),
           \A k \in 1 .. Len(s) : s[k] = t[k]
    PROVE  s = t
  OBVIOUS

\* A part of a part.
LEMMA PartOfPart ==
    ASSUME NEW C, NEW s \in Seq(C), NEW i \in Nat, NEW j \in Nat,
           1 <= i, i <= j + 1, j <= Len(s),
           NEW f \in Nat, NEW l \in Nat, 1 <= f, f <= l + 1, l <= j - i + 1
    PROVE  SubSeq(SubSeq(s, i, j), f, l) = SubSeq(s, i + f - 1, i + l - 1)
  <1> DEFINE t == SubSeq(s, i, j)
             a == SubSeq(t, f, l)
             b == SubSeq(s, i + f - 1, i + l - 1)
  <1>1. /\ t \in Seq(C) /\ Len(t) = j - i + 1
        /\ \A k \in 1 .. j - i + 1 : t[k] = s[i + k - 1]
    BY Part
  <1> HIDE DEF t
  <1>2. /\ a \in Seq(C) /\ Len(a) = l - f + 1
        /\ \A k \in 1 .. l - f + 1 : a[k] = t[f + k - 1]
    BY <1>1, Part
  <1> DEFINE x == i + f - 1
             y == i + l - 1
  <1>3. /\ x \in Nat /\ y \in Nat /\ 1 <= x /\ x <= y + 1 /\ y <= Len(s)
        /\ y - x + 1 = l - f + 1
    OBVIOUS
  <1> HIDE DEF a, x, y
  <1>4. /\ SubSeq(s, x, y) \in Seq(C) /\ Len(SubSeq(s, x, y)) = l - f + 1
        /\ \A k \in 1 .. l - f + 1 : SubSeq(s, x, y)[k] = s[x + k - 1]
    BY <1>3, Part
  <1>5. \A k \in 1 .. l - f + 1 : a[k] = SubSeq(s, x, y)[k]
    <2> SUFFICES ASSUME NEW k \in 1 .. l - f + 1
                 PROVE  a[k] = SubSeq(s, x, y)[k]
      OBVIOUS
    <2>1. f + k - 1 \in 1 .. j - i + 1 /\ i + (f + k - 1) - 1 = x + k - 1
      BY DEF x
    <2> QED BY <1>1, <1>2, <1>4, <2>1
  <1>6. a = SubSeq(s, x, y)
    BY <1>2, <1>4, <1>5, Same
  <1> QED BY <1>6 DEF a, t, x, y

\* The intervals behind the first p that lie in a part, whose ends cut none: q.
Uncut(w, a, b, p, q) ==
    /\ p + q <= Len(w)
    /\ \A k \in 1 .. p : w[k][2] < a
    /\ \A k \in p + 1 .. p + q : a <= w[k][1] /\ w[k][2] <= b
    /\ \A k \in p + q + 1 .. Len(w) : b < w[k][1]

PiecesOfPart(s, S, w, a, b, p, q) ==
    Pieces(SubSeq(s, a, b), S)
      = [j \in 1 .. q |-> <<w[p + j][1] - a + 1, w[p + j][2] - a + 1>>]

LEMMA PartPieces ==
    ASSUME NEW C, NEW s \in Seq(C), NEW S, NEW w, Enumerates(w, s, S, Len(s)),
           NEW a \in Nat, NEW b \in Nat, 1 <= a, a <= b + 1, b <= Len(s),
           NEW p \in Nat, NEW q \in Nat, Uncut(w, a, b, p, q)
    PROVE  PiecesOfPart(s, S, w, a, b, p, q)
  <1> DEFINE t == SubSeq(s, a, b)
             v == [j \in 1 .. q |-> <<w[p + j][1] - a + 1, w[p + j][2] - a + 1>>]
             n == b - a + 1
             m == Len(w)
  <1> USE DEF Uncut
  <1>1. /\ t \in Seq(C) /\ Len(t) = n /\ n \in Nat
        /\ \A k \in 1 .. n : t[k] = s[a + k - 1]
    BY Part
  <1>2. /\ m \in Nat
        /\ \A k \in 1 .. m : w[k][1] \in Nat /\ w[k][2] \in Nat
    BY DEF Enumerates
  <1>3. \A k \in 1 .. m :
         /\ 1 <= w[k][1] /\ w[k][1] <= w[k][2] /\ w[k][2] <= Len(s)
         /\ \A i \in w[k][1] .. w[k][2] : s[i] \notin S
         /\ w[k][1] > 1 => s[w[k][1] - 1] \in S
         /\ w[k][2] < Len(s) => s[w[k][2] + 1] \in S
    BY DEF Enumerates
  <1>4. \A j, k \in 1 .. m : j < k => w[j][2] < w[k][1]
    BY DEF Enumerates
  <1>5. \A c \in 1 .. Len(s) : s[c] \notin S =>
          \E k \in 1 .. m : w[k][1] <= c /\ c <= w[k][2]
    BY DEF Enumerates
  <1> HIDE DEF t, m
  <1>6. \A j \in 1 .. q : /\ v[j][1] = w[p + j][1] - a + 1
                          /\ v[j][2] = w[p + j][2] - a + 1
    OBVIOUS
  <1>7. \A j \in 1 .. q : p + j \in 1 .. m /\ p + j \in p + 1 .. p + q
    BY <1>2 DEF m
  <1>8. \A j \in 1 .. q : v[j][1] \in Nat /\ v[j][2] \in Nat
    <2> SUFFICES ASSUME NEW j \in 1 .. q
                 PROVE  v[j][1] \in Nat /\ v[j][2] \in Nat
      OBVIOUS
    <2> DEFINE k == p + j
    <2>1. k \in 1 .. m /\ k \in p + 1 .. p + q
      BY <1>7
    <2> DEFINE x == w[k][1]
               y == w[k][2]
    <2>2. v[j][1] = x - a + 1 /\ v[j][2] = y - a + 1
      BY <1>6
    <2> HIDE DEF v
    <2>3. a <= x /\ x <= y /\ x \in Nat /\ y \in Nat
      BY <1>2, <1>3, <2>1
    <2> HIDE DEF k, x, y
    <2>4. x - a + 1 \in Nat /\ y - a + 1 \in Nat
      BY <2>3
    <2> QED BY <2>2, <2>4
  <1>9. v \in Seq(Nat \X Nat) /\ Len(v) = q
    <2>1. \A j \in 1 .. q : v[j] \in Nat \X Nat
      BY <1>8
    <2>2. v \in [1 .. q -> Nat \X Nat]
      BY <2>1
    <2> HIDE DEF v
    <2> QED BY <2>2
  <1> HIDE DEF v, n
  <1>10. ASSUME NEW j \in 1 .. q
         PROVE  /\ 1 <= v[j][1] /\ v[j][1] <= v[j][2] /\ v[j][2] <= n
                /\ \A i \in v[j][1] .. v[j][2] : t[i] \notin S
                /\ v[j][1] > 1 => t[v[j][1] - 1] \in S
                /\ v[j][2] < n => t[v[j][2] + 1] \in S
    <2> DEFINE x == w[p + j][1]
               y == w[p + j][2]
    <2>1. /\ x \in Nat /\ y \in Nat /\ a <= x /\ x <= y /\ y <= b /\ y <= Len(s)
          /\ \A i \in x .. y : s[i] \notin S
          /\ x > 1 => s[x - 1] \in S
          /\ y < Len(s) => s[y + 1] \in S
      BY <1>2, <1>3, <1>7
    <2>2. v[j][1] = x - a + 1 /\ v[j][2] = y - a + 1
      BY <1>6
    <2> HIDE DEF x, y
    <2>3. 1 <= v[j][1] /\ v[j][1] <= v[j][2] /\ v[j][2] <= n
      BY <2>1, <2>2 DEF n
    <2>4. ASSUME NEW i \in v[j][1] .. v[j][2]
          PROVE  t[i] \notin S
      <3>1. i \in 1 .. n /\ a + i - 1 \in x .. y
        BY <2>1, <2>2 DEF n
      <3> QED BY <1>1, <2>1, <3>1
    <2>5. ASSUME v[j][1] > 1
          PROVE  t[v[j][1] - 1] \in S
      <3>1. v[j][1] - 1 \in 1 .. n /\ a + (v[j][1] - 1) - 1 = x - 1 /\ x > 1
        BY <2>1, <2>2, <2>5 DEF n
      <3> QED BY <1>1, <2>1, <3>1
    <2>6. ASSUME v[j][2] < n
          PROVE  t[v[j][2] + 1] \in S
      <3>1. /\ v[j][2] + 1 \in 1 .. n /\ a + (v[j][2] + 1) - 1 = y + 1
            /\ y < b
        BY <2>1, <2>2, <2>6 DEF n
      <3>2. y < Len(s)
        BY <2>1, <3>1
      <3> QED BY <1>1, <2>1, <3>1, <3>2
    <2> QED BY <2>3, <2>4, <2>5, <2>6
  <1>11. ASSUME NEW j \in 1 .. q, NEW k \in 1 .. q, j < k
         PROVE  v[j][2] < v[k][1]
    <2>1. p + j < p + k
      BY <1>11
    <2>2. w[p + j][2] < w[p + k][1]
      BY <1>4, <1>7, <2>1
    <2> DEFINE x == w[p + k][1]
               y == w[p + j][2]
    <2>3. y < x /\ x \in Nat /\ y \in Nat
      BY <1>2, <1>7, <2>2
    <2>4. v[j][2] = y - a + 1 /\ v[k][1] = x - a + 1
      BY <1>6
    <2> HIDE DEF x, y
    <2> QED BY <2>3, <2>4
  <1>12. ASSUME NEW c \in 1 .. n, t[c] \notin S
         PROVE  \E j \in 1 .. q : v[j][1] <= c /\ c <= v[j][2]
    <2> DEFINE d == a + c - 1
    <2>1. d \in 1 .. Len(s) /\ a <= d /\ d <= b
      BY DEF n
    <2>2. s[d] \notin S
      BY <1>1, <1>12
    <2> HIDE DEF d
    <2>3. PICK k \in 1 .. m : w[k][1] <= d /\ d <= w[k][2]
      BY <1>5, <2>1, <2>2
    <2>4. w[k][1] \in Nat /\ w[k][2] \in Nat
      BY <1>2
    <2>5. ~(w[k][2] < a) /\ ~(b < w[k][1])
      BY <2>1, <2>3, <2>4
    <2>6. k \notin 1 .. p /\ k \notin p + q + 1 .. Len(w)
      BY <2>5
    <2>7. k - p \in 1 .. q /\ p + (k - p) = k
      BY <1>2, <2>6 DEF m
    <2> DEFINE x == w[k][1]
               y == w[k][2]
    <2>8. v[k - p][1] = x - a + 1 /\ v[k - p][2] = y - a + 1
      BY <1>6, <2>7
    <2>9. v[k - p][1] <= c /\ c <= v[k - p][2]
      <3>1. x \in Nat /\ y \in Nat /\ x <= a + c - 1 /\ a + c - 1 <= y
        BY <2>3, <2>4 DEF d
      <3> HIDE DEF x, y
      <3>2. x - a + 1 <= c /\ c <= y - a + 1
        BY <3>1
      <3> QED BY <2>8, <3>2
    <2> QED BY <2>7, <2>9
  <1>13. Enumerates(v, t, S, Len(t))
    <2>1. Len(t) = n /\ Len(v) = q
      BY <1>1, <1>9
    <2> QED BY <1>9, <1>10, <1>11, <1>12, <2>1 DEF Enumerates
  <1> QED BY <1>1, <1>13, PiecesAre DEF t, v, PiecesOfPart
=============================================================================
