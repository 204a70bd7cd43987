------------------------- MODULE StringTools_proofs -------------------------
(***************************************************************************)
(* Proofs about both string utilities.  A run is one call of each main(),  *)
(* so the invariant says that what has run is what main() returns; the     *)
(* work is in the loops, each a recursive function over positions.         *)
(***************************************************************************)
EXTENDS StringTools, Recursion

RunInv ==
    /\ typed \in [flag : Flags, args : Args, heap : Heaps]
    /\ first # NotRun => first = main(typed.flag, typed.args, typed.heap)
    /\ second # NotRun => second = Second!main(typed.flag, typed.args)

\* What has run is what main() returns for the arguments.
THEOREM RunInvariant == Spec => []RunInv
  <1>1. Init => RunInv
    BY DEF Init, RunInv
  <1>2. RunInv /\ [Next]_svars => RunInv'
    <2> SUFFICES ASSUME RunInv, [Next]_svars
                 PROVE  RunInv'
      OBVIOUS
    <2>1. CASE RunFirst
      BY <2>1, Zenon DEF RunFirst, RunInv
    <2>2. CASE RunSecond
      BY <2>2, Zenon DEF RunSecond, RunInv
    <2>3. CASE UNCHANGED svars
      BY <2>3, Zenon DEF svars, RunInv
    <2> QED BY <2>1, <2>2, <2>3 DEF Next
  <1> QED BY <1>1, <1>2, PTL DEF Spec

Letter == Typeable \cup {" ", "."}
Strings == Seq(Typeable)

\* The arguments are strings, with enough memory for their lengths.
LEMMA TypedIs ==
    ASSUME RunInv
    PROVE  /\ typed.flag \in Flags /\ typed.heap \in Seq(Range(typed.heap))
           /\ typed.args \in Seq(Strings) /\ Len(typed.args) \in Nat
           /\ typed.args # <<>> => /\ Str \in Strings /\ Length \in Nat
                                   /\ Length <= BUFFER_SZ + Len(typed.heap)
  <1>1. /\ typed.flag \in Flags /\ typed.args \in Args /\ typed.heap \in Heaps
    BY DEF RunInv
  <1>2. typed.args \in Seq(Strings)
    BY <1>1, ArgAssumption DEF Strings
  <1>3. typed.args # <<>> => Str \in Strings /\ Len(Str) <= BUFFER_SZ + Len(typed.heap)
    BY <1>1, <1>2, ArgAssumption DEF Str
  <1> QED BY <1>1, <1>2, <1>3, HeapAssumption DEF Length, Strings
----------------------------------------------------------------------------
(* setup_buff(). *)

Fields(X, Y) == [buff : X, prev_char : Y, overflow : BOOLEAN]
Stores == Fields(Seq(Letter), Letter)
Empty  == [buff |-> <<>>, prev_char |-> ".", overflow |-> FALSE]

\* The cases of a character.
LEMMA StoreIs ==
    ASSUME NEW s \in Stores, NEW c \in Typeable
    PROVE  LET t == Store(s, c) IN
           /\ t \in Stores
           /\ s.overflow \/ Len(s.buff) >= BUFFER_SZ => t.overflow /\ t.buff = s.buff
           /\ ~s.overflow /\ Len(s.buff) < BUFFER_SZ =>
                /\ ~t.overflow
                /\ t.prev_char = IF c \in Blanks THEN " " ELSE c
                /\ t.buff = IF c \in Blanks /\ s.prev_char = " " THEN s.buff
                            ELSE Append(s.buff, IF c \in Blanks THEN " " ELSE c)
  <1> USE DEF Stores
  <1> DEFINE kept == IF c \in Blanks THEN " " ELSE c
             t    == Store(s, c)
  <1>1. kept = " " <=> c \in Blanks
    BY DEF Blanks
  <1>4. kept \in Letter
    BY DEF Letter
  <1>0. s.buff \in Seq(Letter) /\ s.prev_char \in Letter /\ s.overflow \in BOOLEAN
        /\ Len(s.buff) \in Nat /\ BUFFER_SZ \in Nat
    <2>1. s.buff \in Seq(Letter) /\ s.prev_char \in Letter /\ s.overflow \in BOOLEAN
      BY DEF Fields
    <2> QED BY <2>1, BufferAssumption
  <1>2. CASE s.overflow \/ Len(s.buff) >= BUFFER_SZ
    <2>1. t = [s EXCEPT !.overflow = TRUE]
      BY <1>2, Zenon DEF Store
    <2>2. t \in Stores /\ t.overflow = TRUE /\ t.buff = s.buff
      <3> DEFINE X == Seq(Letter)
      <3>1. s \in Fields(X, Letter)
        OBVIOUS
      <3> HIDE DEF X
      <3>2. t \in Fields(X, Letter) /\ t.overflow = TRUE /\ t.buff = s.buff
        BY <2>1, <3>1 DEF Fields
      <3> QED BY <3>2 DEF X
    <2>3. ~(~s.overflow /\ Len(s.buff) < BUFFER_SZ)
      BY <1>0, <1>2
    <2> HIDE DEF t
    <2> QED BY <2>2, <2>3, Zenon DEF t
  <1>3. CASE ~(s.overflow \/ Len(s.buff) >= BUFFER_SZ)
    <2>1. t = [s EXCEPT !.buff = IF kept = " " /\ s.prev_char = " " THEN s.buff
                                 ELSE Append(s.buff, kept),
                        !.prev_char = kept]
      BY <1>3, Zenon DEF Store
    <2> HIDE DEF kept
    <2> HIDE DEF kept
    <2> DEFINE b == IF kept = " " /\ s.prev_char = " " THEN s.buff ELSE Append(s.buff, kept)
    <2>2. b \in Seq(Letter)
      <3> HIDE DEF kept
      <3>1. Append(s.buff, kept) \in Seq(Letter)
        BY <1>0, <1>4
      <3> QED BY <1>0, <3>1
    <2>3. t = [s EXCEPT !.buff = b, !.prev_char = kept]
      BY <2>1
    <2> HIDE DEF b, t
    <2>4. t \in Stores /\ t.buff = b /\ t.prev_char = kept /\ t.overflow = s.overflow
      <3> DEFINE X == Seq(Letter)
      <3>1. s \in Fields(X, Letter) /\ b \in X
        BY <2>2
      <3> HIDE DEF X
      <3>2. t \in Fields(X, Letter) /\ t.buff = b /\ t.prev_char = kept
            /\ t.overflow = s.overflow
        BY <1>4, <2>3, <3>1 DEF Fields
      <3> QED BY <3>2 DEF X
    <2>5. b = IF c \in Blanks /\ s.prev_char = " " THEN s.buff ELSE Append(s.buff, kept)
      BY <1>1, Zenon DEF b
    <2>6. ~t.overflow /\ ~(s.overflow \/ Len(s.buff) >= BUFFER_SZ)
      BY <1>3, <2>4, Zenon
    <2> QED BY <2>4, <2>5, <2>6, Zenon DEF kept, t
  <1> QED BY <1>2, <1>3

LEMMA StoredSteps ==
    ASSUME NEW str \in Strings
    PROVE  /\ Stored(str, 0) = Empty
           /\ \A k \in 1 .. Len(str) : Stored(str, k) = Store(Stored(str, k - 1), str[k])
           /\ \A k \in 0 .. Len(str) : Stored(str, k) \in Stores
  <1> DEFINE n == Len(str)
             step == [p \in (1 .. n) \X Stores |-> Store(p[2], str[p[1]])]
             Loop(f) == f = [k \in 0 .. n |-> IF k = 0 THEN Empty
                                              ELSE Store(f[k - 1], str[k])]
             state == CHOOSE f : Loop(f)
  <1>1. n \in Nat /\ Empty \in Stores /\ \A k \in 1 .. n : str[k] \in Typeable
    BY DEF Strings, Empty, Stores, Fields, Letter
  <1>2. step \in [(1 .. n) \X Stores -> Stores]
    BY <1>1, StoreIs
  <1>3. \A k \in 1 .. n, t \in Stores : step[<<k, t>>] = Store(t, str[k])
    OBVIOUS
  <1>4. \A k : Stored(str, k) = state[k]
    BY DEF Stored, Empty
  <1> HIDE DEF step
  <1>5. PICK f \in [0 .. n -> Stores] : Follows(f, n, Empty, step)
    BY <1>1, <1>2, Recursive
  <1>6. Loop(f)
    <2>1. \A k \in 1 .. n : f[k] = Store(f[k - 1], str[k])
      <3> SUFFICES ASSUME NEW k \in 1 .. n
                   PROVE  f[k] = Store(f[k - 1], str[k])
        OBVIOUS
      <3>1. k - 1 \in 0 .. n /\ f[k - 1] \in Stores
        BY <1>1
      <3> QED BY <1>3, <1>5, <3>1 DEF Follows
    <2>2. \A k \in 0 .. n : k # 0 => k \in 1 .. n
      BY <1>1
    <2>3. f[0] = Empty
      BY <1>5 DEF Follows
    <2> QED BY <2>1, <2>2, <2>3
  <1>7. Loop(state)
    <2> HIDE DEF Loop
    <2> QED BY <1>6
  <1> HIDE DEF state
  <1>8. state[0] = Empty
    BY <1>1, <1>7
  <1>9. \A k \in 1 .. n : state[k] = Store(state[k - 1], str[k])
    <2> SUFFICES ASSUME NEW k \in 1 .. n
                 PROVE  state[k] = Store(state[k - 1], str[k])
      OBVIOUS
    <2>1. k \in 0 .. n /\ k # 0
      BY <1>1
    <2> QED BY <1>7, <2>1, Zenon
  <1>10. \A k \in 0 .. n : state[k] \in Stores
    <2> DEFINE T == {k \in 0 .. n : state[k] \in Stores}
    <2>1. 0 \in T
      BY <1>1, <1>8
    <2>2. ASSUME NEW k \in 1 .. n, k - 1 \in T
          PROVE  k \in T
      <3>1. state[k] \in Stores
        BY <1>1, <1>9, <2>2, StoreIs
      <3> QED BY <3>1
    <2> HIDE DEF T
    <2>3. 0 .. n \subseteq T
      BY <1>1, <2>1, <2>2, UpTo
    <2> QED BY <2>3 DEF T
  <1> QED BY <1>4, <1>8, <1>9, <1>10

\* The buffer is never overrun.
LEMMA StoredFits ==
    ASSUME NEW str \in Strings
    PROVE  \A k \in 0 .. Len(str) : Len(Stored(str, k).buff) <= BUFFER_SZ
  <1> DEFINE n == Len(str)
             T == {k \in 0 .. n : Len(Stored(str, k).buff) <= BUFFER_SZ}
  <1>1. n \in Nat /\ \A k \in 1 .. n : str[k] \in Typeable
    BY DEF Strings
  <1>2. 0 \in T
    BY <1>1, StoredSteps, BufferAssumption DEF Empty
  <1>3. ASSUME NEW k \in 1 .. n, k - 1 \in T
        PROVE  k \in T
    <2> DEFINE s == Stored(str, k - 1)
               c == str[k]
    <2>1. s \in Stores /\ c \in Typeable /\ Stored(str, k) = Store(s, c)
          /\ Len(s.buff) <= BUFFER_SZ
      <3>1. k - 1 \in 0 .. n
        OBVIOUS
      <3> QED BY <1>1, <1>3, <3>1, StoredSteps
    <2> HIDE DEF s, c
    <2>2. Len(Store(s, c).buff) <= BUFFER_SZ
      <3>1. s.buff \in Seq(Letter) /\ s.overflow \in BOOLEAN
        BY <2>1 DEF Stores, Fields
      <3>2. CASE s.overflow \/ Len(s.buff) >= BUFFER_SZ
        BY <2>1, <3>2, StoreIs
      <3>3. CASE ~s.overflow /\ Len(s.buff) < BUFFER_SZ
        <4> DEFINE d == IF c \in Blanks THEN " " ELSE c
        <4>1. Store(s, c).buff = s.buff \/ Store(s, c).buff = Append(s.buff, d)
          BY <2>1, <3>3, StoreIs
        <4> HIDE DEF d
        <4>2. Len(Append(s.buff, d)) = Len(s.buff) + 1 /\ Len(s.buff) \in Nat
          BY <3>1
        <4> QED BY <3>3, <4>1, <4>2, BufferAssumption
      <3> QED BY <3>1, <3>2, <3>3, BufferAssumption
    <2> QED BY <2>1, <2>2
  <1> HIDE DEF T
  <1>4. 0 .. n \subseteq T
    BY <1>1, <1>2, <1>3, UpTo
  <1> QED BY <1>4 DEF T

\* The positions that are kept of the first n, and what becomes of them.
KeptTo(n) == {i \in 1 .. n : ~(i > 1 /\ IsBlank(i) /\ IsBlank(i - 1))}
Shown(i)  == IF IsBlank(i) THEN " " ELSE Str[i]

\* A state that holds the kept ones of the first n characters.
Lists(at, n) ==
    /\ at \in Seq(Nat) /\ \A j, k \in 1 .. Len(at) : j < k => at[j] < at[k]
    /\ {at[k] : k \in 1 .. Len(at)} = KeptTo(n)
Keeps(s, at, n) ==
    /\ Lists(at, n)
    /\ s.overflow = FALSE
    /\ s.prev_char = " " <=> n > 0 /\ IsBlank(n)
    /\ s.buff = [k \in 1 .. Len(at) |-> Shown(at[k])]

LEMMA ListsKept ==
    ASSUME NEW n \in Nat, NEW at, Lists(at, n)
    PROVE  Cardinality(KeptTo(n)) = Len(at) /\ Ascending(KeptTo(n)) = at
  <1>1. at \in Seq(Nat) /\ Len(at) \in Nat
    BY DEF Lists
  <1>2. \A i, j \in 1 .. Len(at) : i # j => at[i] # at[j]
    <2> SUFFICES ASSUME NEW i \in 1 .. Len(at), NEW j \in 1 .. Len(at), i # j, at[i] = at[j]
                 PROVE  FALSE
      OBVIOUS
    <2>1. i < j \/ j < i
      BY <1>1
    <2>2. at[i] < at[j] \/ at[j] < at[i]
      BY <2>1 DEF Lists
    <2> QED BY <1>1, <2>2
  <1>3. Cardinality({at[k] : k \in 1 .. Len(at)}) = Len(at)
    <2>1. Len(at) \in 0 .. Len(at)
      BY <1>1
    <2> QED BY <1>1, <1>2, <2>1, Counted
  <1>4. Ascending({at[k] : k \in 1 .. Len(at)}) = at
    BY AscendingIs DEF Lists
  <1> QED BY <1>3, <1>4 DEF Lists

LEMMA KeptGrows ==
    ASSUME NEW n \in Nat
    PROVE  /\ KeptTo(n) \subseteq 1 .. n
           /\ KeptTo(n + 1) = IF n > 0 /\ IsBlank(n + 1) /\ IsBlank(n) THEN KeptTo(n)
                              ELSE KeptTo(n) \cup {n + 1}
  <1>1. 1 .. n + 1 = (1 .. n) \cup {n + 1}
    OBVIOUS
  <1>2. n + 1 \in KeptTo(n + 1) <=> ~(n > 0 /\ IsBlank(n + 1) /\ IsBlank(n))
    <2>1. n + 1 > 1 <=> n > 0
      OBVIOUS
    <2>2. n + 1 - 1 = n /\ n + 1 \in 1 .. n + 1
      OBVIOUS
    <2> QED BY <2>1, <2>2 DEF KeptTo
  <1>3. \A i \in 1 .. n : i \in KeptTo(n + 1) <=> i \in KeptTo(n)
    BY <1>1 DEF KeptTo
  <1>4. KeptTo(n) \subseteq 1 .. n /\ KeptTo(n + 1) \subseteq (1 .. n) \cup {n + 1}
    BY <1>1 DEF KeptTo
  <1> QED BY <1>2, <1>3, <1>4

\* While the buffer is not full, one more character is stored.
LEMMA KeepsMore ==
    ASSUME NEW n \in Nat, n + 1 \in 1 .. Length, Str \in Strings,
           NEW s \in Stores, NEW at, Keeps(s, at, n), Len(s.buff) < BUFFER_SZ
    PROVE  \E new : Keeps(Store(s, Str[n + 1]), new, n + 1)
  <1> DEFINE c == Str[n + 1]
             t == Store(s, c)
             m == Len(at)
             blank == n > 0 /\ IsBlank(n + 1) /\ IsBlank(n)
  <1>1. c \in Typeable /\ (IsBlank(n + 1) <=> c \in Blanks)
        /\ Shown(n + 1) = IF c \in Blanks THEN " " ELSE c
    BY DEF Strings, Length, IsBlank, Shown
  <1>2. /\ at \in Seq(Nat) /\ m \in Nat /\ \A k \in 1 .. m : at[k] \in 1 .. n
        /\ s.overflow = FALSE /\ {at[k] : k \in 1 .. m} = KeptTo(n)
    <2>1. at \in Seq(Nat) /\ s.overflow = FALSE /\ {at[k] : k \in 1 .. m} = KeptTo(n)
      BY Zenon DEF Keeps, Lists
    <2>2. m \in Nat
      BY <2>1
    <2> HIDE DEF m
    <2> QED BY <2>1, <2>2, KeptGrows
  <1>3. /\ t.overflow = FALSE
        /\ t.prev_char = Shown(n + 1)
        /\ t.buff = IF c \in Blanks /\ s.prev_char = " " THEN s.buff
                    ELSE Append(s.buff, Shown(n + 1))
    <2>1. t \in Stores /\ ~t.overflow
      BY <1>1, <1>2, StoreIs
    <2>2. t.overflow = FALSE
      BY <2>1 DEF Stores, Fields
    <2>3. /\ t.prev_char = IF c \in Blanks THEN " " ELSE c
          /\ t.buff = IF c \in Blanks /\ s.prev_char = " " THEN s.buff
                      ELSE Append(s.buff, IF c \in Blanks THEN " " ELSE c)
      BY <1>1, <1>2, StoreIs
    <2> HIDE DEF t, c
    <2> QED BY <1>1, <2>2, <2>3
  <1>4. t.prev_char = " " <=> n + 1 > 0 /\ IsBlank(n + 1)
    <2>1. t.prev_char = " " <=> c \in Blanks
      BY <1>1, <1>3 DEF Blanks
    <2>2. n + 1 > 0
      OBVIOUS
    <2> QED BY <1>1, <2>1, <2>2, Zenon
  <1>5. blank <=> c \in Blanks /\ s.prev_char = " "
    BY <1>1 DEF Keeps
  <1> HIDE DEF t, c
  <1>6. CASE blank
    <2>1. KeptTo(n + 1) = KeptTo(n)
      BY <1>6, KeptGrows
    <2>2. t.buff = s.buff
      BY <1>3, <1>5, <1>6
    <2>3. Keeps(t, at, n + 1)
      BY <1>3, <1>4, <2>1, <2>2 DEF Keeps, Lists
    <2> QED BY <2>3 DEF t, c
  <1>7. CASE ~blank
    <2> DEFINE new == Append(at, n + 1)
    <2>1. KeptTo(n + 1) = KeptTo(n) \cup {n + 1}
      BY <1>7, KeptGrows
    <2>2. t.buff = Append(s.buff, Shown(n + 1))
      BY <1>3, <1>5, <1>7
    <2>3. /\ new \in Seq(Nat) /\ Len(new) = m + 1 /\ new[m + 1] = n + 1
          /\ \A k \in 1 .. m : new[k] = at[k]
      BY <1>2
    <2> HIDE DEF new
    <2>4. \A k \in 1 .. m + 1 : k \in 1 .. m \/ k = m + 1
      BY <1>2
    <2>5. \A j, k \in 1 .. Len(new) : j < k => new[j] < new[k]
      <3> SUFFICES ASSUME NEW j \in 1 .. m + 1, NEW k \in 1 .. m + 1, j < k
                   PROVE  new[j] < new[k]
        BY <2>3
      <3>1. j \in 1 .. m
        BY <1>2
      <3>2. CASE k \in 1 .. m
        BY <2>3, <3>1, <3>2 DEF Keeps, Lists
      <3>3. CASE k = m + 1
        <4>1. new[j] \in 1 .. n
          BY <1>2, <2>3, <3>1
        <4> QED BY <2>3, <3>3, <4>1
      <3> QED BY <2>4, <3>2, <3>3
    <2>6. {new[k] : k \in 1 .. Len(new)} = KeptTo(n + 1)
      <3>1. 1 .. m + 1 = (1 .. m) \cup {m + 1}
        BY <1>2
      <3>2. {new[k] : k \in 1 .. m + 1} = {new[k] : k \in 1 .. m} \cup {n + 1}
        BY <2>3, <3>1
      <3>3. {new[k] : k \in 1 .. m} = {at[k] : k \in 1 .. m}
        BY <2>3
      <3> HIDE DEF m
      <3> QED BY <1>2, <2>1, <2>3, <3>2, <3>3
    <2>7. t.buff = [k \in 1 .. Len(new) |-> Shown(new[k])]
      <3>1. s.buff = [k \in 1 .. m |-> Shown(at[k])]
        BY DEF Keeps
      <3>2. Append([k \in 1 .. m |-> Shown(at[k])], Shown(n + 1))
            = [k \in 1 .. m + 1 |-> IF k = m + 1 THEN Shown(n + 1) ELSE Shown(at[k])]
        <4> HIDE DEF m
        <4> QED BY <1>2
      <3>3. \A k \in 1 .. m + 1 :
               (IF k = m + 1 THEN Shown(n + 1) ELSE Shown(at[k])) = Shown(new[k])
        BY <2>3, <2>4
      <3> HIDE DEF m
      <3> QED BY <2>2, <2>3, <3>1, <3>2, <3>3
    <2>8. Keeps(t, new, n + 1)
      BY <1>3, <1>4, <2>3, <2>5, <2>6, <2>7 DEF Keeps, Lists
    <2> QED BY <2>8 DEF t, c
  <1> QED BY <1>6, <1>7 DEF t, c

LEMMA StoredKeeps ==
    ASSUME Str \in Strings, Fits
    PROVE  \A n \in 0 .. Length : \E at : Keeps(Stored(Str, n), at, n)
  <1> DEFINE T == {n \in 0 .. Length : \E at : Keeps(Stored(Str, n), at, n)}
  <1>1. Length \in Nat /\ DOMAIN Str = 1 .. Length
    BY DEF Strings, Length
  <1>2. 0 \in T
    <2>1. Stored(Str, 0) = Empty
      BY StoredSteps
    <2>2. Lists(<<>>, 0)
      BY DEF Lists, KeptTo
    <2>3. Keeps(Empty, <<>>, 0)
      BY <2>2 DEF Keeps, Empty
    <2> QED BY <1>1, <2>1, <2>3
  <1>3. ASSUME NEW k \in 1 .. Length, k - 1 \in T
        PROVE  k \in T
    <2> DEFINE n == k - 1
               s == Stored(Str, n)
    <2>1. PICK at : Keeps(s, at, n)
      BY <1>3
    <2>2. n \in Nat /\ n \in 0 .. Length /\ n + 1 = k /\ n + 1 \in 1 .. Length
      BY <1>1
    <2>3. s \in Stores /\ Stored(Str, k) = Store(s, Str[k])
      BY <2>2, StoredSteps DEF Length
    <2> HIDE DEF s, n
    <2>4. Len(s.buff) = Len(at)
      <3>1. s.buff = [i \in 1 .. Len(at) |-> Shown(at[i])] /\ at \in Seq(Nat)
        BY <2>1 DEF Keeps, Lists
      <3> QED BY <3>1
    <2>5. Cardinality(KeptTo(n)) = Len(at)
      BY <2>1, <2>2, ListsKept DEF Keeps
    <2>6. Cardinality(KeptTo(n)) < BUFFER_SZ
      <3>1. KeptTo(n) \subseteq Kept \ {Len(Str)}
        BY <1>1, <2>2 DEF KeptTo, Kept, Length
      <3>2. IsFiniteSet(Kept \ {Len(Str)})
        <4>1. IsFiniteSet(1 .. Length)
          BY <1>1, FS_Interval
        <4>2. Kept \ {Len(Str)} \subseteq 1 .. Length
          BY <1>1 DEF Kept
        <4> QED BY <4>1, <4>2, FS_Subset
      <3>3. Cardinality(Kept \ {Len(Str)}) < BUFFER_SZ
        <4>1. Str # <<>>
          BY <1>1, <2>2 DEF Length
        <4> QED BY <4>1 DEF Fits
      <3>4. /\ Cardinality(KeptTo(n)) <= Cardinality(Kept \ {Len(Str)})
            /\ IsFiniteSet(KeptTo(n))
        BY <3>1, <3>2, FS_Subset
      <3>5. Cardinality(KeptTo(n)) \in Nat /\ Cardinality(Kept \ {Len(Str)}) \in Nat
        BY <3>2, <3>4, FS_CardinalityType
      <3> QED BY <3>3, <3>4, <3>5, BufferAssumption
    <2>7. \E new : Keeps(Store(s, Str[k]), new, k)
      BY <2>1, <2>2, <2>3, <2>4, <2>5, <2>6, KeepsMore
    <2> QED BY <2>3, <2>7
  <1> HIDE DEF T
  <1>4. 0 .. Length \subseteq T
    BY <1>1, <1>2, <1>3, UpTo
  <1> QED BY <1>4 DEF T

LEMMA PaddingIs ==
    ASSUME NEW n \in Nat
    PROVE  Padding(n) \in Seq(Letter) /\ Len(Padding(n)) = n
  <1>1. "." \in Letter
    BY DEF Letter
  <1>2. [k \in 1 .. n |-> "."] \in Seq(Letter) /\ Len([k \in 1 .. n |-> "."]) = n
    BY <1>1
  <1> QED BY <1>2 DEF Padding

\* The buffer is set up with the collapsed text and dots.
LEMMA SetupIs ==
    ASSUME Str \in Strings, Fits
    PROVE  /\ Collapsed \in Seq(Letter) /\ Len(Collapsed) <= BUFFER_SZ
           /\ setup_buff(Str).buff = Collapsed \o Padding(BUFFER_SZ - Len(Collapsed))
           /\ setup_buff(Str).rc = Length
  <1> DEFINE s == Stored(Str, Length)
  <1>1. Length \in Nat /\ DOMAIN Str = 1 .. Length
    BY DEF Strings, Length
  <1>2. PICK at : Keeps(s, at, Length)
    BY <1>1, StoredKeeps
  <1>3. s \in Stores /\ Len(s.buff) <= BUFFER_SZ
    BY <1>1, StoredSteps, StoredFits DEF Length
  <1> HIDE DEF s
  <1>4. Kept = KeptTo(Length)
    BY <1>1 DEF Kept, KeptTo
  <1>5. Ascending(Kept) = at
    BY <1>1, <1>2, <1>4, ListsKept DEF Keeps
  <1>6. DOMAIN at = 1 .. Len(at)
    <2>1. at \in Seq(Nat)
      BY <1>2, Zenon DEF Keeps, Lists
    <2> QED BY <2>1
  <1>7. Collapsed = s.buff
    <2>1. s.buff = [k \in 1 .. Len(at) |-> Shown(at[k])]
      BY <1>2 DEF Keeps
    <2>2. Collapsed = [k \in DOMAIN at |-> Shown(at[k])]
      BY <1>5, Zenon DEF Collapsed, Shown
    <2> QED BY <1>6, <2>1, <2>2
  <1>8. s.buff \in Seq(Letter) /\ s.overflow = FALSE
    BY <1>2, <1>3 DEF Keeps, Stores, Fields
  <1> DEFINE r == IF s.overflow THEN 4 ELSE Len(Str)
             b == s.buff \o Padding(BUFFER_SZ - Len(s.buff))
  <1>9. setup_buff(Str) = [buff |-> b, rc |-> r]
    BY Zenon DEF setup_buff, s, Length
  <1>10. /\ setup_buff(Str).buff = s.buff \o Padding(BUFFER_SZ - Len(s.buff))
         /\ setup_buff(Str).rc = Length
    <2>1. r = Length
      BY <1>8, Zenon DEF Length
    <2> HIDE DEF r, b
    <2>2. setup_buff(Str).buff = b /\ setup_buff(Str).rc = Length
      BY <1>9, <2>1
    <2> QED BY <2>2 DEF b
  <1> QED BY <1>3, <1>7, <1>8, <1>10
----------------------------------------------------------------------------
(* main(). *)

\* The memory that functions are given.
Memory == setup_buff(Str).buff \o typed.heap

Values == Letter \cup Range(typed.heap)

\* It is as long as the buffer and the heap.
LEMMA MemoryIs ==
    ASSUME RunInv, typed.args # <<>>
    PROVE  /\ Memory \in Seq(Values)
           /\ Len(Memory) = BUFFER_SZ + Len(typed.heap) /\ Len(typed.heap) \in Nat
           /\ setup_buff(Str).rc \in {4, Length}
           /\ setup_buff(Str).rc \in Nat /\ Length \in Nat
  <1> DEFINE s == Stored(Str, Len(Str))
             b == s.buff
             p == Padding(BUFFER_SZ - Len(b))
             h == typed.heap
  <1>1. Str \in Strings /\ Length \in Nat /\ Len(Str) = Length
        /\ h \in Seq(Range(h)) /\ Len(h) \in Nat
    BY TypedIs DEF Length
  <1>2. s \in Stores /\ Len(b) <= BUFFER_SZ
    BY <1>1, StoredSteps, StoredFits
  <1>3. b \in Seq(Letter) /\ s.overflow \in BOOLEAN
    BY <1>2 DEF Stores, Fields
  <1>4. setup_buff(Str) = [buff |-> b \o p, rc |-> IF s.overflow THEN 4 ELSE Len(Str)]
    BY Zenon DEF setup_buff
  <1>5. setup_buff(Str).buff = b \o p /\ setup_buff(Str).rc \in {4, Length}
    <2>1. (IF s.overflow THEN 4 ELSE Len(Str)) \in {4, Length}
      BY <1>1, Zenon
    <2> HIDE DEF b, p
    <2> QED BY <1>4, <2>1
  <1>6. p \in Seq(Letter) /\ Len(p) = BUFFER_SZ - Len(b)
    <2>1. BUFFER_SZ - Len(b) \in Nat
      BY <1>2, <1>3, BufferAssumption
    <2> QED BY <2>1, PaddingIs
  <1> HIDE DEF b, p, h
  <1>7. b \o p \in Seq(Letter) /\ Len(b \o p) = BUFFER_SZ /\ Len(b) \in Nat
    BY <1>3, <1>6, Concat, BufferAssumption
  <1>8. b \o p \in Seq(Values) /\ h \in Seq(Values)
    <2>1. \A S, T : S \subseteq T => Seq(S) \subseteq Seq(T)
      OBVIOUS
    <2> QED BY <1>1, <1>7, <2>1 DEF Values, h
  <1>9. (b \o p) \o h \in Seq(Values) /\ Len((b \o p) \o h) = BUFFER_SZ + Len(h)
    BY <1>7, <1>8, Concat
  <1> QED BY <1>1, <1>5, <1>9 DEF Memory, h

\* What main() does with each option.
LEMMA RanIs ==
    ASSUME RunInv, first # NotRun, first.exit = 0, typed.flag.opt # "h"
    PROVE  /\ typed.args # <<>>
           /\ first = Operation(typed.flag.opt, typed.args, Memory, setup_buff(Str).rc)
  <1>1. first = main(typed.flag, typed.args, typed.heap)
    BY DEF RunInv
  <1>2. Failed(1).exit = 1
    BY DEF Failed
  <1>3. first # Failed(1)
    BY <1>2
  <1>4. typed.flag.dash /\ typed.args # <<>>
    BY <1>1, <1>3, Zenon DEF main
  <1>5. first = Operation(typed.flag.opt, typed.args, Memory, setup_buff(Str).rc)
    BY <1>1, <1>4, Zenon DEF main, Memory, Str
  <1> QED BY <1>4, <1>5

\* If the text fits, it is what is prepared.
LEMMA PreparedIs ==
    ASSUME RunInv, typed.args # <<>>, Fits
    PROVE  /\ Memory = Prepared /\ setup_buff(Str).rc = Length
           /\ Prepared \in Seq(Values) /\ Len(Prepared) = BUFFER_SZ + Len(typed.heap)
           /\ Length \in Nat /\ Length <= Len(Prepared)
           /\ BUFFER_SZ \in Nat /\ BUFFER_SZ <= Len(Prepared)
  <1>1. Str \in Strings /\ Length <= BUFFER_SZ + Len(typed.heap)
    BY TypedIs
  <1>2. Memory = Prepared /\ setup_buff(Str).rc = Length
    BY <1>1, SetupIs, Zenon DEF Memory, Prepared
  <1>3. Prepared \in Seq(Values) /\ Len(Prepared) = BUFFER_SZ + Len(typed.heap)
        /\ Len(typed.heap) \in Nat /\ Length \in Nat
    BY <1>2, MemoryIs
  <1> QED BY <1>1, <1>2, <1>3, BufferAssumption

LEMMA BufferHolds == RunInv => BufferIsInput
  <1> SUFFICES ASSUME RunInv, Ran("c")
               PROVE  first.mem = Prepared
    BY Zenon DEF BufferIsInput
  <1>1. first # NotRun /\ first.exit = 0 /\ typed.flag.opt = "c" /\ Fits
    BY Zenon DEF Ran
  <1>2. typed.args # <<>>
        /\ first = Operation("c", typed.args, Memory, setup_buff(Str).rc)
    BY <1>1, RanIs
  <1>3. first = [[exit |-> 0, rc |-> 0, words |-> <<>>, mem |-> Memory] EXCEPT
                   !.rc = count_words(Memory, setup_buff(Str).rc)]
    BY <1>2, Zenon DEF Operation
  <1>4. first.mem = Memory
    BY <1>3
  <1> QED BY <1>1, <1>2, <1>4, PreparedIs

\* The buffer holds the input with its blanks collapsed and dots behind it.
THEOREM BufferHoldsTheInput == Spec => []BufferIsInput
  BY RunInvariant, BufferHolds, PTL
----------------------------------------------------------------------------
(* reverse_string(). *)

\* The body of the loop.
Pass(cells, last, k) == IF last + 1 - k > k THEN Swapped(cells, k, last + 1 - k) ELSE cells

\* Cells e and k are exchanged if e is behind k.
Passed(d, cells, n, e, k) ==
    \A i \in 1 .. n : d[i] = IF e > k /\ i = k THEN cells[e]
                             ELSE IF e > k /\ i = e THEN cells[k] ELSE cells[i]

LEMMA PassIs ==
    ASSUME NEW V, NEW n \in Nat, NEW cells \in [1 .. n -> V], NEW last \in 0 .. n,
           NEW k \in 1 .. last
    PROVE  /\ Pass(cells, last, k) \in [1 .. n -> V]
           /\ Passed(Pass(cells, last, k), cells, n, last + 1 - k, k)
  <1> DEFINE e == last + 1 - k
             d == Pass(cells, last, k)
  <1>1. e \in 1 .. n /\ k \in 1 .. n /\ k \in Int /\ e \in Int
    OBVIOUS
  <1>2. d = IF e > k THEN [cells EXCEPT ![k] = cells[e], ![e] = cells[k]] ELSE cells
    BY Zenon DEF Pass, Swapped
  <1> HIDE DEF e, d
  <1>3. CASE e > k
    <2>1. d = [cells EXCEPT ![k] = cells[e], ![e] = cells[k]] /\ k # e
      BY <1>1, <1>2, <1>3
    <2>2. d \in [1 .. n -> V]
      BY <1>1, <2>1
    <2>3. \A i \in 1 .. n : d[i] = IF i = k THEN cells[e] ELSE IF i = e THEN cells[k]
                                                               ELSE cells[i]
      BY <1>1, <2>1
    <2> QED BY <1>3, <2>2, <2>3 DEF d, e, Passed
  <1>4. CASE ~(e > k)
    BY <1>2, <1>4 DEF d, e, Passed
  <1> QED BY <1>3, <1>4

LEMMA SwapsSteps ==
    ASSUME NEW V, NEW n \in Nat, NEW mem \in [1 .. n -> V], NEW last \in 0 .. n
    PROVE  /\ Swaps(mem, last, 0) = mem
           /\ \A k \in 1 .. last : Swaps(mem, last, k) = Pass(Swaps(mem, last, k - 1), last, k)
           /\ \A k \in 0 .. last : Swaps(mem, last, k) \in [1 .. n -> V]
  <1> DEFINE S == [1 .. n -> V]
             step == [p \in (1 .. last) \X S |-> Pass(p[2], last, p[1])]
             Loop(f) == f = [k \in 0 .. last |-> IF k = 0 THEN mem
                                                 ELSE Pass(f[k - 1], last, k)]
             cells == CHOOSE f : Loop(f)
  <1>1. last \in Nat /\ mem \in S
    OBVIOUS
  <1>2. step \in [(1 .. last) \X S -> S]
    BY PassIs
  <1>3. \A k \in 1 .. last, t \in S : step[<<k, t>>] = Pass(t, last, k)
    OBVIOUS
  <1>4. \A k : Swaps(mem, last, k) = cells[k]
    BY Zenon DEF Swaps, Pass
  <1> HIDE DEF step, S
  <1>5. PICK f \in [0 .. last -> S] : Follows(f, last, mem, step)
    BY <1>1, <1>2, Recursive
  <1>6. Loop(f)
    <2>1. \A k \in 1 .. last : f[k] = Pass(f[k - 1], last, k)
      <3> SUFFICES ASSUME NEW k \in 1 .. last
                   PROVE  f[k] = Pass(f[k - 1], last, k)
        OBVIOUS
      <3>1. k - 1 \in 0 .. last /\ f[k - 1] \in S
        BY <1>1
      <3> QED BY <1>3, <1>5, <3>1 DEF Follows
    <2>2. \A k \in 0 .. last : k # 0 => k \in 1 .. last
      BY <1>1
    <2>3. f[0] = mem
      BY <1>5 DEF Follows
    <2> QED BY <2>1, <2>2, <2>3
  <1>7. Loop(cells)
    <2> HIDE DEF Loop
    <2> QED BY <1>6
  <1> HIDE DEF cells
  <1>8. cells[0] = mem
    BY <1>1, <1>7
  <1>9. \A k \in 1 .. last : cells[k] = Pass(cells[k - 1], last, k)
    <2> SUFFICES ASSUME NEW k \in 1 .. last
                 PROVE  cells[k] = Pass(cells[k - 1], last, k)
      OBVIOUS
    <2>1. k \in 0 .. last /\ k # 0
      BY <1>1
    <2> QED BY <1>7, <2>1, Zenon
  <1>10. \A k \in 0 .. last : cells[k] \in S
    <2> DEFINE T == {k \in 0 .. last : cells[k] \in S}
    <2>1. 0 \in T
      BY <1>1, <1>8
    <2>2. ASSUME NEW k \in 1 .. last, k - 1 \in T
          PROVE  k \in T
      <3> DEFINE c == cells[k - 1]
      <3>1. c \in [1 .. n -> V]
        BY <2>2 DEF S
      <3> HIDE DEF c
      <3>2. Pass(c, last, k) \in [1 .. n -> V]
        BY <3>1, PassIs
      <3>3. cells[k] \in S
        BY <1>9, <3>2 DEF S, c
      <3> QED BY <3>3
    <2> HIDE DEF T
    <2>3. 0 .. last \subseteq T
      BY <1>1, <2>1, <2>2, UpTo
    <2> QED BY <2>3 DEF T
  <1> QED BY <1>4, <1>8, <1>9, <1>10 DEF S

\* The cells from both ends up to the k-th are exchanged.
Exchanged(c, mem, n, last, k) ==
    \A i \in 1 .. n : c[i] = IF i <= last /\ (i <= k \/ i >= last + 1 - k)
                             THEN mem[last + 1 - i] ELSE mem[i]

\* The first cells are turned round.
Turned(V, d, mem, n, last) ==
    /\ d \in [1 .. n -> V]
    /\ \A i \in 1 .. n : d[i] = IF i <= last THEN mem[last + 1 - i] ELSE mem[i]

LEMMA SwapsAre ==
    ASSUME NEW V, NEW n \in Nat, NEW mem \in [1 .. n -> V], NEW last \in 0 .. n
    PROVE  Turned(V, Swaps(mem, last, last), mem, n, last)
  <1> DEFINE T == {k \in 0 .. last : Exchanged(Swaps(mem, last, k), mem, n, last, k)}
  <1>1. last \in Nat /\ last <= n
    OBVIOUS
  <1>0. /\ Swaps(mem, last, 0) = mem
        /\ \A k \in 1 .. last : Swaps(mem, last, k) = Pass(Swaps(mem, last, k - 1), last, k)
        /\ \A k \in 0 .. last : Swaps(mem, last, k) \in [1 .. n -> V]
    BY SwapsSteps
  <1>2. 0 \in T
    <2>1. \A i \in 1 .. n : ~(i <= last /\ (i <= 0 \/ i >= last + 1 - 0))
      BY <1>1
    <2>2. Exchanged(mem, mem, n, last, 0)
      BY <2>1, Zenon DEF Exchanged
    <2> QED BY <1>0, <1>1, <2>2
  <1>3. ASSUME NEW k \in 1 .. last, k - 1 \in T
        PROVE  k \in T
    <2> DEFINE b == Swaps(mem, last, k - 1)
               c == Swaps(mem, last, k)
               e == last + 1 - k
    <2>1. k - 1 \in 0 .. last
      BY <1>1
    <2>2. c = Pass(b, last, k) /\ b \in [1 .. n -> V]
      BY <1>0, <2>1
    <2>3. Exchanged(b, mem, n, last, k - 1)
      BY <1>3
    <2>4. e \in 1 .. n /\ k \in 1 .. n /\ k \in Int /\ e \in Int /\ last + 1 - e = k
      OBVIOUS
    <2> HIDE DEF b, c
    <2>5. \A i \in 1 .. n : c[i] = IF e > k /\ i = k THEN b[e]
                                   ELSE IF e > k /\ i = e THEN b[k] ELSE b[i]
      <3>1. Passed(Pass(b, last, k), b, n, e, k)
        BY <2>2, PassIs
      <3> QED BY <2>2, <3>1 DEF Passed
    <2>6. Exchanged(c, mem, n, last, k)
      <3> SUFFICES ASSUME NEW i \in 1 .. n
                   PROVE  c[i] = IF i <= last /\ (i <= k \/ i >= e) THEN mem[last + 1 - i]
                                 ELSE mem[i]
        BY DEF Exchanged
      <3>1. \A j \in 1 .. n : b[j] = IF j <= last /\ (j <= k - 1 \/ j >= e + 1)
                                     THEN mem[last + 1 - j] ELSE mem[j]
        <4>1. last + 1 - (k - 1) = e + 1
          OBVIOUS
        <4> QED BY <2>3, <4>1 DEF Exchanged
      <3>2. CASE e > k /\ i = k
        <4>1. c[i] = b[e] /\ b[e] = mem[e]
          BY <2>4, <2>5, <3>1, <3>2
        <4> QED BY <2>4, <3>2, <4>1
      <3>3. CASE e > k /\ i = e
        <4>1. c[i] = b[k]
          BY <2>4, <2>5, <3>3
        <4>2. ~(k <= last /\ (k <= k - 1 \/ k >= e + 1))
          BY <3>3
        <4>3. b[k] = mem[k]
          BY <2>4, <3>1, <4>2
        <4> QED BY <2>4, <3>3, <4>1, <4>3
      <3>4. CASE ~(e > k /\ i = k) /\ ~(e > k /\ i = e)
        <4>1. c[i] = b[i]
          BY <2>5, <3>4
        <4>2. CASE i = k \/ i = e
          <5>1. e <= k /\ (e = k => mem[last + 1 - i] = mem[i])
            BY <2>4, <3>4, <4>2
          <5>2. e < k => (i <= k - 1 \/ i >= e + 1)
            BY <2>4, <4>2
          <5> QED BY <2>4, <3>1, <4>1, <4>2, <5>1, <5>2
        <4>3. CASE i # k /\ i # e
          <5>1. (i <= k - 1 \/ i >= e + 1) <=> (i <= k \/ i >= e)
            BY <2>4, <4>3
          <5> QED BY <3>1, <4>1, <5>1
        <4> QED BY <4>2, <4>3
      <3> QED BY <3>2, <3>3, <3>4
    <2> QED BY <2>6 DEF c
  <1> HIDE DEF T
  <1>4. 0 .. last \subseteq T
    BY <1>1, <1>2, <1>3, UpTo
  <1>5. Exchanged(Swaps(mem, last, last), mem, n, last, last)
    BY <1>1, <1>4 DEF T
  <1>6. last \in 0 .. last /\ \A i \in 1 .. n : i <= last => i <= last /\ (i <= last \/ i >= last + 1 - last)
    BY <1>1
  <1> QED BY <1>0, <1>5, <1>6 DEF Exchanged, Turned

\* The first cells turned round, and the others.
LEMMA TurnedRound ==
    ASSUME NEW V, NEW mem \in Seq(V), NEW last \in 0 .. Len(mem)
    PROVE  LET d == Swaps(mem, last, last) IN
           /\ d \in Seq(V) /\ Len(d) = Len(mem)
           /\ d = Reverse(SubSeq(mem, 1, last)) \o SubSeq(mem, last + 1, Len(mem))
  <1> DEFINE n == Len(mem)
             d == Swaps(mem, last, last)
             a == SubSeq(mem, 1, last)
             r == Reverse(a)
             b == SubSeq(mem, last + 1, n)
  <1>1. n \in Nat /\ mem \in [1 .. n -> V] /\ last \in Nat /\ last <= n /\ last \in 0 .. n
    OBVIOUS
  <1>2. /\ d \in [1 .. n -> V]
        /\ \A i \in 1 .. n : d[i] = IF i <= last THEN mem[last + 1 - i] ELSE mem[i]
    <2>1. Turned(V, d, mem, n, last)
      <3> HIDE DEF n
      <3> QED BY <1>1, SwapsAre
    <2> QED BY <2>1 DEF Turned
  <1>3. d \in Seq(V) /\ Len(d) = n
    <2> HIDE DEF d, n
    <2> QED BY <1>1, <1>2
  <1>4. a \in Seq(V) /\ Len(a) = last /\ \A k \in 1 .. last : a[k] = mem[k]
    <2>1. 1 <= 1 /\ 1 <= last + 1 /\ last - 1 + 1 = last /\ 1 \in Nat
          /\ \A k \in 1 .. last : 1 + k - 1 = k
      BY <1>1
    <2>2. /\ a \in Seq(V) /\ Len(a) = last - 1 + 1
          /\ \A k \in 1 .. last - 1 + 1 : a[k] = mem[1 + k - 1]
      BY <1>1, <2>1, Part
    <2> HIDE DEF a
    <2> QED BY <2>1, <2>2
  <1>5. b \in Seq(V) /\ Len(b) = n - last /\ \A k \in 1 .. n - last : b[k] = mem[last + k]
    <2>1. 1 <= last + 1 /\ last + 1 <= n + 1 /\ n - (last + 1) + 1 = n - last
          /\ last + 1 \in Nat
          /\ \A k \in 1 .. n - last : (last + 1) + k - 1 = last + k
      BY <1>1
    <2>2. /\ b \in Seq(V) /\ Len(b) = n - (last + 1) + 1
          /\ \A k \in 1 .. n - (last + 1) + 1 : b[k] = mem[(last + 1) + k - 1]
      <3>1. mem \in Seq(V) /\ last + 1 \in Nat /\ n \in Nat /\ 1 <= last + 1
            /\ last + 1 <= n + 1 /\ n <= Len(mem)
        BY <1>1, <2>1
      <3> DEFINE f == last + 1
      <3> HIDE DEF f, n
      <3>2. mem \in Seq(V) /\ f \in Nat /\ n \in Nat /\ 1 <= f /\ f <= n + 1 /\ n <= Len(mem)
        BY <3>1 DEF f
      <3>3. /\ SubSeq(mem, f, n) \in Seq(V) /\ Len(SubSeq(mem, f, n)) = n - f + 1
            /\ \A k \in 1 .. n - f + 1 : SubSeq(mem, f, n)[k] = mem[f + k - 1]
        BY ONLY <3>2, Part
      <3> QED BY <3>3 DEF f
    <2> HIDE DEF b
    <2> QED BY <2>1, <2>2
  <1> HIDE DEF a, b, d, n
  <1>6. r \in Seq(V) /\ Len(r) = last /\ \A k \in 1 .. last : r[k] = mem[last + 1 - k]
    <2>1. r = [i \in 1 .. last |-> a[(last - i) + 1]]
      BY <1>4 DEF Reverse
    <2>2. \A i \in 1 .. last : (last - i) + 1 \in 1 .. last /\ (last - i) + 1 = last + 1 - i
      BY <1>1
    <2>3. \A i \in 1 .. last : a[(last - i) + 1] = mem[last + 1 - i]
                               /\ a[(last - i) + 1] \in V
      <3>1. \A k \in 1 .. last : a[k] \in V
        BY <1>4
      <3> QED BY <1>4, <2>2, <3>1
    <2> QED BY <1>1, <2>1, <2>3
  <1> HIDE DEF r
  <1>7. /\ r \o b \in Seq(V) /\ Len(r \o b) = n
        /\ \A k \in 1 .. last : (r \o b)[k] = r[k]
        /\ \A k \in 1 .. n - last : (r \o b)[last + k] = b[k]
    <2>1. r \in Seq(V) /\ b \in Seq(V)
      BY <1>5, <1>6
    <2>2. /\ r \o b \in Seq(V) /\ Len(r \o b) = Len(r) + Len(b)
          /\ \A c \in 1 .. Len(r) : (r \o b)[c] = r[c]
          /\ \A c \in 1 .. Len(b) : (r \o b)[Len(r) + c] = b[c]
      BY ONLY <2>1, Concat
    <2>3. Len(r) = last /\ Len(b) = n - last /\ last + (n - last) = n
      BY <1>1, <1>5, <1>6
    <2> QED BY <2>2, <2>3
  <1>8. \A k \in 1 .. n : d[k] = (r \o b)[k]
    <2> SUFFICES ASSUME NEW k \in 1 .. n
                 PROVE  d[k] = (r \o b)[k]
      OBVIOUS
    <2>1. CASE k <= last
      <3>1. k \in 1 .. last
        BY <2>1
      <3> QED BY <1>2, <1>6, <1>7, <2>1, <3>1
    <2>2. CASE ~(k <= last)
      <3> DEFINE j == k - last
      <3>1. j \in 1 .. n - last /\ last + j = k
        BY <1>1, <2>2
      <3> HIDE DEF j
      <3>2. (r \o b)[last + j] = b[j] /\ b[j] = mem[last + j]
        BY <1>5, <1>7, <3>1
      <3> QED BY <1>2, <2>2, <3>1, <3>2
    <2> QED BY <2>1, <2>2
  <1>9. d = r \o b
    BY <1>3, <1>7, <1>8, Same
  <1> QED BY <1>3, <1>9 DEF a, b, d, n, r

\* What -r leaves.
LEMMA ReverseIs ==
    ASSUME RunInv, Ran("r")
    PROVE  /\ typed.args # <<>> /\ Memory = Prepared
           /\ first.rc = reverse_string(Memory, Length).rc
           /\ first.mem = reverse_string(Memory, Length).mem
  <1>1. first # NotRun /\ first.exit = 0 /\ typed.flag.opt = "r" /\ Fits
    BY Zenon DEF Ran
  <1>2. typed.args # <<>>
        /\ first = Operation("r", typed.args, Memory, setup_buff(Str).rc)
    BY <1>1, RanIs
  <1>3. Memory = Prepared /\ setup_buff(Str).rc = Length
    BY <1>1, <1>2, PreparedIs
  <1> DEFINE t == reverse_string(Memory, Length)
  <1>4. first = [[exit |-> 0, rc |-> 0, words |-> <<>>, mem |-> Memory] EXCEPT
                   !.rc = t.rc, !.mem = t.mem]
    BY <1>2, <1>3, Zenon DEF Operation
  <1> HIDE DEF t
  <1>5. first.mem = t.mem /\ first.rc = t.rc
    BY <1>4
  <1> QED BY <1>2, <1>3, <1>5 DEF t

LEMMA ReversalHolds == RunInv => ReverseIsReversal
  <1> SUFFICES ASSUME RunInv, Ran("r")
               PROVE  first.mem = IF Length \in 1 .. BUFFER_SZ
                                  THEN Reverse(Cells) \o SubSeq(Prepared, Length + 1,
                                                                Len(Prepared))
                                  ELSE Prepared
    BY Zenon DEF ReverseIsReversal
  <1>1. typed.args # <<>> /\ Memory = Prepared /\ Fits
        /\ first.mem = reverse_string(Memory, Length).mem
    BY ReverseIs DEF Ran
  <1>2. /\ Prepared \in Seq(Values) /\ Length \in Nat /\ Length <= Len(Prepared)
        /\ BUFFER_SZ \in Nat
    BY <1>1, PreparedIs
  <1>3. CASE Length \in 1 .. BUFFER_SZ
    <2>1. ~(Length <= 0 \/ Length > BUFFER_SZ) /\ Length \in 0 .. Len(Prepared)
      BY <1>2, <1>3
    <2>2. reverse_string(Memory, Length) = [rc |-> 0, mem |-> Swaps(Prepared, Length, Length)]
      BY <1>1, <2>1, Zenon DEF reverse_string, Reversed
    <2>3. first.mem = Swaps(Prepared, Length, Length)
      BY <1>1, <2>2
    <2>4. Swaps(Prepared, Length, Length)
          = Reverse(Cells) \o SubSeq(Prepared, Length + 1, Len(Prepared))
      BY <1>2, <2>1, TurnedRound DEF Cells
    <2> QED BY <1>3, <2>3, <2>4
  <1>4. CASE ~(Length \in 1 .. BUFFER_SZ)
    <2>1. Length <= 0 \/ Length > BUFFER_SZ
      BY <1>2, <1>4
    <2>2. reverse_string(Memory, Length) = [rc |-> 3, mem |-> Prepared]
      BY <1>1, <2>1, Zenon DEF reverse_string
    <2>3. first.mem = Prepared
      BY <1>1, <2>2
    <2> QED BY <1>4, <2>3
  <1> QED BY <1>3, <1>4

\* -r turns round as many cells as the input has characters.
THEOREM ReverseTurnsRound == Spec => []ReverseIsReversal
  BY RunInvariant, ReversalHolds, PTL

LEMMA SecondReverses == \A str : Second!reverse_string(str) = Swaps(str, Len(str), Len(str))
  BY Zenon DEF Second!reverse_string, Second!Swaps, Second!Goes, Swaps, Swapped

LEMMA BothReverse == RunInv => ReversalsAgree
  <1> SUFFICES ASSUME RunInv, Ran("r"), second # NotRun, second.exit = 0,
                      Length \in 1 .. BUFFER_SZ, Collapsed = Str
               PROVE  SubSeq(first.mem, 1, Length) = second.str
    BY Zenon DEF ReversalsAgree
  <1>1. typed.args # <<>> /\ Memory = Prepared /\ Fits /\ typed.flag.opt = "r"
        /\ first.mem = reverse_string(Memory, Length).mem
    BY ReverseIs DEF Ran
  <1>2. /\ Prepared \in Seq(Values) /\ Length \in Nat /\ Length <= Len(Prepared)
        /\ BUFFER_SZ \in Nat
    BY <1>1, PreparedIs
  <1>3. Str \in Strings /\ Str \in [1 .. Length -> Typeable] /\ DOMAIN Str = 1 .. Length
    BY <1>1, TypedIs DEF Length, Strings
  <1>4. second.str = Swaps(Str, Length, Length)
    <2>1. second = Second!main(typed.flag, typed.args)
      BY DEF RunInv
    <2>2. Second!Result(1).exit = 1
      BY DEF Second!Result
    <2>3. second # Second!Result(1)
      BY <2>2
    <2>4. second = Second!Operation("r", Str)
      BY <1>1, <2>1, <2>3, Zenon DEF Second!main, Str
    <2>5. second = [Second!Result(0) EXCEPT !.str = Second!reverse_string(Str)]
      BY <2>4, Zenon DEF Second!Operation
    <2>6. second.str = Second!reverse_string(Str)
      BY <2>5 DEF Second!Result
    <2> QED BY <2>6, SecondReverses DEF Length
  <1>5. first.mem = Swaps(Prepared, Length, Length)
    <2>1. ~(Length <= 0 \/ Length > BUFFER_SZ)
      BY <1>2
    <2>2. reverse_string(Memory, Length) = [rc |-> 0, mem |-> Swaps(Prepared, Length, Length)]
      BY <1>1, <2>1, Zenon DEF reverse_string, Reversed
    <2> QED BY <1>1, <2>2
  <1>6. \A k \in 1 .. Length : Prepared[k] = Str[k]
    <2> DEFINE p == Padding(BUFFER_SZ - Len(Collapsed))
               h == typed.heap
    <2>1. /\ p \in Seq(Letter) /\ Collapsed \in Seq(Letter)
          /\ h \in Seq(Range(h)) /\ Len(Collapsed) = Length
      BY <1>1, <1>2, <1>3, PaddingIs, SetupIs, TypedIs DEF Length
    <2> HIDE DEF p, h
    <2>2. /\ Collapsed \o p \in Seq(Letter)
          /\ Len(Collapsed \o p) = Length + Len(p) /\ Len(p) \in Nat
          /\ \A c \in 1 .. Length : (Collapsed \o p)[c] = Collapsed[c]
      <3> DEFINE s == Collapsed
      <3>1. p \in Seq(Letter) /\ s \in Seq(Letter) /\ Len(s) = Length
        BY <2>1
      <3> HIDE DEF s
      <3>2. /\ s \o p \in Seq(Letter) /\ Len(s \o p) = Len(s) + Len(p) /\ Len(p) \in Nat
            /\ \A c \in 1 .. Len(s) : (s \o p)[c] = s[c]
        BY ONLY <3>1, Concat
      <3> QED BY <3>1, <3>2 DEF s
    <2> DEFINE b == Collapsed \o p
    <2> HIDE DEF b
    <2>3. b \in Seq(Letter \cup Range(h)) /\ h \in Seq(Letter \cup Range(h))
      <3>1. b \in Seq(Letter) /\ h \in Seq(Range(h))
        BY <2>1, <2>2 DEF b
      <3> QED BY <3>1
    <2>4. \A c \in 1 .. Len(b) : (b \o h)[c] = b[c]
      BY ONLY <2>3, Concat
    <2>5. Prepared = b \o h
      BY Zenon DEF Prepared, b, p, h
    <2> SUFFICES ASSUME NEW k \in 1 .. Length
                 PROVE  Prepared[k] = Str[k]
      OBVIOUS
    <2>6. Len(b) = Length + Len(p) /\ Len(p) \in Nat /\ b[k] = Collapsed[k]
      BY <2>2 DEF b
    <2>7. k \in 1 .. Len(b)
      BY <1>2, <2>6
    <2> QED BY <2>4, <2>5, <2>6, <2>7
  <1> DEFINE n == Len(Prepared)
             d == Swaps(Prepared, Length, Length)
             e == Swaps(Str, Length, Length)
  <1>7. Length \in Nat /\ Length \in 0 .. Length /\ n \in Nat /\ Length \in 0 .. n
        /\ Prepared \in [1 .. n -> Values]
    BY <1>2
  <1>8. Turned(Values, d, Prepared, n, Length) /\ Turned(Typeable, e, Str, Length, Length)
    <2> HIDE DEF n
    <2> QED BY <1>3, <1>7, SwapsAre
  <1>9. d \in Seq(Values) /\ Len(d) = n /\ e \in Seq(Typeable) /\ Len(e) = Length
    <2>1. d \in [1 .. n -> Values] /\ e \in [1 .. Length -> Typeable]
      BY <1>8, Zenon DEF Turned
    <2> HIDE DEF d, e, n
    <2> QED BY <1>7, <2>1
  <1>10. \A k \in 1 .. Length : d[k] = e[k]
    <2> SUFFICES ASSUME NEW k \in 1 .. Length
                 PROVE  d[k] = e[k]
      OBVIOUS
    <2>1. k \in 1 .. n /\ k <= Length /\ Length + 1 - k \in 1 .. Length
      BY <1>7
    <2>2. d[k] = Prepared[Length + 1 - k]
      BY <1>8, <2>1 DEF Turned
    <2>3. e[k] = Str[Length + 1 - k]
      BY <1>8, <2>1 DEF Turned
    <2> QED BY <1>6, <2>1, <2>2, <2>3
  <1> HIDE DEF d, e, n
  <1> DEFINE a == SubSeq(d, 1, Length)
  <1>11. a \in Seq(Values) /\ Len(a) = Length /\ \A k \in 1 .. Length : a[k] = d[k]
    <2>1. 1 <= 1 /\ 1 <= Length + 1 /\ Length - 1 + 1 = Length /\ 1 \in Nat
          /\ Length <= Len(d) /\ \A k \in 1 .. Length : 1 + k - 1 = k
      BY <1>7, <1>9
    <2>2. /\ a \in Seq(Values) /\ Len(a) = Length - 1 + 1
          /\ \A k \in 1 .. Length - 1 + 1 : a[k] = d[1 + k - 1]
      BY <1>7, <1>9, <2>1, Part
    <2> HIDE DEF a
    <2> QED BY <2>1, <2>2
  <1> HIDE DEF a
  <1>12. \A k \in 1 .. Len(a) : a[k] = e[k]
    BY <1>10, <1>11
  <1>13. a = e
    BY <1>9, <1>11, <1>12, Same
  <1> QED BY <1>4, <1>5, <1>13 DEF a, d, e

\* What the first program's -r leaves in its buffer is what the second's prints.
THEOREM ReversalsAreTheSame == Spec => []ReversalsAgree
  BY RunInvariant, BothReverse, PTL

----------------------------------------------------------------------------
(* Types. *)

\* What a run may give when memory has n cells.
Runs(r, n) == /\ r.exit \in 0 .. 2 /\ r.rc \in {0, 1, 3, 4}
              /\ r.mem # <<>> => Len(r.mem) = n

LEMMA ReverseGives ==
    ASSUME NEW V, NEW mem \in Seq(V), BUFFER_SZ <= Len(mem), NEW len \in Nat
    PROVE  LET r == reverse_string(mem, len) IN
           r.rc \in {0, 3} /\ Len(r.mem) = Len(mem)
  <1> DEFINE r == reverse_string(mem, len)
             d == Swaps(mem, len, len)
             n == Len(mem)
  <1>1. n \in Nat /\ mem \in [1 .. n -> V] /\ BUFFER_SZ \in Nat
    BY BufferAssumption
  <1>2. CASE len <= 0 \/ len > BUFFER_SZ
    <2>1. r = [rc |-> 3, mem |-> mem]
      BY <1>2, Zenon DEF reverse_string
    <2> HIDE DEF r
    <2> QED BY <2>1 DEF r
  <1>3. CASE ~(len <= 0 \/ len > BUFFER_SZ)
    <2>1. r = [rc |-> 0, mem |-> d]
      BY <1>3, Zenon DEF reverse_string, Reversed
    <2>2. len \in 0 .. n
      BY <1>1, <1>3
    <2>3. Len(d) = n
      <3> HIDE DEF n
      <3>1. Turned(V, d, mem, n, len)
        BY <1>1, <2>2, SwapsAre
      <3> HIDE DEF d
      <3>2. d \in [1 .. n -> V]
        BY <3>1 DEF Turned
      <3> QED BY <1>1, <3>2
    <2> HIDE DEF r, d
    <2>4. r.rc = 0 /\ r.mem = d
      BY <2>1
    <2> QED BY <2>3, <2>4 DEF r
  <1> QED BY <1>2, <1>3

\* Cells are overwritten, none added.
LEMMA ReplaceGives ==
    ASSUME NEW V, NEW mem \in Seq(V), NEW len, NEW target, NEW replace
    PROVE  LET r == str_replace(mem, len, target, replace) IN
           r.rc \in {0, 1, 4} /\ Len(r.mem) = Len(mem)
  <1> DEFINE r == str_replace(mem, len, target, replace)
             n == Len(mem)
             p == Found(mem, len, target)
             first_ == p + Len(target)
             moved == Moved(mem, first_, len, Len(replace) - Len(target),
                            IF first_ > len THEN 0 ELSE len + 1 - first_)
             new == [k \in DOMAIN mem |-> IF k \in p .. p + Len(replace) - 1
                                          THEN replace[k - p + 1] ELSE moved[k]]
  <1>1. r \in {[rc |-> 4, mem |-> mem], [rc |-> 1, mem |-> mem], [rc |-> 0, mem |-> new]}
    BY Zenon DEF str_replace
  <1>2. n \in Nat /\ DOMAIN mem = 1 .. n
    OBVIOUS
  <1>3. DOMAIN new = 1 .. n
    BY <1>2
  <1> HIDE DEF r, moved, new
  <1>4. r.rc \in {0, 1, 4} /\ (r.mem = mem \/ r.mem = new)
    BY <1>1
  <1>5. Len(new) = n
    BY <1>2, <1>3
  <1> QED BY <1>4, <1>5 DEF r

LEMMA OperationRuns ==
    ASSUME NEW opt, NEW args, NEW V, NEW mem \in Seq(V), BUFFER_SZ <= Len(mem),
           NEW len \in Nat
    PROVE  Runs(Operation(opt, args, mem, len), Len(mem))
  <1> DEFINE n == Len(mem)
             done == [exit |-> 0, rc |-> 0, words |-> <<>>, mem |-> mem]
             o == Operation(opt, args, mem, len)
  <1>1. \A e \in 0 .. 2 : Runs(Failed(e), n)
    BY DEF Failed, Runs
  <1>2. CASE opt = "c"
    <2>1. o = [done EXCEPT !.rc = count_words(mem, len)]
      BY <1>2, Zenon DEF Operation
    <2>2. o.exit = 0 /\ o.rc = 0 /\ o.mem = mem
      BY <2>1 DEF count_words
    <2> HIDE DEF o
    <2> QED BY <2>2 DEF Runs, o
  <1>3. CASE opt = "r"
    <2> DEFINE r == reverse_string(mem, len)
    <2>1. o = [done EXCEPT !.rc = r.rc, !.mem = r.mem]
      BY <1>3, Zenon DEF Operation
    <2>2. r.rc \in {0, 3} /\ Len(r.mem) = n
      BY ReverseGives
    <2> HIDE DEF r
    <2>3. o.exit = 0 /\ o.rc = r.rc /\ o.mem = r.mem
      BY <2>1
    <2> QED BY <2>2, <2>3 DEF Runs, o
  <1>4. CASE opt = "w"
    <2>1. o = [done EXCEPT !.words = word_print(mem, len)]
      BY <1>4, Zenon DEF Operation
    <2> DEFINE w == word_print(mem, len)
    <2> HIDE DEF w
    <2>2. o.exit = 0 /\ o.rc = 0 /\ o.mem = mem
      BY <2>1 DEF w
    <2> HIDE DEF o
    <2> QED BY <2>2 DEF Runs, o
  <1>5. CASE opt = "x"
    <2> DEFINE r == str_replace(mem, len, args[2], args[3])
    <2>1. o = Failed(2) \/ o = [done EXCEPT !.rc = r.rc, !.mem = r.mem]
      BY <1>5, Zenon DEF Operation
    <2>2. r.rc \in {0, 1, 4} /\ Len(r.mem) = n
      BY ReplaceGives
    <2> HIDE DEF r
    <2>3. CASE o = [done EXCEPT !.rc = r.rc, !.mem = r.mem]
      <3>1. o.exit = 0 /\ o.rc = r.rc /\ o.mem = r.mem
        BY <2>3
      <3> QED BY <2>2, <3>1 DEF Runs, o
    <2> QED BY <1>1, <2>1, <2>3
  <1>6. CASE opt \notin {"c", "r", "w", "x"}
    <2>1. o = Failed(1)
      BY <1>6, Zenon DEF Operation
    <2> QED BY <1>1, <2>1
  <1> QED BY <1>2, <1>3, <1>4, <1>5, <1>6, Zenon

\* The second program's exit codes and its count, which is 1 too low.
LEMMA SecondRuns ==
    ASSUME NEW flag, NEW args \in Seq(Strings)
    PROVE  LET r == Second!main(flag, args) IN r.exit \in {0, 1} /\ r.count >= -1
  <1> DEFINE r == Second!main(flag, args)
             str == args[1]
             none == Second!Result(0)
  <1>1. /\ Second!Result(1).exit = 1 /\ Second!Result(1).count = 0
        /\ none.exit = 0 /\ none.count = 0
    BY DEF Second!Result
  <1>2. CASE r \in {Second!Result(1), none}
    <2> HIDE DEF r, none
    <2>1. r.count = 0 /\ r.exit \in {0, 1}
      BY <1>1, <1>2
    <2> QED BY <2>1 DEF r
  <1>3. CASE r \notin {Second!Result(1), none}
    <2>1. r = Second!Operation(flag.opt, str) /\ Len(args) = 1
      BY <1>3, Zenon DEF Second!main
    <2>2. str \in Strings
      BY <2>1
    <2>3. \/ r = [none EXCEPT !.count = Second!count_words(str)]
          \/ r = [none EXCEPT !.str = Second!reverse_string(str)]
          \/ r = [none EXCEPT !.printed = Second!word_print(str)]
      <3>1. CASE flag.opt = "c"
        BY <2>1, <3>1, Zenon DEF Second!Operation
      <3>2. CASE flag.opt = "r"
        BY <2>1, <3>2, Zenon DEF Second!Operation
      <3>3. CASE flag.opt = "w"
        BY <2>1, <3>3, Zenon DEF Second!Operation
      <3>4. CASE flag.opt \notin {"c", "r", "w"}
        BY <1>3, <2>1, <3>4, Zenon DEF Second!Operation
      <3> QED BY <3>1, <3>2, <3>3, <3>4, Zenon
    <2>4. Second!count_words(str) >= -1
      <3> DEFINE I == {i \in DOMAIN str : str[i] # " "}
      <3>1. DOMAIN str = 1 .. Len(str) /\ Len(str) \in Nat
        BY <2>2 DEF Strings
      <3>2. IsFiniteSet(I)
        <4> DEFINE n == Len(str)
        <4>1. n \in Int /\ 1 \in Int
          BY <3>1
        <4> HIDE DEF n
        <4>2. IsFiniteSet(1 .. n)
          BY <4>1, FS_Interval
        <4>3. I \subseteq 1 .. n
          BY <3>1 DEF n
        <4> QED BY <4>2, <4>3, FS_Subset
      <3>3. Cardinality(I) \in Nat
        BY <3>2, FS_CardinalityType
      <3>4. Second!count_words(str) = Cardinality(I) - 1
        BY Zenon DEF Second!count_words, Second!Cardinality, Cardinality
      <3> HIDE DEF I
      <3> QED BY <3>3, <3>4
    <2>5. /\ none.exit = 0 /\ none.count = 0
          /\ none = [exit |-> 0, count |-> 0, str |-> <<>>, printed |-> <<>>]
      BY DEF Second!Result
    <2> DEFINE c == Second!count_words(str)
               d == Second!reverse_string(str)
               w == Second!word_print(str)
    <2>6. \/ r = [none EXCEPT !.count = c] \/ r = [none EXCEPT !.str = d]
          \/ r = [none EXCEPT !.printed = w]
      BY <2>3
    <2> HIDE DEF c, d, w, r, none
    <2>7. r.exit = 0 /\ (r.count = c \/ r.count = 0)
      BY <2>5, <2>6
    <2> QED BY <2>4, <2>7 DEF c, r
  <1> QED BY <1>2, <1>3

LEMMA TypesHold == RunInv => TypeOK
  <1> SUFFICES ASSUME RunInv
               PROVE  TypeOK
    OBVIOUS
  <1>1. first # NotRun => Runs(first, BUFFER_SZ + Len(typed.heap))
    <2> SUFFICES ASSUME first # NotRun
                 PROVE  Runs(first, BUFFER_SZ + Len(typed.heap))
      OBVIOUS
    <2>1. first = main(typed.flag, typed.args, typed.heap)
      BY DEF RunInv
    <2>2. \A n : \A e \in 0 .. 2 : Runs(Failed(e), n)
      BY DEF Failed, Runs
    <2>3. CASE first \in {Failed(0), Failed(1)}
      BY <2>2, <2>3
    <2>4. CASE first \notin {Failed(0), Failed(1)}
      <3>1. typed.args # <<>>
            /\ first = Operation(typed.flag.opt, typed.args, Memory, setup_buff(Str).rc)
        BY <2>1, <2>4, Zenon DEF main, Memory, Str
      <3>2. /\ Memory \in Seq(Values) /\ Len(Memory) = BUFFER_SZ + Len(typed.heap)
            /\ setup_buff(Str).rc \in Nat /\ Len(typed.heap) \in Nat
        BY <3>1, MemoryIs
      <3>3. BUFFER_SZ <= Len(Memory)
        BY <3>2, BufferAssumption
      <3>4. Runs(first, Len(Memory))
        BY <3>1, <3>2, <3>3, OperationRuns
      <3> QED BY <3>2, <3>4
    <2> QED BY <2>3, <2>4
  <1>2. second # NotRun => second.exit \in {0, 1} /\ second.count >= -1
    <2>1. typed.args \in Seq(Strings)
      BY TypedIs
    <2> QED BY <2>1, SecondRuns DEF RunInv
  <1> QED BY <1>1, <1>2, Zenon DEF TypeOK, Runs

\* Both programs give the codes their callers know, and memory keeps its size.
THEOREM TypeCorrect == Spec => []TypeOK
  BY RunInvariant, TypesHold, PTL

----------------------------------------------------------------------------
(* str_replace(). *)

\* The body of the loop that moves cells.
Move(cells, from, last, shift, k) ==
    LET src == Source(from, last, shift, k) IN [cells EXCEPT ![src + shift] = cells[src]]

LEMMA SourceIs ==
    ASSUME NEW from \in Int, NEW last \in Int, NEW shift \in Int,
           NEW k \in 1 .. last + 1 - from
    PROVE  /\ Source(from, last, shift, k) \in from .. last
           /\ Source(from, last, shift, k) \in Int
  <1>1. from + k - 1 \in from .. last /\ last + 1 - k \in from .. last
    OBVIOUS
  <1>2. Source(from, last, shift, k) = from + k - 1
        \/ Source(from, last, shift, k) = last + 1 - k
    BY Zenon DEF Source
  <1> QED BY <1>1, <1>2

\* One cell is copied to another.
Copied(d, cells, n, src, dst) ==
    \A i \in 1 .. n : d[i] = IF i = dst THEN cells[src] ELSE cells[i]

LEMMA MoveIs ==
    ASSUME NEW V, NEW n \in Nat, NEW cells \in [1 .. n -> V], NEW shift \in Int,
           NEW from \in Int, NEW last \in Int, 1 <= from, last <= n,
           NEW k \in 1 .. last + 1 - from
    PROVE  LET src == Source(from, last, shift, k)
               d   == Move(cells, from, last, shift, k)
           IN  d \in [1 .. n -> V] /\ Copied(d, cells, n, src, src + shift)
  <1> DEFINE src == Source(from, last, shift, k)
             dst == src + shift
             d   == Move(cells, from, last, shift, k)
  <1>1. src \in 1 .. n /\ dst \in Int
    <2>1. src \in from .. last /\ src \in Int
      BY SourceIs
    <2> HIDE DEF src
    <2> QED BY <2>1
  <1>2. d = [cells EXCEPT ![dst] = cells[src]]
    BY Zenon DEF Move
  <1> HIDE DEF src, dst, d
  <1>3. cells[src] \in V
    BY <1>1
  <1>4. d \in [1 .. n -> V] /\ \A i \in 1 .. n : d[i] = IF i = dst THEN cells[src] ELSE cells[i]
    BY <1>2, <1>3
  <1> QED BY <1>4 DEF Copied, d, dst, src

Moves(f, mem, from, last, shift, n) ==
    /\ f[0] = mem
    /\ \A k \in 1 .. n : f[k] = Move(f[k - 1], from, last, shift, k)

MovesEnd(S, mem, from, last, shift, m) ==
    \E f \in [0 .. m -> S] : /\ Moves(f, mem, from, last, shift, m)
                             /\ Moved(mem, from, last, shift, m) = f[m]

LEMMA MovedSteps ==
    ASSUME NEW V, NEW n \in Nat, NEW mem \in [1 .. n -> V], NEW shift \in Int,
           NEW from \in Int, NEW last \in Int, 1 <= from, last <= n, from <= last + 1
    PROVE  MovesEnd([1 .. n -> V], mem, from, last, shift, last + 1 - from)
  <1> DEFINE m == last + 1 - from
             S == [1 .. n -> V]
             step == [p \in (1 .. m) \X S |-> Move(p[2], from, last, shift, p[1])]
             Loop(f) == f = [k \in 0 .. m |-> IF k = 0 THEN mem
                                              ELSE Move(f[k - 1], from, last, shift, k)]
             cells == CHOOSE f : Loop(f)
  <1>1. m \in Nat /\ mem \in S
    OBVIOUS
  <1>2. step \in [(1 .. m) \X S -> S]
    BY MoveIs
  <1>4. Moved(mem, from, last, shift, m) = cells[m]
    <2> HIDE DEF m
    <2> QED BY Zenon DEF Moved, Move
  <1> HIDE DEF m
  <1>3. \A k \in 1 .. m, t \in S : step[<<k, t>>] = Move(t, from, last, shift, k)
    OBVIOUS
  <1> HIDE DEF step, S
  <1>5. PICK f \in [0 .. m -> S] : Follows(f, m, mem, step)
    BY <1>1, <1>2, Recursive
  <1>6. Loop(f)
    <2>1. \A k \in 1 .. m : f[k] = Move(f[k - 1], from, last, shift, k)
      <3> SUFFICES ASSUME NEW k \in 1 .. m
                   PROVE  f[k] = Move(f[k - 1], from, last, shift, k)
        OBVIOUS
      <3>1. k - 1 \in 0 .. m /\ f[k - 1] \in S
        BY <1>1
      <3> QED BY <1>3, <1>5, <3>1 DEF Follows
    <2>2. \A k \in 0 .. m : k # 0 => k \in 1 .. m
      BY <1>1
    <2>3. f[0] = mem
      BY <1>5 DEF Follows
    <2> QED BY <2>1, <2>2, <2>3
  <1>7. Loop(cells)
    <2> HIDE DEF Loop
    <2> QED BY <1>6
  <1> HIDE DEF cells
  <1>8. cells[0] = mem
    BY <1>1, <1>7
  <1>9. \A k \in 1 .. m : cells[k] = Move(cells[k - 1], from, last, shift, k)
    <2> SUFFICES ASSUME NEW k \in 1 .. m
                 PROVE  cells[k] = Move(cells[k - 1], from, last, shift, k)
      OBVIOUS
    <2>1. k \in 0 .. m /\ k # 0
      BY <1>1
    <2> QED BY <1>7, <2>1, Zenon
  <1>10. \A k \in 0 .. m : cells[k] \in S
    <2> DEFINE T == {k \in 0 .. m : cells[k] \in S}
    <2>1. 0 \in T
      BY <1>1, <1>8
    <2>2. ASSUME NEW k \in 1 .. m, k - 1 \in T
          PROVE  k \in T
      <3> DEFINE c == cells[k - 1]
      <3>1. c \in [1 .. n -> V]
        BY <2>2 DEF S
      <3> HIDE DEF c
      <3>2. Move(c, from, last, shift, k) \in [1 .. n -> V]
        BY <3>1, MoveIs DEF m
      <3>3. cells[k] \in S
        BY <1>9, <3>2 DEF S, c
      <3> QED BY <3>3
    <2> HIDE DEF T
    <2>3. 0 .. m \subseteq T
      BY <1>1, <2>1, <2>2, UpTo
    <2> QED BY <2>3 DEF T
  <1>11. DOMAIN cells = 0 .. m /\ cells = [k \in DOMAIN cells |-> cells[k]]
    BY <1>7
  <1>12. cells \in [0 .. m -> S]
    BY <1>10, <1>11
  <1>13. Moves(cells, mem, from, last, shift, m)
    BY <1>8, <1>9, Zenon DEF Moves
  <1> QED BY <1>4, <1>12, <1>13 DEF S, m, MovesEnd

\* The cells that k moves have written hold what was `shift' before them.
Shifted(c, mem, n, low, high, shift) ==
    \A i \in 1 .. n : c[i] = IF low <= i /\ i <= high THEN mem[i - shift] ELSE mem[i]

Low(from, last, shift, k)  == shift + (IF shift < 0 THEN from ELSE last + 1 - k)
High(from, last, shift, k) == shift + (IF shift < 0 THEN from + k - 1 ELSE last)

\* One cell more: it is read before it is written.
LEMMA ShiftsMore ==
    ASSUME NEW V, NEW n \in Nat, NEW mem \in [1 .. n -> V], NEW shift \in Int,
           NEW from \in Int, NEW last \in Int, 1 <= from, last <= n,
           NEW k \in 1 .. last + 1 - from, NEW b, NEW c,
           Shifted(b, mem, n, Low(from, last, shift, k - 1), High(from, last, shift, k - 1),
                   shift),
           Copied(c, b, n, Source(from, last, shift, k), Source(from, last, shift, k) + shift)
    PROVE  Shifted(c, mem, n, Low(from, last, shift, k), High(from, last, shift, k), shift)
  <1>1. CASE shift < 0
    <2> DEFINE src == from + k - 1
    <2>1. Source(from, last, shift, k) = src
      BY <1>1, Zenon DEF Source
    <2>2. /\ Low(from, last, shift, k - 1) = shift + from
          /\ Low(from, last, shift, k) = shift + from
          /\ High(from, last, shift, k - 1) = src + shift - 1
          /\ High(from, last, shift, k) = src + shift
      BY <1>1 DEF Low, High
    <2>3. src \in 1 .. n /\ src \in Int /\ src + shift - 1 < src /\ src + shift >= shift + from
          /\ (src + shift) - shift = src
      BY <1>1
    <2> HIDE DEF src
    <2>4. \A i \in 1 .. n : b[i] = IF shift + from <= i /\ i <= src + shift - 1
                                   THEN mem[i - shift] ELSE mem[i]
      BY <2>2 DEF Shifted
    <2>5. \A i \in 1 .. n : c[i] = IF i = src + shift THEN b[src] ELSE b[i]
      BY <2>1 DEF Copied
    <2>6. b[src] = mem[src]
      BY <2>3, <2>4
    <2>7. \A i \in 1 .. n : c[i] = IF shift + from <= i /\ i <= src + shift
                                   THEN mem[i - shift] ELSE mem[i]
      <3> SUFFICES ASSUME NEW i \in 1 .. n
                   PROVE  c[i] = IF shift + from <= i /\ i <= src + shift
                                 THEN mem[i - shift] ELSE mem[i]
        OBVIOUS
      <3>1. CASE i = src + shift
        BY <2>3, <2>5, <2>6, <3>1
      <3>2. CASE i # src + shift
        <4>1. i <= src + shift <=> i <= src + shift - 1
          BY <2>3, <3>2
        <4> QED BY <2>4, <2>5, <3>2, <4>1
      <3> QED BY <3>1, <3>2
    <2> QED BY <2>2, <2>7 DEF Shifted
  <1>2. CASE ~(shift < 0)
    <2> DEFINE src == last + 1 - k
    <2>1. Source(from, last, shift, k) = src
      BY <1>2, Zenon DEF Source
    <2>2. /\ Low(from, last, shift, k - 1) = src + shift + 1
          /\ Low(from, last, shift, k) = src + shift
          /\ High(from, last, shift, k - 1) = shift + last
          /\ High(from, last, shift, k) = shift + last
      BY <1>2 DEF Low, High
    <2>3. src \in 1 .. n /\ src \in Int /\ src < src + shift + 1 /\ src + shift <= shift + last
          /\ (src + shift) - shift = src
      BY <1>2
    <2> HIDE DEF src
    <2>4. \A i \in 1 .. n : b[i] = IF src + shift + 1 <= i /\ i <= shift + last
                                   THEN mem[i - shift] ELSE mem[i]
      BY <2>2 DEF Shifted
    <2>5. \A i \in 1 .. n : c[i] = IF i = src + shift THEN b[src] ELSE b[i]
      BY <2>1 DEF Copied
    <2>6. b[src] = mem[src]
      BY <2>3, <2>4
    <2>7. \A i \in 1 .. n : c[i] = IF src + shift <= i /\ i <= shift + last
                                   THEN mem[i - shift] ELSE mem[i]
      <3> SUFFICES ASSUME NEW i \in 1 .. n
                   PROVE  c[i] = IF src + shift <= i /\ i <= shift + last
                                 THEN mem[i - shift] ELSE mem[i]
        OBVIOUS
      <3>1. CASE i = src + shift
        BY <2>3, <2>5, <2>6, <3>1
      <3>2. CASE i # src + shift
        <4>1. src + shift <= i <=> src + shift + 1 <= i
          BY <2>3, <3>2
        <4> QED BY <2>4, <2>5, <3>2, <4>1
      <3> QED BY <3>1, <3>2
    <2> QED BY <2>2, <2>7 DEF Shifted
  <1> QED BY <1>1, <1>2

\* The cells are moved as a whole, in either direction.
LEMMA MovedAre ==
    ASSUME NEW V, NEW n \in Nat, NEW mem \in [1 .. n -> V], NEW shift \in Int,
           NEW from \in Int, NEW last \in Int, 1 <= from, last <= n, from <= last + 1
    PROVE  Shifted(Moved(mem, from, last, shift, last + 1 - from), mem, n,
                   from + shift, last + shift, shift)
  <1> DEFINE m == last + 1 - from
  <1>1. PICK f \in [0 .. m -> [1 .. n -> V]] :
           /\ Moves(f, mem, from, last, shift, m)
           /\ Moved(mem, from, last, shift, m) = f[m]
    <2>1. MovesEnd([1 .. n -> V], mem, from, last, shift, m)
      BY MovedSteps
    <2> HIDE DEF m
    <2> QED BY ONLY <2>1 DEF MovesEnd
  <1> DEFINE T == {k \in 0 .. m : Shifted(f[k], mem, n, Low(from, last, shift, k),
                                          High(from, last, shift, k), shift)}
  <1>2. m \in Nat
    OBVIOUS
  <1>3. 0 \in T
    <2>1. f[0] = mem
      BY <1>1 DEF Moves
    <2>2. High(from, last, shift, 0) < Low(from, last, shift, 0)
          /\ High(from, last, shift, 0) \in Int /\ Low(from, last, shift, 0) \in Int
      BY DEF High, Low
    <2> DEFINE h == High(from, last, shift, 0)
               l == Low(from, last, shift, 0)
    <2> HIDE DEF h, l
    <2>3. h < l /\ h \in Int /\ l \in Int
      BY <2>2 DEF h, l
    <2>4. Shifted(mem, mem, n, l, h, shift)
      BY <2>3 DEF Shifted
    <2> QED BY <1>2, <2>1, <2>4 DEF h, l
  <1>4. ASSUME NEW k \in 1 .. m, k - 1 \in T
        PROVE  k \in T
    <2>1. f[k - 1] \in [1 .. n -> V] /\ f[k] = Move(f[k - 1], from, last, shift, k)
      <3>1. k - 1 \in 0 .. m
        BY <1>2
      <3> QED BY <1>1, <3>1 DEF Moves
    <2>2. Copied(f[k], f[k - 1], n, Source(from, last, shift, k),
                 Source(from, last, shift, k) + shift)
      BY <2>1, MoveIs
    <2>3. Shifted(f[k], mem, n, Low(from, last, shift, k), High(from, last, shift, k), shift)
      BY <1>4, <2>2, ShiftsMore
    <2>4. k \in 0 .. m
      BY <1>2
    <2> QED BY <2>3, <2>4
  <1> HIDE DEF T, m
  <1>5. 0 .. m \subseteq T
    BY <1>2, <1>3, <1>4, UpTo
  <1>6. Shifted(f[m], mem, n, Low(from, last, shift, m), High(from, last, shift, m), shift)
    BY <1>2, <1>5 DEF T
  <1>7. Low(from, last, shift, m) = from + shift /\ High(from, last, shift, m) = last + shift
    BY DEF Low, High, m
  <1> QED BY <1>1, <1>6, <1>7 DEF m

\* Nothing ends the text that is prepared.
LEMMA NoNul ==
    ASSUME RunInv, typed.args # <<>>, Fits
    PROVE  \A k \in 1 .. BUFFER_SZ : Prepared[k] # NUL
  <1> DEFINE p == Padding(BUFFER_SZ - Len(Collapsed))
             h == typed.heap
             b == Collapsed \o p
  <1>1. /\ Collapsed \in Seq(Letter) /\ Len(Collapsed) <= BUFFER_SZ
        /\ h \in Seq(Range(h)) /\ BUFFER_SZ \in Nat
    BY SetupIs, TypedIs, BufferAssumption
  <1>2. p \in Seq(Letter) /\ Len(p) = BUFFER_SZ - Len(Collapsed)
    <2>1. BUFFER_SZ - Len(Collapsed) \in Nat
      BY <1>1
    <2> QED BY <2>1, PaddingIs
  <1> HIDE DEF p, h
  <1>3. b \in Seq(Letter) /\ Len(b) = BUFFER_SZ
    <2>1. Collapsed \in Seq(Letter) /\ p \in Seq(Letter)
      BY <1>1, <1>2
    <2>2. b \in Seq(Letter) /\ Len(b) = Len(Collapsed) + Len(p)
          /\ Len(Collapsed) \in Nat /\ Len(p) \in Nat
      BY ONLY <2>1, Concat
    <2> QED BY <1>1, <1>2, <2>2
  <1> HIDE DEF b
  <1>4. b \in Seq(Values) /\ h \in Seq(Values)
    <2>1. \A S, T : S \subseteq T => Seq(S) \subseteq Seq(T)
      OBVIOUS
    <2> QED BY <1>1, <1>3, <2>1 DEF Values, h
  <1>5. \A c \in 1 .. Len(b) : (b \o h)[c] = b[c]
    BY ONLY <1>4, Concat
  <1>6. Prepared = b \o h
    BY Zenon DEF Prepared, b, p, h
  <1>7. NUL \notin Letter
    <2>1. NUL # " " /\ NUL # "."
      BY DEF NUL
    <2> QED BY <2>1, ArgAssumption DEF Letter
  <1>8. \A c \in 1 .. BUFFER_SZ : b[c] \in Letter
    BY <1>3
  <1> QED BY <1>3, <1>5, <1>6, <1>7, <1>8

\* The target is found at its first place in the text.
LEMMA FoundIs ==
    ASSUME RunInv, typed.args # <<>>, Fits, Length <= BUFFER_SZ,
           typed.args[2] \in Strings, typed.args[2] # <<>>, Places # {}
    PROVE  /\ Found(Prepared, Length, typed.args[2]) \in Places
           /\ \A q \in Places : Found(Prepared, Length, typed.args[2]) <= q
  <1> DEFINE t == typed.args[2]
             m == Len(t)
             n == Len(Prepared)
             all == {p \in 1 .. Length : /\ t # <<>> /\ p + m - 1 <= n
                                         /\ \A k \in 1 .. p : Prepared[k] # NUL
                                         /\ SubSeq(Prepared, p, p + m - 1) = t}
             least == CHOOSE p \in all : \A q \in all : p <= q
  <1>1. /\ m \in Nat /\ m >= 1 /\ Length \in Nat /\ n \in Nat /\ Length <= n
        /\ Prepared \in Seq(Values) /\ BUFFER_SZ \in Nat
    <2>1. m \in Nat /\ m >= 1
      BY DEF Strings
    <2> QED BY <2>1, PreparedIs
  <1>2. Found(Prepared, Length, t) = IF all = {} THEN 0 ELSE least
    BY Zenon DEF Found
  <1>3. \A q \in 1 .. Length - m + 1 : SubSeq(Cells, q, q + m - 1) = SubSeq(Prepared, q, q + m - 1)
    <2> SUFFICES ASSUME NEW q \in 1 .. Length - m + 1
                 PROVE  SubSeq(Cells, q, q + m - 1) = SubSeq(Prepared, q, q + m - 1)
      OBVIOUS
    <2> DEFINE e == q + m - 1
    <2>1. q \in Nat /\ e \in Nat /\ 1 <= q /\ q <= e + 1 /\ e <= Length - 1 + 1
          /\ 1 \in Nat /\ 1 <= 1 /\ 1 <= Length + 1 /\ 1 + q - 1 = q /\ 1 + e - 1 = e
      BY <1>1
    <2> HIDE DEF e, n, m
    <2>2. SubSeq(SubSeq(Prepared, 1, Length), q, e)
          = SubSeq(Prepared, 1 + q - 1, 1 + e - 1)
      BY <1>1, <2>1, PartOfPart DEF n
    <2> QED BY <2>1, <2>2 DEF Cells, e
  <1>4. Places = {q \in 1 .. Length - m + 1 : SubSeq(Prepared, q, q + m - 1) = t}
    <2> HIDE DEF m
    <2>1. Places = {q \in 1 .. Length - m + 1 : SubSeq(Cells, q, q + m - 1) = t}
      BY Zenon DEF Places, m
    <2> QED BY <1>3, <2>1
  <1> HIDE DEF n, m
  <1>5. \A q : q \in Places <=> q \in all /\ q <= Length - m + 1
    <2> SUFFICES ASSUME NEW q
                 PROVE  q \in Places <=> q \in all /\ q <= Length - m + 1
      OBVIOUS
    <2>1. q \in 1 .. Length - m + 1 <=> q \in 1 .. Length /\ q <= Length - m + 1
      BY <1>1
    <2>2. q \in 1 .. Length - m + 1 =>
            q + m - 1 <= n /\ \A k \in 1 .. q : k \in 1 .. BUFFER_SZ
      BY <1>1
    <2>3. q \in 1 .. Length - m + 1 => \A k \in 1 .. q : Prepared[k] # NUL
      BY <2>2, NoNul
    <2> QED BY <1>4, <2>1, <2>2, <2>3
  <1> HIDE DEF all, least
  <1>6. all \subseteq 1 .. Length
    BY DEF all
  <1>7. PICK p \in all : \A q \in all : p <= q
    <2>1. all # {} /\ all \subseteq Nat
      BY <1>1, <1>5, <1>6
    <2> QED BY <2>1, Least
  <1>8. least \in all /\ \A q \in all : least <= q
    <2>1. \E r \in all : \A q \in all : r <= q
      BY <1>7
    <2> QED BY <2>1 DEF least
  <1>9. least \in Places /\ \A q \in Places : least <= q
    <2>1. PICK q \in Places : TRUE
      OBVIOUS
    <2>2. q \in all /\ q <= Length - m + 1
      BY <1>5, <2>1
    <2>3. least <= q /\ least \in Nat /\ q \in Nat
      BY <1>1, <1>6, <1>8, <2>2
    <2>4. least <= Length - m + 1
      BY <1>1, <2>2, <2>3
    <2> QED BY <1>5, <1>8, <2>4
  <1>10. Found(Prepared, Length, t) = least
    BY <1>2, <1>8
  <1> QED BY <1>9, <1>10

\* Overwriting cells one by one is splicing.
Splices(mem, len, p, t, replace, moved) ==
    LET spliced == SubSeq(mem, 1, p - 1) \o replace \o SubSeq(mem, p + t, len) IN
    /\ Len(spliced) = len - t + Len(replace)
    /\ [k \in DOMAIN mem |-> IF k \in p .. p + Len(replace) - 1
                             THEN replace[k - p + 1] ELSE moved[k]]
       = spliced \o SubSeq(mem, Len(spliced) + 1, Len(mem))

LEMMA SpliceIs ==
    ASSUME NEW V, NEW mem \in Seq(V), NEW len \in Nat, len <= Len(mem),
           NEW p \in Nat, NEW t \in Nat, 1 <= p, 1 <= t, p + t <= len + 1,
           NEW replace \in Seq(V), len - t + Len(replace) <= Len(mem),
           NEW moved, Shifted(moved, mem, Len(mem), p + t + (Len(replace) - t),
                              len + (Len(replace) - t), Len(replace) - t)
    PROVE  Splices(mem, len, p, t, replace, moved)
  <1> DEFINE n == Len(mem)
             r == Len(replace)
             s == len - t + r
             a == SubSeq(mem, 1, p - 1)
             b == SubSeq(mem, p + t, len)
             ar == a \o replace
             arb == ar \o b
             e == SubSeq(mem, s + 1, n)
             new == [k \in DOMAIN mem |-> IF k \in p .. p + r - 1
                                          THEN replace[k - p + 1] ELSE moved[k]]
  <1>1. n \in Nat /\ r \in Nat /\ s \in Nat /\ s <= n /\ len <= n /\ DOMAIN mem = 1 .. n
    OBVIOUS
  <1> HIDE DEF n, r
  <1>2. a \in Seq(V) /\ Len(a) = p - 1 /\ \A k \in 1 .. p - 1 : a[k] = mem[k]
    <2> DEFINE j == p - 1
    <2>1. 1 \in Nat /\ 1 <= 1 /\ 1 <= j + 1 /\ j \in Nat /\ j - 1 + 1 = j
          /\ j <= Len(mem) /\ \A k \in 1 .. j : 1 + k - 1 = k
      BY <1>1 DEF n
    <2> HIDE DEF j
    <2>2. /\ SubSeq(mem, 1, j) \in Seq(V) /\ Len(SubSeq(mem, 1, j)) = j - 1 + 1
          /\ \A k \in 1 .. j - 1 + 1 : SubSeq(mem, 1, j)[k] = mem[1 + k - 1]
      BY ONLY mem \in Seq(V), <2>1, Part
    <2> QED BY <2>1, <2>2 DEF j
  <1>3. b \in Seq(V) /\ Len(b) = len - p - t + 1
        /\ \A k \in 1 .. len - p - t + 1 : b[k] = mem[p + t + k - 1]
    <2> DEFINE i == p + t
    <2>1. i \in Nat /\ 1 <= i /\ i <= len + 1 /\ len \in Nat /\ len <= Len(mem)
          /\ len - i + 1 = len - p - t + 1
      BY <1>1 DEF n
    <2> HIDE DEF i
    <2>2. /\ SubSeq(mem, i, len) \in Seq(V) /\ Len(SubSeq(mem, i, len)) = len - i + 1
          /\ \A k \in 1 .. len - i + 1 : SubSeq(mem, i, len)[k] = mem[i + k - 1]
      BY ONLY mem \in Seq(V), <2>1, Part
    <2> QED BY <2>1, <2>2 DEF i
  <1>4. e \in Seq(V) /\ Len(e) = n - s /\ \A k \in 1 .. n - s : e[k] = mem[s + k]
    <2> DEFINE i == s + 1
    <2>1. i \in Nat /\ 1 <= i /\ i <= n + 1 /\ n \in Nat /\ n <= Len(mem)
          /\ n - i + 1 = n - s /\ \A k \in 1 .. n - s : i + k - 1 = s + k
      BY <1>1 DEF n
    <2> HIDE DEF i, s
    <2>2. /\ SubSeq(mem, i, n) \in Seq(V) /\ Len(SubSeq(mem, i, n)) = n - i + 1
          /\ \A k \in 1 .. n - i + 1 : SubSeq(mem, i, n)[k] = mem[i + k - 1]
      BY ONLY mem \in Seq(V), <2>1, Part
    <2> QED BY <2>1, <2>2 DEF i
  <1> HIDE DEF a, b, e
  <1>5. /\ ar \in Seq(V) /\ Len(ar) = p - 1 + r
        /\ \A k \in 1 .. p - 1 : ar[k] = a[k]
        /\ \A k \in 1 .. r : ar[p - 1 + k] = replace[k]
    <2>1. a \in Seq(V) /\ replace \in Seq(V)
      BY <1>2
    <2>2. /\ a \o replace \in Seq(V) /\ Len(a \o replace) = Len(a) + Len(replace)
          /\ \A c \in 1 .. Len(a) : (a \o replace)[c] = a[c]
          /\ \A c \in 1 .. Len(replace) : (a \o replace)[Len(a) + c] = replace[c]
      BY ONLY <2>1, Concat
    <2> QED BY <1>2, <2>2 DEF r
  <1> HIDE DEF ar
  <1>6. /\ arb \in Seq(V) /\ Len(arb) = s
        /\ \A k \in 1 .. p - 1 + r : arb[k] = ar[k]
        /\ \A k \in 1 .. len - p - t + 1 : arb[p - 1 + r + k] = b[k]
    <2>1. ar \in Seq(V) /\ b \in Seq(V)
      BY <1>3, <1>5
    <2>2. /\ ar \o b \in Seq(V) /\ Len(ar \o b) = Len(ar) + Len(b)
          /\ \A c \in 1 .. Len(ar) : (ar \o b)[c] = ar[c]
          /\ \A c \in 1 .. Len(b) : (ar \o b)[Len(ar) + c] = b[c]
      BY ONLY <2>1, Concat
    <2>3. p - 1 + r + (len - p - t + 1) = s
      BY <1>1
    <2> QED BY <1>3, <1>5, <2>2, <2>3
  <1> HIDE DEF arb
  <1>7. /\ arb \o e \in Seq(V) /\ Len(arb \o e) = n
        /\ \A k \in 1 .. s : (arb \o e)[k] = arb[k]
        /\ \A k \in 1 .. n - s : (arb \o e)[s + k] = e[k]
    <2>1. arb \in Seq(V) /\ e \in Seq(V)
      BY <1>4, <1>6
    <2>2. /\ arb \o e \in Seq(V) /\ Len(arb \o e) = Len(arb) + Len(e)
          /\ \A c \in 1 .. Len(arb) : (arb \o e)[c] = arb[c]
          /\ \A c \in 1 .. Len(e) : (arb \o e)[Len(arb) + c] = e[c]
      BY ONLY <2>1, Concat
    <2>3. s + (n - s) = n
      BY <1>1
    <2> HIDE DEF s
    <2> QED BY <1>4, <1>6, <2>2, <2>3
  <1>8. \A i \in 1 .. n : moved[i] = IF p + r <= i /\ i <= s THEN mem[i - (r - t)] ELSE mem[i]
    <2>1. p + t + (r - t) = p + r /\ len + (r - t) = s
      BY <1>1
    <2> QED BY <2>1 DEF Shifted, n, r
  <1>9. \A k \in 1 .. n : (IF k \in p .. p + r - 1 THEN replace[k - p + 1] ELSE moved[k])
                          = (arb \o e)[k]
    <2> SUFFICES ASSUME NEW k \in 1 .. n
                 PROVE  (IF k \in p .. p + r - 1 THEN replace[k - p + 1] ELSE moved[k])
                        = (arb \o e)[k]
      OBVIOUS
    <2> DEFINE whole == arb \o e
    <2> HIDE DEF whole
    <2>0. k \in Int /\ p + r - 1 <= s /\ p \in Int
      BY <1>1
    <2>1. CASE k < p
      <3>1. k \in 1 .. p - 1 /\ k \in 1 .. p - 1 + r /\ k \in 1 .. s /\ ~(p + r <= k)
            /\ k \notin p .. p + r - 1
        BY <1>1, <2>0, <2>1
      <3>2. whole[k] = arb[k] /\ arb[k] = ar[k] /\ ar[k] = a[k] /\ a[k] = mem[k]
        BY <1>2, <1>5, <1>6, <1>7, <3>1 DEF whole
      <3>3. moved[k] = mem[k]
        BY <1>8, <3>1
      <3> QED BY <3>1, <3>2, <3>3 DEF whole
    <2>2. CASE k \in p .. p + r - 1
      <3> DEFINE c == k - p + 1
      <3>1. c \in 1 .. r /\ p - 1 + c = k /\ k \in 1 .. p - 1 + r /\ k \in 1 .. s
        BY <1>1, <2>0, <2>2
      <3> HIDE DEF c, s
      <3>2. ar[k] = replace[c]
        BY <1>5, <3>1
      <3>3. whole[k] = arb[k] /\ arb[k] = ar[k]
        BY <1>6, <1>7, <3>1 DEF whole
      <3> QED BY <2>2, <3>2, <3>3 DEF c, whole
    <2>3. CASE p + r <= k /\ k <= s
      <3> DEFINE c == k - (p - 1 + r)
      <3>1. /\ c \in 1 .. len - p - t + 1 /\ p - 1 + r + c = k /\ k \in 1 .. s
            /\ p + t + c - 1 = k - (r - t) /\ k \notin p .. p + r - 1
        BY <1>1, <2>0, <2>3
      <3> HIDE DEF c, s
      <3>2. arb[k] = b[c]
        BY <1>6, <3>1
      <3>3. b[c] = mem[p + t + c - 1]
        BY <1>3, <3>1
      <3>4. whole[k] = arb[k]
        BY <1>7, <3>1 DEF whole
      <3>5. moved[k] = mem[k - (r - t)]
        BY <1>8, <2>3
      <3> QED BY <3>1, <3>2, <3>3, <3>4, <3>5 DEF whole
    <2>4. CASE k > s
      <3> DEFINE c == k - s
      <3>1. c \in 1 .. n - s /\ s + c = k /\ k \notin p .. p + r - 1 /\ ~(k <= s)
        BY <1>1, <2>0, <2>4
      <3> HIDE DEF c, s
      <3>2. whole[k] = e[c] /\ e[c] = mem[k]
        BY <1>4, <1>7, <3>1 DEF whole
      <3>3. moved[k] = mem[k]
        BY <1>8, <3>1
      <3> QED BY <3>1, <3>2, <3>3 DEF whole
    <2>5. k < p \/ k \in p .. p + r - 1 \/ (p + r <= k /\ k <= s) \/ k > s
      BY <1>1, <2>0
    <2> QED BY <2>1, <2>2, <2>3, <2>4, <2>5
  <1>10. new = arb \o e
    <2> DEFINE whole == arb \o e
               val(k) == IF k \in p .. p + r - 1 THEN replace[k - p + 1] ELSE moved[k]
    <2>1. whole \in Seq(V) /\ Len(whole) = n
      BY <1>7
    <2> HIDE DEF whole
    <2>2. whole = [k \in 1 .. n |-> whole[k]]
      BY <2>1
    <2>3. \A k \in 1 .. n : val(k) = whole[k]
      BY <1>9 DEF whole
    <2>4. new = [k \in 1 .. n |-> val(k)]
      BY <1>1
    <2> HIDE DEF val, new
    <2> QED BY <2>2, <2>3, <2>4 DEF whole
  <1>11. Len(arb) = s
    BY <1>6
  <1> QED BY <1>10, <1>11 DEF Splices, new, n, r, s, a, b, e, ar, arb

LEMMA ReplaceSplices == RunInv => ReplaceIsSplice
  <1> DEFINE t == typed.args[2]
             replace == typed.args[3]
             least == CHOOSE q \in Places : \A r \in Places : q <= r
             s == SubSeq(Cells, 1, least - 1) \o replace
                  \o SubSeq(Cells, least + Len(t), Length)
  <1> SUFFICES ASSUME RunInv, Ran("x"), Length <= BUFFER_SZ, t # <<>>, Places # {}
               PROVE  first.mem = IF Len(s) > BUFFER_SZ THEN Prepared
                                  ELSE s \o SubSeq(Prepared, Len(s) + 1, Len(Prepared))
    BY Zenon DEF ReplaceIsSplice
  <1>1. first # NotRun /\ first.exit = 0 /\ typed.flag.opt = "x" /\ Fits
    BY Zenon DEF Ran
  <1>2. typed.args # <<>>
        /\ first = Operation("x", typed.args, Memory, setup_buff(Str).rc)
    BY <1>1, RanIs
  <1>3. /\ Memory = Prepared /\ setup_buff(Str).rc = Length /\ Prepared \in Seq(Values)
        /\ Length \in Nat /\ BUFFER_SZ \in Nat /\ BUFFER_SZ <= Len(Prepared)
        /\ Len(Prepared) \in Nat
    BY <1>1, <1>2, PreparedIs
  <1> DEFINE x == str_replace(Prepared, Length, t, replace)
  <1>4. first = [[exit |-> 0, rc |-> 0, words |-> <<>>, mem |-> Prepared] EXCEPT
                   !.rc = x.rc, !.mem = x.mem]
        /\ Len(typed.args) = 3
    <2>1. Failed(2).exit = 2
      BY DEF Failed
    <2>2. first # Failed(2)
      BY <1>1, <2>1
    <2> QED BY <1>2, <1>3, <2>2, Zenon DEF Operation
  <1>5. first.mem = x.mem
    <2> HIDE DEF x
    <2> QED BY <1>4
  <1>6. t \in Strings /\ replace \in Strings
    <2>1. typed.args \in Seq(Strings)
      BY TypedIs
    <2> QED BY <1>4, <2>1
  <1>7. Found(Prepared, Length, t) = least /\ least \in Places
    <2> DEFINE f == Found(Prepared, Length, t)
    <2>1. f \in Places /\ \A q \in Places : f <= q
      BY <1>1, <1>2, <1>6, FoundIs
    <2> HIDE DEF f
    <2>2. least \in Places /\ \A q \in Places : least <= q
      <3>1. \E q \in Places : \A r \in Places : q <= r
        BY <2>1
      <3> QED BY <3>1
    <2>3. Places \subseteq Int
      BY DEF Places
    <2> HIDE DEF least
    <2>4. f = least
      BY <2>1, <2>2, <2>3
    <2> QED BY <2>2, <2>4 DEF f
  <1> DEFINE m == Len(t)
             r == Len(replace)
  <1>8. m \in Nat /\ m >= 1 /\ r \in Nat /\ t \in Seq(Values) /\ replace \in Seq(Values)
    <2>1. t \in Seq(Typeable) /\ replace \in Seq(Typeable)
      BY <1>6 DEF Strings
    <2>2. Typeable \subseteq Values
      BY DEF Values, Letter
    <2> QED BY <2>1, <2>2
  <1> HIDE DEF m, r
  <1>9. least \in 1 .. Length - m + 1
    BY <1>7 DEF Places, m
  <1> HIDE DEF least
  <1>10. least \in Nat /\ 1 <= least /\ least + m <= Length + 1 /\ Length <= Len(Prepared)
    BY <1>3, <1>8, <1>9
  \* The splice of the cells is the splice of memory.
  <1>11. s = SubSeq(Prepared, 1, least - 1) \o replace
             \o SubSeq(Prepared, least + m, Length)
    <2>1. SubSeq(Cells, 1, least - 1) = SubSeq(Prepared, 1, least - 1)
      <3> DEFINE l == least - 1
      <3>1. 1 \in Nat /\ l \in Nat /\ 1 <= 1 /\ 1 <= l + 1 /\ l <= Length - 1 + 1
            /\ 1 <= Length + 1 /\ 1 + 1 - 1 = 1 /\ 1 + l - 1 = l
        BY <1>3, <1>8, <1>10
      <3> HIDE DEF l
      <3>2. SubSeq(SubSeq(Prepared, 1, Length), 1, l) = SubSeq(Prepared, 1 + 1 - 1, 1 + l - 1)
        BY <1>3, <1>10, <3>1, PartOfPart
      <3> QED BY <3>1, <3>2 DEF Cells, l
    <2>2. SubSeq(Cells, least + m, Length) = SubSeq(Prepared, least + m, Length)
      <3> DEFINE f == least + m
      <3>1. 1 \in Nat /\ f \in Nat /\ 1 <= f /\ f <= Length + 1 /\ Length <= Length - 1 + 1
            /\ 1 <= 1 /\ 1 <= Length + 1 /\ 1 + f - 1 = f /\ 1 + Length - 1 = Length
        BY <1>3, <1>8, <1>10
      <3> HIDE DEF f
      <3>2. SubSeq(SubSeq(Prepared, 1, Length), f, Length)
            = SubSeq(Prepared, 1 + f - 1, 1 + Length - 1)
        BY <1>3, <1>10, <3>1, PartOfPart
      <3> QED BY <3>1, <3>2 DEF Cells, f
    <2> QED BY <2>1, <2>2 DEF m
  <1> HIDE DEF s
  <1> DEFINE from == least + m
             shift == r - m
             moved == Moved(Prepared, from, Length, shift, Length + 1 - from)
             new == [k \in DOMAIN Prepared |-> IF k \in least .. least + r - 1
                                               THEN replace[k - least + 1] ELSE moved[k]]
  \* No cell is moved when the target ends the text.
  <1>12. x = IF Length - m + r > BUFFER_SZ THEN [rc |-> 4, mem |-> Prepared]
             ELSE [rc |-> 0, mem |-> new]
    <2>1. (IF from > Length THEN 0 ELSE Length + 1 - from) = Length + 1 - from
      BY <1>3, <1>8, <1>10
    <2>2. least # 0
      BY <1>10
    <2> HIDE DEF from
    <2> QED BY <1>7, <2>1, <2>2, Zenon DEF str_replace, m, r, from
  <1>13. Len(Prepared) \in Nat /\ 1 <= from /\ Length <= Len(Prepared) /\ from <= Length + 1
         /\ from \in Int /\ Length \in Int /\ shift \in Int
    BY <1>3, <1>8, <1>10
  <1>14. Shifted(moved, Prepared, Len(Prepared), from + shift, Length + shift, shift)
    <2> DEFINE n == Len(Prepared)
    <2>1. Prepared \in [1 .. n -> Values]
      BY <1>3
    <2> HIDE DEF n, from, shift
    <2> QED BY <1>13, <2>1, MovedAre DEF n
  <1>15. CASE Length - m + r > BUFFER_SZ
    <2>1. x.mem = Prepared
      <3> HIDE DEF new, x
      <3> QED BY <1>12, <1>15
    <2>2. Len(s) = Length - m + r
      <3> DEFINE a == SubSeq(Prepared, 1, least - 1)
                 b == SubSeq(Prepared, least + m, Length)
      <3>1. a \in Seq(Values) /\ Len(a) = least - 1
        <4> DEFINE j == least - 1
        <4>1. 1 \in Nat /\ 1 <= 1 /\ 1 <= j + 1 /\ j \in Nat /\ j - 1 + 1 = j
              /\ j <= Len(Prepared) /\ Prepared \in Seq(Values)
          BY <1>3, <1>8, <1>10
        <4> HIDE DEF j
        <4>2. /\ SubSeq(Prepared, 1, j) \in Seq(Values)
              /\ Len(SubSeq(Prepared, 1, j)) = j - 1 + 1
          BY ONLY <4>1, Part
        <4> QED BY <4>1, <4>2 DEF j
      <3>2. b \in Seq(Values) /\ Len(b) = Length - from + 1
        <4>1. Prepared \in Seq(Values) /\ from \in Nat
          BY <1>3, <1>13
        <4> HIDE DEF from
        <4>2. /\ SubSeq(Prepared, from, Length) \in Seq(Values)
              /\ Len(SubSeq(Prepared, from, Length)) = Length - from + 1
          BY ONLY <1>3, <1>13, <4>1, Part
        <4> QED BY <4>2 DEF from
      <3> HIDE DEF a, b
      <3>3. a \o replace \in Seq(Values) /\ Len(a \o replace) = Len(a) + Len(replace)
        BY <1>8, <3>1, Concat
      <3>4. Len((a \o replace) \o b) = Len(a \o replace) + Len(b)
        <4> DEFINE ar == a \o replace
        <4>1. ar \in Seq(Values) /\ b \in Seq(Values)
          BY <3>2, <3>3
        <4> HIDE DEF ar
        <4> QED BY ONLY <4>1, Concat DEF ar
      <3>5. Len(s) = (least - 1) + r + (Length - from + 1)
        BY <1>11, <3>1, <3>2, <3>3, <3>4 DEF r, a, b
      <3> QED BY <1>3, <1>8, <1>10, <3>5
    <2> QED BY <1>5, <1>15, <2>1, <2>2
  <1>16. CASE ~(Length - m + r > BUFFER_SZ)
    <2>1. x.mem = new
      <3> HIDE DEF new, x
      <3> QED BY <1>12, <1>16
    <2>2. Length - m + r <= Len(Prepared) /\ Length - m + r <= BUFFER_SZ
      BY <1>3, <1>8, <1>10, <1>16
    <2>3. /\ Len(s) = Length - m + r
          /\ new = s \o SubSeq(Prepared, Len(s) + 1, Len(Prepared))
      <3>1. Shifted(moved, Prepared, Len(Prepared), least + m + (r - m),
                    Length + (r - m), r - m)
        BY <1>14
      <3> HIDE DEF moved
      <3>2. Prepared \in Seq(Values) /\ Length \in Nat /\ Length <= Len(Prepared)
            /\ least \in Nat /\ m \in Nat /\ 1 <= least /\ 1 <= m
            /\ least + m <= Length + 1 /\ replace \in Seq(Values)
            /\ Length - m + r <= Len(Prepared)
        BY <1>3, <1>8, <1>10, <2>2
      <3> DEFINE ss == SubSeq(Prepared, 1, least - 1) \o replace
                       \o SubSeq(Prepared, least + m, Length)
      <3>3. /\ Len(ss) = Length - m + Len(replace)
            /\ new = ss \o SubSeq(Prepared, Len(ss) + 1, Len(Prepared))
        <4>1. Splices(Prepared, Length, least, m, replace, moved)
          BY <3>1, <3>2, SpliceIs DEF r
        <4> QED BY <4>1, Zenon DEF Splices, r
      <3> HIDE DEF ss
      <3>4. ss = s
        BY <1>11 DEF ss
      <3> QED BY <3>3, <3>4 DEF r
    <2>4. ~(Len(s) > BUFFER_SZ)
      BY <1>3, <2>2, <2>3
    <2> QED BY <1>5, <2>1, <2>3, <2>4
  <1> QED BY <1>15, <1>16

\* -x replaces the first occurrence within the text by splicing.
THEOREM ReplaceSplicesTheText == Spec => []ReplaceIsSplice
  BY RunInvariant, ReplaceSplices, PTL

----------------------------------------------------------------------------
(* word_print(). *)

EFields(X)  == [n : Nat, word : X, len : Nat]
Entries(V)  == EFields(Seq(V))
PFields(X)  == [word_start : BOOLEAN, wlen : Nat, printed : X]
Printing(V) == PFields(Seq(Entries(V)))
Begun       == [word_start |-> FALSE, wlen |-> 0, printed |-> <<>>]

\* The word is longer, or ended.
Longer(f, e, a, ends, wlen) ==
    /\ f.n = e.n /\ f.word = e.word \o a
    /\ f.len = IF ends THEN wlen ELSE e.len

LEMMA PrintedIs ==
    ASSUME NEW V, NEW e \in Entries(V), NEW a \in Seq(V), NEW ends \in BOOLEAN,
           NEW wlen \in Nat
    PROVE  /\ Printed(e, a, ends, wlen) \in Entries(V)
           /\ Longer(Printed(e, a, ends, wlen), e, a, ends, wlen)
  <1> DEFINE f == Printed(e, a, ends, wlen)
             X == Seq(V)
             w == e.word \o a
             l == IF ends THEN wlen ELSE e.len
  <1>1. e \in EFields(X) /\ e.word \in X
    BY DEF Entries, EFields
  <1>2. w \in X
    BY <1>1
  <1>3. l \in Nat
    BY <1>1 DEF EFields
  <1>4. f = [e EXCEPT !.word = w, !.len = l]
    BY Zenon DEF Printed
  <1> HIDE DEF X, w, l, f
  <1>5. f \in EFields(X) /\ f.n = e.n /\ f.word = w /\ f.len = l
    BY <1>1, <1>2, <1>3, <1>4 DEF EFields
  <1> QED BY <1>5 DEF Longer, Entries, X, w, l, f

\* The last element is replaced.
LEMMA LastIs ==
    ASSUME NEW E, NEW p \in Seq(E), NEW e, Len(p) > 0 => e \in E
    PROVE  LET q == [p EXCEPT ![Len(p)] = e] IN
           /\ q \in Seq(E) /\ Len(q) = Len(p)
           /\ \A k \in 1 .. Len(p) : q[k] = IF k = Len(p) THEN e ELSE p[k]
  <1> DEFINE m == Len(p)
             q == [p EXCEPT ![m] = e]
  <1>1. m \in Nat /\ p \in [1 .. m -> E] /\ (m > 0 => e \in E)
    OBVIOUS
  <1> HIDE DEF m
  <1>2. /\ q \in [1 .. m -> E]
        /\ \A k \in 1 .. m : q[k] = IF k = m THEN e ELSE p[k]
    <2>1. CASE m > 0
      <3>1. m \in 1 .. m /\ e \in E
        BY <1>1, <2>1
      <3> QED BY <1>1, <3>1
    <2>2. CASE ~(m > 0)
      <3>1. 1 .. m = {} /\ m \notin DOMAIN p
        BY <1>1, <2>2
      <3>2. q = p
        BY <1>1, <3>1
      <3> HIDE DEF q
      <3> QED BY <1>1, <3>1, <3>2
    <2> QED BY <2>1, <2>2
  <1> HIDE DEF q
  <1>3. q \in Seq(E) /\ Len(q) = m
    BY <1>1, <1>2
  <1> QED BY <1>2, <1>3 DEF m, q

\* The cases of a cell.
PrintsCell(t, s, c, i, len) ==
    LET p == s.printed
        m == Len(p)
    IN
    /\ ~s.word_start /\ c = " " => t = s
    /\ ~s.word_start /\ c # " " =>
         /\ t.word_start = TRUE /\ t.wlen = 1
         /\ t.printed = Append(p, [n |-> m + 1, word |-> <<c>>, len |-> 0])
    /\ s.word_start /\ c = " " =>
         /\ t.word_start = FALSE
         /\ t.printed = [p EXCEPT ![m] = Printed(p[m], <<>>, TRUE, s.wlen)]
    /\ s.word_start /\ c # " " =>
         /\ t.word_start = (i # len)
         /\ t.wlen = IF i = len THEN 0 ELSE s.wlen + 1
         /\ t.printed = [p EXCEPT ![m] = Printed(p[m], <<c>>, i = len, s.wlen + 1)]

LEMMA PrintCellIs ==
    ASSUME NEW V, NEW s \in Printing(V), NEW mem, NEW len \in Nat, NEW i \in Nat,
           mem[i] \in V
    PROVE  /\ PrintCell(mem, len, s, i) \in Printing(V)
           /\ PrintsCell(PrintCell(mem, len, s, i), s, mem[i], i, len)
  <1> DEFINE t == PrintCell(mem, len, s, i)
             p == s.printed
             m == Len(p)
             c == mem[i]
             E == Entries(V)
             X == Seq(E)
  <1>1. s \in PFields(X) /\ s.word_start \in BOOLEAN /\ s.wlen \in Nat /\ p \in X
        /\ m \in Nat
    <2>1. s \in PFields(X)
      BY DEF Printing
    <2> HIDE DEF X
    <2>2. s.word_start \in BOOLEAN /\ s.wlen \in Nat /\ p \in X
      BY <2>1 DEF PFields
    <2>3. m \in Nat
      BY <2>2 DEF X
    <2> QED BY <2>1, <2>2, <2>3
  <1> HIDE DEF c, m, p
  <1>2. CASE ~s.word_start /\ c = " "
    <2>1. t = s
      BY <1>2, Zenon DEF PrintCell, c
    <2> QED BY <1>2, <2>1 DEF PrintsCell, c
  <1>3. CASE ~s.word_start /\ c # " "
    <2> DEFINE e == [n |-> m + 1, word |-> <<c>>, len |-> 0]
               q == Append(p, e)
    <2>1. t = [word_start |-> TRUE, wlen |-> 1, printed |-> q]
      BY <1>3, Zenon DEF PrintCell, c, m, p
    <2>2. e \in E
      <3>1. <<c>> \in Seq(V)
        BY DEF c
      <3> DEFINE Y == Seq(V)
                 a == <<c>>
      <3> HIDE DEF Y, a
      <3>2. [n |-> m + 1, word |-> a, len |-> 0] \in EFields(Y)
        BY <1>1, <3>1 DEF EFields, Y, a
      <3> QED BY <3>2 DEF Entries, Y, a
    <2> HIDE DEF e, E
    <2>3. q \in X
      BY <1>1, <2>2
    <2> HIDE DEF q, X
    <2>4. t \in PFields(X) /\ t.word_start = TRUE /\ t.wlen = 1 /\ t.printed = q
      BY <2>1, <2>3 DEF PFields
    <2> QED BY <1>3, <2>4 DEF PrintsCell, Printing, X, E, q, e, c, m, p
  <1>4. CASE s.word_start
    <2> DEFINE a == IF c = " " THEN <<>> ELSE <<c>>
               w == s.wlen + Len(a)
               ends == c = " " \/ i = len
               q == [p EXCEPT ![m] = Printed(p[m], a, ends, w)]
    <2>1. t = [word_start |-> ~ends, wlen |-> IF ends THEN 0 ELSE w, printed |-> q]
      BY <1>4, Zenon DEF PrintCell, EndsWord, c, m, p
    <2>2. a \in Seq(V) /\ w \in Nat /\ (c = " " => w = s.wlen) /\ (c # " " => w = s.wlen + 1)
      <3>1. c \in V
        BY DEF c
      <3>2. CASE c = " "
        <4>1. a = <<>>
          BY <3>2
        <4> HIDE DEF a
        <4>2. a \in Seq(V) /\ Len(a) = 0
          BY <4>1
        <4>3. w \in Nat /\ w = s.wlen
          BY <1>1, <4>2
        <4> HIDE DEF w
        <4> QED BY <3>2, <4>2, <4>3
      <3>3. CASE c # " "
        <4>1. a = <<c>>
          BY <3>3
        <4> HIDE DEF a
        <4>2. a \in Seq(V) /\ Len(a) = 1
          BY <3>1, <4>1
        <4>3. w \in Nat /\ w = s.wlen + 1
          BY <1>1, <4>2
        <4> HIDE DEF w
        <4> QED BY <3>3, <4>2, <4>3
      <3> QED BY <3>2, <3>3
    <2>3. q \in X
      <3>1. m > 0 => p[m] \in E
        BY <1>1 DEF m
      <3>2. ends \in BOOLEAN
        OBVIOUS
      <3> HIDE DEF a, w, ends
      <3>3. m > 0 => Printed(p[m], a, ends, w) \in E
        BY <2>2, <3>1, <3>2, PrintedIs
      <3> DEFINE e == Printed(p[m], a, ends, w)
      <3> HIDE DEF e, E
      <3>4. Len(p) > 0 => e \in E
        BY <3>3 DEF m, e
      <3>5. [p EXCEPT ![Len(p)] = e] \in Seq(E)
        BY <1>1, <3>4, LastIs
      <3> QED BY <3>5 DEF e, m, X
    <2>4. t \in PFields(X) /\ t.word_start = ~ends /\ t.printed = q
          /\ t.wlen = IF ends THEN 0 ELSE w
      <3> DEFINE o == ~ends
                 l == IF ends THEN 0 ELSE w
      <3>1. o \in BOOLEAN /\ l \in Nat
        BY <2>2
      <3>2. t = [word_start |-> o, wlen |-> l, printed |-> q]
        BY <2>1
      <3> HIDE DEF o, l, q, X
      <3>3. t \in PFields(X) /\ t.word_start = o /\ t.printed = q /\ t.wlen = l
        BY <2>3, <3>1, <3>2 DEF PFields
      <3> QED BY <3>3 DEF o, l
    <2>5. CASE c = " "
      <3>1. a = <<>> /\ ends = TRUE /\ w = s.wlen
        BY <2>2, <2>5
      <3> HIDE DEF a, w, ends
      <3>2. t.word_start = FALSE /\ t.printed = [p EXCEPT ![m] = Printed(p[m], <<>>, TRUE, s.wlen)]
        BY <2>4, <3>1
      <3> QED BY <1>4, <2>4, <2>5, <3>2 DEF PrintsCell, Printing, X, E, c, m, p
    <2>6. CASE c # " "
      <3>1. a = <<c>> /\ ends = (i = len) /\ w = s.wlen + 1
        BY <2>2, <2>6
      <3> HIDE DEF a, w, ends
      <3>2. t.word_start = (i # len) /\ t.wlen = (IF i = len THEN 0 ELSE s.wlen + 1)
            /\ t.printed = [p EXCEPT ![m] = Printed(p[m], <<c>>, i = len, s.wlen + 1)]
        BY <2>4, <3>1
      <3> QED BY <1>4, <2>4, <2>6, <3>2 DEF PrintsCell, Printing, X, E, c, m, p
    <2> QED BY <2>5, <2>6
  <1> QED BY <1>1, <1>2, <1>3, <1>4 DEF c

LEMMA PrintsSteps ==
    ASSUME NEW V, NEW len \in Nat, NEW mem, \A i \in 1 .. len : mem[i] \in V
    PROVE  /\ Prints(mem, len, 0) = Begun
           /\ \A k \in 1 .. len : Prints(mem, len, k)
                                  = PrintCell(mem, len, Prints(mem, len, k - 1), k)
           /\ \A k \in 0 .. len : Prints(mem, len, k) \in Printing(V)
  <1> DEFINE S == Printing(V)
             step == [p \in (1 .. len) \X S |-> PrintCell(mem, len, p[2], p[1])]
             Loop(f) == f = [k \in 0 .. len |-> IF k = 0 THEN Begun
                                                ELSE PrintCell(mem, len, f[k - 1], k)]
             state == CHOOSE f : Loop(f)
  <1>1. Begun \in S
    <2>1. <<>> \in Seq(Entries(V))
      OBVIOUS
    <2> DEFINE X == Seq(Entries(V))
    <2> HIDE DEF X
    <2>2. Begun \in PFields(X)
      BY <2>1 DEF Begun, PFields, X
    <2> QED BY <2>2 DEF Printing, X
  <1>2. step \in [(1 .. len) \X S -> S]
    <2>1. \A k \in 1 .. len, t \in S : PrintCell(mem, len, t, k) \in S
      BY PrintCellIs
    <2> HIDE DEF S
    <2> QED BY <2>1
  <1>4. \A k : Prints(mem, len, k) = state[k]
    BY Zenon DEF Prints, Begun
  <1> HIDE DEF S
  <1>3. \A k \in 1 .. len, t \in S : step[<<k, t>>] = PrintCell(mem, len, t, k)
    OBVIOUS
  <1> HIDE DEF step
  <1>5. PICK f \in [0 .. len -> S] : Follows(f, len, Begun, step)
    BY <1>1, <1>2, Recursive
  <1>6. Loop(f)
    <2>1. \A k \in 1 .. len : f[k] = PrintCell(mem, len, f[k - 1], k)
      <3> SUFFICES ASSUME NEW k \in 1 .. len
                   PROVE  f[k] = PrintCell(mem, len, f[k - 1], k)
        OBVIOUS
      <3>1. k - 1 \in 0 .. len /\ f[k - 1] \in S
        OBVIOUS
      <3> QED BY <1>3, <1>5, <3>1 DEF Follows
    <2>2. \A k \in 0 .. len : k # 0 => k \in 1 .. len
      OBVIOUS
    <2>3. f[0] = Begun
      BY <1>5 DEF Follows
    <2> QED BY <2>1, <2>2, <2>3
  <1>7. Loop(state)
    <2> HIDE DEF Loop
    <2> QED BY <1>6
  <1> HIDE DEF state
  <1>8. state[0] = Begun
    BY <1>7
  <1>9. \A k \in 1 .. len : state[k] = PrintCell(mem, len, state[k - 1], k)
    <2> SUFFICES ASSUME NEW k \in 1 .. len
                 PROVE  state[k] = PrintCell(mem, len, state[k - 1], k)
      OBVIOUS
    <2>1. k \in 0 .. len /\ k # 0
      OBVIOUS
    <2> QED BY <1>7, <2>1, Zenon
  <1>10. \A k \in 0 .. len : state[k] \in S
    <2> DEFINE T == {k \in 0 .. len : state[k] \in S}
    <2>1. 0 \in T
      BY <1>1, <1>8
    <2>2. ASSUME NEW k \in 1 .. len, k - 1 \in T
          PROVE  k \in T
      <3> DEFINE c == state[k - 1]
      <3>1. c \in Printing(V) /\ mem[k] \in V /\ k \in Nat
        BY <2>2 DEF S
      <3> HIDE DEF c
      <3>2. PrintCell(mem, len, c, k) \in Printing(V)
        BY <3>1, PrintCellIs
      <3>3. state[k] \in S
        BY <1>9, <3>2 DEF S, c
      <3> QED BY <3>3
    <2> HIDE DEF T
    <2>3. 0 .. len \subseteq T
      BY <2>1, <2>2, UpTo
    <2> QED BY <2>3 DEF T
  <1> QED BY <1>4, <1>8, <1>9, <1>10 DEF S

\* The words of the first i cells are printed; the last has no length while it
\* is not ended.
Listed(e, k, mem, f, l, open) ==
    e.n = k /\ e.word = SubSeq(mem, f, l) /\ e.len = IF open THEN 0 ELSE l - f + 1

Lasts(s, w, mem, len, i) ==
    /\ s.word_start =>
         /\ Len(w) > 0 /\ w[Len(w)][2] = i /\ s.wlen = i - w[Len(w)][1] + 1
         /\ i = len => w[Len(w)][1] = i
    /\ ~s.word_start /\ i > 0 /\ mem[i] \notin {" "} =>
         i = len /\ Len(w) > 0 /\ w[Len(w)][1] < i

PrintsTo(s, w, mem, len, i) ==
    /\ Enumerates(w, mem, {" "}, i)
    /\ Len(s.printed) = Len(w)
    /\ \A k \in 1 .. Len(w) : Listed(s.printed[k], k, mem, w[k][1], w[k][2],
                                     s.word_start /\ k = Len(w))
    /\ Lasts(s, w, mem, len, i)

\* What an enumeration says of its members.
LEMMA MembersAre ==
    ASSUME NEW s, NEW S, NEW n \in Nat, NEW w, Enumerates(w, s, S, n)
    PROVE  /\ w \in Seq(Nat \X Nat) /\ Len(w) \in Nat
           /\ \A k \in 1 .. Len(w) : /\ w[k][1] \in Nat /\ w[k][2] \in Nat /\ 1 <= w[k][1]
                                     /\ w[k][1] <= w[k][2] /\ w[k][2] <= n
  <1>1. w \in Seq(Nat \X Nat)
    BY DEF Enumerates
  <1>2. \A k \in 1 .. Len(w) : 1 <= w[k][1] /\ w[k][1] <= w[k][2] /\ w[k][2] <= n
    BY DEF Enumerates
  <1>3. Len(w) \in Nat /\ \A k \in 1 .. Len(w) : w[k] \in Nat \X Nat
    BY ONLY <1>1
  <1>4. \A k \in 1 .. Len(w) : w[k][1] \in Nat /\ w[k][2] \in Nat
    BY ONLY <1>3
  <1> QED BY ONLY <1>1, <1>2, <1>3, <1>4

\* One cell more.
LEMMA PrintsMore ==
    ASSUME NEW V, NEW mem \in Seq(V), NEW len \in Nat, len <= Len(mem),
           NEW i \in 0 .. len - 1, NEW s \in Printing(V), NEW w,
           PrintsTo(s, w, mem, len, i)
    PROVE  \E v : PrintsTo(PrintCell(mem, len, s, i + 1), v, mem, len, i + 1)
  <1> DEFINE j == i + 1
             c == mem[j]
             t == PrintCell(mem, len, s, j)
             p == s.printed
             m == Len(p)
             Blank == {" "}
  <1>1. i \in Nat /\ j \in Nat /\ j \in 1 .. Len(mem) /\ c \in V /\ len \in Nat /\ j <= len
        /\ j > 0 /\ j - 1 = i
    OBVIOUS
  <1>2. /\ Enumerates(w, mem, Blank, i) /\ Len(w) = m
        /\ \A k \in 1 .. m : Listed(p[k], k, mem, w[k][1], w[k][2], s.word_start /\ k = m)
        /\ Lasts(s, w, mem, len, i)
    BY DEF PrintsTo
  <1>3. /\ p \in Seq(Entries(V)) /\ m \in Nat /\ s.word_start \in BOOLEAN /\ s.wlen \in Nat
    <2> DEFINE X == Seq(Entries(V))
    <2>1. s \in PFields(X)
      BY DEF Printing
    <2> HIDE DEF X
    <2>2. s.word_start \in BOOLEAN /\ s.wlen \in Nat /\ p \in X
      BY <2>1 DEF PFields
    <2> QED BY <2>2 DEF X
  <1>4. /\ w \in Seq(Nat \X Nat)
        /\ \A k \in 1 .. m : /\ w[k][1] \in Nat /\ w[k][2] \in Nat /\ 1 <= w[k][1]
                             /\ w[k][1] <= w[k][2] /\ w[k][2] <= i
    BY <1>1, <1>2, MembersAre
  <1>5. c = " " <=> c \in Blank
    OBVIOUS
  <1>6. /\ ~s.word_start /\ c = " " => t = s
        /\ ~s.word_start /\ c # " " =>
             /\ t.word_start = TRUE /\ t.wlen = 1
             /\ t.printed = Append(p, [n |-> m + 1, word |-> <<c>>, len |-> 0])
        /\ s.word_start /\ c = " " =>
             /\ t.word_start = FALSE
             /\ t.printed = [p EXCEPT ![m] = Printed(p[m], <<>>, TRUE, s.wlen)]
        /\ s.word_start /\ c # " " =>
             /\ t.word_start = (j # len)
             /\ t.wlen = IF j = len THEN 0 ELSE s.wlen + 1
             /\ t.printed = [p EXCEPT ![m] = Printed(p[m], <<c>>, j = len, s.wlen + 1)]
    <2>1. PrintsCell(t, s, c, j, len)
      BY <1>1, PrintCellIs
    <2> QED BY <2>1, Zenon DEF PrintsCell, p, m
  \* Between words the cell before is a blank.
  <1>7. ~s.word_start /\ i > 0 => mem[i] \in Blank
    <2>1. i # len
      BY <1>1
    <2> QED BY <1>2, <2>1, Zenon DEF Lasts
  <1> HIDE DEF j, c, t, m, p, Blank
  <1>8. CASE ~s.word_start /\ c = " "
    <2>1. Enumerates(w, mem, Blank, i + 1)
      BY <1>1, <1>2, <1>5, <1>8, EnumerateSkip DEF c, j
    <2>2. Lasts(s, w, mem, len, j)
      BY <1>5, <1>8 DEF Lasts, c, Blank
    <2>3. PrintsTo(s, w, mem, len, j)
      BY <1>2, <2>1, <2>2 DEF PrintsTo, j, Blank, p, m
    <2> QED BY <1>6, <1>8, <2>3 DEF t, j
  <1>9. CASE ~s.word_start /\ c # " "
    <2> DEFINE v == Append(w, <<j, j>>)
               e == [n |-> m + 1, word |-> <<c>>, len |-> 0]
    <2>1. Enumerates(Append(w, <<i + 1, i + 1>>), mem, Blank, i + 1)
      BY <1>1, <1>2, <1>5, <1>7, <1>9, EnumerateBegin DEF c, j
    <2>2. Enumerates(v, mem, Blank, j)
      BY <2>1 DEF j
    <2>3. /\ Len(v) = m + 1 /\ v[m + 1] = <<j, j>> /\ v[m + 1][1] = j /\ v[m + 1][2] = j
          /\ \A k \in 1 .. m : v[k] = w[k]
      BY <1>1, <1>2, <1>3, <1>4
    <2>4. t.word_start = TRUE /\ t.wlen = 1 /\ t.printed = Append(p, e)
      BY <1>6, <1>9
    <2>5. Len(t.printed) = m + 1 /\ t.printed[m + 1] = e
          /\ \A k \in 1 .. m : t.printed[k] = p[k]
      <3> HIDE DEF e
      <3> QED BY <1>3, <2>4 DEF m
    <2>6. Listed(e, m + 1, mem, j, j, TRUE)
      <3>1. SubSeq(mem, j, j) = <<c>>
        <4>1. mem \in Seq(V) /\ j \in Nat /\ 1 <= j /\ j <= j + 1 /\ j <= Len(mem)
              /\ j - j + 1 = 1 /\ j + 1 - 1 = j
          BY <1>1
        <4>2. /\ SubSeq(mem, j, j) \in Seq(V) /\ Len(SubSeq(mem, j, j)) = j - j + 1
              /\ \A k \in 1 .. j - j + 1 : SubSeq(mem, j, j)[k] = mem[j + k - 1]
          BY ONLY <4>1, Part
        <4> DEFINE q == SubSeq(mem, j, j)
        <4> HIDE DEF q
        <4>3. q \in Seq(V) /\ Len(q) = 1 /\ q[1] = c
          BY <4>1, <4>2 DEF q, c
        <4> DEFINE o == <<c>>
        <4>4. o \in Seq(V) /\ Len(o) = 1 /\ o[1] = c
          BY <1>1
        <4> HIDE DEF o
        <4>5. q = o
          BY <4>3, <4>4, Same
        <4> QED BY <4>5 DEF q, o
      <3> QED BY <3>1 DEF Listed
    <2> HIDE DEF v, e
    <2>7. \A k \in 1 .. m + 1 : Listed(t.printed[k], k, mem, v[k][1], v[k][2],
                                       t.word_start /\ k = m + 1)
      <3> SUFFICES ASSUME NEW k \in 1 .. m + 1
                   PROVE  Listed(t.printed[k], k, mem, v[k][1], v[k][2],
                                 t.word_start /\ k = m + 1)
        OBVIOUS
      <3>1. CASE k \in 1 .. m
        <4>1. (s.word_start /\ k = m) = (t.word_start /\ k = m + 1)
          <5>1. ~s.word_start /\ k \in 1 .. m /\ m \in Nat
            BY <1>3, <1>9, <3>1
          <5> QED BY ONLY <5>1
        <4>2. Listed(p[k], k, mem, w[k][1], w[k][2], s.word_start /\ k = m)
          BY <1>2, <3>1
        <4>3. Listed(p[k], k, mem, w[k][1], w[k][2], t.word_start /\ k = m + 1)
          BY <4>1, <4>2 DEF Listed
        <4> QED BY <2>3, <2>5, <3>1, <4>3
      <3>2. CASE k = m + 1
        <4>1. t.word_start /\ k = m + 1
          BY <2>4, <3>2
        <4> QED BY <2>3, <2>5, <2>6, <3>2, <4>1 DEF Listed
      <3> QED BY <1>3, <3>1, <3>2
    <2>8. Lasts(t, v, mem, len, j)
      <3>1. Len(v) > 0 /\ v[Len(v)][2] = j /\ v[Len(v)][1] = j /\ t.wlen = j - j + 1
        BY <1>1, <1>3, <2>3, <2>4
      <3> QED BY <2>4, <3>1 DEF Lasts
    <2>9. PrintsTo(t, v, mem, len, j)
      BY <2>2, <2>3, <2>5, <2>7, <2>8 DEF PrintsTo, Blank
    <2> QED BY <2>9 DEF t, j
  <1>10. ASSUME s.word_start
         PROVE  /\ m > 0 /\ w[m][2] = i /\ s.wlen = i - w[m][1] + 1 /\ m \in 1 .. m
                /\ p[m] \in Entries(V) /\ w[m][1] \in Nat /\ 1 <= w[m][1] /\ w[m][1] <= i
                /\ i > 0 /\ mem[i] \notin Blank /\ Listed(p[m], m, mem, w[m][1], i, TRUE)
    <2>1. m > 0 /\ w[m][2] = i /\ s.wlen = i - w[m][1] + 1
      BY <1>2, <1>10 DEF Lasts
    <2>2. m \in 1 .. m
      BY <1>3, <2>1
    <2>3. p[m] \in Entries(V)
      BY <1>3, <2>2 DEF m
    <2>4. w[m][1] \in Nat /\ 1 <= w[m][1] /\ w[m][1] <= i /\ i > 0
      BY <1>1, <1>4, <2>1, <2>2
    <2>5. mem[i] \notin Blank
      <3>1. i \in w[m][1] .. w[m][2]
        BY <1>1, <2>1, <2>4
      <3> QED BY <1>2, <2>2, <3>1 DEF Enumerates
    <2>6. s.word_start /\ m = m
      BY <1>10
    <2>7. Listed(p[m], m, mem, w[m][1], i, TRUE)
      BY <1>2, <2>1, <2>2, <2>6 DEF Listed
    <2> QED BY <2>1, <2>2, <2>3, <2>4, <2>5, <2>7
  \* Other words than the last are as they were.
  <1>11. ASSUME s.word_start, NEW e, NEW q, NEW v, NEW open,
                Len(q) = m, \A k \in 1 .. m : q[k] = IF k = m THEN e ELSE p[k],
                Len(v) = m, \A k \in 1 .. m : k # m => v[k] = w[k],
                Listed(e, m, mem, v[m][1], v[m][2], open)
         PROVE  \A k \in 1 .. m : Listed(q[k], k, mem, v[k][1], v[k][2], open /\ k = m)
    <2> SUFFICES ASSUME NEW k \in 1 .. m
                 PROVE  Listed(q[k], k, mem, v[k][1], v[k][2], open /\ k = m)
      OBVIOUS
    <2>1. CASE k = m
      <3>1. q[k] = e
        BY <1>11, <2>1
      <3> QED BY <1>11, <2>1, <3>1 DEF Listed
    <2>2. CASE k # m
      <3>1. q[k] = p[k] /\ v[k] = w[k]
        BY <1>11, <2>2
      <3>2. Listed(p[k], k, mem, w[k][1], w[k][2], s.word_start /\ k = m)
        BY <1>2
      <3> QED BY <2>2, <3>1, <3>2 DEF Listed
    <2> QED BY <2>1, <2>2
  <1>12. CASE s.word_start /\ c = " "
    <2>0. /\ m > 0 /\ w[m][2] = i /\ s.wlen = i - w[m][1] + 1 /\ m \in 1 .. m
          /\ p[m] \in Entries(V) /\ w[m][1] \in Nat /\ 1 <= w[m][1] /\ w[m][1] <= i
          /\ i > 0 /\ mem[i] \notin Blank /\ Listed(p[m], m, mem, w[m][1], i, TRUE)
      BY <1>10, <1>12
    <2> DEFINE e == Printed(p[m], <<>>, TRUE, s.wlen)
    <2>1. Enumerates(w, mem, Blank, j)
      <3>1. Enumerates(w, mem, Blank, i + 1)
        BY <1>1, <1>2, <1>5, <1>12, EnumerateSkip DEF c, j
      <3> QED BY <3>1 DEF j
    <2>2. t.word_start = FALSE /\ t.printed = [p EXCEPT ![m] = e]
      BY <1>6, <1>12
    <2>3. e \in Entries(V) /\ e.n = p[m].n /\ e.word = p[m].word \o <<>> /\ e.len = s.wlen
      <3>1. <<>> \in Seq(V) /\ TRUE \in BOOLEAN /\ s.wlen \in Nat /\ p[m] \in Entries(V)
        BY <1>3, <2>0
      <3>2. e \in Entries(V) /\ Longer(e, p[m], <<>>, TRUE, s.wlen)
        BY <3>1, PrintedIs
      <3> QED BY <3>2 DEF Longer
    <2> HIDE DEF e
    <2>4. Listed(e, m, mem, w[m][1], w[m][2], FALSE)
      <3>1. p[m].n = m /\ p[m].word = SubSeq(mem, w[m][1], i)
        BY <2>0 DEF Listed
      <3>2. p[m].word \o <<>> = p[m].word
        <4>1. p[m].word \in Seq(V)
          BY <2>0 DEF Entries, EFields
        <4> QED BY <4>1
      <3> QED BY <2>0, <2>3, <3>1, <3>2 DEF Listed
    <2>5. Len(t.printed) = m /\ \A k \in 1 .. m : t.printed[k] = IF k = m THEN e ELSE p[k]
      BY <1>3, <2>2, <2>3, LastIs DEF m
    <2>6. \A k \in 1 .. m : Listed(t.printed[k], k, mem, w[k][1], w[k][2], FALSE /\ k = m)
      BY <1>2, <1>11, <1>12, <2>4, <2>5
    <2>7. Lasts(t, w, mem, len, j)
      BY <1>5, <1>12, <2>2 DEF Lasts, c, Blank
    <2>8. \A k \in 1 .. m : Listed(t.printed[k], k, mem, w[k][1], w[k][2],
                                   t.word_start /\ k = m)
      BY <2>2, <2>6
    <2>9. PrintsTo(t, w, mem, len, j)
      BY <1>2, <2>1, <2>5, <2>7, <2>8 DEF PrintsTo, Blank
    <2> QED BY <2>9 DEF t, j
  <1>13. CASE s.word_start /\ c # " "
    <2>0. /\ m > 0 /\ w[m][2] = i /\ s.wlen = i - w[m][1] + 1 /\ m \in 1 .. m
          /\ p[m] \in Entries(V) /\ w[m][1] \in Nat /\ 1 <= w[m][1] /\ w[m][1] <= i
          /\ i > 0 /\ mem[i] \notin Blank /\ Listed(p[m], m, mem, w[m][1], i, TRUE)
      BY <1>10, <1>13
    <2> DEFINE v == [w EXCEPT ![m] = <<@[1], j>>]
               f == w[m][1]
               e == Printed(p[m], <<c>>, j = len, s.wlen + 1)
    <2>1. Enumerates(v, mem, Blank, j)
      <3>1. i > 0 /\ mem[i] \notin Blank /\ mem[i + 1] \notin Blank
        BY <1>5, <1>13, <2>0 DEF c, j
      <3>2. Enumerates([w EXCEPT ![Len(w)] = <<@[1], i + 1>>], mem, Blank, i + 1)
        BY <1>1, <1>2, <3>1, EnumerateMore
      <3> QED BY <1>2, <3>2 DEF j
    <2>2. /\ Len(v) = m /\ v[m][1] = f /\ v[m][2] = j
          /\ \A k \in 1 .. m : k # m => v[k] = w[k]
      <3>1. m \in 1 .. m /\ w \in [1 .. m -> Nat \X Nat]
        <4>1. w \in Seq(Nat \X Nat) /\ Len(w) = m
          BY <1>2, <1>4
        <4> QED BY <2>0, <4>1
      <3>2. v[m] = <<f, j>>
        BY <3>1
      <3>3. DOMAIN v = 1 .. m
        BY <3>1
      <3>4. Len(v) = m
        BY <1>3, <3>3
      <3>5. \A k \in 1 .. m : k # m => v[k] = w[k]
        BY <3>1
      <3> HIDE DEF v, f
      <3> QED BY <3>2, <3>4, <3>5
    <2>3. /\ t.word_start = (j # len) /\ t.wlen = (IF j = len THEN 0 ELSE s.wlen + 1)
          /\ t.printed = [p EXCEPT ![m] = e]
      BY <1>6, <1>13
    <2>4. /\ e \in Entries(V) /\ e.n = p[m].n /\ e.word = p[m].word \o <<c>>
          /\ e.len = IF j = len THEN s.wlen + 1 ELSE p[m].len
      <3> DEFINE a == <<c>>
                 ends == j = len
                 l == s.wlen + 1
      <3>1. a \in Seq(V) /\ ends \in BOOLEAN /\ l \in Nat
        BY <1>1, <1>3
      <3> HIDE DEF a, ends, l
      <3>2. /\ Printed(p[m], a, ends, l) \in Entries(V)
            /\ Longer(Printed(p[m], a, ends, l), p[m], a, ends, l)
        BY <2>0, <3>1, PrintedIs
      <3> QED BY <3>2 DEF Longer, a, ends, l
    <2> HIDE DEF e, v
    <2>5. Listed(e, m, mem, v[m][1], v[m][2], j # len)
      <3>1. p[m].n = m /\ p[m].word = SubSeq(mem, f, i) /\ p[m].len = 0
        BY <2>0 DEF Listed
      <3>2. SubSeq(mem, f, i) \o <<c>> = SubSeq(mem, f, j)
        <4> DEFINE a == SubSeq(mem, f, i)
                   b == SubSeq(mem, f, j)
                   ac == a \o <<c>>
        <4>1. /\ mem \in Seq(V) /\ f \in Nat /\ i \in Nat /\ j \in Nat /\ 1 <= f /\ f <= i + 1
              /\ f <= j + 1 /\ i <= Len(mem) /\ j <= Len(mem) /\ j - f + 1 = (i - f + 1) + 1
              /\ f + (j - f + 1) - 1 = j /\ i - f + 1 \in Nat
          <5>1. /\ mem \in Seq(V) /\ f \in Nat /\ 1 <= f /\ f <= i
                /\ i \in Nat /\ j = i + 1 /\ j <= Len(mem) /\ Len(mem) \in Nat
            BY <1>1, <2>0
          <5> HIDE DEF f, j
          <5> QED BY ONLY <5>1
        <4> HIDE DEF f
        <4>2. /\ a \in Seq(V) /\ Len(a) = i - f + 1
              /\ \A k \in 1 .. i - f + 1 : a[k] = mem[f + k - 1]
          BY ONLY <4>1, Part
        <4>3. /\ b \in Seq(V) /\ Len(b) = j - f + 1
              /\ \A k \in 1 .. j - f + 1 : b[k] = mem[f + k - 1]
          BY ONLY <4>1, Part
        <4> DEFINE l == i - f + 1
                   one == <<c>>
        <4>4. one \in Seq(V) /\ Len(one) = 1 /\ one[1] = c
          BY <1>1
        <4> HIDE DEF a, b, l, one
        <4>5. /\ a \o one \in Seq(V) /\ Len(a \o one) = Len(a) + Len(one)
              /\ \A k \in 1 .. Len(a) : (a \o one)[k] = a[k]
              /\ \A k \in 1 .. Len(one) : (a \o one)[Len(a) + k] = one[k]
          <5>1. a \in Seq(V) /\ one \in Seq(V)
            BY <4>2, <4>4
          <5> QED BY ONLY <5>1, Concat
        <4>6. l \in Nat /\ Len(a) = l /\ j - f + 1 = l + 1 /\ f + (l + 1) - 1 = j
          BY <4>1, <4>2 DEF l
        <4>7. \A k \in 1 .. l + 1 : (a \o one)[k] = b[k]
          <5> SUFFICES ASSUME NEW k \in 1 .. l + 1
                       PROVE  (a \o one)[k] = b[k]
            OBVIOUS
          <5>1. b[k] = mem[f + k - 1]
            BY <4>3, <4>6
          <5>2. CASE k \in 1 .. l
            BY <4>2, <4>5, <4>6, <5>1, <5>2 DEF l
          <5>3. CASE k = l + 1
            <6>1. 1 \in 1 .. Len(one)
              BY <4>4
            <6>2. (a \o one)[l + 1] = c
              BY <4>4, <4>5, <4>6, <6>1
            <6> QED BY <4>6, <5>1, <5>3, <6>2 DEF c
          <5>4. k \in 1 .. l \/ k = l + 1
            BY <4>6
          <5> QED BY <5>2, <5>3, <5>4
        <4>8. Len(a \o one) = l + 1 /\ Len(b) = l + 1
          BY <4>3, <4>4, <4>5, <4>6
        <4>9. a \o one = b
          BY <4>3, <4>5, <4>7, <4>8, Same
        <4> QED BY <4>9 DEF a, b, one
      <3>3. s.wlen + 1 = j - f + 1
        BY <1>1, <2>0 DEF j, f
      <3>4. e.len = IF j # len THEN 0 ELSE j - f + 1
        BY <2>4, <3>1, <3>3
      <3> QED BY <2>2, <2>4, <3>1, <3>2, <3>4 DEF Listed
    <2>6. Len(t.printed) = m /\ \A k \in 1 .. m : t.printed[k] = IF k = m THEN e ELSE p[k]
      BY <1>3, <2>3, <2>4, LastIs DEF m
    <2>7. \A k \in 1 .. m : Listed(t.printed[k], k, mem, v[k][1], v[k][2],
                                   (j # len) /\ k = m)
      BY <1>11, <1>13, <2>2, <2>5, <2>6
    <2>8. Lasts(t, v, mem, len, j)
      <3>1. f < j /\ s.wlen + 1 = j - f + 1
        BY <1>1, <2>0 DEF j
      <3> HIDE DEF f
      <3> QED BY <2>0, <2>2, <2>3, <3>1 DEF Lasts
    <2>9. \A k \in 1 .. m : Listed(t.printed[k], k, mem, v[k][1], v[k][2],
                                   t.word_start /\ k = m)
      BY <2>3, <2>7
    <2>10. PrintsTo(t, v, mem, len, j)
      BY <2>1, <2>2, <2>6, <2>8, <2>9 DEF PrintsTo, Blank
    <2> QED BY <2>10 DEF t, j
  <1> QED BY <1>3, <1>8, <1>9, <1>12, <1>13

LEMMA PrintsWords ==
    ASSUME NEW V, NEW mem \in Seq(V), NEW len \in Nat, len <= Len(mem)
    PROVE  \E w : PrintsTo(Prints(mem, len, len), w, mem, len, len)
  <1> DEFINE T == {i \in 0 .. len : \E w : PrintsTo(Prints(mem, len, i), w, mem, len, i)}
  <1>0. \A i \in 1 .. len : mem[i] \in V
    OBVIOUS
  <1>1. /\ Prints(mem, len, 0) = Begun
        /\ \A k \in 1 .. len : Prints(mem, len, k)
                               = PrintCell(mem, len, Prints(mem, len, k - 1), k)
        /\ \A k \in 0 .. len : Prints(mem, len, k) \in Printing(V)
    BY <1>0, PrintsSteps
  <1>2. 0 \in T
    <2>1. Lasts(Begun, <<>>, mem, len, 0)
      BY DEF Lasts, Begun
    <2>2. Len(Begun.printed) = 0 /\ Len(<<>>) = 0
      BY DEF Begun
    <2>3. Enumerates(<<>>, mem, {" "}, 0)
      BY EnumerateNone
    <2>4. \A k \in 1 .. 0 : FALSE
      OBVIOUS
    <2>5. PrintsTo(Begun, <<>>, mem, len, 0)
      BY <2>1, <2>2, <2>3, <2>4, Zenon DEF PrintsTo
    <2> QED BY <1>1, <2>5
  <1>3. ASSUME NEW k \in 1 .. len, k - 1 \in T
        PROVE  k \in T
    <2> DEFINE i == k - 1
               s == Prints(mem, len, i)
    <2>1. PICK w : PrintsTo(s, w, mem, len, i)
      BY <1>3
    <2>2. i \in 0 .. len - 1 /\ i \in 0 .. len /\ i + 1 = k /\ k \in 0 .. len
      OBVIOUS
    <2>3. s \in Printing(V) /\ Prints(mem, len, k) = PrintCell(mem, len, s, k)
      BY <1>1, <2>2
    <2> HIDE DEF i, s
    <2>4. \E v : PrintsTo(PrintCell(mem, len, s, i + 1), v, mem, len, i + 1)
      BY <2>1, <2>2, <2>3, PrintsMore
    <2> QED BY <2>2, <2>3, <2>4
  <1> HIDE DEF T
  <1>4. 0 .. len \subseteq T
    BY <1>2, <1>3, UpTo
  <1> QED BY <1>4 DEF T

LEMMA WordsPrint == RunInv => WordsArePrinted
  <1> DEFINE words == WordsOf(Cells)
             entry(k) == LET i == words[k][1]
                             j == words[k][2]
                         IN [n |-> k, word |-> SubSeq(Cells, i, j),
                             len |-> IF i = j /\ j = Length THEN 0 ELSE j - i + 1]
  <1> SUFFICES ASSUME RunInv, Ran("w")
               PROVE  first.words = [k \in DOMAIN words |-> entry(k)]
    BY Zenon DEF WordsArePrinted
  <1>1. first # NotRun /\ first.exit = 0 /\ typed.flag.opt = "w" /\ Fits
    BY Zenon DEF Ran
  <1>2. typed.args # <<>>
        /\ first = Operation("w", typed.args, Memory, setup_buff(Str).rc)
    BY <1>1, RanIs
  <1>3. /\ Memory = Prepared /\ setup_buff(Str).rc = Length /\ Prepared \in Seq(Values)
        /\ Length \in Nat /\ Length <= Len(Prepared)
    BY <1>1, <1>2, PreparedIs
  <1> DEFINE s == Prints(Prepared, Length, Length)
             p == s.printed
  <1>4. first.words = p
    <2>1. first = [[exit |-> 0, rc |-> 0, words |-> <<>>, mem |-> Prepared] EXCEPT
                     !.words = p]
      BY <1>2, <1>3, Zenon DEF Operation, word_print
    <2> HIDE DEF p
    <2> QED BY <2>1
  <1>5. s \in Printing(Values)
    <2>1. \A i \in 1 .. Length : Prepared[i] \in Values
      BY <1>3
    <2>2. Length \in 0 .. Length
      BY <1>3
    <2> QED BY <1>3, <2>1, <2>2, PrintsSteps
  <1>6. PICK w : PrintsTo(s, w, Prepared, Length, Length)
    BY <1>3, PrintsWords
  <1> HIDE DEF s
  <1>7. p \in Seq(Entries(Values)) /\ s.word_start \in BOOLEAN
    <2> DEFINE X == Seq(Entries(Values))
    <2>1. s \in PFields(X)
      BY <1>5 DEF Printing
    <2> HIDE DEF X
    <2>2. s.word_start \in BOOLEAN /\ p \in X
      BY <2>1 DEF PFields
    <2> QED BY <2>2 DEF X
  <1> HIDE DEF p
  <1>8. /\ Enumerates(w, Prepared, {" "}, Length) /\ Len(p) = Len(w)
        /\ \A k \in 1 .. Len(w) : Listed(p[k], k, Prepared, w[k][1], w[k][2],
                                         s.word_start /\ k = Len(w))
        /\ Lasts(s, w, Prepared, Length, Length)
    BY <1>6 DEF PrintsTo, p
  <1>9. /\ w \in Seq(Nat \X Nat) /\ Len(w) \in Nat
        /\ \A k \in 1 .. Len(w) : /\ w[k][1] \in Nat /\ w[k][2] \in Nat /\ 1 <= w[k][1]
                                  /\ w[k][1] <= w[k][2] /\ w[k][2] <= Length
    BY <1>3, <1>8, MembersAre
  <1>10. /\ Cells \in Seq(Values) /\ Len(Cells) = Length
         /\ \A c \in 1 .. Length : Cells[c] = Prepared[c]
    <2>1. 1 \in Nat /\ 1 <= 1 /\ 1 <= Length + 1 /\ Length - 1 + 1 = Length
          /\ \A c \in 1 .. Length : 1 + c - 1 = c
      BY <1>3
    <2>2. /\ SubSeq(Prepared, 1, Length) \in Seq(Values)
          /\ Len(SubSeq(Prepared, 1, Length)) = Length - 1 + 1
          /\ \A c \in 1 .. Length - 1 + 1 : SubSeq(Prepared, 1, Length)[c] = Prepared[1 + c - 1]
      BY ONLY <1>3, <2>1, Part
    <2> DEFINE c1 == SubSeq(Prepared, 1, Length)
    <2> HIDE DEF c1
    <2>3. c1 \in Seq(Values) /\ Len(c1) = Length /\ \A c \in 1 .. Length : c1[c] = Prepared[c]
      BY <2>1, <2>2 DEF c1
    <2> QED BY <2>3 DEF c1, Cells
  <1> DEFINE Blank == {" "}
  <1> HIDE DEF Blank
  <1>11. Enumerates(w, Cells, Blank, Len(Cells))
    <2>1. Enumerates(w, Prepared, Blank, Length)
      BY <1>8 DEF Blank
    <2>2. \A c \in 1 .. Length : Cells[c] \in Blank <=> Prepared[c] \in Blank
      BY <1>10
    <2>3. ASSUME NEW k \in 1 .. Len(w)
          PROVE  /\ 1 <= w[k][1] /\ w[k][1] <= w[k][2] /\ w[k][2] <= Length
                 /\ \A i \in w[k][1] .. w[k][2] : Cells[i] \notin Blank
                 /\ w[k][1] > 1 => Cells[w[k][1] - 1] \in Blank
                 /\ w[k][2] < Length => Cells[w[k][2] + 1] \in Blank
      <3> DEFINE f == w[k][1]
                 l == w[k][2]
      <3>1. /\ f \in Nat /\ l \in Nat /\ 1 <= f /\ f <= l /\ l <= Length
            /\ \A i \in f .. l : Prepared[i] \notin Blank
            /\ f > 1 => Prepared[f - 1] \in Blank
            /\ l < Length => Prepared[l + 1] \in Blank
        BY <1>9, <2>1 DEF Enumerates
      <3> HIDE DEF f, l
      <3>2. \A i \in f .. l : i \in 1 .. Length
        BY <1>3, <3>1
      <3>3. (f > 1 => f - 1 \in 1 .. Length) /\ (l < Length => l + 1 \in 1 .. Length)
        BY <1>3, <3>1
      <3>4. /\ 1 <= f /\ f <= l /\ l <= Length
            /\ \A i \in f .. l : Cells[i] \notin Blank
            /\ f > 1 => Cells[f - 1] \in Blank
            /\ l < Length => Cells[l + 1] \in Blank
        BY <2>2, <3>1, <3>2, <3>3
      <3> QED BY <3>4 DEF f, l
    <2>4. /\ \A i, j \in 1 .. Len(w) : i < j => w[i][2] < w[j][1]
          /\ \A c \in 1 .. Length : Cells[c] \notin Blank =>
               \E k \in 1 .. Len(w) : w[k][1] <= c /\ c <= w[k][2]
      BY <2>1, <2>2 DEF Enumerates
    <2>5. Enumerates(w, Cells, Blank, Length)
      BY <1>9, <2>3, <2>4 DEF Enumerates
    <2> QED BY <1>10, <2>5
  <1>12. words = w
    <2>1. Pieces(Cells, Blank) = w
      BY <1>10, <1>11, PiecesAre
    <2> QED BY <2>1 DEF WordsOf, Blank
  \* A word has no length when it is the letter that ends the cells.
  <1>13. ASSUME NEW k \in 1 .. Len(w)
         PROVE  (s.word_start /\ k = Len(w)) <=> (w[k][1] = w[k][2] /\ w[k][2] = Length)
    <2>1. CASE s.word_start /\ k = Len(w)
      <3>1. w[k][2] = Length /\ w[k][1] = Length
        BY <1>8, <2>1 DEF Lasts
      <3> QED BY <2>1, <3>1
    <2>2. CASE k # Len(w)
      <3> DEFINE m == Len(w)
      <3>1. m \in 1 .. m /\ k < m
        BY <1>9, <2>2
      <3>2. w[k][2] < w[m][1] /\ w[m][1] <= w[m][2] /\ w[m][2] <= Length
        BY <1>8, <1>9, <3>1 DEF Enumerates
      <3>3. w[k][2] # Length
        BY <1>3, <1>9, <3>1, <3>2
      <3> QED BY <2>2, <3>3
    <2>3. CASE ~s.word_start /\ k = Len(w)
      <3> SUFFICES ASSUME w[k][1] = w[k][2], w[k][2] = Length
                   PROVE  FALSE
        BY <2>3
      <3>1. Length > 0 /\ Length \in w[k][1] .. w[k][2]
        BY <1>3, <1>9
      <3>2. Prepared[Length] \notin {" "}
        BY <1>8, <3>1 DEF Enumerates
      <3>3. w[k][1] < Length
        BY <1>8, <2>3, <3>1, <3>2 DEF Lasts
      <3> QED BY <1>3, <1>9, <3>3
    <2> QED BY <2>1, <2>2, <2>3
  <1>14. \A k \in 1 .. Len(w) : p[k] = entry(k)
    <2> SUFFICES ASSUME NEW k \in 1 .. Len(w)
                 PROVE  p[k] = entry(k)
      OBVIOUS
    <2> DEFINE f == w[k][1]
               l == w[k][2]
               e == p[k]
               at == SubSeq(Cells, f, l)
               long == IF f = l /\ l = Length THEN 0 ELSE l - f + 1
    <2>1. f \in Nat /\ l \in Nat /\ 1 <= f /\ f <= l /\ l <= Length
      BY <1>9
    <2>2. Listed(e, k, Prepared, f, l, f = l /\ l = Length)
      <3>1. Listed(e, k, Prepared, f, l, s.word_start /\ k = Len(w))
        BY <1>8
      <3> HIDE DEF e
      <3> QED BY <1>13, <3>1 DEF Listed
    <2>3. e \in Entries(Values)
      <3>1. Len(p) = Len(w) /\ p \in Seq(Entries(Values))
        BY <1>7, <1>8
      <3> QED BY <3>1
    <2>4. entry(k) = [n |-> k, word |-> at, len |-> long]
      BY <1>12
    <2>5. SubSeq(Prepared, f, l) = at
      <3>1. /\ 1 \in Nat /\ 1 <= 1 /\ 1 <= Length + 1 /\ f <= l + 1 /\ l <= Length - 1 + 1
            /\ 1 + f - 1 = f /\ 1 + l - 1 = l
        BY <1>3, <2>1
      <3> HIDE DEF f, l
      <3>2. SubSeq(SubSeq(Prepared, 1, Length), f, l)
            = SubSeq(Prepared, 1 + f - 1, 1 + l - 1)
        BY <1>3, <2>1, <3>1, PartOfPart
      <3> QED BY <3>1, <3>2 DEF Cells
    <2> HIDE DEF f, l, at, e
    <2>6. e.n = k /\ e.word = at /\ e.len = long
      BY <2>2, <2>5 DEF Listed
    <2> HIDE DEF long
    <2>7. e = [n |-> e.n, word |-> e.word, len |-> e.len]
      BY <2>3 DEF Entries, EFields
    <2>8. e = [n |-> k, word |-> at, len |-> long]
      BY <2>6, <2>7
    <2> HIDE DEF entry
    <2> QED BY <2>4, <2>8 DEF e
  <1>15. p = [k \in 1 .. Len(w) |-> p[k]] /\ DOMAIN w = 1 .. Len(w)
    <2>1. Len(p) = Len(w) /\ p \in Seq(Entries(Values)) /\ w \in Seq(Nat \X Nat)
      BY <1>7, <1>8, <1>9
    <2> QED BY <2>1
  <1> HIDE DEF entry, words
  <1>16. p = [k \in 1 .. Len(w) |-> entry(k)]
    BY <1>14, <1>15
  <1> QED BY <1>4, <1>12, <1>15, <1>16

\* -w prints the words in order, numbered, each with its length.
THEOREM TheWordsArePrinted == Spec => []WordsArePrinted
  BY RunInvariant, WordsPrint, PTL
=============================================================================
