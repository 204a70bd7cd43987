------------------------ MODULE ShellVersions_proofs ------------------------
(***************************************************************************)
(* Proofs about the first two shells, for any lines, any limits on         *)
(* commands, names and arguments, and with fork() failing.                 *)
(***************************************************************************)
EXTENDS ShellVersions, Recursion
----------------------------------------------------------------------------
(* build_cmd_buff() of the second shell. *)

Chars == Typeable \cup {NUL}
Texts == Seq(Chars)

\* The states of its loop over a text of n cells.
Fields(X, Y, Z) == [buffer : X, argv : Y, in_quotes : BOOLEAN,
                    in_token : BOOLEAN, arg_start : Z]
States(n) == Fields([1 .. n + 1 -> Chars], Seq(1 .. n + 1), 1 .. n + 1)

Start(text) == [buffer |-> Append(text, NUL), argv |-> <<>>,
                in_quotes |-> FALSE, in_token |-> FALSE, arg_start |-> 1]

LEMMA StartType ==
    ASSUME NEW text \in Texts
    PROVE  Start(text) \in States(Len(text))
  <1>1. NUL \in Chars
    BY DEF Chars
  <1>2. Append(text, NUL) \in [1 .. Len(text) + 1 -> Chars]
    <2> DEFINE s == Append(text, NUL)
    <2>1. s \in Seq(Chars) /\ Len(s) = Len(text) + 1
      BY <1>1 DEF Texts
    <2> HIDE DEF s
    <2>2. s \in [1 .. Len(s) -> Chars]
      BY <2>1
    <2> QED BY <2>1, <2>2 DEF s
  <1> QED BY <1>2 DEF Start, States, Fields, Texts

LEMMA EndTokenType ==
    ASSUME NEW n \in Nat, NEW s \in States(n), NEW i \in 1 .. n
    PROVE  /\ B!EndToken(s, i) \in States(n)
           /\ B!EndToken(s, i) = [s EXCEPT !.buffer = [s.buffer EXCEPT ![i] = NUL],
                                     !.in_token = FALSE,
                                     !.argv = Append(s.argv, s.arg_start)]
  <1>1. [s.buffer EXCEPT ![i] = NUL] \in [1 .. n + 1 -> Chars]
    BY DEF States, Fields, Chars
  <1>2. Append(s.argv, s.arg_start) \in Seq(1 .. n + 1)
    BY DEF States, Fields
  <1>3. B!EndToken(s, i) = [s EXCEPT !.buffer = [s.buffer EXCEPT ![i] = NUL],
                                     !.in_token = FALSE,
                                     !.argv = Append(s.argv, s.arg_start)]
    BY DEF B!EndToken, B!NUL, NUL
  <1> QED BY <1>1, <1>2, <1>3 DEF States, Fields

\* The updates of a state, whatever sets its fields are from.
LEMMA Updates ==
    ASSUME NEW X, NEW Y, NEW Z, NEW s \in Fields(X, Y, Z), NEW a \in Z
    PROVE  /\ [s EXCEPT !.in_quotes = FALSE] \in Fields(X, Y, Z)
           /\ [s EXCEPT !.in_quotes = TRUE] \in Fields(X, Y, Z)
           /\ [s EXCEPT !.in_token = TRUE, !.arg_start = a] \in Fields(X, Y, Z)
           /\ [s EXCEPT !.in_quotes = ~@, !.in_token = TRUE, !.arg_start = a]
                 \in Fields(X, Y, Z)
  BY DEF Fields

LEMMA CellType ==
    ASSUME NEW n \in Nat, NEW s \in States(n), NEW i \in 1 .. n
    PROVE  B!Cell(s, i) \in States(n)
  <1>1. B!EndToken(s, i) \in States(n)
    BY EndTokenType
  <1>2. i \in 1 .. n + 1 /\ i + 1 \in 1 .. n + 1
    OBVIOUS
  <1>3. \A X, Y, Z : \A r \in Fields(X, Y, Z), a \in Z :
          /\ [r EXCEPT !.in_quotes = FALSE] \in Fields(X, Y, Z)
          /\ [r EXCEPT !.in_quotes = TRUE] \in Fields(X, Y, Z)
          /\ [r EXCEPT !.in_token = TRUE, !.arg_start = a] \in Fields(X, Y, Z)
          /\ [r EXCEPT !.in_quotes = ~@, !.in_token = TRUE, !.arg_start = a]
                 \in Fields(X, Y, Z)
    BY Updates, Zenon
  <1>4. /\ [B!EndToken(s, i) EXCEPT !.in_quotes = FALSE] \in States(n)
        /\ [s EXCEPT !.in_quotes = TRUE] \in States(n)
        /\ [s EXCEPT !.in_token = TRUE, !.arg_start = i] \in States(n)
        /\ [s EXCEPT !.in_quotes = ~@, !.in_token = TRUE, !.arg_start = i + 1]
             \in States(n)
    BY <1>1, <1>2, <1>3, Zenon DEF States
  <1>5. B!Quote(s, i) \in States(n)
    BY <1>4, Zenon DEF B!Quote
  <1> QED BY <1>1, <1>4, <1>5, Zenon DEF B!Cell

\* What the loop body does to a state, and when.
Begins(s, t, start) == /\ t.buffer = s.buffer /\ t.argv = s.argv
                       /\ t.in_token = TRUE /\ t.arg_start = start
Ends(s, t, i) == /\ t.buffer = [s.buffer EXCEPT ![i] = NUL]
                 /\ t.argv = Append(s.argv, s.arg_start)
                 /\ t.in_token = FALSE /\ t.in_quotes = FALSE

LEMMA CellSkips ==
    ASSUME NEW s, NEW i,
           \/ B!Full(Len(s.argv))
           \/ s.buffer[i] \in B!isspace /\ ~s.in_token /\ ~s.in_quotes
           \/ /\ s.in_token /\ s.buffer[i] # B!QUOTE
              /\ s.buffer[i] \notin B!isspace \/ s.in_quotes
    PROVE  B!Cell(s, i) = s
  BY Zenon DEF B!Cell, B!QUOTE, B!isspace

LEMMA CellBegins ==
    ASSUME NEW n \in Nat, NEW s \in States(n), NEW i \in 1 .. n,
           ~B!Full(Len(s.argv)), ~s.in_token, ~s.in_quotes
    PROVE  /\ s.buffer[i] \notin B!isspace \cup {B!QUOTE} =>
                Begins(s, B!Cell(s, i), i) /\ B!Cell(s, i).in_quotes = FALSE
           /\ s.buffer[i] = B!QUOTE =>
                Begins(s, B!Cell(s, i), i + 1) /\ B!Cell(s, i).in_quotes = TRUE
  <1>1. CASE s.buffer[i] = B!QUOTE
    <2>1. B!Cell(s, i) = [s EXCEPT !.in_quotes = ~@, !.in_token = TRUE,
                                   !.arg_start = i + 1]
      BY <1>1 DEF B!Cell, B!Quote
    <2>2. s.in_quotes = FALSE
      BY DEF States, Fields
    <2> QED BY <1>1, <2>1, <2>2 DEF Begins, States, Fields
  <1>2. CASE s.buffer[i] \notin B!isspace \cup {B!QUOTE}
    <2>1. B!Cell(s, i) = [s EXCEPT !.in_token = TRUE, !.arg_start = i]
      BY <1>2 DEF B!Cell
    <2>2. s.in_quotes = FALSE
      BY DEF States, Fields
    <2> QED BY <1>2, <2>1, <2>2 DEF Begins, States, Fields
  <1> QED BY <1>1, <1>2

LEMMA CellEnds ==
    ASSUME NEW n \in Nat, NEW s \in States(n), NEW i \in 1 .. n,
           ~B!Full(Len(s.argv)), s.in_token,
           \/ s.in_quotes /\ s.buffer[i] = B!QUOTE
           \/ ~s.in_quotes /\ s.buffer[i] \in B!isspace
    PROVE  Ends(s, B!Cell(s, i), i)
  <1>1. B!EndToken(s, i) \in States(n) /\ s.in_quotes \in BOOLEAN
    BY EndTokenType DEF States, Fields
  <1>2. CASE s.in_quotes /\ s.buffer[i] = B!QUOTE
    <2>1. B!Cell(s, i) = [B!EndToken(s, i) EXCEPT !.in_quotes = FALSE]
      BY <1>2, Zenon DEF B!Cell, B!Quote
    <2> DEFINE e == B!EndToken(s, i)
    <2>5. e = [s EXCEPT !.buffer = [s.buffer EXCEPT ![i] = NUL],
                        !.in_token = FALSE, !.argv = Append(s.argv, s.arg_start)]
      BY EndTokenType
    <2> HIDE DEF e
    <2>2. /\ e.buffer = [s.buffer EXCEPT ![i] = NUL]
          /\ e.argv = Append(s.argv, s.arg_start) /\ e.in_token = FALSE
      BY <2>5 DEF States, Fields
    <2>3. e \in States(n)
      BY <1>1 DEF e
    <2>4. LET t == [e EXCEPT !.in_quotes = FALSE]
          IN /\ t.buffer = e.buffer /\ t.argv = e.argv /\ t.in_token = e.in_token
             /\ t.in_quotes = FALSE
      BY <2>3 DEF States, Fields
    <2> QED BY <2>1, <2>2, <2>4 DEF Ends, e
  <1>3. CASE ~s.in_quotes /\ s.buffer[i] \in B!isspace
    <2>1. s.buffer[i] # B!QUOTE
      BY <1>3 DEF B!isspace, B!QUOTE
    <2>2. B!Cell(s, i) = B!EndToken(s, i)
      BY <1>3, <2>1, Zenon DEF B!Cell
    <2>3. B!EndToken(s, i) = [s EXCEPT !.buffer = [s.buffer EXCEPT ![i] = NUL],
                                     !.in_token = FALSE,
                                     !.argv = Append(s.argv, s.arg_start)]
      BY EndTokenType
    <2>4. s.in_quotes = FALSE
      BY <1>1, <1>3
    <2> QED BY <2>2, <2>3, <2>4 DEF Ends, States, Fields
  <1> QED BY <1>2, <1>3

LEMMA CellQuotes ==
    ASSUME NEW n \in Nat, NEW s \in States(n), NEW i \in 1 .. n,
           ~B!Full(Len(s.argv)), s.in_token, ~s.in_quotes, s.buffer[i] = B!QUOTE
    PROVE  B!Cell(s, i) = [s EXCEPT !.in_quotes = TRUE]
  BY Zenon DEF B!Cell, B!Quote

\* The loop as a function of the cells it has seen.
LEMMA ScanSteps ==
    ASSUME NEW text \in Texts
    PROVE  /\ B!Scan(text, 0) = Start(text)
           /\ \A k \in 0 .. Len(text) : B!Scan(text, k) \in States(Len(text))
           /\ \A k \in 1 .. Len(text) :
                B!Scan(text, k) = B!Cell(B!Scan(text, k - 1), k)
  <1> DEFINE n == Len(text)
             S == States(n)
             step == [p \in (1 .. n) \X S |-> B!Cell(p[2], p[1])]
             Scans(f) == f = [k \in 0 .. n |-> IF k = 0 THEN Start(text)
                                               ELSE B!Cell(f[k - 1], k)]
             scan == CHOOSE f : Scans(f)
  <1>1. n \in Nat /\ Start(text) \in S
    BY StartType DEF Texts
  <1>2. step \in [(1 .. n) \X S -> S]
    BY <1>1, CellType
  <1>3. \A k \in 1 .. n, s \in S : step[<<k, s>>] = B!Cell(s, k)
    OBVIOUS
  <1>4. \A k : B!Scan(text, k) = scan[k]
    BY DEF B!Scan, Start, B!NUL, NUL
  <1> HIDE DEF step, S
  <1>5. PICK f \in [0 .. n -> S] : Follows(f, n, Start(text), step)
    BY <1>1, <1>2, Recursive
  <1>6. Scans(f)
    <2>1. \A k \in 1 .. n : f[k] = B!Cell(f[k - 1], k)
      <3> SUFFICES ASSUME NEW k \in 1 .. n
                   PROVE  f[k] = B!Cell(f[k - 1], k)
        OBVIOUS
      <3>1. k - 1 \in 0 .. n /\ f[k - 1] \in S
        BY <1>1
      <3> QED BY <1>3, <1>5, <3>1 DEF Follows
    <2>2. \A k \in 0 .. n : k # 0 => k \in 1 .. n
      BY <1>1
    <2>3. f[0] = Start(text)
      BY <1>5 DEF Follows
    <2> QED BY <2>1, <2>2, <2>3
  <1>7. Scans(scan)
    <2> HIDE DEF Scans
    <2> QED BY <1>6
  <1> HIDE DEF scan
  <1>8. scan[0] = Start(text)
    BY <1>1, <1>7
  <1>9. \A k \in 1 .. n : scan[k] = B!Cell(scan[k - 1], k)
    <2> SUFFICES ASSUME NEW k \in 1 .. n
                 PROVE  scan[k] = B!Cell(scan[k - 1], k)
      OBVIOUS
    <2>1. k \in 0 .. n /\ k # 0
      BY <1>1
    <2> QED BY <1>7, <2>1, Zenon
  <1> DEFINE T == {k \in 0 .. n : scan[k] \in S}
  <1>10. 0 \in T
    BY <1>1, <1>8
  <1>11. ASSUME NEW k \in 1 .. n, k - 1 \in T
         PROVE  k \in T
    <2>1. scan[k] = B!Cell(scan[k - 1], k) /\ scan[k - 1] \in S
      BY <1>9, <1>11
    <2>2. scan[k] \in S
      BY <1>1, <2>1, CellType DEF S
    <2> QED BY <2>2
  <1> HIDE DEF T
  <1>12. 0 .. n \subseteq T
    BY <1>1, <1>10, <1>11, UpTo
  <1>13. \A k \in 0 .. n : scan[k] \in S
    BY <1>12 DEF T
  <1> QED BY <1>4, <1>8, <1>9, <1>13 DEF S

\* Arguments that begin at these cells each have a terminator before the next
\* one begins, and up to a cell.
Apart(b, a, last) == \A j \in 1 .. Len(a) :
    \E e \in a[j] .. last : b[e] = NUL /\ (j < Len(a) => e < a[j + 1])

\* What holds of the loop when it has seen the first k cells of a text.
InLoop(text, s, k) ==
    /\ s.in_quotes => s.in_token
    /\ s.in_token => ~B!Full(Len(s.argv)) /\ s.arg_start <= k + 1
    /\ Len(s.argv) < CMD_ARGV_MAX
    /\ s.buffer[Len(text) + 1] = NUL
    /\ \A i \in k + 1 .. Len(text) : s.buffer[i] = text[i]
    /\ s.in_token  => Apart(s.buffer, s.argv, s.arg_start - 1)
    /\ ~s.in_token => Apart(s.buffer, s.argv, k)
    /\ k > 0 /\ text[1] \notin B!isspace => s.in_token \/ s.argv # <<>>

LEMMA ApartGrows ==
    ASSUME NEW b, NEW a, NEW m \in Int, NEW last \in Int, m <= last,
           \A j \in 1 .. Len(a) : a[j] \in Int, Apart(b, a, m)
    PROVE  Apart(b, a, last)
  BY DEF Apart

LEMMA ApartEnds ==
    ASSUME NEW n \in Nat, NEW b \in [1 .. n + 1 -> Chars], NEW a \in Seq(1 .. n + 1),
           NEW start \in 1 .. n + 1, NEW i \in 1 .. n + 1, start <= i,
           Apart(b, a, start - 1)
    PROVE  Apart([b EXCEPT ![i] = NUL], Append(a, start), i)
  <1> DEFINE c == [b EXCEPT ![i] = NUL]
             d == Append(a, start)
  <1>1. /\ \A e \in 1 .. n + 1 : b[e] = NUL => c[e] = NUL
        /\ c[i] = NUL
    OBVIOUS
  <1>2. /\ Len(d) = Len(a) + 1 /\ Len(a) \in Nat /\ d[Len(d)] = start
        /\ \A j \in 1 .. Len(a) : d[j] = a[j] /\ a[j] \in 1 .. n + 1
    OBVIOUS
  <1> HIDE DEF c, d
  <1> SUFFICES ASSUME NEW j \in 1 .. Len(d)
               PROVE  \E e \in d[j] .. i : c[e] = NUL /\ (j < Len(d) => e < d[j + 1])
    BY DEF Apart, c, d
  <1>3. CASE j = Len(d)
    BY <1>1, <1>2, <1>3
  <1>4. CASE j \in 1 .. Len(a)
    <2>1. PICK e \in a[j] .. start - 1 : b[e] = NUL /\ (j < Len(a) => e < a[j + 1])
      BY <1>4 DEF Apart
    <2>2. e \in 1 .. n + 1 /\ e < start /\ e \in d[j] .. i
      BY <1>2, <1>4
    <2>3. e < d[j + 1]
      <3>1. CASE j = Len(a)
        BY <1>2, <2>2, <3>1
      <3>2. CASE j < Len(a)
        BY <1>2, <1>4, <2>1, <3>2
      <3> QED BY <1>2, <1>4, <3>1, <3>2
    <2> QED BY <1>1, <2>1, <2>2, <2>3
  <1> QED BY <1>2, <1>3, <1>4

LEMMA StartInLoop ==
    ASSUME NEW text \in Texts
    PROVE  InLoop(text, Start(text), 0)
  <1> DEFINE b == Append(text, NUL)
  <1>1. /\ b[Len(text) + 1] = NUL /\ Len(text) \in Nat
        /\ \A i \in 1 .. Len(text) : b[i] = text[i]
    BY DEF Texts
  <1>2. /\ Start(text).buffer = b /\ Start(text).argv = <<>>
        /\ Start(text).in_quotes = FALSE /\ Start(text).in_token = FALSE
    BY DEF Start
  <1> HIDE DEF b
  <1>3. Apart(b, <<>>, 0)
    BY DEF Apart
  <1> QED BY <1>1, <1>2, <1>3, BuffAssumption DEF InLoop

LEMMA CellInLoop ==
    ASSUME NEW text \in Texts, NEW k \in 1 .. Len(text), NEW s \in States(Len(text)),
           InLoop(text, s, k - 1)
    PROVE  InLoop(text, B!Cell(s, k), k)
  <1> DEFINE n == Len(text)
             t == B!Cell(s, k)
  <1>1. n \in Nat /\ t \in States(n) /\ k \in 1 .. n /\ k \in 1 .. n + 1
    BY CellType DEF Texts
  <1>2. /\ s.buffer \in [1 .. n + 1 -> Chars] /\ s.argv \in Seq(1 .. n + 1)
        /\ s.arg_start \in 1 .. n + 1
        /\ s.in_quotes \in BOOLEAN /\ s.in_token \in BOOLEAN
    BY DEF States, Fields
  <1>3. s.buffer[k] = text[k] /\ \A i \in k + 1 .. n : s.buffer[i] = text[i]
    BY DEF InLoop
  <1>4. /\ Len(s.argv) \in Nat /\ \A j \in 1 .. Len(s.argv) : s.argv[j] \in Int
        /\ s.argv # <<>> => Len(s.argv) # 0
    BY <1>2
  <1>5. ASSUME t = s,
               s.in_token \/ s.argv # <<>> \/ k > 1 \/ text[1] \in B!isspace
        PROVE  InLoop(text, t, k)
    <2> USE DEF InLoop
    <2>1. ~s.in_token => Apart(s.buffer, s.argv, k)
      <3>1. ~s.in_token => Apart(s.buffer, s.argv, k - 1)
        OBVIOUS
      <3>2. k - 1 \in Int /\ k \in Int /\ k - 1 <= k
        OBVIOUS
      <3> QED BY <1>4, <3>1, <3>2, ApartGrows
    <2>2. k > 0 /\ text[1] \notin B!isspace => s.in_token \/ s.argv # <<>>
      BY <1>5
    <2>3. s.in_token => ~B!Full(Len(s.argv)) /\ s.arg_start <= k + 1
      BY <1>2
    <2>4. /\ s.in_quotes => s.in_token
          /\ Len(s.argv) < CMD_ARGV_MAX
          /\ s.buffer[Len(text) + 1] = NUL
          /\ \A i \in k + 1 .. Len(text) : s.buffer[i] = text[i]
          /\ s.in_token => Apart(s.buffer, s.argv, s.arg_start - 1)
      BY <1>3
    <2>5. InLoop(text, s, k)
      BY <2>1, <2>2, <2>3, <2>4
    <2> QED BY <1>5, <2>5
  <1>6. ASSUME Begins(s, t, k) \/ Begins(s, t, k + 1), ~s.in_token,
               ~B!Full(Len(s.argv))
        PROVE  InLoop(text, t, k)
    <2>1. /\ t.buffer = s.buffer /\ t.argv = s.argv /\ t.in_token = TRUE
          /\ t.arg_start \in {k, k + 1}
      BY <1>6 DEF Begins
    <2>2. Apart(s.buffer, s.argv, t.arg_start - 1)
      BY <1>4, <1>6, <2>1, ApartGrows DEF InLoop
    <2> QED BY <1>3, <1>6, <2>1, <2>2 DEF InLoop, n
  <1>7. ASSUME Ends(s, t, k), s.in_token
        PROVE  InLoop(text, t, k)
    <2>1. /\ t.buffer = [s.buffer EXCEPT ![k] = NUL]
          /\ t.argv = Append(s.argv, s.arg_start)
          /\ t.in_token = FALSE /\ t.in_quotes = FALSE
      BY <1>7 DEF Ends
    <2>2. Apart(t.buffer, t.argv, k)
      <3>1. Apart(s.buffer, s.argv, s.arg_start - 1) /\ s.arg_start <= k
        BY <1>2, <1>7 DEF InLoop
      <3> HIDE DEF n, t
      <3>2. Apart([s.buffer EXCEPT ![k] = NUL], Append(s.argv, s.arg_start), k)
        BY <1>1, <1>2, <3>1, ApartEnds
      <3> QED BY <2>1, <3>2
    <2>3. /\ Len(t.argv) = Len(s.argv) + 1 /\ t.argv # <<>>
          /\ Len(t.argv) < CMD_ARGV_MAX
      <3>1. Len(s.argv) < CMD_ARGV_MAX - 1 /\ CMD_ARGV_MAX \in Nat
        BY <1>4, <1>7, BuffAssumption DEF InLoop, B!Full
      <3>2. Len(t.argv) = Len(s.argv) + 1 /\ t.argv # <<>>
        <4> DEFINE q == s.argv
                   v == s.arg_start
        <4>1. q \in Seq(1 .. n + 1) /\ v \in 1 .. n + 1
          BY <1>2
        <4> HIDE DEF q, v, n
        <4>2. Len(Append(q, v)) = Len(q) + 1 /\ Append(q, v) # <<>>
          BY ONLY <4>1
        <4> HIDE DEF t
        <4> QED BY <2>1, <4>2 DEF q, v
      <3> QED BY <1>4, <3>1, <3>2
    <2>4. /\ t.buffer[n + 1] = NUL
          /\ \A i \in k + 1 .. n : t.buffer[i] = text[i]
      BY <1>1, <1>2, <1>3, <2>1 DEF InLoop
    <2> QED BY <2>1, <2>2, <2>3, <2>4 DEF InLoop, n
  <1> DEFINE c == s.buffer[k]
  <1> SUFFICES InLoop(text, t, k)
    OBVIOUS
  <1> HIDE DEF n, t, c
  <1>8. CASE B!Full(Len(s.argv))
    <2>1. t = s
      BY <1>8, CellSkips DEF t
    <2>2. s.argv # <<>>
      BY <1>8, BuffAssumption DEF B!Full
    <2> QED BY <1>5, <2>1, <2>2
  <1>9. CASE ~B!Full(Len(s.argv)) /\ s.in_token
    <2>1. CASE \/ s.in_quotes /\ c = B!QUOTE
               \/ ~s.in_quotes /\ c \in B!isspace
      <3>1. Ends(s, t, k)
        BY <1>1, <1>9, <2>1, CellEnds DEF t, n, c
      <3> QED BY <1>7, <1>9, <3>1
    <2>2. CASE c # B!QUOTE /\ (s.in_quotes \/ c \notin B!isspace)
      <3>1. t = s
        BY <1>9, <2>2, CellSkips DEF t, c
      <3> QED BY <1>5, <1>9, <3>1
    <2>3. CASE c = B!QUOTE /\ ~s.in_quotes
      <3>1. t = [s EXCEPT !.in_quotes = TRUE]
        BY <1>1, <1>9, <2>3, CellQuotes DEF t, n, c
      <3>2. /\ t.buffer = s.buffer /\ t.argv = s.argv /\ t.in_token = TRUE
            /\ t.arg_start = s.arg_start
        BY <1>9, <3>1 DEF States, Fields
      <3> QED BY <1>2, <1>3, <1>9, <3>2 DEF InLoop, n
    <2>4. c = B!QUOTE => c \notin B!isspace
      BY DEF B!QUOTE, B!isspace
    <2> QED BY <2>1, <2>2, <2>3, <2>4
  <1>10. CASE ~B!Full(Len(s.argv)) /\ ~s.in_token
    <2>1. ~s.in_quotes
      BY <1>10 DEF InLoop
    <2>2. CASE c \in B!isspace
      <3>1. t = s
        BY <1>10, <2>1, <2>2, CellSkips DEF t, c
      <3>2. k = 1 => text[1] \in B!isspace
        BY <1>3, <2>2 DEF c
      <3>3. k > 1 \/ k = 1
        BY <1>1
      <3> QED BY <1>5, <3>1, <3>2, <3>3
    <2>3. CASE c \notin B!isspace
      <3>1. Begins(s, t, k) \/ Begins(s, t, k + 1)
        BY <1>1, <1>10, <2>1, <2>3, CellBegins DEF t, n, c
      <3> QED BY <1>6, <1>10, <3>1
    <2> QED BY <2>2, <2>3
  <1> QED BY <1>8, <1>9, <1>10

LEMMA ScanInLoop ==
    ASSUME NEW text \in Texts, NEW k \in 0 .. Len(text)
    PROVE  InLoop(text, B!Scan(text, k), k)
  <1> DEFINE n == Len(text)
             T == {i \in 0 .. n : InLoop(text, B!Scan(text, i), i)}
  <1>1. n \in Nat
    BY DEF Texts
  <1>2. 0 \in T
    BY <1>1, ScanSteps, StartInLoop
  <1>3. ASSUME NEW i \in 1 .. n, i - 1 \in T
        PROVE  i \in T
    <2>1. /\ B!Scan(text, i) = B!Cell(B!Scan(text, i - 1), i)
          /\ B!Scan(text, i - 1) \in States(n)
      BY <1>3, ScanSteps
    <2> QED BY <1>3, <2>1, CellInLoop
  <1> HIDE DEF T
  <1>4. 0 .. n \subseteq T
    BY <1>1, <1>2, <1>3, UpTo
  <1> QED BY <1>4 DEF T

\* A line without the blanks it begins with begins with another character.
LEMMA TrimmedIs ==
    ASSUME NEW line \in Texts
    PROVE  /\ B!Trimmed(line) \in Texts
           /\ B!Trimmed(line) # <<>> => B!Trimmed(line)[1] \notin B!isspace
  <1> DEFINE letters == {k \in DOMAIN line : line[k] \notin B!isspace}
             first   == CHOOSE k \in letters : \A j \in letters : k <= j
  <1>1. letters \subseteq 1 .. Len(line) /\ Len(line) \in Nat
    BY DEF Texts
  <1>2. CASE letters = {}
    <2>1. B!Trimmed(line) = <<>>
      BY <1>2 DEF B!Trimmed
    <2> QED BY <2>1 DEF Texts
  <1>3. CASE letters # {}
    <2>1. \E k \in letters : \A j \in letters : k <= j
      <3>1. letters \subseteq Nat
        BY <1>1
      <3> HIDE DEF letters
      <3> QED BY <1>3, <3>1, Least
    <2>2. first \in letters
      BY <2>1
    <2>3. B!Trimmed(line) = SubSeq(line, first, Len(line))
      BY <1>3 DEF B!Trimmed
    <2>4. first \in 1 .. Len(line) /\ line[first] \notin B!isspace
      BY <1>1, <2>2
    <2> HIDE DEF letters, first
    <2>5. /\ SubSeq(line, first, Len(line)) \in Texts
          /\ SubSeq(line, first, Len(line))[1] = line[first]
      BY <2>4 DEF Texts
    <2> QED BY <2>3, <2>4, <2>5
  <1> QED BY <1>2, <1>3

\* What build_cmd_buff() makes of a line.
LEMMA Built ==
    ASSUME NEW line \in Texts
    PROVE  LET built == B!build_cmd_buff(line) IN
           /\ built.rc \in {OK, WARN_NO_CMDS}
           /\ built.buffer \in Seq(Chars)
           /\ built.argv \in Seq(1 .. Len(built.buffer))
           /\ Len(built.argv) < CMD_ARGV_MAX
           /\ built.rc = OK => built.argv # <<>>
           /\ Apart(built.buffer, built.argv, Len(built.buffer))
  <1> DEFINE text == B!Trimmed(line)
             n == Len(text)
             s == B!Scanned(text)
             argv == IF s.in_token THEN Append(s.argv, s.arg_start) ELSE s.argv
  <1>1. text \in Texts /\ text # <<>> => text[1] \notin B!isspace
    BY TrimmedIs
  <1>2. text \in Texts /\ n \in Nat /\ (text # <<>> => n > 0)
    BY TrimmedIs DEF Texts
  <1> HIDE DEF text
  <1>3. s \in States(n) /\ InLoop(text, s, n)
    BY <1>2, ScanSteps, ScanInLoop DEF B!Scanned
  <1> HIDE DEF s
  <1>4. /\ B!build_cmd_buff(line).buffer = s.buffer
        /\ B!build_cmd_buff(line).argv = argv
        /\ B!build_cmd_buff(line).rc = IF text = <<>> THEN WARN_NO_CMDS ELSE OK
    BY DEF B!build_cmd_buff, s, text, B!OK, OK, B!WARN_NO_CMDS, WARN_NO_CMDS
  <1>5. /\ s.buffer \in [1 .. n + 1 -> Chars] /\ s.argv \in Seq(1 .. n + 1)
        /\ s.arg_start \in 1 .. n + 1 /\ s.in_token \in BOOLEAN
    BY <1>3 DEF States, Fields
  <1>6. s.buffer \in Seq(Chars) /\ Len(s.buffer) = n + 1
    <2> DEFINE b == s.buffer
               m == n + 1
    <2>1. m \in Nat /\ b \in [1 .. m -> Chars]
      BY <1>2, <1>5
    <2> HIDE DEF b, m
    <2>2. b \in Seq(Chars) /\ Len(b) = m
      BY <2>1
    <2> QED BY <2>2 DEF b, m
  <1>7. argv \in Seq(1 .. n + 1) /\ (text # <<>> => argv # <<>>)
    <2>1. CASE s.in_token
      BY <1>5, <2>1
    <2>2. CASE ~s.in_token
      BY <1>1, <1>2, <1>3, <1>5, <2>2 DEF InLoop
    <2> QED BY <2>1, <2>2
  <1>8. Len(argv) < CMD_ARGV_MAX
    <2>1. CASE s.in_token
      <3>1. Len(Append(s.argv, s.arg_start)) = Len(s.argv) + 1 /\ Len(s.argv) \in Nat
        BY <1>5
      <3>2. ~(Len(s.argv) >= CMD_ARGV_MAX - 1) /\ CMD_ARGV_MAX \in Nat
        BY <1>3, <2>1, BuffAssumption DEF InLoop, B!Full
      <3> QED BY <2>1, <3>1, <3>2
    <2>2. CASE ~s.in_token
      BY <1>3, <2>2 DEF InLoop
    <2> QED BY <2>1, <2>2
  <1>9. Apart(s.buffer, argv, n + 1)
    <2>1. CASE s.in_token
      <3>1. /\ s.buffer[n + 1] = NUL /\ Apart(s.buffer, s.argv, s.arg_start - 1)
            /\ s.arg_start <= n + 1
        BY <1>3, <1>5, <2>1 DEF InLoop
      <3>2. [s.buffer EXCEPT ![n + 1] = NUL] = s.buffer
        BY <1>2, <1>5, <3>1
      <3>3. n + 1 \in 1 .. n + 1
        BY <1>2
      <3>4. Apart([s.buffer EXCEPT ![n + 1] = NUL], Append(s.argv, s.arg_start), n + 1)
        BY <1>2, <1>5, <3>1, <3>3, ApartEnds
      <3> QED BY <2>1, <3>2, <3>4
    <2>2. CASE ~s.in_token
      <3>1. Apart(s.buffer, s.argv, n)
        BY <1>3, <2>2 DEF InLoop
      <3>2. \A j \in 1 .. Len(s.argv) : s.argv[j] \in Int
        BY <1>5
      <3>3. Apart(s.buffer, s.argv, n + 1)
        BY <1>2, <3>1, <3>2, ApartGrows
      <3> QED BY <2>2, <3>3
    <2> QED BY <2>1, <2>2
  <1> HIDE DEF argv, n
  <1>10. (IF text = <<>> THEN WARN_NO_CMDS ELSE OK) \in {OK, WARN_NO_CMDS}
         /\ OK # WARN_NO_CMDS
    BY DEF OK, WARN_NO_CMDS
  <1> DEFINE built == B!build_cmd_buff(line)
  <1>11. /\ built.buffer = s.buffer /\ built.argv = argv /\ Len(built.buffer) = n + 1
         /\ built.rc = IF text = <<>> THEN WARN_NO_CMDS ELSE OK
    BY <1>4, <1>6
  <1> SUFFICES /\ built.rc \in {OK, WARN_NO_CMDS}
               /\ built.buffer \in Seq(Chars)
               /\ built.argv \in Seq(1 .. Len(built.buffer))
               /\ Len(built.argv) < CMD_ARGV_MAX
               /\ built.rc = OK => built.argv # <<>>
               /\ Apart(built.buffer, built.argv, Len(built.buffer))
    OBVIOUS
  <1> HIDE DEF built
  <1>12. built.rc \in {OK, WARN_NO_CMDS} /\ (built.rc = OK => built.argv # <<>>)
    BY <1>7, <1>10, <1>11
  <1>13. built.argv \in Seq(1 .. Len(built.buffer)) /\ Len(built.argv) < CMD_ARGV_MAX
    BY <1>7, <1>8, <1>11
  <1>14. Apart(built.buffer, built.argv, Len(built.buffer))
    BY <1>9, <1>11
  <1> QED BY <1>6, <1>11, <1>12, <1>13, <1>14

\* An argument ends where its first terminator is.
LEMMA ArgIs ==
    ASSUME NEW b \in Seq(Chars), NEW start \in 1 .. Len(b),
           NEW e \in start .. Len(b), b[e] = NUL
    PROVE  \E m \in start .. e :
             /\ b[m] = NUL /\ \A k \in start .. m - 1 : b[k] # NUL
             /\ B!Arg(b, start) = SubSeq(b, start, m - 1)
  <1> DEFINE ends == {k \in start .. Len(b) : b[k] = NUL}
             end  == CHOOSE k \in ends : \A j \in ends : k <= j
  <1>1. ends \subseteq Nat /\ e \in ends
    OBVIOUS
  <1>2. B!Arg(b, start) = SubSeq(b, start, end - 1)
    BY DEF B!Arg, B!NUL, NUL
  <1>3. \A k : k \in ends <=> k \in start .. Len(b) /\ b[k] = NUL
    OBVIOUS
  <1> HIDE DEF ends
  <1>4. \E k \in ends : \A j \in ends : k <= j
    BY <1>1, Least
  <1>5. end \in ends /\ \A j \in ends : end <= j
    BY <1>4
  <1> HIDE DEF end
  <1>6. end \in start .. e /\ b[end] = NUL
    BY <1>1, <1>3, <1>5
  <1>7. \A k \in start .. end - 1 : b[k] # NUL
    BY <1>1, <1>3, <1>5, <1>6
  <1> QED BY <1>2, <1>6, <1>7

\* An argument is a string of the buffer that lies within it.
LEMMA ArgWithin ==
    ASSUME NEW b \in Seq(Chars), NEW start \in 1 .. Len(b),
           NEW e \in start .. Len(b), b[e] = NUL
    PROVE  /\ B!Arg(b, start) \in Texts
           /\ Len(B!Arg(b, start)) \in Nat
           /\ start + Len(B!Arg(b, start)) <= e
  <1>1. PICK m \in start .. e : B!Arg(b, start) = SubSeq(b, start, m - 1)
    BY ArgIs
  <1>2. /\ SubSeq(b, start, m - 1) \in Seq(Chars)
        /\ Len(SubSeq(b, start, m - 1)) = m - start
    BY <1>1
  <1> QED BY <1>1, <1>2 DEF Texts
----------------------------------------------------------------------------
(* The loop of the second shell. *)

\* What build_cmd_buff() leaves in the buffer and in argv.
Parsed(buffer, argv) ==
    /\ buffer \in Seq(Chars) /\ argv \in Seq(1 .. Len(buffer))
    /\ Len(argv) < CMD_ARGV_MAX
    /\ Apart(buffer, argv, Len(buffer))

ShellRecords ==
    [pc : {"prompt", "fork", "wait", "done"}, line : Lines \cup {<<>>},
     rc : {OK, WARN_NO_CMDS, B!OK_EXIT}, buffer : Seq(Chars), argv : Seq(Nat),
     last_return_code : -1 .. 255]
ChildRecords ==
    [pc : {"none", "running", "zombie", "reaped"}, name : Texts, status : Int]

\* The shell forks a name, its child runs or has ended while it waits, and the
\* last return code is that of the last child once it is reaped.
BuffInv ==
    /\ sh \in ShellRecords /\ child \in ChildRecords
    /\ Parsed(sh.buffer, sh.argv)
    /\ typed \in Nat
    /\ sh.rc = OK /\ typed > 0 => sh.argv # <<>>
    /\ sh.pc = "fork" => sh.argv # <<>>
    /\ sh.pc = "wait" <=> child.pc \in {"running", "zombie"}
    /\ child.pc = "zombie" => child.status = B!StatusOf(child.name)
    /\ child.pc = "reaped" =>
         sh.last_return_code = B!LastReturnCode(B!StatusOf(child.name))

LEMMA CodeIs ==
    ASSUME NEW name
    PROVE  /\ B!StatusOf(name) \in Int
           /\ B!LastReturnCode(B!StatusOf(name)) \in -1 .. 255
           /\ B!LastReturnCode(B!StatusOf(name)) =
                CASE name = <<"a">> -> 0 [] name = <<"b">> -> 3
                  [] name = <<"k">> -> -1 [] OTHER -> 2
  <1> DEFINE code == CASE name = <<"a">> -> 0 [] name = <<"b">> -> 3
                       [] name = <<"k">> -> -1 [] OTHER -> 2
             status == B!StatusOf(name)
  <1>1. \/ status = B!Exited(0) /\ code = 0
        \/ status = B!Exited(3) /\ code = 3
        \/ status = B!Killed /\ code = -1
        \/ status = B!Exited(2) /\ code = 2
    <2>0. <<"a">> # <<"b">> /\ <<"a">> # <<"k">> /\ <<"b">> # <<"k">>
      OBVIOUS
    <2>1. CASE name = <<"a">>
      BY <2>0, <2>1, Zenon DEF B!StatusOf
    <2>2. CASE name = <<"b">>
      BY <2>0, <2>2, Zenon DEF B!StatusOf
    <2>3. CASE name = <<"k">>
      BY <2>0, <2>3, Zenon DEF B!StatusOf
    <2>4. CASE name # <<"a">> /\ name # <<"b">> /\ name # <<"k">>
      BY <2>4, Zenon DEF B!StatusOf
    <2> QED BY <2>1, <2>2, <2>3, <2>4
  <1> HIDE DEF code, status
  <1>2. /\ status \in Int
        /\ B!LastReturnCode(status) \in -1 .. 255
        /\ B!LastReturnCode(status) = code
    BY <1>1 DEF B!LastReturnCode, B!Exited, B!Killed
  <1> QED BY <1>2 DEF code, status

LEMMA LinesAreTexts == Lines \subseteq Texts
  <1>1. \A S, T : S \subseteq T => Seq(S) \subseteq Seq(T)
    OBVIOUS
  <1>2. Seq(Typeable) \subseteq Seq(Chars)
    BY <1>1 DEF Chars
  <1> QED BY <1>2, LineAssumption DEF Texts

LEMMA InitBuff == Init => BuffInv
  <1> SUFFICES ASSUME Init
               PROVE  BuffInv
    OBVIOUS
  <1>1. /\ sh = [pc |-> "prompt", line |-> <<>>, rc |-> OK, buffer |-> <<NUL>>,
                 argv |-> <<>>, last_return_code |-> 0]
        /\ child = [pc |-> "none", name |-> <<>>, status |-> 0] /\ typed = 0
    BY DEF Init, B!BuffInit, B!NUL, NUL, B!OK, OK
  <1>2. Parsed(<<NUL>>, <<>>)
    BY BuffAssumption DEF Parsed, Apart, Chars
  <1>3. /\ <<NUL>> \in Seq(Chars) /\ <<>> \in Seq(Nat) /\ <<>> \in Texts
        /\ 0 \in -1 .. 255 /\ 0 \in Int
    BY DEF Chars, Texts
  <1>4. sh \in ShellRecords /\ child \in ChildRecords
    BY <1>1, <1>3 DEF ShellRecords, ChildRecords
  <1> QED BY <1>1, <1>2, <1>4 DEF BuffInv

LEMMA ReadBuff ==
    ASSUME BuffInv, NEW line \in Lines, typed' = typed + 1, B!BuffReadLine(line)
    PROVE  BuffInv'
  <1> DEFINE built == B!build_cmd_buff(line)
             parsed == [sh EXCEPT !.line = line, !.rc = built.rc,
                                  !.buffer = built.buffer, !.argv = built.argv]
  <1>1. /\ built.rc \in {OK, WARN_NO_CMDS} /\ Parsed(built.buffer, built.argv)
        /\ built.rc = OK => built.argv # <<>>
    <2>1. line \in Texts
      BY LinesAreTexts
    <2> QED BY <2>1, Built, Zenon DEF Parsed
  <1>2. /\ sh.pc = "prompt" /\ child' = child
        /\ \/ sh' = parsed
           \/ sh' = [parsed EXCEPT !.pc = "fork"] /\ built.rc = OK
           \/ sh' = [parsed EXCEPT !.pc = "done", !.rc = B!OK_EXIT]
    BY Zenon DEF B!BuffReadLine, B!OK, OK
  <1> HIDE DEF built
  <1>3. sh \in ShellRecords /\ built.buffer \in Seq(Chars) /\ built.argv \in Seq(Nat)
    BY <1>1 DEF BuffInv, Parsed
  <1>4. parsed \in ShellRecords /\ parsed.pc = sh.pc /\ parsed.rc = built.rc
        /\ parsed.buffer = built.buffer /\ parsed.argv = built.argv
        /\ parsed.last_return_code = sh.last_return_code
    BY <1>1, <1>3 DEF ShellRecords
  <1> HIDE DEF parsed
  <1>5. /\ sh' \in ShellRecords /\ sh'.buffer = built.buffer /\ sh'.argv = built.argv
        /\ sh'.last_return_code = sh.last_return_code
        /\ sh'.pc \in {"prompt", "fork", "done"}
        /\ sh'.pc = "fork" => built.rc = OK
        /\ sh'.rc \in {built.rc, B!OK_EXIT}
    BY <1>2, <1>4 DEF ShellRecords
  <1>6. OK # B!OK_EXIT
    BY DEF OK, B!OK_EXIT
  <1>7. sh'.rc = OK => sh'.argv # <<>>
    BY <1>1, <1>5, <1>6
  <1>8. typed' \in Nat
    BY DEF BuffInv
  <1>9. Parsed(sh'.buffer, sh'.argv)
    BY <1>1, <1>5
  <1> QED BY <1>1, <1>2, <1>5, <1>7, <1>8, <1>9 DEF BuffInv

LEMMA StepBuff ==
    ASSUME BuffInv, B!BuffStep, typed' = typed
    PROVE  BuffInv'
  <1>1. sh \in ShellRecords /\ child \in ChildRecords
    BY DEF BuffInv
  <1>2. CASE B!Fork
    <2>1. /\ sh.pc = "fork" /\ sh' = [sh EXCEPT !.pc = "wait"]
          /\ child' = [pc |-> "running", name |-> B!Args[1], status |-> 0]
      BY <1>2 DEF B!Fork
    <2>2. sh.argv # <<>> /\ Parsed(sh.buffer, sh.argv)
      BY <2>1 DEF BuffInv
    <2>3. 1 \in 1 .. Len(sh.argv) /\ sh.argv[1] \in 1 .. Len(sh.buffer)
          /\ 1 \in DOMAIN sh.argv
      BY <2>2 DEF Parsed
    <2>4. PICK e \in sh.argv[1] .. Len(sh.buffer) : sh.buffer[e] = NUL
      BY <2>2, <2>3 DEF Parsed, Apart
    <2>5. B!Arg(sh.buffer, sh.argv[1]) \in Texts
      BY <2>2, <2>3, <2>4, ArgWithin DEF Parsed
    <2>6. B!Args[1] \in Texts
      BY <2>3, <2>5 DEF B!Args
    <2>7. child' \in ChildRecords /\ child'.pc = "running"
      <3> DEFINE a == B!Args[1]
      <3>1. child' = [pc |-> "running", name |-> a, status |-> 0] /\ a \in Texts
        BY <2>1, <2>6
      <3> HIDE DEF a
      <3> QED BY <3>1 DEF ChildRecords
    <2>8. /\ sh' \in ShellRecords /\ sh'.pc = "wait" /\ sh'.buffer = sh.buffer
          /\ sh'.argv = sh.argv /\ sh'.rc = sh.rc
      BY <1>1, <2>1 DEF ShellRecords
    <2> QED BY <2>7, <2>8 DEF BuffInv
  <1>3. CASE B!ForkFails
    <2>1. /\ sh.pc = "fork" /\ sh' = [sh EXCEPT !.pc = "prompt"] /\ child' = child
      BY <1>3 DEF B!ForkFails
    <2>2. /\ sh' \in ShellRecords /\ sh'.pc = "prompt" /\ sh'.buffer = sh.buffer
          /\ sh'.argv = sh.argv /\ sh'.rc = sh.rc
          /\ sh'.last_return_code = sh.last_return_code
      BY <1>1, <2>1 DEF ShellRecords
    <2> QED BY <2>1, <2>2 DEF BuffInv
  <1>4. CASE B!ChildEnds
    <2>1. /\ child.pc = "running" /\ sh' = sh
          /\ child' = [child EXCEPT !.pc = "zombie",
                                    !.status = B!StatusOf(child.name)]
      BY <1>4 DEF B!ChildEnds
    <2>2. B!StatusOf(child.name) \in Int
      BY CodeIs
    <2>3. /\ child' \in ChildRecords /\ child'.pc = "zombie"
          /\ child'.name = child.name /\ child'.status = B!StatusOf(child.name)
      BY <1>1, <2>1, <2>2 DEF ChildRecords
    <2>4. child'.status = B!StatusOf(child'.name)
      BY <2>3
    <2> QED BY <2>1, <2>3, <2>4 DEF BuffInv
  <1>5. CASE B!Wait
    <2>1. /\ sh.pc = "wait" /\ child.pc = "zombie"
          /\ sh' = [sh EXCEPT !.pc = "prompt",
                              !.last_return_code = B!LastReturnCode(child.status)]
          /\ child' = [child EXCEPT !.pc = "reaped"]
      BY <1>5 DEF B!Wait
    <2>2. child.status = B!StatusOf(child.name)
      BY <2>1 DEF BuffInv
    <2>3. B!LastReturnCode(child.status) \in -1 .. 255
      BY <2>2, CodeIs
    <2>4. /\ sh' \in ShellRecords /\ sh'.pc = "prompt" /\ sh'.buffer = sh.buffer
          /\ sh'.argv = sh.argv /\ sh'.rc = sh.rc
          /\ sh'.last_return_code = B!LastReturnCode(child.status)
      BY <1>1, <2>1, <2>3 DEF ShellRecords
    <2>5. /\ child' \in ChildRecords /\ child'.pc = "reaped"
          /\ child'.name = child.name
      BY <1>1, <2>1 DEF ChildRecords
    <2>6. sh'.last_return_code = B!LastReturnCode(B!StatusOf(child'.name))
      BY <2>2, <2>4, <2>5
    <2> QED BY <2>4, <2>5, <2>6 DEF BuffInv
  <1> QED BY <1>2, <1>3, <1>4, <1>5 DEF B!BuffStep

LEMMA NextBuff == BuffInv /\ [Next]_allvars => BuffInv'
  <1> SUFFICES ASSUME BuffInv, [Next]_allvars
               PROVE  BuffInv'
    OBVIOUS
  <1>1. CASE \E line \in Lines : ReadLine(line)
    BY <1>1, ReadBuff DEF ReadLine
  <1>2. CASE EndOfInput
    <2>1. /\ sh.pc = "prompt" /\ sh' = [sh EXCEPT !.pc = "done"] /\ child' = child
          /\ typed' = typed
      BY <1>2 DEF EndOfInput, B!BuffEndOfInput
    <2>2. /\ sh' \in ShellRecords /\ sh'.pc = "done" /\ sh'.buffer = sh.buffer
          /\ sh'.argv = sh.argv /\ sh'.rc = sh.rc
          /\ sh'.last_return_code = sh.last_return_code
      BY <2>1 DEF ShellRecords, BuffInv
    <2> QED BY <2>1, <2>2 DEF BuffInv
  <1>3. CASE RunProgram
    BY <1>3, StepBuff DEF RunProgram
  <1>4. CASE UNCHANGED allvars
    BY <1>4 DEF allvars, BuffInv
  <1> QED BY <1>1, <1>2, <1>3, <1>4 DEF Next

\* The second shell's inductive invariant.
THEOREM BuffInvariant == Spec => []BuffInv
  <1> QED BY InitBuff, NextBuff, PTL DEF Spec

LEMMA ApartArgs == BuffInv => ArgsApart
  <1> SUFFICES ASSUME BuffInv
               PROVE  ArgsApart
    OBVIOUS
  <1> DEFINE b == sh.buffer
             a == sh.argv
  <1>1. /\ b \in Seq(Chars) /\ a \in Seq(1 .. Len(b)) /\ Len(a) < CMD_ARGV_MAX
        /\ Apart(b, a, Len(b))
    BY DEF BuffInv, Parsed
  <1>2. \A k \in DOMAIN a : B!Args[k] = B!Arg(b, a[k])
    BY DEF B!Args
  <1> SUFFICES /\ Len(a) < CMD_ARGV_MAX
               /\ \A k \in DOMAIN a :
                    /\ a[k] + Len(B!Args[k]) <= Len(b)
                    /\ k > 1 => a[k - 1] + Len(B!Args[k - 1]) < a[k]
    BY DEF ArgsApart
  <1> HIDE DEF a, b
  <1>3. ASSUME NEW k \in DOMAIN a
        PROVE  \E e \in a[k] .. Len(b) :
                 /\ a[k] + Len(B!Args[k]) <= e /\ Len(B!Args[k]) \in Nat
                 /\ k < Len(a) => e < a[k + 1]
    <2>1. k \in 1 .. Len(a) /\ a[k] \in 1 .. Len(b)
      BY <1>1
    <2>2. PICK e \in a[k] .. Len(b) : b[e] = NUL /\ (k < Len(a) => e < a[k + 1])
      BY <1>1, <2>1 DEF Apart
    <2>3. a[k] + Len(B!Arg(b, a[k])) <= e /\ Len(B!Arg(b, a[k])) \in Nat
      BY <1>1, <2>1, <2>2, ArgWithin
    <2> QED BY <1>2, <2>2, <2>3
  <1> SUFFICES ASSUME NEW k \in DOMAIN a
               PROVE  /\ a[k] + Len(B!Args[k]) <= Len(b)
                      /\ k > 1 => a[k - 1] + Len(B!Args[k - 1]) < a[k]
    BY <1>1
  <1>4. k \in 1 .. Len(a) /\ a[k] \in Int /\ Len(b) \in Nat
    BY <1>1
  <1>5. a[k] + Len(B!Args[k]) <= Len(b)
    <2>1. PICK e \in a[k] .. Len(b) : a[k] + Len(B!Args[k]) <= e /\ Len(B!Args[k]) \in Nat
      BY <1>3
    <2> QED BY <1>4, <2>1
  <1>6. ASSUME k > 1
        PROVE  a[k - 1] + Len(B!Args[k - 1]) < a[k]
    <2>1. /\ k - 1 \in DOMAIN a /\ k - 1 < Len(a) /\ (k - 1) + 1 = k
          /\ a[k - 1] \in Int
      BY <1>1, <1>4, <1>6
    <2>2. PICK e \in a[k - 1] .. Len(b) :
            /\ a[k - 1] + Len(B!Args[k - 1]) <= e /\ Len(B!Args[k - 1]) \in Nat
            /\ k - 1 < Len(a) => e < a[(k - 1) + 1]
      BY <1>3, <2>1
    <2> QED BY <1>4, <2>1, <2>2
  <1> QED BY <1>5, <1>6

\* The arguments lie in the buffer one behind the other, each ended by a
\* terminator of its own, however many quotes, blanks and words a line has, and
\* leave argv room for its NULL.
THEOREM ArgumentsLieApart == Spec => []ArgsApart
  <1>1. BuffInv => ArgsApart
    BY ApartArgs
  <1> QED BY <1>1, BuffInvariant, PTL

LEMMA CodeLasts == BuffInv => CodeOfProgram
  <1> SUFFICES ASSUME BuffInv, sh.pc = "prompt", child.pc # "none"
               PROVE  /\ child.pc = "reaped"
                      /\ sh.last_return_code =
                           CASE child.name = <<"a">> -> 0
                             [] child.name = <<"b">> -> 3
                             [] child.name = <<"k">> -> -1
                             [] OTHER -> 2
    BY DEF CodeOfProgram
  <1>1. child.pc \in {"running", "zombie", "reaped"}
    BY DEF BuffInv, ChildRecords
  <1>2. child.pc = "reaped"
    BY <1>1 DEF BuffInv
  <1>3. sh.last_return_code = B!LastReturnCode(B!StatusOf(child.name))
    BY <1>2 DEF BuffInv
  <1> QED BY <1>2, <1>3, CodeIs, Zenon

\* At the prompt the last return code is that of the last program that was
\* started, whatever built-ins, blank lines and failing fork()s came after it.
THEOREM LastCodeIsOfProgram == Spec => []CodeOfProgram
  <1>1. BuffInv => CodeOfProgram
    BY CodeLasts
  <1> QED BY <1>1, BuffInvariant, PTL

----------------------------------------------------------------------------
(* Arguments that are typed between quotes come back. *)

\* While the cells that follow leave a state as it is, so does the loop.
LEMMA Stays ==
    ASSUME NEW text \in Texts, NEW i \in 0 .. Len(text), NEW m \in i .. Len(text),
           \A j \in i + 1 .. m : B!Cell(B!Scan(text, i), j) = B!Scan(text, i)
    PROVE  B!Scan(text, m) = B!Scan(text, i)
  <1> DEFINE T == {k \in 0 .. m : k < i \/ B!Scan(text, k) = B!Scan(text, i)}
  <1>1. Len(text) \in Nat /\ m \in Nat /\ i \in Nat /\ i <= m /\ m <= Len(text)
    BY DEF Texts
  <1>2. 0 \in T
    BY <1>1
  <1>3. ASSUME NEW k \in 1 .. m, k - 1 \in T
        PROVE  k \in T
    <2>1. CASE k <= i
      BY <1>1, <2>1
    <2>2. CASE k > i
      <3>1. B!Scan(text, k - 1) = B!Scan(text, i) /\ k \in i + 1 .. m
        BY <1>1, <1>3, <2>2
      <3>2. B!Scan(text, k) = B!Cell(B!Scan(text, k - 1), k)
        BY <1>1, ScanSteps
      <3>3. B!Scan(text, k) = B!Scan(text, i)
        BY <3>1, <3>2
      <3> QED BY <3>3
    <2> QED BY <1>1, <2>1, <2>2
  <1> HIDE DEF T
  <1>4. 0 .. m \subseteq T
    BY <1>1, <1>2, <1>3, UpTo
  <1>5. m \in T
    BY <1>1, <1>4
  <1> QED BY <1>1, <1>5 DEF T

\* Arguments in a buffer at the cells a, up to a cell.
Lies(b, start, arg) == \A c \in 1 .. Len(arg) : b[start + c - 1] = arg[c]
Holds(b, a, arguments, last) == \A j \in 1 .. Len(a) :
    /\ a[j] + Len(arguments[j]) <= last /\ b[a[j] + Len(arguments[j])] = NUL
    /\ Lies(b, a[j], arguments[j])

\* The loop has seen k arguments and i cells: it is between two tokens, or
\* within the k-th argument, or argv is full.
Between(s, arguments, k, i) ==
    /\ ~s.in_token /\ ~s.in_quotes /\ Len(s.argv) = k
    /\ Holds(s.buffer, s.argv, arguments, i)
Within(s, arguments, k, i) ==
    /\ s.in_token /\ ~s.in_quotes /\ Len(s.argv) = k - 1
    /\ Holds(s.buffer, s.argv, arguments, s.arg_start - 1)
    /\ s.arg_start + Len(arguments[k]) = i + 1 /\ arguments[k] # <<>>
    /\ Lies(s.buffer, s.arg_start, arguments[k])
Complete(s, arguments, k, i) ==
    /\ B!Full(Len(s.argv)) /\ Len(s.argv) <= k
    /\ Holds(s.buffer, s.argv, arguments, i)
After(s, arguments, k, i) == \/ Between(s, arguments, k, i)
                             \/ k > 0 /\ Within(s, arguments, k, i)
                             \/ Complete(s, arguments, k, i)

Argument  == Seq(Typeable \ {B!QUOTE})
Arguments == Seq(Argument)

LEMMA HoldsGrows ==
    ASSUME NEW n \in Nat, NEW b, NEW a \in Seq(1 .. n), NEW arguments \in Arguments,
           Len(a) <= Len(arguments), NEW m \in Int, NEW last \in Int, m <= last,
           Holds(b, a, arguments, m)
    PROVE  Holds(b, a, arguments, last)
  <1> SUFFICES ASSUME NEW j \in 1 .. Len(a)
               PROVE  a[j] + Len(arguments[j]) <= last
    BY DEF Holds
  <1>1. a[j] \in Int /\ j \in 1 .. Len(arguments) /\ arguments[j] \in Argument
    BY DEF Arguments
  <1>2. Len(arguments[j]) \in Int
    BY <1>1 DEF Argument
  <1>3. a[j] + Len(arguments[j]) <= m
    BY DEF Holds
  <1> QED BY <1>1, <1>2, <1>3

\* A token that is ended behind its argument joins the others.
LEMMA HoldsEnds ==
    ASSUME NEW n \in Nat, NEW b \in [1 .. n -> Chars], NEW a \in Seq(1 .. n),
           NEW arguments \in Arguments, Len(a) < Len(arguments),
           NEW start \in 1 .. n, NEW i \in 1 .. n,
           start + Len(arguments[Len(a) + 1]) = i,
           Lies(b, start, arguments[Len(a) + 1]),
           Holds(b, a, arguments, start - 1)
    PROVE  Holds([b EXCEPT ![i] = NUL], Append(a, start), arguments, i)
  <1> DEFINE c == [b EXCEPT ![i] = NUL]
             d == Append(a, start)
             k == Len(a) + 1
  <1>1. c[i] = NUL /\ \A e \in 1 .. n : e # i => c[e] = b[e]
    OBVIOUS
  <1>2. /\ Len(d) = k /\ Len(a) \in Nat /\ d[k] = start
        /\ \A j \in 1 .. Len(a) : d[j] = a[j] /\ a[j] \in 1 .. n
    OBVIOUS
  <1>3. \A j \in 1 .. k : arguments[j] \in Argument /\ Len(arguments[j]) \in Nat
    <2>1. \A j \in 1 .. k : arguments[j] \in Argument
      BY DEF Arguments
    <2> QED BY <2>1 DEF Argument
  <1> HIDE DEF c, d
  <1> SUFFICES ASSUME NEW j \in 1 .. Len(d)
               PROVE  /\ d[j] + Len(arguments[j]) <= i
                      /\ c[d[j] + Len(arguments[j])] = NUL
                      /\ Lies(c, d[j], arguments[j])
    BY DEF Holds, c, d
  <1>4. CASE j = k
    <2>1. d[j] + Len(arguments[j]) = i
      BY <1>2, <1>4
    <2>2. Lies(c, start, arguments[k])
      <3> SUFFICES ASSUME NEW e \in 1 .. Len(arguments[k])
                   PROVE  c[start + e - 1] = arguments[k][e]
        BY DEF Lies
      <3>1. start + e - 1 \in 1 .. n /\ start + e - 1 # i
        BY <1>3
      <3> QED BY <1>1, <3>1 DEF Lies
    <2> QED BY <1>1, <1>2, <1>4, <2>1, <2>2
  <1>5. CASE j \in 1 .. Len(a)
    <2>1. /\ a[j] + Len(arguments[j]) <= start - 1
          /\ b[a[j] + Len(arguments[j])] = NUL /\ Lies(b, a[j], arguments[j])
      BY <1>5 DEF Holds
    <2>2. a[j] \in 1 .. n /\ d[j] = a[j] /\ Len(arguments[j]) \in Nat /\ start <= i
      BY <1>2, <1>3, <1>5
    <2>3. Lies(c, a[j], arguments[j])
      <3> SUFFICES ASSUME NEW e \in 1 .. Len(arguments[j])
                   PROVE  c[a[j] + e - 1] = arguments[j][e]
        BY DEF Lies
      <3> DEFINE x == a[j]
                 l == Len(arguments[j])
      <3>0. /\ x \in 1 .. n /\ l \in Nat /\ e \in 1 .. l /\ x + l <= start - 1
            /\ start <= i /\ i \in 1 .. n /\ start \in 1 .. n
        BY <2>1, <2>2
      <3> HIDE DEF x, l
      <3>2. x + e - 1 \in 1 .. n /\ x + e - 1 # i
        BY <3>0
      <3>1. a[j] + e - 1 \in 1 .. n /\ a[j] + e - 1 # i
        BY <3>2 DEF x
      <3> QED BY <1>1, <2>1, <3>1 DEF Lies
    <2>4. /\ a[j] + Len(arguments[j]) \in 1 .. n /\ a[j] + Len(arguments[j]) # i
          /\ a[j] + Len(arguments[j]) <= i
      <3> DEFINE x == a[j]
                 l == Len(arguments[j])
      <3>1. x \in 1 .. n /\ l \in Nat /\ x + l <= start - 1 /\ start <= i /\ i \in 1 .. n
        BY <2>1, <2>2
      <3> HIDE DEF x, l
      <3>2. x + l \in 1 .. n /\ x + l # i /\ x + l <= i
        BY <3>1
      <3> QED BY <3>2 DEF x, l
    <2>5. c[a[j] + Len(arguments[j])] = NUL
      BY <1>1, <2>1, <2>4
    <2> QED BY <2>2, <2>3, <2>4, <2>5
  <1> QED BY <1>2, <1>4, <1>5

\* The loop's state after some cells, as it is needed below.
LEMMA ScanIs ==
    ASSUME NEW text \in Texts, NEW i \in 0 .. Len(text)
    PROVE  LET n == Len(text)
               s == B!Scan(text, i) IN
           /\ n \in Nat /\ i \in 0 .. n /\ s \in States(n)
           /\ s.buffer \in [1 .. n + 1 -> Chars] /\ s.argv \in Seq(1 .. n + 1)
           /\ s.arg_start \in 1 .. n + 1
           /\ s.in_quotes \in BOOLEAN /\ s.in_token \in BOOLEAN
           /\ \A j \in i + 1 .. n : s.buffer[j] = text[j]
           /\ s.in_token => ~B!Full(Len(s.argv))
           /\ s.buffer[n + 1] = NUL
           /\ i < n => B!Scan(text, i + 1) = B!Cell(s, i + 1)
  <1> DEFINE n == Len(text)
             s == B!Scan(text, i)
  <1>1. n \in Nat /\ s \in States(n) /\ InLoop(text, s, i)
    BY ScanSteps, ScanInLoop DEF Texts
  <1>2. i < n => B!Scan(text, i + 1) = B!Cell(s, i + 1)
    <2> SUFFICES ASSUME i < n
                 PROVE  B!Scan(text, i + 1) = B!Cell(s, i + 1)
      OBVIOUS
    <2>1. i + 1 \in 1 .. n /\ (i + 1) - 1 = i
      BY <1>1
    <2>2. \A k \in 1 .. n : B!Scan(text, k) = B!Cell(B!Scan(text, k - 1), k)
      BY ScanSteps
    <2> QED BY <2>1, <2>2
  <1> HIDE DEF s
  <1>3. /\ s.buffer \in [1 .. n + 1 -> Chars] /\ s.argv \in Seq(1 .. n + 1)
        /\ s.arg_start \in 1 .. n + 1
        /\ s.in_quotes \in BOOLEAN /\ s.in_token \in BOOLEAN
    BY <1>1 DEF States, Fields
  <1>4. /\ \A j \in i + 1 .. n : s.buffer[j] = text[j]
        /\ s.in_token => ~B!Full(Len(s.argv))
        /\ s.buffer[n + 1] = NUL
    BY <1>1 DEF InLoop
  <1> QED BY <1>1, <1>2, <1>3, <1>4 DEF s

LEMMA ArgumentIs ==
    ASSUME NEW arguments \in Arguments, NEW k \in 1 .. Len(arguments)
    PROVE  /\ arguments[k] \in Argument /\ Len(arguments[k]) \in Nat
           /\ \A c \in 1 .. Len(arguments[k]) :
                /\ arguments[k][c] \in Chars
                /\ arguments[k][c] # NUL /\ arguments[k][c] # B!QUOTE
  <1>1. arguments[k] \in Argument
    BY DEF Arguments
  <1> DEFINE arg == arguments[k]
  <1> HIDE DEF arg
  <1>2. arg \in Argument
    BY <1>1 DEF arg
  <1>3. Len(arg) \in Nat /\ \A c \in 1 .. Len(arg) : arg[c] \in Typeable \ {B!QUOTE}
    BY <1>2 DEF Argument
  <1>4. \A c \in Typeable \ {B!QUOTE} : c \in Chars /\ c # NUL /\ c # B!QUOTE
    BY LineAssumption DEF Chars
  <1> QED BY <1>2, <1>3, <1>4 DEF arg

\* A blank behind an argument ends it, if a quote has not.
LEMMA BlankEnds ==
    ASSUME NEW text \in Texts, NEW i \in 1 .. Len(text), text[i] \in B!isspace,
           NEW arguments \in Arguments, NEW k \in 0 .. Len(arguments),
           After(B!Scan(text, i - 1), arguments, k, i - 1)
    PROVE  \/ Between(B!Scan(text, i), arguments, k, i)
           \/ Complete(B!Scan(text, i), arguments, k, i)
  <1> DEFINE n == Len(text)
             s == B!Scan(text, i - 1)
             t == B!Scan(text, i)
  <1>0. n \in Nat /\ i \in 1 .. n /\ Len(arguments) \in Nat
        /\ k \in 0 .. Len(arguments) /\ k \in Nat
    BY DEF Texts, Arguments
  <1>1. /\ n \in Nat /\ s \in States(n)
        /\ s.buffer \in [1 .. n + 1 -> Chars] /\ s.argv \in Seq(1 .. n + 1)
        /\ s.arg_start \in 1 .. n + 1 /\ s.buffer[i] = text[i]
        /\ s.in_token => ~B!Full(Len(s.argv))
        /\ t = B!Cell(s, i)
    <2>1. i - 1 \in 0 .. n /\ i - 1 < n /\ (i - 1) + 1 = i /\ i \in (i - 1) + 1 .. n
      BY <1>0
    <2> QED BY <2>1, ScanIs, ScanSteps, Zenon
  <1>2. s.buffer[i] \in B!isspace /\ s.buffer[i] # B!QUOTE
    <2>1. \A c \in B!isspace : c # B!QUOTE
      BY DEF B!isspace, B!QUOTE
    <2> QED BY <1>1, <2>1
  <1>3. /\ i - 1 \in Int /\ i \in Int /\ i - 1 <= i /\ n + 1 \in Nat
        /\ i \in 1 .. n /\ i \in 1 .. n + 1 /\ Len(s.argv) \in Nat
    BY <1>0, <1>1
  <1>4. After(s, arguments, k, i - 1)
    OBVIOUS
  <1> SUFFICES Between(t, arguments, k, i) \/ Complete(t, arguments, k, i)
    OBVIOUS
  <1> HIDE DEF n, s, t
  <1>5. ASSUME Between(s, arguments, k, i - 1) \/ Complete(s, arguments, k, i - 1)
        PROVE  Between(t, arguments, k, i) \/ Complete(t, arguments, k, i)
    <2>1. Len(s.argv) <= k /\ Holds(s.buffer, s.argv, arguments, i - 1)
      BY <1>0, <1>3, <1>5 DEF Between, Complete
    <2>2. Holds(s.buffer, s.argv, arguments, i)
      <3>1. Len(s.argv) <= Len(arguments)
        BY <1>0, <1>3, <2>1
      <3> QED BY <1>1, <1>3, <2>1, <3>1, HoldsGrows
    <2>3. t = s
      BY <1>1, <1>2, <1>5, CellSkips DEF Between, Complete
    <2> QED BY <1>5, <2>2, <2>3 DEF Between, Complete
  <1>6. CASE k > 0 /\ Within(s, arguments, k, i - 1)
    <2>1. /\ s.in_token /\ ~s.in_quotes /\ Len(s.argv) = k - 1
          /\ s.arg_start + Len(arguments[k]) = (i - 1) + 1
          /\ Lies(s.buffer, s.arg_start, arguments[k])
          /\ Holds(s.buffer, s.argv, arguments, s.arg_start - 1)
      BY <1>6 DEF Within
    <2>2. Ends(s, t, i)
      BY <1>1, <1>2, <1>3, <2>1, CellEnds
    <2>3. Len(s.argv) + 1 = k /\ Len(s.argv) < Len(arguments)
          /\ s.arg_start + Len(arguments[k]) = i
      BY <1>0, <1>3, <2>1
    <2>4. Holds([s.buffer EXCEPT ![i] = NUL], Append(s.argv, s.arg_start), arguments, i)
      BY <1>1, <1>3, <2>1, <2>3, HoldsEnds
    <2>5. Len(Append(s.argv, s.arg_start)) = k
      <3>1. Len(Append(s.argv, s.arg_start)) = Len(s.argv) + 1
        BY <1>1
      <3> QED BY <2>3, <3>1
    <2> QED BY <2>2, <2>4, <2>5 DEF Ends, Between
  <1> QED BY <1>4, <1>5, <1>6 DEF After

LEMMA QuotedIs ==
    ASSUME NEW arg \in Argument
    PROVE  \/ /\ Quoted(arg) = arg /\ arg # <<>>
              /\ \A c \in 1 .. Len(arg) : arg[c] \notin B!isspace
           \/ /\ Len(Quoted(arg)) = Len(arg) + 2
              /\ Quoted(arg)[1] = B!QUOTE /\ Quoted(arg)[Len(arg) + 2] = B!QUOTE
              /\ \A c \in 1 .. Len(arg) : Quoted(arg)[c + 1] = arg[c]
  <1> DEFINE q == B!QUOTE
             quoted == <<q>> \o arg \o <<q>>
  <1>1. \/ Quoted(arg) = arg /\ arg # <<>>
           /\ \A c \in DOMAIN arg : arg[c] \notin B!isspace
        \/ Quoted(arg) = quoted
    BY DEF Quoted
  <1> HIDE DEF q
  <1>2. arg \in Seq(Typeable \ {B!QUOTE}) /\ DOMAIN arg = 1 .. Len(arg)
        /\ Len(arg) \in Nat
    BY DEF Argument
  <1>3. /\ Len(quoted) = Len(arg) + 2
        /\ quoted[1] = q /\ quoted[Len(arg) + 2] = q
        /\ \A c \in 1 .. Len(arg) : quoted[c + 1] = arg[c]
    BY <1>2
  <1> HIDE DEF quoted
  <1> QED BY <1>1, <1>2, <1>3 DEF q

\* The loop goes through an argument as it is typed.
LEMMA QuotedScan ==
    ASSUME NEW text \in Texts, NEW i \in 0 .. Len(text),
           NEW arguments \in Arguments, NEW k \in 1 .. Len(arguments),
           NEW m \in i .. Len(text), m = i + Len(Quoted(arguments[k])),
           \A c \in 1 .. Len(Quoted(arguments[k])) :
                text[i + c] = Quoted(arguments[k])[c],
           \/ Between(B!Scan(text, i), arguments, k - 1, i)
           \/ Complete(B!Scan(text, i), arguments, k - 1, i)
    PROVE  After(B!Scan(text, m), arguments, k, m)
  <1> DEFINE n == Len(text)
             s == B!Scan(text, i)
             arg == arguments[k]
             quoted == Quoted(arg)
  <1>1. /\ n \in Nat /\ i \in Nat /\ m \in Nat /\ i <= m /\ m <= n
        /\ k \in Nat /\ k >= 1 /\ k <= Len(arguments) /\ Len(arguments) \in Nat
    BY DEF Texts, Arguments
  <1>2. /\ arg \in Argument /\ Len(arg) \in Nat
        /\ \A c \in 1 .. Len(arg) : arg[c] # B!QUOTE
    BY ArgumentIs
  <1>3. /\ s \in States(n) /\ s.buffer \in [1 .. n + 1 -> Chars]
        /\ s.argv \in Seq(1 .. n + 1) /\ Len(s.argv) \in Nat
        /\ \A j \in i + 1 .. n : s.buffer[j] = text[j]
    BY ScanIs
  <1>4. (~s.in_token /\ ~s.in_quotes) \/ B!Full(Len(s.argv))
    BY DEF Between, Complete
  <1>5. Len(s.argv) <= k - 1 /\ Holds(s.buffer, s.argv, arguments, i)
    BY <1>1, <1>3 DEF Between, Complete
  <1>6. CASE B!Full(Len(s.argv))
    <2>1. \A j \in i + 1 .. m : B!Cell(s, j) = s
      BY <1>6, CellSkips
    <2>2. B!Scan(text, m) = s
      BY <2>1, Stays
    <2>3. Holds(s.buffer, s.argv, arguments, m)
      <3>1. Len(s.argv) <= Len(arguments) /\ n + 1 \in Nat /\ i \in Int /\ m \in Int
        BY <1>1, <1>3, <1>5
      <3> QED BY <1>1, <1>3, <1>5, <3>1, HoldsGrows
    <2>4. Len(s.argv) <= k
      BY <1>1, <1>3, <1>5
    <2> QED BY <1>6, <2>2, <2>3, <2>4 DEF After, Complete
  <1>7. CASE ~B!Full(Len(s.argv))
    <2>1. ~s.in_token /\ ~s.in_quotes /\ Len(s.argv) = k - 1
      BY <1>7 DEF Between, Complete
    <2>2. \A c \in 1 .. Len(quoted) : text[i + c] = quoted[c] /\ i + c \in i + 1 .. n
      BY <1>1
    <2> DEFINE r == B!Scan(text, i + 1)
    <2>3. /\ i < n => r = B!Cell(s, i + 1)
      BY ScanIs
    <2>4. CASE quoted = arg /\ arg # <<>> /\ \A c \in 1 .. Len(arg) : arg[c] \notin B!isspace
      <3>1. Len(arg) >= 1 /\ m = i + Len(arg) /\ i < n /\ i + 1 \in 1 .. n
            /\ i + 1 \in i + 1 .. n /\ 1 \in 1 .. Len(arg)
        BY <1>1, <1>2, <2>4 DEF Argument
      <3>2. s.buffer[i + 1] = arg[1]
        BY <1>3, <2>2, <2>4, <3>1
      <3>3. s.buffer[i + 1] \notin B!isspace \cup {B!QUOTE}
        BY <1>2, <2>4, <3>1, <3>2
      <3>4. Begins(s, r, i + 1) /\ r.in_quotes = FALSE
        <4>1. r = B!Cell(s, i + 1)
          BY <2>3, <3>1
        <4> HIDE DEF s, r, n
        <4>2. Begins(s, B!Cell(s, i + 1), i + 1) /\ B!Cell(s, i + 1).in_quotes = FALSE
          BY <1>1, <1>3, <1>7, <2>1, <3>1, <3>3, CellBegins
        <4> QED BY <4>1, <4>2
      <3>5. /\ r.buffer = s.buffer /\ r.argv = s.argv /\ r.in_token = TRUE
            /\ r.arg_start = i + 1 /\ r.in_quotes = FALSE
        BY <3>4 DEF Begins
      <3>6. \A j \in (i + 1) + 1 .. m : B!Cell(r, j) = r
        <4> SUFFICES ASSUME NEW j \in (i + 1) + 1 .. m
                     PROVE  B!Cell(r, j) = r
          OBVIOUS
        <4>1. j - i \in 1 .. Len(arg) /\ i + (j - i) = j /\ j \in i + 1 .. n
          BY <1>1, <1>2, <3>1
        <4>2. r.buffer[j] = arg[j - i]
          BY <1>3, <2>2, <2>4, <3>5, <4>1
        <4>3. r.buffer[j] # B!QUOTE /\ r.buffer[j] \notin B!isspace
          BY <1>2, <2>4, <4>1, <4>2
        <4> QED BY <3>5, <4>3, CellSkips
      <3>7. B!Scan(text, m) = r
        <4>1. i + 1 \in 0 .. n /\ m \in i + 1 .. n
          BY <1>1, <1>2, <3>1
        <4> QED BY <3>6, <4>1, Stays
      <3>8. Lies(s.buffer, i + 1, arg)
        <4> SUFFICES ASSUME NEW c \in 1 .. Len(arg)
                     PROVE  s.buffer[(i + 1) + c - 1] = arg[c]
          BY DEF Lies
        <4>1. (i + 1) + c - 1 = i + c /\ i + c \in i + 1 .. n /\ text[i + c] = arg[c]
          BY <1>1, <2>2, <2>4
        <4> QED BY <1>3, <4>1
      <3>9. /\ (i + 1) - 1 = i /\ (i + 1) + Len(arg) = m + 1
        <4> DEFINE l == Len(arg)
        <4>1. m = i + l /\ i \in Nat /\ l \in Nat
          BY <1>1, <1>2, <3>1
        <4> HIDE DEF l
        <4>2. (i + 1) - 1 = i /\ (i + 1) + l = m + 1
          BY <4>1
        <4> QED BY <4>2 DEF l
      <3>10. Within(r, arguments, k, m)
        BY <1>5, <2>1, <2>4, <3>5, <3>8, <3>9 DEF Within
      <3> QED BY <1>1, <3>7, <3>10 DEF After
    <2>5. CASE /\ Len(quoted) = Len(arg) + 2
               /\ quoted[1] = B!QUOTE /\ quoted[Len(arg) + 2] = B!QUOTE
               /\ \A c \in 1 .. Len(arg) : quoted[c + 1] = arg[c]
      <3>1. /\ m = i + Len(arg) + 2 /\ i < n /\ i + 1 \in 1 .. n
            /\ i + 1 \in i + 1 .. n /\ 1 \in 1 .. Len(quoted)
            /\ Len(arg) + 2 \in 1 .. Len(quoted) /\ i + (Len(arg) + 2) = m
        BY <1>1, <1>2, <2>5
      <3>2. s.buffer[i + 1] = B!QUOTE /\ s.buffer[m] = B!QUOTE
        <4>1. text[i + 1] = B!QUOTE /\ text[m] = B!QUOTE /\ m \in i + 1 .. n
          BY <1>1, <1>2, <2>2, <2>5, <3>1
        <4> QED BY <1>3, <3>1, <4>1
      <3>3. Begins(s, r, i + 2) /\ r.in_quotes = TRUE
        <4>1. (i + 1) + 1 = i + 2
          BY <1>1
        <4>2. r = B!Cell(s, i + 1)
          BY <2>3, <3>1
        <4> HIDE DEF s, r, n
        <4>3. Begins(s, B!Cell(s, i + 1), (i + 1) + 1) /\ B!Cell(s, i + 1).in_quotes = TRUE
          BY <1>1, <1>3, <1>7, <2>1, <3>1, <3>2, CellBegins
        <4> QED BY <4>1, <4>2, <4>3
      <3>4. /\ r.buffer = s.buffer /\ r.argv = s.argv /\ r.in_token = TRUE
            /\ r.arg_start = i + 2 /\ r.in_quotes = TRUE
        BY <3>3 DEF Begins
      <3>5. \A c \in 1 .. Len(arg) : s.buffer[(i + 2) + c - 1] = arg[c]
        <4> SUFFICES ASSUME NEW c \in 1 .. Len(arg)
                     PROVE  s.buffer[(i + 2) + c - 1] = arg[c]
          OBVIOUS
        <4> DEFINE l == Len(arg)
                   z == Len(quoted)
        <4>0. z = l + 2 /\ l \in Nat /\ i \in Nat /\ c \in 1 .. l
          BY <1>1, <1>2, <2>5
        <4> HIDE DEF l, z
        <4>01. (i + 2) + c - 1 = i + (c + 1) /\ c + 1 \in 1 .. z
          BY <4>0
        <4>1. (i + 2) + c - 1 = i + (c + 1) /\ c + 1 \in 1 .. Len(quoted)
          BY <4>01 DEF z
        <4>2. text[i + (c + 1)] = arg[c] /\ i + (c + 1) \in i + 1 .. n
          BY <2>2, <2>5, <4>1
        <4> QED BY <1>3, <4>1, <4>2
      <3>6. \A j \in (i + 1) + 1 .. m - 1 : B!Cell(r, j) = r
        <4> SUFFICES ASSUME NEW j \in (i + 1) + 1 .. m - 1
                     PROVE  B!Cell(r, j) = r
          OBVIOUS
        <4>1. j - i - 1 \in 1 .. Len(arg) /\ (i + 2) + (j - i - 1) - 1 = j
          BY <1>1, <1>2, <3>1
        <4>2. r.buffer[j] = arg[j - i - 1]
          BY <3>4, <3>5, <4>1
        <4>3. r.buffer[j] # B!QUOTE
          BY <1>2, <4>1, <4>2
        <4> QED BY <3>4, <4>3, CellSkips
      <3>7. B!Scan(text, m - 1) = r
        <4>1. i + 1 \in 0 .. n /\ m - 1 \in i + 1 .. n
          BY <1>1, <1>2, <3>1
        <4> QED BY <3>6, <4>1, Stays
      <3> DEFINE t == B!Scan(text, m)
      <3>8. Ends(r, t, m)
        <4>1. /\ m - 1 \in 0 .. n /\ m - 1 < n /\ (m - 1) + 1 = m /\ m \in 1 .. n
          BY <1>1, <1>2, <3>1
        <4>2. t = B!Cell(r, m) /\ r \in States(n)
          BY <3>7, <4>1, ScanIs
        <4>3. r.in_token /\ r.in_quotes /\ r.buffer[m] = B!QUOTE /\ ~B!Full(Len(r.argv))
          BY <1>7, <3>2, <3>4
        <4> HIDE DEF r, t
        <4> QED BY <1>1, <4>1, <4>2, <4>3, CellEnds
      <3>9. /\ t.buffer = [s.buffer EXCEPT ![m] = NUL]
            /\ t.argv = Append(s.argv, i + 2) /\ ~t.in_token /\ ~t.in_quotes
        BY <3>4, <3>8 DEF Ends
      <3>10. Holds(t.buffer, t.argv, arguments, m)
        <4>1. /\ Len(s.argv) + 1 = k /\ Len(s.argv) < Len(arguments)
              /\ i + 2 \in 1 .. n + 1 /\ m \in 1 .. n + 1 /\ (i + 2) + Len(arg) = m
              /\ n + 1 \in Nat /\ i \in Int /\ (i + 2) - 1 \in Int /\ i <= (i + 2) - 1
              /\ Len(s.argv) <= Len(arguments)
          <5> DEFINE l == Len(arg)
                     a == Len(s.argv)
                     z == Len(arguments)
          <5>1. /\ m = i + l + 2 /\ i \in Nat /\ m \in Nat /\ n \in Nat /\ l \in Nat
                /\ m <= n /\ a = k - 1 /\ k \in Nat /\ k <= z /\ z \in Nat
            BY <1>1, <1>2, <2>1, <3>1
          <5> HIDE DEF l, a, z
          <5>2. /\ a + 1 = k /\ a < z
                /\ i + 2 \in 1 .. n + 1 /\ m \in 1 .. n + 1 /\ (i + 2) + l = m
                /\ n + 1 \in Nat /\ i \in Int /\ (i + 2) - 1 \in Int
                /\ i <= (i + 2) - 1 /\ a <= z
            BY ONLY <5>1
          <5> QED BY <5>2 DEF l, a, z
        <4>2. Holds(s.buffer, s.argv, arguments, (i + 2) - 1)
          BY <1>3, <1>5, <4>1, HoldsGrows
        <4>3. Lies(s.buffer, i + 2, arg)
          BY <3>5 DEF Lies
        <4> DEFINE start == i + 2
        <4> HIDE DEF start
        <4>4. /\ start \in 1 .. n + 1 /\ start + Len(arguments[Len(s.argv) + 1]) = m
              /\ Lies(s.buffer, start, arguments[Len(s.argv) + 1])
              /\ Holds(s.buffer, s.argv, arguments, start - 1)
          BY <4>1, <4>2, <4>3 DEF start
        <4>5. Holds([s.buffer EXCEPT ![m] = NUL], Append(s.argv, start), arguments, m)
          BY <1>3, <4>1, <4>4, HoldsEnds
        <4> QED BY <3>9, <4>5 DEF start
      <3>11. Len(t.argv) = k
        <4>1. Len(Append(s.argv, i + 2)) = Len(s.argv) + 1
          BY <1>3
        <4> QED BY <1>1, <2>1, <3>9, <4>1
      <3> QED BY <3>9, <3>10, <3>11 DEF After, Between
    <2> QED BY <1>2, <2>4, <2>5, QuotedIs
  <1> QED BY <1>6, <1>7

\* Typed arguments as a function of how many there are.
Wide == Chars \cup {" ", B!QUOTE}
Gap(k) == IF k = 1 THEN <<>> ELSE <<" ">>

LEMMA GapType ==
    ASSUME NEW k
    PROVE  /\ Gap(k) \in Seq(Wide) /\ Len(Gap(k)) = IF k = 1 THEN 0 ELSE 1
           /\ k # 1 => Gap(k)[1] \in B!isspace
  <1> DEFINE c == " "
  <1>1. c \in Wide /\ c \in B!isspace
    BY DEF Wide, B!isspace
  <1>2. Gap(k) = IF k = 1 THEN <<>> ELSE <<c>>
    BY DEF Gap
  <1> HIDE DEF c
  <1> QED BY <1>1, <1>2

LEMMA QuotedType ==
    ASSUME NEW arg \in Argument
    PROVE  Quoted(arg) \in Seq(Wide) /\ Len(Quoted(arg)) \in Nat
  <1> DEFINE q == B!QUOTE
  <1>1. Quoted(arg) \in {arg, <<q>> \o arg \o <<q>>}
    BY DEF Quoted
  <1>2. q \in Wide /\ arg \in Seq(Wide)
    <2>1. \A S, T : S \subseteq T => Seq(S) \subseteq Seq(T)
      OBVIOUS
    <2>2. Typeable \ {B!QUOTE} \subseteq Wide
      BY DEF Wide, Chars
    <2>3. arg \in Seq(Wide)
      BY <2>1, <2>2 DEF Argument
    <2> QED BY <2>3 DEF Wide
  <1> HIDE DEF q
  <1>3. <<q>> \o arg \o <<q>> \in Seq(Wide)
    BY <1>2
  <1> QED BY <1>1, <1>2, <1>3

LEMMA TypedSteps ==
    ASSUME NEW arguments \in Arguments
    PROVE  /\ TypedTo(arguments, 0) = <<>>
           /\ \A k \in 0 .. Len(arguments) : TypedTo(arguments, k) \in Seq(Wide)
           /\ \A k \in 1 .. Len(arguments) :
                TypedTo(arguments, k) = (TypedTo(arguments, k - 1) \o Gap(k))
                                        \o Quoted(arguments[k])
  <1> DEFINE n == Len(arguments)
             S == Seq(Wide)
             More(t, k) == (t \o Gap(k)) \o Quoted(arguments[k])
             step == [p \in (1 .. n) \X S |-> More(p[2], p[1])]
             Types(f) == f = [k \in 0 .. n |-> IF k = 0 THEN <<>> ELSE More(f[k - 1], k)]
             line == CHOOSE f : Types(f)
  <1>1. n \in Nat /\ <<>> \in S
    BY DEF Arguments
  <1>0. \A k \in 1 .. n, t \in S : More(t, k) \in S
    <2> SUFFICES ASSUME NEW k \in 1 .. n, NEW t \in S
                 PROVE  More(t, k) \in S
      OBVIOUS
    <2>1. Quoted(arguments[k]) \in S /\ Gap(k) \in S
      BY ArgumentIs, QuotedType, GapType
    <2> HIDE DEF S
    <2>2. \A u, v \in S : u \o v \in S
      BY DEF S
    <2> QED BY <2>1, <2>2
  <1>4. \A k : TypedTo(arguments, k) = line[k]
    BY DEF TypedTo, Gap
  <1> HIDE DEF More
  <1>2. step \in [(1 .. n) \X S -> S]
    BY <1>0, <1>1
  <1>3. \A k \in 1 .. n, t \in S : step[<<k, t>>] = More(t, k)
    OBVIOUS
  <1> HIDE DEF step, S
  <1>5. PICK f \in [0 .. n -> S] : Follows(f, n, <<>>, step)
    BY <1>1, <1>2, Recursive
  <1>6. Types(f)
    <2>1. \A k \in 1 .. n : f[k] = More(f[k - 1], k)
      <3> SUFFICES ASSUME NEW k \in 1 .. n
                   PROVE  f[k] = More(f[k - 1], k)
        OBVIOUS
      <3>1. k - 1 \in 0 .. n /\ f[k - 1] \in S
        BY <1>1
      <3> QED BY <1>3, <1>5, <3>1 DEF Follows
    <2>2. \A k \in 0 .. n : k # 0 => k \in 1 .. n
      BY <1>1
    <2>3. f[0] = <<>>
      BY <1>5 DEF Follows
    <2> QED BY <2>1, <2>2, <2>3
  <1>7. Types(line)
    <2> HIDE DEF Types
    <2> QED BY <1>6
  <1> HIDE DEF line
  <1>8. line[0] = <<>>
    BY <1>1, <1>7
  <1>9. \A k \in 1 .. n : line[k] = More(line[k - 1], k)
    <2> SUFFICES ASSUME NEW k \in 1 .. n
                 PROVE  line[k] = More(line[k - 1], k)
      OBVIOUS
    <2>1. k \in 0 .. n /\ k # 0
      BY <1>1
    <2> QED BY <1>7, <2>1, Zenon
  <1> DEFINE T == {k \in 0 .. n : line[k] \in S}
  <1>10. 0 \in T
    BY <1>1, <1>8
  <1>11. ASSUME NEW k \in 1 .. n, k - 1 \in T
         PROVE  k \in T
    <2>1. line[k] = More(line[k - 1], k) /\ line[k - 1] \in S
      BY <1>9, <1>11
    <2>2. line[k] \in S
      BY <1>0, <2>1
    <2> QED BY <2>2
  <1> HIDE DEF T
  <1>12. 0 .. n \subseteq T
    BY <1>1, <1>10, <1>11, UpTo
  <1>13. \A k \in 0 .. n : line[k] \in S
    BY <1>12 DEF T
  <1> QED BY <1>4, <1>8, <1>9, <1>13 DEF S, More

\* What is typed first is where it was when more has been typed.
LEMMA TypedGrows ==
    ASSUME NEW arguments \in Arguments, NEW k \in 0 .. Len(arguments)
    PROVE  LET all == Typed(arguments)
               t   == TypedTo(arguments, k)
           IN Len(t) <= Len(all) /\ \A c \in 1 .. Len(t) : all[c] = t[c]
  <1> DEFINE n == Len(arguments)
             t(j) == TypedTo(arguments, j)
             Grown(j) == Len(t(k)) <= Len(t(j)) /\ \A c \in 1 .. Len(t(k)) : t(j)[c] = t(k)[c]
             T == {j \in 0 .. n : j < k \/ Grown(j)}
  <1>1. n \in Nat /\ k \in 0 .. n /\ Typed(arguments) = t(n)
    BY DEF Typed, Arguments
  <1>2. \A j \in 0 .. n : t(j) \in Seq(Wide) /\ Len(t(j)) \in Nat
    BY TypedSteps
  <1>3. 0 \in T
    BY <1>1, <1>2
  <1>4. ASSUME NEW j \in 1 .. n, j - 1 \in T
        PROVE  j \in T
    <2>1. CASE j < k
      BY <1>1, <2>1
    <2>2. CASE j = k
      BY <1>1, <1>2, <2>2
    <2>3. CASE j > k
      <3>1. Grown(j - 1)
        BY <1>1, <1>4, <2>3
      <3> DEFINE old == t(j - 1)
                 mid == old \o Gap(j)
                 q == Quoted(arguments[j])
      <3>2. old \in Seq(Wide) /\ Gap(j) \in Seq(Wide) /\ q \in Seq(Wide)
        BY <1>1, <1>2, GapType, ArgumentIs, QuotedType
      <3>3. t(j) = mid \o q
        BY TypedSteps
      <3> HIDE DEF old, q
      <3>4. /\ mid \in Seq(Wide) /\ Len(mid) >= Len(old)
            /\ \A c \in 1 .. Len(old) : mid[c] = old[c]
        BY <3>2
      <3> HIDE DEF mid
      <3>5. /\ Len(mid \o q) >= Len(old) /\ Len(old) \in Nat
            /\ \A c \in 1 .. Len(old) : (mid \o q)[c] = old[c]
        BY <3>2, <3>4
      <3>6. Len(t(j)) >= Len(old) /\ \A c \in 1 .. Len(old) : t(j)[c] = old[c]
        BY <3>3, <3>5
      <3>7. /\ Len(t(k)) <= Len(old) /\ \A c \in 1 .. Len(t(k)) : old[c] = t(k)[c]
            /\ Len(t(k)) \in Nat
        BY <1>1, <1>2, <3>1 DEF old
      <3>8. Len(t(j)) \in Nat
        BY <1>1, <1>2
      <3>9. Grown(j)
        <4> HIDE DEF t
        <4> QED BY <3>5, <3>6, <3>7, <3>8
      <3> QED BY <3>9
    <2> QED BY <1>1, <2>1, <2>2, <2>3
  <1> HIDE DEF T
  <1>5. 0 .. n \subseteq T
    BY <1>1, <1>3, <1>4, UpTo
  <1>6. Grown(n)
    <2>1. n \in T
      BY <1>1, <1>5
    <2> QED BY <1>1, <2>1 DEF T
  <1> QED BY <1>1, <1>6

\* Where the k-th argument and the blank before it are.
LEMMA TypedAt ==
    ASSUME NEW arguments \in Arguments, NEW k \in 1 .. Len(arguments)
    PROVE  LET all  == Typed(arguments)
               last == Len(TypedTo(arguments, k - 1))
               at   == last + (IF k = 1 THEN 0 ELSE 1)
               quoted == Quoted(arguments[k])
           IN /\ last \in Nat /\ Len(quoted) \in Nat /\ Len(all) \in Nat
              /\ Len(TypedTo(arguments, k)) = at + Len(quoted)
              /\ at + Len(quoted) <= Len(all)
              /\ k # 1 => all[at] \in B!isspace
              /\ \A c \in 1 .. Len(quoted) : all[at + c] = quoted[c]
  <1> DEFINE all == Typed(arguments)
             old == TypedTo(arguments, k - 1)
             new == TypedTo(arguments, k)
             gap == Gap(k)
             q   == Quoted(arguments[k])
             at  == Len(old) + (IF k = 1 THEN 0 ELSE 1)
  <1>1. k - 1 \in 0 .. Len(arguments) /\ k \in 0 .. Len(arguments)
        /\ Len(arguments) \in 0 .. Len(arguments)
    BY DEF Arguments
  <1>2. /\ old \in Seq(Wide) /\ q \in Seq(Wide) /\ new = (old \o gap) \o q
        /\ all \in Seq(Wide)
    BY <1>1, TypedSteps, ArgumentIs, QuotedType DEF Typed
  <1>3. /\ gap \in Seq(Wide) /\ Len(gap) = (IF k = 1 THEN 0 ELSE 1)
        /\ k # 1 => gap[1] \in B!isspace
    BY GapType
  <1>4. Len(new) <= Len(all) /\ \A c \in 1 .. Len(new) : all[c] = new[c]
    BY <1>1, TypedGrows
  <1> HIDE DEF all, old, gap, q, new
  <1> DEFINE mid == old \o gap
  <1>5. /\ Len(mid) = at /\ mid \in Seq(Wide) /\ at \in Nat
        /\ k # 1 => mid[at] = gap[1]
    <2>1. /\ mid \in Seq(Wide) /\ Len(mid) = Len(old) + Len(gap) /\ Len(old) \in Nat
          /\ \A c \in 1 .. Len(gap) : mid[Len(old) + c] = gap[c]
      BY <1>2, <1>3, Concat
    <2>2. k # 1 => at = Len(old) + 1 /\ 1 \in 1 .. Len(gap)
      BY <1>3
    <2>3. at = Len(old) + Len(gap)
      BY <1>3
    <2> HIDE DEF mid, at
    <2> QED BY <1>3, <2>1, <2>2, <2>3
  <1> HIDE DEF mid, at
  <1>6. /\ Len(mid \o q) = at + Len(q) /\ Len(q) \in Nat
        /\ \A c \in 1 .. Len(q) : (mid \o q)[at + c] = q[c]
        /\ \A c \in 1 .. at : (mid \o q)[c] = mid[c]
    <2>1. Len(mid) = at /\ mid \in Seq(Wide)
      BY <1>5
    <2>2. /\ Len(mid \o q) = Len(mid) + Len(q) /\ Len(q) \in Nat
          /\ \A c \in 1 .. Len(q) : (mid \o q)[Len(mid) + c] = q[c]
          /\ \A c \in 1 .. Len(mid) : (mid \o q)[c] = mid[c]
      <3>1. mid \in Seq(Wide) /\ q \in Seq(Wide)
        BY <1>2, <2>1
      <3> QED BY <3>1, Concat
    <2> QED BY <2>1, <2>2
  <1>7. k # 1 => at \in 1 .. at
    BY <1>2, <1>5 DEF at
  <1>8. new = mid \o q
    BY <1>2 DEF mid
  <1>9. k # 1 => all[at] \in B!isspace
    <2> SUFFICES ASSUME k # 1
                 PROVE  all[at] \in B!isspace
      OBVIOUS
    <2>1. at \in 1 .. Len(new) /\ new[at] = mid[at]
      BY <1>5, <1>6, <1>7, <1>8
    <2>2. mid[at] \in B!isspace
      BY <1>3, <1>5 DEF mid
    <2> QED BY <1>4, <2>1, <2>2
  <1>10. \A c \in 1 .. Len(q) : all[at + c] = q[c]
    <2> SUFFICES ASSUME NEW c \in 1 .. Len(q)
                 PROVE  all[at + c] = q[c]
      OBVIOUS
    <2>1. at + c \in 1 .. Len(new) /\ new[at + c] = q[c]
      BY <1>5, <1>6, <1>8
    <2> QED BY <1>4, <2>1
  <1>11. Len(new) = at + Len(q) /\ at + Len(q) <= Len(all)
    BY <1>4, <1>6, <1>8
  <1>12. Len(old) \in Nat /\ Len(all) \in Nat
    BY <1>2
  <1> QED BY <1>6, <1>9, <1>10, <1>11, <1>12 DEF all, old, q, new, at

LEMMA TrimmedSame ==
    ASSUME NEW line \in Texts, line = <<>> \/ line[1] \notin B!isspace
    PROVE  B!Trimmed(line) = line
  <1> DEFINE letters == {k \in DOMAIN line : line[k] \notin B!isspace}
             first   == CHOOSE k \in letters : \A j \in letters : k <= j
  <1>1. DOMAIN line = 1 .. Len(line) /\ Len(line) \in Nat
    BY DEF Texts
  <1>2. B!Trimmed(line) = IF letters = {} THEN <<>> ELSE SubSeq(line, first, Len(line))
    BY DEF B!Trimmed
  <1>3. CASE line = <<>>
    <2>1. letters = {}
      BY <1>3
    <2> QED BY <1>2, <1>3, <2>1
  <1>4. CASE line # <<>> /\ line[1] \notin B!isspace
    <2>1. Len(line) > 0
      BY <1>1, <1>4 DEF Texts
    <2>2. 1 \in letters /\ \A j \in letters : j \in Nat /\ 1 <= j
      BY <1>1, <1>4, <2>1
    <2>3. \A k \in letters : (\A j \in letters : k <= j) => k = 1
      BY <2>2
    <2>4. first = 1
      <3> HIDE DEF letters
      <3> QED BY <2>2, <2>3
    <2>5. SubSeq(line, 1, Len(line)) = line
      BY DEF Texts
    <2> QED BY <1>2, <2>2, <2>4, <2>5
  <1> QED BY <1>3, <1>4

LEMMA TypedBegins ==
    ASSUME NEW arguments \in Arguments
    PROVE  Typed(arguments) = <<>> \/ Typed(arguments)[1] \notin B!isspace
  <1>1. CASE Len(arguments) = 0
    BY <1>1, TypedSteps DEF Typed
  <1>2. CASE Len(arguments) # 0
    <2> DEFINE all == Typed(arguments)
               arg == arguments[1]
               quoted == Quoted(arg)
    <2>1. 1 \in 1 .. Len(arguments) /\ 1 - 1 = 0
      BY <1>2 DEF Arguments
    <2>2. Len(TypedTo(arguments, 0)) = 0
      BY TypedSteps
    <2>3. \A c \in 1 .. Len(quoted) : all[c] = quoted[c]
      <3>1. \A c \in 1 .. Len(quoted) :
              all[(Len(TypedTo(arguments, 1 - 1)) + 0) + c] = quoted[c]
        BY <2>1, TypedAt
      <3> QED BY <2>1, <2>2, <3>1, QuotedType, ArgumentIs
    <2>4. arg \in Argument
      BY <2>1, ArgumentIs
    <2>5. B!QUOTE \notin B!isspace
      BY DEF B!QUOTE, B!isspace
    <2>6. 1 \in 1 .. Len(quoted) /\ quoted[1] \notin B!isspace
      <3> HIDE DEF arg, quoted
      <3>0. Len(arg) \in Nat /\ (arg # <<>> => Len(arg) # 0)
        BY <2>4 DEF Argument
      <3>1. \/ /\ quoted = arg /\ arg # <<>>
               /\ \A c \in 1 .. Len(arg) : arg[c] \notin B!isspace
            \/ Len(quoted) = Len(arg) + 2 /\ quoted[1] = B!QUOTE
        BY <2>4, QuotedIs DEF quoted
      <3> QED BY <2>5, <3>0, <3>1
    <2> QED BY <2>3, <2>6
  <1> QED BY <1>1, <1>2

LEMMA AfterTyped ==
    ASSUME NEW arguments \in Arguments, Typed(arguments) \in Texts
    PROVE  LET all == Typed(arguments) IN
           After(B!Scan(all, Len(all)), arguments, Len(arguments), Len(all))
  <1> DEFINE all  == Typed(arguments)
             n    == Len(arguments)
             l(k) == Len(TypedTo(arguments, k))
             T    == {k \in 0 .. n : After(B!Scan(all, l(k)), arguments, k, l(k))}
  <1>1. n \in Nat /\ l(n) = Len(all) /\ l(0) = 0
    BY TypedSteps DEF Typed, Arguments
  <1>2. 0 \in T
    <2>1. B!Scan(all, 0) = Start(all)
      BY ScanSteps
    <2>2. After(Start(all), arguments, 0, 0)
      BY DEF Start, After, Between, Holds
    <2> HIDE DEF l, all
    <2> QED BY <1>1, <2>1, <2>2
  <1>3. ASSUME NEW k \in 1 .. n, k - 1 \in T
        PROVE  k \in T
    <2> DEFINE at == l(k - 1) + (IF k = 1 THEN 0 ELSE 1)
               q  == Quoted(arguments[k])
    <2>1. /\ l(k - 1) \in Nat /\ Len(q) \in Nat /\ Len(all) \in Nat
          /\ l(k) = at + Len(q) /\ at + Len(q) <= Len(all)
          /\ k # 1 => all[at] \in B!isspace
          /\ \A c \in 1 .. Len(q) : all[at + c] = q[c]
      BY TypedAt
    <2>2. After(B!Scan(all, l(k - 1)), arguments, k - 1, l(k - 1))
      BY <1>3
    <2>3. all \in Texts
      OBVIOUS
    <2> HIDE DEF l, all, q
    <2>4. \/ Between(B!Scan(all, at), arguments, k - 1, at)
          \/ Complete(B!Scan(all, at), arguments, k - 1, at)
      <3>1. CASE k = 1
        <4>1. at = l(k - 1)
          BY <2>1, <3>1
        <4> QED BY <2>2, <3>1, <4>1 DEF After
      <3>2. CASE k # 1
        <4>1. at - 1 = l(k - 1) /\ at \in 1 .. Len(all) /\ k - 1 \in 0 .. n
          BY <1>1, <2>1, <3>2
        <4> HIDE DEF at
        <4>2. After(B!Scan(all, at - 1), arguments, k - 1, at - 1)
          BY <2>2, <4>1
        <4>3. all[at] \in B!isspace
          BY <2>1, <3>2
        <4> QED BY <2>3, <4>1, <4>2, <4>3, BlankEnds
      <3> QED BY <3>1, <3>2
    <2>5. at \in 0 .. Len(all) /\ l(k) \in at .. Len(all)
      BY <2>1
    <2> HIDE DEF at
    <2>6. After(B!Scan(all, l(k)), arguments, k, l(k))
      BY <2>1, <2>3, <2>4, <2>5, QuotedScan DEF q
    <2> QED BY <2>6
  <1> HIDE DEF T
  <1>4. 0 .. n \subseteq T
    BY <1>1, <1>2, <1>3, UpTo
  <1>5. n \in T
    BY <1>1, <1>4
  <1> QED BY <1>1, <1>5 DEF T

LEMMA HeldArgs ==
    ASSUME NEW b \in Seq(Chars), NEW a \in Seq(1 .. Len(b)),
           NEW arguments \in Arguments, Len(a) <= Len(arguments),
           Holds(b, a, arguments, Len(b)), NEW j \in 1 .. Len(a)
    PROVE  B!Arg(b, a[j]) = arguments[j]
  <1> DEFINE arg == arguments[j]
             start == a[j]
             e == start + Len(arg)
  <1>1. /\ Len(arg) \in Nat /\ arg \in Seq(Chars)
        /\ \A c \in 1 .. Len(arg) : arg[c] # NUL
    <2>1. j \in 1 .. Len(arguments)
      BY DEF Arguments
    <2>2. arg \in Seq(Typeable \ {B!QUOTE})
      BY <2>1, ArgumentIs DEF Argument
    <2>3. \A S, V : S \subseteq V => Seq(S) \subseteq Seq(V)
      OBVIOUS
    <2>4. arg \in Seq(Chars)
      BY <2>2, <2>3 DEF Chars
    <2> QED BY <2>1, <2>4, ArgumentIs
  <1>2. start \in 1 .. Len(b) /\ e <= Len(b) /\ b[e] = NUL /\ Lies(b, start, arg)
    BY DEF Holds
  <1> HIDE DEF arg, start
  <1>3. e \in start .. Len(b)
    BY <1>1, <1>2
  <1>4. PICK m \in start .. e : /\ b[m] = NUL
                                /\ B!Arg(b, start) = SubSeq(b, start, m - 1)
    BY <1>2, <1>3, ArgIs
  <1>5. m = e
    <2> SUFFICES ASSUME m # e
                 PROVE  FALSE
      OBVIOUS
    <2>1. m - start + 1 \in 1 .. Len(arg) /\ start + (m - start + 1) - 1 = m
      BY <1>1, <1>2, <1>3, <1>4
    <2>2. b[m] = arg[m - start + 1]
      BY <1>2, <2>1 DEF Lies
    <2> QED BY <1>1, <1>4, <2>1, <2>2
  <1>6. SubSeq(b, start, e - 1) = arg
    <2> DEFINE s == SubSeq(b, start, e - 1)
    <2>1. /\ s \in Seq(Chars) /\ Len(s) = Len(arg)
          /\ \A c \in 1 .. Len(arg) : s[c] = b[start + c - 1]
      BY <1>1, <1>2, <1>3
    <2> HIDE DEF s
    <2>2. \A c \in 1 .. Len(arg) : s[c] = arg[c]
      BY <1>2, <2>1 DEF Lies
    <2>3. s = arg
      BY <1>1, <2>1, <2>2
    <2> QED BY <2>3 DEF s
  <1> QED BY <1>4, <1>5, <1>6 DEF arg, start

\* What the program gets of a line is what the loop has seen of it.
Gets(line, arguments) ==
    LET built == B!build_cmd_buff(line) IN
    [k \in DOMAIN built.argv |-> B!Arg(built.buffer, built.argv[k])]
      = UpToLimit(arguments)

LEMMA SeenArgs ==
    ASSUME NEW line, NEW text \in Texts, B!Trimmed(line) = text,
           NEW arguments \in Arguments,
           After(B!Scan(text, Len(text)), arguments, Len(arguments), Len(text))
    PROVE  Gets(line, arguments)
  <1> DEFINE n == Len(text)
             k == Len(arguments)
             s == B!Scan(text, n)
             b == s.buffer
             a == IF s.in_token THEN Append(s.argv, s.arg_start) ELSE s.argv
             limit == IF k < CMD_ARGV_MAX THEN k ELSE CMD_ARGV_MAX - 1
  <1>1. n \in Nat /\ k \in Nat /\ n \in 0 .. n /\ n + 1 \in Nat /\ n + 1 \in 1 .. n + 1
        /\ CMD_ARGV_MAX \in Nat /\ CMD_ARGV_MAX > 1
    BY BuffAssumption DEF Texts, Arguments
  <1>2. /\ b \in [1 .. n + 1 -> Chars] /\ s.argv \in Seq(1 .. n + 1)
        /\ s.arg_start \in 1 .. n + 1
        /\ s.in_token => ~B!Full(Len(s.argv))
        /\ b[n + 1] = NUL /\ Len(s.argv) \in Nat
    BY <1>1, ScanIs
  <1>3. Len(s.argv) < CMD_ARGV_MAX
    BY <1>1, ScanInLoop DEF InLoop
  <1>4. After(s, arguments, k, n)
    OBVIOUS
  <1>5. /\ B!build_cmd_buff(line).buffer = b /\ B!build_cmd_buff(line).argv = a
    BY DEF B!build_cmd_buff, B!Scanned
  <1> HIDE DEF n, s, b
  <1>6. a \in Seq(1 .. n + 1) /\ Len(a) = limit /\ Holds(b, a, arguments, n + 1)
    <2>1. CASE Between(s, arguments, k, n)
      <3>1. a = s.argv /\ Len(a) = k /\ Holds(b, s.argv, arguments, n)
        BY <2>1 DEF Between, b
      <3>2. Holds(b, s.argv, arguments, n + 1)
        <4>1. Len(s.argv) <= Len(arguments) /\ n \in Int /\ n + 1 \in Int /\ n <= n + 1
          BY <1>1, <3>1
        <4> QED BY <1>1, <1>2, <3>1, <4>1, HoldsGrows
      <3>3. k = limit
        BY <1>3, <3>1
      <3> HIDE DEF a, k, limit
      <3> QED BY <1>2, <3>1, <3>2, <3>3
    <2>2. CASE k > 0 /\ Within(s, arguments, k, n)
      <3>1. /\ s.in_token /\ Len(s.argv) = k - 1
            /\ s.arg_start + Len(arguments[k]) = n + 1
            /\ Lies(b, s.arg_start, arguments[k])
            /\ Holds(b, s.argv, arguments, s.arg_start - 1)
        BY <2>2 DEF Within, b
      <3>2. a = Append(s.argv, s.arg_start)
        BY <3>1
      <3>3. [b EXCEPT ![n + 1] = NUL] = b
        BY <1>1, <1>2
      <3>4. Len(s.argv) + 1 = k /\ Len(s.argv) < Len(arguments)
        BY <1>1, <3>1
      <3>5. Holds([b EXCEPT ![n + 1] = NUL], Append(s.argv, s.arg_start), arguments, n + 1)
        BY <1>1, <1>2, <3>1, <3>4, HoldsEnds
      <3>6. a \in Seq(1 .. n + 1) /\ Len(a) = k
        <4>1. /\ Append(s.argv, s.arg_start) \in Seq(1 .. n + 1)
              /\ Len(Append(s.argv, s.arg_start)) = Len(s.argv) + 1
          BY <1>2
        <4> HIDE DEF a, k
        <4> QED BY <3>2, <3>4, <4>1 DEF k
      <3>7. k = limit
        BY <1>1, <1>2, <3>1 DEF B!Full
      <3> HIDE DEF a, k, limit
      <3> QED BY <3>2, <3>3, <3>5, <3>6, <3>7
    <2>3. CASE Complete(s, arguments, k, n)
      <3>1. /\ B!Full(Len(s.argv)) /\ Len(s.argv) <= k
            /\ Holds(b, s.argv, arguments, n)
        BY <2>3 DEF Complete, b
      <3>2. a = s.argv
        BY <1>2, <3>1
      <3>3. Holds(b, s.argv, arguments, n + 1)
        <4>1. n \in Int /\ n + 1 \in Int /\ n <= n + 1
          BY <1>1
        <4> QED BY <1>1, <1>2, <3>1, <4>1, HoldsGrows
      <3>4. Len(s.argv) = limit
        <4> DEFINE x == Len(s.argv)
        <4>1. /\ x \in Nat /\ x < CMD_ARGV_MAX /\ x <= k /\ k \in Nat
              /\ CMD_ARGV_MAX \in Nat /\ x >= CMD_ARGV_MAX - 1
          BY <1>1, <1>2, <1>3, <3>1 DEF B!Full
        <4> HIDE DEF x, k
        <4>2. x = IF k < CMD_ARGV_MAX THEN k ELSE CMD_ARGV_MAX - 1
          BY ONLY <4>1
        <4> QED BY <4>2 DEF x
      <3> HIDE DEF a, k, limit
      <3> QED BY <1>2, <3>2, <3>3, <3>4
    <2> QED BY <1>4, <2>1, <2>2, <2>3 DEF After
  <1> HIDE DEF a
  <1>7. b \in Seq(Chars) /\ Len(b) = n + 1
    <2> DEFINE m == n + 1
    <2>1. m \in Nat /\ b \in [1 .. m -> Chars]
      BY <1>1, <1>2
    <2> HIDE DEF m
    <2>2. b \in Seq(Chars) /\ Len(b) = m
      BY <2>1
    <2> QED BY <2>2 DEF m
  <1>8. a \in Seq(1 .. Len(b)) /\ Holds(b, a, arguments, Len(b)) /\ Len(a) <= k
    <2>1. limit <= k
      BY <1>1
    <2> HIDE DEF limit
    <2> QED BY <1>6, <1>7, <2>1
  <1>9. \A j \in 1 .. Len(a) : B!Arg(b, a[j]) = arguments[j]
    BY <1>7, <1>8, HeldArgs
  <1>10. UpToLimit(arguments) = [j \in 1 .. limit |-> arguments[j]]
    <2>1. UpToLimit(arguments) = SubSeq(arguments, 1, limit)
      BY DEF UpToLimit
    <2>2. limit \in 0 .. k
      BY <1>1
    <2> HIDE DEF limit
    <2>3. SubSeq(arguments, 1, limit) = [j \in 1 .. limit |-> arguments[j]]
      BY <2>2 DEF Arguments
    <2> QED BY <2>1, <2>3
  <1> HIDE DEF limit
  <1>11. DOMAIN a = 1 .. limit
    BY <1>6
  <1> QED BY <1>5, <1>6, <1>9, <1>10, <1>11 DEF Gets

LEMMA Returned ==
    ASSUME NEW arguments \in Arguments, Typed(arguments) \in Texts
    PROVE  Gets(Typed(arguments), arguments)
  <1>1. B!Trimmed(Typed(arguments)) = Typed(arguments)
    BY TrimmedSame, TypedBegins
  <1>2. LET text == Typed(arguments) IN
        After(B!Scan(text, Len(text)), arguments, Len(arguments), Len(text))
    BY AfterTyped
  <1> QED BY <1>1, <1>2, SeenArgs

\* Buffer and argv are what the last line makes them.
LineInv == /\ sh.line \in Texts
           /\ sh.buffer = B!build_cmd_buff(sh.line).buffer
           /\ sh.argv = B!build_cmd_buff(sh.line).argv

LEMMA EmptyLine ==
    B!build_cmd_buff(<<>>).buffer = <<NUL>> /\ B!build_cmd_buff(<<>>).argv = <<>>
  <1>1. <<>> \in Texts /\ Len(<<>>) = 0
    BY DEF Texts
  <1>2. B!Trimmed(<<>>) = <<>>
    BY <1>1, TrimmedSame
  <1>3. B!Scan(<<>>, Len(<<>>)) = Start(<<>>)
    BY <1>1, ScanSteps
  <1>4. /\ Start(<<>>).buffer = Append(<<>>, NUL) /\ Start(<<>>).argv = <<>>
        /\ Start(<<>>).in_token = FALSE
    BY DEF Start
  <1>5. Append(<<>>, NUL) = <<NUL>>
    OBVIOUS
  <1> QED BY <1>2, <1>3, <1>4, <1>5 DEF B!build_cmd_buff, B!Scanned

LEMMA NextLine == BuffInv /\ LineInv /\ [Next]_allvars => LineInv'
  <1> SUFFICES ASSUME BuffInv, LineInv, [Next]_allvars
               PROVE  LineInv'
    OBVIOUS
  <1>1. sh \in ShellRecords
    BY DEF BuffInv
  <1>2. CASE \E line \in Lines : ReadLine(line)
    <2>1. PICK line \in Lines : B!BuffReadLine(line)
      BY <1>2 DEF ReadLine
    <2> DEFINE built == B!build_cmd_buff(line)
               parsed == [sh EXCEPT !.line = line, !.rc = built.rc,
                                    !.buffer = built.buffer, !.argv = built.argv]
    <2>2. \/ sh' = parsed
          \/ sh' = [parsed EXCEPT !.pc = "fork"]
          \/ sh' = [parsed EXCEPT !.pc = "done", !.rc = B!OK_EXIT]
      BY <2>1, Zenon DEF B!BuffReadLine
    <2> HIDE DEF built
    <2>3. sh'.line = line /\ sh'.buffer = built.buffer /\ sh'.argv = built.argv
      BY <1>1, <2>2 DEF ShellRecords
    <2>4. line \in Texts
      BY LinesAreTexts
    <2> QED BY <2>3, <2>4 DEF LineInv, built
  <1>3. CASE EndOfInput
    <2>1. sh' = [sh EXCEPT !.pc = "done"]
      BY <1>3 DEF EndOfInput, B!BuffEndOfInput
    <2>2. sh'.line = sh.line /\ sh'.buffer = sh.buffer /\ sh'.argv = sh.argv
      BY <1>1, <2>1 DEF ShellRecords
    <2> QED BY <2>2 DEF LineInv
  <1>4. CASE RunProgram
    <2>1. \/ sh' = sh \/ sh' = [sh EXCEPT !.pc = "wait"]
          \/ sh' = [sh EXCEPT !.pc = "prompt"]
          \/ sh' = [sh EXCEPT !.pc = "prompt",
                              !.last_return_code = B!LastReturnCode(child.status)]
      BY <1>4 DEF RunProgram, B!BuffStep, B!Fork, B!ForkFails, B!ChildEnds, B!Wait
    <2>2. sh'.line = sh.line /\ sh'.buffer = sh.buffer /\ sh'.argv = sh.argv
      BY <1>1, <2>1 DEF ShellRecords
    <2> QED BY <2>2 DEF LineInv
  <1>5. CASE UNCHANGED allvars
    BY <1>5 DEF allvars, LineInv
  <1> QED BY <1>2, <1>3, <1>4, <1>5 DEF Next

LEMMA LinesReturn == LineInv => RoundTrip
  <1> SUFFICES ASSUME LineInv, NEW arguments \in ArgLists,
                      sh.line = TypedForm[arguments]
               PROVE  B!Args = UpToLimit(arguments)
    BY DEF RoundTrip
  <1>1. arguments \in Arguments
    BY ArgAssumption DEF Arguments, Argument
  <1>2. sh.line = Typed(arguments) /\ Typed(arguments) \in Texts
    BY DEF TypedForm, LineInv
  <1>3. /\ sh.buffer = B!build_cmd_buff(Typed(arguments)).buffer
        /\ sh.argv = B!build_cmd_buff(Typed(arguments)).argv
    BY <1>2 DEF LineInv
  <1> QED BY <1>1, <1>2, <1>3, Returned DEF B!Args, Gets

LEMMA LineInvariant == Spec => []LineInv
  <1>1. Init => LineInv
    <2> SUFFICES ASSUME Init
                 PROVE  LineInv
      OBVIOUS
    <2>1. sh.line = <<>> /\ sh.buffer = <<NUL>> /\ sh.argv = <<>>
      BY DEF Init, B!BuffInit, B!NUL, NUL
    <2>2. <<>> \in Texts
      BY DEF Texts
    <2> QED BY <2>1, <2>2, EmptyLine DEF LineInv
  <1>2. BuffInv /\ LineInv /\ [Next]_allvars => LineInv'
    BY NextLine
  <1> QED BY <1>1, <1>2, BuffInvariant, PTL DEF Spec

\* Arguments typed between quotes where they need them are the arguments the
\* program gets, empty ones, blanks and all, however many and however long, up to
\* the limit of argv.
THEOREM ArgumentsReturn == Spec => []RoundTrip
  BY LineInvariant, LinesReturn, PTL

----------------------------------------------------------------------------
(* The command list of the first shell. *)

Pairs == Nat \X Nat

LEMMA NextTokensType ==
    ASSUME NEW line, NEW tokens \in Seq(Pairs), NEW i \in Nat
    PROVE  NextTokens(line, tokens, i) \in Seq(Pairs)
  <1> DEFINE longer == [tokens EXCEPT ![Len(tokens)] = <<@[1], i>>]
  <1>1. longer \in Seq(Pairs)
    <2> DEFINE m == Len(tokens)
               p == <<tokens[m][1], i>>
    <2>1. m \in Nat /\ tokens \in [1 .. m -> Pairs]
      OBVIOUS
    <2>2. longer = [tokens EXCEPT ![m] = p]
      OBVIOUS
    <2>3. m \in 1 .. m => p \in Pairs
      BY DEF Pairs
    <2> HIDE DEF m, p
    <2>4. [tokens EXCEPT ![m] = p] \in [1 .. m -> Pairs]
      BY <2>1, <2>3
    <2>5. longer \in [1 .. m -> Pairs]
      BY <2>2, <2>4
    <2> QED BY <2>1, <2>5
  <1>2. Append(tokens, <<i, i>>) \in Seq(Pairs)
    <2>1. <<i, i>> \in Pairs
      BY DEF Pairs
    <2> QED BY <2>1
  <1> QED BY <1>1, <1>2 DEF NextTokens

LEMMA TokenSteps ==
    ASSUME NEW line \in Texts
    PROVE  /\ Tokens(line, 0) = <<>>
           /\ \A k \in 1 .. Len(line) :
                Tokens(line, k) = NextTokens(line, Tokens(line, k - 1), k)
  <1> DEFINE n == Len(line)
             S == Seq(Pairs)
             step == [p \in (1 .. n) \X S |-> NextTokens(line, p[2], p[1])]
             Cuts(f) == f = [k \in 0 .. n |-> IF k = 0 THEN <<>>
                                              ELSE NextTokens(line, f[k - 1], k)]
             tokens == CHOOSE f : Cuts(f)
  <1>1. n \in Nat /\ <<>> \in S
    BY DEF Texts
  <1>2. step \in [(1 .. n) \X S -> S]
    BY <1>1, NextTokensType
  <1>3. \A k \in 1 .. n, t \in S : step[<<k, t>>] = NextTokens(line, t, k)
    OBVIOUS
  <1>4. \A k : Tokens(line, k) = tokens[k]
    BY DEF Tokens
  <1> HIDE DEF step, S
  <1>5. PICK f \in [0 .. n -> S] : Follows(f, n, <<>>, step)
    BY <1>1, <1>2, Recursive
  <1>6. Cuts(f)
    <2>1. \A k \in 1 .. n : f[k] = NextTokens(line, f[k - 1], k)
      <3> SUFFICES ASSUME NEW k \in 1 .. n
                   PROVE  f[k] = NextTokens(line, f[k - 1], k)
        OBVIOUS
      <3>1. k - 1 \in 0 .. n /\ f[k - 1] \in S
        BY <1>1
      <3> QED BY <1>3, <1>5, <3>1 DEF Follows
    <2>2. \A k \in 0 .. n : k # 0 => k \in 1 .. n
      BY <1>1
    <2>3. f[0] = <<>>
      BY <1>5 DEF Follows
    <2> QED BY <2>1, <2>2, <2>3
  <1>7. Cuts(tokens)
    <2> HIDE DEF Cuts
    <2> QED BY <1>6
  <1> HIDE DEF tokens
  <1>8. tokens[0] = <<>>
    BY <1>1, <1>7
  <1>9. \A k \in 1 .. n : tokens[k] = NextTokens(line, tokens[k - 1], k)
    <2> SUFFICES ASSUME NEW k \in 1 .. n
                 PROVE  tokens[k] = NextTokens(line, tokens[k - 1], k)
      OBVIOUS
    <2>1. k \in 0 .. n /\ k # 0
      BY <1>1
    <2> QED BY <1>7, <2>1, Zenon
  <1> QED BY <1>4, <1>8, <1>9

\* The tokens are the intervals between pipe characters.
LEMMA TokensArePieces ==
    ASSUME NEW line \in Texts
    PROVE  /\ Tokens(line, Len(line)) = Pieces(line, Pipe)
           /\ Enumerates(Tokens(line, Len(line)), line, Pipe, Len(line))
  <1> DEFINE n == Len(line)
             T == {k \in 0 .. n : Enumerates(Tokens(line, k), line, Pipe, k)}
  <1>1. n \in Nat
    BY DEF Texts
  <1>2. 0 \in T
    BY <1>1, TokenSteps, EnumerateNone
  <1>3. ASSUME NEW k \in 1 .. n, k - 1 \in T
        PROVE  k \in T
    <2> DEFINE i == k - 1
               t == Tokens(line, i)
    <2>1. i \in Nat /\ i + 1 = k /\ (i > 0 <=> k > 1) /\ (k > 1 => k - 1 = i)
      OBVIOUS
    <2>2. Enumerates(t, line, Pipe, i)
      BY <1>3
    <2>3. Tokens(line, k) = NextTokens(line, t, k)
      BY TokenSteps
    <2> HIDE DEF t, i
    <2>4. Enumerates(NextTokens(line, t, k), line, Pipe, i + 1)
      <3>1. CASE line[i + 1] \in Pipe
        BY <2>1, <2>2, <3>1, EnumerateSkip DEF NextTokens
      <3>2. CASE line[i + 1] \notin Pipe /\ (i > 0 => line[i] \in Pipe)
        <4>1. NextTokens(line, t, k) = Append(t, <<i + 1, i + 1>>)
          BY <2>1, <3>2 DEF NextTokens
        <4>2. Enumerates(Append(t, <<i + 1, i + 1>>), line, Pipe, i + 1)
          BY <2>1, <2>2, <3>2, EnumerateBegin
        <4> QED BY <4>1, <4>2
      <3>3. CASE line[i + 1] \notin Pipe /\ i > 0 /\ line[i] \notin Pipe
        <4>1. NextTokens(line, t, k) = [t EXCEPT ![Len(t)] = <<@[1], i + 1>>]
          BY <2>1, <3>3 DEF NextTokens
        <4>2. Enumerates([t EXCEPT ![Len(t)] = <<@[1], i + 1>>], line, Pipe, i + 1)
          BY <2>1, <2>2, <3>3, EnumerateMore
        <4> QED BY <4>1, <4>2
      <3> QED BY <3>1, <3>2, <3>3
    <2> QED BY <2>1, <2>3, <2>4
  <1> HIDE DEF T
  <1>4. 0 .. n \subseteq T
    BY <1>1, <1>2, <1>3, UpTo
  <1>5. Enumerates(Tokens(line, n), line, Pipe, n)
    <2>1. n \in T
      BY <1>1, <1>4
    <2> QED BY <2>1 DEF T
  <1>6. Pieces(line, Pipe) = Tokens(line, n)
    BY <1>5, PiecesAre DEF Texts
  <1> QED BY <1>5, <1>6

LEMMA TokensType ==
    ASSUME NEW line \in Texts
    PROVE  LET tokens == Tokens(line, Len(line)) IN
           /\ tokens \in Seq(Pairs) /\ Len(tokens) \in Nat
           /\ strtok(line) = [k \in 1 .. Len(tokens) |->
                                SubSeq(line, tokens[k][1], tokens[k][2])]
           /\ Len(strtok(line)) = Len(tokens)
  <1> DEFINE tokens == Tokens(line, Len(line))
             sub(k) == SubSeq(line, tokens[k][1], tokens[k][2])
  <1>1. tokens \in Seq(Pairs)
    BY TokensArePieces DEF Enumerates, Pairs
  <1>2. strtok(line) = [k \in DOMAIN tokens |-> sub(k)]
    BY DEF strtok
  <1> HIDE DEF tokens, sub
  <1>3. Len(tokens) \in Nat /\ DOMAIN tokens = 1 .. Len(tokens)
    BY <1>1
  <1>4. Len([k \in 1 .. Len(tokens) |-> sub(k)]) = Len(tokens)
    BY <1>3
  <1>5. /\ strtok(line) = [k \in 1 .. Len(tokens) |-> sub(k)]
        /\ Len(strtok(line)) = Len(tokens)
    BY <1>2, <1>3, <1>4
  <1> QED BY <1>1, <1>3, <1>5 DEF tokens, sub

\* Once a line has been typed the list is what build_cmd_list() makes of it and
\* of the list before it, if it was not exit.
ListRecords(commands) ==
    [pc : {"prompt", "done"}, line : Texts, num : 0 .. CMD_MAX, commands : {commands},
     rc : {OK, WARN_NO_CMDS, ERR_TOO_MANY_COMMANDS}]
Made(l, old) ==
    LET built == build_cmd_list(l.line, old) IN
    l.rc = built.rc /\ l.num = built.num /\ l.commands = built.commands
ListInv ==
    /\ list \in ListRecords(list.commands) /\ typed \in Nat
    /\ typed = 0 => list.num = 0
    /\ typed > 0 => /\ list.line \in Lines
                    /\ \/ list.pc = "done" /\ list.num = 0
                       \/ \E old : Made(list, old)

LEMMA BuiltList ==
    ASSUME NEW line \in Texts, NEW old
    PROVE  LET built == build_cmd_list(line, old)
               n == Len(strtok(line)) IN
           /\ n \in Nat /\ built.num = (IF n > CMD_MAX THEN CMD_MAX ELSE n)
           /\ built.num \in 0 .. CMD_MAX
           /\ built.rc \in {OK, WARN_NO_CMDS, ERR_TOO_MANY_COMMANDS}
           /\ built.rc = IF line = <<>> THEN WARN_NO_CMDS
                         ELSE IF n > CMD_MAX THEN ERR_TOO_MANY_COMMANDS ELSE OK
           /\ \A i \in 1 .. built.num :
                built.commands[i] = Command(old[i], Trim(strtok(line)[i]))
  <1> DEFINE n == Len(strtok(line))
             built == build_cmd_list(line, old)
  <1>1. n \in Nat
    BY TokensType
  <1>2. /\ built.num = (IF n > CMD_MAX THEN CMD_MAX ELSE n)
        /\ built.rc = IF line = <<>> THEN WARN_NO_CMDS
                      ELSE IF n > CMD_MAX THEN ERR_TOO_MANY_COMMANDS ELSE OK
        /\ built.commands = [i \in 1 .. CMD_MAX |->
             IF i <= built.num THEN Command(old[i], Trim(strtok(line)[i])) ELSE old[i]]
    BY Zenon DEF build_cmd_list
  <1> HIDE DEF n, built
  <1>3. CMD_MAX \in Nat
    BY ListAssumption
  <1>4. built.num \in 0 .. CMD_MAX
    BY <1>1, <1>2, <1>3
  <1>5. \A i \in 1 .. built.num :
          built.commands[i] = Command(old[i], Trim(strtok(line)[i]))
    BY <1>2, <1>3, <1>4
  <1>6. built.rc \in {OK, WARN_NO_CMDS, ERR_TOO_MANY_COMMANDS}
    BY <1>2
  <1> QED BY <1>1, <1>2, <1>4, <1>5, <1>6 DEF n, built

LEMMA InitList == Init => ListInv
  <1> SUFFICES ASSUME Init
               PROVE  ListInv
    OBVIOUS
  <1>1. PICK garbage \in {"?", NUL} :
          list = [pc |-> "prompt", line |-> <<>>, rc |-> OK, num |-> 0,
                  commands |-> [i \in 1 .. CMD_MAX |-> [k \in CellCount |-> garbage]]]
    BY DEF Init, ListInit
  <1>2. <<>> \in Texts /\ 0 \in 0 .. CMD_MAX /\ typed = 0
    BY ListAssumption DEF Texts, Init
  <1> DEFINE c == [i \in 1 .. CMD_MAX |-> [k \in CellCount |-> garbage]]
  <1>3. list = [pc |-> "prompt", line |-> <<>>, rc |-> OK, num |-> 0, commands |-> c]
    BY <1>1
  <1> HIDE DEF c
  <1>4. list \in ListRecords(c) /\ list.commands = c
    BY <1>2, <1>3 DEF ListRecords
  <1>5. list.num = 0
    BY <1>3
  <1> QED BY <1>2, <1>4, <1>5 DEF ListInv

LEMMA NextList == ListInv /\ [Next]_allvars => ListInv'
  <1> SUFFICES ASSUME ListInv, [Next]_allvars
               PROVE  ListInv'
    OBVIOUS
  <1>1. list \in ListRecords(list.commands) /\ typed \in Nat
    BY DEF ListInv
  <1>2. CASE \E line \in Lines : ReadLine(line)
    <2>1. PICK line \in Lines : ReadLine(line)
      BY <1>2
    <2>2. line \in Texts /\ typed' = typed + 1
      BY <2>1, LinesAreTexts DEF ReadLine
    <2> DEFINE built == build_cmd_list(line, list.commands)
               new == [pc |-> "prompt", line |-> line, rc |-> built.rc,
                       num |-> built.num, commands |-> built.commands]
    <2>3. \/ list' = [list EXCEPT !.pc = "done", !.line = line, !.num = 0]
          \/ list' = new
      BY <2>1 DEF ReadLine, ListReadLine
    <2>4. /\ built.num \in 0 .. CMD_MAX
          /\ built.rc \in {OK, WARN_NO_CMDS, ERR_TOO_MANY_COMMANDS}
      BY <2>2, BuiltList
    <2>5. CASE list' = new
      <3>1. /\ list'.rc = built.rc /\ list'.num = built.num /\ list'.line = line
            /\ list'.commands = built.commands
        BY <2>5
      <3>2. Made(list', list.commands)
        BY <3>1 DEF Made
      <3>3. list' \in ListRecords(list'.commands) /\ typed' \in Nat
        <4> HIDE DEF built
        <4> QED BY <1>1, <2>2, <2>4, <2>5 DEF ListRecords
      <3>4. list'.line \in Lines
        BY <3>1
      <3>5. typed' # 0
        BY <1>1, <2>2
      <3> QED BY <3>2, <3>3, <3>4, <3>5 DEF ListInv
    <2>6. CASE list' = [list EXCEPT !.pc = "done", !.line = line, !.num = 0]
      <3>1. 0 \in 0 .. CMD_MAX
        BY ListAssumption
      <3>2. /\ list' \in ListRecords(list.commands) /\ list'.commands = list.commands
            /\ list'.pc = "done" /\ list'.num = 0 /\ list'.line = line
        BY <1>1, <2>2, <2>6, <3>1 DEF ListRecords
      <3> QED BY <1>1, <2>2, <3>2 DEF ListInv
    <2> QED BY <2>3, <2>5, <2>6
  <1>3. CASE EndOfInput
    <2>1. list' = [list EXCEPT !.pc = "done"] /\ typed' = typed
      BY <1>3 DEF EndOfInput, ListEndOfInput
    <2>2. /\ list' \in ListRecords(list.commands) /\ list'.commands = list.commands
          /\ list'.pc = "done" /\ list'.num = list.num /\ list'.line = list.line
          /\ list'.rc = list.rc
      BY <1>1, <2>1 DEF ListRecords
    <2>3. \A old : Made(list, old) => Made(list', old)
      BY <2>2 DEF Made
    <2> QED BY <2>1, <2>2, <2>3 DEF ListInv
  <1>4. CASE RunProgram \/ UNCHANGED allvars
    <2>1. list' = list /\ typed' = typed
      BY <1>4 DEF RunProgram, allvars
    <2> QED BY <2>1 DEF ListInv
  <1> QED BY <1>2, <1>3, <1>4 DEF Next

\* The first shell's inductive invariant.
THEOREM ListInvariant == Spec => []ListInv
  <1> QED BY InitList, NextList, PTL DEF Spec

\* Both shells keep to their return codes and sizes, and a command that is to be
\* run has a name, for every CMD_MAX and CMD_ARGV_MAX and all lines.
THEOREM TypeCorrect == Spec => []TypeOK
  <1>1. BuffInv /\ ListInv => TypeOK
    BY DEF BuffInv, ListInv, ShellRecords, ChildRecords, ListRecords, TypeOK
  <1> QED BY <1>1, BuffInvariant, ListInvariant, PTL

----------------------------------------------------------------------------
(* One command. *)

LEMMA Sizes == EXE_MAX \in Nat /\ ARG_MAX \in Nat /\ EXE_MAX > 1 /\ ARG_MAX > 1
  BY ListAssumption

Letters == Seq(Typeable)

LEMMA NoNul ==
    ASSUME NEW s \in Letters, NEW k \in 1 .. Len(s)
    PROVE  s[k] # NUL
  <1>1. s[k] \in Typeable
    BY DEF Letters
  <1> QED BY <1>1, LineAssumption

\* A string ends at its first terminator, or with the cells.
LEMMA StringIs ==
    ASSUME NEW cells, NEW at \in Nat, NEW str \in Letters,
           at + Len(str) + 1 <= EXE_MAX + ARG_MAX,
           \A k \in 1 .. Len(str) : cells[at + k] = str[k],
           cells[at + Len(str) + 1] = NUL
    PROVE  String(cells, at) = str
  <1> DEFINE m    == EXE_MAX + ARG_MAX
             l    == Len(str)
             ends == {k \in at + 1 .. m + 1 : k \notin CellCount \/ cells[k] = NUL}
             end  == CHOOSE k \in ends : \A j \in ends : k <= j
             e    == at + l + 1
  <1>1. m \in Nat /\ l \in Nat /\ CellCount = 1 .. m /\ e \in Nat /\ e \in at + 1 .. m + 1
    BY Sizes DEF CellCount, Letters
  <1>2. e \in ends
    BY <1>1
  <1>3. \A j \in ends : e <= j
    <2> SUFFICES ASSUME NEW j \in ends, j < e
                 PROVE  FALSE
      BY <1>1
    <2>1. j \in at + 1 .. m /\ j \in CellCount /\ j - at \in 1 .. l /\ at + (j - at) = j
      BY <1>1
    <2>2. cells[j] = str[j - at] /\ str[j - at] # NUL
      BY <2>1, NoNul
    <2> QED BY <2>1, <2>2
  <1>4. \A k \in ends : k \in Nat
    BY <1>1
  <1>5. String(cells, at) = [k \in 1 .. end - at - 1 |-> cells[at + k]]
    BY Zenon DEF String
  <1> HIDE DEF ends
  <1>6. end = e
    <2>1. \A k \in ends : (\A j \in ends : k <= j) => k = e
      BY <1>1, <1>2, <1>3, <1>4
    <2> QED BY <1>2, <1>3, <2>1
  <1> HIDE DEF end
  <1>7. end - at - 1 = l
    BY <1>1, <1>6
  <1>8. [k \in 1 .. l |-> cells[at + k]] = [k \in 1 .. l |-> str[k]]
    OBVIOUS
  <1>9. str = [k \in 1 .. l |-> str[k]]
    BY DEF Letters
  <1> QED BY <1>5, <1>7, <1>8, <1>9

\* What strncpy() puts into cell k of the target.
Copied(src, k) == IF k <= Len(src) THEN src[k] ELSE NUL

LEMMA CopyIs ==
    ASSUME NEW cells, NEW at \in Nat, NEW src, NEW n \in Nat,
           NEW k \in 1 .. n, NEW j \in CellCount, j = at + k
    PROVE  strncpy(cells, at, src, n)[j] = Copied(src, k)
  <1>1. j \in at + 1 .. at + n /\ j - at = k
    BY Sizes DEF CellCount
  <1>2. strncpy(cells, at, src, n)[j]
        = IF j \in at + 1 .. at + n THEN IF j - at <= Len(src) THEN src[j - at] ELSE NUL
                                    ELSE cells[j]
    BY Zenon DEF strncpy
  <1> QED BY Zenon, <1>1, <1>2 DEF Copied

LEMMA CopyBegins ==
    ASSUME NEW cells, NEW src, NEW n \in Nat, NEW k \in 1 .. n, k \in CellCount
    PROVE  strncpy(cells, 0, src, n)[k] = Copied(src, k)
  <1>1. k \in 0 + 1 .. 0 + n /\ k - 0 = k
    OBVIOUS
  <1>2. strncpy(cells, 0, src, n)[k]
        = IF k \in 0 + 1 .. 0 + n THEN IF k - 0 <= Len(src) THEN src[k - 0] ELSE NUL
                                  ELSE cells[k]
    BY Zenon DEF strncpy
  <1> QED BY Zenon, <1>1, <1>2 DEF Copied

LEMMA CopyKeeps ==
    ASSUME NEW cells, NEW at \in Nat, NEW src, NEW n \in Nat,
           NEW j \in CellCount, j <= at
    PROVE  strncpy(cells, at, src, n)[j] = cells[j]
  <1>1. j \notin at + 1 .. at + n
    BY Sizes DEF CellCount
  <1>2. strncpy(cells, at, src, n)[j]
        = IF j \in at + 1 .. at + n THEN IF j - at <= Len(src) THEN src[j - at] ELSE NUL
                                    ELSE cells[j]
    BY Zenon DEF strncpy
  <1> QED BY Zenon, <1>1, <1>2

\* A command that is a name only.
LEMMA WithoutArgsIs ==
    ASSUME NEW cells, NEW src \in Letters, Len(src) < EXE_MAX - 1
    PROVE  /\ exe(WithoutArgs(cells, src)) = src
           /\ args(WithoutArgs(cells, src)) = <<>>
  <1> DEFINE c == strncpy(cells, 0, src, EXE_MAX - 1)
             d == WithoutArgs(cells, src)
             l == Len(src)
             x == EXE_MAX - 1
  <1>1. /\ l \in Nat /\ x \in Nat /\ EXE_MAX \in Nat /\ ARG_MAX \in Nat /\ ARG_MAX > 1
        /\ l < x /\ EXE_MAX = x + 1 /\ CellCount = 1 .. EXE_MAX + ARG_MAX
    BY Sizes DEF Letters, CellCount
  <1>2. d = [c EXCEPT ![EXE_MAX + 1] = NUL] /\ DOMAIN c = CellCount
    BY DEF WithoutArgs, strncpy
  <1>3. \A k \in 1 .. l : c[k] = src[k]
    <2> SUFFICES ASSUME NEW k \in 1 .. l
                 PROVE  c[k] = src[k]
      OBVIOUS
    <2>1. k \in CellCount /\ k \in 1 .. x /\ k <= Len(src)
      BY <1>1
    <2> HIDE DEF x
    <2>2. strncpy(cells, 0, src, x)[k] = Copied(src, k)
      BY <1>1, <2>1, CopyBegins
    <2> QED BY <2>1, <2>2 DEF x, Copied
  <1>4. c[l + 1] = NUL
    <2> DEFINE k == l + 1
    <2>1. k \in CellCount /\ k \in 1 .. x /\ ~(k <= Len(src))
      BY <1>1
    <2> HIDE DEF k, x
    <2>2. strncpy(cells, 0, src, x)[k] = Copied(src, k)
      BY <1>1, <2>1, CopyBegins
    <2> QED BY <2>1, <2>2 DEF k, x, Copied
  <1> HIDE DEF c, d
  <1>5. /\ \A k \in 1 .. l : d[0 + k] = src[k]
        /\ d[0 + l + 1] = NUL
    <2>1. \A k \in 1 .. l + 1 : k # EXE_MAX + 1 /\ k \in CellCount
      BY <1>1
    <2>2. \A k \in 1 .. l + 1 : d[k] = c[k]
      BY <1>2, <2>1
    <2> QED BY <1>1, <1>3, <1>4, <2>2
  <1>6. String(d, 0) = src
    <2>1. 0 + l + 1 <= EXE_MAX + ARG_MAX
      BY <1>1
    <2> QED BY <1>5, <2>1, StringIs
  <1>7. String(d, EXE_MAX) = <<>>
    <2>1. /\ <<>> \in Letters /\ EXE_MAX + Len(<<>>) + 1 <= EXE_MAX + ARG_MAX
          /\ EXE_MAX + Len(<<>>) + 1 = EXE_MAX + 1 /\ EXE_MAX + 1 \in CellCount
      BY <1>1 DEF Letters
    <2>2. d[EXE_MAX + Len(<<>>) + 1] = NUL
      BY <1>2, <2>1
    <2> QED BY <1>1, <2>1, <2>2, StringIs
  <1> QED BY <1>6, <1>7 DEF exe, args, d

\* A name that is followed by a space.
LEMMA WithArgsIs ==
    ASSUME NEW cells, NEW src \in Letters, NEW len \in Nat, len <= Len(src),
           len < EXE_MAX - 1,
           Trim(SubSeq(src, len + 1, Len(src))) \in Letters,
           Len(Trim(SubSeq(src, len + 1, Len(src)))) < ARG_MAX - 1
    PROVE  /\ exe(WithArgs(cells, src, len)) = SubSeq(src, 1, len)
           /\ args(WithArgs(cells, src, len)) = Trim(SubSeq(src, len + 1, Len(src)))
  <1> DEFINE rest  == Trim(SubSeq(src, len + 1, Len(src)))
             name  == SubSeq(src, 1, len)
             copy  == strncpy(cells, 0, src, len)
             named == [copy EXCEPT ![len + 1] = NUL]
             x     == ARG_MAX - 1
             d     == strncpy(named, EXE_MAX, rest, x)
             l     == Len(rest)
  <1>1. /\ x \in Nat /\ EXE_MAX \in Nat /\ ARG_MAX = x + 1 /\ EXE_MAX > 1
        /\ CellCount = 1 .. EXE_MAX + ARG_MAX /\ Len(src) \in Nat
    BY Sizes DEF CellCount, Letters
  <1>2. l \in Nat /\ l < x /\ rest \in Letters
    BY DEF Letters
  <1>3. WithArgs(cells, src, len) = d
    BY DEF WithArgs
  <1> HIDE DEF rest
  <1>4. name \in Letters /\ Len(name) = len /\ \A k \in 1 .. len : name[k] = src[k]
    <2>1. 1 <= len + 1 /\ 1 \in Nat
      OBVIOUS
    <2>2. /\ name \in Letters /\ Len(name) = len - 1 + 1
          /\ \A k \in 1 .. len - 1 + 1 : name[k] = src[1 + k - 1]
      BY <2>1, Part DEF Letters
    <2> QED BY <2>2
  <1>5. \A k \in 1 .. len + 1 : k \in CellCount /\ k <= EXE_MAX
    BY <1>1
  <1>6. \A k \in 1 .. len + 1 : d[k] = named[k]
    <2> HIDE DEF named
    <2>1. \A k \in CellCount : k <= EXE_MAX => d[k] = named[k]
      <3> HIDE DEF rest, x, named
      <3> SUFFICES ASSUME NEW k \in CellCount, k <= EXE_MAX
                   PROVE  strncpy(named, EXE_MAX, rest, x)[k] = named[k]
        OBVIOUS
      <3> QED BY <1>1, CopyKeeps
    <2> QED BY <1>5, <2>1
  <1>7. \A k \in 1 .. len : copy[k] = src[k]
    <2> SUFFICES ASSUME NEW k \in 1 .. len
                 PROVE  copy[k] = src[k]
      OBVIOUS
    <2>1. k \in CellCount /\ k <= Len(src)
      BY <1>1, <1>5
    <2>2. strncpy(cells, 0, src, len)[k] = Copied(src, k)
      BY <2>1, CopyBegins
    <2> QED BY <2>1, <2>2 DEF Copied
  <1>8. DOMAIN copy = CellCount
    BY DEF strncpy
  <1>9. /\ \A k \in 1 .. l : d[EXE_MAX + k] = rest[k]
        /\ d[EXE_MAX + l + 1] = NUL
    <2>1. \A k \in 1 .. l + 1 : /\ EXE_MAX + k \in CellCount
                                /\ k \in 1 .. x
                                /\ k <= l <=> k # l + 1
      BY <1>1, <1>2
    <2>2. \A k \in 1 .. l + 1 : d[EXE_MAX + k] = IF k <= l THEN rest[k] ELSE NUL
      <3>1. \A i, j : i \in 1 .. x /\ j \in CellCount /\ j = EXE_MAX + i =>
                      strncpy(named, EXE_MAX, rest, x)[j] = Copied(rest, i)
        <4>1. x \in Nat /\ EXE_MAX \in Nat
          BY <1>1
        <4> HIDE DEF named, x, rest, l, d, name, copy
        <4>2. ASSUME NEW i \in 1 .. x, NEW j \in CellCount, j = EXE_MAX + i
              PROVE  strncpy(named, EXE_MAX, rest, x)[j] = Copied(rest, i)
          BY ONLY <4>1, <4>2, CopyIs
        <4> QED BY <4>2
      <3>2. \A k \in 1 .. l + 1 : d[EXE_MAX + k] = Copied(rest, k)
        <4> HIDE DEF named, x, rest, l
        <4> QED BY <2>1, <3>1
      <3> HIDE DEF d
      <3> QED BY <3>2 DEF Copied
    <2>3. l + 1 \in 1 .. l + 1 /\ EXE_MAX + (l + 1) = EXE_MAX + l + 1
          /\ 1 .. l \subseteq 1 .. l + 1
      BY <1>1, <1>2
    <2> HIDE DEF d, l
    <2>4. \A k \in 1 .. l : d[EXE_MAX + k] = rest[k]
      BY <1>2, <2>2, <2>3
    <2>5. d[EXE_MAX + (l + 1)] = NUL
      BY <1>2, <2>2, <2>3
    <2> QED BY <2>3, <2>4, <2>5
  <1> HIDE DEF d, copy
  <1>10. /\ \A k \in 1 .. len : d[0 + k] = name[k]
         /\ d[0 + len + 1] = NUL
    <2>1. \A k \in 1 .. len : k # len + 1 /\ 0 + k = k /\ k \in 1 .. len + 1
      OBVIOUS
    <2>2. len + 1 \in 1 .. len + 1 /\ 0 + len + 1 = len + 1
      OBVIOUS
    <2>3. named[len + 1] = NUL /\ \A k \in 1 .. len : named[k] = copy[k]
      BY <1>5, <1>8, <2>1, <2>2
    <2> QED BY <1>4, <1>6, <1>7, <2>1, <2>2, <2>3
  <1> HIDE DEF l, name
  <1>11. String(d, 0) = name
    <2>1. 0 + Len(name) + 1 <= EXE_MAX + ARG_MAX
      BY <1>1, <1>4
    <2> QED BY <1>4, <1>10, <2>1, StringIs
  <1>12. String(d, EXE_MAX) = rest
    <2>1. EXE_MAX + l + 1 <= EXE_MAX + ARG_MAX
      BY <1>1, <1>2
    <2> QED BY <1>1, <1>2, <1>9, <2>1, StringIs DEF l
  <1> QED BY <1>3, <1>11, <1>12 DEF exe, args, name, rest

\* A token is trimmed to what is between its first and its last letter.
LEMMA TrimIs ==
    ASSUME NEW C, NEW token \in Seq(C), NEW f \in 1 .. Len(token), NEW l \in 1 .. Len(token),
           token[f] \notin Space, token[l] \notin Space,
           \A k \in 1 .. Len(token) : token[k] \notin Space => f <= k /\ k <= l
    PROVE  Trim(token) = SubSeq(token, f, l)
  <1> DEFINE letters == {k \in DOMAIN token : token[k] \notin Space}
             first == CHOOSE k \in letters : \A j \in letters : k <= j
             last  == CHOOSE k \in letters : \A j \in letters : j <= k
  <1>1. DOMAIN token = 1 .. Len(token) /\ Len(token) \in Nat
    OBVIOUS
  <1>2. /\ f \in letters /\ l \in letters /\ letters \subseteq Nat
        /\ \A j \in letters : f <= j /\ j <= l
    BY <1>1
  <1>3. Trim(token) = IF letters = {} THEN <<>> ELSE SubSeq(token, first, last)
    BY Zenon DEF Trim
  <1> HIDE DEF letters
  <1>4. first = f
    <2>1. \A k \in letters : (\A j \in letters : k <= j) => k = f
      BY <1>2
    <2> QED BY <1>2, <2>1
  <1>5. last = l
    <2>1. \A k \in letters : (\A j \in letters : j <= k) => k = l
      BY <1>2
    <2> QED BY <1>2, <2>1
  <1> HIDE DEF first, last
  <1> QED BY <1>2, <1>3, <1>4, <1>5

LEMMA TrimNone ==
    ASSUME NEW C, NEW token \in Seq(C), \A k \in 1 .. Len(token) : token[k] \in Space
    PROVE  Trim(token) = <<>>
  <1>1. {k \in DOMAIN token : token[k] \notin Space} = {}
    OBVIOUS
  <1> QED BY Zenon, <1>1 DEF Trim

\* Where the first word, the second and the last are.
LEMMA WordsLie ==
    ASSUME NEW token, NEW n \in Nat, NEW w, Enumerates(w, token, Space, n)
    PROVE  LET m == Len(w) IN
           /\ m \in Nat
           /\ m = 0 => \A k \in 1 .. n : token[k] \in Space
           /\ m > 0 =>
                /\ w[1][1] \in 1 .. n /\ w[1][2] \in w[1][1] .. n /\ w[m][2] \in w[1][2] .. n
                /\ token[w[m][2]] \notin Space
                /\ \A k \in w[1][1] .. w[1][2] : token[k] \notin Space
                /\ \A k \in 1 .. n : token[k] \notin Space => w[1][1] <= k /\ k <= w[m][2]
           /\ m > 1 =>
                /\ w[2][1] \in w[1][2] + 1 .. w[m][2] /\ token[w[2][1]] \notin Space
                /\ token[w[1][2] + 1] \in Space
                /\ \A k \in w[1][2] + 1 .. n : token[k] \notin Space => w[2][1] <= k
  <1> DEFINE m == Len(w)
  <1>1. /\ m \in Nat
        /\ \A k \in 1 .. m : w[k][1] \in Nat /\ w[k][2] \in Nat
    BY DEF Enumerates
  <1>2. \A k \in 1 .. m :
         /\ 1 <= w[k][1] /\ w[k][1] <= w[k][2] /\ w[k][2] <= n
         /\ \A i \in w[k][1] .. w[k][2] : token[i] \notin Space
         /\ w[k][2] < n => token[w[k][2] + 1] \in Space
    BY DEF Enumerates
  <1>3. \A j, k \in 1 .. m : j < k => w[j][2] < w[k][1]
    BY DEF Enumerates
  <1>4. \A c \in 1 .. n : token[c] \notin Space =>
         \E k \in 1 .. m : w[k][1] <= c /\ c <= w[k][2]
    BY DEF Enumerates
  <1> HIDE DEF m
  <1>5. m = 0 => \A k \in 1 .. n : token[k] \in Space
    BY <1>4
  <1>6. ASSUME m > 0
        PROVE  /\ w[1][1] \in 1 .. n /\ w[1][2] \in w[1][1] .. n /\ w[m][2] \in w[1][2] .. n
               /\ token[w[m][2]] \notin Space
               /\ \A k \in w[1][1] .. w[1][2] : token[k] \notin Space
               /\ \A k \in 1 .. n : token[k] \notin Space => w[1][1] <= k /\ k <= w[m][2]
    <2>1. 1 \in 1 .. m /\ m \in 1 .. m /\ (m = 1 \/ 1 < m)
      BY <1>1, <1>6
    <2>2. /\ w[1][1] \in 1 .. n /\ w[1][2] \in w[1][1] .. n /\ w[m][2] \in w[1][2] .. n
          /\ w[m][2] \in w[m][1] .. w[m][2]
      BY <1>1, <1>2, <1>3, <2>1
    <2>3. ASSUME NEW k \in 1 .. n, token[k] \notin Space
          PROVE  w[1][1] <= k /\ k <= w[m][2]
      <3>1. PICK j \in 1 .. m : w[j][1] <= k /\ k <= w[j][2]
        BY <1>4, <2>3
      <3>2. (j = 1 \/ 1 < j) /\ (j = m \/ j < m)
        BY <1>1, <3>1
      <3>3. w[1][1] <= k
        BY <1>1, <1>2, <1>3, <2>1, <3>1, <3>2
      <3>4. k <= w[m][2]
        BY <1>1, <1>2, <1>3, <2>1, <3>1, <3>2
      <3> QED BY <3>3, <3>4
    <2> QED BY <1>2, <2>1, <2>2, <2>3
  <1>7. ASSUME m > 1
        PROVE  /\ w[2][1] \in w[1][2] + 1 .. w[m][2] /\ token[w[2][1]] \notin Space
               /\ token[w[1][2] + 1] \in Space
               /\ \A k \in w[1][2] + 1 .. n : token[k] \notin Space => w[2][1] <= k
    <2>1. 1 \in 1 .. m /\ 2 \in 1 .. m /\ m \in 1 .. m /\ 1 < 2 /\ (m = 2 \/ 2 < m)
      BY <1>1, <1>7
    <2>2. w[1][2] < w[2][1] /\ w[2][1] <= w[2][2] /\ w[2][2] <= w[m][2]
          /\ w[1][2] < n /\ w[1][2] \in Nat /\ w[2][1] \in Nat /\ w[2][2] \in Nat
          /\ w[m][2] \in Nat
      BY <1>1, <1>2, <1>3, <2>1
    <2>3. token[w[1][2] + 1] \in Space /\ token[w[2][1]] \notin Space
      <3>1. w[2][1] \in w[2][1] .. w[2][2]
        BY <2>2
      <3> QED BY <1>2, <2>1, <2>2, <3>1
    <2>4. ASSUME NEW k \in w[1][2] + 1 .. n, token[k] \notin Space
          PROVE  w[2][1] <= k
      <3>0. k \in 1 .. n /\ w[1][2] < k
        BY <2>2
      <3>1. PICK j \in 1 .. m : w[j][1] <= k /\ k <= w[j][2]
        BY <1>4, <2>4, <3>0
      <3>2. j = 1 \/ j = 2 \/ 2 < j
        BY <1>1, <3>1
      <3>3. CASE j = 1
        BY <2>2, <3>0, <3>1, <3>3
      <3>4. CASE j = 2
        BY <3>1, <3>4
      <3>5. CASE 2 < j
        <4>1. w[2][2] < w[j][1] /\ w[j][1] \in Nat
          BY <1>1, <1>3, <2>1, <3>5
        <4> QED BY <2>2, <3>1, <4>1
      <3> QED BY <3>2, <3>3, <3>4, <3>5
    <2>5. w[2][1] \in w[1][2] + 1 .. w[m][2]
      BY <2>2
    <2> QED BY <2>3, <2>4, <2>5
  <1> QED BY <1>1, <1>5, <1>6, <1>7 DEF m

\* A command of no word, of one, and of several.
LEMMA NoWord ==
    ASSUME NEW cells
    PROVE  exe(Command(cells, <<>>)) = <<>> /\ args(Command(cells, <<>>)) = <<>>
  <1> DEFINE empty == <<>>
  <1>1. {k \in DOMAIN empty : empty[k] \in Space} = {}
    OBVIOUS
  <1>2. Command(cells, empty) = WithoutArgs(cells, empty)
    BY Zenon, <1>1 DEF Command
  <1>3. empty \in Letters /\ Len(empty) < EXE_MAX - 1
    BY ListAssumption DEF Letters
  <1> QED BY Zenon, <1>2, <1>3, WithoutArgsIs

LEMMA OneWord ==
    ASSUME NEW cells, NEW token \in Letters, NEW f \in Nat, NEW l \in Nat,
           1 <= f, f <= l, l <= Len(token), \A k \in f .. l : token[k] \notin Space,
           Len(SubSeq(token, f, l)) < EXE_MAX - 1
    PROVE  LET d == Command(cells, SubSeq(token, f, l)) IN
           exe(d) = SubSeq(token, f, l) /\ args(d) = <<>>
  <1> DEFINE seg == SubSeq(token, f, l)
             n   == l - f + 1
  <1>1. /\ seg \in Letters /\ Len(seg) = n
        /\ \A k \in 1 .. n : seg[k] = token[f + k - 1]
    BY Part DEF Letters
  <1>2. \A k \in 1 .. n : seg[k] \notin Space
    <2>1. \A k \in 1 .. n : f + k - 1 \in f .. l
      OBVIOUS
    <2> HIDE DEF seg, n
    <2> QED BY <1>1, <2>1
  <1>3. {k \in DOMAIN seg : seg[k] \in Space} = {}
    <2>1. DOMAIN seg = 1 .. n
      BY <1>1 DEF Letters
    <2> HIDE DEF seg, n
    <2> QED BY <1>2, <2>1
  <1> HIDE DEF seg, n
  <1>4. Command(cells, seg) = WithoutArgs(cells, seg)
    BY Zenon, <1>3 DEF Command
  <1>5. Len(seg) < EXE_MAX - 1
    BY DEF seg
  <1>6. exe(WithoutArgs(cells, seg)) = seg /\ args(WithoutArgs(cells, seg)) = <<>>
    BY Zenon, <1>1, <1>5, WithoutArgsIs
  <1> QED BY Zenon, <1>4, <1>6 DEF seg

\* What is printed of a command.
Prints(d, name, rest) == exe(d) = name /\ args(d) = rest

Several(token, f, e, s, l) ==
    /\ 1 <= f /\ f <= e /\ e < s /\ s <= l /\ l <= Len(token)
    /\ \A k \in f .. e : token[k] \notin Space
    /\ token[e + 1] \in Space /\ token[s] \notin Space /\ token[l] \notin Space
    /\ \A k \in e + 1 .. Len(token) : token[k] \notin Space => s <= k
    /\ Len(SubSeq(token, f, e)) < EXE_MAX - 1

LEMMA ManyWords ==
    ASSUME NEW cells, NEW token \in Letters, Len(token) < ARG_MAX - 1,
           NEW f \in Nat, NEW e \in Nat, NEW s \in Nat, NEW l \in Nat,
           Several(token, f, e, s, l)
    PROVE  LET d == Command(cells, SubSeq(token, f, l)) IN
           Prints(d, SubSeq(token, f, e), SubSeq(token, s, l))
  <1> DEFINE seg  == SubSeq(token, f, l)
             m    == l - f + 1
             len  == e - f + 1
             r    == l - e
             rest == SubSeq(seg, len + 1, Len(seg))
             g    == s - e
             spaces == {k \in DOMAIN seg : seg[k] \in Space}
             c      == CHOOSE k \in spaces : \A j \in spaces : k <= j
  <1> USE DEF Several
  <1>1. /\ seg \in Letters /\ Len(seg) = m
        /\ \A k \in 1 .. m : seg[k] = token[f + k - 1]
    BY Part DEF Letters
  <1>2. /\ m \in Nat /\ len \in Nat /\ r \in Nat /\ g \in Nat /\ len + 1 <= m
        /\ 1 <= g /\ g <= r /\ len + r = m /\ len < m /\ m <= Len(token)
        /\ Len(token) \in Nat
    BY DEF Letters
  <1>3. rest = SubSeq(token, e + 1, l)
    <2>1. /\ f <= l + 1 /\ len + 1 \in Nat /\ 1 <= len + 1 /\ len + 1 <= m + 1 /\ m <= l - f + 1
      OBVIOUS
    <2>2. f + (len + 1) - 1 = e + 1 /\ f + m - 1 = l
      OBVIOUS
    <2> HIDE DEF len, m
    <2>3. SubSeq(SubSeq(token, f, l), len + 1, m) = SubSeq(token, f + (len + 1) - 1, f + m - 1)
      BY <1>2, <2>1, PartOfPart DEF Letters
    <2> QED BY <1>1, <2>2, <2>3
  <1>4. /\ rest \in Letters /\ Len(rest) = r
        /\ \A k \in 1 .. r : rest[k] = token[e + k]
    <2> HIDE DEF rest
    <2>1. /\ SubSeq(token, e + 1, l) \in Seq(Typeable)
          /\ Len(SubSeq(token, e + 1, l)) = l - (e + 1) + 1
          /\ \A k \in 1 .. l - (e + 1) + 1 :
               SubSeq(token, e + 1, l)[k] = token[(e + 1) + k - 1]
      <3>1. e + 1 \in Nat /\ 1 <= e + 1 /\ e + 1 <= l + 1
        OBVIOUS
      <3> QED BY <3>1, Part DEF Letters
    <2>2. l - (e + 1) + 1 = r /\ \A k \in 1 .. r : (e + 1) + k - 1 = e + k
      OBVIOUS
    <2> QED BY <1>3, <2>1, <2>2 DEF Letters
  <1>5. DOMAIN seg = 1 .. m
    BY <1>1 DEF Letters
  <1>6. /\ \A k \in 1 .. len : seg[k] \notin Space
        /\ seg[len + 1] \in Space
    <2>1. /\ \A k \in 1 .. len : f + k - 1 \in f .. e /\ k \in 1 .. m
          /\ len + 1 \in 1 .. m /\ f + (len + 1) - 1 = e + 1
      OBVIOUS
    <2> HIDE DEF seg, len, m
    <2> QED BY <1>1, <2>1
  <1> HIDE DEF seg, m, len, r, g
  <1>7. /\ len + 1 \in spaces /\ spaces \subseteq Nat
        /\ \A j \in spaces : len + 1 <= j
    BY <1>2, <1>5, <1>6
  <1>8. Command(cells, seg) = IF spaces = {} THEN WithoutArgs(cells, seg)
                              ELSE WithArgs(cells, seg, c - 1)
    BY Zenon DEF Command
  <1> HIDE DEF spaces
  <1>9. c = len + 1
    <2>1. \A k \in spaces : (\A j \in spaces : k <= j) => k = len + 1
      BY <1>2, <1>7
    <2> QED BY <1>7, <2>1
  <1>10. Command(cells, seg) = WithArgs(cells, seg, len)
    <2> HIDE DEF c
    <2>1. spaces # {} /\ c - 1 = len
      BY <1>2, <1>7, <1>9
    <2> QED BY <1>8, <2>1
  <1>11. Trim(rest) = SubSeq(rest, g, r)
    <2>1. g \in 1 .. Len(rest) /\ r \in 1 .. Len(rest) /\ rest \in Seq(Typeable)
      BY <1>2, <1>4 DEF Letters
    <2>2. rest[g] = token[s] /\ rest[r] = token[l]
      <3>1. g \in 1 .. r /\ r \in 1 .. r /\ e + g = s /\ e + r = l
        BY <1>2 DEF g, r
      <3> QED BY <1>4, <3>1
    <2>3. ASSUME NEW k \in 1 .. Len(rest), rest[k] \notin Space
          PROVE  g <= k /\ k <= r
      <3>1. e + k \in e + 1 .. Len(token) /\ k <= r /\ k \in 1 .. r
        BY <1>2, <1>4 DEF r
      <3>2. s <= e + k
        BY <1>4, <2>3, <3>1
      <3> QED BY <3>1, <3>2 DEF g
    <2> HIDE DEF rest
    <2> QED BY <2>1, <2>2, <2>3, TrimIs
  <1>12. SubSeq(rest, g, r) = SubSeq(token, s, l)
    <2>1. /\ e + 1 \in Nat /\ 1 <= e + 1 /\ e + 1 <= l + 1 /\ g <= r + 1
          /\ r <= l - (e + 1) + 1
      BY <1>2 DEF r
    <2>2. e + 1 + g - 1 = s /\ e + 1 + r - 1 = l
      BY DEF g, r
    <2> HIDE DEF rest
    <2>3. SubSeq(SubSeq(token, e + 1, l), g, r) = SubSeq(token, e + 1 + g - 1, e + 1 + r - 1)
      BY ONLY <1>2, <2>1, PartOfPart, token \in Letters, e \in Nat, l \in Nat,
              l <= Len(token) DEF Letters
    <2> QED BY <1>3, <2>2, <2>3
  <1>13. SubSeq(token, s, l) \in Letters /\ Len(SubSeq(token, s, l)) = l - s + 1
    <2>1. 1 <= s /\ s <= l + 1
      OBVIOUS
    <2> QED BY <2>1, Part DEF Letters
  <1>14. SubSeq(seg, 1, len) = SubSeq(token, f, e)
    <2>1. f <= l + 1 /\ 1 <= len + 1 /\ len <= l - f + 1 /\ f + 1 - 1 = f /\ f + len - 1 = e
          /\ 1 \in Nat /\ 1 <= 1
      BY <1>2 DEF len, m
    <2>2. SubSeq(SubSeq(token, f, l), 1, len) = SubSeq(token, f + 1 - 1, f + len - 1)
      BY ONLY <1>2, <2>1, PartOfPart, token \in Letters, f \in Nat, l \in Nat,
              1 <= f, l <= Len(token) DEF Letters
    <2> QED BY <2>1, <2>2 DEF seg
  <1>15. len < EXE_MAX - 1
    <2>1. Len(SubSeq(token, f, e)) = e - f + 1
      <3>1. f <= e + 1 /\ e <= Len(token)
        BY <1>2
      <3> QED BY <3>1, Part DEF Letters
    <2> QED BY <2>1 DEF len
  <1>16. /\ Trim(rest) \in Letters /\ Len(Trim(rest)) < ARG_MAX - 1
    <2>1. l - s + 1 < ARG_MAX - 1
      BY <1>2, ListAssumption
    <2> QED BY <1>11, <1>12, <1>13, <2>1
  <1>17. /\ exe(WithArgs(cells, seg, len)) = SubSeq(seg, 1, len)
         /\ args(WithArgs(cells, seg, len)) = Trim(rest)
    BY <1>1, <1>2, <1>15, <1>16, WithArgsIs
  <1> QED BY <1>10, <1>11, <1>12, <1>14, <1>17 DEF seg, Prints

\* A token's command, whatever the cells held.
LEMMA CommandIs ==
    ASSUME NEW cells, NEW token \in Letters, Len(token) < ARG_MAX - 1,
           Len(NameAndArgs(token).exe) < EXE_MAX - 1
    PROVE  /\ exe(Command(cells, Trim(token))) = NameAndArgs(token).exe
           /\ args(Command(cells, Trim(token))) = NameAndArgs(token).args
  <1> DEFINE w == Pieces(token, Space)
             m == Len(w)
             n == Len(token)
             f == w[1][1]
             e == w[1][2]
             s == w[2][1]
             l == w[m][2]
             d == Command(cells, Trim(token))
             named == NameAndArgs(token)
  <1>1. n \in Nat /\ token \in Seq(Typeable)
    BY DEF Letters
  <1>2. Enumerates(w, token, Space, n)
    BY <1>1, PiecesEnumerate
  <1>3. w \in Seq(Nat \X Nat)
    BY <1>2 DEF Enumerates
  <1>4. /\ m \in Nat
        /\ m = 0 => \A k \in 1 .. n : token[k] \in Space
        /\ m > 0 => /\ f \in 1 .. n /\ e \in f .. n /\ l \in e .. n
                    /\ token[l] \notin Space
                    /\ \A k \in f .. e : token[k] \notin Space
                    /\ \A k \in 1 .. n : token[k] \notin Space => f <= k /\ k <= l
        /\ m > 1 => /\ s \in e + 1 .. l /\ token[s] \notin Space
                    /\ token[e + 1] \in Space
                    /\ \A k \in e + 1 .. n : token[k] \notin Space => s <= k
    <2> HIDE DEF w, n
    <2> QED BY ONLY <1>1, <1>2, WordsLie
  <1>5. /\ named.exe = IF w = <<>> THEN <<>> ELSE SubSeq(token, f, e)
        /\ named.args = IF m < 2 THEN <<>> ELSE SubSeq(token, s, l)
    BY DEF NameAndArgs, Piece
  <1>6. w = <<>> <=> m = 0
    BY <1>3
  <1> HIDE DEF n, m, f, e, s, l, named, w
  <1>7. CASE m = 0
    <2>1. Trim(token) = <<>>
      BY <1>1, <1>4, <1>7, TrimNone DEF n
    <2>2. named.exe = <<>> /\ named.args = <<>>
      BY <1>5, <1>6, <1>7
    <2> QED BY Zenon, <2>1, <2>2, NoWord DEF d, named
  <1>8. ASSUME m > 0
        PROVE  Trim(token) = SubSeq(token, f, l)
    <2>1. /\ f \in 1 .. Len(token) /\ l \in 1 .. Len(token)
          /\ token[f] \notin Space /\ token[l] \notin Space
          /\ \A k \in 1 .. Len(token) : token[k] \notin Space => f <= k /\ k <= l
      BY <1>1, <1>4, <1>8 DEF n
    <2> QED BY ONLY <1>1, <2>1, TrimIs
  <1>9. m > 0 => named.exe = SubSeq(token, f, e) /\ Len(SubSeq(token, f, e)) < EXE_MAX - 1
    BY <1>4, <1>5, <1>6 DEF named
  <1>10. CASE m = 1
    <2>1. l = e /\ m < 2 /\ m > 0
      BY <1>10 DEF l, e
    <2>2. /\ f \in Nat /\ e \in Nat /\ 1 <= f /\ f <= e /\ e <= Len(token)
          /\ \A k \in f .. e : token[k] \notin Space
          /\ Len(SubSeq(token, f, e)) < EXE_MAX - 1
      BY <1>1, <1>4, <1>9, <1>10 DEF n
    <2>3. /\ exe(Command(cells, SubSeq(token, f, e))) = SubSeq(token, f, e)
          /\ args(Command(cells, SubSeq(token, f, e))) = <<>>
      BY ONLY <2>2, OneWord, token \in Letters
    <2>4. named.args = <<>> /\ named.exe = SubSeq(token, f, e) /\ Trim(token) = SubSeq(token, f, e)
      BY Zenon, <1>5, <1>8, <1>9, <2>1
    <2> QED BY Zenon, <2>3, <2>4 DEF d, named
  <1>11. CASE m > 1
    <2>1. f \in Nat /\ e \in Nat /\ s \in Nat /\ l \in Nat /\ Several(token, f, e, s, l)
      BY <1>1, <1>4, <1>9, <1>11 DEF n, Several
    <2>2. Prints(Command(cells, SubSeq(token, f, l)), SubSeq(token, f, e), SubSeq(token, s, l))
      BY Zenon, <2>1, ManyWords
    <2>3. ~(m < 2) /\ m > 0
      BY <1>4, <1>11
    <2>4. named.args = SubSeq(token, s, l) /\ named.exe = SubSeq(token, f, e)
          /\ Trim(token) = SubSeq(token, f, l)
      BY Zenon, <1>5, <1>8, <1>9, <2>3
    <2> QED BY Zenon, <2>2, <2>4 DEF d, named, Prints
  <1> QED BY <1>4, <1>7, <1>10, <1>11 DEF d, named

\* A list that is made of the line has its commands.
LEMMA MadeHolds ==
    ASSUME ListInv, typed > 0, NEW old, Made(list, old), NamesFit(Commands)
    PROVE  /\ list.rc = IF list.line = <<>> THEN WARN_NO_CMDS
                        ELSE IF Len(Commands) > CMD_MAX
                        THEN ERR_TOO_MANY_COMMANDS ELSE OK
           /\ list.rc = OK => Shown = Commands
           /\ list.num = 1 => Len(Commands) = 1
  <1> DEFINE commands == Commands
             n        == Len(strtok(list.line))
             tokens   == Tokens(list.line, Len(list.line))
  <1>1. list.line \in Lines /\ list.line \in Texts /\ list.line \in Letters
        /\ Len(list.line) < ARG_MAX - 1
    BY LineAssumption, LinesAreTexts DEF ListInv, Letters
  <1> DEFINE built == build_cmd_list(list.line, old)
  <1>3. list.rc = built.rc /\ list.num = built.num /\ list.commands = built.commands
    BY DEF Made
  <1>4. /\ n \in Nat /\ built.num = (IF n > CMD_MAX THEN CMD_MAX ELSE n)
        /\ built.rc = IF list.line = <<>> THEN WARN_NO_CMDS
                      ELSE IF n > CMD_MAX THEN ERR_TOO_MANY_COMMANDS ELSE OK
        /\ \A i \in 1 .. built.num :
             built.commands[i] = Command(old[i], Trim(strtok(list.line)[i]))
    BY <1>1, BuiltList
  <1>5. /\ tokens = Pieces(list.line, Pipe)
        /\ Enumerates(tokens, list.line, Pipe, Len(list.line))
    BY <1>1, TokensArePieces
  <1>6. /\ tokens \in Seq(Pairs) /\ Len(tokens) \in Nat
        /\ strtok(list.line) = [k \in 1 .. Len(tokens) |->
                                  SubSeq(list.line, tokens[k][1], tokens[k][2])]
        /\ n = Len(tokens)
    BY <1>1, TokensType
  <1> HIDE DEF n, tokens, built
  <1>7. DOMAIN tokens = 1 .. n
    BY <1>6
  <1>8. Segments = [k \in 1 .. n |-> SubSeq(list.line, tokens[k][1], tokens[k][2])]
    BY <1>5, <1>7 DEF Segments, Piece
  <1>9. Segments = strtok(list.line)
    BY <1>6, <1>8
  <1>10. commands = [k \in 1 .. n |-> NameAndArgs(Segments[k])]
    BY <1>8 DEF Commands
  <1> HIDE DEF commands
  <1>11. Len(commands) = n /\ DOMAIN commands = 1 .. n
    BY <1>4, <1>10
  <1>12. list.rc = IF list.line = <<>> THEN WARN_NO_CMDS
                   ELSE IF Len(commands) > CMD_MAX THEN ERR_TOO_MANY_COMMANDS ELSE OK
    BY <1>3, <1>4, <1>11
  <1>13. ASSUME list.rc = OK
         PROVE  Shown = commands
    <2>1. list.num = n
      <3>1. ~(n > CMD_MAX)
        BY <1>11, <1>12, <1>13 DEF OK, WARN_NO_CMDS, ERR_TOO_MANY_COMMANDS
      <3> QED BY <1>3, <1>4, <3>1
    <2>2. ASSUME NEW i \in 1 .. n
          PROVE  /\ exe(list.commands[i]) = commands[i].exe
                 /\ args(list.commands[i]) = commands[i].args
      <3> DEFINE token == strtok(list.line)[i]
      <3>1. list.commands[i] = Command(old[i], Trim(token))
        BY <1>3, <1>4, <2>1
      <3>2. commands[i] = NameAndArgs(token)
        BY <1>9, <1>10
      <3>3. token = SubSeq(list.line, tokens[i][1], tokens[i][2])
        BY <1>6
      <3>4. /\ tokens[i][1] \in Nat /\ tokens[i][2] \in Nat /\ 1 <= tokens[i][1]
            /\ tokens[i][1] <= tokens[i][2] /\ tokens[i][2] <= Len(list.line)
        <4>1. /\ 1 <= tokens[i][1] /\ tokens[i][1] <= tokens[i][2]
              /\ tokens[i][2] <= Len(list.line)
          BY <1>5, <1>6 DEF Enumerates
        <4>2. tokens[i] \in Pairs
          BY <1>6
        <4> QED BY <4>1, <4>2 DEF Pairs
      <3>5. token \in Letters /\ Len(token) < ARG_MAX - 1
        <4>1. /\ token \in Seq(Typeable)
              /\ Len(token) = tokens[i][2] - tokens[i][1] + 1
          BY <1>1, <3>3, <3>4, Part DEF Letters
        <4>2. Len(list.line) \in Nat /\ ARG_MAX \in Nat
          BY <1>1, Sizes DEF Letters
        <4> QED BY <1>1, <3>4, <4>1, <4>2 DEF Letters
      <3>6. Len(NameAndArgs(token).exe) < EXE_MAX - 1
        BY <1>11, <3>2 DEF NamesFit, commands
      <3> HIDE DEF token
      <3>7. /\ exe(Command(old[i], Trim(token))) = NameAndArgs(token).exe
            /\ args(Command(old[i], Trim(token))) = NameAndArgs(token).args
        BY ONLY <3>5, <3>6, CommandIs
      <3> QED BY <3>1, <3>2, <3>7
    <2>3. \A i \in 1 .. n : commands[i] = [exe |-> commands[i].exe, args |-> commands[i].args]
      BY <1>10 DEF NameAndArgs
    <2>4. Shown = [i \in 1 .. n |-> [exe |-> exe(list.commands[i]),
                                     args |-> args(list.commands[i])]]
      BY <2>1 DEF Shown
    <2>5. Shown = [i \in 1 .. n |-> commands[i]]
      BY <2>2, <2>3, <2>4
    <2>6. commands = [i \in 1 .. n |-> commands[i]]
      BY <1>10
    <2> QED BY <2>5, <2>6
  <1>14. list.num = 1 => Len(commands) = 1
    <2>1. CMD_MAX \in Nat /\ CMD_MAX > 1
      BY ListAssumption
    <2> QED BY <1>3, <1>4, <1>11, <2>1
  <1> QED BY <1>12, <1>13, <1>14 DEF commands

LEMMA ListHolds == ListInv => ListIsLine
  <1> SUFFICES ASSUME ListInv, list.pc = "prompt", typed > 0, NamesFit(Commands)
               PROVE  /\ list.rc = IF list.line = <<>> THEN WARN_NO_CMDS
                                   ELSE IF Len(Commands) > CMD_MAX
                                   THEN ERR_TOO_MANY_COMMANDS ELSE OK
                      /\ list.rc = OK => Shown = Commands
    BY Zenon DEF ListIsLine
  <1>1. PICK old : Made(list, old)
    BY DEF ListInv
  <1> QED BY <1>1, MadeHolds

\* What the first shell prints for a line without blank commands is the line's
\* commands, whatever was in its list before (dshlib.c lines 38-87, dsh_cli.c
\* lines 72-87).
THEOREM PrintedListIsTheLine == Spec => []ListIsLine
  BY ListInvariant, ListHolds, PTL

----------------------------------------------------------------------------
(* On a line of plain words both parsers find them. *)

WordsIn(s) == LET w == Pieces(s, Space)
              IN [k \in 1 .. Len(w) |-> SubSeq(s, w[k][1], w[k][2])]

PartOf(words, p, q) == [j \in 1 .. q |-> words[p + j]]

\* What enumerates the words of a text.
WordCells(w, s) ==
    /\ Len(w) \in Nat
    /\ \A k \in 1 .. Len(w) :
         /\ w[k][1] \in 1 .. Len(s) /\ w[k][2] \in w[k][1] .. Len(s)
         /\ \A i \in w[k][1] .. w[k][2] : s[i] \notin Space
         /\ w[k][2] < Len(s) => s[w[k][2] + 1] \in Space
    /\ \A j, k \in 1 .. Len(w) : j < k => w[j][2] < w[k][1]
    /\ \A c \in 1 .. Len(s) : s[c] \notin Space =>
         \E k \in 1 .. Len(w) : w[k][1] <= c /\ c <= w[k][2]

LEMMA WordsOf ==
    ASSUME NEW C, NEW s \in Seq(C)
    PROVE  /\ Enumerates(Pieces(s, Space), s, Space, Len(s))
           /\ WordCells(Pieces(s, Space), s)
           /\ Len(WordsIn(s)) = Len(Pieces(s, Space))
           /\ \A k \in 1 .. Len(Pieces(s, Space)) :
                WordsIn(s)[k] = SubSeq(s, Pieces(s, Space)[k][1], Pieces(s, Space)[k][2])
           /\ WordsIn(s) \in Seq(Seq(C))
  <1> DEFINE w == Pieces(s, Space)
             m == Len(w)
             words == WordsIn(s)
  <1>1. Enumerates(w, s, Space, Len(s))
    BY PiecesEnumerate
  <1> HIDE DEF w
  <1>2. /\ m \in Nat /\ Len(s) \in Nat
        /\ \A k \in 1 .. m : w[k][1] \in Nat /\ w[k][2] \in Nat
    BY <1>1 DEF Enumerates
  <1>3. \A k \in 1 .. m :
         /\ 1 <= w[k][1] /\ w[k][1] <= w[k][2] /\ w[k][2] <= Len(s)
         /\ \A i \in w[k][1] .. w[k][2] : s[i] \notin Space
         /\ w[k][2] < Len(s) => s[w[k][2] + 1] \in Space
    BY <1>1 DEF Enumerates
  <1>4. /\ \A j, k \in 1 .. m : j < k => w[j][2] < w[k][1]
        /\ \A c \in 1 .. Len(s) : s[c] \notin Space =>
             \E k \in 1 .. m : w[k][1] <= c /\ c <= w[k][2]
    BY <1>1 DEF Enumerates
  <1>5. \A k \in 1 .. m :
          w[k][1] \in 1 .. Len(s) /\ w[k][2] \in w[k][1] .. Len(s)
    BY <1>2, <1>3
  <1>6. WordCells(w, s)
    BY <1>2, <1>3, <1>4, <1>5 DEF WordCells
  <1>7. words = [k \in 1 .. m |-> SubSeq(s, w[k][1], w[k][2])]
    BY DEF WordsIn, w
  <1> HIDE DEF m, words
  <1>8. \A k \in 1 .. m : SubSeq(s, w[k][1], w[k][2]) \in Seq(C)
    <2> SUFFICES ASSUME NEW k \in 1 .. m
                 PROVE  SubSeq(s, w[k][1], w[k][2]) \in Seq(C)
      OBVIOUS
    <2> DEFINE x == w[k][1]
               y == w[k][2]
    <2>1. x \in Nat /\ y \in Nat /\ 1 <= x /\ x <= y + 1 /\ y <= Len(s)
      BY <1>2, <1>5
    <2> HIDE DEF x, y
    <2>2. SubSeq(s, x, y) \in Seq(C)
      BY <2>1, Part
    <2> QED BY <2>2 DEF x, y
  <1>9. /\ Len(words) = m /\ words \in Seq(Seq(C))
        /\ \A k \in 1 .. m : words[k] = SubSeq(s, w[k][1], w[k][2])
    <2>1. words \in [1 .. m -> Seq(C)]
      BY <1>7, <1>8
    <2>2. \A X : words \in [1 .. m -> X] => Len(words) = m /\ words \in Seq(X)
      BY <1>2
    <2> QED BY <1>7, <2>1, <2>2
  <1> QED BY <1>1, <1>6, <1>9 DEF w, m, words

\* The words of a part that cuts none.
LEMMA PartWords ==
    ASSUME NEW C, NEW s \in Seq(C), NEW a \in Nat, NEW b \in Nat,
           1 <= a, a <= b + 1, b <= Len(s), NEW p \in Nat, NEW q \in Nat,
           Uncut(Pieces(s, Space), a, b, p, q)
    PROVE  WordsIn(SubSeq(s, a, b)) = PartOf(WordsIn(s), p, q)
  <1> DEFINE w == Pieces(s, Space)
             t == SubSeq(s, a, b)
             v == [j \in 1 .. q |-> <<w[p + j][1] - a + 1, w[p + j][2] - a + 1>>]
  <1>1. /\ Enumerates(w, s, Space, Len(s)) /\ WordCells(w, s)
        /\ \A k \in 1 .. Len(w) : WordsIn(s)[k] = SubSeq(s, w[k][1], w[k][2])
    BY WordsOf
  <1>2. Pieces(t, Space) = v
    <2>1. PiecesOfPart(s, Space, w, a, b, p, q)
      <3>1. Uncut(w, a, b, p, q)
        OBVIOUS
      <3> HIDE DEF w
      <3> QED BY <1>1, <3>1, PartPieces
    <2> QED BY <2>1 DEF PiecesOfPart
  <1>3. Len(v) = q
    OBVIOUS
  <1>4. \A j \in 1 .. q : /\ v[j][1] = w[p + j][1] - a + 1
                          /\ v[j][2] = w[p + j][2] - a + 1
    OBVIOUS
  <1> HIDE DEF v
  <1>5. WordsIn(t) = [j \in 1 .. q |-> SubSeq(t, v[j][1], v[j][2])]
    BY <1>2, <1>3 DEF WordsIn
  <1>6. ASSUME NEW j \in 1 .. q
        PROVE  SubSeq(t, v[j][1], v[j][2]) = WordsIn(s)[p + j]
    <2> DEFINE x == w[p + j][1]
               y == w[p + j][2]
               f == x - a + 1
               l == y - a + 1
    <2>1. p + j \in 1 .. Len(w) /\ p + j \in p + 1 .. p + q
      BY <1>1 DEF WordCells, Uncut
    <2>2. WordsIn(s)[p + j] = SubSeq(s, x, y)
      BY <1>1, <2>1
    <2>3. x \in 1 .. Len(s) /\ y \in x .. Len(s) /\ a <= x /\ y <= b
      BY <1>1, <2>1 DEF WordCells, Uncut
    <2>4. v[j][1] = f /\ v[j][2] = l
      BY <1>4
    <2> HIDE DEF x, y, w
    <2>5. /\ f \in Nat /\ l \in Nat /\ 1 <= f /\ f <= l + 1 /\ l <= b - a + 1
          /\ a + f - 1 = x /\ a + l - 1 = y
      BY <2>3
    <2> HIDE DEF f, l
    <2>6. SubSeq(t, f, l) = SubSeq(s, a + f - 1, a + l - 1)
      BY <2>5, PartOfPart
    <2> QED BY <2>2, <2>4, <2>5, <2>6
  <1> QED BY <1>5, <1>6 DEF PartOf

\* A text without quotes and tabs: its blanks are spaces.
Plain(s) == \A k \in 1 .. Len(s) : /\ s[k] # B!QUOTE
                                   /\ s[k] \in B!isspace <=> s[k] \in Space

LEMMA WordsAreArguments ==
    ASSUME NEW s \in Letters, Plain(s)
    PROVE  WordsIn(s) \in Arguments
  <1> DEFINE C == Typeable \ {B!QUOTE}
  <1>1. \A k \in 1 .. Len(s) : s[k] \in C
    BY DEF Letters, Plain
  <1>2. s \in Seq(C)
    BY <1>1 DEF Letters
  <1> QED BY <1>2, WordsOf DEF Arguments, Argument

\* Blanks take the loop out of the argument.
LEMMA BlanksPass ==
    ASSUME NEW text \in Texts, NEW i \in 0 .. Len(text), NEW j \in i + 1 .. Len(text),
           \A c \in i + 1 .. j : text[c] \in B!isspace,
           NEW arguments \in Arguments, NEW k \in 0 .. Len(arguments),
           After(B!Scan(text, i), arguments, k, i)
    PROVE  \/ Between(B!Scan(text, j), arguments, k, j)
           \/ Complete(B!Scan(text, j), arguments, k, j)
  <1> DEFINE Out(c) == \/ Between(B!Scan(text, c), arguments, k, c)
                       \/ Complete(B!Scan(text, c), arguments, k, c)
             T == {c \in 0 .. j : c <= i \/ Out(c)}
  <1>1. Len(text) \in Nat /\ i \in Nat /\ j \in Nat /\ i < j /\ j <= Len(text)
    BY DEF Texts
  <1>2. 0 \in T
    BY <1>1
  <1>3. ASSUME NEW c \in 1 .. j, c - 1 \in T
        PROVE  c \in T
    <2>1. CASE c <= i
      BY <2>1
    <2>2. CASE c > i
      <3>1. c \in i + 1 .. j /\ c \in 1 .. Len(text) /\ (c - 1 = i \/ ~(c - 1 <= i))
        BY <1>1, <2>2
      <3>2. After(B!Scan(text, c - 1), arguments, k, c - 1)
        <4>1. CASE c - 1 = i
          BY <4>1
        <4>2. CASE ~(c - 1 <= i)
          BY <1>3, <4>2 DEF After
        <4> QED BY <3>1, <4>1, <4>2
      <3>3. text[c] \in B!isspace
        BY <3>1
      <3>4. Out(c)
        BY <3>1, <3>2, <3>3, BlankEnds
      <3> QED BY <3>4
    <2> QED BY <1>1, <2>1, <2>2
  <1> HIDE DEF T
  <1>4. 0 .. j \subseteq T
    BY <1>1, <1>2, <1>3, UpTo
  <1>5. j \in T /\ ~(j <= i)
    BY <1>1, <1>4
  <1> QED BY <1>5 DEF T

\* The loop has seen a text's words.
LEMMA AfterWords ==
    ASSUME NEW text \in Letters, Plain(text)
    PROVE  After(B!Scan(text, Len(text)), WordsIn(text), Len(WordsIn(text)), Len(text))
  <1> DEFINE n == Len(text)
             w == Pieces(text, Space)
             m == Len(w)
             words == WordsIn(text)
             e(k) == IF k = 0 THEN 0 ELSE w[k][2]
             Seen(k) == After(B!Scan(text, e(k)), words, k, e(k))
             T == {k \in 0 .. m : Seen(k)}
  <1>1. /\ text \in Seq(Typeable) /\ text \in Texts /\ n \in Nat
    <2>1. Typeable \subseteq Chars
      BY DEF Chars
    <2>2. \A S, V : S \subseteq V => Seq(S) \subseteq Seq(V)
      OBVIOUS
    <2> QED BY <2>1, <2>2 DEF Letters, Texts
  <1>2. /\ WordCells(w, text) /\ Len(words) = m
        /\ \A k \in 1 .. m : words[k] = SubSeq(text, w[k][1], w[k][2])
    BY <1>1, WordsOf
  <1>3. words \in Arguments
    BY WordsAreArguments
  <1> HIDE DEF w, words
  <1>4. /\ m \in Nat
        /\ \A k \in 1 .. m :
             /\ w[k][1] \in 1 .. n /\ w[k][2] \in w[k][1] .. n
             /\ \A i \in w[k][1] .. w[k][2] : text[i] \notin Space
             /\ w[k][2] < n => text[w[k][2] + 1] \in Space
        /\ \A j, k \in 1 .. m : j < k => w[j][2] < w[k][1]
        /\ \A c \in 1 .. n : text[c] \notin Space =>
             \E k \in 1 .. m : w[k][1] <= c /\ c <= w[k][2]
    BY <1>2 DEF WordCells
  <1>5. \A c \in 1 .. n : text[c] # B!QUOTE /\ (text[c] \in B!isspace <=> text[c] \in Space)
    BY DEF Plain
  <1> HIDE DEF m, n
  <1>6. \A k \in 1 .. m : /\ k \in Nat /\ k - 1 \in 0 .. m /\ k \in 0 .. m
                          /\ e(k) = w[k][2]
                          /\ e(k - 1) \in 0 .. n /\ e(k - 1) < w[k][1]
                          /\ k # 1 => k - 1 \in 1 .. m /\ e(k - 1) = w[k - 1][2]
    <2> SUFFICES ASSUME NEW k \in 1 .. m
                 PROVE  /\ k \in Nat /\ k - 1 \in 0 .. m /\ k \in 0 .. m
                        /\ e(k) = w[k][2]
                        /\ e(k - 1) \in 0 .. n /\ e(k - 1) < w[k][1]
                        /\ k # 1 => k - 1 \in 1 .. m /\ e(k - 1) = w[k - 1][2]
      OBVIOUS
    <2>1. /\ k \in Nat /\ k # 0 /\ k - 1 \in 0 .. m /\ k \in 0 .. m
          /\ w[k][1] \in 1 .. n
      BY <1>4
    <2>2. CASE k = 1
      BY <1>1, <2>1, <2>2
    <2>3. CASE k # 1
      <3>1. k - 1 \in 1 .. m /\ k - 1 # 0 /\ k - 1 < k
        BY <1>4, <2>3
      <3>2. w[k - 1][2] < w[k][1] /\ w[k - 1][2] \in w[k - 1][1] .. n /\ w[k - 1][1] \in 1 .. n
        BY <1>4, <3>1
      <3>3. e(k - 1) = w[k - 1][2]
        BY <3>1
      <3>4. w[k - 1][2] \in 0 .. n
        BY <3>2
      <3> QED BY <2>1, <3>1, <3>2, <3>3, <3>4
    <2> QED BY <2>2, <2>3
  <1>7. ASSUME NEW k \in 0 .. m, NEW c \in 1 .. n, e(k) < c,
               \A j \in 1 .. m : k < j => c < w[j][1]
        PROVE  text[c] \in B!isspace
    <2> SUFFICES ASSUME text[c] \notin Space
                 PROVE  FALSE
      BY <1>5
    <2>1. PICK j \in 1 .. m : w[j][1] <= c /\ c <= w[j][2]
      BY <1>4
    <2> DEFINE x == w[j][1]
               y == w[j][2]
    <2>2. x \in Nat /\ y \in Nat /\ c \in Nat /\ x <= c /\ c <= y
      BY <1>1, <1>4, <2>1
    <2>3. ~(k < j)
      <3>1. k < j => c < x
        BY <1>7
      <3> HIDE DEF x, y
      <3> QED BY <2>2, <3>1
    <2>4. k # 0 /\ k \in 1 .. m /\ (j = k \/ j < k)
      <3>1. m \in Nat /\ j \in 1 .. m /\ k \in 0 .. m
        BY <1>4
      <3> HIDE DEF e, T
      <3> QED BY ONLY <2>3, <3>1
    <2>5. w[j][2] <= w[k][2]
      <3>1. CASE j = k
        BY <2>2, <3>1
      <3>2. CASE j < k
        <4>1. w[j][2] < w[k][1] /\ w[k][1] \in 1 .. n /\ w[k][2] \in w[k][1] .. n
          BY <1>4, <2>4, <3>2
        <4> QED BY <2>2, <4>1
      <3> QED BY <2>4, <3>1, <3>2
    <2> DEFINE z == w[k][2]
    <2>6. e(k) = z /\ z \in Int /\ y <= z /\ e(k) < c
      BY <1>4, <1>7, <2>4, <2>5
    <2> HIDE DEF x, y, z
    <2> QED BY <2>2, <2>6
  <1>8. 0 \in T
    <2>1. B!Scan(text, 0) = Start(text)
      BY <1>1, ScanSteps
    <2>2. Between(Start(text), words, 0, 0)
      BY DEF Start, Between, Holds
    <2>3. 0 \in 0 .. m
      BY <1>4
    <2> QED BY <2>1, <2>2, <2>3 DEF After
  <1>9. Between(B!Scan(text, 0), words, 0, 0)
    <2>1. B!Scan(text, 0) = Start(text)
      BY <1>1, ScanSteps
    <2> QED BY <2>1 DEF Start, Between, Holds
  <1>10. ASSUME NEW k \in 1 .. m, k - 1 \in T
         PROVE  k \in T
    <2> DEFINE i  == e(k - 1)
               x  == w[k][1]
               y  == w[k][2]
               at == x - 1
               arg == words[k]
    <2>1. After(B!Scan(text, i), words, k - 1, i)
      BY <1>10
    <2>2. /\ x \in 1 .. n /\ y \in x .. n /\ i \in 0 .. n /\ i < x
          /\ \A c \in x .. y : text[c] \notin Space
          /\ k - 1 \in 0 .. m /\ k \in 1 .. Len(words) /\ k - 1 \in 0 .. Len(words)
          /\ e(k) = y /\ arg = SubSeq(text, x, y)
      BY <1>2, <1>4, <1>6
    <2>3. \A j \in 1 .. m : k - 1 < j => x <= w[j][1]
      <3> SUFFICES ASSUME NEW j \in 1 .. m, k - 1 < j
                   PROVE  x <= w[j][1]
        OBVIOUS
      <3>1. j = k \/ k < j
        BY <1>4
      <3>2. CASE j = k
        BY <2>2, <3>2
      <3>3. CASE k < j
        <4>1. y < w[j][1] /\ w[j][1] \in Int
          BY <1>4, <3>3
        <4> DEFINE z == w[j][1]
        <4> HIDE DEF z, x, y
        <4> QED BY <2>2, <4>1 DEF z
      <3> QED BY <3>1, <3>2, <3>3
    <2> HIDE DEF x, y, arg, e, T
    <2>4. at \in 0 .. n /\ y \in at .. n /\ i <= at
      BY <1>1, <2>2
    <2>5. \/ Between(B!Scan(text, at), words, k - 1, at)
          \/ Complete(B!Scan(text, at), words, k - 1, at)
      <3>1. CASE i = at
        <4>1. k = 1
          <5> SUFFICES ASSUME k # 1
                       PROVE  FALSE
            OBVIOUS
          <5>1. k - 1 \in 1 .. m /\ i = w[k - 1][2]
            BY <1>6 DEF e
          <5>2. i < n => text[i + 1] \in Space
            BY <1>4, <5>1
          <5>3. i < n /\ i + 1 = x /\ x \in x .. y
            BY <1>1, <2>2, <3>1
          <5> QED BY <2>2, <5>2, <5>3
        <4>2. at = 0 /\ k - 1 = 0
          BY <3>1, <4>1 DEF e
        <4> QED BY <1>9, <4>2
      <3>2. CASE i < at
        <4>1. at \in i + 1 .. n
          BY <1>1, <2>2, <2>4, <3>2
        <4>2. \A c \in i + 1 .. at : text[c] \in B!isspace
          <5> SUFFICES ASSUME NEW c \in i + 1 .. at
                       PROVE  text[c] \in B!isspace
            OBVIOUS
          <5>1. c \in 1 .. n /\ i < c /\ c < x
            BY <1>1, <2>2
          <5>2. \A j \in 1 .. m : w[j][1] \in Nat
            BY <1>4
          <5>3. \A j \in 1 .. m : k - 1 < j => c < w[j][1]
            <6> SUFFICES ASSUME NEW j \in 1 .. m, k - 1 < j
                         PROVE  c < w[j][1]
              OBVIOUS
            <6> DEFINE z == w[j][1]
            <6>1. x <= z /\ z \in Nat /\ x \in Nat /\ c < x /\ c \in Nat
              BY <2>2, <2>3, <5>1, <5>2
            <6> HIDE DEF z
            <6> QED BY <6>1 DEF z
          <5>4. k - 1 \in 0 .. m
            BY <2>2
          <5> QED BY <1>7, <5>1, <5>3, <5>4
        <4> HIDE DEF at, i
        <4> QED BY <1>1, <1>3, <2>1, <2>2, <4>1, <4>2, BlanksPass DEF n
      <3> QED BY <2>2, <2>4, <3>1, <3>2
    <2>6. /\ Len(arg) = y - at /\ arg \in Seq(Typeable)
          /\ \A c \in 1 .. Len(arg) : arg[c] = text[at + c]
      <3>1. x \in Nat /\ y \in Nat /\ 1 <= x /\ x <= y + 1 /\ y <= Len(text)
        BY <1>1, <2>2 DEF n
      <3>2. /\ SubSeq(text, x, y) \in Seq(Typeable) /\ Len(SubSeq(text, x, y)) = y - x + 1
            /\ \A c \in 1 .. y - x + 1 : SubSeq(text, x, y)[c] = text[x + c - 1]
        BY <1>1, <3>1, Part
      <3>3. y - x + 1 = y - at /\ \A c \in 1 .. y - at : x + c - 1 = at + c
        BY <3>1
      <3>4. arg = SubSeq(text, x, y)
        BY <2>2
      <3> HIDE DEF at
      <3>5. /\ SubSeq(text, x, y) \in Seq(Typeable) /\ Len(SubSeq(text, x, y)) = y - at
            /\ \A c \in 1 .. y - at : SubSeq(text, x, y)[c] = text[at + c]
        BY ONLY <3>2, <3>3
      <3> QED BY ONLY <3>4, <3>5
    <2>7. Quoted(arg) = arg
      <3>1. Len(arg) \in Nat /\ Len(arg) # 0 /\ DOMAIN arg = 1 .. Len(arg)
        BY <2>2, <2>6
      <3>2. \A c \in 1 .. Len(arg) : arg[c] \notin B!isspace
        <4> SUFFICES ASSUME NEW c \in 1 .. Len(arg)
                     PROVE  arg[c] \notin B!isspace
          OBVIOUS
        <4>1. at + c \in x .. y /\ at + c \in 1 .. n
          <5> DEFINE l == Len(arg)
          <5>1. l = y - at /\ c \in 1 .. l /\ x \in 1 .. n /\ y \in x .. n /\ n \in Nat
            BY <1>1, <2>2, <2>6
          <5> HIDE DEF l
          <5> QED BY ONLY <5>1
        <4> QED BY <1>5, <2>2, <2>6, <4>1
      <3>3. arg # <<>>
        BY <3>1
      <3> QED BY <3>1, <3>2, <3>3 DEF Quoted
    <2>8. y = at + Len(Quoted(arg))
      BY <2>2, <2>6, <2>7
    <2>9. \A c \in 1 .. Len(Quoted(arg)) : text[at + c] = Quoted(arg)[c]
      BY <2>6, <2>7
    <2> HIDE DEF at
    <2>10. After(B!Scan(text, y), words, k, y)
      BY <1>1, <1>3, <2>2, <2>4, <2>5, <2>8, <2>9, QuotedScan DEF arg, n
    <2>11. k \in 0 .. m
      BY <1>6
    <2> QED BY <2>2, <2>10, <2>11 DEF T
  <1> HIDE DEF T
  <1>11. 0 .. m \subseteq T
    BY <1>4, <1>8, <1>10, UpTo
  <1>12. m \in 0 .. m /\ After(B!Scan(text, e(m)), words, m, e(m))
    <2>1. m \in 0 .. m
      BY <1>4
    <2> QED BY <1>11, <2>1 DEF T
  <1>13. e(m) \in 0 .. n
    <2>1. m = 0 \/ m \in 1 .. m
      BY <1>4
    <2>2. CASE m = 0
      BY <1>1, <2>2
    <2>3. CASE m \in 1 .. m
      <3>1. e(m) = w[m][2] /\ w[m][1] \in 1 .. n /\ w[m][2] \in w[m][1] .. n
        BY <1>4, <1>6, <2>3
      <3> QED BY <1>1, <3>1
    <2> QED BY <2>1, <2>2, <2>3
  <1>14. After(B!Scan(text, n), words, m, n)
    <2> DEFINE i == e(m)
    <2>1. i = n \/ i < n
      BY <1>1, <1>13
    <2>2. CASE i = n
      BY <1>12, <2>2
    <2>3. CASE i < n
      <3>1. \A c \in i + 1 .. n : text[c] \in B!isspace
        <4> SUFFICES ASSUME NEW c \in i + 1 .. n
                     PROVE  text[c] \in B!isspace
          OBVIOUS
        <4>1. c \in 1 .. n /\ i < c
          BY <1>1, <1>13
        <4>2. \A j \in 1 .. m : ~(m < j)
          BY <1>4
        <4> QED BY <1>7, <1>12, <4>1, <4>2
      <3>2. n \in i + 1 .. n /\ i \in 0 .. n /\ After(B!Scan(text, i), words, m, i)
        BY <1>1, <1>12, <1>13, <2>3
      <3> HIDE DEF i
      <3>3. \/ Between(B!Scan(text, n), words, m, n)
            \/ Complete(B!Scan(text, n), words, m, n)
        BY <1>1, <1>2, <1>3, <1>12, <3>1, <3>2, BlanksPass DEF n
      <3> QED BY <3>3 DEF After
    <2> QED BY <2>1, <2>2, <2>3
  <1> QED BY <1>2, <1>14 DEF n, words

LEMMA NoWords ==
    ASSUME NEW C, NEW s \in Seq(C), \A k \in 1 .. Len(s) : s[k] \in Space
    PROVE  WordsIn(s) = <<>> /\ Len(Pieces(s, Space)) = 0
  <1> DEFINE m == Len(Pieces(s, Space))
  <1>1. WordCells(Pieces(s, Space), s) /\ Len(WordsIn(s)) = m /\ WordsIn(s) \in Seq(Seq(C))
    BY WordsOf
  <1>2. m \in Nat
    BY <1>1 DEF WordCells
  <1>3. m = 0
    <2> SUFFICES ASSUME m # 0
                 PROVE  FALSE
      OBVIOUS
    <2> DEFINE x == Pieces(s, Space)[1][1]
               y == Pieces(s, Space)[1][2]
    <2>1. 1 \in 1 .. m
      BY <1>2
    <2>2. x \in 1 .. Len(s) /\ y \in x .. Len(s) /\ \A i \in x .. y : s[i] \notin Space
      BY <1>1, <2>1 DEF WordCells
    <2> HIDE DEF x, y
    <2>3. x \in x .. y
      BY <2>2
    <2> QED BY <2>2, <2>3
  <1> HIDE DEF m
  <1>4. WordsIn(s) = <<>>
    BY <1>1, <1>3
  <1> QED BY <1>3, <1>4 DEF m

LEMMA NoWordsInNone == WordsIn(<<>>) = <<>>
  <1> DEFINE none == <<>>
  <1>1. none \in Seq(Typeable) /\ \A k \in 1 .. Len(none) : none[k] \in Space
    OBVIOUS
  <1> HIDE DEF none
  <1>2. WordsIn(none) = <<>>
    BY <1>1, NoWords
  <1> QED BY <1>2 DEF none

\* The blanks in front are of no word.
LEMMA TrimmedWords ==
    ASSUME NEW line \in Letters, Plain(line)
    PROVE  /\ B!Trimmed(line) \in Letters /\ Plain(B!Trimmed(line))
           /\ WordsIn(B!Trimmed(line)) = WordsIn(line)
  <1> DEFINE letters == {k \in DOMAIN line : line[k] \notin B!isspace}
             first   == CHOOSE k \in letters : \A j \in letters : k <= j
             n == Len(line)
             w == Pieces(line, Space)
             m == Len(w)
             words == WordsIn(line)
             text == SubSeq(line, first, n)
  <1>1. line \in Seq(Typeable) /\ n \in Nat /\ DOMAIN line = 1 .. n
    BY DEF Letters
  <1>2. B!Trimmed(line) = IF letters = {} THEN <<>> ELSE text
    BY DEF B!Trimmed
  <1>3. \A k \in 1 .. n : line[k] # B!QUOTE /\ (line[k] \in B!isspace <=> line[k] \in Space)
    BY DEF Plain
  <1>4. \A k : k \in letters <=> k \in 1 .. n /\ line[k] \notin Space
    BY <1>1, <1>3
  <1> HIDE DEF letters
  <1>5. CASE letters = {}
    <2>1. words = <<>>
      <3>1. \A k \in 1 .. n : line[k] \in Space
        BY <1>4, <1>5
      <3> QED BY <1>1, <3>1, NoWords
    <2>2. <<>> \in Seq(Typeable) /\ Len(<<>>) = 0
      OBVIOUS
    <2>3. WordsIn(<<>>) = <<>>
      BY NoWordsInNone
    <2>4. B!Trimmed(line) = <<>>
      BY <1>2, <1>5
    <2> QED BY <2>1, <2>2, <2>3, <2>4 DEF Letters, Plain
  <1>6. CASE letters # {}
    <2>1. letters \subseteq Nat
      BY <1>1, <1>4
    <2>2. \E k \in letters : \A j \in letters : k <= j
      BY <1>6, <2>1, Least
    <2>3. first \in letters /\ \A j \in letters : first <= j
      BY <2>2
    <2> HIDE DEF first
    <2>4. first \in 1 .. n /\ first \in Nat /\ 1 <= first /\ first <= n + 1 /\ n <= Len(line)
      BY <1>1, <1>4, <2>3
    <2>5. /\ text \in Seq(Typeable) /\ Len(text) = n - first + 1
          /\ \A k \in 1 .. n - first + 1 : text[k] = line[first + k - 1]
      BY <1>1, <2>4, Part
    <2>6. Plain(text)
      <3> HIDE DEF text, n
      <3> SUFFICES ASSUME NEW k \in 1 .. Len(text)
                   PROVE  /\ text[k] # B!QUOTE
                          /\ text[k] \in B!isspace <=> text[k] \in Space
        BY DEF Plain
      <3>1. k \in 1 .. n - first + 1 /\ first + k - 1 \in 1 .. n
        BY <1>1, <2>4, <2>5
      <3> QED BY <1>3, <2>5, <3>1
    <2>7. WordCells(w, line) /\ Len(words) = m /\ words \in Seq(Seq(Typeable))
      BY <1>1, WordsOf
    <2> HIDE DEF w, words, text, n
    <2>8. Uncut(w, first, n, 0, m)
      <3>1. m \in Nat
        BY <2>7 DEF WordCells
      <3>2. ASSUME NEW k \in 1 .. m
            PROVE  first <= w[k][1] /\ w[k][2] <= n
        <4> DEFINE x == w[k][1]
                   y == w[k][2]
        <4>1. x \in 1 .. n /\ y \in x .. n /\ \A i \in x .. y : line[i] \notin Space
          BY <2>7 DEF WordCells, n
        <4> HIDE DEF x, y
        <4>2. x \in x .. y /\ y <= n
          BY <1>1, <4>1
        <4>3. x \in letters
          BY <1>4, <4>1, <4>2
        <4>4. first <= x
          BY <2>3, <4>3
        <4> QED BY <4>2, <4>4 DEF x, y
      <3> HIDE DEF m
      <3>3. 0 + m = m /\ 0 + 1 = 1 /\ m + 1 .. m = {} /\ 1 .. 0 = {}
        BY <3>1
      <3> QED BY <3>1, <3>2, <3>3 DEF Uncut, m
    <2>9. WordsIn(text) = PartOf(words, 0, m)
      <3>1. m \in Nat /\ 0 \in Nat
        BY <2>7 DEF WordCells
      <3> HIDE DEF m
      <3> QED BY <1>1, <2>4, <2>8, <3>1, PartWords DEF n, w, words, text
    <2>10. PartOf(words, 0, m) = words
      <3>1. m \in Nat
        BY <2>7 DEF WordCells
      <3> HIDE DEF m
      <3>2. PartOf(words, 0, m) = [j \in 1 .. m |-> words[j]]
        BY <3>1 DEF PartOf
      <3>3. words = [j \in 1 .. m |-> words[j]]
        BY <2>7
      <3> QED BY <3>2, <3>3
    <2>11. B!Trimmed(line) = text
      BY <1>2, <1>6
    <2> QED BY <2>5, <2>6, <2>9, <2>10, <2>11 DEF Letters, words
  <1> QED BY <1>5, <1>6

\* The second shell gets a plain line's words.
LEMMA WordsAreGot ==
    ASSUME NEW line \in Letters, Plain(line)
    PROVE  Gets(line, WordsIn(line))
  <1> DEFINE text == B!Trimmed(line)
  <1>1. text \in Letters /\ Plain(text) /\ WordsIn(text) = WordsIn(line)
    BY TrimmedWords
  <1> HIDE DEF text
  <1>2. text \in Texts
    <2>1. Typeable \subseteq Chars
      BY DEF Chars
    <2>2. \A S, V : S \subseteq V => Seq(S) \subseteq Seq(V)
      OBVIOUS
    <2> QED BY <1>1, <2>1, <2>2 DEF Letters, Texts
  <1>3. WordsIn(text) \in Arguments
    BY <1>1, WordsAreArguments
  <1>4. After(B!Scan(text, Len(text)), WordsIn(text), Len(WordsIn(text)), Len(text))
    BY <1>1, AfterWords
  <1>5. Gets(line, WordsIn(text))
    BY <1>2, <1>3, <1>4, SeenArgs DEF text
  <1> QED BY <1>1, <1>5

\* The first shell's name and arguments are a line's words.
LEMMA NameAndWords ==
    ASSUME NEW line \in Letters, Len(Pieces(line, Space)) # 0
    PROVE  LET named == NameAndArgs(line) IN
           /\ named.args \in Letters
           /\ <<named.exe>> \o WordsIn(named.args) = WordsIn(line)
  <1> DEFINE w == Pieces(line, Space)
             m == Len(w)
             n == Len(line)
             words == WordsIn(line)
             named == NameAndArgs(line)
  <1>1. line \in Seq(Typeable) /\ n \in Nat
    BY DEF Letters
  <1>2. /\ Enumerates(w, line, Space, n) /\ WordCells(w, line) /\ Len(words) = m
        /\ \A k \in 1 .. m : words[k] = SubSeq(line, w[k][1], w[k][2])
        /\ words \in Seq(Seq(Typeable))
    BY <1>1, WordsOf
  <1>3. /\ named.exe = IF w = <<>> THEN <<>> ELSE SubSeq(line, w[1][1], w[1][2])
        /\ named.args = IF m < 2 THEN <<>> ELSE SubSeq(line, w[2][1], w[m][2])
    BY DEF NameAndArgs, Piece
  <1>4. w \in Seq(Nat \X Nat)
    BY <1>2 DEF Enumerates
  <1>5. m \in Nat /\ m > 0 /\ w # <<>>
    BY <1>4
  <1> HIDE DEF w, m, n, words, named
  <1>6. named.exe = words[1]
    <2>1. 1 \in 1 .. m
      BY <1>5
    <2> QED BY <1>2, <1>3, <1>5, <2>1
  <1>7. /\ named.args \in Letters
        /\ WordsIn(named.args) = PartOf(words, 1, m - 1)
    <2>1. CASE m = 1
      <3>1. named.args = <<>>
        BY <1>3, <2>1
      <3>3. WordsIn(<<>>) = <<>>
        BY NoWordsInNone
      <3>4. PartOf(words, 1, 0) = <<>>
        BY DEF PartOf
      <3>5. <<>> \in Letters
        BY DEF Letters
      <3> QED BY <2>1, <3>1, <3>3, <3>4, <3>5
    <2>2. CASE m > 1
      <3> DEFINE a == w[2][1]
                 b == w[m][2]
                 q == m - 1
      <3>1. 2 \in 1 .. m /\ m \in 1 .. m /\ (m = 2 \/ 2 < m) /\ q \in Nat /\ 1 \in Nat
        BY <1>5, <2>2
      <3>2. \A k \in 1 .. m : w[k][1] \in 1 .. n /\ w[k][2] \in w[k][1] .. n
        BY <1>2 DEF WordCells, n, m
      <3>3. \A j, k \in 1 .. m : j < k => w[j][2] < w[k][1]
        BY <1>2 DEF WordCells, m
      <3>4. ASSUME NEW j \in 1 .. m, NEW k \in 1 .. m, j <= k
            PROVE  w[j][1] <= w[k][1] /\ w[j][2] <= w[k][2]
        <4>1. j = k \/ j < k
          BY <1>5, <3>4
        <4>2. CASE j = k
          BY <3>2, <4>2
        <4>3. CASE j < k
          <5> DEFINE x == w[j][1]
                     y == w[j][2]
                     u == w[k][1]
                     v == w[k][2]
          <5>1. x \in 1 .. n /\ y \in x .. n /\ u \in 1 .. n /\ v \in u .. n /\ y < u
            BY <3>2, <3>3, <4>3
          <5> HIDE DEF x, y, u, v
          <5>2. x <= u /\ y <= v
            BY <1>1, <5>1
          <5> QED BY <5>2 DEF x, y, u, v
        <4> QED BY <4>1, <4>2, <4>3
      <3>5. a \in 1 .. n /\ b \in 1 .. n /\ a <= b
        <4>1. 2 <= m /\ 2 \in 1 .. m /\ m \in 1 .. m
          BY <3>1
        <4>2. w[2][1] <= w[m][1]
          BY <3>4, <4>1
        <4> DEFINE x == w[m][1]
        <4>3. a <= x /\ x \in 1 .. n /\ b \in x .. n /\ a \in 1 .. n
          BY <3>2, <4>1, <4>2
        <4> HIDE DEF a, b, x
        <4> QED BY <1>1, <4>3
      <3>6. Uncut(w, a, b, 1, q)
        <4>1. \A k \in 1 .. 1 : w[k][2] < a
          <5>1. 1 \in 1 .. m /\ 1 < 2
            BY <1>5
          <5>2. w[1][2] < a
            BY <3>1, <3>3, <5>1
          <5> QED BY <5>2
        <4>2. \A k \in 2 .. m : a <= w[k][1] /\ w[k][2] <= b
          <5> SUFFICES ASSUME NEW k \in 2 .. m
                       PROVE  a <= w[k][1] /\ w[k][2] <= b
            OBVIOUS
          <5>1. k \in 1 .. m /\ 2 <= k /\ k <= m
            BY <1>5
          <5> QED BY <3>1, <3>4, <5>1
        <4>3. 1 + q = m /\ 1 + 1 = 2 /\ m + 1 .. m = {} /\ m <= m
          BY <1>5
        <4> HIDE DEF a, b, q
        <4> QED BY <4>1, <4>2, <4>3 DEF Uncut, m
      <3>7. named.args = SubSeq(line, a, b)
        <4>1. ~(m < 2)
          BY <1>5, <2>2
        <4> QED BY Zenon, <1>3, <4>1
      <3> HIDE DEF a, b, q
      <3>8. a \in Nat /\ b \in Nat /\ 1 <= a /\ a <= b + 1 /\ b <= Len(line)
        BY <1>1, <3>5 DEF n
      <3>9. WordsIn(SubSeq(line, a, b)) = PartOf(words, 1, q)
        BY <1>1, <3>1, <3>6, <3>8, PartWords DEF w, words
      <3>10. SubSeq(line, a, b) \in Letters
        BY <1>1, <3>8, Part DEF Letters
      <3> QED BY <3>7, <3>9, <3>10 DEF q
    <2> QED BY <1>5, <2>1, <2>2
  <1>8. <<words[1]>> \o PartOf(words, 1, m - 1) = words
    <2> DEFINE S == Seq(Typeable)
               q == m - 1
               rest == PartOf(words, 1, q)
    <2>1. q \in Nat /\ \A j \in 1 .. q : 1 + j \in 1 .. m
      BY <1>5
    <2> HIDE DEF S
    <2>2. words \in Seq(S) /\ Len(words) = m /\ words[1] \in S
      <3>1. words \in Seq(S) /\ Len(words) = m
        BY <1>2 DEF S
      <3> QED BY <1>5, <3>1
    <2>3. \A j \in 1 .. q : words[1 + j] \in S
      BY <2>1, <2>2
    <2>4. rest \in Seq(S) /\ Len(rest) = q /\ \A j \in 1 .. q : rest[j] = words[1 + j]
      <3> HIDE DEF q
      <3>1. rest = [j \in 1 .. q |-> words[1 + j]]
        BY DEF PartOf
      <3> HIDE DEF rest
      <3>2. rest \in [1 .. q -> S]
        BY <2>3, <3>1
      <3> QED BY <2>1, <3>1, <3>2
    <2> DEFINE one == <<words[1]>>
    <2>5. one \in Seq(S) /\ Len(one) = 1 /\ one[1] = words[1]
      BY <2>2
    <2> HIDE DEF rest, one
    <2> DEFINE all == one \o rest
    <2>6. /\ all \in Seq(S) /\ Len(all) = 1 + q
          /\ \A c \in 1 .. 1 : all[c] = one[c]
          /\ \A c \in 1 .. q : all[1 + c] = rest[c]
      <3>1. /\ all \in Seq(S) /\ Len(all) = Len(one) + Len(rest)
            /\ \A c \in 1 .. Len(one) : all[c] = one[c]
            /\ \A c \in 1 .. Len(rest) : all[Len(one) + c] = rest[c]
        <4>1. one \in Seq(S) /\ rest \in Seq(S)
          BY <2>4, <2>5
        <4> QED BY ONLY <4>1
      <3> HIDE DEF all
      <3> QED BY <2>4, <2>5, <3>1
    <2> HIDE DEF all
    <2>7. \A c \in 1 .. m : all[c] = words[c]
      <3> SUFFICES ASSUME NEW c \in 1 .. m
                   PROVE  all[c] = words[c]
        OBVIOUS
      <3>1. CASE c = 1
        BY <2>5, <2>6, <3>1
      <3>2. CASE c # 1
        <4>1. c - 1 \in 1 .. q /\ 1 + (c - 1) = c
          BY <1>5, <3>2
        <4> QED BY <2>4, <2>6, <4>1
      <3> QED BY <3>1, <3>2
    <2>8. Len(all) = m
      BY <1>5, <2>6
    <2> HIDE DEF m, q
    <2>9. all = words
      BY <2>2, <2>6, <2>7, <2>8, Same
    <2> QED BY <2>9 DEF all, one, rest, q
  <1> QED BY <1>6, <1>7, <1>8 DEF named, words

\* A line without pipes that has one piece is it.
LEMMA OneSegment ==
    ASSUME NEW line \in Letters, \A k \in 1 .. Len(line) : line[k] \notin Pipe,
           Len(Pieces(line, Pipe)) = 1
    PROVE  Piece(line, Pieces(line, Pipe)[1]) = line
  <1> DEFINE n == Len(line)
             w == Pieces(line, Pipe)
             x == w[1][1]
             y == w[1][2]
  <1>1. line \in Seq(Typeable) /\ n \in Nat
    BY DEF Letters
  <1>2. Enumerates(w, line, Pipe, n) /\ Len(w) = 1
    BY <1>1, PiecesEnumerate
  <1> HIDE DEF w
  <1>3. 1 \in 1 .. Len(w) /\ \A k \in 1 .. Len(w) : k = 1
    BY <1>2
  <1>4. x \in Nat /\ y \in Nat /\ 1 <= x /\ x <= y /\ y <= n
    BY <1>2, <1>3 DEF Enumerates
  <1>5. \A c \in 1 .. n : line[c] \notin Pipe => x <= c /\ c <= y
    BY <1>2, <1>3 DEF Enumerates
  <1> HIDE DEF x, y
  <1>6. x <= 1 /\ n <= y
    <2>1. 1 \in 1 .. n /\ n \in 1 .. n
      BY <1>1, <1>4
    <2> QED BY <1>5, <2>1
  <1>7. x = 1 /\ y = n
    BY <1>1, <1>4, <1>6
  <1>8. SubSeq(line, 1, n) = line
    BY <1>1
  <1>9. Piece(line, w[1]) = SubSeq(line, x, y)
    BY DEF Piece, x, y
  <1> QED BY <1>7, <1>8, <1>9 DEF w

\* The one command on a line without pipes is the line's.
LEMMA CommandOfLine ==
    ASSUME ListInv, list.num = 1, NamesFit(Commands),
           \A k \in 1 .. Len(list.line) : list.line[k] \notin Pipe
    PROVE  /\ list.line \in Letters
           /\ exe(list.commands[1]) = NameAndArgs(list.line).exe
           /\ args(list.commands[1]) = NameAndArgs(list.line).args
  <1>1. typed > 0
    BY DEF ListInv
  <1>2. list.line \in Lines /\ list.line \in Letters /\ list.line \in Texts
    BY <1>1, LineAssumption, LinesAreTexts DEF ListInv, Letters
  <1>3. PICK old : Made(list, old)
    BY <1>1 DEF ListInv
  <1>4. /\ list.rc = IF list.line = <<>> THEN WARN_NO_CMDS
                     ELSE IF Len(Commands) > CMD_MAX
                     THEN ERR_TOO_MANY_COMMANDS ELSE OK
        /\ list.rc = OK => Shown = Commands
        /\ Len(Commands) = 1
    BY <1>1, <1>3, MadeHolds
  <1> DEFINE pieces == Pieces(list.line, Pipe)
             tokens == Tokens(list.line, Len(list.line))
  <1>5. pieces = tokens /\ tokens \in Seq(Pairs) /\ Len(pieces) \in Nat
    BY <1>2, TokensArePieces, TokensType
  <1> HIDE DEF tokens
  <1>6. /\ DOMAIN pieces = 1 .. Len(pieces)
        /\ Segments = [k \in 1 .. Len(pieces) |-> Piece(list.line, pieces[k])]
    BY <1>5 DEF Segments
  <1> HIDE DEF pieces
  <1>7. Commands = [k \in 1 .. Len(pieces) |-> NameAndArgs(Segments[k])]
    BY <1>6 DEF Commands
  <1>8. Len(pieces) = 1
    BY <1>4, <1>5, <1>7
  <1>9. 1 \in 1 .. Len(pieces)
    BY <1>8
  <1>10. Segments[1] = list.line
    <2>1. Piece(list.line, pieces[1]) = list.line
      BY <1>2, <1>8, OneSegment DEF pieces
    <2> QED BY <1>6, <1>9, <2>1
  <1>11. Commands[1] = NameAndArgs(list.line)
    BY <1>7, <1>9, <1>10
  <1>12. list.line # <<>>
    <2> SUFFICES ASSUME list.line = <<>>
                 PROVE  FALSE
      OBVIOUS
    <2>1. Len(list.line) = 0
      OBVIOUS
    <2>2. Enumerates(pieces, list.line, Pipe, Len(list.line))
      BY <1>2, PiecesEnumerate DEF pieces, Letters
    <2> QED BY <1>9, <2>1, <2>2 DEF Enumerates
  <1>13. list.rc = OK
    <2>1. CMD_MAX \in Nat /\ CMD_MAX > 1
      BY ListAssumption
    <2> QED BY <1>4, <1>12, <2>1
  <1>14. Shown[1] = [exe |-> exe(list.commands[1]), args |-> args(list.commands[1])]
    BY DEF Shown
  <1>15. /\ NameAndArgs(list.line).exe = exe(list.commands[1])
         /\ NameAndArgs(list.line).args = args(list.commands[1])
    <2>1. NameAndArgs(list.line) = [exe  |-> exe(list.commands[1]),
                                    args |-> args(list.commands[1])]
      BY <1>4, <1>11, <1>13, <1>14
    <2> QED BY <2>1
  <1> QED BY <1>2, <1>15

LEMMA ParsersFind == BuffInv /\ LineInv /\ ListInv => ParsersAgree
  <1> DEFINE line  == list.line
             rest  == args(list.commands[1])
             words == Pieces(rest, Space)
             name  == exe(list.commands[1])
             found == [k \in DOMAIN words |-> Piece(rest, words[k])]
  <1> SUFFICES ASSUME BuffInv, LineInv, ListInv, sh.rc = OK, line = sh.line,
                      list.num = 1, NamesFit(Commands),
                      \A k \in DOMAIN line : line[k] \notin {"|", B!QUOTE, "TAB"}
               PROVE  B!Args = UpToLimit(<<name>> \o found)
    BY Zenon DEF ParsersAgree
  <1>1. typed > 0
    BY DEF ListInv
  <1>2. line \in Letters
    BY <1>1, LineAssumption DEF ListInv, Letters
  <1>3. DOMAIN line = 1 .. Len(line)
    BY <1>2 DEF Letters
  <1>4. /\ \A k \in 1 .. Len(line) : line[k] \notin Pipe
        /\ Plain(line)
    <2>1. \A c : c \notin {"|", B!QUOTE, "TAB"} =>
            /\ c \notin Pipe /\ c # B!QUOTE
            /\ c \in B!isspace <=> c \in Space
      BY DEF Pipe, B!isspace, Space
    <2> QED BY <1>3, <2>1, Zenon DEF Plain
  <1>5. name = NameAndArgs(line).exe /\ rest = NameAndArgs(line).args
    BY <1>4, CommandOfLine
  <1>6. Gets(line, WordsIn(line))
    BY <1>2, <1>4, WordsAreGot
  <1>7. B!Args = UpToLimit(WordsIn(line))
    BY <1>6 DEF LineInv, Gets, B!Args
  <1>8. Len(Pieces(line, Space)) # 0
    <2> SUFFICES ASSUME Len(Pieces(line, Space)) = 0
                 PROVE  FALSE
      OBVIOUS
    <2>1. Len(WordsIn(line)) = 0 /\ WordsIn(line) \in Seq(Seq(Typeable))
      BY <1>2, WordsOf DEF Letters
    <2>2. UpToLimit(WordsIn(line)) = <<>>
      <3>1. WordsIn(line) = <<>> /\ CMD_ARGV_MAX > 0
        BY <2>1, BuffAssumption
      <3>2. UpToLimit(<<>>) = <<>>
        BY <3>1, BuffAssumption DEF UpToLimit
      <3> QED BY <3>1, <3>2
    <2>3. DOMAIN B!Args = DOMAIN sh.argv
      BY DEF B!Args
    <2>4. sh.argv # <<>> /\ sh.argv \in Seq(Nat)
      BY <1>1 DEF BuffInv, ShellRecords
    <2>5. DOMAIN sh.argv # {}
      <3> DEFINE argv == sh.argv
      <3>1. argv \in Seq(Nat) /\ argv # <<>>
        BY <2>4
      <3> HIDE DEF argv
      <3>2. DOMAIN argv # {}
        <4>1. Len(argv) \in Nat /\ Len(argv) # 0 /\ DOMAIN argv = 1 .. Len(argv)
          BY ONLY <3>1
        <4>2. 1 \in 1 .. Len(argv)
          BY <4>1
        <4> QED BY <4>1, <4>2
      <3> QED BY <3>2 DEF argv
    <2> QED BY <1>7, <2>2, <2>3, <2>5
  <1>9. <<name>> \o WordsIn(rest) = WordsIn(line)
    BY <1>2, <1>5, <1>8, NameAndWords
  <1>10. found = WordsIn(rest)
    <2>1. rest \in Letters
      BY <1>2, <1>5, <1>8, NameAndWords
    <2>2. Enumerates(words, rest, Space, Len(rest))
      BY <2>1, PiecesEnumerate DEF Letters
    <2>3. DOMAIN words = 1 .. Len(words)
      BY <2>2 DEF Enumerates
    <2> QED BY <2>3 DEF WordsIn, Piece
  <1> QED BY <1>7, <1>9, <1>10

\* On a line of plain words the two shells find the same name and arguments, up
\* to the limit of argv (3-ShellP1/starter/dshlib.c lines 38-87 and
\* 4-shellp2/starter/dshlib.c lines 87-136).
THEOREM ParsersFindTheSameWords == Spec => []ParsersAgree
  BY BuffInvariant, LineInvariant, ListInvariant, ParsersFind, PTL
=============================================================================
