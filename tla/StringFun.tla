----------------------------- MODULE StringFun -----------------------------
(***************************************************************************)
(* The string utility src/1-C-Refresher/stringfun.c.  Memory is the        *)
(* sequence of cells that starts at buff: its BUFFER_SZ cells and what the *)
(* heap holds behind them, which functions reach when they are given a     *)
(* length above BUFFER_SZ.  Cell 1 is C's index 0.                         *)
(***************************************************************************)
EXTENDS Integers, Sequences, SequencesExt

CONSTANT BUFFER_SZ

ASSUME BufferAssumption == BUFFER_SZ \in Nat \ {0}

Blanks == {" ", "TAB"}
NUL    == "NUL"

\* Mutant: one dot too many.
PaddingToLen(n) == [k \in 1 .. n + 1 |-> "."]

Padding(n) == [k \in 1 .. n |-> "."]
----------------------------------------------------------------------------
\* Mutant: a tab is not remembered as a blank.
StoreTab(state, current) ==
    IF state.overflow \/ Len(state.buff) >= BUFFER_SZ
    THEN [state EXCEPT !.overflow = TRUE]
    ELSE LET kept == IF current \in Blanks THEN " " ELSE current IN
         [state EXCEPT
            !.buff = IF kept = " " /\ state.prev_char = " " THEN @
                                                            ELSE Append(@, kept),
            !.prev_char = current]

\* One character of the input: refused when the buffer is full, dropped when
\* it is a blank after a blank.
Store(state, current) ==
    IF state.overflow \/ Len(state.buff) >= BUFFER_SZ
    THEN [state EXCEPT !.overflow = TRUE]
    ELSE LET kept == IF current \in Blanks THEN " " ELSE current IN
         [state EXCEPT
            !.buff = IF kept = " " /\ state.prev_char = " " THEN @
                                                            ELSE Append(@, kept),
            !.prev_char = kept]

\* The state when the loop has seen the first n characters.
Stored(user_str, n) ==
    LET state[i \in 0 .. Len(user_str)] ==
            IF i = 0 THEN [buff |-> <<>>, prev_char |-> ".", overflow |-> FALSE]
            ELSE Store(state[i - 1], user_str[i])
    IN  state[n]

\* The buffer it fills and the value it returns: the length of the input, or 4
\* (an error, which main() takes for a length).
setup_buff(user_str) ==
    LET stored == Stored(user_str, Len(user_str)) IN
    [buff |-> stored.buff \o Padding(BUFFER_SZ - Len(stored.buff)),
     rc   |-> IF stored.overflow THEN 4 ELSE Len(user_str)]

\* The count is made and not returned.
count_words(mem, str_len) == 0

Swapped(mem, i, j) == [mem EXCEPT ![i] = mem[j], ![j] = mem[i]]

\* The cells after n passes: the two indices move towards each other.
Swaps(mem, last, n) ==
    LET cells[k \in 0 .. last] ==
            IF k = 0 THEN mem
            ELSE IF last + 1 - k > k THEN Swapped(cells[k - 1], k, last + 1 - k)
            ELSE cells[k - 1]
    IN  cells[n]

\* Mutant: end_idx starts one cell too far.
ReversedFromNul(mem, str_len) == Swaps(mem, str_len + 1, str_len + 1)

Reversed(mem, str_len) == Swaps(mem, str_len, str_len)

reverse_string(mem, str_len) ==
    IF str_len <= 0 \/ str_len > BUFFER_SZ
    THEN [rc |-> 3, mem |-> mem]
    ELSE [rc |-> 0, mem |-> Reversed(mem, str_len)]
----------------------------------------------------------------------------
(* What -w prints is a sequence of words with their numbers and lengths; a *)
(* length of 0 is one that is not printed.                                 *)

\* Mutant: a word that ends the string gets no length.
EndsWordAtBlank(current, i, str_len) == current = " "

EndsWord(current, i, str_len) == current = " " \/ i = str_len

\* A letter is printed, if there is one, and the length when the word ends.
Printed(word, letter, ends, wlen) ==
    [word EXCEPT !.word = @ \o letter, !.len = IF ends THEN wlen ELSE @]

\* The loop body for cell i.
PrintCell(mem, str_len, state, i) ==
    LET current == mem[i]
        n == Len(state.printed)
    IN
    IF ~state.word_start
    THEN IF current = " " THEN state
         ELSE [word_start |-> TRUE, wlen |-> 1,
               printed |-> Append(state.printed,
                             [n |-> n + 1, word |-> <<current>>, len |-> 0])]
    ELSE LET letter == IF current = " " THEN <<>> ELSE <<current>>
             wlen == state.wlen + Len(letter)
             ends == EndsWord(current, i, str_len)
         IN [word_start |-> ~ends, wlen |-> IF ends THEN 0 ELSE wlen,
             printed |-> [state.printed EXCEPT ![n] = Printed(@, letter, ends, wlen)]]

\* The state when the loop has seen the first n cells.
Prints(mem, str_len, n) ==
    LET state[i \in 0 .. str_len] ==
            IF i = 0 THEN [word_start |-> FALSE, wlen |-> 0, printed |-> <<>>]
            ELSE PrintCell(mem, str_len, state[i - 1], i)
    IN  state[n]

word_print(mem, str_len) == Prints(mem, str_len, str_len).printed
----------------------------------------------------------------------------
\* The first place within str_len where the target's characters are, 0 if
\* there is none.  Its last characters may be padding.
Found(mem, str_len, target) ==
    LET places == {p \in 1 .. str_len :
                     /\ target # <<>> /\ p + Len(target) - 1 <= Len(mem)
                     /\ \A k \in 1 .. p : mem[k] # NUL
                     /\ SubSeq(mem, p, p + Len(target) - 1) = target}
    IN IF places = {} THEN 0 ELSE CHOOSE p \in places : \A q \in places : p <= q

\* Mutant: cells are moved in ascending order in both directions.
SourceUp(first, last, shift, n) == first + n - 1

\* The n-th cell to be moved: to the left from the first, to the right from the
\* last.
Source(first, last, shift, n) ==
    IF shift < 0 THEN first + n - 1 ELSE last + 1 - n

\* n cells, first .. last, are moved one by one.
Moved(mem, first, last, shift, n) ==
    LET cells[k \in 0 .. n] ==
            IF k = 0 THEN mem
            ELSE LET src == Source(first, last, shift, k) IN
                 [cells[k - 1] EXCEPT ![src + shift] = cells[k - 1][src]]
    IN  cells[n]

\* A shorter replacement leaves the last cells where they were.
str_replace(mem, str_len, target, replace) ==
    LET new_len == str_len - Len(target) + Len(replace)
        p == Found(mem, str_len, target)
        first == p + Len(target)
        moved == Moved(mem, first, str_len, Len(replace) - Len(target),
                       IF first > str_len THEN 0 ELSE str_len + 1 - first)
    IN
    IF new_len > BUFFER_SZ THEN [rc |-> 4, mem |-> mem]
    ELSE IF p = 0 THEN [rc |-> 1, mem |-> mem]
    ELSE [rc |-> 0,
          mem |-> [k \in DOMAIN mem |->
                     IF k \in p .. p + Len(replace) - 1
                     THEN replace[k - p + 1] ELSE moved[k]]]
----------------------------------------------------------------------------
\* What a run does: its exit code, the number or words it prints, and memory.
Failed(exit) == [exit |-> exit, rc |-> 0, words |-> <<>>, mem |-> <<>>]

\* One string operation on the buffer; `args' holds the strings behind opt.
Operation(opt, args, mem, len) ==
    LET done == [exit |-> 0, rc |-> 0, words |-> <<>>, mem |-> mem] IN
    CASE opt = "c" -> [done EXCEPT !.rc = count_words(mem, len)]
      [] opt = "r" -> LET r == reverse_string(mem, len)
                      IN [done EXCEPT !.rc = r.rc, !.mem = r.mem]
      [] opt = "w" -> [done EXCEPT !.words = word_print(mem, len)]
      [] opt = "x" -> IF Len(args) # 3 THEN Failed(2)
                      ELSE LET r == str_replace(mem, len, args[2], args[3])
                           IN [done EXCEPT !.rc = r.rc, !.mem = r.mem]
      [] OTHER     -> Failed(1)

\* main(), malloc() succeeding, with `heap' behind the buffer.  `flag' is the
\* first argument: does it begin with a dash, what is its second character.
main(flag, args, heap) ==
    IF ~flag.dash THEN Failed(1)
    ELSE IF flag.opt = "h" THEN Failed(0)
    ELSE IF args = <<>> THEN Failed(1)
    ELSE LET setup == setup_buff(args[1])
         IN Operation(flag.opt, args, setup.buff \o heap, setup.rc)
=============================================================================
