---------------------------- MODULE StringFun1a ----------------------------
(***************************************************************************)
(* The second string utility, src/1a-C-Refresher/starter/stringfun.c,      *)
(* which works on the argument's own cells.                                *)
(***************************************************************************)
EXTENDS Integers, Sequences, FiniteSets, SequencesExt

Steps(n) == [k \in 1 .. n |-> k]

\* Every character but the first starts a word.
count_words(str) == Cardinality({i \in DOMAIN str : str[i] # " "}) - 1

\* Mutant: the middle pair is not swapped.
GoesShort(start_idx, end_idx) == end_idx > start_idx + 1

Goes(start_idx, end_idx) == end_idx > start_idx

\* The cells after n passes: the two indices move towards each other.
Swaps(str, n) ==
    LET cells[k \in 0 .. Len(str)] ==
            IF k = 0 THEN str
            ELSE IF Goes(k, Len(str) + 1 - k)
            THEN [cells[k - 1] EXCEPT ![k] = cells[k - 1][Len(str) + 1 - k],
                                      ![Len(str) + 1 - k] = cells[k - 1][k]]
            ELSE cells[k - 1]
    IN  cells[n]

reverse_string(str) == Swaps(str, Len(str))

\* The numbers it prints, with the parenthesis that follows or does not.
Closed(n) == [n |-> n, paren |-> TRUE]
Open(n)   == [n |-> n, paren |-> FALSE]

\* The loop body for one character: the number is printed before the letter is
\* counted.  The loop index is compared as 1 = last_char_idx.
PrintCell(str, state, i) ==
    LET letter == str[i] # " "
        starts == letter /\ ~state.word_start
        wlen0  == IF starts THEN 0 ELSE state.wlen
        wlen   == IF letter THEN wlen0 + 1 ELSE wlen0
        ends   == ~letter \/ Len(str) - 1 = 1
    IN
    [word_start |-> ~ends,
     wlen |-> IF ends THEN 0 ELSE wlen,
     printed |-> state.printed \o (IF starts THEN <<Closed(0)>> ELSE <<>>)
                               \o (IF letter THEN <<Closed(wlen0)>> ELSE <<>>)
                               \o (IF ends THEN <<Open(wlen)>> ELSE <<>>)]

\* The last character is not looked at.
word_print(str) ==
    FoldLeft(LAMBDA state, i : PrintCell(str, state, i),
             [word_start |-> FALSE, wlen |-> 0, printed |-> <<>>],
             Steps(Len(str) - 1)).printed

\* main(): the exit code, the count, the string and the numbers it prints.
Result(exit) == [exit |-> exit, count |-> 0, str |-> <<>>, printed |-> <<>>]

Operation(opt, str) ==
    CASE opt = "c" -> [Result(0) EXCEPT !.count = count_words(str)]
      [] opt = "r" -> [Result(0) EXCEPT !.str = reverse_string(str)]
      [] opt = "w" -> [Result(0) EXCEPT !.printed = word_print(str)]
      [] OTHER     -> Result(1)

\* An option of two characters is accepted without its dash.
main(flag, args) ==
    IF ~flag.dash /\ ~flag.two THEN Result(1)
    ELSE IF flag.opt = "h" THEN Result(0)
    ELSE IF Len(args) # 1 THEN Result(1)
    ELSE Operation(flag.opt, args[1])
=============================================================================
