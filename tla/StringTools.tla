---------------------------- MODULE StringTools ----------------------------
(***************************************************************************)
(* Both string utilities run with the same arguments, and what they should *)
(* print, defined without loops: over positions and intervals.             *)
(***************************************************************************)
EXTENDS StringFun, Splitting

CONSTANTS Flags,            \* first arguments
          Args,             \* the arguments behind them
          Heaps             \* what may lie behind the buffer

\* The characters of the arguments.
Typeable == UNION {UNION {Range(str) : str \in Range(args)} : args \in Args}

ASSUME FlagAssumption == Flags \subseteq [dash : BOOLEAN, two : BOOLEAN, opt : STRING]
\* C strings; what a string's length makes a function read is there.
ASSUME ArgAssumption ==
    /\ Args \subseteq Seq(Seq(Typeable)) /\ NUL \notin Typeable
    /\ \A args \in Args, heap \in Heaps :
         args # <<>> => Len(args[1]) <= BUFFER_SZ + Len(heap)
ASSUME HeapAssumption == \A heap \in Heaps : heap \in Seq(Range(heap))

VARIABLES typed,            \* the arguments
          first,            \* what stringfun.c does, once it has run
          second            \* what the second version does

svars == <<typed, first, second>>

Second == INSTANCE StringFun1a

NotRun == <<>>

Init == /\ typed \in [flag : Flags, args : Args, heap : Heaps]
        /\ first = NotRun
        /\ second = NotRun

RunFirst ==
    /\ first = NotRun
    /\ first' = main(typed.flag, typed.args, typed.heap)
    /\ UNCHANGED <<typed, second>>

RunSecond ==
    /\ second = NotRun
    /\ second' = Second!main(typed.flag, typed.args)
    /\ UNCHANGED <<typed, first>>

Next == RunFirst \/ RunSecond

Spec == Init /\ [][Next]_svars
----------------------------------------------------------------------------
(* What the input is, by position. *)

Str == typed.args[1]

IsBlank(i) == Str[i] \in Blanks

\* The positions a buffer keeps: all but blanks after blanks.
Kept == {i \in DOMAIN Str : ~(i > 1 /\ IsBlank(i) /\ IsBlank(i - 1))}

\* No character comes when the buffer is full.
Fits == Cardinality(Kept \ {Len(Str)}) < BUFFER_SZ \/ Str = <<>>

Collapsed == LET at == Ascending(Kept) IN
             [k \in DOMAIN at |-> IF IsBlank(at[k]) THEN " " ELSE Str[at[k]]]

\* The buffer that is set up, the length main() takes for its text, and the
\* cells of that length.
Prepared == Collapsed \o Padding(BUFFER_SZ - Len(Collapsed)) \o typed.heap
Length   == Len(Str)
Cells    == SubSeq(Prepared, 1, Length)

Ran(opt) == first # NotRun /\ first.exit = 0 /\ typed.flag.opt = opt /\ Fits

\* The words of a string.
WordsOf(s) == Pieces(s, {" "})

\* The target's first place in the text, if it lies within it.
Places == {p \in 1 .. Length - Len(typed.args[2]) + 1 :
             SubSeq(Cells, p, p + Len(typed.args[2]) - 1) = typed.args[2]}
----------------------------------------------------------------------------
(* Properties. *)

\* Type invariant: the exit codes of both programs, and the return codes of the
\* first one's functions; memory neither grows nor shrinks.
TypeOK ==
    /\ first # NotRun => /\ first.exit \in 0 .. 2
                         /\ first.rc \in {0, 1, 3, 4}
                         /\ first.mem # <<>> =>
                              Len(first.mem) = BUFFER_SZ + Len(typed.heap)
    /\ second # NotRun => /\ second.exit \in {0, 1}
                          /\ second.count >= -1

\* The buffer holds the input with its blanks collapsed, tabs made spaces, and
\* dots behind it, up to an input that fills it (setup_buff, lines 27-62).
BufferIsInput == Ran("c") => first.mem = Prepared

\* -r turns round as many cells as the input has characters, dots of the padding
\* included, and no others; when there are none, or more than cells, it changes
\* nothing (lines 105-127).
ReverseIsReversal ==
    Ran("r") => first.mem = IF Length \in 1 .. BUFFER_SZ
                            THEN Reverse(Cells) \o SubSeq(Prepared, Length + 1,
                                                          Len(Prepared))
                            ELSE Prepared

\* -w prints the words in order, numbered, each with its length; only the length
\* of a last word of one letter is missing (lines 136-161).
WordsArePrinted ==
    Ran("w") =>
        LET words == WordsOf(Cells) IN
        first.words =
          [k \in DOMAIN words |->
             LET i == words[k][1]
                 j == words[k][2]
             IN [n |-> k, word |-> SubSeq(Cells, i, j),
                 len |-> IF i = j /\ j = Length THEN 0 ELSE j - i + 1]]

\* -x replaces the first occurrence within the text by splicing: what is behind
\* it is moved whole in either direction, the cells behind the new end keep what
\* they held, and no cell behind the buffer changes (lines 214-241).
ReplaceIsSplice ==
    (Ran("x") /\ Length <= BUFFER_SZ /\ typed.args[2] # <<>> /\ Places # {}) =>
        LET target == typed.args[2]
            replace == typed.args[3]
            p == CHOOSE q \in Places : \A r \in Places : q <= r
            spliced == SubSeq(Cells, 1, p - 1) \o replace
                       \o SubSeq(Cells, p + Len(target), Length)
        IN first.mem =
             IF Len(spliced) > BUFFER_SZ THEN Prepared
             ELSE spliced \o SubSeq(Prepared, Len(spliced) + 1, Len(Prepared))

\* On a string that is set up as it is, the first program's -r leaves in its
\* buffer what the second one's prints (1-C lines 105-127, 1a lines 82-103).
ReversalsAgree ==
    (Ran("r") /\ second # NotRun /\ second.exit = 0
        /\ Length \in 1 .. BUFFER_SZ /\ Collapsed = Str) =>
        SubSeq(first.mem, 1, Length) = second.str
=============================================================================
