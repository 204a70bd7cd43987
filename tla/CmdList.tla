------------------------------ MODULE CmdList ------------------------------
(***************************************************************************)
(* The first shell, src/3-ShellP1/starter: main() of dsh_cli.c reads lines *)
(* and prints what build_cmd_list() of dshlib.c makes of them.             *)
(*                                                                         *)
(* The command list is never cleared between lines.  A command is the      *)
(* cells of its exe and, right behind, of its args: a copy that leaves one *)
(* without a terminator, or is longer than it, shows in the other.  A word *)
(* of the user's, like exit, may stand in one cell.                        *)
(***************************************************************************)
EXTENDS Integers, Sequences, SequencesExt

CONSTANTS CMD_MAX, EXE_MAX, ARG_MAX

VARIABLE list               \* main()'s variables

OK                    == 0
WARN_NO_CMDS          == -1
ERR_TOO_MANY_COMMANDS == -2

NUL   == "NUL"
Pipe  == {"|"}
Space == {" "}
ASSUME ListAssumption == {CMD_MAX, EXE_MAX, ARG_MAX} \subseteq Nat \ {0, 1}
----------------------------------------------------------------------------
(* C strings. *)

CellCount == 1 .. EXE_MAX + ARG_MAX

\* strncpy(): n cells behind `at' get the source, or NUL behind its end.
strncpy(cells, at, src, n) ==
    [k \in CellCount |-> IF k \in at + 1 .. at + n
                         THEN IF k - at <= Len(src) THEN src[k - at] ELSE NUL
                         ELSE cells[k]]

\* The string that begins behind `at'.  args is always terminated: a line is
\* shorter than its cells.
String(cells, at) ==
    LET ends == {k \in at + 1 .. EXE_MAX + ARG_MAX + 1 :
                   k \notin CellCount \/ cells[k] = NUL}
        end  == CHOOSE k \in ends : \A j \in ends : k <= j
    IN [k \in 1 .. end - at - 1 |-> cells[at + k]]

exe(cells)  == String(cells, 0)
args(cells) == String(cells, EXE_MAX)

\* strtok() by pipe characters: where the tokens of the first n cells begin and
\* end.  A character that is no pipe makes the last token longer or begins one.
NextTokens(line, tokens, i) ==
    IF line[i] \in Pipe THEN tokens
    ELSE IF i > 1 /\ line[i - 1] \notin Pipe
    THEN [tokens EXCEPT ![Len(tokens)] = <<@[1], i>>]
    ELSE Append(tokens, <<i, i>>)

Tokens(line, n) ==
    LET tokens[i \in 0 .. Len(line)] ==
            IF i = 0 THEN <<>> ELSE NextTokens(line, tokens[i - 1], i)
    IN  tokens[n]

strtok(line) == LET tokens == Tokens(line, Len(line)) IN
                [k \in DOMAIN tokens |-> SubSeq(line, tokens[k][1], tokens[k][2])]

\* Mutant: the spaces in front stay.
TrimEnd(token) ==
    LET letters == {k \in DOMAIN token : token[k] \notin Space}
        last == CHOOSE k \in letters : \A j \in letters : j <= k
    IN IF letters = {} THEN <<>> ELSE SubSeq(token, 1, last)

\* A token without the spaces around it.
Trim(token) ==
    LET letters == {k \in DOMAIN token : token[k] \notin Space}
        first == CHOOSE k \in letters : \A j \in letters : k <= j
        last  == CHOOSE k \in letters : \A j \in letters : j <= k
    IN IF letters = {} THEN <<>> ELSE SubSeq(token, first, last)
----------------------------------------------------------------------------
(* build_cmd_list(). *)

\* The name up to its first space, and what follows the spaces behind it.
WithArgs(cells, token, cmd_len) ==
    LET named == [strncpy(cells, 0, token, cmd_len) EXCEPT ![cmd_len + 1] = NUL]
    IN strncpy(named, EXE_MAX, Trim(SubSeq(token, cmd_len + 1, Len(token))),
               ARG_MAX - 1)

\* Mutant: the arguments of an earlier line stay.
WithoutArgsKept(cells, token) == strncpy(cells, 0, token, EXE_MAX - 1)

\* The last cell of exe is not written.
WithoutArgs(cells, token) ==
    [strncpy(cells, 0, token, EXE_MAX - 1) EXCEPT ![EXE_MAX + 1] = NUL]

Command(cells, token) ==
    LET spaces == {k \in DOMAIN token : token[k] \in Space} IN
    IF spaces = {} THEN WithoutArgs(cells, token)
    ELSE WithArgs(cells, token,
                  (CHOOSE k \in spaces : \A j \in spaces : k <= j) - 1)

\* The return code, clist->num and clist->commands.
build_cmd_list(cmd_line, commands) ==
    LET tokens == strtok(cmd_line)
        num == IF Len(tokens) > CMD_MAX THEN CMD_MAX ELSE Len(tokens)
    IN [rc |-> IF cmd_line = <<>> THEN WARN_NO_CMDS
               ELSE IF Len(tokens) > CMD_MAX THEN ERR_TOO_MANY_COMMANDS
               ELSE OK,
        num |-> num,
        commands |-> [i \in 1 .. CMD_MAX |->
                        IF i <= num THEN Command(commands[i], Trim(tokens[i]))
                                    ELSE commands[i]]]
----------------------------------------------------------------------------
(* main(). *)

\* The list is on the stack, uninitialised.
ListInit ==
    \E garbage \in {"?", NUL} :
        list = [pc |-> "prompt", line |-> <<>>, rc |-> OK, num |-> 0,
                commands |-> [i \in 1 .. CMD_MAX |-> [k \in CellCount |-> garbage]]]

\* fgets() takes ARG_MAX - 1 characters at most: lines are shorter here.
ListReadLine(line) ==
    /\ list.pc = "prompt"
    /\ LET built == build_cmd_list(line, list.commands) IN
         list' = IF line = <<"exit">>
                 THEN [list EXCEPT !.pc = "done", !.line = line, !.num = 0]
                 ELSE [pc |-> "prompt", line |-> line, rc |-> built.rc,
                       num |-> built.num, commands |-> built.commands]

ListEndOfInput == /\ list.pc = "prompt"
                  /\ list' = [list EXCEPT !.pc = "done"]

\* What it prints: names, and arguments unless there are none.
Shown == [i \in 1 .. list.num |-> [exe  |-> exe(list.commands[i]),
                                   args |-> args(list.commands[i])]]
=============================================================================
