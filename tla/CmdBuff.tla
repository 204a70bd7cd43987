------------------------------ MODULE CmdBuff ------------------------------
(***************************************************************************)
(* The second shell, src/4-shellp2/starter/dshlib.c: it splits a line into *)
(* arguments in place, runs a built-in, or forks one child and waits.  The *)
(* third shell has the same build_cmd_buff().                              *)
(***************************************************************************)
EXTENDS Integers, Sequences, SequencesExt

CONSTANTS CMD_ARGV_MAX, ForkFaults

VARIABLES sh,               \* exec_local_cmd_loop()
          child             \* the last program it started

bvars == <<sh, child>>

OK           == 0
WARN_NO_CMDS == -1
OK_EXIT      == -7

NUL     == "NUL"
QUOTE   == "QUOTE"
isspace == {" ", "TAB"}
----------------------------------------------------------------------------
(* build_cmd_buff(). *)

\* A line without the blanks it begins with.
Trimmed(line) ==
    LET letters == {k \in DOMAIN line : line[k] \notin isspace} IN
    IF letters = {} THEN <<>>
    ELSE SubSeq(line, CHOOSE k \in letters : \A j \in letters : k <= j, Len(line))

EndToken(state, i) == [state EXCEPT !.buffer[i] = NUL, !.in_token = FALSE,
                                    !.argv = Append(@, state.arg_start)]

\* Mutant: a quote that ends a token stays in it.
QuoteKept(state, i) ==
    IF ~state.in_token
    THEN [state EXCEPT !.in_quotes = ~@, !.in_token = TRUE, !.arg_start = i + 1]
    ELSE IF state.in_quotes
    THEN [state EXCEPT !.in_quotes = FALSE, !.in_token = FALSE,
                       !.argv = Append(@, state.arg_start)]
    ELSE [state EXCEPT !.in_quotes = TRUE]

\* It begins a token behind it, ends the token, or, within a token that began
\* without one, is kept as a character.
Quote(state, i) ==
    IF ~state.in_token
    THEN [state EXCEPT !.in_quotes = ~@, !.in_token = TRUE, !.arg_start = i + 1]
    ELSE IF state.in_quotes THEN [EndToken(state, i) EXCEPT !.in_quotes = FALSE]
    ELSE [state EXCEPT !.in_quotes = TRUE]

\* Mutant: one argument too many.
FullLate(argc) == argc >= CMD_ARGV_MAX

Full(argc) == argc >= CMD_ARGV_MAX - 1

\* The loop body for cell i, until argv is full.
Cell(state, i) ==
    LET c == state.buffer[i] IN
    IF Full(Len(state.argv)) THEN state
    ELSE IF c = QUOTE THEN Quote(state, i)
    ELSE IF c \in isspace /\ ~state.in_quotes
         THEN IF state.in_token THEN EndToken(state, i) ELSE state
    ELSE IF ~state.in_token
         THEN [state EXCEPT !.in_token = TRUE, !.arg_start = i]
    ELSE state

\* The state when the loop has seen the first n cells of a text, and all.
Scan(text, n) ==
    LET state[i \in 0 .. Len(text)] ==
            IF i = 0
            THEN [buffer |-> Append(text, NUL), argv |-> <<>>, in_quotes |-> FALSE,
                  in_token |-> FALSE, arg_start |-> 1]
            ELSE Cell(state[i - 1], i)
    IN  state[n]
Scanned(text) == Scan(text, Len(text))

\* The buffer, and argv as the cells its pointers name, without the NULL.
build_cmd_buff(line) ==
    LET state == Scanned(Trimmed(line)) IN
    [rc |-> IF Trimmed(line) = <<>> THEN WARN_NO_CMDS ELSE OK,
     buffer |-> state.buffer,
     argv |-> IF state.in_token THEN Append(state.argv, state.arg_start)
                                ELSE state.argv]

\* The string argv[k] is.
Arg(buffer, start) ==
    LET ends == {k \in start .. Len(buffer) : buffer[k] = NUL}
    IN SubSeq(buffer, start, (CHOOSE k \in ends : \A j \in ends : k <= j) - 1)

Args == [k \in DOMAIN sh.argv |-> Arg(sh.buffer, sh.argv[k])]
----------------------------------------------------------------------------
(* Built-ins. *)

match_command(name) == CASE name = <<"exit">>   -> "BI_CMD_EXIT"
                         [] name = <<"cd">>     -> "BI_CMD_CD"
                         [] name = <<"dragon">> -> "BI_CMD_DRAGON"
                         [] name = <<"rc">>     -> "BI_RC"
                         [] OTHER               -> "BI_NOT_BI"

\* rc has no case of its own: the loop, which would print the last return code
\* for BI_RC, prints nothing.
exec_built_in_cmd(name) ==
    CASE match_command(name) = "BI_CMD_EXIT" -> "BI_CMD_EXIT"
      [] match_command(name) \in {"BI_CMD_CD", "BI_CMD_DRAGON"} -> "BI_EXECUTED"
      [] OTHER -> "BI_NOT_BI"

\* Status words: of exit(n), and of a program that is killed.
Exited(n) == n * 256
Killed    == 9

\* How programs end; a name that is none ends in exit(2) after execvp().
StatusOf(name) == CASE name = <<"a">> -> Exited(0)
                    [] name = <<"b">> -> Exited(3)
                    [] name = <<"k">> -> Killed
                    [] OTHER          -> Exited(2)

\* Mutant: the status word itself is the code.
LastReturnCodeRaw(status) == status

\* Mutant: a program that is killed counts as one that exits.
LastReturnCodeAny(status) == status \div 256

LastReturnCode(status) == IF status % 128 = 0 THEN status \div 256 ELSE -1
----------------------------------------------------------------------------
(* exec_local_cmd_loop(). *)

BuffInit ==
    /\ sh = [pc |-> "prompt", line |-> <<>>, rc |-> OK, buffer |-> <<NUL>>,
             argv |-> <<>>, last_return_code |-> 0]
    /\ child = [pc |-> "none", name |-> <<>>, status |-> 0]

\* The buffer is cleared for every line.
BuffReadLine(line) ==
    LET built == build_cmd_buff(line)
        parsed == [sh EXCEPT !.line = line, !.rc = built.rc,
                             !.buffer = built.buffer, !.argv = built.argv]
        name == Arg(built.buffer, built.argv[1])
    IN
    /\ sh.pc = "prompt"
    /\ sh' = IF built.rc # OK THEN parsed
             ELSE IF match_command(name) = "BI_NOT_BI"
             THEN [parsed EXCEPT !.pc = "fork"]
             ELSE IF exec_built_in_cmd(name) = "BI_CMD_EXIT"
             THEN [parsed EXCEPT !.pc = "done", !.rc = OK_EXIT]
             ELSE parsed
    /\ UNCHANGED child

BuffEndOfInput == /\ sh.pc = "prompt"
                  /\ sh' = [sh EXCEPT !.pc = "done"]
                  /\ UNCHANGED child

Fork == /\ sh.pc = "fork"
        /\ sh' = [sh EXCEPT !.pc = "wait"]
        /\ child' = [pc |-> "running", name |-> Args[1], status |-> 0]

ForkFails == /\ sh.pc = "fork" /\ ForkFaults
             /\ sh' = [sh EXCEPT !.pc = "prompt"]
             /\ UNCHANGED child

\* Mutant: a child that finds no program does not exit.
EndsIfFound == /\ child.pc = "running" /\ StatusOf(child.name) # Exited(2)
               /\ child' = [child EXCEPT !.pc = "zombie",
                                         !.status = StatusOf(child.name)]
               /\ UNCHANGED sh

\* The child turns into its program, or finds none, and ends.
ChildEnds == /\ child.pc = "running"
             /\ child' = [child EXCEPT !.pc = "zombie",
                                       !.status = StatusOf(child.name)]
             /\ UNCHANGED sh

Wait == /\ sh.pc = "wait" /\ child.pc = "zombie"
        /\ sh' = [sh EXCEPT !.pc = "prompt",
                            !.last_return_code = LastReturnCode(child.status)]
        /\ child' = [child EXCEPT !.pc = "reaped"]

BuffStep == Fork \/ ForkFails \/ ChildEnds \/ Wait
=============================================================================
