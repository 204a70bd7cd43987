----------------------------- MODULE PipeShell -----------------------------
(***************************************************************************)
(* The third shell, src/5-shellp3/starter/dshlib.c: it reads a line, makes *)
(* the pipes between its commands, forks one child per command, closes the *)
(* ends it does not need and waits for the children in order.              *)
(***************************************************************************)
EXTENDS Pipeline

CONSTANT Lines              \* the lines users type: sequences of commands

BuiltIns == {"exit", "cd", "dragon", "rc"}

\* A command of blanks.
Blank == " "

ASSUME LineAssumption == Lines \subseteq Seq(AllCmds \cup {Blank})

ERR_EXEC_CMD == -6

Statuses == {Exited(n) : n \in {0, 1, EXIT_SC, ERR_EXEC_CMD}} \cup {SIGPIPE}

\* Mutant: the status word is taken for the exit status.
ReturnCodeRaw(status) == IF WIFEXITED(status) THEN status ELSE -1

ReturnCode(status) == IF WIFEXITED(status) THEN WEXITSTATUS(status) ELSE -1

\* Blank commands are skipped; what follows the first CMD_MAX is ignored, although
\* the comment above the function has an error and a message for it (lines 35, 42
\* and 46).
Parsed(line) ==
    LET cmds[n \in 0 .. Len(line)] ==
            IF n = 0 THEN <<>>
            ELSE IF line[n] = Blank \/ Len(cmds[n - 1]) = CMD_MAX
            THEN cmds[n - 1] ELSE Append(cmds[n - 1], line[n])
    IN  cmds[Len(line)]

\* A built-in is one only on a line of its own.
IsBuiltIn(cmds) == Len(cmds) = 1 /\ cmds[1] \in BuiltIns

\* What running it returns.  dragon falls off the end of the function, after
\* a printf() that returns the length of its text; cd leaves alone what the
\* pipelines depend on; rc, which match_command() calls executed, is unknown
\* here and does nothing.
exec_built_in_cmd(cmd) == CASE cmd = "exit"   -> "BI_CMD_EXIT"
                            [] cmd = "cd"     -> "BI_EXECUTED"
                            [] cmd = "dragon" -> "garbage"
                            [] OTHER          -> "BI_NOT_BI"

Init ==
    /\ shell = [pc |-> "prompt", line |-> <<>>, cmds |-> <<>>, i |-> 1,
                forked |-> 0, pipes |-> <<>>, ends |-> {}, rc |-> 0]
    /\ proc = NoProc
    /\ pipe = NoPipe
    /\ out = <<>>
----------------------------------------------------------------------------
(* The shell: exec_local_cmd_loop(). *)

\* The user types a line; input_buffer keeps it.  Nothing to run, or a built-in: the next prompt,
\* unless it was exit.
ReadLine(line) ==
    LET cmds == Parsed(line)
        exits == IsBuiltIn(cmds) /\ exec_built_in_cmd(cmds[1]) = "BI_CMD_EXIT"
    IN
    /\ shell.pc = "prompt"
    /\ shell' =
         IF cmds = <<>> \/ IsBuiltIn(cmds)
         THEN [shell EXCEPT !.line = line, !.cmds = <<>>, !.pipes = <<>>,
                            !.forked = 0, !.pc = IF exits THEN "done" ELSE @]
         ELSE [shell EXCEPT !.line = line, !.cmds = cmds, !.pc = "pipe",
                            !.i = 1, !.forked = 0]
    /\ out' = <<>>
    /\ UNCHANGED <<proc, pipe>>

EndOfInput ==
    /\ shell.pc = "prompt"
    /\ shell' = [shell EXCEPT !.pc = "done"]
    /\ UNCHANGED <<proc, pipe, out>>

Fork ==
    /\ shell.pc = "fork"
    /\ shell' = [shell EXCEPT !.pc = "close", !.forked = shell.i]
    /\ proc' = Forked(shell.i)
    /\ UNCHANGED <<pipe, out>>

\* A single command is given up; the loop over several is left, and the
\* shell waits for the children it has.  Bound: what the shell keeps open
\* leaves room for another line.
ForkFails ==
    /\ shell.pc = "fork" /\ ForkFaults
    /\ Cardinality(FreePipes) >= CMD_MAX - 1
    /\ shell' = IF N = 1 THEN [shell EXCEPT !.pc = "prompt", !.cmds = <<>>]
                         ELSE [shell EXCEPT !.pc = "wait", !.i = 1]
    /\ UNCHANGED <<proc, pipe, out>>

\* Mutant: the read end is kept open.
UnneededButRead(i) == {<<shell.pipes[k], "w">> : k \in {i} \cap 1 .. N - 1}

\* The ends the shell closes after it has forked the child at position i.
Unneeded(i) == {<<shell.pipes[k], "r">> : k \in {i - 1} \cap 1 .. N - 1}
               \cup {<<shell.pipes[k], "w">> : k \in {i} \cap 1 .. N - 1}

\* The two ends belong to different pipes: nobody can tell which goes first.
Close ==
    /\ shell.pc = "close"
    /\ shell' = [shell EXCEPT !.ends = @ \ Unneeded(shell.i),
                              !.pc = IF shell.i = N THEN "wait" ELSE "fork",
                              !.i = IF shell.i = N THEN 1 ELSE @ + 1]
    /\ UNCHANGED <<proc, pipe, out>>

\* Mutant: the first program's status is kept.
IsReportedFirst(i) == i = 1
IsReported(i) == i = N

\* The shell after waitpid() has returned for position i with this status.
Waited(status) ==
    [shell EXCEPT !.pc = IF shell.i = N THEN "prompt" ELSE @,
                  !.i = IF shell.i = N THEN 1 ELSE @ + 1,
                  !.rc = IF IsReported(shell.i) THEN ReturnCode(status) ELSE @]

Wait ==
    /\ shell.pc = "wait" /\ shell.i <= shell.forked
    /\ proc[shell.i].pc = "zombie"
    /\ shell' = Waited(proc[shell.i].status)
    /\ proc' = Reaped(shell.i)
    /\ UNCHANGED <<pipe, out>>

\* pids[i] is -1 or was never written, and every child has been waited for:
\* waitpid() fails and leaves `status' as it is, uninitialised.
WaitFails ==
    /\ shell.pc = "wait" /\ shell.i > shell.forked
    /\ \E garbage \in Statuses : shell' = Waited(garbage)
    /\ UNCHANGED <<proc, pipe, out>>

\* The last program prints on the terminal.
WriteTerminal(i) ==
    /\ Writing(i) /\ proc[i].out = Terminal
    /\ out' = Append(out, Head(proc[i].todo))
    /\ proc' = [proc EXCEPT ![i].todo = Tail(@)]
    /\ UNCHANGED <<shell, pipe>>

\* Users type nothing to a program that reads the terminal: it finds the end
\* of its input there.
ChildStep(i) == WriteTerminal(i) \/ Child(i, Residue, ERR_EXEC_CMD, TRUE)

ShellStep == MakePipes \/ Fork \/ ForkFails \/ Close \/ Wait \/ WaitFails

Next == \/ \E line \in Lines : ReadLine(line)
        \/ EndOfInput
        \/ ShellStep
        \/ \E i \in Positions : ChildStep(i)

\* The kernel runs every process that can run; users need not type.
Fairness == WF_vars(ShellStep) /\ \A i \in Positions : WF_vars(ChildStep(i))

Spec     == Init /\ [][Next]_vars
FairSpec == Spec /\ Fairness
----------------------------------------------------------------------------
(* Properties. *)

\* Type invariant: what the variables of exec_local_cmd_loop() hold, and which
\* ends, tokens and statuses its children can have.
TypeOK ==
    /\ shell \in [pc : {"prompt", "pipe", "fork", "close", "wait", "done"},
                  line : Lines \cup {<<>>}, cmds : Seq(AllCmds), i : Positions,
                  forked : 0 .. CMD_MAX, pipes : Seq(PipeIds),
                  ends : SUBSET AllEnds, rc : -1 .. 255]
    /\ N <= CMD_MAX /\ Len(shell.pipes) < CMD_MAX
    /\ ChildrenOK(Statuses)

AtPrompt == shell.pc = "prompt"

\* The line typed last has no more commands than the shell has room for.
WithinLimit ==
    Cardinality({n \in DOMAIN shell.line : shell.line[n] # Blank}) <= CMD_MAX

\* When the shell prompts again, no child is left, running or zombie (lines
\* 237-239), and if every fork() succeeded the shell holds no end of the line's
\* pipes: it has closed all of them, the last ones at lines 226-232.
NothingLeftBehind ==
    AtPrompt => /\ \A i \in Positions : proc[i].pc = "none"
                /\ AllForked => shell.ends \cap LineEnds = {}

\* However the processes interleave, and whatever the shell leaked before, a
\* pipeline prints what the composition of its commands prints, all of it before
\* the next prompt, although programs are killed when nobody reads their output
\* (lines 206-222).  Without its last program it prints nothing.  Lines of more
\* than CMD_MAX commands, which a comment says are refused, are left out.
OutputIsComposition ==
    (AtPrompt /\ WithinLimit) => out = IF AllForked THEN Composition ELSE <<>>

\* The return code the shell keeps after a pipeline is the exit status of its
\* last program, whichever ended first or was killed (lines 241-247).  Lines of
\* more than CMD_MAX commands are left out.
ReturnCodeOfLast ==
    (AtPrompt /\ WithinLimit /\ AllForked /\ N > 0) =>
        shell.rc = ExitArg(Last(shell.cmds), ERR_EXEC_CMD) % 256

\* Every line of which all programs were started is followed by a prompt: no
\* reader waits for an end of input, and no writer for room, that cannot come
\* because some process still holds an end it does not use.
EveryLineEnds ==
    (shell.pc = "pipe") ~> (AtPrompt \/ (shell.pc = "wait" /\ ~AllForked))
=============================================================================
