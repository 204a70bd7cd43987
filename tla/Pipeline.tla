------------------------------ MODULE Pipeline ------------------------------
(***************************************************************************)
(* The children of a pipeline and their pipes, common to the third shell   *)
(* (PipeShell) and the remote shell's server (RshPipeline), which fork     *)
(* them.  A child connects its standard input and output to the pipes,     *)
(* closes all other ends and turns into its program.                       *)
(*                                                                         *)
(* What matters in a descriptor table is which ends of which pipes it      *)
(* holds: a reader sees the end of its input when nobody holds the write   *)
(* end, a writer is killed when nobody holds the read end.                 *)
(***************************************************************************)
EXTENDS Integers, Sequences, SequencesExt, FiniteSets

CONSTANTS CMD_MAX,          \* the commands kept of a line
          CAP,              \* the tokens a pipe holds
          NPipes,           \* bound: pipes that exist at a time
          ForkFaults,       \* may fork() fail?
          OnTerminal        \* is stdout flushed before a fork?

VARIABLES shell,            \* the process that forks
          proc,             \* its children, by their command's position
          pipe,             \* what each pipe holds
          out               \* what the line's programs have printed

vars == <<shell, proc, pipe, out>>

\* Names execvp() does not find, and programs.
NotFound == {"exit", "cd", "dragon", "rc", "missing"}
Programs == {"gen", "cat", "head", "false", "quit"}
AllCmds  == NotFound \cup Programs
Tokens   == {"a", "b", "error", "buffered"}
Text     == <<"a", "b", "a">>

ASSUME SizeAssumption  == /\ CMD_MAX \in Nat \ {0}
                          /\ CAP \in Nat \ {0}
                          /\ NPipes \in Nat /\ NPipes >= CMD_MAX - 1
ASSUME FaultAssumption == ForkFaults \in BOOLEAN /\ OnTerminal \in BOOLEAN
----------------------------------------------------------------------------
(* Programs. *)

\* What exit() prints in a child of which execvp() failed: it flushes its copy
\* of the parent's stdio buffer.
Residue == IF OnTerminal THEN <<>> ELSE <<"buffered">>

\* What a program prints by itself, or a child that is none.
Prints(cmd, failure) == IF cmd = "gen" THEN Text
                        ELSE IF cmd \in NotFound THEN failure ELSE <<>>

\* How much of its input it reads, to print it again.
Wants(cmd) == CASE cmd = "cat" -> "all" [] cmd = "head" -> "one"
                [] OTHER -> "none"

EXIT_SC == 100

\* The argument of its exit(); `failed' is the one after execvp().
ExitArg(cmd, failed) == CASE cmd \in NotFound -> failed
                          [] cmd = "false"    -> 1
                          [] cmd = "quit"     -> EXIT_SC
                          [] OTHER            -> 0

\* The status word of a process that called exit(n), or that SIGPIPE killed.
Exited(n) == (n % 256) * 256
SIGPIPE   == 13

WIFEXITED(status)   == status % 128 = 0
WEXITSTATUS(status) == status \div 256
----------------------------------------------------------------------------
(* Pipes and descriptor tables. *)

N == Len(shell.cmds)

Terminal == 0
PipeIds  == 1 .. NPipes
Ends(k)  == {<<k, "r">>, <<k, "w">>}
AllEnds  == UNION {Ends(k) : k \in PipeIds}
LineEnds == UNION {Ends(k) : k \in Range(shell.pipes)}

Positions == 1 .. CMD_MAX
Live      == {i \in Positions : proc[i].pc \in {"forked", "running"}}

\* Somebody holds this end.
Held(end) == end \in shell.ends \/ \E i \in Live : end \in proc[i].ends

\* What pipes[0 .. cmd_count - 2] may become: the kernel takes pipes nobody
\* holds.
FreePipes == {k \in PipeIds : \A end \in Ends(k) : ~Held(end)}
NewPipes  == Injection(1 .. N - 1, FreePipes)

\* Mutants: the output is not connected; the ends that are not the child's own
\* stay open in it.
StdoutOfShell(i) == Terminal
AfterClosingNone(i) == proc[i].ends

\* What the child at position i has for standard input and output.  Terminal
\* stands for the parent's own, or the client's socket.
Stdin(i)  == IF i > 1 THEN shell.pipes[i - 1] ELSE Terminal
Stdout(i) == IF i < N THEN shell.pipes[i] ELSE Terminal

\* The ends it holds when it has closed pipes[]: its input and output, and
\* what the parent kept of earlier lines.
AfterClosing(i) ==
    (proc[i].ends \ LineEnds)
    \cup ({<<Stdin(i), "r">>, <<Stdout(i), "w">>} \cap AllEnds)

Nobody == [pc |-> "none", inp |-> Terminal, out |-> Terminal, ends |-> {},
           todo |-> <<>>, wants |-> "none", status |-> 0]

NoProc == [i \in Positions |-> Nobody]
NoPipe == [k \in PipeIds |-> <<>>]
----------------------------------------------------------------------------
(* What the parents have in common. *)

\* Bound: there are as many pipes as the line needs.
MakePipes ==
    /\ shell.pc = "pipe" /\ NewPipes # {}
    /\ LET new == CHOOSE pipes \in NewPipes : TRUE IN
         /\ shell' = [shell EXCEPT !.pc = "fork", !.pipes = new,
                        !.ends = @ \cup UNION {Ends(k) : k \in Range(new)}]
         /\ pipe' = [k \in PipeIds |-> IF k \in Range(new) THEN <<>>
                                                           ELSE pipe[k]]
    /\ UNCHANGED <<proc, out>>

Forked(i) == [proc EXCEPT ![i] = [Nobody EXCEPT !.pc = "forked",
                                                !.ends = shell.ends]]

Reaped(i) == [proc EXCEPT ![i] = Nobody]

AllForked == shell.forked = N
----------------------------------------------------------------------------
(* A child. *)

Exec(i, failure) ==
    /\ proc[i].pc = "forked"
    /\ proc' = [proc EXCEPT ![i] =
                  [@ EXCEPT !.pc = "running", !.inp = Stdin(i),
                            !.out = Stdout(i), !.ends = AfterClosing(i),
                            !.todo = Prints(shell.cmds[i], failure),
                            !.wants = Wants(shell.cmds[i])]]
    /\ UNCHANGED <<shell, pipe, out>>

Die(i, status) ==
    /\ proc' = [proc EXCEPT ![i] = [Nobody EXCEPT !.pc = "zombie",
                                                  !.status = status]]
    /\ UNCHANGED <<shell, pipe, out>>

Running(i) == proc[i].pc = "running"
Writing(i) == Running(i) /\ proc[i].todo # <<>>
Reading(i) == Running(i) /\ proc[i].todo = <<>> /\ proc[i].wants # "none"

WritePipe(i) ==
    LET k == proc[i].out IN
    /\ Writing(i) /\ k # Terminal
    /\ Held(<<k, "r">>) /\ Len(pipe[k]) < CAP
    /\ pipe' = [pipe EXCEPT ![k] = Append(@, Head(proc[i].todo))]
    /\ proc' = [proc EXCEPT ![i].todo = Tail(@)]
    /\ UNCHANGED <<shell, out>>

Sigpipe(i) ==
    /\ Writing(i) /\ proc[i].out # Terminal
    /\ ~Held(<<proc[i].out, "r">>)
    /\ Die(i, SIGPIPE)

\* The program at position i after it has read a token.
HasRead(i, token) ==
    [proc EXCEPT ![i].todo = <<token>>,
                 ![i].wants = IF @ = "one" THEN "none" ELSE @]

ReadPipe(i) ==
    LET k == proc[i].inp IN
    /\ Reading(i) /\ k # Terminal /\ pipe[k] # <<>>
    /\ pipe' = [pipe EXCEPT ![k] = Tail(@)]
    /\ proc' = HasRead(i, Head(pipe[k]))
    /\ UNCHANGED <<shell, out>>

ReadEnd(i, ended) ==
    LET k == proc[i].inp IN
    /\ Reading(i)
    /\ IF k = Terminal THEN ended ELSE pipe[k] = <<>> /\ ~Held(<<k, "w">>)
    /\ proc' = [proc EXCEPT ![i].wants = "none"]
    /\ UNCHANGED <<shell, pipe, out>>

ExitProg(i, failed) ==
    /\ Running(i) /\ proc[i].todo = <<>> /\ proc[i].wants = "none"
    /\ Die(i, Exited(ExitArg(shell.cmds[i], failed)))

\* A child's steps: `failure' and `failed' are what it prints and passes to
\* exit() when there is no program, `ended' whether the parent's own input has.
Child(i, failure, failed, ended) ==
    \/ Exec(i, failure) \/ WritePipe(i) \/ Sigpipe(i) \/ ReadPipe(i)
    \/ ReadEnd(i, ended) \/ ExitProg(i, failed)
----------------------------------------------------------------------------
\* What a command makes of its input when it runs alone.
Filter(input, cmd) ==
    CASE cmd = "gen"  -> Text
      [] cmd = "cat"  -> input
      [] cmd = "head" -> SubSeq(input, 1, IF input = <<>> THEN 0 ELSE 1)
      [] OTHER        -> <<>>

\* What the composition of commands prints, and that of the line.
Composed(cmds) ==
    LET printed[n \in 0 .. Len(cmds)] ==
            IF n = 0 THEN <<>> ELSE Filter(printed[n - 1], cmds[n])
    IN  printed[Len(cmds)]

Composition == Composed(shell.cmds)

\* The children and the pipes have their types, and no pipe is overfull.
ChildrenOK(statuses) ==
    /\ proc \in [Positions -> [pc : {"none", "forked", "running", "zombie"},
                               inp : PipeIds \cup {Terminal},
                               out : PipeIds \cup {Terminal},
                               ends : SUBSET AllEnds, todo : Seq(Tokens),
                               wants : {"none", "one", "all"},
                               status : statuses]]
    /\ pipe \in [PipeIds -> Seq(Tokens)]
    /\ \A k \in PipeIds : Len(pipe[k]) <= CAP
    /\ out \in Seq(Tokens)
=============================================================================
