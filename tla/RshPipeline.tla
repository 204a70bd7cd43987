---------------------------- MODULE RshPipeline ----------------------------
(***************************************************************************)
(* rsh_execute_pipeline() of src/6-RShell/starter/rsh_server.c, and what   *)
(* exec_client_requests() does around it: the server receives a command,   *)
(* forks its programs with the client's socket as the first one's input    *)
(* and the last one's output, closes the pipes when all are forked, waits  *)
(* for all of them, sends the EOF character and closes the session.        *)
(*                                                                         *)
(* `out' is what the client is sent before the EOF character; the socket   *)
(* as a stream, and requests that are no pipeline, are in RemoteShell.     *)
(***************************************************************************)
EXTENDS Pipeline

CONSTANTS Requests,         \* the pipelines clients ask for
          Leaves            \* may clients go away?

VARIABLE client             \* the client of this session: here, gone or reset

rvars == <<vars, client>>

ASSUME RequestAssumption == /\ Requests \subseteq Seq(AllCmds) \ {<<>>}
                            /\ \A cmds \in Requests : Len(cmds) <= CMD_MAX
                            /\ Leaves \in BOOLEAN

EXIT_FAILURE == 1
ERR_RDSH_CMD_EXEC == -53

Statuses == {Exited(n) : n \in {0, EXIT_FAILURE, EXIT_SC}} \cup {SIGPIPE}

Init ==
    /\ shell = [pc |-> "recv", cmds |-> <<>>, i |-> 1, forked |-> 0,
                pipes |-> <<>>, ends |-> {}, st |-> <<>>, cmd_rc |-> 0]
    /\ proc = NoProc
    /\ pipe = NoPipe
    /\ out = <<>>
    /\ client = "here"
----------------------------------------------------------------------------
(* The server. *)

Request(cmds) ==
    /\ shell.pc = "recv"
    /\ shell' = [shell EXCEPT !.pc = "pipe", !.cmds = cmds, !.i = 1,
                              !.forked = 0, !.st = <<>>]
    /\ out' = <<>>
    /\ client' = "here"
    /\ UNCHANGED <<proc, pipe>>

Pipes == MakePipes /\ UNCHANGED client

Fork ==
    /\ shell.pc = "fork"
    /\ proc' = Forked(shell.i)
    /\ shell' = [shell EXCEPT !.forked = shell.i,
                              !.pc = IF shell.i = N THEN "close" ELSE @,
                              !.i = IF shell.i = N THEN 1 ELSE @ + 1]
    /\ UNCHANGED <<pipe, out, client>>

\* The function returns at once: pipes stay open, and programs that have been
\* started are left alone.  Bound: the model follows the session to its end.
ForkFails ==
    /\ shell.pc = "fork" /\ ForkFaults
    /\ shell' = [shell EXCEPT !.pc = "eof", !.cmd_rc = ERR_RDSH_CMD_EXEC]
    /\ UNCHANGED <<proc, pipe, out, client>>

\* What the server closes when all programs are forked.
Unneeded == LineEnds

Close ==
    /\ shell.pc = "close"
    /\ shell' = [shell EXCEPT !.pc = "wait", !.ends = @ \ Unneeded]
    /\ UNCHANGED <<proc, pipe, out, client>>

\* Mutant: only the last program's status counts.
ExitCodeLast(st) == WEXITSTATUS(Last(st))

\* Mutant: the last program's status word is returned as it is.
ExitCodeRaw(st) == Last(st)

\* The last program's exit code, unless any of them asked to stop.
ExitCode(st) == IF \E i \in 1 .. Len(st) : WEXITSTATUS(st[i]) = EXIT_SC
                THEN EXIT_SC ELSE WEXITSTATUS(Last(st))

\* Mutant: the server waits for the last program only.
AwaitedLast == N
Awaited == shell.i

Wait ==
    /\ shell.pc = "wait"
    /\ proc[Awaited].pc = "zombie"
    /\ LET st == Append(shell.st, proc[Awaited].status) IN
         shell' = IF Awaited < N
                  THEN [shell EXCEPT !.st = st, !.i = @ + 1]
                  ELSE [shell EXCEPT !.st = st, !.i = 1, !.pc = "eof",
                                     !.cmd_rc = ExitCode(st)]
    /\ proc' = Reaped(Awaited)
    /\ UNCHANGED <<pipe, out, client>>

\* send_message_eof(), and the session is closed.  SIGPIPE, which may end the
\* server here, is in RemoteShell.
SendEof ==
    /\ shell.pc = "eof"
    /\ shell' = [shell EXCEPT !.pc = IF AllForked THEN "recv" ELSE "end"]
    /\ UNCHANGED <<proc, pipe, out, client>>
----------------------------------------------------------------------------
(* The socket. *)

\* What is sent to a client that has gone away is lost and provokes a reset.
WriteSocket(i) ==
    /\ Writing(i) /\ proc[i].out = Terminal /\ client # "reset"
    /\ out' = IF client = "here" THEN Append(out, Head(proc[i].todo)) ELSE out
    /\ client' \in (IF client = "here" THEN {"here"} ELSE {"gone", "reset"})
    /\ proc' = [proc EXCEPT ![i].todo = Tail(@)]
    /\ UNCHANGED <<shell, pipe>>

SocketSigpipe(i) ==
    /\ Writing(i) /\ proc[i].out = Terminal /\ client = "reset"
    /\ Die(i, SIGPIPE)
    /\ UNCHANGED client

\* execvp() failed: the last program's standard error is the socket, too.
Failure(i) == (IF i = N THEN <<"error">> ELSE <<>>) \o Residue

\* A client sends nothing before it has got the reply: a program that reads the
\* socket finds its end when the client goes away.
ChildStep(i) ==
    \/ WriteSocket(i) \/ SocketSigpipe(i)
    \/ /\ Child(i, Failure(i), EXIT_FAILURE, client # "here")
       /\ UNCHANGED client

ClientLeaves ==
    /\ Leaves /\ client = "here" /\ shell.pc # "recv"
    /\ client' = "gone"
    /\ UNCHANGED vars
----------------------------------------------------------------------------
ServerStep == Pipes \/ Fork \/ ForkFails \/ Close \/ Wait \/ SendEof

Next == \/ \E cmds \in Requests : Request(cmds)
        \/ ServerStep
        \/ \E i \in Positions : ChildStep(i)
        \/ ClientLeaves

\* The kernel runs every process that can run.
Fairness == WF_rvars(ServerStep) /\ \A i \in Positions : WF_rvars(ChildStep(i))

Spec     == Init /\ [][Next]_rvars
FairSpec == Spec /\ Fairness
----------------------------------------------------------------------------
(* Properties. *)

\* Type invariant: what rsh_execute_pipeline() keeps of its children, the
\* values it returns, and what the children are.
TypeOK ==
    /\ shell \in [pc : {"recv", "pipe", "fork", "close", "wait", "eof", "end"},
                  cmds : Seq(AllCmds), i : Positions, forked : 0 .. CMD_MAX,
                  pipes : Seq(PipeIds), ends : SUBSET AllEnds,
                  st : Seq(Statuses), cmd_rc : {ERR_RDSH_CMD_EXEC} \cup 0 .. 255]
    /\ N <= CMD_MAX /\ Len(shell.st) <= N
    /\ client \in {"here", "gone", "reset"}
    /\ ChildrenOK(Statuses)

\* The EOF character tells the client that the server is finished executing the
\* command: when every fork() succeeded, no program of it is left by then, in
\* whatever order they ended, and no pipe end (lines 557-566).
EofIsLast ==
    (shell.pc = "eof" /\ AllForked) =>
        /\ shell.ends = {}
        /\ \A i \in Positions : proc[i].pc = "none"

\* A client that waits for its reply gets what the composition of the commands
\* prints, and the complaint of the last one if there is no such program.
ReplyIsComposition ==
    (shell.pc = "eof" /\ AllForked /\ client = "here") =>
        out = Composition \o
              (IF Last(shell.cmds) \in NotFound THEN <<"error">> ELSE <<>>)

\* The code returned is the last program's, or EXIT_SC if any program exits
\* with it: programs cut short by SIGPIPE do not count (lines 570-577).
CodeOfPipeline ==
    (shell.pc = "eof" /\ AllForked /\ client = "here") =>
        shell.cmd_rc = IF Contains(shell.cmds, "quit") THEN EXIT_SC
                       ELSE ExitArg(Last(shell.cmds), EXIT_FAILURE)

\* The server comes back from every pipeline that does not read the socket, and
\* from all of them when the client has gone away.
ReadsSocket == Wants(shell.cmds[1]) # "none"
ServerReturns ==
    /\ (shell.pc = "pipe" /\ ~ReadsSocket) ~> (shell.pc = "eof")
    /\ (shell.pc = "pipe" /\ client # "here") ~> (shell.pc = "eof")
    /\ (shell.pc = "wait" /\ client # "here") ~> (shell.pc = "eof")
=============================================================================
