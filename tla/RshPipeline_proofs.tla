------------------------- MODULE RshPipeline_proofs -------------------------
(***************************************************************************)
(* Proofs about RshPipeline, for any requests, any number of commands and  *)
(* pipes, any capacity of a pipe, with fork() failing and with clients     *)
(* that go away.                                                           *)
(***************************************************************************)
EXTENDS RshPipeline, Pipeline_proofs

\* Where rsh_execute_pipeline() is in its work, and what it has done of it:
\* made the pipes, forked, closed, waited, or given up on a failing fork().
Stage ==
    /\ shell.pc \in {"recv", "pipe"} => NoChildren /\ shell.ends = {}
    /\ shell.pc # "recv" => N \in 1 .. CMD_MAX
    /\ shell.pc = "pipe" =>
          shell.i = 1 /\ shell.forked = 0 /\ shell.st = <<>>
    /\ shell.pc \notin {"recv", "pipe"} => PipesMade
    /\ shell.pc = "fork" =>
          /\ shell.i <= N /\ shell.forked = shell.i - 1 /\ shell.st = <<>>
          /\ shell.ends \subseteq LineEnds
    /\ shell.pc = "close" =>
          /\ AllForked /\ shell.i = 1 /\ shell.st = <<>>
          /\ shell.ends \subseteq LineEnds
    /\ shell.pc = "wait" =>
          /\ AllForked /\ shell.i <= N /\ shell.ends = {}
          /\ Len(shell.st) = shell.i - 1
          /\ \A j \in Positions : j < shell.i => proc[j].pc = "none"
    /\ shell.pc = "eof" => IF AllForked THEN NoChildren /\ shell.ends = {}
                                        ELSE shell.forked < N
    /\ shell.pc = "end" => shell.forked < N
    /\ \A j \in Positions : j > shell.forked => proc[j].pc = "none"

\* The statuses collected are those of the line's programs; the last one's is
\* its own as long as its client is there to be written to.
Collected ==
    /\ \A j \in 1 .. Len(shell.st) :
          /\ shell.st[j] \in {Exited(ExitArg(shell.cmds[j], EXIT_FAILURE)), SIGPIPE}
          /\ shell.cmds[j] = "quit" => shell.st[j] = Exited(EXIT_SC)
          /\ client = "here" /\ j = N =>
                shell.st[j] = Exited(ExitArg(shell.cmds[j], EXIT_FAILURE))
    /\ \A j \in Positions :
          client = "here" /\ j = N /\ proc[j].pc = "zombie" =>
             proc[j].status = Exited(ExitArg(shell.cmds[j], EXIT_FAILURE))

ServerInv == /\ TypeOK /\ Family(EXIT_FAILURE) /\ Stage
             /\ Collected /\ CodeOfPipeline
----------------------------------------------------------------------------
(* Values. *)

LEMMA ExitStatuses ==
    ASSUME NEW cmd \in AllCmds
    PROVE  /\ ExitArg(cmd, EXIT_FAILURE) \in {0, EXIT_FAILURE, EXIT_SC}
           /\ Exited(ExitArg(cmd, EXIT_FAILURE)) \in Statuses
           /\ ExitArg(cmd, EXIT_FAILURE) = EXIT_SC <=> cmd = "quit"
  <1>1. ExitArg(cmd, EXIT_FAILURE) \in {0, EXIT_FAILURE, EXIT_SC}
    BY DEF ExitArg, EXIT_FAILURE
  <1>2. ExitArg(cmd, EXIT_FAILURE) = EXIT_SC <=> cmd = "quit"
    BY DEF ExitArg, EXIT_FAILURE, EXIT_SC, NotFound
  <1>3. Exited(ExitArg(cmd, EXIT_FAILURE)) \in Statuses
    BY <1>1 DEF Statuses
  <1> QED BY <1>1, <1>2, <1>3

LEMMA StatusValues ==
    /\ 0 \in Statuses /\ SIGPIPE \in Statuses
    /\ \A n \in {0, EXIT_FAILURE, EXIT_SC} : WEXITSTATUS(Exited(n)) = n
    /\ WEXITSTATUS(SIGPIPE) = 0
    /\ \A status \in Statuses : WEXITSTATUS(status) \in {0, EXIT_FAILURE, EXIT_SC}
  <1>1. Exited(0) = 0
    BY DEF Exited
  <1>2. 0 \in Statuses /\ SIGPIPE \in Statuses
    BY <1>1 DEF Statuses
  <1>3. \A n \in {0, EXIT_FAILURE, EXIT_SC} : WEXITSTATUS(Exited(n)) = n
    BY DEF WEXITSTATUS, Exited, EXIT_FAILURE, EXIT_SC
  <1>4. WEXITSTATUS(SIGPIPE) = 0
    BY DEF WEXITSTATUS, SIGPIPE
  <1>5. \A status \in Statuses : WEXITSTATUS(status) \in {0, EXIT_FAILURE, EXIT_SC}
    BY <1>3, <1>4 DEF Statuses
  <1> QED BY <1>2, <1>3, <1>4, <1>5

\* The code returned for the statuses that can have been collected.
LEMMA ExitCodeIsCode ==
    ASSUME NEW cmds \in Seq(AllCmds), cmds # <<>>,
           NEW st \in Seq(Statuses), Len(st) = Len(cmds),
           \A j \in 1 .. Len(st) :
              /\ st[j] \in {Exited(ExitArg(cmds[j], EXIT_FAILURE)), SIGPIPE}
              /\ cmds[j] = "quit" => st[j] = Exited(EXIT_SC)
    PROVE  /\ ExitCode(st) \in 0 .. 255
           /\ st[Len(st)] = Exited(ExitArg(cmds[Len(cmds)], EXIT_FAILURE)) =>
                 ExitCode(st) = IF Contains(cmds, "quit") THEN EXIT_SC
                                ELSE ExitArg(Last(cmds), EXIT_FAILURE)
  <1>1. Len(cmds) \in Nat \ {0} /\ Len(st) \in 1 .. Len(st)
    OBVIOUS
  <1>2. ExitCode(st) \in {0, EXIT_FAILURE, EXIT_SC}
    BY <1>1, StatusValues DEF ExitCode, Last
  <1>3. ExitCode(st) \in 0 .. 255
    BY <1>2 DEF EXIT_FAILURE, EXIT_SC
  <1>4. \A j \in 1 .. Len(st) :
           WEXITSTATUS(st[j]) = EXIT_SC <=> cmds[j] = "quit"
    <2> SUFFICES ASSUME NEW j \in 1 .. Len(st)
                 PROVE  WEXITSTATUS(st[j]) = EXIT_SC <=> cmds[j] = "quit"
      OBVIOUS
    <2>1. cmds[j] \in AllCmds
      OBVIOUS
    <2>2. 0 # EXIT_SC
      BY DEF EXIT_SC
    <2> QED BY <2>1, <2>2, ExitStatuses, StatusValues
  <1>5. Contains(cmds, "quit") <=> \E j \in 1 .. Len(st) : WEXITSTATUS(st[j]) = EXIT_SC
    BY <1>4 DEF Contains
  <1>6. ASSUME st[Len(st)] = Exited(ExitArg(cmds[Len(cmds)], EXIT_FAILURE))
        PROVE  WEXITSTATUS(Last(st)) = ExitArg(Last(cmds), EXIT_FAILURE)
    <2>1. cmds[Len(cmds)] \in AllCmds
      BY <1>1
    <2> QED BY <1>6, <2>1, ExitStatuses, StatusValues DEF Last
  <1> QED BY <1>3, <1>5, <1>6 DEF ExitCode
----------------------------------------------------------------------------
(* Children. *)

ServerType == [pc : {"recv", "pipe", "fork", "close", "wait", "eof", "end"},
               cmds : Seq(AllCmds), i : Positions, forked : 0 .. CMD_MAX,
               pipes : Seq(PipeIds), ends : SUBSET AllEnds,
               st : Seq(Statuses), cmd_rc : {ERR_RDSH_CMD_EXEC} \cup 0 .. 255]

LEMMA ServerTypes ==
    ASSUME TypeOK
    PROVE  /\ shell \in ServerType /\ N \in 0 .. CMD_MAX
           /\ proc \in [Positions -> ChildType(Statuses)]
           /\ ChildrenOK(Statuses)
  BY DEF TypeOK, ServerType, ChildrenOK, ChildType, N

\* A child is one of the line's programs, and the line's pipes are made.
LEMMA ChildOfLine ==
    ASSUME TypeOK, Stage, NEW j \in Positions, proc[j].pc # "none"
    PROVE  /\ j \in 1 .. N /\ LineShape /\ PipesMade
           /\ shell.pc \notin {"recv", "pipe"}
           /\ shell.pc = "eof" => ~AllForked
  <1>1. shell.pc \notin {"recv", "pipe"} /\ N \in 1 .. CMD_MAX /\ PipesMade
    BY DEF Stage, NoChildren
  <1>2. j <= shell.forked
    BY SizeAssumption, ServerTypes DEF Stage, Positions, ServerType
  <1>3. shell.forked <= N
    BY <1>1, ServerTypes DEF Stage, AllForked, ServerType, Positions
  <1> QED BY <1>1, <1>2, <1>3, ServerTypes, SizeAssumption
          DEF LineShape, ServerType, Positions, Stage, NoChildren

LEMMA FailureType ==
    ASSUME NEW i
    PROVE  Failure(i) \in Seq(Tokens)
  <1>1. <<"error">> \in Seq(Tokens) /\ <<>> \in Seq(Tokens) /\ <<"buffered">> \in Seq(Tokens)
    BY DEF Tokens
  <1> QED BY <1>1 DEF Failure, Residue
----------------------------------------------------------------------------
(* Steps of the server. *)

LEMMA ServerInitially == Init => ServerInv
  <1> SUFFICES ASSUME Init
               PROVE  ServerInv
    OBVIOUS
  <1>1. /\ shell.pc = "recv" /\ shell.cmds = <<>> /\ shell.i = 1 /\ shell.forked = 0
        /\ shell.pipes = <<>> /\ shell.ends = {} /\ shell.st = <<>> /\ shell.cmd_rc = 0
        /\ shell \in ServerType
    <2>1. <<>> \in Seq(AllCmds) /\ <<>> \in Seq(PipeIds) /\ <<>> \in Seq(Statuses)
      OBVIOUS
    <2>2. 1 \in Positions /\ 0 \in 0 .. CMD_MAX
      BY SizeAssumption DEF Positions
    <2> QED BY <2>1, <2>2 DEF Init, ServerType
  <1>2. N = 0 /\ Len(shell.st) = 0
    BY <1>1 DEF N
  <1>3. NoChildren
    BY DEF Init, NoProc, NoChildren, Nobody
  <1>4. ChildrenOK(Statuses)
    <2>1. Nobody \in ChildType(Statuses)
      BY StatusValues DEF Nobody, ChildType
    <2>2. proc \in [Positions -> ChildType(Statuses)]
      BY <2>1 DEF Init, NoProc
    <2>3. pipe \in [PipeIds -> Seq(Tokens)] /\ \A k \in PipeIds : Len(pipe[k]) <= CAP
      BY SizeAssumption DEF Init, NoPipe
    <2> QED BY <2>2, <2>3 DEF Init, ChildrenOK, ChildType
  <1>5. TypeOK
    BY <1>1, <1>2, <1>4, SizeAssumption DEF TypeOK, ServerType, Init
  <1>6. Stage
    BY <1>1, <1>3 DEF Stage, NoChildren
  <1>7. Collected
    BY <1>1, <1>2, <1>3 DEF Collected, NoChildren
  <1>8. Family(EXIT_FAILURE) /\ CodeOfPipeline
    BY <1>1, <1>3 DEF Family, NoChildren, CodeOfPipeline
  <1> QED BY <1>5, <1>6, <1>7, <1>8 DEF ServerInv

LEMMA RequestStep ==
    ASSUME ServerInv, NEW cmds \in Requests, Request(cmds)
    PROVE  ServerInv'
  <1>1. /\ shell.pc = "recv" /\ NoChildren /\ shell.ends = {} /\ shell \in ServerType
        /\ ChildrenOK(Statuses)
    BY ServerTypes DEF ServerInv, Stage, Request
  <1>2. cmds \in Seq(AllCmds) /\ Len(cmds) \in 1 .. CMD_MAX
    BY RequestAssumption, SizeAssumption
  <1>3. /\ shell'.pc = "pipe" /\ shell'.cmds = cmds /\ shell'.i = 1 /\ shell'.forked = 0
        /\ shell'.st = <<>> /\ shell'.ends = {} /\ shell' \in ServerType
    <2>1. 1 \in Positions /\ 0 \in 0 .. CMD_MAX /\ <<>> \in Seq(Statuses)
      BY SizeAssumption DEF Positions
    <2> QED BY <1>1, <1>2, <2>1, ZenonT(40) DEF Request, ServerType
  <1>4. N' = Len(cmds)
    BY <1>3 DEF N
  <1>5. NoChildren' /\ ChildrenOK(Statuses)'
    <2>1. proc' = proc /\ pipe' = pipe /\ out' = <<>>
      BY DEF Request
    <2> QED BY <1>1, <2>1 DEF NoChildren, ChildrenOK
  <1>6. TypeOK'
    BY <1>2, <1>3, <1>4, <1>5, SizeAssumption DEF TypeOK, ServerType, Request
  <1>7. Stage'
    BY <1>2, <1>3, <1>4, <1>5 DEF Stage, NoChildren
  <1>8. Collected'
    BY <1>3, <1>5 DEF Collected, NoChildren
  <1>9. Family(EXIT_FAILURE)' /\ CodeOfPipeline'
    BY <1>3, <1>5 DEF Family, NoChildren, CodeOfPipeline
  <1> QED BY <1>6, <1>7, <1>8, <1>9 DEF ServerInv

LEMMA PipesStep ==
    ASSUME ServerInv, Pipes
    PROVE  ServerInv'
  <1> DEFINE new == CHOOSE pipes \in NewPipes : TRUE
  <1>1. /\ shell.pc = "pipe" /\ NoChildren /\ shell.ends = {} /\ shell \in ServerType
        /\ shell.i = 1 /\ shell.forked = 0 /\ shell.st = <<>> /\ N \in 1 .. CMD_MAX
        /\ ChildrenOK(Statuses)
    BY ServerTypes DEF ServerInv, Stage, Pipes, MakePipes
  <1>2. new \in NewPipes
    BY DEF Pipes, MakePipes
  <1>3. /\ shell' = [shell EXCEPT !.pc = "fork", !.pipes = new,
                        !.ends = @ \cup UNION {Ends(k) : k \in Range(new)}]
        /\ pipe' = [k \in PipeIds |-> IF k \in Range(new) THEN <<>> ELSE pipe[k]]
        /\ UNCHANGED <<proc, out, client>>
    BY DEF Pipes, MakePipes
  <1> HIDE DEF new
  <1>4. new \in Seq(PipeIds) /\ new \in Injection(1 .. N - 1, PipeIds)
    BY <1>1, <1>2, NewPipesType
  <1>5. Range(new) \subseteq PipeIds
    BY <1>4 DEF Range, Injection
  <1>6. UNION {Ends(k) : k \in Range(new)} \in SUBSET AllEnds
    BY <1>5, EndsTypes
  <1>7. /\ shell'.pc = "fork" /\ shell'.cmds = shell.cmds /\ shell'.i = 1
        /\ shell'.forked = 0 /\ shell'.st = <<>> /\ shell'.pipes = new
        /\ shell'.ends = UNION {Ends(k) : k \in Range(new)} /\ shell' \in ServerType
    <2> DEFINE ends == UNION {Ends(k) : k \in Range(new)}
    <2>1. ends \in SUBSET AllEnds
      BY <1>6
    <2>2. shell' = [shell EXCEPT !.pc = "fork", !.pipes = new, !.ends = ends]
      BY <1>1, <1>3
    <2> HIDE DEF ends
    <2>3. /\ shell'.pc = "fork" /\ shell'.cmds = shell.cmds /\ shell'.i = 1
          /\ shell'.forked = 0 /\ shell'.st = <<>> /\ shell'.pipes = new
          /\ shell'.ends = ends /\ shell' \in ServerType
      <3>1. shell \in ServerType /\ new \in Seq(PipeIds)
        BY <1>1, <1>4
      <3>2. shell' \in ServerType
        BY <2>1, <2>2, <3>1 DEF ServerType
      <3>3. /\ shell'.pc = "fork" /\ shell'.cmds = shell.cmds /\ shell'.i = shell.i
            /\ shell'.forked = shell.forked /\ shell'.st = shell.st
            /\ shell'.pipes = new /\ shell'.ends = ends
        BY <2>2, <3>1 DEF ServerType
      <3> QED BY <1>1, <3>2, <3>3
    <2> QED BY <2>3 DEF ends
  <1>8. N' = N /\ LineEnds' = UNION {Ends(k) : k \in Range(new)}
    BY <1>7 DEF N, LineEnds
  <1>9. NoChildren' /\ ChildrenOK(Statuses)'
    <2>1. pipe' \in [PipeIds -> Seq(Tokens)] /\ \A k \in PipeIds : Len(pipe'[k]) <= CAP
      BY <1>1, <1>3, SizeAssumption DEF ChildrenOK
    <2> QED BY <1>1, <1>3, <2>1 DEF NoChildren, ChildrenOK
  <1>10. TypeOK'
    BY <1>1, <1>3, <1>7, <1>8, <1>9 DEF TypeOK, ServerType, ServerInv
  <1>11. PipesMade'
    BY <1>4, <1>7, <1>8 DEF PipesMade
  <1>12. Stage'
    BY <1>1, <1>7, <1>8, <1>9, <1>11 DEF Stage, NoChildren
  <1>13. Collected'
    BY <1>7, <1>9 DEF Collected, NoChildren
  <1>14. Family(EXIT_FAILURE)' /\ CodeOfPipeline'
    BY <1>7, <1>9 DEF Family, NoChildren, CodeOfPipeline
  <1> QED BY <1>10, <1>12, <1>13, <1>14 DEF ServerInv

\* What the children have collected survives a step that ends none of them.
LEMMA CollectedKept ==
    ASSUME Collected, shell'.cmds = shell.cmds, shell'.st = shell.st,
           client' = "here" => client = "here",
           \A j \in Positions : proc'[j].pc = "zombie" => proc'[j] = proc[j]
    PROVE  Collected'
  <1>1. N' = N
    BY DEF N
  <1> QED BY <1>1 DEF Collected

LEMMA ForkStep ==
    ASSUME ServerInv, Fork
    PROVE  ServerInv'
  <1> DEFINE child == [Nobody EXCEPT !.pc = "forked", !.ends = shell.ends]
             n == shell.i
  <1>1. /\ shell.pc = "fork" /\ shell \in ServerType /\ N \in 1 .. CMD_MAX
        /\ n \in Positions /\ n <= N /\ shell.forked = n - 1
        /\ shell.st = <<>> /\ shell.ends \subseteq LineEnds /\ PipesMade
        /\ proc \in [Positions -> ChildType(Statuses)] /\ ChildrenOK(Statuses)
    BY ServerTypes DEF ServerInv, Stage, Fork, ServerType
  <1>2. /\ n \in Nat /\ N \in Nat /\ n \in 1 .. CMD_MAX /\ n \in 0 .. CMD_MAX
        /\ n # N => n + 1 \in Positions /\ n + 1 <= N
        /\ 1 \in Positions
    BY <1>1, SizeAssumption DEF Positions
  <1>3. child \in ChildType(Statuses) /\ child.pc = "forked"
    <2>1. <<>> \in Seq(Tokens)
      OBVIOUS
    <2> QED BY <1>1, <2>1, StatusValues, ZenonT(40) DEF Nobody, ChildType, ServerType
  <1>4. proc' = [proc EXCEPT ![n] = child] /\ UNCHANGED <<pipe, out, client>>
    BY DEF Fork, Forked
  <1>5. /\ shell' \in ServerType /\ shell'.cmds = shell.cmds
        /\ shell'.pipes = shell.pipes /\ shell'.ends = shell.ends
        /\ shell'.st = <<>> /\ shell'.forked = n
        /\ shell'.pc = IF n = N THEN "close" ELSE "fork"
        /\ shell'.i = IF n = N THEN 1 ELSE n + 1
    <2> DEFINE pc == IF n = N THEN "close" ELSE "fork"
               i  == IF n = N THEN 1 ELSE n + 1
    <2>1. shell' = [shell EXCEPT !.forked = n, !.pc = pc, !.i = i]
      BY <1>1 DEF Fork
    <2>2. /\ pc \in {"recv", "pipe", "fork", "close", "wait", "eof", "end"}
          /\ i \in Positions
      BY <1>2
    <2> HIDE DEF pc, i
    <2>3. shell' \in ServerType /\ shell'.pc = pc /\ shell'.i = i
      BY <1>1, <1>2, <2>1, <2>2, ZenonT(40) DEF ServerType
    <2>4. /\ shell'.cmds = shell.cmds /\ shell'.pipes = shell.pipes
          /\ shell'.ends = shell.ends /\ shell'.st = shell.st /\ shell'.forked = n
      BY <1>1, <2>1 DEF ServerType
    <2> QED BY <1>1, <2>3, <2>4 DEF pc, i
  <1> HIDE DEF child
  <1>6. /\ proc' \in [Positions -> ChildType(Statuses)] /\ proc'[n].pc = "forked"
        /\ \A j \in Positions \ {n} : proc'[j] = proc[j]
    BY <1>1, <1>3, <1>4
  <1>7. N' = N /\ LineEnds' = LineEnds /\ PipesMade' = PipesMade
    BY <1>5, LineKept
  <1>8. TypeOK'
    <2>1. ChildrenOK(Statuses)'
      BY <1>1, <1>4, <1>6 DEF ChildrenOK, ChildType
    <2>2. client' \in {"here", "gone", "reset"} /\ Len(shell'.st) <= N
      BY <1>1, <1>4, <1>5 DEF ServerInv, TypeOK
    <2> QED BY <1>1, <1>5, <1>7, <2>1, <2>2 DEF TypeOK, ServerType
  <1>9. Stage'
    <2>1. \A j \in Positions : j > n => proc'[j].pc = "none"
      BY <1>1, <1>2, <1>6 DEF ServerInv, Stage, Positions
    <2>2. CASE n = N
      BY <1>1, <1>5, <1>7, <2>1, <2>2 DEF Stage, AllForked
    <2>3. CASE n # N
      BY <1>1, <1>2, <1>5, <1>7, <2>1, <2>3 DEF Stage
    <2> QED BY <2>2, <2>3
  <1>10. Family(EXIT_FAILURE)'
    BY <1>5, <1>6, OthersKeep DEF ServerInv
  <1>11. Collected'
    BY <1>1, <1>4, <1>5, <1>6, CollectedKept DEF ServerInv
  <1>12. CodeOfPipeline'
    BY <1>5 DEF CodeOfPipeline
  <1> QED BY <1>8, <1>9, <1>10, <1>11, <1>12 DEF ServerInv

LEMMA ForkFailsStep ==
    ASSUME ServerInv, ForkFails
    PROVE  ServerInv'
  <1>1. /\ shell.pc = "fork" /\ shell \in ServerType /\ N \in 1 .. CMD_MAX
        /\ shell.i \in Positions /\ shell.i <= N /\ shell.forked = shell.i - 1
        /\ PipesMade /\ ChildrenOK(Statuses)
    BY ServerTypes DEF ServerInv, Stage, ForkFails, ServerType
  <1>2. /\ shell' = [shell EXCEPT !.pc = "eof", !.cmd_rc = ERR_RDSH_CMD_EXEC]
        /\ UNCHANGED <<proc, pipe, out, client>>
    BY DEF ForkFails
  <1>3. /\ shell' \in ServerType /\ shell'.pc = "eof" /\ shell'.cmds = shell.cmds
        /\ shell'.pipes = shell.pipes /\ shell'.st = shell.st
        /\ shell'.forked = shell.forked
    BY <1>1, <1>2 DEF ServerType
  <1>4. N' = N /\ PipesMade' = PipesMade
    BY <1>3, LineKept
  <1>5. shell.forked < N
    BY <1>1, SizeAssumption DEF Positions
  <1>6. TypeOK'
    BY <1>1, <1>2, <1>3, <1>4 DEF TypeOK, ServerType, ServerInv, ChildrenOK
  <1>7. Stage'
    BY <1>1, <1>2, <1>3, <1>4, <1>5 DEF Stage, AllForked, ServerInv
  <1>8. Family(EXIT_FAILURE)'
    <2>1. 0 \notin Positions
      BY DEF Positions
    <2> QED BY <1>2, <1>3, <2>1, OthersKeep DEF ServerInv
  <1>9. Collected'
    BY <1>2, <1>3, CollectedKept DEF ServerInv
  <1>10. CodeOfPipeline'
    BY <1>1, <1>3, <1>4, <1>5, SizeAssumption DEF CodeOfPipeline, AllForked, Positions
  <1> QED BY <1>6, <1>7, <1>8, <1>9, <1>10 DEF ServerInv

LEMMA CloseStep ==
    ASSUME ServerInv, Close
    PROVE  ServerInv'
  <1>1. /\ shell.pc = "close" /\ shell \in ServerType /\ N \in 1 .. CMD_MAX
        /\ AllForked /\ shell.i = 1 /\ shell.st = <<>> /\ shell.ends \subseteq LineEnds
        /\ PipesMade /\ ChildrenOK(Statuses)
    BY ServerTypes DEF ServerInv, Stage, Close, ServerType
  <1>2. /\ shell' = [shell EXCEPT !.pc = "wait", !.ends = {}]
        /\ UNCHANGED <<proc, pipe, out, client>>
    <2>1. shell.ends \ Unneeded = {}
      BY <1>1 DEF Unneeded
    <2> QED BY <1>1, <2>1 DEF Close
  <1>3. /\ shell' \in ServerType /\ shell'.pc = "wait" /\ shell'.cmds = shell.cmds
        /\ shell'.pipes = shell.pipes /\ shell'.st = <<>> /\ shell'.i = 1
        /\ shell'.forked = shell.forked /\ shell'.ends = {}
    BY <1>1, <1>2 DEF ServerType
  <1>4. N' = N /\ PipesMade' = PipesMade
    BY <1>3, LineKept
  <1>5. TypeOK'
    BY <1>1, <1>2, <1>3, <1>4 DEF TypeOK, ServerType, ServerInv, ChildrenOK
  <1>6. Stage'
    <2>1. \A j \in Positions : ~(j < 1)
      BY SizeAssumption DEF Positions
    <2>2. \A j \in Positions : j > shell'.forked => proc'[j].pc = "none"
      BY <1>2, <1>3 DEF ServerInv, Stage
    <2> QED BY <1>1, <1>3, <1>4, <2>1, <2>2 DEF Stage, AllForked
  <1>7. Family(EXIT_FAILURE)'
    <2>1. 0 \notin Positions
      BY DEF Positions
    <2> QED BY <1>2, <1>3, <2>1, OthersKeep DEF ServerInv
  <1>8. Collected'
    BY <1>1, <1>2, <1>3, CollectedKept DEF ServerInv
  <1>9. CodeOfPipeline'
    BY <1>3 DEF CodeOfPipeline
  <1> QED BY <1>5, <1>6, <1>7, <1>8, <1>9 DEF ServerInv

\* The status that is waited for goes with those that have been collected.
LEMMA WaitCollects ==
    ASSUME ServerInv, Wait
    PROVE  LET st == Append(shell.st, proc[shell.i].status) IN
           /\ st \in Seq(Statuses) /\ Len(st) = shell.i
           /\ \A j \in 1 .. Len(st) :
                 /\ st[j] \in {Exited(ExitArg(shell.cmds[j], EXIT_FAILURE)), SIGPIPE}
                 /\ shell.cmds[j] = "quit" => st[j] = Exited(EXIT_SC)
                 /\ client = "here" /\ j = N =>
                      st[j] = Exited(ExitArg(shell.cmds[j], EXIT_FAILURE))
  <1> DEFINE n      == shell.i
             status == proc[n].status
             st     == Append(shell.st, status)
  <1>1. /\ shell.pc = "wait" /\ shell \in ServerType /\ n \in Positions
        /\ Len(shell.st) = n - 1 /\ proc[n].pc = "zombie"
        /\ proc \in [Positions -> ChildType(Statuses)]
    BY ServerTypes DEF ServerInv, Stage, Wait, Awaited, ServerType
  <1>2. n \in Nat /\ shell.st \in Seq(Statuses) /\ status \in Statuses
    BY <1>1 DEF Positions, ServerType, ChildType
  <1>3. /\ status \in {Exited(ExitArg(shell.cmds[n], EXIT_FAILURE)), SIGPIPE}
        /\ shell.cmds[n] = "quit" => status = Exited(EXIT_SC)
    BY <1>1 DEF ServerInv, Family, Ended
  <1>4. client = "here" /\ n = N =>
           status = Exited(ExitArg(shell.cmds[n], EXIT_FAILURE))
    BY <1>1 DEF ServerInv, Collected
  <1> HIDE DEF status
  <1>5. /\ st \in Seq(Statuses) /\ Len(st) = n /\ st[n] = status
        /\ \A j \in 1 .. n - 1 : st[j] = shell.st[j]
    BY <1>1, <1>2
  <1>6. ASSUME NEW j \in 1 .. Len(st)
        PROVE  /\ st[j] \in {Exited(ExitArg(shell.cmds[j], EXIT_FAILURE)), SIGPIPE}
               /\ shell.cmds[j] = "quit" => st[j] = Exited(EXIT_SC)
               /\ client = "here" /\ j = N =>
                     st[j] = Exited(ExitArg(shell.cmds[j], EXIT_FAILURE))
    <2>1. CASE j = n
      BY <1>3, <1>4, <1>5, <2>1
    <2>2. CASE j # n
      <3>1. j \in 1 .. n - 1 /\ j \in 1 .. Len(shell.st) /\ st[j] = shell.st[j]
        BY <1>1, <1>2, <1>5, <2>2
      <3> HIDE DEF st
      <3> QED BY <3>1 DEF ServerInv, Collected
    <2> QED BY <2>1, <2>2
  <1> QED BY <1>5, <1>6 DEF status

LEMMA WaitStep ==
    ASSUME ServerInv, Wait
    PROVE  ServerInv'
  <1> DEFINE n  == shell.i
             st == Append(shell.st, proc[n].status)
  <1>1. /\ shell.pc = "wait" /\ shell \in ServerType /\ N \in 1 .. CMD_MAX
        /\ n \in Positions /\ n <= N /\ AllForked /\ shell.ends = {}
        /\ shell.cmds \in Seq(AllCmds) /\ shell.cmds # <<>>
        /\ \A j \in Positions : j < n => proc[j].pc = "none"
        /\ \A j \in Positions : j > shell.forked => proc[j].pc = "none"
        /\ PipesMade /\ ChildrenOK(Statuses)
        /\ proc \in [Positions -> ChildType(Statuses)]
    BY ServerTypes DEF ServerInv, Stage, Wait, ServerType, N
  <1>2. /\ n \in Nat /\ N \in Nat /\ 1 \in Positions
        /\ n < N => n + 1 \in Positions /\ n + 1 <= N
    BY <1>1, SizeAssumption DEF Positions
  <1>3. /\ st \in Seq(Statuses) /\ Len(st) = n
        /\ \A j \in 1 .. Len(st) :
              /\ st[j] \in {Exited(ExitArg(shell.cmds[j], EXIT_FAILURE)), SIGPIPE}
              /\ shell.cmds[j] = "quit" => st[j] = Exited(EXIT_SC)
              /\ client = "here" /\ j = N =>
                    st[j] = Exited(ExitArg(shell.cmds[j], EXIT_FAILURE))
    BY WaitCollects
  <1>4. /\ shell' = IF n < N
                    THEN [shell EXCEPT !.st = st, !.i = n + 1]
                    ELSE [shell EXCEPT !.st = st, !.i = 1, !.pc = "eof",
                                       !.cmd_rc = ExitCode(st)]
        /\ proc' = [proc EXCEPT ![n] = Nobody]
        /\ UNCHANGED <<pipe, out, client>>
    BY <1>1 DEF Wait, Awaited, Reaped
  <1> HIDE DEF st
  <1>5. n = N => /\ ExitCode(st) \in 0 .. 255
                 /\ client = "here" =>
                      ExitCode(st) = IF Contains(shell.cmds, "quit") THEN EXIT_SC
                                     ELSE ExitArg(Last(shell.cmds), EXIT_FAILURE)
    <2> SUFFICES ASSUME n = N
                 PROVE  /\ ExitCode(st) \in 0 .. 255
                        /\ client = "here" =>
                             ExitCode(st) = IF Contains(shell.cmds, "quit") THEN EXIT_SC
                                            ELSE ExitArg(Last(shell.cmds), EXIT_FAILURE)
      OBVIOUS
    <2>1. Len(st) = Len(shell.cmds) /\ N = Len(shell.cmds) /\ N \in 1 .. Len(st)
      BY <1>1, <1>3 DEF N
    <2>2. /\ ExitCode(st) \in 0 .. 255
          /\ st[Len(st)] = Exited(ExitArg(shell.cmds[Len(shell.cmds)],
                                         EXIT_FAILURE)) =>
                ExitCode(st) = IF Contains(shell.cmds, "quit") THEN EXIT_SC
                               ELSE ExitArg(Last(shell.cmds), EXIT_FAILURE)
      <3>1. \A j \in 1 .. Len(st) :
              /\ st[j] \in {Exited(ExitArg(shell.cmds[j], EXIT_FAILURE)), SIGPIPE}
              /\ shell.cmds[j] = "quit" => st[j] = Exited(EXIT_SC)
        BY <1>3
      <3>2. Len(st) = Len(shell.cmds) /\ st \in Seq(Statuses)
        BY <1>3, <2>1
      <3> QED BY <1>1, <3>1, <3>2, ExitCodeIsCode
    <2>3. client = "here" =>
             st[Len(st)] = Exited(ExitArg(shell.cmds[Len(shell.cmds)],
                                          EXIT_FAILURE))
      BY <1>3, <2>1
    <2> QED BY <2>2, <2>3
  <1>6. /\ shell' \in ServerType /\ shell'.cmds = shell.cmds
        /\ shell'.pipes = shell.pipes /\ shell'.st = st
        /\ shell'.forked = shell.forked /\ shell'.ends = {}
    <2>1. CASE n < N
      BY <1>1, <1>2, <1>3, <1>4, <2>1, ZenonT(40) DEF ServerType
    <2>2. CASE n = N
      BY <1>1, <1>2, <1>3, <1>4, <1>5, <2>2, ZenonT(40) DEF ServerType
    <2> QED BY <1>1, <1>2, <2>1, <2>2
  <1>7. n < N => shell'.pc = "wait" /\ shell'.i = n + 1
    BY <1>1, <1>4 DEF ServerType
  <1>8. n = N => shell'.pc = "eof" /\ shell'.cmd_rc = ExitCode(st)
    BY <1>1, <1>2, <1>4 DEF ServerType
  <1>9. N' = N /\ PipesMade' = PipesMade
    BY <1>6, LineKept
  <1>10. /\ proc' \in [Positions -> ChildType(Statuses)] /\ proc'[n].pc = "none"
         /\ \A j \in Positions \ {n} : proc'[j] = proc[j]
    <2>1. Nobody \in ChildType(Statuses) /\ Nobody.pc = "none"
      BY StatusValues DEF Nobody, ChildType
    <2> QED BY <1>1, <1>4, <2>1
  <1>11. TypeOK'
    <2>1. ChildrenOK(Statuses)'
      BY <1>1, <1>4, <1>10 DEF ChildrenOK, ChildType
    <2> QED BY <1>1, <1>3, <1>4, <1>6, <1>9, <2>1 DEF TypeOK, ServerType, ServerInv
  <1>12. Stage'
    <2>1. \A j \in Positions : j <= n => proc'[j].pc = "none"
      BY <1>1, <1>10 DEF Positions
    <2>2. \A j \in Positions : j > shell'.forked => proc'[j].pc = "none"
      BY <1>1, <1>6, <1>10
    <2>3. CASE n < N
      <3>1. \A j \in Positions : j < n + 1 => proc'[j].pc = "none"
        BY <1>2, <2>1 DEF Positions
      <3> QED BY <1>1, <1>2, <1>3, <1>6, <1>7, <1>9, <2>2, <2>3, <3>1 DEF Stage, AllForked
    <2>4. CASE n = N
      <3>1. NoChildren'
        BY <1>1, <1>2, <1>6, <2>1, <2>2, <2>4 DEF NoChildren, AllForked, Positions
      <3> QED BY <1>1, <1>6, <1>8, <1>9, <2>2, <2>4, <3>1 DEF Stage, AllForked
    <2> QED BY <1>1, <1>2, <2>3, <2>4
  <1>13. Family(EXIT_FAILURE)'
    BY <1>6, <1>10, OthersKeep DEF ServerInv
  <1>14. Collected'
    <2>1. \A j \in Positions : client = "here" /\ j = N /\ proc'[j].pc = "zombie" =>
             proc'[j].status = Exited(ExitArg(shell.cmds[j], EXIT_FAILURE))
      BY <1>10 DEF ServerInv, Collected
    <2> QED BY <1>3, <1>4, <1>6, <1>9, <2>1 DEF Collected
  <1>15. CodeOfPipeline'
    <2>1. CASE n < N
      BY <1>7, <2>1 DEF CodeOfPipeline
    <2>2. CASE n = N
      BY <1>4, <1>5, <1>6, <1>8, <2>2 DEF CodeOfPipeline
    <2> QED BY <1>1, <1>2, <2>1, <2>2
  <1> QED BY <1>11, <1>12, <1>13, <1>14, <1>15 DEF ServerInv

LEMMA SendEofStep ==
    ASSUME ServerInv, SendEof
    PROVE  ServerInv'
  <1>1. /\ shell.pc = "eof" /\ shell \in ServerType /\ N \in 1 .. CMD_MAX
        /\ IF AllForked THEN NoChildren /\ shell.ends = {} ELSE shell.forked < N
        /\ PipesMade /\ ChildrenOK(Statuses)
    BY ServerTypes DEF ServerInv, Stage, SendEof, ServerType
  <1>2. /\ shell' = [shell EXCEPT !.pc = IF AllForked THEN "recv" ELSE "end"]
        /\ UNCHANGED <<proc, pipe, out, client>>
    BY DEF SendEof
  <1>3. /\ shell' \in ServerType /\ shell'.pc = IF AllForked THEN "recv" ELSE "end"
        /\ shell'.cmds = shell.cmds /\ shell'.pipes = shell.pipes
        /\ shell'.st = shell.st /\ shell'.forked = shell.forked
        /\ shell'.ends = shell.ends
    <2> DEFINE pc == IF AllForked THEN "recv" ELSE "end"
    <2>1. pc \in {"recv", "end"} /\ shell' = [shell EXCEPT !.pc = pc]
      BY <1>2
    <2> HIDE DEF pc
    <2>2. shell' \in ServerType
      BY <1>1, <2>1 DEF ServerType
    <2>3. /\ shell'.pc = pc
          /\ shell'.cmds = shell.cmds /\ shell'.pipes = shell.pipes
          /\ shell'.st = shell.st /\ shell'.forked = shell.forked
          /\ shell'.ends = shell.ends
      BY <1>1, <2>1 DEF ServerType
    <2> QED BY <2>2, <2>3 DEF pc
  <1>4. N' = N /\ PipesMade' = PipesMade
    BY <1>3, LineKept
  <1>5. TypeOK'
    <2>1. ChildrenOK(Statuses)'
      BY <1>1, <1>2 DEF ChildrenOK
    <2>2. N' <= CMD_MAX /\ Len(shell'.st) <= N' /\ client' \in {"here", "gone", "reset"}
      BY <1>2, <1>3, <1>4 DEF TypeOK, ServerInv
    <2> QED BY <1>3, <2>1, <2>2 DEF TypeOK, ServerType
  <1>6. Stage'
    <2>1. \A j \in Positions : j > shell'.forked => proc'[j].pc = "none"
      BY <1>2, <1>3 DEF ServerInv, Stage
    <2>2. NoChildren' = NoChildren
      BY <1>2 DEF NoChildren
    <2> QED BY <1>1, <1>3, <1>4, <2>1, <2>2 DEF Stage
  <1>7. Family(EXIT_FAILURE)'
    <2>1. 0 \notin Positions
      BY DEF Positions
    <2> QED BY <1>2, <1>3, <2>1, OthersKeep DEF ServerInv
  <1>8. Collected'
    BY <1>2, <1>3, CollectedKept DEF ServerInv
  <1>9. CodeOfPipeline'
    BY <1>3 DEF CodeOfPipeline
  <1> QED BY <1>5, <1>6, <1>7, <1>8, <1>9 DEF ServerInv
----------------------------------------------------------------------------
(* Steps of the programs and of the client. *)

\* A program's step does not move the server on.
LEMMA StageKept ==
    ASSUME TypeOK, Stage, NEW i \in Positions, proc[i].pc # "none", shell' = shell,
           \A j \in Positions \ {i} : proc'[j] = proc[j]
    PROVE  Stage' /\ CodeOfPipeline'
  <1>1. /\ shell.pc \notin {"recv", "pipe"} /\ i \in 1 .. N
        /\ shell.pc = "eof" => ~AllForked
    BY ChildOfLine
  <1>2. N' = N /\ LineEnds' = LineEnds /\ PipesMade' = PipesMade
    BY LineKept
  <1>3. AllForked' = AllForked
    BY <1>2 DEF AllForked
  <1>4. \A j \in Positions : proc[j].pc = "none" => proc'[j].pc = "none"
    OBVIOUS
  <1>5. Stage'
    BY <1>1, <1>2, <1>3, <1>4 DEF Stage
  <1>6. CodeOfPipeline'
    BY <1>1, <1>3 DEF CodeOfPipeline
  <1> QED BY <1>5, <1>6

LEMMA WriteSocketStep ==
    ASSUME ServerInv, NEW i \in Positions, WriteSocket(i)
    PROVE  ServerInv'
  <1> DEFINE todo == Tail(proc[i].todo)
  <1>1. /\ proc[i].pc = "running" /\ proc[i].todo \in Seq(Tokens) /\ proc[i].todo # <<>>
        /\ proc[i].wants \in {"none", "one", "all"}
        /\ proc \in [Positions -> ChildType(Statuses)]
        /\ ChildrenOK(Statuses) /\ shell \in ServerType
    BY ServerTypes DEF ServerInv, WriteSocket, Writing, Running, ChildType
  <1>2. i \in 1 .. N /\ LineShape /\ PipesMade
    BY <1>1, ChildOfLine DEF ServerInv
  <1>3. Connected(i) /\ shell.cmds[i] # "quit"
    BY <1>1 DEF ServerInv, Family, Connected
  <1>4. /\ UNCHANGED <<shell, pipe>> /\ client # "reset"
        /\ client' \in (IF client = "here" THEN {"here"} ELSE {"gone", "reset"})
    BY DEF WriteSocket
  <1>5. client' \in {"here", "gone", "reset"} /\ (client' = "here" => client = "here")
    BY <1>4
  <1>6. Head(proc[i].todo) \in Tokens /\ todo \in Seq(Tokens)
    BY <1>1
  <1>7. out' \in Seq(Tokens)
    <2> DEFINE token == Head(proc[i].todo)
    <2>1. out' = IF client = "here" THEN Append(out, token) ELSE out
      BY DEF WriteSocket
    <2>2. token \in Tokens /\ out \in Seq(Tokens)
      BY <1>1, <1>6 DEF ChildrenOK
    <2> HIDE DEF token
    <2> QED BY <2>1, <2>2
  <1>8. proc' = [proc EXCEPT ![i].todo = todo, ![i].wants = proc[i].wants]
    <2>1. proc' = [proc EXCEPT ![i].todo = todo]
      BY DEF WriteSocket
    <2> QED BY <1>1, <2>1 DEF ChildType
  <1> HIDE DEF todo
  <1>9. /\ proc' \in [Positions -> ChildType(Statuses)]
        /\ proc'[i].pc = "running" /\ Connected(i)'
        /\ \A j \in Positions \ {i} : proc'[j] = proc[j]
    BY <1>1, <1>3, <1>4, <1>6, <1>8, StillConnected
  <1>10. TypeOK'
    <2>1. ChildrenOK(Statuses)'
      BY <1>1, <1>4, <1>7, <1>9 DEF ChildrenOK, ChildType
    <2> QED BY <1>4, <1>5, <2>1 DEF ServerInv, TypeOK, N
  <1>11. Stage' /\ CodeOfPipeline'
    BY <1>1, <1>4, <1>9, StageKept DEF ServerInv
  <1>12. Family(EXIT_FAILURE)'
    BY <1>4, <1>9, OthersKeep DEF ServerInv
  <1>13. Collected'
    BY <1>4, <1>5, <1>9, CollectedKept DEF ServerInv
  <1> QED BY <1>10, <1>11, <1>12, <1>13 DEF ServerInv

LEMMA SocketSigpipeStep ==
    ASSUME ServerInv, NEW i \in Positions, SocketSigpipe(i)
    PROVE  ServerInv'
  <1>1. /\ proc[i].pc = "running" /\ proc[i].todo # <<>> /\ client = "reset"
        /\ Die(i, SIGPIPE) /\ UNCHANGED <<shell, client>> /\ ChildrenOK(Statuses)
    BY ServerTypes DEF ServerInv, SocketSigpipe, Writing, Running, Die
  <1>2. Connected(i) /\ shell.cmds[i] # "quit"
    BY <1>1 DEF ServerInv, Family, Connected
  <1>3. /\ ChildrenOK(Statuses)' /\ proc'[i].pc = "zombie" /\ proc'[i].status = SIGPIPE
        /\ \A j \in Positions \ {i} : proc'[j] = proc[j]
    BY <1>1, StatusValues, DieTypes
  <1>4. TypeOK'
    BY <1>1, <1>3 DEF ServerInv, TypeOK, N
  <1>5. Stage' /\ CodeOfPipeline'
    BY <1>1, <1>3, StageKept DEF ServerInv
  <1>6. Family(EXIT_FAILURE)'
    <2>1. Ended(i, EXIT_FAILURE)'
      BY <1>1, <1>2, <1>3 DEF Ended
    <2> QED BY <1>1, <1>3, <2>1, OthersKeep DEF ServerInv
  <1>7. Collected'
    BY <1>1 DEF ServerInv, Collected, N
  <1> QED BY <1>4, <1>5, <1>6, <1>7 DEF ServerInv

LEMMA ProgramStep ==
    ASSUME ServerInv, NEW i \in Positions, NEW ended, UNCHANGED client,
           Child(i, Failure(i), EXIT_FAILURE, ended)
    PROVE  ServerInv'
  <1>1. proc[i].pc # "none" /\ ChildrenOK(Statuses)
    BY ServerTypes DEF ServerInv, Child, Exec, WritePipe, Sigpipe, ReadPipe, ReadEnd,
       ExitProg, Writing, Reading, Running
  <1>2. i \in 1 .. N /\ LineShape /\ PipesMade
    BY <1>1, ChildOfLine DEF ServerInv
  <1>3. Exited(ExitArg(shell.cmds[i], EXIT_FAILURE)) \in Statuses
    <2>1. shell.cmds[i] \in AllCmds
      BY <1>2 DEF LineShape, N
    <2> QED BY <2>1, ExitStatuses
  <1>4. /\ ChildrenOK(Statuses)' /\ Family(EXIT_FAILURE)' /\ UNCHANGED <<shell, out>>
        /\ \A j \in Positions \ {i} : proc'[j] = proc[j]
        /\ proc'[i].pc = "zombie" /\ i = N =>
              proc'[i].status = Exited(ExitArg(shell.cmds[i], EXIT_FAILURE))
    BY <1>1, <1>2, <1>3, FailureType, StatusValues, ChildSteps DEF ServerInv
  <1>5. TypeOK'
    BY <1>4 DEF ServerInv, TypeOK, N
  <1>6. Stage' /\ CodeOfPipeline'
    BY <1>1, <1>4, StageKept DEF ServerInv
  <1>7. Collected'
    <2>1. \A j \in Positions : client = "here" /\ j = N /\ proc'[j].pc = "zombie" =>
             proc'[j].status = Exited(ExitArg(shell.cmds[j], EXIT_FAILURE))
      BY <1>4 DEF ServerInv, Collected
    <2> QED BY <1>4, <2>1 DEF ServerInv, Collected, N
  <1> QED BY <1>4, <1>5, <1>6, <1>7 DEF ServerInv

LEMMA ClientLeavesStep ==
    ASSUME ServerInv, ClientLeaves
    PROVE  ServerInv'
  <1>1. client' = "gone" /\ UNCHANGED <<shell, proc, pipe, out>>
    BY DEF ClientLeaves, vars
  <1>2. TypeOK'
    BY <1>1 DEF ServerInv, TypeOK, ChildrenOK, N
  <1>3. Stage'
    BY <1>1 DEF ServerInv, Stage, NoChildren, AllForked, PipesMade, LineEnds, N
  <1>4. Family(EXIT_FAILURE)'
    BY <1>1 DEF ServerInv, Family, Connected, Ended, Stdin, Stdout, N
  <1>5. Collected' /\ CodeOfPipeline'
    BY <1>1 DEF ServerInv, Collected, CodeOfPipeline, N
  <1> QED BY <1>2, <1>3, <1>4, <1>5 DEF ServerInv

LEMMA Stuttering ==
    ASSUME ServerInv, UNCHANGED rvars
    PROVE  ServerInv'
  <1>1. UNCHANGED <<shell, proc, pipe, out, client>>
    BY DEF rvars, vars
  <1>2. TypeOK'
    BY <1>1 DEF ServerInv, TypeOK, ChildrenOK, N
  <1>3. Stage'
    BY <1>1 DEF ServerInv, Stage, NoChildren, AllForked, PipesMade, LineEnds, N
  <1>4. Family(EXIT_FAILURE)'
    BY <1>1 DEF ServerInv, Family, Connected, Ended, Stdin, Stdout, N
  <1>5. Collected' /\ CodeOfPipeline'
    BY <1>1 DEF ServerInv, Collected, CodeOfPipeline, AllForked, N
  <1> QED BY <1>2, <1>3, <1>4, <1>5 DEF ServerInv
----------------------------------------------------------------------------
LEMMA ServerInvStep == ServerInv /\ [Next]_rvars => ServerInv'
  <1> SUFFICES ASSUME ServerInv, [Next]_rvars
               PROVE  ServerInv'
    OBVIOUS
  <1>1. CASE \E cmds \in Requests : Request(cmds)
    BY <1>1, RequestStep
  <1>2. CASE ServerStep
    BY <1>2, PipesStep, ForkStep, ForkFailsStep, CloseStep, WaitStep, SendEofStep
       DEF ServerStep
  <1>3. CASE \E i \in Positions : ChildStep(i)
    <2> PICK i \in Positions : ChildStep(i)
      BY <1>3
    <2>1. CASE WriteSocket(i)
      BY <2>1, WriteSocketStep
    <2>2. CASE SocketSigpipe(i)
      BY <2>2, SocketSigpipeStep
    <2>3. CASE Child(i, Failure(i), EXIT_FAILURE, client # "here") /\ UNCHANGED client
      <3> DEFINE ended == client # "here"
      <3>1. Child(i, Failure(i), EXIT_FAILURE, ended) /\ UNCHANGED client
        BY <2>3
      <3> HIDE DEF ended
      <3> QED BY <3>1, ProgramStep
    <2> QED BY <2>1, <2>2, <2>3 DEF ChildStep
  <1>4. CASE ClientLeaves
    BY <1>4, ClientLeavesStep
  <1>5. CASE UNCHANGED rvars
    BY <1>5, Stuttering
  <1> QED BY <1>1, <1>2, <1>3, <1>4, <1>5 DEF Next

LEMMA ServerInvariant == Spec => []ServerInv
  <1> QED BY ServerInitially, ServerInvStep, PTL DEF Spec

\* What rsh_execute_pipeline() keeps of its children and the values it returns
\* are what its callers take them for: at most CMD_MAX children, statuses of
\* programs that ended, and a code of one byte or ERR_RDSH_CMD_EXEC.
THEOREM TypeCorrect == Spec => []TypeOK
  <1>1. ServerInv => TypeOK
    BY DEF ServerInv
  <1> QED BY <1>1, ServerInvariant, PTL

\* The EOF character that send_message_eof() sends after a pipeline whose
\* programs were all forked comes when none of them is left: the server has
\* waited for every one, in whatever order they ended, and has no pipe end open.
THEOREM EofComesLast == Spec => []EofIsLast
  <1>1. ServerInv => EofIsLast
    BY DEF ServerInv, Stage, EofIsLast, NoChildren
  <1> QED BY <1>1, ServerInvariant, PTL

\* The code that rsh_execute_pipeline() returns is EXIT_SC if a program of the
\* pipeline exits with it, and the last program's otherwise, whichever of the
\* programs SIGPIPE cuts short: the client stays, and fork() does not fail.
THEOREM CodeIsOfPipeline == Spec => []CodeOfPipeline
  <1>1. ServerInv => CodeOfPipeline
    BY DEF ServerInv
  <1> QED BY <1>1, ServerInvariant, PTL
----------------------------------------------------------------------------
(* What a client is sent, when the server has nothing of its own in its    *)
(* stdio buffer.                                                           *)

Complaint == <<"error">>

\* The programs of the pipeline are at work.
AtWork == shell.pc \in {"fork", "close", "wait"}

\* The server has the pipe ends, the programs have theirs, and what the client
\* has been sent and what is to come add up to the composition.
ReplyInv ==
    /\ shell.pc \in {"fork", "close"} => LineEnds \subseteq shell.ends
    /\ AtWork /\ client = "here" => HoldsEnds /\ Delivers(Complaint)
    /\ shell.pc = "pipe" => out = <<>>
    /\ ReplyIsComposition

LEMMA ComplaintType == Complaint \in Seq(Tokens)
  BY DEF Complaint, Tokens

LEMMA NowWorking ==
    ASSUME ServerInv, ReplyInv, AtWork, client = "here"
    PROVE  Working(Statuses, EXIT_FAILURE)
  <1>1. /\ shell \in ServerType /\ N \in 1 .. CMD_MAX /\ PipesMade
        /\ ChildrenOK(Statuses) /\ HoldsEnds
    BY ServerTypes DEF ServerInv, Stage, AtWork, ReplyInv
  <1>2. LineShape
    BY <1>1 DEF LineShape, ServerType
  <1>3. shell.forked \in 0 .. N
    BY <1>1, SizeAssumption DEF ServerInv, Stage, AtWork, AllForked, ServerType, Positions
  <1>4. ASSUME shell.pc \in {"fork", "close"}
        PROVE  KeepsEnds
    <2>1. ASSUME NEW k \in 1 .. N - 1
          PROVE  <<shell.pipes[k], "r">> \in shell.ends /\ <<shell.pipes[k], "w">> \in shell.ends
      <3>1. shell.pipes[k] \in Range(shell.pipes)
        BY <1>1 DEF PipesMade, Injection, Range
      <3>2. Ends(shell.pipes[k]) \subseteq shell.ends
        BY <1>4, <3>1 DEF ReplyInv, LineEnds
      <3> QED BY <3>2 DEF Ends
    <2> QED BY <2>1 DEF KeepsEnds
  <1> QED BY <1>1, <1>2, <1>3, <1>4 DEF Working, AtWork, ServerInv, Stage

LEMMA ReplyOfRequest ==
    ASSUME ServerInv, NEW cmds \in Requests, Request(cmds)
    PROVE  ReplyInv'
  <1>1. shell \in ServerType
    BY ServerTypes DEF ServerInv
  <1>2. shell'.pc = "pipe" /\ out' = <<>>
    BY <1>1 DEF Request, ServerType
  <1> QED BY <1>2 DEF ReplyInv, AtWork, ReplyIsComposition

LEMMA ReplyOfPipes ==
    ASSUME ServerInv, ReplyInv, Pipes
    PROVE  ReplyInv'
  <1> DEFINE new  == CHOOSE pipes \in NewPipes : TRUE
             ends == shell.ends \cup UNION {Ends(k) : k \in Range(new)}
  <1>1. /\ shell.pc = "pipe" /\ NoChildren /\ shell \in ServerType
        /\ shell.forked = 0 /\ N \in 1 .. CMD_MAX /\ out = <<>>
    BY ServerTypes DEF ServerInv, Stage, Pipes, MakePipes, ReplyInv
  <1>2. new \in NewPipes
    BY DEF Pipes, MakePipes
  <1>3. /\ shell' = [shell EXCEPT !.pc = "fork", !.pipes = new, !.ends = ends]
        /\ pipe' = [k \in PipeIds |-> IF k \in Range(new) THEN <<>> ELSE pipe[k]]
        /\ UNCHANGED <<proc, out>>
    BY <1>1 DEF Pipes, MakePipes, ServerType
  <1> HIDE DEF new
  <1>4. new \in Injection(1 .. N - 1, PipeIds)
    BY <1>1, <1>2, NewPipesType
  <1>5. UNION {Ends(k) : k \in Range(new)} \subseteq ends
    OBVIOUS
  <1> HIDE DEF ends
  <1>6. /\ shell'.pc = "fork" /\ shell'.cmds = shell.cmds /\ shell'.forked = 0
        /\ shell'.pipes = new /\ shell'.ends = ends
    BY <1>1, <1>3 DEF ServerType
  <1>7. LineEnds' \subseteq shell'.ends
    BY <1>5, <1>6 DEF LineEnds
  <1>8. HoldsEnds'
    BY <1>1, <1>3 DEF HoldsEnds, Live, NoChildren
  <1>9. Delivers(Complaint)'
    <2>1. LineShape
      BY <1>1 DEF LineShape, ServerType
    <2>2. PICK complaint \in Seq(Tokens) : complaint = Complaint
      BY ComplaintType
    <2>3. Delivers(complaint)'
      BY <1>1, <1>3, <1>4, <1>6, <2>1, PipesDeliver
    <2> QED BY <2>2, <2>3
  <1> QED BY <1>6, <1>7, <1>8, <1>9 DEF ReplyInv, ReplyIsComposition

LEMMA ReplyOfFork ==
    ASSUME ServerInv, ReplyInv, Fork
    PROVE  ReplyInv'
  <1>0. PICK n \in Positions : n = shell.i
    BY ServerTypes DEF ServerInv, ServerType
  <1> DEFINE child == [Nobody EXCEPT !.pc = "forked", !.ends = shell.ends]
             pc == IF n = N THEN "close" ELSE "fork"
             i  == IF n = N THEN 1 ELSE n + 1
  <1>1. /\ shell.pc = "fork" /\ shell \in ServerType /\ N \in 1 .. CMD_MAX
        /\ n \in 1 .. N /\ n \in Nat /\ shell.forked = n - 1
        /\ proc \in [Positions -> ChildType(Statuses)] /\ AtWork
        /\ LineEnds \subseteq shell.ends
        /\ \A j \in Positions : j > shell.forked => proc[j].pc = "none"
    BY <1>0, ServerTypes DEF ServerInv, Stage, Fork, ServerType, AtWork, ReplyInv, Positions
  <1>2. /\ proc' = [proc EXCEPT ![n] = child] /\ UNCHANGED <<pipe, out, client>>
        /\ shell' = [shell EXCEPT !.forked = n, !.pc = pc, !.i = i]
    BY <1>0, <1>1 DEF Fork, Forked
  <1>3. child.pc = "forked" /\ child.ends = shell.ends
    BY DEF Nobody
  <1>4. pc \in {"close", "fork"}
    OBVIOUS
  <1> HIDE DEF child, pc, i
  <1>5. /\ shell'.cmds = shell.cmds /\ shell'.pipes = shell.pipes
        /\ shell'.ends = shell.ends /\ shell'.forked = n /\ shell'.pc = pc
    BY <1>1, <1>2 DEF ServerType
  <1>6. /\ proc'[n].pc = "forked" /\ proc'[n].ends = shell.ends
        /\ \A j \in Positions \ {n} : proc'[j] = proc[j]
    BY <1>0, <1>1, <1>2, <1>3
  <1>7. LineEnds' \subseteq shell'.ends
    BY <1>1, <1>5 DEF LineEnds
  <1>8. ASSUME client = "here"
        PROVE  HoldsEnds' /\ Delivers(Complaint)'
    <2>1. ~AllForked
      BY <1>1 DEF AllForked
    <2>2. /\ Working(Statuses, EXIT_FAILURE) /\ LineShape /\ KeepsEnds
          /\ HoldsEnds /\ Delivers(Complaint)
      BY <1>1, <1>8, <2>1, NowWorking DEF Working, ReplyInv
    <2>3. HoldsEnds'
      BY <1>1, <1>5, <1>6, <2>2, ForkHolds
    <2>4. ASSUME NEW j \in 1 .. N
          PROVE  /\ NotExeced(j)' <=> NotExeced(j)
                 /\ Dead(j)' <=> Dead(j)
                 /\ proc[j].pc = "running" => proc'[j] = proc[j]
      <3>1. j \in Positions
        BY <1>1, SizeAssumption DEF Positions
      <3>2. CASE j = n
        BY <1>1, <1>5, <1>6, <3>1, <3>2 DEF NotExeced, Dead
      <3>3. CASE j # n
        <4>1. j > n <=> j > n - 1
          BY <1>1, <3>3
        <4> QED BY <1>1, <1>5, <1>6, <3>1, <3>3, <4>1 DEF NotExeced, Dead
      <3> QED BY <3>2, <3>3
    <2>5. Delivers(Complaint)'
      <3>1. PICK complaint : complaint = Complaint
        OBVIOUS
      <3>2. Delivers(complaint)'
        BY <1>2, <1>5, <2>2, <2>4, <3>1, StillDelivers
      <3> QED BY <3>1, <3>2
    <2> QED BY <2>3, <2>5
  <1> QED BY <1>2, <1>4, <1>5, <1>7, <1>8 DEF ReplyInv, ReplyIsComposition

LEMMA ReplyOfClose ==
    ASSUME ServerInv, ReplyInv, Close
    PROVE  ReplyInv'
  <1> DEFINE ends == shell.ends \ Unneeded
  <1>1. shell.pc = "close" /\ shell \in ServerType /\ AtWork
    BY ServerTypes DEF ServerInv, Close, AtWork
  <1>2. /\ shell' = [shell EXCEPT !.pc = "wait", !.ends = ends]
        /\ UNCHANGED <<proc, pipe, out, client>>
    BY <1>1 DEF Close
  <1> HIDE DEF ends
  <1>3. /\ shell'.cmds = shell.cmds /\ shell'.pipes = shell.pipes
        /\ shell'.forked = shell.forked /\ shell'.pc = "wait"
    BY <1>1, <1>2 DEF ServerType
  <1>4. HoldsEnds => HoldsEnds'
    BY <1>2, <1>3 DEF HoldsEnds, Live, N
  <1>5. Delivers(Complaint) => Delivers(Complaint)'
    <2>1. \A j : (NotExeced(j)' <=> NotExeced(j)) /\ (Dead(j)' <=> Dead(j))
      BY <1>2, <1>3 DEF NotExeced, Dead
    <2>2. PICK complaint : complaint = Complaint
      OBVIOUS
    <2>3. Delivers(complaint) => Delivers(complaint)'
      BY <1>2, <1>3, <2>1, StillDelivers
    <2> QED BY <2>2, <2>3
  <1> QED BY <1>1, <1>2, <1>3, <1>4, <1>5 DEF ReplyInv, ReplyIsComposition

LEMMA ReplyOfWait ==
    ASSUME ServerInv, ReplyInv, Wait
    PROVE  ReplyInv'
  <1>0. PICK n \in Positions : n = shell.i
    BY ServerTypes DEF ServerInv, ServerType
  <1>1. /\ shell.pc = "wait" /\ shell \in ServerType /\ N \in 1 .. CMD_MAX
        /\ AllForked /\ n \in 1 .. N /\ proc[n].pc = "zombie" /\ AtWork
        /\ proc \in [Positions -> ChildType(Statuses)] /\ out \in Seq(Tokens)
    BY <1>0, ServerTypes DEF ServerInv, Stage, Wait, Awaited, AtWork, ChildrenOK, Positions
  <1>2. PICK st, cmd_rc :
          /\ shell' = IF n < N THEN [shell EXCEPT !.st = st, !.i = n + 1]
                      ELSE [shell EXCEPT !.st = st, !.i = 1, !.pc = "eof",
                                         !.cmd_rc = cmd_rc]
          /\ proc' = [proc EXCEPT ![n] = Nobody]
          /\ UNCHANGED <<pipe, out, client>>
    BY <1>0, <1>1 DEF Wait, Awaited, Reaped
  <1>3. /\ shell'.cmds = shell.cmds /\ shell'.pipes = shell.pipes
        /\ shell'.forked = shell.forked
        /\ n < N => shell'.pc = "wait"
        /\ ~(n < N) => shell'.pc = "eof"
    BY <1>1, <1>2 DEF ServerType
  <1>4. proc'[n].pc = "none" /\ \A j \in Positions \ {n} : proc'[j] = proc[j]
    BY <1>0, <1>1, <1>2 DEF Nobody
  <1>5. N' = N /\ Composition' = Composition /\ Last(shell.cmds)' = Last(shell.cmds)
    BY <1>3 DEF N, Composition, Last
  <1> SUFFICES ASSUME client = "here"
               PROVE  /\ n < N => HoldsEnds' /\ Delivers(Complaint)'
                      /\ ~(n < N) => out = Composition \o
                            (IF Last(shell.cmds) \in NotFound THEN <<"error">> ELSE <<>>)
    BY <1>2, <1>3, <1>5 DEF ReplyInv, AtWork, ReplyIsComposition
  <1>6. HoldsEnds /\ Delivers(Complaint) /\ shell.forked = N
    BY <1>1 DEF ReplyInv, AllForked
  <1>7. HoldsEnds'
    <2> SUFFICES ASSUME NEW j \in Positions, proc'[j].pc \in {"forked", "running"}
                 PROVE  /\ j < N => <<shell.pipes[j], "w">> \in proc'[j].ends
                        /\ j > 1 => <<shell.pipes[j - 1], "r">> \in proc'[j].ends
      BY <1>3, <1>5 DEF HoldsEnds, Live
    <2>1. proc'[j] = proc[j]
      BY <1>4
    <2> QED BY <1>6, <2>1 DEF HoldsEnds, Live
  <1>8. Delivers(Complaint)'
    <2>1. ASSUME NEW j \in 1 .. N
          PROVE  /\ NotExeced(j)' <=> NotExeced(j)
                 /\ Dead(j)' <=> Dead(j)
                 /\ proc[j].pc = "running" => proc'[j] = proc[j]
      <3>1. j \in Positions /\ ~(j > shell.forked)
        BY <1>1, <1>6, SizeAssumption DEF Positions
      <3> QED BY <1>1, <1>3, <1>4, <3>1 DEF NotExeced, Dead
    <2>2. PICK complaint : complaint = Complaint
      OBVIOUS
    <2>3. Delivers(complaint)'
      BY <1>2, <1>3, <1>6, <2>1, <2>2, StillDelivers
    <2> QED BY <2>2, <2>3
  <1>9. ASSUME ~(n < N)
        PROVE  out = Composition \o
                     (IF Last(shell.cmds) \in NotFound THEN <<"error">> ELSE <<>>)
    <2>1. Dead(N) /\ N # 0 /\ N \in Nat
      BY <1>1, <1>6, <1>9 DEF Dead, NotExeced
    <2>2. out = Promised(Complaint)
      BY <1>1, <1>6, <2>1, AllDelivered
    <2> QED BY <2>1, <2>2 DEF Promised, Complaint, Last, N
  <1> QED BY <1>7, <1>8, <1>9

\* fork() fails: nothing is promised of what the client is sent.
LEMMA ReplyOfForkFails ==
    ASSUME ServerInv, ForkFails
    PROVE  ReplyInv'
  <1>1. /\ shell.pc = "fork" /\ shell \in ServerType /\ N \in Nat
        /\ shell.i <= N /\ shell.i \in Nat /\ shell.forked = shell.i - 1
    BY ServerTypes DEF ServerInv, Stage, ForkFails, ServerType, Positions
  <1>2. shell' = [shell EXCEPT !.pc = "eof", !.cmd_rc = ERR_RDSH_CMD_EXEC]
    BY DEF ForkFails
  <1>3. shell'.pc = "eof" /\ shell'.cmds = shell.cmds /\ shell'.forked = shell.forked
    BY <1>1, <1>2 DEF ServerType
  <1>4. ~AllForked'
    BY <1>1, <1>3 DEF AllForked, N
  <1> QED BY <1>3, <1>4 DEF ReplyInv, AtWork, ReplyIsComposition

LEMMA ReplyOfSendEof ==
    ASSUME ServerInv, SendEof
    PROVE  ReplyInv'
  <1>1. shell \in ServerType
    BY ServerTypes DEF ServerInv
  <1>2. shell'.pc \in {"recv", "end"}
    BY <1>1 DEF SendEof, ServerType
  <1> QED BY <1>2 DEF ReplyInv, AtWork, ReplyIsComposition

\* A child is one of those that were forked, while the server runs the line or
\* has given it up.
LEMMA ChildWasForked ==
    ASSUME ServerInv, NEW i \in Positions, proc[i].pc # "none"
    PROVE  /\ i \in 1 .. N /\ i <= shell.forked /\ LineShape /\ PipesMade
           /\ AtWork \/ (shell.pc \in {"eof", "end"} /\ ~AllForked)
  <1>1. /\ i \in 1 .. N /\ LineShape /\ PipesMade
        /\ shell.pc \notin {"recv", "pipe"}
        /\ shell.pc = "eof" => ~AllForked
    BY ChildOfLine DEF ServerInv
  <1>2. shell \in ServerType /\ N \in Nat
    BY ServerTypes DEF ServerInv
  <1>3. i <= shell.forked
    BY <1>2, SizeAssumption DEF ServerInv, Stage, Positions, ServerType
  <1>4. shell.pc = "end" => ~AllForked
    BY <1>2 DEF ServerInv, Stage, AllForked, ServerType
  <1> QED BY <1>1, <1>2, <1>3, <1>4 DEF AtWork, ServerType

\* A step that leaves the server alone, and after which the programs still
\* deliver what they have to if the client is there.
LEMMA ReplyKept ==
    ASSUME ReplyInv, shell' = shell, AtWork \/ out' = out,
           client' = "here" => client = "here",
           AtWork /\ client' = "here" => HoldsEnds' /\ Delivers(Complaint)'
    PROVE  ReplyInv'
  <1>1. /\ N' = N /\ LineEnds' = LineEnds /\ AtWork' = AtWork
        /\ AllForked' = AllForked /\ Composition' = Composition
    BY DEF N, LineEnds, AtWork, AllForked, Composition
  <1> QED BY <1>1 DEF ReplyInv, AtWork, ReplyIsComposition

\* Steps that change no program either.
LEMMA DeliveryKept ==
    ASSUME UNCHANGED <<shell, proc, pipe, out>>
    PROVE  /\ HoldsEnds => HoldsEnds'
           /\ Delivers(Complaint) => Delivers(Complaint)'
  <1>1. HoldsEnds => HoldsEnds'
    BY DEF HoldsEnds, Live, N
  <1>2. \A j : (NotExeced(j)' <=> NotExeced(j)) /\ (Dead(j)' <=> Dead(j))
    BY DEF NotExeced, Dead
  <1>3. PICK complaint : complaint = Complaint
    OBVIOUS
  <1>4. Delivers(complaint) => Delivers(complaint)'
    BY <1>2, StillDelivers
  <1> QED BY <1>1, <1>3, <1>4

LEMMA ReplyOfWriteSocket ==
    ASSUME ServerInv, ReplyInv, NEW i \in Positions, WriteSocket(i)
    PROVE  ReplyInv'
  <1>1. /\ Writing(i) /\ proc[i].pc = "running" /\ proc[i].out = Terminal
        /\ proc' = [proc EXCEPT ![i].todo = Tail(@)] /\ UNCHANGED <<shell, pipe>>
        /\ client' = "here" => client = "here"
        /\ client = "here" => out' = Append(out, Head(proc[i].todo))
        /\ client # "here" => out' = out
    BY DEF WriteSocket, Writing, Running
  <1>2. /\ i \in 1 .. N /\ i <= shell.forked /\ LineShape /\ PipesMade
        /\ AtWork \/ (shell.pc \in {"eof", "end"} /\ ~AllForked)
    BY <1>1, ChildWasForked
  <1>3. AtWork
    <2>1. Stdout(i) = Terminal
      BY <1>1 DEF ServerInv, Family, Connected
    <2>2. i = N
      BY <1>2, <2>1, StdTypes
    <2>3. N \in Nat /\ shell.forked \in Nat
      BY ServerTypes DEF ServerInv, ServerType
    <2>4. shell.pc \in {"eof", "end"} => ~AllForked /\ shell.forked < N
      BY <1>2 DEF ServerInv, Stage, AtWork
    <2> QED BY <1>2, <2>2, <2>3, <2>4
  <1>4. ASSUME client' = "here"
        PROVE  HoldsEnds' /\ Delivers(Complaint)'
    <2>1. Working(Statuses, EXIT_FAILURE) /\ Delivers(Complaint) /\ client = "here"
      BY <1>1, <1>3, <1>4, NowWorking DEF ReplyInv
    <2>2. PICK complaint \in Seq(Tokens) : complaint = Complaint
      BY ComplaintType
    <2>3. HoldsEnds' /\ Delivers(complaint)'
      BY <1>1, <1>2, <2>1, <2>2, PrintDelivers
    <2> QED BY <2>2, <2>3
  <1> QED BY <1>1, <1>3, <1>4, ReplyKept

LEMMA ReplyOfProgram ==
    ASSUME OnTerminal, ServerInv, ReplyInv, NEW i \in Positions, NEW ended,
           Child(i, Failure(i), EXIT_FAILURE, ended), UNCHANGED client
    PROVE  ReplyInv'
  <1>1. proc[i].pc # "none"
    BY DEF Child, Exec, WritePipe, Sigpipe, ReadPipe, ReadEnd, ExitProg, Writing,
           Reading, Running
  <1>2. i \in 1 .. N /\ i <= shell.forked
    BY <1>1, ChildWasForked
  <1>3. UNCHANGED <<shell, out>>
    BY DEF Child, Exec, WritePipe, Sigpipe, ReadPipe, ReadEnd, ExitProg, Die
  <1>4. PICK complaint \in Seq(Tokens) : complaint = Complaint
    BY ComplaintType
  <1>5. Failure(i) = Said(i, complaint)
    <2>1. <<"error">> \o <<>> = <<"error">> /\ <<>> \o <<>> = <<>>
      OBVIOUS
    <2> QED BY <1>4, <2>1 DEF Failure, Residue, Said, Complaint
  <1>6. ASSUME AtWork, client = "here"
        PROVE  HoldsEnds' /\ Delivers(Complaint)'
    <2>1. Working(Statuses, EXIT_FAILURE) /\ Delivers(complaint)
      BY <1>4, <1>6, NowWorking DEF ReplyInv
    <2>2. Child(i, Said(i, complaint), EXIT_FAILURE, ended)
      BY <1>5
    <2>3. HoldsEnds' /\ Delivers(complaint)'
      BY <1>2, <1>3, <2>1, <2>2, ChildDelivers
    <2> QED BY <1>4, <2>3
  <1> QED BY <1>3, <1>6, ReplyKept

LEMMA ReplyInvStep ==
    ASSUME OnTerminal
    PROVE  ServerInv /\ ReplyInv /\ [Next]_rvars => ReplyInv'
  <1> SUFFICES ASSUME ServerInv, ReplyInv, [Next]_rvars
               PROVE  ReplyInv'
    OBVIOUS
  <1>1. CASE \E cmds \in Requests : Request(cmds)
    BY <1>1, ReplyOfRequest
  <1>2. CASE ServerStep
    BY <1>2, ReplyOfPipes, ReplyOfFork, ReplyOfForkFails, ReplyOfClose, ReplyOfWait,
       ReplyOfSendEof DEF ServerStep
  <1>3. CASE \E i \in Positions : ChildStep(i)
    <2> PICK i \in Positions : ChildStep(i)
      BY <1>3
    <2>1. CASE WriteSocket(i)
      BY <2>1, ReplyOfWriteSocket
    <2>2. CASE SocketSigpipe(i)
      <3>1. UNCHANGED <<shell, out, client>> /\ client = "reset"
        BY <2>2 DEF SocketSigpipe, Die
      <3> QED BY <3>1, ReplyKept
    <2>3. CASE Child(i, Failure(i), EXIT_FAILURE, client # "here") /\ UNCHANGED client
      <3> DEFINE ended == client # "here"
      <3>1. Child(i, Failure(i), EXIT_FAILURE, ended) /\ UNCHANGED client
        BY <2>3
      <3> HIDE DEF ended
      <3> QED BY <3>1, ReplyOfProgram
    <2> QED BY <2>1, <2>2, <2>3 DEF ChildStep
  <1>4. CASE ClientLeaves
    <2>1. client' = "gone" /\ UNCHANGED <<shell, proc, pipe, out>>
      BY <1>4 DEF ClientLeaves, vars
    <2> QED BY <2>1, ReplyKept
  <1>5. CASE UNCHANGED rvars
    <2>1. UNCHANGED <<shell, proc, pipe, out, client>>
      BY <1>5 DEF rvars, vars
    <2>2. AtWork /\ client' = "here" => HoldsEnds' /\ Delivers(Complaint)'
      BY <2>1, DeliveryKept DEF ReplyInv
    <2> QED BY <2>1, <2>2, ReplyKept
  <1> QED BY <1>1, <1>2, <1>3, <1>4, <1>5 DEF Next

\* A client that waits for its reply has been sent, when the EOF character
\* comes, the composition of the pipeline's commands and the complaint of the
\* last one if there is no such program: however the programs interleave and
\* whichever of them SIGPIPE kills.
THEOREM ReplyComposes ==
    ASSUME OnTerminal
    PROVE  Spec => []ReplyIsComposition
  <1>1. Init => ReplyInv
    BY DEF Init, ReplyInv, AtWork, ReplyIsComposition
  <1>2. ReplyInv => ReplyIsComposition
    BY DEF ReplyInv
  <1>3. ServerInv /\ ReplyInv /\ [Next]_rvars => ReplyInv'
    BY ReplyInvStep
  <1> QED BY <1>1, <1>2, <1>3, ServerInvariant, PTL DEF Spec
=============================================================================
