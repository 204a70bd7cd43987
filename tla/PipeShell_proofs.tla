-------------------------- MODULE PipeShell_proofs --------------------------
(***************************************************************************)
(* Proofs about PipeShell, for any lines, any number of commands and       *)
(* pipes, any capacity of a pipe, and with fork() failing.                 *)
(***************************************************************************)
EXTENDS PipeShell, Pipeline_proofs

KeptCmds == {cmds \in Seq(AllCmds) : Len(cmds) <= CMD_MAX}

\* What build_cmd_list() makes of a line are commands, at most CMD_MAX of them.
LEMMA ParsedType ==
    ASSUME NEW line \in Seq(AllCmds \cup {Blank})
    PROVE  Parsed(line) \in KeptCmds
  <1> DEFINE n == Len(line)
             Take(k, cmds) == IF line[k] = Blank \/ Len(cmds) = CMD_MAX
                              THEN cmds ELSE Append(cmds, line[k])
             step == [p \in (1 .. n) \X KeptCmds |-> Take(p[1], p[2])]
             Parses(f) == f = [k \in 0 .. n |-> IF k = 0 THEN <<>>
                                                ELSE IF line[k] = Blank \/ Len(f[k - 1]) = CMD_MAX
            THEN f[k - 1] ELSE Append(f[k - 1], line[k])]
             parsed == CHOOSE f : Parses(f)
  <1>1. n \in Nat /\ <<>> \in KeptCmds
    BY SizeAssumption DEF KeptCmds
  <1>2. ASSUME NEW k \in 1 .. n, NEW cmds \in KeptCmds
        PROVE  Take(k, cmds) \in KeptCmds
    <2>1. line[k] \in AllCmds \cup {Blank}
      OBVIOUS
    <2>2. ASSUME line[k] \in AllCmds, Len(cmds) # CMD_MAX
          PROVE  Append(cmds, line[k]) \in KeptCmds
      BY <2>2, SizeAssumption DEF KeptCmds
    <2> QED BY <2>1, <2>2
  <1>3. step \in [(1 .. n) \X KeptCmds -> KeptCmds]
    BY <1>2
  <1>4. \A k \in 1 .. n, cmds \in KeptCmds : step[<<k, cmds>>] = Take(k, cmds)
    OBVIOUS
  <1> HIDE DEF step
  <1>5. PICK f \in [0 .. n -> KeptCmds] : Follows(f, n, <<>>, step)
    BY <1>1, <1>3, Recursive
  <1>6. Parses(f)
    <2>1. \A k \in 1 .. n : f[k] = Take(k, f[k - 1])
      <3> SUFFICES ASSUME NEW k \in 1 .. n
                   PROVE  f[k] = Take(k, f[k - 1])
        OBVIOUS
      <3>1. k - 1 \in 0 .. n /\ f[k - 1] \in KeptCmds
        OBVIOUS
      <3> QED BY <1>4, <1>5, <3>1 DEF Follows
    <2>2. \A k \in 0 .. n : k # 0 => k \in 1 .. n
      BY <1>1
    <2>3. f[0] = <<>>
      BY <1>5 DEF Follows
    <2> QED BY <2>1, <2>2, <2>3
  <1>7. Parses(parsed)
    <2> HIDE DEF Parses
    <2> QED BY <1>6
  <1>8. Parsed(line) = parsed[n]
    BY DEF Parsed
  <1> HIDE DEF parsed
  <1> DEFINE T == {k \in 0 .. n : parsed[k] \in KeptCmds}
  <1>9. 0 \in T
    BY <1>1, <1>7
  <1>10. ASSUME NEW k \in 1 .. n, k - 1 \in T
         PROVE  k \in T
    <2>1. parsed[k] = Take(k, parsed[k - 1])
      <3>1. k \in 0 .. n /\ k # 0
        BY <1>1
      <3> QED BY <1>7, <3>1, Zenon
    <2> QED BY <1>2, <1>10, <2>1
  <1> HIDE DEF T
  <1>11. n \in T
    <2>1. 0 .. n \subseteq T
      BY <1>1, <1>9, <1>10, UpTo
    <2> QED BY <1>1, <2>1
  <1> QED BY <1>8, <1>11 DEF T
----------------------------------------------------------------------------
\* The ends the shell has not closed yet when it comes to the child at i: the
\* read ends from the one that child reads, the write ends from its own on.
Remaining(i) ==
    {<<shell.pipes[k], "r">> : k \in {k \in 1 .. N - 1 : k >= i - 1}}
    \cup {<<shell.pipes[k], "w">> : k \in {k \in 1 .. N - 1 : k >= i}}

\* Where the shell is in a line, and what it has done of it: made the pipes,
\* forked and closed child by child, waited.
Stage ==
    /\ shell.pc \in {"prompt", "pipe", "done"} => NoChildren
    /\ shell.pc \in {"pipe", "fork", "close", "wait"} => N \in 1 .. CMD_MAX
    /\ shell.pc \in {"fork", "close", "wait"} => PipesMade
    /\ shell.pc = "pipe" => shell.i = 1 /\ shell.forked = 0
    /\ shell.pc = "fork" =>
          /\ shell.i <= N /\ shell.forked = shell.i - 1
          /\ shell.ends \cap LineEnds \subseteq Remaining(shell.i)
    /\ shell.pc = "close" =>
          /\ shell.i <= N /\ shell.forked = shell.i
          /\ shell.ends \cap LineEnds \subseteq Remaining(shell.i)
    /\ shell.pc = "wait" =>
          /\ shell.i <= N /\ shell.forked <= N
          /\ \A j \in Positions : j < shell.i => proc[j].pc = "none"
    /\ shell.pc \in {"wait", "prompt"} /\ AllForked =>
          shell.ends \cap LineEnds = {}
    /\ \A j \in Positions : j > shell.forked => proc[j].pc = "none"

\* A last program that has ended was not killed: it writes to the terminal.
LastEnded == \A j \in Positions :
    j = N /\ proc[j].pc = "zombie" =>
        proc[j].status = Exited(ExitArg(shell.cmds[j], ERR_EXEC_CMD))

\* ReturnCodeOfLast of the commands the shell kept, however many were typed.
LastCodeKept ==
    (AtPrompt /\ AllForked /\ N > 0) =>
        shell.rc = ExitArg(Last(shell.cmds), ERR_EXEC_CMD) % 256

ShellInv == /\ TypeOK /\ Family(ERR_EXEC_CMD) /\ Stage
            /\ LastEnded /\ LastCodeKept
----------------------------------------------------------------------------
(* Values. *)

LEMMA ExitStatuses ==
    ASSUME NEW cmd
    PROVE  /\ Exited(ExitArg(cmd, ERR_EXEC_CMD)) \in Statuses
           /\ ReturnCode(Exited(ExitArg(cmd, ERR_EXEC_CMD)))
                 = ExitArg(cmd, ERR_EXEC_CMD) % 256
  <1>1. ExitArg(cmd, ERR_EXEC_CMD) \in {0, 1, EXIT_SC, ERR_EXEC_CMD}
    BY DEF ExitArg
  <1>2. \A n \in {0, 1, EXIT_SC, ERR_EXEC_CMD} : ReturnCode(Exited(n)) = n % 256
    BY DEF ReturnCode, WIFEXITED, WEXITSTATUS, Exited, EXIT_SC, ERR_EXEC_CMD
  <1> QED BY <1>1, <1>2 DEF Statuses

LEMMA StatusValues ==
    /\ 0 \in Statuses /\ SIGPIPE \in Statuses
    /\ \A status \in Statuses : ReturnCode(status) \in -1 .. 255
  <1>1. Exited(0) = 0
    BY DEF Exited
  <1>2. 0 \in Statuses /\ SIGPIPE \in Statuses
    BY <1>1 DEF Statuses
  <1>3. \A n \in {0, 1, EXIT_SC, ERR_EXEC_CMD} : ReturnCode(Exited(n)) \in -1 .. 255
    BY DEF ReturnCode, WIFEXITED, WEXITSTATUS, Exited, EXIT_SC, ERR_EXEC_CMD
  <1>4. ReturnCode(SIGPIPE) \in -1 .. 255
    BY DEF ReturnCode, WIFEXITED, WEXITSTATUS, SIGPIPE
  <1> QED BY <1>2, <1>3, <1>4 DEF Statuses

LEMMA ResidueType == Residue \in Seq(Tokens)
  <1>1. <<>> \in Seq(Tokens) /\ <<"buffered">> \in Seq(Tokens)
    BY DEF Tokens
  <1> QED BY <1>1 DEF Residue

ShellType == [pc : {"prompt", "pipe", "fork", "close", "wait", "done"},
              line : Lines \cup {<<>>}, cmds : Seq(AllCmds), i : Positions,
              forked : 0 .. CMD_MAX, pipes : Seq(PipeIds),
              ends : SUBSET AllEnds, rc : -1 .. 255]

LEMMA ShellTypes ==
    ASSUME TypeOK
    PROVE  /\ shell \in ShellType /\ N \in 0 .. CMD_MAX
           /\ shell.i \in Nat \ {0} /\ shell.forked \in Nat
           /\ proc \in [Positions -> ChildType(Statuses)]
           /\ ChildrenOK(Statuses)
  BY SizeAssumption, SMTT(30) DEF TypeOK, ShellType, ChildrenOK, ChildType, N, Positions

\* A child is one of the line's programs, and the line's pipes are made.
LEMMA ChildOfLine ==
    ASSUME TypeOK, Stage, NEW j \in Positions, proc[j].pc # "none"
    PROVE  /\ j \in 1 .. N /\ LineShape /\ PipesMade
           /\ shell.pc \in {"fork", "close", "wait"}
           /\ shell.pc = "wait" => shell.i <= j
  <1>1. shell.pc \in {"fork", "close", "wait"}
    BY ShellTypes DEF Stage, NoChildren, ShellType
  <1>2. N \in 1 .. CMD_MAX /\ PipesMade
    BY <1>1 DEF Stage
  <1>3. j <= shell.forked /\ j \in Nat
    BY ShellTypes DEF Stage, Positions
  <1>4. shell.forked <= N
    BY <1>1, <1>2, ShellTypes DEF Stage
  <1>5. j \in 1 .. N
    BY <1>2, <1>3, <1>4, ShellTypes DEF Positions
  <1>6. shell.pc = "wait" => shell.i <= j
    BY <1>3, ShellTypes DEF Stage
  <1> QED BY <1>1, <1>2, <1>5, <1>6, ShellTypes DEF LineShape, ShellType
----------------------------------------------------------------------------
(* Steps of the shell. *)

LEMMA ShellInitially == Init => ShellInv
  <1> SUFFICES ASSUME Init
               PROVE  ShellInv
    OBVIOUS
  <1>1. /\ shell.pc = "prompt" /\ shell.cmds = <<>> /\ shell.i = 1 /\ shell.forked = 0
        /\ shell.pipes = <<>> /\ shell.ends = {} /\ shell.rc = 0
        /\ shell \in ShellType
    <2>1. <<>> \in Seq(AllCmds) /\ <<>> \in Seq(PipeIds)
      OBVIOUS
    <2>2. 1 \in Positions /\ 0 \in 0 .. CMD_MAX
      BY SizeAssumption DEF Positions
    <2> QED BY <2>1, <2>2 DEF Init, ShellType
  <1>2. N = 0 /\ Len(shell.pipes) = 0
    BY <1>1 DEF N
  <1>3. NoChildren
    BY DEF Init, NoProc, NoChildren, Nobody
  <1>4. ChildrenOK(Statuses)
    <2>1. Nobody \in ChildType(Statuses)
      BY StatusValues DEF Nobody, ChildType
    <2>2. proc \in [Positions -> ChildType(Statuses)]
      BY <2>1 DEF Init, NoProc
    <2>3. pipe \in [PipeIds -> Seq(Tokens)] /\ \A k \in PipeIds : Len(pipe[k]) <= CAP
      BY SizeAssumption DEF Init, NoPipe
    <2> QED BY <2>2, <2>3 DEF Init, ChildrenOK, ChildType
  <1>5. TypeOK
    BY <1>1, <1>2, <1>4, SizeAssumption DEF TypeOK, ShellType
  <1>6. Stage
    BY <1>1, <1>3 DEF Stage, NoChildren
  <1>7. Family(ERR_EXEC_CMD) /\ LastEnded
    BY <1>3 DEF Family, LastEnded, NoChildren
  <1>8. LastCodeKept
    BY <1>2 DEF LastCodeKept
  <1> QED BY <1>5, <1>6, <1>7, <1>8 DEF ShellInv

LEMMA ReadLineStep ==
    ASSUME ShellInv, NEW line \in Lines, ReadLine(line)
    PROVE  ShellInv'
  <1> DEFINE cmds  == Parsed(line)
             exits == IsBuiltIn(cmds) /\ exec_built_in_cmd(cmds[1]) = "BI_CMD_EXIT"
             pc    == IF exits THEN "done" ELSE "prompt"
  <1>1. /\ shell.pc = "prompt" /\ NoChildren /\ shell \in ShellType
        /\ ChildrenOK(Statuses) /\ Len(shell.pipes) < CMD_MAX
    BY ShellTypes DEF ShellInv, Stage, ReadLine, TypeOK
  <1>2. cmds \in Seq(AllCmds) /\ Len(cmds) <= CMD_MAX
    <2>1. line \in Seq(AllCmds \cup {Blank})
      BY LineAssumption
    <2> QED BY <2>1, ParsedType DEF KeptCmds
  <1>3. /\ shell' = IF cmds = <<>> \/ IsBuiltIn(cmds)
                    THEN [shell EXCEPT !.line = line, !.cmds = <<>>, !.pipes = <<>>,
                                       !.forked = 0, !.pc = pc]
                    ELSE [shell EXCEPT !.line = line, !.cmds = cmds, !.pc = "pipe",
                                       !.i = 1, !.forked = 0]
        /\ out' = <<>> /\ UNCHANGED <<proc, pipe>>
    BY <1>1 DEF ReadLine
  <1>4. pc \in {"prompt", "done"}
    OBVIOUS
  <1> HIDE DEF cmds, pc
  <1>5. NoChildren' /\ ChildrenOK(Statuses)'
    BY <1>1, <1>3 DEF NoChildren, ChildrenOK
  <1>6. Family(ERR_EXEC_CMD)' /\ LastEnded'
    BY <1>5 DEF Family, LastEnded, NoChildren
  <1>7. CASE cmds = <<>> \/ IsBuiltIn(cmds)
    <2>1. /\ shell' \in ShellType /\ shell'.pc \in {"prompt", "done"}
          /\ shell'.cmds = <<>> /\ shell'.pipes = <<>> /\ shell'.forked = 0
      <3>1. <<>> \in Seq(AllCmds) /\ <<>> \in Seq(PipeIds) /\ 0 \in 0 .. CMD_MAX
        BY SizeAssumption
      <3>2. shell' = [shell EXCEPT !.line = line, !.cmds = <<>>, !.pipes = <<>>,
                                   !.forked = 0, !.pc = pc]
        BY <1>3, <1>7
      <3> QED BY <1>1, <1>4, <3>1, <3>2 DEF ShellType
    <2>2. N' = 0 /\ LineEnds' = {}
      <3>1. Range(<<>>) = {}
        BY DEF Range
      <3> QED BY <2>1, <3>1 DEF N, LineEnds
    <2>3. TypeOK'
      BY <1>5, <2>1, <2>2, SizeAssumption DEF TypeOK, ShellType
    <2>4. Stage'
      BY <1>5, <2>1, <2>2 DEF Stage, NoChildren
    <2>5. LastCodeKept'
      BY <2>2 DEF LastCodeKept
    <2> QED BY <1>6, <2>3, <2>4, <2>5 DEF ShellInv
  <1>8. CASE ~(cmds = <<>> \/ IsBuiltIn(cmds))
    <2>1. /\ shell' \in ShellType /\ shell'.pc = "pipe" /\ shell'.cmds = cmds
          /\ shell'.pipes = shell.pipes /\ shell'.forked = 0 /\ shell'.i = 1
      <3>1. 1 \in Positions /\ 0 \in 0 .. CMD_MAX
        BY SizeAssumption DEF Positions
      <3>2. shell' = [shell EXCEPT !.line = line, !.cmds = cmds, !.pc = "pipe",
                                   !.i = 1, !.forked = 0]
        BY <1>3, <1>8
      <3> QED BY <1>1, <1>2, <3>1, <3>2 DEF ShellType
    <2>2. N' \in 1 .. CMD_MAX
      BY <1>2, <1>8, <2>1, SizeAssumption DEF N
    <2>3. TypeOK'
      BY <1>1, <1>5, <2>1, <2>2, SizeAssumption DEF TypeOK, ShellType
    <2>4. Stage'
      BY <1>5, <2>1, <2>2 DEF Stage, NoChildren
    <2>5. LastCodeKept'
      BY <2>1 DEF LastCodeKept, AtPrompt
    <2> QED BY <1>6, <2>3, <2>4, <2>5 DEF ShellInv
  <1> QED BY <1>7, <1>8

LEMMA EndOfInputStep ==
    ASSUME ShellInv, EndOfInput
    PROVE  ShellInv'
  <1>1. /\ shell.pc = "prompt" /\ NoChildren /\ shell \in ShellType
        /\ ChildrenOK(Statuses) /\ Len(shell.pipes) < CMD_MAX /\ N <= CMD_MAX
    BY ShellTypes DEF ShellInv, Stage, EndOfInput, TypeOK
  <1>2. shell' = [shell EXCEPT !.pc = "done"] /\ UNCHANGED <<proc, pipe, out>>
    BY DEF EndOfInput
  <1>3. /\ shell' \in ShellType /\ shell'.pc = "done" /\ shell'.cmds = shell.cmds
        /\ shell'.pipes = shell.pipes /\ shell'.forked = shell.forked
    BY <1>1, <1>2 DEF ShellType
  <1>4. NoChildren' /\ ChildrenOK(Statuses)'
    BY <1>1, <1>2 DEF NoChildren, ChildrenOK
  <1>5. TypeOK'
    BY <1>1, <1>3, <1>4 DEF TypeOK, ShellType, N
  <1>6. Stage' /\ Family(ERR_EXEC_CMD)' /\ LastEnded'
    BY <1>3, <1>4 DEF Stage, NoChildren, Family, LastEnded
  <1>7. LastCodeKept'
    BY <1>3 DEF LastCodeKept, AtPrompt
  <1> QED BY <1>5, <1>6, <1>7 DEF ShellInv

LEMMA MakePipesStep ==
    ASSUME ShellInv, MakePipes
    PROVE  ShellInv'
  <1> DEFINE new  == CHOOSE pipes \in NewPipes : TRUE
             ends == shell.ends \cup UNION {Ends(k) : k \in Range(new)}
  <1>1. /\ shell.pc = "pipe" /\ NoChildren /\ shell \in ShellType
        /\ shell.i = 1 /\ shell.forked = 0 /\ N \in 1 .. CMD_MAX
        /\ ChildrenOK(Statuses)
    BY ShellTypes DEF ShellInv, Stage, MakePipes
  <1>2. new \in NewPipes
    BY DEF MakePipes
  <1>3. /\ shell' = [shell EXCEPT !.pc = "fork", !.pipes = new, !.ends = ends]
        /\ pipe' = [k \in PipeIds |-> IF k \in Range(new) THEN <<>> ELSE pipe[k]]
        /\ UNCHANGED <<proc, out>>
    BY <1>1 DEF MakePipes, ShellType
  <1> HIDE DEF new
  <1>4. /\ new \in Seq(PipeIds) /\ new \in Injection(1 .. N - 1, PipeIds)
        /\ Len(new) = N - 1
    BY <1>1, <1>2, NewPipesType
  <1>5. ends \in SUBSET AllEnds
    <2>1. Range(new) \subseteq PipeIds
      BY <1>4 DEF Range, Injection
    <2> QED BY <1>1, <2>1, EndsTypes DEF ShellType
  <1> HIDE DEF ends
  <1>6. /\ shell'.pc = "fork" /\ shell'.cmds = shell.cmds /\ shell'.i = 1
        /\ shell'.forked = 0 /\ shell'.pipes = new /\ shell' \in ShellType
    <2>1. shell' \in ShellType
      BY <1>1, <1>3, <1>4, <1>5, ZenonT(40) DEF ShellType
    <2>2. /\ shell'.pc = "fork" /\ shell'.cmds = shell.cmds /\ shell'.i = shell.i
          /\ shell'.forked = shell.forked /\ shell'.pipes = new
      BY <1>1, <1>3 DEF ShellType
    <2> QED BY <1>1, <2>1, <2>2
  <1>7. N' = N /\ PipesMade'
    BY <1>4, <1>6 DEF N, PipesMade
  <1>8. NoChildren' /\ ChildrenOK(Statuses)'
    <2>1. pipe' \in [PipeIds -> Seq(Tokens)] /\ \A k \in PipeIds : Len(pipe'[k]) <= CAP
      BY <1>1, <1>3, SizeAssumption DEF ChildrenOK
    <2> QED BY <1>1, <1>3, <2>1 DEF NoChildren, ChildrenOK
  <1>9. TypeOK'
    <2>1. N' <= CMD_MAX /\ Len(shell'.pipes) < CMD_MAX
      BY <1>1, <1>4, <1>6, <1>7, SizeAssumption
    <2> QED BY <1>6, <1>8, <2>1 DEF TypeOK, ShellType
  <1>10. LineEnds' \subseteq Remaining(1)'
    <2>1. Range(new) = {new[k] : k \in 1 .. N - 1}
      BY <1>4 DEF Range, Injection
    <2>2. LineEnds' = UNION {Ends(new[k]) : k \in 1 .. N - 1}
      BY <1>6, <2>1 DEF LineEnds
    <2>3. \A k \in 1 .. N - 1 : <<new[k], "r">> \in Remaining(1)' /\ <<new[k], "w">> \in Remaining(1)'
      BY <1>6, <1>7 DEF Remaining
    <2> QED BY <2>2, <2>3 DEF Ends
  <1>11. Stage'
    <2>1. \A j \in Positions : j > 0 => proc'[j].pc = "none"
      BY <1>8 DEF NoChildren
    <2>2. shell'.ends \cap LineEnds' \subseteq Remaining(1)'
      BY <1>10
    <2> QED BY <1>1, <1>6, <1>7, <2>1, <2>2 DEF Stage
  <1>12. Family(ERR_EXEC_CMD)' /\ LastEnded'
    BY <1>8 DEF Family, LastEnded, NoChildren
  <1>13. LastCodeKept'
    BY <1>6 DEF LastCodeKept, AtPrompt
  <1> QED BY <1>9, <1>11, <1>12, <1>13 DEF ShellInv

\* Last statuses survive a step that ends no program.
LEMMA LastEndedKept ==
    ASSUME LastEnded, shell'.cmds = shell.cmds,
           \A j \in Positions : proc'[j].pc = "zombie" => proc'[j] = proc[j]
    PROVE  LastEnded'
  <1>1. N' = N
    BY DEF N
  <1> QED BY <1>1 DEF LastEnded

LEMMA ForkStep ==
    ASSUME ShellInv, Fork
    PROVE  ShellInv'
  <1> DEFINE child == [Nobody EXCEPT !.pc = "forked", !.ends = shell.ends]
             n == shell.i
  <1>1. /\ shell.pc = "fork" /\ shell \in ShellType /\ N \in 1 .. CMD_MAX
        /\ n \in Positions /\ n <= N /\ shell.forked = n - 1 /\ n \in 0 .. CMD_MAX
        /\ shell.ends \cap LineEnds \subseteq Remaining(n) /\ PipesMade
        /\ proc \in [Positions -> ChildType(Statuses)] /\ ChildrenOK(Statuses)
    BY ShellTypes, SizeAssumption DEF ShellInv, Stage, Fork, ShellType, Positions
  <1>2. child \in ChildType(Statuses) /\ child.pc = "forked"
    <2>1. <<>> \in Seq(Tokens)
      OBVIOUS
    <2> QED BY <1>1, <2>1, StatusValues DEF Nobody, ChildType, ShellType
  <1>3. /\ proc' = [proc EXCEPT ![n] = child] /\ UNCHANGED <<pipe, out>>
        /\ shell' = [shell EXCEPT !.pc = "close", !.forked = n]
    BY DEF Fork, Forked
  <1> HIDE DEF child
  <1>4. /\ shell' \in ShellType /\ shell'.cmds = shell.cmds
        /\ shell'.pipes = shell.pipes /\ shell'.ends = shell.ends
        /\ shell'.forked = n /\ shell'.pc = "close" /\ shell'.i = n
    BY <1>1, <1>3 DEF ShellType
  <1>5. /\ proc' \in [Positions -> ChildType(Statuses)] /\ proc'[n].pc = "forked"
        /\ \A j \in Positions \ {n} : proc'[j] = proc[j]
    BY <1>1, <1>2, <1>3
  <1>6. /\ N' = N /\ LineEnds' = LineEnds /\ PipesMade' = PipesMade
        /\ Remaining(n)' = Remaining(n)
    BY <1>4, LineKept DEF Remaining
  <1>7. TypeOK'
    <2>1. ChildrenOK(Statuses)'
      BY <1>1, <1>3, <1>5 DEF ChildrenOK, ChildType
    <2> QED BY <1>1, <1>4, <1>6, <2>1 DEF TypeOK, ShellType, ShellInv
  <1>8. Stage'
    <2>1. \A j \in Positions : j > n => proc'[j].pc = "none"
      BY <1>1, <1>5 DEF ShellInv, Stage, Positions
    <2>2. Remaining(shell.i)' = Remaining(n)'
      BY <1>4 DEF Remaining
    <2> QED BY <1>1, <1>4, <1>6, <2>1, <2>2 DEF Stage
  <1>9. Family(ERR_EXEC_CMD)'
    BY <1>4, <1>5, OthersKeep DEF ShellInv
  <1>10. LastEnded'
    BY <1>4, <1>5, LastEndedKept DEF ShellInv
  <1>11. LastCodeKept'
    BY <1>4 DEF LastCodeKept, AtPrompt
  <1> QED BY <1>7, <1>8, <1>9, <1>10, <1>11 DEF ShellInv

LEMMA ForkFailsStep ==
    ASSUME ShellInv, ForkFails
    PROVE  ShellInv'
  <1>1. /\ shell.pc = "fork" /\ shell \in ShellType /\ N \in 1 .. CMD_MAX
        /\ shell.i <= N /\ shell.forked = shell.i - 1 /\ PipesMade
        /\ shell.i \in Nat \ {0} /\ ChildrenOK(Statuses) /\ Len(shell.pipes) < CMD_MAX
        /\ \A j \in Positions : j > shell.forked => proc[j].pc = "none"
    BY ShellTypes DEF ShellInv, Stage, ForkFails, TypeOK
  <1>2. /\ shell' = IF N = 1 THEN [shell EXCEPT !.pc = "prompt", !.cmds = <<>>]
                             ELSE [shell EXCEPT !.pc = "wait", !.i = 1]
        /\ UNCHANGED <<proc, pipe, out>>
    BY DEF ForkFails
  <1>3. CASE N = 1
    <2>1. /\ shell' \in ShellType /\ shell'.pc = "prompt" /\ shell'.cmds = <<>>
          /\ shell'.pipes = shell.pipes /\ shell'.forked = 0
      <3>1. <<>> \in Seq(AllCmds) /\ shell.forked = 0
        BY <1>1, <1>3
      <3>2. shell' = [shell EXCEPT !.pc = "prompt", !.cmds = <<>>]
        BY <1>2, <1>3
      <3> QED BY <1>1, <3>1, <3>2, ZenonT(40) DEF ShellType
    <2>2. N' = 0 /\ LineEnds' = {}
      <3>1. Range(shell.pipes) = {}
        BY <1>1, <1>3 DEF PipesMade, Injection, Range
      <3> QED BY <2>1, <3>1 DEF N, LineEnds
    <2>3. NoChildren'
      BY <1>1, <1>2, <1>3 DEF NoChildren, Positions
    <2>4. TypeOK'
      BY <1>1, <1>2, <2>1, <2>2, SizeAssumption DEF TypeOK, ShellType, ChildrenOK
    <2>5. Stage' /\ Family(ERR_EXEC_CMD)' /\ LastEnded'
      BY <2>1, <2>2, <2>3 DEF Stage, NoChildren, Family, LastEnded
    <2>6. LastCodeKept'
      BY <2>2 DEF LastCodeKept
    <2> QED BY <2>4, <2>5, <2>6 DEF ShellInv
  <1>4. CASE N # 1
    <2>1. /\ shell' \in ShellType /\ shell'.pc = "wait" /\ shell'.cmds = shell.cmds
          /\ shell'.pipes = shell.pipes /\ shell'.forked = shell.forked /\ shell'.i = 1
      <3>1. 1 \in Positions /\ shell' = [shell EXCEPT !.pc = "wait", !.i = 1]
        BY <1>2, <1>4, SizeAssumption DEF Positions
      <3> QED BY <1>1, <3>1 DEF ShellType
    <2>2. N' = N /\ PipesMade' = PipesMade /\ shell.forked < N /\ shell.forked <= N
      BY <1>1, <2>1, LineKept
    <2>3. ~AllForked'
      BY <1>1, <2>1, <2>2 DEF AllForked
    <2>4. TypeOK'
      BY <1>1, <1>2, <2>1, <2>2 DEF TypeOK, ShellType, ChildrenOK
    <2>5. Stage'
      <3>1. \A j \in Positions : ~(j < 1)
        BY SizeAssumption DEF Positions
      <3> QED BY <1>1, <1>2, <2>1, <2>2, <2>3, <3>1 DEF Stage
    <2>6. Family(ERR_EXEC_CMD)'
      <3>1. 0 \notin Positions
        BY DEF Positions
      <3> QED BY <1>2, <2>1, <3>1, OthersKeep DEF ShellInv
    <2>7. LastEnded'
      BY <1>2, <2>1, LastEndedKept DEF ShellInv
    <2>8. LastCodeKept'
      BY <2>1 DEF LastCodeKept, AtPrompt
    <2> QED BY <2>4, <2>5, <2>6, <2>7, <2>8 DEF ShellInv
  <1> QED BY <1>3, <1>4

LEMMA CloseStep ==
    ASSUME ShellInv, Close
    PROVE  ShellInv'
  <1>0. PICK n \in Nat : n = shell.i
    BY ShellTypes DEF ShellInv
  <1> DEFINE ends == shell.ends \ Unneeded(n)
             pc   == IF n = N THEN "wait" ELSE "fork"
             i    == IF n = N THEN 1 ELSE n + 1
  <1>1. /\ shell.pc = "close" /\ shell \in ShellType /\ N \in 1 .. CMD_MAX
        /\ n \in Positions /\ n \in Nat \ {0} /\ n <= N /\ shell.forked = n
        /\ shell.ends \cap LineEnds \subseteq Remaining(n) /\ PipesMade
        /\ ChildrenOK(Statuses) /\ Len(shell.pipes) < CMD_MAX
        /\ \A j \in Positions : j > shell.forked => proc[j].pc = "none"
    BY <1>0, ShellTypes DEF ShellInv, Stage, Close, ShellType, TypeOK
  <1>2. /\ shell' = [shell EXCEPT !.ends = ends, !.pc = pc, !.i = i]
        /\ UNCHANGED <<proc, pipe, out>>
    BY <1>0, <1>1 DEF Close, ShellType
  <1>3. ends \in SUBSET AllEnds /\ pc \in {"wait", "fork"} /\ i \in Positions
    BY <1>1, SizeAssumption DEF ShellType, Positions
  <1>4. /\ shell' \in ShellType /\ shell'.cmds = shell.cmds
        /\ shell'.pipes = shell.pipes /\ shell'.ends = ends
        /\ shell'.forked = n /\ shell'.pc = pc /\ shell'.i = i
    <2> HIDE DEF ends, pc, i
    <2> QED BY <1>1, <1>2, <1>3 DEF ShellType
  <1>5. /\ N' = N /\ LineEnds' = LineEnds /\ PipesMade' = PipesMade
        /\ Remaining(n + 1)' = Remaining(n + 1)
    BY <1>1, <1>4, LineKept DEF Remaining
  <1>6. Remaining(n) \ Unneeded(n) \subseteq Remaining(n + 1)
    <2>1. ASSUME NEW k \in 1 .. N - 1, k >= n - 1, <<shell.pipes[k], "r">> \notin Unneeded(n)
          PROVE  <<shell.pipes[k], "r">> \in Remaining(n + 1)
      <3>1. k # n - 1
        BY <2>1 DEF Unneeded
      <3>2. k \in {j \in 1 .. N - 1 : j >= n + 1 - 1}
        BY <1>1, <2>1, <3>1
      <3> QED BY <3>2 DEF Remaining
    <2>2. ASSUME NEW k \in 1 .. N - 1, k >= n, <<shell.pipes[k], "w">> \notin Unneeded(n)
          PROVE  <<shell.pipes[k], "w">> \in Remaining(n + 1)
      <3>1. k # n
        BY <2>2 DEF Unneeded
      <3>2. k \in {j \in 1 .. N - 1 : j >= n + 1}
        BY <1>1, <2>2, <3>1
      <3> QED BY <3>2 DEF Remaining
    <2> QED BY <2>1, <2>2 DEF Remaining
  <1>7. ends \cap LineEnds \subseteq Remaining(n + 1)
    BY <1>1, <1>6
  <1>8. TypeOK'
    <2>1. ChildrenOK(Statuses)'
      BY <1>1, <1>2 DEF ChildrenOK
    <2> QED BY <1>1, <1>4, <1>5, <2>1 DEF TypeOK, ShellType
  <1>9. Stage'
    <2>1. \A j \in Positions : j > shell'.forked => proc'[j].pc = "none"
      BY <1>1, <1>2, <1>4
    <2>2. CASE n = N
      <3>1. Remaining(n + 1) = {}
        BY <1>1, <2>2 DEF Remaining
      <3>2. shell'.ends \cap LineEnds' = {}
        BY <1>4, <1>5, <1>7, <3>1
      <3>3. \A j \in Positions : ~(j < 1)
        BY SizeAssumption DEF Positions
      <3> QED BY <1>1, <1>4, <1>5, <2>1, <2>2, <3>2, <3>3 DEF Stage
    <2>3. CASE n # N
      <3>1. Remaining(shell.i)' = Remaining(n + 1)'
        BY <1>4, <2>3 DEF Remaining
      <3>2. shell'.ends \cap LineEnds' \subseteq Remaining(shell.i)'
        BY <1>4, <1>5, <1>7, <3>1
      <3>3. shell'.i <= N /\ shell'.forked = shell'.i - 1 /\ shell'.pc = "fork"
        BY <1>1, <1>4, <2>3
      <3> QED BY <1>1, <1>5, <2>1, <3>2, <3>3 DEF Stage
    <2> QED BY <2>2, <2>3
  <1>10. Family(ERR_EXEC_CMD)'
    <2>1. 0 \notin Positions
      BY DEF Positions
    <2> QED BY <1>2, <1>4, <2>1, OthersKeep DEF ShellInv
  <1>11. LastEnded'
    BY <1>2, <1>4, LastEndedKept DEF ShellInv
  <1>12. LastCodeKept'
    BY <1>3, <1>4 DEF LastCodeKept, AtPrompt
  <1> QED BY <1>8, <1>9, <1>10, <1>11, <1>12 DEF ShellInv

\* waitpid() has returned for the child at n: what it stored in `status' only
\* matters for the last one.
LEMMA WaitedStep ==
    ASSUME ShellInv, shell.pc = "wait", NEW n \in Nat, n = shell.i,
           NEW status \in Statuses, shell' = Waited(status), ChildrenOK(Statuses)',
           proc'[n].pc = "none", \A j \in Positions \ {n} : proc'[j] = proc[j],
           n = N /\ AllForked =>
               status = Exited(ExitArg(shell.cmds[n], ERR_EXEC_CMD))
    PROVE  ShellInv'
  <1> DEFINE pc == IF n = N THEN "prompt" ELSE "wait"
             i  == IF n = N THEN 1 ELSE n + 1
             rc == IF n = N THEN ReturnCode(status) ELSE shell.rc
  <1>1. /\ shell \in ShellType /\ N \in 1 .. CMD_MAX /\ n \in Positions /\ n <= N
        /\ shell.forked <= N /\ shell.forked \in Nat /\ PipesMade
        /\ Len(shell.pipes) < CMD_MAX
        /\ \A j \in Positions : j < n => proc[j].pc = "none"
        /\ \A j \in Positions : j > shell.forked => proc[j].pc = "none"
        /\ AllForked => shell.ends \cap LineEnds = {}
    BY ShellTypes DEF ShellInv, Stage, TypeOK, ShellType
  <1>2. shell' = [shell EXCEPT !.pc = pc, !.i = i, !.rc = rc]
    BY <1>1 DEF Waited, IsReported, ShellType
  <1>3. pc \in {"prompt", "wait"} /\ i \in Positions /\ rc \in -1 .. 255
    BY <1>1, StatusValues, SizeAssumption DEF Positions, ShellType
  <1>4. /\ shell' \in ShellType /\ shell'.cmds = shell.cmds
        /\ shell'.pipes = shell.pipes /\ shell'.ends = shell.ends
        /\ shell'.forked = shell.forked /\ shell'.pc = pc /\ shell'.i = i /\ shell'.rc = rc
    <2> HIDE DEF pc, i, rc
    <2> QED BY <1>1, <1>2, <1>3, ZenonT(40) DEF ShellType
  <1>5. N' = N /\ LineEnds' = LineEnds /\ PipesMade' = PipesMade
    BY <1>4, LineKept
  <1>6. AllForked' = AllForked
    BY <1>4, <1>5 DEF AllForked
  <1>7. TypeOK'
    BY <1>1, <1>4, <1>5 DEF TypeOK, ShellType
  <1>8. \A j \in Positions : j <= n \/ j > shell.forked => proc'[j].pc = "none"
    BY <1>1 DEF Positions
  <1>9. Stage'
    <2>1. CASE n = N
      <3>1. NoChildren'
        BY <1>1, <1>8, <2>1 DEF NoChildren, Positions
      <3> QED BY <1>1, <1>4, <1>5, <1>6, <1>8, <2>1, <3>1 DEF Stage
    <2>2. CASE n # N
      <3>1. n + 1 <= N /\ \A j \in Positions : j < n + 1 => j <= n
        BY <1>1, <2>2 DEF Positions
      <3> QED BY <1>1, <1>4, <1>5, <1>6, <1>8, <2>2, <3>1 DEF Stage
    <2> QED BY <2>1, <2>2
  <1>10. Family(ERR_EXEC_CMD)'
    BY <1>4, OthersKeep DEF ShellInv
  <1>11. LastEnded'
    BY <1>4, LastEndedKept DEF ShellInv
  <1>12. LastCodeKept'
    <2>1. CASE n = N
      <3> SUFFICES ASSUME AllForked
                   PROVE  shell'.rc = ExitArg(Last(shell'.cmds), ERR_EXEC_CMD) % 256
        BY <1>6 DEF LastCodeKept
      <3>1. Last(shell'.cmds) = shell.cmds[n]
        BY <1>4, <2>1 DEF Last, N
      <3>2. rc = ReturnCode(Exited(ExitArg(shell.cmds[n], ERR_EXEC_CMD)))
        BY <2>1
      <3> QED BY <1>4, <3>1, <3>2, ExitStatuses
    <2>2. CASE n # N
      BY <1>4, <2>2 DEF LastCodeKept, AtPrompt
    <2> QED BY <2>1, <2>2
  <1> QED BY <1>7, <1>9, <1>10, <1>11, <1>12 DEF ShellInv

LEMMA WaitStep ==
    ASSUME ShellInv, Wait
    PROVE  ShellInv'
  <1>1. PICK n \in Nat : n = shell.i
    BY ShellTypes DEF ShellInv
  <1>2. /\ shell.pc = "wait" /\ proc[n].pc = "zombie" /\ n \in Positions
        /\ proc \in [Positions -> ChildType(Statuses)] /\ ChildrenOK(Statuses)
        /\ shell' = Waited(proc[n].status) /\ proc' = [proc EXCEPT ![n] = Nobody]
        /\ UNCHANGED <<pipe, out>>
    BY <1>1, ShellTypes DEF ShellInv, Wait, Reaped, ShellType
  <1>3. proc[n].status \in Statuses
    BY <1>2 DEF ChildType
  <1>4. /\ proc' \in [Positions -> ChildType(Statuses)] /\ proc'[n].pc = "none"
        /\ \A j \in Positions \ {n} : proc'[j] = proc[j]
    <2>1. Nobody \in ChildType(Statuses) /\ Nobody.pc = "none"
      BY StatusValues DEF Nobody, ChildType
    <2> QED BY <1>2, <2>1
  <1>5. ChildrenOK(Statuses)'
    BY <1>2, <1>4 DEF ChildrenOK, ChildType
  <1>6. n = N => proc[n].status = Exited(ExitArg(shell.cmds[n], ERR_EXEC_CMD))
    BY <1>2 DEF ShellInv, LastEnded
  <1> QED BY <1>1, <1>2, <1>3, <1>4, <1>5, <1>6, WaitedStep

LEMMA WaitFailsStep ==
    ASSUME ShellInv, WaitFails
    PROVE  ShellInv'
  <1>1. PICK n \in Nat : n = shell.i
    BY ShellTypes DEF ShellInv
  <1>2. PICK garbage \in Statuses : shell' = Waited(garbage)
    BY DEF WaitFails
  <1>3. /\ shell.pc = "wait" /\ n > shell.forked /\ n \in Positions
        /\ UNCHANGED <<proc, pipe, out>> /\ ChildrenOK(Statuses)
        /\ shell.forked \in Nat /\ N \in Nat
    BY <1>1, ShellTypes DEF ShellInv, WaitFails, ShellType
  <1>4. proc[n].pc = "none"
    BY <1>3 DEF ShellInv, Stage
  <1>5. ChildrenOK(Statuses)'
    BY <1>3 DEF ChildrenOK
  <1>6. ~(n = N /\ AllForked)
    BY <1>3 DEF AllForked
  <1> QED BY <1>1, <1>2, <1>3, <1>4, <1>5, <1>6, WaitedStep
----------------------------------------------------------------------------
(* Steps of the programs. *)

\* A program's step does not move the shell on.
LEMMA StageKept ==
    ASSUME TypeOK, Stage, NEW i \in Positions, proc[i].pc # "none", shell' = shell,
           \A j \in Positions \ {i} : proc'[j] = proc[j]
    PROVE  Stage' /\ LastCodeKept'
  <1>1. /\ shell.pc \in {"fork", "close", "wait"}
        /\ shell.pc = "wait" => shell.i <= i
        /\ i <= shell.forked
    BY ChildOfLine, ShellTypes DEF Stage, Positions
  <1>2. /\ N' = N /\ LineEnds' = LineEnds /\ PipesMade' = PipesMade
        /\ Remaining(shell.i)' = Remaining(shell.i)
    BY LineKept DEF Remaining
  <1>3. AllForked' = AllForked
    BY <1>2 DEF AllForked
  <1>4. \A j \in Positions : proc[j].pc = "none" => proc'[j].pc = "none"
    OBVIOUS
  <1>5. Stage'
    BY <1>1, <1>2, <1>3, <1>4 DEF Stage
  <1>6. LastCodeKept'
    BY <1>1 DEF LastCodeKept, AtPrompt
  <1> QED BY <1>5, <1>6

LEMMA WriteTerminalStep ==
    ASSUME ShellInv, NEW i \in Positions, WriteTerminal(i)
    PROVE  ShellInv'
  <1> DEFINE todo == Tail(proc[i].todo)
  <1>1. /\ proc[i].pc = "running" /\ proc[i].todo \in Seq(Tokens) /\ proc[i].todo # <<>>
        /\ proc[i].wants \in {"none", "one", "all"}
        /\ proc \in [Positions -> ChildType(Statuses)] /\ ChildrenOK(Statuses)
    BY ShellTypes DEF ShellInv, WriteTerminal, Writing, Running, ChildType
  <1>2. Connected(i) /\ shell.cmds[i] # "quit"
    BY <1>1 DEF ShellInv, Family, Connected
  <1>3. UNCHANGED <<shell, pipe>>
    BY DEF WriteTerminal
  <1>4. Head(proc[i].todo) \in Tokens /\ todo \in Seq(Tokens)
    BY <1>1
  <1>5. out' \in Seq(Tokens)
    <2> DEFINE token == Head(proc[i].todo)
    <2>1. out' = Append(out, token)
      BY DEF WriteTerminal
    <2>2. token \in Tokens /\ out \in Seq(Tokens)
      BY <1>1, <1>4 DEF ChildrenOK
    <2> HIDE DEF token
    <2> QED BY <2>1, <2>2
  <1>6. proc' = [proc EXCEPT ![i].todo = todo, ![i].wants = proc[i].wants]
    <2>1. proc' = [proc EXCEPT ![i].todo = todo]
      BY DEF WriteTerminal
    <2> QED BY <1>1, <2>1 DEF ChildType
  <1> HIDE DEF todo
  <1>7. /\ proc' \in [Positions -> ChildType(Statuses)]
        /\ proc'[i].pc = "running" /\ Connected(i)'
        /\ \A j \in Positions \ {i} : proc'[j] = proc[j]
    BY <1>1, <1>2, <1>3, <1>4, <1>6, StillConnected
  <1>8. TypeOK'
    <2>1. ChildrenOK(Statuses)'
      BY <1>1, <1>3, <1>5, <1>7 DEF ChildrenOK, ChildType
    <2> QED BY <1>3, <2>1 DEF ShellInv, TypeOK, N
  <1>9. Stage' /\ LastCodeKept'
    BY <1>1, <1>3, <1>7, StageKept DEF ShellInv
  <1>10. Family(ERR_EXEC_CMD)'
    BY <1>3, <1>7, OthersKeep DEF ShellInv
  <1>11. LastEnded'
    BY <1>3, <1>7, LastEndedKept DEF ShellInv
  <1> QED BY <1>8, <1>9, <1>10, <1>11 DEF ShellInv

LEMMA ProgramStep ==
    ASSUME ShellInv, NEW i \in Positions, NEW ended,
           Child(i, Residue, ERR_EXEC_CMD, ended)
    PROVE  ShellInv'
  <1>1. proc[i].pc # "none" /\ ChildrenOK(Statuses)
    BY ShellTypes DEF ShellInv, Child, Exec, WritePipe, Sigpipe, ReadPipe, ReadEnd,
       ExitProg, Writing, Reading, Running
  <1>2. i \in 1 .. N /\ LineShape /\ PipesMade
    BY <1>1, ChildOfLine DEF ShellInv
  <1>3. Exited(ExitArg(shell.cmds[i], ERR_EXEC_CMD)) \in Statuses
    BY ExitStatuses
  <1>4. /\ ChildrenOK(Statuses)' /\ Family(ERR_EXEC_CMD)' /\ UNCHANGED <<shell, out>>
        /\ \A j \in Positions \ {i} : proc'[j] = proc[j]
        /\ proc'[i].pc = "zombie" /\ i = N =>
              proc'[i].status = Exited(ExitArg(shell.cmds[i], ERR_EXEC_CMD))
    BY <1>1, <1>2, <1>3, ResidueType, StatusValues, ChildSteps DEF ShellInv
  <1>5. TypeOK'
    BY <1>4 DEF ShellInv, TypeOK, N
  <1>6. Stage' /\ LastCodeKept'
    BY <1>1, <1>4, StageKept DEF ShellInv
  <1>7. LastEnded'
    BY <1>4 DEF ShellInv, LastEnded, N
  <1> QED BY <1>4, <1>5, <1>6, <1>7 DEF ShellInv

LEMMA Stuttering ==
    ASSUME ShellInv, UNCHANGED vars
    PROVE  ShellInv'
  <1>1. UNCHANGED <<shell, proc, pipe, out>>
    BY DEF vars
  <1>2. TypeOK'
    BY <1>1 DEF ShellInv, TypeOK, ChildrenOK, N
  <1>3. Stage'
    BY <1>1 DEF ShellInv, Stage, NoChildren, AllForked, PipesMade, LineEnds, Remaining, N
  <1>4. Family(ERR_EXEC_CMD)'
    BY <1>1 DEF ShellInv, Family, Connected, Ended, Stdin, Stdout, N
  <1>5. LastEnded' /\ LastCodeKept'
    BY <1>1 DEF ShellInv, LastEnded, LastCodeKept, AtPrompt, AllForked, N
  <1> QED BY <1>2, <1>3, <1>4, <1>5 DEF ShellInv
----------------------------------------------------------------------------
LEMMA ShellInvStep == ShellInv /\ [Next]_vars => ShellInv'
  <1> SUFFICES ASSUME ShellInv, [Next]_vars
               PROVE  ShellInv'
    OBVIOUS
  <1>1. CASE \E line \in Lines : ReadLine(line)
    BY <1>1, ReadLineStep
  <1>2. CASE EndOfInput
    BY <1>2, EndOfInputStep
  <1>3. CASE ShellStep
    BY <1>3, MakePipesStep, ForkStep, ForkFailsStep, CloseStep, WaitStep, WaitFailsStep
       DEF ShellStep
  <1>4. CASE \E i \in Positions : ChildStep(i)
    <2> DEFINE ended == TRUE
    <2>1. \E i \in Positions : WriteTerminal(i) \/ Child(i, Residue, ERR_EXEC_CMD, ended)
      BY <1>4 DEF ChildStep
    <2> HIDE DEF ended
    <2> QED BY <2>1, WriteTerminalStep, ProgramStep
  <1>5. CASE UNCHANGED vars
    BY <1>5, Stuttering
  <1> QED BY <1>1, <1>2, <1>3, <1>4, <1>5 DEF Next

LEMMA ShellInvariant == Spec => []ShellInv
  <1> QED BY ShellInitially, ShellInvStep, PTL DEF Spec

\* What exec_local_cmd_loop() keeps of a line, of its pipes and of its children
\* are what the calls it passes them to take them for, and the return code is
\* a byte or the -1 of a child that a signal killed.
THEOREM TypeCorrect == Spec => []TypeOK
  <1>1. ShellInv => TypeOK
    BY DEF ShellInv
  <1> QED BY <1>1, ShellInvariant, PTL

\* The shell prompts again when no child of the line is left, running or
\* zombie, whichever fork() failed; if none did it has closed every pipe end.
THEOREM NothingStaysBehind == Spec => []NothingLeftBehind
  <1>1. ShellInv => NothingLeftBehind
    BY DEF ShellInv, Stage, NothingLeftBehind, AtPrompt, NoChildren
  <1> QED BY <1>1, ShellInvariant, PTL

\* The return code that is kept after a pipeline of at most CMD_MAX commands is
\* its last program's, in whatever order the programs ended and whichever of the
\* others was killed.
THEOREM ReturnCodeIsOfLast == Spec => []ReturnCodeOfLast
  <1>1. ShellInv => ReturnCodeOfLast
    BY DEF ShellInv, LastCodeKept, ReturnCodeOfLast
  <1> QED BY <1>1, ShellInvariant, PTL
----------------------------------------------------------------------------
(* What a line prints, on a terminal. *)

\* The programs of the line are at work.
AtWork == shell.pc \in {"fork", "close"} \/ (shell.pc = "wait" /\ AllForked)

\* OutputIsComposition of the commands the shell kept, however many were typed.
OutputAddsUp == AtPrompt => out = IF AllForked THEN Composition ELSE <<>>

\* The shell has the ends it has not closed, the programs have theirs, and what
\* is printed and what is to come add up to the composition; without its last
\* program the line prints nothing.
FlowInv ==
    /\ shell.pc \in {"fork", "close"} => Remaining(shell.i) \subseteq shell.ends
    /\ AtWork => HoldsEnds /\ Delivers(<<>>)
    /\ shell.pc = "pipe" \/ ~AllForked => out = <<>>
    /\ OutputAddsUp

LEMMA NowWorking ==
    ASSUME ShellInv, FlowInv, AtWork
    PROVE  Working(Statuses, ERR_EXEC_CMD)
  <1>1. /\ shell \in ShellType /\ N \in 1 .. CMD_MAX /\ PipesMade
        /\ shell.i \in Nat \ {0} /\ shell.forked \in Nat
        /\ ChildrenOK(Statuses) /\ HoldsEnds
    BY ShellTypes DEF ShellInv, Stage, AtWork, FlowInv
  <1>2. LineShape
    BY <1>1 DEF LineShape, ShellType
  <1>3. shell.forked \in 0 .. N
    BY <1>1, ShellTypes DEF ShellInv, Stage, AtWork
  <1>4. ASSUME shell.pc \in {"fork", "close"}
        PROVE  KeepsEnds
    <2>1. PICK n \in Nat \ {0} : n = shell.i /\ Remaining(n) \subseteq shell.ends
                                 /\ shell.forked \in {n - 1, n}
      BY <1>1, <1>4 DEF ShellInv, Stage, FlowInv
    <2>2. shell.pc = "fork" => shell.forked = n - 1
      BY <2>1 DEF ShellInv, Stage
    <2> SUFFICES ASSUME NEW k \in 1 .. N - 1
                 PROVE  /\ k + 1 > shell.forked => <<shell.pipes[k], "r">> \in shell.ends
                        /\ k > shell.forked     => <<shell.pipes[k], "w">> \in shell.ends
      BY DEF KeepsEnds
    <2>3. ASSUME k + 1 > shell.forked
          PROVE  <<shell.pipes[k], "r">> \in shell.ends
      <3>1. k \in {l \in 1 .. N - 1 : l >= n - 1}
        BY <1>1, <2>1, <2>3
      <3> QED BY <2>1, <3>1 DEF Remaining
    <2>4. ASSUME k > shell.forked
          PROVE  <<shell.pipes[k], "w">> \in shell.ends
      <3>1. k \in {l \in 1 .. N - 1 : l >= n}
        BY <1>1, <2>1, <2>4
      <3> QED BY <2>1, <3>1 DEF Remaining
    <2> QED BY <2>3, <2>4
  <1> QED BY <1>1, <1>2, <1>3, <1>4 DEF Working, AtWork, ShellInv

\* A line that is done with, or that was none, has printed nothing.
LEMMA FlowOfNothing ==
    ASSUME shell'.cmds = <<>>, shell'.forked = 0, shell'.pc \in {"prompt", "done"},
           out' = <<>>
    PROVE  FlowInv'
  <1>1. N' = 0 /\ AllForked'
    BY DEF N, AllForked
  <1>2. Composition' = <<>>
    BY NothingPromised DEF Composition
  <1> QED BY <1>1, <1>2 DEF FlowInv, AtWork, OutputAddsUp

LEMMA FlowInitially == Init => FlowInv
  <1> SUFFICES ASSUME Init
               PROVE  FlowInv
    OBVIOUS
  <1>1. shell.cmds = <<>> /\ shell.forked = 0 /\ shell.pc = "prompt" /\ out = <<>>
    BY DEF Init
  <1>2. N = 0 /\ AllForked
    BY <1>1 DEF N, AllForked
  <1>3. Composition = <<>>
    BY <1>1, NothingPromised DEF Composition
  <1> QED BY <1>1, <1>2, <1>3 DEF FlowInv, AtWork, OutputAddsUp

LEMMA FlowOfReadLine ==
    ASSUME ShellInv, NEW line \in Lines, ReadLine(line)
    PROVE  FlowInv'
  <1> DEFINE cmds  == Parsed(line)
             exits == IsBuiltIn(cmds) /\ exec_built_in_cmd(cmds[1]) = "BI_CMD_EXIT"
             pc    == IF exits THEN "done" ELSE "prompt"
  <1>1. shell.pc = "prompt" /\ shell \in ShellType
    BY ShellTypes DEF ShellInv, ReadLine
  <1>2. /\ shell' = IF cmds = <<>> \/ IsBuiltIn(cmds)
                    THEN [shell EXCEPT !.line = line, !.cmds = <<>>, !.pipes = <<>>,
                                       !.forked = 0, !.pc = pc]
                    ELSE [shell EXCEPT !.line = line, !.cmds = cmds, !.pc = "pipe",
                                       !.i = 1, !.forked = 0]
        /\ out' = <<>>
    BY <1>1 DEF ReadLine
  <1>3. pc \in {"prompt", "done"}
    OBVIOUS
  <1> HIDE DEF cmds, pc
  <1>4. CASE cmds = <<>> \/ IsBuiltIn(cmds)
    <2>1. shell'.cmds = <<>> /\ shell'.forked = 0 /\ shell'.pc \in {"prompt", "done"}
      BY <1>1, <1>2, <1>3, <1>4 DEF ShellType
    <2> QED BY <1>2, <2>1, FlowOfNothing
  <1>5. CASE ~(cmds = <<>> \/ IsBuiltIn(cmds))
    <2>1. shell'.pc = "pipe"
      BY <1>1, <1>2, <1>5 DEF ShellType
    <2> QED BY <1>2, <2>1 DEF FlowInv, AtWork, OutputAddsUp, AtPrompt
  <1> QED BY <1>4, <1>5

LEMMA FlowOfMakePipes ==
    ASSUME ShellInv, FlowInv, MakePipes
    PROVE  FlowInv'
  <1> DEFINE new  == CHOOSE pipes \in NewPipes : TRUE
             ends == shell.ends \cup UNION {Ends(k) : k \in Range(new)}
  <1>1. /\ shell.pc = "pipe" /\ NoChildren /\ shell \in ShellType
        /\ shell.i = 1 /\ shell.forked = 0 /\ N \in 1 .. CMD_MAX /\ out = <<>>
    BY ShellTypes DEF ShellInv, Stage, MakePipes, FlowInv
  <1>2. new \in NewPipes
    BY DEF MakePipes
  <1>3. /\ shell' = [shell EXCEPT !.pc = "fork", !.pipes = new, !.ends = ends]
        /\ pipe' = [k \in PipeIds |-> IF k \in Range(new) THEN <<>> ELSE pipe[k]]
        /\ UNCHANGED <<proc, out>>
    BY <1>1 DEF MakePipes, ShellType
  <1> HIDE DEF new
  <1>4. new \in Injection(1 .. N - 1, PipeIds)
    BY <1>1, <1>2, NewPipesType
  <1>5. \A k \in 1 .. N - 1 : <<new[k], "r">> \in ends /\ <<new[k], "w">> \in ends
    <2>1. \A k \in 1 .. N - 1 : new[k] \in Range(new)
      BY <1>4 DEF Range, Injection
    <2> QED BY <2>1 DEF Ends
  <1> HIDE DEF ends
  <1>6. /\ shell'.pc = "fork" /\ shell'.cmds = shell.cmds /\ shell'.i = 1
        /\ shell'.forked = 0 /\ shell'.pipes = new /\ shell'.ends = ends
    BY <1>1, <1>3 DEF ShellType
  <1>7. N' = N
    BY <1>6 DEF N
  <1>8. Remaining(shell.i)' \subseteq shell'.ends
    BY <1>5, <1>6, <1>7, ZenonT(40) DEF Remaining
  <1>9. HoldsEnds'
    BY <1>1, <1>3 DEF HoldsEnds, Live, NoChildren
  <1>10. Delivers(<<>>)'
    <2>1. LineShape
      BY <1>1 DEF LineShape, ShellType
    <2>2. <<>> \in Seq(Tokens)
      OBVIOUS
    <2> QED BY <1>1, <1>3, <1>4, <1>6, <2>1, <2>2, PipesDeliver
  <1> QED BY <1>1, <1>3, <1>6, <1>8, <1>9, <1>10 DEF FlowInv, OutputAddsUp, AtPrompt

LEMMA FlowOfFork ==
    ASSUME ShellInv, FlowInv, Fork
    PROVE  FlowInv'
  <1>0. PICK n \in Nat \ {0} : n = shell.i
    BY ShellTypes DEF ShellInv
  <1> DEFINE child == [Nobody EXCEPT !.pc = "forked", !.ends = shell.ends]
  <1>1. /\ shell.pc = "fork" /\ shell \in ShellType /\ N \in 1 .. CMD_MAX
        /\ n \in Positions /\ n \in 1 .. N /\ shell.forked = n - 1
        /\ proc \in [Positions -> ChildType(Statuses)] /\ AtWork
        /\ Remaining(n) \subseteq shell.ends /\ HoldsEnds /\ Delivers(<<>>)
        /\ \A j \in Positions : j > shell.forked => proc[j].pc = "none"
    BY <1>0, ShellTypes DEF ShellInv, Stage, Fork, ShellType, AtWork, FlowInv
  <1>2. ~AllForked /\ out = <<>>
    BY <1>1 DEF AllForked, FlowInv
  <1>3. Working(Statuses, ERR_EXEC_CMD) /\ LineShape /\ KeepsEnds
    BY <1>1, <1>2, NowWorking DEF Working
  <1>4. /\ proc' = [proc EXCEPT ![n] = child] /\ UNCHANGED <<pipe, out>>
        /\ shell' = [shell EXCEPT !.pc = "close", !.forked = n]
    BY <1>0 DEF Fork, Forked
  <1>5. child.pc = "forked" /\ child.ends = shell.ends
    BY DEF Nobody
  <1> HIDE DEF child
  <1>6. /\ shell'.cmds = shell.cmds /\ shell'.pipes = shell.pipes
        /\ shell'.ends = shell.ends /\ shell'.forked = n
        /\ shell'.pc = "close" /\ shell'.i = n
    BY <1>0, <1>1, <1>4 DEF ShellType
  <1>7. /\ proc'[n].pc = "forked" /\ proc'[n].ends = shell.ends
        /\ \A j \in Positions \ {n} : proc'[j] = proc[j]
    BY <1>1, <1>4, <1>5
  <1>8. HoldsEnds'
    BY <1>1, <1>3, <1>6, <1>7, ForkHolds
  <1>9. Delivers(<<>>)'
    <2> SUFFICES ASSUME NEW j \in 1 .. N
                 PROVE  /\ NotExeced(j)' <=> NotExeced(j)
                        /\ Dead(j)' <=> Dead(j)
                        /\ proc[j].pc = "running" => proc'[j] = proc[j]
      BY <1>1, <1>4, <1>6, StillDelivers
    <2>1. j \in Positions
      BY <1>1, SizeAssumption DEF Positions
    <2>2. CASE j = n
      BY <1>1, <1>6, <1>7, <2>1, <2>2 DEF NotExeced, Dead
    <2>3. CASE j # n
      <3>1. j > n <=> j > n - 1
        BY <2>3
      <3> QED BY <1>1, <1>6, <1>7, <2>1, <2>3, <3>1 DEF NotExeced, Dead
    <2> QED BY <2>2, <2>3
  <1>10. Remaining(shell.i)' \subseteq shell'.ends
    <2>1. Remaining(shell.i)' = Remaining(n)
      BY <1>6 DEF Remaining, N
    <2> QED BY <1>1, <1>6, <2>1
  <1> QED BY <1>2, <1>4, <1>6, <1>8, <1>9, <1>10 DEF FlowInv, OutputAddsUp, AtPrompt

LEMMA FlowOfForkFails ==
    ASSUME ShellInv, FlowInv, ForkFails
    PROVE  FlowInv'
  <1>1. /\ shell.pc = "fork" /\ shell \in ShellType /\ N \in 1 .. CMD_MAX
        /\ shell.i <= N /\ shell.forked = shell.i - 1 /\ shell.i \in Nat \ {0}
    BY ShellTypes DEF ShellInv, Stage, ForkFails
  <1>2. shell.forked < N
    BY <1>1
  <1>3. ~AllForked /\ out' = <<>>
    BY <1>1, <1>2 DEF AllForked, FlowInv, ForkFails
  <1>4. CASE N = 1
    <2>1. shell' = [shell EXCEPT !.pc = "prompt", !.cmds = <<>>]
      BY <1>4 DEF ForkFails
    <2>2. shell'.cmds = <<>> /\ shell'.forked = 0 /\ shell'.pc = "prompt"
      BY <1>1, <1>4, <2>1 DEF ShellType
    <2> QED BY <1>3, <2>2, FlowOfNothing
  <1>5. CASE N # 1
    <2>1. shell' = [shell EXCEPT !.pc = "wait", !.i = 1]
      BY <1>5 DEF ForkFails
    <2>2. shell'.cmds = shell.cmds /\ shell'.forked = shell.forked /\ shell'.pc = "wait"
      BY <1>1, <2>1 DEF ShellType
    <2>3. ~AllForked'
      BY <1>3, <2>2 DEF AllForked, N
    <2> QED BY <1>3, <2>2, <2>3 DEF FlowInv, AtWork, OutputAddsUp, AtPrompt
  <1> QED BY <1>4, <1>5

LEMMA FlowOfClose ==
    ASSUME ShellInv, FlowInv, Close
    PROVE  FlowInv'
  <1>0. PICK n \in Nat \ {0} : n = shell.i
    BY ShellTypes DEF ShellInv
  <1> DEFINE ends == shell.ends \ Unneeded(n)
             pc   == IF n = N THEN "wait" ELSE "fork"
             i    == IF n = N THEN 1 ELSE n + 1
  <1>1. /\ shell.pc = "close" /\ shell \in ShellType /\ N \in 1 .. CMD_MAX
        /\ n <= N /\ shell.forked = n /\ PipesMade /\ AtWork
        /\ Remaining(n) \subseteq shell.ends /\ HoldsEnds /\ Delivers(<<>>)
    BY <1>0, ShellTypes DEF ShellInv, Stage, Close, AtWork, FlowInv
  <1>2. /\ shell' = [shell EXCEPT !.ends = ends, !.pc = pc, !.i = i]
        /\ UNCHANGED <<proc, pipe, out>>
    BY <1>0, <1>1 DEF Close, ShellType
  <1>3. /\ shell'.cmds = shell.cmds /\ shell'.pipes = shell.pipes
        /\ shell'.forked = n /\ shell'.ends = ends /\ shell'.pc = pc /\ shell'.i = i
    <2> HIDE DEF ends, pc, i
    <2> QED BY <1>1, <1>2 DEF ShellType
  <1>4. N' = N /\ Remaining(n + 1)' = Remaining(n + 1)
    BY <1>3 DEF N, Remaining
  <1>5. ASSUME n # N
        PROVE  Remaining(n + 1) \subseteq ends
    <2>1. \A k, l \in 1 .. N - 1 : shell.pipes[k] = shell.pipes[l] => k = l
      BY <1>1 DEF PipesMade, Injection, IsInjective
    <2>2. ASSUME NEW k \in 1 .. N - 1, k >= n + 1 - 1
          PROVE  <<shell.pipes[k], "r">> \in ends
      <3>1. k \in {l \in 1 .. N - 1 : l >= n - 1}
        BY <1>1, <2>2
      <3>2. \A l \in {n - 1} \cap 1 .. N - 1 : shell.pipes[k] # shell.pipes[l]
        BY <1>1, <2>1, <2>2
      <3>3. <<shell.pipes[k], "r">> \notin Unneeded(n)
        BY <3>2 DEF Unneeded
      <3> QED BY <1>1, <3>1, <3>3 DEF Remaining
    <2>3. ASSUME NEW k \in 1 .. N - 1, k >= n + 1
          PROVE  <<shell.pipes[k], "w">> \in ends
      <3>1. k \in {l \in 1 .. N - 1 : l >= n}
        BY <1>1, <2>3
      <3>2. \A l \in {n} \cap 1 .. N - 1 : shell.pipes[k] # shell.pipes[l]
        BY <1>1, <2>1, <2>3
      <3>3. <<shell.pipes[k], "w">> \notin Unneeded(n)
        BY <3>2 DEF Unneeded
      <3> QED BY <1>1, <3>1, <3>3 DEF Remaining
    <2> QED BY <2>2, <2>3 DEF Remaining
  <1> HIDE DEF ends
  <1>6. shell'.pc \in {"fork", "close"} => Remaining(shell.i)' \subseteq shell'.ends
    <2>1. CASE n = N
      BY <1>3, <2>1
    <2>2. CASE n # N
      <3>1. Remaining(shell.i)' = Remaining(n + 1)'
        BY <1>3, <2>2 DEF Remaining
      <3> QED BY <1>3, <1>4, <1>5, <2>2, <3>1
    <2> QED BY <2>1, <2>2
  <1>7. HoldsEnds'
    BY <1>1, <1>2, <1>3, <1>4 DEF HoldsEnds, Live
  <1>8. Delivers(<<>>)'
    <2>1. \A j : (NotExeced(j)' <=> NotExeced(j)) /\ (Dead(j)' <=> Dead(j))
      BY <1>1, <1>2, <1>3 DEF NotExeced, Dead
    <2> QED BY <1>1, <1>2, <1>3, <2>1, StillDelivers
  <1>9. out = out' /\ (~AllForked' => out = <<>>)
    BY <1>1, <1>2, <1>3, <1>4 DEF FlowInv, AllForked
  <1> QED BY <1>3, <1>6, <1>7, <1>8, <1>9 DEF FlowInv, OutputAddsUp, AtPrompt

\* waitpid() has returned for the child at n, which has ended if it was forked.
LEMMA FlowOfWaited ==
    ASSUME ShellInv, FlowInv, shell.pc = "wait", NEW n \in Nat, n = shell.i,
           NEW status, shell' = Waited(status), UNCHANGED <<pipe, out>>,
           n <= shell.forked => proc[n].pc = "zombie",
           proc'[n].pc = "none", \A j \in Positions \ {n} : proc'[j] = proc[j]
    PROVE  FlowInv'
  <1> DEFINE pc == IF n = N THEN "prompt" ELSE "wait"
             i  == IF n = N THEN 1 ELSE n + 1
             rc == IF n = N THEN ReturnCode(status) ELSE shell.rc
  <1>1. /\ shell \in ShellType /\ N \in 1 .. CMD_MAX /\ n <= N
        /\ shell.forked \in Nat /\ out \in Seq(Tokens)
    BY ShellTypes DEF ShellInv, Stage, ChildrenOK
  <1>2. shell' = [shell EXCEPT !.pc = pc, !.i = i, !.rc = rc]
    BY <1>1 DEF Waited, IsReported, ShellType
  <1>3. /\ shell'.cmds = shell.cmds /\ shell'.pipes = shell.pipes
        /\ shell'.forked = shell.forked /\ shell'.pc = pc
    <2> HIDE DEF pc, i, rc
    <2> QED BY <1>1, <1>2 DEF ShellType
  <1>4. N' = N /\ AllForked' = AllForked /\ Composition' = Composition
    BY <1>3 DEF N, AllForked, Composition
  <1>5. CASE ~AllForked
    <2>1. out' = <<>>
      BY <1>5 DEF FlowInv
    <2> QED BY <1>3, <1>4, <1>5, <2>1 DEF FlowInv, AtWork, OutputAddsUp
  <1>6. CASE AllForked
    <2>1. HoldsEnds /\ Delivers(<<>>) /\ shell.forked = N
      BY <1>6 DEF FlowInv, AtWork, AllForked
    <2>2. HoldsEnds'
      <3> SUFFICES ASSUME NEW j \in Positions, proc'[j].pc \in {"forked", "running"}
                   PROVE  /\ j < N => <<shell.pipes[j], "w">> \in proc'[j].ends
                          /\ j > 1 => <<shell.pipes[j - 1], "r">> \in proc'[j].ends
        BY <1>3, <1>4 DEF HoldsEnds, Live
      <3>1. proc'[j] = proc[j]
        OBVIOUS
      <3> QED BY <2>1, <3>1 DEF HoldsEnds, Live
    <2>3. Delivers(<<>>)'
      <3> SUFFICES ASSUME NEW j \in 1 .. N
                   PROVE  /\ NotExeced(j)' <=> NotExeced(j)
                          /\ Dead(j)' <=> Dead(j)
                          /\ proc[j].pc = "running" => proc'[j] = proc[j]
        BY <1>3, <2>1, StillDelivers
      <3>1. j \in Positions /\ ~(j > shell.forked)
        BY <1>1, <2>1, SizeAssumption DEF Positions
      <3>2. j = n => proc[j].pc = "zombie" /\ proc'[j].pc = "none"
        BY <1>1, <2>1
      <3> QED BY <1>3, <3>1, <3>2 DEF NotExeced, Dead
    <2>4. ASSUME n = N
          PROVE  out' = Composition
      <3>1. Dead(N)
        BY <1>1, <2>1, <2>4 DEF Dead, NotExeced
      <3>2. out = Promised(<<>>)
        BY <1>1, <2>1, <3>1, AllDelivered
      <3>3. Composition \in Seq(Tokens)
        BY <1>1, ComposedType DEF Composition, ShellType
      <3>4. Promised(<<>>) = Composition
        BY <3>3 DEF Promised
      <3> QED BY <3>2, <3>4
    <2> QED BY <1>3, <1>4, <1>6, <2>2, <2>3, <2>4
            DEF FlowInv, OutputAddsUp, AtPrompt
  <1> QED BY <1>5, <1>6

LEMMA FlowOfWait ==
    ASSUME ShellInv, FlowInv, Wait
    PROVE  FlowInv'
  <1>1. PICK n \in Nat : n = shell.i
    BY ShellTypes DEF ShellInv
  <1>2. /\ shell.pc = "wait" /\ proc[n].pc = "zombie" /\ n \in Positions
        /\ proc \in [Positions -> ChildType(Statuses)]
        /\ proc' = [proc EXCEPT ![n] = Nobody] /\ UNCHANGED <<pipe, out>>
    BY <1>1, ShellTypes DEF ShellInv, Wait, Reaped, ShellType
  <1>3. PICK status : status = proc[n].status /\ shell' = Waited(status)
    BY <1>1 DEF Wait
  <1>4. proc'[n].pc = "none" /\ \A j \in Positions \ {n} : proc'[j] = proc[j]
    <2>1. Nobody.pc = "none"
      BY DEF Nobody
    <2> QED BY <1>2, <2>1
  <1> QED BY <1>1, <1>2, <1>3, <1>4, FlowOfWaited

LEMMA FlowOfWaitFails ==
    ASSUME ShellInv, FlowInv, WaitFails
    PROVE  FlowInv'
  <1>1. PICK n \in Nat : n = shell.i
    BY ShellTypes DEF ShellInv
  <1>2. PICK garbage \in Statuses : shell' = Waited(garbage)
    BY DEF WaitFails
  <1>3. /\ shell.pc = "wait" /\ n > shell.forked /\ n \in Positions
        /\ UNCHANGED <<proc, pipe, out>> /\ shell.forked \in Nat
    BY <1>1, ShellTypes DEF ShellInv, WaitFails, ShellType
  <1>4. proc[n].pc = "none" /\ ~(n <= shell.forked)
    BY <1>3 DEF ShellInv, Stage
  <1> QED BY <1>1, <1>2, <1>3, <1>4, FlowOfWaited

\* A child is one of those that were forked.
LEMMA ChildWasForked ==
    ASSUME ShellInv, NEW i \in Positions, proc[i].pc # "none"
    PROVE  /\ i \in 1 .. N /\ i <= shell.forked /\ LineShape /\ PipesMade
           /\ i = N => AtWork
           /\ shell.pc \in {"fork", "close", "wait"}
  <1>1. i \in 1 .. N /\ LineShape /\ PipesMade /\ shell.pc \in {"fork", "close", "wait"}
    BY ChildOfLine DEF ShellInv
  <1>2. i <= shell.forked /\ i \in Nat /\ shell.forked \in Nat
    BY ShellTypes DEF ShellInv, Stage, Positions
  <1>3. shell.pc = "wait" => shell.forked <= N
    BY DEF ShellInv, Stage
  <1>4. i = N /\ shell.pc = "wait" => AllForked
    BY <1>1, <1>2, <1>3 DEF AllForked
  <1> QED BY <1>1, <1>2, <1>4 DEF AtWork

LEMMA FlowOfWriteTerminal ==
    ASSUME ShellInv, FlowInv, NEW i \in Positions, WriteTerminal(i)
    PROVE  FlowInv'
  <1>1. proc[i].pc = "running" /\ proc[i].out = Terminal /\ shell' = shell /\ pipe' = pipe
    BY DEF WriteTerminal, Writing, Running
  <1>2. i \in 1 .. N /\ i <= shell.forked /\ (i = N => AtWork) /\ LineShape /\ PipesMade
        /\ shell.pc \in {"fork", "close", "wait"}
    BY <1>1, ChildWasForked
  <1>3. i = N
    <2>1. Stdout(i) = Terminal
      BY <1>1 DEF ShellInv, Family, Connected
    <2> QED BY <1>2, <2>1, StdTypes
  <1>4. Working(Statuses, ERR_EXEC_CMD) /\ Delivers(<<>>) /\ AtWork
    BY <1>2, <1>3, NowWorking DEF FlowInv
  <1>5. HoldsEnds' /\ Delivers(<<>>)'
    <2>1. <<>> \in Seq(Tokens)
      OBVIOUS
    <2> QED BY <1>2, <1>4, <2>1, PrintDelivers DEF WriteTerminal
  <1>6. AllForked'
    BY <1>1, <1>2, <1>3, <1>4 DEF AllForked, N, Working
  <1>7. Remaining(shell.i)' = Remaining(shell.i)
    BY <1>1 DEF Remaining, N
  <1> QED BY <1>1, <1>2, <1>5, <1>6, <1>7 DEF FlowInv, OutputAddsUp, AtPrompt

LEMMA FlowOfProgram ==
    ASSUME OnTerminal, ShellInv, FlowInv, NEW i \in Positions, NEW ended,
           Child(i, Residue, ERR_EXEC_CMD, ended)
    PROVE  FlowInv'
  <1>1. proc[i].pc # "none"
    BY DEF Child, Exec, WritePipe, Sigpipe, ReadPipe, ReadEnd, ExitProg, Writing,
           Reading, Running
  <1>2. /\ i \in 1 .. N /\ i <= shell.forked /\ LineShape /\ PipesMade
        /\ shell.pc \in {"fork", "close", "wait"}
    BY <1>1, ChildWasForked
  <1>3. UNCHANGED <<shell, out>>
    BY DEF Child, Exec, WritePipe, Sigpipe, ReadPipe, ReadEnd, ExitProg, Die
  <1>4. Residue = Said(i, <<>>)
    BY DEF Residue, Said
  <1>5. AtWork => HoldsEnds' /\ Delivers(<<>>)'
    <2> SUFFICES ASSUME AtWork
                 PROVE  HoldsEnds' /\ Delivers(<<>>)'
      OBVIOUS
    <2>1. Working(Statuses, ERR_EXEC_CMD) /\ Delivers(<<>>) /\ <<>> \in Seq(Tokens)
      BY NowWorking DEF FlowInv
    <2>2. Child(i, Said(i, <<>>), ERR_EXEC_CMD, ended)
      BY <1>4
    <2> QED BY <1>2, <1>3, <2>1, <2>2, ChildDelivers
  <1>6. /\ Remaining(shell.i)' = Remaining(shell.i) /\ AllForked' = AllForked
        /\ AtWork' = AtWork
    BY <1>3 DEF Remaining, N, AllForked, AtWork
  <1> QED BY <1>2, <1>3, <1>5, <1>6 DEF FlowInv, OutputAddsUp, AtPrompt

\* Steps that leave the line alone.
LEMMA FlowKept ==
    ASSUME FlowInv, shell'.cmds = shell.cmds, shell'.forked = shell.forked,
           \/ shell' = shell
           \/ shell.pc = "prompt" /\ shell'.pc = "done",
           UNCHANGED <<proc, pipe, out>>
    PROVE  FlowInv'
  <1>1. N' = N /\ AllForked' = AllForked /\ Composition' = Composition
    BY DEF N, AllForked, Composition
  <1>2. CASE shell' = shell
    <2>1. Remaining(shell.i)' = Remaining(shell.i) /\ AtWork' = AtWork
      BY <1>1, <1>2 DEF Remaining, N, AtWork
    <2>2. HoldsEnds => HoldsEnds'
      BY <1>1, <1>2 DEF HoldsEnds, Live
    <2>3. Delivers(<<>>) => Delivers(<<>>)'
      <3>1. \A j : (NotExeced(j)' <=> NotExeced(j)) /\ (Dead(j)' <=> Dead(j))
        BY DEF NotExeced, Dead
      <3> QED BY <1>2, <3>1, StillDelivers
    <2> QED BY <1>1, <1>2, <2>1, <2>2, <2>3 DEF FlowInv, OutputAddsUp, AtPrompt
  <1>3. CASE shell.pc = "prompt" /\ shell'.pc = "done"
    BY <1>1, <1>3 DEF FlowInv, OutputAddsUp, AtPrompt, AtWork
  <1> QED BY <1>2, <1>3

LEMMA FlowInvStep ==
    ASSUME OnTerminal
    PROVE  ShellInv /\ FlowInv /\ [Next]_vars => FlowInv'
  <1> SUFFICES ASSUME ShellInv, FlowInv, [Next]_vars
               PROVE  FlowInv'
    OBVIOUS
  <1>1. CASE \E line \in Lines : ReadLine(line)
    BY <1>1, FlowOfReadLine
  <1>2. CASE EndOfInput
    <2>1. /\ shell \in ShellType /\ shell.pc = "prompt"
          /\ shell' = [shell EXCEPT !.pc = "done"] /\ UNCHANGED <<proc, pipe, out>>
      BY <1>2, ShellTypes DEF EndOfInput, ShellInv
    <2>2. /\ shell'.pc = "done" /\ shell'.cmds = shell.cmds
          /\ shell'.forked = shell.forked
      BY <2>1 DEF ShellType
    <2> QED BY <2>1, <2>2, FlowKept
  <1>3. CASE ShellStep
    BY <1>3, FlowOfMakePipes, FlowOfFork, FlowOfForkFails, FlowOfClose, FlowOfWait,
       FlowOfWaitFails DEF ShellStep
  <1>4. CASE \E i \in Positions : ChildStep(i)
    <2> DEFINE ended == TRUE
    <2>1. \E i \in Positions : WriteTerminal(i) \/ Child(i, Residue, ERR_EXEC_CMD, ended)
      BY <1>4 DEF ChildStep
    <2> HIDE DEF ended
    <2> QED BY <2>1, FlowOfWriteTerminal, FlowOfProgram
  <1>5. CASE UNCHANGED vars
    BY <1>5, FlowKept DEF vars
  <1> QED BY <1>1, <1>2, <1>3, <1>4, <1>5 DEF Next

\* However the shell and the programs interleave, whatever the pipes hold and
\* whichever programs are killed or never forked, what has been printed at the
\* prompt after a line of at most CMD_MAX commands is the composition of these,
\* all of it and nothing else, or nothing if the last program was not forked.
THEOREM OutputComposes ==
    ASSUME OnTerminal
    PROVE  Spec => []OutputIsComposition
  <1>1. FlowInv => OutputIsComposition
    BY DEF FlowInv, OutputAddsUp, OutputIsComposition
  <1>2. ShellInv /\ FlowInv /\ [Next]_vars => FlowInv'
    BY FlowInvStep
  <1> QED BY <1>1, <1>2, ShellInvariant, FlowInitially, PTL DEF Spec
=============================================================================
