--------------------------- MODULE ShellVersions ---------------------------
(***************************************************************************)
(* The first and the second shell given the same lines.  The second one    *)
(* also runs them; both keep what earlier lines left.                      *)
(***************************************************************************)
EXTENDS CmdList, Splitting

CONSTANTS CMD_ARGV_MAX, ForkFaults,
          Lines,            \* the lines users type
          MaxLines,         \* bound: how many of them
          ArgLists          \* arguments of which users type the quoted form

VARIABLES sh, child,
          typed             \* how many lines have been typed

B == INSTANCE CmdBuff

allvars == <<list, sh, child, typed>>

\* The characters users type.
Typeable == UNION {Range(line) : line \in Lines}

ASSUME BuffAssumption == CMD_ARGV_MAX \in Nat \ {0, 1} /\ ForkFaults \in BOOLEAN
ASSUME LineAssumption == /\ Lines \subseteq Seq(Typeable) /\ NUL \notin Typeable
                         /\ \A line \in Lines : Len(line) < ARG_MAX - 1
                         /\ MaxLines \in Nat
\* A quote cannot be quoted.
ASSUME ArgAssumption  == ArgLists \subseteq Seq(Seq(Typeable \ {B!QUOTE}))
Init == ListInit /\ B!BuffInit /\ typed = 0

ReadLine(line) == /\ typed < MaxLines /\ typed' = typed + 1
                  /\ ListReadLine(line) /\ B!BuffReadLine(line)

EndOfInput == ListEndOfInput /\ B!BuffEndOfInput /\ UNCHANGED typed

RunProgram == B!BuffStep /\ UNCHANGED <<list, typed>>

Next == (\E line \in Lines : ReadLine(line)) \/ EndOfInput \/ RunProgram

\* The kernel runs the second shell and its child; users need not type.
Spec     == Init /\ [][Next]_allvars
FairSpec == Spec /\ WF_allvars(RunProgram)
----------------------------------------------------------------------------
(* What a line holds, by position. *)

Piece(s, w) == SubSeq(s, w[1], w[2])

\* A command: its first word, and what is between its second and its last.
NameAndArgs(segment) ==
    LET words == Pieces(segment, Space) IN
    [exe  |-> IF words = <<>> THEN <<>> ELSE Piece(segment, words[1]),
     args |-> IF Len(words) < 2 THEN <<>>
              ELSE SubSeq(segment, words[2][1], words[Len(words)][2])]

Segments == LET pieces == Pieces(list.line, Pipe)
            IN [k \in DOMAIN pieces |-> Piece(list.line, pieces[k])]

Commands == LET segments == Segments
            IN [k \in DOMAIN segments |-> NameAndArgs(segments[k])]

\* Names that leave exe its terminator.
NamesFit(commands) == \A k \in DOMAIN commands :
                        Len(commands[k].exe) < EXE_MAX - 1

\* There is a command, and each has a name.
NoneBlank(commands) == /\ commands # <<>>
                       /\ \A k \in DOMAIN commands : commands[k].exe # <<>>

\* An argument as it is typed: between quotes when it needs them.
Quoted(arg) == IF arg = <<>> \/ \E k \in DOMAIN arg : arg[k] \in B!isspace
               THEN <<B!QUOTE>> \o arg \o <<B!QUOTE>> ELSE arg

\* The first n arguments, with a blank between two of them; and all.
TypedTo(arguments, n) ==
    LET line[k \in 0 .. Len(arguments)] ==
            IF k = 0 THEN <<>>
            ELSE line[k - 1] \o (IF k = 1 THEN <<>> ELSE <<" ">>)
                             \o Quoted(arguments[k])
    IN  line[n]
Typed(arguments) == TypedTo(arguments, Len(arguments))

TypedForm == [arguments \in ArgLists |-> Typed(arguments)]

UpToLimit(arguments) ==
    SubSeq(arguments, 1, IF Len(arguments) < CMD_ARGV_MAX THEN Len(arguments)
                                                      ELSE CMD_ARGV_MAX - 1)
----------------------------------------------------------------------------
(* Properties. *)

\* Type invariant: both shells' return codes, the sizes of their lists, and that
\* a command to be run has a name.
TypeOK ==
    /\ list.pc \in {"prompt", "done"} /\ list.num \in 0 .. CMD_MAX
    /\ list.rc \in {OK, WARN_NO_CMDS, ERR_TOO_MANY_COMMANDS}
    /\ sh.pc \in {"prompt", "fork", "wait", "done"}
    /\ sh.rc \in {OK, WARN_NO_CMDS, B!OK_EXIT}
    /\ sh.rc = OK /\ typed > 0 => sh.argv # <<>>
    /\ sh.last_return_code \in -1 .. 255
    /\ child.pc \in {"none", "running", "zombie", "reaped"}

\* What the first shell prints is the line's commands, whatever was in the list
\* before, with their spaces removed, or an error for too many (dshlib.c lines
\* 38-87, dsh_cli.c lines 72-87).  Lines with a blank command, which the code
\* counts and prints as an empty one although dsh_cli.c lines 33 and 41 call for
\* a warning, are left out.
ListIsLine ==
    LET commands == Commands IN
    (/\ list.pc = "prompt" /\ typed > 0 /\ NamesFit(commands)
     /\ list.line = <<>> \/ NoneBlank(commands)) =>
        /\ list.rc = IF list.line = <<>> THEN WARN_NO_CMDS
                     ELSE IF Len(commands) > CMD_MAX THEN ERR_TOO_MANY_COMMANDS
                     ELSE OK
        /\ list.rc = OK => Shown = commands

\* The arguments lie in the buffer one behind the other, each with its own
\* terminator, and leave argv room for its NULL (lines 96-136).
ArgsApart ==
    /\ Len(sh.argv) < CMD_ARGV_MAX
    /\ \A k \in DOMAIN sh.argv :
         /\ sh.argv[k] + Len(B!Args[k]) <= Len(sh.buffer)
         /\ k > 1 => sh.argv[k - 1] + Len(B!Args[k - 1]) < sh.argv[k]

\* Arguments typed between quotes where they need them are the arguments the
\* program gets, empty ones and blanks included, up to the limit of argv.
RoundTrip ==
    \A arguments \in ArgLists :
        sh.line = TypedForm[arguments] =>
            B!Args = UpToLimit(arguments)

\* On a line without pipes, quotes and tabs the two shells find the same words.
ParsersAgree ==
    (/\ sh.rc = OK /\ list.line = sh.line /\ list.num = 1 /\ NamesFit(Commands)
     /\ \A k \in DOMAIN sh.line : sh.line[k] \notin {"|", B!QUOTE, "TAB"}) =>
        LET rest  == args(list.commands[1])
            words == Pieces(rest, Space)
        IN B!Args = UpToLimit(<<exe(list.commands[1])>> \o
                              [k \in DOMAIN words |-> Piece(rest, words[k])])

\* At the prompt, the last return code is that of the last program that was
\* started, -1 if it was killed, whatever built-ins, blank lines and failing
\* fork()s came after it (lines 274-297).
CodeOfProgram ==
    (sh.pc = "prompt" /\ child.pc # "none") =>
        /\ child.pc = "reaped"
        /\ sh.last_return_code = CASE child.name = <<"a">> -> 0
                                   [] child.name = <<"b">> -> 3
                                   [] child.name = <<"k">> -> -1
                                   [] OTHER -> 2

\* Every command is followed by a prompt.
PromptReturns == (sh.pc = "fork") ~> (sh.pc = "prompt")
=============================================================================
