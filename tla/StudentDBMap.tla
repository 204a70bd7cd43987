---------------------------- MODULE StudentDBMap ----------------------------
(***************************************************************************)
(* The refinement mapping from the program to StudentStore: the store is   *)
(* what the slots of student.db hold, and a process has answered once      *)
(* main() has nothing left to do but close and exit.                       *)
(***************************************************************************)
EXTENDS StudentDB

StoredIds == {k \in 1 .. MAX_STD_ID :
                 k < Len(Database) /\ Database[k + 1] # EMPTY_STUDENT_RECORD}

store == [i \in StoredIds |-> Database[i + 1].gpa]

\* A scan's partial count and partial listing are not its answer.
call == [p \in Procs |->
    LET answered == At(p, "done") IN
    [phase |-> CASE At(p, "idle") -> "idle" [] answered -> "done"
                 [] OTHER -> "pending",
     argv  |-> proc[p].argv,
     exit  |-> IF answered THEN proc[p].exit_code ELSE 0,
     seen  |-> IF answered THEN proc[p].seen ELSE {},
     count |-> IF answered THEN proc[p].count ELSE 0]]

Store == INSTANCE StudentStore
            WITH Ids <- MIN_STD_ID .. MAX_STD_ID,
                 Gpas <- MIN_STD_GPA .. MAX_STD_GPA

\* With one process at a time, and without -x, every behaviour of the program
\* is one of the map's: -a, -d, -f, -c, -p and -z answer as the map would, and
\* a process that is killed has done its whole update or nothing.
ImplementsStore == Store!StoreSpec
=============================================================================
