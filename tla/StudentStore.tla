---------------------------- MODULE StudentStore ----------------------------
(***************************************************************************)
(* What the student database promises its users: a map from ids to gpas    *)
(* that survives from one command to the next.  A command is invoked,      *)
(* takes effect at one instant, and returns an exit code and the students  *)
(* it reports; a process that is killed has had its whole effect or none.  *)
(***************************************************************************)
EXTENDS Integers, FiniteSets

CONSTANTS Procs, Ids, Gpas, Argv, NoArgv

VARIABLES store,    \* the students, as a function from their ids to gpas
          call      \* the command each process is running

svars == <<store, call>>

Nothing == [phase |-> "idle", argv |-> NoArgv, exit |-> 0, seen |-> {},
            count |-> 0]

Students == {[id |-> i, gpa |-> store[i]] : i \in DOMAIN store}

Without(id) == [i \in DOMAIN store \ {id} |-> store[i]]
With(id, gpa) ==
    [i \in DOMAIN store \cup {id} |-> IF i = id THEN gpa ELSE store[i]]

Init == /\ store = << >>
        /\ call = [p \in Procs |-> Nothing]

Invoke(p) ==
    /\ call[p].phase = "idle"
    /\ \E argv \in Argv :
          call' = [call EXCEPT ![p].phase = "pending", ![p].argv = argv]
    /\ UNCHANGED store

Answer(p, exit, seen, count) ==
    call' = [call EXCEPT ![p].phase = "done", ![p].exit = exit,
                         ![p].seen = seen, ![p].count = count]

Effect(p) ==
    LET argv == call[p].argv
        id   == argv.id
        here == id \in DOMAIN store
    IN  \/ /\ argv.opt = "a"
           /\ IF id \notin Ids \/ argv.gpa \notin Gpas
              THEN Answer(p, 2, {}, 0) /\ UNCHANGED store
              ELSE IF here
              THEN Answer(p, 1, {}, 0) /\ UNCHANGED store
              ELSE Answer(p, 0, {}, 0) /\ store' = With(id, argv.gpa)
        \/ /\ argv.opt = "d"
           /\ Answer(p, IF here THEN 0 ELSE 1, {}, 0)
           /\ store' = IF here THEN Without(id) ELSE store
        \/ /\ argv.opt = "f"
           /\ IF here
              THEN Answer(p, 0, {[id |-> id, gpa |-> store[id]]}, 0)
              ELSE Answer(p, 1, {}, 0)
           /\ UNCHANGED store
        \/ /\ argv.opt = "c"
           /\ Answer(p, 0, {}, Cardinality(DOMAIN store))
           /\ UNCHANGED store
        \/ /\ argv.opt = "p"
           /\ Answer(p, 0, Students, 0)
           /\ UNCHANGED store
        \/ /\ argv.opt = "z"
           /\ Answer(p, 0, {}, 0)
           /\ store' = << >>
        \/ /\ argv.opt \in {"h", "-", "?"}
           /\ Answer(p, CASE argv.opt = "h" -> 0 [] argv.opt = "-" -> 1
                          [] OTHER -> 2, {}, 0)
           /\ UNCHANGED store

Perform(p) == call[p].phase = "pending" /\ Effect(p)

\* The command returns, or its process is killed.
Return(p) == /\ call[p].phase # "idle"
             /\ call' = [call EXCEPT ![p] = Nothing]
             /\ UNCHANGED store

Next == \E p \in Procs : Invoke(p) \/ Perform(p) \/ Return(p)

StoreSpec == Init /\ [][Next]_svars
=============================================================================
