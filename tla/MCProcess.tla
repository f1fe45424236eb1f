----------------------------- MODULE MCProcess -----------------------------
(* Instances of Process for TLC. *)
EXTENDS Process, TLC

(* The containers that are not initd's are interchangeable, and so are the *)
(* objects.                                                                *)
Symmetry == Permutations(Proc \ {Initd}) \union Permutations(Res)

(* Programs that create, kill, wait for and end one another. *)
LifeCalls == [p \in Proc |-> {"create", "kill", "wait", "exit"}]

(* The same with threads and objects: one program, Some, waits for those it *)
(* creates, the other has a second thread.  (No symmetry here.)            *)
Some == CHOOSE p \in Proc \ {Initd} : TRUE
TableCalls == [p \in Proc |->
    IF p = Initd     THEN {"create", "kill", "wait", "exit"}
    ELSE IF p = Some THEN {"create", "kill", "wait", "exit", "open"}
    ELSE                  {"kill", "exit", "thread", "open", "close"}]

(* A program with threads that own objects, join and end one another, and  *)
(* a parent that may kill it.                                              *)
ThreadCalls == [p \in Proc |-> IF p = Initd THEN {"create", "kill"}
                               ELSE {"exit", "thread", "cancel", "join",
                                     "open", "close"}]

(* initd creates programs and waits for them; one of them waits too, all    *)
(* of them end.  (No symmetry here.)                                       *)
LiveCalls == [p \in Proc |-> IF p = Initd THEN {"create", "wait"}
                             ELSE IF p = Some THEN {"wait", "exit"}
                             ELSE {"exit"}]

(* The calls of the runs that show what the code does against its docs. *)
TimeoutCalls == [p \in Proc |-> IF p = Initd THEN {"create", "wait"}
                                ELSE {"thread", "exit"}]
SelfCalls    == [p \in Proc |-> IF p = Initd THEN {"create"}
                                ELSE {"kill", "thread", "exit"}]
=============================================================================
