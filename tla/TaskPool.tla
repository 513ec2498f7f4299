------------------------------ MODULE TaskPool ------------------------------
(***************************************************************************)
(* What the task queue and its worker threads promise to the main thread:  *)
(* a task that is accepted is run by exactly one worker, tasks are started *)
(* in the order they were accepted, and once the pool is closed nothing    *)
(* more is accepted but everything accepted is still run.                  *)
(*                                                                         *)
(* TaskQueue (mutex, condition variable, linked list) implements it.       *)
(***************************************************************************)
EXTENDS Naturals, Sequences

CONSTANTS Workers,  \* the worker threads
          Tasks,    \* the addresses a task can have
          NULL      \* "no task"

VARIABLES pending,    \* the tasks accepted and not started, oldest first
          running,    \* running[w]: the task worker w runs, or NULL
          accepting   \* FALSE once the pool is closed

vars == <<pending, running, accepting>>

Init == /\ pending = <<>>
        /\ running = [w \in Workers |-> NULL]
        /\ accepting = TRUE

\* The address of a task may be used again once the task has been run.
InUse(t) == \/ \E i \in DOMAIN pending : pending[i] = t
            \/ \E w \in Workers : running[w] = t

Submit(t) == /\ accepting
             /\ ~InUse(t)
             /\ pending' = Append(pending, t)
             /\ UNCHANGED <<running, accepting>>

Start(w) == /\ running[w] = NULL
            /\ pending # <<>>
            /\ running' = [running EXCEPT ![w] = Head(pending)]
            /\ pending' = Tail(pending)
            /\ UNCHANGED accepting

Finish(w) == /\ running[w] # NULL
             /\ running' = [running EXCEPT ![w] = NULL]
             /\ UNCHANGED <<pending, accepting>>

Close == /\ accepting
         /\ accepting' = FALSE
         /\ UNCHANGED <<pending, running>>

Next == \/ \E t \in Tasks : Submit(t)
        \/ \E w \in Workers : Start(w) \/ Finish(w)
        \/ Close

SafeSpec == Init /\ [][Next]_vars

\* An idle worker and a pending task do not wait for each other for ever, and
\* every running task ends.
Spec == /\ SafeSpec
        /\ WF_vars(\E w \in Workers : Start(w))
        /\ \A w \in Workers : WF_vars(Finish(w))
=============================================================================
