---------------------------- MODULE TaskService ----------------------------
(***************************************************************************)
(* What the rest of the service relies on when it hands a task to the      *)
(* worker pool: an accepted task is started exactly once, in the order of  *)
(* acceptance, and finishes; a refused one never runs; once the pool is    *)
(* closed nothing more is accepted; and the pool only goes away with all   *)
(* its accepted tasks finished.  WorkerPool implements this specification. *)
(***************************************************************************)
EXTENDS Naturals, Sequences

CONSTANTS Task,       \* the tasks callers may submit
          MaxQueue    \* how many tasks may be waiting

VARIABLES open,       \* tasks are still accepted
          backlog,    \* accepted, not yet started, oldest first
          running,    \* started, not yet finished
          done,       \* finished
          refused,    \* try_submit returned false
          gone        \* the pool has been destroyed

svars == <<open, backlog, running, done, refused, gone>>

InBacklog(t) == \E i \in 1..Len(backlog) : backlog[i] = t

Fresh(t) == t \notin running \cup done \cup refused /\ ~InBacklog(t)

Init == /\ open = TRUE
        /\ backlog = <<>>
        /\ running = {} /\ done = {} /\ refused = {}
        /\ gone = FALSE

Accept(t) == /\ Fresh(t) /\ open /\ Len(backlog) < MaxQueue
             /\ backlog' = Append(backlog, t)
             /\ UNCHANGED <<open, running, done, refused, gone>>

Refuse(t) == /\ Fresh(t) /\ (~open \/ Len(backlog) >= MaxQueue)
             /\ refused' = refused \cup {t}
             /\ UNCHANGED <<open, backlog, running, done, gone>>

Start == /\ backlog # <<>> /\ ~gone
         /\ running' = running \cup {Head(backlog)}
         /\ backlog' = Tail(backlog)
         /\ UNCHANGED <<open, done, refused, gone>>

Finish(t) == /\ t \in running
             /\ running' = running \ {t}
             /\ done' = done \cup {t}
             /\ UNCHANGED <<open, backlog, refused, gone>>

Close == /\ open /\ open' = FALSE
         /\ UNCHANGED <<backlog, running, done, refused, gone>>

Vanish == /\ ~open /\ backlog = <<>> /\ running = {} /\ ~gone
          /\ gone' = TRUE
          /\ UNCHANGED <<open, backlog, running, done, refused>>

Next == \/ \E t \in Task : Accept(t) \/ Refuse(t) \/ Finish(t)
        \/ Start \/ Close \/ Vanish

SafeSpec == Init /\ [][Next]_svars

Spec == /\ SafeSpec
        /\ WF_svars(Start)
        /\ \A t \in Task : WF_svars(Finish(t))
=============================================================================
