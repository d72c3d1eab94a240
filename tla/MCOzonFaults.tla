---------------------------- MODULE MCOzonFaults ----------------------------
(* OzonSync in three environments, of which a behaviour has one: with all  *)
(* that the constants of the .cfg file allow it is too large.  OzonSync    *)
(* looks at the number of restarts only to bound it, so the number that a  *)
(* behaviour begins with can tell its environment: 0, 1 or 3.              *)
EXTENDS OzonSync

\* OzonSync with r restarts before it, and with a database that works.
After(r) == INSTANCE OzonSync WITH restarts <- restarts - r
Works == INSTANCE OzonSync WITH DbFaults <- FALSE

\* No thread begins the operation whose first step leads to this pc.
Never(start) == \A t \in Thread : pc'[t] # start

\* A user resets syncs, so that two runs can be alive at once.
Resets == /\ Never("wipe_db") /\ Never("stop_progress") /\ Never("free")
          /\ mainPc' = "up"
          /\ Works!Next

\* Statements fail, and the process dies and is started again.
Faults == /\ Never("stop_progress") /\ Never("rst_progress")
          /\ mainPc' # "stopping" /\ restarts' < 3

\* A user stops syncs, and the process is shut down and started again.
Stops == /\ Never("wipe_db") /\ Never("rst_progress")
         /\ Works!Next

MCInit == \E r \in {0, 1, 3} : restarts = r /\ After(r)!Init

MCSpec == MCInit /\ [][Next]_vars /\ Fairness

\* What a step may do in its environment.  Where a thread or a run can take a
\* step, it can in every environment.
Narrowed == CASE restarts = 0 -> Resets
              [] restarts \in {1, 2} -> Faults
              [] OTHER -> Stops
=============================================================================
