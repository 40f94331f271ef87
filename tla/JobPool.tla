------------------------------- MODULE JobPool --------------------------------
(***************************************************************************)
(* What connection_pool.BoundedPool promises: jobs are started in the      *)
(* order in which they were accepted, each of them once, with a bounded    *)
(* number waiting; waitIdle returns, and deinit stops the pool, only when  *)
(* nothing waits and nothing runs.                                         *)
(***************************************************************************)
EXTENDS Integers, Sequences, FiniteSets

CONSTANTS Jobs, Cap, NWorkers

VARIABLES
  phase,     \* "open", "waiting" (in waitIdle), "draining" (deinit), "stopped"
  queue,     \* accepted jobs that have not been started
  running,
  done

jpVars == <<phase, queue, running, done>>

Quiet == queue = <<>> /\ running = {}

JPInit ==
  /\ phase = "open"
  /\ queue = <<>>
  /\ running = {}
  /\ done = {}

Accept ==
  /\ phase \in {"open", "waiting"}
  /\ Len(queue) < Cap
  /\ \E j \in Jobs \ (running \cup done) :
       /\ \A i \in 1 .. Len(queue) : queue[i] # j
       /\ queue' = Append(queue, j)
  /\ UNCHANGED <<phase, running, done>>

Start ==
  /\ queue # <<>>
  /\ Cardinality(running) < NWorkers
  /\ running' = running \cup {Head(queue)}
  /\ queue' = Tail(queue)
  /\ UNCHANGED <<phase, done>>

End ==
  /\ \E j \in running : running' = running \ {j} /\ done' = done \cup {j}
  /\ UNCHANGED <<phase, queue>>

Call ==
  /\ phase = "open"
  /\ phase' \in {"waiting", "draining"}
  /\ UNCHANGED <<queue, running, done>>

\* waitIdle returns, deinit goes on to stop the workers, or init gives up.
Settle ==
  /\ Quiet
  /\ \/ phase = "waiting" /\ phase' = "open"
     \/ phase \in {"open", "draining"} /\ phase' = "stopped"
  /\ UNCHANGED <<queue, running, done>>

JPNext == Accept \/ Start \/ End \/ Call \/ Settle

JPSpec == JPInit /\ [][JPNext]_jpVars
=============================================================================
