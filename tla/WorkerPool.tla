------------------------------ MODULE WorkerPool ------------------------------
(***************************************************************************)
(* The pool of TCP worker threads (server/utils/WorkerPool) with the       *)
(* listener that feeds it (Server::runTcp) and its destruction at the end  *)
(* of main.  Workers share a queue under one mutex and sleep on one        *)
(* condition variable.  Every section under the mutex is one step; waiting *)
(* releases the mutex and goes to sleep in one step, as the C++ standard   *)
(* promises; a sleeping worker may wake up for no reason.                  *)
(***************************************************************************)
EXTENDS Naturals, Sequences, FiniteSets

CONSTANTS Workers, Connections, None

ASSUME WorkersAssumption == IsFiniteSet(Workers) /\ Workers # {}
ASSUME NoneAssumption == None \notin Connections

VARIABLES
  connectionQueue,
  isStopping,
  thread,      \* per worker: "ready" to lock the mutex, "waiting" on the
               \* condition variable, "working", or "done"
  handling,    \* per worker: the connection it handles
  accepted,    \* the connection the listener has accepted and not queued
  leaked,      \* accepted connections that nobody will close
  handled,     \* connections whose handler returned, and which are closed
  listener,    \* "running", "ended" (runTcp returned), or "destroyed" (so is
               \* the pool: its destructor has joined the workers)
  up           \* does the process run?

vars == <<connectionQueue, isStopping, thread, handling, accepted, leaked,
          handled, listener, up>>

States == {"ready", "waiting", "working", "done"}

In(state) == {w \in Workers : thread[w] = state}

Queued == {connectionQueue[i] : i \in 1..Len(connectionQueue)}

InHandler == {handling[w] : w \in In("working")}

(* dispatch has started the workers; each begins by locking the mutex.     *)
Init ==
  /\ connectionQueue = <<>>
  /\ isStopping = FALSE
  /\ thread = [w \in Workers |-> "ready"]
  /\ handling = [w \in Workers |-> None]
  /\ accepted = None
  /\ leaked = {} /\ handled = {}
  /\ listener = "running"
  /\ up = TRUE

-----------------------------------------------------------------------------
(* workerThread. *)

LeavesWhenStopping == isStopping   \* Seeded fault: the queue is not drained.

MustLeave == isStopping /\ connectionQueue = <<>>

QueueKept == connectionQueue   \* Seeded fault: front without pop.

QueueAfterPop == Tail(connectionQueue)

takeConnection(w) ==
  /\ up /\ thread[w] = "ready"
  /\ connectionQueue # <<>> /\ ~MustLeave
  /\ handling' = [handling EXCEPT ![w] = Head(connectionQueue)]
  /\ connectionQueue' = QueueAfterPop
  /\ thread' = [thread EXCEPT ![w] = "working"]
  /\ UNCHANGED <<isStopping, accepted, leaked, handled, listener, up>>

waitForConnection(w) ==
  /\ up /\ thread[w] = "ready"
  /\ connectionQueue = <<>> /\ ~isStopping
  /\ thread' = [thread EXCEPT ![w] = "waiting"]
  /\ UNCHANGED <<connectionQueue, isStopping, handling, accepted, leaked, handled,
                 listener, up>>

spuriousWakeup(w) ==
  /\ up /\ thread[w] = "waiting"
  /\ thread' = [thread EXCEPT ![w] = "ready"]
  /\ UNCHANGED <<connectionQueue, isStopping, handling, accepted, leaked, handled,
                 listener, up>>

leave(w) ==
  /\ up /\ thread[w] = "ready" /\ MustLeave
  /\ thread' = [thread EXCEPT ![w] = "done"]
  /\ UNCHANGED <<connectionQueue, isStopping, handling, accepted, leaked, handled,
                 listener, up>>

(* handleTcpConnection returns after it closed the connection.             *)
finishConnection(w) ==
  /\ up /\ thread[w] = "working"
  /\ handled' = handled \cup {handling[w]}
  /\ handling' = [handling EXCEPT ![w] = None]
  /\ thread' = [thread EXCEPT ![w] = "ready"]
  /\ UNCHANGED <<connectionQueue, isStopping, accepted, leaked, listener, up>>

(* An exception that handleTcpConnection lets through, such as a           *)
(* connection error while it sends the error reply, ends the process.      *)
handlerThrows(w) ==
  /\ up /\ thread[w] = "working"
  /\ up' = FALSE
  /\ UNCHANGED <<connectionQueue, isStopping, thread, handling, accepted, leaked,
                 handled, listener>>

(* A signal without a handler ends the process, whatever the pool does.    *)
killed ==
  /\ up
  /\ up' = FALSE
  /\ UNCHANGED <<connectionQueue, isStopping, thread, handling, accepted, leaked,
                 handled, listener>>

-----------------------------------------------------------------------------
(* runTcp: a connection is accepted, set up and enqueued. *)
Known == Queued \cup InHandler \cup handled \cup leaked

acceptConnection ==
  /\ up /\ listener = "running" /\ accepted = None
  /\ accepted' \in Connections \ Known
  /\ UNCHANGED <<connectionQueue, isStopping, thread, handling, leaked, handled,
                 listener, up>>

(* Seeded fault: the loop goes on when accept has timed out.               *)
IgnoresTimeout == listener = "running"

HasAccepted == accepted # None

(* setupConnection throws: the loop goes on and the connection stays open. *)
setupFails ==
  /\ up /\ accepted # None
  /\ leaked' = leaked \cup {accepted}
  /\ accepted' = None
  /\ UNCHANGED <<connectionQueue, isStopping, thread, handling, handled, listener, up>>

PushedInFront(c) == <<c>> \o connectionQueue   \* Seeded fault: last in, first out.

QueueAfterPush(c) == Append(connectionQueue, c)

NotifyNone(woken) == thread   \* Seeded fault: the notification is dropped.

(* The woken workers lock the mutex again before they look at the queue.   *)
Notify(woken) ==
  [w \in Workers |-> IF w \in woken THEN "ready" ELSE thread[w]]

(* notify_one wakes one of the sleeping workers, if any.                   *)
enqueueConnection ==
  /\ up /\ HasAccepted
  /\ connectionQueue' = QueueAfterPush(accepted)
  /\ accepted' = None
  /\ \/ In("waiting") = {} /\ UNCHANGED thread
     \/ \E w \in In("waiting") : thread' = Notify({w})
  /\ UNCHANGED <<isStopping, handling, leaked, handled, listener, up>>

(* terminateFlag is set: the loop of runTcp ends once it has enqueued the  *)
(* connection it had accepted.                                             *)
endListener ==
  /\ up /\ listener = "running" /\ accepted = None
  /\ listener' = "ended"
  /\ UNCHANGED <<connectionQueue, isStopping, thread, handling, accepted, leaked,
                 handled, up>>

(* Seeded fault: notify_one where notify_all is needed. *)
OneSleeper == IF In("waiting") = {} THEN {} ELSE {CHOOSE w \in Workers : thread[w] = "waiting"}

Sleepers == In("waiting")

(* ~WorkerPool, after main has joined the listener: every sleeper is woken *)
(* and the workers are joined.                                             *)
stopPool ==
  /\ up /\ listener = "ended" /\ ~isStopping
  /\ isStopping' = TRUE
  /\ thread' = Notify(Sleepers)
  /\ UNCHANGED <<connectionQueue, handling, accepted, leaked, handled, listener, up>>

joinWorkers ==
  /\ up /\ listener = "ended" /\ isStopping
  /\ In("done") = Workers
  /\ listener' = "destroyed"
  /\ UNCHANGED <<connectionQueue, isStopping, thread, handling, accepted, leaked,
                 handled, up>>

-----------------------------------------------------------------------------
worker(w) ==
  takeConnection(w) \/ waitForConnection(w) \/ leave(w) \/ finishConnection(w)

Next ==
  \/ \E w \in Workers : worker(w) \/ spuriousWakeup(w) \/ handlerThrows(w)
  \/ acceptConnection \/ setupFails \/ enqueueConnection
  \/ endListener \/ stopPool \/ joinWorkers \/ killed

Spec == Init /\ [][Next]_vars

-----------------------------------------------------------------------------
TypeOK ==
  /\ connectionQueue \in Seq(Connections)
  /\ isStopping \in BOOLEAN
  /\ thread \in [Workers -> States]
  /\ handling \in [Workers -> Connections \cup {None}]
  /\ accepted \in Connections \cup {None}
  /\ leaked \subseteq Connections /\ handled \subseteq Connections
  /\ listener \in {"running", "ended", "destroyed"}
  /\ up \in BOOLEAN

(* enqueueConnection and workerThread: a connection has one owner at a     *)
(* time (the listener, the queue, one worker, or nobody), so it is never   *)
(* handled twice and its descriptor never closed twice.                    *)
OneOwner ==
  /\ \A i, j \in 1..Len(connectionQueue) :
       connectionQueue[i] = connectionQueue[j] => i = j
  /\ \A v, w \in Workers : handling[v] # None /\ handling[v] = handling[w] => v = w
  /\ Queued \cap (InHandler \cup handled \cup leaked \cup {accepted}) = {}
  /\ InHandler \cap (handled \cup leaked \cup {accepted}) = {}
  /\ handled \cap (leaked \cup {accepted}) = {}
  /\ accepted \notin leaked

(* While a worker sleeps, every queued connection has a worker of its own  *)
(* that is awake and on its way to the queue: no notification is lost.     *)
NoLostWakeup ==
  In("waiting") # {} => Len(connectionQueue) <= Cardinality(In("ready"))

(* ~WorkerPool: a worker leaves only when nothing is left to do, and       *)
(* nothing is enqueued any more; a destroyed pool has handled everything.  *)
DrainedBeforeLeaving ==
  In("done") # {} => isStopping /\ connectionQueue = <<>> /\ accepted = None

(* The pool is a ConnectionService for as many connections at a time as it *)
(* has workers: connections start in the order they came, every one that   *)
(* was enqueued is handled unless the process ends, and none waits for     *)
(* ever next to a sleeping worker.                                         *)
Service ==
  INSTANCE ConnectionService WITH
    Capacity <- Cardinality(Workers), backlog <- connectionQueue,
    begun <- InHandler, ended <- handled

ImplementsService == Service!Spec
=============================================================================
