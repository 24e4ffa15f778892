----------------------------- MODULE ServerProofs -----------------------------
(***************************************************************************)
(* Safety of the worker pool, for any finite set of workers and any set of *)
(* connections; that the server runs its pool as WorkerPool says, so that  *)
(* what is shown of the pool holds of the pool in the server; and what the *)
(* loops of the listeners do once the signal has come.                     *)
(***************************************************************************)
EXTENDS Server, FiniteSetTheorems, SequenceTheorems, TLAPS

(* A worker has a connection exactly while it handles it. *)
WorkingHandles ==
  \A w \in Workers : thread[w] = "working" <=> handling[w] # None

TypeInv == TypeOK /\ WorkingHandles

LEMMA TypeStep ==
  ASSUME TypeInv, [Next]_vars
  PROVE  TypeInv'
<1> USE NoneAssumption DEF TypeInv, TypeOK, WorkingHandles, States
<1>1. ASSUME NEW w \in Workers, takeConnection(w) PROVE TypeInv'
  <2>1. Head(connectionQueue) \in Connections /\ Tail(connectionQueue) \in Seq(Connections)
    BY <1>1, HeadTailProperties DEF takeConnection
  <2> QED BY <1>1, <2>1 DEF takeConnection, QueueAfterPop
<1>2. ASSUME NEW w \in Workers,
             waitForConnection(w) \/ spuriousWakeup(w) \/ leave(w) \/ handlerThrows(w)
      PROVE  TypeInv'
  BY <1>2 DEF waitForConnection, spuriousWakeup, leave, handlerThrows
<1>3. ASSUME NEW w \in Workers, finishConnection(w) PROVE TypeInv'
  BY <1>3 DEF finishConnection
<1>4. ASSUME acceptConnection \/ setupFails \/ endListener \/ joinWorkers \/ killed
      PROVE  TypeInv'
  BY <1>4 DEF acceptConnection, setupFails, endListener, joinWorkers, killed
<1>5. ASSUME enqueueConnection PROVE TypeInv'
  <2>1. connectionQueue' \in Seq(Connections)
    BY <1>5, AppendProperties DEF enqueueConnection, HasAccepted, QueueAfterPush
  <2> QED BY <1>5, <2>1 DEF enqueueConnection, Notify, In
<1>6. ASSUME stopPool PROVE TypeInv'
  BY <1>6 DEF stopPool, Notify, Sleepers, In
<1>7. CASE UNCHANGED vars
  BY <1>7 DEF vars
<1> QED BY <1>1, <1>2, <1>3, <1>4, <1>5, <1>6, <1>7 DEF Next, worker

LEMMA TypeInvariant == Spec => []TypeInv
<1>1. Init => TypeInv
  BY EmptySeq DEF Init, TypeInv, TypeOK, WorkingHandles, States
<1>2. TypeInv /\ [Next]_vars => TypeInv'
  BY TypeStep
<1> QED BY <1>1, <1>2, PTL DEF Spec

(* The state of the pool has its type in every reachable state. *)
THEOREM TypeCorrect == Spec => []TypeOK
<1>1. TypeInv => TypeOK
  BY DEF TypeInv
<1> QED BY <1>1, TypeInvariant, PTL

-----------------------------------------------------------------------------
(* The pool is stopped only after the listener, which leaves nothing that  *)
(* it has accepted and not enqueued.                                       *)
ListenerFirst ==
  /\ listener # "running" => accepted = None
  /\ isStopping => listener # "running"

LEMMA DrainedStep ==
  ASSUME TypeInv, ListenerFirst, DrainedBeforeLeaving, [Next]_vars
  PROVE  ListenerFirst' /\ DrainedBeforeLeaving'
<1> USE DEF TypeInv, TypeOK, ListenerFirst, DrainedBeforeLeaving, In
<1>1. ASSUME NEW w \in Workers, takeConnection(w)
      PROVE  ListenerFirst' /\ DrainedBeforeLeaving'
  BY <1>1 DEF takeConnection
<1>2. ASSUME NEW w \in Workers,
             waitForConnection(w) \/ spuriousWakeup(w) \/ handlerThrows(w)
      PROVE  ListenerFirst' /\ DrainedBeforeLeaving'
  BY <1>2 DEF waitForConnection, spuriousWakeup, handlerThrows
<1>3. ASSUME NEW w \in Workers, leave(w)
      PROVE  ListenerFirst' /\ DrainedBeforeLeaving'
  BY <1>3 DEF leave, MustLeave
<1>4. ASSUME NEW w \in Workers, finishConnection(w)
      PROVE  ListenerFirst' /\ DrainedBeforeLeaving'
  BY <1>4 DEF finishConnection
<1>5. ASSUME acceptConnection \/ setupFails \/ endListener \/ joinWorkers \/ killed
      PROVE  ListenerFirst' /\ DrainedBeforeLeaving'
  BY <1>5 DEF acceptConnection, setupFails, endListener, joinWorkers, killed
<1>6. ASSUME enqueueConnection PROVE ListenerFirst' /\ DrainedBeforeLeaving'
  BY <1>6 DEF enqueueConnection, HasAccepted, Notify
<1>7. ASSUME stopPool PROVE ListenerFirst' /\ DrainedBeforeLeaving'
  BY <1>7 DEF stopPool, Notify
<1>8. CASE UNCHANGED vars
  BY <1>8 DEF vars
<1> QED BY <1>1, <1>2, <1>3, <1>4, <1>5, <1>6, <1>7, <1>8 DEF Next, worker

(* ~WorkerPool: a worker leaves only a stopped pool with an empty queue,   *)
(* and after that nothing is enqueued.                                     *)
THEOREM NothingLeftBehind == Spec => []DrainedBeforeLeaving
<1>1. Init => ListenerFirst /\ DrainedBeforeLeaving
  BY DEF Init, ListenerFirst, DrainedBeforeLeaving, In
<1>2. /\ TypeInv /\ ListenerFirst /\ DrainedBeforeLeaving /\ [Next]_vars
      => (ListenerFirst /\ DrainedBeforeLeaving)'
  BY DrainedStep
<1> QED BY <1>1, <1>2, TypeInvariant, PTL DEF Spec

-----------------------------------------------------------------------------
(* How many workers are awake after a step. *)
LEMMA ReadyFinite ==
  ASSUME NEW f, NEW state
  PROVE  LET S == {w \in Workers : f[w] = state} IN
         IsFiniteSet(S) /\ Cardinality(S) \in Nat
BY WorkersAssumption, FS_Subset, FS_CardinalityType

LEMMA WakeupStep ==
  ASSUME TypeInv, NoLostWakeup, [Next]_vars
  PROVE  NoLostWakeup'
<1>1. /\ IsFiniteSet(In("ready")) /\ Cardinality(In("ready")) \in Nat
      /\ IsFiniteSet(In("ready")') /\ Cardinality(In("ready")') \in Nat
  BY ReadyFinite DEF In
<1>2. Len(connectionQueue) \in Nat
  BY LenProperties DEF TypeInv, TypeOK
<1>t. thread \in [Workers -> States]
  BY DEF TypeInv, TypeOK
<1>3. ASSUME NEW w \in Workers, takeConnection(w) PROVE NoLostWakeup'
  <2>1. Len(connectionQueue') = Len(connectionQueue) - 1
    BY <1>3, HeadTailProperties DEF takeConnection, QueueAfterPop, TypeInv, TypeOK
  <2>2. In("ready")' = In("ready") \ {w} /\ w \in In("ready")
    BY <1>3, <1>t DEF takeConnection, In, States
  <2>3. In("waiting")' = In("waiting")
    BY <1>3, <1>t DEF takeConnection, In, States
  <2>4. Cardinality(In("ready")') = Cardinality(In("ready")) - 1
    BY <1>1, <2>2, FS_RemoveElement
  <2> QED BY <1>1, <1>2, <2>1, <2>3, <2>4 DEF NoLostWakeup
<1>4. ASSUME NEW w \in Workers, waitForConnection(w) \/ leave(w) PROVE NoLostWakeup'
  <2>1. Len(connectionQueue') = 0
    BY <1>4 DEF waitForConnection, leave, MustLeave
  <2> QED BY <1>1, <2>1 DEF NoLostWakeup
<1>5. ASSUME NEW w \in Workers, spuriousWakeup(w) \/ finishConnection(w)
      PROVE  NoLostWakeup'
  <2>1. /\ In("ready")' = In("ready") \cup {w} /\ w \notin In("ready")
        /\ In("waiting")' \subseteq In("waiting")
        /\ connectionQueue' = connectionQueue
    BY <1>5, <1>t DEF spuriousWakeup, finishConnection, In, States
  <2>2. Cardinality(In("ready")') = Cardinality(In("ready")) + 1
    BY <1>1, <2>1, FS_AddElement
  <2> QED BY <1>1, <1>2, <2>1, <2>2 DEF NoLostWakeup
<1>6. ASSUME enqueueConnection PROVE NoLostWakeup'
  <2>1. Len(connectionQueue') = Len(connectionQueue) + 1
    BY <1>6, AppendProperties
    DEF enqueueConnection, HasAccepted, QueueAfterPush, TypeInv, TypeOK
  <2>2. CASE In("waiting") = {} /\ UNCHANGED thread
    BY <2>2 DEF NoLostWakeup, In
  <2>3. ASSUME NEW w \in In("waiting"), thread' = Notify({w})
        PROVE  NoLostWakeup'
    <3>1. /\ In("ready")' = In("ready") \cup {w} /\ w \notin In("ready")
          /\ In("waiting") # {}
      BY <2>3, <1>t DEF Notify, In, States
    <3>2. Cardinality(In("ready")') = Cardinality(In("ready")) + 1
      BY <1>1, <3>1, FS_AddElement
    <3> QED BY <1>1, <1>2, <2>1, <3>1, <3>2 DEF NoLostWakeup
  <2> QED BY <1>6, <2>2, <2>3 DEF enqueueConnection
<1>7. ASSUME stopPool PROVE NoLostWakeup'
  <2>1. In("waiting")' = {}
    BY <1>7, <1>t DEF stopPool, Notify, Sleepers, In, States
  <2> QED BY <2>1 DEF NoLostWakeup
<1>8. CASE UNCHANGED <<thread, connectionQueue>>
  BY <1>8 DEF NoLostWakeup, In
<1>9. ASSUME NEW w \in Workers, handlerThrows(w)
      PROVE  UNCHANGED <<thread, connectionQueue>>
  BY <1>9 DEF handlerThrows
<1>10. ASSUME acceptConnection \/ setupFails \/ endListener \/ joinWorkers \/ killed
             \/ UNCHANGED vars
       PROVE  UNCHANGED <<thread, connectionQueue>>
  BY <1>10 DEF acceptConnection, setupFails, endListener, joinWorkers, killed, vars
<1> QED
  BY <1>3, <1>4, <1>5, <1>6, <1>7, <1>8, <1>9, <1>10 DEF Next, worker

(* enqueueConnection and workerThread: no notification is lost.  While a   *)
(* worker sleeps there is an awake one for every queued connection.        *)
THEOREM NoWakeupLost == Spec => []NoLostWakeup
<1>1. Init => NoLostWakeup
  BY DEF Init, NoLostWakeup, In
<1>2. TypeInv /\ NoLostWakeup /\ [Next]_vars => NoLostWakeup'
  BY WakeupStep
<1> QED BY <1>1, <1>2, TypeInvariant, PTL DEF Spec

-----------------------------------------------------------------------------
(* The owners of the connections: OneOwner by parts. *)
NoneTwice ==
  /\ \A i, j \in 1..Len(connectionQueue) :
       connectionQueue[i] = connectionQueue[j] => i = j
  /\ \A v, w \in Workers : handling[v] # None /\ handling[v] = handling[w] => v = w

OwnersDisjoint ==
  /\ Queued \cap (InHandler \cup handled \cup leaked \cup {accepted}) = {}
  /\ InHandler \cap (handled \cup leaked \cup {accepted}) = {}
  /\ handled \cap (leaked \cup {accepted}) = {}
  /\ accepted \notin leaked

LEMMA OneOwnerParts == OneOwner <=> NoneTwice /\ OwnersDisjoint
BY DEF OneOwner, NoneTwice, OwnersDisjoint

LEMMA HandlerMember ==
  ASSUME TypeInv, NEW c
  PROVE  c \in InHandler <=> c # None /\ \E w \in Workers : handling[w] = c
BY DEF TypeInv, WorkingHandles, InHandler, In

LEMMA TakeStep ==
  ASSUME TypeInv, OneOwner, NEW w \in Workers, takeConnection(w)
  PROVE  OneOwner'
<1> DEFINE c == Head(connectionQueue)
           q == connectionQueue
<1>1. /\ q \in Seq(Connections) /\ q # <<>> /\ Len(q) \in Nat \ {0}
      /\ c = q[1] /\ c \in Connections
      /\ q' = Tail(q) /\ Len(q') = Len(q) - 1
      /\ \A i \in 1..Len(q') : q'[i] = q[i + 1]
  BY HeadTailProperties, EmptySeq DEF takeConnection, QueueAfterPop, TypeInv, TypeOK
<1>2. c \in Queued /\ Queued' \subseteq Queued \ {c}
  <2>1. c \in Queued
    BY <1>1 DEF Queued
  <2>2. ASSUME NEW i \in 1..Len(q') PROVE q'[i] \in Queued \ {c}
    <3>1. i + 1 \in 1..Len(q) /\ i + 1 # 1 /\ 1 \in 1..Len(q)
      BY <1>1
    <3>2. q[i + 1] # q[1]
      BY <3>1 DEF OneOwner
    <3> QED BY <1>1, <3>1, <3>2 DEF Queued
  <2> QED BY <2>1, <2>2 DEF Queued
<1>3. /\ handling' = [handling EXCEPT ![w] = c] /\ handling[w] = None
      /\ UNCHANGED <<accepted, leaked, handled>>
  BY DEF takeConnection, TypeInv, WorkingHandles
<1>4. InHandler' \subseteq InHandler \cup {c}
  <2>1. TypeInv'
    BY TypeStep DEF Next, worker
  <2>2. \A d : d \in InHandler' <=> d # None /\ \E v \in Workers : handling'[v] = d
    BY <2>1 DEF TypeInv, WorkingHandles, InHandler, In
  <2> QED BY <1>3, <2>2, HandlerMember DEF TypeInv, TypeOK
<1>5. \A v \in Workers : handling[v] # c
  BY <1>1, <1>2, HandlerMember, NoneAssumption DEF OneOwner
<1>6. NoneTwice'
  <2>1. \A i, j \in 1..Len(q') : q'[i] = q'[j] => i = j
    <3> SUFFICES ASSUME NEW i \in 1..Len(q'), NEW j \in 1..Len(q'), q'[i] = q'[j]
                 PROVE  i = j
      OBVIOUS
    <3>1. /\ i + 1 \in 1..Len(q) /\ j + 1 \in 1..Len(q)
          /\ q[i + 1] = q[j + 1]
      BY <1>1
    <3>2. i + 1 = j + 1
      BY <3>1 DEF OneOwner
    <3> QED BY <3>2
  <2>2. \A v, x \in Workers : handling'[v] # None /\ handling'[v] = handling'[x] => v = x
    BY <1>3, <1>5 DEF OneOwner, TypeInv, TypeOK
  <2> QED BY <2>1, <2>2 DEF NoneTwice
<1>7. OwnersDisjoint'
  <2>1. OwnersDisjoint
    BY OneOwnerParts
  <2> HIDE DEF c, q
  <2> QED BY <1>2, <1>3, <1>4, <2>1 DEF OwnersDisjoint
<1>8. OneOwner' <=> NoneTwice' /\ OwnersDisjoint'
  BY DEF OneOwner, NoneTwice, OwnersDisjoint
<1> QED BY <1>6, <1>7, <1>8

LEMMA FinishStep ==
  ASSUME TypeInv, OneOwner, NEW w \in Workers, finishConnection(w)
  PROVE  OneOwner'
<1> DEFINE c == handling[w]
<1>1. /\ c # None /\ c \in InHandler
      /\ handling' = [handling EXCEPT ![w] = None]
      /\ handled' = handled \cup {c}
      /\ UNCHANGED <<connectionQueue, accepted, leaked>>
  BY HandlerMember DEF finishConnection, TypeInv, WorkingHandles
<1>2. InHandler' \subseteq InHandler \ {c}
  <2>1. TypeInv'
    BY TypeStep DEF Next, worker
  <2>2. \A d : d \in InHandler' <=> d # None /\ \E v \in Workers : handling'[v] = d
    BY <2>1 DEF TypeInv, WorkingHandles, InHandler, In
  <2>3. \A v \in Workers : v # w => handling[v] # c
    BY <1>1 DEF OneOwner
  <2> QED BY <1>1, <2>2, <2>3, HandlerMember DEF TypeInv, TypeOK
<1>3. Queued' = Queued
  BY <1>1 DEF Queued
<1>4. NoneTwice'
  BY <1>1 DEF NoneTwice, OneOwner, TypeInv, TypeOK
<1>5. OwnersDisjoint'
  <2>1. OwnersDisjoint
    BY OneOwnerParts
  <2> HIDE DEF c
  <2> QED BY <1>1, <1>2, <1>3, <2>1 DEF OwnersDisjoint
<1>6. OneOwner' <=> NoneTwice' /\ OwnersDisjoint'
  BY DEF OneOwner, NoneTwice, OwnersDisjoint
<1> QED BY <1>4, <1>5, <1>6

LEMMA EnqueueStep ==
  ASSUME TypeInv, OneOwner, enqueueConnection
  PROVE  OneOwner'
<1> DEFINE q == connectionQueue
<1>1. /\ accepted \in Connections /\ accepted' = None
      /\ q \in Seq(Connections) /\ Len(q) \in Nat
      /\ Len(q') = Len(q) + 1
      /\ \A i \in 1..Len(q) : q'[i] = q[i]
      /\ q'[Len(q) + 1] = accepted
      /\ UNCHANGED <<handling, leaked, handled>>
  BY AppendProperties, LenProperties
  DEF enqueueConnection, HasAccepted, QueueAfterPush, TypeInv, TypeOK
<1>2. accepted \notin Queued /\ Queued' = Queued \cup {accepted}
  <2>1. accepted \notin Queued
    BY DEF OneOwner
  <2> QED BY <1>1, <2>1 DEF Queued
<1>3. InHandler' = InHandler
  <2>1. TypeInv'
    BY TypeStep DEF Next
  <2>2. \A d : d \in InHandler' <=> d # None /\ \E v \in Workers : handling'[v] = d
    BY <2>1 DEF TypeInv, WorkingHandles, InHandler, In
  <2> QED BY <1>1, <2>2, HandlerMember
<1>n. None \notin Queued' /\ None \notin InHandler /\ None \notin handled /\ None \notin leaked
  <2>1. None \notin Queued
    BY <1>1, ElementOfSeq, NoneAssumption DEF Queued
  <2> QED BY <1>1, <1>2, <2>1, HandlerMember, NoneAssumption DEF TypeInv, TypeOK
<1>4. NoneTwice'
  <2>1. ASSUME NEW i \in 1..Len(q'), NEW j \in 1..Len(q'), q'[i] = q'[j]
        PROVE  i = j
    <3>1. \A k \in 1..Len(q) : q'[k] # accepted
      BY <1>1, <1>2 DEF Queued
    <3>2. CASE i \in 1..Len(q) /\ j \in 1..Len(q)
      BY <1>1, <2>1, <3>2 DEF OneOwner
    <3>3. CASE i = Len(q) + 1 \/ j = Len(q) + 1
      <4>1. q'[i] = accepted /\ q'[j] = accepted
        BY <1>1, <2>1, <3>3
      <4>2. \A k \in 1..Len(q') : k \in 1..Len(q) \/ k = Len(q) + 1
        BY <1>1
      <4>3. i = Len(q) + 1
        BY <3>1, <4>1, <4>2
      <4>4. j = Len(q) + 1
        BY <3>1, <4>1, <4>2
      <4> QED BY <4>3, <4>4
    <3> QED BY <1>1, <3>2, <3>3
  <2>2. \A v, x \in Workers : handling'[v] # None /\ handling'[v] = handling'[x] => v = x
    BY <1>1 DEF OneOwner
  <2> QED BY <2>1, <2>2 DEF NoneTwice
<1>5. OwnersDisjoint'
  <2>1. OwnersDisjoint
    BY OneOwnerParts
  <2> HIDE DEF q
  <2> QED BY <1>1, <1>2, <1>3, <1>n, <2>1 DEF OwnersDisjoint
<1>6. OneOwner' <=> NoneTwice' /\ OwnersDisjoint'
  BY DEF OneOwner, NoneTwice, OwnersDisjoint
<1> QED BY <1>4, <1>5, <1>6

(* acceptConnection, enqueueConnection, workerThread: a connection is with *)
(* the listener, in the queue, with one worker, or closed.                 *)
THEOREM OwnedOnce == Spec => []OneOwner
<1>1. Init => OneOwner
  BY NoneAssumption DEF Init, OneOwner, Queued, InHandler, In
<1>2. TypeInv /\ OneOwner /\ [Next]_vars => OneOwner'
  <2> SUFFICES ASSUME TypeInv, OneOwner, [Next]_vars PROVE OneOwner'
    OBVIOUS
  <2>p. OneOwner' <=> NoneTwice' /\ OwnersDisjoint'
    BY DEF OneOwner, NoneTwice, OwnersDisjoint
  <2>d. NoneTwice /\ OwnersDisjoint
    BY OneOwnerParts
  <2>t. TypeInv'
    BY TypeStep
  <2>1. ASSUME UNCHANGED <<connectionQueue, handling>>
        PROVE  NoneTwice' /\ Queued' = Queued /\ InHandler' = InHandler
    <3>1. \A c : c \in InHandler' <=> c # None /\ \E w \in Workers : handling'[w] = c
      BY <2>t DEF TypeInv, WorkingHandles, InHandler, In
    <3> QED BY <2>1, <2>d, <3>1, HandlerMember DEF NoneTwice, Queued
  <2>n. None \notin Queued /\ None \notin InHandler /\ None \notin handled /\ None \notin leaked
    <3>1. None \notin Queued
      BY ElementOfSeq, NoneAssumption DEF Queued, TypeInv, TypeOK
    <3> QED BY <3>1, HandlerMember, NoneAssumption DEF TypeInv, TypeOK
  <2>2. CASE UNCHANGED <<connectionQueue, handling, accepted, leaked, handled>>
    BY <2>1, <2>2, <2>d, <2>p DEF OwnersDisjoint
  <2>3. ASSUME NEW w \in Workers,
               waitForConnection(w) \/ spuriousWakeup(w) \/ leave(w) \/ handlerThrows(w)
        PROVE  UNCHANGED <<connectionQueue, handling, accepted, leaked, handled>>
    BY <2>3 DEF waitForConnection, spuriousWakeup, leave, handlerThrows
  <2>4. ASSUME endListener \/ stopPool \/ joinWorkers \/ killed \/ UNCHANGED vars
        PROVE  UNCHANGED <<connectionQueue, handling, accepted, leaked, handled>>
    BY <2>4 DEF endListener, stopPool, joinWorkers, killed, vars
  <2>5. CASE acceptConnection
    <3>1. /\ UNCHANGED <<connectionQueue, handling, leaked, handled>>
          /\ accepted' \notin Known
      BY <2>5 DEF acceptConnection
    <3> QED BY <2>1, <2>d, <2>p, <3>1 DEF OwnersDisjoint, Known
  <2>6. CASE setupFails
    <3>1. /\ UNCHANGED <<connectionQueue, handling, handled>>
          /\ accepted' = None /\ leaked' = leaked \cup {accepted} /\ accepted # None
      BY <2>6 DEF setupFails
    <3> QED BY <2>1, <2>d, <2>n, <2>p, <3>1 DEF OwnersDisjoint
  <2> QED
    BY <2>2, <2>3, <2>4, <2>5, <2>6, TakeStep, FinishStep, EnqueueStep
    DEF Next, worker
<1> QED BY <1>1, <1>2, TypeInvariant, PTL DEF Spec

-----------------------------------------------------------------------------
(* The pool as a ConnectionService. *)
LEMMA HandlersKept ==
  ASSUME TypeInv, [Next]_vars, UNCHANGED handling
  PROVE  UNCHANGED InHandler
<1>1. TypeInv'
  BY TypeStep
<1>2. \A c : c \in InHandler' <=> c # None /\ \E w \in Workers : handling'[w] = c
  BY <1>1 DEF TypeInv, WorkingHandles, InHandler, In
<1> QED BY <1>2, HandlerMember

(* A worker that is about to take a connection handles none. *)
LEMMA CapacityLeft ==
  ASSUME TypeInv, NEW w \in Workers, thread[w] = "ready"
  PROVE  Cardinality(InHandler) < Cardinality(Workers)
<1> DEFINE working == In("working")
           f == [v \in working |-> handling[v]]
<1>1. /\ IsFiniteSet(Workers \ {w}) /\ Cardinality(Workers) \in Nat
      /\ Cardinality(Workers \ {w}) = Cardinality(Workers) - 1
  BY WorkersAssumption, FS_RemoveElement, FS_CardinalityType
<1>2. working \subseteq Workers \ {w}
  BY DEF In
<1>3. /\ IsFiniteSet(working) /\ Cardinality(working) \in Nat
      /\ Cardinality(working) <= Cardinality(Workers \ {w})
  BY <1>1, <1>2, FS_Subset, FS_CardinalityType
<1>4. f \in Surjection(working, InHandler)
  BY DEF InHandler, Surjection
<1>5. IsFiniteSet(InHandler) /\ Cardinality(InHandler) <= Cardinality(working)
  BY <1>3, <1>4, FS_Surjection
<1>6. Cardinality(InHandler) \in Nat
  BY <1>5, FS_CardinalityType
<1> QED BY <1>1, <1>3, <1>5, <1>6

LEMMA TakeServes ==
  ASSUME TypeInv, OneOwner, NEW w \in Workers, takeConnection(w)
  PROVE  Service!Start
<1> DEFINE c == Head(connectionQueue)
<1>1. /\ up /\ connectionQueue # <<>> /\ thread[w] = "ready" /\ handling[w] = None
      /\ handling' = [handling EXCEPT ![w] = c]
      /\ connectionQueue' = Tail(connectionQueue)
      /\ UNCHANGED <<handled, up>>
  BY DEF takeConnection, QueueAfterPop, TypeInv, WorkingHandles
<1>2. c \in Connections /\ c # None
  BY <1>1, HeadTailProperties, NoneAssumption DEF TypeInv, TypeOK
<1>3. InHandler' = InHandler \cup {c}
  <2>1. TypeInv'
    BY TypeStep DEF Next, worker
  <2>2. \A d : d \in InHandler' <=> d # None /\ \E v \in Workers : handling'[v] = d
    BY <2>1 DEF TypeInv, WorkingHandles, InHandler, In
  <2> HIDE DEF c
  <2>3. \A d : (\E v \in Workers : handling'[v] = d /\ d # None)
                 <=> d = c \/ (\E v \in Workers : handling[v] = d /\ d # None)
    BY <1>1, <1>2 DEF TypeInv, TypeOK
  <2> QED BY <2>2, <2>3, HandlerMember
<1>4. Cardinality(InHandler) < Cardinality(Workers)
  BY <1>1, CapacityLeft
<1> HIDE DEF c
<1>5. InHandler' = InHandler \cup {c} /\ c = Head(connectionQueue)
  BY <1>3 DEF c
<1>6. /\ up /\ connectionQueue # <<>>
      /\ InHandler' = InHandler \cup {Head(connectionQueue)}
      /\ connectionQueue' = Tail(connectionQueue)
      /\ handled' = handled /\ up' = up
  BY <1>1, <1>5
<1>7. Cardinality(InHandler) = Service!Cardinality(InHandler)
  BY Zenon DEF Cardinality, Service!Cardinality
<1> QED BY <1>4, <1>6, <1>7, Zenon DEF Service!Start

LEMMA FinishServes ==
  ASSUME TypeInv, OneOwner, NEW w \in Workers, finishConnection(w)
  PROVE  \E c \in Connections : Service!Finish(c)
<1>1. /\ up /\ handling[w] # None /\ handling[w] \in Connections
      /\ handling' = [handling EXCEPT ![w] = None]
      /\ handled' = handled \cup {handling[w]}
      /\ UNCHANGED <<connectionQueue, up>>
  BY DEF finishConnection, TypeInv, TypeOK, WorkingHandles
<1>2. PICK c \in Connections : c = handling[w]
  BY <1>1
<1>3. c \in InHandler /\ c # None
  BY <1>1, <1>2, HandlerMember
<1>4. InHandler' = InHandler \ {c}
  <2>1. TypeInv'
    BY TypeStep DEF Next, worker
  <2>2. \A d : d \in InHandler' <=> d # None /\ \E v \in Workers : handling'[v] = d
    BY <2>1 DEF TypeInv, WorkingHandles, InHandler, In
  <2>3. \A v \in Workers : v # w => handling[v] # c
    BY <1>2, <1>3 DEF OneOwner
  <2>4. \A d : (\E v \in Workers : handling'[v] = d /\ d # None)
                 <=> d # c /\ (\E v \in Workers : handling[v] = d /\ d # None)
    BY <1>1, <1>2, <1>3, <2>3 DEF TypeInv, TypeOK
  <2> QED BY <2>2, <2>4, HandlerMember
<1>5. Service!Finish(c)
  BY <1>1, <1>2, <1>3, <1>4 DEF Service!Finish
<1> QED BY <1>5

LEMMA EnqueueServes ==
  ASSUME TypeInv, OneOwner, enqueueConnection
  PROVE  Service!HandOver
<1>1. /\ up /\ accepted \in Connections
      /\ connectionQueue' = Append(connectionQueue, accepted)
      /\ UNCHANGED <<handling, handled, up>>
  BY DEF enqueueConnection, HasAccepted, QueueAfterPush, TypeInv, TypeOK
<1>2. UNCHANGED InHandler
  BY <1>1, HandlersKept DEF Next
<1>3. accepted \notin Service!Known
  BY DEF OneOwner, Queued, Service!Known
<1> QED BY <1>1, <1>2, <1>3 DEF Service!HandOver

(* workerThread, enqueueConnection: the pool begins connections in the     *)
(* order they were enqueued, each one once, and no more at a time than it  *)
(* has workers.                                                            *)
THEOREM PoolServes == Spec => Service!Safely
<1>1. Init => Service!Init
  BY NoneAssumption DEF Init, Service!Init, InHandler, In
<1>2. TypeInv /\ OneOwner /\ [Next]_vars => [Service!Next]_(Service!vars)
  <2> SUFFICES ASSUME TypeInv, OneOwner, [Next]_vars
               PROVE  [Service!Next]_(Service!vars)
    OBVIOUS
  <2>1. CASE UNCHANGED <<connectionQueue, handling, handled, up>>
    BY <2>1, HandlersKept DEF Service!vars
  <2>2. ASSUME NEW w \in Workers, handlerThrows(w) PROVE Service!Fail
    <3>1. UNCHANGED handling
      BY <2>2 DEF handlerThrows
    <3> QED BY <2>2, <3>1, HandlersKept DEF handlerThrows, Service!Fail
  <2>3. ASSUME killed PROVE Service!Fail
    <3>1. UNCHANGED handling
      BY <2>3 DEF killed
    <3> QED BY <2>3, <3>1, HandlersKept DEF killed, Service!Fail
  <2>4. ASSUME NEW w \in Workers,
               waitForConnection(w) \/ spuriousWakeup(w) \/ leave(w)
        PROVE  UNCHANGED <<connectionQueue, handling, handled, up>>
    BY <2>4 DEF waitForConnection, spuriousWakeup, leave
  <2>5. ASSUME \/ acceptConnection \/ setupFails
               \/ endListener \/ stopPool \/ joinWorkers \/ UNCHANGED vars
        PROVE  UNCHANGED <<connectionQueue, handling, handled, up>>
    BY <2>5 DEF acceptConnection, setupFails, endListener, stopPool, joinWorkers, vars
  <2> QED
    BY <2>1, <2>2, <2>3, <2>4, <2>5, TakeServes, FinishServes, EnqueueServes
    DEF Next, worker, Service!Next
<1> QED BY <1>1, <1>2, TypeInvariant, OwnedOnce, PTL DEF Spec, Service!Safely

-----------------------------------------------------------------------------
(* The pool in the server. *)

(* Every step of the server is a step of the pool or leaves it alone. *)
LEMMA PoolStep ==
  ASSUME [ServerNext]_allVars
  PROVE  [Next]_vars
<1>1. ASSUME NEW w \in Workers, pool(w) PROVE Next
  BY <1>1 DEF pool, Next
<1>2. CASE sig_handler
  BY <1>2 DEF sig_handler
<1>3. CASE sigterm
  BY <1>3 DEF sigterm, Next
<1>4. CASE udpLoop
  BY <1>4 DEF udpLoop, testUdp, receiveRequest, timeoutUdp, replyUdp, UdpGoto
<1>5. CASE tcpLoop
  BY <1>5 DEF tcpLoop, callAccept, acceptTcp, timeoutTcp, terminateTcp, LoopEnds,
              setupOrEnqueue, Next
<1>6. CASE main
  BY <1>6 DEF main, destroyStore, destroyPool, Next
<1>7. CASE UNCHANGED allVars
  BY <1>7 DEF allVars
<1> QED BY <1>1, <1>2, <1>3, <1>4, <1>5, <1>6, <1>7 DEF ServerNext

(* runTcp and main use the pool only as its specification allows: nothing  *)
(* is enqueued after the listener ended, and the pool is destroyed last.   *)
THEOREM ServerImplementsPool == ServerSpec => ImplementsPool
<1>1. ServerInit => Init
  BY DEF ServerInit
<1> QED BY <1>1, PoolStep, PTL DEF ServerSpec, ImplementsPool, Spec

(* What is proved of the pool alone holds of the pool in the server. *)
THEOREM PoolSafeInServer ==
  ServerSpec => [](TypeOK /\ OneOwner /\ NoLostWakeup /\ DrainedBeforeLeaving)
<1>1. Spec => []TypeOK
  BY TypeCorrect
<1>2. Spec => []OneOwner
  BY OwnedOnce
<1>3. Spec => []NoLostWakeup
  BY NoWakeupLost
<1>4. Spec => []DrainedBeforeLeaving
  BY NothingLeftBehind
<1> QED BY <1>1, <1>2, <1>3, <1>4, ServerImplementsPool, PTL DEF ImplementsPool

-----------------------------------------------------------------------------
(* Whoever waits in a system call has taken nothing since the flag was     *)
(* set: the flag was clear when the loop went into the call.               *)
WaitingSinceBefore ==
  /\ ~terminateFlag => late.requests = 0 /\ late.connections = 0
  /\ udp = "receiving" => late.requests = 0
  /\ inAccept => late.connections = 0

SignalInv == ServerTypeOK /\ WaitingSinceBefore /\ FewAfterSignal

LEMMA SignalStep ==
  ASSUME SignalInv, [ServerNext]_allVars
  PROVE  SignalInv'
<1> USE DEF SignalInv, ServerTypeOK, WaitingSinceBefore, FewAfterSignal
<1>1. CASE sig_handler
  BY <1>1 DEF sig_handler
<1>2. CASE testUdp
  BY <1>2 DEF testUdp, UdpGoto
<1>3. CASE receiveRequest
  <2>1. UNCHANGED <<terminateFlag, inAccept, storeAlive>> /\ udp' = "handling"
    BY <1>3 DEF receiveRequest, UdpGoto
  <2>2. late.requests = 0
    BY <1>3 DEF receiveRequest
  <2>3. /\ late'.requests = IF terminateFlag THEN 1 ELSE 0
        /\ late'.connections = late.connections
        /\ late' \in [connections : Nat, requests : Nat]
    BY <1>3, <2>2, Z3 DEF receiveRequest, CountLate
  <2> QED BY <2>1, <2>3
<1>4. CASE timeoutUdp
  BY <1>4 DEF timeoutUdp, UdpGoto, UdpAfterTimeout
<1>5. CASE replyUdp
  BY <1>5 DEF replyUdp, UdpGoto
<1>6. CASE callAccept
  BY <1>6 DEF callAccept, MayCallAccept
<1>7. CASE acceptTcp
  <2>1. UNCHANGED <<terminateFlag, udp, storeAlive>> /\ inAccept' = FALSE
    BY <1>7 DEF acceptTcp
  <2>2. late.connections = 0
    BY <1>7 DEF acceptTcp
  <2>3. /\ late'.connections = IF terminateFlag THEN 1 ELSE 0
        /\ late'.requests = late.requests
        /\ late' \in [connections : Nat, requests : Nat]
    BY <1>7, <2>2, Z3 DEF acceptTcp, CountLate
  <2>4. ServerTypeOK'
    BY <2>1, <2>3, Zenon
  <2>5. ~terminateFlag' => late'.requests = 0 /\ late'.connections = 0
    BY <2>1, <2>3
  <2>6. inAccept' => late'.connections = 0
    BY <2>1
  <2>7. FewAfterSignal' /\ (udp' = "receiving" => late'.requests = 0)
    BY <2>1, <2>3
  <2> QED BY <2>4, <2>5, <2>6, <2>7
<1>8. CASE timeoutTcp
  BY <1>8 DEF timeoutTcp
<1>9. CASE terminateTcp
  BY <1>9 DEF terminateTcp
<1>10. CASE destroyStore
  BY <1>10 DEF destroyStore
<1>11. CASE UNCHANGED serverVars
  BY <1>11 DEF serverVars
<1>12. CASE sigterm
  BY <1>11, <1>12 DEF sigterm
<1>13. CASE setupOrEnqueue
  BY <1>11, <1>13 DEF setupOrEnqueue
<1>14. CASE destroyPool
  BY <1>11, <1>14 DEF destroyPool
<1>15. ASSUME NEW w \in Workers, pool(w) PROVE SignalInv'
  <2>1. UNCHANGED serverVars
    BY <1>15 DEF pool
  <2> QED BY <1>11, <2>1
<1>16. CASE UNCHANGED allVars
  BY <1>11, <1>16 DEF allVars
<1> QED
  BY <1>1, <1>2, <1>3, <1>4, <1>5, <1>6, <1>7, <1>8, <1>9, <1>10, <1>12, <1>13,
     <1>14, <1>15, <1>16
  DEF ServerNext, udpLoop, tcpLoop, main

(* runUdp and runTcp: after SIGINT each loop takes at most the one request *)
(* or connection that its system call was already waiting for.             *)
THEOREM StopsTaking == ServerSpec => []FewAfterSignal
<1>1. ASSUME ServerInit PROVE SignalInv
  <2>1. late.requests = 0 /\ late.connections = 0 /\ late \in [connections : Nat, requests : Nat]
    BY <1>1 DEF ServerInit
  <2>2. terminateFlag = FALSE /\ inAccept = FALSE /\ storeAlive = TRUE /\ udp = "testing"
    BY <1>1 DEF ServerInit
  <2>3. ServerTypeOK
    BY <2>1, <2>2, Zenon DEF ServerTypeOK
  <2>4. WaitingSinceBefore /\ FewAfterSignal
    BY <2>1, <2>2 DEF WaitingSinceBefore, FewAfterSignal
  <2> QED BY <2>3, <2>4 DEF SignalInv
<1>2. SignalInv /\ [ServerNext]_allVars => SignalInv'
  BY SignalStep
<1>3. SignalInv => FewAfterSignal
  BY DEF SignalInv
<1> QED BY <1>1, <1>2, <1>3, PTL DEF ServerSpec
=============================================================================
