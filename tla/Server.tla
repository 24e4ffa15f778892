-------------------------------- MODULE Server --------------------------------
(***************************************************************************)
(* The server process: the UDP thread and the TCP thread with their loops, *)
(* the worker pool, the signals that stop them and the order in which main *)
(* takes them down.  The pool is that of WorkerPool; what the server adds  *)
(* is when its listener accepts and ends, and when it is destroyed.        *)
(***************************************************************************)
EXTENDS WorkerPool

VARIABLES
  terminateFlag,
  inAccept,    \* has the TCP thread seen the flag clear and gone to accept?
  udp,         \* the UDP thread: "testing" the flag, "receiving", "handling"
               \* a request, or "ended"
  storeAlive,  \* Server::store, which is destroyed before the pool is
  late         \* history: what was still taken after the flag was set

serverVars == <<terminateFlag, inAccept, udp, storeAlive, late>>
allVars == <<vars, serverVars>>

ServerInit ==
  /\ Init
  /\ terminateFlag = FALSE
  /\ inAccept = FALSE
  /\ udp = "testing"
  /\ storeAlive = TRUE
  /\ late = [connections |-> 0, requests |-> 0]

CountLate(what) ==
  late' = IF terminateFlag THEN [late EXCEPT ![what] = @ + 1] ELSE late

-----------------------------------------------------------------------------
(* Signals.  SIGINT and SIGUSR1 have the handler, which sets the flag.     *)
(* SIGTERM has none, whatever README.md:40 says: it ends the process.      *)
sig_handler ==
  /\ up /\ ~terminateFlag
  /\ terminateFlag' = TRUE
  /\ UNCHANGED <<vars, inAccept, udp, storeAlive, late>>

sigterm == killed /\ UNCHANGED serverVars

-----------------------------------------------------------------------------
(* runUdp.  recvfrom returns a datagram, or nothing after five seconds or  *)
(* after an error; in the last case the flag is looked at before errno.    *)
UdpGoto(place) == up /\ udp' = place /\ UNCHANGED <<vars, terminateFlag, inAccept, storeAlive>>

testUdp ==
  /\ udp = "testing"
  /\ UdpGoto(IF terminateFlag THEN "ended" ELSE "receiving")
  /\ UNCHANGED late

receiveRequest ==
  /\ udp = "receiving"
  /\ UdpGoto("handling")
  /\ CountLate("requests")

ReceivesAgain == "receiving"   \* Seeded fault: recvfrom is simply called again.

UdpAfterTimeout == IF terminateFlag THEN "ended" ELSE "testing"

timeoutUdp ==
  /\ udp = "receiving"
  /\ UdpGoto(UdpAfterTimeout)
  /\ UNCHANGED late

(* Every exception of a request is caught: the loop goes on. *)
replyUdp ==
  /\ udp = "handling"
  /\ UdpGoto("testing")
  /\ UNCHANGED late

-----------------------------------------------------------------------------
(* runTcp: the flag is tested, then accept waits for a connection.         *)
AcceptsAgain == accepted = None   \* Seeded fault: accept is called without the test.

MayCallAccept == accepted = None /\ ~terminateFlag

callAccept ==
  /\ up /\ listener = "running" /\ ~inAccept
  /\ MayCallAccept
  /\ inAccept' = TRUE
  /\ UNCHANGED <<vars, terminateFlag, udp, storeAlive, late>>

acceptTcp ==
  /\ inAccept
  /\ acceptConnection
  /\ inAccept' = FALSE
  /\ CountLate("connections")
  /\ UNCHANGED <<terminateFlag, udp, storeAlive>>

(* accept times out and the loop goes round. *)
timeoutTcp ==
  /\ up /\ listener = "running" /\ inAccept /\ ~terminateFlag
  /\ inAccept' = FALSE
  /\ UNCHANGED <<vars, terminateFlag, udp, storeAlive, late>>

(* Seeded fault: the loop stops between accept and enqueueConnection. *)
EndsWithConnection ==
  /\ up /\ listener = "running"
  /\ listener' = "ended"
  /\ UNCHANGED <<connectionQueue, isStopping, thread, handling, accepted, leaked,
                 handled, up>>

LoopEnds == endListener

(* The flag is seen at the top of the loop or by accept, which returns     *)
(* TERMINATE when it times out.                                            *)
terminateTcp ==
  /\ terminateFlag
  /\ LoopEnds
  /\ inAccept' = FALSE
  /\ UNCHANGED <<terminateFlag, udp, storeAlive, late>>

setupOrEnqueue == (setupFails \/ enqueueConnection) /\ UNCHANGED serverVars

-----------------------------------------------------------------------------
(* main: both threads are joined, then the members of Server are destroyed *)
(* in the reverse order of their declaration: the store, then the pool,    *)
(* whose workers still handle what is queued.                              *)
destroyStore ==
  /\ up /\ listener = "ended" /\ udp = "ended" /\ storeAlive
  /\ storeAlive' = FALSE
  /\ UNCHANGED <<vars, terminateFlag, inAccept, udp, late>>

destroyPool ==
  /\ ~storeAlive
  /\ stopPool \/ joinWorkers
  /\ UNCHANGED serverVars

(* A handler that meets the destroyed store may do anything a handler can  *)
(* do, ending the process included.                                        *)
pool(w) ==
  (worker(w) \/ spuriousWakeup(w) \/ handlerThrows(w)) /\ UNCHANGED serverVars

udpLoop == testUdp \/ receiveRequest \/ timeoutUdp \/ replyUdp

tcpLoop == callAccept \/ acceptTcp \/ timeoutTcp \/ terminateTcp \/ setupOrEnqueue

main == destroyStore \/ destroyPool

ServerNext ==
  \/ sig_handler \/ sigterm
  \/ udpLoop \/ tcpLoop \/ main
  \/ \E w \in Workers : pool(w)

ServerSpec == ServerInit /\ [][ServerNext]_allVars

(* Threads that can run do run; recvfrom and accept return within five     *)
(* seconds, and a handler ends for the same reason.  Requests, signals and *)
(* spurious wake-ups may never come.                                       *)
ServerFairSpec ==
  /\ ServerSpec
  /\ WF_allVars(testUdp \/ timeoutUdp \/ replyUdp)
  /\ WF_allVars(callAccept \/ timeoutTcp \/ terminateTcp \/ setupOrEnqueue)
  /\ WF_allVars(main)
  /\ \A w \in Workers :
       WF_allVars((worker(w) \/ handlerThrows(w)) /\ UNCHANGED serverVars)

-----------------------------------------------------------------------------
ServerTypeOK ==
  /\ terminateFlag \in BOOLEAN /\ inAccept \in BOOLEAN /\ storeAlive \in BOOLEAN
  /\ udp \in {"testing", "receiving", "handling", "ended"}
  /\ late \in [connections : Nat, requests : Nat]

(* main, sig_handler: after SIGINT the loops end, the queue is drained and *)
(* the pool is joined, however threads, timeouts and the signal interleave.*)
ExitsAfterSignal == terminateFlag ~> listener = "destroyed" \/ ~up

(* runUdp and runTcp: once the flag is set, each takes at most one thing   *)
(* more, the one its system call was already waiting for.                  *)
FewAfterSignal == late.requests <= 1 /\ late.connections <= 1

(* The pool inside the server does only what WorkerPool says, so all that  *)
(* holds of the pool's Spec holds in the server.                           *)
ImplementsPool == Spec
=============================================================================
