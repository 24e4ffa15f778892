----------------------------- MODULE TcpExchange -----------------------------
(***************************************************************************)
(* The TCP commands of the client (show_trials, scoreboard) against        *)
(* Server::handleTcpConnection, one connection for each command.  The      *)
(* network cuts what is written into pieces and may be slow or stop; reads *)
(* and writes give up after their timeouts; the server may be killed.      *)
(* Both commands have the same shape: a request, and a reply that carries  *)
(* a file or says that there is none.                                      *)
(***************************************************************************)
EXTENDS Integers, Sequences

CONSTANTS
  FileSizes,    \* sizes of the files the server may have to send
  LongSize,     \* 999: longer sizes fill the four characters the parser reads
  SendSpace,    \* what a connection buffers of an undelivered reply
  MaxCommands   \* bound: commands the client gives, one after the other

ASSUME SizesAssumption == FileSizes \subseteq Nat \ {0} /\ LongSize \in Nat
ASSUME SpaceAssumption == SendSpace \in Nat \ {0} /\ MaxCommands \in Nat \ {0}

VARIABLES
  up,        \* does the server run?
  command,   \* number of commands given
  client,    \* "idle", "connecting", or "reading" the reply
  request,   \* per connection: parts of the request that have arrived, 0..2
  taken,     \* per connection: parts of it that the handler has read
  server,    \* per connection: what the server does with it
  answer,    \* per connection: size of the file in the answer, 0 for none
  left,      \* per connection: what is still to be written
  inError,   \* per connection: is it the error packet that is written?
  out,       \* per connection: what has been written
  arrived,   \* per connection: how much of it has reached the client
  consumed,  \* per connection: how much of it the client has read
  reset,     \* per connection: has the client been sent a reset?
  saved,     \* per connection: the file the client saved, or NotSaved
  fault      \* history, per connection: did anything time out or break?

clientVars == <<command, client, consumed, saved>>
serverVars == <<server, taken, answer, left, inError, out>>
vars == <<up, clientVars, request, serverVars, arrived, reset, fault>>

Connections == 1..MaxCommands

-----------------------------------------------------------------------------
(* What is written, in units no read of the client goes beyond: a field    *)
(* with its delimiter, or a byte where bytes matter.                       *)
Unit(name) == <<name, 0>>
NewLine == Unit("newline")

File(n) == [k \in 1..n |-> <<"data", k>>]

FileHead(n) == <<Unit("id"), Unit("status"), Unit("name"), <<"size", n>>>>

NoFile == <<Unit("id"), Unit("none"), NewLine>>

(* The handler ends the file with a line feed that its size does not       *)
(* count, and send ends the packet with another one.                       *)
Reply(n) == IF n = 0 THEN NoFile ELSE FileHead(n) \o File(n) \o <<NewLine, NewLine>>

ErrPacket == <<Unit("E"), Unit("R"), Unit("R"), NewLine>>

(* read of the reply packets.  After four digits of a size the parser      *)
(* wants a line feed where the server writes a space.                      *)
Least(a, b) == IF a < b THEN a ELSE b

BeginsLike(got, s) == \A k \in 1..Least(Len(got), Len(s)) : got[k] = s[k]

DigitsFit(n) == n <= LongSize

FitsFile(got, n) ==
  /\ BeginsLike(got, FileHead(n))
  /\ Len(got) >= 4 => DigitsFit(n)
  /\ Len(got) <= n + 5

(* Seeded faults: the character after the file is not looked at; both line *)
(* feeds are expected.                                                     *)
UncheckedFile(got, n) == FitsFile(got, n) /\ Len(got) = n + 5

TwoLineFeeds(got, n) == BeginsLike(got, Reply(n)) /\ Len(got) = n + 6

WholeFile(got, n) == FitsFile(got, n) /\ Len(got) = n + 5 /\ got[n + 5] = NewLine

Sizes(got) == {n \in FileSizes : FitsFile(got, n)}

Verdict(got) ==
  IF got = NoFile THEN "none"
  ELSE IF \E n \in FileSizes : WholeFile(got, n) THEN "file"
  ELSE IF \/ \E n \in Sizes(got) : Len(got) < n + 5
          \/ BeginsLike(got, NoFile) /\ Len(got) < 3
          \/ BeginsLike(got, ErrPacket) /\ Len(got) < 3
       THEN "more" ELSE "bad"

FileIn(got) == SubSeq(got, 5, Len(got) - 1)

NotSaved == <<>>

-----------------------------------------------------------------------------
Init ==
  /\ up = TRUE
  /\ command = 0 /\ client = "idle"
  /\ request = [i \in Connections |-> 0]
  /\ taken = [i \in Connections |-> 0]
  /\ server = [i \in Connections |-> "none"]
  /\ answer = [i \in Connections |-> 0]
  /\ left = [i \in Connections |-> <<>>]
  /\ inError = [i \in Connections |-> FALSE]
  /\ out = [i \in Connections |-> <<>>]
  /\ arrived = [i \in Connections |-> 0]
  /\ consumed = [i \in Connections |-> 0]
  /\ reset = [i \in Connections |-> FALSE]
  /\ saved = [i \in Connections |-> NotSaved]
  /\ fault = [i \in Connections |-> FALSE]

(* Does the client still have the socket of connection i? *)
ClientOpen(i) == i = command /\ client = "reading"

Broken(i) == fault' = [fault EXCEPT ![i] = TRUE]

-----------------------------------------------------------------------------
(* The client: showTrialsHandler and showScoreboardHandler. *)
giveCommand ==
  /\ client = "idle" /\ command < MaxCommands
  /\ command' = command + 1
  /\ client' = "connecting"
  /\ UNCHANGED <<up, request, serverVars, arrived, consumed, reset, saved, fault>>

(* setup connects and sendPacket writes the request, which always fits the *)
(* empty connection.  The listener hands the connection to the pool.       *)
connectAndSend ==
  /\ client = "connecting" /\ up
  /\ client' = "reading"
  /\ server' = [server EXCEPT ![command] = "queued"]
  /\ UNCHANGED <<up, command, request, taken, answer, left, inError, out, arrived, consumed,
                 reset, saved, fault>>

connectFails ==
  /\ client = "connecting"
  /\ client' = "idle"
  /\ Broken(command)
  /\ UNCHANGED <<up, command, request, serverVars, arrived, consumed, reset, saved>>

(* receivePacket takes what it needs as it arrives; every read that comes  *)
(* back short is repeated for the rest.  When the packet is complete or    *)
(* not understood the handler saves the file, or not, and ends the socket. *)
readReply ==
  LET i == command
      got == SubSeq(out[i], 1, consumed[i] + 1)
      verdict == Verdict(got)
  IN
  /\ client = "reading" /\ consumed[i] < arrived[i]
  /\ consumed' = [consumed EXCEPT ![i] = @ + 1]
  /\ saved' = IF verdict = "file" THEN [saved EXCEPT ![i] = FileIn(got)] ELSE saved
  /\ client' = IF verdict = "more" THEN "reading" ELSE "idle"
  /\ UNCHANGED <<up, command, request, serverVars, arrived, reset, fault>>

TriesAgain == UNCHANGED <<up, clientVars>>   \* Seeded fault: a timeout is not an error.

GivesUp == client' = "idle" /\ UNCHANGED <<up, command, consumed, saved>>

(* Ten seconds without a byte. *)
readTimeout ==
  /\ client = "reading" /\ consumed[command] = arrived[command]
  /\ GivesUp
  /\ Broken(command)
  /\ UNCHANGED <<request, serverVars, arrived, reset>>

(* The server has closed the connection and everything has been read. *)
readEnd ==
  /\ client = "reading"
  /\ consumed[command] = Len(out[command])
  /\ server[command] = "closed" \/ ~up
  /\ GivesUp
  /\ UNCHANGED <<request, serverVars, arrived, reset, fault>>

(* A reset takes with it what was not read yet. *)
readReset ==
  /\ client = "reading" /\ reset[command]
  /\ GivesUp
  /\ UNCHANGED <<request, serverVars, arrived, reset, fault>>

-----------------------------------------------------------------------------
(* The network.  What arrives at a closed socket is answered by a reset,   *)
(* and so is closing one with a part of the request in it unread.          *)
Unread(i) == request[i] > taken[i]

deliverRequest(i) ==
  /\ server[i] # "none" /\ request[i] < 2
  /\ request' = [request EXCEPT ![i] = @ + 1]
  /\ reset' = [reset EXCEPT ![i] = @ \/ server[i] = "closed" \/ ~up]
  /\ UNCHANGED <<up, clientVars, serverVars, arrived, fault>>

deliverReply(i) ==
  /\ arrived[i] < Len(out[i])
  /\ arrived' = [arrived EXCEPT ![i] = @ + 1]
  /\ UNCHANGED <<up, clientVars, request, serverVars, reset, fault>>

-----------------------------------------------------------------------------
(* The server: a worker takes the connection and runs handleTcpConnection. *)
Serve(i, from, to) == up /\ server[i] = from /\ server' = [server EXCEPT ![i] = to]

takeConnection(i) ==
  /\ Serve(i, "queued", "id")
  /\ UNCHANGED <<up, clientVars, request, taken, answer, left, inError, out, arrived, reset, fault>>

readId(i) ==
  /\ Serve(i, "id", "rest")
  /\ request[i] >= 1
  /\ taken' = [taken EXCEPT ![i] = 1]
  /\ UNCHANGED <<up, clientVars, request, answer, left, inError, out, arrived, reset, fault>>

(* The handler has its request, asks the store, and send begins. *)
StartWriting(i, packet, error) ==
  /\ left' = [left EXCEPT ![i] = packet]
  /\ inError' = [inError EXCEPT ![i] = error]
  /\ UNCHANGED <<up, clientVars, request, out, arrived, reset>>

readRest(i) ==
  /\ Serve(i, "rest", "write")
  /\ request[i] = 2
  /\ taken' = [taken EXCEPT ![i] = 2]
  /\ \E n \in FileSizes \cup {0} :
       answer' = [answer EXCEPT ![i] = n] /\ StartWriting(i, Reply(n), FALSE)
  /\ UNCHANGED fault

(* parsePacketID times out: the error packet is the answer. *)
idTimeout(i) ==
  /\ Serve(i, "id", "write")
  /\ request[i] = 0
  /\ StartWriting(i, ErrPacket, TRUE)
  /\ Broken(i)
  /\ UNCHANGED <<taken, answer>>

(* The handler's read times out: it says that there is no file. *)
restTimeout(i) ==
  /\ Serve(i, "rest", "write")
  /\ request[i] = 1
  /\ StartWriting(i, NoFile, FALSE)
  /\ Broken(i)
  /\ UNCHANGED <<taken, answer>>

Space(i) == SendSpace - (Len(out[i]) - arrived[i])

(* safe_write: a write call takes what fits, and the rest is written next. *)
write(i) ==
  /\ up /\ server[i] = "write"
  /\ \E k \in 1..Least(Space(i), Len(left[i])) :
       /\ out' = [out EXCEPT ![i] = @ \o SubSeq(left[i], 1, k)]
       /\ left' = [left EXCEPT ![i] = SubSeq(@, k + 1, Len(@))]
  /\ UNCHANGED <<up, clientVars, request, server, taken, answer, inError, arrived, reset,
                 fault>>

PartWritten(i) == out[i] # <<>>   \* Seeded fault: what one call takes is enough.

AllWritten(i) == left[i] = <<>>

finishConnection(i) ==
  /\ Serve(i, "write", "closed")
  /\ AllWritten(i)
  /\ reset' = [reset EXCEPT ![i] = @ \/ Unread(i)]
  /\ UNCHANGED <<up, clientVars, request, taken, answer, left, inError, out, arrived, fault>>

Stuck(i) == up /\ server[i] = "write" /\ ~AllWritten(i) /\ Space(i) = 0

(* Five seconds without space.  Whatever was written of the reply, the     *)
(* error packet comes next, on the same connection.                        *)
writeTimeout(i) ==
  /\ Stuck(i) /\ ~inError[i]
  /\ StartWriting(i, ErrPacket, TRUE)
  /\ Broken(i)
  /\ UNCHANGED <<server, taken, answer>>

WaitsForSpace(i) == FALSE   \* Seeded fault: the error packet is written without timeout.

ErrorTimesOut(i) == Stuck(i) /\ inError[i]

EveryoneLoses == fault' = [i \in Connections |-> fault[i] \/ i >= command]

ServerDies ==
  /\ up' = FALSE
  /\ EveryoneLoses
  /\ reset' = [i \in Connections |-> reset[i] \/ Unread(i)]
  /\ UNCHANGED <<clientVars, request, serverVars, arrived>>

(* Nobody catches the error of the error packet: the process ends. *)
errorTimeout(i) == ErrorTimesOut(i) /\ ServerDies

(* A second write to a client that has gone raises SIGPIPE, which nobody   *)
(* handles either.                                                         *)
brokenPipe(i) ==
  /\ up /\ server[i] = "write" /\ ~AllWritten(i)
  /\ ~ClientOpen(i) /\ out[i] # <<>>
  /\ ServerDies

killed == up /\ ServerDies

-----------------------------------------------------------------------------
clientStep ==
  \/ connectAndSend \/ connectFails \/ readReply
  \/ readTimeout \/ readEnd \/ readReset

handleTcpConnection(i) ==
  \/ readId(i) \/ readRest(i) \/ idTimeout(i) \/ restTimeout(i)
  \/ write(i) \/ writeTimeout(i) \/ errorTimeout(i) \/ finishConnection(i)

Next ==
  \/ giveCommand \/ clientStep \/ killed
  \/ \E i \in Connections :
       \/ deliverRequest(i) \/ deliverReply(i)
       \/ takeConnection(i) \/ handleTcpConnection(i) \/ brokenPipe(i)

Spec == Init /\ [][Next]_vars

(* The client and a worker that has a connection run.  Nothing is assumed  *)
(* of the network, nor that a worker becomes free.                         *)
FairSpec ==
  /\ Spec
  /\ WF_vars(clientStep)
  /\ \A i \in Connections : WF_vars(handleTcpConnection(i))

-----------------------------------------------------------------------------
Units == {Unit(name) : name \in {"id", "status", "name", "none", "newline", "E", "R"}}
           \cup ({"size", "data"} \X Nat)

TypeOK ==
  /\ up \in BOOLEAN
  /\ command \in 0..MaxCommands
  /\ client \in {"idle", "connecting", "reading"}
  /\ request \in [Connections -> 0..2] /\ taken \in [Connections -> 0..2]
  /\ server \in [Connections -> {"none", "queued", "id", "rest", "write", "closed"}]
  /\ answer \in [Connections -> FileSizes \cup {0}]
  /\ inError \in [Connections -> BOOLEAN]
  /\ reset \in [Connections -> BOOLEAN] /\ fault \in [Connections -> BOOLEAN]
  /\ \A i \in Connections :
       /\ left[i] \in Seq(Units) /\ out[i] \in Seq(Units) /\ saved[i] \in Seq(Units)
       /\ left[i] # <<>> => server[i] = "write"
       /\ arrived[i] \in 0..Len(out[i])
       /\ consumed[i] \in 0..arrived[i]

(* read and saveFile: however the reply was cut up, what the client saved  *)
(* is the file the server sent for this command, whole.  The one exception *)
(* is a reply that timed out five bytes before its end: the error packet   *)
(* written behind it is then read as the last three bytes of the file and  *)
(* the line feed.                                                          *)
Spliced(i) ==
  LET whole == Reply(answer[i]) IN
  out[i] = SubSeq(whole, 1, Len(whole) - 5) \o ErrPacket

SavedIsServers ==
  \A i \in Connections :
    saved[i] # NotSaved =>
      saved[i] = File(answer[i]) \/ (Len(saved[i]) = answer[i] /\ Spliced(i))

(* send and read agree on the packet: when nothing timed out or broke, the *)
(* client has saved the file that it was sent, unless its size has four    *)
(* digits, which the parser refuses.                                       *)
Delivered ==
  \A i \in Connections :
    /\ i < command \/ (i = command /\ client = "idle")
    /\ ~fault[i]
    => saved[i] = IF answer[i] <= LongSize THEN File(answer[i]) ELSE NotSaved

(* Every command comes to an end, whatever the network and the server do.  *)
CommandEnds == client # "idle" ~> client = "idle"

(* handleTcpConnection returns, or takes the process with it: no worker is *)
(* kept by a connection.                                                   *)
HandlerEnds ==
  \A i \in Connections :
    server[i] \in {"id", "rest", "write"} ~> server[i] = "closed" \/ ~up
=============================================================================
