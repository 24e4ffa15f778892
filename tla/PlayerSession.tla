----------------------------- MODULE PlayerSession -----------------------------
(***************************************************************************)
(* A player's client (client/Client.cpp, client/GameState.cpp and the      *)
(* handlers of client/commands/udp_commands.cpp) that plays over UDP       *)
(* against the server of module GameStore.                                 *)
(*                                                                         *)
(* A client handler sends one request and blocks until a datagram arrives  *)
(* or the receive timeout expires.  Requests and replies carry no number   *)
(* that pairs them.  With MayBeLate = FALSE a datagram arrives within the  *)
(* timeout or never; with MayBeLate = TRUE it may also arrive later, and   *)
(* out of order.                                                           *)
(***************************************************************************)
EXTENDS GameStore

CONSTANTS Player, MayBeLate

ASSUME PlayerAssumption == Player \in Players
ASSUME MayBeLateAssumption == MayBeLate \in BOOLEAN
ASSUME TrialsAssumption == 1..GuessesMax \subseteq TrialArgs

VARIABLES
  isGame, finished, debug,  \* the flags of GameState
  trial,                    \* the number of the next attempt
  saved,                    \* the guesses with their feedback
  shownKey,                 \* GameState::_key
  told,                     \* the ending last announced to the player
  exit,                     \* Client::exit
  waiting,                  \* the request whose reply the client waits for
  requests, replies         \* the datagrams in flight

clientState == <<isGame, finished, debug, trial, saved, shownKey, told>>
network == <<requests, replies>>
session == <<clientState, exit, waiting, network>>
allVars == <<vars, session>>

-----------------------------------------------------------------------------
(* Datagrams. *)
Events == [LOST_TIME |-> "T", LOST_MAXTRIALS |-> "L", WON |-> "W", QUIT |-> "Q"]

PacketOf(trials, times) ==
  [op : {"SNG", "DBG", "TRY", "QUT"}, key : Code \cup {NoKey},
   trial : trials, sentAt : times]

Packet == PacketOf(0..GuessesMax, 0..MaxTime)

ASSUME NoPacketAssumption == NoRequest \notin PacketOf(Nat, Nat)

(* What the reply packets encode of a reply of the store. *)
Encoded(r) ==
  [op |-> r.op, status |-> r.status, trial |-> r.trial,
   blacks |-> r.blacks, whites |-> r.whites, key |-> r.key]

SessionInit ==
  /\ Init
  /\ isGame = FALSE /\ finished = FALSE /\ debug = FALSE
  /\ trial = 0   \* not initialised by the code, nor read before startGame
  /\ saved = <<>> /\ shownKey = NoKey /\ told = "none"
  /\ exit = FALSE
  /\ waiting = NoRequest
  /\ requests = {} /\ replies = {}

-----------------------------------------------------------------------------
(* The first half of a handler: the command is checked and a request sent. *)
sendRequest(op, key, n) ==
  LET m == [op |-> op, key |-> key, trial |-> n, sentAt |-> now] IN
  /\ waiting = NoRequest
  /\ waiting' = m
  /\ requests' = requests \cup {m}
  /\ UNCHANGED <<vars, clientState, replies>>

(* start and debug do not ask whether the client has a game. *)
start == ~exit /\ sendRequest("SNG", NoKey, 0) /\ UNCHANGED exit

debugGame ==
  /\ ~exit
  /\ \E key \in Code : sendRequest("DBG", key, 0)
  /\ UNCHANGED exit

tryKey ==
  /\ ~exit /\ isGame
  /\ \E key \in Code : sendRequest("TRY", key, trial)
  /\ UNCHANGED exit

quit == ~exit /\ isGame /\ sendRequest("QUT", NoKey, 0) /\ UNCHANGED exit

(* exit leaves the command loop, after the quit handler if there is a game. *)
exitClient ==
  /\ ~exit /\ waiting = NoRequest
  /\ exit' = TRUE
  /\ \/ isGame /\ sendRequest("QUT", NoKey, 0)
     \/ ~isGame /\ UNCHANGED <<vars, clientState, waiting, network>>

-----------------------------------------------------------------------------
(* The server takes a request and replies; see GameStore. *)
serve(m) ==
  /\ requests' = requests \ {m}
  /\ \/ m.op = "SNG" /\ startNewGameHandler(Player)
     \/ /\ m.op = "DBG" /\ debugGameHandler(Player)
        /\ reply'.status = "OK" => active'[Player].key = m.key
     \/ /\ m.op = "TRY" /\ tryHandler(Player)
        /\ reply'.att = m.key /\ reply'.arg = m.trial
     \/ m.op = "QUT" /\ quitHandler(Player)
  /\ replies' = replies \cup {Encoded(reply')}
  /\ UNCHANGED <<clientState, exit, waiting>>

-----------------------------------------------------------------------------
(* The second half of a handler: a reply has come. *)
SavedKept == saved   \* Seeded fault: the attempts of the last game stay.

SavedAtStart == <<>>

startGame(key) ==
  /\ isGame' = TRUE /\ finished' = FALSE
  /\ trial' = 1 /\ saved' = SavedAtStart
  /\ shownKey' = key
  /\ debug' = (debug \/ key # NoKey)
  /\ UNCHANGED told

endClientGame(key, event) ==
  /\ isGame' = FALSE /\ finished' = TRUE
  /\ shownKey' = key
  /\ told' = event
  /\ UNCHANGED <<debug, trial>>

saveAttempt(key, blacks, whites) ==
  saved' = Append(saved, [key |-> key, blacks |-> blacks, whites |-> whites])

(* Seeded fault: a refused start is taken for the pending game's start. *)
StartNotFailed(r) == r.status \in {"OK", "NOK"}

StartConfirmed(r) == r.status = "OK"

startReplied(r) ==
  /\ r.op = waiting.op /\ r.op \in {"SNG", "DBG"}
  /\ \/ StartConfirmed(r) /\ startGame(waiting.key)
     \/ ~StartConfirmed(r) /\ UNCHANGED clientState

WonByWhites(r) == r.whites = KeyLen   \* Seeded fault: the wrong field is read.

HasWon(r) == r.blacks = KeyLen

tryConfirmed(r) ==
  /\ r.status = "OK" /\ r.trial >= waiting.trial
  /\ saveAttempt(waiting.key, r.blacks, r.whites)
  /\ \/ HasWon(r) /\ endClientGame(waiting.key, Events.WON)
     \/ /\ ~HasWon(r)
        /\ trial' = trial + 1
        /\ UNCHANGED <<isGame, finished, debug, shownKey, told>>

tryLost(r) ==
  /\ saveAttempt(waiting.key, 0, 0)
  /\ \/ r.status = "ENT" /\ endClientGame(r.key, Events.LOST_MAXTRIALS)
     \/ r.status = "ETM" /\ endClientGame(r.key, Events.LOST_TIME)

(* An OK for an earlier trial, DUP, INV, NOK and ERR only print a message. *)
tryRefused(r) ==
  /\ \/ r.status = "OK" /\ r.trial < waiting.trial
     \/ r.status \in {"DUP", "INV", "NOK", "ERR"}
  /\ UNCHANGED clientState

tryReplied(r) ==
  /\ r.op = waiting.op /\ r.op = "TRY"
  /\ tryConfirmed(r) \/ tryLost(r) \/ tryRefused(r)

(* Seeded fault: any decoded reply ends the client's game. *)
QuitAnswered(r) == r.status # "ERR"

QuitConfirmed(r) == r.status = "OK"

quitReplied(r) ==
  /\ r.op = waiting.op /\ r.op = "QUT"
  /\ \/ QuitConfirmed(r) /\ endClientGame(r.key, Events.QUIT) /\ UNCHANGED saved
     \/ ~QuitConfirmed(r) /\ UNCHANGED clientState

(* decode throws when the packet id is that of another command. *)
otherReplied(r) == r.op # waiting.op /\ UNCHANGED clientState

receiveReply(r) ==
  /\ waiting # NoRequest
  /\ replies' = replies \ {r}
  /\ startReplied(r) \/ tryReplied(r) \/ quitReplied(r) \/ otherReplied(r)
  /\ waiting' = NoRequest
  /\ UNCHANGED <<vars, exit, requests>>

(* TimeoutError: the handler gives up; what is in flight is lost or late. *)
timeout ==
  /\ waiting # NoRequest /\ waiting.sentAt < now
  /\ waiting' = NoRequest
  /\ \/ requests' = {} /\ replies' = {}
     \/ MayBeLate /\ UNCHANGED network
  /\ UNCHANGED <<vars, clientState, exit>>

(* The clock, and show-trials requests that workers serve for any client. *)
serverAlone ==
  /\ \/ Tick
     \/ \E w \in Workers : showTrialsAccept(w, Player) \/ showTrialsHandler(w)
  /\ UNCHANGED session

SessionNext ==
  \/ start \/ debugGame \/ tryKey \/ quit \/ exitClient
  \/ \E m \in requests : serve(m)
  \/ \E r \in replies : receiveReply(r)
  \/ timeout
  \/ serverAlone

SessionSpec == SessionInit /\ [][SessionNext]_allVars

-----------------------------------------------------------------------------
Saved == [key : Code, blacks : 0..KeyLen, whites : 0..KeyLen]

(* The type of the client's state.  A client never numbers a try beyond    *)
(* the last guess: the reply to that one ends the game.                    *)
SessionTypeOK ==
  /\ {isGame, finished, debug, exit} \subseteq BOOLEAN
  /\ trial \in 0..GuessesMax
  /\ Len(saved) <= GuessesMax
  /\ \A i \in 1..Len(saved) : saved[i] \in Saved
  /\ shownKey \in Code \cup {NoKey}
  /\ told \in {"none"} \cup {Events[e] : e \in DOMAIN Events}
  /\ waiting \in Packet \cup {NoRequest}
  /\ requests \subseteq Packet

serverGame == active[Player]

(* The table GameState::printState shows is a part of the game the server  *)
(* holds: whatever was lost, guesses and feedback are those of the server, *)
(* in order, unless the server has a game the client never heard of.       *)
SavedAttemptsAreServers ==
  isGame /\ serverGame # NoGame /\ serverGame.atts # <<>> =>
    /\ Len(saved) <= Len(serverGame.atts)
    /\ \A i \in 1..Len(saved) :
         saved[i] = [key |-> serverGame.atts[i].key, blacks |-> serverGame.atts[i].blacks,
                     whites |-> serverGame.atts[i].whites]

(* The resend rule of GameStore::attempt forgives one lost reply, and one  *)
(* is enough: the client's trial number falls at most one behind, and a    *)
(* client without a game leaves none behind in which it has guessed.       *)
AtMostOneBehind ==
  serverGame # NoGame => Len(serverGame.atts) <= (IF isGame THEN trial ELSE 0)

(* What endGame announces is how the server ended the game, and the secret *)
(* it reveals is the secret of that game.                                  *)
EndedAsAnnounced ==
  [][isGame /\ ~isGame' =>
       LET files == archive[Player]
           last == files[Len(files)]
       IN /\ serverGame = NoGame /\ files # <<>>
          /\ told' = last.ending /\ shownKey' = last.game.key]_allVars

(* client/commands/udp_commands.cpp:97: the attempt "is saved in the game  *)
(* state when the server confirms it".  An attempt saved with a feedback   *)
(* is one the server has recorded, in the running game or an earlier one.  *)
Recorded(key) ==
  \/ serverGame # NoGame /\ \E i \in 1..Len(serverGame.atts) : serverGame.atts[i].key = key
  \/ \E f \in 1..Len(archive[Player]) :
       LET atts == archive[Player][f].game.atts IN
       \E i \in 1..Len(atts) : atts[i].key = key

SavedWhenConfirmed ==
  [][Len(saved') > Len(saved) /\ (isGame' \/ told' = Events.WON) =>
       Recorded(saved'[Len(saved')].key)]_allVars
=============================================================================
