-------------------------- MODULE PlayerSessionProofs --------------------------
(***************************************************************************)
(* What a client can rely on over a network that loses datagrams but does  *)
(* not deliver them late: its table is the server's game, and the ending   *)
(* it announces is the one the server recorded.  And what it can rely on   *)
(* whatever comes late: its own state stays in range.                      *)
(***************************************************************************)
EXTENDS PlayerSession, GameStoreProofs

-----------------------------------------------------------------------------
(* The session drives the store through its handlers only. *)
LEMMA SessionStep ==
  ASSUME [SessionNext]_allVars
  PROVE  [Next]_vars
<1> USE PlayerAssumption
<1>1. ASSUME NEW op, NEW key, NEW n, sendRequest(op, key, n) PROVE UNCHANGED vars
  BY <1>1 DEF sendRequest
<1>2. ASSUME start \/ debugGame \/ tryKey \/ quit \/ exitClient PROVE UNCHANGED vars
  BY <1>1, <1>2 DEF start, debugGame, tryKey, quit, exitClient
<1>3. ASSUME NEW m \in requests, serve(m) PROVE Next
  BY <1>3 DEF serve, Next
<1>4. ASSUME (\E r \in replies : receiveReply(r)) \/ timeout PROVE UNCHANGED vars
  BY <1>4 DEF receiveReply, timeout
<1>5. ASSUME serverAlone PROVE Next
  BY <1>5 DEF serverAlone, Next
<1> QED BY <1>2, <1>3, <1>4, <1>5 DEF SessionNext, allVars

THEOREM SessionRunsStore == SessionSpec => Spec
<1>1. SessionInit => Init
  BY DEF SessionInit
<1> QED BY <1>1, SessionStep, PTL DEF SessionSpec, Spec

-----------------------------------------------------------------------------
(* The invariant. *)
Row(att) == [key |-> att.key, blacks |-> att.blacks, whites |-> att.whites]

Rows == [key : Code, blacks : Nat, whites : Nat]

(* One request is under way at a time, and nothing is left of the others. *)
OneDatagram ==
  \/ waiting = NoRequest /\ requests = {} /\ replies = {}
  \/ waiting # NoRequest /\ requests \subseteq {waiting} /\ replies = {}
  \/ waiting # NoRequest /\ requests = {} /\ \E r : replies = {r}

ClientOK ==
  /\ isGame \in BOOLEAN
  /\ saved \in Seq(Rows)
  /\ isGame => trial = Len(saved) + 1
  /\ waiting # NoRequest =>
       /\ waiting \in PacketOf(Nat, Nat)
       /\ waiting.op = "TRY" => isGame /\ waiting.trial = trial /\ waiting.key \in Code

(* The table is a part of the game g, and at most one row short. *)
TableOf(g) ==
  /\ Len(saved) <= Len(g.atts) /\ Len(g.atts) <= trial
  /\ \A i \in 1..Len(saved) : saved[i] = Row(g.atts[i])

TableOK ==
  serverGame # NoGame /\ serverGame.atts # <<>> => isGame /\ TableOf(serverGame)

EndedWith(ending, key) ==
  LET files == archive[Player] IN
  /\ serverGame = NoGame /\ files # <<>>
  /\ files[Len(files)].ending = ending /\ files[Len(files)].game.key = key

(* A feedback under way is that of the last attempt in the game, if the    *)
(* game has not ended since.                                               *)
FeedbackFits(r) ==
  /\ r.trial = waiting.trial /\ r.blacks \in Nat /\ r.whites \in Nat
  /\ r.blacks = KeyLen => EndedWith("W", waiting.key)
  /\ serverGame # NoGame =>
       /\ Len(serverGame.atts) = waiting.trial
       /\ Row(serverGame.atts[waiting.trial])
            = [key |-> waiting.key, blacks |-> r.blacks, whites |-> r.whites]

(* What the reply under way says is still so. *)
ReplyFits(r) ==
  /\ r.op = waiting.op
  /\ r.op \in {"SNG", "DBG"} /\ r.status = "OK" /\ serverGame # NoGame
       => serverGame.atts = <<>>
  /\ r.op = "TRY" /\ r.status = "OK" => FeedbackFits(r)
  /\ r.op = "TRY" /\ r.status = "ENT" => EndedWith("L", r.key)
  /\ r.op = "TRY" /\ r.status = "ETM" => EndedWith("T", r.key)
  /\ r.op = "QUT" /\ r.status = "OK" => EndedWith("Q", r.key)

SessionInv ==
  /\ OneDatagram /\ ClientOK /\ TableOK
  /\ \A r \in replies : ReplyFits(r)

LEMMA Begin == SessionInit => SessionInv
BY PlayerAssumption, EmptySeq
DEF SessionInit, Init, SessionInv, OneDatagram, ClientOK, TableOK, serverGame

LEMMA Table ==
  ASSUME SessionInv
  PROVE  SavedAttemptsAreServers /\ AtMostOneBehind
<1>1. serverGame # NoGame /\ serverGame.atts = <<>> => Len(serverGame.atts) = 0
  BY EmptySeq
<1>2. isGame => trial \in Nat
  BY LenProperties DEF SessionInv, ClientOK
<1> QED BY <1>1, <1>2
  DEF SessionInv, ClientOK, TableOK, TableOf, Row, SavedAttemptsAreServers, AtMostOneBehind

-----------------------------------------------------------------------------
(* Steps that leave the server alone: a request is sent, or given up. *)
LEMMA SendKeeps ==
  ASSUME SessionInv, IInv, start \/ debugGame \/ tryKey \/ quit \/ exitClient
  PROVE  SessionInv'
<1>1. ASSUME NEW op \in {"SNG", "DBG", "TRY", "QUT"}, NEW key \in Code \cup {NoKey},
             NEW n \in Nat, sendRequest(op, key, n),
             op = "TRY" => isGame /\ n = trial /\ key \in Code
      PROVE  SessionInv'
  <2> DEFINE m == [op |-> op, key |-> key, trial |-> n, sentAt |-> now]
  <2>1. m \in PacketOf(Nat, Nat) /\ m # NoRequest
    BY NoPacketAssumption DEF PacketOf, IInv, TypeOK
  <2>2. /\ waiting' = m /\ requests = {} /\ requests' = {m} /\ replies' = {}
        /\ UNCHANGED <<active, isGame, saved, trial>>
    BY <1>1 DEF sendRequest, SessionInv, OneDatagram, vars, clientState
  <2>3. m.op = "TRY" => isGame /\ m.trial = trial /\ m.key \in Code
    BY <1>1
  <2> HIDE DEF m
  <2> QED BY <2>1, <2>2, <2>3
    DEF SessionInv, OneDatagram, ClientOK, TableOK, TableOf, serverGame
<1>2. CASE start
  BY <1>1, <1>2 DEF start
<1>3. CASE debugGame
  BY <1>1, <1>3 DEF debugGame
<1>4. CASE tryKey
  <2>1. trial \in Nat
    BY <1>4, LenProperties DEF tryKey, SessionInv, ClientOK
  <2> QED BY <1>1, <1>4, <2>1 DEF tryKey
<1>5. CASE quit
  BY <1>1, <1>5 DEF quit
<1>6. CASE exitClient /\ isGame
  BY <1>1, <1>6 DEF exitClient
<1>7. CASE exitClient /\ UNCHANGED <<vars, clientState, waiting, network>>
  <2>1. UNCHANGED <<active, isGame, saved, trial, waiting, requests, replies>>
    BY <1>7 DEF vars, clientState, network
  <2>2. replies = {}
    BY <1>7 DEF exitClient, SessionInv, OneDatagram
  <2> QED BY <2>1, <2>2
    DEF SessionInv, OneDatagram, ClientOK, TableOK, TableOf, serverGame
<1> QED BY <1>2, <1>3, <1>4, <1>5, <1>6, <1>7 DEF exitClient

LEMMA TimeoutKeeps ==
  ASSUME SessionInv, timeout, ~MayBeLate
  PROVE  SessionInv'
<1>1. /\ waiting' = NoRequest /\ requests' = {} /\ replies' = {}
      /\ UNCHANGED <<active, isGame, saved, trial>>
  BY DEF timeout, vars, clientState
<1> QED BY <1>1 DEF SessionInv, OneDatagram, ClientOK, TableOK, TableOf, serverGame

(* The server's own steps may close the game, and nothing else.           *)
LEMMA AloneKeeps ==
  ASSUME SessionInv, IInv, serverAlone
  PROVE  SessionInv'
<1>1. UNCHANGED <<isGame, saved, trial, waiting, requests, replies>>
  BY DEF serverAlone, session, clientState, network
<1>2. \/ UNCHANGED <<active, archive>>
      \/ \E p \in Players, tstamp \in Nat :
           active' = ActiveAfterCheck(p, tstamp) /\ archive' = ArchiveAfterCheck(p, tstamp)
  <2>1. CASE Tick \/ \E w \in Workers : showTrialsAccept(w, Player)
    BY <2>1 DEF Tick, showTrialsAccept
  <2>2. ASSUME NEW w \in Workers, showTrialsHandler(w)
        PROVE  \/ UNCHANGED <<active, archive>>
               \/ \E p \in Players, tstamp \in Nat :
                    /\ active' = ActiveAfterCheck(p, tstamp)
                    /\ archive' = ArchiveAfterCheck(p, tstamp)
    <3> DEFINE p == strReq[w].plid
               tstamp == strReq[w].tstamp
    <3>1. p \in Players /\ tstamp \in Nat
      BY <2>2 DEF showTrialsHandler, IInv, TypeOK, Request
    <3>2. \/ UNCHANGED <<active, archive>>
          \/ active' = ActiveAfterCheck(p, tstamp) /\ archive' = ArchiveAfterCheck(p, tstamp)
      BY <2>2 DEF showTrialsHandler
    <3> HIDE DEF p, tstamp
    <3> QED BY <3>1, <3>2
  <2> QED BY <2>1, <2>2 DEF serverAlone
<1>3. /\ serverGame' = serverGame \/ serverGame' = NoGame
      /\ serverGame = NoGame => archive'[Player] = archive[Player]
  BY <1>2, PlayerAssumption
  DEF ActiveAfterCheck, ArchiveAfterCheck, Expired, serverGame, IInv, TypeOK
<1>4. ASSUME NEW r \in replies PROVE ReplyFits(r)'
  BY <1>1, <1>3
  DEF SessionInv, ReplyFits, FeedbackFits, EndedWith, serverGame
<1>5. TableOK'
  BY <1>1, <1>3 DEF SessionInv, TableOK, TableOf, serverGame
<1>6. OneDatagram' /\ ClientOK'
  BY <1>1 DEF SessionInv, OneDatagram, ClientOK
<1> QED BY <1>1, <1>4, <1>5, <1>6 DEF SessionInv

-----------------------------------------------------------------------------
(* The server takes the request. *)
LEMMA EndsGame ==
  ASSUME TypeOK, NEW g \in Game, NEW ending \in {"W", "L", "Q", "T"},
         NEW tstamp \in Nat, NEW used \in Int,
         active' = [active EXCEPT ![Player] = NoGame],
         Records(Player, Ended(g, ending, tstamp, used))
  PROVE  serverGame' = NoGame /\ EndedWith(ending, g.key)'
<1> DEFINE f == Ended(g, ending, tstamp, used)
           n == Len(archive[Player])
<1>1. f \in Finished /\ f.ending = ending /\ f.game.key = g.key
  BY EndedType DEF Ended
<1> HIDE DEF f
<1>2. Len(archive'[Player]) = n + 1 /\ archive'[Player][n + 1] = f /\ n \in Nat
  BY <1>1, OneMore, PlayerAssumption DEF f
<1>3. archive'[Player] # <<>>
  BY <1>2, EmptySeq
<1>4. active'[Player] = NoGame
  BY PlayerAssumption DEF TypeOK
<1> QED BY <1>1, <1>2, <1>3, <1>4 DEF EndedWith, serverGame

LEMMA KeyShown ==
  ASSUME NEW op, NEW p, NEW att, NEW trials, NEW status, NEW key
  PROVE  /\ [Reply(op, p, status) EXCEPT !.key = key].key = key
         /\ [Reply(op, p, status) EXCEPT !.key = key].op = op
         /\ [Reply(op, p, status) EXCEPT !.key = key].status = status
         /\ [TryReply(p, att, trials, status) EXCEPT !.key = key].key = key
BY DEF Reply, TryReply

LEMMA EncodedFields ==
  ASSUME NEW r
  PROVE  /\ Encoded(r).op = r.op /\ Encoded(r).status = r.status
         /\ Encoded(r).trial = r.trial /\ Encoded(r).blacks = r.blacks
         /\ Encoded(r).whites = r.whites /\ Encoded(r).key = r.key
BY DEF Encoded

(* A try of the client's pending guess was accepted and the game goes on. *)
GuessAdded ==
  /\ serverGame # NoGame /\ Len(serverGame.atts) + 1 = waiting.trial
  /\ serverGame' = WithAttempt(serverGame, waiting.key)

LEMMA StartServed ==
  ASSUME IInv, waiting.op = reply'.op, UNCHANGED waiting,
         startNewGameHandler(Player) \/ debugGameHandler(Player)
  PROVE  /\ ReplyFits(Encoded(reply))'
         /\ serverGame' = serverGame \/ (serverGame' # NoGame /\ serverGame'.atts = <<>>)
<1>1. /\ reply'.op \in {"SNG", "DBG"}
      /\ \/ UNCHANGED store /\ reply'.status # "OK"
         \/ \E key \in Code, mode \in {"P", "D"}, playTime \in 1..PlayTimeMax :
              active' = [active EXCEPT ![Player] = NewGame(key, mode, playTime)]
  <2>1. ASSUME NEW op \in {"SNG", "DBG"}, NEW status
        PROVE  Reply(op, Player, status).op = op /\ Reply(op, Player, status).status = status
    BY DEF Reply
  <2>2. ASSUME NEW op \in {"SNG", "DBG"}, NEW key \in Code, NEW mode \in {"P", "D"},
               NEW playTime \in 1..PlayTimeMax, createGame(op, Player, playTime, key, mode)
        PROVE  /\ reply'.op = op
               /\ \/ UNCHANGED store /\ reply'.status # "OK"
                  \/ active' = [active EXCEPT ![Player] = NewGame(key, mode, playTime)]
    BY <2>1, <2>2 DEF createGame
  <2>3. CASE startNewGameHandler(Player)
    BY <2>1, <2>2, <2>3, StartTimeType DEF startNewGameHandler
  <2>4. CASE debugGameHandler(Player)
    BY <2>1, <2>2, <2>4, StartTimeType DEF debugGameHandler
  <2> QED BY <2>3, <2>4
<1>2. \/ UNCHANGED store /\ reply'.status # "OK"
      \/ serverGame' # NoGame /\ serverGame'.atts = <<>>
  <2>1. ASSUME NEW key \in Code, NEW mode \in {"P", "D"}, NEW playTime \in 1..PlayTimeMax,
               active' = [active EXCEPT ![Player] = NewGame(key, mode, playTime)]
        PROVE  serverGame' # NoGame /\ serverGame'.atts = <<>>
    <3>1. NewGame(key, mode, playTime) \in Game /\ NewGame(key, mode, playTime).atts = <<>>
      BY EmptySeq DEF NewGame, Game, IInv, TypeOK
    <3> QED BY <2>1, <3>1, NoGameAssumption, PlayerAssumption DEF serverGame, IInv, TypeOK
  <2> QED BY <1>1, <2>1
<1>3. ReplyFits(Encoded(reply))'
  BY <1>1, <1>2 DEF ReplyFits, Encoded, serverGame
<1> QED BY <1>2, <1>3 DEF store, serverGame

LEMMA QuitServed ==
  ASSUME IInv, waiting.op = "QUT", UNCHANGED waiting, quitHandler(Player)
  PROVE  /\ ReplyFits(Encoded(reply))'
         /\ serverGame' = serverGame \/ serverGame' = NoGame
<1>0. TypeOK /\ now \in Nat
  BY DEF IInv, TypeOK
<1>1. CASE /\ active' = ActiveAfterCheck(Player, now)
           /\ reply' = Reply("QUT", Player, "NOK")
  <2>1. reply'.op = "QUT" /\ reply'.status = "NOK"
    BY <1>1 DEF Reply
  <2>2. serverGame' = serverGame \/ serverGame' = NoGame
    BY <1>0, <1>1, PlayerAssumption DEF ActiveAfterCheck, serverGame, TypeOK
  <2> QED BY <2>1, <2>2 DEF ReplyFits, Encoded
<1>2. CASE /\ checkTimedoutGame(Player, now) >= 0
           /\ endGame(Player, active[Player], "Q", QuitTime(active[Player]))
           /\ reply' = [Reply("QUT", Player, "OK") EXCEPT !.key = active[Player].key]
  <2> DEFINE g == active[Player]
  <2>1. g \in Game /\ now - g.start \in Int
    BY <1>2, PlayableFacts, PlayerAssumption
  <2>2. reply'.op = "QUT" /\ reply'.status = "OK" /\ reply'.key = g.key
    BY <1>2, KeyShown
  <2>3. Records(Player, Ended(g, "Q", now, QuitTime(g)))
    BY <1>2 DEF endGame, Records
  <2>4. active' = [active EXCEPT ![Player] = NoGame]
    BY <1>2 DEF endGame
  <2>5. ASSUME NEW key, key = g.key
        PROVE  serverGame' = NoGame /\ EndedWith("Q", key)'
    <3> HIDE DEF g
    <3>1. QuitTime(g) = now - g.start
      BY DEF QuitTime
    <3> QED BY <1>0, <2>1, <2>3, <2>4, <2>5, <3>1, EndsGame DEF EndedWith
  <2>6. EndedWith("Q", reply.key)'
    BY <2>2, <2>5 DEF EndedWith
  <2> QED BY <2>2, <2>5, <2>6 DEF ReplyFits, Encoded, EndedWith
<1> QED BY <1>1, <1>2, Zenon DEF quitHandler

(* The feedback the store computes for the pending guess. *)
LEMMA FeedbackUnderWay ==
  ASSUME NEW g \in Game, NEW att \in Code, NEW number,
         reply' = Feedback(Player, att, number, number, g.key),
         waiting.op = "TRY", waiting.key = att, waiting.trial = number, UNCHANGED waiting,
         reply'.blacks = KeyLen => EndedWith("W", att)',
         serverGame' # NoGame =>
           /\ Len(serverGame'.atts) = number
           /\ serverGame'.atts[number].key = att
           /\ serverGame'.atts[number].blacks = Blacks(g.key, att)
           /\ serverGame'.atts[number].whites = Whites(g.key, att)
  PROVE  ReplyFits(Encoded(reply))'
<1>1. /\ reply'.op = "TRY" /\ reply'.status = "OK" /\ reply'.trial = number
      /\ reply'.blacks = Blacks(g.key, att) /\ reply'.whites = Whites(g.key, att)
  BY DEF Feedback
<1>2. reply'.blacks \in Nat /\ reply'.whites \in Nat
  BY <1>1, FeedbackType
<1>3. FeedbackFits(Encoded(reply))'
  BY <1>1, <1>2 DEF FeedbackFits, Encoded, Row, EndedWith
<1> QED BY <1>1, <1>3 DEF ReplyFits, Encoded

LEMMA TryServed ==
  ASSUME IInv, waiting.op = "TRY", waiting.key \in Code, UNCHANGED waiting,
         tryHandler(Player), reply'.att = waiting.key, reply'.arg = waiting.trial
  PROVE  /\ ReplyFits(Encoded(reply))'
         /\ serverGame' = serverGame \/ serverGame' = NoGame \/ GuessAdded
<1>0. TypeOK /\ now \in Nat /\ Player \in Players
  BY PlayerAssumption DEF IInv, TypeOK
<1> PICK att \in Code, number \in TrialArgs : TryCases(Player, att, number)
  BY DEF tryHandler, TryCases
<1>1. reply'.op = "TRY" /\ att = waiting.key /\ number = waiting.trial
  BY <1>0, TryAnswers DEF Answers
<1>2. CASE tryWithoutGame(Player, att, number) \/ tryWrongTrial(Player, att, number)
             \/ tryDuplicate(Player, att, number)
  <2>1. UNCHANGED store /\ reply'.status \in {"NOK", "INV", "DUP"}
    BY <1>2, TryReplyFields DEF tryWithoutGame, tryWrongTrial, tryDuplicate
  <2> QED BY <1>1, <2>1 DEF ReplyFits, Encoded, store, serverGame
<1>3. CASE tryTimedOut(Player, att, number)
  <2> DEFINE g == active[Player]
             used == g.playTime
  <2>1. Expired(Player, now) /\ g # NoGame
    <3>1. g # NoGame => g.start <= now /\ g.start \in Nat
      BY <1>0, GameFacts DEF IInv, ActiveGamesOpen, GameOpen, TypeOK
    <3> QED BY <1>0, <1>3, <3>1 DEF tryTimedOut, checkTimedoutGame, Elapsed
  <2>2. g \in Game /\ used \in Nat
    BY <1>0, <2>1, GameFacts DEF TypeOK
  <2>3. /\ active' = [active EXCEPT ![Player] = NoGame]
        /\ Records(Player, Ended(g, "T", now + used, used))
    BY <1>3, <2>1 DEF tryTimedOut, ActiveAfterCheck, ArchiveAfterCheck, TimedOut, Records
  <2>4. reply'.status = "ETM" /\ reply'.key = g.key
    <3>1. reply' = [TryReply(Player, att, number, "ETM") EXCEPT !.key = g.key]
      BY <1>3 DEF tryTimedOut
    <3> QED BY <3>1, TryReplyFields, KeyShown
  <2>5. ASSUME NEW key, key = g.key
        PROVE  serverGame' = NoGame /\ EndedWith("T", key)'
    <3> HIDE DEF g, used
    <3>1. now + used \in Nat /\ used \in Int
      BY <1>0, <2>2
    <3> QED BY <1>0, <2>2, <2>3, <2>5, <3>1, EndsGame DEF EndedWith
  <2>6. EndedWith("T", reply.key)'
    BY <2>4, <2>5 DEF EndedWith
  <2> QED BY <1>1, <2>4, <2>5, <2>6 DEF ReplyFits, Encoded, EndedWith
<1>4. CASE tryResent(Player, att, number)
  <2> DEFINE g == active[Player]
  <2>1. /\ g # NoGame /\ g \in Game /\ Len(g.atts) \in Nat /\ g.key \in Code
        /\ GameOpen(g)
    BY <1>0, <1>4, PlayableFacts, GameFacts DEF tryResent, Playable
  <2>2. /\ number = Len(g.atts) /\ g.atts # <<>> /\ g.atts[number].key = att
        /\ active' = active
    BY <1>4 DEF tryResent, IsResend, store
  <2>3. reply' = Feedback(Player, att, number, number, g.key)
    BY <1>0, <1>4, <2>1, <2>2, FeedbackIs DEF tryResent
  <2>4. number \in 1..Len(g.atts)
    BY <2>1, <2>2, EmptySeq, LenProperties, GameFacts
  <2>5. /\ g.atts[number].blacks = Blacks(g.key, att)
        /\ g.atts[number].whites = Whites(g.key, att)
    BY <2>1, <2>2, <2>4 DEF GameOpen, AttemptsWellFormed
  <2>6. reply'.blacks # KeyLen
    <3>1. att # g.key
      BY <2>1, <2>2, <2>4 DEF GameOpen, NotWonBy
    <3>2. reply'.blacks = Blacks(g.key, att)
      BY <2>3 DEF Feedback
    <3> QED BY <2>1, <3>1, <3>2, AllBlack
  <2>7. serverGame' = g
    BY <2>2 DEF serverGame
  <2> HIDE DEF g
  <2>8. ReplyFits(Encoded(reply))'
    BY <1>1, <2>1, <2>2, <2>3, <2>5, <2>6, <2>7, FeedbackUnderWay
  <2> QED BY <2>7, <2>8 DEF g, serverGame
<1>5. CASE tryAccepted(Player, att, number)
  <2> DEFINE g == active[Player]
             n == Len(g.atts)
             next == WithAttempt(g, att)
             used == now - g.start
             ok == WithFeedback(TryReply(Player, att, number, "OK"), n + 1, g.key)
             ent == [TryReply(Player, att, number, "ENT") EXCEPT !.key = g.key]
  <2>1. /\ g # NoGame /\ g \in Game /\ n \in Nat /\ g.key \in Code
        /\ used \in Int
    BY <1>0, <1>5, PlayableFacts, GameFacts DEF tryAccepted, Playable
  <2>2. number = n + 1
    BY <1>5 DEF tryAccepted
  <2>3. /\ next \in Game /\ next # NoGame /\ Len(next.atts) = n + 1 /\ next.key = g.key
        /\ next.atts[n + 1] = [key |-> att, blacks |-> Blacks(g.key, att),
                               whites |-> Whites(g.key, att), time |-> now - g.start]
    BY <1>0, <2>1, WithAttemptType, NoGameAssumption
  <2>4. ok = Feedback(Player, att, number, number, g.key)
    BY <1>0, <2>1, <2>2, FeedbackIs
  <2>5. Blacks(g.key, att) = KeyLen <=> att = g.key
    BY <2>1, AllBlack
  <2>6. ASSUME NEW ending \in {"L", "W"}, NEW key, key = g.key,
               endGame(Player, next, ending, used)
        PROVE  serverGame' = NoGame /\ EndedWith(ending, key)'
    <3>1. /\ active' = [active EXCEPT ![Player] = NoGame]
          /\ Records(Player, Ended(next, ending, now, used))
      BY <2>6 DEF endGame, Records
    <3> HIDE DEF next, used, g
    <3> QED BY <1>0, <2>1, <2>3, <2>6, <3>1, EndsGame DEF EndedWith
  <2>7. CASE endGame(Player, next, "L", used) /\ reply' = ent
    <3>1. reply'.status = "ENT" /\ reply'.key = g.key
      BY <2>7, TryReplyFields, KeyShown
    <3>2. serverGame' = NoGame
      BY <2>6, <2>7
    <3>3. EndedWith("L", reply.key)'
      BY <2>6, <2>7, <3>1 DEF EndedWith
    <3> QED BY <1>1, <3>1, <3>2, <3>3 DEF ReplyFits, Encoded, EndedWith
  <2>8. CASE att = g.key /\ endGame(Player, next, "W", used) /\ reply' = ok
    <3>1. serverGame' = NoGame /\ EndedWith("W", att)'
      BY <2>6, <2>8
    <3> HIDE DEF g, next, used, ok, n
    <3>2. ReplyFits(Encoded(reply))'
      BY <1>1, <2>1, <2>4, <2>8, <3>1, FeedbackUnderWay
    <3> QED BY <3>1, <3>2
  <2>9. CASE att # g.key /\ active' = [active EXCEPT ![Player] = next] /\ reply' = ok
    <3>1. serverGame' = next
      BY <1>0, <2>9 DEF serverGame, TypeOK
    <3>2. reply'.blacks # KeyLen
      BY <2>4, <2>5, <2>9 DEF Feedback
    <3>3. /\ Len(next.atts) = number /\ next.atts[number].key = att
          /\ next.atts[number].blacks = Blacks(g.key, att)
          /\ next.atts[number].whites = Whites(g.key, att)
      <4> HIDE DEF next, n, g
      <4> QED BY <2>2, <2>3
    <3>4. GuessAdded
      BY <1>1, <2>1, <2>2, <3>1 DEF GuessAdded, serverGame
    <3> HIDE DEF g, next, ok, n
    <3>5. ReplyFits(Encoded(reply))'
      BY <1>1, <2>1, <2>4, <2>9, <3>1, <3>2, <3>3, FeedbackUnderWay
    <3> QED BY <3>4, <3>5
  <2>10. \/ endGame(Player, next, "L", used) /\ reply' = ent
         \/ Blacks(g.key, att) = KeyLen /\ endGame(Player, next, "W", used) /\ reply' = ok
         \/ /\ Blacks(g.key, att) # KeyLen /\ active' = [active EXCEPT ![Player] = next]
            /\ reply' = ok
    BY <1>5, Zenon DEF tryAccepted
  <2> HIDE DEF g, next, used, ok, ent
  <2> QED BY <2>5, <2>7, <2>8, <2>9, <2>10
<1> QED BY <1>2, <1>3, <1>4, <1>5 DEF TryCases

LEMMA ServeKeeps ==
  ASSUME SessionInv, IInv, NEW m \in requests, serve(m)
  PROVE  SessionInv'
<1>1. /\ m = waiting /\ waiting # NoRequest /\ requests' = {}
      /\ replies' = {Encoded(reply')}
      /\ UNCHANGED <<isGame, saved, trial, waiting>>
  BY DEF serve, SessionInv, OneDatagram, clientState
<1>2. /\ waiting.op = "TRY" => isGame /\ waiting.trial = trial /\ waiting.key \in Code
      /\ waiting.trial \in Nat
  BY <1>1 DEF SessionInv, ClientOK, PacketOf
<1>3. /\ ReplyFits(Encoded(reply))'
      /\ \/ serverGame' = serverGame \/ serverGame' = NoGame
         \/ serverGame' # NoGame /\ serverGame'.atts = <<>>
         \/ waiting.op = "TRY" /\ GuessAdded
  <2>1. CASE m.op = "SNG" /\ startNewGameHandler(Player)
    <3>1. reply'.op = "SNG"
      BY <2>1 DEF startNewGameHandler, createGame, Reply
    <3> QED BY <1>1, <2>1, <3>1, StartServed
  <2>2. CASE m.op = "DBG" /\ debugGameHandler(Player)
    <3>1. reply'.op = "DBG"
      BY <2>2 DEF debugGameHandler, createGame, Reply
    <3> QED BY <1>1, <2>2, <3>1, StartServed
  <2>3. CASE m.op = "TRY" /\ tryHandler(Player) /\ reply'.att = m.key /\ reply'.arg = m.trial
    BY <1>1, <1>2, <2>3, TryServed
  <2>4. CASE m.op = "QUT" /\ quitHandler(Player)
    BY <1>1, <2>4, QuitServed
  <2> QED BY <2>1, <2>2, <2>3, <2>4 DEF serve
<1>4. TableOK'
  <2>1. CASE serverGame' = serverGame
    BY <1>1, <2>1 DEF SessionInv, TableOK, TableOf, serverGame
  <2>2. CASE waiting.op = "TRY" /\ GuessAdded
    <3> DEFINE g == serverGame
               n == Len(g.atts)
               next == WithAttempt(g, waiting.key)
    <3>1. g \in Game /\ n \in Nat /\ n + 1 = trial /\ isGame
      BY <1>2, <2>2, PlayerAssumption, GameFacts
      DEF GuessAdded, serverGame, IInv, TypeOK
    <3>2. /\ Len(next.atts) = n + 1
          /\ \A i \in 1..n : next.atts[i] = g.atts[i]
      BY <1>2, <2>2, <3>1, WithAttemptType DEF IInv
    <3>3. Len(saved) = n
      BY <3>1, LenProperties DEF SessionInv, ClientOK
    <3>4. \A i \in 1..n : saved[i] = Row(g.atts[i])
      <4>1. CASE g.atts = <<>>
        BY <4>1, EmptySeq
      <4>2. CASE g.atts # <<>>
        BY <2>2, <3>3, <4>2 DEF GuessAdded, SessionInv, TableOK, TableOf
      <4> QED BY <4>1, <4>2
    <3>5. serverGame' = next
      BY <2>2 DEF GuessAdded
    <3> HIDE DEF next, g, n
    <3>6. \A i \in 1..Len(saved) : saved[i] = Row(next.atts[i])
      BY <3>2, <3>3, <3>4 DEF Row
    <3>7. Len(saved) <= Len(next.atts) /\ Len(next.atts) <= trial
      BY <3>1, <3>2, <3>3
    <3>8. TableOf(serverGame)'
      BY <1>1, <3>5, <3>6, <3>7 DEF TableOf, Row
    <3> QED BY <1>1, <3>1, <3>8 DEF TableOK
  <2> QED BY <1>3, <2>1, <2>2 DEF TableOK
<1>5. OneDatagram' /\ ClientOK'
  BY <1>1 DEF SessionInv, OneDatagram, ClientOK
<1>6. (\A r \in replies : ReplyFits(r))'
  BY <1>1, <1>3
  DEF ReplyFits, FeedbackFits, EndedWith, Row, Encoded, serverGame
<1> QED BY <1>4, <1>5, <1>6 DEF SessionInv

-----------------------------------------------------------------------------
(* The client takes the reply. *)
LEMMA ReceiveKeeps ==
  ASSUME SessionInv, IInv, NEW r \in replies, receiveReply(r)
  PROVE  /\ SessionInv'
         /\ isGame /\ ~isGame' => EndedWith(told', shownKey')
<1>1. /\ ReplyFits(r) /\ waiting # NoRequest /\ waiting' = NoRequest
      /\ requests' = {} /\ replies' = {} /\ UNCHANGED <<active, archive>>
  BY DEF receiveReply, SessionInv, OneDatagram, vars
<1>2. isGame \in BOOLEAN /\ saved \in Seq(Rows) /\ Len(saved) \in Nat
  BY LenProperties DEF SessionInv, ClientOK
<1>3. waiting.op = "TRY" =>
        isGame /\ waiting.trial = trial /\ waiting.key \in Code /\ trial = Len(saved) + 1
  BY <1>1 DEF SessionInv, ClientOK
<1>4. SUFFICES /\ isGame' \in BOOLEAN /\ saved' \in Seq(Rows)
               /\ isGame' => trial' = Len(saved') + 1
               /\ TableOK'
               /\ isGame /\ ~isGame' => EndedWith(told', shownKey')
  BY <1>1 DEF SessionInv, OneDatagram, ClientOK
<1>5. CASE UNCHANGED clientState
  BY <1>1, <1>2, <1>5
  DEF clientState, SessionInv, ClientOK, TableOK, TableOf, serverGame
<1>6. CASE startReplied(r) /\ StartConfirmed(r) /\ startGame(waiting.key)
  <2>1. isGame' = TRUE /\ saved' = <<>> /\ trial' = 1
    BY <1>6 DEF startGame, SavedAtStart
  <2>2. serverGame' # NoGame => serverGame'.atts = <<>>
    BY <1>1, <1>6 DEF startReplied, StartConfirmed, ReplyFits, serverGame
  <2> QED BY <1>2, <2>1, <2>2, EmptySeq DEF TableOK
<1>7. ASSUME NEW row \in Rows, waiting.op = "TRY", saved' = Append(saved, row)
      PROVE  /\ saved' \in Seq(Rows) /\ Len(saved') = trial
             /\ \A i \in 1..Len(saved) : saved'[i] = saved[i]
             /\ saved'[trial] = row
  BY <1>2, <1>3, <1>7, AppendProperties
<1>8. CASE tryReplied(r) /\ tryConfirmed(r)
  <2> DEFINE row == [key |-> waiting.key, blacks |-> r.blacks, whites |-> r.whites]
  <2>1. waiting.op = "TRY" /\ FeedbackFits(r) /\ saved' = Append(saved, row)
    BY <1>1, <1>8 DEF tryReplied, tryConfirmed, saveAttempt, ReplyFits
  <2>2. row \in Rows
    BY <1>3, <2>1 DEF FeedbackFits, Rows
  <2>3. CASE HasWon(r) /\ endClientGame(waiting.key, Events.WON)
    <3>1. EndedWith("W", waiting.key)
      BY <2>1, <2>3 DEF FeedbackFits, HasWon
    <3>2. isGame' = FALSE /\ told' = "W" /\ shownKey' = waiting.key
      BY <2>3 DEF endClientGame, Events
    <3>3. serverGame' = NoGame
      BY <1>1, <3>1 DEF EndedWith, serverGame
    <3> QED BY <1>7, <2>1, <2>2, <3>1, <3>2, <3>3 DEF TableOK
  <2>4. CASE trial' = trial + 1 /\ isGame' = isGame
    <3>1. /\ saved' \in Seq(Rows) /\ Len(saved') = trial /\ saved'[trial] = row
          /\ \A i \in 1..Len(saved) : saved'[i] = saved[i]
      BY <1>7, <2>1, <2>2
    <3>2. ASSUME serverGame' # NoGame
          PROVE  isGame' /\ TableOf(serverGame)'
      <4>1. /\ serverGame' = serverGame /\ serverGame # NoGame
            /\ Len(serverGame.atts) = trial /\ Row(serverGame.atts[trial]) = row
        BY <1>1, <1>3, <2>1, <3>2 DEF FeedbackFits, serverGame
      <4>2. serverGame.atts # <<>>
        BY <1>2, <1>3, <2>1, <4>1, EmptySeq
      <4>3. \A i \in 1..Len(saved) : saved[i] = Row(serverGame.atts[i])
        BY <4>1, <4>2 DEF SessionInv, TableOK, TableOf
      <4>4. \A i \in 1..trial : saved'[i] = Row(serverGame.atts[i])
        <5> HIDE DEF row
        <5> QED BY <1>2, <1>3, <2>1, <3>1, <4>1, <4>3
      <4> QED BY <1>2, <1>3, <2>1, <2>4, <3>1, <4>1, <4>4 DEF TableOf, Row
    <3> QED BY <1>3, <2>1, <2>4, <3>1, <3>2 DEF TableOK
  <2> QED BY <1>8, <2>3, <2>4 DEF tryConfirmed
<1>9. CASE tryReplied(r) /\ tryLost(r)
  <2> DEFINE row == [key |-> waiting.key, blacks |-> 0, whites |-> 0]
  <2>1. waiting.op = "TRY" /\ r.op = "TRY" /\ saved' = Append(saved, row)
    BY <1>9 DEF tryReplied, tryLost, saveAttempt
  <2>2. row \in Rows
    BY <1>3, <2>1 DEF Rows
  <2>3. isGame' = FALSE /\ EndedWith(told', shownKey')
    BY <1>1, <1>9, <2>1 DEF tryLost, endClientGame, Events, ReplyFits
  <2>4. serverGame' = NoGame
    BY <1>1, <2>3 DEF EndedWith, serverGame
  <2> QED BY <1>7, <2>1, <2>2, <2>3, <2>4 DEF TableOK
<1>10. CASE quitReplied(r) /\ QuitConfirmed(r) /\ endClientGame(r.key, Events.QUIT)
  <2>1. isGame' = FALSE /\ saved' = saved /\ EndedWith(told', shownKey')
    BY <1>1, <1>10 DEF quitReplied, QuitConfirmed, endClientGame, Events, ReplyFits, clientState
  <2>2. serverGame' = NoGame
    BY <1>1, <2>1 DEF EndedWith, serverGame
  <2> QED BY <1>2, <2>1, <2>2 DEF TableOK
<1> QED BY <1>5, <1>6, <1>8, <1>9, <1>10
        DEF receiveReply, startReplied, tryReplied, tryRefused, quitReplied, otherReplied

-----------------------------------------------------------------------------
LEMMA InvStep ==
  ASSUME ~MayBeLate, IInv, SessionInv, [SessionNext]_allVars
  PROVE  SessionInv'
<1>1. CASE UNCHANGED allVars
  BY <1>1
  DEF allVars, vars, session, clientState, network, SessionInv, OneDatagram, ClientOK,
      TableOK, TableOf, ReplyFits, FeedbackFits, EndedWith, serverGame
<1> QED BY <1>1, SendKeeps, ServeKeeps, ReceiveKeeps, TimeoutKeeps, AloneKeeps DEF SessionNext

LEMMA SessionSafe ==
  ASSUME ~MayBeLate
  PROVE  SessionSpec => [](IInv /\ SessionInv)
<1>1. SessionSpec => []IInv
  BY SessionRunsStore, Safety, PTL
<1>2. IInv /\ SessionInv /\ [SessionNext]_allVars => SessionInv'
  BY InvStep
<1> QED BY <1>1, <1>2, Begin, PTL DEF SessionSpec

(* GameState: whatever was lost, the rows of the client's table are the    *)
(* server's attempts with their feedback, in order.                        *)
THEOREM TableIsServers ==
  ASSUME ~MayBeLate
  PROVE  SessionSpec => []SavedAttemptsAreServers
BY SessionSafe, Table, PTL

(* attempt's resend rule forgives one lost reply, and no more are needed.  *)
THEOREM OneReplyForgiven ==
  ASSUME ~MayBeLate
  PROVE  SessionSpec => []AtMostOneBehind
BY SessionSafe, Table, PTL

(* GameState::endGame: the ending and the key the client announces are     *)
(* those of the server's last finished game.                               *)
THEOREM AnnouncedIsRecorded ==
  ASSUME ~MayBeLate
  PROVE  SessionSpec => EndedAsAnnounced
<1>1. IInv /\ SessionInv /\ [SessionNext]_allVars =>
        [isGame /\ ~isGame' =>
           LET files == archive[Player]
               last == files[Len(files)]
           IN /\ serverGame = NoGame /\ files # <<>>
              /\ told' = last.ending /\ shownKey' = last.game.key]_allVars
  <2> SUFFICES ASSUME IInv, SessionInv, SessionNext, isGame, ~isGame'
               PROVE  EndedWith(told', shownKey')
    BY DEF EndedWith
  <2>1. ASSUME NEW r \in replies, receiveReply(r) PROVE EndedWith(told', shownKey')
    BY <2>1, ReceiveKeeps
  <2>2. ASSUME NEW op, NEW key, NEW n, sendRequest(op, key, n) PROVE isGame' = isGame
    BY <2>2 DEF sendRequest, clientState
  <2>3. ASSUME start \/ debugGame \/ tryKey \/ quit \/ exitClient PROVE isGame' = isGame
    BY <2>2, <2>3 DEF start, debugGame, tryKey, quit, exitClient, clientState
  <2>4. ASSUME NEW m \in requests, serve(m) PROVE isGame' = isGame
    BY <2>4 DEF serve, clientState
  <2>5. timeout \/ serverAlone => isGame' = isGame
    BY DEF timeout, serverAlone, session, clientState
  <2> QED BY <2>1, <2>3, <2>4, <2>5 DEF SessionNext
<1> QED BY <1>1, SessionSafe, PTL DEF SessionSpec, EndedAsAnnounced

-----------------------------------------------------------------------------
(* What a reply may tell the client. *)
SoundReply(r) ==
  /\ r.blacks \in 0..KeyLen /\ r.whites \in 0..KeyLen
  /\ r.op = "TRY" /\ r.status = "OK" /\ r.blacks # KeyLen => r.trial < GuessesMax

LEMMA PegsInRange ==
  ASSUME NEW key, NEW att
  PROVE  Blacks(key, att) \in 0..KeyLen /\ Whites(key, att) \in 0..KeyLen
BY PegsFit, FeedbackType, KeyLenAssumption

LEMMA PlainReplySound ==
  ASSUME NEW op, NEW p, NEW status, op # "TRY" \/ status # "OK"
  PROVE  /\ SoundReply(Reply(op, p, status))
         /\ \A key : SoundReply([Reply(op, p, status) EXCEPT !.key = key])
         /\ \A att, trials : op = "TRY" =>
              /\ SoundReply(TryReply(p, att, trials, status))
              /\ \A key : SoundReply([TryReply(p, att, trials, status) EXCEPT !.key = key])
<1>1. 0 \in 0..KeyLen
  BY KeyLenAssumption
<1> QED BY <1>1 DEF SoundReply, Reply, TryReply

LEMMA FeedbackSound ==
  ASSUME NEW p, NEW att, NEW trials, NEW n, NEW key,
         Blacks(key, att) = KeyLen \/ n < GuessesMax
  PROVE  SoundReply(Feedback(p, att, trials, n, key))
BY PegsInRange DEF Feedback, SoundReply

LEMMA TrySound ==
  ASSUME IInv, NEW p \in Players, NEW att \in Code, NEW number \in TrialArgs,
         TryCases(p, att, number)
  PROVE  SoundReply(reply')
<1>1. ASSUME NEW status, status # "OK"
      PROVE  \A trials :
               /\ SoundReply(TryReply(p, att, trials, status))
               /\ \A key : SoundReply([TryReply(p, att, trials, status) EXCEPT !.key = key])
  BY <1>1, PlainReplySound
<1>2. CASE \/ tryWithoutGame(p, att, number) \/ tryTimedOut(p, att, number)
           \/ tryWrongTrial(p, att, number) \/ tryDuplicate(p, att, number)
  <2>1. CASE tryWithoutGame(p, att, number)
    BY <1>1, <2>1 DEF tryWithoutGame
  <2>2. CASE tryTimedOut(p, att, number)
    BY <1>1, <2>2 DEF tryTimedOut
  <2>3. CASE tryWrongTrial(p, att, number)
    BY <1>1, <2>3 DEF tryWrongTrial
  <2>4. CASE tryDuplicate(p, att, number)
    BY <1>1, <2>4 DEF tryDuplicate
  <2> QED BY <1>2, <2>1, <2>2, <2>3, <2>4
<1>3. CASE tryResent(p, att, number)
  <2> DEFINE g == active[p]
  <2>1. g \in Game /\ Len(g.atts) < GuessesMax
    BY <1>3, PlayableFacts DEF tryResent, Playable, GameOpen
  <2>2. g.key \in Code /\ Len(g.atts) \in Nat
    BY <2>1, GameFacts
  <2>3. reply' = Feedback(p, att, number, Len(g.atts), g.key)
    BY <1>3, <2>2, FeedbackIs DEF tryResent
  <2> HIDE DEF g
  <2> QED BY <2>1, <2>3, FeedbackSound
<1>4. CASE tryAccepted(p, att, number)
  <2> DEFINE g == active[p]
             n == Len(g.atts)
             ent == [TryReply(p, att, number, "ENT") EXCEPT !.key = g.key]
             ok == WithFeedback(TryReply(p, att, number, "OK"), n + 1, g.key)
  <2>1. \/ reply' = ent
        \/ reply' = ok /\ (Blacks(g.key, att) = KeyLen \/ ~IsLastGuess(n))
    BY <1>4, Zenon DEF tryAccepted
  <2>2. g \in Game /\ n < GuessesMax
    BY <1>4, PlayableFacts DEF tryAccepted, Playable, GameOpen
  <2>3. g.key \in Code /\ n \in Nat
    BY <2>2, GameFacts
  <2>4. ok = Feedback(p, att, number, n + 1, g.key)
    BY <2>3, FeedbackIs
  <2>5. ~IsLastGuess(n) => n + 1 < GuessesMax
    <3> HIDE DEF n
    <3> QED BY <2>2, <2>3, GuessesMaxAssumption DEF IsLastGuess
  <2>6. SoundReply(ent)
    BY PlainReplySound
  <2> HIDE DEF n, g, ent, ok
  <2> QED BY <2>1, <2>4, <2>5, <2>6, FeedbackSound
<1> QED BY <1>2, <1>3, <1>4 DEF TryCases

LEMMA ServedSound ==
  ASSUME IInv,
         \/ startNewGameHandler(Player) \/ debugGameHandler(Player)
         \/ tryHandler(Player) \/ quitHandler(Player)
  PROVE  SoundReply(reply')
<1>1. CASE startNewGameHandler(Player) \/ debugGameHandler(Player)
  BY <1>1, PlainReplySound DEF startNewGameHandler, debugGameHandler, createGame
<1>2. CASE quitHandler(Player)
  <2>1. \/ reply' = Reply("QUT", Player, "NOK")
        \/ reply' = [Reply("QUT", Player, "OK") EXCEPT !.key = active[Player].key]
    BY <1>2, Zenon DEF quitHandler
  <2> QED BY <2>1, PlainReplySound
<1>3. CASE tryHandler(Player)
  <2>1. PICK att \in Code, number \in TrialArgs : TryCases(Player, att, number)
    BY <1>3, Zenon DEF tryHandler, TryCases
  <2> QED BY <2>1, TrySound, PlayerAssumption
<1> QED BY <1>1, <1>2, <1>3

-----------------------------------------------------------------------------
(* The type of the client's state holds however late a datagram arrives.    *)
(* What a client keeps of a game: its next trial is the one after the      *)
(* attempts in the table, and a try it waits for is that trial.            *)
Flags == isGame \in BOOLEAN /\ finished \in BOOLEAN /\ debug \in BOOLEAN /\ exit \in BOOLEAN

Shown == shownKey \in Code \cup {NoKey} /\ told \in {"none", "T", "L", "W", "Q"}

Tabled ==
  /\ trial \in 0..GuessesMax
  /\ saved \in Seq(Saved) /\ Len(saved) <= GuessesMax
  /\ isGame => trial = Len(saved) + 1

Sent ==
  /\ now \in 0..MaxTime
  /\ waiting \in Packet \cup {NoRequest} /\ requests \subseteq Packet
  /\ waiting # NoRequest /\ waiting.op = "TRY" =>
       isGame /\ waiting.trial = trial /\ waiting.key \in Code

Heard ==
  \A r \in replies :
    SoundReply(r) /\ r.key \in Code \cup {NoKey} /\ r.trial \in Int

SessionTyped == Flags /\ Shown /\ Tabled /\ Sent /\ Heard

LEMMA EventNames ==
  /\ Events.WON = "W" /\ Events.LOST_MAXTRIALS = "L"
  /\ Events.LOST_TIME = "T" /\ Events.QUIT = "Q"
BY DEF Events

LEMMA TypedIsOK == SessionTyped => SessionTypeOK
<1> SUFFICES ASSUME SessionTyped PROVE SessionTypeOK
  OBVIOUS
<1>1. {isGame, finished, debug, exit} \subseteq BOOLEAN
  BY DEF SessionTyped, Flags
<1>2. told \in {"none"} \cup {Events[e] : e \in DOMAIN Events}
  <2>1. \A e \in {"LOST_TIME", "LOST_MAXTRIALS", "WON", "QUIT"} : e \in DOMAIN Events
    BY DEF Events
  <2>2. told \in {"none", Events.LOST_TIME, Events.LOST_MAXTRIALS, Events.WON, Events.QUIT}
    BY EventNames DEF SessionTyped, Shown
  <2> QED BY <2>1, <2>2
<1>3. \A i \in 1..Len(saved) : saved[i] \in Saved
  BY DEF SessionTyped, Tabled
<1> QED BY <1>1, <1>2, <1>3 DEF SessionTyped, Shown, Tabled, Sent, SessionTypeOK

LEMMA TypedBegin == SessionInit => SessionTyped
<1> SUFFICES ASSUME SessionInit PROVE SessionTyped
  OBVIOUS
<1>1. now = 0 /\ 0 \in 0..MaxTime /\ 0 \in 0..GuessesMax
  BY GuessesMaxAssumption, BoundsAssumption DEF SessionInit, Init
<1>2. saved \in Seq(Saved) /\ Len(saved) = 0
  BY DEF SessionInit
<1>3. Tabled
  BY <1>1, <1>2, GuessesMaxAssumption DEF SessionInit, Tabled
<1> QED BY <1>1, <1>3 DEF SessionInit, SessionTyped, Flags, Shown, Sent, Heard

LEMMA SendTyped ==
  ASSUME SessionTyped, start \/ debugGame \/ tryKey \/ quit \/ exitClient
  PROVE  SessionTyped'
<1>1. ASSUME NEW op \in {"SNG", "DBG", "TRY", "QUT"}, NEW key \in Code \cup {NoKey},
             NEW n \in 0..GuessesMax, sendRequest(op, key, n), exit' \in BOOLEAN,
             op = "TRY" => isGame /\ n = trial /\ key \in Code
      PROVE  SessionTyped'
  <2> DEFINE m == [op |-> op, key |-> key, trial |-> n, sentAt |-> now]
  <2>1. /\ waiting' = m /\ requests' = requests \cup {m}
        /\ UNCHANGED <<now, isGame, finished, debug, trial, saved, shownKey, told, replies>>
    BY <1>1 DEF sendRequest, vars, clientState
  <2>2. m \in Packet
    BY DEF SessionTyped, Sent, Packet, PacketOf
  <2>3. m.op = "TRY" => isGame /\ m.trial = trial /\ m.key \in Code
    BY <1>1
  <2> HIDE DEF m
  <2>4. Sent'
    BY <2>1, <2>2, <2>3 DEF SessionTyped, Sent
  <2>5. (Flags /\ Shown /\ Tabled /\ Heard)'
    BY <1>1, <2>1 DEF SessionTyped, Flags, Shown, Tabled, Heard
  <2> QED BY <2>4, <2>5 DEF SessionTyped
<1>2. 0 \in 0..GuessesMax /\ trial \in 0..GuessesMax /\ exit \in BOOLEAN
  BY GuessesMaxAssumption DEF SessionTyped, Flags, Tabled
<1>3. CASE start
  BY <1>1, <1>2, <1>3 DEF start
<1>4. CASE debugGame
  <2>1. PICK key \in Code : sendRequest("DBG", key, 0)
    BY <1>4 DEF debugGame
  <2> QED BY <1>1, <1>2, <1>4, <2>1 DEF debugGame
<1>5. CASE tryKey
  <2>1. PICK key \in Code : sendRequest("TRY", key, trial)
    BY <1>5 DEF tryKey
  <2> QED BY <1>1, <1>2, <1>5, <2>1 DEF tryKey
<1>6. CASE quit
  BY <1>1, <1>2, <1>6 DEF quit
<1>7. CASE exitClient
  <2>1. CASE sendRequest("QUT", NoKey, 0)
    BY <1>1, <1>2, <1>7, <2>1 DEF exitClient
  <2>2. CASE UNCHANGED <<vars, clientState, waiting, network>>
    BY <1>7, <2>2
    DEF exitClient, vars, clientState, network, SessionTyped, Flags, Shown, Tabled, Sent, Heard
  <2> QED BY <1>7, <2>1, <2>2 DEF exitClient
<1> QED BY <1>3, <1>4, <1>5, <1>6, <1>7

LEMMA ServeTyped ==
  ASSUME SessionTyped, IInv, NEW m \in requests, serve(m)
  PROVE  SessionTyped'
<1>1. \/ startNewGameHandler(Player) \/ debugGameHandler(Player)
      \/ tryHandler(Player) \/ quitHandler(Player)
  BY DEF serve
<1>2. now' = now
  BY <1>1 DEF startNewGameHandler, debugGameHandler, tryHandler, quitHandler
<1>3. /\ requests' = requests \ {m} /\ replies' = replies \cup {Encoded(reply')}
      /\ UNCHANGED <<isGame, finished, debug, trial, saved, shownKey, told, exit, waiting>>
  BY DEF serve, clientState
<1>4. [Next]_vars
  BY PlayerAssumption, <1>1 DEF Next
<1>5. reply' \in ReplyType
  BY <1>4, TypeStep DEF IInv, TypeOK
<1>6. SoundReply(reply')
  BY <1>1, ServedSound
<1>7. SoundReply(Encoded(reply')) /\ Encoded(reply').key \in Code \cup {NoKey}
      /\ Encoded(reply').trial \in Int
  BY <1>5, <1>6, EncodedFields DEF SoundReply, ReplyType
<1>8. Heard'
  BY <1>3, <1>7 DEF SessionTyped, Heard
<1> QED BY <1>2, <1>3, <1>8 DEF SessionTyped, Flags, Shown, Tabled, Sent

LEMMA ReceiveTyped ==
  ASSUME SessionTyped, NEW r \in replies, receiveReply(r)
  PROVE  SessionTyped'
<1>1. /\ SoundReply(r) /\ r.key \in Code \cup {NoKey} /\ r.trial \in Int
      /\ waiting \in Packet /\ waiting.key \in Code \cup {NoKey}
  BY DEF receiveReply, SessionTyped, Heard, Sent, Packet, PacketOf
<1>2. /\ waiting' = NoRequest /\ replies' = replies \ {r}
      /\ UNCHANGED <<now, exit, requests>>
  BY DEF receiveReply, vars
<1>3. Sent' /\ Heard' /\ exit' \in BOOLEAN
  BY <1>2 DEF SessionTyped, Sent, Heard, Flags
<1>4. waiting.op = "TRY" => isGame /\ waiting.trial = trial /\ waiting.key \in Code
  BY DEF receiveReply, SessionTyped, Sent
<1>5. /\ trial \in 0..GuessesMax /\ GuessesMax \in Nat
      /\ saved \in Seq(Saved) /\ Len(saved) \in Nat /\ Len(saved) <= GuessesMax
      /\ isGame => trial = Len(saved) + 1
  BY GuessesMaxAssumption, LenProperties DEF SessionTyped, Tabled
<1>6. ASSUME NEW key \in Code, NEW blacks \in 0..KeyLen, NEW whites \in 0..KeyLen,
             saveAttempt(key, blacks, whites)
      PROVE  saved' \in Seq(Saved) /\ Len(saved') = Len(saved) + 1
  <2> DEFINE row == [key |-> key, blacks |-> blacks, whites |-> whites]
  <2>1. row \in Saved /\ saved' = Append(saved, row)
    BY <1>6 DEF Saved, saveAttempt
  <2> HIDE DEF row
  <2> QED BY <1>5, <2>1, AppendProperties
<1>7. ASSUME UNCHANGED clientState
      PROVE  SessionTyped'
  BY <1>3, <1>7 DEF clientState, SessionTyped, Flags, Shown, Tabled
<1>8. ASSUME NEW key \in Code \cup {NoKey}, NEW event \in {"T", "L", "W", "Q"},
             endClientGame(key, event), saved' \in Seq(Saved), Len(saved') <= GuessesMax
      PROVE  SessionTyped'
  BY <1>3, <1>5, <1>8 DEF endClientGame, SessionTyped, Flags, Shown, Tabled
<1>9. CASE startReplied(r)
  <2>1. CASE startGame(waiting.key)
    <3>1. debug' \in BOOLEAN
      BY <2>1 DEF startGame
    <3>2. saved' \in Seq(Saved) /\ Len(saved') = 0
      BY <2>1 DEF startGame, SavedAtStart
    <3>3. 1 \in 0..GuessesMax
      BY GuessesMaxAssumption
    <3>4. (Flags /\ Shown)'
      BY <1>1, <1>3, <2>1, <3>1 DEF startGame, SessionTyped, Flags, Shown
    <3>5. Tabled'
      BY <1>5, <2>1, <3>2, <3>3 DEF startGame, Tabled
    <3> QED BY <1>3, <3>4, <3>5 DEF SessionTyped
  <2> QED BY <1>7, <1>9, <2>1 DEF startReplied
<1>10. CASE tryReplied(r)
  <2>1. waiting.op = "TRY" /\ isGame /\ waiting.trial = trial /\ waiting.key \in Code
        /\ r.op = "TRY"
    BY <1>4, <1>10 DEF tryReplied
  <2>2. Len(saved) + 1 <= GuessesMax
    BY <1>5, <2>1
  <2>3. CASE tryConfirmed(r)
    <3>1. saved' \in Seq(Saved) /\ Len(saved') = Len(saved) + 1
      BY <1>1, <1>6, <2>1, <2>3 DEF tryConfirmed, SoundReply
    <3>2. CASE endClientGame(waiting.key, Events.WON)
      BY <1>8, <2>1, <2>2, <3>1, <3>2, EventNames
    <3>3. CASE /\ ~HasWon(r) /\ trial' = trial + 1
               /\ UNCHANGED <<isGame, finished, debug, shownKey, told>>
      <4>1. trial < GuessesMax
        BY <1>1, <1>5, <2>1, <2>3, <3>3 DEF tryConfirmed, HasWon, SoundReply
      <4>2. Tabled'
        BY <1>5, <2>1, <2>2, <3>1, <3>3, <4>1 DEF Tabled
      <4> QED BY <1>3, <3>3, <4>2 DEF SessionTyped, Flags, Shown
    <3> QED BY <2>3, <3>2, <3>3 DEF tryConfirmed
  <2>4. CASE tryLost(r)
    <3>1. 0 \in 0..KeyLen
      BY KeyLenAssumption
    <3>2. saved' \in Seq(Saved) /\ Len(saved') = Len(saved) + 1
      BY <1>6, <2>1, <2>4, <3>1 DEF tryLost
    <3>3. \/ endClientGame(r.key, "L") \/ endClientGame(r.key, "T")
      BY <2>4, EventNames DEF tryLost
    <3> QED BY <1>1, <1>8, <2>2, <3>2, <3>3
  <2>5. CASE tryRefused(r)
    BY <1>7, <2>5 DEF tryRefused
  <2> QED BY <1>10, <2>3, <2>4, <2>5 DEF tryReplied
<1>11. CASE quitReplied(r)
  <2>1. CASE endClientGame(r.key, Events.QUIT) /\ UNCHANGED saved
    BY <1>1, <1>5, <1>8, <2>1, EventNames
  <2> QED BY <1>7, <1>11, <2>1 DEF quitReplied
<1>12. CASE otherReplied(r)
  BY <1>7, <1>12 DEF otherReplied
<1> QED BY <1>9, <1>10, <1>11, <1>12 DEF receiveReply

LEMMA TypedStep ==
  ASSUME SessionTyped, IInv, [SessionNext]_allVars
  PROVE  SessionTyped'
<1>1. CASE UNCHANGED allVars
  BY <1>1
  DEF allVars, vars, session, clientState, network, SessionTyped, Flags, Shown, Tabled,
      Sent, Heard
<1>2. CASE timeout
  <2>1. /\ waiting' = NoRequest /\ requests' \subseteq requests /\ replies' \subseteq replies
        /\ UNCHANGED <<now, isGame, finished, debug, trial, saved, shownKey, told, exit>>
    BY <1>2 DEF timeout, vars, clientState, network
  <2> QED BY <2>1 DEF SessionTyped, Flags, Shown, Tabled, Sent, Heard
<1>3. CASE serverAlone
  <2>1. now' \in 0..MaxTime
    <3>1. now' = now \/ (now < MaxTime /\ now' = now + 1)
      BY <1>3 DEF serverAlone, Tick, showTrialsAccept, showTrialsHandler
    <3> QED BY <3>1, BoundsAssumption DEF SessionTyped, Sent
  <2>2. UNCHANGED <<clientState, exit, waiting, requests, replies>>
    BY <1>3 DEF serverAlone, session, network
  <2> QED
    BY <2>1, <2>2 DEF clientState, SessionTyped, Flags, Shown, Tabled, Sent, Heard
<1> QED
  BY <1>1, <1>2, <1>3, SendTyped, ServeTyped, ReceiveTyped DEF SessionNext

(* GameState and Client: whatever is lost, late or out of order, the flags *)
(* of the client, its trial number and its table stay in range, and it     *)
(* never numbers a try beyond the last guess.                              *)
THEOREM SessionTypeCorrect == SessionSpec => []SessionTypeOK
<1>1. SessionTyped /\ IInv /\ [SessionNext]_allVars => SessionTyped'
  BY TypedStep
<1> QED BY <1>1, TypedBegin, TypedIsOK, SessionRunsStore, Safety, PTL DEF SessionSpec
=============================================================================
