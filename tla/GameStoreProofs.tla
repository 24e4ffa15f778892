--------------------------- MODULE GameStoreProofs ---------------------------
(***************************************************************************)
(* Type correctness and the safety invariants of GameStore, for any number *)
(* of players, workers, colours, positions, trials and seconds; then what  *)
(* its steps do to a player's games, and what follows from it: the scores  *)
(* are those of the games won, a running game is kept, a repeated try is   *)
(* harmless, and the store does only what PlayerGame promises.             *)
(***************************************************************************)
EXTENDS GameStore, GameRulesProofs, SequenceTheorems

(* All pegs are black exactly when the guess is the key. *)
LEMMA AllBlack ==
  ASSUME NEW key \in Code, NEW att \in Code
  PROVE  Blacks(key, att) = KeyLen <=> att = key
<1>1. IsFiniteSet(Positions) /\ Cardinality(Positions) = KeyLen
  BY FS_Interval, KeyLenAssumption DEF Positions
<1>2. OnPosition(key, att) \in SUBSET Positions
  BY DEF OnPosition
<1>3. ASSUME Blacks(key, att) = KeyLen PROVE att = key
  <2>1. OnPosition(key, att) = Positions
    BY <1>1, <1>2, <1>3, FS_Subset DEF Blacks
  <2> QED BY <2>1 DEF OnPosition, Code
<1>4. ASSUME att = key PROVE Blacks(key, att) = KeyLen
  BY <1>1, <1>4 DEF Blacks, OnPosition
<1> QED BY <1>3, <1>4

(* Scores are integers. *)
LEMMA ScoreType ==
  ASSUME NEW used \in Int, NEW time \in Int
  PROVE  Score(used, time) \in Int
<1>1. \A a \in Int : \A b \in Nat \ {0} : CDiv(a, b) \in Int
  BY DEF CDiv
<1>2. (GuessesMax - used * used) * 100 \in Int /\ (PlayTimeMax - time) * 211 \in Int
  BY GuessesMaxAssumption, PlayTimeMaxAssumption
<1> QED BY <1>1, <1>2, GuessesMaxAssumption, PlayTimeMaxAssumption DEF Score

-----------------------------------------------------------------------------
(* Types of what the handlers compute. *)
LEMMA ReplyIsReply ==
  ASSUME NEW op \in Ops, NEW p \in Players, NEW status \in Statuses
  PROVE  Reply(op, p, status) \in ReplyType
BY DEF Reply, ReplyType

LEMMA TryReplyType ==
  ASSUME NEW p \in Players, NEW att \in Code, NEW trial \in TrialArgs,
         NEW status \in Statuses
  PROVE  TryReply(p, att, trial, status) \in ReplyType
<1>1. Reply("TRY", p, status) \in ReplyType
  BY ReplyIsReply DEF Ops
<1>2. trial \in Nat
  BY ArgsAssumption
<1> QED BY <1>1, <1>2 DEF TryReply, ReplyType

LEMMA WithFeedbackType ==
  ASSUME NEW r \in ReplyType, NEW n \in Nat, NEW key \in Code
  PROVE  WithFeedback(r, n, key) \in ReplyType
BY FeedbackType DEF WithFeedback, ReplyType

LEMMA WithKeyType ==
  ASSUME NEW r \in ReplyType, NEW key \in Code \cup {NoKey}
  PROVE  [r EXCEPT !.key = key] \in ReplyType
BY DEF ReplyType

LEMMA EndedType ==
  ASSUME NEW g \in Game, NEW ending \in {"W", "L", "Q", "T"},
         NEW tstamp \in Nat, NEW used \in Int
  PROVE  Ended(g, ending, tstamp, used) \in Finished
BY DEF Ended, Finished

LEMMA AfterCheckType ==
  ASSUME TypeOK, NEW p \in Players, NEW tstamp \in Nat
  PROVE  /\ ActiveAfterCheck(p, tstamp) \in [Players -> Game \cup {NoGame}]
         /\ ArchiveAfterCheck(p, tstamp) \in [Players -> Seq(Finished)]
<1>1. ActiveAfterCheck(p, tstamp) \in [Players -> Game \cup {NoGame}]
  BY DEF ActiveAfterCheck, TypeOK
<1>2. CASE ~Expired(p, tstamp)
  BY <1>1, <1>2 DEF ArchiveAfterCheck, TypeOK
<1>3. CASE Expired(p, tstamp)
  <2>1. active[p] \in Game
    BY <1>3 DEF Expired, TypeOK
  <2>2. active[p].playTime \in 1..PlayTimeMax
    BY <2>1 DEF Game
  <2>3. TimedOut(p, tstamp) \in Finished
    BY <2>1, <2>2, PlayTimeMaxAssumption, EndedType DEF TimedOut
  <2>4. Append(archive[p], TimedOut(p, tstamp)) \in Seq(Finished)
    BY <2>3, AppendProperties DEF TypeOK
  <2> QED BY <1>1, <1>3, <2>4 DEF ArchiveAfterCheck, TypeOK
<1> QED BY <1>2, <1>3

LEMMA EndGameType ==
  ASSUME TypeOK, NEW p \in Players, NEW g \in Game,
         NEW ending \in {"W", "L", "Q", "T"}, NEW used \in Int,
         endGame(p, g, ending, used)
  PROVE  /\ active' \in [Players -> Game \cup {NoGame}]
         /\ archive' \in [Players -> Seq(Finished)]
<1>1. Ended(g, ending, now, used) \in Finished
  BY EndedType DEF TypeOK
<1>2. Append(archive[p], Ended(g, ending, now, used)) \in Seq(Finished)
  BY <1>1, AppendProperties DEF TypeOK
<1> QED BY <1>2 DEF endGame, TypeOK

LEMMA WithAttemptType ==
  ASSUME TypeOK, NEW g \in Game, NEW att \in Code
  PROVE  /\ WithAttempt(g, att) \in Game
         /\ Len(WithAttempt(g, att).atts) = Len(g.atts) + 1
         /\ WithAttempt(g, att).atts[Len(g.atts) + 1]
              = [key |-> att, blacks |-> Blacks(g.key, att),
                 whites |-> Whites(g.key, att), time |-> now - g.start]
         /\ \A i \in 1..Len(g.atts) : WithAttempt(g, att).atts[i] = g.atts[i]
         /\ \A f \in {"key", "mode", "playTime", "start"} :
              WithAttempt(g, att)[f] = g[f]
<1> DEFINE a == [key |-> att, blacks |-> Blacks(g.key, att),
                 whites |-> Whites(g.key, att), time |-> now - g.start]
<1>1. g.start \in Nat /\ g.atts \in Seq(Attempt) /\ g.key \in Code
  BY DEF Game
<1>2. now - g.start \in Int
  BY <1>1 DEF TypeOK
<1>3. a \in Attempt
  BY <1>2, FeedbackType DEF Attempt
<1>4. /\ Append(g.atts, a) \in Seq(Attempt)
      /\ Len(Append(g.atts, a)) = Len(g.atts) + 1
      /\ Append(g.atts, a)[Len(g.atts) + 1] = a
      /\ \A i \in 1..Len(g.atts) : Append(g.atts, a)[i] = g.atts[i]
  BY <1>1, <1>3, AppendProperties
<1>5. WithAttempt(g, att) = [g EXCEPT !.atts = Append(g.atts, a)]
  BY DEF WithAttempt
<1> HIDE DEF a
<1>6. WithAttempt(g, att) \in Game
  BY <1>4, <1>5 DEF Game
<1>7. WithAttempt(g, att).atts = Append(g.atts, a)
  BY <1>5 DEF Game
<1>8. \A f \in {"key", "mode", "playTime", "start"} : WithAttempt(g, att)[f] = g[f]
  BY <1>5 DEF Game
<1> QED BY <1>4, <1>6, <1>7, <1>8 DEF a

LEMMA CreateGameType ==
  ASSUME TypeOK, NEW op \in {"SNG", "DBG"}, NEW p \in Players,
         NEW playTime \in 1..PlayTimeMax, NEW key \in Code, NEW mode \in {"P", "D"},
         createGame(op, p, playTime, key, mode), UNCHANGED <<now, strReq>>
  PROVE  TypeOK'
<1>1. CASE UNCHANGED store /\ reply' = Reply(op, p, "NOK")
  BY <1>1, ReplyIsReply DEF TypeOK, store, Ops, Statuses
<1>2. CASE /\ active' = [active EXCEPT ![p] = NewGame(key, mode, playTime)]
           /\ archive' = ArchiveAfterCheck(p, now)
           /\ reply' = Reply(op, p, "OK")
           /\ UNCHANGED scores
  <2>1. NewGame(key, mode, playTime) \in Game
    BY EmptySeq DEF NewGame, Game, TypeOK
  <2>2. archive' \in [Players -> Seq(Finished)]
    BY <1>2, AfterCheckType DEF TypeOK
  <2>3. reply' \in ReplyType
    BY <1>2, ReplyIsReply DEF Ops, Statuses
  <2> QED BY <1>2, <2>1, <2>2, <2>3 DEF TypeOK
<1> QED BY <1>1, <1>2 DEF createGame

LEMMA StartTimeType ==
  ASSUME NEW t \in TimeArgs
  PROVE  /\ ValidTime(t) => t \in 1..PlayTimeMax
         /\ ValidTime(StartTime(t)) => StartTime(t) \in 1..PlayTimeMax
<1>1. t \in Nat /\ t % 65536 \in Nat
  BY ArgsAssumption
<1> QED BY <1>1, PlayTimeMaxAssumption DEF ValidTime, StartTime, UShortSize

LEMMA TryType ==
  ASSUME TypeOK, NEW p \in Players, tryHandler(p)
  PROVE  TypeOK'
<1> PICK att \in Code, trial \in TrialArgs :
      \/ tryWithoutGame(p, att, trial)
      \/ tryTimedOut(p, att, trial)
      \/ tryResent(p, att, trial)
      \/ tryWrongTrial(p, att, trial)
      \/ tryDuplicate(p, att, trial)
      \/ tryAccepted(p, att, trial)
  BY DEF tryHandler
<1> UNCHANGED <<now, strReq>>
  BY DEF tryHandler
<1>r. \A status \in Statuses : TryReply(p, att, trial, status) \in ReplyType
  BY TryReplyType
<1>g. Playable(p) => active[p] \in Game
  BY DEF Playable, checkTimedoutGame, TypeOK
<1>k. \A g \in Game : g.key \in Code /\ Len(g.atts) \in Nat
  BY LenProperties DEF Game
<1>1. CASE tryWithoutGame(p, att, trial)
  BY <1>1, <1>r DEF tryWithoutGame, TypeOK, store, Statuses
<1>2. CASE tryTimedOut(p, att, trial)
  <2>1. active[p] \in Game /\ active[p].key \in Code
    BY <1>2, <1>k DEF tryTimedOut, checkTimedoutGame, TypeOK
  <2>2. reply' \in ReplyType
    BY <1>2, <1>r, <2>1, WithKeyType DEF tryTimedOut, Statuses
  <2>3. /\ active' \in [Players -> Game \cup {NoGame}]
        /\ archive' \in [Players -> Seq(Finished)]
    BY <1>2, AfterCheckType DEF tryTimedOut, TypeOK
  <2> QED BY <1>2, <2>2, <2>3 DEF tryTimedOut, TypeOK
<1>3. CASE tryResent(p, att, trial)
  <2>1. active[p].key \in Code /\ Len(active[p].atts) \in Nat
    BY <1>3, <1>g, <1>k DEF tryResent
  <2>2. reply' \in ReplyType
    BY <1>3, <1>r, <2>1, WithFeedbackType DEF tryResent, Statuses
  <2> QED BY <1>3, <2>2 DEF tryResent, TypeOK, store
<1>4. CASE tryWrongTrial(p, att, trial)
  BY <1>4, <1>r DEF tryWrongTrial, TypeOK, store, Statuses
<1>5. CASE tryDuplicate(p, att, trial)
  BY <1>5, <1>r DEF tryDuplicate, TypeOK, store, Statuses
<1>6. CASE tryAccepted(p, att, trial)
  <2> DEFINE g == active[p]
             n == Len(g.atts)
             next == WithAttempt(g, att)
  <2>1. g \in Game /\ g.key \in Code /\ n \in Nat
    BY <1>6, <1>g, <1>k DEF tryAccepted
  <2>2. next \in Game /\ Len(next.atts) = n + 1
    BY <2>1, WithAttemptType
  <2>3. now - g.start \in Int
    BY <2>1 DEF Game, TypeOK
  <2>4. WithFeedback(TryReply(p, att, trial, "OK"), n + 1, g.key) \in ReplyType
    <3>1. TryReply(p, att, trial, "OK") \in ReplyType
      BY <1>r DEF Statuses
    <3> QED BY <3>1, <2>1, WithFeedbackType
  <2>5. CASE /\ endGame(p, next, "L", now - g.start)
             /\ reply' = [TryReply(p, att, trial, "ENT") EXCEPT !.key = g.key]
             /\ UNCHANGED scores
    <3>1. reply' \in ReplyType
      BY <2>5, <2>1, <1>r, WithKeyType DEF Statuses
    <3>2. /\ active' \in [Players -> Game \cup {NoGame}]
          /\ archive' \in [Players -> Seq(Finished)]
      BY <2>5, <2>2, <2>3, EndGameType
    <3> QED BY <2>5, <3>1, <3>2 DEF TypeOK
  <2>6. CASE /\ endGame(p, next, "W", now - g.start)
             /\ saveGameScore(p, g, TrialsUsed(next), now - g.start)
             /\ reply' = WithFeedback(TryReply(p, att, trial, "OK"), n + 1, g.key)
    <3>1. reply' \in ReplyType
      BY <2>6, <2>4
    <3>2. /\ active' \in [Players -> Game \cup {NoGame}]
          /\ archive' \in [Players -> Seq(Finished)]
      BY <2>6, <2>2, <2>3, EndGameType
    <3>3. scores' \subseteq ScoreFile
      <4>1. TrialsUsed(next) \in Nat
        BY <2>1, <2>2 DEF TrialsUsed
      <4>2. Score(TrialsUsed(next), now - g.start) \in Int
        BY <4>1, <2>3, ScoreType
      <4>3. g.mode \in {"P", "D"}
        BY <2>1 DEF Game
      <4>4. [score |-> Score(TrialsUsed(next), now - g.start), plid |-> p,
             tstamp |-> now, trials |-> TrialsUsed(next), mode |-> g.mode,
             key |-> g.key] \in ScoreFile
        BY <4>1, <4>2, <4>3, <2>1 DEF ScoreFile, TypeOK
      <4> QED BY <4>4, <2>6 DEF saveGameScore, TypeOK
    <3> QED BY <2>6, <3>1, <3>2, <3>3 DEF TypeOK
  <2>7. CASE /\ active' = [active EXCEPT ![p] = next]
             /\ reply' = WithFeedback(TryReply(p, att, trial, "OK"), n + 1, g.key)
             /\ UNCHANGED <<archive, scores>>
    BY <2>7, <2>2, <2>4 DEF TypeOK
  <2> QED BY <1>6, <2>5, <2>6, <2>7 DEF tryAccepted
<1> QED BY <1>1, <1>2, <1>3, <1>4, <1>5, <1>6

LEMMA ShowTrialsType ==
  ASSUME TypeOK, NEW w \in Workers, showTrialsHandler(w)
  PROVE  TypeOK'
<1> DEFINE p == strReq[w].plid
           tstamp == strReq[w].tstamp
           files == ArchiveAfterCheck(p, tstamp)[p]
<1>1. p \in Players /\ tstamp \in Nat
  BY DEF showTrialsHandler, TypeOK, Request
<1>2. strReq' \in [Workers -> Request \cup {NoRequest}] /\ UNCHANGED <<now, scores>>
  BY DEF showTrialsHandler, TypeOK
<1>3. Reply("STR", p, "NOK") \in ReplyType
  BY <1>1, ReplyIsReply DEF Ops, Statuses
<1>4. CASE UNCHANGED <<active, archive>> /\ reply' = Reply("STR", p, "NOK")
  BY <1>2, <1>3, <1>4 DEF TypeOK
<1>5. CASE /\ getLastGame(p, tstamp)
           /\ active' = ActiveAfterCheck(p, tstamp)
           /\ archive' = ArchiveAfterCheck(p, tstamp)
  <2>1. /\ active' \in [Players -> Game \cup {NoGame}]
        /\ archive' \in [Players -> Seq(Finished)]
    BY <1>1, <1>5, AfterCheckType
  <2>2. CASE /\ checkTimedoutGame(p, tstamp) >= 0
             /\ reply' = [Reply("STR", p, "ACT") EXCEPT
                            !.key = KeyOfOngoing(active[p]), !.shown = active[p]]
    <3>1. active[p] \in Game
      BY <1>1, <2>2 DEF checkTimedoutGame, TypeOK
    <3>2. KeyOfOngoing(active[p]) \in Code \cup {NoKey}
      BY <3>1 DEF KeyOfOngoing, Game
    <3>3. Reply("STR", p, "ACT") \in ReplyType
      BY <1>1, ReplyIsReply DEF Ops, Statuses
    <3> QED BY <1>2, <2>1, <2>2, <3>1, <3>2, <3>3 DEF ReplyType, TypeOK
  <2>3. CASE \E last \in findLastFinishedGame(files) :
               reply' = [Reply("STR", p, "FIN") EXCEPT
                           !.key = last.game.key, !.shown = last.game]
    <3>1. PICK last \in findLastFinishedGame(files) :
               reply' = [Reply("STR", p, "FIN") EXCEPT
                           !.key = last.game.key, !.shown = last.game]
      BY <2>3
    <3>2. last \in Finished
      <4>1. files \in Seq(Finished)
        BY <1>1, AfterCheckType
      <4>2. PICK i \in 1..Len(files) : last = files[i]
        BY DEF findLastFinishedGame, Directory
      <4> QED BY <4>1, <4>2, ElementOfSeq
    <3>3. last.game \in Game /\ last.game.key \in Code
      BY <3>2 DEF Finished, Game
    <3>4. Reply("STR", p, "FIN") \in ReplyType
      BY <1>1, ReplyIsReply DEF Ops, Statuses
    <3> QED BY <1>2, <2>1, <3>1, <3>3, <3>4 DEF ReplyType, TypeOK
  <2>4. CASE reply' = Reply("STR", p, "NOK")
    BY <1>2, <1>3, <2>1, <2>4 DEF TypeOK
  <2> QED BY <1>5, <2>2, <2>3, <2>4 DEF getLastGame
<1> QED BY <1>4, <1>5 DEF showTrialsHandler

LEMMA TypeInit == Init => TypeOK
<1> SUFFICES ASSUME Init PROVE TypeOK
  OBVIOUS
<1>1. reply \in ReplyType
  BY ReplyIsReply DEF Init, Ops, Statuses
<1> QED BY <1>1, EmptySeq DEF Init, TypeOK

LEMMA TypeStep ==
  ASSUME TypeOK, [Next]_vars
  PROVE  TypeOK'
<1>1. CASE Tick
  BY <1>1 DEF Tick, TypeOK
<1>2. ASSUME NEW p \in Players, startNewGameHandler(p) PROVE TypeOK'
  <2>1. PICK t \in TimeArgs :
          \/ ~ValidTime(StartTime(t)) /\ reply' = Reply("SNG", p, "ERR") /\ UNCHANGED store
          \/ /\ ValidTime(StartTime(t))
             /\ \E key \in Code : createGame("SNG", p, StartTime(t), key, "P")
    BY <1>2 DEF startNewGameHandler
  <2>2. CASE reply' = Reply("SNG", p, "ERR") /\ UNCHANGED store
    BY <1>2, <2>2, ReplyIsReply
    DEF startNewGameHandler, TypeOK, store, Ops, Statuses
  <2>3. CASE /\ ValidTime(StartTime(t))
             /\ \E key \in Code : createGame("SNG", p, StartTime(t), key, "P")
    BY <1>2, <2>3, StartTimeType, CreateGameType DEF startNewGameHandler
  <2> QED BY <2>1, <2>2, <2>3
<1>3. ASSUME NEW p \in Players, debugGameHandler(p) PROVE TypeOK'
  <2>1. PICK t \in TimeArgs :
          \/ ~ValidTime(t) /\ reply' = Reply("DBG", p, "ERR") /\ UNCHANGED store
          \/ ValidTime(t) /\ \E key \in Code : createGame("DBG", p, t, key, "D")
    BY <1>3 DEF debugGameHandler
  <2>2. CASE reply' = Reply("DBG", p, "ERR") /\ UNCHANGED store
    BY <1>3, <2>2, ReplyIsReply
    DEF debugGameHandler, TypeOK, store, Ops, Statuses
  <2>3. CASE ValidTime(t) /\ \E key \in Code : createGame("DBG", p, t, key, "D")
    BY <1>3, <2>3, StartTimeType, CreateGameType DEF debugGameHandler
  <2> QED BY <2>1, <2>2, <2>3
<1>4. ASSUME NEW p \in Players, tryHandler(p) PROVE TypeOK'
  BY <1>4, TryType
<1>5. ASSUME NEW p \in Players, quitHandler(p) PROVE TypeOK'
  <2>1. CASE /\ active' = ActiveAfterCheck(p, now)
             /\ archive' = ArchiveAfterCheck(p, now)
             /\ reply' = Reply("QUT", p, "NOK")
    <3>1. reply' \in ReplyType
      BY <2>1, ReplyIsReply DEF Ops, Statuses
    <3> QED BY <1>5, <2>1, <3>1, AfterCheckType DEF quitHandler, TypeOK
  <2>2. CASE /\ checkTimedoutGame(p, now) >= 0
             /\ endGame(p, active[p], "Q", QuitTime(active[p]))
             /\ reply' = [Reply("QUT", p, "OK") EXCEPT !.key = active[p].key]
    <3>1. active[p] \in Game
      BY <2>2 DEF checkTimedoutGame, TypeOK
    <3>2. QuitTime(active[p]) \in Int /\ active[p].key \in Code
      BY <3>1 DEF QuitTime, Game, TypeOK
    <3>3. reply' \in ReplyType
      BY <2>2, <3>2, ReplyIsReply, WithKeyType DEF Ops, Statuses
    <3>4. /\ active' \in [Players -> Game \cup {NoGame}]
          /\ archive' \in [Players -> Seq(Finished)]
      BY <2>2, <3>1, <3>2, EndGameType
    <3> QED BY <1>5, <3>3, <3>4 DEF quitHandler, TypeOK
  <2> QED BY <1>5, <2>1, <2>2 DEF quitHandler
<1>6. ASSUME NEW p \in Players, malformedRequest(p) PROVE TypeOK'
  BY <1>6, ReplyIsReply DEF malformedRequest, TypeOK, Ops, Statuses
<1>7. ASSUME NEW p \in Players, NEW w \in Workers, showTrialsAccept(w, p)
      PROVE TypeOK'
  BY <1>7 DEF showTrialsAccept, TypeOK, Request
<1>8. ASSUME NEW w \in Workers, showTrialsHandler(w) PROVE TypeOK'
  BY <1>8, ShowTrialsType
<1>9. CASE UNCHANGED vars
  BY <1>9 DEF vars, TypeOK
<1> QED BY <1>1, <1>2, <1>3, <1>4, <1>5, <1>6, <1>7, <1>8, <1>9 DEF Next

(* The state of the store has its type in every reachable state: every     *)
(* game file has a play time the protocol allows, whatever number the      *)
(* request carried, and every archived file and score is complete.         *)
THEOREM TypeCorrect == Spec => []TypeOK
<1>1. Init => TypeOK
  BY TypeInit
<1>2. TypeOK /\ [Next]_vars => TypeOK'
  BY TypeStep
<1> QED BY <1>1, <1>2, PTL DEF Spec

-----------------------------------------------------------------------------
(* The inductive invariant.  That the games follow each other needs the    *)
(* request timestamps in the past (a worker may time out a game), that the *)
(* ongoing games are open (an archived game ends when it is archived), and *)
(* the consistency of a finished game needs that it was open before.       *)
IInv ==
  /\ TypeOK
  /\ ActiveGamesOpen
  /\ FinishedGamesConsistent
  /\ RequestsInPast
  /\ GamesDoNotOverlap

ArchiveOK == FinishedGamesConsistent /\ ArchiveInOrder

LEMMA GameFacts ==
  ASSUME NEW g \in Game
  PROVE  /\ g.key \in Code /\ g.start \in Nat /\ g.playTime \in 1..PlayTimeMax
         /\ g.playTime \in Nat \ {0}
         /\ g.atts \in Seq(Attempt) /\ Len(g.atts) \in Nat
         /\ \A i \in 1..Len(g.atts) :
              /\ g.atts[i] \in Attempt
              /\ g.atts[i].key \in Code /\ g.atts[i].time \in Int
<1>1. g.atts \in Seq(Attempt)
  BY DEF Game
<1>2. Len(g.atts) \in Nat /\ \A i \in 1..Len(g.atts) : g.atts[i] \in Attempt
  BY <1>1, LenProperties, ElementOfSeq
<1> QED BY <1>1, <1>2, PlayTimeMaxAssumption DEF Game, Attempt

(* One more finished game of p, the one that was active. *)
LEMMA ArchiveOne ==
  ASSUME IInv, NEW p \in Players, NEW f \in Finished,
         active[p] # NoGame, f.game.start = active[p].start,
         EndingMatchesAttempts(f), EndOf(f) \in Int, EndOf(f) <= now,
         archive' = [archive EXCEPT ![p] = Append(@, f)], UNCHANGED now
  PROVE  /\ ArchiveOK'
         /\ \A i \in 1..Len(archive'[p]) : EndOf(archive'[p][i]) <= now
<1>1. /\ archive[p] \in Seq(Finished) /\ archive'[p] = Append(archive[p], f)
      /\ \A q \in Players \ {p} : archive'[q] = archive[q]
  BY DEF IInv, TypeOK
<1>2. /\ Len(archive[p]) \in Nat
      /\ Len(archive'[p]) = Len(archive[p]) + 1
      /\ \A i \in 1..Len(archive[p]) : archive'[p][i] = archive[p][i]
      /\ archive'[p][Len(archive[p]) + 1] = f
  BY <1>1, AppendProperties, LenProperties
<1>3. FinishedGamesConsistent'
  <2> SUFFICES ASSUME NEW q \in Players, NEW i \in 1..Len(archive'[q])
               PROVE  EndingMatchesAttempts(archive'[q][i])
    BY DEF FinishedGamesConsistent
  <2>1. CASE q = p /\ i = Len(archive[p]) + 1
    BY <1>2, <2>1
  <2>2. CASE q = p /\ i \in 1..Len(archive[p])
    BY <1>2, <2>2 DEF IInv, FinishedGamesConsistent
  <2>3. CASE q # p
    BY <1>1, <2>3 DEF IInv, FinishedGamesConsistent
  <2> QED BY <1>2, <2>1, <2>2, <2>3
<1>4. \A q \in Players : \A i \in 1..Len(archive'[q]) : EndOf(archive'[q][i]) <= now
  <2> SUFFICES ASSUME NEW q \in Players, NEW i \in 1..Len(archive'[q])
               PROVE  EndOf(archive'[q][i]) <= now
    OBVIOUS
  <2>1. CASE q = p /\ i = Len(archive[p]) + 1
    BY <1>2, <2>1
  <2>2. CASE q = p /\ i \in 1..Len(archive[p])
    BY <1>2, <2>2 DEF IInv, GamesDoNotOverlap, ArchiveInOrder
  <2>3. CASE q # p
    BY <1>1, <2>3 DEF IInv, GamesDoNotOverlap, ArchiveInOrder
  <2> QED BY <1>2, <2>1, <2>2, <2>3
<1>5. \A q \in Players : \A i \in 1..Len(archive'[q]) : \A j \in 1..(i - 1) :
        EndOf(archive'[q][j]) <= archive'[q][i].game.start
  <2> SUFFICES ASSUME NEW q \in Players, NEW i \in 1..Len(archive'[q]),
                      NEW j \in 1..(i - 1)
               PROVE  EndOf(archive'[q][j]) <= archive'[q][i].game.start
    OBVIOUS
  <2>1. CASE q = p /\ i = Len(archive[p]) + 1
    <3>1. j \in 1..Len(archive[p]) /\ archive'[p][j] = archive[p][j]
      BY <1>2, <2>1
    <3>2. EndOf(archive[p][j]) <= active[p].start
      BY <3>1 DEF IInv, GamesDoNotOverlap, ActiveAfterArchive
    <3> QED BY <1>2, <2>1, <3>1, <3>2
  <2>2. CASE q = p /\ i \in 1..Len(archive[p])
    <3>1. j \in 1..Len(archive[p])
      BY <1>2, <2>2
    <3> QED BY <1>2, <2>2, <3>1 DEF IInv, GamesDoNotOverlap, ArchiveInOrder
  <2>3. CASE q # p
    BY <1>1, <2>3 DEF IInv, GamesDoNotOverlap, ArchiveInOrder
  <2> QED BY <1>2, <2>1, <2>2, <2>3
<1> QED BY <1>3, <1>4, <1>5 DEF ArchiveOK, ArchiveInOrder

LEMMA EndOfType ==
  ASSUME NEW f \in Finished
  PROVE  EndOf(f) \in Int
BY GameFacts DEF EndOf, Finished

(* An open game that is closed by the clock is a consistent timed-out one. *)
LEMMA TimedOutConsistent ==
  ASSUME IInv, NEW p \in Players, NEW tstamp \in Nat, tstamp <= now, Expired(p, tstamp)
  PROVE  /\ TimedOut(p, tstamp) \in Finished
         /\ EndingMatchesAttempts(TimedOut(p, tstamp))
         /\ EndOf(TimedOut(p, tstamp)) <= now
         /\ TimedOut(p, tstamp).game = active[p]
<1> DEFINE g == active[p]
           f == TimedOut(p, tstamp)
<1>1. g \in Game /\ GameOpen(g)
  BY DEF Expired, IInv, TypeOK, ActiveGamesOpen
<1>2. f \in Finished /\ f.game = g /\ f.ending = "T" /\ f.used = g.playTime
  <2>1. g.playTime \in Nat
    BY <1>1, GameFacts
  <2>2. Ended(g, "T", tstamp + g.playTime, g.playTime) \in Finished
    BY <1>1, <2>1, EndedType
  <2> QED BY <2>2 DEF TimedOut, Ended
<1>3. EndOf(f) <= now
  BY <1>1, <1>2, GameFacts DEF EndOf, Expired, Elapsed, IInv, TypeOK
<1>4. \A i \in 1..Len(g.atts) : g.atts[i].time \in 0..g.playTime
  BY <1>1, GameFacts DEF GameOpen
<1>5. EndingMatchesAttempts(f)
  BY <1>1, <1>2, <1>4 DEF EndingMatchesAttempts, GameOpen
<1> QED BY <1>2, <1>3, <1>5

(* What checkTimedoutGame leaves behind. *)
LEMMA AfterCheck ==
  ASSUME IInv, NEW p \in Players, NEW tstamp \in Nat, tstamp <= now,
         archive' = ArchiveAfterCheck(p, tstamp), UNCHANGED now
  PROVE  /\ ArchiveOK'
         /\ \A i \in 1..Len(archive'[p]) : EndOf(archive'[p][i]) <= now
         /\ \A q \in Players : q # p \/ ~Expired(p, tstamp) => archive'[q] = archive[q]
<1>1. CASE ~Expired(p, tstamp)
  BY <1>1 DEF ArchiveAfterCheck, ArchiveOK, IInv, FinishedGamesConsistent,
              GamesDoNotOverlap, ArchiveInOrder
<1>2. CASE Expired(p, tstamp)
  <2>1. archive' = [archive EXCEPT ![p] = Append(@, TimedOut(p, tstamp))]
    BY <1>2 DEF ArchiveAfterCheck
  <2>2. active[p] # NoGame
    BY <1>2 DEF Expired
  <2>3. \A q \in Players : q # p => archive'[q] = archive[q]
    BY <2>1 DEF IInv, TypeOK
  <2> QED BY <1>2, <2>1, <2>2, <2>3, TimedOutConsistent, EndOfType, ArchiveOne
<1> QED BY <1>1, <1>2

LEMMA PlayableFacts ==
  ASSUME IInv, NEW p \in Players, checkTimedoutGame(p, now) >= 0
  PROVE  /\ active[p] # NoGame /\ active[p] \in Game /\ GameOpen(active[p])
         /\ now - active[p].start \in 0..(active[p].playTime - 1)
<1>1. active[p] # NoGame /\ active[p] \in Game /\ GameOpen(active[p])
  BY DEF checkTimedoutGame, IInv, TypeOK, ActiveGamesOpen
<1> QED
  BY <1>1, GameFacts
  DEF checkTimedoutGame, Expired, Elapsed, IInv, TypeOK, GameOpen

(* The game with one more attempt, which is not a repetition. *)
LEMMA AttemptStep ==
  ASSUME IInv, NEW p \in Players, NEW att \in Code,
         Playable(p), ~IsDuplicate(p, att)
  PROVE  LET g == active[p]
             n == Len(g.atts)
             next == WithAttempt(g, att)
         IN
         /\ next \in Game /\ Len(next.atts) = n + 1 /\ next.atts[n + 1].key = att
         /\ next.key = g.key /\ next.start = g.start /\ next.playTime = g.playTime
         /\ AttemptsWellFormed(next)
         /\ NotWonBy(next, n)
         /\ \A i \in 1..(n + 1) : /\ next.atts[i].time \in 0..(now - g.start)
                                  /\ next.atts[i].time \in 0..(g.playTime - 1)
<1> DEFINE g == active[p]
           n == Len(g.atts)
           next == WithAttempt(g, att)
<1>1. /\ g \in Game /\ GameOpen(g)
      /\ now - g.start \in 0..(g.playTime - 1)
  BY PlayableFacts DEF Playable
<1>2. /\ g.start \in Nat /\ g.playTime \in Nat /\ n \in Nat /\ now \in Nat
      /\ \A i \in 1..n : g.atts[i].time \in Int
  BY <1>1, GameFacts DEF IInv, TypeOK
<1>t. \A i \in 1..n : /\ g.atts[i].time \in 0..(g.playTime - 1)
                      /\ g.atts[i].time <= now - g.start
  BY <1>1, <1>2 DEF GameOpen
<1>3. /\ next \in Game /\ Len(next.atts) = n + 1
      /\ \A i \in 1..n : next.atts[i] = g.atts[i]
      /\ next.key = g.key /\ next.start = g.start /\ next.playTime = g.playTime
  BY <1>1, WithAttemptType DEF IInv
<1>4. /\ next.atts[n + 1].key = att
      /\ next.atts[n + 1].blacks = Blacks(g.key, att)
      /\ next.atts[n + 1].whites = Whites(g.key, att)
      /\ next.atts[n + 1].time = now - g.start
  <2>1. TypeOK
    BY DEF IInv
  <2>2. next.atts[n + 1] = [key |-> att, blacks |-> Blacks(g.key, att),
                            whites |-> Whites(g.key, att), time |-> now - g.start]
    BY <1>1, <2>1, WithAttemptType
  <2> QED BY <2>2
<1>5. \A i \in 1..n : g.atts[i].key # att
  BY DEF IsDuplicate
<1>f. AttemptsWellFormed(g)
  BY <1>1 DEF GameOpen
<1> HIDE DEF g, n, next
<1>6. AttemptsWellFormed(next)
  <2> SUFFICES ASSUME NEW i \in 1..(n + 1)
               PROVE  /\ next.atts[i].blacks = Blacks(g.key, next.atts[i].key)
                      /\ next.atts[i].whites = Whites(g.key, next.atts[i].key)
                      /\ \A j \in 1..(i - 1) :
                           /\ next.atts[j].key # next.atts[i].key
                           /\ next.atts[j].time <= next.atts[i].time
    BY <1>3 DEF AttemptsWellFormed
  <2>0. i \in Int
    BY <1>2
  <2>1. CASE i \in 1..n
    <3>1. next.atts[i] = g.atts[i] /\ \A j \in 1..(i - 1) : next.atts[j] = g.atts[j]
      <4>1. \A j \in 1..(i - 1) : j \in 1..n
        BY <1>2, <2>0, <2>1
      <4> QED BY <1>3, <2>1, <4>1
    <3>2. /\ g.atts[i].blacks = Blacks(g.key, g.atts[i].key)
          /\ g.atts[i].whites = Whites(g.key, g.atts[i].key)
          /\ \A j \in 1..(i - 1) : /\ g.atts[j].key # g.atts[i].key
                                   /\ g.atts[j].time <= g.atts[i].time
      BY <1>f, <2>1 DEF AttemptsWellFormed, n
    <3> QED BY <3>1, <3>2
  <2>2. CASE i = n + 1
    <3>1. i - 1 = n
      BY <1>2, <2>2
    <3> QED BY <1>t, <1>3, <1>4, <1>5, <2>2, <3>1
  <2> QED BY <1>2, <2>1, <2>2
<1>7. NotWonBy(next, n)
  BY <1>1, <1>3 DEF GameOpen, NotWonBy, n
<1>8. \A i \in 1..(n + 1) : /\ next.atts[i].time \in 0..(now - g.start)
                            /\ next.atts[i].time \in 0..(g.playTime - 1)
  <2> SUFFICES ASSUME NEW i \in 1..(n + 1)
               PROVE  /\ next.atts[i].time \in 0..(now - g.start)
                      /\ next.atts[i].time \in 0..(g.playTime - 1)
    OBVIOUS
  <2>1. CASE i \in 1..n
    BY <1>2, <1>3, <1>t, <2>1
  <2>2. CASE i = n + 1
    BY <1>1, <1>2, <1>4, <2>2
  <2> QED BY <1>2, <2>1, <2>2
<1> QED BY <1>3, <1>4, <1>6, <1>7, <1>8 DEF g, n, next

(* endGame on an open game, possibly with a last attempt added. *)
LEMMA EndGameStep ==
  ASSUME IInv, NEW p \in Players, active[p] # NoGame, NEW g \in Game,
         g.start = active[p].start, NEW ending \in {"W", "L", "Q"},
         LET f == Ended(g, ending, now, now - g.start) IN EndingMatchesAttempts(f),
         endGame(p, g, ending, now - g.start), UNCHANGED <<now, strReq>>
  PROVE  ArchiveOK' /\ ActiveGamesOpen' /\ ActiveAfterArchive' /\ RequestsInPast'
<1> DEFINE f == Ended(g, ending, now, now - g.start)
<1>1. g.start \in Nat /\ now \in Nat
  BY GameFacts DEF IInv, TypeOK
<1>2. f \in Finished /\ f.game = g /\ EndOf(f) = now
  BY <1>1, EndedType DEF Ended, EndOf
<1>3. archive' = [archive EXCEPT ![p] = Append(@, f)]
  BY DEF endGame
<1> HIDE DEF f
<1>4. ArchiveOK'
  <2>1. EndOf(f) \in Int /\ EndOf(f) <= now
    BY <1>1, <1>2
  <2>2. f.game.start = active[p].start
    BY <1>2
  <2>3. EndingMatchesAttempts(f)
    BY DEF f
  <2> QED BY <1>2, <1>3, <2>1, <2>2, <2>3, ArchiveOne
<1>5. /\ active'[p] = NoGame
      /\ \A q \in Players \ {p} : active'[q] = active[q] /\ archive'[q] = archive[q]
  BY <1>3 DEF endGame, IInv, TypeOK
<1>6. ActiveGamesOpen'
  BY <1>5 DEF ActiveGamesOpen, GameOpen, IInv
<1>7. ActiveAfterArchive'
  BY <1>5 DEF ActiveAfterArchive, GamesDoNotOverlap, IInv
<1>8. RequestsInPast'
  BY DEF RequestsInPast, IInv
<1> QED BY <1>4, <1>6, <1>7, <1>8

(* A step that leaves the store as checkTimedoutGame leaves it. *)
LEMMA CheckStep ==
  ASSUME IInv, NEW p \in Players, NEW tstamp \in Nat, tstamp <= now,
         active' = ActiveAfterCheck(p, tstamp),
         archive' = ArchiveAfterCheck(p, tstamp), UNCHANGED now
  PROVE  ArchiveOK' /\ ActiveGamesOpen' /\ ActiveAfterArchive'
<1>1. ArchiveOK' /\ \A q \in Players : q # p \/ ~Expired(p, tstamp) => archive'[q] = archive[q]
  BY AfterCheck
<1>2. \A q \in Players : active'[q] # NoGame =>
        active'[q] = active[q] /\ (q # p \/ ~Expired(p, tstamp))
  BY DEF ActiveAfterCheck, IInv, TypeOK
<1>3. ActiveGamesOpen'
  BY <1>2 DEF ActiveGamesOpen, GameOpen, IInv
<1>4. ActiveAfterArchive'
  BY <1>1, <1>2 DEF ActiveAfterArchive, GamesDoNotOverlap, IInv
<1> QED BY <1>1, <1>3, <1>4

LEMMA UnchangedStoreStep ==
  ASSUME IInv, UNCHANGED <<now, active, archive>>
  PROVE  ArchiveOK' /\ ActiveGamesOpen' /\ ActiveAfterArchive'
BY DEF IInv, ArchiveOK, FinishedGamesConsistent, GamesDoNotOverlap, ArchiveInOrder,
       ActiveGamesOpen, GameOpen, ActiveAfterArchive

LEMMA CreateGameStep ==
  ASSUME IInv, NEW op, NEW p \in Players, NEW playTime \in 1..PlayTimeMax,
         NEW key \in Code, NEW mode \in {"P", "D"},
         createGame(op, p, playTime, key, mode), UNCHANGED now
  PROVE  ArchiveOK' /\ ActiveGamesOpen' /\ ActiveAfterArchive'
<1>1. CASE UNCHANGED store
  BY <1>1, UnchangedStoreStep DEF store
<1>2. CASE /\ active' = [active EXCEPT ![p] = NewGame(key, mode, playTime)]
           /\ archive' = ArchiveAfterCheck(p, now)
  <2>1. /\ ArchiveOK'
        /\ \A i \in 1..Len(archive'[p]) : EndOf(archive'[p][i]) <= now
        /\ \A q \in Players : q # p => archive'[q] = archive[q]
    <3>1. now \in Nat /\ now <= now
      BY DEF IInv, TypeOK
    <3> QED BY <1>2, <3>1, AfterCheck
  <2>2. /\ active'[p] = NewGame(key, mode, playTime)
        /\ \A q \in Players : q # p => active'[q] = active[q]
    BY <1>2 DEF IInv, TypeOK
  <2>3. GameOpen(NewGame(key, mode, playTime))
    BY GuessesMaxAssumption DEF GameOpen, NewGame, AttemptsWellFormed, NotWonBy, IInv, TypeOK
  <2>4. ActiveGamesOpen'
    BY <2>2, <2>3 DEF ActiveGamesOpen, GameOpen, IInv
  <2>5. ActiveAfterArchive'
    BY <2>1, <2>2 DEF ActiveAfterArchive, GamesDoNotOverlap, NewGame, IInv
  <2> QED BY <2>1, <2>4, <2>5
<1> QED BY <1>1, <1>2 DEF createGame

(* An accepted attempt: the last one, the winning one, or one more.        *)
LEMMA TryAcceptedStep ==
  ASSUME IInv, NEW p \in Players, NEW att \in Code, NEW trial \in TrialArgs,
         tryAccepted(p, att, trial), UNCHANGED <<now, strReq>>
  PROVE  ArchiveOK' /\ ActiveGamesOpen' /\ ActiveAfterArchive'
<1> DEFINE g == active[p]
           n == Len(g.atts)
           next == WithAttempt(g, att)
<1>1. Playable(p) /\ ~IsDuplicate(p, att)
  BY DEF tryAccepted
<1>2. /\ g # NoGame /\ g \in Game /\ GameOpen(g)
      /\ now - g.start \in 0..(g.playTime - 1)
  BY <1>1, PlayableFacts DEF Playable
<1>3. /\ next \in Game /\ Len(next.atts) = n + 1 /\ next.atts[n + 1].key = att
      /\ next.key = g.key /\ next.start = g.start /\ next.playTime = g.playTime
      /\ AttemptsWellFormed(next)
      /\ NotWonBy(next, n)
      /\ \A i \in 1..(n + 1) : /\ next.atts[i].time \in 0..(now - g.start)
                               /\ next.atts[i].time \in 0..(g.playTime - 1)
  BY <1>1, AttemptStep
<1>4. g.start \in Nat /\ n \in Nat /\ now \in Nat /\ n < GuessesMax /\ g.key \in Code
  BY <1>2, GameFacts DEF GameOpen, IInv, TypeOK
<1>5. Blacks(g.key, att) = KeyLen <=> att = g.key
  BY <1>4, AllBlack
<1>6. /\ \/ IsLastGuess(n) /\ att # g.key /\ endGame(p, next, "L", now - g.start)
         \/ att = g.key /\ endGame(p, next, "W", now - g.start)
         \/ /\ ~IsLastGuess(n) /\ att # g.key
            /\ active' = [active EXCEPT ![p] = next] /\ UNCHANGED archive
  BY <1>5 DEF tryAccepted
<1> HIDE DEF g, n, next
<1>7. \A ending \in {"W", "L"} :
        LET f == Ended(next, ending, now, now - g.start) IN
        (/\ ending = "W" => att = g.key
         /\ ending = "L" => n + 1 = GuessesMax /\ att # g.key)
        => EndingMatchesAttempts(f)
  <2> SUFFICES ASSUME NEW ending \in {"W", "L"},
                      ending = "W" => att = g.key,
                      ending = "L" => n + 1 = GuessesMax /\ att # g.key
               PROVE  EndingMatchesAttempts(Ended(next, ending, now, now - g.start))
    OBVIOUS
  <2> DEFINE f == Ended(next, ending, now, now - g.start)
  <2>1. f.game = next /\ f.ending = ending /\ f.used = now - g.start
    BY DEF Ended
  <2>2. ending = "L" => NotWonBy(next, n + 1)
    BY <1>3, <1>4 DEF NotWonBy
  <2>3. ending = "W" => /\ n + 1 \in 1..GuessesMax /\ NotWonBy(next, (n + 1) - 1)
                        /\ next.atts[n + 1].key = next.key
    BY <1>3, <1>4, GuessesMaxAssumption
  <2>4. now - g.start \in 0..(next.playTime - 1)
    BY <1>2, <1>3 DEF g
  <2> HIDE DEF f
  <2>5. EndingMatchesAttempts(f)
    BY <1>3, <2>1, <2>2, <2>3, <2>4 DEF EndingMatchesAttempts
  <2> QED BY <2>5 DEF f
<1>8. CASE IsLastGuess(n) /\ att # g.key /\ endGame(p, next, "L", now - g.start)
  <2>1. n + 1 = GuessesMax
    BY <1>4, <1>8, GuessesMaxAssumption DEF IsLastGuess
  <2>2. EndingMatchesAttempts(Ended(next, "L", now, now - next.start))
    BY <1>3, <1>7, <1>8, <2>1
  <2> QED BY <1>2, <1>3, <1>8, <2>2, EndGameStep DEF g
<1>9. CASE att = g.key /\ endGame(p, next, "W", now - g.start)
  <2>1. EndingMatchesAttempts(Ended(next, "W", now, now - next.start))
    BY <1>3, <1>7, <1>9
  <2> QED BY <1>2, <1>3, <1>9, <2>1, EndGameStep DEF g
<1>10. CASE /\ ~IsLastGuess(n) /\ att # g.key
            /\ active' = [active EXCEPT ![p] = next] /\ UNCHANGED archive
  <2>1. n + 1 < GuessesMax
    BY <1>4, <1>10, GuessesMaxAssumption DEF IsLastGuess
  <2>2. NotWonBy(next, n + 1)
    BY <1>3, <1>4, <1>10 DEF NotWonBy
  <2>3. GameOpen(next)
    BY <1>2, <1>3, <1>4, <2>1, <2>2 DEF GameOpen, g
  <2>4. active'[p] = next /\ \A q \in Players : q # p => active'[q] = active[q]
    BY <1>10 DEF IInv, TypeOK
  <2>5. ActiveGamesOpen'
    BY <2>3, <2>4 DEF ActiveGamesOpen, GameOpen, IInv
  <2>6. ActiveAfterArchive'
    BY <1>2, <1>3, <1>10, <2>4 DEF ActiveAfterArchive, GamesDoNotOverlap, IInv, g
  <2>7. ArchiveOK'
    BY <1>10 DEF ArchiveOK, FinishedGamesConsistent, GamesDoNotOverlap, ArchiveInOrder, IInv
  <2> QED BY <2>5, <2>6, <2>7
<1> QED BY <1>6, <1>8, <1>9, <1>10

LEMMA TryStep ==
  ASSUME IInv, NEW p \in Players, tryHandler(p)
  PROVE  ArchiveOK' /\ ActiveGamesOpen' /\ ActiveAfterArchive'
<1> PICK att \in Code, trial \in TrialArgs :
      \/ tryWithoutGame(p, att, trial)
      \/ tryTimedOut(p, att, trial)
      \/ tryResent(p, att, trial)
      \/ tryWrongTrial(p, att, trial)
      \/ tryDuplicate(p, att, trial)
      \/ tryAccepted(p, att, trial)
  BY DEF tryHandler
<1>1. UNCHANGED <<now, strReq>>
  BY DEF tryHandler
<1>2. CASE UNCHANGED store
  BY <1>1, <1>2, UnchangedStoreStep DEF store
<1>3. CASE tryTimedOut(p, att, trial)
  <2>1. now \in Nat /\ now <= now
    BY DEF IInv, TypeOK
  <2> QED BY <1>1, <1>3, <2>1, CheckStep DEF tryTimedOut
<1>4. CASE tryAccepted(p, att, trial)
  BY <1>1, <1>4, TryAcceptedStep
<1> QED BY <1>2, <1>3, <1>4 DEF tryWithoutGame, tryResent, tryWrongTrial, tryDuplicate

LEMMA QuitStep ==
  ASSUME IInv, NEW p \in Players, quitHandler(p)
  PROVE  ArchiveOK' /\ ActiveGamesOpen' /\ ActiveAfterArchive'
<1>1. UNCHANGED <<now, strReq>> /\ now \in Nat /\ now <= now
  BY DEF quitHandler, IInv, TypeOK
<1>2. CASE active' = ActiveAfterCheck(p, now) /\ archive' = ArchiveAfterCheck(p, now)
  BY <1>1, <1>2, CheckStep
<1>3. CASE /\ checkTimedoutGame(p, now) >= 0
           /\ endGame(p, active[p], "Q", QuitTime(active[p]))
  <2> DEFINE g == active[p]
             f == Ended(g, "Q", now, now - g.start)
  <2>1. /\ g # NoGame /\ g \in Game /\ GameOpen(g)
        /\ now - g.start \in 0..(g.playTime - 1)
    BY <1>3, PlayableFacts
  <2>2. /\ g.start \in Nat /\ Len(g.atts) \in Nat
        /\ \A i \in 1..Len(g.atts) : g.atts[i].time \in Int
    BY <2>1, GameFacts
  <2>3. \A i \in 1..Len(g.atts) : g.atts[i].time \in 0..(now - g.start)
    BY <1>1, <2>1, <2>2 DEF GameOpen
  <2>4. f.game = g /\ f.ending = "Q" /\ f.used = now - g.start
    BY DEF Ended
  <2>5. endGame(p, g, "Q", now - g.start)
    BY <1>3 DEF QuitTime
  <2> HIDE DEF g, f
  <2>6. EndingMatchesAttempts(f)
    BY <2>1, <2>3, <2>4 DEF EndingMatchesAttempts, GameOpen
  <2> QED BY <1>1, <2>1, <2>5, <2>6, EndGameStep DEF g, f
<1> QED BY <1>2, <1>3 DEF quitHandler

LEMMA ShowTrialsStep ==
  ASSUME IInv, NEW w \in Workers, showTrialsHandler(w)
  PROVE  ArchiveOK' /\ ActiveGamesOpen' /\ ActiveAfterArchive'
<1> DEFINE p == strReq[w].plid
           tstamp == strReq[w].tstamp
<1>1. p \in Players /\ tstamp \in Nat /\ tstamp <= now /\ UNCHANGED now
  BY DEF showTrialsHandler, IInv, TypeOK, Request, RequestsInPast
<1>2. CASE UNCHANGED <<active, archive>>
  BY <1>1, <1>2, UnchangedStoreStep
<1>3. CASE active' = ActiveAfterCheck(p, tstamp) /\ archive' = ArchiveAfterCheck(p, tstamp)
  <2> HIDE DEF p, tstamp
  <2> QED BY <1>1, <1>3, CheckStep
<1> QED BY <1>2, <1>3 DEF showTrialsHandler

LEMMA TickStep ==
  ASSUME IInv, Tick
  PROVE  ArchiveOK' /\ ActiveGamesOpen' /\ ActiveAfterArchive' /\ RequestsInPast'
<1>1. now \in Nat /\ now' = now + 1 /\ UNCHANGED <<active, archive, scores, strReq>>
  BY DEF Tick, IInv, TypeOK
<1>2. ASSUME NEW q \in Players, NEW i \in 1..Len(archive[q])
      PROVE  EndOf(archive[q][i]) \in Int
  BY ElementOfSeq, EndOfType DEF IInv, TypeOK
<1>3. ArchiveOK'
  BY <1>1, <1>2 DEF ArchiveOK, FinishedGamesConsistent, GamesDoNotOverlap, ArchiveInOrder, IInv
<1>4. ActiveGamesOpen'
  <2> SUFFICES ASSUME NEW q \in Players, active[q] # NoGame PROVE GameOpen(active[q])'
    BY <1>1 DEF ActiveGamesOpen
  <2>1. active[q] \in Game /\ GameOpen(active[q])
    BY DEF IInv, TypeOK, ActiveGamesOpen
  <2> DEFINE g == active[q]
  <2>2. /\ g.start \in Nat
        /\ \A i \in 1..Len(g.atts) : g.atts[i].time \in Int
    BY <2>1, GameFacts
  <2>3. /\ g.start <= now + 1
        /\ \A i \in 1..Len(g.atts) : g.start + g.atts[i].time <= now + 1
    BY <1>1, <2>1, <2>2 DEF GameOpen
  <2> QED BY <1>1, <2>1, <2>3 DEF GameOpen
<1>5. ActiveAfterArchive'
  BY <1>1 DEF ActiveAfterArchive, GamesDoNotOverlap, IInv
<1>6. RequestsInPast'
  BY <1>1 DEF RequestsInPast, IInv, TypeOK, Request
<1> QED BY <1>3, <1>4, <1>5, <1>6

(* Every reachable state satisfies the inductive invariant.                *)
THEOREM Safety == Spec => []IInv
<1>1. Init => IInv
  BY TypeInit
  DEF Init, IInv, ActiveGamesOpen, FinishedGamesConsistent, RequestsInPast,
      GamesDoNotOverlap, ArchiveInOrder, ActiveAfterArchive
<1>2. IInv /\ [Next]_vars => IInv'
  <2> SUFFICES ASSUME IInv, [Next]_vars PROVE IInv'
    OBVIOUS
  <2>1. TypeOK'
    BY TypeStep DEF IInv
  <2>2. now \in Nat /\ now <= now
    BY DEF IInv, TypeOK
  <2>3. CASE Tick
    BY <2>1, <2>3, TickStep DEF IInv, ArchiveOK, GamesDoNotOverlap
  <2>4. CASE ~Tick
    <3>1. RequestsInPast'
      <4>1. UNCHANGED now
        BY <2>4 DEF Next, startNewGameHandler, debugGameHandler, tryHandler, quitHandler,
                    malformedRequest, showTrialsAccept, showTrialsHandler, vars
      <4>2. \A w \in Workers : strReq'[w] # NoRequest =>
              strReq'[w] = strReq[w] \/ strReq'[w].tstamp = now
        BY <2>4 DEF Next, startNewGameHandler, debugGameHandler, tryHandler, quitHandler,
                    malformedRequest, showTrialsAccept, showTrialsHandler, vars, IInv, TypeOK
      <4> QED BY <2>2, <4>1, <4>2 DEF RequestsInPast, IInv
    <3>2. ArchiveOK' /\ ActiveGamesOpen' /\ ActiveAfterArchive'
      <4>1. ASSUME NEW p \in Players, startNewGameHandler(p)
            PROVE  ArchiveOK' /\ ActiveGamesOpen' /\ ActiveAfterArchive'
        <5>1. PICK t \in TimeArgs :
                \/ UNCHANGED store
                \/ /\ ValidTime(StartTime(t))
                   /\ \E key \in Code : createGame("SNG", p, StartTime(t), key, "P")
          BY <4>1 DEF startNewGameHandler
        <5>2. UNCHANGED now
          BY <4>1 DEF startNewGameHandler
        <5>3. ValidTime(StartTime(t)) => StartTime(t) \in 1..PlayTimeMax
          BY StartTimeType
        <5>4. CASE UNCHANGED store
          BY <5>2, <5>4, UnchangedStoreStep DEF store
        <5>5. ASSUME StartTime(t) \in 1..PlayTimeMax, NEW key \in Code,
                     createGame("SNG", p, StartTime(t), key, "P")
              PROVE  ArchiveOK' /\ ActiveGamesOpen' /\ ActiveAfterArchive'
          BY <5>2, <5>5, CreateGameStep
        <5> QED BY <5>1, <5>3, <5>4, <5>5
      <4>2. ASSUME NEW p \in Players, debugGameHandler(p)
            PROVE  ArchiveOK' /\ ActiveGamesOpen' /\ ActiveAfterArchive'
        <5>1. PICK t \in TimeArgs :
                \/ UNCHANGED store
                \/ /\ ValidTime(t)
                   /\ \E key \in Code : createGame("DBG", p, t, key, "D")
          BY <4>2 DEF debugGameHandler
        <5>2. UNCHANGED now
          BY <4>2 DEF debugGameHandler
        <5>3. ValidTime(t) => t \in 1..PlayTimeMax
          BY StartTimeType
        <5>4. CASE UNCHANGED store
          BY <5>2, <5>4, UnchangedStoreStep DEF store
        <5>5. ASSUME t \in 1..PlayTimeMax, NEW key \in Code,
                     createGame("DBG", p, t, key, "D")
              PROVE  ArchiveOK' /\ ActiveGamesOpen' /\ ActiveAfterArchive'
          BY <5>2, <5>5, CreateGameStep
        <5> QED BY <5>1, <5>3, <5>4, <5>5
      <4>3. ASSUME NEW p \in Players, tryHandler(p)
            PROVE  ArchiveOK' /\ ActiveGamesOpen' /\ ActiveAfterArchive'
        BY <4>3, TryStep
      <4>4. ASSUME NEW p \in Players, quitHandler(p)
            PROVE  ArchiveOK' /\ ActiveGamesOpen' /\ ActiveAfterArchive'
        BY <4>4, QuitStep
      <4>5. ASSUME UNCHANGED <<now, active, archive>>
            PROVE  ArchiveOK' /\ ActiveGamesOpen' /\ ActiveAfterArchive'
        BY <4>5, UnchangedStoreStep
      <4>6. ASSUME NEW p \in Players, NEW w \in Workers,
                   showTrialsAccept(w, p)
            PROVE  UNCHANGED <<now, active, archive>>
        BY <4>6 DEF showTrialsAccept
      <4>7. ASSUME NEW p \in Players, malformedRequest(p)
            PROVE  UNCHANGED <<now, active, archive>>
        BY <4>7 DEF malformedRequest
      <4>8. ASSUME NEW w \in Workers, showTrialsHandler(w)
            PROVE  ArchiveOK' /\ ActiveGamesOpen' /\ ActiveAfterArchive'
        BY <4>8, ShowTrialsStep
      <4>9. CASE UNCHANGED vars
        BY <4>5, <4>9 DEF vars
      <4> QED
        BY <2>4, <4>1, <4>2, <4>3, <4>4, <4>5, <4>6, <4>7, <4>8, <4>9 DEF Next
    <3> QED BY <2>1, <3>1, <3>2 DEF IInv, ArchiveOK, GamesDoNotOverlap
  <2> QED BY <2>3, <2>4
<1> QED BY <1>1, <1>2, PTL DEF Spec

(* GameStore::attempt: an ongoing game can still be won.  Its attempts are *)
(* fewer than the limit, differ, miss the key and lie in its play time.    *)
THEOREM OngoingOpen == Spec => []ActiveGamesOpen
<1>1. IInv => ActiveGamesOpen
  BY DEF IInv
<1> QED BY <1>1, Safety, PTL

(* endGame and checkTimedoutGame: whichever handler closes a game, what it *)
(* records about the ending agrees with the attempts of the game.          *)
THEOREM EndingsConsistent == Spec => []FinishedGamesConsistent
<1>1. IInv => FinishedGamesConsistent
  BY DEF IInv
<1> QED BY <1>1, Safety, PTL

(* The recorded times of a player's games do not overlap, although a       *)
(* worker thread closes timed-out games with an earlier timestamp.         *)
THEOREM NoOverlap == Spec => []GamesDoNotOverlap
<1>1. IInv => GamesDoNotOverlap
  BY DEF IInv
<1> QED BY <1>1, Safety, PTL

-----------------------------------------------------------------------------
(* The replies that carry a key. *)
LEMMA TryKeyStep ==
  ASSUME IInv, NEW p \in Players, tryHandler(p)
  PROVE  KeyRevealedOnlyWhenOver'
<1> PICK att \in Code, trial \in TrialArgs :
      \/ tryWithoutGame(p, att, trial)
      \/ tryTimedOut(p, att, trial)
      \/ tryResent(p, att, trial)
      \/ tryWrongTrial(p, att, trial)
      \/ tryDuplicate(p, att, trial)
      \/ tryAccepted(p, att, trial)
  BY DEF tryHandler
<1>t. TypeOK
  BY DEF IInv
<1>r. \A status, key :
        LET r == TryReply(p, att, trial, status) IN
        /\ r.key = NoKey /\ r.plid = p /\ r.op = "TRY"
        /\ [r EXCEPT !.key = key].plid = p /\ [r EXCEPT !.key = key].op = "TRY"
        /\ [r EXCEPT !.key = key].key = key
  BY DEF TryReply, Reply
<1>f. \A n, key : WithFeedback(TryReply(p, att, trial, "OK"), n, key).key = NoKey
  BY DEF WithFeedback, TryReply, Reply
<1>1. CASE reply'.key = NoKey
  BY <1>1 DEF KeyRevealedOnlyWhenOver
<1>2. CASE tryTimedOut(p, att, trial)
  <2>1. Expired(p, now) /\ active[p] # NoGame
    <3>1. checkTimedoutGame(p, now) = -2
      BY <1>2 DEF tryTimedOut
    <3>2. active[p] # NoGame
      BY <3>1 DEF checkTimedoutGame
    <3>3. /\ active[p] \in Game /\ active[p].start \in Nat
          /\ now \in Nat /\ active[p].start <= now
      BY <1>t, <3>2, GameFacts DEF IInv, ActiveGamesOpen, GameOpen, TypeOK
    <3>4. Elapsed(p, now) # -2
      BY <3>3 DEF Elapsed
    <3> QED BY <3>1, <3>2, <3>4 DEF checkTimedoutGame
  <2>2. /\ active'[p] = NoGame
        /\ archive'[p] = Append(archive[p], TimedOut(p, now))
    BY <1>2, <2>1 DEF tryTimedOut, ActiveAfterCheck, ArchiveAfterCheck, IInv, TypeOK
  <2>3. archive[p] \in Seq(Finished) /\ Len(archive[p]) \in Nat
    BY LenProperties DEF IInv, TypeOK
  <2>4. /\ Len(archive'[p]) = Len(archive[p]) + 1
        /\ archive'[p][Len(archive[p]) + 1] = TimedOut(p, now)
    BY <2>2, <2>3
  <2>5. reply'.plid = p /\ reply'.op = "TRY" /\ reply'.key = active[p].key
    BY <1>2, <1>r DEF tryTimedOut
  <2> QED BY <2>2, <2>3, <2>4, <2>5 DEF KeyRevealedOnlyWhenOver, TimedOut, Ended
<1>3. CASE tryAccepted(p, att, trial)
  <2> DEFINE g == active[p]
             next == WithAttempt(g, att)
  <2>1. g \in Game /\ next.key = g.key
    <3>1. g \in Game
      BY <1>3 DEF tryAccepted, Playable, checkTimedoutGame, IInv, TypeOK
    <3> QED BY <1>t, <3>1, WithAttemptType
  <2>2. \/ reply'.key = NoKey
        \/ /\ endGame(p, next, "L", now - g.start)
           /\ reply' = [TryReply(p, att, trial, "ENT") EXCEPT !.key = g.key]
    BY <1>3, <1>f DEF tryAccepted
  <2>3. CASE /\ endGame(p, next, "L", now - g.start)
             /\ reply' = [TryReply(p, att, trial, "ENT") EXCEPT !.key = g.key]
    <3>1. archive[p] \in Seq(Finished) /\ Len(archive[p]) \in Nat
      BY LenProperties DEF IInv, TypeOK
    <3>2. /\ active'[p] = NoGame
          /\ archive'[p] = Append(archive[p], Ended(next, "L", now, now - g.start))
      BY <2>3 DEF endGame, IInv, TypeOK
    <3>3. /\ Len(archive'[p]) = Len(archive[p]) + 1
          /\ archive'[p][Len(archive[p]) + 1].game = next
      BY <3>1, <3>2 DEF Ended
    <3>4. reply'.plid = p /\ reply'.op = "TRY" /\ reply'.key = g.key
      BY <2>3, <1>r
    <3> QED BY <2>1, <3>1, <3>2, <3>3, <3>4 DEF KeyRevealedOnlyWhenOver
  <2> QED BY <1>1, <2>2, <2>3
<1> QED
  BY <1>1, <1>2, <1>3, <1>r, <1>f
  DEF tryWithoutGame, tryResent, tryWrongTrial, tryDuplicate

LEMMA QuitKeyStep ==
  ASSUME TypeOK, NEW p \in Players, quitHandler(p)
  PROVE  KeyRevealedOnlyWhenOver'
<1>1. CASE reply' = Reply("QUT", p, "NOK")
  BY <1>1 DEF Reply, KeyRevealedOnlyWhenOver
<1>2. CASE /\ endGame(p, active[p], "Q", QuitTime(active[p]))
           /\ reply' = [Reply("QUT", p, "OK") EXCEPT !.key = active[p].key]
  <2>1. archive[p] \in Seq(Finished) /\ Len(archive[p]) \in Nat
    BY LenProperties DEF TypeOK
  <2>2. /\ active'[p] = NoGame
        /\ archive'[p] = Append(archive[p],
              Ended(active[p], "Q", now, QuitTime(active[p])))
    BY <1>2 DEF endGame, TypeOK
  <2>3. /\ Len(archive'[p]) = Len(archive[p]) + 1
        /\ archive'[p][Len(archive[p]) + 1].game = active[p]
    BY <2>1, <2>2 DEF Ended
  <2>4. reply'.plid = p /\ reply'.op = "QUT" /\ reply'.key = active[p].key
    BY <1>2 DEF Reply
  <2> QED BY <2>1, <2>2, <2>3, <2>4 DEF KeyRevealedOnlyWhenOver
<1> QED BY <1>1, <1>2 DEF quitHandler

LEMMA ShowTrialsKeyStep ==
  ASSUME TypeOK, NEW w \in Workers, showTrialsHandler(w)
  PROVE  KeyRevealedOnlyWhenOver'
<1> DEFINE p == strReq[w].plid
           tstamp == strReq[w].tstamp
           files == ArchiveAfterCheck(p, tstamp)[p]
<1>1. CASE reply' = Reply("STR", p, "NOK")
  BY <1>1 DEF Reply, KeyRevealedOnlyWhenOver
<1>2. CASE reply' = [Reply("STR", p, "ACT") EXCEPT
                       !.key = KeyOfOngoing(active[p]), !.shown = active[p]]
  <2>1. /\ reply'.op = "STR" /\ reply'.status = "ACT"
        /\ reply'.key = KeyOfOngoing(active[p]) /\ reply'.shown = active[p]
    BY <1>2 DEF Reply
  <2> QED BY <2>1 DEF KeyOfOngoing, KeyRevealedOnlyWhenOver
<1>3. CASE /\ archive' = ArchiveAfterCheck(p, tstamp)
           /\ \E last \in findLastFinishedGame(files) :
                reply' = [Reply("STR", p, "FIN") EXCEPT
                            !.key = last.game.key, !.shown = last.game]
  <2>1. PICK last \in findLastFinishedGame(files) :
               reply' = [Reply("STR", p, "FIN") EXCEPT
                           !.key = last.game.key, !.shown = last.game]
    BY <1>3
  <2>2. PICK i \in 1..Len(files) : last = files[i]
    BY DEF findLastFinishedGame, Directory
  <2>3. /\ reply'.op = "STR" /\ reply'.status = "FIN"
        /\ reply'.plid = p /\ reply'.shown = last.game
    BY <2>1 DEF Reply
  <2> QED BY <1>3, <2>2, <2>3 DEF KeyRevealedOnlyWhenOver
<1> QED BY <1>1, <1>2, <1>3 DEF showTrialsHandler, getLastGame

(* tryHandler, quitHandler, getLastGame: no reply reveals the key of a     *)
(* game that can still be played, except for a game started in debug mode. *)
THEOREM KeyKeptSecret == Spec => []KeyRevealedOnlyWhenOver
<1>1. Init => KeyRevealedOnlyWhenOver
  BY DEF Init, Reply, KeyRevealedOnlyWhenOver
<1>2. IInv /\ KeyRevealedOnlyWhenOver /\ [Next]_vars => KeyRevealedOnlyWhenOver'
  <2> SUFFICES ASSUME IInv, KeyRevealedOnlyWhenOver, [Next]_vars
               PROVE  KeyRevealedOnlyWhenOver'
    OBVIOUS
  <2>1. CASE reply'.key = NoKey
    BY <2>1 DEF KeyRevealedOnlyWhenOver
  <2>2. CASE UNCHANGED <<active, archive, reply>>
    BY <2>2 DEF KeyRevealedOnlyWhenOver
  <2>3. ASSUME NEW p \in Players, startNewGameHandler(p) \/ debugGameHandler(p)
        PROVE  reply'.key = NoKey
    BY <2>3 DEF startNewGameHandler, debugGameHandler, createGame, Reply
  <2>4. ASSUME NEW p \in Players, malformedRequest(p)
        PROVE  reply'.key = NoKey
    BY <2>4 DEF malformedRequest, Reply
  <2>5. ASSUME NEW p \in Players, NEW w \in Workers, showTrialsAccept(w, p)
        PROVE  UNCHANGED <<active, archive, reply>>
    BY <2>5 DEF showTrialsAccept
  <2>6. CASE Tick \/ UNCHANGED vars
    BY <2>2, <2>6 DEF Tick, vars
  <2>7. TypeOK
    BY DEF IInv
  <2> QED
    BY <2>1, <2>2, <2>3, <2>4, <2>5, <2>6, <2>7, TryKeyStep, QuitKeyStep, ShowTrialsKeyStep
    DEF Next
<1> QED BY <1>1, <1>2, Safety, PTL DEF Spec

-----------------------------------------------------------------------------
(* What the steps do to a player's games. *)

(* The game in the file f becomes the last of p's finished games. *)
Records(p, f) == archive' = [archive EXCEPT ![p] = Append(@, f)]

(* A game ends without another guess: by the clock or because it was quit. *)
Closes(p) ==
  /\ active[p] # NoGame
  /\ active' = [active EXCEPT ![p] = NoGame]
  /\ \E ending \in {"Q", "T"}, tstamp \in Nat, used \in Int :
       Records(p, Ended(active[p], ending, tstamp, used))
  /\ UNCHANGED scores

(* A game begins, in place of one whose time is up or that is just new.    *)
Begins(p) ==
  /\ active[p] # NoGame /\ now > active[p].start => Expired(p, now)
  /\ \E g \in Game : g.atts = <<>> /\ active' = [active EXCEPT ![p] = g]
  /\ \/ UNCHANGED archive
     \/ /\ active[p] # NoGame
        /\ \E tstamp \in Nat, used \in Int :
             Records(p, Ended(active[p], "T", tstamp, used))
  /\ UNCHANGED scores

(* A guess is accepted: the last one, the right one, or one more. *)
Guesses(p, att) ==
  LET g == active[p]
      n == Len(g.atts)
      next == WithAttempt(g, att)
      used == now - g.start
  IN
  /\ g # NoGame /\ ~IsDuplicate(p, att)
  /\ \/ /\ att # g.key /\ n + 1 = GuessesMax
        /\ active' = [active EXCEPT ![p] = NoGame]
        /\ Records(p, Ended(next, "L", now, used))
        /\ UNCHANGED scores
     \/ /\ att = g.key
        /\ active' = [active EXCEPT ![p] = NoGame]
        /\ Records(p, Ended(next, "W", now, used))
        /\ saveGameScore(p, g, n + 1, used)
     \/ /\ att # g.key /\ n + 1 < GuessesMax
        /\ active' = [active EXCEPT ![p] = next]
        /\ UNCHANGED <<archive, scores>>

Changes ==
  \/ UNCHANGED store
  \/ \E p \in Players :
       Closes(p) \/ Begins(p) \/ \E att \in Code : Guesses(p, att)

-----------------------------------------------------------------------------
LEMMA CheckChanges ==
  ASSUME TypeOK, NEW p \in Players, NEW tstamp \in Nat, UNCHANGED scores,
         active' = ActiveAfterCheck(p, tstamp), archive' = ArchiveAfterCheck(p, tstamp)
  PROVE  Changes
<1>1. CASE ~Expired(p, tstamp)
  BY <1>1 DEF ActiveAfterCheck, ArchiveAfterCheck, Changes, store
<1>2. CASE Expired(p, tstamp)
  <2>1. active[p] # NoGame /\ active[p] \in Game
    BY <1>2 DEF Expired, TypeOK
  <2>2. active[p].playTime \in Nat
    BY <2>1, GameFacts
  <2>3. tstamp + active[p].playTime \in Nat /\ active[p].playTime \in Int
    BY <2>2
  <2>4. Records(p, Ended(active[p], "T", tstamp + active[p].playTime, active[p].playTime))
    BY <1>2 DEF ArchiveAfterCheck, TimedOut, Records
  <2>5. \E ending \in {"Q", "T"}, t \in Nat, used \in Int :
          Records(p, Ended(active[p], ending, t, used))
    BY <2>3, <2>4, Zenon
  <2>6. Closes(p)
    BY <1>2, <2>1, <2>5 DEF ActiveAfterCheck, Closes
  <2> QED BY <2>6 DEF Changes
<1> QED BY <1>1, <1>2

LEMMA CreateChanges ==
  ASSUME TypeOK, NEW op, NEW p \in Players, NEW playTime \in 1..PlayTimeMax,
         NEW key \in Code, NEW mode \in {"P", "D"},
         createGame(op, p, playTime, key, mode)
  PROVE  Changes
<1>1. CASE UNCHANGED store
  BY <1>1 DEF Changes
<1>2. CASE /\ ~HasOngoing(p)
           /\ active' = [active EXCEPT ![p] = NewGame(key, mode, playTime)]
           /\ archive' = ArchiveAfterCheck(p, now)
           /\ UNCHANGED scores
  <2>0. active[p] # NoGame /\ now > active[p].start => Expired(p, now)
    <3>1. active[p] # NoGame => active[p].start \in Nat /\ now \in Nat
      BY GameFacts DEF TypeOK
    <3> QED BY <1>2, <3>1 DEF HasOngoing, checkTimedoutGame, Elapsed
  <2>1. NewGame(key, mode, playTime) \in Game /\ NewGame(key, mode, playTime).atts = <<>>
    BY EmptySeq DEF NewGame, Game, TypeOK
  <2>2. CASE ~Expired(p, now)
    BY <1>2, <2>0, <2>1, <2>2 DEF ArchiveAfterCheck, Begins, Changes
  <2>3. CASE Expired(p, now)
    <3>1. active[p] # NoGame /\ active[p].playTime \in Nat
      BY <2>3, GameFacts DEF Expired, TypeOK
    <3>2. now + active[p].playTime \in Nat
      BY <3>1 DEF TypeOK
    <3>3. Records(p, Ended(active[p], "T", now + active[p].playTime, active[p].playTime))
      BY <1>2, <2>3 DEF ArchiveAfterCheck, TimedOut, Records
    <3>4. active[p].playTime \in Int
      BY <3>1
    <3>5. \E tstamp \in Nat, used \in Int : Records(p, Ended(active[p], "T", tstamp, used))
      BY <3>2, <3>3, <3>4, Zenon
    <3>6. Begins(p)
      BY <1>2, <2>0, <2>1, <3>1, <3>5 DEF Begins
    <3> QED BY <3>6 DEF Changes
  <2> QED BY <2>2, <2>3
<1> QED BY <1>1, <1>2 DEF createGame

LEMMA TryChanges ==
  ASSUME IInv, NEW p \in Players, tryHandler(p)
  PROVE  Changes
<1> PICK att \in Code, trial \in TrialArgs :
      \/ tryWithoutGame(p, att, trial)
      \/ tryTimedOut(p, att, trial)
      \/ tryResent(p, att, trial)
      \/ tryWrongTrial(p, att, trial)
      \/ tryDuplicate(p, att, trial)
      \/ tryAccepted(p, att, trial)
  BY DEF tryHandler
<1>1. CASE UNCHANGED store
  BY <1>1 DEF Changes
<1>2. CASE tryTimedOut(p, att, trial)
  BY <1>2, CheckChanges DEF tryTimedOut, IInv, TypeOK
<1>3. CASE tryAccepted(p, att, trial)
  <2> DEFINE g == active[p]
             n == Len(g.atts)
             next == WithAttempt(g, att)
  <2>1. Playable(p) /\ ~IsDuplicate(p, att)
    BY <1>3 DEF tryAccepted
  <2>2. g # NoGame /\ g \in Game /\ n < GuessesMax
    BY <2>1, PlayableFacts DEF Playable, GameOpen
  <2>3. g.key \in Code /\ n \in Nat /\ Len(next.atts) = n + 1
    BY <2>2, GameFacts, WithAttemptType DEF IInv
  <2>4. Blacks(g.key, att) = KeyLen <=> att = g.key
    BY <2>3, AllBlack
  <2>5. TrialsUsed(next) = n + 1 /\ (IsLastGuess(n) <=> n + 1 = GuessesMax)
    BY <2>3, GuessesMaxAssumption DEF TrialsUsed, IsLastGuess
  <2>6. \/ /\ n + 1 = GuessesMax /\ att # g.key
           /\ endGame(p, next, "L", now - g.start)
           /\ UNCHANGED scores
        \/ /\ att = g.key
           /\ endGame(p, next, "W", now - g.start)
           /\ saveGameScore(p, g, n + 1, now - g.start)
        \/ /\ n + 1 # GuessesMax /\ att # g.key
           /\ active' = [active EXCEPT ![p] = next]
           /\ UNCHANGED <<archive, scores>>
    BY <1>3, <2>4, <2>5 DEF tryAccepted
  <2>7. n + 1 # GuessesMax => n + 1 < GuessesMax
    BY <2>2, <2>3, GuessesMaxAssumption
  <2>8. Guesses(p, att)
    BY <2>1, <2>2, <2>6, <2>7 DEF Guesses, endGame, Records
  <2> QED BY <2>8 DEF Changes
<1> QED BY <1>1, <1>2, <1>3 DEF tryWithoutGame, tryResent, tryWrongTrial, tryDuplicate

LEMMA QuitChanges ==
  ASSUME IInv, NEW p \in Players, quitHandler(p)
  PROVE  Changes
<1>1. TypeOK /\ now \in Nat /\ UNCHANGED scores
  BY DEF quitHandler, IInv, TypeOK
<1>2. CASE active' = ActiveAfterCheck(p, now) /\ archive' = ArchiveAfterCheck(p, now)
  BY <1>1, <1>2, CheckChanges
<1>3. CASE /\ checkTimedoutGame(p, now) >= 0
           /\ endGame(p, active[p], "Q", QuitTime(active[p]))
  <2>1. active[p] # NoGame /\ now - active[p].start \in Int
    BY <1>3, PlayableFacts
  <2>2. Closes(p)
    BY <1>1, <1>3, <2>1 DEF endGame, QuitTime, Closes, Records
  <2> QED BY <2>2 DEF Changes
<1> QED BY <1>2, <1>3 DEF quitHandler

(* Every step of the store is one of these. *)
LEMMA StepChanges ==
  ASSUME IInv, [Next]_vars
  PROVE  Changes
<1>0. TypeOK
  BY DEF IInv
<1>1. CASE UNCHANGED store
  BY <1>1 DEF Changes
<1>2. ASSUME NEW p \in Players, startNewGameHandler(p) PROVE Changes
  <2>1. PICK t \in TimeArgs :
          \/ UNCHANGED store
          \/ /\ ValidTime(StartTime(t))
             /\ \E key \in Code : createGame("SNG", p, StartTime(t), key, "P")
    BY <1>2 DEF startNewGameHandler
  <2> QED BY <1>0, <1>1, <2>1, StartTimeType, CreateChanges
<1>3. ASSUME NEW p \in Players, debugGameHandler(p) PROVE Changes
  <2>1. PICK t \in TimeArgs :
          \/ UNCHANGED store
          \/ /\ ValidTime(t)
             /\ \E key \in Code : createGame("DBG", p, t, key, "D")
    BY <1>3 DEF debugGameHandler
  <2> QED BY <1>0, <1>1, <2>1, StartTimeType, CreateChanges
<1>4. ASSUME NEW w \in Workers, showTrialsHandler(w) PROVE Changes
  <2> DEFINE p == strReq[w].plid
             tstamp == strReq[w].tstamp
  <2>1. p \in Players /\ tstamp \in Nat /\ UNCHANGED scores
    BY <1>0, <1>4 DEF showTrialsHandler, TypeOK, Request
  <2>2. \/ UNCHANGED <<active, archive>>
        \/ active' = ActiveAfterCheck(p, tstamp) /\ archive' = ArchiveAfterCheck(p, tstamp)
    BY <1>4 DEF showTrialsHandler
  <2> HIDE DEF p, tstamp
  <2> QED BY <1>0, <1>1, <2>1, <2>2, CheckChanges DEF store
<1> QED
  BY <1>1, <1>2, <1>3, <1>4, TryChanges, QuitChanges
  DEF Next, Tick, malformedRequest, showTrialsAccept, vars, store

-----------------------------------------------------------------------------
(* One more finished game. *)
LEMMA OneMore ==
  ASSUME TypeOK, NEW p \in Players, NEW f \in Finished, Records(p, f)
  PROVE  /\ archive[p] \in Seq(Finished) /\ Len(archive[p]) \in Nat
         /\ archive'[p] = Append(archive[p], f)
         /\ Len(archive'[p]) = Len(archive[p]) + 1
         /\ archive'[p][Len(archive[p]) + 1] = f
         /\ \A i \in 1..Len(archive[p]) : archive'[p][i] = archive[p][i]
         /\ \A q \in Players : q # p => archive'[q] = archive[q]
<1>1. /\ archive[p] \in Seq(Finished) /\ archive'[p] = Append(archive[p], f)
      /\ \A q \in Players : q # p => archive'[q] = archive[q]
  BY DEF Records, TypeOK
<1> QED BY <1>1, AppendProperties, LenProperties

ScoreName(s) == [score |-> s.score, plid |-> s.plid, tstamp |-> s.tstamp]

(* ScoresMatchWins, one name at a time. *)
IsScoreName(x) == \E s \in scores : x = ScoreName(s)

IsWinName(x) ==
  \E p \in Players : \E i \in 1..Len(archive[p]) :
    archive[p][i].ending = "W" /\ x = ScoreNamed(p, archive[p][i])

LEMMA ScoresByName == ScoresMatchWins <=> \A x : IsScoreName(x) <=> IsWinName(x)
<1>1. \A x : x \in {ScoreName(s) : s \in scores} <=> IsScoreName(x)
  BY DEF IsScoreName
<1>2. \A x : x \in UNION {{ScoreNamed(p, archive[p][i]) : i \in WinsOf(p)} : p \in Players}
        <=> IsWinName(x)
  BY DEF IsWinName, WinsOf
<1>3. ScoresMatchWins <=>
        {ScoreName(s) : s \in scores}
          = UNION {{ScoreNamed(p, archive[p][i]) : i \in WinsOf(p)} : p \in Players}
  BY DEF ScoresMatchWins, ScoreName
<1> QED BY <1>1, <1>2, <1>3

LEMMA WinNames ==
  ASSUME TypeOK, NEW p \in Players, NEW f \in Finished, Records(p, f), NEW x
  PROVE  IsWinName(x)' <=> IsWinName(x) \/ (f.ending = "W" /\ x = ScoreNamed(p, f))
<1> USE OneMore
<1> DEFINE m == Len(archive[p]) + 1
<1>1. ASSUME IsWinName(x) PROVE IsWinName(x)'
  <2>1. PICK q \in Players : \E i \in 1..Len(archive[q]) :
          archive[q][i].ending = "W" /\ x = ScoreNamed(q, archive[q][i])
    BY <1>1 DEF IsWinName
  <2>2. PICK i \in 1..Len(archive[q]) :
          archive[q][i].ending = "W" /\ x = ScoreNamed(q, archive[q][i])
    BY <2>1
  <2>3. i \in 1..Len(archive'[q]) /\ archive'[q][i] = archive[q][i]
    <3>1. CASE q = p BY <3>1
    <3>2. CASE q # p BY <3>2
    <3> QED BY <3>1, <3>2
  <2> QED BY <2>2, <2>3 DEF IsWinName, ScoreNamed
<1>2. ASSUME f.ending = "W", x = ScoreNamed(p, f) PROVE IsWinName(x)'
  <2>1. m \in 1..Len(archive'[p]) /\ archive'[p][m] = f
    OBVIOUS
  <2> HIDE DEF m
  <2> QED BY <1>2, <2>1 DEF IsWinName, ScoreNamed
<1>3. ASSUME IsWinName(x)' PROVE IsWinName(x) \/ (f.ending = "W" /\ x = ScoreNamed(p, f))
  <2>1. PICK q \in Players : \E i \in 1..Len(archive'[q]) :
          archive'[q][i].ending = "W" /\ x = ScoreNamed(q, archive'[q][i])
    BY <1>3 DEF IsWinName, ScoreNamed
  <2>2. PICK i \in 1..Len(archive'[q]) :
          archive'[q][i].ending = "W" /\ x = ScoreNamed(q, archive'[q][i])
    BY <2>1
  <2>3. \/ q = p /\ archive'[q][i] = f
        \/ i \in 1..Len(archive[q]) /\ archive'[q][i] = archive[q][i]
    <3>1. CASE q = p BY <3>1
    <3>2. CASE q # p BY <3>2
    <3> QED BY <3>1, <3>2
  <2> QED BY <2>2, <2>3 DEF IsWinName
<1> QED BY <1>1, <1>2, <1>3

LEMMA SavedNames ==
  ASSUME NEW p, NEW g, NEW trials, NEW used, saveGameScore(p, g, trials, used), NEW x
  PROVE  IsScoreName(x)' <=>
           \/ IsScoreName(x)
           \/ x = [score |-> Score(trials, used), plid |-> p, tstamp |-> now]
<1> DEFINE new == [score |-> Score(trials, used), plid |-> p, tstamp |-> now,
                   trials |-> trials, mode |-> g.mode, key |-> g.key]
<1>1. scores' = {s \in scores : ~SameScoreName(s, new)} \cup {new}
  BY DEF saveGameScore
<1>2. ScoreName(new) = [score |-> Score(trials, used), plid |-> p, tstamp |-> now]
  BY DEF ScoreName
<1>3. \A s : SameScoreName(s, new) => ScoreName(s) = ScoreName(new)
  BY DEF SameScoreName, ScoreName
<1> HIDE DEF new
<1>4. IsScoreName(x)' <=> \E s \in scores' : x = ScoreName(s)
  BY DEF IsScoreName, ScoreName
<1> QED BY <1>1, <1>2, <1>3, <1>4 DEF IsScoreName

LEMMA ScoreStep ==
  ASSUME IInv, ScoresMatchWins, Changes
  PROVE  ScoresMatchWins'
<1>0. TypeOK
  BY DEF IInv
<1>1. \A x : IsScoreName(x) <=> IsWinName(x)
  BY ScoresByName
<1>2. (ScoresMatchWins <=> \A x : IsScoreName(x) <=> IsWinName(x))'
  BY ScoresByName, PTL
<1>3. ASSUME UNCHANGED <<archive, scores>>
      PROVE  \A x : IsScoreName(x)' <=> IsWinName(x)'
  <2>1. \A x : IsScoreName(x)' <=> IsScoreName(x)
    BY <1>3 DEF IsScoreName, ScoreName
  <2>2. \A x : IsWinName(x)' <=> IsWinName(x)
    BY <1>3 DEF IsWinName, ScoreNamed
  <2> QED BY <1>1, <2>1, <2>2
<1>4. ASSUME NEW p \in Players, NEW f \in Finished, Records(p, f),
             f.ending # "W", UNCHANGED scores
      PROVE  \A x : IsScoreName(x)' <=> IsWinName(x)'
  <2>1. \A x : IsScoreName(x)' <=> IsScoreName(x)
    BY <1>4 DEF IsScoreName, ScoreName
  <2> QED BY <1>0, <1>1, <1>4, <2>1, WinNames
<1>5. ASSUME NEW p \in Players, Closes(p)
      PROVE  \A x : IsScoreName(x)' <=> IsWinName(x)'
  <2>1. active[p] \in Game
    BY <1>0, <1>5 DEF Closes, TypeOK
  <2>2. PICK ending \in {"Q", "T"}, tstamp \in Nat, used \in Int :
          Records(p, Ended(active[p], ending, tstamp, used))
    BY <1>5 DEF Closes
  <2>3. /\ Ended(active[p], ending, tstamp, used) \in Finished
        /\ Ended(active[p], ending, tstamp, used).ending # "W"
    BY <2>1, EndedType DEF Ended
  <2> QED BY <1>4, <1>5, <2>2, <2>3 DEF Closes
<1>6. ASSUME NEW p \in Players, Begins(p)
      PROVE  \A x : IsScoreName(x)' <=> IsWinName(x)'
  <2>1. CASE UNCHANGED archive
    BY <1>3, <1>6, <2>1 DEF Begins
  <2>2. ASSUME active[p] # NoGame, NEW tstamp \in Nat, NEW used \in Int,
               Records(p, Ended(active[p], "T", tstamp, used))
        PROVE  \A x : IsScoreName(x)' <=> IsWinName(x)'
    <3>1. /\ Ended(active[p], "T", tstamp, used) \in Finished
          /\ Ended(active[p], "T", tstamp, used).ending # "W"
      BY <1>0, <2>2, EndedType DEF Ended, TypeOK
    <3> QED BY <1>4, <1>6, <2>2, <3>1 DEF Begins
  <2> QED BY <1>6, <2>1, <2>2 DEF Begins
<1>7. ASSUME NEW p \in Players, NEW att \in Code, Guesses(p, att)
      PROVE  \A x : IsScoreName(x)' <=> IsWinName(x)'
  <2> DEFINE g == active[p]
             n == Len(g.atts)
             next == WithAttempt(g, att)
             used == now - g.start
  <2>1. g \in Game
    BY <1>0, <1>7 DEF Guesses, TypeOK
  <2>2. next \in Game /\ Len(next.atts) = n + 1
    BY <1>0, <2>1, WithAttemptType
  <2>3. used \in Int /\ now \in Nat
    BY <1>0, <2>1, GameFacts DEF TypeOK
  <2>4. CASE Records(p, Ended(next, "L", now, used)) /\ UNCHANGED scores
    <3>1. /\ Ended(next, "L", now, used) \in Finished
          /\ Ended(next, "L", now, used).ending # "W"
      BY <2>2, <2>3, EndedType DEF Ended
    <3> QED BY <1>4, <2>4, <3>1
  <2>5. CASE Records(p, Ended(next, "W", now, used)) /\ saveGameScore(p, g, n + 1, used)
    <3> DEFINE f == Ended(next, "W", now, used)
    <3>1. f \in Finished /\ f.ending = "W"
      BY <2>2, <2>3, EndedType DEF Ended
    <3>2. ScoreNamed(p, f) = [score |-> Score(n + 1, used), plid |-> p, tstamp |-> now]
      BY <2>2 DEF ScoreNamed, Ended
    <3> HIDE DEF f, g, n, used
    <3>3. \A x : IsWinName(x)' <=> IsWinName(x) \/ x = ScoreNamed(p, f)
      BY <1>0, <2>5, <3>1, WinNames DEF f, used
    <3>4. \A x : IsScoreName(x)' <=> IsScoreName(x) \/ x = ScoreNamed(p, f)
      BY <2>5, <3>2, SavedNames
    <3> QED BY <1>1, <3>3, <3>4
  <2>6. CASE UNCHANGED <<archive, scores>>
    BY <1>3, <2>6
  <2> QED BY <1>7, <2>4, <2>5, <2>6 DEF Guesses
<1>8. \A x : IsScoreName(x)' <=> IsWinName(x)'
  BY <1>3, <1>5, <1>6, <1>7 DEF Changes, store
<1> QED BY <1>2, <1>8

(* saveGameScore: the scores on the board are those of the games archived  *)
(* as won, each with the trials and the time of its winning attempt.       *)
THEOREM ScoresOfWins == Spec => []ScoresMatchWins
<1>1. Init => ScoresMatchWins
  BY DEF Init, ScoresMatchWins, WinsOf
<1>2. IInv /\ ScoresMatchWins /\ [Next]_vars => ScoresMatchWins'
  BY StepChanges, ScoreStep
<1> QED BY <1>1, <1>2, Safety, PTL DEF Spec

-----------------------------------------------------------------------------
(* Action properties. *)
LEMMA KeptStep ==
  ASSUME TypeOK, Changes, NEW p \in Players,
         active[p] # NoGame, now > active[p].start, ~Expired(p, now)
  PROVE  \/ active'[p] # NoGame /\ Continues(active[p], active'[p])
         \/ active'[p] = NoGame /\ Len(archive'[p]) > Len(archive[p])
<1>g. active[p] \in Game
  BY DEF TypeOK
<1>s. Continues(active[p], active[p])
  BY <1>g, GameFacts DEF Continues
<1>1. CASE active'[p] = active[p]
  BY <1>1, <1>s
<1>2. ASSUME NEW f \in Finished, Records(p, f)
      PROVE  Len(archive'[p]) > Len(archive[p])
  BY <1>2, OneMore
<1>3. ASSUME NEW q \in Players, q # p, NEW x, active' = [active EXCEPT ![q] = x]
      PROVE  active'[p] = active[p]
  BY <1>3 DEF TypeOK
<1>4. CASE Closes(p)
  <2>1. PICK ending \in {"Q", "T"}, tstamp \in Nat, used \in Int :
          Records(p, Ended(active[p], ending, tstamp, used))
    BY <1>4 DEF Closes
  <2>2. Len(archive'[p]) > Len(archive[p])
    BY <1>2, <1>g, <2>1, EndedType
  <2> QED BY <1>4, <2>2 DEF Closes, TypeOK
<1>5. ~Begins(p)
  BY DEF Begins
<1>6. ASSUME NEW att \in Code, Guesses(p, att)
      PROVE  \/ active'[p] # NoGame /\ Continues(active[p], active'[p])
             \/ active'[p] = NoGame /\ Len(archive'[p]) > Len(archive[p])
  <2> DEFINE g == active[p]
             next == WithAttempt(g, att)
             used == now - g.start
  <2>1. /\ next \in Game /\ next # NoGame
        /\ Len(next.atts) = Len(g.atts) + 1
        /\ \A i \in 1..Len(g.atts) : next.atts[i] = g.atts[i]
        /\ next.key = g.key /\ next.mode = g.mode
        /\ next.playTime = g.playTime /\ next.start = g.start
    BY <1>g, WithAttemptType, NoGameAssumption
  <2>2. now \in Nat /\ used \in Int /\ Len(g.atts) \in Nat
    BY <1>g, GameFacts DEF TypeOK
  <2>3. Continues(g, next)
    BY <2>1, <2>2 DEF Continues
  <2> HIDE DEF next
  <2>4. CASE active' = [active EXCEPT ![p] = next]
    BY <2>1, <2>3, <2>4 DEF TypeOK
  <2>5. ASSUME NEW ending \in {"L", "W"}, active' = [active EXCEPT ![p] = NoGame],
               Records(p, Ended(next, ending, now, used))
        PROVE  active'[p] = NoGame /\ Len(archive'[p]) > Len(archive[p])
    <3>1. Ended(next, ending, now, used) \in Finished
      BY <2>1, <2>2, EndedType
    <3>2. active'[p] = NoGame
      BY <2>5 DEF TypeOK
    <3> QED BY <1>2, <2>5, <3>1, <3>2
  <2> QED BY <1>6, <2>4, <2>5 DEF Guesses, next
<1>7. ASSUME NEW q \in Players, q # p,
             Closes(q) \/ Begins(q) \/ \E att \in Code : Guesses(q, att)
      PROVE  active'[p] = active[p]
  <2>1. \E x : active' = [active EXCEPT ![q] = x]
    BY <1>7 DEF Closes, Begins, Guesses
  <2> QED BY <1>3, <1>7, <2>1
<1>8. UNCHANGED store => active'[p] = active[p]
  BY DEF store
<1> QED BY <1>1, <1>4, <1>5, <1>6, <1>7, <1>8 DEF Changes

(* createGame and whoever closes a game: after its first second a running  *)
(* game is only added to, or goes to the player's finished games.          *)
THEOREM OngoingKept == Spec => OngoingKeptAfterFirstSecond
<1>1. IInv /\ [Next]_vars =>
        [\A p \in Players :
           active[p] # NoGame /\ now > active[p].start /\ ~Expired(p, now) =>
             \/ active'[p] # NoGame /\ Continues(active[p], active'[p])
             \/ active'[p] = NoGame /\ Len(archive'[p]) > Len(archive[p])]_vars
  BY StepChanges, KeptStep DEF IInv
<1> QED BY <1>1, Safety, PTL DEF Spec, OngoingKeptAfterFirstSecond

(* getLastGame with the timestamp of the accept: a finished game is shown  *)
(* only if no game was running then.                                       *)
THEOREM FinWithoutGame == Spec => FinOnlyWithoutGameAtAccept
<1>1. IInv /\ [Next]_vars =>
        [\A w \in Workers :
           strReq[w] # NoRequest /\ strReq'[w] = NoRequest /\ reply'.status = "FIN" =>
             LET p == strReq[w].plid IN
             active'[p] = NoGame \/ active'[p].start > strReq[w].tstamp]_<<strReq, reply>>
  <2> SUFFICES ASSUME IInv, [Next]_vars, NEW w \in Workers,
                      strReq[w] # NoRequest, strReq'[w] = NoRequest, reply'.status = "FIN"
               PROVE  LET p == strReq[w].plid IN
                      active'[p] = NoGame \/ active'[p].start > strReq[w].tstamp
    OBVIOUS
  <2> DEFINE p == strReq[w].plid
             tstamp == strReq[w].tstamp
  <2>1. TypeOK /\ p \in Players /\ tstamp \in Nat
    BY DEF IInv, TypeOK, Request
  <2>2. showTrialsHandler(w)
    <3>1. ASSUME NEW v \in Workers, showTrialsHandler(v) PROVE v = w
      BY <2>1, <3>1 DEF showTrialsHandler, TypeOK
    <3>2. ASSUME NEW q \in Players, NEW v \in Workers, showTrialsAccept(v, q) PROVE FALSE
      BY <2>1, <3>2 DEF showTrialsAccept, TypeOK
    <3> QED
      BY <3>1, <3>2
      DEF Next, vars, Tick, startNewGameHandler, debugGameHandler, tryHandler, quitHandler,
          malformedRequest
  <2>3. checkTimedoutGame(p, tstamp) < 0 /\ active' = ActiveAfterCheck(p, tstamp)
    <3>1. Reply("STR", p, "NOK").status = "NOK"
      BY DEF Reply
    <3>2. ASSUME NEW key, NEW g
          PROVE  [Reply("STR", p, "ACT") EXCEPT !.key = key, !.shown = g].status = "ACT"
      BY DEF Reply
    <3>3. getLastGame(p, tstamp) /\ active' = ActiveAfterCheck(p, tstamp)
      BY <2>2, <3>1 DEF showTrialsHandler
    <3>4. CASE /\ checkTimedoutGame(p, tstamp) >= 0
               /\ reply' = [Reply("STR", p, "ACT") EXCEPT
                              !.key = KeyOfOngoing(active[p]), !.shown = active[p]]
      BY <3>2, <3>4
    <3>5. CASE reply' = Reply("STR", p, "NOK")
      BY <3>1, <3>5
    <3> HIDE DEF p, tstamp
    <3> QED BY <3>3, <3>4, <3>5 DEF getLastGame
  <2>4. CASE active[p] = NoGame \/ Expired(p, tstamp)
    BY <2>1, <2>3, <2>4 DEF ActiveAfterCheck, TypeOK
  <2>5. CASE active[p] # NoGame /\ ~Expired(p, tstamp)
    <3>1. active'[p] = active[p] /\ Elapsed(p, tstamp) < 0
      BY <2>3, <2>5 DEF ActiveAfterCheck, checkTimedoutGame
    <3>2. active[p].start \in Nat
      BY <2>1, <2>5, GameFacts DEF TypeOK
    <3> QED BY <2>1, <3>1, <3>2 DEF Elapsed
  <2> QED BY <2>4, <2>5
<1> QED BY <1>1, Safety, PTL DEF Spec, FinOnlyWithoutGameAtAccept

-----------------------------------------------------------------------------
(* A feedback for a wrong guess is about the last attempt in the player's  *)
(* file, so that its repetition is recognised.                             *)
Feedback(p, att, trial, n, key) ==
  [op |-> "TRY", plid |-> p, arg |-> trial, att |-> att, status |-> "OK",
   trial |-> n, blacks |-> Blacks(key, att), whites |-> Whites(key, att),
   key |-> NoKey, shown |-> NoGame]

WrongGuess == reply.op = "TRY" /\ reply.status = "OK" /\ reply.blacks < KeyLen

Answers(r, p, att, trial) == r.op = "TRY" /\ r.plid = p /\ r.att = att /\ r.arg = trial

LastTryStored ==
  WrongGuess =>
    \E p \in Players, att \in Code, trial \in TrialArgs :
      /\ Answers(reply, p, att, trial)
      /\ active[p] # NoGame /\ IsResend(p, att, trial)
      /\ reply = Feedback(p, att, trial, Len(active[p].atts), active[p].key)

TryCases(p, att, trial) ==
  \/ tryWithoutGame(p, att, trial)
  \/ tryTimedOut(p, att, trial)
  \/ tryResent(p, att, trial)
  \/ tryWrongTrial(p, att, trial)
  \/ tryDuplicate(p, att, trial)
  \/ tryAccepted(p, att, trial)

LEMMA FeedbackIs ==
  ASSUME NEW p \in Players, NEW att \in Code, NEW trial \in TrialArgs,
         NEW n \in Nat, NEW key \in Code
  PROVE  WithFeedback(TryReply(p, att, trial, "OK"), n, key) = Feedback(p, att, trial, n, key)
<1> DEFINE r == WithFeedback(TryReply(p, att, trial, "OK"), n, key)
           f == Feedback(p, att, trial, n, key)
<1>1. r \in ReplyType
  BY TryReplyType, WithFeedbackType DEF Statuses
<1>2. f \in ReplyType
  BY FeedbackType, ArgsAssumption DEF Feedback, ReplyType, Ops, Statuses
<1>3. /\ r.op = "TRY" /\ r.plid = p /\ r.arg = trial /\ r.att = att /\ r.status = "OK"
      /\ r.trial = n /\ r.blacks = Blacks(key, att) /\ r.whites = Whites(key, att)
      /\ r.key = NoKey /\ r.shown = NoGame
  BY DEF WithFeedback, TryReply, Reply
<1>4. /\ f.op = "TRY" /\ f.plid = p /\ f.arg = trial /\ f.att = att /\ f.status = "OK"
      /\ f.trial = n /\ f.blacks = Blacks(key, att) /\ f.whites = Whites(key, att)
      /\ f.key = NoKey /\ f.shown = NoGame
  BY DEF Feedback
<1> HIDE DEF r, f
<1>5. r = f
  BY <1>1, <1>2, <1>3, <1>4 DEF ReplyType
<1> QED BY <1>5 DEF r, f

LEMMA TryReplyFields ==
  ASSUME NEW p, NEW att, NEW trial, NEW status
  PROVE  /\ Answers(TryReply(p, att, trial, status), p, att, trial)
         /\ TryReply(p, att, trial, status).status = status
         /\ \A key : /\ Answers([TryReply(p, att, trial, status) EXCEPT !.key = key],
                                p, att, trial)
                     /\ [TryReply(p, att, trial, status) EXCEPT !.key = key].status = status
         /\ \A n, key : Answers(Feedback(p, att, trial, n, key), p, att, trial)
BY DEF TryReply, Reply, Feedback, Answers

LEMMA TryAnswers ==
  ASSUME IInv, NEW p \in Players, NEW att \in Code, NEW trial \in TrialArgs,
         TryCases(p, att, trial)
  PROVE  /\ Answers(reply', p, att, trial)
         /\ reply'.status = "OK" => tryResent(p, att, trial) \/ tryAccepted(p, att, trial)
         /\ tryTimedOut(p, att, trial) => reply'.status = "ETM"
<1>1. CASE tryWithoutGame(p, att, trial)
  BY <1>1, TryReplyFields DEF tryWithoutGame, tryTimedOut
<1>2. CASE tryTimedOut(p, att, trial)
  BY <1>2, TryReplyFields DEF tryTimedOut
<1>3. CASE tryWrongTrial(p, att, trial)
  BY <1>3, TryReplyFields DEF tryWrongTrial, tryTimedOut, Playable
<1>4. CASE tryDuplicate(p, att, trial)
  BY <1>4, TryReplyFields DEF tryDuplicate, tryTimedOut, Playable
<1>5. CASE tryResent(p, att, trial)
  <2>1. active[p].key \in Code /\ Len(active[p].atts) \in Nat
    BY <1>5, PlayableFacts, GameFacts DEF tryResent, Playable
  <2> QED BY <1>5, <2>1, FeedbackIs, TryReplyFields DEF tryResent, tryTimedOut, Playable
<1>6. CASE tryAccepted(p, att, trial)
  <2>1. ~tryTimedOut(p, att, trial)
    BY <1>6 DEF tryAccepted, tryTimedOut, Playable
  <2> DEFINE g == active[p]
             n == Len(g.atts)
             ent == [TryReply(p, att, trial, "ENT") EXCEPT !.key = g.key]
             ok == WithFeedback(TryReply(p, att, trial, "OK"), n + 1, g.key)
  <2>2. reply' = ent \/ reply' = ok
    BY <1>6, Zenon DEF tryAccepted
  <2>3. g.key \in Code /\ n + 1 \in Nat
    BY <1>6, PlayableFacts, GameFacts DEF tryAccepted, Playable
  <2>4. ok = Feedback(p, att, trial, n + 1, g.key)
    BY <2>3, FeedbackIs
  <2>5. Answers(ent, p, att, trial) /\ ent.status = "ENT"
    BY TryReplyFields
  <2>6. Answers(Feedback(p, att, trial, n + 1, g.key), p, att, trial)
    BY TryReplyFields
  <2> HIDE DEF ent, ok
  <2>7. Answers(reply', p, att, trial)
    BY <2>2, <2>4, <2>5, <2>6
  <2> QED BY <1>6, <2>1, <2>7
<1> QED BY <1>1, <1>2, <1>3, <1>4, <1>5, <1>6 DEF TryCases

(* A step that writes a new reply is a try or replies to something else.   *)
LEMMA ReplyCases ==
  ASSUME TypeOK, [Next]_vars
  PROVE  \/ UNCHANGED <<reply, store>>
         \/ reply'.op # "TRY"
         \/ \E p \in Players, att \in Code, trial \in TrialArgs : TryCases(p, att, trial)
<1>1. ASSUME NEW op, NEW p, NEW status, op # "TRY"
      PROVE  /\ Reply(op, p, status).op # "TRY"
             /\ \A key : [Reply(op, p, status) EXCEPT !.key = key].op # "TRY"
             /\ \A key, g :
                  [Reply(op, p, status) EXCEPT !.key = key, !.shown = g].op # "TRY"
  BY <1>1 DEF Reply
<1>2. ASSUME NEW p \in Players, startNewGameHandler(p) \/ debugGameHandler(p)
      PROVE  reply'.op # "TRY"
  BY <1>1, <1>2 DEF startNewGameHandler, debugGameHandler, createGame
<1>3. ASSUME NEW p \in Players, quitHandler(p) \/ malformedRequest(p)
      PROVE  reply'.op # "TRY"
  <2>1. CASE malformedRequest(p)
    BY <1>1, <2>1 DEF malformedRequest
  <2>2. CASE quitHandler(p)
    <3>1. \/ reply' = Reply("QUT", p, "NOK")
          \/ reply' = [Reply("QUT", p, "OK") EXCEPT !.key = active[p].key]
      BY <2>2, Zenon DEF quitHandler
    <3>2. CASE reply' = Reply("QUT", p, "NOK")
      BY <1>1, <3>2
    <3>3. CASE reply' = [Reply("QUT", p, "OK") EXCEPT !.key = active[p].key]
      BY <1>1, <3>3
    <3> QED BY <3>1, <3>2, <3>3
  <2> QED BY <1>3, <2>1, <2>2
<1>4. ASSUME NEW w \in Workers, showTrialsHandler(w)
      PROVE  reply'.op # "TRY"
  <2> DEFINE p == strReq[w].plid
  <2>1. CASE reply' = Reply("STR", p, "NOK")
    BY <1>1, <2>1
  <2>2. CASE getLastGame(p, strReq[w].tstamp)
    <3>1. CASE reply' = [Reply("STR", p, "ACT") EXCEPT
                           !.key = KeyOfOngoing(active[p]), !.shown = active[p]]
      BY <1>1, <3>1
    <3>2. ASSUME NEW last, reply' = [Reply("STR", p, "FIN") EXCEPT
                                       !.key = last.game.key, !.shown = last.game]
          PROVE  reply'.op # "TRY"
      BY <1>1, <3>2
    <3> HIDE DEF p
    <3> QED BY <2>1, <2>2, <3>1, <3>2 DEF getLastGame
  <2> QED BY <1>4, <2>1, <2>2, Zenon DEF showTrialsHandler
<1> QED
  BY <1>2, <1>3, <1>4
  DEF Next, Tick, tryHandler, TryCases, showTrialsAccept, vars, store

LEMMA StoredStep ==
  ASSUME IInv, LastTryStored, [Next]_vars
  PROVE  LastTryStored'
<1>0. TypeOK
  BY DEF IInv
<1>1. CASE UNCHANGED <<reply, store>>
  BY <1>1
  DEF LastTryStored, WrongGuess, Answers, IsResend, Feedback, store
<1>2. CASE reply'.op # "TRY"
  BY <1>2 DEF LastTryStored, WrongGuess
<1>3. ASSUME NEW p \in Players, NEW att \in Code, NEW trial \in TrialArgs,
             TryCases(p, att, trial), WrongGuess'
      PROVE  LastTryStored'
  <2> SUFFICES /\ Answers(reply, p, att, trial)'
               /\ (active[p] # NoGame)' /\ IsResend(p, att, trial)'
               /\ (reply = Feedback(p, att, trial, Len(active[p].atts), active[p].key))'
    BY DEF LastTryStored, Answers, IsResend, Feedback
  <2>1. Answers(reply, p, att, trial)'
    BY <1>3, TryAnswers DEF Answers
  <2>2. tryResent(p, att, trial) \/ tryAccepted(p, att, trial)
    BY <1>3, TryAnswers DEF WrongGuess
  <2>3. Playable(p)
    BY <2>2 DEF tryResent, tryAccepted
  <2> DEFINE g == active[p]
             n == Len(g.atts)
             next == WithAttempt(g, att)
  <2>4. g # NoGame /\ g \in Game /\ n \in Nat
    BY <2>3, PlayableFacts, GameFacts DEF Playable
  <2>5. CASE tryResent(p, att, trial)
    <3>1. g.key \in Code
      BY <2>4, GameFacts
    <3>2. reply' = Feedback(p, att, trial, n, g.key)
      BY <2>4, <2>5, <3>1, FeedbackIs DEF tryResent
    <3>3. active' = active /\ IsResend(p, att, trial)
      BY <2>5 DEF tryResent, store
    <3> QED BY <2>1, <2>4, <3>2, <3>3 DEF IsResend, Feedback
  <2>6. CASE tryAccepted(p, att, trial)
    <3>1. reply'.status = "OK" /\ reply'.blacks < KeyLen
      BY <1>3 DEF WrongGuess
    <3> DEFINE ent == [TryReply(p, att, trial, "ENT") EXCEPT !.key = g.key]
               ok == WithFeedback(TryReply(p, att, trial, "OK"), n + 1, g.key)
               won == Blacks(g.key, att) = KeyLen
    <3>2. ent.status = "ENT"
      BY TryReplyFields
    <3>3. ok = Feedback(p, att, trial, n + 1, g.key) /\ ok.blacks = Blacks(g.key, att)
      <4>1. g.key \in Code /\ n + 1 \in Nat
        BY <2>4, GameFacts
      <4>2. ok = Feedback(p, att, trial, n + 1, g.key)
        BY <4>1, FeedbackIs
      <4>3. Feedback(p, att, trial, n + 1, g.key).blacks = Blacks(g.key, att)
        BY DEF Feedback
      <4> QED BY <4>2, <4>3
    <3>4. trial = n + 1
      BY <2>6 DEF tryAccepted
    <3>a. \/ reply' = ent
          \/ won /\ reply' = ok
          \/ active' = [active EXCEPT ![p] = next] /\ reply' = ok
      BY <2>6, Zenon DEF tryAccepted
    <3>b. won /\ reply' = ok => ~(reply'.blacks < KeyLen)
      BY <3>3, KeyLenAssumption
    <3> HIDE DEF ent, ok, won
    <3>5. /\ active' = [active EXCEPT ![p] = next]
          /\ reply' = Feedback(p, att, trial, n + 1, g.key)
      BY <3>1, <3>2, <3>3, <3>a, <3>b
    <3>6. active'[p] = next
      BY <1>0, <3>5 DEF TypeOK
    <3>7. /\ next \in Game /\ next # NoGame /\ Len(next.atts) = n + 1 /\ next.key = g.key
          /\ next.atts[n + 1].key = att
      <4>1. next.atts[n + 1] = [key |-> att, blacks |-> Blacks(g.key, att),
                                whites |-> Whites(g.key, att), time |-> now - g.start]
        BY <1>0, <2>4, WithAttemptType
      <4>2. next.atts[n + 1].key = att
        BY <4>1
      <4> HIDE DEF next
      <4> QED BY <1>0, <2>4, <4>2, WithAttemptType, NoGameAssumption DEF next
    <3> HIDE DEF next
    <3>8. IsResend(p, att, trial)'
      <4>1. active'[p].atts # <<>>
        BY <2>4, <3>6, <3>7, EmptySeq
      <4> QED BY <2>4, <3>4, <3>6, <3>7, <4>1 DEF IsResend
    <3>9. (reply = Feedback(p, att, trial, Len(active[p].atts), active[p].key))'
      BY <3>5, <3>6, <3>7 DEF Feedback
    <3> QED BY <2>1, <3>6, <3>7, <3>8, <3>9
  <2> QED BY <2>2, <2>5, <2>6
<1> QED BY <1>0, <1>1, <1>2, <1>3, ReplyCases DEF LastTryStored

LEMMA ResendStep ==
  ASSUME IInv, LastTryStored, [Next]_vars, WrongGuess, SameRequest(reply, reply')
  PROVE  (reply' = reply /\ UNCHANGED store) \/ reply'.status = "ETM"
<1>0. TypeOK
  BY DEF IInv
<1>1. CASE UNCHANGED <<reply, store>>
  BY <1>1
<1>2. ASSUME NEW p \in Players, NEW att \in Code, NEW trial \in TrialArgs,
             TryCases(p, att, trial)
      PROVE  (reply' = reply /\ UNCHANGED store) \/ reply'.status = "ETM"
  <2>1. Answers(reply', p, att, trial)
    BY <1>2, TryAnswers
  <2>2. /\ active[p] # NoGame /\ IsResend(p, att, trial)
        /\ reply = Feedback(p, att, trial, Len(active[p].atts), active[p].key)
    BY <2>1 DEF LastTryStored, SameRequest, Answers
  <2>3. active[p] \in Game /\ Len(active[p].atts) \in Nat
    BY <1>0, <2>2, GameFacts DEF TypeOK
  <2>4. trial # Len(active[p].atts) + 1
    BY <2>2, <2>3 DEF IsResend
  <2>5. checkTimedoutGame(p, now) # -1
    BY <1>0, <2>2, <2>3, GameFacts
    DEF checkTimedoutGame, Elapsed, IInv, ActiveGamesOpen, GameOpen, TypeOK
  <2>6. tryTimedOut(p, att, trial) \/ tryResent(p, att, trial)
    BY <1>2, <2>2, <2>4, <2>5
    DEF TryCases, tryWithoutGame, tryWrongTrial, tryDuplicate, tryAccepted
  <2>7. CASE tryTimedOut(p, att, trial)
    BY <1>2, <2>7, TryAnswers
  <2>8. CASE tryResent(p, att, trial)
    BY <1>0, <2>2, <2>3, <2>8, FeedbackIs, GameFacts DEF tryResent
  <2> QED BY <2>6, <2>7, <2>8
<1>3. reply'.op = "TRY"
  BY DEF WrongGuess, SameRequest
<1> QED BY <1>0, <1>1, <1>2, <1>3, ReplyCases

(* attempt: a try repeated because its reply was lost gets the same reply  *)
(* and stores nothing, unless the game has timed out.                      *)
THEOREM ResendHarmless == Spec => ResendIdempotent
<1>1. Init => LastTryStored
  BY DEF Init, LastTryStored, WrongGuess, Reply
<1>2. IInv /\ LastTryStored /\ [Next]_vars => LastTryStored'
  BY StoredStep
<1>3. IInv /\ LastTryStored /\ [Next]_vars =>
        [reply.op = "TRY" /\ reply.status = "OK" /\ reply.blacks < KeyLen
           /\ SameRequest(reply, reply')
         => (reply' = reply /\ UNCHANGED store) \/ reply'.status = "ETM"]_<<reply, store>>
  BY ResendStep DEF WrongGuess
<1> QED BY <1>1, <1>2, <1>3, Safety, PTL DEF Spec, ResendIdempotent

-----------------------------------------------------------------------------
(* The state of PlayerGame that the store stands for. *)
SecretOf == [p \in Players |-> IF active[p] = NoGame THEN NoKey ELSE active[p].key]

KeysOf(g) == [i \in 1..Len(g.atts) |-> g.atts[i].key]

GuessesOf == [p \in Players |-> IF active[p] = NoGame THEN <<>> ELSE KeysOf(active[p])]

EndingsOf(files) == [i \in 1..Len(files) |-> <<files[i].ending, Len(files[i].game.atts)>>]

ResultsOf == [p \in Players |-> EndingsOf(archive[p])]

(* A function on 1..n is a sequence of length n. *)
LEMMA SequenceLength ==
  ASSUME NEW S, NEW n \in Nat, NEW f \in [1..n -> S]
  PROVE  f \in Seq(S) /\ Len(f) = n
<1>1. f \in Seq(S)
  BY SeqDef
<1>2. Len(f) \in Nat /\ DOMAIN f = 1..Len(f) /\ DOMAIN f = 1..n
  BY <1>1, LenProperties
<1> QED BY <1>1, <1>2

LEMMA KeysAreSequence ==
  ASSUME NEW g \in Game
  PROVE  /\ KeysOf(g) \in Seq(Code) /\ Len(KeysOf(g)) = Len(g.atts)
         /\ Len(g.atts) \in Nat
         /\ \A i \in 1..Len(g.atts) : KeysOf(g)[i] = g.atts[i].key
<1>1. Len(g.atts) \in Nat /\ \A i \in 1..Len(g.atts) : g.atts[i].key \in Code
  BY GameFacts
<1>2. KeysOf(g) \in [1..Len(g.atts) -> Code]
  BY <1>1 DEF KeysOf
<1> QED BY <1>1, <1>2, SequenceLength DEF KeysOf

LEMMA KeysWithAttempt ==
  ASSUME TypeOK, NEW g \in Game, NEW att \in Code
  PROVE  KeysOf(WithAttempt(g, att)) = Append(KeysOf(g), att)
<1> DEFINE next == WithAttempt(g, att)
           n == Len(g.atts)
<1>0. next.atts[n + 1] = [key |-> att, blacks |-> Blacks(g.key, att),
                          whites |-> Whites(g.key, att), time |-> now - g.start]
  BY WithAttemptType
<1>1. /\ next \in Game /\ Len(next.atts) = n + 1 /\ next.atts[n + 1].key = att
      /\ \A i \in 1..n : next.atts[i] = g.atts[i]
  <2>1. next.atts[n + 1].key = att
    BY <1>0
  <2> QED BY <2>1, WithAttemptType
<1> HIDE DEF next
<1>2. /\ KeysOf(next) \in Seq(Code) /\ Len(KeysOf(next)) = n + 1
      /\ \A i \in 1..(n + 1) : KeysOf(next)[i] = next.atts[i].key
  BY <1>1, KeysAreSequence
<1>3. /\ KeysOf(g) \in Seq(Code) /\ Len(KeysOf(g)) = n /\ n \in Nat
      /\ \A i \in 1..n : KeysOf(g)[i] = g.atts[i].key
  BY KeysAreSequence
<1>4. /\ Append(KeysOf(g), att) \in Seq(Code)
      /\ Len(Append(KeysOf(g), att)) = n + 1
      /\ \A i \in 1..n : Append(KeysOf(g), att)[i] = KeysOf(g)[i]
      /\ Append(KeysOf(g), att)[n + 1] = att
  BY <1>3, AppendProperties
<1>5. \A i \in 1..(n + 1) : KeysOf(next)[i] = Append(KeysOf(g), att)[i]
  BY <1>1, <1>2, <1>3, <1>4
<1>6. KeysOf(next) = Append(KeysOf(g), att)
  BY <1>2, <1>4, <1>5, SeqEqual
<1> QED BY <1>6 DEF next

EndingPair == {"W", "L", "Q", "T"} \X Nat

LEMMA EndingsAreSequence ==
  ASSUME NEW files \in Seq(Finished)
  PROVE  /\ EndingsOf(files) \in Seq(EndingPair) /\ Len(EndingsOf(files)) = Len(files)
         /\ Len(files) \in Nat
         /\ \A i \in 1..Len(files) :
              EndingsOf(files)[i] = <<files[i].ending, Len(files[i].game.atts)>>
<1>1. Len(files) \in Nat /\ \A i \in 1..Len(files) : files[i] \in Finished
  BY LenProperties, ElementOfSeq
<1>2. \A f \in Finished : <<f.ending, Len(f.game.atts)>> \in EndingPair
  BY GameFacts DEF Finished, EndingPair
<1>3. EndingsOf(files) \in [1..Len(files) -> EndingPair]
  BY <1>1, <1>2 DEF EndingsOf
<1>4. EndingsOf(files) \in Seq(EndingPair) /\ Len(EndingsOf(files)) = Len(files)
  BY <1>1, <1>3, SequenceLength
<1>5. \A i \in 1..Len(files) :
        EndingsOf(files)[i] = <<files[i].ending, Len(files[i].game.atts)>>
  BY DEF EndingsOf
<1> QED BY <1>1, <1>4, <1>5

LEMMA EndingsAppend ==
  ASSUME NEW files \in Seq(Finished), NEW f \in Finished
  PROVE  EndingsOf(Append(files, f)) = Append(EndingsOf(files), <<f.ending, Len(f.game.atts)>>)
<1> DEFINE more == Append(files, f)
           e == <<f.ending, Len(f.game.atts)>>
           n == Len(files)
<1>1. /\ more \in Seq(Finished) /\ Len(more) = n + 1 /\ more[n + 1] = f
      /\ \A i \in 1..n : more[i] = files[i]
  BY AppendProperties
<1>2. e \in EndingPair
  BY GameFacts DEF Finished, EndingPair
<1> HIDE DEF more
<1>3. /\ EndingsOf(more) \in Seq(EndingPair) /\ Len(EndingsOf(more)) = n + 1
      /\ \A i \in 1..(n + 1) :
           EndingsOf(more)[i] = <<more[i].ending, Len(more[i].game.atts)>>
  BY <1>1, EndingsAreSequence
<1>4. /\ EndingsOf(files) \in Seq(EndingPair) /\ Len(EndingsOf(files)) = n /\ n \in Nat
      /\ \A i \in 1..n :
           EndingsOf(files)[i] = <<files[i].ending, Len(files[i].game.atts)>>
  BY EndingsAreSequence
<1>5. EndingsOf(more)[n + 1] = e
  BY <1>1, <1>3, <1>4
<1>6. ASSUME NEW i \in 1..n PROVE EndingsOf(more)[i] = EndingsOf(files)[i]
  <2>1. more[i] = files[i] /\ i \in 1..(n + 1)
    BY <1>1, <1>4
  <2> HIDE DEF n
  <2>2. EndingsOf(more)[i] = <<more[i].ending, Len(more[i].game.atts)>>
    BY <1>3, <2>1
  <2>3. EndingsOf(files)[i] = <<files[i].ending, Len(files[i].game.atts)>>
    BY <1>4
  <2> QED BY <2>1, <2>2, <2>3
<1> HIDE DEF e
<1>7. /\ Append(EndingsOf(files), e) \in Seq(EndingPair)
      /\ Len(Append(EndingsOf(files), e)) = n + 1
      /\ \A i \in 1..n : Append(EndingsOf(files), e)[i] = EndingsOf(files)[i]
      /\ Append(EndingsOf(files), e)[n + 1] = e
  BY <1>2, <1>4, AppendProperties
<1>8. \A i \in 1..(n + 1) : EndingsOf(more)[i] = Append(EndingsOf(files), e)[i]
  BY <1>4, <1>5, <1>6, <1>7
<1>9. EndingsOf(more) = Append(EndingsOf(files), e)
  BY <1>3, <1>7, <1>8, SeqEqual
<1> QED BY <1>9 DEF more, e

(* How a change of one player's game, or of one player's archive, looks.   *)
LEMMA GameUpdate ==
  ASSUME TypeOK, NEW p \in Players, NEW x, active' = [active EXCEPT ![p] = x]
  PROVE  /\ SecretOf' = [SecretOf EXCEPT ![p] = IF x = NoGame THEN NoKey ELSE x.key]
         /\ GuessesOf' = [GuessesOf EXCEPT ![p] = IF x = NoGame THEN <<>> ELSE KeysOf(x)]
<1>1. active'[p] = x /\ \A q \in Players : q # p => active'[q] = active[q]
  BY DEF TypeOK
<1> DEFINE key == IF x = NoGame THEN NoKey ELSE x.key
           keys == IF x = NoGame THEN <<>> ELSE KeysOf(x)
<1>2. /\ SecretOf' = [q \in Players |-> IF active'[q] = NoGame THEN NoKey ELSE active'[q].key]
      /\ GuessesOf' = [q \in Players |-> IF active'[q] = NoGame THEN <<>> ELSE KeysOf(active'[q])]
  BY DEF SecretOf, GuessesOf, KeysOf
<1>3. /\ SecretOf' = [q \in Players |-> IF q = p THEN key ELSE SecretOf[q]]
      /\ GuessesOf' = [q \in Players |-> IF q = p THEN keys ELSE GuessesOf[q]]
  BY <1>1, <1>2 DEF SecretOf, GuessesOf
<1>4. /\ SecretOf = [q \in Players |-> SecretOf[q]]
      /\ GuessesOf = [q \in Players |-> GuessesOf[q]]
  BY DEF SecretOf, GuessesOf
<1> HIDE DEF key, keys
<1>5. SecretOf' = [SecretOf EXCEPT ![p] = key] /\ GuessesOf' = [GuessesOf EXCEPT ![p] = keys]
  BY <1>3, <1>4
<1> QED BY <1>5 DEF key, keys

LEMMA ResultsUpdate ==
  ASSUME TypeOK, NEW p \in Players, NEW f \in Finished, Records(p, f)
  PROVE  ResultsOf' = [ResultsOf EXCEPT ![p] =
                         Append(@, <<f.ending, Len(f.game.atts)>>)]
<1>1. /\ archive[p] \in Seq(Finished) /\ archive'[p] = Append(archive[p], f)
      /\ \A q \in Players : q # p => archive'[q] = archive[q]
  BY OneMore
<1>2. EndingsOf(archive'[p]) = Append(EndingsOf(archive[p]), <<f.ending, Len(f.game.atts)>>)
  BY <1>1, EndingsAppend
<1>3. ResultsOf' = [q \in Players |-> EndingsOf(archive'[q])]
  BY DEF ResultsOf, EndingsOf
<1> QED BY <1>1, <1>2, <1>3 DEF ResultsOf

-----------------------------------------------------------------------------
(* PlayerGame, in terms of these. *)
LEMMA PromiseInit == Init => Promise!Init
<1> SUFFICES ASSUME Init PROVE Promise!Init
  OBVIOUS
<1>1. \A p \in Players : active[p] = NoGame /\ archive[p] = <<>>
  BY DEF Init
<1>2. \A p \in Players : [i \in 1..Len(archive[p]) |->
                     <<archive[p][i].ending, Len(archive[p][i].game.atts)>>] = <<>>
  BY <1>1
<1> QED BY <1>1, <1>2 DEF Promise!Init

LEMMA PromiseOver ==
  ASSUME NEW p \in Players,
         SecretOf' = [SecretOf EXCEPT ![p] = NoKey],
         GuessesOf' = [GuessesOf EXCEPT ![p] = <<>>]
  PROVE  Promise!Over(p)
BY DEF Promise!Over, SecretOf, GuessesOf, KeysOf

LEMMA PromiseEnd ==
  ASSUME TypeOK, NEW p \in Players, Closes(p)
  PROVE  Promise!End(p)
<1>1. active[p] # NoGame /\ active[p] \in Game /\ active[p].key \in Code
  BY GameFacts DEF Closes, TypeOK
<1>2. SecretOf' = [SecretOf EXCEPT ![p] = NoKey] /\ GuessesOf' = [GuessesOf EXCEPT ![p] = <<>>]
  BY GameUpdate DEF Closes
<1>3. PICK ending \in {"Q", "T"}, tstamp \in Nat, used \in Int :
        Records(p, Ended(active[p], ending, tstamp, used))
  BY DEF Closes
<1> DEFINE f == Ended(active[p], ending, tstamp, used)
<1>4. f \in Finished /\ f.ending = ending /\ f.game = active[p]
  BY <1>1, EndedType DEF Ended
<1>5. ResultsOf' = [ResultsOf EXCEPT ![p] = Append(@, <<ending, Len(active[p].atts)>>)]
  BY <1>3, <1>4, ResultsUpdate
<1>7. Promise!Over(p)
  BY <1>2, PromiseOver
<1>8. GuessesOf[p] = KeysOf(active[p]) /\ Len(KeysOf(active[p])) = Len(active[p].atts)
  BY <1>1, KeysAreSequence DEF GuessesOf
<1>9. SecretOf[p] # NoKey
  BY <1>1, NoKeyAssumption DEF SecretOf
<1>10. ResultsOf' = [ResultsOf EXCEPT ![p] = Append(@, <<ending, Len(GuessesOf[p])>>)]
  BY <1>5, <1>8
<1> QED
  BY <1>7, <1>9, <1>10
  DEF Promise!End, Promise!Record, SecretOf, GuessesOf, KeysOf, ResultsOf, EndingsOf

LEMMA PromiseBegin ==
  ASSUME TypeOK, NEW p \in Players, Begins(p)
  PROVE  Promise!Begin(p)
<1>1. PICK g \in Game : g.atts = <<>> /\ active' = [active EXCEPT ![p] = g]
  BY DEF Begins
<1>2. g # NoGame /\ g.key \in Code /\ KeysOf(g) = <<>>
  BY <1>1, GameFacts, NoGameAssumption DEF KeysOf
<1>3. SecretOf' = [SecretOf EXCEPT ![p] = g.key] /\ GuessesOf' = [GuessesOf EXCEPT ![p] = <<>>]
  BY <1>1, <1>2, GameUpdate
<1>4. SecretOf' \in {[SecretOf EXCEPT ![p] = c] : c \in Code}
  BY <1>2, <1>3
<1>5. \/ UNCHANGED ResultsOf
      \/ /\ SecretOf[p] # NoKey
         /\ ResultsOf' = [ResultsOf EXCEPT ![p] = Append(@, <<"T", Len(GuessesOf[p])>>)]
  <2>1. CASE UNCHANGED archive
    BY <2>1 DEF ResultsOf, EndingsOf
  <2>2. ASSUME active[p] # NoGame, NEW tstamp \in Nat, NEW used \in Int,
               Records(p, Ended(active[p], "T", tstamp, used))
        PROVE  /\ SecretOf[p] # NoKey
               /\ ResultsOf' = [ResultsOf EXCEPT ![p] = Append(@, <<"T", Len(GuessesOf[p])>>)]
    <3> DEFINE f == Ended(active[p], "T", tstamp, used)
    <3>1. active[p] \in Game /\ active[p].key \in Code
      BY <2>2, GameFacts DEF TypeOK
    <3>2. f \in Finished /\ f.ending = "T" /\ f.game = active[p]
      BY <3>1, EndedType DEF Ended
    <3>3. ResultsOf' = [ResultsOf EXCEPT ![p] = Append(@, <<"T", Len(active[p].atts)>>)]
      BY <2>2, <3>2, ResultsUpdate
    <3>4. GuessesOf[p] = KeysOf(active[p]) /\ Len(KeysOf(active[p])) = Len(active[p].atts)
      BY <2>2, <3>1, KeysAreSequence DEF GuessesOf
    <3>5. SecretOf[p] # NoKey
      BY <2>2, <3>1, NoKeyAssumption DEF SecretOf
    <3> QED BY <3>3, <3>4, <3>5
  <2> QED BY <2>1, <2>2 DEF Begins
<1> QED
  BY <1>3, <1>4, <1>5
  DEF Promise!Begin, Promise!Record, SecretOf, GuessesOf, KeysOf, ResultsOf, EndingsOf

LEMMA PromiseGuess ==
  ASSUME TypeOK, NEW p \in Players, NEW att \in Code, Guesses(p, att)
  PROVE  Promise!Guess(p)
<1> DEFINE g == active[p]
           n == Len(g.atts)
           next == WithAttempt(g, att)
           used == now - g.start
           keys == GuessesOf[p]
<1>1. /\ g # NoGame /\ g \in Game /\ g.key \in Code /\ n \in Nat
      /\ now \in Nat /\ used \in Int
  BY GameFacts DEF Guesses, TypeOK
<1>2. next \in Game /\ Len(next.atts) = n + 1 /\ KeysOf(next) = Append(KeysOf(g), att)
  BY <1>1, WithAttemptType, KeysWithAttempt
<1>3. SecretOf[p] = g.key /\ SecretOf[p] # NoKey
  BY <1>1, NoKeyAssumption DEF SecretOf
<1>4. keys = KeysOf(g) /\ Len(keys) = n
  BY <1>1, KeysAreSequence DEF GuessesOf
<1>5. \A i \in 1..Len(keys) : keys[i] # att
  BY <1>1, <1>4, KeysAreSequence DEF Guesses, IsDuplicate
<1>6. next.key = g.key /\ next # NoGame
  BY <1>1, <1>2, WithAttemptType, NoGameAssumption
<1>7. ASSUME NEW ending \in {"W", "L"},
             active' = [active EXCEPT ![p] = NoGame],
             Records(p, Ended(next, ending, now, used))
      PROVE  /\ Promise!Over(p)
             /\ ResultsOf' = [ResultsOf EXCEPT ![p] = Append(@, <<ending, Len(keys) + 1>>)]
  <2> DEFINE f == Ended(next, ending, now, used)
  <2>1. SecretOf' = [SecretOf EXCEPT ![p] = NoKey] /\ GuessesOf' = [GuessesOf EXCEPT ![p] = <<>>]
    BY <1>7, GameUpdate
  <2>2. Promise!Over(p)
    BY <2>1, PromiseOver
  <2>3. f \in Finished /\ f.ending = ending /\ f.game = next
    BY <1>1, <1>2, EndedType DEF Ended
  <2>4. ResultsOf' = [ResultsOf EXCEPT ![p] = Append(@, <<ending, Len(next.atts)>>)]
    <3> HIDE DEF next
    <3> QED BY <1>7, <2>3, ResultsUpdate
  <2>5. Len(next.atts) = Len(keys) + 1
    BY <1>2, <1>4
  <2> QED BY <2>2, <2>4, <2>5
<1>8. \/ /\ att # SecretOf[p] /\ Len(keys) + 1 = GuessesMax /\ Promise!Over(p)
         /\ ResultsOf' = [ResultsOf EXCEPT ![p] = Append(@, <<"L", Len(keys) + 1>>)]
      \/ /\ att = SecretOf[p] /\ Promise!Over(p)
         /\ ResultsOf' = [ResultsOf EXCEPT ![p] = Append(@, <<"W", Len(keys) + 1>>)]
      \/ /\ att # SecretOf[p] /\ Len(keys) + 1 < GuessesMax
         /\ UNCHANGED <<SecretOf, ResultsOf>>
         /\ GuessesOf' = [GuessesOf EXCEPT ![p] = Append(@, att)]
  <2>1. CASE /\ att # g.key /\ n + 1 = GuessesMax
             /\ active' = [active EXCEPT ![p] = NoGame]
             /\ Records(p, Ended(next, "L", now, used))
    BY <1>3, <1>4, <1>7, <2>1
  <2>2. CASE /\ att = g.key
             /\ active' = [active EXCEPT ![p] = NoGame]
             /\ Records(p, Ended(next, "W", now, used))
    BY <1>3, <1>7, <2>2
  <2>3. CASE /\ att # g.key /\ n + 1 < GuessesMax
             /\ active' = [active EXCEPT ![p] = next]
             /\ UNCHANGED archive
    <3>1. /\ SecretOf' = [SecretOf EXCEPT ![p] = g.key]
          /\ GuessesOf' = [GuessesOf EXCEPT ![p] = Append(keys, att)]
      <4> HIDE DEF next
      <4>1. active' = [active EXCEPT ![p] = next]
        BY <2>3
      <4>2. /\ SecretOf' = [SecretOf EXCEPT ![p] = IF next = NoGame THEN NoKey ELSE next.key]
            /\ GuessesOf' = [GuessesOf EXCEPT ![p] =
                               IF next = NoGame THEN <<>> ELSE KeysOf(next)]
        BY <4>1, GameUpdate
      <4>3. KeysOf(next) = Append(keys, att)
        BY <1>2, <1>4
      <4> HIDE DEF keys
      <4> QED BY <1>6, <4>2, <4>3
    <3>2. SecretOf' = SecretOf
      BY <1>3, <3>1 DEF SecretOf
    <3>3. ResultsOf' = ResultsOf
      BY <2>3 DEF ResultsOf, EndingsOf
    <3> QED BY <1>3, <1>4, <2>3, <3>1, <3>2, <3>3
  <2> QED BY <2>1, <2>2, <2>3 DEF Guesses
<1> QED
  BY <1>3, <1>5, <1>8
  DEF Promise!Guess, Promise!Record, SecretOf, GuessesOf, KeysOf, ResultsOf, EndingsOf

LEMMA PromiseStutter ==
  ASSUME UNCHANGED store
  PROVE  UNCHANGED Promise!vars
BY DEF store, Promise!vars

(* Whatever the requests, a player sees one game after the other, with the *)
(* secret fixed, the accepted guesses kept, and an ending that agrees with *)
(* them.                                                                   *)
THEOREM StoreKeepsPromise == Spec => ImplementsPlayerGame
<1>1. IInv /\ [Next]_vars => [Promise!Next]_(Promise!vars)
  <2> SUFFICES ASSUME IInv, [Next]_vars PROVE [Promise!Next]_(Promise!vars)
    OBVIOUS
  <2>1. TypeOK /\ Changes
    BY StepChanges DEF IInv
  <2>2. CASE UNCHANGED store
    BY <2>2, PromiseStutter
  <2>3. ASSUME NEW p \in Players, Closes(p) \/ Begins(p) \/ \E att \in Code : Guesses(p, att)
        PROVE  Promise!Next
    <3>1. Promise!Begin(p) \/ Promise!Guess(p) \/ Promise!End(p)
      BY <2>1, <2>3, PromiseBegin, PromiseEnd, PromiseGuess
    <3> QED BY <3>1 DEF Promise!Next
  <2> QED BY <2>1, <2>2, <2>3 DEF Changes
<1> QED BY <1>1, PromiseInit, Safety, PTL DEF Spec, ImplementsPlayerGame, Promise!Spec
=============================================================================
