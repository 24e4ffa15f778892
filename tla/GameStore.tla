------------------------------ MODULE GameStore ------------------------------
(***************************************************************************)
(* The game server's store (server/GameStore.cpp) together with the        *)
(* handlers that call it (server/commands): the games of every player, the *)
(* scores, and the reply of the last request.                              *)
(*                                                                         *)
(* Each handler is one step: the single UDP thread runs one command after  *)
(* the other, and every file operation succeeds.  A show-trials request,   *)
(* which a worker thread serves, takes its timestamp in one step and uses  *)
(* the store in a later one.  The clock only moves forward.                *)
(***************************************************************************)
EXTENDS GameRules, Sequences

CONSTANTS
  Players, Workers,
  TimeArgs,     \* the play times a start request may carry
  TrialArgs,    \* the trial numbers a try request may carry
  MaxTime,      \* bound on the clock
  MaxGames,     \* bound on the finished games of a player
  NoGame, NoKey, NoRequest

ASSUME ArgsAssumption == TimeArgs \subseteq Nat /\ TrialArgs \subseteq Nat
ASSUME BoundsAssumption == MaxTime \in Nat /\ MaxGames \in Nat
ASSUME NoKeyAssumption == NoKey \notin Code

VARIABLES
  now,       \* system_clock, in seconds
  active,    \* GAMES/GAME_<plid>.txt, or NoGame
  archive,   \* the files moved into GAMES/<plid>/, in the order of the moves
  scores,    \* the files of SCORES/
  strReq,    \* per worker: the show-trials request whose timestamp is taken
  reply      \* the last reply, with the request it answers

store == <<active, archive, scores>>
vars == <<now, active, archive, scores, strReq, reply>>

-----------------------------------------------------------------------------
(* Game files. *)
Attempt == [key : Code, blacks : Nat, whites : Nat, time : Int]

Game == [key : Code, mode : {"P", "D"}, playTime : 1..PlayTimeMax,
         start : Nat, atts : Seq(Attempt)]

Finished == [game : Game, ending : {"W", "L", "Q", "T"}, tstamp : Nat, used : Int]

ScoreFile == [score : Int, plid : Players, tstamp : Nat, trials : Nat,
              mode : {"P", "D"}, key : Code]

ASSUME NoGameAssumption == NoGame \notin Game

Ended(g, ending, tstamp, used) ==
  [game |-> g, ending |-> ending, tstamp |-> tstamp, used |-> used]

(* YYYYMMDD_HHMMSS_R.txt: a later move to the same name replaces the file. *)
FileName(f) == <<f.tstamp, f.ending>>

Directory(files) ==
  {files[i] : i \in {j \in 1..Len(files) :
      \A k \in (j + 1)..Len(files) : FileName(files[k]) # FileName(files[j])}}

EndingRank == [W |-> 4, T |-> 3, Q |-> 2, L |-> 1]

(* The order of the names of two files, as std::greater sorts them. *)
NamedAfter(f, g) ==
  \/ f.tstamp > g.tstamp
  \/ f.tstamp = g.tstamp /\ EndingRank[f.ending] > EndingRank[g.ending]

(* The one file whose name sorts last, as a set. *)
findLastFinishedGame(files) ==
  {f \in Directory(files) : \A g \in Directory(files) : g = f \/ NamedAfter(f, g)}

-----------------------------------------------------------------------------
(* Seeded fault: the current second is not counted. *)
ElapsedBeforeThisSecond(p, tstamp) == tstamp - active[p].start - 1

Elapsed(p, tstamp) == tstamp - active[p].start

(* checkTimedoutGame: -1 without a game, -2 when its time is up (and the   *)
(* game is archived), else the seconds since it started.                   *)
Expired(p, tstamp) ==
  active[p] # NoGame /\ Elapsed(p, tstamp) >= active[p].playTime

checkTimedoutGame(p, tstamp) ==
  IF active[p] = NoGame THEN -1
  ELSE IF Expired(p, tstamp) THEN -2 ELSE Elapsed(p, tstamp)

(* The timed-out game is stamped playTime after the command, not after the *)
(* start of the game.                                                      *)
TimedOut(p, tstamp) ==
  Ended(active[p], "T", tstamp + active[p].playTime, active[p].playTime)

ArchiveAfterCheck(p, tstamp) ==
  IF Expired(p, tstamp)
  THEN [archive EXCEPT ![p] = Append(@, TimedOut(p, tstamp))]
  ELSE archive

ActiveAfterCheck(p, tstamp) ==
  IF Expired(p, tstamp) THEN [active EXCEPT ![p] = NoGame] ELSE active

(* endGame: the footer is appended and the file renamed into GAMES/<plid>. *)
endGame(p, g, ending, used) ==
  /\ active' = [active EXCEPT ![p] = NoGame]
  /\ archive' = [archive EXCEPT ![p] = Append(@, Ended(g, ending, now, used))]

(* SCORES/<score>_<plid>_<time>.txt, replaced by a score of the same name. *)
SameScoreName(s, t) == s.score = t.score /\ s.plid = t.plid /\ s.tstamp = t.tstamp

saveGameScore(p, g, trials, used) ==
  LET new == [score |-> Score(trials, used), plid |-> p, tstamp |-> now,
              trials |-> trials, mode |-> g.mode, key |-> g.key]
  IN scores' = {s \in scores : ~SameScoreName(s, new)} \cup {new}

-----------------------------------------------------------------------------
(* Replies.  att and arg are the guess and the trial number of the request *)
(* a try reply answers.                                                    *)
Reply(op, p, status) ==
  [op |-> op, plid |-> p, arg |-> 0, att |-> NoKey, status |-> status,
   trial |-> 0, blacks |-> 0, whites |-> 0, key |-> NoKey, shown |-> NoGame]

Ops == {"none", "malformed", "SNG", "DBG", "TRY", "QUT", "STR"}

Statuses == {"none", "OK", "NOK", "DUP", "INV", "ENT", "ETM", "ERR", "ACT", "FIN"}

ReplyType ==
  [op : Ops, plid : Players, arg : Nat, att : Code \cup {NoKey}, status : Statuses,
   trial : Nat, blacks : Nat, whites : Nat, key : Code \cup {NoKey},
   shown : Game \cup {NoGame}]

Request == [plid : Players, tstamp : Nat]

(* The server starts with an empty data directory. *)
Init ==
  /\ now = 0
  /\ active = [p \in Players |-> NoGame]
  /\ archive = [p \in Players |-> <<>>]
  /\ scores = {}
  /\ strReq = [w \in Workers |-> NoRequest]
  /\ \E p \in Players : reply = Reply("none", p, "none")

-----------------------------------------------------------------------------
(* SNG and DBG: start a game. *)
UShortSize == 65536

(* The play time of a start packet is stored in an unsigned short before   *)
(* it is compared with PLAY_TIME_MAX; that of a debug packet is not.       *)
StartTime(t) == t % UShortSize

ValidTimeOrZero(t) == t <= PlayTimeMax   \* Seeded fault: zero is let through.

ValidTime(t) == t # 0 /\ t <= PlayTimeMax

NewGame(key, mode, playTime) ==
  [key |-> key, mode |-> mode, playTime |-> playTime, start |-> now, atts |-> <<>>]

Room(p) ==
  Len(archive[p]) + (IF active[p] = NoGame THEN 0 ELSE 1) < MaxGames

(* Seeded fault: a game of one second is not seen as ongoing either. *)
HasOngoingAfterASecond(p) == checkTimedoutGame(p, now) > 1

HasOngoing(p) == checkTimedoutGame(p, now) > 0

createGame(op, p, playTime, key, mode) ==
  \/ /\ HasOngoing(p)
     /\ reply' = Reply(op, p, "NOK")
     /\ UNCHANGED store
  \/ /\ ~HasOngoing(p) /\ Room(p)
     /\ active' = [active EXCEPT ![p] = NewGame(key, mode, playTime)]
     /\ archive' = ArchiveAfterCheck(p, now)
     /\ reply' = Reply(op, p, "OK")
     /\ UNCHANGED scores

startNewGameHandler(p) ==
  /\ \E t \in TimeArgs :
       \/ /\ ~ValidTime(StartTime(t))
          /\ reply' = Reply("SNG", p, "ERR")
          /\ UNCHANGED store
       \/ /\ ValidTime(StartTime(t))
          /\ \E key \in Code : createGame("SNG", p, StartTime(t), key, "P")
  /\ UNCHANGED <<now, strReq>>

debugGameHandler(p) ==
  /\ \E t \in TimeArgs :
       \/ /\ ~ValidTime(t)
          /\ reply' = Reply("DBG", p, "ERR")
          /\ UNCHANGED store
       \/ /\ ValidTime(t)
          /\ \E key \in Code : createGame("DBG", p, t, key, "D")
  /\ UNCHANGED <<now, strReq>>

-----------------------------------------------------------------------------
(* TRY: the cases of GameStore::attempt, in the order of the code. *)
TryReply(p, att, trial, status) ==
  [Reply("TRY", p, status) EXCEPT !.att = att, !.arg = trial]

WithFeedback(r, n, key) ==
  [r EXCEPT !.trial = n, !.blacks = Blacks(key, r.att), !.whites = Whites(key, r.att)]

tryWithoutGame(p, att, trial) ==
  /\ checkTimedoutGame(p, now) = -1
  /\ reply' = TryReply(p, att, trial, "NOK")
  /\ UNCHANGED store

tryTimedOut(p, att, trial) ==
  /\ checkTimedoutGame(p, now) = -2
  /\ active' = ActiveAfterCheck(p, now)
  /\ archive' = ArchiveAfterCheck(p, now)
  /\ reply' = [TryReply(p, att, trial, "ETM") EXCEPT !.key = active[p].key]
  /\ UNCHANGED scores

Playable(p) == checkTimedoutGame(p, now) >= 0

(* Seeded fault: only the next trial number is accepted. *)
NeverResend(p, att, trial) == FALSE

(* The trial number and the guess of the last attempt: a resend. *)
IsResend(p, att, trial) ==
  LET atts == active[p].atts IN
  trial = Len(atts) /\ atts # <<>> /\ atts[Len(atts)].key = att

IsDuplicate(p, att) == \E i \in 1..Len(active[p].atts) : active[p].atts[i].key = att

tryResent(p, att, trial) ==
  /\ Playable(p) /\ IsResend(p, att, trial)
  /\ reply' = WithFeedback(TryReply(p, att, trial, "OK"), Len(active[p].atts), active[p].key)
  /\ UNCHANGED store

tryWrongTrial(p, att, trial) ==
  /\ Playable(p) /\ ~IsResend(p, att, trial)
  /\ trial # Len(active[p].atts) + 1
  /\ reply' = TryReply(p, att, trial, "INV")
  /\ UNCHANGED store

tryDuplicate(p, att, trial) ==
  /\ Playable(p) /\ trial = Len(active[p].atts) + 1
  /\ IsDuplicate(p, att)
  /\ reply' = TryReply(p, att, trial, "DUP")
  /\ UNCHANGED store

(* The game with the accepted attempt in its file. *)
WithAttempt(g, att) ==
  [g EXCEPT !.atts = Append(@, [key |-> att, blacks |-> Blacks(g.key, att),
                                whites |-> Whites(g.key, att), time |-> now - g.start])]

LastGuessOffByOne(n) == n = GuessesMax   \* Seeded fault.

IsLastGuess(n) == n = GuessesMax - 1

(* The seeded fault counts the attempts before the winning one. *)
CountsEarlierTrials(g) == Len(g.atts) - 1

TrialsUsed(g) == Len(g.atts)

tryAccepted(p, att, trial) ==
  LET g == active[p]
      n == Len(g.atts)
      next == WithAttempt(g, att)
      won == Blacks(g.key, att) = KeyLen
  IN
  /\ Playable(p) /\ trial = n + 1 /\ ~IsDuplicate(p, att)
  /\ \/ /\ IsLastGuess(n) /\ ~won
        /\ endGame(p, next, "L", now - g.start)
        /\ reply' = [TryReply(p, att, trial, "ENT") EXCEPT !.key = g.key]
        /\ UNCHANGED scores
     \/ /\ won
        /\ endGame(p, next, "W", now - g.start)
        /\ saveGameScore(p, g, TrialsUsed(next), now - g.start)
        /\ reply' = WithFeedback(TryReply(p, att, trial, "OK"), n + 1, g.key)
     \/ /\ ~IsLastGuess(n) /\ ~won
        /\ active' = [active EXCEPT ![p] = next]
        /\ reply' = WithFeedback(TryReply(p, att, trial, "OK"), n + 1, g.key)
        /\ UNCHANGED <<archive, scores>>

tryHandler(p) ==
  /\ \E att \in Code, trial \in TrialArgs :
       \/ tryWithoutGame(p, att, trial)
       \/ tryTimedOut(p, att, trial)
       \/ tryResent(p, att, trial)
       \/ tryWrongTrial(p, att, trial)
       \/ tryDuplicate(p, att, trial)
       \/ tryAccepted(p, att, trial)
  /\ UNCHANGED <<now, strReq>>

-----------------------------------------------------------------------------
PlayTimeOf(g) == g.playTime   \* Seeded fault: a quit game counts as played out.

QuitTime(g) == now - g.start

quitHandler(p) ==
  /\ \/ /\ checkTimedoutGame(p, now) < 0
        /\ active' = ActiveAfterCheck(p, now)
        /\ archive' = ArchiveAfterCheck(p, now)
        /\ reply' = Reply("QUT", p, "NOK")
     \/ /\ checkTimedoutGame(p, now) >= 0
        /\ endGame(p, active[p], "Q", QuitTime(active[p]))
        /\ reply' = [Reply("QUT", p, "OK") EXCEPT !.key = active[p].key]
  /\ UNCHANGED <<now, scores, strReq>>

-----------------------------------------------------------------------------
(* STR: showTrialsHandler takes the time before it reads the request from  *)
(* the connection, which may take as long as the receive timeout.          *)
showTrialsAccept(w, p) ==
  /\ strReq[w] = NoRequest
  /\ strReq' = [strReq EXCEPT ![w] = [plid |-> p, tstamp |-> now]]
  /\ UNCHANGED <<now, active, archive, scores, reply>>

KeyAlways(g) == g.key   \* Seeded fault: the summary of any game shows its key.

KeyOfOngoing(g) == IF g.mode = "D" THEN g.key ELSE NoKey

(* getLastGame: the game that is running at the (earlier) timestamp, else  *)
(* the finished game whose file name sorts last.                           *)
getLastGame(p, tstamp) ==
  LET files == ArchiveAfterCheck(p, tstamp)[p] IN
  \/ /\ checkTimedoutGame(p, tstamp) >= 0
     /\ reply' = [Reply("STR", p, "ACT") EXCEPT
                    !.key = KeyOfOngoing(active[p]), !.shown = active[p]]
  \/ /\ checkTimedoutGame(p, tstamp) < 0 /\ files # <<>>
     /\ \E last \in findLastFinishedGame(files) :
          reply' = [Reply("STR", p, "FIN") EXCEPT
                      !.key = last.game.key, !.shown = last.game]
  \/ /\ checkTimedoutGame(p, tstamp) < 0 /\ files = <<>>
     /\ reply' = Reply("STR", p, "NOK")

showTrialsHandler(w) ==
  /\ strReq[w] # NoRequest
  /\ LET p == strReq[w].plid
         tstamp == strReq[w].tstamp
     IN \/ /\ getLastGame(p, tstamp)
           /\ active' = ActiveAfterCheck(p, tstamp)
           /\ archive' = ArchiveAfterCheck(p, tstamp)
        \/ /\ reply' = Reply("STR", p, "NOK")   \* the request could not be read
           /\ UNCHANGED <<active, archive>>
  /\ strReq' = [strReq EXCEPT ![w] = NoRequest]
  /\ UNCHANGED <<now, scores>>

-----------------------------------------------------------------------------
(* A request whose packet id is unknown or whose decode throws: answered   *)
(* with ERR under the id of its reply, and the store is not used.          *)
malformedRequest(p) ==
  /\ reply' = Reply("malformed", p, "ERR")
  /\ UNCHANGED <<now, active, archive, scores, strReq>>

Tick ==
  /\ now < MaxTime
  /\ now' = now + 1
  /\ UNCHANGED <<active, archive, scores, strReq, reply>>

Next ==
  \/ Tick
  \/ \E p \in Players :
       \/ startNewGameHandler(p)
       \/ debugGameHandler(p)
       \/ tryHandler(p)
       \/ quitHandler(p)
       \/ malformedRequest(p)
       \/ \E w \in Workers : showTrialsAccept(w, p)
  \/ \E w \in Workers : showTrialsHandler(w)

Spec == Init /\ [][Next]_vars

-----------------------------------------------------------------------------
(* Invariants. *)
TypeOK ==
  /\ now \in Nat
  /\ active \in [Players -> Game \cup {NoGame}]
  /\ archive \in [Players -> Seq(Finished)]
  /\ scores \subseteq ScoreFile
  /\ strReq \in [Workers -> Request \cup {NoRequest}]
  /\ reply \in ReplyType

(* The attempts of a game, ongoing or over: no guess twice, every guess    *)
(* with the feedback for the key, and the times in order.                  *)
AttemptsWellFormed(g) ==
  \A i \in 1..Len(g.atts) :
    /\ g.atts[i].blacks = Blacks(g.key, g.atts[i].key)
    /\ g.atts[i].whites = Whites(g.key, g.atts[i].key)
    /\ \A j \in 1..(i - 1) : /\ g.atts[j].key # g.atts[i].key
                             /\ g.atts[j].time <= g.atts[i].time

(* None of the first n attempts is the key. *)
NotWonBy(g, n) == \A i \in 1..n : g.atts[i].key # g.key

(* An ongoing game can still be won: the code decides that a game is over  *)
(* in the step that accepts its last or winning attempt, never later.      *)
GameOpen(g) ==
  /\ AttemptsWellFormed(g)
  /\ Len(g.atts) < GuessesMax
  /\ NotWonBy(g, Len(g.atts))
  /\ g.start <= now
  /\ \A i \in 1..Len(g.atts) :
       g.atts[i].time \in 0..(g.playTime - 1) /\ g.start + g.atts[i].time <= now

ActiveGamesOpen == \A p \in Players : active[p] # NoGame => GameOpen(active[p])

(* The footer that endGame writes agrees with the attempts above it: a won *)
(* game ends with the key and in time, a lost one has used every guess, a  *)
(* quit or timed-out one could still have been won.                        *)
EndingMatchesAttempts(f) ==
  LET g == f.game
      n == Len(g.atts)
  IN
  /\ AttemptsWellFormed(g)
  /\ \A i \in 1..n : g.atts[i].time \in 0..f.used
  /\ f.ending = "W" => /\ n \in 1..GuessesMax
                       /\ NotWonBy(g, n - 1)
                       /\ g.atts[n].key = g.key
  /\ f.ending = "L" => n = GuessesMax /\ NotWonBy(g, n)
  /\ f.ending \in {"Q", "T"} => n < GuessesMax /\ NotWonBy(g, n)
  /\ IF f.ending = "T" THEN f.used = g.playTime ELSE f.used \in 0..(g.playTime - 1)

FinishedGamesConsistent ==
  \A p \in Players : \A i \in 1..Len(archive[p]) : EndingMatchesAttempts(archive[p][i])

(* A reply carries a game's key only when the game is over or a debug      *)
(* game: the key of TRY (ENT, ETM) and QUT belongs to the game archived    *)
(* last, that of STR to a finished game or to an ongoing debug game.       *)
KeyRevealedOnlyWhenOver ==
  LET p == reply.plid
      n == Len(archive[p])
  IN
  reply.key # NoKey =>
    \/ /\ reply.op \in {"TRY", "QUT"}
       /\ active[p] = NoGame /\ n > 0 /\ archive[p][n].game.key = reply.key
    \/ reply.op = "STR" /\ reply.status = "ACT" /\ reply.shown.mode = "D"
    \/ /\ reply.op = "STR" /\ reply.status = "FIN"
       /\ \E i \in 1..n : archive[p][i].game = reply.shown

(* The scores are exactly those of the games archived as won, with the     *)
(* trials and the time of the winning attempt.  Two wins of a player with  *)
(* the same score in the same second share one file.                       *)
WinsOf(p) == {i \in 1..Len(archive[p]) : archive[p][i].ending = "W"}

ScoreNamed(p, f) ==
  [score |-> Score(Len(f.game.atts), f.used), plid |-> p, tstamp |-> f.tstamp]

ScoresMatchWins ==
  {[score |-> s.score, plid |-> s.plid, tstamp |-> s.tstamp] : s \in scores}
    = UNION {{ScoreNamed(p, archive[p][i]) : i \in WinsOf(p)} : p \in Players}

(* A show-trials request carries an earlier timestamp, never a later one.  *)
RequestsInPast ==
  \A w \in Workers : strReq[w] # NoRequest => strReq[w].tstamp <= now

(* The games of a player follow each other: a game starts only when the    *)
(* time the one before it is recorded to have used is over.                *)
EndOf(f) == f.game.start + f.used

ArchiveInOrder ==
  \A p \in Players : \A i \in 1..Len(archive[p]) :
    /\ EndOf(archive[p][i]) <= now
    /\ \A j \in 1..(i - 1) : EndOf(archive[p][j]) <= archive[p][i].game.start

ActiveAfterArchive ==
  \A p \in Players : active[p] # NoGame =>
    \A i \in 1..Len(archive[p]) : EndOf(archive[p][i]) <= active[p].start

GamesDoNotOverlap == ArchiveInOrder /\ ActiveAfterArchive

-----------------------------------------------------------------------------
(* Action properties. *)

(* The client repeats a try whose reply was lost.  If the reply was a      *)
(* feedback for a wrong guess, the answer to the repetition is the same    *)
(* and nothing is stored, unless the game has timed out meanwhile.         *)
SameRequest(r, s) == r.op = s.op /\ r.plid = s.plid /\ r.arg = s.arg /\ r.att = s.att

ResendIdempotent ==
  [][reply.op = "TRY" /\ reply.status = "OK" /\ reply.blacks < KeyLen
       /\ SameRequest(reply, reply')
     => (reply' = reply /\ UNCHANGED store) \/ reply'.status = "ETM"]_<<reply, store>>

(* A game still running was kept whole: its header is the same and its     *)
(* attempts are only added to.  createGame may replace a game only while   *)
(* checkTimedoutGame returns 0, in the second the game started in.         *)
Continues(g, h) ==
  /\ g.key = h.key /\ g.mode = h.mode /\ g.playTime = h.playTime /\ g.start = h.start
  /\ Len(g.atts) <= Len(h.atts)
  /\ \A i \in 1..Len(g.atts) : g.atts[i] = h.atts[i]

OngoingKeptAfterFirstSecond ==
  [][\A p \in Players :
       active[p] # NoGame /\ now > active[p].start /\ ~Expired(p, now) =>
         \/ active'[p] # NoGame /\ Continues(active[p], active'[p])
         \/ active'[p] = NoGame /\ Len(archive'[p]) > Len(archive[p])]_vars

(* A show-trials answer may be about an older game although one is ongoing *)
(* (the request's timestamp is taken before the request is read), but only *)
(* when the ongoing game started after that timestamp was taken.           *)
FinOnlyWithoutGameAtAccept ==
  [][\A w \in Workers :
       strReq[w] # NoRequest /\ strReq'[w] = NoRequest /\ reply'.status = "FIN" =>
         LET p == strReq[w].plid IN
         active'[p] = NoGame \/ active'[p].start > strReq[w].tstamp]_<<strReq, reply>>

(* udp_commands.cpp:7: the handler creates a new game "if no active game   *)
(* was found".                                                             *)
NewGameOnlyWhenNoneActive ==
  [][\A p \in Players :
       active[p] # NoGame /\ ~Expired(p, now) /\ active'[p] # NoGame =>
         Continues(active[p], active'[p])]_vars

(* GameStore.cpp:404: getLastGame "Retrieves the last game (active/        *)
(* finished)": a finished game shown is one that no other game was closed  *)
(* after.  The stamp of a timed-out game lies playTime after the command   *)
(* that closed it.                                                         *)
ClosedAt(f) == IF f.ending = "T" THEN f.tstamp - f.game.playTime ELSE f.tstamp

FinShowsLastFinished ==
  [][reply'.op = "STR" /\ reply'.status = "FIN" =>
       LET files == archive'[reply'.plid] IN
       \E i \in 1..Len(files) :
         /\ reply'.shown = files[i].game
         /\ \A j \in 1..Len(files) : ClosedAt(files[j]) <= ClosedAt(files[i])
    ]_<<reply, strReq>>

-----------------------------------------------------------------------------
(* The store implements PlayerGame. *)
Promise ==
  INSTANCE PlayerGame WITH
    Codes <- Code, MaxGuesses <- GuessesMax, NoSecret <- NoKey,
    secret <- [p \in Players |-> IF active[p] = NoGame THEN NoKey ELSE active[p].key],
    guesses <- [p \in Players |->
                  IF active[p] = NoGame THEN <<>>
                  ELSE [i \in 1..Len(active[p].atts) |-> active[p].atts[i].key]],
    results <- [p \in Players |->
                  [i \in 1..Len(archive[p]) |->
                     <<archive[p][i].ending, Len(archive[p][i].game.atts)>>]]

(* Whatever the requests, a player sees one game after the other, with the *)
(* secret fixed and the accepted guesses kept to the end of each.          *)
ImplementsPlayerGame == Promise!Spec
=============================================================================
