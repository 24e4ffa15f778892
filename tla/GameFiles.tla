------------------------------ MODULE GameFiles ------------------------------
(***************************************************************************)
(* The file operations of server/GameStore.cpp for one player, one system  *)
(* call per step.  The UDP thread and the workers that serve show-trials   *)
(* requests take their steps in any order, and the process may be killed   *)
(* between two steps and started again: what a write call has handed over  *)
(* stays, what a stream still buffers is lost.                             *)
(*                                                                         *)
(* A name is apart from the file it names: an open stream writes to its    *)
(* file whatever becomes of the name, and appending to a name that is gone *)
(* creates a file.                                                         *)
(***************************************************************************)
EXTENDS Integers, Sequences, FiniteSets

CONSTANTS
  Udp, Workers,
  Guesses,
  Secret,       \* the guess that is right, in every game
  NoGuess,
  Garbage,      \* what a header of uninitialised fields may be taken for
  GuessesMax, PlayTime,
  MaxTime, MaxGames, MaxCrashes,  \* bounds, and a last one: do requests
  AfterRace                       \* still arrive once closings have met?

ASSUME UdpAssumption == Udp \notin Workers
ASSUME GuessesAssumption == Secret \in Guesses /\ NoGuess \notin Guesses
Ages == {"refused", "over", "new", "running"}

ASSUME GarbageAssumption == Garbage \subseteq Ages
ASSUME PlayAssumption == GuessesMax \in Nat \ {0} /\ PlayTime \in Nat \ {0}
ASSUME BoundsAssumption ==
  MaxTime \in Nat /\ MaxGames \in Nat /\ MaxCrashes \in Nat /\ AfterRace \in BOOLEAN

VARIABLES
  now,
  disk,        \* the lines of every file created in GAMES/, by file number
  game,        \* the file that GAME_<plid>.txt names, 0 when there is none
  archive,     \* GAMES/<plid>/: from names to files
  scores,      \* SCORES/
  started,     \* number of headers written: the number stands for a game's key
  thread,      \* per thread: the next step and what the handler remembers
  crashes,
  acks,        \* history: what an OK has told the player is stored
  replaced,    \* history: games whose file was truncated or lost its name
  raced        \* history: has a closing worker met another busy thread?

files == <<disk, game, archive, scores, started>>
history == <<acks, replaced>>
vars == <<now, files, thread, crashes, history, raced>>

Threads == {Udp} \cup Workers

-----------------------------------------------------------------------------
(* Lines of a game file. *)
Header(n, tstamp) == [kind |-> "header", game |-> n, start |-> tstamp]
Trial(g) == [kind |-> "trial", guess |-> g]
Footer(ending, tstamp) == [kind |-> "footer", ending |-> ending, tstamp |-> tstamp]

StartsWith(f, kind) == f # 0 /\ disk[f] # <<>> /\ disk[f][1].kind = kind

HasHeader(f) == StartsWith(f, "header")

GameIn(f) == IF HasHeader(f) THEN disk[f][1].game ELSE 0

IsTrial(line) == line.kind = "trial"
IsFooter(line) == line.kind = "footer"

(* parseAttempts: the lines that begin with T, wherever footers stand,     *)
(* behind the first line, which parseHeader takes whatever it is.  An      *)
(* attempt has its number from the lines before it.                        *)
TrialsTo(f, i) == {j \in 2..i : IsTrial(disk[f][j])}

TrialsIn(f) == TrialsTo(f, Len(disk[f]))

AttemptIs(f, k, g) ==
  \E i \in TrialsIn(f) : Cardinality(TrialsTo(f, i)) = k /\ disk[f][i].guess = g

Named == (IF game = 0 THEN {} ELSE {game}) \cup {archive[n] : n \in DOMAIN archive}

-----------------------------------------------------------------------------
(* Threads. *)
Idle == [pc |-> "idle", op |-> "none", tstamp |-> 0, guess |-> NoGuess, trial |-> 0,
         file |-> 0, game |-> 0, ending |-> "none"]

At(t, pc) == thread[t].pc = pc

Goto(t, pc) == thread' = [thread EXCEPT ![t].pc = pc]

(* A request refused or without success (NOK, INV, DUP, ERR, ETM, ENT) is   *)
(* answered in the step that finds it so: the answer tells of nothing      *)
(* stored.  Which answer it is, is in GameStore.                           *)
Finish(t) == thread' = [thread EXCEPT ![t] = Idle]

Refuse(t) == Finish(t)

EndWith(t, ending) == thread' = [thread EXCEPT ![t].pc = "open", ![t].ending = ending]

Closing(t) == thread[t].pc \in {"open", "write", "rename"}

(* A worker that has decided to close the game while another thread is in  *)
(* the middle of a request, or about to close it too.                      *)
Overlapping ==
  \E w \in Workers : Closing(w) /\ (~At(Udp, "idle") \/ \E v \in Workers \ {w} : Closing(v))

Watch == raced' = (raced \/ Overlapping')

Init ==
  /\ now = 0
  /\ disk = <<>> /\ game = 0 /\ archive = <<>> /\ scores = {} /\ started = 0
  /\ thread = [t \in Threads |-> Idle]
  /\ crashes = 0
  /\ acks = {} /\ replaced = {}
  /\ raced = FALSE

-----------------------------------------------------------------------------
(* A request arrives and its timestamp is taken.  What guess and trial it  *)
(* carries is left open until attempt looks at them.                       *)
Accept(t, op, pc) ==
  /\ At(t, "idle")
  /\ AfterRace \/ ~raced
  /\ thread' = [thread EXCEPT ![t] = [Idle EXCEPT !.pc = pc, !.op = op, !.tstamp = now]]
  /\ UNCHANGED <<now, files, crashes, history>>
  /\ Watch

receiveStart == started < MaxGames /\ Accept(Udp, "SNG", "exists")

receiveTry == Accept(Udp, "TRY", "exists")

receiveQuit == Accept(Udp, "QUT", "exists")

(* A worker that finds no file, now or a step later, changes nothing.      *)
receiveShowTrials(w) == Accept(w, "STR", "header")

-----------------------------------------------------------------------------
(* checkTimedoutGame: does the file exist, what does its header say?       *)
existsCheck(t) ==
  /\ At(t, "exists")
  /\ \/ game # 0 /\ Goto(t, "header")
     \/ game = 0 /\ thread[t].op = "SNG" /\ Goto(t, "truncate")
     \/ game = 0 /\ thread[t].op # "SNG" /\ Refuse(t)
  /\ UNCHANGED <<now, files, crashes, history>>
  /\ Watch

(* parseHeader of a file that does not begin with a header.  A footer has  *)
(* a digit where the mode should be, which is refused.  An empty file      *)
(* leaves the mode, the play time and the start uninitialised, and a       *)
(* trial's first colour may be a mode: both may be refused or read as a    *)
(* game of any age.                                                        *)
Age(f, tstamp) ==
  IF HasHeader(f)
  THEN LET elapsed == tstamp - disk[f][1].start IN
       IF elapsed >= PlayTime THEN {"over"}
       ELSE IF elapsed = 0 THEN {"new"} ELSE {"running"}
  ELSE IF StartsWith(f, "footer") THEN {"refused"} ELSE Garbage

parseHeader(t) ==
  LET op == thread[t].op IN
  /\ At(t, "header")
  /\ \/ game = 0 /\ Refuse(t)
     \/ /\ game # 0
        /\ \E age \in Age(game, thread[t].tstamp) :
             \/ age = "refused" /\ Refuse(t)
             \/ age = "over" /\ EndWith(t, "T")
             \/ age = "new" /\ op = "SNG" /\ Goto(t, "truncate")
             \/ age = "running" /\ op = "SNG" /\ Refuse(t)
             \/ age \in {"new", "running"} /\ op = "TRY" /\ Goto(t, "parse")
             \/ age \in {"new", "running"} /\ op = "QUT" /\ Goto(t, "quit")
             \/ age \in {"new", "running"} /\ op = "STR" /\ Refuse(t)
  /\ UNCHANGED <<now, files, crashes, history>>
  /\ Watch

-----------------------------------------------------------------------------
(* createGame: the file is truncated, or created, and gets its header,     *)
(* which overwrites what somebody appended meanwhile.                      *)
truncateGame(t) ==
  /\ At(t, "truncate")
  /\ \/ /\ game = 0
        /\ disk' = Append(disk, <<>>) /\ game' = Len(disk) + 1
        /\ UNCHANGED replaced
     \/ /\ game # 0
        /\ disk' = [disk EXCEPT ![game] = <<>>]
        /\ replaced' = replaced \cup {GameIn(game)}
        /\ UNCHANGED game
  /\ thread' = [thread EXCEPT ![t].pc = "create", ![t].file = game']
  /\ UNCHANGED <<now, archive, scores, started, crashes, acks>>
  /\ Watch

writeHeader(t) ==
  /\ At(t, "create")
  /\ started' = started + 1
  /\ disk' = [disk EXCEPT ![thread[t].file] = <<Header(started + 1, thread[t].tstamp)>>]
  /\ thread' = [thread EXCEPT ![t].pc = "reply", ![t].game = started + 1]
  /\ UNCHANGED <<now, game, archive, scores, crashes, history>>
  /\ Watch

-----------------------------------------------------------------------------
(* attempt, once the game is known to run: the file is opened again and    *)
(* read, and the attempt is compared with those in it.  Without a header   *)
(* the key is unknown, and so is whether the guess is right.               *)
Wins(f, g) == IF HasHeader(f) THEN {g = Secret} ELSE BOOLEAN

Readable(f) == ~StartsWith(f, "footer")

Trials == 1..(GuessesMax + 1)

(* Seeded fault: the last guess is not seen as the last. *)
EndingTooLate(n, won) == IF won THEN "W" ELSE IF n = GuessesMax + 1 THEN "L" ELSE "none"

EndingOf(n, won) == IF won THEN "W" ELSE IF n = GuessesMax THEN "L" ELSE "none"

parseAttempts(t) ==
  LET n == Cardinality(TrialsIn(game))
      Remember(pc, guess, trial, ending) ==
        thread' = [thread EXCEPT ![t].pc = pc, ![t].guess = guess, ![t].trial = trial,
                     ![t].ending = ending, ![t].game = GameIn(game)]
  IN
  /\ At(t, "parse")
  /\ \/ ~HasHeader(game) /\ Refuse(t)
     \/ /\ game # 0 /\ Readable(game)
        /\ \E g \in Guesses, trial \in Trials :
             \/ trial = n /\ AttemptIs(game, n, g) /\ Remember("reply", g, trial, "none")
             \/ trial = n /\ ~AttemptIs(game, n, g) /\ Refuse(t)
             \/ trial \notin {n, n + 1} /\ Refuse(t)
             \/ /\ trial = n + 1 /\ \E i \in TrialsIn(game) : disk[game][i].guess = g
                /\ Refuse(t)
             \/ /\ trial = n + 1 /\ \A i \in TrialsIn(game) : disk[game][i].guess # g
                /\ \E won \in Wins(game, g) :
                     Remember("open", g, trial, EndingOf(trial, won))
  /\ UNCHANGED <<now, files, crashes, history>>
  /\ Watch

(* quitGame, once the game is known to run. *)
parseForQuit(t) ==
  /\ At(t, "quit")
  /\ \/ ~HasHeader(game) /\ Refuse(t)
     \/ game # 0 /\ Readable(game) /\ EndWith(t, "Q")
  /\ UNCHANGED <<now, files, crashes, history>>
  /\ Watch

-----------------------------------------------------------------------------
(* The append stream is opened by name: if the name is gone meanwhile a    *)
(* new file takes it.                                                      *)
(* Seeded fault: an attempt is confirmed while the stream buffers it.      *)
NotFlushed(th) == IF th.ending = "none" THEN "reply" ELSE "write"

AfterOpen(th) == "write"

openForAppend(t) ==
  /\ At(t, "open")
  /\ \/ game # 0 /\ UNCHANGED <<disk, game>>
     \/ game = 0 /\ disk' = Append(disk, <<>>) /\ game' = Len(disk) + 1
  /\ thread' = [thread EXCEPT ![t].pc = AfterOpen(thread[t]), ![t].file = game']
  /\ UNCHANGED <<now, archive, scores, started, crashes, history>>
  /\ Watch

(* The stream hands over its buffer in one call: the attempt alone, or     *)
(* with the footer endGame adds.  A timed-out game's footer lies PlayTime  *)
(* in the future.                                                          *)
EndStamp(th) == IF th.ending = "T" THEN th.tstamp + PlayTime ELSE th.tstamp

(* Seeded fault: the attempt that found the game timed out is written too. *)
TrialAlways(th) == IF th.op = "TRY" THEN <<Trial(th.guess)>> ELSE <<>>

TrialLines(th) ==
  IF th.op = "TRY" /\ th.ending # "T" THEN <<Trial(th.guess)>> ELSE <<>>

FooterLines(th) ==
  IF th.ending = "none" THEN <<>> ELSE <<Footer(th.ending, EndStamp(th))>>

(* Seeded fault: the score is written before the game is moved. *)
ScoreFirst(th) == IF th.ending = "W" THEN "score"
                  ELSE IF th.ending = "none" THEN "reply" ELSE "rename"

AfterWrite(th) == IF th.ending = "none" THEN "reply" ELSE "rename"

appendLines(t) ==
  LET th == thread[t] IN
  /\ At(t, "write")
  /\ disk' = [disk EXCEPT ![th.file] = @ \o TrialLines(th) \o FooterLines(th)]
  /\ Goto(t, AfterWrite(th))
  /\ UNCHANGED <<now, game, archive, scores, started, crashes, history>>
  /\ Watch

(* Seeded fault: the name has the time of the command. *)
NameAtCommand(th) == <<th.tstamp, th.ending>>

FinishedName(th) == <<EndStamp(th), th.ending>>

(* What follows endGame.  The seeded fault forgets the score. *)
NoScore(t) == Goto(t, "reply")

AfterRename(t) ==
  LET th == thread[t] IN
  \/ th.ending = "W" /\ Goto(t, "score")
  \/ th.ending = "Q" /\ Goto(t, "reply")
  \/ th.ending = "L" /\ Refuse(t)
  \/ th.ending = "T" /\ th.op = "SNG" /\ Goto(t, "truncate")
  \/ th.ending = "T" /\ th.op # "SNG" /\ Refuse(t)

(* endGame moves whatever file has the name by now, over a file of the     *)
(* same second and ending.                                                 *)
renameGame(t) ==
  LET name == FinishedName(thread[t]) IN
  /\ At(t, "rename")
  /\ \/ /\ game = 0
        /\ Refuse(t)
        /\ UNCHANGED <<archive, replaced>>
     \/ /\ game # 0
        /\ archive' = [n \in DOMAIN archive \cup {name} |->
                         IF n = name THEN game ELSE archive[n]]
        /\ replaced' = IF name \in DOMAIN archive
                       THEN replaced \cup {GameIn(archive[name])} ELSE replaced
        /\ AfterRename(t)
  /\ game' = 0
  /\ UNCHANGED <<now, disk, scores, started, crashes, acks>>
  /\ Watch

(* saveGameScore: the file appears empty and is then written. *)
ScoreFile(th, written) == [tstamp |-> th.tstamp, trial |-> th.trial, written |-> written]

createScore(t) ==
  LET th == thread[t] IN
  /\ At(t, "score")
  /\ scores' = (scores \ {ScoreFile(th, TRUE)}) \cup {ScoreFile(th, FALSE)}
  /\ Goto(t, "score2")
  /\ UNCHANGED <<now, disk, game, archive, started, crashes, history>>
  /\ Watch

writeScore(t) ==
  LET th == thread[t] IN
  /\ At(t, "score2")
  /\ scores' = (scores \ {ScoreFile(th, FALSE)}) \cup {ScoreFile(th, TRUE)}
  /\ Goto(t, "reply")
  /\ UNCHANGED <<now, disk, game, archive, started, crashes, history>>
  /\ Watch

-----------------------------------------------------------------------------
(* The reply OK.  That to a start or a try tells the player what is        *)
(* stored.  (What show-trials reads and answers is in GameStore.)          *)
Ack(th) == [game |-> th.game, trial |-> th.trial, guess |-> th.guess]

replyOK(t) ==
  LET th == thread[t] IN
  /\ At(t, "reply")
  /\ acks' = IF th.op \in {"SNG", "TRY"} /\ th.game # 0 THEN acks \cup {Ack(th)} ELSE acks
  /\ Finish(t)
  /\ UNCHANGED <<now, files, crashes, replaced>>
  /\ Watch

(* The process is killed and started again on the same directory. *)
crash ==
  /\ crashes < MaxCrashes
  /\ crashes' = crashes + 1
  /\ thread' = [t \in Threads |-> Idle]
  /\ UNCHANGED <<now, files, history>>
  /\ Watch

Tick ==
  /\ now < MaxTime
  /\ now' = now + 1
  /\ UNCHANGED <<files, thread, crashes, history>>
  /\ Watch

handler(t) ==
  \/ existsCheck(t) \/ parseHeader(t) \/ truncateGame(t) \/ writeHeader(t)
  \/ parseAttempts(t) \/ parseForQuit(t)
  \/ openForAppend(t) \/ appendLines(t) \/ renameGame(t)
  \/ createScore(t) \/ writeScore(t) \/ replyOK(t)

Next ==
  \/ receiveStart \/ receiveTry \/ receiveQuit
  \/ (\E w \in Workers : receiveShowTrials(w))
  \/ (\E t \in Threads : handler(t))
  \/ crash \/ Tick

Spec == Init /\ [][Next]_vars

-----------------------------------------------------------------------------
PCs == {"idle", "exists", "header", "truncate", "create", "parse", "quit", "open",
        "write", "rename", "score", "score2", "reply"}

Endings == {"none", "W", "L", "Q", "T"}

Line ==
  [kind : {"header"}, game : Nat, start : Nat] \cup [kind : {"trial"}, guess : Guesses]
    \cup [kind : {"footer"}, ending : Endings, tstamp : Nat]

ThreadState ==
  [pc : PCs, op : {"none", "SNG", "TRY", "QUT", "STR"}, tstamp : Nat,
   guess : Guesses \cup {NoGuess}, trial : Nat, file : 0..Len(disk), game : Nat,
   ending : Endings]

TypeOK ==
  /\ now \in Nat /\ started \in Nat /\ crashes \in Nat /\ raced \in BOOLEAN
  /\ disk \in Seq(Seq(Line))
  /\ game \in 0..Len(disk)
  /\ \A n \in DOMAIN archive : archive[n] \in 1..Len(disk)
  /\ thread \in [Threads -> ThreadState]

(* saveGameScore comes last: whenever the process was killed, and whatever *)
(* the workers did, a score on the board belongs to a game archived as won *)
(* in that second.                                                         *)
ScoreHasWin == \A s \in scores : <<s.tstamp, "W">> \in DOMAIN archive

(* GameStore.cpp:523: attempt "registers an attempt to an ongoing game".   *)
(* What an OK told the player is in the file of that game, wherever the    *)
(* file is by now, unless the file itself was replaced.                    *)
StoredIn(a, f) ==
  /\ GameIn(f) = a.game
  /\ a.trial > 0 => AttemptIs(f, a.trial, a.guess)

AttemptRegistered ==
  \A a \in acks : a.game \in replaced \/ \E f \in Named : StoredIn(a, f)

(* The same holds through crashes, as long as no worker closes the game    *)
(* while another thread uses it.                                           *)
AckedSurvivesCrash == raced \/ AttemptRegistered

(* A finished game's last line is the footer its name announces, also when *)
(* a crash had left an earlier footer in it.                               *)
EndsWith(f, line) == disk[f] # <<>> /\ disk[f][Len(disk[f])] = line

FooterMatchesName ==
  raced \/ \A name \in DOMAIN archive : EndsWith(archive[name], Footer(name[2], name[1]))

FootersTo(f, i) == {j \in 1..i : IsFooter(disk[f][j])}

(* Up to its first footer a file is a proper game: guesses within the      *)
(* limit, none twice, none after the right one; and that footer says how   *)
(* they ended it.  A game that goes on after a crash does so behind it.    *)
Fits(f, i) ==
  LET line == disk[f][i]
      before == TrialsTo(f, i - 1)
      won == \E j \in before : disk[f][j].guess = Secret
  IN
  IF IsTrial(line)
  THEN /\ ~won /\ Cardinality(before) < GuessesMax
       /\ \A j \in before : disk[f][j].guess # line.guess
  ELSE IsFooter(line) => /\ won <=> line.ending = "W"
                         /\ line.ending # "W" =>
                              (line.ending = "L" <=> Cardinality(before) = GuessesMax)

FileFits(f) ==
  \A i \in 1..Len(disk[f]) : FootersTo(f, i - 1) = {} => Fits(f, i)

FirstEndingFits == raced \/ \A f \in Named : HasHeader(f) => FileFits(f)

(* What is left half done between two requests: a footer in a game that is *)
(* not moved, a game without its header (nobody can play or start one), a  *)
(* win without its score.  One crash leaves one such trace, no crash none. *)
Quiet == At(Udp, "idle") /\ \A w \in Workers : ~Closing(w)

LooseInGame ==
  IF game = 0 THEN 0
  ELSE Cardinality(FootersTo(game, Len(disk[game]))) + (IF HasHeader(game) THEN 0 ELSE 1)

Unscored ==
  {n \in DOMAIN archive : n[2] = "W" /\ ~\E s \in scores : s.tstamp = n[1] /\ s.written}

LooseEnds == LooseInGame + Cardinality(Unscored)

OneLooseEndPerCrash == raced \/ (Quiet => LooseEnds <= crashes)
-----------------------------------------------------------------------------
(* What the files stand for in PlayerGame, with one player: the game that  *)
(* has the name runs until its footer is written, and then every file but  *)
(* that of a running game is a game with a result.                         *)
Running == game # 0 /\ FootersTo(game, Len(disk[game])) = {}

GuessesIn(lines) == [i \in 1..(Len(lines) - 1) |-> lines[i + 1].guess]

ResultOf(lines) == <<lines[Len(lines)].ending, Len(lines) - 2>>

OnlyPlayer == {"player"}

Promise ==
  INSTANCE PlayerGame WITH
    Players <- OnlyPlayer, Codes <- Guesses, MaxGuesses <- GuessesMax,
    NoSecret <- NoGuess,
    secret <- [p \in OnlyPlayer |-> IF Running THEN Secret ELSE NoGuess],
    guesses <- [p \in OnlyPlayer |-> IF Running THEN GuessesIn(disk[game]) ELSE <<>>],
    results <- [p \in OnlyPlayer |->
                  [f \in 1..(Len(disk) - (IF Running THEN 1 ELSE 0)) |-> ResultOf(disk[f])]]

(* Nothing crashed, and no closing met another request. *)
Calm == ~raced /\ crashes = 0

(* The single system calls of createGame, attempt, quitGame and endGame,   *)
(* interleaved with those of other threads, amount to what PlayerGame      *)
(* promises: the truncation and the append are the steps that count, all   *)
(* others change nothing for the player.                                   *)
PlayedAsPromised ==
  Promise!Init /\ [][Calm' => Promise!Next \/ UNCHANGED Promise!vars]_vars
=============================================================================
