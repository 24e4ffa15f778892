# Verification of the MasterMind client and server (RC-24-25)

TLA+ modules of the game server and its clients, TLC configurations that check
them on small instances, and TLAPS proofs for every value of the constants.
Definitions keep the names of the C++ functions they translate; `PROJECT.json`
maps each of them to its lines.

## 1. The system and its parts

A server process runs three kinds of threads: one UDP listener that handles
every game command itself, one TCP listener that accepts connections, and a pool
of 20 workers that serve them. Games live in the file system only: nothing is
cached in memory and nothing is locked. A client process sends one request at a
time and blocks for the reply.

| Component | State | Operations | Interacts with | What makes it correct |
|---|---|---|---|---|
| Game rules (`GameStore::calculateAttempt`, the score formula) | none | feedback for a guess, score of a win | called by `attempt` and `saveGameScore` | pegs pair keys and guesses as well as they can be paired; scores keep the order of wins |
| Game store (`server/GameStore.cpp`) | `GAMES/GAME_<plid>.txt`, `GAMES/<plid>/*`, `SCORES/*` | `createGame`, `attempt`, `quitGame`, `getLastGame`, `checkTimedoutGame`, `endGame`, `saveGameScore`, `getScoreboard` | called by the UDP thread and by workers at the same time | one game after the other per player, endings that agree with the attempts, keys kept secret, one score per win |
| Request handlers (`server/commands`) | none | SNG, DBG, TRY, QUT (UDP), STR, SSB (TCP) | take a timestamp, decode, call the store, fill a reply | a repeated TRY is answered alike |
| Scoreboard (`getScoreboard`, `saveGameScore`) | `SCORES/` | list, sort by name, open one by one | files appear while they are listed | a board is complete and ordered |
| Worker pool (`server/utils/WorkerPool.cpp`) | queue, mutex, condition variable, `isStopping` | `enqueueConnection`, `workerThread`, destructor | fed by the TCP listener, destroyed by main | a connection is handled once, no wakeup is lost, shutdown ends and drains |
| Server loops (`Server::runUdp`, `runTcp`, `handleTcpConnection`), signals, main | `terminateFlag`, sockets | receive, dispatch, reply; accept, enqueue | all of the above | a signal ends the process after the work is done |
| Client session (`client/GameState.cpp`, `client/commands/udp_commands.cpp`) | `isGame`, `finished`, `debug`, trial, attempts, key | start, debug, try, quit, exit; each sends, then waits up to 10 s | UDP, which loses, delays and reorders | its table is the server's game |
| Client TCP commands | a file | show_trials, scoreboard | one connection each | the reply is saved whole |
| Packet codecs (`common/protocol`) | none | encode, decode | both sides | a field keeps its value or is refused |
| Read and write loops (`common/utils.cpp`) | none | `safe_read`, `safe_write` | every TCP connection | a short read or write is continued, an error is not |
| Logger, configuration | | | | |

What is hard to test here: two threads on the same files; a worker whose
timestamp is older than the game it finds; requests repeated after a timeout;
the last trial, the last second and the first second of a game; datagrams that
come late; the process killed between two writes; a signal that comes while a
thread is about to block; a reply that is cut by a timeout; the queue, the
sleepers and the destructor of the pool. Each hazard is listed in `PROJECT.json`
at the line where it bites, with the properties that would catch it. Some have
none, and a note says why. The models show several of these to happen, but
nothing promises that they do not: the garbage row of an unfinished score file,
an exception that ends the process, the descriptor that leaks, the queue without
a limit, SIGTERM, the client left with an open game after a lost winning reply.
The rest are in section 6.

## 2. Modules

| Module | Kind | Models |
|---|---|---|
| `GameRules` | pure operators | feedback and score |
| `GameRulesProofs` | proofs | best pairing, range and order of scores; shared by the other proofs |
| `MCGameRules` | checks it | every guess against every key, every score, with reference definitions |
| `MCGameRulesProofs` | proofs | the properties of that run, for any game |
| `PlayerGame` | abstract specification | what the server promises a player |
| `GameStore` | component | store and handlers, one step per request; implements `PlayerGame` |
| `MCGameStore` | instance | |
| `GameStoreProofs` | proofs | type, safety, secrecy; what a step does to a game, and the refinement |
| `GameFiles` | component | the same operations, one system call per step, with crashes; implements `PlayerGame` until a crash or a race |
| `MCGameFiles` | instance | |
| `GameFilesProofs` | proofs | type and scores always; what was confirmed, footers, endings and loose ends until closings meet; `PlayerGame` until then or a crash |
| `Scoreboard` | component | score files written while they are listed and read |
| `MCScoreboard` | instance | |
| `ScoreboardProofs` | proofs | the order of the names, a complete and ordered board |
| `ConnectionService` | abstract specification | what the pool promises the listener |
| `WorkerPool` | component | workers, queue, condition variable, destructor; implements `ConnectionService` |
| `Server` | composition | listener loops, signals, main and the pool; implements `WorkerPool` |
| `MCWorkerPool` | instance | the pool inside the server |
| `ServerProofs` | proofs | type and safety of the pool, its refinement of `ConnectionService`, the server's of the pool, and what follows |
| `PlayerSession` | composition | a client, the network and `GameStore` |
| `MCPlayerSession` | instance | |
| `PlayerSessionProofs` | proofs | theorems about `PlayerSession` |
| `TcpExchange` | composition | a client's TCP command, the network and `handleTcpConnection` |
| `MCTcpExchange` | instance | |
| `ReplySizes` | operators | how long the texts are that the server sends |
| `TcpExchangeProofs` | proofs | type, what is saved, what is delivered, and the sizes |

**GameRules.** A code is a function from positions to colours. White pegs are a
set of <<colour, n>> pairs, whose cardinality is the sum over the colours of the
smaller count, so that no recursion is needed and proofs can use the module.
C++ division truncates towards zero, and so does `CDiv`.

**GameStore.** `active[p]` is the file of the running game, `archive[p]` the files
moved to the player's directory in the order of the moves, `scores` the score
files, `reply` the last reply together with the request it answers. One action
per handler contains everything it calls: a handler that runs
`checkTimedoutGame` archives a game whose time is up in the same step. The
conversion of a start request's play time to 16 bits is `StartTime`; file names
are records ordered as their text is ordered. `showTrialsAccept` takes the
timestamp, `showTrialsHandler` uses it later: in between anything may happen, as
it may in the code while the request is read from the connection. The clock
moves forward only.

**GameFiles.** The same store for one player, taken apart: a handler is a thread
that goes from system call to system call (`exists`, open, read, truncate,
write, append, `rename`), and the steps of the UDP thread and of workers mix in
any way. A name is kept apart from the file it names, because a stream writes to
its file whatever becomes of the name. A killed process (`crash`) keeps what a
write call has handed over and loses what a stream still buffers; the restarted
one works on the directory it finds. A header that is missing or is some other
line leaves fields uninitialised: `Garbage` is the set of ages such a header may
be taken for. The first line is taken for the header whatever it is, so that the
attempts of a file are those from its second line on (`TrialsTo`). `raced` is a
history variable: a worker that has decided to close the game has met another
thread in the middle of a request. Most properties are stated up to then, because afterwards the code holds none of them (finding
5); `ScoreHasWin` and the type hold always. The bound `AfterRace` stops new
requests once closings have met, in the run that has nothing to say of them.
`acks` and `replaced` remember what was confirmed and which files were
overwritten on purpose. What the model shows about crashes: a game keeps what
was confirmed; a footer written before the crash stays in a game that is still
active, which then goes on, by one guess past the limit when the footer was that
of a lost game; and a crash leaves at most one thing half done
(`OneLooseEndPerCrash`). Without either (`Calm`), the files are an
implementation of `PlayerGame` (`PlayedAsPromised`): a game runs from the
truncation of its file to the append of its footer, its guesses are the lines
in between, and the file of every other game holds a result. It is stated
for each step that leaves the behaviour calm, so that the behaviours with
crashes and races need no second specification.

**Scoreboard.** `openScore` and `writeScore` split the two visible steps of an
`ofstream`. A listing returns all files that were there when it began and any
subset of those created since. A file read between the two steps has no
contents: the entry's uninitialised fields give a garbage row or an exception.
`SortedNames` is `std::sort` as the ordered one among the sequences of the names:
that there is exactly one is part of what is proved. The names can be compared
because scores have at most three digits, which needs a game of at most eight
guesses (`TrialsAssumption`; the game has eight).

**WorkerPool.** Each section under the mutex is one step. `thread[w]` is where a
worker stands; `waiting` workers are those in `cv.wait`. Spurious wakeups are
allowed. `endListener`, `stopPool` and `joinWorkers` are the end of `runTcp` and
the destructor; `handlerThrows` is an exception that `handleTcpConnection` lets
through, which ends the process; `killed` ends it from outside; `setupFails`
leaks a descriptor, as the code does.

**Server.** Adds to `WorkerPool` what decides when its listener accepts and ends
and when it is destroyed: `terminateFlag` and the handler that sets it, the UDP
thread, `inAccept` (the flag was clear when it was tested, and accept may now
wait for five seconds), and main, which joins both threads and then destroys the
members of `Server` in the reverse order of their declaration. That is the store
first (`storeAlive`) and the pool, whose workers still handle the queue,
afterwards. What a handler does with the destroyed store is undefined; in the
model it may do anything a handler does, ending the process included. `late`
counts what was still taken after the flag was set.

**PlayerSession.** A client handler is split at the blocking `recvfrom`: a command
sends a request, and `receiveReply` or `timeout` is its second half. The server
half (`serve`) is the `GameStore` handler for the request. Neither request nor
reply carries a number that pairs them, so the client takes whatever datagram
comes next. `MayBeLate` chooses the network: FALSE, a datagram comes within the
timeout or never; TRUE, it may come after it. Duplicates are not modelled: to
the client the duplicate of a reply is a late reply. A second client that plays for the
same player at the same time is not modelled; workers that serve show-trials
requests from anywhere are.

**TcpExchange.** One command is one connection. A packet is a sequence of units,
each a field with its delimiter or, where it matters, a byte; the network
delivers them in pieces of any size, `write` takes what fits into `SendSpace`,
and `readReply` goes on with what is missing. `Verdict` is what the client's
reader makes of the units so far. Timeouts, the end of the stream, resets, a
broken pipe and a killed server are actions. A write timeout in the middle of a
reply is followed by the error packet on the same connection, and
`handleTcpConnection` does not catch a second timeout, which ends the process, as
does SIGPIPE. A socket that is closed with bytes of the request unread (`taken`,
`Unread`), or that data reaches after the close, resets the connection. The
handler says "no file" when reading the rest of a request fails. The client sets its receive timeout twice and no send timeout; its
requests fit an empty connection, so that no write of it waits.

**ReplySizes.** The lengths of the lines of the two texts, to see whether a size
of four digits, which the client cannot parse, can occur. The columns of a board
row may have up to 11 characters, as an uninitialised `int` with its sign has.

## 3. Runs

| Run | Question | Instance and why it is enough |
|---|---|---|
| `game_rules` | Is feedback the best pairing, are scores in 1..999 and ordered? | the game's own constants; keys up to renaming of colours, all 1296 guesses, all trials and seconds |
| `game_store` | Are games consistent, keys secret, scores those of the wins, repeated tries harmless, and is `PlayerGame` implemented? | one player (players share no state), one worker, 3 colours, 1 position, 2 guesses, 2 games, 2 seconds of play, clock to 2. The play times 0, 2 and 65538 reach the refusal and the 16-bit cut. Every ending, a replaced game and an old show-trials timestamp occur |
| `new_game` | Does a start request only create a game when none is active? | violated, see finding 1 |
| `last_game` | Is the finished game shown the last one? | violated, see finding 2; the clock runs to 4 so that two games end |
| `game_files` | Does what was confirmed survive, do footers agree with names and attempts, does a score have its win, between any two system calls and through a crash? Is `PlayerGame` implemented until a race or a crash? | the UDP thread and one worker, 3 guesses one of which is right, limit 2, 2 games, 2 seconds of play, clock to 2, one crash: every ending is met by a crash in each of its steps, and a game goes on behind a footer |
| `game_race` | Is a confirmed attempt in its game when a worker closes the game meanwhile? | violated, see finding 5; no crash, and new requests after the race |
| `scoreboard` | Is a board complete and ordered while scores are written? | two players, 3 wins, boards of 2 rows, so that a board is full and leaves a score out; wins worth 823, 829 and 95 |
| `top_scores` | Does the board hold the best N? | violated, see finding 3 |
| `worker_pool` | In the whole server: is every queued connection handled once and in order, with no lost wakeup, does little follow a signal, and does the process then end? Is `WorkerPool` implemented by the server and `ConnectionService` by the pool? | 2 workers, 3 connections: one worker sleeps while the other works and the queue holds two; the signal comes in every state |
| `player_session` | Does the client's table agree with the server when datagrams are lost? | one client, 3 guesses, 2 games, clock to 3: a reply is lost in each phase, and a game can expire while the client waits |
| `late_reply` | Is an attempt saved only when the server confirmed it? | violated, see finding 4 |
| `tcp_exchange` | Is a saved file the server's, whole; is it saved when nothing fails; do command and handler always end? | one command (connections share only the life of the process, of which `killed` is the worst case); files of 1, 3, 4 and 5 units around the 3 bytes at which the error packet can complete a file; `LongSize` 4 stands for 999, so that 5 is a size of four digits; `SendSpace` 4 is less than a reply, so that writes are partial and time out |

Symmetry is used on colours in `GameStore` and `PlayerSession` and on wrong
guesses in `GameFiles`, where they are only compared, and never with a liveness
property. Three configurations have a
VIEW, defined and explained in the MC module. That of `MCGameStore.cfg` keeps of
the last reply what a property reads: all of a feedback, the key and the game of
a reply with a key. The type of the other replies is therefore not checked
for each of them; `TypeCorrect` proves it. That of `MCPlayerSession.cfg` leaves out
the last reply, the scores and the contents of older games, on which nothing in
that run depends but the answer a worker gives to a show-trials request, which
the client never sees. That of `MCGameFiles.cfg` forgets the history of what was
confirmed once closings have met, and of a file of several lines without a header
it keeps only the kind of its first line (no code reads more of it) and, once it is archived,
its last line. Deadlock is
not checked: each model stops at its bounds (`MaxTime`, `MaxGames`, `MaxWins`,
`MaxCommands`, the set of connections), and an ended process stays ended.

Bounds in guards: `MaxTime` stops the clock, `MaxGames` the number of a player's
games (`Room`, `receiveStart`), `MaxWins` the number of scores, `MaxCrashes` the
crashes, `MaxCommands` the commands, `AfterRace` the requests after a race. None
occurs in the code.

**Fairness.** `Server` and `TcpExchange` have liveness properties.
In `Server` a thread that can run does: weak fairness for the UDP loop, the TCP
loop, main and each worker. `recvfrom` and accept return within five seconds
(`SO_RCVTIMEO`), and a handler ends, because each read and write on a connection
times out after five seconds. Requests, connections and signals may never come
and have no fairness.
In `TcpExchange` the client and a worker that has a connection run, timeouts
included. Nothing is assumed of the network (`deliverRequest`, `deliverReply`),
of a free worker (`takeConnection`), of the user or of what kills the server
(`killed`, `brokenPipe`): `CommandEnds` and `HandlerEnds` hold because timeouts
cover all of them. Claims about the server are up to the end of its process.

## 4. Findings

1. `createGame` refuses only when `checkTimedoutGame` returns more than 0, but 0
   is also a running game, in its first second. A second start request then
   truncates the file and the first game, with its attempts, leaves no record.
   The property that does hold, `OngoingKeptAfterFirstSecond`, is checked in
   `game_store` and proved.
2. `checkTimedoutGame` names a timed-out game's file by the time of the command
   plus the whole play time, which lies in the future, and
   `findLastFinishedGame` takes the name that sorts last: a game that ended
   later is not the one shown.
3. Score files are sorted by name and a score below 100 is not padded, so that
   `95_...` sorts above `829_...`. `LongScoresDescend` is what holds.
4. The client pairs replies with requests by arrival only. After a timeout the
   late reply stays in the socket, and the next try is saved with the feedback
   of the previous one although the server has not seen it.
5. `attempt` looks for the game, reads it, and then opens its file by name for
   appending. A worker whose show-trials finds the time up renames the file in
   between: the append creates a file without a header, the attempt is
   confirmed, and later requests of the player fail on that file.

Two more, met while modelling, are in no run of their own. `src/README.md:40`
promises a graceful end on SIGTERM, but `signals.cpp:22` registers SIGUSR1: in
`Server` the handler is that of SIGINT and SIGUSR1, and `sigterm` ends the
process with its queue. And a client can save a file that the server never sent:
when a reply times out exactly five bytes before its end, the error packet
`ERR` with its line feed completes it, so that `SavedIsServers` has this one
exception (`Spliced`).

## 5. Proofs

Assumptions: the named ASSUMEs of `GameRules`, `GameStore`, `GameFiles`,
`Scoreboard`, `PlayerSession`, `TcpExchange` and `WorkerPool`: finite and
non-empty colours, workers; positive key length, guesses, play time and board
size; arguments and bounds that are natural numbers; `NoGame`, `NoKey`,
`NoGuess`, `NoRequest`, `None` and the UDP thread outside the sets they extend.
A theorem that needs more says so: `~MayBeLate` for a network that delivers
nothing late, `1 \in Colors` for the walk of `MCGameRules`, which starts from
colour 1, and `GuessesMax <= 8` where scores matter. Proved for every number
of players, workers, colours, positions, guesses, seconds, crashes, rows and
connections, that is every invariant and every action property of the passing
runs:

* **`GameRulesProofs!FeedbackIsBest`**: black pegs and white pegs together are the
  most positions that any pairing of key and guess can match. A pairing is a
  bijection of positions. None matches more, because the positions it matches
  split by colour, and of each colour there are no more than the smaller of the
  two counts (`NoBetterPairing`). One matches as many: the smaller counts of the
  colours, laid out on both sides, pair up by a bijection of parts of the
  positions (`LaidOut`), and a bijection of parts of a finite set extends to all
  of it (`ExtendsToAll`). `FeedbackBest` in `MCGameRulesProofs` is the property of
  the run, which walks keys up to a renaming of the colours; `FeedbackIsBest` is about all.
* **`ScoreFits`, `ScoresFit`, `FasterIsBetter`**: the score's two products and
  their truncated quotients, bounded one by one. With up to eight guesses every
  score is in 1..999; nine would not fit. One trial more costs at least one
  point whatever truncation does, and a second more never gains one.
* **`GameStoreProofs!TypeCorrect`**, by one lemma per handler. A play time read
  from a request lies in 1..PlayTimeMax because it is checked after the cut.
* **`GameStoreProofs!Safety`**: `IInv` is inductive. It consists of the type, of
  open games (`ActiveGamesOpen`), consistent endings, non-overlapping games, and
  of `RequestsInPast`. None is inductive alone: an ending is consistent because
  the game was open until then (`AttemptStep`, `EndGameStep`,
  `TimedOutConsistent`); a timed-out game lies in the past only because a
  worker's timestamp is not later than the clock; and that a game is not closed
  before it began needs the order of the archive. `OngoingOpen`,
  `EndingsConsistent` and `NoOverlap` follow.
* **`KeyKeptSecret`**: no reply holds the key of a game that can still be
  played, except for a debug game. It needs `IInv`: a worker whose timestamp
  is two seconds older than a game computes an age of -2, which is also what
  `checkTimedoutGame` returns for a timed-out game.
* **`StepChanges`**, in the same module, reduces every step of the store to one of three changes of
  one player's games: a game closes, begins, or takes a guess.
  From it follow `ScoresOfWins` (by the names of scores and of wins, as a score
  replaces one of the same name), `OngoingKept`, `FinWithoutGame`, and
  **`StoreKeepsPromise`**: the store implements `PlayerGame`, whose specification
  is safety only. `ResendHarmless` has an invariant of its own: a feedback for
  a wrong guess always is about the last attempt in the file
  (`LastTryStored`), which is what lets `attempt` recognise the repetition.
* **`PlayerSessionProofs`**, for a network that loses datagrams but delivers
  none late (`~MayBeLate`; the violating run shows what else happens).
  `SessionRunsStore`: a session drives the store through its handlers only, so
  that `IInv` holds in it. `TableIsServers`, `OneReplyForgiven` and
  `AnnouncedIsRecorded` then follow from `SessionInv`: one request is under way
  at a time (`OneDatagram`); the table is a part of the server's game, at most
  one row short (`TableOK`); and what a reply under way says stays true until
  it is taken (`ReplyFits`), because by itself the server can only close a game.
  `SessionTypeCorrect` holds also on a network that delivers late: whatever reply
  is taken for the answer to a try, its numbers are in range (`SoundReply`),
  because each reply in the network was in range when the store gave it. That
  pegs are at most as many as positions is `PegsFit`, by counting positions.
* **`ServerProofs`**, first about the pool: `TypeCorrect`; `NothingLeftBehind`, from the invariant
  that the pool is stopped only after the listener (`ListenerFirst`);
  `NoWakeupLost`, by counting awake workers; `OwnedOnce`, one lemma for each of
  the actions that move a connection; and **`PoolServes`**: the pool implements
  the safety part of `ConnectionService` (`Safely`), for which a connection
  must have one owner and no more handlers than workers may be busy.
* Then about the server: `ServerImplementsPool`, each step of the server is one of
  the pool or leaves it alone; `PoolSafeInServer` carries the pool's invariants
  over; `StopsTaking` needs that a thread which has taken something after the
  signal is not waiting any more (`WaitingSinceBefore`).
* **`GameFilesProofs`**: `TypeCorrect`, and `ScoresAreWins`: however threads and
  crashes interleave, a score belongs to a game archived as won in that second.
  Its invariant (`ScoreInv`) says of each thread what it has done by now
  (`ThreadOK`): one about to write a score has renamed a won game. Archived
  names are never removed, and a crash only forgets threads.
* **`FootersMatchNames`, `FirstEndingsFit`, `AckedSurvivesCrashes`**, in the same
  module, as long as no worker has closed a game under another thread (`raced`).
  None is inductive alone: what a thread appends is right only because of what
  it read some steps earlier. The invariant is `AloneInv`. `Kinds` says what a
  thread remembers at each place. Until a race at most one thread acts on the
  game file (`OneActs`), and `Knows` says what that thread still knows of the
  file: where the file is, whether it has a footer, how many attempts, that the
  guess it will append is new. `FilesOK` holds of the files whoever acts: an
  archived file ends with the footer its name announces, every file is a proper
  game up to its first footer, a game without one can still be won. A kill
  leaves `FilesOK` alone, since it forgets threads and whole lines stay, and
  so the next thread starts from what it finds. Whether two threads act at the
  same time is not known when the step that makes them meet is taken, so each
  step is proved for a thread alone (`Solo`) and shown to be one that sets
  `raced` otherwise.
* **`OneLooseEnd`** counts. Won games that lack their score, footers in the game
  file and a game file without a header together are at most the crashes, once the score that a
  thread is about to write is not yet counted as missing (`Scoring`) and a file
  that a thread has just opened or is about to move may be one more (`Slack`).
  Only a crash can turn what a thread was about to finish into a loose end.
* **`FilesKeepPromise`**: until a race or a crash, each system call is a step of
  `PlayerGame` or changes nothing for the player. To what `Knows` says the
  invariant (`CalmInv`) adds that the file with the name is the one created
  last, and that it is a header and attempts only unless the thread that acts
  has just emptied it or is about to move it (`WholeGame`). `truncateGame` begins
  a game. `appendLines` is the guess or the end (`AppendCalm`), with a guard
  checked some steps before: that the guess is new and the limit not reached
  comes from `NextAttempt` and `StillOpen`, how the game ends from `EndingOf`,
  and the number of guesses in a result from the length of the file. The
  rename finds the result already recorded.
* **`ScoreboardProofs`**: the names are in a strict total order (`NamesOrdered`),
  so a finite set of them can be sorted (`SortExists`, over a smallest set that
  cannot be). `ScoreboardInv` says that a worker reads through names that are
  sorted and hold every score of the listing's beginning (`ReadsThrough`), and
  has got as far as its rows. `BoardIsComplete` follows because a name beyond a
  full board comes later in the same order, and `LongOnesDescend` because names
  of scores of three digits are ordered as the scores are (`LaterIsLarger`).
* **`TcpExchangeProofs`**: `TypeCorrect` needs that a connection not yet used has
  nothing on it (`Asked`, `Fresh`). **`SavedMatchesServer`**: what is out and what
  is left to write is the reply, or as much of it as was out and then the error
  packet (`Whole`). What a client reads is a beginning of that, and the client
  ends with a file only on a beginning that is a whole reply (`WholeIsFile`) or
  the one splice that looks like one (`Spliced`, see the end of section 4).
  **`UndisturbedIsDelivered`**: where nothing failed, a waiting client has not
  read the end of the reply, and one that has ended has saved what was sent
  (`Reads`); it needs a size of at most three digits. Nor is the client reset,
  because the handler has taken the whole request before it answers
  (`AllTaken`, `NotReset`, together `Resets`).
  `LastGameReadable` and `ScoreboardReadable` show that the server's texts keep
  to that: even with one attempt too many, as a crash allows, numbers as wide as
  64 bits get, and on a board the `int`s of an unfinished score file, they stay
  below 1000 bytes.

Only model-checked: liveness (`ExitsAfterSignal`, `CommandEnds`, `HandlerEnds`)
and the fairness in `ConnectionService`, by which every queued connection is
handled: so `ImplementsService` as a whole (`PoolServes` is its safety part).
They are outside the prover's temporal logic.

Two notes for who extends the proofs. The prover sees through neither
`Permutations` of the TLC module nor `SetToSortSeq` of the community modules, and
it has no induction over an operator: `MCGameRules` therefore quantifies over
`Bijection`, `Scoreboard` chooses among `SetToSeqs`, and what would be an
induction over a finite set is stated about a smallest counterexample
(`SmallestSet`, from the well-foundedness of strict inclusion).

Each passing property has a mutant: an operator marked "Seeded fault" next to the
one it replaces, with which the property fails.

## 6. Not modelled, and why

* A clock that steps back: the code then takes a running game for none or for a
  timed-out one, and keeps no property worth stating.
* `std::localtime`, whose static buffer the UDP thread and the workers share, is
  a data race that can put one thread's time into another's file name.
* System calls on files that fail (a full disk, missing permissions), and a
  machine that crashes, as opposed to the process: what the disk then holds is
  up to the operating system.
* Byte-level parsing of UDP packets: a datagram arrives whole or not at all, and
  a packet that does not parse is `malformedRequest`, or bad data to the client.
  The fields whose width or order matters are modelled where they do.
* Setting up sockets, the command line and the directories: it happens once,
  before anything runs concurrently.
* Duplicate datagrams, and two clients for the same player (see `PlayerSession`).
* Logging and printing. The debug flag that a client never resets, and its loop
  after the end of its input, are listed as hazards only.
* `GameFiles` implements `PlayerGame`, as `GameStore` does, but is not shown to
  refine `GameStore` itself, which also has keys, feedback and replies. With
  closings that meet it does not (finding 5), and with a crash between footer
  and rename neither.

## 7. Plan

Done, in this order: `GameRules`, `PlayerGame`, `GameStore` with its proofs,
`Scoreboard`, `ConnectionService`, `WorkerPool` with its proofs, `PlayerSession`;
then `GameFiles` with its first proofs, `Server` with its proofs, `TcpExchange`,
`ReplySizes`, the refinement theorems, and those of `PlayerSession`; then the
invariants that had only been checked: those of `GameFiles` until closings meet,
of `TcpExchange`, of `Scoreboard`, of the game's rules, and the session's type on
a network that delivers late; and that `GameFiles` implements `PlayerGame`.

Left, in the order of what it would add:

1. The table of a client on a network that delivers late: which of its rows can
   be wrong, and that only a late reply makes them so (finding 4 is the run).
2. The replies in `GameFiles`, with the feedback and the key they carry, and then
   a refinement of `GameStore` without races and crashes: `FilesKeepPromise` is
   the part of it that is about the games.
