--------------------------- MODULE GameFilesProofs ---------------------------
(***************************************************************************)
(* Proofs about GameFiles, for any number of workers, guesses, games and   *)
(* crashes: its state has its type, and a score on the board belongs to a  *)
(* game archived as won, whatever the threads do at the same time.         *)
(*                                                                         *)
(* The second half is about what holds as long as no worker closes a game  *)
(* that another thread uses.  Then one thread at a time acts on the game   *)
(* file, and everything rests on what that thread knows of it (Knows) and  *)
(* what holds of the files whoever acts (FilesOK): together they are Solo, *)
(* which every step of the thread keeps.  LooseOK counts what kills have   *)
(* left half done, with the part the thread is about to finish taken off.  *)
(* The end is the refinement of PlayerGame, until a race or a crash.       *)
(***************************************************************************)
EXTENDS GameFiles, FiniteSetTheorems, SequenceTheorems, TLAPS

(* A thread that remembers a file among the first n. *)
ThreadIn(n) ==
  [pc : PCs, op : {"none", "SNG", "TRY", "QUT", "STR"}, tstamp : Nat,
   guess : Guesses \cup {NoGuess}, trial : Nat, file : 0..n, game : Nat,
   ending : Endings]

LEMMA ThreadStateIn == ThreadState = ThreadIn(Len(disk))
  BY DEF ThreadState, ThreadIn

LEMMA IdleTyped == \A n \in Nat : Idle \in ThreadIn(n)
  BY DEF Idle, ThreadIn, PCs, Endings

(* What the steps do with their thread leaves it typed. *)
LEMMA ThreadSteps ==
  ASSUME NEW n \in Nat, thread \in [Threads -> ThreadIn(n)], NEW t \in Threads
  PROVE  /\ Finish(t) => thread' \in [Threads -> ThreadIn(n)]
         /\ \A pc \in PCs : Goto(t, pc) => thread' \in [Threads -> ThreadIn(n)]
         /\ \A e \in Endings : EndWith(t, e) => thread' \in [Threads -> ThreadIn(n)]
<1>1. Finish(t) => thread' \in [Threads -> ThreadIn(n)]
  BY IdleTyped DEF Finish
<1>2. ASSUME NEW pc \in PCs, Goto(t, pc) PROVE thread' \in [Threads -> ThreadIn(n)]
  BY <1>2 DEF Goto, ThreadIn
<1>3. ASSUME NEW e \in Endings, EndWith(t, e) PROVE thread' \in [Threads -> ThreadIn(n)]
  <2> DEFINE th == [thread[t] EXCEPT !.pc = "open", !.ending = e]
  <2>1. th \in ThreadIn(n)
    BY DEF ThreadIn, PCs
  <2>2. thread' = [thread EXCEPT ![t] = th]
    BY <1>3 DEF EndWith
  <2> QED BY <2>1, <2>2
<1> QED BY <1>1, <1>2, <1>3

LEMMA ThreadsGrow ==
  ASSUME NEW n \in Nat, NEW m \in Nat, n <= m
  PROVE  ThreadIn(n) \subseteq ThreadIn(m)
  BY DEF ThreadIn

-----------------------------------------------------------------------------
(* The part of the type that the disk and the names have. *)
DiskOK == disk \in Seq(Seq(Line)) /\ game \in 0..Len(disk)
            /\ \A n \in DOMAIN archive : archive[n] \in 1..Len(disk)

LEMMA TypeParts ==
  TypeOK <=> /\ now \in Nat /\ started \in Nat /\ crashes \in Nat /\ raced \in BOOLEAN
             /\ DiskOK
             /\ thread \in [Threads -> ThreadIn(Len(disk))]
  BY ThreadStateIn DEF TypeOK, DiskOK

LEMMA WatchTyped == Watch => raced' \in BOOLEAN
  BY DEF Watch

LEMMA GameInTyped ==
  ASSUME DiskOK, NEW f \in 0..Len(disk)
  PROVE  GameIn(f) \in Nat
<1>1. CASE HasHeader(f)
  <2>1. f \in 1..Len(disk) /\ disk[f] # <<>> /\ disk[f][1].kind = "header"
    BY <1>1 DEF HasHeader, StartsWith
  <2>2. disk[f] \in Seq(Line)
    BY <2>1, ElementOfSeq DEF DiskOK
  <2>3. disk[f][1] \in Line
    BY <2>1, <2>2, ElementOfSeq, EmptySeq
  <2> QED BY <1>1, <2>1, <2>3 DEF GameIn, Line
<1>2. CASE ~HasHeader(f)
  BY <1>2 DEF GameIn
<1> QED BY <1>1, <1>2

LEMMA NewFile ==
  ASSUME DiskOK, disk' = Append(disk, <<>>)
  PROVE  Len(disk) \in Nat /\ Len(disk') = Len(disk) + 1 /\ disk' \in Seq(Seq(Line))
<1>1. <<>> \in Seq(Line)
  BY EmptySeq
<1> QED BY <1>1, AppendProperties, LenProperties DEF DiskOK

LEMMA FileWritten ==
  ASSUME DiskOK, NEW f \in 0..Len(disk), NEW lines,
         f # 0 => lines \in Seq(Line),
         disk' = [disk EXCEPT ![f] = lines]
  PROVE  Len(disk') = Len(disk) /\ disk' \in Seq(Seq(Line))
<1>1. CASE f = 0
  <2>1. DOMAIN disk = 1..Len(disk) /\ disk \in [1..Len(disk) -> Seq(Line)]
    BY LenProperties DEF DiskOK
  <2>2. disk' = disk
    BY <1>1, <2>1
  <2> QED BY <2>2 DEF DiskOK
<1>2. CASE f # 0
  <2>1. f \in 1..Len(disk) /\ lines \in Seq(Line)
    BY <1>2
  <2> QED BY <2>1, ExceptSeq DEF DiskOK
<1> QED BY <1>1, <1>2

-----------------------------------------------------------------------------
(* A step that leaves the disk and the names alone. *)
LEMMA SameDisk ==
  ASSUME TypeOK, UNCHANGED <<disk, game, archive>>,
         now' \in Nat, started' \in Nat, crashes' \in Nat, raced' \in BOOLEAN,
         thread' \in [Threads -> ThreadIn(Len(disk))]
  PROVE  TypeOK'
<1>1. DiskOK'
  BY TypeParts DEF DiskOK
<1>2. Len(disk') = Len(disk)
  OBVIOUS
<1>3. thread' \in [Threads -> ThreadIn(Len(disk'))]
  BY <1>2
<1> QED BY <1>1, <1>3 DEF TypeOK, DiskOK, ThreadState, ThreadIn

LEMMA AcceptTyped ==
  ASSUME TypeOK, NEW t \in Threads, NEW op \in {"SNG", "TRY", "QUT", "STR"},
         NEW pc \in {"exists", "header"}, Accept(t, op, pc)
  PROVE  TypeOK'
<1> DEFINE th == [Idle EXCEPT !.pc = pc, !.op = op, !.tstamp = now]
<1>1. th \in ThreadIn(Len(disk))
  <2>1. Idle \in ThreadIn(Len(disk)) /\ now \in Nat
    BY IdleTyped, LenProperties, TypeParts DEF DiskOK
  <2> QED BY <2>1 DEF ThreadIn, PCs
<1>2. thread' \in [Threads -> ThreadIn(Len(disk))]
  <2>1. thread' = [thread EXCEPT ![t] = th]
    BY DEF Accept
  <2> QED BY <1>1, <2>1, TypeParts
<1>3. UNCHANGED <<now, disk, game, archive, started, crashes>> /\ Watch
  BY DEF Accept, files
<1> QED BY <1>2, <1>3, SameDisk, TypeParts, WatchTyped

(* The steps of a handler that look at files and do not touch them. *)
LEMMA ReadingTyped ==
  ASSUME TypeOK, NEW t \in Threads,
         existsCheck(t) \/ parseHeader(t) \/ parseForQuit(t) \/ replyOK(t)
  PROVE  TypeOK'
<1>1. UNCHANGED <<now, disk, game, archive, started, crashes>> /\ Watch
  BY DEF existsCheck, parseHeader, parseForQuit, replyOK, files
<1>2. Len(disk) \in Nat /\ thread \in [Threads -> ThreadIn(Len(disk))]
  BY TypeParts, LenProperties DEF DiskOK
<1>3. \/ Finish(t) \/ (\E pc \in PCs : Goto(t, pc)) \/ (\E e \in Endings : EndWith(t, e))
  BY DEF existsCheck, parseHeader, parseForQuit, replyOK, Refuse, PCs, Endings
<1>4. thread' \in [Threads -> ThreadIn(Len(disk))]
  BY <1>2, <1>3, ThreadSteps
<1> QED BY <1>1, <1>4, SameDisk, TypeParts, WatchTyped

LEMMA Remembered ==
  ASSUME NEW n \in Nat, thread \in [Threads -> ThreadIn(n)], NEW t \in Threads,
         NEW pc \in PCs, NEW g \in Guesses, NEW trial \in Nat, NEW e \in Endings,
         NEW k \in Nat,
         thread' = [thread EXCEPT ![t].pc = pc, ![t].guess = g, ![t].trial = trial,
                      ![t].ending = e, ![t].game = k]
  PROVE  thread' \in [Threads -> ThreadIn(n)]
<1> DEFINE th == [thread[t] EXCEPT !.pc = pc, !.guess = g, !.trial = trial,
                                   !.ending = e, !.game = k]
<1>1. th \in ThreadIn(n)
  BY DEF ThreadIn
<1>2. thread' = [thread EXCEPT ![t] = th]
  OBVIOUS
<1> QED BY <1>1, <1>2

LEMMA AttemptsTyped ==
  ASSUME TypeOK, NEW t \in Threads, parseAttempts(t)
  PROVE  TypeOK'
<1>1. UNCHANGED <<now, disk, game, archive, started, crashes>> /\ Watch
  BY DEF parseAttempts, files
<1>2. Len(disk) \in Nat /\ thread \in [Threads -> ThreadIn(Len(disk))]
  BY TypeParts, LenProperties DEF DiskOK
<1>3. GameIn(game) \in Nat
  BY GameInTyped, TypeParts DEF DiskOK
<1>4. thread' \in [Threads -> ThreadIn(Len(disk))]
  <2>1. CASE Refuse(t)
    BY <1>2, <2>1, ThreadSteps DEF Refuse
  <2>2. ASSUME NEW g \in Guesses, NEW trial \in Trials, NEW pc \in PCs, NEW e \in Endings,
               thread' = [thread EXCEPT ![t].pc = pc, ![t].guess = g, ![t].trial = trial,
                            ![t].ending = e, ![t].game = GameIn(game)]
        PROVE  thread' \in [Threads -> ThreadIn(Len(disk))]
    <3>1. trial \in Nat
      BY PlayAssumption DEF Trials
    <3> QED BY <1>2, <1>3, <2>2, <3>1, Remembered
  <2>3. \/ Refuse(t)
        \/ \E g \in Guesses, trial \in Trials :
             \/ thread' = [thread EXCEPT ![t].pc = "reply", ![t].guess = g, ![t].trial = trial,
                             ![t].ending = "none", ![t].game = GameIn(game)]
             \/ \E won \in Wins(game, g) :
                  thread' = [thread EXCEPT ![t].pc = "open", ![t].guess = g,
                               ![t].trial = trial, ![t].ending = EndingOf(trial, won),
                               ![t].game = GameIn(game)]
    BY Zenon DEF parseAttempts
  <2>4. \A won, trial : EndingOf(trial, won) \in Endings
    BY DEF EndingOf, Endings
  <2>5. "none" \in Endings /\ "reply" \in PCs /\ "open" \in PCs
    BY DEF Endings, PCs
  <2>6. ASSUME NEW g \in Guesses, NEW trial \in Trials, NEW won \in Wins(game, g),
               thread' = [thread EXCEPT ![t].pc = "open", ![t].guess = g,
                            ![t].trial = trial, ![t].ending = EndingOf(trial, won),
                            ![t].game = GameIn(game)]
        PROVE  thread' \in [Threads -> ThreadIn(Len(disk))]
    BY <2>2, <2>4, <2>5, <2>6, Zenon
  <2>7. ASSUME NEW g \in Guesses, NEW trial \in Trials,
               thread' = [thread EXCEPT ![t].pc = "reply", ![t].guess = g,
                            ![t].trial = trial, ![t].ending = "none",
                            ![t].game = GameIn(game)]
        PROVE  thread' \in [Threads -> ThreadIn(Len(disk))]
    BY <2>2, <2>5, <2>7, Zenon
  <2> QED BY <2>1, <2>3, <2>6, <2>7, Zenon
<1> QED BY <1>1, <1>4, SameDisk, TypeParts, WatchTyped

LEMMA ScoreStepsTyped ==
  ASSUME TypeOK, NEW t \in Threads, createScore(t) \/ writeScore(t)
  PROVE  TypeOK'
<1>1. UNCHANGED <<now, disk, game, archive, started, crashes>> /\ Watch
  BY DEF createScore, writeScore
<1>2. Len(disk) \in Nat /\ thread \in [Threads -> ThreadIn(Len(disk))]
  BY TypeParts, LenProperties DEF DiskOK
<1>3. Goto(t, "score2") \/ Goto(t, "reply")
  BY DEF createScore, writeScore
<1>4. thread' \in [Threads -> ThreadIn(Len(disk))]
  BY <1>2, <1>3, ThreadSteps DEF PCs
<1> QED BY <1>1, <1>4, SameDisk, TypeParts, WatchTyped

-----------------------------------------------------------------------------
(* The steps that write to the disk or move names. *)
LEMMA TypeOfParts ==
  ASSUME now' \in Nat, started' \in Nat, crashes' \in Nat, raced' \in BOOLEAN,
         DiskOK', thread' \in [Threads -> ThreadIn(Len(disk'))]
  PROVE  TypeOK'
  BY DEF TypeOK, DiskOK, ThreadState, ThreadIn

LEMMA TruncateTyped ==
  ASSUME TypeOK, NEW t \in Threads, truncateGame(t)
  PROVE  TypeOK'
<1>1. UNCHANGED <<now, archive, started, crashes>> /\ Watch
  BY DEF truncateGame
<1>2. /\ DiskOK /\ Len(disk) \in Nat /\ game \in 0..Len(disk)
      /\ thread \in [Threads -> ThreadIn(Len(disk))]
  BY TypeParts, LenProperties DEF DiskOK
<1>3. /\ disk' \in Seq(Seq(Line)) /\ Len(disk') \in Nat /\ Len(disk) <= Len(disk')
      /\ game' \in 0..Len(disk')
  <2>1. CASE game = 0 /\ disk' = Append(disk, <<>>) /\ game' = Len(disk) + 1
    BY <1>2, <2>1, NewFile
  <2>2. CASE game # 0 /\ disk' = [disk EXCEPT ![game] = <<>>] /\ UNCHANGED game
    <3>1. <<>> \in Seq(Line)
      BY EmptySeq
    <3>2. disk' = [disk EXCEPT ![game] = <<>>]
      BY <2>2
    <3>3. Len(disk') = Len(disk) /\ disk' \in Seq(Seq(Line))
      BY <1>2, <3>1, <3>2, FileWritten
    <3> QED BY <1>2, <2>2, <3>3
  <2>3. \/ game = 0 /\ disk' = Append(disk, <<>>) /\ game' = Len(disk) + 1
        \/ game # 0 /\ disk' = [disk EXCEPT ![game] = <<>>] /\ UNCHANGED game
    BY Zenon DEF truncateGame
  <2> QED BY <2>1, <2>2, <2>3
<1>4. DiskOK'
  BY <1>1, <1>2, <1>3 DEF DiskOK
<1>5. thread' \in [Threads -> ThreadIn(Len(disk'))]
  <2> DEFINE th == [thread[t] EXCEPT !.pc = "create", !.file = game']
  <2>1. thread \in [Threads -> ThreadIn(Len(disk'))]
    BY <1>2, <1>3, ThreadsGrow
  <2>2. th \in ThreadIn(Len(disk'))
    BY <1>3, <2>1 DEF ThreadIn, PCs
  <2>3. thread' = [thread EXCEPT ![t] = th]
    BY DEF truncateGame
  <2> QED BY <2>1, <2>2, <2>3
<1>6. now' \in Nat /\ started' \in Nat /\ crashes' \in Nat /\ raced' \in BOOLEAN
  BY <1>1, TypeParts, WatchTyped
<1> QED BY <1>4, <1>5, <1>6, TypeOfParts

LEMMA HeaderTyped ==
  ASSUME TypeOK, NEW t \in Threads, writeHeader(t)
  PROVE  TypeOK'
<1>1. UNCHANGED <<now, game, archive, crashes>> /\ Watch /\ started' = started + 1
  BY DEF writeHeader
<1>2. /\ DiskOK /\ Len(disk) \in Nat
      /\ thread \in [Threads -> ThreadIn(Len(disk))] /\ started \in Nat
  BY TypeParts, LenProperties DEF DiskOK
<1>3. thread[t].file \in 0..Len(disk) /\ thread[t].tstamp \in Nat
  BY <1>2 DEF ThreadIn
<1>4. disk' \in Seq(Seq(Line)) /\ Len(disk') = Len(disk)
  <2> DEFINE line == Header(started + 1, thread[t].tstamp)
  <2>1. line \in Line
    BY <1>2, <1>3 DEF Header, Line
  <2>2. <<line>> \in Seq(Line)
    BY <2>1
  <2>3. disk' = [disk EXCEPT ![thread[t].file] = <<line>>]
    BY DEF writeHeader
  <2> HIDE DEF line
  <2> QED BY <1>2, <1>3, <2>2, <2>3, FileWritten
<1>5. DiskOK'
  BY <1>1, <1>2, <1>4 DEF DiskOK
<1>6. thread' \in [Threads -> ThreadIn(Len(disk'))]
  <2> DEFINE th == [thread[t] EXCEPT !.pc = "reply", !.game = started + 1]
  <2>n. started + 1 \in Nat
    BY <1>2
  <2>1. th \in ThreadIn(Len(disk))
    BY <1>2, <2>n DEF ThreadIn, PCs
  <2>2. thread' = [thread EXCEPT ![t] = th]
    BY DEF writeHeader
  <2> QED BY <1>2, <1>4, <2>1, <2>2
<1>7. now' \in Nat /\ started' \in Nat /\ crashes' \in Nat /\ raced' \in BOOLEAN
  BY <1>1, <1>2, TypeParts, WatchTyped
<1> QED BY <1>5, <1>6, <1>7, TypeOfParts

LEMMA OpenTyped ==
  ASSUME TypeOK, NEW t \in Threads, openForAppend(t)
  PROVE  TypeOK'
<1>1. UNCHANGED <<now, archive, started, crashes>> /\ Watch
  BY DEF openForAppend
<1>2. /\ DiskOK /\ Len(disk) \in Nat /\ game \in 0..Len(disk)
      /\ thread \in [Threads -> ThreadIn(Len(disk))]
  BY TypeParts, LenProperties DEF DiskOK
<1>3. /\ disk' \in Seq(Seq(Line)) /\ Len(disk') \in Nat /\ Len(disk) <= Len(disk')
      /\ game' \in 0..Len(disk')
  <2>1. CASE game = 0 /\ disk' = Append(disk, <<>>) /\ game' = Len(disk) + 1
    BY <1>2, <2>1, NewFile
  <2>2. CASE UNCHANGED <<disk, game>>
    BY <1>2, <2>2 DEF DiskOK
  <2> QED BY <2>1, <2>2 DEF openForAppend
<1>4. DiskOK'
  BY <1>1, <1>2, <1>3 DEF DiskOK
<1>5. thread' \in [Threads -> ThreadIn(Len(disk'))]
  <2> DEFINE th == [thread[t] EXCEPT !.pc = "write", !.file = game']
  <2>1. thread \in [Threads -> ThreadIn(Len(disk'))]
    BY <1>2, <1>3, ThreadsGrow
  <2>2. th \in ThreadIn(Len(disk'))
    BY <1>3, <2>1 DEF ThreadIn, PCs
  <2>3. thread' = [thread EXCEPT ![t] = th]
    BY DEF openForAppend, AfterOpen
  <2> QED BY <2>1, <2>2, <2>3
<1>6. now' \in Nat /\ started' \in Nat /\ crashes' \in Nat /\ raced' \in BOOLEAN
  BY <1>1, TypeParts, WatchTyped
<1> QED BY <1>4, <1>5, <1>6, TypeOfParts

-----------------------------------------------------------------------------
(* What a thread is about to do: it quits only on request, what it appends *)
(* as an attempt is a guess, and what it scores is archived as won.        *)
ThreadOK(t) ==
  LET th == thread[t] IN
  /\ th.pc = "quit" => th.op = "QUT"
  /\ th.pc \in {"open", "write"} /\ th.op = "TRY" => th.ending = "T" \/ th.guess \in Guesses
  /\ th.pc \in {"score", "score2"} => <<th.tstamp, "W">> \in DOMAIN archive

ScoreInv == ScoreHasWin /\ \A t \in Threads : ThreadOK(t)

OthersSame(t) == \A s \in Threads \ {t} : thread'[s] = thread[s]

LEMMA AfterFinish ==
  ASSUME TypeOK, NEW t \in Threads, Finish(t)
  PROVE  thread'[t].pc = "idle" /\ OthersSame(t)
<1>1. thread' = [thread EXCEPT ![t] = Idle] /\ Idle.pc = "idle"
  BY DEF Finish, Idle
<1> QED BY <1>1, TypeParts DEF OthersSame

LEMMA AfterGoto ==
  ASSUME TypeOK, NEW t \in Threads, NEW pc, Goto(t, pc)
  PROVE  /\ thread'[t].pc = pc /\ OthersSame(t)
         /\ thread'[t].op = thread[t].op /\ thread'[t].tstamp = thread[t].tstamp
         /\ thread'[t].ending = thread[t].ending /\ thread'[t].guess = thread[t].guess
         /\ thread'[t].trial = thread[t].trial /\ thread'[t].game = thread[t].game
         /\ thread'[t].file = thread[t].file
  BY TypeParts DEF Goto, OthersSame, ThreadIn

LEMMA AfterEndWith ==
  ASSUME TypeOK, NEW t \in Threads, NEW e, EndWith(t, e)
  PROVE  /\ thread'[t].pc = "open" /\ thread'[t].ending = e
         /\ thread'[t].op = thread[t].op /\ OthersSame(t)
         /\ thread'[t].trial = thread[t].trial /\ thread'[t].game = thread[t].game
  BY TypeParts DEF EndWith, OthersSame, ThreadIn

(* A step of one thread that removes no name from the archive. *)
LEMMA OneThread ==
  ASSUME ScoreInv, NEW t \in Threads, OthersSame(t),
         DOMAIN archive \subseteq DOMAIN archive',
         ThreadOK(t)',
         \A s \in scores' : s \in scores \/ <<s.tstamp, "W">> \in DOMAIN archive'
  PROVE  ScoreInv'
<1>1. \A s \in Threads : ThreadOK(s)'
  <2> SUFFICES ASSUME NEW s \in Threads, s # t PROVE ThreadOK(s)'
    OBVIOUS
  <2>1. thread'[s] = thread[s] /\ ThreadOK(s)
    BY DEF OthersSame, ScoreInv
  <2> QED BY <2>1 DEF ThreadOK
<1>2. ScoreHasWin'
  BY DEF ScoreInv, ScoreHasWin
<1> QED BY <1>1, <1>2 DEF ScoreInv

(* Places where ThreadOK asks for nothing. *)
LEMMA Elsewhere ==
  ASSUME NEW t \in Threads,
         thread'[t].pc \notin {"quit", "open", "write", "score", "score2"}
  PROVE  ThreadOK(t)'
  BY DEF ThreadOK

LEMMA SameNames ==
  ASSUME ScoreInv, NEW t \in Threads, UNCHANGED <<archive, scores>>,
         OthersSame(t), ThreadOK(t)'
  PROVE  ScoreInv'
  BY OneThread

LEMMA AcceptScores ==
  ASSUME TypeOK, ScoreInv, NEW t \in Threads, NEW op,
         NEW pc \in {"exists", "header"}, Accept(t, op, pc)
  PROVE  ScoreInv'
<1>1. thread' = [thread EXCEPT ![t] = [Idle EXCEPT !.pc = pc, !.op = op, !.tstamp = now]]
  BY DEF Accept
<1>2. thread'[t].pc = pc /\ OthersSame(t)
  BY <1>1, TypeParts DEF Idle, OthersSame
<1>3. ThreadOK(t)'
  BY <1>2, Elsewhere
<1> QED BY <1>2, <1>3, SameNames DEF Accept, files

LEMMA ReadingScores ==
  ASSUME TypeOK, ScoreInv, NEW t \in Threads,
         existsCheck(t) \/ parseHeader(t) \/ parseForQuit(t) \/ replyOK(t)
  PROVE  ScoreInv'
<1>1. UNCHANGED <<archive, scores>>
  BY DEF existsCheck, parseHeader, parseForQuit, replyOK, files
<1>2. CASE Finish(t)
  <2>1. thread'[t].pc = "idle" /\ OthersSame(t)
    BY <1>2, AfterFinish
  <2> QED BY <1>1, <2>1, Elsewhere, SameNames
<1>3. ASSUME NEW pc \in {"header", "truncate", "parse"}, Goto(t, pc) PROVE ScoreInv'
  <2>1. thread'[t].pc = pc /\ OthersSame(t)
    BY <1>3, AfterGoto
  <2> QED BY <1>1, <2>1, Elsewhere, SameNames
<1>4. CASE thread[t].op = "QUT" /\ Goto(t, "quit")
  <2>1. thread'[t].pc = "quit" /\ thread'[t].op = "QUT" /\ OthersSame(t)
    BY <1>4, AfterGoto
  <2>2. ThreadOK(t)'
    BY <2>1 DEF ThreadOK
  <2> QED BY <1>1, <2>1, <2>2, SameNames
<1>5. CASE EndWith(t, "T")
  <2>1. thread'[t].pc = "open" /\ thread'[t].ending = "T" /\ OthersSame(t)
    BY <1>5, AfterEndWith
  <2>2. ThreadOK(t)'
    BY <2>1 DEF ThreadOK
  <2> QED BY <1>1, <2>1, <2>2, SameNames
<1>6. CASE parseForQuit(t) /\ EndWith(t, "Q")
  <2>1. thread'[t].pc = "open" /\ thread'[t].op = thread[t].op /\ OthersSame(t)
    BY <1>6, AfterEndWith
  <2>2. thread[t].op = "QUT"
    BY <1>6 DEF parseForQuit, At, ScoreInv, ThreadOK
  <2>3. ThreadOK(t)'
    BY <2>1, <2>2 DEF ThreadOK
  <2> QED BY <1>1, <2>1, <2>3, SameNames
<1>7. \/ Finish(t) \/ EndWith(t, "T") \/ (parseForQuit(t) /\ EndWith(t, "Q"))
      \/ (\E pc \in {"header", "truncate", "parse"} : Goto(t, pc))
      \/ (thread[t].op = "QUT" /\ Goto(t, "quit"))
  BY DEF existsCheck, parseHeader, parseForQuit, replyOK, Refuse
<1> QED BY <1>2, <1>3, <1>4, <1>5, <1>6, <1>7
-----------------------------------------------------------------------------
(* The remaining steps: types. *)
LEMMA EndStampTyped ==
  ASSUME NEW n \in Nat, NEW th \in ThreadIn(n)
  PROVE  EndStamp(th) \in Nat
  BY PlayAssumption DEF EndStamp, ThreadIn

LEMMA AppendTyped ==
  ASSUME TypeOK, ScoreInv, NEW t \in Threads, appendLines(t)
  PROVE  TypeOK'
<1> DEFINE th == thread[t]
<1>1. UNCHANGED <<now, game, archive, started, crashes>> /\ Watch /\ th.pc = "write"
  BY DEF appendLines, At
<1>2. /\ DiskOK /\ Len(disk) \in Nat
      /\ thread \in [Threads -> ThreadIn(Len(disk))] /\ th \in ThreadIn(Len(disk))
  BY TypeParts, LenProperties DEF DiskOK
<1>3. th.op = "TRY" => th.ending = "T" \/ th.guess \in Guesses
  BY <1>1 DEF ScoreInv, ThreadOK
<1>4. th.file \in 0..Len(disk) /\ th.ending \in Endings
  BY <1>2 DEF ThreadIn
<1>5. TrialLines(th) \in Seq(Line)
  <2>1. th.guess \in Guesses => <<Trial(th.guess)>> \in Seq(Line)
    BY DEF Trial, Line
  <2> QED BY <1>3, <2>1, EmptySeq DEF TrialLines
<1>6. FooterLines(th) \in Seq(Line)
  <2>1. Footer(th.ending, EndStamp(th)) \in Line
    BY <1>2, <1>4, EndStampTyped DEF Footer, Line
  <2> QED BY <2>1, EmptySeq DEF FooterLines
<1>7. disk' \in Seq(Seq(Line)) /\ Len(disk') = Len(disk)
  <2> DEFINE lines == disk[th.file] \o TrialLines(th) \o FooterLines(th)
  <2>1. th.file # 0 => disk[th.file] \in Seq(Line)
    BY <1>2, <1>4, ElementOfSeq DEF DiskOK
  <2>2. th.file # 0 => lines \in Seq(Line)
    BY <1>5, <1>6, <2>1, ConcatProperties
  <2>3. disk' = [disk EXCEPT ![th.file] = lines]
    BY DEF appendLines
  <2> HIDE DEF lines
  <2> QED BY <1>2, <1>4, <2>2, <2>3, FileWritten
<1>8. DiskOK'
  BY <1>1, <1>2, <1>7 DEF DiskOK
<1>9. thread' \in [Threads -> ThreadIn(Len(disk'))]
  <2>1. AfterWrite(th) \in PCs /\ Goto(t, AfterWrite(th))
    BY DEF appendLines, AfterWrite, PCs
  <2> QED BY <1>2, <1>7, <2>1, ThreadSteps
<1>10. now' \in Nat /\ started' \in Nat /\ crashes' \in Nat /\ raced' \in BOOLEAN
  BY <1>1, TypeParts, WatchTyped
<1> QED BY <1>8, <1>9, <1>10, TypeOfParts

(* What renameGame does next is to go somewhere or to be done. *)
LEMMA RenameGoes ==
  ASSUME NEW t \in Threads, renameGame(t)
  PROVE  Refuse(t) \/ \E pc \in {"score", "reply", "truncate"} : Goto(t, pc)
  BY DEF renameGame, AfterRename

LEMMA RenameTyped ==
  ASSUME TypeOK, NEW t \in Threads, renameGame(t)
  PROVE  TypeOK'
<1>1. UNCHANGED <<now, disk, started, crashes>> /\ Watch /\ game' = 0
  BY DEF renameGame
<1>2. /\ DiskOK /\ Len(disk) \in Nat /\ game \in 0..Len(disk)
      /\ thread \in [Threads -> ThreadIn(Len(disk))]
  BY TypeParts, LenProperties DEF DiskOK
<1>3. DiskOK'
  <2> DEFINE name == FinishedName(thread[t])
  <2>1. CASE UNCHANGED archive
    BY <1>1, <1>2, <2>1 DEF DiskOK
  <2>2. CASE /\ game # 0
             /\ archive' = [n \in DOMAIN archive \cup {name} |->
                              IF n = name THEN game ELSE archive[n]]
    <3>1. \A n \in DOMAIN archive' : archive'[n] \in 1..Len(disk)
      BY <1>2, <2>2 DEF DiskOK
    <3> QED BY <1>1, <1>2, <3>1 DEF DiskOK
  <2> QED BY <2>1, <2>2 DEF renameGame
<1>4. thread' \in [Threads -> ThreadIn(Len(disk))]
  <2>1. {"score", "reply", "truncate"} \subseteq PCs
    BY DEF PCs
  <2> QED BY <1>2, <2>1, RenameGoes, ThreadSteps DEF Refuse
<1>5. now' \in Nat /\ started' \in Nat /\ crashes' \in Nat /\ raced' \in BOOLEAN
  BY <1>1, TypeParts, WatchTyped
<1>6. thread' \in [Threads -> ThreadIn(Len(disk'))]
  BY <1>1, <1>4
<1> QED BY <1>3, <1>5, <1>6, TypeOfParts

LEMMA EnvironmentTyped ==
  ASSUME TypeOK, crash \/ Tick
  PROVE  TypeOK'
<1>1. UNCHANGED <<disk, game, archive, started>> /\ Watch
  BY DEF crash, Tick, files
<1>2. now' \in Nat /\ crashes' \in Nat /\ started' \in Nat
  BY TypeParts DEF crash, Tick, files
<1>3. thread' \in [Threads -> ThreadIn(Len(disk))]
  <2>1. CASE crash
    <3>1. Idle \in ThreadIn(Len(disk))
      BY TypeParts, LenProperties, IdleTyped DEF DiskOK
    <3> QED BY <2>1, <3>1 DEF crash
  <2>2. CASE Tick
    BY <2>2, TypeParts DEF Tick
  <2> QED BY <2>1, <2>2
<1> QED BY <1>1, <1>2, <1>3, SameDisk, WatchTyped

-----------------------------------------------------------------------------
(* The remaining steps: scores. *)
LEMMA NewGameScores ==
  ASSUME TypeOK, ScoreInv, NEW t \in Threads, truncateGame(t) \/ writeHeader(t)
  PROVE  ScoreInv'
<1>1. UNCHANGED <<archive, scores>>
  BY DEF truncateGame, writeHeader
<1>2. thread'[t].pc \in {"create", "reply"} /\ OthersSame(t)
  <2>1. CASE truncateGame(t)
    <3> DEFINE th == [thread[t] EXCEPT !.pc = "create", !.file = game']
    <3>1. thread' = [thread EXCEPT ![t] = th]
      BY <2>1 DEF truncateGame
    <3>2. th.pc = "create"
      BY TypeParts DEF ThreadIn
    <3> QED BY <3>1, <3>2, TypeParts DEF OthersSame
  <2>2. CASE writeHeader(t)
    <3> DEFINE th == [thread[t] EXCEPT !.pc = "reply", !.game = started + 1]
    <3>1. thread' = [thread EXCEPT ![t] = th]
      BY <2>2 DEF writeHeader
    <3>2. th.pc = "reply"
      BY TypeParts DEF ThreadIn
    <3> QED BY <3>1, <3>2, TypeParts DEF OthersSame
  <2> QED BY <2>1, <2>2
<1> QED BY <1>1, <1>2, Elsewhere, SameNames

LEMMA AttemptsScores ==
  ASSUME TypeOK, ScoreInv, NEW t \in Threads, parseAttempts(t)
  PROVE  ScoreInv'
<1>1. UNCHANGED <<archive, scores>>
  BY DEF parseAttempts, files
<1>2. CASE Refuse(t)
  <2>1. thread'[t].pc = "idle" /\ OthersSame(t)
    BY <1>2, AfterFinish DEF Refuse
  <2> QED BY <1>1, <2>1, Elsewhere, SameNames
<1>3. ASSUME NEW g \in Guesses, NEW trial, NEW pc \in {"reply", "open"}, NEW e,
             thread' = [thread EXCEPT ![t].pc = pc, ![t].guess = g, ![t].trial = trial,
                          ![t].ending = e, ![t].game = GameIn(game)]
      PROVE  ScoreInv'
  <2> DEFINE th == [thread[t] EXCEPT !.pc = pc, !.guess = g, !.trial = trial,
                                     !.ending = e, !.game = GameIn(game)]
  <2>1. thread' = [thread EXCEPT ![t] = th]
    BY <1>3
  <2>2. th.pc = pc /\ th.guess = g
    BY TypeParts DEF ThreadIn
  <2>3. thread'[t] = th /\ OthersSame(t)
    BY <2>1, TypeParts DEF OthersSame
  <2>4. ThreadOK(t)'
    BY <2>2, <2>3 DEF ThreadOK
  <2> QED BY <1>1, <2>3, <2>4, SameNames
<1>4. \/ Refuse(t)
      \/ \E g \in Guesses, trial \in Trials :
           \/ thread' = [thread EXCEPT ![t].pc = "reply", ![t].guess = g, ![t].trial = trial,
                           ![t].ending = "none", ![t].game = GameIn(game)]
           \/ \E won \in Wins(game, g) :
                thread' = [thread EXCEPT ![t].pc = "open", ![t].guess = g,
                             ![t].trial = trial, ![t].ending = EndingOf(trial, won),
                             ![t].game = GameIn(game)]
  BY Zenon DEF parseAttempts
<1>5. ASSUME NEW g \in Guesses, NEW trial \in Trials, NEW won \in Wins(game, g),
             thread' = [thread EXCEPT ![t].pc = "open", ![t].guess = g,
                          ![t].trial = trial, ![t].ending = EndingOf(trial, won),
                          ![t].game = GameIn(game)]
      PROVE  ScoreInv'
  BY <1>3, <1>5, Zenon
<1>6. ASSUME NEW g \in Guesses, NEW trial \in Trials,
             thread' = [thread EXCEPT ![t].pc = "reply", ![t].guess = g,
                          ![t].trial = trial, ![t].ending = "none",
                          ![t].game = GameIn(game)]
      PROVE  ScoreInv'
  BY <1>3, <1>6, Zenon
<1> QED BY <1>2, <1>4, <1>5, <1>6, Zenon

LEMMA OpenScores ==
  ASSUME TypeOK, ScoreInv, NEW t \in Threads, openForAppend(t)
  PROVE  ScoreInv'
<1>1. UNCHANGED <<archive, scores>> /\ thread[t].pc = "open"
  BY DEF openForAppend, At
<1> DEFINE th == [thread[t] EXCEPT !.pc = "write", !.file = game']
<1>2. thread' = [thread EXCEPT ![t] = th]
  BY DEF openForAppend, AfterOpen
<1>3. /\ th.pc = "write" /\ th.op = thread[t].op
      /\ th.ending = thread[t].ending /\ th.guess = thread[t].guess
  BY TypeParts DEF ThreadIn
<1>4. thread'[t] = th /\ OthersSame(t)
  BY <1>2, TypeParts DEF OthersSame
<1>5. ThreadOK(t)'
  <2>1. ThreadOK(t)
    BY DEF ScoreInv
  <2> HIDE DEF th
  <2> QED BY <1>1, <1>3, <1>4, <2>1 DEF ThreadOK
<1> QED BY <1>1, <1>4, <1>5, SameNames

LEMMA AppendScores ==
  ASSUME TypeOK, ScoreInv, NEW t \in Threads, appendLines(t)
  PROVE  ScoreInv'
<1>1. UNCHANGED <<archive, scores>>
  BY DEF appendLines
<1>2. Goto(t, "reply") \/ Goto(t, "rename")
  BY DEF appendLines, AfterWrite
<1>3. thread'[t].pc \in {"reply", "rename"} /\ OthersSame(t)
  BY <1>2, AfterGoto
<1> QED BY <1>1, <1>3, Elsewhere, SameNames

LEMMA RenameScores ==
  ASSUME TypeOK, ScoreInv, NEW t \in Threads, renameGame(t)
  PROVE  ScoreInv'
<1> DEFINE name == FinishedName(thread[t])
<1>1. scores' = scores /\ DOMAIN archive \subseteq DOMAIN archive'
  BY DEF renameGame
<1>2. CASE Refuse(t)
  <2>1. thread'[t].pc = "idle" /\ OthersSame(t)
    BY <1>2, AfterFinish DEF Refuse
  <2>2. ThreadOK(t)'
    BY <2>1, Elsewhere
  <2> QED BY <1>1, <2>1, <2>2, OneThread
<1>3. ASSUME NEW pc \in {"reply", "truncate"}, Goto(t, pc) PROVE ScoreInv'
  <2>1. thread'[t].pc = pc /\ OthersSame(t)
    BY <1>3, AfterGoto
  <2>2. ThreadOK(t)'
    BY <2>1, Elsewhere
  <2> QED BY <1>1, <2>1, <2>2, OneThread
<1>4. CASE Goto(t, "score") /\ thread[t].ending = "W" /\ name \in DOMAIN archive'
  <2>1. /\ thread'[t].pc = "score" /\ OthersSame(t)
        /\ thread'[t].tstamp = thread[t].tstamp
    BY <1>4, AfterGoto
  <2>2. name = <<thread[t].tstamp, "W">>
    BY <1>4 DEF FinishedName, EndStamp
  <2>3. ThreadOK(t)'
    BY <1>4, <2>1, <2>2 DEF ThreadOK
  <2> QED BY <1>1, <2>1, <2>3, OneThread
<1>5. \/ Refuse(t) \/ (\E pc \in {"reply", "truncate"} : Goto(t, pc))
      \/ (Goto(t, "score") /\ thread[t].ending = "W" /\ name \in DOMAIN archive')
  BY DEF renameGame, AfterRename
<1> QED BY <1>2, <1>3, <1>4, <1>5

LEMMA ScoreScores ==
  ASSUME TypeOK, ScoreInv, NEW t \in Threads, createScore(t) \/ writeScore(t)
  PROVE  ScoreInv'
<1>1. archive' = archive /\ thread[t].pc \in {"score", "score2"}
  BY DEF createScore, writeScore, At
<1>2. <<thread[t].tstamp, "W">> \in DOMAIN archive
  BY <1>1 DEF ScoreInv, ThreadOK
<1>3. ASSUME NEW s \in scores' PROVE s \in scores \/ <<s.tstamp, "W">> \in DOMAIN archive'
  <2>1. s \in scores \/ \E b \in BOOLEAN : s = ScoreFile(thread[t], b)
    BY <1>3 DEF createScore, writeScore
  <2>2. \A b : ScoreFile(thread[t], b).tstamp = thread[t].tstamp
    BY DEF ScoreFile
  <2> QED BY <1>1, <1>2, <2>1, <2>2
<1>4. \E pc \in {"score2", "reply"} : Goto(t, pc)
  BY DEF createScore, writeScore
<1>5. /\ thread'[t].pc \in {"score2", "reply"} /\ OthersSame(t)
      /\ thread'[t].tstamp = thread[t].tstamp
  BY <1>4, AfterGoto
<1>6. ThreadOK(t)'
  BY <1>1, <1>2, <1>5 DEF ThreadOK
<1> QED BY <1>1, <1>3, <1>5, <1>6, OneThread

LEMMA EnvironmentScores ==
  ASSUME TypeOK, ScoreInv, crash \/ Tick
  PROVE  ScoreInv'
<1>1. UNCHANGED <<archive, scores>>
  BY DEF crash, Tick, files
<1>2. \A t \in Threads : ThreadOK(t)'
  <2>1. CASE crash
    BY <2>1, Elsewhere DEF crash, Idle
  <2>2. CASE Tick
    BY <1>1, <2>2 DEF Tick, ScoreInv, ThreadOK
  <2> QED BY <2>1, <2>2
<1> QED BY <1>1, <1>2 DEF ScoreInv, ScoreHasWin

-----------------------------------------------------------------------------
(* What a thread remembers fits the place it is at. *)
KindOK(t) ==
  LET th == thread[t] IN
  /\ t \in Workers =>
       /\ th.pc \in {"idle", "header", "open", "write", "rename"}
       /\ th.pc # "idle" => th.op = "STR"
       /\ Closing(t) => th.ending = "T"
  /\ t = Udp /\ th.pc # "idle" => th.op \in {"SNG", "TRY", "QUT"}
  /\ th.pc = "parse" => th.op = "TRY"
  /\ th.pc \in {"truncate", "create"} => th.op = "SNG"
  /\ th.op = "SNG" => th.trial = 0
  /\ Closing(t) /\ th.ending # "T" =>
       \/ th.op = "QUT" /\ th.ending = "Q"
       \/ th.op = "TRY" /\ th.ending \in {"none", "W", "L"}
  /\ th.pc = "rename" => th.ending # "none"
  /\ th.pc \in {"score", "score2"} => th.op = "TRY" /\ th.ending = "W"
  /\ th.game # 0 =>
       \/ th.op = "SNG" /\ th.pc = "reply"
       \/ th.op = "TRY" /\ th.pc \in {"open", "write", "rename", "score", "score2", "reply"}
            /\ th.ending # "T"

Kinds == \A t \in Threads : KindOK(t)

LEMMA KindOfOthers ==
  ASSUME Kinds, NEW t \in Threads, OthersSame(t), KindOK(t)'
  PROVE  Kinds'
<1> SUFFICES ASSUME NEW s \in Threads, s # t PROVE KindOK(s)'
  BY DEF Kinds
<1>1. KindOK(s) /\ thread'[s] = thread[s]
  BY DEF Kinds, OthersSame
<1> QED BY <1>1 DEF KindOK, Closing

LEMMA KindIdle ==
  ASSUME NEW t \in Threads, thread'[t] = Idle
  PROVE  KindOK(t)'
  BY DEF KindOK, Closing, Idle

LEMMA Finished ==
  ASSUME TypeOK, NEW t \in Threads, Finish(t)
  PROVE  thread'[t] = Idle /\ OthersSame(t) /\ KindOK(t)'
<1>1. thread'[t] = Idle /\ OthersSame(t)
  BY TypeParts DEF Finish, OthersSame
<1> QED BY <1>1, KindIdle

LEMMA AcceptKinds ==
  ASSUME TypeOK, Kinds, NEW t \in Threads, NEW op, NEW pc, Accept(t, op, pc),
         \/ t = Udp /\ op \in {"SNG", "TRY", "QUT"} /\ pc = "exists"
         \/ t \in Workers /\ op = "STR" /\ pc = "header"
  PROVE  Kinds' /\ OthersSame(t) /\ (t = Udp => thread'[t].pc = "exists")
                /\ (t \in Workers => thread'[t].pc = "header")
<1>1. thread'[t] = [Idle EXCEPT !.pc = pc, !.op = op, !.tstamp = now] /\ OthersSame(t)
  BY TypeParts DEF Accept, OthersSame
<1>2. KindOK(t)'
  BY <1>1, UdpAssumption DEF KindOK, Closing, Idle
<1> QED BY <1>1, <1>2, KindOfOthers, UdpAssumption DEF Idle

LEMMA GotoKind ==
  ASSUME TypeOK, Kinds, NEW t \in Threads, NEW pc, Goto(t, pc),
         thread[t].pc # "idle", t \in Workers => pc = "rename",
         pc \in {"exists", "header", "truncate", "parse", "quit", "write",
                 "rename", "score", "score2", "reply"},
         pc = "parse" => thread[t].op = "TRY",
         pc = "truncate" => thread[t].op = "SNG",
         pc \in {"write", "rename"} => Closing(t),
         pc = "rename" => thread[t].ending # "none",
         pc \in {"score", "score2"} => thread[t].op = "TRY" /\ thread[t].ending = "W",
         thread[t].game # 0 => pc \in {"write", "rename", "score", "score2", "reply"}
  PROVE  Kinds'
<1>1. /\ thread'[t].pc = pc /\ OthersSame(t)
      /\ thread'[t].op = thread[t].op /\ thread'[t].ending = thread[t].ending
      /\ thread'[t].game = thread[t].game /\ thread'[t].trial = thread[t].trial
  BY AfterGoto
<1>2. KindOK(t)
  BY DEF Kinds
<1>3. KindOK(t)'
  BY <1>1, <1>2, UdpAssumption DEF KindOK, Closing, At
<1> QED BY <1>1, <1>3, KindOfOthers

LEMMA OpenKind ==
  ASSUME TypeOK, Kinds, NEW t \in Threads, NEW e \in {"T", "Q"}, EndWith(t, e),
         thread[t].pc \in {"header", "quit"}, e = "Q" => thread[t].op = "QUT"
  PROVE  Kinds'
<1>1. /\ thread'[t].pc = "open" /\ thread'[t].ending = e /\ OthersSame(t)
      /\ thread'[t].op = thread[t].op /\ thread'[t].game = thread[t].game
      /\ thread'[t].trial = thread[t].trial
  BY AfterEndWith
<1>2. KindOK(t)
  BY DEF Kinds
<1>3. thread[t].pc = "quit" => t = Udp
  BY <1>2 DEF KindOK, Threads
<1>4. t \in Workers => e = "T"
  BY <1>2, UdpAssumption DEF KindOK
<1>5. KindOK(t)'
  BY <1>1, <1>2, <1>4, UdpAssumption DEF KindOK, Closing, At
<1> QED BY <1>1, <1>5, KindOfOthers

LEMMA ReadingKinds ==
  ASSUME TypeOK, ScoreInv, Kinds, NEW t \in Threads,
         existsCheck(t) \/ parseHeader(t) \/ parseForQuit(t) \/ replyOK(t)
  PROVE  Kinds'
<1>1. KindOK(t) /\ ThreadOK(t)
  BY DEF Kinds, ScoreInv
<1>2. CASE Finish(t)
  BY <1>2, Finished, KindOfOthers
<1>3. CASE existsCheck(t) /\ ~Finish(t)
  <2>1. thread[t].pc = "exists" /\ t \notin Workers /\ thread[t].game = 0
    BY <1>1, <1>3 DEF existsCheck, At, KindOK
  <2>2. Goto(t, "header") \/ (thread[t].op = "SNG" /\ Goto(t, "truncate"))
    BY <1>3 DEF existsCheck, Refuse
  <2> QED BY <2>1, <2>2, GotoKind
<1>4. CASE parseHeader(t) /\ ~Finish(t)
  <2>1. thread[t].pc = "header" /\ thread[t].game = 0
        /\ (t \in Workers => thread[t].op = "STR")
    BY <1>1, <1>4 DEF parseHeader, At, KindOK
  <2>2. \/ EndWith(t, "T")
        \/ thread[t].op = "SNG" /\ Goto(t, "truncate")
        \/ thread[t].op = "TRY" /\ Goto(t, "parse")
        \/ thread[t].op = "QUT" /\ Goto(t, "quit")
    BY <1>4 DEF parseHeader, Refuse
  <2> QED BY <2>1, <2>2, GotoKind, OpenKind
<1>5. CASE parseForQuit(t) /\ ~Finish(t)
  <2>1. thread[t].pc = "quit" /\ thread[t].op = "QUT"
    BY <1>1, <1>5 DEF parseForQuit, At, ThreadOK
  <2>2. EndWith(t, "Q")
    BY <1>5 DEF parseForQuit, Refuse
  <2> QED BY <2>1, <2>2, OpenKind
<1> QED BY <1>2, <1>3, <1>4, <1>5 DEF replyOK

(* What attempt has found in the file, and what it remembers of it. *)
Remembers(t, pc, g, trial, e) ==
  thread' = [thread EXCEPT ![t].pc = pc, ![t].guess = g, ![t].trial = trial,
               ![t].ending = e, ![t].game = GameIn(game)]

FindsRepeated(t, g, trial) ==
  /\ trial = Cardinality(TrialsIn(game)) /\ AttemptIs(game, trial, g)
  /\ Remembers(t, "reply", g, trial, "none")

FindsNew(t, g, trial, won) ==
  /\ trial = Cardinality(TrialsIn(game)) + 1
  /\ \A i \in TrialsIn(game) : disk[game][i].guess # g
  /\ Remembers(t, "open", g, trial, EndingOf(trial, won))

LEMMA AttemptCases ==
  ASSUME NEW t \in Threads, parseAttempts(t)
  PROVE  \/ Refuse(t)
         \/ /\ game # 0
            /\ \E g \in Guesses, trial \in Trials :
                 \/ FindsRepeated(t, g, trial)
                 \/ \E won \in Wins(game, g) : FindsNew(t, g, trial, won)
<1> DEFINE n == Cardinality(TrialsIn(game))
<1> SUFFICES ASSUME ~Refuse(t)
             PROVE  /\ game # 0
                    /\ \E g \in Guesses, trial \in Trials :
                         \/ FindsRepeated(t, g, trial)
                         \/ \E won \in Wins(game, g) : FindsNew(t, g, trial, won)
  OBVIOUS
<1>1. /\ game # 0
      /\ \E g \in Guesses, trial \in Trials :
           \/ /\ trial = n /\ AttemptIs(game, n, g)
              /\ Remembers(t, "reply", g, trial, "none")
           \/ /\ trial = n + 1 /\ \A i \in TrialsIn(game) : disk[game][i].guess # g
              /\ \E won \in Wins(game, g) : Remembers(t, "open", g, trial, EndingOf(trial, won))
  BY Zenon DEF parseAttempts, Remembers
<1> QED BY <1>1, Zenon DEF FindsRepeated, FindsNew

LEMMA RememberedFields ==
  ASSUME TypeOK, NEW t \in Threads, NEW pc, NEW g, NEW trial, NEW e,
         Remembers(t, pc, g, trial, e)
  PROVE  /\ thread'[t].pc = pc /\ thread'[t].guess = g /\ thread'[t].trial = trial
         /\ thread'[t].ending = e /\ thread'[t].game = GameIn(game)
         /\ thread'[t].op = thread[t].op /\ OthersSame(t)
  BY TypeParts DEF Remembers, OthersSame, ThreadIn

LEMMA AttemptsKinds ==
  ASSUME TypeOK, Kinds, NEW t \in Threads, parseAttempts(t)
  PROVE  Kinds'
<1>1. KindOK(t) /\ thread[t].pc = "parse"
  BY DEF Kinds, parseAttempts, At
<1>2. thread[t].op = "TRY" /\ t \notin Workers
  BY <1>1 DEF KindOK
<1>3. CASE Refuse(t)
  BY <1>3, Finished, KindOfOthers DEF Refuse
<1>4. ASSUME NEW g, NEW trial, FindsRepeated(t, g, trial) PROVE Kinds'
  <2>1. /\ thread'[t].pc = "reply" /\ thread'[t].op = "TRY" /\ thread'[t].ending = "none"
        /\ OthersSame(t)
    BY <1>2, <1>4, RememberedFields DEF FindsRepeated
  <2>2. KindOK(t)'
    BY <1>2, <2>1 DEF KindOK, Closing, At
  <2> QED BY <2>1, <2>2, KindOfOthers
<1>5. ASSUME NEW g, NEW trial, NEW won, FindsNew(t, g, trial, won) PROVE Kinds'
  <2>1. /\ thread'[t].pc = "open" /\ thread'[t].op = "TRY" /\ OthersSame(t)
        /\ thread'[t].ending = EndingOf(trial, won)
    BY <1>2, <1>5, RememberedFields DEF FindsNew
  <2>2. EndingOf(trial, won) \in {"none", "W", "L"}
    BY DEF EndingOf
  <2>3. KindOK(t)'
    BY <1>2, <2>1, <2>2 DEF KindOK, Closing, At
  <2> QED BY <2>1, <2>3, KindOfOthers
<1> QED BY <1>3, <1>4, <1>5, AttemptCases

LEMMA WritingKinds ==
  ASSUME TypeOK, ScoreInv, Kinds, NEW t \in Threads,
         \/ truncateGame(t) \/ writeHeader(t) \/ openForAppend(t) \/ appendLines(t)
         \/ renameGame(t) \/ createScore(t) \/ writeScore(t)
  PROVE  Kinds'
<1>1. KindOK(t) /\ ThreadOK(t)
  BY DEF Kinds, ScoreInv
<1>2. CASE truncateGame(t)
  <2>1. /\ thread'[t] = [thread[t] EXCEPT !.pc = "create", !.file = game'] /\ OthersSame(t)
        /\ thread[t].pc = "truncate"
    BY <1>2, TypeParts DEF truncateGame, OthersSame, At
  <2>2. /\ thread'[t].pc = "create" /\ thread'[t].op = thread[t].op
        /\ thread'[t].game = thread[t].game /\ thread'[t].trial = thread[t].trial
    BY <2>1, TypeParts DEF ThreadIn
  <2>3. KindOK(t)'
    BY <1>1, <2>1, <2>2 DEF KindOK, Closing, At
  <2> QED BY <2>1, <2>3, KindOfOthers
<1>3. CASE writeHeader(t)
  <2>1. /\ thread'[t] = [thread[t] EXCEPT !.pc = "reply", !.game = started + 1]
        /\ OthersSame(t) /\ thread[t].pc = "create"
    BY <1>3, TypeParts DEF writeHeader, OthersSame, At
  <2>2. /\ thread'[t].pc = "reply" /\ thread'[t].op = thread[t].op
        /\ thread'[t].trial = thread[t].trial
    BY <2>1, TypeParts DEF ThreadIn
  <2>3. KindOK(t)'
    BY <1>1, <2>1, <2>2 DEF KindOK, Closing, At
  <2> QED BY <2>1, <2>3, KindOfOthers
<1>4. CASE openForAppend(t)
  <2>1. /\ thread'[t] = [thread[t] EXCEPT !.pc = "write", !.file = game'] /\ OthersSame(t)
        /\ thread[t].pc = "open"
    BY <1>4, TypeParts DEF openForAppend, OthersSame, At, AfterOpen
  <2>2. /\ thread'[t].pc = "write" /\ thread'[t].op = thread[t].op
        /\ thread'[t].game = thread[t].game /\ thread'[t].trial = thread[t].trial
        /\ thread'[t].ending = thread[t].ending
    BY <2>1, TypeParts DEF ThreadIn
  <2>3. KindOK(t)'
    BY <1>1, <2>1, <2>2 DEF KindOK, Closing, At
  <2> QED BY <2>1, <2>3, KindOfOthers
<1>5. CASE appendLines(t)
  <2>1. thread[t].pc = "write" /\ Closing(t)
    BY <1>5 DEF appendLines, At, Closing
  <2>2. t \in Workers => thread[t].ending = "T"
    BY <1>1, <2>1 DEF KindOK
  <2>3. \/ thread[t].ending = "none" /\ Goto(t, "reply")
        \/ thread[t].ending # "none" /\ Goto(t, "rename")
    BY <1>5 DEF appendLines, AfterWrite
  <2> QED BY <2>1, <2>2, <2>3, GotoKind
<1>6. CASE renameGame(t)
  <2>1. thread[t].pc = "rename" /\ Closing(t)
    BY <1>6 DEF renameGame, At, Closing
  <2>2. /\ t \in Workers => thread[t].ending = "T" /\ thread[t].op = "STR"
        /\ thread[t].game # 0 => thread[t].ending # "T"
        /\ thread[t].ending = "W" => thread[t].op = "TRY"
    BY <1>1, <2>1 DEF KindOK
  <2>3. \/ Finish(t)
        \/ thread[t].ending = "W" /\ Goto(t, "score")
        \/ thread[t].ending = "Q" /\ Goto(t, "reply")
        \/ thread[t].ending = "T" /\ thread[t].op = "SNG" /\ Goto(t, "truncate")
    BY <1>6 DEF renameGame, AfterRename, Refuse
  <2> QED BY <2>1, <2>2, <2>3, GotoKind, Finished, KindOfOthers
<1>7. CASE createScore(t) \/ writeScore(t)
  <2>1. thread[t].pc \in {"score", "score2"}
    BY <1>7 DEF createScore, writeScore, At
  <2>2. thread[t].op = "TRY" /\ thread[t].ending = "W" /\ t \notin Workers
    BY <1>1, <2>1 DEF KindOK
  <2>3. Goto(t, "score2") \/ Goto(t, "reply")
    BY <1>7 DEF createScore, writeScore
  <2> QED BY <2>1, <2>2, <2>3, GotoKind
<1> QED BY <1>2, <1>3, <1>4, <1>5, <1>6, <1>7

LEMMA KindsStep ==
  ASSUME TypeOK, ScoreInv, Kinds, [Next]_vars
  PROVE  Kinds'
<1> USE DEF Threads
<1>1. CASE receiveStart \/ receiveTry \/ receiveQuit
  BY <1>1, AcceptKinds DEF receiveStart, receiveTry, receiveQuit
<1>2. ASSUME NEW w \in Workers, receiveShowTrials(w) PROVE Kinds'
  BY <1>2, AcceptKinds DEF receiveShowTrials
<1>3. ASSUME NEW t \in Threads, handler(t) PROVE Kinds'
  BY <1>3, ReadingKinds, AttemptsKinds, WritingKinds DEF handler
<1>4. CASE crash
  BY <1>4, KindIdle DEF crash, Kinds
<1>5. CASE Tick \/ UNCHANGED vars
  <2>1. thread' = thread
    BY <1>5 DEF Tick, vars
  <2> QED BY <2>1 DEF Kinds, KindOK, Closing, At
<1> QED BY <1>1, <1>2, <1>3, <1>4, <1>5 DEF Next

-----------------------------------------------------------------------------
(* What is told of a file depends on its lines only. *)
LEMMA SameLines ==
  ASSUME NEW f, disk'[f] = disk[f]
  PROVE  /\ HasHeader(f)' <=> HasHeader(f)
         /\ GameIn(f)' = GameIn(f)
         /\ \A i : TrialsTo(f, i)' = TrialsTo(f, i) /\ FootersTo(f, i)' = FootersTo(f, i)
         /\ TrialsIn(f)' = TrialsIn(f)
         /\ \A line : EndsWith(f, line)' <=> EndsWith(f, line)
         /\ FileFits(f)' <=> FileFits(f)
         /\ \A a : StoredIn(a, f)' <=> StoredIn(a, f)
<1>1. HasHeader(f)' <=> HasHeader(f)
  BY DEF HasHeader, StartsWith
<1>2. GameIn(f)' = GameIn(f)
  BY <1>1 DEF GameIn
<1>3. \A i : TrialsTo(f, i)' = TrialsTo(f, i) /\ FootersTo(f, i)' = FootersTo(f, i)
  BY DEF TrialsTo, FootersTo
<1>4. TrialsIn(f)' = TrialsIn(f)
  BY <1>3 DEF TrialsIn
<1>5. \A line : EndsWith(f, line)' <=> EndsWith(f, line)
  BY DEF EndsWith
<1>6. \A i : Fits(f, i)' <=> Fits(f, i)
  BY <1>3 DEF Fits
<1>7. FileFits(f)' <=> FileFits(f)
  BY <1>3, <1>6 DEF FileFits
<1>8. \A k, g : AttemptIs(f, k, g)' <=> AttemptIs(f, k, g)
  BY <1>3, <1>4 DEF AttemptIs
<1>9. \A a : StoredIn(a, f)' <=> StoredIn(a, f)
  BY <1>2, <1>8 DEF StoredIn
<1> QED BY <1>1, <1>2, <1>3, <1>4, <1>5, <1>7, <1>9

TrialsOf(lines, i) == {j \in 2..i : IsTrial(lines[j])}
FootersOf(lines, i) == {j \in 1..i : IsFooter(lines[j])}

LEMMA FiniteTrials ==
  ASSUME NEW lines, NEW i \in Nat
  PROVE  /\ IsFiniteSet(TrialsOf(lines, i)) /\ Cardinality(TrialsOf(lines, i)) \in Nat
         /\ IsFiniteSet(FootersOf(lines, i)) /\ Cardinality(FootersOf(lines, i)) \in Nat
<1>1. IsFiniteSet(1..i)
  BY FS_Interval
<1>2. TrialsOf(lines, i) \subseteq 1..i /\ FootersOf(lines, i) \subseteq 1..i
  BY DEF TrialsOf, FootersOf
<1> QED BY <1>1, <1>2, FS_Subset, FS_CardinalityType

(* Lines without a header are appended. *)
LEMMA Appended ==
  ASSUME NEW f \in Nat \ {0}, disk[f] \in Seq(Line), NEW m \in Seq(Line),
         \A k \in 1..Len(m) : m[k].kind # "header",
         disk'[f] = disk[f] \o m
  PROVE  LET n == Len(disk[f]) IN
         /\ n \in Nat /\ disk'[f] \in Seq(Line) /\ Len(disk'[f]) = n + Len(m)
         /\ \A i \in 1..n : disk'[f][i] = disk[f][i]
         /\ \A k \in 1..Len(m) : disk'[f][n + k] = m[k]
         /\ HasHeader(f)' <=> HasHeader(f)
         /\ GameIn(f)' = GameIn(f)
         /\ \A i \in 0..n : TrialsTo(f, i)' = TrialsTo(f, i) /\ FootersTo(f, i)' = FootersTo(f, i)
         /\ \A i \in 1..n : Fits(f, i)' <=> Fits(f, i)
         /\ \A a : StoredIn(a, f) => StoredIn(a, f)'
<1> DEFINE n == Len(disk[f])
<1>1. /\ n \in Nat /\ disk'[f] \in Seq(Line) /\ Len(disk'[f]) = n + Len(m)
      /\ Len(m) \in Nat
      /\ \A i \in 1..n : disk'[f][i] = disk[f][i]
      /\ \A k \in 1..Len(m) : disk'[f][n + k] = m[k]
  BY ConcatProperties, LenProperties
<1>2. HasHeader(f)' <=> HasHeader(f)
  <2>1. CASE n = 0
    <3>1. disk[f] = <<>> /\ ~HasHeader(f)
      BY <2>1, EmptySeq DEF HasHeader, StartsWith
    <3>2. disk'[f] # <<>> => Len(m) > 0 /\ disk'[f][1] = m[1]
      BY <1>1, <2>1, EmptySeq
    <3>3. disk'[f] # <<>> => disk'[f][1].kind # "header"
      BY <1>1, <3>2
    <3> QED BY <3>1, <3>3 DEF HasHeader, StartsWith
  <2>2. CASE n # 0
    <3>1. disk[f] # <<>> /\ disk'[f] # <<>>
      BY <1>1, <2>2, EmptySeq
    <3>2. disk'[f][1] = disk[f][1]
      BY <1>1, <2>2
    <3> QED BY <3>1, <3>2 DEF HasHeader, StartsWith
  <2> QED BY <2>1, <2>2
<1>3. GameIn(f)' = GameIn(f)
  <2>1. CASE HasHeader(f)
    <3>1. n # 0
      BY <2>1, EmptySeq, <1>1 DEF HasHeader, StartsWith
    <3> QED BY <1>1, <1>2, <2>1, <3>1 DEF GameIn
  <2> QED BY <1>2, <2>1 DEF GameIn
<1>4. \A i \in 0..n : TrialsTo(f, i)' = TrialsTo(f, i) /\ FootersTo(f, i)' = FootersTo(f, i)
  BY <1>1 DEF TrialsTo, FootersTo
<1>5. \A i \in 1..n : Fits(f, i)' <=> Fits(f, i)
  <2> SUFFICES ASSUME NEW i \in 1..n PROVE Fits(f, i)' <=> Fits(f, i)
    OBVIOUS
  <2>1. i - 1 \in 0..n /\ disk'[f][i] = disk[f][i]
    BY <1>1
  <2>2. TrialsTo(f, i - 1)' = TrialsTo(f, i - 1)
    BY <1>4, <2>1
  <2>3. \A j \in TrialsTo(f, i - 1) : disk'[f][j] = disk[f][j]
    BY <1>1 DEF TrialsTo
  <2> HIDE DEF n
  <2> QED BY <2>1, <2>2, <2>3 DEF Fits
<1>6. ASSUME NEW k, NEW g, AttemptIs(f, k, g) PROVE AttemptIs(f, k, g)'
  <2>1. PICK i \in TrialsIn(f) : Cardinality(TrialsTo(f, i)) = k /\ disk[f][i].guess = g
    BY <1>6 DEF AttemptIs
  <2>2. i \in 2..n /\ IsTrial(disk[f][i])
    BY <2>1 DEF TrialsIn, TrialsTo
  <2>3. i \in TrialsIn(f)'
    BY <1>1, <2>2 DEF TrialsIn, TrialsTo
  <2>4. TrialsTo(f, i)' = TrialsTo(f, i) /\ disk'[f][i] = disk[f][i]
    BY <1>1, <1>4, <2>2
  <2> HIDE DEF n
  <2> QED BY <2>1, <2>3, <2>4 DEF AttemptIs
<1>7. \A a : StoredIn(a, f) => StoredIn(a, f)'
  BY <1>3, <1>6 DEF StoredIn
<1> QED BY <1>1, <1>2, <1>3, <1>4, <1>5, <1>7

(* A line after the first i counts if it is an attempt; the first line of  *)
(* a file never does.                                                      *)
LEMMA OneMore ==
  ASSUME NEW lines, NEW i \in Nat
  PROVE  /\ i # 0 =>
              /\ TrialsOf(lines, i + 1) =
                   IF IsTrial(lines[i + 1]) THEN TrialsOf(lines, i) \cup {i + 1}
                   ELSE TrialsOf(lines, i)
              /\ Cardinality(TrialsOf(lines, i + 1)) =
                   Cardinality(TrialsOf(lines, i)) + (IF IsTrial(lines[i + 1]) THEN 1 ELSE 0)
         /\ FootersOf(lines, i + 1) =
              IF IsFooter(lines[i + 1]) THEN FootersOf(lines, i) \cup {i + 1}
              ELSE FootersOf(lines, i)
         /\ Cardinality(FootersOf(lines, i + 1)) =
              Cardinality(FootersOf(lines, i)) + (IF IsFooter(lines[i + 1]) THEN 1 ELSE 0)
<1>1. /\ 1..(i + 1) = (1..i) \cup {i + 1}
      /\ i # 0 => 2..(i + 1) = (2..i) \cup {i + 1}
  OBVIOUS
<1>2. i # 0 =>
        TrialsOf(lines, i + 1) =
          IF IsTrial(lines[i + 1]) THEN TrialsOf(lines, i) \cup {i + 1} ELSE TrialsOf(lines, i)
  BY <1>1 DEF TrialsOf
<1>3. FootersOf(lines, i + 1) =
        IF IsFooter(lines[i + 1]) THEN FootersOf(lines, i) \cup {i + 1}
        ELSE FootersOf(lines, i)
  BY <1>1 DEF FootersOf
<1>4. i + 1 \notin TrialsOf(lines, i) /\ i + 1 \notin FootersOf(lines, i)
  BY DEF TrialsOf, FootersOf
<1> QED BY <1>2, <1>3, <1>4, FiniteTrials, FS_AddElement

LEMMA OfFile ==
  /\ \A f, i : TrialsTo(f, i) = TrialsOf(disk[f], i) /\ FootersTo(f, i) = FootersOf(disk[f], i)
  /\ \A f, i : TrialsTo(f, i)' = TrialsOf(disk'[f], i) /\ FootersTo(f, i)' = FootersOf(disk'[f], i)
  BY DEF TrialsTo, TrialsOf, FootersTo, FootersOf

-----------------------------------------------------------------------------
(* The same for any lines, so that a file can grow a line at a time. *)
FitsOf(lines, i) ==
  LET before == TrialsOf(lines, i - 1)
      won == \E j \in before : lines[j].guess = Secret
  IN
  IF IsTrial(lines[i])
  THEN /\ ~won /\ Cardinality(before) < GuessesMax
       /\ \A j \in before : lines[j].guess # lines[i].guess
  ELSE IsFooter(lines[i]) =>
         /\ won <=> lines[i].ending = "W"
         /\ lines[i].ending # "W" =>
              (lines[i].ending = "L" <=> Cardinality(before) = GuessesMax)

ProperGame(lines) ==
  \A i \in 1..Len(lines) : FootersOf(lines, i - 1) = {} => FitsOf(lines, i)

NoFooter(lines) == FootersOf(lines, Len(lines)) = {}

Guessed(lines, g) == \E j \in TrialsOf(lines, Len(lines)) : lines[j].guess = g

TrialCount(lines) == Cardinality(TrialsOf(lines, Len(lines)))

LEMMA FitsOfFile ==
  /\ \A f : FileFits(f) <=> ProperGame(disk[f])
  /\ \A f : FileFits(f)' <=> ProperGame(disk'[f])
<1>1. \A f, i : Fits(f, i) <=> FitsOf(disk[f], i)
  BY OfFile DEF Fits, FitsOf
<1>2. \A f, i : Fits(f, i)' <=> FitsOf(disk'[f], i)
  BY OfFile DEF Fits, FitsOf
<1>3. \A f : FileFits(f) <=> ProperGame(disk[f])
  BY <1>1, OfFile DEF FileFits, ProperGame
<1>4. \A f : FileFits(f)' <=> ProperGame(disk'[f])
  BY <1>2, OfFile DEF FileFits, ProperGame
<1> QED BY <1>3, <1>4

Adds(s, lines, line) ==
  /\ Len(lines) \in Nat /\ Len(s) = Len(lines) + 1
  /\ \A i \in 1..Len(lines) : s[i] = lines[i]
  /\ s[Len(lines) + 1] = line

LEMMA AddedSame ==
  ASSUME NEW s, NEW lines, NEW line, Adds(s, lines, line)
  PROVE  /\ \A i \in 0..Len(lines) : /\ TrialsOf(s, i) = TrialsOf(lines, i)
                                     /\ FootersOf(s, i) = FootersOf(lines, i)
         /\ \A i \in 1..Len(lines) : FitsOf(s, i) <=> FitsOf(lines, i)
<1>1. \A i \in 0..Len(lines) : /\ TrialsOf(s, i) = TrialsOf(lines, i)
                               /\ FootersOf(s, i) = FootersOf(lines, i)
  BY DEF Adds, TrialsOf, FootersOf
<1>2. ASSUME NEW i \in 1..Len(lines) PROVE FitsOf(s, i) <=> FitsOf(lines, i)
  <2>1. s[i] = lines[i] /\ i - 1 \in 0..Len(lines)
    BY DEF Adds
  <2>2. TrialsOf(s, i - 1) = TrialsOf(lines, i - 1)
    BY <1>1, <2>1
  <2>3. \A j \in TrialsOf(lines, i - 1) : s[j] = lines[j]
    BY DEF Adds, TrialsOf
  <2> QED BY <2>1, <2>2, <2>3 DEF FitsOf
<1> QED BY <1>1, <1>2

LEMMA AddedFits ==
  ASSUME NEW s, NEW lines, NEW line, Adds(s, lines, line), ProperGame(lines),
         NoFooter(lines) => FitsOf(s, Len(lines) + 1)
  PROVE  ProperGame(s)
<1> SUFFICES ASSUME NEW i \in 1..(Len(lines) + 1), FootersOf(s, i - 1) = {}
             PROVE  FitsOf(s, i)
  BY DEF ProperGame, Adds
<1>1. Len(lines) \in Nat /\ i - 1 \in 0..Len(lines)
  BY DEF Adds
<1>2. FootersOf(lines, i - 1) = {}
  BY <1>1, AddedSame
<1>3. CASE i \in 1..Len(lines)
  BY <1>2, <1>3, AddedSame DEF ProperGame
<1>4. CASE i = Len(lines) + 1
  <2>1. i - 1 = Len(lines)
    BY <1>1, <1>4
  <2> QED BY <1>2, <1>4, <2>1 DEF NoFooter
<1> QED BY <1>1, <1>3, <1>4

(* An attempt nobody made yet, in a game that is not over. *)
LEMMA AttemptAdded ==
  ASSUME NEW s, NEW lines, NEW g, Adds(s, lines, Trial(g)), ProperGame(lines),
         NoFooter(lines) => ~Guessed(lines, Secret) /\ TrialCount(lines) < GuessesMax,
         ~Guessed(lines, g), Len(lines) # 0
  PROVE  /\ ProperGame(s)
         /\ TrialCount(s) = TrialCount(lines) + 1 /\ TrialCount(lines) \in Nat
         /\ NoFooter(s) <=> NoFooter(lines)
         /\ \A h : Guessed(s, h) <=> Guessed(lines, h) \/ h = g
<1> DEFINE n == Len(lines)
<1>1. n \in Nat /\ n # 0 /\ s[n + 1] = Trial(g) /\ (n + 1) - 1 = n /\ Len(s) = n + 1
  BY DEF Adds
<1>2. IsTrial(s[n + 1]) /\ ~IsFooter(s[n + 1]) /\ s[n + 1].guess = g
  BY <1>1 DEF IsTrial, IsFooter, Trial
<1>3. TrialsOf(s, n) = TrialsOf(lines, n) /\ FootersOf(s, n) = FootersOf(lines, n)
  BY <1>1, AddedSame
<1>4. \A j \in TrialsOf(lines, n) : s[j] = lines[j]
  BY DEF Adds, TrialsOf
<1>5. NoFooter(lines) => FitsOf(s, n + 1)
  BY <1>1, <1>2, <1>3, <1>4 DEF FitsOf, Guessed, TrialCount
<1>6. /\ TrialsOf(s, n + 1) = TrialsOf(lines, n) \cup {n + 1}
      /\ Cardinality(TrialsOf(s, n + 1)) = Cardinality(TrialsOf(lines, n)) + 1
      /\ FootersOf(s, n + 1) = FootersOf(lines, n)
  BY <1>1, <1>2, <1>3, OneMore
<1>7. TrialCount(s) = TrialCount(lines) + 1 /\ TrialCount(lines) \in Nat
  BY <1>1, <1>6, FiniteTrials DEF TrialCount
<1>8. NoFooter(s) <=> NoFooter(lines)
  BY <1>1, <1>6 DEF NoFooter
<1>9. \A h : Guessed(s, h) <=> Guessed(lines, h) \/ h = g
  <2> HIDE DEF n
  <2>1. \A h : (\E j \in TrialsOf(s, n + 1) : s[j].guess = h) <=>
                 (\E j \in TrialsOf(lines, n) : lines[j].guess = h) \/ h = g
    BY <1>2, <1>4, <1>6
  <2> QED BY <1>1, <2>1 DEF Guessed, n
<1> QED BY <1>5, <1>7, <1>8, <1>9, AddedFits

(* The footer that says how the attempts ended the game. *)
LEMMA FooterAdded ==
  ASSUME NEW s, NEW lines, NEW e, NEW tstamp, Adds(s, lines, Footer(e, tstamp)),
         ProperGame(lines),
         NoFooter(lines) => /\ Guessed(lines, Secret) <=> e = "W"
                            /\ e # "W" => (e = "L" <=> TrialCount(lines) = GuessesMax)
  PROVE  ProperGame(s) /\ ~NoFooter(s)
<1> DEFINE n == Len(lines)
<1>1. n \in Nat /\ s[n + 1] = Footer(e, tstamp) /\ (n + 1) - 1 = n /\ Len(s) = n + 1
  BY DEF Adds
<1>2. IsFooter(s[n + 1]) /\ ~IsTrial(s[n + 1]) /\ s[n + 1].ending = e
  BY <1>1 DEF IsTrial, IsFooter, Footer
<1>3. TrialsOf(s, n) = TrialsOf(lines, n)
  BY <1>1, AddedSame
<1>4. \A j \in TrialsOf(lines, n) : s[j] = lines[j]
  BY DEF Adds, TrialsOf
<1>5. NoFooter(lines) => FitsOf(s, n + 1)
  BY <1>1, <1>2, <1>3, <1>4 DEF FitsOf, Guessed, TrialCount
<1>6. n + 1 \in FootersOf(s, n + 1)
  BY <1>1, <1>2 DEF FootersOf
<1> QED BY <1>1, <1>5, <1>6, AddedFits DEF NoFooter

-----------------------------------------------------------------------------
Inv == TypeOK /\ ScoreInv

LEMMA Start == Init => Inv
<1> SUFFICES ASSUME Init PROVE Inv
  OBVIOUS
<1>1. disk = <<>> /\ disk \in Seq(Seq(Line)) /\ Len(disk) = 0
  BY EmptySeq DEF Init
<1>2. thread \in [Threads -> ThreadIn(Len(disk))]
  BY <1>1, IdleTyped DEF Init
<1>3. archive = <<>> /\ DOMAIN archive = {}
  <2>1. archive = <<>>
    BY DEF Init
  <2> QED BY <2>1, EmptySeq
<1>4. DiskOK
  BY <1>1, <1>3 DEF Init, DiskOK
<1>5. TypeOK
  BY <1>2, <1>4, TypeParts DEF Init
<1>6. ScoreInv
  BY DEF Init, Idle, ScoreInv, ScoreHasWin, ThreadOK
<1> QED BY <1>5, <1>6 DEF Inv

LEMMA Step == Inv /\ [Next]_vars => Inv'
<1> SUFFICES ASSUME TypeOK, ScoreInv, [Next]_vars PROVE TypeOK' /\ ScoreInv'
  BY DEF Inv
<1> USE DEF Threads
<1>1. CASE receiveStart
  BY <1>1, AcceptTyped, AcceptScores DEF receiveStart
<1>2. CASE receiveTry
  BY <1>2, AcceptTyped, AcceptScores DEF receiveTry
<1>3. CASE receiveQuit
  BY <1>3, AcceptTyped, AcceptScores DEF receiveQuit
<1>4. ASSUME NEW w \in Workers, receiveShowTrials(w) PROVE TypeOK' /\ ScoreInv'
  BY <1>4, AcceptTyped, AcceptScores DEF receiveShowTrials
<1>5. ASSUME NEW t \in Threads, handler(t) PROVE TypeOK' /\ ScoreInv'
  <2>1. CASE existsCheck(t) \/ parseHeader(t) \/ parseForQuit(t) \/ replyOK(t)
    BY <2>1, ReadingTyped, ReadingScores
  <2>2. CASE truncateGame(t)
    BY <2>2, TruncateTyped, NewGameScores
  <2>3. CASE writeHeader(t)
    BY <2>3, HeaderTyped, NewGameScores
  <2>4. CASE parseAttempts(t)
    BY <2>4, AttemptsTyped, AttemptsScores
  <2>5. CASE openForAppend(t)
    BY <2>5, OpenTyped, OpenScores
  <2>6. CASE appendLines(t)
    BY <2>6, AppendTyped, AppendScores
  <2>7. CASE renameGame(t)
    BY <2>7, RenameTyped, RenameScores
  <2>8. CASE createScore(t) \/ writeScore(t)
    BY <2>8, ScoreStepsTyped, ScoreScores
  <2> QED BY <1>5, <2>1, <2>2, <2>3, <2>4, <2>5, <2>6, <2>7, <2>8 DEF handler
<1>6. CASE crash \/ Tick
  BY <1>6, EnvironmentTyped, EnvironmentScores
<1>7. CASE UNCHANGED vars
  <2>1. /\ UNCHANGED <<now, started, crashes, raced, disk, game, archive, thread, scores>>
    BY <1>7 DEF vars, files
  <2>2. TypeOK'
    BY <2>1 DEF TypeOK, ThreadState
  <2>3. ScoreInv'
    BY <2>1 DEF ScoreInv, ScoreHasWin, ThreadOK
  <2> QED BY <2>2, <2>3
<1> QED BY <1>1, <1>2, <1>3, <1>4, <1>5, <1>6, <1>7 DEF Next

(* Whatever the threads and the crashes do, every file keeps to the format *)
(* of a game file, and every name and every thread refers to a file there. *)
THEOREM TypeCorrect == Spec => []TypeOK
<1>1. Inv => TypeOK
  BY DEF Inv
<1> QED BY Start, Step, <1>1, PTL DEF Spec

(* saveGameScore comes after endGame's rename: whenever the process is     *)
(* killed, and whatever the workers do meanwhile, a score on the board has *)
(* its game in the archive, as won, in that second.                        *)
THEOREM ScoresAreWins == Spec => []ScoreHasWin
<1>1. Inv => ScoreHasWin
  BY DEF Inv, ScoreInv
<1> QED BY Start, Step, <1>1, PTL DEF Spec


-----------------------------------------------------------------------------
(* Without a race at most one thread acts on the game file: the UDP thread *)
(* with a request, or a worker that closes the game.                       *)
Acting(t) == IF t = Udp THEN ~At(Udp, "idle") ELSE Closing(t)

OneActs == \A s, t \in Threads : Acting(s) /\ Acting(t) => s = t

LEMMA ActsAlone == ~Overlapping => OneActs
<1> SUFFICES ASSUME ~Overlapping, NEW s \in Threads, NEW t \in Threads,
                    Acting(s), Acting(t), s # t
             PROVE  FALSE
  BY DEF OneActs
<1>1. CASE s \in Workers /\ t \in Workers
  BY <1>1, UdpAssumption DEF Overlapping, Acting
<1>2. CASE s = Udp \/ t = Udp
  BY <1>2, UdpAssumption DEF Overlapping, Acting, Threads
<1> QED BY <1>1, <1>2 DEF Threads

LEMMA ActsAloneAfter == ~Overlapping' => OneActs'
<1> SUFFICES ASSUME ~Overlapping', NEW s \in Threads, NEW t \in Threads,
                    Acting(s)', Acting(t)', s # t
             PROVE  FALSE
  BY DEF OneActs
<1>1. CASE s \in Workers /\ t \in Workers
  BY <1>1, UdpAssumption DEF Overlapping, Acting
<1>2. CASE s = Udp \/ t = Udp
  BY <1>2, UdpAssumption DEF Overlapping, Acting, Threads
<1> QED BY <1>1, <1>2 DEF Threads

-----------------------------------------------------------------------------
(* What the thread that acts knows of the game file, and what an OK it is  *)
(* about to send is worth.                                                 *)
Kept(a) == a.game \in replaced \/ \E f \in Named : StoredIn(a, f)

NextAttempt(t) ==
  LET th == thread[t] IN
  /\ th.game = GameIn(game)
  /\ HasHeader(game) =>
       /\ th.trial = Cardinality(TrialsIn(game)) + 1
       /\ \A i \in TrialsIn(game) : disk[game][i].guess # th.guess
       /\ th.ending = EndingOf(th.trial, th.guess = Secret)

Knows(t) ==
  LET th == thread[t] IN
  /\ th.pc \in {"header", "parse", "quit", "create", "open", "write", "rename"} => game # 0
  /\ th.pc \in {"create", "write", "rename"} => th.file = game
  /\ th.pc = "create" => disk[game] = <<>>
  /\ th.pc = "rename" => EndsWith(game, Footer(th.ending, EndStamp(th)))
  /\ th.pc \in {"open", "write"} /\ th.op = "TRY" /\ th.ending # "T" => NextAttempt(t)
  /\ th.pc \in {"rename", "score", "score2", "reply"} /\ th.game # 0 => Kept(Ack(th))

ActorKnows == \A t \in Threads : Acting(t) => Knows(t)

(* A game without an ending can still be won. *)
StillOpen ==
  game # 0 /\ HasHeader(game) /\ FootersTo(game, Len(disk[game])) = {} =>
    /\ \A i \in TrialsIn(game) : disk[game][i].guess # Secret
    /\ Cardinality(TrialsIn(game)) < GuessesMax

NotArchived == \A n \in DOMAIN archive : archive[n] # game

FootersMatch == \A n \in DOMAIN archive : EndsWith(archive[n], Footer(n[2], n[1]))

AllFit == \A f \in Named : HasHeader(f) => FileFits(f)

AcksKept == \A a \in acks : a.game # 0 /\ Kept(a)

FilesOK == NotArchived /\ FootersMatch /\ AllFit /\ StillOpen /\ AcksKept

Solo == OneActs /\ ActorKnows /\ FilesOK

SameFiles == UNCHANGED <<disk, game, archive, replaced>>

LEMMA FilesKept ==
  ASSUME FilesOK, SameFiles, acks' = acks
  PROVE  FilesOK'
<1>1. Named' = Named
  BY DEF SameFiles, Named
<1>2. \A a : Kept(a) => Kept(a)'
  BY <1>1, SameLines DEF Kept, SameFiles
<1>3. AllFit'
  BY <1>1, SameLines DEF FilesOK, AllFit, SameFiles
<1>4. StillOpen'
  BY SameLines DEF FilesOK, StillOpen, SameFiles
<1>5. FootersMatch' /\ NotArchived'
  BY SameLines DEF FilesOK, FootersMatch, NotArchived, SameFiles
<1> QED BY <1>2, <1>3, <1>4, <1>5 DEF FilesOK, AcksKept

LEMMA KnowsKept ==
  ASSUME SameFiles, NEW t \in Threads, thread'[t] = thread[t], Knows(t)
  PROVE  Knows(t)'
<1> DEFINE th == thread[t]
<1>1. Named' = Named
  BY DEF SameFiles, Named
<1>2. Kept(Ack(th)) => Kept(Ack(th))'
  BY <1>1, SameLines DEF Kept, SameFiles
<1>3. NextAttempt(t) => NextAttempt(t)'
  BY SameLines DEF NextAttempt, SameFiles
<1>4. EndsWith(game, Footer(th.ending, EndStamp(th))) =>
        EndsWith(game, Footer(th.ending, EndStamp(th)))'
  BY SameLines DEF SameFiles
<1> QED BY <1>2, <1>3, <1>4 DEF Knows, SameFiles

(* A step of one thread, which alone may touch the files. *)
LEMMA SoloStep ==
  ASSUME Solo, NEW t \in Threads, OthersSame(t), OneActs',
         SameFiles \/ Acting(t) \/ Acting(t)',
         Acting(t)' => Knows(t)'
  PROVE  ActorKnows'
<1> SUFFICES ASSUME NEW s \in Threads, Acting(s)', s # t PROVE Knows(s)'
  BY DEF ActorKnows
<1>1. thread'[s] = thread[s] /\ Acting(s)
  BY DEF OthersSame, Acting, At, Closing
<1>2. SameFiles /\ Knows(s)
  BY <1>1 DEF Solo, OneActs, ActorKnows
<1> QED BY <1>1, <1>2, KnowsKept

LEMMA ActsAt ==
  ASSUME Kinds, NEW t \in Threads, thread[t].pc # "idle",
         t = Udp \/ thread[t].pc # "header"
  PROVE  Acting(t)
<1>1. KindOK(t)
  BY DEF Kinds
<1> QED BY <1>1 DEF KindOK, Acting, At, Closing, Threads

(* Steps that only look at the files. *)
LEMMA AcceptSolo ==
  ASSUME TypeOK, Kinds, Solo, OneActs', NEW t \in Threads, NEW op, NEW pc,
         Accept(t, op, pc),
         \/ t = Udp /\ op \in {"SNG", "TRY", "QUT"} /\ pc = "exists"
         \/ t \in Workers /\ op = "STR" /\ pc = "header"
  PROVE  Solo'
<1>1. SameFiles /\ acks' = acks
  BY DEF Accept, files, history, SameFiles
<1>2. thread'[t] = [Idle EXCEPT !.pc = pc, !.op = op, !.tstamp = now] /\ OthersSame(t)
  BY TypeParts DEF Accept, OthersSame
<1>3. thread'[t].pc = pc
  BY <1>2 DEF Idle
<1>4. Acting(t)' => Knows(t)'
  BY <1>3, UdpAssumption DEF Acting, Closing, Knows
<1> QED BY <1>1, <1>2, <1>4, SoloStep, FilesKept DEF Solo

LEMMA ReadingSolo ==
  ASSUME TypeOK, ScoreInv, Kinds, Solo, OneActs', NEW t \in Threads,
         existsCheck(t) \/ parseHeader(t) \/ parseForQuit(t)
  PROVE  Solo'
<1>1. SameFiles /\ acks' = acks
  BY DEF existsCheck, parseHeader, parseForQuit, files, history, SameFiles
<1>2. KindOK(t) /\ ThreadOK(t)
  BY DEF Kinds, ScoreInv
<1>3. CASE Finish(t)
  <2>1. thread'[t].pc = "idle" /\ OthersSame(t)
    BY <1>3, AfterFinish
  <2>2. Acting(t)' => Knows(t)'
    BY <2>1 DEF Acting, At, Closing
  <2> QED BY <1>1, <2>1, <2>2, SoloStep, FilesKept DEF Solo
<1>4. CASE ~Finish(t)
  <2>1. /\ \/ thread'[t].pc = "open" /\ (thread'[t].op = "TRY" => thread'[t].ending = "T")
           \/ thread'[t].pc \in {"header", "truncate", "parse", "quit"}
        /\ thread'[t].pc # "truncate" => game # 0
        /\ OthersSame(t)
    <3>1. CASE existsCheck(t)
      <4>1. \/ game # 0 /\ Goto(t, "header")
            \/ Goto(t, "truncate")
        BY <1>4, <3>1 DEF existsCheck, Refuse
      <4> QED BY <4>1, AfterGoto
    <3>2. CASE parseHeader(t)
      <4>1. /\ game # 0
            /\ \/ EndWith(t, "T") \/ Goto(t, "truncate") \/ Goto(t, "parse") \/ Goto(t, "quit")
        BY <1>4, <3>2 DEF parseHeader, Refuse
      <4> QED BY <4>1, AfterGoto, AfterEndWith
    <3>3. CASE parseForQuit(t)
      <4>1. game # 0 /\ EndWith(t, "Q") /\ thread[t].op = "QUT"
        BY <1>2, <1>4, <3>3 DEF parseForQuit, Refuse, At, ThreadOK
      <4> QED BY <4>1, AfterEndWith
    <3> QED BY <3>1, <3>2, <3>3
  <2>2. Knows(t)'
    BY <1>1, <2>1 DEF Knows, SameFiles
  <2> QED BY <1>1, <2>1, <2>2, SoloStep, FilesKept DEF Solo
<1> QED BY <1>3, <1>4

LEMMA HeaderOfGame ==
  ASSUME NEW f, GameIn(f) # 0
  PROVE  HasHeader(f)
  BY DEF GameIn

LEMMA WinsOfGame ==
  ASSUME NEW f, HasHeader(f), NEW g, NEW won \in Wins(f, g)
  PROVE  won = (g = Secret)
  BY DEF Wins

LEMMA AttemptsSolo ==
  ASSUME TypeOK, Kinds, Solo, OneActs', NEW t \in Threads, parseAttempts(t)
  PROVE  Solo'
<1>1. SameFiles /\ acks' = acks
  BY DEF parseAttempts, files, history, SameFiles
<1>2. CASE Refuse(t)
  <2>1. thread'[t].pc = "idle" /\ OthersSame(t)
    BY <1>2, AfterFinish DEF Refuse
  <2>2. Acting(t)' => Knows(t)'
    BY <2>1 DEF Acting, At, Closing
  <2> QED BY <1>1, <2>1, <2>2, SoloStep, FilesKept DEF Solo
<1>3. ASSUME NEW g, NEW trial, game # 0, FindsRepeated(t, g, trial) PROVE Solo'
  <2>1. /\ thread'[t].pc = "reply" /\ thread'[t].game = GameIn(game)
        /\ thread'[t].trial = trial /\ thread'[t].guess = g /\ OthersSame(t)
    BY <1>3, RememberedFields DEF FindsRepeated
  <2>2. StoredIn(Ack(thread'[t]), game)
    BY <1>3, <2>1 DEF FindsRepeated, StoredIn, Ack
  <2>3. game \in Named
    BY <1>3 DEF Named
  <2>4. Kept(Ack(thread[t]))'
    BY <1>1, <2>2, <2>3, SameLines DEF Kept, Named, SameFiles
  <2>5. Knows(t)'
    BY <2>1, <2>4 DEF Knows
  <2> QED BY <1>1, <2>1, <2>5, SoloStep, FilesKept DEF Solo
<1>4. ASSUME NEW g, NEW trial, NEW won \in Wins(game, g), game # 0,
             FindsNew(t, g, trial, won)
      PROVE  Solo'
  <2>1. /\ thread'[t].pc = "open" /\ thread'[t].game = GameIn(game)
        /\ thread'[t].trial = trial /\ thread'[t].guess = g /\ OthersSame(t)
        /\ thread'[t].ending = EndingOf(trial, won)
    BY <1>4, RememberedFields DEF FindsNew
  <2>2. HasHeader(game) => won = (g = Secret)
    BY WinsOfGame
  <2>3. NextAttempt(t)'
    BY <1>1, <1>4, <2>1, <2>2, SameLines DEF NextAttempt, SameFiles, FindsNew
  <2>4. Knows(t)'
    BY <1>1, <1>4, <2>1, <2>3 DEF Knows, SameFiles
  <2> QED BY <1>1, <2>1, <2>4, SoloStep, FilesKept DEF Solo
<1> QED BY <1>2, <1>3, <1>4, AttemptCases

-----------------------------------------------------------------------------
(* A new game replaces the file, or there was none. *)
LEMMA TypedNames ==
  ASSUME TypeOK
  PROVE  /\ DiskOK /\ Len(disk) \in Nat /\ game \in 0..Len(disk)
         /\ \A n \in DOMAIN archive : archive[n] \in 1..Len(disk)
         /\ \A f \in Named : f \in 1..Len(disk) /\ disk[f] \in Seq(Line)
<1>1. /\ DiskOK /\ Len(disk) \in Nat /\ game \in 0..Len(disk)
      /\ \A n \in DOMAIN archive : archive[n] \in 1..Len(disk)
  BY TypeParts, LenProperties DEF DiskOK
<1>2. \A f \in Named : f \in 1..Len(disk)
  BY <1>1 DEF Named
<1> QED BY <1>1, <1>2, ElementOfSeq DEF DiskOK

(* Only the file that has the game's name changes, or is new. *)
LEMMA OtherFiles ==
  ASSUME TypeOK, FilesOK, archive' = archive,
         \A f \in 1..Len(disk) : f # game => disk'[f] = disk[f],
         game' # 0, game' \in 1..Len(disk) => game' = game,
         HasHeader(game)' => FileFits(game)', StillOpen',
         \A a \in acks' : a.game # 0,
         \A a \in acks' : Kept(a)'
  PROVE  FilesOK'
<1>1. \A n \in DOMAIN archive : archive[n] \in Named /\ archive[n] \in 1..Len(disk)
        /\ archive[n] # game /\ archive[n] # game'
  BY TypedNames DEF Named, FilesOK, NotArchived
<1>2. \A n \in DOMAIN archive : disk'[archive[n]] = disk[archive[n]]
  BY <1>1
<1>3. NotArchived'
  BY <1>1 DEF NotArchived
<1>4. FootersMatch'
  BY <1>2, SameLines DEF FilesOK, FootersMatch
<1>5. AllFit'
  <2> SUFFICES ASSUME NEW f \in Named', HasHeader(f)', f # game' PROVE FileFits(f)'
    BY DEF AllFit
  <2>1. PICK n \in DOMAIN archive : f = archive[n]
    BY DEF Named
  <2>2. disk'[f] = disk[f] /\ f \in Named
    BY <1>1, <1>2, <2>1
  <2> QED BY <2>2, SameLines DEF FilesOK, AllFit
<1> QED BY <1>3, <1>4, <1>5 DEF FilesOK, AcksKept

LEMMA TruncateSolo ==
  ASSUME TypeOK, Kinds, Solo, OneActs', NEW t \in Threads, truncateGame(t)
  PROVE  Solo'
<1>1. KindOK(t) /\ thread[t].pc = "truncate" /\ Acting(t)
  BY ActsAt DEF Kinds, truncateGame, At
<1>2. /\ thread'[t].pc = "create" /\ thread'[t].file = game' /\ thread'[t].op = thread[t].op
      /\ OthersSame(t)
  <2>1. /\ thread'[t] = [thread[t] EXCEPT !.pc = "create", !.file = game']
        /\ OthersSame(t)
    BY TypeParts DEF truncateGame, OthersSame
  <2> QED BY <2>1, TypeParts DEF ThreadIn
<1>3. archive' = archive /\ acks' = acks
  BY DEF truncateGame
<1>4. /\ game' # 0 /\ disk'[game'] = <<>>
      /\ \A f \in 1..Len(disk) : f # game => disk'[f] = disk[f]
      /\ game' \in 1..Len(disk) => game' = game
      /\ game # 0 => replaced' = replaced \cup {GameIn(game)}
      /\ game = 0 => replaced' = replaced
  <2>1. CASE game = 0 /\ disk' = Append(disk, <<>>) /\ game' = Len(disk) + 1 /\ replaced' = replaced
    <3>1. <<>> \in Seq(Line)
      BY EmptySeq
    <3> QED BY <2>1, <3>1, TypedNames, AppendProperties DEF DiskOK
  <2>2. CASE /\ game # 0 /\ disk' = [disk EXCEPT ![game] = <<>>] /\ game' = game
             /\ replaced' = replaced \cup {GameIn(game)}
    <3>1. game \in 1..Len(disk) /\ <<>> \in Seq(Line)
      BY <2>2, TypedNames, EmptySeq
    <3> QED BY <2>2, <3>1, TypedNames, ExceptSeq DEF DiskOK
  <2> QED BY <2>1, <2>2 DEF truncateGame
<1>5. ~HasHeader(game)'
  BY <1>4 DEF HasHeader, StartsWith
<1>6. ASSUME NEW a \in acks' PROVE a.game # 0 /\ Kept(a)'
  <2>1. a.game # 0 /\ Kept(a)
    BY <1>3, <1>6 DEF Solo, FilesOK, AcksKept
  <2>2. CASE a.game \in replaced'
    BY <2>1, <2>2 DEF Kept
  <2>3. CASE a.game \notin replaced'
    <3>1. PICK f \in Named : StoredIn(a, f)
      BY <1>4, <2>1, <2>3 DEF Kept
    <3>2. f # game
      BY <1>4, <2>3, <3>1, TypedNames DEF StoredIn
    <3>3. disk'[f] = disk[f]
      BY <1>4, <3>2, TypedNames
    <3>4. f \in Named'
      BY <1>3, <3>2 DEF Named
    <3> QED BY <2>1, <3>1, <3>3, <3>4, SameLines DEF Kept
  <2> QED BY <2>2, <2>3
<1>7. StillOpen'
  BY <1>5 DEF StillOpen
<1>8. FilesOK'
  BY <1>3, <1>4, <1>5, <1>6, <1>7, OtherFiles DEF Solo
<1>9. Knows(t)'
  BY <1>2, <1>4 DEF Knows
<1> QED BY <1>1, <1>2, <1>8, <1>9, SoloStep DEF Solo

LEMMA HeaderSolo ==
  ASSUME TypeOK, Kinds, Solo, OneActs', NEW t \in Threads, writeHeader(t)
  PROVE  Solo'
<1>1. KindOK(t) /\ thread[t].pc = "create" /\ Acting(t)
  BY ActsAt DEF Kinds, writeHeader, At
<1>2. game # 0 /\ thread[t].file = game /\ disk[game] = <<>>
      /\ game \in 1..Len(disk)
  BY <1>1, TypedNames DEF Solo, ActorKnows, Knows
<1>3. thread[t].op = "SNG" /\ thread[t].trial = 0 /\ started \in Nat
  BY <1>1, TypeParts DEF KindOK
<1>4. /\ thread'[t].pc = "reply" /\ thread'[t].game = started + 1 /\ thread'[t].trial = 0
      /\ thread'[t].op = "SNG" /\ OthersSame(t)
  <2>1. /\ thread'[t] = [thread[t] EXCEPT !.pc = "reply", !.game = started + 1]
        /\ OthersSame(t)
    BY TypeParts DEF writeHeader, OthersSame
  <2> QED BY <1>3, <2>1, TypeParts DEF ThreadIn
<1>5. archive' = archive /\ acks' = acks /\ game' = game /\ replaced' = replaced
  BY DEF writeHeader, history
<1> DEFINE line == Header(started + 1, thread[t].tstamp)
<1>6. line \in Line /\ line.kind = "header" /\ line.game = started + 1
  <2>1. thread[t].tstamp \in Nat
    BY TypeParts DEF ThreadIn
  <2> QED BY <1>3, <2>1 DEF Header, Line
<1>7. disk'[game] = <<line>> /\ \A f \in 1..Len(disk) : f # game => disk'[f] = disk[f]
  <2>1. disk' = [disk EXCEPT ![game] = <<line>>]
    BY <1>2 DEF writeHeader
  <2>2. <<line>> \in Seq(Line)
    BY <1>6
  <2> HIDE DEF line
  <2> QED BY <1>2, <2>1, <2>2, TypedNames, ExceptSeq DEF DiskOK
<1>8. Len(<<line>>) = 1 /\ <<line>>[1] = line /\ <<line>> # <<>>
  OBVIOUS
<1>9. HasHeader(game)' /\ GameIn(game)' = started + 1
  <2> HIDE DEF line
  <2> QED BY <1>2, <1>5, <1>6, <1>7, <1>8 DEF HasHeader, StartsWith, GameIn
<1>10. \A i \in 0..1 : TrialsTo(game, i)' = {}
  <2> HIDE DEF line
  <2> QED BY <1>5, <1>6, <1>7, <1>8 DEF TrialsTo, IsTrial
<1>11. FileFits(game)' /\ StillOpen'
  <2> HIDE DEF line
  <2>1. TrialsIn(game)' = {} /\ Len(disk'[game']) = 1
    BY <1>5, <1>7, <1>8, <1>10 DEF TrialsIn
  <2>2. Fits(game, 1)'
    BY <1>5, <1>6, <1>7, <1>8 DEF Fits, IsTrial, IsFooter
  <2>3. FileFits(game)'
    BY <2>1, <2>2 DEF FileFits
  <2> QED BY <2>1, <2>3, FS_EmptySet, PlayAssumption DEF StillOpen
<1>12. ASSUME NEW a \in acks' PROVE a.game # 0 /\ Kept(a)'
  <2>1. a.game # 0 /\ Kept(a)
    BY <1>5, <1>12 DEF Solo, FilesOK, AcksKept
  <2>2. CASE a.game \in replaced
    BY <1>5, <2>1, <2>2 DEF Kept
  <2>3. CASE a.game \notin replaced
    <3>1. PICK f \in Named : StoredIn(a, f)
      BY <2>1, <2>3 DEF Kept
    <3>2. f # game
      <4>1. ~HasHeader(game)
        BY <1>2 DEF HasHeader, StartsWith
      <4> QED BY <2>1, <3>1, <4>1, HeaderOfGame DEF StoredIn
    <3>3. disk'[f] = disk[f] /\ f \in Named'
      BY <1>5, <1>7, <3>1, <3>2, TypedNames DEF Named
    <3> QED BY <2>1, <3>1, <3>3, SameLines DEF Kept
  <2> QED BY <2>2, <2>3
<1>13. FilesOK'
  BY <1>2, <1>5, <1>7, <1>11, <1>12, OtherFiles DEF Solo
<1>14. Knows(t)'
  <2>1. StoredIn(Ack(thread[t]), game)'
    BY <1>4, <1>9 DEF StoredIn, Ack
  <2>2. game' \in Named'
    BY <1>2, <1>5 DEF Named
  <2>3. Kept(Ack(thread[t]))'
    BY <2>1, <2>2 DEF Kept
  <2> QED BY <1>4, <2>3 DEF Knows
<1> QED BY <1>1, <1>4, <1>13, <1>14, SoloStep DEF Solo

-----------------------------------------------------------------------------

LEMMA OneLine ==
  ASSUME NEW lines \in Seq(Line), NEW line \in Line
  PROVE  lines \o <<line>> \in Seq(Line) /\ Adds(lines \o <<line>>, lines, line)
<1>1. <<line>> \in Seq(Line) /\ Len(<<line>>) = 1 /\ <<line>>[1] = line
  OBVIOUS
<1>2. Len(lines) \in Nat
  BY LenProperties
<1> QED BY <1>1, <1>2, ConcatProperties DEF Adds

(* The game, with the attempt in it and with the footer behind it. *)
Tried(th) == disk[game] \o TrialLines(th)
Written(th) == Tried(th) \o FooterLines(th)

LEMMA LinesToAppend ==
  ASSUME TypeOK, ScoreInv, Kinds, NEW t \in Threads, thread[t].pc = "write"
  PROVE  LET th == thread[t] IN
         /\ \/ /\ th.ending \in {"T", "Q"} /\ TrialLines(th) = <<>>
               /\ th.game = 0
            \/ /\ th.op = "TRY" /\ th.ending \in {"none", "W", "L"}
               /\ TrialLines(th) = <<Trial(th.guess)>> /\ Trial(th.guess) \in Line
         /\ Footer(th.ending, EndStamp(th)) \in Line
         /\ FooterLines(th) = IF th.ending = "none" THEN <<>>
                              ELSE <<Footer(th.ending, EndStamp(th))>>
<1> DEFINE th == thread[t]
<1>1. KindOK(t) /\ ThreadOK(t) /\ Closing(t)
  BY DEF Kinds, ScoreInv, Closing
<1>2. Len(disk) \in Nat /\ th \in ThreadIn(Len(disk))
  BY TypeParts, LenProperties DEF DiskOK
<1>3. Footer(th.ending, EndStamp(th)) \in Line
  <2>1. th.ending \in Endings /\ EndStamp(th) \in Nat
    BY <1>2, EndStampTyped DEF ThreadIn
  <2> QED BY <2>1 DEF Footer, Line
<1>4. CASE th.op = "TRY" /\ th.ending # "T"
  <2>1. th.ending \in {"none", "W", "L"} /\ th.guess \in Guesses
    BY <1>1, <1>4 DEF KindOK, ThreadOK
  <2>2. Trial(th.guess) \in Line
    BY <2>1 DEF Trial, Line
  <2> QED BY <1>3, <1>4, <2>1, <2>2 DEF TrialLines, FooterLines
<1>5. CASE ~(th.op = "TRY" /\ th.ending # "T")
  <2>1. th.ending \in {"T", "Q"} /\ th.game = 0
    BY <1>1, <1>5 DEF KindOK
  <2> QED BY <1>3, <1>5, <2>1 DEF TrialLines, FooterLines
<1> QED BY <1>4, <1>5

(* What is appended keeps the game proper, open as long as it has no       *)
(* footer, and leaves the footer last.                                     *)
LEMMA WrittenFits ==
  ASSUME TypeOK, ScoreInv, Kinds, NEW t \in Threads, thread[t].pc = "write",
         game # 0, HasHeader(game), FileFits(game), StillOpen,
         thread[t].op = "TRY" /\ thread[t].ending # "T" => NextAttempt(t)
  PROVE  LET new == Written(thread[t]) IN
         /\ ProperGame(new)
         /\ NoFooter(new) => ~Guessed(new, Secret) /\ TrialCount(new) < GuessesMax
<1> DEFINE th == thread[t]
           lines == disk[game]
           new == Written(th)
<1>1. lines \in Seq(Line) /\ Len(lines) \in Nat /\ Len(lines) # 0
  BY TypedNames, LenProperties, EmptySeq DEF Named, HasHeader, StartsWith
<1>2. ProperGame(lines)
  BY FitsOfFile
<1>3. TrialsIn(game) = TrialsOf(lines, Len(lines))
  BY OfFile DEF TrialsIn
<1>4. NoFooter(lines) => ~Guessed(lines, Secret) /\ TrialCount(lines) < GuessesMax
  BY <1>3, OfFile DEF StillOpen, NoFooter, Guessed, TrialCount
<1>5. TrialCount(lines) \in Nat
  BY <1>1, FiniteTrials DEF TrialCount
<1>6. CASE th.ending \in {"T", "Q"} /\ TrialLines(th) = <<>>
  <2> DEFINE last == Footer(th.ending, EndStamp(th))
  <2>1. last \in Line /\ FooterLines(th) = <<last>>
    BY <1>6, LinesToAppend
  <2>2. Tried(th) = lines
    BY <1>1, <1>6, ConcatEmptySeq DEF Tried
  <2>3. Adds(new, lines, last)
    BY <1>1, <2>1, <2>2, OneLine DEF Written
  <2>4. ProperGame(new) /\ ~NoFooter(new)
    <3> HIDE DEF lines, new
    <3> QED BY <1>2, <1>4, <1>5, <1>6, <2>3, FooterAdded, PlayAssumption
  <2> QED BY <2>4
<1>7. CASE /\ th.op = "TRY" /\ th.ending \in {"none", "W", "L"}
           /\ TrialLines(th) = <<Trial(th.guess)>> /\ Trial(th.guess) \in Line
  <2> DEFINE mid == Tried(th)
  <2>1. mid \in Seq(Line) /\ Adds(mid, lines, Trial(th.guess))
    BY <1>1, <1>7, OneLine DEF Tried
  <2>2. /\ th.trial = TrialCount(lines) + 1 /\ ~Guessed(lines, th.guess)
        /\ th.ending = EndingOf(th.trial, th.guess = Secret)
    BY <1>3, <1>7 DEF NextAttempt, TrialCount, Guessed
  <2>3. /\ ProperGame(mid) /\ TrialCount(mid) = TrialCount(lines) + 1
        /\ NoFooter(mid) <=> NoFooter(lines)
        /\ \A h : Guessed(mid, h) <=> Guessed(lines, h) \/ h = th.guess
    <3> HIDE DEF lines, mid
    <3> QED BY <1>1, <1>2, <1>4, <2>1, <2>2, AttemptAdded
  <2>4. CASE th.ending = "none"
    <3>1. new = mid
      BY <2>1, <2>4, LinesToAppend, ConcatEmptySeq DEF Written
    <3>2. th.guess # Secret /\ th.trial # GuessesMax
      BY <2>2, <2>4 DEF EndingOf
    <3> HIDE DEF lines, mid, new
    <3> QED BY <1>4, <1>5, <2>2, <2>3, <3>1, <3>2, PlayAssumption DEF new
  <2>5. CASE th.ending # "none"
    <3> DEFINE last == Footer(th.ending, EndStamp(th))
    <3>1. last \in Line /\ FooterLines(th) = <<last>>
      BY <2>5, LinesToAppend
    <3>2. Adds(new, mid, last)
      BY <2>1, <3>1, OneLine DEF Written
    <3>3. NoFooter(mid) => /\ Guessed(mid, Secret) <=> th.ending = "W"
                           /\ th.ending # "W" => 
                                (th.ending = "L" <=> TrialCount(mid) = GuessesMax)
      <4> HIDE DEF lines, mid
      <4> QED BY <1>4, <1>5, <2>2, <2>3, <2>5 DEF EndingOf
    <3>4. ProperGame(new) /\ ~NoFooter(new)
      <4> HIDE DEF mid, new
      <4> QED BY <2>3, <3>2, <3>3, FooterAdded
    <3> QED BY <3>4
  <2> QED BY <2>4, <2>5
<1> QED BY <1>6, <1>7, LinesToAppend

(* The new lines of the file, as the lemmas above see them. *)
LEMMA AppendWrites ==
  ASSUME TypeOK, ScoreInv, Kinds, Solo, NEW t \in Threads, appendLines(t)
  PROVE  /\ KindOK(t) /\ Acting(t) /\ Knows(t) /\ thread[t].pc = "write"
         /\ game \in 1..Len(disk) /\ game' = game /\ game # 0
         /\ disk[game] \in Seq(Line) /\ Len(disk[game]) \in Nat
         /\ UNCHANGED <<archive, replaced, acks>>
         /\ disk'[game] = Written(thread[t])
         /\ \A f \in 1..Len(disk) : f # game => disk'[f] = disk[f]
<1>1. KindOK(t) /\ thread[t].pc = "write" /\ Acting(t)
  BY ActsAt DEF Kinds, appendLines, At
<1>2. Knows(t) /\ game # 0 /\ thread[t].file = game /\ game \in 1..Len(disk)
  BY <1>1, TypedNames DEF Solo, ActorKnows, Knows
<1>3. disk[game] \in Seq(Line) /\ Len(disk[game]) \in Nat
  BY <1>2, TypedNames, LenProperties DEF Named
<1>4. TrialLines(thread[t]) \in Seq(Line) /\ FooterLines(thread[t]) \in Seq(Line)
  <2>1. \A line \in Line : <<line>> \in Seq(Line)
    OBVIOUS
  <2> QED BY <1>1, <2>1, LinesToAppend, EmptySeq
<1>5. Written(thread[t]) \in Seq(Line)
  BY <1>3, <1>4, ConcatProperties DEF Written, Tried
<1>6. disk' = [disk EXCEPT ![game] = Written(thread[t])]
  BY <1>2 DEF appendLines, Written, Tried
<1>7. disk'[game] = Written(thread[t]) /\ \A f \in 1..Len(disk) : f # game => disk'[f] = disk[f]
  <2>1. disk \in Seq(Seq(Line))
    BY TypedNames DEF DiskOK
  <2> QED BY <1>2, <1>5, <1>6, <2>1, ExceptSeq
<1>8. UNCHANGED <<game, archive, replaced, acks>>
  BY DEF appendLines, history
<1> QED BY <1>1, <1>2, <1>3, <1>7, <1>8

LEMMA AppendKeeps ==
  ASSUME TypeOK, ScoreInv, Kinds, Solo, NEW t \in Threads, appendLines(t)
  PROVE  /\ HasHeader(game)' <=> HasHeader(game)
         /\ GameIn(game)' = GameIn(game)
         /\ \A a : StoredIn(a, game) => StoredIn(a, game)'
<1> DEFINE tl == TrialLines(thread[t])
           fl == FooterLines(thread[t])
<1>1. /\ game # 0 /\ game' = game /\ game \in Nat \ {0} /\ disk[game] \in Seq(Line)
      /\ disk'[game] = Written(thread[t]) /\ thread[t].pc = "write"
  BY AppendWrites, TypedNames
<1>2. /\ tl \in Seq(Line) /\ \A k \in 1..Len(tl) : tl[k].kind # "header"
      /\ fl \in Seq(Line) /\ \A k \in 1..Len(fl) : fl[k].kind # "header"
  <2>1. \A line \in Line : <<line>> \in Seq(Line) /\ Len(<<line>>) = 1 /\ <<line>>[1] = line
    OBVIOUS
  <2>2. <<>> \in Seq(Line) /\ Len(<<>>) = 0
    BY EmptySeq
  <2>3. \A g, e, s : Trial(g).kind # "header" /\ Footer(e, s).kind # "header"
    BY DEF Trial, Footer
  <2>4. /\ tl = <<>> \/ \E line \in Line : tl = <<line>> /\ line.kind # "header"
        /\ fl = <<>> \/ \E line \in Line : fl = <<line>> /\ line.kind # "header"
    BY <1>1, <2>3, LinesToAppend
  <2> HIDE DEF tl, fl
  <2>5. ASSUME NEW m, m = <<>> \/ \E line \in Line : m = <<line>> /\ line.kind # "header"
        PROVE  m \in Seq(Line) /\ \A k \in 1..Len(m) : m[k].kind # "header"
    <3>1. CASE m = <<>>
      BY <2>2, <3>1
    <3>2. ASSUME NEW line \in Line, m = <<line>>, line.kind # "header"
          PROVE  m \in Seq(Line) /\ \A k \in 1..Len(m) : m[k].kind # "header"
      <4>1. m \in Seq(Line) /\ Len(m) = 1 /\ m[1] = line
        BY <2>1, <3>2
      <4> QED BY <3>2, <4>1
    <3> QED BY <2>5, <3>1, <3>2
  <2> QED BY <2>4, <2>5
<1>3. disk'[game] = disk[game] \o (tl \o fl)
  <2>1. disk'[game] = (disk[game] \o tl) \o fl
    BY <1>1 DEF Written, Tried
  <2> HIDE DEF tl, fl
  <2>2. \A r, s, u \in Seq(Line) : (r \o s) \o u = r \o (s \o u)
    BY ConcatAssociative
  <2>3. (disk[game] \o tl) \o fl = disk[game] \o (tl \o fl)
    BY <1>1, <1>2, <2>2
  <2> QED BY <2>1, <2>3
<1>4. tl \o fl \in Seq(Line) /\ \A k \in 1..Len(tl \o fl) : (tl \o fl)[k].kind # "header"
  <2> HIDE DEF tl, fl
  <2>1. Len(tl) \in Nat /\ Len(fl) \in Nat
    BY <1>2, LenProperties
  <2> QED BY <1>2, <2>1, ConcatProperties
<1> HIDE DEF tl, fl
<1>6. \A n \in {game} : /\ HasHeader(n)' <=> HasHeader(n)
                        /\ GameIn(n)' = GameIn(n)
                        /\ \A a : StoredIn(a, n) => StoredIn(a, n)'
  BY <1>1, <1>3, <1>4, Appended
<1>7. ASSUME NEW n, n = game, n = game' 
      PROVE  /\ HasHeader(game)' <=> HasHeader(n)'
             /\ GameIn(game)' = GameIn(n)'
             /\ \A a : StoredIn(a, game)' <=> StoredIn(a, n)'
  BY <1>7 DEF HasHeader, GameIn, StartsWith, StoredIn, AttemptIs, TrialsIn, TrialsTo
<1> QED BY <1>1, <1>6, <1>7

LEMMA OpenSolo ==
  ASSUME TypeOK, Kinds, Solo, OneActs', NEW t \in Threads, openForAppend(t)
  PROVE  Solo'
<1>1. KindOK(t) /\ thread[t].pc = "open" /\ Acting(t)
  BY ActsAt DEF Kinds, openForAppend, At
<1>2. game # 0 /\ Knows(t)
  BY <1>1 DEF Solo, ActorKnows, Knows
<1>3. SameFiles /\ acks' = acks
  BY <1>2 DEF openForAppend, history, SameFiles
<1>4. /\ thread'[t].pc = "write" /\ thread'[t].file = game' /\ OthersSame(t)
      /\ thread'[t].op = thread[t].op /\ thread'[t].ending = thread[t].ending
      /\ thread'[t].trial = thread[t].trial /\ thread'[t].game = thread[t].game
      /\ thread'[t].guess = thread[t].guess
  <2>1. /\ thread'[t] = [thread[t] EXCEPT !.pc = "write", !.file = game']
        /\ OthersSame(t)
    BY TypeParts DEF openForAppend, OthersSame, AfterOpen
  <2> QED BY <2>1, TypeParts DEF ThreadIn
<1>5. thread[t].op = "TRY" /\ thread[t].ending # "T" => NextAttempt(t)'
  <2>1. thread[t].op = "TRY" /\ thread[t].ending # "T" => NextAttempt(t)
    BY <1>1, <1>2 DEF Knows
  <2> QED BY <1>3, <1>4, <2>1, SameLines DEF NextAttempt, SameFiles
<1>6. Knows(t)'
  BY <1>2, <1>3, <1>4, <1>5 DEF Knows, SameFiles
<1> QED BY <1>3, <1>4, <1>6, SoloStep, FilesKept DEF Solo

LEMMA AppendFiles ==
  ASSUME TypeOK, ScoreInv, Kinds, Solo, NEW t \in Threads, appendLines(t)
  PROVE  FilesOK'
<1>1. /\ game \in 1..Len(disk) /\ game' = game /\ game # 0
      /\ UNCHANGED <<archive, replaced, acks>> /\ thread[t].pc = "write" /\ Knows(t)
      /\ disk'[game] = Written(thread[t])
      /\ \A f \in 1..Len(disk) : f # game => disk'[f] = disk[f]
  BY AppendWrites
<1>2. FilesOK /\ StillOpen /\ (HasHeader(game) => FileFits(game))
  BY <1>1 DEF Solo, FilesOK, AllFit, Named
<1>3. ASSUME HasHeader(game)' PROVE FileFits(game)' /\ StillOpen'
  <2>1. HasHeader(game) /\ FileFits(game)
    BY <1>2, <1>3, AppendKeeps
  <2>2. thread[t].op = "TRY" /\ thread[t].ending # "T" => NextAttempt(t)
    BY <1>1 DEF Knows
  <2> DEFINE new == disk'[game']
  <2>3. /\ ProperGame(new)
        /\ NoFooter(new) => ~Guessed(new, Secret) /\ TrialCount(new) < GuessesMax
    BY <1>1, <1>2, <2>1, <2>2, WrittenFits
  <2>4. FileFits(game)'
    BY <2>3, FitsOfFile
  <2>5. StillOpen'
    BY <2>3, OfFile DEF StillOpen, NoFooter, Guessed, TrialCount, TrialsIn
  <2> QED BY <2>4, <2>5
<1>4. StillOpen'
  BY <1>3 DEF StillOpen
<1>5. ASSUME NEW a \in acks' PROVE a.game # 0 /\ Kept(a)'
  <2>1. a.game # 0 /\ Kept(a)
    BY <1>1, <1>2, <1>5 DEF FilesOK, AcksKept
  <2>2. ASSUME NEW f \in Named, StoredIn(a, f) PROVE Kept(a)'
    <3>1. f \in Named'
      BY <1>1 DEF Named
    <3>2. CASE f = game
      BY <1>1, <2>2, <3>1, <3>2, AppendKeeps DEF Kept
    <3>3. CASE f # game
      <4>1. disk'[f] = disk[f]
        BY <1>1, <3>3, TypedNames
      <4> QED BY <2>2, <3>1, <4>1, SameLines DEF Kept
    <3> QED BY <3>2, <3>3
  <2> QED BY <1>1, <2>1, <2>2 DEF Kept
<1> QED BY <1>1, <1>2, <1>3, <1>4, <1>5, OtherFiles

LEMMA AppendKnows ==
  ASSUME TypeOK, ScoreInv, Kinds, Solo, NEW t \in Threads, appendLines(t)
  PROVE  Knows(t)'
<1> DEFINE th == thread[t]
           lines == disk[game]
           new == disk'[game']
<1>1. /\ game \in 1..Len(disk) /\ game' = game /\ game # 0
      /\ thread[t].pc = "write" /\ Knows(t) /\ KindOK(t) /\ Closing(t)
      /\ new = Written(th) /\ lines \in Seq(Line) /\ Len(lines) \in Nat
  BY AppendWrites DEF Closing
<1>2. /\ thread'[t].op = th.op /\ thread'[t].ending = th.ending
      /\ thread'[t].trial = th.trial /\ thread'[t].game = th.game
      /\ thread'[t].guess = th.guess /\ thread'[t].file = th.file
      /\ thread'[t].tstamp = th.tstamp
      /\ thread'[t].pc = IF th.ending = "none" THEN "reply" ELSE "rename"
  <2>1. Goto(t, AfterWrite(th))
    BY DEF appendLines
  <2> QED BY <2>1, AfterGoto DEF AfterWrite
<1>3. Tried(th) \in Seq(Line)
  <2>1. \A line \in Line : <<line>> \in Seq(Line)
    OBVIOUS
  <2>2. TrialLines(th) \in Seq(Line)
    BY <1>1, <2>1, LinesToAppend, EmptySeq
  <2> QED BY <1>1, <2>2, ConcatProperties DEF Tried
<1>4. th.file = game
  BY <1>1 DEF Knows
<1>5. th.ending # "none" => EndsWith(game, Footer(th.ending, EndStamp(th)))'
  <2> SUFFICES ASSUME th.ending # "none"
               PROVE  EndsWith(game, Footer(th.ending, EndStamp(th)))'
    OBVIOUS
  <2> DEFINE last == Footer(th.ending, EndStamp(th))
  <2>1. last \in Line /\ FooterLines(th) = <<last>>
    BY <1>1, LinesToAppend
  <2>2. Adds(new, Tried(th), last) /\ new \in Seq(Line)
    BY <1>1, <1>3, <2>1, OneLine DEF Written
  <2>3. new # <<>> /\ new[Len(new)] = last
    <3> HIDE DEF new, last
    <3> QED BY <2>2, EmptySeq DEF Adds
  <2>4. Footer(th.ending, EndStamp(th))' = last
    BY <1>2 DEF Footer, EndStamp
  <2> QED BY <2>3, <2>4 DEF EndsWith
<1>6. th.game # 0 => Kept(Ack(th))'
  <2> SUFFICES ASSUME th.game # 0 PROVE Kept(Ack(th))'
    OBVIOUS
  <2>1. th.op = "TRY" /\ th.ending # "T" /\ th.ending \in {"none", "W", "L"}
        /\ TrialLines(th) = <<Trial(th.guess)>> /\ Trial(th.guess) \in Line
    BY <1>1, LinesToAppend DEF KindOK
  <2>2. NextAttempt(t) /\ th.game = GameIn(game) /\ HasHeader(game)
    BY <1>1, <2>1, HeaderOfGame DEF Knows, NextAttempt
  <2>3. th.trial = TrialCount(lines) + 1
    BY <2>2, OfFile DEF NextAttempt, TrialsIn, TrialCount
  <2> DEFINE n == Len(lines)
  <2>4. Adds(Tried(th), lines, Trial(th.guess)) /\ n # 0
    BY <1>1, <2>1, <2>2, OneLine, EmptySeq DEF Tried, HasHeader, StartsWith
  <2>5. /\ Len(new) >= n + 1 /\ Len(new) \in Nat /\ new[n + 1] = Trial(th.guess)
        /\ \A i \in 1..n : new[i] = lines[i]
    <3>1. new = Tried(th) \/ \E last \in Line : Adds(new, Tried(th), last)
      <4>1. CASE th.ending = "none"
        <5>1. FooterLines(th) = <<>>
          BY <4>1 DEF FooterLines
        <5> QED BY <1>1, <1>3, <5>1, ConcatEmptySeq DEF Written
      <4>2. CASE th.ending # "none"
        <5>1. FooterLines(th) = <<Footer(th.ending, EndStamp(th))>>
              /\ Footer(th.ending, EndStamp(th)) \in Line
          BY <1>1, <4>2, LinesToAppend
        <5> QED BY <1>1, <1>3, <5>1, OneLine DEF Written
      <4> QED BY <4>1, <4>2
    <3> HIDE DEF new, lines
    <3> QED BY <2>4, <3>1 DEF Adds, n
  <2>6. IsTrial(new[n + 1]) /\ new[n + 1].guess = th.guess
    BY <2>5 DEF IsTrial, Trial
  <2>7. TrialsOf(new, n) = TrialsOf(lines, n)
    <3> HIDE DEF new, lines
    <3> QED BY <2>5 DEF TrialsOf
  <2>8. Cardinality(TrialsOf(new, n + 1)) = th.trial
    <3> HIDE DEF new, lines
    <3> QED BY <1>1, <2>3, <2>4, <2>6, <2>7, OneMore DEF TrialCount
  <2>9. n + 1 \in TrialsOf(new, Len(new))
    <3> HIDE DEF new, lines
    <3> QED BY <1>1, <2>4, <2>5, <2>6 DEF TrialsOf
  <2>10. AttemptIs(game, th.trial, th.guess)'
    <3>1. AttemptIs(game, thread[t].trial, thread[t].guess)' <=>
            \E i \in TrialsOf(new, Len(new)) :
              /\ Cardinality(TrialsOf(new, i)) = thread'[t].trial
              /\ new[i].guess = thread'[t].guess
      BY OfFile DEF AttemptIs, TrialsIn
    <3> HIDE DEF new, lines
    <3> QED BY <1>2, <2>6, <2>8, <2>9, <3>1
  <2>11. GameIn(game)' = th.game
    BY <2>2, AppendKeeps
  <2>12. StoredIn(Ack(th), game)'
    BY <1>2, <2>10, <2>11 DEF StoredIn, Ack
  <2>13. game' \in Named'
    BY <1>1 DEF Named
  <2> QED BY <2>12, <2>13 DEF Kept
<1> QED BY <1>1, <1>2, <1>4, <1>5, <1>6 DEF Knows

LEMMA AppendSolo ==
  ASSUME TypeOK, ScoreInv, Kinds, Solo, OneActs', NEW t \in Threads, appendLines(t)
  PROVE  Solo'
<1>1. Acting(t)
  BY AppendWrites
<1>2. OthersSame(t)
  BY AfterGoto DEF appendLines
<1> QED BY <1>1, <1>2, AppendFiles, AppendKnows, SoloStep DEF Solo

-----------------------------------------------------------------------------
(* The file gets its archive name, in place of what had that name. *)
LEMMA RenameKeeps ==
  ASSUME game # 0, game' = 0, disk' = disk, NEW name,
         archive' = [n \in DOMAIN archive \cup {name} |->
                       IF n = name THEN game ELSE archive[n]],
         replaced' = IF name \in DOMAIN archive
                     THEN replaced \cup {GameIn(archive[name])} ELSE replaced,
         NEW a, Kept(a)
  PROVE  Kept(a)'
<1>1. CASE a.game \in replaced
  BY <1>1 DEF Kept
<1>2. CASE \E f \in Named : StoredIn(a, f)
  <2>1. PICK f \in Named : StoredIn(a, f)
    BY <1>2
  <2>2. f \in Named' \/ (name \in DOMAIN archive /\ f = archive[name])
    BY <2>1 DEF Named
  <2>3. CASE f \in Named'
    BY <2>1, <2>3, SameLines DEF Kept
  <2>4. CASE name \in DOMAIN archive /\ f = archive[name]
    BY <2>1, <2>4 DEF Kept, StoredIn
  <2> QED BY <2>2, <2>3, <2>4
<1> QED BY <1>1, <1>2 DEF Kept

LEMMA RenameSolo ==
  ASSUME TypeOK, Kinds, Solo, OneActs', NEW t \in Threads, renameGame(t)
  PROVE  Solo'
<1> DEFINE th == thread[t]
           name == FinishedName(th)
<1>1. KindOK(t) /\ th.pc = "rename" /\ Acting(t)
  BY ActsAt DEF Kinds, renameGame, At
<1>2. game # 0 /\ Knows(t) /\ FilesOK
  BY <1>1 DEF Solo, ActorKnows, Knows
<1>3. /\ game' = 0 /\ disk' = disk /\ acks' = acks
      /\ archive' = [n \in DOMAIN archive \cup {name} |->
                       IF n = name THEN game ELSE archive[n]]
      /\ replaced' = IF name \in DOMAIN archive
                     THEN replaced \cup {GameIn(archive[name])} ELSE replaced
      /\ AfterRename(t)
  BY <1>2 DEF renameGame
<1>4. /\ \A n \in DOMAIN archive' : archive'[n] = IF n = name THEN game ELSE archive[n]
      /\ \A n \in DOMAIN archive' : n # name => n \in DOMAIN archive
  BY <1>3
<1>5. Named' \subseteq Named
  BY <1>3, <1>4, <1>2 DEF Named
<1>6. NotArchived'
  BY <1>2, <1>3, <1>4, TypedNames DEF NotArchived
<1>7. FootersMatch'
  <2> SUFFICES ASSUME NEW n \in DOMAIN archive'
               PROVE  EndsWith(archive'[n], Footer(n[2], n[1]))
    BY <1>3 DEF FootersMatch, EndsWith
  <2>1. CASE n = name
    <3>1. EndsWith(game, Footer(th.ending, EndStamp(th)))
      BY <1>1, <1>2 DEF Knows
    <3>2. n[1] = EndStamp(th) /\ n[2] = th.ending
      BY <2>1 DEF FinishedName
    <3> QED BY <1>4, <2>1, <3>1, <3>2
  <2>2. CASE n # name
    BY <1>2, <1>4, <2>2 DEF FilesOK, FootersMatch
  <2> QED BY <2>1, <2>2
<1>8. AllFit'
  <2> SUFFICES ASSUME NEW f \in Named', HasHeader(f)' PROVE FileFits(f)'
    BY DEF AllFit
  <2>1. f \in Named /\ disk'[f] = disk[f]
    BY <1>3, <1>5
  <2> QED BY <1>2, <2>1, SameLines DEF FilesOK, AllFit
<1>9. StillOpen'
  BY <1>3 DEF StillOpen
<1>10. \A a : Kept(a) => Kept(a)'
  <2> HIDE DEF name
  <2> QED BY <1>2, <1>3, RenameKeeps
<1>11. FilesOK'
  BY <1>2, <1>3, <1>6, <1>7, <1>8, <1>9, <1>10 DEF FilesOK, AcksKept
<1>12. OthersSame(t) /\ (Acting(t)' => Knows(t)')
  <2>1. CASE Refuse(t)
    <3>1. thread'[t].pc = "idle" /\ OthersSame(t)
      BY <2>1, AfterFinish DEF Refuse
    <3> QED BY <3>1 DEF Acting, At, Closing
  <2>2. ASSUME NEW pc \in {"score", "reply", "truncate"}, Goto(t, pc)
        PROVE  OthersSame(t) /\ Knows(t)'
    <3>1. /\ thread'[t].pc = pc /\ OthersSame(t)
          /\ thread'[t].trial = th.trial /\ thread'[t].game = th.game
          /\ thread'[t].guess = th.guess
      BY <2>2, AfterGoto
    <3>2. th.game # 0 => Kept(Ack(th))'
      <4>1. th.game # 0 => Kept(Ack(th))
        BY <1>1, <1>2 DEF Knows
      <4>2. Ack(th)' = Ack(th)
        BY <3>1 DEF Ack
      <4>3. \A a : a = Ack(th)' /\ Kept(a)' => Kept(Ack(th))'
        BY DEF Kept, StoredIn, Named
      <4> QED BY <1>10, <4>1, <4>2, <4>3
    <3> QED BY <3>1, <3>2 DEF Knows
  <2> QED BY <2>1, <2>2, RenameGoes
<1> QED BY <1>1, <1>11, <1>12, SoloStep DEF Solo

LEMMA ScoreSolo ==
  ASSUME TypeOK, Kinds, Solo, OneActs', NEW t \in Threads, createScore(t) \/ writeScore(t)
  PROVE  Solo'
<1>1. thread[t].pc \in {"score", "score2"} /\ KindOK(t) /\ Acting(t)
  BY ActsAt DEF Kinds, createScore, writeScore, At
<1>2. Knows(t)
  BY <1>1 DEF Solo, ActorKnows
<1>3. SameFiles /\ acks' = acks
  BY DEF createScore, writeScore, history, SameFiles
<1>4. /\ thread'[t].pc \in {"score2", "reply"} /\ OthersSame(t)
      /\ thread'[t].trial = thread[t].trial /\ thread'[t].game = thread[t].game
      /\ thread'[t].guess = thread[t].guess
  BY AfterGoto DEF createScore, writeScore
<1>5. thread[t].game # 0 => Kept(Ack(thread[t]))'
  <2>1. thread[t].game # 0 => Kept(Ack(thread[t]))
    BY <1>1, <1>2 DEF Knows
  <2>2. Named' = Named
    BY <1>3 DEF SameFiles, Named
  <2>3. Ack(thread[t])' = Ack(thread[t])
    BY <1>4 DEF Ack
  <2> QED BY <1>3, <2>1, <2>2, <2>3, SameLines DEF Kept, SameFiles
<1>6. Knows(t)'
  BY <1>4, <1>5 DEF Knows
<1> QED BY <1>3, <1>4, <1>6, SoloStep, FilesKept DEF Solo

LEMMA ReplySolo ==
  ASSUME TypeOK, Kinds, Solo, OneActs', NEW t \in Threads, replyOK(t)
  PROVE  Solo'
<1>1. thread[t].pc = "reply" /\ Acting(t)
  BY ActsAt DEF replyOK, At
<1>2. Knows(t) /\ FilesOK
  BY <1>1 DEF Solo, ActorKnows
<1>3. UNCHANGED <<disk, game, archive, replaced>>
  BY DEF replyOK, files
<1>4. thread'[t].pc = "idle" /\ OthersSame(t)
  BY AfterFinish DEF replyOK
<1>5. Acting(t)' => Knows(t)'
  BY <1>4 DEF Acting, At, Closing
<1>6. \A a \in acks' : a \in acks \/ (a = Ack(thread[t]) /\ thread[t].game # 0)
  BY DEF replyOK
<1>7. Ack(thread[t]).game = thread[t].game
  BY DEF Ack
<1>8. \A a \in acks' : a.game # 0 /\ Kept(a)
  BY <1>1, <1>2, <1>6, <1>7 DEF Knows, FilesOK, AcksKept
<1>9. Named' = Named
  BY <1>3 DEF Named
<1>10. AcksKept'
  BY <1>3, <1>8, <1>9, SameLines DEF AcksKept, Kept
<1>11. AllFit'
  BY <1>2, <1>3, <1>9, SameLines DEF FilesOK, AllFit
<1>12. StillOpen'
  BY <1>2, <1>3, SameLines DEF FilesOK, StillOpen
<1>13. FootersMatch' /\ NotArchived'
  BY <1>2, <1>3, SameLines DEF FilesOK, FootersMatch, NotArchived
<1>14. SameFiles
  BY <1>3 DEF SameFiles
<1> QED BY <1>4, <1>5, <1>10, <1>11, <1>12, <1>13, <1>14, SoloStep DEF Solo, FilesOK

LEMMA EnvironmentSolo ==
  ASSUME Solo, OneActs', crash \/ Tick \/ UNCHANGED vars
  PROVE  Solo'
<1>1. SameFiles /\ acks' = acks
  BY DEF crash, Tick, vars, files, history, SameFiles
<1>2. ActorKnows'
  <2>1. CASE crash
    BY <2>1 DEF crash, Idle, ActorKnows, Acting, At, Closing
  <2>2. CASE thread' = thread
    <3>1. ASSUME NEW t \in Threads, Acting(t)' PROVE Knows(t)'
      <4>1. Acting(t)
        BY <2>2, <3>1 DEF Acting, At, Closing
      <4>2. Knows(t)
        BY <4>1 DEF Solo, ActorKnows
      <4> QED BY <1>1, <2>2, <4>2, KnowsKept
    <3> QED BY <3>1 DEF ActorKnows
  <2> QED BY <2>1, <2>2 DEF Tick, vars
<1> QED BY <1>1, <1>2, FilesKept DEF Solo

-----------------------------------------------------------------------------
LEMMA AlwaysWatched == Next => Watch
<1> USE DEF Threads
<1> SUFFICES ASSUME Next PROVE Watch
  OBVIOUS
<1>1. CASE receiveStart \/ receiveTry \/ receiveQuit \/ crash \/ Tick
  BY <1>1 DEF receiveStart, receiveTry, receiveQuit, Accept, crash, Tick
<1>2. ASSUME NEW w \in Workers, receiveShowTrials(w) PROVE Watch
  BY <1>2 DEF receiveShowTrials, Accept
<1>3. ASSUME NEW t \in Threads, handler(t) PROVE Watch
  <2>1. CASE existsCheck(t) \/ parseHeader(t) \/ truncateGame(t) \/ writeHeader(t)
    BY <2>1 DEF existsCheck, parseHeader, truncateGame, writeHeader
  <2>2. CASE parseAttempts(t)
    BY <2>2, Zenon DEF parseAttempts
  <2>3. CASE parseForQuit(t) \/ openForAppend(t) \/ appendLines(t) \/ renameGame(t)
    BY <2>3 DEF parseForQuit, openForAppend, appendLines, renameGame
  <2>4. CASE createScore(t) \/ writeScore(t) \/ replyOK(t)
    BY <2>4 DEF createScore, writeScore, replyOK
  <2> QED BY <1>3, <2>1, <2>2, <2>3, <2>4 DEF handler
<1> QED BY <1>1, <1>2, <1>3 DEF Next

LEMMA RacedStays == [Next]_vars /\ ~raced' => ~raced
  BY AlwaysWatched DEF Watch, vars

LEMMA SoloNext ==
  ASSUME TypeOK, ScoreInv, Kinds, raced \/ Solo, [Next]_vars
  PROVE  raced' \/ Solo'
<1> USE DEF Threads
<1> SUFFICES ASSUME ~raced' PROVE Solo'
  OBVIOUS
<1>1. CASE UNCHANGED vars
  <2>1. thread' = thread /\ raced' = raced
    BY <1>1 DEF vars
  <2>2. OneActs'
    BY <2>1 DEF Solo, OneActs, Acting, At, Closing
  <2> QED BY <1>1, <2>1, <2>2, EnvironmentSolo
<1>2. CASE Next
  <2>1. Watch
    BY <1>2, AlwaysWatched
  <2>2. ~raced /\ Solo /\ OneActs'
    BY <2>1, ActsAloneAfter DEF Watch
  <2>3. CASE receiveStart \/ receiveTry \/ receiveQuit
    BY <2>2, <2>3, AcceptSolo DEF receiveStart, receiveTry, receiveQuit
  <2>4. ASSUME NEW w \in Workers, receiveShowTrials(w) PROVE Solo'
    BY <2>2, <2>4, AcceptSolo DEF receiveShowTrials
  <2>5. ASSUME NEW t \in Threads, handler(t) PROVE Solo'
    <3>1. CASE existsCheck(t) \/ parseHeader(t) \/ parseForQuit(t)
      BY <2>2, <3>1, ReadingSolo
    <3>2. CASE truncateGame(t) \/ writeHeader(t)
      BY <2>2, <3>2, TruncateSolo, HeaderSolo
    <3>3. CASE parseAttempts(t)
      BY <2>2, <3>3, AttemptsSolo
    <3>4. CASE openForAppend(t) \/ appendLines(t)
      BY <2>2, <3>4, OpenSolo, AppendSolo
    <3>5. CASE renameGame(t)
      BY <2>2, <3>5, RenameSolo
    <3>6. CASE createScore(t) \/ writeScore(t)
      BY <2>2, <3>6, ScoreSolo
    <3>7. CASE replyOK(t)
      BY <2>2, <3>7, ReplySolo
    <3> QED BY <2>5, <3>1, <3>2, <3>3, <3>4, <3>5, <3>6, <3>7 DEF handler
  <2>6. CASE crash \/ Tick
    BY <2>2, <2>6, EnvironmentSolo
  <2> QED BY <1>2, <2>3, <2>4, <2>5, <2>6 DEF Next
<1> QED BY <1>1, <1>2

AloneInv == Inv /\ Kinds /\ (raced \/ Solo)

LEMMA AloneStart == Init => AloneInv
<1> SUFFICES ASSUME Init PROVE AloneInv
  OBVIOUS
<1>1. Kinds
  BY DEF Init, Kinds, KindOK, Closing, Idle
<1>2. archive = <<>> /\ DOMAIN archive = {}
  <2>1. archive = <<>>
    BY DEF Init
  <2> QED BY <2>1, EmptySeq
<1>3. OneActs /\ ActorKnows
  BY DEF Init, OneActs, ActorKnows, Acting, At, Closing, Idle
<1>4. game = 0 /\ acks = {} /\ Named = {}
  BY <1>2 DEF Init, Named
<1>5. FilesOK
  BY <1>2, <1>4 DEF FilesOK, NotArchived, FootersMatch, AllFit, StillOpen, AcksKept
<1> QED BY <1>1, <1>3, <1>5, Start DEF AloneInv, Solo

LEMMA AloneStep == AloneInv /\ [Next]_vars => AloneInv'
  BY Step, KindsStep, SoloNext DEF AloneInv, Inv

(* FooterMatchesName: endGame appends the footer and then moves the file   *)
(* under the name that repeats it.  As long as no worker closes a game     *)
(* that another thread uses, no crash and no earlier footer can separate   *)
(* the two.                                                                *)
THEOREM FootersMatchNames == Spec => []FooterMatchesName
<1>1. AloneInv => FooterMatchesName
  BY DEF AloneInv, Solo, FilesOK, FootersMatch, FooterMatchesName
<1> QED BY AloneStart, AloneStep, <1>1, PTL DEF Spec

(* FirstEndingFits: up to its first footer every game file, running or     *)
(* archived, is a game that the rules allow, whatever was killed when.     *)
THEOREM FirstEndingsFit == Spec => []FirstEndingFits
<1>1. AloneInv => FirstEndingFits
  BY DEF AloneInv, Solo, FilesOK, AllFit, FirstEndingFits
<1> QED BY AloneStart, AloneStep, <1>1, PTL DEF Spec

(* AckedSurvivesCrash: what attempt and createGame have confirmed with OK  *)
(* is in the file of that game, through any number of crashes, until the   *)
(* file itself is replaced.                                                *)
THEOREM AckedSurvivesCrashes == Spec => []AckedSurvivesCrash
<1>1. AloneInv => AckedSurvivesCrash
  BY DEF AloneInv, Solo, FilesOK, AcksKept, Kept, AckedSurvivesCrash, AttemptRegistered
<1> QED BY AloneStart, AloneStep, <1>1, PTL DEF Spec

-----------------------------------------------------------------------------
(* Loose ends while somebody is at work: a score about to be written is    *)
(* not yet missing, and a file that is about to get its header, or to be   *)
(* moved, may have one loose end more than there were crashes.             *)
Scoring ==
  IF thread[Udp].pc \in {"score", "score2"} THEN {<<thread[Udp].tstamp, "W">>} ELSE {}

HalfWay == \E t \in Threads : thread[t].pc \in {"create", "rename"}

Slack == IF HalfWay THEN 1 ELSE 0

Missing == Cardinality(Unscored \ Scoring)

LooseOK == LooseInGame + Missing <= crashes + Slack

FootersIn(lines) == Cardinality(FootersOf(lines, Len(lines)))

(* Where the thread that acts stands decides the slack. *)
LEMMA SlackOfActor ==
  ASSUME Kinds, OneActs, NEW t \in Threads, Acting(t)
  PROVE  /\ HalfWay <=> thread[t].pc \in {"create", "rename"}
         /\ Scoring = IF thread[t].pc \in {"score", "score2"}
                      THEN {<<thread[t].tstamp, "W">>} ELSE {}
<1>1. \A s \in Threads : thread[s].pc \in {"create", "rename", "score", "score2"} => s = t
  BY ActsAt DEF OneActs
<1>2. t # Udp => thread[t].pc \notin {"score", "score2"}
  BY DEF Kinds, KindOK, Threads
<1> QED BY <1>1, <1>2 DEF HalfWay, Scoring, Threads

LEMMA SlackAfter ==
  ASSUME Kinds, Kinds', OneActs, NEW t \in Threads, Acting(t), OthersSame(t)
  PROVE  /\ HalfWay' <=> thread'[t].pc \in {"create", "rename"}
         /\ Scoring' = IF thread'[t].pc \in {"score", "score2"}
                       THEN {<<thread'[t].tstamp, "W">>} ELSE {}
<1>1. \A s \in Threads \ {t} : /\ thread'[s] = thread[s]
                               /\ thread[s].pc \notin {"create", "rename", "score", "score2"}
  BY ActsAt DEF OneActs, OthersSame
<1>2. t # Udp => thread'[t].pc \notin {"score", "score2"}
  BY DEF Kinds, KindOK, Threads
<1> QED BY <1>1, <1>2 DEF HalfWay, Scoring, Threads

LEMMA LooseTyped ==
  ASSUME TypeOK, IsFiniteSet(DOMAIN archive)
  PROVE  /\ LooseInGame \in Nat /\ crashes \in Nat /\ Slack \in Nat
         /\ IsFiniteSet(Unscored)
         /\ Missing \in Nat /\ Cardinality(Unscored) \in Nat
<1>1. game # 0 => Cardinality(FootersTo(game, Len(disk[game]))) \in Nat
  <2>1. game # 0 => Len(disk[game]) \in Nat
    BY TypedNames, LenProperties DEF Named
  <2> QED BY <2>1, FiniteTrials, OfFile
<1>2. LooseInGame \in Nat
  BY <1>1 DEF LooseInGame
<1>3. IsFiniteSet(Unscored)
  BY FS_Subset DEF Unscored
<1>4. IsFiniteSet(Unscored \ Scoring)
  BY <1>3, FS_Subset
<1> QED BY <1>2, <1>3, <1>4, FS_CardinalityType, TypeParts DEF Slack, Missing

LEMMA Balance ==
  ASSUME NEW l \in Nat, NEW m \in Nat, NEW c \in Nat, NEW s \in Nat,
         NEW l2 \in Nat, NEW m2 \in Nat, NEW s2 \in Nat,
         l + m <= c + s, m2 <= m, l2 + s <= l + s2
  PROVE  l2 + m2 <= c + s2
  OBVIOUS

(* A step that adds nothing to either kind of loose end. *)
LEMMA NoLooser ==
  ASSUME TypeOK, TypeOK', IsFiniteSet(DOMAIN archive), IsFiniteSet(DOMAIN archive'),
         LooseOK, crashes' = crashes,
         Unscored' \ Scoring' \subseteq Unscored \ Scoring,
         LooseInGame' + Slack <= LooseInGame + Slack'
  PROVE  LooseOK'
<1>1. IsFiniteSet(Unscored \ Scoring)
  BY LooseTyped, FS_Subset
<1>2. Missing' <= Missing
  BY <1>1, FS_Subset DEF Missing
<1>3. LooseInGame \in Nat /\ crashes \in Nat /\ Slack \in Nat /\ Missing \in Nat
  BY LooseTyped
<1>4. LooseInGame' \in Nat /\ Slack' \in Nat /\ Missing' \in Nat
  <2>1. game' # 0 => Cardinality(FootersOf(disk'[game'], Len(disk'[game']))) \in Nat
    <3>1. disk' \in Seq(Seq(Line)) /\ game' \in 0..Len(disk')
      BY DEF TypeOK
    <3>2. game' # 0 => disk'[game'] \in Seq(Line)
      <4> DEFINE d == disk'
                 g == game'
      <4>1. d \in Seq(Seq(Line)) /\ Len(d) \in Nat /\ g \in 0..Len(d)
        BY <3>1, LenProperties
      <4> HIDE DEF d, g
      <4>2. g # 0 => d[g] \in Seq(Line)
        BY <4>1, ElementOfSeq
      <4> QED BY <4>2 DEF d, g
    <3> QED BY <3>2, LenProperties, FiniteTrials
  <2>2. LooseInGame' \in Nat
    BY <2>1, OfFile DEF LooseInGame
  <2>3. IsFiniteSet(Unscored' \ Scoring')
    BY <1>1, FS_Subset
  <2> QED BY <2>2, <2>3, FS_CardinalityType DEF Slack, Missing
<1>5. /\ crashes' = crashes /\ LooseInGame + Missing <= crashes + Slack
      /\ LooseInGame' + Slack <= LooseInGame + Slack'
  BY DEF LooseOK
<1>6. LooseInGame' + Missing' <= crashes' + Slack'
  BY <1>2, <1>3, <1>4, <1>5, Balance
<1> QED BY <1>6 DEF LooseOK

(* Only createGame, endGame and the score touch what can be left loose. *)
LEMMA SameLoose ==
  ASSUME TypeOK, TypeOK', Kinds, Kinds', OneActs, IsFiniteSet(DOMAIN archive), LooseOK,
         NEW t \in Threads, OthersSame(t), UNCHANGED <<disk, game, archive, scores, crashes>>,
         thread[t].pc \notin {"create", "rename", "score", "score2"},
         thread'[t].pc \notin {"create", "rename", "score", "score2"}
  PROVE  LooseOK'
<1>1. HalfWay' <=> HalfWay
  BY DEF HalfWay, OthersSame
<1>2. Scoring' = Scoring
  BY DEF Scoring, OthersSame, Threads
<1>3. Unscored' = Unscored
  BY DEF Unscored
<1>4. LooseInGame' = LooseInGame
  BY SameLines DEF LooseInGame
<1>5. Slack' = Slack
  BY <1>1 DEF Slack
<1> QED BY <1>2, <1>3, <1>4, <1>5, LooseTyped, NoLooser

LEMMA CrashLoose ==
  ASSUME TypeOK, Kinds, OneActs, IsFiniteSet(DOMAIN archive), LooseOK, crash
  PROVE  LooseOK'
<1>1. UNCHANGED <<disk, game, archive, scores>> /\ crashes' = crashes + 1
  BY DEF crash, files
<1>2. ~HalfWay' /\ Scoring' = {}
  BY DEF crash, Idle, HalfWay, Scoring, Threads
<1>3. Unscored' = Unscored /\ LooseInGame' = LooseInGame
  BY <1>1, SameLines DEF Unscored, LooseInGame
<1>4. /\ LooseInGame \in Nat /\ crashes \in Nat /\ Slack \in Nat /\ Missing \in Nat
      /\ IsFiniteSet(Unscored) /\ Cardinality(Unscored) \in Nat
  BY LooseTyped
<1>5. Slack' = 0 /\ Missing' = Cardinality(Unscored)
  <2>1. Unscored' \ Scoring' = Unscored
    BY <1>2, <1>3
  <2> QED BY <1>2, <2>1 DEF Slack, Missing
<1>6. Cardinality(Unscored) + Slack <= Missing + 1
  <2>1. CASE Scoring = {}
    <3>1. Unscored \ Scoring = Unscored
      BY <2>1
    <3> QED BY <1>4, <3>1 DEF Slack, Missing
  <2>2. CASE Scoring # {}
    <3>1. thread[Udp].pc \in {"score", "score2"} /\ Scoring = {<<thread[Udp].tstamp, "W">>}
      BY <2>2 DEF Scoring
    <3>2. ~HalfWay
      <4>1. Acting(Udp) /\ Udp \in Threads
        BY <3>1, ActsAt DEF Threads
      <4> QED BY <3>1, <4>1, SlackOfActor
    <3> DEFINE rest == Unscored \ Scoring
               win == <<thread[Udp].tstamp, "W">>
    <3>3. IsFiniteSet(rest)
      BY <1>4, FS_Subset
    <3>4. Unscored \subseteq rest \cup {win}
      BY <3>1
    <3>5. /\ IsFiniteSet(rest \cup {win})
          /\ Cardinality(rest \cup {win}) <= Cardinality(rest) + 1
          /\ Cardinality(rest \cup {win}) \in Nat /\ Cardinality(rest) \in Nat
      <4> HIDE DEF rest, win
      <4>1. Cardinality(rest) \in Nat
        BY <3>3, FS_CardinalityType
      <4>2. /\ IsFiniteSet(rest \cup {win})
            /\ Cardinality(rest \cup {win}) =
                 IF win \in rest THEN Cardinality(rest) ELSE Cardinality(rest) + 1
        BY <3>3, FS_AddElement
      <4> QED BY <4>1, <4>2
    <3>6. Cardinality(Unscored) <= Cardinality(rest \cup {win})
      <4> HIDE DEF rest, win
      <4> QED BY <3>4, <3>5, FS_Subset
    <3> QED BY <1>4, <3>2, <3>5, <3>6 DEF Slack, Missing
  <2> QED BY <2>1, <2>2
<1> QED BY <1>1, <1>3, <1>4, <1>5, <1>6 DEF LooseOK

LEMMA LookingLoose ==
  ASSUME TypeOK, TypeOK', ScoreInv, Kinds, Kinds', OneActs, IsFiniteSet(DOMAIN archive),
         LooseOK, NEW t \in Threads,
         \/ existsCheck(t) \/ parseHeader(t) \/ parseForQuit(t) \/ parseAttempts(t)
         \/ replyOK(t)
  PROVE  LooseOK'
<1>1. /\ UNCHANGED <<disk, game, archive, scores, crashes>>
      /\ thread[t].pc \in {"exists", "header", "quit", "parse", "reply"}
  BY DEF existsCheck, parseHeader, parseForQuit, parseAttempts, replyOK, files, At
<1>2. OthersSame(t) /\ thread'[t].pc \notin {"create", "rename", "score", "score2"}
  <2>1. CASE parseAttempts(t)
    BY <2>1, AttemptCases, RememberedFields, AfterFinish DEF Refuse, FindsRepeated, FindsNew
  <2>2. CASE existsCheck(t) \/ parseHeader(t) \/ parseForQuit(t) \/ replyOK(t)
    <3>1. \/ Finish(t) \/ EndWith(t, "T") \/ EndWith(t, "Q")
          \/ \E pc \in {"header", "truncate", "parse", "quit"} : Goto(t, pc)
      BY <2>2 DEF existsCheck, parseHeader, parseForQuit, replyOK, Refuse
    <3> QED BY <3>1, AfterFinish, AfterEndWith, AfterGoto
  <2> QED BY <2>1, <2>2
<1> QED BY <1>1, <1>2, SameLoose

LEMMA AcceptLoose ==
  ASSUME TypeOK, TypeOK', Kinds, Kinds', OneActs, IsFiniteSet(DOMAIN archive),
         LooseOK, NEW t \in Threads, NEW op, NEW pc \in {"exists", "header"},
         Accept(t, op, pc)
  PROVE  LooseOK'
<1>1. UNCHANGED <<disk, game, archive, scores, crashes>> /\ thread[t].pc = "idle"
  BY DEF Accept, files, At
<1>2. thread'[t] = [Idle EXCEPT !.pc = pc, !.op = op, !.tstamp = now] /\ OthersSame(t)
  BY TypeParts DEF Accept, OthersSame
<1>3. thread'[t].pc = pc
  BY <1>2 DEF Idle
<1> QED BY <1>1, <1>2, <1>3, SameLoose

(* createGame empties the file, which has no header until it is written. *)
LEMMA NewGameLoose ==
  ASSUME TypeOK, TypeOK', Kinds, Kinds', Solo, IsFiniteSet(DOMAIN archive),
         LooseOK, NEW t \in Threads, truncateGame(t) \/ writeHeader(t)
  PROVE  LooseOK'
<1>1. /\ UNCHANGED <<archive, scores, crashes>> /\ Acting(t) /\ KindOK(t)
      /\ thread[t].pc \in {"truncate", "create"}
  BY ActsAt DEF truncateGame, writeHeader, At, Kinds
<1>2. LooseInGame \in Nat
  BY LooseTyped
<1>3. CASE truncateGame(t)
  <2>1. thread[t].pc = "truncate"
    BY <1>3 DEF truncateGame, At
  <2>2. thread'[t].pc = "create" /\ OthersSame(t)
    <3>1. thread'[t] = [thread[t] EXCEPT !.pc = "create", !.file = game']
          /\ OthersSame(t)
      BY <1>3, TypeParts DEF truncateGame, OthersSame
    <3> QED BY <3>1, TypeParts DEF ThreadIn
  <2>3. game' # 0 /\ disk'[game'] = <<>>
    <3>1. CASE game = 0 /\ disk' = Append(disk, <<>>) /\ game' = Len(disk) + 1
      BY <3>1, TypedNames, EmptySeq, AppendProperties DEF DiskOK
    <3>2. CASE game # 0 /\ disk' = [disk EXCEPT ![game] = <<>>] /\ game' = game
      <4>1. game \in 1..Len(disk) /\ <<>> \in Seq(Line)
        BY <3>2, TypedNames, EmptySeq
      <4> QED BY <3>2, <4>1, TypedNames, ExceptSeq DEF DiskOK
    <3> QED BY <1>3, <3>1, <3>2 DEF truncateGame
  <2>4. LooseInGame' = 1
    <3>1. Len(disk'[game']) = 0 /\ ~HasHeader(game)'
      BY <2>3, EmptySeq DEF HasHeader, StartsWith
    <3>2. FootersTo(game, Len(disk[game]))' = {}
      BY <3>1 DEF FootersTo
    <3>3. Cardinality(FootersTo(game, Len(disk[game]))') = 0
      BY <3>2, FS_EmptySet
    <3> QED BY <2>3, <3>1, <3>3 DEF LooseInGame
  <2>5. Slack = 0 /\ Slack' = 1 /\ Scoring = {} /\ Scoring' = {}
    BY <1>1, <2>1, <2>2, SlackOfActor, SlackAfter DEF Slack, Solo
  <2>6. Unscored' = Unscored
    BY <1>1 DEF Unscored
  <2> QED BY <1>1, <1>2, <2>4, <2>5, <2>6, NoLooser
<1>4. CASE writeHeader(t)
  <2>1. thread[t].pc = "create" /\ game' = game
    BY <1>4 DEF writeHeader, At
  <2>2. game # 0 /\ thread[t].file = game /\ disk[game] = <<>> /\ game \in 1..Len(disk)
    BY <1>1, <2>1, TypedNames DEF Solo, ActorKnows, Knows
  <2>3. thread'[t].pc = "reply" /\ OthersSame(t)
    <3>1. thread'[t] = [thread[t] EXCEPT !.pc = "reply", !.game = started + 1]
          /\ OthersSame(t)
      BY <1>4, TypeParts DEF writeHeader, OthersSame
    <3> QED BY <3>1, TypeParts DEF ThreadIn
  <2> DEFINE line == Header(started + 1, thread[t].tstamp)
  <2>4. line \in Line /\ line.kind = "header"
    <3>1. thread[t].tstamp \in Nat /\ started + 1 \in Nat
      BY TypeParts DEF ThreadIn
    <3> QED BY <3>1 DEF Header, Line
  <2>5. disk'[game] = <<line>>
    <3>1. disk' = [disk EXCEPT ![game] = <<line>>]
      BY <1>4, <2>2 DEF writeHeader
    <3>2. <<line>> \in Seq(Line)
      BY <2>4
    <3> HIDE DEF line
    <3> QED BY <2>2, <3>1, <3>2, TypedNames, ExceptSeq DEF DiskOK
  <2>6. LooseInGame' = 0
    <3>1. Len(<<line>>) = 1 /\ <<line>>[1] = line /\ <<line>> # <<>>
      OBVIOUS
    <3> HIDE DEF line
    <3>2. HasHeader(game)' /\ Len(disk'[game']) = 1
      BY <2>1, <2>2, <2>4, <2>5, <3>1 DEF HasHeader, StartsWith
    <3>3. FootersTo(game, Len(disk[game]))' = {}
      BY <2>1, <2>4, <2>5, <3>1, <3>2 DEF FootersTo, IsFooter
    <3>4. Cardinality(FootersTo(game, Len(disk[game]))') = 0
      BY <3>3, FS_EmptySet
    <3> QED BY <2>1, <2>2, <3>2, <3>4 DEF LooseInGame
  <2>7. LooseInGame = 1
    <3>1. Len(disk[game]) = 0 /\ ~HasHeader(game)
      BY <2>2, EmptySeq DEF HasHeader, StartsWith
    <3>2. FootersTo(game, Len(disk[game])) = {}
      BY <3>1 DEF FootersTo
    <3>3. Cardinality(FootersTo(game, Len(disk[game]))) = 0
      BY <3>2, FS_EmptySet
    <3> QED BY <2>2, <3>1, <3>3 DEF LooseInGame
  <2>8. Slack = 1 /\ Slack' = 0 /\ Scoring = {} /\ Scoring' = {}
    BY <1>1, <2>1, <2>3, SlackOfActor, SlackAfter DEF Slack, Solo
  <2>9. Unscored' = Unscored
    BY <1>1 DEF Unscored
  <2> QED BY <1>1, <2>6, <2>7, <2>8, <2>9, NoLooser
<1> QED BY <1>3, <1>4

(* The footer makes the game one that has to be moved. *)
LEMMA AppendLoose ==
  ASSUME TypeOK, TypeOK', ScoreInv, Kinds, Kinds', Solo, IsFiniteSet(DOMAIN archive),
         LooseOK, NEW t \in Threads, openForAppend(t) \/ appendLines(t)
  PROVE  LooseOK'
<1> DEFINE th == thread[t]
<1>1. CASE openForAppend(t)
  <2>1. th.pc = "open" /\ Acting(t)
    BY <1>1, ActsAt DEF openForAppend, At
  <2>2. game # 0
    BY <2>1 DEF Solo, ActorKnows, Knows
  <2>3. UNCHANGED <<disk, game, archive, scores, crashes>>
    BY <1>1, <2>2 DEF openForAppend
  <2>4. thread'[t].pc = "write" /\ OthersSame(t)
    <3>1. thread'[t] = [thread[t] EXCEPT !.pc = "write", !.file = game'] /\ OthersSame(t)
      BY <1>1, TypeParts DEF openForAppend, OthersSame, AfterOpen
    <3> QED BY <3>1, TypeParts DEF ThreadIn
  <2> QED BY <2>1, <2>3, <2>4, SameLoose DEF Solo
<1>2. CASE appendLines(t)
  <2> DEFINE lines == disk[game]
             new == disk'[game']
  <2>1. /\ th.pc = "write" /\ Acting(t) /\ game # 0 /\ game' = game
        /\ lines \in Seq(Line) /\ Len(lines) \in Nat /\ new = Written(th)
    BY <1>2, AppendWrites
  <2>2. UNCHANGED <<archive, scores, crashes>>
    BY <1>2 DEF appendLines
  <2>3. /\ thread'[t].pc = IF th.ending = "none" THEN "reply" ELSE "rename"
        /\ OthersSame(t)
    <3>1. Goto(t, AfterWrite(th))
      BY <1>2 DEF appendLines
    <3> QED BY <3>1, AfterGoto DEF AfterWrite
  <2>4. Tried(th) \in Seq(Line) /\ FootersIn(Tried(th)) = FootersIn(lines)
        /\ FootersIn(lines) \in Nat /\ Len(Tried(th)) \in Nat
    <3>1. FootersIn(lines) \in Nat
      BY <2>1, FiniteTrials DEF FootersIn
    <3>2. CASE TrialLines(th) = <<>>
      BY <2>1, <3>1, <3>2, ConcatEmptySeq DEF Tried
    <3>3. CASE TrialLines(th) = <<Trial(th.guess)>> /\ Trial(th.guess) \in Line
      <4>1. Tried(th) \in Seq(Line) /\ Adds(Tried(th), lines, Trial(th.guess))
        BY <2>1, <3>3, OneLine DEF Tried
      <4>2. ~IsFooter(Trial(th.guess))
        BY DEF IsFooter, Trial
      <4> HIDE DEF lines
      <4>3. FootersOf(Tried(th), Len(lines)) = FootersOf(lines, Len(lines))
        BY <2>1, <4>1, AddedSame
      <4>4. FootersIn(Tried(th)) = FootersIn(lines)
        BY <2>1, <4>1, <4>2, <4>3, OneMore DEF Adds, FootersIn
      <4> QED BY <3>1, <4>1, <4>4, LenProperties
    <3> QED BY <2>1, <3>2, <3>3, LinesToAppend
  <2>5. FootersIn(new) = FootersIn(lines) + (IF th.ending = "none" THEN 0 ELSE 1)
    <3>1. CASE th.ending = "none"
      <4>1. FooterLines(th) = <<>>
        BY <3>1 DEF FooterLines
      <4> QED BY <2>1, <2>4, <3>1, <4>1, ConcatEmptySeq DEF Written
    <3>2. CASE th.ending # "none"
      <4> DEFINE last == Footer(th.ending, EndStamp(th))
      <4>1. FooterLines(th) = <<last>> /\ last \in Line
        BY <2>1, <3>2, LinesToAppend
      <4>2. Adds(new, Tried(th), last)
        BY <2>1, <2>4, <4>1, OneLine DEF Written
      <4>3. IsFooter(last)
        BY DEF IsFooter, Footer
      <4> HIDE DEF new, lines, last
      <4>4. FootersOf(new, Len(Tried(th))) = FootersOf(Tried(th), Len(Tried(th)))
        BY <2>4, <4>2, AddedSame
      <4>5. FootersIn(new) = FootersIn(Tried(th)) + 1
        BY <2>4, <4>2, <4>3, <4>4, OneMore DEF Adds, FootersIn
      <4> QED BY <2>4, <3>2, <4>5
    <3> QED BY <3>1, <3>2
  <2>6. HasHeader(game)' <=> HasHeader(game)
    BY <1>2, AppendKeeps
  <2>7. LooseInGame' = LooseInGame + (IF th.ending = "none" THEN 0 ELSE 1)
    <3>1. LooseInGame = FootersIn(lines) + (IF HasHeader(game) THEN 0 ELSE 1)
      BY <2>1, OfFile DEF LooseInGame, FootersIn
    <3>2. LooseInGame' = FootersIn(new) + (IF HasHeader(game)' THEN 0 ELSE 1)
      BY <2>1, OfFile DEF LooseInGame, FootersIn
    <3> HIDE DEF new, lines
    <3> QED BY <2>4, <2>5, <2>6, <3>1, <3>2
  <2>8. Slack = 0 /\ Scoring = {} /\ Scoring' = {}
        /\ Slack' = IF th.ending = "none" THEN 0 ELSE 1
    BY <2>1, <2>3, SlackOfActor, SlackAfter DEF Slack, Solo
  <2>9. Unscored' = Unscored
    BY <2>2 DEF Unscored
  <2>10. LooseInGame \in Nat
    BY LooseTyped
  <2> QED BY <2>2, <2>7, <2>8, <2>9, <2>10, NoLooser
<1> QED BY <1>1, <1>2

(* endGame's rename takes the footer away with the game: what a crash      *)
(* between the two leaves is gone with the next ending.                    *)
LEMMA RenameLoose ==
  ASSUME TypeOK, TypeOK', Kinds, Kinds', Solo, IsFiniteSet(DOMAIN archive),
         IsFiniteSet(DOMAIN archive'), LooseOK, NEW t \in Threads, renameGame(t)
  PROVE  LooseOK'
<1> DEFINE th == thread[t]
           name == FinishedName(th)
<1>1. th.pc = "rename" /\ Acting(t)
  BY ActsAt DEF renameGame, At
<1>2. game # 0 /\ EndsWith(game, Footer(th.ending, EndStamp(th)))
  BY <1>1 DEF Solo, ActorKnows, Knows
<1>3. /\ game' = 0 /\ UNCHANGED <<scores, crashes>> /\ AfterRename(t)
      /\ DOMAIN archive' = DOMAIN archive \cup {name}
  BY <1>2 DEF renameGame
<1>4. LooseInGame' = 0
  BY <1>3 DEF LooseInGame
<1>5. LooseInGame >= 1 /\ LooseInGame \in Nat
  <2> DEFINE lines == disk[game]
  <2>1. lines \in Seq(Line) /\ Len(lines) \in Nat
    BY <1>2, TypedNames, LenProperties DEF Named
  <2>2. lines # <<>> /\ IsFooter(lines[Len(lines)])
    BY <1>2 DEF EndsWith, IsFooter, Footer
  <2>3. Len(lines) \in FootersOf(lines, Len(lines))
    <3> HIDE DEF lines
    <3> QED BY <2>1, <2>2, EmptySeq DEF FootersOf
  <2>4. FootersIn(lines) \in Nat /\ FootersIn(lines) # 0
    <3> HIDE DEF lines
    <3> QED BY <2>1, <2>3, FiniteTrials, FS_EmptySet DEF FootersIn
  <2>5. LooseInGame = FootersIn(lines) + (IF HasHeader(game) THEN 0 ELSE 1)
    BY <1>2, OfFile DEF LooseInGame, FootersIn
  <2> HIDE DEF lines
  <2> QED BY <2>4, <2>5
<1>6. OthersSame(t) /\ thread'[t].pc \in {"idle", "score", "reply", "truncate"}
      /\ (th.ending = "W" => thread'[t].pc = "score" /\ thread'[t].tstamp = th.tstamp)
  <2>1. CASE th.ending = "W"
    <3>1. Goto(t, "score")
      BY <1>3, <2>1 DEF AfterRename
    <3> QED BY <2>1, <3>1, AfterGoto
  <2>2. CASE th.ending # "W"
    <3>1. Refuse(t) \/ Goto(t, "reply") \/ Goto(t, "truncate")
      BY <1>3, <2>2 DEF AfterRename
    <3> QED BY <2>2, <3>1, AfterGoto, AfterFinish DEF Refuse
  <2> QED BY <2>1, <2>2
<1>7. /\ Slack = 1 /\ Slack' = 0 /\ Scoring = {}
      /\ Scoring' = IF thread'[t].pc \in {"score", "score2"}
                    THEN {<<thread'[t].tstamp, "W">>} ELSE {}
  BY <1>1, <1>6, SlackOfActor, SlackAfter DEF Slack, Solo
<1>8. Unscored' \ Scoring' \subseteq Unscored \ Scoring
  <2> SUFFICES ASSUME NEW n \in Unscored', n \notin Scoring' PROVE n \in Unscored
    BY <1>7
  <2>1. n # name
    <3> SUFFICES ASSUME n = name PROVE FALSE
      OBVIOUS
    <3>1. th.ending = "W" /\ n = <<th.tstamp, "W">>
      BY DEF Unscored, FinishedName, EndStamp
    <3> QED BY <1>6, <1>7, <3>1
  <2>2. n \in DOMAIN archive
    BY <1>3, <2>1 DEF Unscored
  <2> QED BY <1>3, <2>2 DEF Unscored
<1> QED BY <1>3, <1>4, <1>5, <1>7, <1>8, NoLooser

(* The second to which a game ended, and how. *)
NamesTyped == \A n \in DOMAIN archive : n \in Nat \X Endings

LEMMA ScoreLoose ==
  ASSUME TypeOK, TypeOK', Kinds, Kinds', OneActs, IsFiniteSet(DOMAIN archive),
         NamesTyped, LooseOK, NEW t \in Threads, createScore(t) \/ writeScore(t)
  PROVE  LooseOK'
<1> DEFINE th == thread[t]
           name == <<th.tstamp, "W">>
<1>1. /\ UNCHANGED <<disk, game, archive, crashes>> /\ Acting(t)
      /\ th.pc \in {"score", "score2"}
  BY ActsAt DEF createScore, writeScore, At
<1>2. LooseInGame' = LooseInGame /\ LooseInGame \in Nat
  BY <1>1, LooseTyped, SameLines DEF LooseInGame
<1>3. CASE createScore(t)
  <2>1. /\ thread'[t].pc = "score2" /\ thread'[t].tstamp = th.tstamp /\ OthersSame(t)
    BY <1>3, AfterGoto DEF createScore
  <2>2. Slack = 0 /\ Slack' = 0 /\ Scoring = {name} /\ Scoring' = {name}
    BY <1>1, <2>1, SlackOfActor, SlackAfter DEF Slack
  <2>3. Unscored' \ Scoring' \subseteq Unscored \ Scoring
    <3> SUFFICES ASSUME NEW n \in Unscored', n # name PROVE n \in Unscored
      BY <2>2
    <3>1. n \in DOMAIN archive /\ n[2] = "W"
      BY <1>1 DEF Unscored
    <3>2. ASSUME NEW s \in scores, s.tstamp = n[1], s.written PROVE FALSE
      <4>1. s \notin scores'
        BY <3>2 DEF Unscored
      <4>2. s = ScoreFile(th, TRUE)
        BY <1>3, <4>1 DEF createScore
      <4>3. n[1] = th.tstamp
        BY <3>2, <4>2 DEF ScoreFile
      <4>4. n = name
        <5>1. n = <<n[1], n[2]>>
          BY <3>1 DEF NamesTyped
        <5> QED BY <3>1, <4>3, <5>1
      <4> QED BY <4>4
    <3> QED BY <3>1, <3>2 DEF Unscored
  <2> QED BY <1>1, <1>2, <2>2, <2>3, NoLooser
<1>4. CASE writeScore(t)
  <2>1. /\ thread'[t].pc = "reply" /\ OthersSame(t)
    BY <1>4, AfterGoto DEF writeScore
  <2>2. Slack' = 0 /\ Slack = 0 /\ Scoring = {name} /\ Scoring' = {}
    BY <1>1, <2>1, SlackOfActor, SlackAfter DEF Slack
  <2>3. Unscored' \ Scoring' \subseteq Unscored \ Scoring
    <3> SUFFICES ASSUME NEW n \in Unscored' PROVE n \in Unscored /\ n # name
      BY <2>2
    <3>1. ScoreFile(th, TRUE) \in scores' /\ ScoreFile(th, TRUE).written
          /\ ScoreFile(th, TRUE).tstamp = th.tstamp
      BY <1>4 DEF writeScore, ScoreFile
    <3>2. n # name
      <4> SUFFICES ASSUME n = name PROVE FALSE
        OBVIOUS
      <4>1. n[1] = th.tstamp
        OBVIOUS
      <4>2. ~\E s \in scores' : s.tstamp = n[1] /\ s.written
        BY DEF Unscored
      <4> QED BY <3>1, <4>1, <4>2
    <3>3. ASSUME NEW s \in scores, s.written PROVE s \in scores'
      <4>1. ScoreFile(th, FALSE).written = FALSE
        BY DEF ScoreFile
      <4> QED BY <1>4, <3>3, <4>1 DEF writeScore
    <3> QED BY <1>1, <3>2, <3>3 DEF Unscored
  <2> QED BY <1>1, <1>2, <2>2, <2>3, NoLooser
<1> QED BY <1>3, <1>4

LEMMA NamesKept ==
  ASSUME TypeOK, IsFiniteSet(DOMAIN archive), NamesTyped, [Next]_vars
  PROVE  IsFiniteSet(DOMAIN archive') /\ NamesTyped'
<1>1. CASE archive' = archive
  BY <1>1 DEF NamesTyped
<1>2. ASSUME NEW t \in Threads, renameGame(t)
      PROVE  IsFiniteSet(DOMAIN archive') /\ NamesTyped'
  <2> DEFINE name == FinishedName(thread[t])
  <2>1. archive' = archive \/ DOMAIN archive' = DOMAIN archive \cup {name}
    BY <1>2 DEF renameGame
  <2>2. name \in Nat \X Endings
    <3>1. Len(disk) \in Nat /\ thread[t] \in ThreadIn(Len(disk))
      BY TypeParts, LenProperties DEF DiskOK
    <3>2. EndStamp(thread[t]) \in Nat /\ thread[t].ending \in Endings
      BY <3>1, EndStampTyped DEF ThreadIn
    <3> QED BY <3>2 DEF FinishedName
  <2> HIDE DEF name
  <2>3. IsFiniteSet(DOMAIN archive')
    BY <2>1, FS_AddElement
  <2> QED BY <2>1, <2>2, <2>3 DEF NamesTyped
<1>3. archive' = archive \/ \E t \in Threads : renameGame(t)
  <2>1. CASE receiveStart \/ receiveTry \/ receiveQuit \/ crash \/ Tick \/ UNCHANGED vars
    BY <2>1 DEF receiveStart, receiveTry, receiveQuit, Accept, crash, Tick, vars, files
  <2>2. ASSUME NEW w \in Workers, receiveShowTrials(w) PROVE archive' = archive
    BY <2>2 DEF receiveShowTrials, Accept, files
  <2>3. ASSUME NEW t \in Threads, handler(t), ~renameGame(t) PROVE archive' = archive
    <3>1. CASE existsCheck(t) \/ parseHeader(t) \/ truncateGame(t) \/ writeHeader(t)
      BY <3>1 DEF existsCheck, parseHeader, truncateGame, writeHeader, files
    <3>2. CASE parseAttempts(t)
      BY <3>2, Zenon DEF parseAttempts, files
    <3>3. CASE parseForQuit(t) \/ openForAppend(t) \/ appendLines(t)
      BY <3>3 DEF parseForQuit, openForAppend, appendLines, files
    <3>4. CASE createScore(t) \/ writeScore(t) \/ replyOK(t)
      BY <3>4 DEF createScore, writeScore, replyOK, files
    <3> QED BY <2>3, <3>1, <3>2, <3>3, <3>4 DEF handler
  <2> QED BY <2>1, <2>2, <2>3 DEF Next
<1> QED BY <1>1, <1>2, <1>3

LEMMA LooseNext ==
  ASSUME AloneInv, AloneInv', IsFiniteSet(DOMAIN archive), NamesTyped,
         raced \/ LooseOK, [Next]_vars
  PROVE  raced' \/ LooseOK'
<1> USE DEF Threads
<1> SUFFICES ASSUME ~raced' PROVE LooseOK'
  OBVIOUS
<1>1. ~raced
  BY RacedStays
<1>2. /\ TypeOK /\ TypeOK' /\ ScoreInv /\ Kinds /\ Kinds' /\ Solo /\ OneActs /\ LooseOK
      /\ IsFiniteSet(DOMAIN archive')
  BY <1>1, NamesKept DEF AloneInv, Inv, Solo
<1>3. CASE receiveStart \/ receiveTry \/ receiveQuit
  BY <1>2, <1>3, AcceptLoose DEF receiveStart, receiveTry, receiveQuit
<1>4. ASSUME NEW w \in Workers, receiveShowTrials(w) PROVE LooseOK'
  BY <1>2, <1>4, AcceptLoose DEF receiveShowTrials
<1>5. ASSUME NEW t \in Threads, handler(t) PROVE LooseOK'
  <2>1. CASE \/ existsCheck(t) \/ parseHeader(t) \/ parseForQuit(t) \/ parseAttempts(t)
             \/ replyOK(t)
    BY <1>2, <2>1, LookingLoose
  <2>2. CASE truncateGame(t) \/ writeHeader(t)
    BY <1>2, <2>2, NewGameLoose
  <2>3. CASE openForAppend(t) \/ appendLines(t)
    BY <1>2, <2>3, AppendLoose
  <2>4. CASE renameGame(t)
    BY <1>2, <2>4, RenameLoose
  <2>5. CASE createScore(t) \/ writeScore(t)
    BY <1>2, <2>5, ScoreLoose
  <2> QED BY <1>5, <2>1, <2>2, <2>3, <2>4, <2>5 DEF handler
<1>6. CASE crash
  BY <1>2, <1>6, CrashLoose
<1>7. CASE Tick \/ UNCHANGED vars
  <2>1. UNCHANGED <<disk, game, archive, scores, thread, crashes>>
    BY <1>7 DEF Tick, vars, files
  <2>2. LooseInGame' = LooseInGame
    BY <2>1, SameLines DEF LooseInGame
  <2>3. Unscored' = Unscored /\ Scoring' = Scoring /\ Slack' = Slack
    BY <2>1 DEF Unscored, Scoring, Slack, HalfWay
  <2> QED BY <1>2, <2>1, <2>2, <2>3 DEF LooseOK, Missing
<1> QED BY <1>3, <1>4, <1>5, <1>6, <1>7 DEF Next

LooseInv == AloneInv /\ IsFiniteSet(DOMAIN archive) /\ NamesTyped /\ (raced \/ LooseOK)

LEMMA LooseStart == Init => LooseInv
<1> SUFFICES ASSUME Init PROVE LooseInv
  OBVIOUS
<1>1. DOMAIN archive = {}
  <2>1. archive = <<>>
    BY DEF Init
  <2> QED BY <2>1, EmptySeq
<1>2. Unscored = {} /\ Scoring = {} /\ LooseInGame = 0 /\ crashes = 0 /\ ~HalfWay
  BY <1>1 DEF Init, Unscored, Scoring, LooseInGame, HalfWay, Idle, Threads
<1>3. Unscored \ Scoring = {}
  BY <1>2
<1>4. Missing = 0
  BY <1>3, FS_EmptySet DEF Missing
<1> QED BY <1>1, <1>2, <1>4, AloneStart, FS_EmptySet DEF LooseInv, NamesTyped, LooseOK, Slack

LEMMA LooseStep == LooseInv /\ [Next]_vars => LooseInv'
  BY AloneStep, NamesKept, LooseNext DEF LooseInv, AloneInv, Inv

LEMMA QuietLoose == LooseInv => OneLooseEndPerCrash
<1> SUFFICES ASSUME LooseInv, ~raced, Quiet PROVE LooseEnds <= crashes
  BY DEF OneLooseEndPerCrash
<1>1. TypeOK /\ Kinds /\ LooseOK /\ IsFiniteSet(DOMAIN archive)
  BY DEF LooseInv, AloneInv, Inv
<1>2. ASSUME NEW t \in Threads PROVE thread[t].pc \notin {"create", "rename", "score", "score2"}
  BY <1>1 DEF Quiet, At, Closing, Threads, Kinds, KindOK
<1>3. ~HalfWay /\ Scoring = {}
  BY <1>2 DEF HalfWay, Scoring, Threads
<1>4. Unscored \ Scoring = Unscored
  BY <1>3
<1>5. Slack = 0 /\ Missing = Cardinality(Unscored)
  BY <1>3, <1>4 DEF Slack, Missing
<1> QED BY <1>1, <1>5, LooseTyped DEF LooseOK, LooseEnds

(* OneLooseEndPerCrash: createGame truncates before it writes the header,  *)
(* endGame writes the footer before it renames, attempt writes the score   *)
(* last.  Each of the three can be caught half done by a kill, but only    *)
(* one at a time: between requests at most as many are left as there were  *)
(* crashes, however many games were played.                                *)
THEOREM OneLooseEnd == Spec => []OneLooseEndPerCrash
  BY LooseStart, LooseStep, QuietLoose, PTL DEF Spec
-----------------------------------------------------------------------------
(* PlayerGame as long as nothing crashed and no closing met another        *)
(* request: what the game with the name looks like then, and that it is    *)
(* the file created last.                                                  *)
PlainGame(lines) ==
  lines # <<>> /\ lines[1].kind = "header" /\ \A i \in 2..Len(lines) : IsTrial(lines[i])

SomeoneAt(pc) == \E t \in Threads : thread[t].pc = pc

NameOfLast == game # 0 => game = Len(disk)

WholeGame ==
  game # 0 => \/ SomeoneAt("rename")
              \/ SomeoneAt("create")
              \/ PlainGame(disk[game])

CalmOK == NameOfLast /\ WholeGame

(* The state of PlayerGame that the files stand for. *)
PlayedSecret == IF Running THEN Secret ELSE NoGuess

PlayedGuesses == IF Running THEN GuessesIn(disk[game]) ELSE <<>>

PlayedResults ==
  [f \in 1..(Len(disk) - (IF Running THEN 1 ELSE 0)) |-> ResultOf(disk[f])]

LEMMA PlainCounts ==
  ASSUME NEW lines \in Seq(Line), PlainGame(lines)
  PROVE  /\ NoFooter(lines) /\ Len(lines) \in Nat \ {0}
         /\ TrialCount(lines) = Len(lines) - 1
         /\ \A i \in 1..(Len(lines) - 1) : i + 1 \in TrialsOf(lines, Len(lines))
<1> DEFINE n == Len(lines)
<1>1. n \in Nat \ {0}
  BY LenProperties, EmptySeq DEF PlainGame
<1>2. ~IsFooter(lines[1]) /\ ~IsTrial(lines[1])
  BY DEF PlainGame, IsFooter, IsTrial
<1>3. \A i \in 2..n : IsTrial(lines[i]) /\ ~IsFooter(lines[i])
  BY DEF PlainGame, IsFooter, IsTrial
<1>4. \A i \in 1..n : i = 1 \/ i \in 2..n
  BY <1>1
<1>5. TrialsOf(lines, n) = 2..n /\ FootersOf(lines, n) = {}
  <2> HIDE DEF n
  <2> QED BY <1>1, <1>2, <1>3, <1>4 DEF TrialsOf, FootersOf
<1>6. Cardinality(2..n) = n - 1
  BY <1>1, FS_Interval
<1> HIDE DEF n
<1>7. \A i \in 1..(n - 1) : i + 1 \in 2..n
  BY <1>1
<1> QED BY <1>1, <1>5, <1>6, <1>7 DEF NoFooter, TrialCount, n

(* Whether the game runs, where only one thread acts. *)
LEMMA RunningUnless ==
  ASSUME TypeOK, Kinds, Solo, CalmOK, game # 0
  PROVE  /\ Running <=> ~SomeoneAt("rename")
         /\ SomeoneAt("create") => disk[game] = <<>>
<1>1. \A t \in Threads : thread[t].pc \in {"create", "rename"} => Acting(t) /\ Knows(t)
  BY ActsAt DEF Solo, ActorKnows
<1>2. disk[game] \in Seq(Line)
  BY TypedNames DEF Named
<1>3. ASSUME NEW t \in Threads, thread[t].pc = "rename" PROVE ~Running
  <2> DEFINE lines == disk[game]
             last == Footer(thread[t].ending, EndStamp(thread[t]))
  <2>1. lines # <<>> /\ lines[Len(lines)] = last /\ IsFooter(last)
    BY <1>1, <1>3 DEF Knows, EndsWith, IsFooter, Footer
  <2> HIDE DEF lines, last
  <2>2. Len(lines) \in Nat \ {0}
    BY <1>2, <2>1, LenProperties, EmptySeq DEF lines
  <2>3. Len(lines) \in FootersOf(lines, Len(lines))
    BY <2>1, <2>2 DEF FootersOf
  <2> QED BY <2>3, OfFile DEF Running, lines
<1>4. ASSUME NEW t \in Threads, thread[t].pc = "create" PROVE disk[game] = <<>>
  BY <1>1, <1>4 DEF Knows
<1>5. disk[game] = <<>> \/ PlainGame(disk[game]) => Running
  <2>1. CASE disk[game] = <<>>
    <3>1. Len(disk[game]) = 0
      BY <2>1, EmptySeq
    <3> QED BY <3>1 DEF Running, FootersTo
  <2>2. CASE PlainGame(disk[game])
    BY <1>2, <2>2, PlainCounts, OfFile DEF Running, NoFooter
  <2> QED BY <2>1, <2>2
<1> QED BY <1>3, <1>4, <1>5 DEF SomeoneAt, CalmOK, WholeGame

(* A thread that acts is the only one half way. *)
LEMMA ActorHalfWay ==
  ASSUME Kinds, Solo, NEW t \in Threads, Acting(t)
  PROVE  /\ SomeoneAt("rename") <=> thread[t].pc = "rename"
         /\ SomeoneAt("create") <=> thread[t].pc = "create"
         /\ OthersSame(t) => /\ SomeoneAt("rename")' <=> thread'[t].pc = "rename"
                             /\ SomeoneAt("create")' <=> thread'[t].pc = "create"
<1>1. \A s \in Threads \ {t} : thread[s].pc \notin {"rename", "create"}
  BY ActsAt DEF Solo, OneActs
<1> QED BY <1>1 DEF SomeoneAt, OthersSame

-----------------------------------------------------------------------------
(* PlayerGame's steps, said of what the files stand for. *)
LEMMA PlayedStutter ==
  ASSUME UNCHANGED <<PlayedSecret, PlayedGuesses, PlayedResults>>
  PROVE  UNCHANGED Promise!vars
  BY DEF PlayedSecret, PlayedGuesses, PlayedResults, Promise!vars

LEMMA PlayedBegin ==
  ASSUME Running', PlayedGuesses' = <<>>, UNCHANGED PlayedResults
  PROVE  Promise!Next
<1>1. Promise!Begin("player")
  BY GuessesAssumption
  DEF Promise!Begin, PlayedSecret, PlayedGuesses, PlayedResults, OnlyPlayer
<1> QED BY <1>1 DEF Promise!Next, OnlyPlayer

LEMMA PlayedGuess ==
  ASSUME Running, NEW g \in Guesses,
         Len(PlayedGuesses) \in Nat,
         \A i \in 1..Len(PlayedGuesses) : PlayedGuesses[i] # g,
         \/ /\ g # Secret /\ Len(PlayedGuesses) + 1 < GuessesMax
            /\ Running' /\ PlayedGuesses' = Append(PlayedGuesses, g)
            /\ UNCHANGED PlayedResults
         \/ /\ g # Secret /\ Len(PlayedGuesses) + 1 = GuessesMax
            /\ ~Running'
            /\ PlayedResults' = Append(PlayedResults, <<"L", Len(PlayedGuesses) + 1>>)
         \/ /\ g = Secret
            /\ ~Running'
            /\ PlayedResults' = Append(PlayedResults, <<"W", Len(PlayedGuesses) + 1>>)
  PROVE  Promise!Next
<1>1. Promise!Guess("player")
  BY GuessesAssumption
  DEF Promise!Guess, Promise!Over, Promise!Record, PlayedSecret, PlayedGuesses,
      PlayedResults, OnlyPlayer
<1> QED BY <1>1 DEF Promise!Next, OnlyPlayer

LEMMA PlayedEnd ==
  ASSUME Running, ~Running', NEW how \in {"Q", "T"},
         PlayedResults' = Append(PlayedResults, <<how, Len(PlayedGuesses)>>)
  PROVE  Promise!Next
<1>1. Promise!End("player")
  BY GuessesAssumption
  DEF Promise!End, Promise!Over, Promise!Record, PlayedSecret, PlayedGuesses,
      PlayedResults, OnlyPlayer
<1> QED BY <1>1 DEF Promise!Next, OnlyPlayer

-----------------------------------------------------------------------------
(* The steps of the files.  Most change nothing for the player. *)
LEMMA SameCalm ==
  ASSUME CalmOK, UNCHANGED <<disk, game>>,
         \A s \in Threads : thread[s].pc \in {"rename", "create"} =>
                              thread'[s].pc = thread[s].pc
  PROVE  CalmOK' /\ UNCHANGED Promise!vars
<1>1. CalmOK'
  BY DEF CalmOK, NameOfLast, WholeGame, SomeoneAt
<1>2. Running' = Running
  BY DEF Running, FootersTo
<1>3. UNCHANGED <<PlayedSecret, PlayedGuesses, PlayedResults>>
  BY <1>2 DEF PlayedSecret, PlayedGuesses, PlayedResults
<1> QED BY <1>1, <1>3, PlayedStutter

LEMMA AcceptCalm ==
  ASSUME TypeOK, CalmOK, NEW t \in Threads, NEW op, NEW pc, Accept(t, op, pc)
  PROVE  CalmOK' /\ UNCHANGED Promise!vars
<1>1. UNCHANGED <<disk, game>> /\ thread[t].pc = "idle" /\ OthersSame(t)
  BY TypeParts DEF Accept, files, At, OthersSame
<1> QED BY <1>1, SameCalm DEF OthersSame

(* The steps of a handler that do not write to the game file or move it. *)
LEMMA LookingCalm ==
  ASSUME TypeOK, CalmOK, NEW t \in Threads,
         \/ existsCheck(t) \/ parseHeader(t) \/ parseAttempts(t) \/ parseForQuit(t)
         \/ createScore(t) \/ writeScore(t) \/ replyOK(t)
  PROVE  CalmOK' /\ UNCHANGED Promise!vars
<1>1. /\ UNCHANGED <<disk, game>>
      /\ thread[t].pc \in {"exists", "header", "quit", "parse", "reply", "score", "score2"}
  BY DEF existsCheck, parseHeader, parseForQuit, parseAttempts, createScore, writeScore,
         replyOK, files, At
<1>2. OthersSame(t)
  <2>1. CASE parseAttempts(t)
    BY <2>1, AttemptCases, RememberedFields, AfterFinish DEF Refuse, FindsRepeated, FindsNew
  <2>2. CASE ~parseAttempts(t)
    <3>1. \/ Finish(t) \/ EndWith(t, "T") \/ EndWith(t, "Q")
          \/ \E pc \in {"header", "truncate", "parse", "quit", "score2", "reply"} : Goto(t, pc)
      BY <2>2 DEF existsCheck, parseHeader, parseForQuit, createScore, writeScore, replyOK,
                  Refuse
    <3> QED BY <3>1, AfterFinish, AfterEndWith, AfterGoto
  <2> QED BY <2>1, <2>2
<1> QED BY <1>1, <1>2, SameCalm DEF OthersSame

LEMMA OpenCalm ==
  ASSUME TypeOK, Kinds, Solo, CalmOK, NEW t \in Threads, openForAppend(t)
  PROVE  CalmOK' /\ UNCHANGED Promise!vars
<1>1. thread[t].pc = "open" /\ Acting(t)
  BY ActsAt DEF openForAppend, At
<1>2. game # 0
  BY <1>1 DEF Solo, ActorKnows, Knows
<1>3. UNCHANGED <<disk, game>> /\ OthersSame(t)
  BY <1>2, TypeParts DEF openForAppend, OthersSame
<1> QED BY <1>1, <1>3, SameCalm DEF OthersSame

(* A new game begins where its file is emptied, or created. *)
LEMMA TruncateCalm ==
  ASSUME TypeOK, Kinds, Solo, CalmOK, NEW t \in Threads, truncateGame(t)
  PROVE  CalmOK' /\ Promise!Next
<1>1. thread[t].pc = "truncate" /\ Acting(t)
  BY ActsAt DEF truncateGame, At
<1>2. thread'[t].pc = "create" /\ OthersSame(t)
  <2>1. /\ thread'[t] = [thread[t] EXCEPT !.pc = "create", !.file = game'] /\ OthersSame(t)
    BY TypeParts DEF truncateGame, OthersSame
  <2> QED BY <2>1, TypeParts DEF ThreadIn
<1>3. /\ game' \in Nat \ {0} /\ disk'[game'] = <<>> /\ Len(disk') = game'
      /\ Len(disk) \in Nat
      /\ \A f \in 1..(Len(disk') - 1) : disk'[f] = disk[f]
      /\ Len(disk') - 1 = Len(disk) - (IF Running THEN 1 ELSE 0)
  <2>1. CASE game = 0 /\ disk' = Append(disk, <<>>) /\ game' = Len(disk) + 1
    <3>1. <<>> \in Seq(Line)
      BY EmptySeq
    <3>2. ~Running
      BY <2>1 DEF Running
    <3> QED BY <2>1, <3>1, <3>2, TypedNames, AppendProperties DEF DiskOK
  <2>2. CASE game # 0 /\ disk' = [disk EXCEPT ![game] = <<>>] /\ game' = game
    <3>1. game \in 1..Len(disk) /\ <<>> \in Seq(Line) /\ game = Len(disk)
      BY <2>2, TypedNames, EmptySeq DEF CalmOK, NameOfLast
    <3>2. Running
      BY <1>1, <2>2, RunningUnless, ActorHalfWay
    <3> QED BY <2>2, <3>1, <3>2, TypedNames, ExceptSeq DEF DiskOK
  <2> QED BY <2>1, <2>2 DEF truncateGame
<1>4. Len(disk'[game']) = 0
  BY <1>3, EmptySeq
<1>5. Running'
  BY <1>3, <1>4 DEF Running, FootersTo
<1>6. PlayedGuesses' = <<>>
  BY <1>3, <1>4, <1>5 DEF PlayedGuesses, GuessesIn
<1>7. PlayedResults' = PlayedResults
  BY <1>3, <1>5 DEF PlayedResults, ResultOf
<1>8. CalmOK'
  BY <1>2, <1>3 DEF CalmOK, NameOfLast, WholeGame, SomeoneAt
<1> QED BY <1>5, <1>6, <1>7, <1>8, PlayedBegin

LEMMA HeaderCalm ==
  ASSUME TypeOK, Kinds, Solo, CalmOK, NEW t \in Threads, writeHeader(t)
  PROVE  CalmOK' /\ UNCHANGED Promise!vars
<1> DEFINE line == Header(started + 1, thread[t].tstamp)
<1>1. thread[t].pc = "create" /\ Acting(t)
  BY ActsAt DEF writeHeader, At
<1>2. game # 0 /\ thread[t].file = game /\ disk[game] = <<>> /\ game \in 1..Len(disk)
      /\ game = Len(disk) /\ Len(disk) \in Nat /\ disk \in Seq(Seq(Line))
  BY <1>1, TypedNames DEF Solo, ActorKnows, Knows, CalmOK, NameOfLast, DiskOK
<1>3. line \in Line /\ line.kind = "header"
  <2>1. thread[t].tstamp \in Nat /\ started \in Nat
    BY TypeParts DEF ThreadIn
  <2> QED BY <2>1 DEF Header, Line
<1>4. game' = game /\ disk' = [disk EXCEPT ![game] = <<line>>]
  BY <1>2 DEF writeHeader
<1> HIDE DEF line
<1>5. /\ disk'[game] = <<line>> /\ Len(disk') = Len(disk)
      /\ \A f \in 1..Len(disk) : f # game => disk'[f] = disk[f]
  <2>1. <<line>> \in Seq(Line)
    BY <1>3
  <2> QED BY <1>2, <1>4, <2>1, ExceptSeq
<1>6. PlainGame(disk'[game']) /\ Len(disk'[game']) = 1
  BY <1>3, <1>4, <1>5 DEF PlainGame
<1>7. Running'
  <2>1. disk'[game'] = <<line>> /\ <<line>> \in Seq(Line)
    BY <1>3, <1>4, <1>5
  <2> QED BY <1>2, <1>4, <1>6, <2>1, PlainCounts, OfFile DEF Running, NoFooter
<1>8. Running
  BY <1>1, <1>2, RunningUnless, ActorHalfWay
<1>9. PlayedGuesses' = PlayedGuesses
  <2>1. Len(disk[game]) = 0
    BY <1>2, EmptySeq
  <2> QED BY <1>6, <1>7, <1>8, <2>1 DEF PlayedGuesses, GuessesIn
<1>10. PlayedResults' = PlayedResults
  <2>1. ASSUME NEW f \in 1..(Len(disk) - 1)
        PROVE  ResultOf(disk'[f]) = ResultOf(disk[f])
    <3>1. f \in 1..Len(disk) /\ f # Len(disk)
      BY <1>2
    <3>2. disk'[f] = disk[f]
      BY <1>2, <1>5, <3>1
    <3> QED BY <3>2
  <2> QED BY <1>5, <1>7, <1>8, <2>1 DEF PlayedResults
<1>11. PlayedSecret' = PlayedSecret
  BY <1>7, <1>8 DEF PlayedSecret
<1>12. CalmOK'
  BY <1>2, <1>4, <1>5, <1>6 DEF CalmOK, NameOfLast, WholeGame
<1> QED BY <1>9, <1>10, <1>11, <1>12, PlayedStutter

(* endGame's rename finds the result already recorded. *)
LEMMA RenameCalm ==
  ASSUME TypeOK, Kinds, Solo, CalmOK, NEW t \in Threads, renameGame(t)
  PROVE  CalmOK' /\ UNCHANGED Promise!vars
<1>1. thread[t].pc = "rename" /\ Acting(t)
  BY ActsAt DEF renameGame, At
<1>2. game # 0
  BY <1>1 DEF Solo, ActorKnows, Knows
<1>3. ~Running
  BY <1>1, <1>2, RunningUnless DEF SomeoneAt
<1>4. game' = 0 /\ disk' = disk /\ ~Running'
  BY DEF renameGame, Running
<1>5. UNCHANGED <<PlayedSecret, PlayedGuesses, PlayedResults>>
  BY <1>3, <1>4 DEF PlayedSecret, PlayedGuesses, PlayedResults
<1> QED BY <1>4, <1>5, PlayedStutter DEF CalmOK, NameOfLast, WholeGame

-----------------------------------------------------------------------------
(* The guesses and the results, when a line is appended. *)
LEMMA OneToN ==
  ASSUME NEW S, NEW n \in Nat, NEW f \in [1..n -> S]
  PROVE  f \in Seq(S) /\ Len(f) = n
<1>1. f \in Seq(S)
  BY SeqDef
<1>2. Len(f) \in Nat /\ DOMAIN f = 1..Len(f) /\ DOMAIN f = 1..n
  BY <1>1, LenProperties
<1> QED BY <1>1, <1>2

LEMMA GuessesTyped ==
  ASSUME NEW lines \in Seq(Line), PlainGame(lines)
  PROVE  /\ GuessesIn(lines) \in Seq(Guesses) /\ Len(GuessesIn(lines)) = Len(lines) - 1
         /\ \A i \in 1..(Len(lines) - 1) : GuessesIn(lines)[i] = lines[i + 1].guess
         /\ \A g : Guessed(lines, g) <=>
                     \E i \in 1..Len(GuessesIn(lines)) : GuessesIn(lines)[i] = g
<1> DEFINE n == Len(lines)
           gs == GuessesIn(lines)
<1>1. n \in Nat \ {0} /\ \A i \in 1..(n - 1) : i + 1 \in TrialsOf(lines, n)
  BY PlainCounts
<1>2. \A j \in TrialsOf(lines, n) : j \in 2..n /\ lines[j].guess \in Guesses
  <2> SUFFICES ASSUME NEW j \in TrialsOf(lines, n)
               PROVE  j \in 2..n /\ lines[j].guess \in Guesses
    OBVIOUS
  <2>1. j \in 1..n /\ lines[j].kind = "trial" /\ lines[j] \in Line
    BY ElementOfSeq DEF TrialsOf, IsTrial
  <2>2. j # 1
    BY <2>1 DEF PlainGame
  <2>3. lines[j].guess \in Guesses
    BY <2>1 DEF Line
  <2> HIDE DEF n
  <2> QED BY <1>1, <2>1, <2>2, <2>3
<1>3. gs = [i \in 1..(n - 1) |-> lines[i + 1].guess]
  BY DEF GuessesIn
<1> HIDE DEF n, gs
<1>4. gs \in [1..(n - 1) -> Guesses] /\ n - 1 \in Nat
  BY <1>1, <1>2, <1>3
<1>5. gs \in Seq(Guesses) /\ Len(gs) = n - 1
  BY <1>4, OneToN
<1>6. \A i \in 1..(n - 1) : gs[i] = lines[i + 1].guess
  BY <1>3
<1>7. ASSUME NEW g
      PROVE  (\E j \in TrialsOf(lines, n) : lines[j].guess = g) <=>
               \E i \in 1..(n - 1) : gs[i] = g
  <2>1. ASSUME NEW j \in TrialsOf(lines, n), lines[j].guess = g
        PROVE  \E i \in 1..(n - 1) : gs[i] = g
    <3>1. j - 1 \in 1..(n - 1) /\ (j - 1) + 1 = j
      BY <1>1, <1>2
    <3>2. gs[j - 1] = g
      BY <1>6, <2>1, <3>1
    <3> QED BY <3>1, <3>2
  <2>2. ASSUME NEW i \in 1..(n - 1), gs[i] = g
        PROVE  \E j \in TrialsOf(lines, n) : lines[j].guess = g
    BY <1>1, <1>6, <2>2
  <2> QED BY <2>1, <2>2
<1> QED BY <1>5, <1>6, <1>7 DEF Guessed, n, gs

LEMMA GuessesMore ==
  ASSUME NEW lines \in Seq(Line), PlainGame(lines), NEW s \in Seq(Line), NEW g \in Guesses,
         Adds(s, lines, Trial(g))
  PROVE  PlainGame(s) /\ GuessesIn(s) = Append(GuessesIn(lines), g)
<1> DEFINE n == Len(lines)
           old == GuessesIn(lines)
           new == GuessesIn(s)
<1>1. /\ n \in Nat \ {0} /\ Len(s) = n + 1 /\ s[n + 1] = Trial(g)
      /\ \A i \in 1..n : s[i] = lines[i]
  BY PlainCounts DEF Adds
<1>2. IsTrial(Trial(g)) /\ Trial(g).guess = g
  BY DEF IsTrial, Trial
<1>3. PlainGame(s)
  <2>1. s # <<>> /\ s[1].kind = "header"
    <3>1. s[1] = lines[1]
      BY <1>1
    <3>2. s # <<>>
      BY <1>1, EmptySeq
    <3> QED BY <3>1, <3>2 DEF PlainGame
  <2>2. ASSUME NEW i \in 2..(n + 1) PROVE IsTrial(s[i])
    <3>1. CASE i = n + 1
      BY <1>1, <1>2, <3>1
    <3>2. CASE i # n + 1
      <4>1. i \in 2..n /\ i \in 1..n
        BY <1>1, <3>2
      <4> QED BY <1>1, <4>1 DEF PlainGame
    <3> QED BY <3>1, <3>2
  <2> QED BY <1>1, <2>1, <2>2 DEF PlainGame
<1>4. /\ old \in Seq(Guesses) /\ Len(old) = n - 1
      /\ \A i \in 1..(n - 1) : old[i] = lines[i + 1].guess
  BY GuessesTyped
<1>5. /\ new \in Seq(Guesses) /\ Len(new) = n
      /\ \A i \in 1..n : new[i] = s[i + 1].guess
  <2>1. /\ new \in Seq(Guesses) /\ Len(new) = Len(s) - 1
        /\ \A i \in 1..(Len(s) - 1) : new[i] = s[i + 1].guess
    BY <1>3, GuessesTyped
  <2>2. Len(s) - 1 = n
    BY <1>1
  <2> QED BY <2>1, <2>2
<1> HIDE DEF n, old, new
<1>6. /\ Append(old, g) \in Seq(Guesses) /\ Len(Append(old, g)) = n
      /\ \A i \in 1..(n - 1) : Append(old, g)[i] = old[i]
      /\ Append(old, g)[n] = g
  <2>1. Len(old) + 1 = n
    BY <1>1, <1>4
  <2> QED BY <1>4, <2>1, AppendProperties
<1>7. ASSUME NEW i \in 1..n PROVE new[i] = Append(old, g)[i]
  <2>1. CASE i = n
    BY <1>1, <1>2, <1>5, <1>6, <2>1
  <2>2. CASE i # n
    <3>1. i \in 1..(n - 1) /\ i + 1 \in 1..n
      BY <1>1, <2>2
    <3> QED BY <1>1, <1>4, <1>5, <1>6, <3>1
  <2> QED BY <2>1, <2>2
<1>8. new = Append(old, g)
  BY <1>5, <1>6, <1>7, SeqEqual
<1> QED BY <1>3, <1>8 DEF old, new

LEMMA ResultsMore ==
  ASSUME Running, ~Running', NEW n \in Nat \ {0}, Len(disk) = n, Len(disk') = n,
         \A f \in 1..n : f # n => disk'[f] = disk[f]
  PROVE  PlayedResults' = Append(PlayedResults, ResultOf(disk'[n]))
<1> DEFINE old == PlayedResults
           new == PlayedResults'
           S == {ResultOf(disk'[f]) : f \in 1..n}
           last == ResultOf(disk'[n])
<1>1. new = [f \in 1..n |-> ResultOf(disk'[f])]
  BY DEF PlayedResults, ResultOf
<1>2. old = [f \in 1..(n - 1) |-> ResultOf(disk[f])]
  BY DEF PlayedResults
<1>3. \A f \in 1..(n - 1) : f \in 1..n /\ disk[f] = disk'[f]
  OBVIOUS
<1>4. n \in 1..n /\ last \in S /\ n - 1 \in Nat
  OBVIOUS
<1>5. old \in [1..(n - 1) -> S] /\ new \in [1..n -> S]
  <2> HIDE DEF old, new
  <2>1. new \in [1..n -> S]
    BY <1>1
  <2>2. \A f \in 1..(n - 1) : ResultOf(disk[f]) \in S
    BY <1>3
  <2> HIDE DEF S
  <2>3. old \in [1..(n - 1) -> S]
    BY <1>2, <2>2
  <2> QED BY <2>1, <2>3
<1>6. \A f \in 1..(n - 1) : new[f] = old[f]
  BY <1>1, <1>2, <1>3
<1>7. new[n] = last
  BY <1>1, <1>4
<1> HIDE DEF old, new, S, last
<1>8. old \in Seq(S) /\ Len(old) = n - 1 /\ new \in Seq(S) /\ Len(new) = n
  BY <1>4, <1>5, OneToN
<1>9. /\ Append(old, last) \in Seq(S) /\ Len(Append(old, last)) = n
      /\ \A i \in 1..(n - 1) : Append(old, last)[i] = old[i]
      /\ Append(old, last)[n] = last
  <2>1. Len(old) + 1 = n
    BY <1>8
  <2> QED BY <1>4, <1>8, <2>1, AppendProperties
<1>10. ASSUME NEW i \in 1..n PROVE new[i] = Append(old, last)[i]
  <2>1. i = n \/ i \in 1..(n - 1)
    OBVIOUS
  <2> QED BY <1>6, <1>7, <1>9, <2>1
<1>11. new = Append(old, last)
  BY <1>8, <1>9, <1>10, SeqEqual
<1> QED BY <1>11 DEF old, new, last

(* What attempt appends is a guess, what quitGame or a time-out appends    *)
(* ends the game: in the one system call of appendLines.                   *)
LEMMA AppendCalm ==
  ASSUME TypeOK, ScoreInv, Kinds, Solo, CalmOK, NEW t \in Threads, appendLines(t)
  PROVE  CalmOK' /\ Promise!Next
<1> DEFINE th == thread[t]
           lines == disk[game]
           new == disk'[game]
           mid == Tried(th)
           last == Footer(th.ending, EndStamp(th))
           n == Len(lines)
<1>1. /\ th.pc = "write" /\ Acting(t) /\ Knows(t) /\ game # 0 /\ game' = game
      /\ game \in 1..Len(disk) /\ lines \in Seq(Line) /\ new = Written(th)
      /\ \A f \in 1..Len(disk) : f # game => disk'[f] = disk[f]
  BY AppendWrites
<1>2. game = Len(disk) /\ Len(disk) \in Nat \ {0} /\ Len(disk') = Len(disk)
  <2>1. disk \in Seq(Seq(Line)) /\ disk' = [disk EXCEPT ![th.file] = Written(th)]
        /\ th.file = game
    <3>1. th.file = game
      BY <1>1 DEF Knows
    <3> QED BY <3>1, TypedNames DEF appendLines, Written, Tried, DiskOK
  <2>2. Len(disk') = Len(disk)
    <3>1. \A s : Len([disk EXCEPT ![game] = s]) = Len(disk)
      BY <2>1
    <3> QED BY <2>1, <3>1
  <2> QED BY <1>1, <2>2, TypedNames DEF CalmOK, NameOfLast
<1>3. Running /\ PlainGame(lines)
  <2>1. ~SomeoneAt("rename") /\ ~SomeoneAt("create")
    BY <1>1, ActorHalfWay
  <2> QED BY <1>1, <2>1, RunningUnless DEF CalmOK, WholeGame
<1>4. /\ NoFooter(lines) /\ n \in Nat \ {0} /\ TrialCount(lines) = n - 1
      /\ PlayedGuesses = GuessesIn(lines) /\ Len(PlayedGuesses) = n - 1
      /\ \A g : Guessed(lines, g) <=>
                  \E i \in 1..Len(PlayedGuesses) : PlayedGuesses[i] = g
  BY <1>1, <1>3, PlainCounts, GuessesTyped DEF PlayedGuesses
<1>5. /\ thread'[t].pc = IF th.ending = "none" THEN "reply" ELSE "rename"
      /\ OthersSame(t)
  <2>1. Goto(t, AfterWrite(th))
    BY DEF appendLines
  <2> QED BY <2>1, AfterGoto DEF AfterWrite
<1>6. th.ending # "none" => CalmOK'
  BY <1>1, <1>2, <1>5 DEF CalmOK, NameOfLast, WholeGame, SomeoneAt
<1>7. ASSUME NEW before \in Seq(Line), th.ending # "none", Written(th) = before \o <<last>>
      PROVE  /\ ~Running' /\ Len(before) \in Nat
             /\ PlayedResults' = Append(PlayedResults, <<th.ending, Len(before) - 1>>)
  <2>1. last \in Line /\ IsFooter(last) /\ last.ending = th.ending
    BY <1>1, LinesToAppend DEF Footer, IsFooter
  <2>2. new = before \o <<last>>
    BY <1>1, <1>7
  <2> HIDE DEF last, new
  <2>3. Len(before) \in Nat /\ Len(new) = Len(before) + 1 /\ new[Len(before) + 1] = last
    BY <2>1, <2>2, OneLine, LenProperties DEF Adds
  <2>4. Len(new) \in FootersOf(new, Len(new))
    BY <2>1, <2>3 DEF FootersOf
  <2>5. ~Running'
    <3>1. Running' => FootersOf(new, Len(new)) = {}
      BY <1>1, OfFile DEF Running, new
    <3> QED BY <2>4, <3>1
  <2>6. ResultOf(new) = <<th.ending, Len(before) - 1>>
    <3>1. Len(new) - 2 = Len(before) - 1
      BY <2>3
    <3> QED BY <2>1, <2>3, <3>1 DEF ResultOf
  <2>7. PlayedResults' = Append(PlayedResults, ResultOf(new))
    BY <1>1, <1>2, <1>3, <2>5, ResultsMore DEF new
  <2> QED BY <2>3, <2>5, <2>6, <2>7
<1>8. CASE th.ending \in {"T", "Q"} /\ TrialLines(th) = <<>>
  <2>1. mid = lines
    BY <1>1, <1>8, ConcatEmptySeq DEF Tried
  <2>2. Written(th) = lines \o <<last>>
    BY <1>1, <1>8, <2>1, LinesToAppend DEF Written
  <2>3. ~Running' /\ PlayedResults' = Append(PlayedResults, <<th.ending, n - 1>>)
    BY <1>1, <1>7, <1>8, <2>2
  <2>4. PlayedResults' = Append(PlayedResults, <<th.ending, Len(PlayedGuesses)>>)
    BY <1>4, <2>3
  <2>5. Promise!Next
    BY <1>3, <1>8, <2>3, <2>4, PlayedEnd
  <2> QED BY <1>6, <1>8, <2>5
<1>9. CASE /\ th.op = "TRY" /\ th.ending \in {"none", "W", "L"}
           /\ TrialLines(th) = <<Trial(th.guess)>> /\ Trial(th.guess) \in Line
  <2> DEFINE g == th.guess
  <2>1. g \in Guesses
    BY <1>9 DEF Trial, Line
  <2>2. mid \in Seq(Line) /\ Adds(mid, lines, Trial(g)) /\ Len(mid) = n + 1
    BY <1>1, <1>9, OneLine DEF Tried, Adds
  <2>3. PlainGame(mid) /\ GuessesIn(mid) = Append(PlayedGuesses, g)
    BY <1>1, <1>3, <1>4, <2>1, <2>2, GuessesMore
  <2>4. HasHeader(game)
    BY <1>1, <1>3 DEF HasHeader, StartsWith, PlainGame
  <2>5. /\ ~Guessed(lines, g) /\ th.ending = EndingOf(n, g = Secret)
        /\ n - 1 < GuessesMax
    <3>1. NextAttempt(t)
      BY <1>1, <1>9 DEF Knows
    <3>2. TrialsIn(game) = TrialsOf(lines, n)
      BY OfFile DEF TrialsIn
    <3>3. th.trial = n
      BY <1>4, <2>4, <3>1, <3>2 DEF NextAttempt, TrialCount
    <3>4. TrialCount(lines) < GuessesMax
      BY <1>1, <1>3, <2>4, <3>2 DEF Solo, FilesOK, StillOpen, Running, TrialCount
    <3> QED BY <1>4, <2>4, <3>1, <3>2, <3>3, <3>4 DEF NextAttempt, Guessed
  <2>6. \A i \in 1..Len(PlayedGuesses) : PlayedGuesses[i] # g
    BY <1>4, <2>5
  <2>7. Len(PlayedGuesses) \in Nat /\ Len(PlayedGuesses) + 1 = n
    BY <1>4
  <2>8. CASE th.ending = "none"
    <3>1. new = mid
      BY <1>1, <2>2, <2>8, LinesToAppend, ConcatEmptySeq DEF Written
    <3>2. Running'
      BY <1>1, <2>2, <2>3, <3>1, PlainCounts, OfFile DEF Running, NoFooter
    <3>3. PlayedGuesses' = Append(PlayedGuesses, g)
      BY <1>1, <2>3, <3>1, <3>2 DEF PlayedGuesses, GuessesIn
    <3>4. PlayedResults' = PlayedResults
      <4>1. \A f \in 1..(Len(disk) - 1) : disk'[f] = disk[f]
        BY <1>1, <1>2
      <4> QED BY <1>2, <1>3, <3>2, <4>1 DEF PlayedResults, ResultOf
    <3>5. g # Secret /\ n < GuessesMax
      BY <1>4, <2>5, <2>8, PlayAssumption DEF EndingOf
    <3>6. CalmOK'
      BY <1>1, <1>2, <2>3, <3>1 DEF CalmOK, NameOfLast, WholeGame
    <3>7. Promise!Next
      <4> HIDE DEF g, n
      <4> QED BY <1>3, <2>1, <2>6, <2>7, <3>2, <3>3, <3>4, <3>5, PlayedGuess
    <3> QED BY <3>6, <3>7
  <2>9. CASE th.ending # "none"
    <3>1. Written(th) = mid \o <<last>>
      BY <1>1, <2>9, LinesToAppend DEF Written
    <3>2. ~Running' /\ PlayedResults' = Append(PlayedResults, <<th.ending, Len(mid) - 1>>)
      BY <1>7, <2>2, <2>9, <3>1
    <3>3. Len(mid) - 1 = Len(PlayedGuesses) + 1
      BY <1>4, <2>2
    <3>4. /\ th.ending = "W" => g = Secret
          /\ th.ending = "L" => g # Secret /\ Len(PlayedGuesses) + 1 = GuessesMax
      BY <2>5, <2>7 DEF EndingOf
    <3>5. PlayedResults' = Append(PlayedResults, <<th.ending, Len(PlayedGuesses) + 1>>)
      BY <3>2, <3>3
    <3>6. Promise!Next
      <4>1. th.ending = "W" \/ th.ending = "L"
        BY <1>9, <2>9
      <4> HIDE DEF g, n
      <4> QED BY <1>3, <2>1, <2>6, <2>7, <3>2, <3>4, <3>5, <4>1, PlayedGuess
    <3> QED BY <1>6, <2>9, <3>6
  <2> QED BY <2>8, <2>9
<1> QED BY <1>1, <1>8, <1>9, LinesToAppend

-----------------------------------------------------------------------------
CalmInv == AloneInv /\ (Calm => CalmOK)

LEMMA CalmStays ==
  ASSUME CalmInv, [Next]_vars, Calm'
  PROVE  Calm /\ ~crash
<1> USE DEF Threads
<1>1. ~raced /\ crashes \in Nat
  BY RacedStays DEF Calm, CalmInv, AloneInv, Inv, TypeOK
<1>2. CASE crash
  BY <1>1, <1>2 DEF crash, Calm
<1>3. CASE UNCHANGED vars
  BY <1>1, <1>3 DEF vars, Calm, crash
<1>4. CASE Next /\ ~crash
  <2>1. crashes' = crashes
    <3>1. CASE receiveStart \/ receiveTry \/ receiveQuit \/ Tick
      BY <3>1 DEF receiveStart, receiveTry, receiveQuit, Accept, Tick
    <3>2. ASSUME NEW w \in Workers, receiveShowTrials(w) PROVE crashes' = crashes
      BY <3>2 DEF receiveShowTrials, Accept
    <3>3. ASSUME NEW t \in Threads, handler(t) PROVE crashes' = crashes
      <4>1. CASE existsCheck(t) \/ parseHeader(t) \/ truncateGame(t) \/ writeHeader(t)
        BY <4>1 DEF existsCheck, parseHeader, truncateGame, writeHeader
      <4>2. CASE parseAttempts(t)
        BY <4>2, Zenon DEF parseAttempts
      <4>3. CASE parseForQuit(t) \/ openForAppend(t) \/ appendLines(t) \/ renameGame(t)
        BY <4>3 DEF parseForQuit, openForAppend, appendLines, renameGame
      <4>4. CASE createScore(t) \/ writeScore(t) \/ replyOK(t)
        BY <4>4 DEF createScore, writeScore, replyOK
      <4> QED BY <3>3, <4>1, <4>2, <4>3, <4>4 DEF handler
    <3> QED BY <1>4, <3>1, <3>2, <3>3 DEF Next
  <2> QED BY <1>1, <1>4, <2>1 DEF Calm
<1> QED BY <1>2, <1>3, <1>4

LEMMA CalmNext ==
  ASSUME CalmInv, [Next]_vars, Calm'
  PROVE  CalmOK' /\ (Promise!Next \/ UNCHANGED Promise!vars)
<1> USE DEF Threads
<1>1. TypeOK /\ ScoreInv /\ Kinds /\ Solo /\ CalmOK /\ ~crash
  BY CalmStays DEF CalmInv, AloneInv, Inv, Calm
<1>2. CASE receiveStart \/ receiveTry \/ receiveQuit
  BY <1>1, <1>2, AcceptCalm DEF receiveStart, receiveTry, receiveQuit
<1>3. ASSUME NEW w \in Workers, receiveShowTrials(w)
      PROVE  CalmOK' /\ (Promise!Next \/ UNCHANGED Promise!vars)
  BY <1>1, <1>3, AcceptCalm DEF receiveShowTrials
<1>4. ASSUME NEW t \in Threads, handler(t)
      PROVE  CalmOK' /\ (Promise!Next \/ UNCHANGED Promise!vars)
  <2>1. CASE \/ existsCheck(t) \/ parseHeader(t) \/ parseAttempts(t) \/ parseForQuit(t)
             \/ createScore(t) \/ writeScore(t) \/ replyOK(t)
    BY <1>1, <2>1, LookingCalm
  <2>2. CASE openForAppend(t)
    BY <1>1, <2>2, OpenCalm
  <2>3. CASE truncateGame(t)
    BY <1>1, <2>3, TruncateCalm
  <2>4. CASE writeHeader(t)
    BY <1>1, <2>4, HeaderCalm
  <2>5. CASE appendLines(t)
    BY <1>1, <2>5, AppendCalm
  <2>6. CASE renameGame(t)
    BY <1>1, <2>6, RenameCalm
  <2> QED BY <1>4, <2>1, <2>2, <2>3, <2>4, <2>5, <2>6 DEF handler
<1>5. CASE Tick \/ UNCHANGED vars
  <2>1. UNCHANGED <<disk, game, thread>>
    BY <1>5 DEF Tick, vars, files
  <2> QED BY <1>1, <2>1, SameCalm
<1> QED BY <1>1, <1>2, <1>3, <1>4, <1>5 DEF Next

LEMMA CalmStart == Init => CalmInv /\ Promise!Init
<1> SUFFICES ASSUME Init PROVE CalmInv /\ Promise!Init
  OBVIOUS
<1>1. disk = <<>> /\ Len(disk) = 0 /\ game = 0 /\ crashes = 0
  BY EmptySeq DEF Init
<1>2. CalmOK /\ ~Running
  BY <1>1 DEF CalmOK, NameOfLast, WholeGame, Running
<1>3. Promise!Init
  BY <1>1, <1>2 DEF Promise!Init
<1> QED BY <1>1, <1>2, <1>3, AloneStart DEF CalmInv

LEMMA CalmStep == CalmInv /\ [Next]_vars => CalmInv'
  BY AloneStep, CalmNext DEF CalmInv

(* PlayedAsPromised: one system call at a time, with workers reading in    *)
(* between, createGame, attempt, quitGame and endGame do what PlayerGame   *)
(* says of a player's games: the guesses of a game are kept, none twice,   *)
(* its result agrees with them, and results stay as they are.              *)
THEOREM FilesKeepPromise == Spec => PlayedAsPromised
<1>1. CalmInv /\ [Next]_vars => (Calm' => Promise!Next \/ UNCHANGED Promise!vars)
  BY CalmNext
<1> QED BY <1>1, CalmStart, CalmStep, PTL DEF Spec, PlayedAsPromised
=============================================================================
