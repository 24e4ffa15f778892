------------------------------ MODULE Scoreboard ------------------------------
(***************************************************************************)
(* The SCORES directory.  The UDP thread writes one file per won game      *)
(* (GameStore::saveGameScore) while the TCP workers build scoreboards from *)
(* the directory (GameStore::getScoreboard).  Nothing is locked: a file is *)
(* created empty and filled later, and a worker lists the directory and    *)
(* then opens the files one by one.                                        *)
(***************************************************************************)
EXTENDS GameRules, SequencesExt

CONSTANTS
  Players,        \* player ids, as numbers
  Workers,
  Wins,           \* the <<trials, seconds>> of the games that may be won
  MaxEntries,     \* SCOREBOARD_MAX_ENTRIES
  MaxTime, MaxWins, \* bounds on the clock and on the games won
  NoFile, Garbage

ASSUME MaxEntriesAssumption == MaxEntries \in Nat \ {0}
ASSUME BoundsAssumption == MaxTime \in Nat /\ MaxWins \in Nat
ASSUME PlayersAssumption == Players \subseteq Nat
ASSUME TrialsAssumption == GuessesMax <= 8   \* more, and a score may have 4 digits
ASSUME WinsAssumption ==
  Wins \subseteq (1..GuessesMax) \X (0..(PlayTimeMax - 1))

VARIABLES
  now,
  files,     \* the score files by name: is the content there?
  writing,   \* the name of the file the UDP thread has open, or NoFile
  wins,      \* number of games won
  req,       \* per worker, the scoreboard it is building
  board      \* the last scoreboard sent

vars == <<now, files, writing, wins, req, board>>

(* <score>_<plid>_<time>.txt *)
ScoreName == [score : 1..999, plid : Players, tstamp : Nat]

Names == DOMAIN files

-----------------------------------------------------------------------------
(* std::greater on the names: '_' sorts after every digit, so a score with *)
(* fewer digits sorts after the longer ones it is a prefix of.             *)
Underscore == 10

Digits(score) ==
  IF score < 10 THEN <<score, Underscore, 0>>
  ELSE IF score < 100 THEN <<score \div 10, score % 10, Underscore>>
  ELSE <<score \div 100, (score \div 10) % 10, score % 10>>

Lexicographic(s, t) ==
  \E i \in 1..Len(s) : s[i] > t[i] /\ \A j \in 1..(i - 1) : s[j] = t[j]

\* Seeded fault: std::sort without std::greater.
NamedBefore(f, g) ==
  Lexicographic(Digits(g.score) \o <<g.plid, g.tstamp>>,
                Digits(f.score) \o <<f.plid, f.tstamp>>)

NamedAfter(f, g) ==
  Lexicographic(Digits(f.score) \o <<f.plid, f.tstamp>>,
                Digits(g.score) \o <<g.plid, g.tstamp>>)

-----------------------------------------------------------------------------
Request ==
  [pc : {"idle", "listing", "reading"}, atStart : SUBSET ScoreName,
   paths : Seq(ScoreName), rows : Seq(ScoreName \cup {Garbage})]

Board ==
  [status : {"none", "OK", "EMPTY"}, atStart : SUBSET ScoreName,
   rows : Seq(ScoreName \cup {Garbage})]

Idle == [pc |-> "idle", atStart |-> {}, paths |-> <<>>, rows |-> <<>>]

Init ==
  /\ now = 0
  /\ files = <<>>
  /\ writing = NoFile
  /\ wins = 0
  /\ req = [w \in Workers |-> Idle]
  /\ board = [status |-> "none", atStart |-> {}, rows |-> <<>>]

-----------------------------------------------------------------------------
(* saveGameScore: the ofstream creates or truncates the file; its content  *)
(* reaches it when the stream is closed.                                   *)
openScore(p, win) ==
  LET name == [score |-> Score(win[1], win[2]), plid |-> p, tstamp |-> now] IN
  /\ writing = NoFile /\ wins < MaxWins
  /\ files' = [n \in Names \cup {name} |-> IF n = name THEN FALSE ELSE files[n]]
  /\ writing' = name
  /\ wins' = wins + 1
  /\ UNCHANGED <<now, req, board>>

writeScore ==
  /\ writing # NoFile
  /\ files' = [files EXCEPT ![writing] = TRUE]
  /\ writing' = NoFile
  /\ UNCHANGED <<now, wins, req, board>>

-----------------------------------------------------------------------------
(* showScoreboardHandler: any error makes the reply EMPTY. *)
Answer(w, status, rows) ==
  /\ board' = [status |-> status, atStart |-> req[w].atStart, rows |-> rows]
  /\ req' = [req EXCEPT ![w] = Idle]

startListing(w) ==
  /\ req[w].pc = "idle"
  /\ req' = [req EXCEPT ![w] = [Idle EXCEPT !.pc = "listing", !.atStart = Names]]
  /\ UNCHANGED <<now, files, writing, wins, board>>

unreadableRequest(w) ==
  /\ req[w].pc = "idle"
  /\ Answer(w, "EMPTY", <<>>)
  /\ UNCHANGED <<now, files, writing, wins>>

(* Seeded fault: the directory is read up to the first MaxEntries names.   *)
ListedUpToLimit(w) ==
  {s \in SUBSET Names : Cardinality(s) <= MaxEntries}

(* The iteration over the directory: it sees the files that were there     *)
(* when it began, and any of those created since.                          *)
Listed(w) == {req[w].atStart \cup s : s \in SUBSET (Names \ req[w].atStart)}

(* std::sort with std::greater. *)
SortedNames(listed) ==
  CHOOSE paths \in SetToSeqs(listed) :
    \A i, j \in DOMAIN paths : i < j => NamedAfter(paths[i], paths[j])

endListing(w) ==
  /\ req[w].pc = "listing"
  /\ \E listed \in Listed(w) :
       \/ /\ listed = {}
          /\ Answer(w, "EMPTY", <<>>)
       \/ /\ listed # {}
          /\ req' = [req EXCEPT ![w].pc = "reading",
                                ![w].paths = SortedNames(listed)]
          /\ UNCHANGED board
  /\ UNCHANGED <<now, files, writing, wins>>

(* The last row is read: the end of the paths or MaxEntries.               *)
IsLastRow(r) == Len(r.rows) + 1 = Len(r.paths) \/ Len(r.rows) + 1 = MaxEntries

AddRow(w, row) ==
  \/ IsLastRow(req[w]) /\ Answer(w, "OK", Append(req[w].rows, row))
  \/ /\ ~IsLastRow(req[w])
     /\ req' = [req EXCEPT ![w].rows = Append(@, row)]
     /\ UNCHANGED board

(* LeaderboardEntry: nothing can be extracted from an empty file, and its  *)
(* fields keep the values that were in memory: charToGameMode throws, or   *)
(* lets a row of garbage through.                                          *)
readEntry(w) ==
  /\ req[w].pc = "reading"
  /\ LET name == req[w].paths[Len(req[w].rows) + 1] IN
       \/ files[name] /\ AddRow(w, name)
       \/ ~files[name] /\ AddRow(w, Garbage)
       \/ ~files[name] /\ Answer(w, "EMPTY", <<>>)
  /\ UNCHANGED <<now, files, writing, wins>>

-----------------------------------------------------------------------------
Tick ==
  /\ now < MaxTime
  /\ now' = now + 1
  /\ UNCHANGED <<files, writing, wins, req, board>>

Next ==
  \/ Tick
  \/ \E p \in Players, win \in Wins : openScore(p, win)
  \/ writeScore
  \/ \E w \in Workers :
       startListing(w) \/ unreadableRequest(w) \/ endListing(w) \/ readEntry(w)

Spec == Init /\ [][Next]_vars

-----------------------------------------------------------------------------
TypeOK ==
  /\ now \in 0..MaxTime /\ wins \in 0..MaxWins
  /\ Names \subseteq ScoreName /\ \A n \in Names : files[n] \in BOOLEAN
  /\ writing \in ScoreName \cup {NoFile}
  /\ req \in [Workers -> Request]
  /\ board \in Board

(* getScoreboard: a score that was saved before the listing began is on    *)
(* the board, or the board is full of files whose names sort before it,    *)
(* whatever was saved while the board was built.                           *)
OnBoard(name) == \E i \in 1..Len(board.rows) : board.rows[i] = name

FullyRead == board.status = "OK" /\ \A i \in 1..Len(board.rows) : board.rows[i] # Garbage

BoardComplete ==
  FullyRead =>
    \A name \in board.atStart :
      \/ OnBoard(name)
      \/ /\ Len(board.rows) = MaxEntries
         /\ \A i \in 1..MaxEntries : NamedAfter(board.rows[i], name)

(* Among the scores of three digits a board is in descending order, also   *)
(* when files appear while it is built.                                    *)
LongScoresDescend ==
  \A i, j \in 1..Len(board.rows) :
    /\ i < j
    /\ board.rows[i] # Garbage /\ board.rows[j] # Garbage
    /\ board.rows[i].score >= 100 /\ board.rows[j].score >= 100
    => board.rows[i].score >= board.rows[j].score

(* GameStore.cpp:478: getScoreboard "Retrieves the TOP N scores": no score *)
(* left out of the board is better than one on it.                         *)
TopNScores ==
  FullyRead =>
    \A name \in board.atStart, i \in 1..Len(board.rows) :
      ~OnBoard(name) => board.rows[i].score >= name.score
=============================================================================
