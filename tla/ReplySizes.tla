------------------------------ MODULE ReplySizes ------------------------------
(***************************************************************************)
(* How many bytes the texts have that the server sends as files: the last  *)
(* game (GameStore::getLastGame) and the scoreboard (getScoreboard).       *)
(* Numbers are at most w characters wide, sign included.  The client       *)
(* cannot parse a size of four digits (TcpParser::parseFileSize), and the  *)
(* server does not check.                                                  *)
(***************************************************************************)
EXTENDS Integers

GUESSES_MAX == 8
SCOREBOARD_MAX_ENTRIES == 10
SECRET_KEY_LEN == 4
PLID_LEN == 6

DateTime == 10 + 1 + 8
LongestMode == 5      \* "DEBUG"
LongestEnding == 7    \* "TIMEOUT"

(* The lines of getLastGame: the lengths of the literal text (of the       *)
(* longer one where there are two) and of what is put into it.             *)
PlayerLine == 9 + PLID_LEN + 9 + LongestMode + 1
StatusLine == 8 + 24 + SECRET_KEY_LEN + 1
InitiatedLine(w) == 16 + DateTime + 1 + 5 + w + 18

TransactionsLine(atts) == IF atts = 0 THEN 36 ELSE 29 + 1 + 6

TrialLine(w) == 11 + SECRET_KEY_LEN + 7 + 1 + 7 + 1 + 4 + w + 2

RemainingLine(w) == 9 + w + 23
TerminatedLines(w) == 18 + LongestEnding + 4 + DateTime + 11 + w + 9

LastGameSize(atts, finished, w) ==
  PlayerLine + StatusLine + InitiatedLine(w) + TransactionsLine(atts) + atts * TrialLine(w)
    + IF finished THEN TerminatedLines(w) ELSE RemainingLine(w)

(* The head of the scoreboard, and a row for each of the best scores.      *)
BoardHead == 48 + 2 + 20 + 52

BoardRow(w) == 8 + 2 + 2 + w + 2 + PLID_LEN + 5 + SECRET_KEY_LEN + 8 + w + 7 + LongestMode + 1

ScoreboardSize(rows, w) == BoardHead + rows * BoardRow(w)

(* What parseFileSize can read is followed by the space that send writes.  *)
Readable(size) == size <= 999
=============================================================================
