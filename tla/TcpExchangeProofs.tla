-------------------------- MODULE TcpExchangeProofs --------------------------
(***************************************************************************)
(* Proofs about TcpExchange: type correctness, that what the client saves  *)
(* is the file the server sent it (SavedIsServers), and that what is sent  *)
(* over an undisturbed connection is saved (Delivered).  The argument has  *)
(* three parts: lemmas about the packets and what a client makes of the    *)
(* beginning of one (no variable of the model is used in them); Whole,     *)
(* that what is out and what is left are together a reply, or the part of  *)
(* a reply that was out and an error packet; and Reads and Resets, that    *)
(* the client of an undisturbed connection is never beyond the end of its  *)
(* reply and is not reset, as the whole request is read before the answer. *)
(* At the end of the module are the sizes of the texts the server sends    *)
(* (ReplySizes), which say whether the client can read them.               *)
(***************************************************************************)
EXTENDS TcpExchange, ReplySizes, SequenceTheorems, TLAPS

-----------------------------------------------------------------------------
(* What is written, unit by unit. *)
LEMMA UnitsTold ==
  /\ \A name \in {"id", "status", "name", "none", "newline", "E", "R"} : Unit(name) \in Units
  /\ \A n \in Nat : <<"size", n>> \in Units /\ <<"data", n>> \in Units
  /\ NewLine \in Units
  BY DEF Units, NewLine, Unit

LEMMA FileLines ==
  ASSUME NEW n \in Nat
  PROVE  /\ File(n) \in Seq(Units) /\ Len(File(n)) = n
         /\ \A k \in 1..n : File(n)[k] = <<"data", k>>
<1>1. \A k \in 1..n : <<"data", k>> \in Units
  <2>1. \A k \in 1..n : k \in Nat
    OBVIOUS
  <2> QED BY <2>1, UnitsTold
<1>2. File(n) \in [1..n -> Units]
  BY <1>1 DEF File
<1>3. File(n) \in Seq(Units)
  BY <1>2
<1>4. Len(File(n)) = n
  BY <1>2, <1>3, LenProperties DEF File
<1> QED BY <1>3, <1>4 DEF File

LEMMA HeadLines ==
  ASSUME NEW n \in Nat
  PROVE  /\ FileHead(n) \in Seq(Units) /\ Len(FileHead(n)) = 4
         /\ FileHead(n)[1] = Unit("id") /\ FileHead(n)[2] = Unit("status")
         /\ FileHead(n)[3] = Unit("name") /\ FileHead(n)[4] = <<"size", n>>
<1>1. {Unit("id"), Unit("status"), Unit("name"), <<"size", n>>} \subseteq Units
  BY UnitsTold
<1> DEFINE a == Unit("id")
           b == Unit("status")
           c == Unit("name")
           d == <<"size", n>>
<1>2. a \in Units /\ b \in Units /\ c \in Units /\ d \in Units
  BY <1>1
<1>3. FileHead(n) = <<a, b, c, d>>
  BY DEF FileHead
<1> HIDE DEF a, b, c, d
<1>4. FileHead(n) \in Seq(Units) /\ Len(FileHead(n)) = 4
      /\ FileHead(n)[1] = a /\ FileHead(n)[2] = b /\ FileHead(n)[3] = c /\ FileHead(n)[4] = d
  BY <1>2, <1>3
<1> QED BY <1>4 DEF a, b, c, d

LEMMA ErrLines ==
  /\ ErrPacket \in Seq(Units) /\ Len(ErrPacket) = 4
  /\ ErrPacket[1] = Unit("E") /\ ErrPacket[2] = Unit("R") /\ ErrPacket[3] = Unit("R")
  /\ ErrPacket[4] = NewLine
<1> DEFINE e == Unit("E")
           r == Unit("R")
           l == NewLine
<1>1. e \in Units /\ r \in Units /\ l \in Units
  BY UnitsTold
<1>2. ErrPacket = <<e, r, r, l>>
  BY DEF ErrPacket
<1> HIDE DEF e, r, l
<1>3. ErrPacket \in Seq(Units) /\ Len(ErrPacket) = 4 /\ ErrPacket[1] = e
      /\ ErrPacket[2] = r /\ ErrPacket[3] = r /\ ErrPacket[4] = l
  BY <1>1, <1>2
<1> QED BY <1>3 DEF e, r, l

LEMMA NoFileLines ==
  /\ NoFile \in Seq(Units) /\ Len(NoFile) = 3 /\ Reply(0) = NoFile
  /\ NoFile[1] = Unit("id") /\ NoFile[2] = Unit("none") /\ NoFile[3] = NewLine
<1> DEFINE a == Unit("id")
           b == Unit("none")
           c == NewLine
<1>1. a \in Units /\ b \in Units /\ c \in Units
  BY UnitsTold
<1>2. NoFile = <<a, b, c>> /\ Reply(0) = NoFile
  BY DEF NoFile, Reply
<1> HIDE DEF a, b, c
<1>3. NoFile \in Seq(Units) /\ Len(NoFile) = 3 /\ NoFile[1] = a /\ NoFile[2] = b
      /\ NoFile[3] = c
  BY <1>1, <1>2
<1> QED BY <1>2, <1>3 DEF a, b, c

LEMMA JoinLines ==
  ASSUME NEW s \in Seq(Units), NEW t \in Seq(Units)
  PROVE  /\ s \o t \in Seq(Units) /\ Len(s \o t) = Len(s) + Len(t)
         /\ \A k \in 1..Len(s) : (s \o t)[k] = s[k]
         /\ \A k \in 1..Len(t) : (s \o t)[Len(s) + k] = t[k]
<1>1. Len(s) \in Nat /\ Len(t) \in Nat
  OBVIOUS
<1>2. /\ s \o t \in Seq(Units) /\ Len(s \o t) = Len(s) + Len(t)
      /\ \A k \in 1..(Len(s) + Len(t)) :
           (s \o t)[k] = IF k <= Len(s) THEN s[k] ELSE t[k - Len(s)]
  BY ConcatProperties
<1>3. \A k \in 1..Len(s) : k \in 1..(Len(s) + Len(t)) /\ k <= Len(s)
  BY <1>1
<1>4. \A k \in 1..Len(t) : /\ Len(s) + k \in 1..(Len(s) + Len(t)) /\ ~(Len(s) + k <= Len(s))
                            /\ (Len(s) + k) - Len(s) = k
  BY <1>1
<1> QED BY <1>2, <1>3, <1>4

LEMMA ReplyLines ==
  ASSUME NEW n \in Nat \ {0}
  PROVE  /\ Reply(n) \in Seq(Units) /\ Len(Reply(n)) = n + 6
         /\ \A k \in 1..4 : Reply(n)[k] = FileHead(n)[k]
         /\ \A k \in 1..n : Reply(n)[k + 4] = <<"data", k>>
         /\ Reply(n)[n + 5] = NewLine /\ Reply(n)[n + 6] = NewLine
<1> DEFINE end == <<NewLine, NewLine>>
           head == FileHead(n)
           file == File(n)
           body == head \o file
<1>1. end \in Seq(Units) /\ Len(end) = 2 /\ end[1] = NewLine /\ end[2] = NewLine
  BY UnitsTold
<1>2. Reply(n) = body \o end
  BY DEF Reply
<1>3. /\ head \in Seq(Units) /\ Len(head) = 4
      /\ file \in Seq(Units) /\ Len(file) = n /\ \A k \in 1..n : file[k] = <<"data", k>>
  BY HeadLines, FileLines
<1> HIDE DEF end, head, file
<1>4. /\ body \in Seq(Units) /\ Len(body) = 4 + n
      /\ \A k \in 1..4 : body[k] = head[k]
      /\ \A k \in 1..n : body[4 + k] = file[k]
  <2>1. /\ body \in Seq(Units) /\ Len(body) = Len(head) + Len(file)
        /\ \A k \in 1..Len(head) : body[k] = head[k]
        /\ \A k \in 1..Len(file) : body[Len(head) + k] = file[k]
    BY <1>3, JoinLines
  <2> QED BY <1>3, <2>1
<1> HIDE DEF body
<1>5. /\ Reply(n) \in Seq(Units) /\ Len(Reply(n)) = (4 + n) + 2
      /\ \A k \in 1..(4 + n) : Reply(n)[k] = body[k]
      /\ \A k \in 1..2 : Reply(n)[(4 + n) + k] = end[k]
  <2>1. /\ body \o end \in Seq(Units) /\ Len(body \o end) = Len(body) + Len(end)
        /\ \A k \in 1..Len(body) : (body \o end)[k] = body[k]
        /\ \A k \in 1..Len(end) : (body \o end)[Len(body) + k] = end[k]
    BY <1>1, <1>4, JoinLines
  <2> QED BY <1>1, <1>2, <1>4, <2>1
<1>9. (4 + n) + 2 = n + 6 /\ 1..4 \subseteq 1..(4 + n)
  OBVIOUS
<1>6. \A k \in 1..4 : Reply(n)[k] = head[k]
  BY <1>4, <1>5, <1>9
<1>7. \A k \in 1..n : Reply(n)[k + 4] = <<"data", k>>
  <2> SUFFICES ASSUME NEW k \in 1..n PROVE Reply(n)[k + 4] = <<"data", k>>
    OBVIOUS
  <2>1. k + 4 = 4 + k /\ 4 + k \in 1..(4 + n)
    OBVIOUS
  <2> QED BY <1>3, <1>4, <1>5, <2>1
<1>8. Reply(n)[n + 5] = NewLine /\ Reply(n)[n + 6] = NewLine
  <2>1. (4 + n) + 1 = n + 5 /\ (4 + n) + 2 = n + 6
    OBVIOUS
  <2> QED BY <1>1, <1>5, <2>1
<1> QED BY <1>5, <1>6, <1>7, <1>8, <1>9 DEF head

-----------------------------------------------------------------------------
(* What the client makes of what it has read. *)
Starts(got, s) == Len(got) <= Len(s) /\ \A k \in 1..Len(got) : got[k] = s[k]

End(n) == IF n = 0 THEN 3 ELSE IF DigitsFit(n) THEN n + 5 ELSE 4

LEMMA UnitsDiffer ==
  /\ \A n \in Nat : /\ <<"size", n>> # Unit("E") /\ <<"size", n>> # NewLine
                    /\ \A a \in Nat : <<"size", n>> = <<"size", a>> => n = a
  /\ Unit("id") # Unit("E") /\ Unit("status") # Unit("E") /\ Unit("name") # Unit("E")
  /\ Unit("status") # Unit("none")
  /\ NewLine # Unit("E") /\ NewLine # Unit("R")
<1>1. \A s, t : \A n, m : <<s, n>> = <<t, m>> => s = t /\ n = m
  OBVIOUS
<1>2. "size" # "E" /\ "size" # "newline" /\ "id" # "E" /\ "status" # "E" /\ "name" # "E"
      /\ "status" # "none" /\ "newline" # "E" /\ "newline" # "R"
  OBVIOUS
<1> QED BY <1>1, <1>2 DEF Unit, NewLine

LEMMA HeadRead ==
  ASSUME NEW got \in Seq(Units), NEW n \in Nat \ {0}, FitsFile(got, n)
  PROVE  \A k \in 1..4 : k <= Len(got) => got[k] = FileHead(n)[k]
<1>1. n \in Nat /\ Len(got) \in Nat
  OBVIOUS
<1>2. Len(FileHead(n)) = 4
  BY <1>1, HeadLines
<1>3. \A k \in 1..Least(Len(got), 4) : got[k] = FileHead(n)[k]
  BY <1>2 DEF FitsFile, BeginsLike
<1>4. \A k \in 1..4 : k <= Len(got) => k \in 1..Least(Len(got), 4)
  BY <1>1 DEF Least
<1> QED BY <1>3, <1>4

LEMMA HeadStarts ==
  ASSUME NEW got \in Seq(Units), NEW n \in Nat \ {0},
         \A k \in 1..4 : k <= Len(got) => got[k] = FileHead(n)[k],
         Len(got) >= 4 => DigitsFit(n), Len(got) <= n + 5
  PROVE  FitsFile(got, n)
<1>1. n \in Nat /\ Len(got) \in Nat
  OBVIOUS
<1>2. Len(FileHead(n)) = 4
  BY <1>1, HeadLines
<1>3. \A k \in 1..Least(Len(got), 4) : k \in 1..4 /\ k <= Len(got)
  BY <1>1 DEF Least
<1>4. \A k \in 1..Least(Len(got), 4) : got[k] = FileHead(n)[k]
  BY <1>3
<1> QED BY <1>2, <1>4 DEF FitsFile, BeginsLike

LEMMA WholeRead ==
  ASSUME NEW got \in Seq(Units), NEW n \in Nat \ {0}, WholeFile(got, n)
  PROVE  /\ Len(got) = n + 5 /\ got[n + 5] = NewLine
         /\ got[1] = Unit("id") /\ got[2] = Unit("status") /\ got[3] = Unit("name")
         /\ got[4] = <<"size", n>>
         /\ DigitsFit(n)
<1>1. FitsFile(got, n) /\ Len(got) = n + 5 /\ got[n + 5] = NewLine
  BY DEF WholeFile
<1>2. \A k \in 1..4 : k <= Len(got)
  BY <1>1
<1>3. \A k \in 1..4 : got[k] = FileHead(n)[k]
  BY <1>1, <1>2, HeadRead
<1>4. got[1] = FileHead(n)[1] /\ got[2] = FileHead(n)[2] /\ got[3] = FileHead(n)[3]
      /\ got[4] = FileHead(n)[4]
  BY <1>3
<1>5. DigitsFit(n)
  BY <1>1 DEF FitsFile
<1> QED BY <1>1, <1>4, <1>5, HeadLines

(* A whole file that is the beginning of a reply is the file of that reply. *)
LEMMA WholeIsFile ==
  ASSUME NEW a \in Nat, NEW got \in Seq(Units), NEW n \in Nat \ {0},
         Starts(got, Reply(a)), WholeFile(got, n)
  PROVE  a # 0 /\ n = a /\ FileIn(got) = File(a)
<1>1. /\ Len(got) = n + 5 /\ got[4] = <<"size", n>> /\ 4 \in 1..Len(got)
  BY WholeRead
<1>2. a # 0
  BY <1>1, NoFileLines DEF Starts
<1>3. a \in Nat \ {0}
  BY <1>2
<1>4. /\ Len(Reply(a)) = a + 6
      /\ \A k \in 1..4 : Reply(a)[k] = FileHead(a)[k]
      /\ \A k \in 1..a : Reply(a)[k + 4] = <<"data", k>>
  BY <1>3, ReplyLines
<1>5. \A k \in 1..Len(got) : got[k] = Reply(a)[k]
  BY DEF Starts
<1>6. got[4] = Reply(a)[4] /\ Reply(a)[4] = FileHead(a)[4]
  BY <1>1, <1>4, <1>5
<1>7. n = a
  BY <1>1, <1>6, HeadLines, UnitsDiffer
<1>8. FileIn(got) = File(a)
  <2>1. \A k \in 5..(Len(got) - 1) : got[k] \in Units
    BY <1>1
  <2>2. 5 \in Int /\ Len(got) - 1 \in Int /\ 5 <= Len(got) - 1 /\ (Len(got) - 1) - 5 + 1 = a
    BY <1>1, <1>7
  <2>3. /\ FileIn(got) \in Seq(Units) /\ Len(FileIn(got)) = a
        /\ \A k \in 1..a : FileIn(got)[k] = got[5 + k - 1]
    BY <2>1, <2>2, SubSeqProperties DEF FileIn
  <2>4. \A k \in 1..a : 5 + k - 1 = k + 4 /\ k + 4 \in 1..Len(got)
    BY <1>1, <1>7
  <2>5. ASSUME NEW k \in 1..a PROVE FileIn(got)[k] = <<"data", k>>
    <3>1. FileIn(got)[k] = got[k + 4]
      BY <2>3, <2>4
    <3>2. got[k + 4] = Reply(a)[k + 4]
      BY <1>5, <2>4
    <3>3. Reply(a)[k + 4] = <<"data", k>>
      BY <1>4
    <3> QED BY <3>1, <3>2, <3>3
  <2>6. File(a) \in Seq(Units) /\ Len(File(a)) = a /\ \A k \in 1..a : File(a)[k] = <<"data", k>>
    BY FileLines
  <2> QED BY <2>3, <2>5, <2>6, SeqEqual
<1> QED BY <1>2, <1>7, <1>8

(* As long as the end of the reply is not read the client reads on. *)
LEMMA ReadsOn ==
  ASSUME NEW a \in FileSizes \cup {0}, NEW got \in Seq(Units),
         Starts(got, Reply(a)), Len(got) < End(a)
  PROVE  Verdict(got) = "more"
<1>1. a \in Nat /\ Len(got) \in Nat
  BY SizesAssumption
<1>2. \A k \in 1..Len(got) : got[k] = Reply(a)[k]
  BY DEF Starts
<1>3. \A n \in FileSizes : ~WholeFile(got, n)
  <2> SUFFICES ASSUME NEW n \in FileSizes, WholeFile(got, n) PROVE FALSE
    OBVIOUS
  <2>1. n \in Nat \ {0}
    BY SizesAssumption
  <2>2. Len(got) = n + 5 /\ a # 0 /\ n = a /\ DigitsFit(n)
    BY <1>1, <2>1, WholeRead, WholeIsFile
  <2> QED BY <1>1, <2>2 DEF End
<1>4. CASE a = 0
  <2>1. Len(got) < 3 /\ Reply(a) = NoFile /\ Len(NoFile) = 3
    BY <1>4, NoFileLines DEF End
  <2>2. got # NoFile
    BY <1>1, <2>1
  <2>3. \A k \in 1..Least(Len(got), Len(NoFile)) : k \in 1..Len(got)
    BY <1>1, <2>1 DEF Least
  <2>4. BeginsLike(got, NoFile)
    BY <1>2, <2>1, <2>3 DEF BeginsLike
  <2> QED BY <1>3, <2>1, <2>2, <2>4 DEF Verdict
<1>5. CASE a # 0
  <2>1. a \in Nat \ {0} /\ a \in FileSizes
    BY <1>1, <1>5
  <2>2. /\ Len(Reply(a)) = a + 6
        /\ \A k \in 1..4 : Reply(a)[k] = FileHead(a)[k]
    BY <2>1, ReplyLines
  <2>3. \A k \in 1..4 : k <= Len(got) => got[k] = FileHead(a)[k]
    BY <1>1, <1>2, <2>2
  <2>4. /\ Len(got) >= 4 => DigitsFit(a)
        /\ Len(got) < a + 5
    BY <1>1, <2>1 DEF End
  <2>5. FitsFile(got, a)
    BY <1>1, <2>1, <2>3, <2>4, HeadStarts
  <2>6. got # NoFile
    <3> SUFFICES ASSUME got = NoFile PROVE FALSE
      OBVIOUS
    <3>1. Len(got) = 3 /\ got[2] = Unit("none")
      BY NoFileLines
    <3>2. got[2] = Unit("status")
      BY <2>1, <2>3, <3>1, HeadLines
    <3> QED BY <3>1, <3>2, UnitsDiffer
  <2>7. a \in Sizes(got)
    BY <2>1, <2>5 DEF Sizes
  <2> QED BY <1>3, <2>4, <2>6, <2>7 DEF Verdict
<1> QED BY <1>4, <1>5

(* At the end of the reply it has the file, or knows that there is none. *)
LEMMA EndRead ==
  ASSUME NEW a \in FileSizes \cup {0}, NEW got \in Seq(Units),
         Starts(got, Reply(a)), Len(got) = End(a)
  PROVE  /\ Verdict(got) # "more"
         /\ Verdict(got) = "file" <=> a # 0 /\ DigitsFit(a)
         /\ Verdict(got) = "file" => FileIn(got) = File(a)
<1>1. a \in Nat /\ Len(got) \in Nat
  BY SizesAssumption
<1>2. \A k \in 1..Len(got) : got[k] = Reply(a)[k]
  BY DEF Starts
<1>3. CASE a = 0
  <2>1. Len(got) = 3 /\ Reply(a) = NoFile /\ Len(NoFile) = 3 /\ NoFile \in Seq(Units)
    BY <1>3, NoFileLines DEF End
  <2>2. got = NoFile
    BY <1>2, <2>1, SeqEqual
  <2> QED BY <1>3, <2>2 DEF Verdict
<1>4. CASE a # 0
  <2>1. a \in Nat \ {0} /\ a \in FileSizes
    BY <1>1, <1>4
  <2>2. /\ Len(Reply(a)) = a + 6 /\ Reply(a)[a + 5] = NewLine
        /\ \A k \in 1..4 : Reply(a)[k] = FileHead(a)[k]
    BY <2>1, ReplyLines
  <2>3. \A k \in 1..4 : k <= Len(got) => got[k] = FileHead(a)[k]
    BY <1>1, <1>2, <2>2
  <2>4. Len(got) >= 4 /\ got # NoFile
    <3>1. Len(got) >= 4
      BY <2>1 DEF End
    <3>2. Len(NoFile) = 3
      BY NoFileLines
    <3>3. ASSUME got = NoFile PROVE FALSE
      <4>1. Len(NoFile) >= 4
        BY <3>1, <3>3
      <4> QED BY <3>2, <4>1
    <3> QED BY <3>1, <3>3
  <2>5. CASE DigitsFit(a)
    <3>1. Len(got) = a + 5
      BY <2>1, <2>5 DEF End
    <3>2. FitsFile(got, a)
      BY <1>1, <2>1, <2>3, <2>5, <3>1, HeadStarts
    <3>3. a + 5 \in 1..Len(got)
      BY <2>1, <3>1
    <3>4. WholeFile(got, a)
      BY <1>2, <2>2, <3>1, <3>2, <3>3 DEF WholeFile
    <3>5. FileIn(got) = File(a)
      BY <1>1, <2>1, <3>4, WholeIsFile
    <3> QED BY <1>4, <2>1, <2>4, <2>5, <3>4, <3>5 DEF Verdict
  <2>6. CASE ~DigitsFit(a)
    <3>1. Len(got) = 4
      BY <2>1, <2>6 DEF End
    <3>2. Sizes(got) = {}
      <4> SUFFICES ASSUME NEW n \in FileSizes, FitsFile(got, n) PROVE FALSE
        BY DEF Sizes
      <4>1. n \in Nat \ {0} /\ n \in Nat
        BY SizesAssumption
      <4>2. got[4] = FileHead(n)[4]
        BY <3>1, <4>1, HeadRead
      <4>3. got[4] = FileHead(a)[4]
        BY <2>3, <3>1
      <4>4. n = a
        <5>1. FileHead(n)[4] = <<"size", n>> /\ FileHead(a)[4] = <<"size", a>>
          BY <1>1, <4>1, HeadLines
        <5>2. <<"size", n>> = <<"size", a>>
          BY <4>2, <4>3, <5>1
        <5> QED BY <1>1, <4>1, <5>2, UnitsDiffer
      <4> QED BY <2>6, <3>1, <4>4 DEF FitsFile
    <3>3. \A n \in FileSizes : ~WholeFile(got, n)
      BY <3>2 DEF WholeFile, Sizes
    <3> QED BY <2>4, <2>6, <3>1, <3>2, <3>3 DEF Verdict
  <2> QED BY <2>5, <2>6
<1> QED BY <1>3, <1>4

-----------------------------------------------------------------------------
(* A reply that is cut off by the error packet. *)
CutReply(a, k) == SubSeq(Reply(a), 1, k) \o ErrPacket

LEMMA ReplyTyped ==
  ASSUME NEW a \in Nat
  PROVE  Reply(a) \in Seq(Units) /\ Len(Reply(a)) = IF a = 0 THEN 3 ELSE a + 6
<1>1. CASE a = 0
  BY <1>1, NoFileLines
<1>2. CASE a # 0
  BY <1>2, ReplyLines
<1> QED BY <1>1, <1>2

LEMMA CutLines ==
  ASSUME NEW a \in Nat, NEW k \in 0..Len(Reply(a))
  PROVE  /\ CutReply(a, k) \in Seq(Units) /\ Len(CutReply(a, k)) = k + 4
         /\ \A j \in 1..k : CutReply(a, k)[j] = Reply(a)[j]
         /\ \A j \in 1..4 : CutReply(a, k)[k + j] = ErrPacket[j]
<1> DEFINE head == SubSeq(Reply(a), 1, k)
<1>1. Reply(a) \in Seq(Units) /\ Len(Reply(a)) \in Nat
  BY ReplyTyped
<1>2. k \in Nat /\ 1 \in Int /\ k \in Int /\ k - 1 + 1 = k /\ (1 <= k => k - 1 + 1 = k) /\ (~(1 <= k) => k = 0)
  BY <1>1
<1>3. \A j \in 1..k : Reply(a)[j] \in Units /\ 1 + j - 1 = j
  BY <1>1
<1>4. /\ head \in Seq(Units) /\ Len(head) = IF 1 <= k THEN k - 1 + 1 ELSE 0
      /\ \A j \in 1..(k - 1 + 1) : head[j] = Reply(a)[1 + j - 1]
  BY <1>2, <1>3, SubSeqProperties
<1>5. /\ head \in Seq(Units) /\ Len(head) = k
      /\ \A j \in 1..k : head[j] = Reply(a)[j]
  BY <1>2, <1>3, <1>4
<1> HIDE DEF head
<1>6. /\ head \o ErrPacket \in Seq(Units) /\ Len(head \o ErrPacket) = Len(head) + Len(ErrPacket)
      /\ \A j \in 1..Len(head) : (head \o ErrPacket)[j] = head[j]
      /\ \A j \in 1..Len(ErrPacket) : (head \o ErrPacket)[Len(head) + j] = ErrPacket[j]
  BY <1>5, ErrLines, JoinLines
<1>7. /\ head \o ErrPacket \in Seq(Units) /\ Len(head \o ErrPacket) = k + 4
      /\ \A j \in 1..k : (head \o ErrPacket)[j] = head[j]
      /\ \A j \in 1..4 : (head \o ErrPacket)[k + j] = ErrPacket[j]
  BY <1>5, <1>6, ErrLines
<1> QED BY <1>5, <1>7 DEF CutReply, head

(* A whole file that is the beginning of a reply that was cut off: either  *)
(* its file was whole already, or just its last five bytes were not.       *)
LEMMA WholeOfCut ==
  ASSUME NEW a \in Nat, NEW k \in 0..Len(Reply(a)),
         NEW got \in Seq(Units), NEW n \in Nat \ {0},
         Starts(got, CutReply(a, k)), WholeFile(got, n)
  PROVE  \/ Starts(got, Reply(a))
         \/ a # 0 /\ n = a /\ k = a + 1 /\ Len(got) = Len(CutReply(a, k))
<1>1. /\ Len(got) = n + 5 /\ got[n + 5] = NewLine
      /\ got[1] = Unit("id") /\ got[2] = Unit("status") /\ got[3] = Unit("name")
      /\ got[4] = <<"size", n>>
  BY WholeRead
<1>2. /\ Len(CutReply(a, k)) = k + 4
      /\ \A j \in 1..k : CutReply(a, k)[j] = Reply(a)[j]
      /\ \A j \in 1..4 : CutReply(a, k)[k + j] = ErrPacket[j]
  BY CutLines
<1>3. Len(got) <= k + 4 /\ \A j \in 1..Len(got) : got[j] = CutReply(a, k)[j]
  BY <1>2 DEF Starts
<1>4. k \in Nat /\ n \in Nat /\ k <= Len(Reply(a)) /\ Len(Reply(a)) = IF a = 0 THEN 3 ELSE a + 6
  <2>1. Reply(a) \in Seq(Units) /\ Len(Reply(a)) = IF a = 0 THEN 3 ELSE a + 6
    BY ReplyTyped
  <2>2. Len(Reply(a)) \in Nat
    BY <2>1
  <2> QED BY <2>1, <2>2
<1>5. k >= 4
  <2> SUFFICES ASSUME k \in 0..3 PROVE FALSE
    BY <1>4
  <2>1. 1 \in 1..4 /\ k + 1 \in 1..Len(got)
    BY <1>1, <1>4
  <2>2. got[k + 1] = Unit("E")
    BY <1>2, <1>3, <2>1, ErrLines
  <2>3. k + 1 = 1 \/ k + 1 = 2 \/ k + 1 = 3 \/ k + 1 = 4
    OBVIOUS
  <2>4. got[1] = Unit("E") \/ got[2] = Unit("E") \/ got[3] = Unit("E") \/ got[4] = Unit("E")
    BY <2>2, <2>3
  <2> QED BY <1>1, <1>4, <2>4, UnitsDiffer
<1>6. a \in Nat \ {0}
  BY <1>4, <1>5
<1>7. n = a
  <2>1. 4 \in 1..k /\ 4 \in 1..Len(got)
    BY <1>1, <1>4, <1>5
  <2>2. got[4] = CutReply(a, k)[4] /\ CutReply(a, k)[4] = Reply(a)[4]
    BY <1>2, <1>3, <2>1
  <2>3. Reply(a)[4] = FileHead(a)[4]
    <3>1. \A j \in 1..4 : Reply(a)[j] = FileHead(a)[j]
      BY <1>6, ReplyLines
    <3> QED BY <3>1
  <2>4. FileHead(a)[4] = <<"size", a>>
    BY <1>6, HeadLines
  <2> QED BY <1>1, <1>4, <1>6, <2>2, <2>3, <2>4, UnitsDiffer
<1>8. CASE k >= a + 5
  <2>1. \A j \in 1..Len(got) : j \in 1..k
    BY <1>1, <1>4, <1>7, <1>8
  <2>2. \A j \in 1..Len(got) : got[j] = Reply(a)[j]
    BY <1>2, <1>3, <2>1
  <2>3. Len(got) <= Len(Reply(a))
    BY <1>1, <1>4, <1>6, <1>7
  <2> QED BY <2>2, <2>3 DEF Starts
<1>9. CASE ~(k >= a + 5)
  <2>1. a + 5 - k \in 1..4 /\ k + (a + 5 - k) = n + 5 /\ n + 5 \in 1..Len(got)
    BY <1>1, <1>3, <1>4, <1>6, <1>7, <1>9
  <2>2. ErrPacket[a + 5 - k] = NewLine
    BY <1>1, <1>2, <1>3, <2>1
  <2>3. a + 5 - k = 4
    BY <2>1, <2>2, ErrLines, UnitsDiffer
  <2>4. k = a + 1 /\ Len(got) = k + 4
    BY <1>1, <1>4, <1>7, <2>3
  <2> QED BY <1>2, <1>6, <1>7, <2>4
<1> QED BY <1>8, <1>9

-----------------------------------------------------------------------------
(* Type correctness.  TypeOK says of a connection on which nothing is      *)
(* written that nothing is left to write; that this stays so when the      *)
(* client connects needs Asked: the connection of a command that is given  *)
(* has not been used.                                                      *)
States == {"none", "queued", "id", "rest", "write", "closed"}

Types ==
  /\ up \in BOOLEAN
  /\ command \in 0..MaxCommands
  /\ client \in {"idle", "connecting", "reading"}
  /\ request \in [Connections -> 0..2] /\ taken \in [Connections -> 0..2]
  /\ server \in [Connections -> States]
  /\ answer \in [Connections -> FileSizes \cup {0}]
  /\ inError \in [Connections -> BOOLEAN]
  /\ reset \in [Connections -> BOOLEAN] /\ fault \in [Connections -> BOOLEAN]
  /\ left \in [Connections -> Seq(Units)] /\ out \in [Connections -> Seq(Units)]
  /\ saved \in [Connections -> Seq(Units)]
  /\ arrived \in [Connections -> Nat] /\ consumed \in [Connections -> Nat]

Counted ==
  \A i \in Connections : arrived[i] <= Len(out[i]) /\ consumed[i] <= arrived[i]

Fresh(i) == i > command \/ (i = command /\ client = "connecting")

Asked ==
  /\ client # "idle" => command # 0
  /\ \A i \in Connections : Fresh(i) => server[i] = "none" /\ saved[i] = NotSaved

(* Until the answer is known nothing is written, and nothing is left to    *)
(* write when the connection is closed.                                    *)
Unwritten(i) == server[i] \in {"none", "queued", "id", "rest"}

Quiet ==
  \A i \in Connections :
    /\ Unwritten(i) => out[i] = <<>> /\ left[i] = <<>> /\ answer[i] = 0 /\ ~inError[i]
    /\ server[i] = "closed" => left[i] = <<>>
    /\ inError[i] => fault[i]

LEMMA PacketsTyped ==
  /\ ErrPacket \in Seq(Units) /\ NoFile \in Seq(Units) /\ NotSaved \in Seq(Units)
  /\ \A n \in FileSizes \cup {0} : n \in Nat /\ Reply(n) \in Seq(Units)
<1>1. \A n \in FileSizes \cup {0} : n \in Nat
  BY SizesAssumption
<1>2. NotSaved \in Seq(Units)
  BY DEF NotSaved
<1> QED BY <1>1, <1>2, ErrLines, NoFileLines, ReplyTyped

LEMMA CommandIsConnection ==
  ASSUME Types, Asked, client # "idle"
  PROVE  command \in Connections
  BY SpaceAssumption DEF Types, Asked, Connections

(* A write takes what is left from its beginning and puts it behind what   *)
(* is out. *)
LEMMA JoinAgain ==
  \A s, t, u \in Seq(Units) : (s \o t) \o u = s \o (t \o u)
  BY ConcatAssociative

LEMMA PieceWritten ==
  ASSUME NEW s \in Seq(Units), NEW t \in Seq(Units), NEW k \in 1..Len(t)
  PROVE  LET piece == SubSeq(t, 1, k)
             rest == SubSeq(t, k + 1, Len(t))
         IN  /\ piece \in Seq(Units) /\ rest \in Seq(Units) /\ Len(piece) = k
             /\ s \o piece \in Seq(Units) /\ Len(s \o piece) = Len(s) + k
             /\ \A j \in 1..Len(s) : (s \o piece)[j] = s[j]
             /\ (s \o piece) \o rest = s \o t
<1> DEFINE piece == SubSeq(t, 1, k)
           rest == SubSeq(t, k + 1, Len(t))
<1>1. Len(t) \in Nat /\ k \in Nat /\ k + 1 \in Int /\ k - 1 + 1 = k /\ 1 <= k /\ k <= Len(t)
      /\ 1 \in Int /\ Len(t) \in Int /\ k \in Int
  OBVIOUS
<1>2. \A j \in 1..k : t[j] \in Units
  BY <1>1
<1>3. \A j \in (k + 1)..Len(t) : t[j] \in Units
  BY <1>1
<1>4. piece \in Seq(Units) /\ Len(piece) = IF 1 <= k THEN k - 1 + 1 ELSE 0
  BY <1>1, <1>2, SubSeqProperties
<1>5. rest \in Seq(Units)
  BY <1>1, <1>3, SubSeqProperties
<1>6. piece \o rest = t
  <2>1. 1 \in 1..(Len(t) + 1) /\ k \in (1 - 1)..Len(t) /\ Len(t) \in k..Len(t)
    BY <1>1
  <2>2. piece \o rest = SubSeq(t, 1, Len(t))
    BY <2>1, ConcatAdjacentSubSeq
  <2> QED BY <2>2, SubSeqFull
<1>7. Len(piece) = k
  BY <1>1, <1>4
<1> HIDE DEF piece, rest
<1>8. /\ s \o piece \in Seq(Units) /\ Len(s \o piece) = Len(s) + Len(piece)
      /\ \A j \in 1..Len(s) : (s \o piece)[j] = s[j]
  BY <1>4, JoinLines
<1>9. (s \o piece) \o rest = s \o (piece \o rest)
  BY <1>4, <1>5, JoinAgain
<1>10. /\ piece \in Seq(Units) /\ rest \in Seq(Units) /\ Len(piece) = k
       /\ s \o piece \in Seq(Units) /\ Len(s \o piece) = Len(s) + k
       /\ \A j \in 1..Len(s) : (s \o piece)[j] = s[j]
       /\ (s \o piece) \o rest = s \o t
  BY <1>4, <1>5, <1>6, <1>7, <1>8, <1>9
<1> QED BY <1>10 DEF piece, rest

LEMMA WriteIs ==
  ASSUME Types, Counted, NEW i \in Connections, write(i)
  PROVE  /\ UNCHANGED <<up, clientVars, request, server, taken, answer, inError, arrived, reset,
                        fault>>
         /\ server[i] = "write" /\ up /\ left[i] # <<>>
         /\ \E s \in Seq(Units), t \in Seq(Units) :
              /\ out' = [out EXCEPT ![i] = s] /\ left' = [left EXCEPT ![i] = t]
              /\ Len(s) > Len(out[i]) /\ s \o t = out[i] \o left[i]
              /\ \A j \in 1..Len(out[i]) : s[j] = out[i][j]
<1>1. PICK k \in 1..Least(Space(i), Len(left[i])) :
         /\ out' = [out EXCEPT ![i] = @ \o SubSeq(left[i], 1, k)]
         /\ left' = [left EXCEPT ![i] = SubSeq(@, k + 1, Len(@))]
  BY DEF write
<1>2. out[i] \in Seq(Units) /\ left[i] \in Seq(Units) /\ arrived[i] \in Nat
  BY DEF Types
<1>3. Len(out[i]) \in Nat /\ Len(left[i]) \in Nat
  BY <1>2
<1>4. Space(i) \in Int
  BY <1>2, <1>3, SpaceAssumption DEF Space
<1>5. k \in 1..Len(left[i])
  BY <1>3, <1>4 DEF Least
<1> DEFINE s == out[i] \o SubSeq(left[i], 1, k)
           t == SubSeq(left[i], k + 1, Len(left[i]))
<1>6. /\ s \in Seq(Units) /\ t \in Seq(Units) /\ Len(s) = Len(out[i]) + k
      /\ s \o t = out[i] \o left[i] /\ \A j \in 1..Len(out[i]) : s[j] = out[i][j]
  BY <1>2, <1>5, PieceWritten
<1>7. out' = [out EXCEPT ![i] = s] /\ left' = [left EXCEPT ![i] = t]
  BY <1>1, <1>2 DEF Types
<1>8. left[i] # <<>>
  BY <1>3, <1>5
<1> HIDE DEF s, t
<1>9. Len(s) > Len(out[i])
  BY <1>3, <1>5, <1>6
<1> QED BY <1>6, <1>7, <1>8, <1>9 DEF write

LEMMA HeadOf ==
  ASSUME NEW s \in Seq(Units), NEW k \in Nat, k <= Len(s)
  PROVE  /\ SubSeq(s, 1, k) \in Seq(Units) /\ Len(SubSeq(s, 1, k)) = k
         /\ \A j \in 1..k : SubSeq(s, 1, k)[j] = s[j]
<1> DEFINE got == SubSeq(s, 1, k)
<1>1. Len(s) \in Nat
  OBVIOUS
<1>2. \A j \in 1..k : s[j] \in Units /\ 1 + j - 1 = j
  BY <1>1
<1>3. 1 \in Int /\ k \in Int /\ k - 1 + 1 = k /\ (~(1 <= k) => k = 0)
  OBVIOUS
<1>4. /\ got \in Seq(Units) /\ Len(got) = IF 1 <= k THEN k - 1 + 1 ELSE 0
      /\ \A j \in 1..(k - 1 + 1) : got[j] = s[1 + j - 1]
  BY <1>2, <1>3, SubSeqProperties
<1> HIDE DEF got
<1>5. got \in Seq(Units) /\ Len(got) = k /\ \A j \in 1..k : got[j] = s[j]
  BY <1>2, <1>3, <1>4
<1> QED BY <1>5 DEF got

(* The file that a read takes from the reply is made of units. *)
LEMMA FileInTyped ==
  ASSUME Types, NEW i \in Connections, NEW k \in Nat, k <= Len(out[i])
  PROVE  /\ SubSeq(out[i], 1, k) \in Seq(Units) /\ Len(SubSeq(out[i], 1, k)) = k
         /\ \A j \in 1..k : SubSeq(out[i], 1, k)[j] = out[i][j]
         /\ FileIn(SubSeq(out[i], 1, k)) \in Seq(Units)
<1> DEFINE got == SubSeq(out[i], 1, k)
<1>1. out[i] \in Seq(Units)
  BY DEF Types
<1>2. got \in Seq(Units) /\ Len(got) = k /\ \A j \in 1..k : got[j] = out[i][j]
  BY <1>1, HeadOf
<1> HIDE DEF got
<1>3. FileIn(got) \in Seq(Units)
  <2>1. \A j \in 5..(Len(got) - 1) : got[j] \in Units
    BY <1>2
  <2>2. 5 \in Int /\ Len(got) - 1 \in Int
    BY <1>2
  <2> QED BY <2>1, <2>2, SubSeqProperties DEF FileIn
<1> QED BY <1>2, <1>3 DEF got

LEMMA TypesStep ==
  ASSUME Types, Counted, Asked, Next
  PROVE  Types'
<1>1. CASE giveCommand
  BY <1>1, SpaceAssumption DEF giveCommand, serverVars, Types
<1>2. CASE connectAndSend
  BY <1>2 DEF connectAndSend, Types, States
<1>3. CASE connectFails
  BY <1>3 DEF connectFails, Broken, serverVars, Types
<1>4. CASE readReply
  <2> DEFINE got == SubSeq(out[command], 1, consumed[command] + 1)
  <2>1. command \in Connections
    BY <1>4, CommandIsConnection DEF readReply
  <2>2. consumed[command] + 1 \in Nat /\ consumed[command] + 1 <= Len(out[command])
    <3>1. consumed[command] \in Nat /\ arrived[command] \in Nat
          /\ out[command] \in Seq(Units)
      BY <2>1 DEF Types
    <3>2. Len(out[command]) \in Nat /\ arrived[command] <= Len(out[command])
      BY <2>1, <3>1 DEF Counted
    <3> QED BY <1>4, <3>1, <3>2 DEF readReply
  <2>3. FileIn(got) \in Seq(Units)
    BY <2>1, <2>2, FileInTyped
  <2>4. /\ consumed' = [consumed EXCEPT ![command] = @ + 1]
        /\ saved' = saved \/ saved' = [saved EXCEPT ![command] = FileIn(got)]
        /\ client' \in {"reading", "idle"}
        /\ UNCHANGED <<up, command, request, serverVars, arrived, reset, fault>>
    BY <1>4 DEF readReply
  <2> HIDE DEF got
  <2>5. consumed' \in [Connections -> Nat]
    BY <2>1, <2>4 DEF Types
  <2>6. saved' \in [Connections -> Seq(Units)]
    BY <2>3, <2>4 DEF Types
  <2> QED BY <2>4, <2>5, <2>6 DEF serverVars, Types
<1>5. CASE readTimeout \/ readEnd \/ readReset
  BY <1>5 DEF readTimeout, readEnd, readReset, GivesUp, Broken, serverVars, Types
<1>6. CASE killed \/ \E i \in Connections : errorTimeout(i) \/ brokenPipe(i)
  BY <1>6
  DEF killed, errorTimeout, brokenPipe, ServerDies, EveryoneLoses, clientVars, serverVars, Types
<1>7. ASSUME NEW i \in Connections, deliverRequest(i) PROVE Types'
  <2>1. request' \in [Connections -> 0..2]
    <3>1. request[i] \in 0..2 /\ request[i] < 2
      BY <1>7 DEF deliverRequest, Types
    <3>2. request[i] + 1 \in 0..2
      BY <3>1
    <3>3. request' = [request EXCEPT ![i] = request[i] + 1] /\ request \in [Connections -> 0..2]
      BY <1>7 DEF deliverRequest, Types
    <3> QED BY <3>2, <3>3
  <2>2. reset' \in [Connections -> BOOLEAN]
    <3>1. (reset[i] \/ server[i] = "closed" \/ ~up) \in BOOLEAN
      OBVIOUS
    <3> QED BY <1>7, <3>1 DEF deliverRequest, Types
  <2> QED BY <1>7, <2>1, <2>2 DEF deliverRequest, clientVars, serverVars, Types
<1>8. ASSUME NEW i \in Connections, deliverReply(i) PROVE Types'
  BY <1>8 DEF deliverReply, clientVars, serverVars, Types
<1>9. ASSUME NEW i \in Connections, takeConnection(i) \/ readId(i) \/ finishConnection(i)
      PROVE  Types'
  <2>1. CASE takeConnection(i) \/ readId(i)
    <3>1. taken' \in [Connections -> 0..2]
      <4>1. taken' = taken \/ taken' = [taken EXCEPT ![i] = 1]
        BY <2>1 DEF takeConnection, readId
      <4>2. taken \in [Connections -> 0..2] /\ 1 \in 0..2
        BY DEF Types
      <4>3. [taken EXCEPT ![i] = 1] \in [Connections -> 0..2]
        BY <4>2
      <4> QED BY <4>1, <4>2, <4>3
    <3>2. server' \in [Connections -> States]
      BY <2>1 DEF takeConnection, readId, Serve, Types, States
    <3> QED BY <2>1, <3>1, <3>2 DEF takeConnection, readId, clientVars, Types
  <2>2. CASE finishConnection(i)
    <3>1. (reset[i] \/ Unread(i)) \in BOOLEAN
      BY DEF Unread
    <3>2. reset' \in [Connections -> BOOLEAN]
      BY <2>2, <3>1 DEF finishConnection, Types
    <3> QED BY <2>2, <3>2 DEF finishConnection, Serve, clientVars, Types, States
  <2> QED BY <1>9, <2>1, <2>2
<1>10. ASSUME NEW i \in Connections, readRest(i) PROVE Types'
  <2>1. PICK n \in FileSizes \cup {0} :
          answer' = [answer EXCEPT ![i] = n] /\ StartWriting(i, Reply(n), FALSE)
    BY <1>10 DEF readRest
  <2>2. Reply(n) \in Seq(Units)
    BY PacketsTyped
  <2>3. left' \in [Connections -> Seq(Units)] /\ inError' \in [Connections -> BOOLEAN]
    BY <2>1, <2>2 DEF StartWriting, Types
  <2> QED BY <1>10, <2>1, <2>3 DEF readRest, StartWriting, Serve, clientVars, Types, States
<1>11. ASSUME NEW i \in Connections, idTimeout(i) \/ writeTimeout(i) PROVE Types'
  <2>1. left' \in [Connections -> Seq(Units)] /\ inError' \in [Connections -> BOOLEAN]
    BY <1>11, PacketsTyped DEF idTimeout, writeTimeout, StartWriting, Types
  <2> QED BY <1>11, <2>1
    DEF idTimeout, writeTimeout, StartWriting, Broken, Serve, clientVars, Types, States
<1>12. ASSUME NEW i \in Connections, restTimeout(i) PROVE Types'
  <2>1. left' \in [Connections -> Seq(Units)] /\ inError' \in [Connections -> BOOLEAN]
    BY <1>12, PacketsTyped DEF restTimeout, StartWriting, Types
  <2> QED BY <1>12, <2>1 DEF restTimeout, StartWriting, Broken, Serve, clientVars, Types, States
<1>13. ASSUME NEW i \in Connections, write(i) PROVE Types'
  <2>1. PICK s \in Seq(Units), t \in Seq(Units) :
          /\ out' = [out EXCEPT ![i] = s] /\ left' = [left EXCEPT ![i] = t]
          /\ Len(s) > Len(out[i]) /\ s \o t = out[i] \o left[i]
          /\ \A j \in 1..Len(out[i]) : s[j] = out[i][j]
    BY <1>13, WriteIs
  <2> QED BY <1>13, <2>1, WriteIs DEF clientVars, Types
<1> QED
  BY <1>1, <1>2, <1>3, <1>4, <1>5, <1>6, <1>7, <1>8, <1>9, <1>10, <1>11, <1>12, <1>13
  DEF Next, clientStep, handleTcpConnection

LEMMA AskedStep ==
  ASSUME Types, Counted, Asked, Next
  PROVE  Asked'
<1> USE DEF Types
<1>1. CASE giveCommand
  BY <1>1 DEF giveCommand, serverVars, Asked, Fresh, Connections
<1>2. CASE connectAndSend
  BY <1>2 DEF connectAndSend, Asked, Fresh, Connections
<1>3. CASE connectFails
  BY <1>3 DEF connectFails, Broken, serverVars, Asked, Fresh
<1>4. CASE readReply
  <2>1. command \in Connections
    BY <1>4, CommandIsConnection DEF readReply
  <2>2. \A i \in Connections : i # command => saved'[i] = saved[i]
    BY <1>4 DEF readReply
  <2>3. client = "reading" /\ client' # "connecting" /\ UNCHANGED <<command, server>>
        /\ command # 0
    BY <1>4 DEF readReply, serverVars, Asked
  <2> QED BY <2>1, <2>2, <2>3 DEF Asked, Fresh, Connections
<1>5. CASE readTimeout \/ readEnd \/ readReset
  BY <1>5 DEF readTimeout, readEnd, readReset, GivesUp, Broken, serverVars, Asked, Fresh
<1>6. CASE killed \/ \E i \in Connections : errorTimeout(i) \/ brokenPipe(i)
  BY <1>6
  DEF killed, errorTimeout, brokenPipe, ServerDies, EveryoneLoses, clientVars, serverVars, Asked, Fresh
<1>7. ASSUME NEW i \in Connections, deliverRequest(i) \/ deliverReply(i) PROVE Asked'
  BY <1>7 DEF deliverRequest, deliverReply, clientVars, serverVars, Asked, Fresh
<1>8. ASSUME NEW i \in Connections,
             \/ takeConnection(i) \/ readId(i) \/ finishConnection(i)
             \/ readRest(i) \/ idTimeout(i) \/ restTimeout(i)
      PROVE  Asked'
  <2>1. /\ server[i] # "none" /\ UNCHANGED clientVars
        /\ \A j \in Connections : j # i => server'[j] = server[j]
    BY <1>8 DEF takeConnection, readId, finishConnection, readRest, idTimeout, restTimeout,
                Serve, StartWriting
  <2> QED BY <2>1 DEF clientVars, Asked, Fresh
<1>9. ASSUME NEW i \in Connections, writeTimeout(i) \/ write(i) PROVE Asked'
  BY <1>9 DEF writeTimeout, write, StartWriting, clientVars, Asked, Fresh
<1> QED
  BY <1>1, <1>2, <1>3, <1>4, <1>5, <1>6, <1>7, <1>8, <1>9
  DEF Next, clientStep, handleTcpConnection

LEMMA CountedStep ==
  ASSUME Types, Counted, Asked, Next
  PROVE  Counted'
<1> USE DEF Types
<1>1. \A i \in Connections : /\ Len(out[i]) \in Nat /\ arrived[i] \in Nat /\ consumed[i] \in Nat
                             /\ arrived[i] <= Len(out[i]) /\ consumed[i] <= arrived[i]
  BY DEF Counted
<1>2. CASE giveCommand \/ connectAndSend \/ connectFails \/ readTimeout \/ readEnd \/ readReset
  BY <1>2
  DEF giveCommand, connectAndSend, connectFails, readTimeout, readEnd, readReset, GivesUp,
      serverVars, Counted
<1>3. CASE readReply
  BY <1>1, <1>3 DEF readReply, serverVars, Counted
<1>4. CASE killed \/ \E i \in Connections : errorTimeout(i) \/ brokenPipe(i)
  BY <1>4 DEF killed, errorTimeout, brokenPipe, ServerDies, clientVars, serverVars, Counted
<1>5. ASSUME NEW i \in Connections, deliverRequest(i) PROVE Counted'
  BY <1>5 DEF deliverRequest, clientVars, serverVars, Counted
<1>6. ASSUME NEW i \in Connections, deliverReply(i) PROVE Counted'
  BY <1>1, <1>6 DEF deliverReply, clientVars, serverVars, Counted
<1>7. ASSUME NEW i \in Connections,
             \/ takeConnection(i) \/ readId(i) \/ finishConnection(i)
             \/ readRest(i) \/ idTimeout(i) \/ restTimeout(i) \/ writeTimeout(i)
      PROVE  Counted'
  BY <1>7 DEF takeConnection, readId, finishConnection, readRest, idTimeout, restTimeout,
              writeTimeout, StartWriting, clientVars, Counted
<1>8. ASSUME NEW i \in Connections, write(i) PROVE Counted'
  <2>1. PICK s \in Seq(Units), t \in Seq(Units) :
          out' = [out EXCEPT ![i] = s] /\ Len(s) > Len(out[i])
    BY <1>8, WriteIs
  <2>2. UNCHANGED <<arrived, consumed>>
    BY <1>8, WriteIs DEF clientVars
  <2>3. Len(s) \in Nat
    OBVIOUS
  <2> QED BY <1>1, <2>1, <2>2, <2>3 DEF Counted
<1> QED
  BY <1>2, <1>3, <1>4, <1>5, <1>6, <1>7, <1>8 DEF Next, clientStep, handleTcpConnection

LEMMA QuietStep ==
  ASSUME Types, Counted, Asked, Quiet, Next
  PROVE  Quiet'
<1> USE DEF Types
<1>1. CASE giveCommand
  BY <1>1 DEF giveCommand, serverVars, Quiet, Unwritten
<1>2. CASE connectAndSend
  <2>1. command \in Connections
    BY <1>2, CommandIsConnection DEF connectAndSend
  <2>2. server[command] = "none"
    BY <1>2, <2>1 DEF connectAndSend, Asked, Fresh
  <2> QED BY <1>2, <2>1, <2>2 DEF connectAndSend, Quiet, Unwritten
<1>3. CASE connectFails \/ readTimeout \/ readEnd \/ readReset
  BY <1>3 DEF connectFails, readTimeout, readEnd, readReset, Broken, serverVars, Quiet, Unwritten
<1>4. CASE readReply
  BY <1>4 DEF readReply, serverVars, Quiet, Unwritten
<1>5. CASE killed \/ \E i \in Connections : errorTimeout(i) \/ brokenPipe(i)
  <2>1. UNCHANGED serverVars /\ \A i \in Connections : fault[i] => fault'[i]
    BY <1>5 DEF killed, errorTimeout, brokenPipe, ServerDies, EveryoneLoses
  <2> QED BY <2>1 DEF serverVars, Quiet, Unwritten
<1>6. ASSUME NEW i \in Connections, deliverRequest(i) \/ deliverReply(i) PROVE Quiet'
  BY <1>6 DEF deliverRequest, deliverReply, serverVars, Quiet, Unwritten
<1>7. ASSUME NEW i \in Connections, takeConnection(i) \/ readId(i) PROVE Quiet'
  BY <1>7 DEF takeConnection, readId, Serve, Quiet, Unwritten
<1>8. ASSUME NEW i \in Connections, finishConnection(i) PROVE Quiet'
  BY <1>8 DEF finishConnection, Serve, AllWritten, Quiet, Unwritten
<1>9. ASSUME NEW i \in Connections,
             readRest(i) \/ idTimeout(i) \/ restTimeout(i) \/ writeTimeout(i)
      PROVE  Quiet'
  <2>1. /\ server'[i] = "write" /\ (inError'[i] => fault'[i])
        /\ \A j \in Connections : fault[j] => fault'[j]
    BY <1>9 DEF readRest, idTimeout, restTimeout, writeTimeout, Serve, StartWriting, Broken, Stuck
  <2>2. \A j \in Connections \ {i} :
          /\ server'[j] = server[j] /\ left'[j] = left[j] /\ answer'[j] = answer[j]
          /\ inError'[j] = inError[j]
    BY <1>9 DEF readRest, idTimeout, restTimeout, writeTimeout, Serve, StartWriting
  <2>3. UNCHANGED out
    BY <1>9 DEF readRest, idTimeout, restTimeout, writeTimeout, StartWriting
  <2> QED BY <2>1, <2>2, <2>3 DEF Quiet, Unwritten
<1>10. ASSUME NEW i \in Connections, write(i) PROVE Quiet'
  <2>1. server[i] = "write" /\ UNCHANGED <<server, answer, inError, fault>>
    BY <1>10 DEF write
  <2>2. \A j \in Connections \ {i} : out'[j] = out[j] /\ left'[j] = left[j]
    BY <1>10 DEF write
  <2> QED BY <2>1, <2>2 DEF Quiet, Unwritten
<1> QED
  BY <1>1, <1>2, <1>3, <1>4, <1>5, <1>6, <1>7, <1>8, <1>9, <1>10
  DEF Next, clientStep, handleTcpConnection

Basics == Types /\ Counted /\ Asked /\ Quiet

LEMMA BasicsInit == Init => Basics
<1> SUFFICES ASSUME Init PROVE Basics
  OBVIOUS
<1> USE DEF Init
<1>1. Types
  BY SizesAssumption, SpaceAssumption, PacketsTyped DEF Types, States, NotSaved
<1>2. Counted
  BY PacketsTyped DEF Counted
<1>3. Asked
  BY DEF Asked
<1>4. Quiet
  BY DEF Quiet
<1> QED BY <1>1, <1>2, <1>3, <1>4 DEF Basics

LEMMA BasicsStep == Basics /\ [Next]_vars => Basics'
<1> SUFFICES ASSUME Basics, [Next]_vars PROVE Basics'
  OBVIOUS
<1> USE DEF Basics
<1>1. CASE Next
  BY <1>1, TypesStep, CountedStep, AskedStep, QuietStep
<1>2. CASE UNCHANGED vars
  <2> USE <1>2 DEF vars, clientVars, serverVars
  <2>1. Types'
    BY DEF Types
  <2>2. Counted' /\ Asked' /\ Quiet'
    BY DEF Counted, Asked, Fresh, Quiet, Unwritten
  <2> QED BY <2>1, <2>2
<1> QED BY <1>1, <1>2

LEMMA BasicsInv == Spec => []Basics
  BY BasicsInit, BasicsStep, PTL DEF Spec

LEMMA BasicsTyped == Basics => TypeOK
<1> SUFFICES ASSUME Basics PROVE TypeOK
  OBVIOUS
<1> USE DEF Basics
<1>1. \A i \in Connections : /\ left[i] # <<>> => server[i] = "write"
                             /\ arrived[i] \in 0..Len(out[i]) /\ consumed[i] \in 0..arrived[i]
  BY DEF Types, States, Counted, Quiet, Unwritten
<1> QED BY <1>1 DEF Types, States, TypeOK

(* Type correctness. *)
THEOREM TypeCorrect == Spec => []TypeOK
  BY BasicsInv, BasicsTyped, PTL

-----------------------------------------------------------------------------
(* What is out and what is left are the answer of the server, or, after a  *)
(* timeout, as much of it as was out and the error packet.                 *)
Whole ==
  \A i \in Connections :
    ~Unwritten(i) =>
      IF inError[i]
      THEN \E k \in 0..Len(Reply(answer[i])) : out[i] \o left[i] = CutReply(answer[i], k)
      ELSE out[i] \o left[i] = Reply(answer[i])

LEMMA CutOfNothing == CutReply(0, 0) = ErrPacket
<1>1. SubSeq(Reply(0), 1, 0) = <<>>
  BY SubSeqEmpty
<1>2. <<>> \o ErrPacket = ErrPacket
  BY ErrLines, ConcatEmptySeq
<1> QED BY <1>1, <1>2 DEF CutReply

LEMMA Behind ==
  ASSUME NEW l \in Nat, NEW j \in 1..(l + 4), ~(j <= l)
  PROVE  j - l \in 1..4 /\ l + (j - l) = j
  OBVIOUS

LEMMA CutOfPrefix ==
  ASSUME NEW a \in Nat, NEW s \in Seq(Units), NEW t \in Seq(Units), s \o t = Reply(a)
  PROVE  Len(s) \in 0..Len(Reply(a)) /\ s \o ErrPacket = CutReply(a, Len(s))
<1>1. /\ Reply(a) \in Seq(Units) /\ Len(Reply(a)) = Len(s) + Len(t)
      /\ \A k \in 1..Len(s) : Reply(a)[k] = s[k]
  <2>1. /\ s \o t \in Seq(Units) /\ Len(s \o t) = Len(s) + Len(t)
        /\ \A k \in 1..Len(s) : (s \o t)[k] = s[k]
    BY JoinLines
  <2> QED BY <2>1
<1>2. Len(s) \in Nat /\ Len(t) \in Nat
  OBVIOUS
<1>3. Len(s) \in 0..Len(Reply(a))
  BY <1>1, <1>2
<1> DEFINE c == CutReply(a, Len(s))
           d == s \o ErrPacket
<1>4. /\ c \in Seq(Units) /\ Len(c) = Len(s) + 4
      /\ \A j \in 1..Len(s) : c[j] = Reply(a)[j]
      /\ \A j \in 1..4 : c[Len(s) + j] = ErrPacket[j]
  BY <1>3, CutLines
<1>5. /\ d \in Seq(Units) /\ Len(d) = Len(s) + 4
      /\ \A j \in 1..Len(s) : d[j] = s[j]
      /\ \A j \in 1..4 : d[Len(s) + j] = ErrPacket[j]
  <2>1. /\ d \in Seq(Units) /\ Len(d) = Len(s) + Len(ErrPacket)
        /\ \A j \in 1..Len(s) : d[j] = s[j]
        /\ \A j \in 1..Len(ErrPacket) : d[Len(s) + j] = ErrPacket[j]
    BY ErrLines, JoinLines
  <2> QED BY <2>1, ErrLines
<1> HIDE DEF c, d
<1>6. \A j \in 1..Len(d) : d[j] = c[j]
  <2> SUFFICES ASSUME NEW j \in 1..Len(d) PROVE d[j] = c[j]
    OBVIOUS
  <2>1. CASE j <= Len(s)
    BY <1>1, <1>2, <1>4, <1>5, <2>1
  <2>2. CASE ~(j <= Len(s))
    <3>1. j \in 1..(Len(s) + 4)
      BY <1>5
    <3>2. j - Len(s) \in 1..4 /\ Len(s) + (j - Len(s)) = j
      BY <1>2, <2>2, <3>1, Behind
    <3> QED BY <1>4, <1>5, <3>2
  <2> QED BY <2>1, <2>2
<1>7. d = c
  BY <1>4, <1>5, <1>6, SeqEqual
<1> QED BY <1>3, <1>7 DEF c, d

LEMMA WholeStep ==
  ASSUME Basics, Whole, Next
  PROVE  Whole'
<1> USE DEF Basics, Types
<1>1. CASE giveCommand \/ clientStep \/ killed
           \/ \E i \in Connections : errorTimeout(i) \/ brokenPipe(i)
  <2>1. /\ UNCHANGED <<answer, left, inError, out>>
        /\ \A i \in Connections : ~Unwritten(i)' => ~Unwritten(i)
    <3>1. CASE connectAndSend
      BY <3>1 DEF connectAndSend, Unwritten
    <3>2. CASE ~connectAndSend
      BY <1>1, <3>2 DEF giveCommand, clientStep, connectFails, readReply, readTimeout, readEnd,
         readReset, killed, errorTimeout, brokenPipe, ServerDies, serverVars, Unwritten
    <3> QED BY <3>1, <3>2
  <2> QED BY <2>1 DEF Whole
<1>2. ASSUME NEW i \in Connections, deliverRequest(i) \/ deliverReply(i) PROVE Whole'
  <2>1. UNCHANGED serverVars
    BY <1>2 DEF deliverRequest, deliverReply
  <2> QED BY <2>1 DEF serverVars, Whole, Unwritten
<1>3. ASSUME NEW i \in Connections, takeConnection(i) \/ readId(i) \/ finishConnection(i)
      PROVE  Whole'
  <2>1. /\ UNCHANGED <<answer, left, inError, out>>
        /\ \A j \in Connections : ~Unwritten(j)' => ~Unwritten(j)
    BY <1>3 DEF takeConnection, readId, finishConnection, Serve, Unwritten
  <2> QED BY <2>1 DEF Whole
<1>4. ASSUME NEW i \in Connections, readRest(i) \/ idTimeout(i) \/ restTimeout(i)
      PROVE  Whole'
  <2>1. /\ out[i] = <<>> /\ answer[i] = 0
    BY <1>4 DEF readRest, idTimeout, restTimeout, Serve, Quiet, Unwritten
  <2>2. /\ out' = out
        /\ \A j \in Connections \ {i} :
             /\ server'[j] = server[j] /\ answer'[j] = answer[j]
             /\ left'[j] = left[j] /\ inError'[j] = inError[j]
    BY <1>4 DEF readRest, idTimeout, restTimeout, Serve, StartWriting
  <2>3. \/ answer'[i] = 0 /\ left'[i] = ErrPacket /\ inError'[i]
        \/ /\ answer'[i] \in FileSizes \cup {0}
           /\ left'[i] = Reply(answer'[i]) /\ ~inError'[i]
    <3>1. CASE readRest(i)
      BY <3>1 DEF readRest, StartWriting
    <3>2. CASE idTimeout(i)
      BY <2>1, <3>2 DEF idTimeout, StartWriting
    <3>3. CASE restTimeout(i)
      BY <2>1, <3>3, NoFileLines DEF restTimeout, StartWriting
    <3> QED BY <1>4, <3>1, <3>2, <3>3
  <2>4. /\ <<>> \o ErrPacket = ErrPacket
        /\ \A n \in FileSizes \cup {0} : <<>> \o Reply(n) = Reply(n)
    BY PacketsTyped, ConcatEmptySeq
  <2>5. 0 \in 0..Len(Reply(0))
    BY NoFileLines
  <2>6. IF inError'[i]
        THEN \E k \in 0..Len(Reply(answer'[i])) : out'[i] \o left'[i] = CutReply(answer'[i], k)
        ELSE out'[i] \o left'[i] = Reply(answer'[i])
    BY <2>1, <2>2, <2>3, <2>4, <2>5, CutOfNothing
  <2>7. \A j \in Connections \ {i} : Unwritten(j)' <=> Unwritten(j)
    BY <2>2 DEF Unwritten
  <2> QED BY <2>2, <2>6, <2>7 DEF Whole
<1>5. ASSUME NEW i \in Connections, writeTimeout(i) PROVE Whole'
  <2>1. /\ ~inError[i] /\ server[i] = "write"
        /\ left' = [left EXCEPT ![i] = ErrPacket] /\ inError' = [inError EXCEPT ![i] = TRUE]
        /\ UNCHANGED <<server, answer, out>>
    BY <1>5 DEF writeTimeout, Stuck, StartWriting
  <2>2. out[i] \o left[i] = Reply(answer[i])
    BY <2>1 DEF Whole, Unwritten
  <2>3. answer[i] \in Nat /\ out[i] \in Seq(Units) /\ left[i] \in Seq(Units)
    BY PacketsTyped
  <2>4. \E k \in 0..Len(Reply(answer[i])) : out[i] \o ErrPacket = CutReply(answer[i], k)
    BY <2>2, <2>3, CutOfPrefix
  <2> QED BY <2>1, <2>4 DEF Whole, Unwritten
<1>6. ASSUME NEW i \in Connections, write(i) PROVE Whole'
  <2>1. PICK s \in Seq(Units), t \in Seq(Units) :
          /\ out' = [out EXCEPT ![i] = s] /\ left' = [left EXCEPT ![i] = t]
          /\ Len(s) > Len(out[i]) /\ s \o t = out[i] \o left[i]
          /\ \A j \in 1..Len(out[i]) : s[j] = out[i][j]
    BY <1>6, WriteIs
  <2>2. UNCHANGED <<server, answer, inError>> /\ server[i] = "write"
    BY <1>6 DEF write
  <2>3. \A j \in Connections : out'[j] \o left'[j] = out[j] \o left[j]
    BY <2>1
  <2> QED BY <2>2, <2>3 DEF Whole, Unwritten
<1> QED
  BY <1>1, <1>2, <1>3, <1>4, <1>5, <1>6 DEF Next, handleTcpConnection

-----------------------------------------------------------------------------
(* What the client saved it has read as a whole file. *)
ReadWhole(i, m) ==
  /\ \E n \in FileSizes : WholeFile(SubSeq(out[i], 1, m), n)
  /\ saved[i] = FileIn(SubSeq(out[i], 1, m))

SavedWhole ==
  \A i \in Connections : saved[i] # NotSaved => \E m \in 1..Len(out[i]) : ReadWhole(i, m)

LEMMA OutGrows ==
  ASSUME Basics, Next
  PROVE  \A i \in Connections : /\ Len(out'[i]) >= Len(out[i])
                                /\ \A j \in 1..Len(out[i]) : out'[i][j] = out[i][j]
<1> USE DEF Basics
<1>1. \A i \in Connections : Len(out[i]) \in Nat
  BY DEF Types
<1>2. CASE \A i \in Connections : ~write(i)
  <2>1. UNCHANGED out
    BY <1>2
    DEF Next, giveCommand, clientStep, connectAndSend, connectFails, readReply, readTimeout,
        readEnd, readReset, killed, brokenPipe, ServerDies, deliverRequest, deliverReply,
        takeConnection, handleTcpConnection, readId, readRest, idTimeout, restTimeout,
        writeTimeout, errorTimeout, finishConnection, StartWriting, serverVars
  <2> QED BY <1>1, <2>1
<1>3. ASSUME NEW i \in Connections, write(i)
      PROVE  \A j \in Connections : /\ Len(out'[j]) >= Len(out[j])
                                    /\ \A k \in 1..Len(out[j]) : out'[j][k] = out[j][k]
  <2>1. PICK s \in Seq(Units), t \in Seq(Units) :
          /\ out' = [out EXCEPT ![i] = s] /\ left' = [left EXCEPT ![i] = t]
          /\ Len(s) > Len(out[i]) /\ s \o t = out[i] \o left[i]
          /\ \A j \in 1..Len(out[i]) : s[j] = out[i][j]
    BY <1>3, WriteIs
  <2>2. out'[i] = s /\ \A j \in Connections \ {i} : out'[j] = out[j]
    BY <2>1 DEF Types
  <2>3. Len(s) \in Nat
    OBVIOUS
  <2> QED BY <1>1, <2>1, <2>2, <2>3
<1> QED BY <1>2, <1>3

LEMMA SamePiece ==
  ASSUME Basics, Basics', Next, NEW i \in Connections, NEW m \in 1..Len(out[i])
  PROVE  m \in 1..Len(out'[i]) /\ SubSeq(out'[i], 1, m) = SubSeq(out[i], 1, m)
<1> USE DEF Basics
<1>1. /\ Len(out[i]) \in Nat /\ Len(out'[i]) \in Nat /\ Len(out'[i]) >= Len(out[i])
      /\ \A j \in 1..Len(out[i]) : out'[i][j] = out[i][j]
  <2>1. out[i] \in Seq(Units) /\ out'[i] \in Seq(Units)
    BY DEF Types
  <2>2. Len(out[i]) \in Nat /\ Len(out'[i]) \in Nat
    BY <2>1
  <2> QED BY <2>2, OutGrows
<1>2. m \in Nat /\ m <= Len(out[i]) /\ m <= Len(out'[i]) /\ m >= 1
  BY <1>1
<1>3. /\ SubSeq(out[i], 1, m) \in Seq(Units) /\ Len(SubSeq(out[i], 1, m)) = m
      /\ \A j \in 1..m : SubSeq(out[i], 1, m)[j] = out[i][j]
  BY <1>2, FileInTyped
<1>4. (/\ SubSeq(out[i], 1, m) \in Seq(Units) /\ Len(SubSeq(out[i], 1, m)) = m
       /\ \A j \in 1..m : SubSeq(out[i], 1, m)[j] = out[i][j])'
  <2>1. \A s \in Seq(Units), k \in Nat : k <= Len(s) =>
          /\ SubSeq(s, 1, k) \in Seq(Units) /\ Len(SubSeq(s, 1, k)) = k
          /\ \A j \in 1..k : SubSeq(s, 1, k)[j] = s[j]
    BY HeadOf
  <2>2. out'[i] \in Seq(Units)
    BY DEF Types
  <2> QED BY <1>2, <2>1, <2>2
<1>5. \A j \in 1..m : SubSeq(out'[i], 1, m)[j] = SubSeq(out[i], 1, m)[j]
  BY <1>1, <1>2, <1>3, <1>4
<1>6. SubSeq(out'[i], 1, m) = SubSeq(out[i], 1, m)
  BY <1>3, <1>4, <1>5, SeqEqual
<1> QED BY <1>2, <1>6

LEMMA SavedWholeStep ==
  ASSUME Basics, Basics', SavedWhole, Next
  PROVE  SavedWhole'
<1> USE DEF Basics
<1>1. ASSUME NEW i \in Connections, NEW m \in 1..Len(out[i]), ReadWhole(i, m),
             saved'[i] = saved[i]
      PROVE  \E k \in 1..Len(out'[i]) : ReadWhole(i, k)'
  <2>1. m \in 1..Len(out'[i]) /\ SubSeq(out'[i], 1, m) = SubSeq(out[i], 1, m)
    BY SamePiece
  <2> QED BY <1>1, <2>1 DEF ReadWhole
<1>2. CASE UNCHANGED saved
  BY <1>1, <1>2 DEF SavedWhole
<1>3. CASE readReply
  <2>1. PICK i \in Connections : i = command
    BY <1>3, CommandIsConnection DEF readReply
  <2>2. consumed[i] + 1 \in 1..Len(out[i])
    <3>1. consumed[i] \in Nat /\ arrived[i] \in Nat
          /\ out[i] \in Seq(Units)
      BY <2>1 DEF Types
    <3>2. Len(out[i]) \in Nat /\ arrived[i] <= Len(out[i])
      BY <2>1, <3>1 DEF Counted
    <3> QED BY <1>3, <2>1, <3>1, <3>2 DEF readReply
  <2>3. PICK m \in 1..Len(out[i]) : m = consumed[i] + 1
    BY <2>2
  <2> DEFINE got == SubSeq(out[i], 1, m)
  <2>4. \/ UNCHANGED saved
        \/ /\ saved' = [saved EXCEPT ![i] = FileIn(got)]
           /\ Verdict(got) = "file"
    BY <1>3, <2>1, <2>3 DEF readReply
  <2>5. UNCHANGED out
    BY <1>3 DEF readReply, serverVars
  <2> HIDE DEF got
  <2>6. CASE /\ saved' = [saved EXCEPT ![i] = FileIn(got)]
             /\ Verdict(got) = "file"
    <3>1. \E n \in FileSizes : WholeFile(got, n)
      BY <2>6 DEF Verdict
    <3>2. saved'[i] = FileIn(got)
          /\ \A j \in Connections \ {i} : saved'[j] = saved[j]
      BY <2>6 DEF Types
    <3>3. ReadWhole(i, m)'
      BY <2>5, <3>1, <3>2 DEF ReadWhole, got
    <3>4. \A j \in Connections \ {i} :
            saved'[j] # NotSaved => \E k \in 1..Len(out'[j]) : ReadWhole(j, k)'
      BY <1>1, <3>2 DEF SavedWhole
    <3> QED BY <2>5, <3>3, <3>4 DEF SavedWhole
  <2> QED BY <1>2, <2>4, <2>6
<1> QED
  BY <1>2, <1>3
  DEF Next, giveCommand, clientStep, connectAndSend, connectFails, readTimeout,
      readEnd, readReset, GivesUp, killed, brokenPipe, ServerDies, deliverRequest, deliverReply,
      takeConnection, handleTcpConnection, readId, readRest, idTimeout, restTimeout,
      write, writeTimeout, errorTimeout, finishConnection, StartWriting, clientVars

Saves == Basics /\ Whole /\ SavedWhole

LEMMA SavesInit == Init => Saves
<1> SUFFICES ASSUME Init PROVE Saves
  OBVIOUS
<1>1. Basics
  BY BasicsInit
<1>2. Whole /\ SavedWhole
  BY DEF Init, Whole, SavedWhole, Unwritten
<1> QED BY <1>1, <1>2 DEF Saves

LEMMA SavesStep == Saves /\ [Next]_vars => Saves'
<1> SUFFICES ASSUME Saves, [Next]_vars PROVE Saves'
  OBVIOUS
<1>1. Basics /\ Whole /\ SavedWhole /\ Basics'
  BY BasicsStep DEF Saves
<1>2. CASE Next
  BY <1>1, <1>2, WholeStep, SavedWholeStep DEF Saves
<1>3. CASE UNCHANGED vars
  BY <1>1, <1>3 DEF vars, clientVars, serverVars, Saves, Whole, SavedWhole, ReadWhole, Unwritten
<1> QED BY <1>2, <1>3

LEMMA SavesInv == Spec => []Saves
  BY SavesInit, SavesStep, PTL DEF Spec

LEMMA Within ==
  ASSUME NEW p \in Nat, NEW q \in Nat, NEW m \in 1..p
  PROVE  m <= p + q /\ p <= p + q /\ (m = p + q => q = 0) /\ \A j \in 1..m : j \in 1..p
  OBVIOUS

LEMMA SavesMatch == Saves => SavedIsServers
<1> SUFFICES ASSUME Saves, NEW i \in Connections, saved[i] # NotSaved
             PROVE  saved[i] = File(answer[i]) \/ (Len(saved[i]) = answer[i] /\ Spliced(i))
  BY DEF SavedIsServers
<1> DEFINE a == answer[i]
           joined == out[i] \o left[i]
<1>1. Basics /\ Whole /\ SavedWhole /\ Types /\ Counted /\ Quiet
  BY DEF Saves, Basics
<1>2. a \in Nat /\ out[i] \in Seq(Units) /\ left[i] \in Seq(Units)
  BY <1>1, PacketsTyped DEF Types
<1>3. PICK m \in 1..Len(out[i]) : ReadWhole(i, m)
  BY <1>1 DEF SavedWhole
<1> DEFINE got == SubSeq(out[i], 1, m)
<1>4. PICK n \in FileSizes : WholeFile(got, n)
  BY <1>3 DEF ReadWhole
<1>5. saved[i] = FileIn(got)
  BY <1>3 DEF ReadWhole
<1>6. Len(out[i]) \in Nat /\ Len(left[i]) \in Nat /\ m \in Nat /\ m <= Len(out[i]) /\ 1 <= m
  BY <1>2
<1>7. n \in Nat \ {0}
  BY SizesAssumption
<1>8. /\ got \in Seq(Units) /\ Len(got) = m
      /\ \A j \in 1..m : got[j] = out[i][j]
  BY <1>1, <1>6, FileInTyped
<1>9. /\ joined \in Seq(Units) /\ Len(joined) = Len(out[i]) + Len(left[i])
      /\ \A j \in 1..Len(out[i]) : joined[j] = out[i][j]
  BY <1>2, JoinLines
<1>10. ~Unwritten(i)
  <2>1. out[i] # <<>>
    BY <1>6
  <2> QED BY <1>1, <2>1 DEF Quiet
<1>11. IF inError[i] THEN \E k \in 0..Len(Reply(a)) : joined = CutReply(a, k)
       ELSE joined = Reply(a)
  BY <1>1, <1>10 DEF Whole
<1> HIDE DEF got, joined
<1>12. Starts(got, joined)
  <2>1. m <= Len(out[i]) + Len(left[i]) /\ \A j \in 1..m : j \in 1..Len(out[i])
    BY <1>6, Within
  <2>2. Len(got) <= Len(joined)
    BY <1>8, <1>9, <2>1
  <2> QED BY <1>8, <1>9, <2>1, <2>2 DEF Starts
<1>13. CASE Starts(got, Reply(a))
  BY <1>2, <1>4, <1>5, <1>7, <1>8, <1>13, WholeIsFile
<1>14. CASE ~Starts(got, Reply(a))
  <2>1. PICK k \in 0..Len(Reply(a)) : joined = CutReply(a, k)
    BY <1>11, <1>12, <1>14
  <2>2. a # 0 /\ n = a /\ k = a + 1 /\ Len(got) = Len(joined)
    <3>1. Starts(got, CutReply(a, k))
      BY <1>12, <2>1
    <3> HIDE DEF a
    <3> QED BY <1>2, <1>4, <1>7, <1>8, <1>14, <2>1, <3>1, WholeOfCut
  <2>3. Len(left[i]) = 0
    <3>1. m = Len(out[i]) + Len(left[i])
      BY <1>8, <1>9, <2>2
    <3>2. m = Len(out[i]) + Len(left[i]) => Len(left[i]) = 0
      BY <1>6, Within
    <3> QED BY <3>1, <3>2
  <2>4. left[i] = <<>>
    BY <1>2, <2>3
  <2>5. out[i] = CutReply(a, k)
    <3>1. out[i] \o <<>> = out[i]
      BY <1>2, ConcatEmptySeq
    <3> QED BY <2>1, <2>4, <3>1 DEF joined
  <2>6. Len(Reply(a)) - 5 = k
    <3>1. Len(Reply(a)) = a + 6
      BY <1>2, <2>2, ReplyTyped
    <3> QED BY <1>2, <2>2, <3>1
  <2>7. Spliced(i)
    BY <2>5, <2>6 DEF Spliced, CutReply
  <2>8. Len(got) = a + 5
    BY <1>4, <1>7, <1>8, <2>2, WholeRead
  <2>9. Len(FileIn(got)) = a
    <3>1. \A j \in 5..(Len(got) - 1) : got[j] \in Units
      BY <1>8
    <3>2. 5 \in Int /\ Len(got) - 1 \in Int /\ 5 <= Len(got) - 1 /\ (Len(got) - 1) - 5 + 1 = a
      BY <1>2, <2>2, <2>8
    <3> QED BY <3>1, <3>2, SubSeqProperties DEF FileIn
  <2> QED BY <1>5, <2>7, <2>9
<1> QED BY <1>13, <1>14

(* read and saveFile: however the reply was cut up, what the client saved  *)
(* is the file the server sent for this command, whole, but for the one    *)
(* splice that Spliced describes.                                          *)
THEOREM SavedMatchesServer == Spec => []SavedIsServers
  BY SavesInv, SavesMatch, PTL

-----------------------------------------------------------------------------
(* When nothing times out or breaks: a client that waits has not read the  *)
(* end of the reply, and one that has ended has saved what it was sent.    *)
Ended(i) == i < command \/ (i = command /\ client = "idle")

Undisturbed(i) ==
  /\ ClientOpen(i) => consumed[i] < End(answer[i]) /\ saved[i] = NotSaved /\ up
  /\ Ended(i) => /\ out[i] # <<>>
                 /\ saved[i] = IF answer[i] <= LongSize THEN File(answer[i]) ELSE NotSaved

Reads == \A i \in Connections : ~fault[i] => Undisturbed(i)

LEMMA EndBounds ==
  ASSUME NEW a \in FileSizes \cup {0}
  PROVE  End(a) \in Nat /\ 0 < End(a) /\ End(a) <= Len(Reply(a)) /\ Len(Reply(a)) \in Nat
<1>1. a \in Nat
  BY SizesAssumption
<1>2. Len(Reply(a)) = IF a = 0 THEN 3 ELSE a + 6
  BY <1>1, ReplyTyped
<1> QED BY <1>1, <1>2 DEF End

LEMMA NothingConsumed ==
  ASSUME Basics, NEW i \in Connections, out[i] = <<>>
  PROVE  consumed[i] = 0
<1>1. Len(out[i]) = 0
  OBVIOUS
<1> QED BY <1>1 DEF Basics, Types, Counted

(* What the client has read is the beginning of the reply. *)
LEMMA ReadStarts ==
  ASSUME Basics, Whole, NEW i \in Connections, ~fault[i],
         NEW m \in 1..Len(out[i])
  PROVE  /\ SubSeq(out[i], 1, m) \in Seq(Units) /\ Len(SubSeq(out[i], 1, m)) = m
         /\ Starts(SubSeq(out[i], 1, m), Reply(answer[i]))
         /\ Len(out[i]) <= Len(Reply(answer[i]))
<1> DEFINE got == SubSeq(out[i], 1, m)
<1>1. /\ out[i] \in Seq(Units) /\ left[i] \in Seq(Units) /\ answer[i] \in FileSizes \cup {0}
      /\ Len(out[i]) \in Nat /\ Len(left[i]) \in Nat /\ m \in Nat /\ m <= Len(out[i])
  BY DEF Basics, Types
<1>2. got \in Seq(Units) /\ Len(got) = m /\ \A j \in 1..m : got[j] = out[i][j]
  BY <1>1, HeadOf
<1>3. ~Unwritten(i) /\ ~inError[i]
  <2>1. out[i] # <<>>
    BY <1>1
  <2> QED BY <2>1 DEF Basics, Quiet
<1>4. out[i] \o left[i] = Reply(answer[i])
  BY <1>3 DEF Whole
<1>5. /\ Len(Reply(answer[i])) = Len(out[i]) + Len(left[i])
      /\ \A j \in 1..Len(out[i]) : Reply(answer[i])[j] = out[i][j]
  <2>1. /\ Len(out[i] \o left[i]) = Len(out[i]) + Len(left[i])
        /\ \A j \in 1..Len(out[i]) : (out[i] \o left[i])[j] = out[i][j]
    BY <1>1, JoinLines
  <2> QED BY <1>4, <2>1
<1> HIDE DEF got
<1>6. m <= Len(out[i]) + Len(left[i]) /\ \A j \in 1..m : j \in 1..Len(out[i])
  BY <1>1, Within
<1>7. Len(out[i]) <= Len(out[i]) + Len(left[i])
  BY <1>1, Within
<1>8. Starts(got, Reply(answer[i]))
  BY <1>2, <1>5, <1>6 DEF Starts
<1>9. Len(out[i]) <= Len(Reply(answer[i]))
  BY <1>5, <1>7
<1> QED BY <1>2, <1>8, <1>9 DEF got

(* The steps after which the client's socket is as it was. *)
LEMMA OthersUndisturbed ==
  ASSUME Reads, NEW i \in Connections, ~fault[i],
         answer'[i] = answer[i] \/ (out[i] = <<>> /\ consumed[i] = 0 /\ 0 < End(answer'[i])),
         consumed'[i] = consumed[i], saved'[i] = saved[i],
         out[i] # <<>> => out'[i] # <<>>,
         ClientOpen(i)' => ClientOpen(i) /\ up' = up,
         Ended(i)' => Ended(i)
  PROVE  Undisturbed(i)'
  BY DEF Reads, Undisturbed

LEMMA ReadReplyReads ==
  ASSUME Basics, Whole, Reads, readReply
  PROVE  Reads'
<1>1. PICK i \in Connections : i = command
  BY CommandIsConnection DEF Basics, readReply
<1>2. /\ client = "reading" /\ consumed[i] < arrived[i]
      /\ UNCHANGED <<up, command, answer, out, fault>>
      /\ consumed' = [consumed EXCEPT ![i] = @ + 1]
  BY <1>1 DEF readReply, serverVars
<1>3. \A j \in Connections \ {i} : consumed'[j] = consumed[j] /\ saved'[j] = saved[j]
  BY <1>1 DEF readReply
<1>4. ASSUME NEW j \in Connections \ {i}, ~fault[j] PROVE Undisturbed(j)'
  BY <1>1, <1>2, <1>3, <1>4, OthersUndisturbed DEF ClientOpen, Ended
<1>5. ASSUME ~fault[i] PROVE Undisturbed(i)'
  <2>1. consumed[i] < End(answer[i]) /\ saved[i] = NotSaved /\ up
    BY <1>1, <1>2, <1>5 DEF Reads, Undisturbed, ClientOpen
  <2>2. answer[i] \in FileSizes \cup {0} /\ consumed[i] \in Nat
    BY DEF Basics, Types
  <2>3. consumed[i] + 1 \in 1..Len(out[i])
    <3>1. arrived[i] \in Nat /\ out[i] \in Seq(Units) /\ arrived[i] <= Len(out[i])
      BY DEF Basics, Types, Counted
    <3>2. Len(out[i]) \in Nat
      BY <3>1
    <3> QED BY <1>2, <2>2, <3>1, <3>2
  <2>4. PICK m \in 1..Len(out[i]) : m = consumed[i] + 1
    BY <2>3
  <2> DEFINE got == SubSeq(out[i], 1, m)
             a == answer[i]
  <2>5. got \in Seq(Units) /\ Len(got) = m /\ Starts(got, Reply(a))
    BY <1>5, ReadStarts
  <2>6. /\ saved' = IF Verdict(got) = "file" THEN [saved EXCEPT ![i] = FileIn(got)] ELSE saved
        /\ client' = IF Verdict(got) = "more" THEN "reading" ELSE "idle"
    BY <1>1, <2>4 DEF readReply
  <2> HIDE DEF got
  <2>7. End(a) \in Nat
    BY <2>2, EndBounds
  <2>8. consumed'[i] = m /\ out[i] # <<>>
    <3>1. consumed'[i] = consumed[i] + 1
      BY <1>2 DEF Basics, Types
    <3> QED BY <2>3, <2>4, <3>1
  <2>9. CASE m < End(a)
    <3>1. Verdict(got) = "more"
      BY <2>2, <2>5, <2>9, ReadsOn
    <3>2. saved' = saved /\ client' = "reading"
      BY <2>6, <3>1
    <3>3. ~Ended(i)'
      <4>1. i \in Int /\ command' = i /\ client' # "idle"
        BY <1>1, <1>2, <3>2 DEF Connections
      <4> QED BY <4>1 DEF Ended
    <3> QED BY <1>2, <2>1, <2>8, <2>9, <3>2, <3>3 DEF Undisturbed
  <2>10. CASE ~(m < End(a))
    <3>1. m = End(a)
      BY <2>1, <2>2, <2>4, <2>7, <2>10
    <3>2. /\ Verdict(got) # "more"
          /\ Verdict(got) = "file" <=> a # 0 /\ DigitsFit(a)
          /\ Verdict(got) = "file" => FileIn(got) = File(a)
      BY <2>2, <2>5, <3>1, EndRead
    <3>3. client' = "idle"
      BY <2>6, <3>2
    <3>4. saved'[i] = IF Verdict(got) = "file" THEN FileIn(got) ELSE NotSaved
      BY <2>1, <2>6 DEF Basics, Types
    <3>5. saved'[i] = IF a <= LongSize THEN File(a) ELSE NotSaved
      <4>1. CASE a = 0
        <5>1. File(0) = <<>>
          BY FileLines
        <5> QED BY <3>2, <3>4, <4>1, <5>1 DEF NotSaved
      <4>2. CASE a # 0
        BY <3>2, <3>4, <4>2 DEF DigitsFit
      <4> QED BY <4>1, <4>2
    <3> QED BY <1>2, <2>8, <3>3, <3>5 DEF Undisturbed, ClientOpen
  <2> QED BY <2>9, <2>10
<1> QED BY <1>2, <1>4, <1>5 DEF Reads

(* The client does not meet the end of an undisturbed connection. *)
LEMMA NoEarlyEnd ==
  ASSUME Basics, Whole, Reads, readEnd
  PROVE  fault[command]
<1> SUFFICES ASSUME ~fault[command] PROVE FALSE
  OBVIOUS
<1>1. PICK i \in Connections : i = command
  BY CommandIsConnection DEF Basics, readEnd
<1>2. /\ client = "reading" /\ consumed[i] = Len(out[i])
      /\ server[i] = "closed" \/ ~up
  BY <1>1 DEF readEnd
<1>3. consumed[i] < End(answer[i]) /\ up
  BY <1>1, <1>2 DEF Reads, Undisturbed, ClientOpen
<1>4. answer[i] \in FileSizes \cup {0} /\ out[i] \in Seq(Units)
  BY DEF Basics, Types
<1>5. left[i] = <<>> /\ ~inError[i] /\ ~Unwritten(i)
  BY <1>1, <1>2, <1>3 DEF Basics, Quiet, Unwritten
<1>6. out[i] = Reply(answer[i])
  <2>1. out[i] \o <<>> = out[i]
    BY <1>4, ConcatEmptySeq
  <2> QED BY <1>5, <2>1 DEF Whole
<1>7. End(answer[i]) <= Len(Reply(answer[i])) /\ End(answer[i]) \in Nat
      /\ Len(Reply(answer[i])) \in Nat
  BY <1>4, EndBounds
<1>8. consumed[i] = Len(Reply(answer[i]))
  BY <1>2, <1>6
<1> QED BY <1>3, <1>7, <1>8

(* Nor is it reset: the handler has taken the whole request before it      *)
(* answers, and so before it closes the socket.                            *)
AllTaken(i) == server[i] \in {"write", "closed"} => request[i] = 2 /\ taken[i] = 2

NotReset(i) == Fresh(i) \/ ClientOpen(i) => ~reset[i]

Resets == \A i \in Connections : ~fault[i] => AllTaken(i) /\ NotReset(i)

LEMMA ResetsStep ==
  ASSUME Basics, Reads, Resets, Next
  PROVE  Resets'
<1> USE DEF Basics, Types
<1>1. command \in Int /\ Connections \subseteq Int
  BY SpaceAssumption DEF Connections
<1>2. CASE giveCommand \/ connectFails \/ readReply \/ readTimeout \/ readEnd \/ readReset
  <2>1. /\ UNCHANGED <<request, taken, server, reset>>
        /\ \A i \in Connections : fault[i] => fault'[i]
    BY <1>2 DEF giveCommand, connectFails, readReply, readTimeout, readEnd, readReset, Broken,
                serverVars
  <2>2. \A i \in Connections : Fresh(i)' \/ ClientOpen(i)' => Fresh(i) \/ ClientOpen(i)
    BY <1>1, <1>2
    DEF giveCommand, connectFails, readReply, readTimeout, readEnd, readReset, GivesUp, Fresh,
        ClientOpen
  <2> QED BY <2>1, <2>2 DEF Resets, AllTaken, NotReset
<1>3. CASE connectAndSend
  <2>1. /\ UNCHANGED <<command, request, taken, reset, fault>>
        /\ \A i \in Connections :
             server'[i] = server[i] \/ server'[i] = "queued"
    BY <1>3 DEF connectAndSend
  <2>2. \A i \in Connections : Fresh(i)' \/ ClientOpen(i)' => Fresh(i) \/ ClientOpen(i)
    BY <1>1, <1>3 DEF connectAndSend, Fresh, ClientOpen
  <2> QED BY <2>1, <2>2 DEF Resets, AllTaken, NotReset
<1>4. CASE killed \/ \E i \in Connections : errorTimeout(i) \/ brokenPipe(i)
  <2>1. /\ UNCHANGED <<clientVars, request, taken, server>> /\ EveryoneLoses
    BY <1>4 DEF killed, errorTimeout, brokenPipe, ServerDies, serverVars
  <2>2. ASSUME NEW i \in Connections, ~fault'[i] PROVE AllTaken(i)' /\ NotReset(i)'
    <3>1. ~fault[i] /\ ~(i >= command)
      BY <2>1, <2>2 DEF EveryoneLoses
    <3>2. ~Fresh(i)' /\ ~ClientOpen(i)'
      BY <1>1, <2>1, <3>1 DEF clientVars, Fresh, ClientOpen
    <3> QED BY <2>1, <3>1, <3>2 DEF Resets, AllTaken, NotReset
  <2> QED BY <2>2 DEF Resets
<1>5. ASSUME NEW j \in Connections, deliverRequest(j) PROVE Resets'
  <2>1. /\ UNCHANGED <<up, clientVars, taken, server, fault>>
        /\ server[j] # "none" /\ request[j] # 2
        /\ \A i \in Connections \ {j} : request'[i] = request[i] /\ reset'[i] = reset[i]
        /\ reset'[j] = (reset[j] \/ server[j] = "closed" \/ ~up)
    BY <1>5 DEF deliverRequest, serverVars
  <2>2. ASSUME ~fault[j] PROVE AllTaken(j)' /\ NotReset(j)'
    <3>1. server[j] \notin {"write", "closed"}
      BY <2>1, <2>2 DEF Resets, AllTaken
    <3>2. ~Fresh(j)
      BY <2>1 DEF Asked
    <3>3. ClientOpen(j) => up /\ ~reset[j]
      BY <2>2 DEF Reads, Undisturbed, Resets, NotReset
    <3>4. ClientOpen(j)' => ~reset'[j]
      BY <2>1, <3>1, <3>3 DEF clientVars, ClientOpen
    <3> QED BY <2>1, <3>1, <3>2, <3>4 DEF clientVars, AllTaken, NotReset, Fresh
  <2> QED BY <2>1, <2>2 DEF clientVars, Resets, AllTaken, NotReset, Fresh, ClientOpen
<1>6. ASSUME NEW j \in Connections, deliverReply(j) \/ write(j) PROVE Resets'
  BY <1>6
  DEF deliverReply, write, clientVars, serverVars, Resets, AllTaken, NotReset, Fresh, ClientOpen
<1>7. ASSUME NEW j \in Connections, takeConnection(j) \/ readId(j) \/ readRest(j)
      PROVE  Resets'
  <2>1. /\ UNCHANGED <<clientVars, request, reset, fault>>
        /\ \A i \in Connections \ {j} : server'[i] = server[i] /\ taken'[i] = taken[i]
        /\ server'[j] = "write" => request[j] = 2 /\ taken'[j] = 2
        /\ server'[j] # "closed"
    BY <1>7 DEF takeConnection, readId, readRest, Serve, StartWriting
  <2> QED BY <2>1 DEF clientVars, Resets, AllTaken, NotReset, Fresh, ClientOpen
<1>8. ASSUME NEW j \in Connections, idTimeout(j) \/ restTimeout(j) \/ writeTimeout(j)
      PROVE  Resets'
  <2>1. /\ UNCHANGED <<clientVars, request, taken, reset>>
        /\ fault'[j] /\ \A i \in Connections : fault[i] => fault'[i]
        /\ \A i \in Connections \ {j} : server'[i] = server[i]
    BY <1>8 DEF idTimeout, restTimeout, writeTimeout, Serve, StartWriting, Broken
  <2> QED BY <2>1 DEF clientVars, Resets, AllTaken, NotReset, Fresh, ClientOpen
<1>9. ASSUME NEW j \in Connections, finishConnection(j) PROVE Resets'
  <2>1. /\ UNCHANGED <<clientVars, request, taken, fault>> /\ server[j] = "write"
        /\ \A i \in Connections \ {j} : server'[i] = server[i] /\ reset'[i] = reset[i]
        /\ reset'[j] = (reset[j] \/ Unread(j))
    BY <1>9 DEF finishConnection, Serve
  <2>2. ~fault[j] => request[j] = 2 /\ taken[j] = 2 /\ ~Unread(j)
    BY <2>1 DEF Resets, AllTaken, Unread
  <2> QED BY <2>1, <2>2 DEF clientVars, Resets, AllTaken, NotReset, Fresh, ClientOpen
<1> QED
  BY <1>2, <1>3, <1>4, <1>5, <1>6, <1>7, <1>8, <1>9 DEF Next, clientStep, handleTcpConnection

LEMMA ReadsStep ==
  ASSUME Basics, Whole, Reads, Resets, Next
  PROVE  Reads'
<1>1. command \in Int /\ Connections \subseteq Int
  BY SpaceAssumption DEF Basics, Types, Connections
<1>2. CASE giveCommand
  <2>1. /\ UNCHANGED <<up, answer, out, consumed, saved, fault>>
        /\ client = "idle" /\ client' = "connecting" /\ command' = command + 1
    BY <1>2 DEF giveCommand, serverVars
  <2>2. \A i \in Connections : /\ Ended(i)' => Ended(i)
                               /\ ~ClientOpen(i)'
    BY <1>1, <2>1 DEF Ended, ClientOpen
  <2> QED BY <2>1, <2>2, OthersUndisturbed DEF Reads
<1>3. CASE connectAndSend
  <2>1. /\ UNCHANGED <<up, command, answer, out, consumed, saved, fault>>
        /\ up /\ client = "connecting" /\ client' = "reading" /\ command \in Connections
    BY <1>3, CommandIsConnection DEF connectAndSend, Basics
  <2>2. server[command] = "none" /\ saved[command] = NotSaved
    BY <2>1 DEF Basics, Asked, Fresh
  <2>3. out[command] = <<>>
    BY <2>1, <2>2 DEF Basics, Quiet, Unwritten
  <2>4. answer[command] \in FileSizes \cup {0} /\ consumed[command] = 0
    BY <2>1, <2>3, NothingConsumed DEF Basics, Types
  <2>5. Undisturbed(command)'
    BY <1>1, <2>1, <2>2, <2>4, EndBounds DEF Undisturbed, Ended, ClientOpen
  <2>6. ASSUME NEW i \in Connections, i # command, ~fault[i] PROVE Undisturbed(i)'
    BY <2>1, <2>6, OthersUndisturbed DEF Ended, ClientOpen
  <2> QED BY <2>1, <2>5, <2>6 DEF Reads
<1>4. CASE connectFails \/ readTimeout \/ readReset \/ readEnd
  <2>1. /\ UNCHANGED <<up, command, answer, out, consumed, saved>>
        /\ client # "idle" /\ client' = "idle"
        /\ \A i \in Connections : fault[i] => fault'[i]
    BY <1>4 DEF connectFails, readTimeout, readReset, readEnd, GivesUp, Broken, serverVars,
            Basics, Types
  <2>2. fault'[command]
    <3>1. CASE readEnd
      <4>1. fault[command]
        BY <3>1, NoEarlyEnd
      <4> QED BY <3>1, <4>1 DEF readEnd
    <3>2. CASE connectFails \/ readTimeout
      <4>1. command \in Connections
        BY <2>1, CommandIsConnection DEF Basics
      <4> QED BY <3>2, <4>1 DEF connectFails, readTimeout, Broken, Basics, Types
    <3>3. CASE readReset
      <4>1. command \in Connections /\ ClientOpen(command) /\ reset[command]
        BY <2>1, <3>3, CommandIsConnection DEF readReset, ClientOpen, Basics
      <4>2. fault[command]
        BY <4>1 DEF Resets, NotReset
      <4> QED BY <3>3, <4>2 DEF readReset
    <3> QED BY <1>4, <3>1, <3>2, <3>3
  <2>3. ASSUME NEW i \in Connections, ~fault'[i] PROVE Undisturbed(i)'
    <3>1. i # command /\ ~fault[i]
      BY <2>1, <2>2, <2>3
    <3> QED BY <2>1, <3>1, OthersUndisturbed DEF Ended, ClientOpen
  <2> QED BY <2>3 DEF Reads
<1>5. CASE readReply
  BY <1>5, ReadReplyReads
<1>6. CASE killed \/ \E i \in Connections : errorTimeout(i) \/ brokenPipe(i)
  <2>1. UNCHANGED <<clientVars, answer, out>> /\ EveryoneLoses
    BY <1>6 DEF killed, errorTimeout, brokenPipe, ServerDies, serverVars
  <2>2. ASSUME NEW i \in Connections, ~fault'[i] PROVE Undisturbed(i)'
    <3>1. i < command /\ ~fault[i]
      <4>1. ~(fault[i] \/ i >= command)
        BY <2>1, <2>2 DEF EveryoneLoses
      <4>2. i \in Int
        BY <1>1
      <4> QED BY <1>1, <4>1, <4>2
    <3>2. i # command
      BY <1>1, <3>1
    <3> QED BY <2>1, <3>1, <3>2, OthersUndisturbed DEF clientVars, Ended, ClientOpen
  <2> QED BY <2>2 DEF Reads
<1>7. ASSUME NEW j \in Connections,
             \/ deliverRequest(j) \/ deliverReply(j)
             \/ takeConnection(j) \/ readId(j) \/ finishConnection(j)
      PROVE  Reads'
  <2>1. UNCHANGED <<up, clientVars, answer, out, fault>>
    BY <1>7 DEF deliverRequest, deliverReply, takeConnection, readId, finishConnection, serverVars
  <2> QED BY <2>1 DEF clientVars, Reads, Undisturbed, ClientOpen, Ended
<1>8. ASSUME NEW j \in Connections,
             readRest(j) \/ idTimeout(j) \/ restTimeout(j) \/ writeTimeout(j)
      PROVE  Reads'
  <2>1. /\ UNCHANGED <<up, clientVars, out>>
        /\ \A i \in Connections : fault[i] => fault'[i]
        /\ \A i \in Connections \ {j} : answer'[i] = answer[i]
    BY <1>8 DEF readRest, idTimeout, restTimeout, writeTimeout, StartWriting, Broken,
                Basics, Types
  <2>2. ASSUME NEW i \in Connections, ~fault'[i] PROVE Undisturbed(i)'
    <3>1. CASE i # j
      BY <2>1, <2>2, <3>1, OthersUndisturbed DEF clientVars, Ended, ClientOpen
    <3>2. CASE i = j
      <4>1. readRest(i)
        BY <1>8, <2>2, <3>2
        DEF idTimeout, restTimeout, writeTimeout, Broken, Basics, Types
      <4>2. out[i] = <<>> /\ consumed[i] = 0
        BY <4>1, NothingConsumed DEF readRest, Serve, Basics, Quiet, Unwritten
      <4>3. answer'[i] \in FileSizes \cup {0}
        BY <4>1 DEF readRest, Basics, Types
      <4>4. 0 < End(answer'[i])
        BY <4>3, EndBounds
      <4> QED BY <2>1, <2>2, <4>2, <4>4, OthersUndisturbed DEF clientVars, Ended, ClientOpen
    <3> QED BY <3>1, <3>2
  <2> QED BY <2>2 DEF Reads
<1>9. ASSUME NEW j \in Connections, write(j) PROVE Reads'
  <2>1. UNCHANGED <<up, clientVars, answer, fault>>
    BY <1>9 DEF write
  <2>2. \A i \in Connections : out[i] # <<>> => out'[i] # <<>>
    <3> SUFFICES ASSUME NEW i \in Connections, out[i] # <<>> PROVE out'[i] # <<>>
      OBVIOUS
    <3>1. Len(out[i]) \in Nat /\ Len(out[i]) > 0
      BY DEF Basics, Types
    <3>2. Len(out'[i]) >= Len(out[i])
      BY OutGrows
    <3> QED BY <3>1, <3>2
  <2>3. ASSUME NEW i \in Connections, ~fault[i] PROVE Undisturbed(i)'
    BY <2>1, <2>2, <2>3, OthersUndisturbed DEF clientVars, Ended, ClientOpen, Reads, Undisturbed
  <2> QED BY <2>1, <2>3 DEF Reads
<1> QED
  BY <1>2, <1>3, <1>4, <1>5, <1>6, <1>7, <1>8, <1>9
  DEF Next, clientStep, handleTcpConnection

Undoubted == Saves /\ Reads /\ Resets

LEMMA UndoubtedInit == Init => Undoubted
<1> SUFFICES ASSUME Init PROVE Undoubted
  OBVIOUS
<1>1. Saves
  BY SavesInit
<1>2. Reads
  BY DEF Init, Reads, Undisturbed, ClientOpen, Ended, Connections
<1>3. Resets
  BY DEF Init, Resets, AllTaken, NotReset
<1> QED BY <1>1, <1>2, <1>3 DEF Undoubted

LEMMA UndoubtedStep == Undoubted /\ [Next]_vars => Undoubted'
<1> SUFFICES ASSUME Undoubted, [Next]_vars PROVE Undoubted'
  OBVIOUS
<1>1. Basics /\ Whole /\ Reads /\ Resets /\ Saves'
  BY SavesStep DEF Undoubted, Saves
<1>2. CASE Next
  BY <1>1, <1>2, ReadsStep, ResetsStep DEF Undoubted
<1>3. CASE UNCHANGED vars
  BY <1>1, <1>3
  DEF vars, clientVars, serverVars, Undoubted, Reads, Undisturbed, ClientOpen, Ended, Resets,
      AllTaken, NotReset, Fresh
<1> QED BY <1>2, <1>3

(* send and read agree on the packet: what is sent over a connection that  *)
(* nothing disturbs is saved.                                              *)
THEOREM UndisturbedIsDelivered == Spec => []Delivered
<1>1. Undoubted => Delivered
  BY DEF Undoubted, Reads, Undisturbed, Delivered, Ended
<1> QED BY <1>1, UndoubtedInit, UndoubtedStep, PTL DEF Spec

-----------------------------------------------------------------------------
(* getLastGame: however many attempts a game has (a crash can let it have  *)
(* one too many, see GameFiles), and with every number as wide as a 64-bit *)
(* one gets, the client can read the size of the file.                     *)
THEOREM LastGameReadable ==
  ASSUME NEW atts \in 0..(GUESSES_MAX + 1), NEW finished \in BOOLEAN, NEW w \in 0..20
  PROVE  Readable(LastGameSize(atts, finished, w))
<1>1. TrialLine(w) \in Nat /\ TrialLine(w) <= 57
  BY DEF TrialLine, SECRET_KEY_LEN
<1>2. atts * TrialLine(w) <= 513
  <2>1. \A a \in 0..9, l \in 0..57 : a * l <= 513
    BY SMTT(30)
  <2> QED BY <1>1, <2>1 DEF GUESSES_MAX
<1>3. atts * TrialLine(w) \in Int
  BY <1>1 DEF GUESSES_MAX
<1>4. PlayerLine + StatusLine = 67 /\ TransactionsLine(atts) = 36
  BY DEF PlayerLine, StatusLine, TransactionsLine, PLID_LEN, LongestMode, SECRET_KEY_LEN
<1>5. InitiatedLine(w) \in Int /\ InitiatedLine(w) <= 79
  BY DEF InitiatedLine, DateTime
<1>6. /\ RemainingLine(w) \in Int /\ RemainingLine(w) <= 88
      /\ TerminatedLines(w) \in Int /\ TerminatedLines(w) <= 88
  BY DEF RemainingLine, TerminatedLines, LongestEnding, DateTime
<1>7. PlayerLine + StatusLine + InitiatedLine(w) \in Int
  BY <1>5 DEF PlayerLine, StatusLine, PLID_LEN, LongestMode, SECRET_KEY_LEN
<1> HIDE DEF PlayerLine, StatusLine
<1> QED BY <1>2, <1>3, <1>4, <1>5, <1>6, <1>7 DEF LastGameSize, Readable

(* getScoreboard: a full board is readable too, with scores and trials of  *)
(* up to eleven characters: a row of uninitialised fields (see Scoreboard) *)
(* shows any int, with its sign, and any unsigned int.                     *)
THEOREM ScoreboardReadable ==
  ASSUME NEW rows \in 0..SCOREBOARD_MAX_ENTRIES, NEW w \in 0..11
  PROVE  Readable(ScoreboardSize(rows, w))
<1>1. BoardRow(w) \in 0..75 /\ BoardHead = 122
  BY DEF BoardRow, BoardHead, PLID_LEN, SECRET_KEY_LEN, LongestMode
<1>2. \A r \in 0..10, l \in 0..75 : r * l \in Int /\ r * l <= 750
  BY SMTT(30)
<1>3. rows * BoardRow(w) \in Int /\ rows * BoardRow(w) <= 750
  BY <1>1, <1>2 DEF SCOREBOARD_MAX_ENTRIES
<1> QED BY <1>1, <1>3 DEF ScoreboardSize, Readable
=============================================================================
