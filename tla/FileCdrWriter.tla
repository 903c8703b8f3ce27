--------------------------- MODULE FileCdrWriter ---------------------------
(***************************************************************************)
(* FileCdrWriter: the CDR backend that appends lines to a text file, used  *)
(* when no database can be opened.                                         *)
(*                                                                         *)
(* The file is a sequence of pieces: lines, and beginnings of lines that   *)
(* were cut off.  A piece is the life of the process that wrote it and     *)
(* either the number of a record in that life or one of the marks below;   *)
(* what a record says is in `written'.  A stream position is the index of  *)
(* a piece.  Lines stay in the ofstream's buffer until it runs full, or is *)
(* flushed by getRecentRecords or by the destructor.                       *)
(***************************************************************************)
EXTENDS Integers, Sequences, FiniteSets

CONSTANTS
    Imsi,
    READ_CDR_LIMIT,
    MaxLives            \* bound: starts of the process on the same file

ASSUME FileAssumption == READ_CDR_LIMIT \in Nat /\ MaxLives \in Nat

VARIABLES
    m_writeFile,        \* "none" (no object), "closed" (not opened), "good" or "bad" (badbit)
    m_readFile,         \* it is open
    file,               \* what the operating system has
    buffer,             \* lines that m_writeFile still holds
    m_index,            \* m_index[n]: stream position of the n-th record
    m_recordCount,
    life,               \* starts so far
    written             \* written[l]: records handed to writeAction in life l

fileVars == <<m_writeFile, m_readFile, file, buffer, m_index, m_recordCount, life, written>>

Record == [imsi : Imsi, action : {"CREATED", "DELETED", "REJECTED"}]

Opening == 0            \* "CDR started" and the names of the columns
Ended == -1             \* "CDR ended"
Cut == -2               \* the beginning of a piece
Piece(l, n) == [life |-> l, line |-> n]
Blank == Piece(0, Cut)  \* what getline finds behind the end of the file
NoPosition == -1        \* tellp of a stream whose badbit is set

FileInit ==
    /\ m_writeFile = "none" /\ m_readFile = FALSE
    /\ file = << >> /\ buffer = << >>
    /\ m_index = << >> /\ m_recordCount = 0
    /\ life = 0
    /\ written = [l \in 1..MaxLives |-> << >>]

----------------------------------------------------------------------------
\* `lines' go to the disk: all of them, or, when it is full, the first few and perhaps a
\* part of the next one.
HandOver(lines, all) ==
    \/ all /\ file' = file \o lines
    \/ /\ ~all
       /\ \E n \in 0..(Len(lines) - 1), part \in BOOLEAN :
             file' = file \o SubSeq(lines, 1, n)
                          \o (IF part THEN << Piece(lines[n + 1].life, Cut) >> ELSE << >>)

\* The constructor: either file may fail to open, and the head is written and flushed
\* only when both are open.
Construct ==
    /\ m_writeFile = "none" /\ life < MaxLives
    /\ life' = life + 1
    /\ m_index' = << >> /\ m_recordCount' = 0
    /\ \/ m_writeFile' = "closed" /\ m_readFile' = FALSE /\ UNCHANGED file
       \/ m_writeFile' = "good" /\ m_readFile' = FALSE /\ UNCHANGED file
       \/ /\ m_writeFile' \in {"good", "bad"} /\ m_readFile' = TRUE
          /\ HandOver(<< Piece(life', Opening) >>, m_writeFile' = "good")
    /\ UNCHANGED <<buffer, written>>

\* Mutant: the position is that of the record in this life, without what precedes it.
tellpRelative == IF m_writeFile = "bad" THEN NoPosition ELSE m_recordCount + 1

\* Where the next byte goes: behind the file and what the buffer holds.
tellp == IF m_writeFile = "bad" THEN NoPosition ELSE Len(file) + Len(buffer) + 1

\* One line to the stream.  When the buffer runs full on the way, everything in it goes to
\* the file, with none, a part or all of the new line.
PutLine(line) ==
    \/ /\ buffer' = Append(buffer, line)
       /\ UNCHANGED <<m_writeFile, file>>
    \/ /\ HandOver(buffer, TRUE)
       /\ buffer' = << line >>
       /\ UNCHANGED m_writeFile
    \/ /\ m_writeFile' \in {"good", "bad"}
       /\ HandOver(Append(buffer, line), m_writeFile' = "good")
       /\ buffer' = << >>

\* Mutant: a record whose position is not known is counted and not indexed.
writeActionUnindexed(r) ==
    /\ m_writeFile # "none"
    /\ written' = [written EXCEPT ![life] = Append(@, r)]
    /\ \/ /\ m_writeFile = "closed"
          /\ UNCHANGED <<m_writeFile, file, buffer, m_index, m_recordCount>>
       \/ /\ m_writeFile = "good" /\ PutLine(Piece(life, m_recordCount + 1))
          /\ m_index' = Append(m_index, tellp) /\ m_recordCount' = m_recordCount + 1
       \/ /\ m_writeFile = "bad" /\ UNCHANGED <<m_writeFile, file, buffer, m_index>>
          /\ m_recordCount' = m_recordCount + 1
    /\ UNCHANGED <<m_readFile, life>>

\* A stream whose badbit is set takes nothing more, but the record is counted.
writeAction(r) ==
    /\ m_writeFile # "none"
    /\ written' = [written EXCEPT ![life] = Append(@, r)]
    /\ \/ /\ m_writeFile = "closed"
          /\ UNCHANGED <<m_writeFile, file, buffer, m_index, m_recordCount>>
       \/ /\ m_writeFile = "good" /\ PutLine(Piece(life, m_recordCount + 1))
          /\ m_index' = Append(m_index, tellp) /\ m_recordCount' = m_recordCount + 1
       \/ /\ m_writeFile = "bad" /\ UNCHANGED <<m_writeFile, file, buffer>>
          /\ m_index' = Append(m_index, tellp) /\ m_recordCount' = m_recordCount + 1
    /\ UNCHANGED <<m_readFile, life>>

\* Mutant: what has been handed over stays in the buffer.
FlushKeeps ==
    \/ /\ m_writeFile = "good" /\ m_writeFile' \in {"good", "bad"}
       /\ HandOver(buffer, m_writeFile' = "good")
       /\ UNCHANGED buffer
    \/ m_writeFile # "good" /\ UNCHANGED <<m_writeFile, file, buffer>>

\* Mutant: the error of a full disk is cleared and writing goes on.
FlushClears ==
    \/ /\ m_writeFile = "good" /\ UNCHANGED m_writeFile
       /\ \E all \in BOOLEAN : HandOver(buffer, all)
       /\ buffer' = << >>
    \/ m_writeFile # "good" /\ UNCHANGED <<m_writeFile, file, buffer>>

Flush ==
    \/ /\ m_writeFile = "good" /\ m_writeFile' \in {"good", "bad"}
       /\ HandOver(buffer, m_writeFile' = "good")
       /\ buffer' = << >>
    \/ m_writeFile # "good" /\ UNCHANGED <<m_writeFile, file, buffer>>

\* clear, seekg, getline.
LineAt(position) == IF position \in 1..Len(file) THEN file[position] ELSE Blank

\* How many records an answer has.
Limit(limit) ==
    LET capped == IF limit < READ_CDR_LIMIT THEN limit ELSE READ_CDR_LIMIT
    IN  IF capped < m_recordCount THEN capped ELSE m_recordCount

\* What the loop of getRecentRecords collects, after the flush.
RecentRecords(limit) ==
    IF m_readFile
    THEN [k \in 1..Limit(limit) |-> LineAt(m_index[m_recordCount - Limit(limit) + k])]
    ELSE << >>

\* The answer is RecentRecords(limit)'; what it changes is the flush.
getRecentRecords ==
    /\ m_writeFile # "none"
    /\ Flush
    /\ UNCHANGED <<m_readFile, m_index, m_recordCount, life, written>>

\* The object is gone, and with it the buffer and the index.
Gone ==
    /\ m_writeFile' = "none" /\ m_readFile' = FALSE
    /\ buffer' = << >>
    /\ m_index' = << >> /\ m_recordCount' = 0
    /\ UNCHANGED <<life, written>>

\* The destructor; close() empties the buffer.
Destroy ==
    /\ m_writeFile # "none"
    /\ IF m_writeFile = "good"
       THEN \E all \in BOOLEAN : HandOver(Append(buffer, Piece(life, Ended)), all)
       ELSE UNCHANGED file
    /\ Gone

\* The process dies: what the buffer held is lost, but when it ran full in the middle of
\* the line it holds first, the beginning of that line is in the file.
Crash ==
    /\ m_writeFile # "none"
    /\ file' \in {file} \union (IF buffer = << >> THEN {} ELSE {Append(file, Piece(life, Cut))})
    /\ Gone

----------------------------------------------------------------------------
(* The class on its own.                                                   *)

FileNext ==
    \/ Construct \/ Destroy \/ Crash \/ getRecentRecords
    \/ \E r \in Record : writeAction(r)

FileSpec == FileInit /\ [][FileNext]_fileVars

----------------------------------------------------------------------------
(* Properties.                                                             *)

\* Every variable has its type.
FileTypeOK ==
    /\ m_writeFile \in {"none", "closed", "good", "bad"}
    /\ m_readFile \in BOOLEAN
    /\ life \in 0..MaxLives
    /\ file \in Seq([life : 1..MaxLives, line : Int])
    /\ buffer \in Seq([life : 1..MaxLives, line : Int])
    /\ m_index \in Seq(Nat \union {NoPosition})
    /\ m_recordCount = Len(m_index)
    /\ written \in [1..MaxLives -> Seq(Record)]

\* GET_CDR shows the last records of this life, in order, as many as asked for and allowed:
\* positions taken before the text reached the file, in a file that earlier lives have
\* written to and left with a cut line, lead to the right lines.  Only a full disk leaves
\* gaps, and then a record is blank or cut, never another one.
RecentRecordsRight ==
    m_writeFile \in {"good", "bad"} /\ m_readFile /\ buffer = << >> =>
        \A limit \in 0..(READ_CDR_LIMIT + 1) :
            LET answer == RecentRecords(limit)
                n == Len(answer)
            IN  /\ n <= READ_CDR_LIMIT
                /\ n \in {limit, READ_CDR_LIMIT, Len(written[life])}
                /\ \A k \in 1..n :
                      \/ answer[k] = Piece(life, Len(written[life]) - n + k)
                      \/ m_writeFile = "bad" /\ answer[k] \in {Blank, Piece(life, Cut)}

\* Where the records of life l stand in the file, and their numbers in that order.
Lines(l) == {p \in DOMAIN file : file[p].life = l /\ file[p].line > 0}
Stored(l) ==
    [k \in 1..Cardinality(Lines(l)) |->
        file[CHOOSE p \in Lines(l) : Cardinality(Lines(l) \intersect 1..p) = k].line]

\* Each life of the file backend keeps the safety part of a CDR ledger: records are stored
\* once, in order, never changed or taken back.  (Not its liveness: nothing flushes the
\* buffer until it is full, GET_CDR is asked, or the process ends.)
Life(l) == INSTANCE CdrLedger WITH accepted <- Len(written[l]), ledger <- Stored(l)
EachLifeIsALedger ==
    /\ \A l \in 1..MaxLives : Life(l)!Init
    /\ [][\A l \in 1..MaxLives : Life(l)!Next \/ UNCHANGED Life(l)!vars]_fileVars
=============================================================================
