------------------------ MODULE FileCdrWriter_proofs ------------------------
(***************************************************************************)
(* Proofs about the file backend.                                          *)
(***************************************************************************)
EXTENDS FileCdrWriter, SequenceTheorems, FiniteSetTheorems, TLAPS

Pieces == [life : 1..MaxLives, line : Int]

\* The stream as it will be when the buffer is written out.
Stream == file \o buffer

\* A good stream has every record of this life at its position.
GoodIndex ==
    m_writeFile = "good" =>
        \A n \in 1..Len(m_index) :
            m_index[n] \in 1..Len(Stream) /\ Stream[m_index[n]] = Piece(life, n)

\* A bad one has it there, or cut off, or nothing.
BadIndex ==
    m_writeFile = "bad" =>
        /\ buffer = << >>
        /\ \A n \in 1..Len(m_index) :
              m_index[n] \in 1..Len(file) => file[m_index[n]] \in {Piece(life, n), Piece(life, Cut)}

\* The index counts what this life has written, once the file is open.
Counted ==
    /\ m_writeFile \in {"none", "closed"} => buffer = << >> /\ m_index = << >>
    /\ m_writeFile # "none" => life \in 1..MaxLives
    /\ m_writeFile \in {"good", "bad"} => Len(m_index) = Len(written[life])
    /\ \A l \in 1..MaxLives : l > life => written[l] = << >>

FileInv == FileTypeOK /\ GoodIndex /\ BadIndex /\ Counted

----------------------------------------------------------------------------
(* Writing.                                                                *)

\* What a write leaves in the file is a beginning of what it was given, of which the last
\* piece may be cut.
LEMMA HandOverResult ==
    ASSUME file \in Seq(Pieces), NEW lines \in Seq(Pieces), NEW all \in BOOLEAN, HandOver(lines, all)
    PROVE  /\ file' \in Seq(Pieces)
           /\ all => file' = file \o lines
           /\ Len(file') <= Len(file) + Len(lines)
           /\ \A p \in 1..Len(file') :
                 file'[p] \in {(file \o lines)[p], Piece((file \o lines)[p].life, Cut)}
  <1>2. ASSUME NEW n \in 0..(Len(lines) - 1), ~all, file' = file \o SubSeq(lines, 1, n)
        PROVE  /\ file' \in Seq(Pieces) /\ Len(file') = Len(file) + n
               /\ \A p \in 1..Len(file') : file'[p] = (file \o lines)[p]
    BY <1>2
  <1>3. ASSUME NEW n \in 0..(Len(lines) - 1), ~all,
               file' = file \o SubSeq(lines, 1, n) \o << Piece(lines[n + 1].life, Cut) >>
        PROVE  /\ file' \in Seq(Pieces) /\ Len(file') = Len(file) + n + 1
               /\ \A p \in 1..Len(file') :
                     file'[p] \in {(file \o lines)[p], Piece((file \o lines)[p].life, Cut)}
    <2>1. lines[n + 1] \in Pieces /\ Piece(lines[n + 1].life, Cut) \in Pieces
      <3>1. n + 1 \in 1..Len(lines)
        OBVIOUS
      <3>2. lines[n + 1] \in Pieces
        BY <3>1, ElementOfSeq
      <3> QED
        BY <3>2 DEF Pieces, Piece, Cut
    <2> DEFINE part == SubSeq(lines, 1, n)
               cut == Piece(lines[n + 1].life, Cut)
    <2>2. part \in Seq(Pieces) /\ Len(part) = n /\ \A p \in 1..n : part[p] = lines[p]
      OBVIOUS
    <2> HIDE DEF part, cut
    <2>3. /\ file \o part \in Seq(Pieces) /\ Len(file \o part) = Len(file) + n
          /\ << cut >> \in Seq(Pieces) /\ Len(<< cut >>) = 1 /\ << cut >>[1] = cut
      BY <2>1, <2>2 DEF cut
    <2>4. file' = (file \o part) \o << cut >>
      BY <1>3 DEF part, cut
    <2>6. /\ file' \in Seq(Pieces) /\ Len(file') = Len(file) + n + 1
          /\ \A p \in 1..(Len(file) + n + 1) :
                file'[p] = IF p <= Len(file) + n THEN (file \o part)[p] ELSE << cut >>[p - (Len(file) + n)]
      BY <2>3, <2>4, ConcatProperties
    <2>5. ASSUME NEW p \in 1..Len(file')
          PROVE  file'[p] \in {(file \o lines)[p], Piece((file \o lines)[p].life, Cut)}
      <3>1. CASE p <= Len(file) + n
        <4>1. file'[p] = (file \o part)[p]
          BY <2>6, <3>1
        <4>2. (file \o part)[p] = (file \o lines)[p]
          BY <2>2, <3>1
        <4> QED
          BY <4>1, <4>2
      <3>2. CASE p = Len(file) + n + 1
        <4>1. file'[p] = cut
          <5>1. Len(file) \in Nat /\ p - (Len(file) + n) = 1 /\ ~(p <= Len(file) + n)
            BY <3>2
          <5>2. file'[p] = << cut >>[p - (Len(file) + n)]
            BY <2>6, <3>2, <5>1
          <5> QED
            BY <2>3, <5>1, <5>2
        <4>2. (file \o lines)[p] = lines[n + 1]
          BY <3>2
        <4> QED
          BY <4>1, <4>2 DEF cut
      <3> QED
        BY <2>6, <3>1, <3>2
    <2> QED
      BY <2>5, <2>6
  <1>4. ASSUME ~all, file' # file \o lines
        PROVE  \E n \in 0..(Len(lines) - 1) :
                  \/ file' = file \o SubSeq(lines, 1, n)
                  \/ file' = file \o SubSeq(lines, 1, n) \o << Piece(lines[n + 1].life, Cut) >>
    <2>1. PICK n \in 0..(Len(lines) - 1), part \in BOOLEAN :
             file' = file \o SubSeq(lines, 1, n)
                          \o (IF part THEN << Piece(lines[n + 1].life, Cut) >> ELSE << >>)
      BY <1>4 DEF HandOver
    <2>2. file \o SubSeq(lines, 1, n) \in Seq(Pieces)
      OBVIOUS
    <2>3. (file \o SubSeq(lines, 1, n)) \o << >> = file \o SubSeq(lines, 1, n)
      BY <2>2
    <2> QED
      BY <2>1, <2>3
  <1>5. CASE ~all /\ file' # file \o lines
    <2>1. PICK n \in 0..(Len(lines) - 1) :
                  \/ file' = file \o SubSeq(lines, 1, n)
                  \/ file' = file \o SubSeq(lines, 1, n) \o << Piece(lines[n + 1].life, Cut) >>
      BY <1>4, <1>5
    <2>2. CASE file' = file \o SubSeq(lines, 1, n)
      BY <1>2, <1>5, <2>2
    <2>3. CASE file' = file \o SubSeq(lines, 1, n) \o << Piece(lines[n + 1].life, Cut) >>
      <3>1. /\ file' \in Seq(Pieces) /\ Len(file') = Len(file) + n + 1
            /\ \A p \in 1..Len(file') :
                  file'[p] \in {(file \o lines)[p], Piece((file \o lines)[p].life, Cut)}
        BY ONLY <1>3, <1>5, <2>3, n \in 0..(Len(lines) - 1)
      <3>2. Len(file') <= Len(file) + Len(lines)
        BY <3>1
      <3> QED
        BY <1>5, <3>1, <3>2
    <2> QED
      BY <2>1, <2>2, <2>3
  <1>6. CASE file' = file \o lines
    BY <1>6
  <1>7. all => file' = file \o lines
    BY DEF HandOver
  <1> QED
    BY <1>5, <1>6, <1>7

\* When everything meant for the stream is in it, or has been cut off by a full disk, the
\* index stays right.
LEMMA IndexStays ==
    ASSUME NEW full \in Seq(Pieces), m_index' \in Seq(Nat \union {NoPosition}),
           \A n \in 1..Len(m_index') :
              m_index'[n] \in 1..Len(full) /\ full[m_index'[n]] = Piece(life', n),
           \/ m_writeFile' = "good" /\ file' \o buffer' = full
           \/ /\ m_writeFile' = "bad" /\ buffer' = << >>
              /\ Len(file') \in Nat /\ Len(file') <= Len(full)
              /\ \A p \in 1..Len(file') : file'[p] \in {full[p], Piece(full[p].life, Cut)}
    PROVE  GoodIndex' /\ BadIndex'
  <1>1. CASE m_writeFile' = "good" /\ file' \o buffer' = full
    BY <1>1 DEF GoodIndex, BadIndex, Stream
  <1>2. CASE /\ m_writeFile' = "bad" /\ buffer' = << >>
             /\ Len(file') \in Nat /\ Len(file') <= Len(full)
             /\ \A p \in 1..Len(file') : file'[p] \in {full[p], Piece(full[p].life, Cut)}
    <2>1. \A l, n : Piece(l, n).life = l
      BY DEF Piece
    <2>2. ASSUME NEW n \in 1..Len(m_index'), m_index'[n] \in 1..Len(file')
          PROVE  file'[m_index'[n]] \in {Piece(life', n), Piece(life', Cut)}
      BY <1>2, <2>1, <2>2
    <2> QED
      BY <1>2, <2>2 DEF GoodIndex, BadIndex
  <1> QED
    BY <1>1, <1>2

\* The write of the whole buffer, and of what is put behind it.
LEMMA BufferWritten ==
    ASSUME file \in Seq(Pieces), NEW lines \in Seq(Pieces), m_writeFile' \in {"good", "bad"},
           HandOver(lines, m_writeFile' = "good"), buffer' = << >>
    PROVE  /\ file' \in Seq(Pieces)
           /\ \/ m_writeFile' = "good" /\ file' \o buffer' = file \o lines
              \/ /\ m_writeFile' = "bad" /\ buffer' = << >>
                 /\ Len(file') \in Nat /\ Len(file') <= Len(file \o lines)
                 /\ \A p \in 1..Len(file') :
                       file'[p] \in {(file \o lines)[p], Piece((file \o lines)[p].life, Cut)}
  <1>1. (m_writeFile' = "good") \in BOOLEAN
    OBVIOUS
  <1>2. /\ file' \in Seq(Pieces)
        /\ m_writeFile' = "good" => file' = file \o lines
        /\ Len(file') <= Len(file) + Len(lines)
        /\ \A p \in 1..Len(file') :
              file'[p] \in {(file \o lines)[p], Piece((file \o lines)[p].life, Cut)}
    BY <1>1, HandOverResult
  <1>3. Len(file \o lines) = Len(file) + Len(lines)
    BY ConcatProperties
  <1>4. Len(file') \in Nat
    BY <1>2, LenProperties
  <1>5. m_writeFile' = "good" => file' \o buffer' = file \o lines
    BY <1>2, ConcatEmptySeq
  <1> QED
    BY <1>2, <1>3, <1>4, <1>5

\* flush().
LEMMA FlushStep ==
    ASSUME FileTypeOK, GoodIndex, BadIndex, Flush, UNCHANGED <<m_index, life>>
    PROVE  /\ file' \in Seq(Pieces) /\ buffer' \in Seq(Pieces)
           /\ GoodIndex' /\ BadIndex'
  <1>1. file \in Seq(Pieces) /\ buffer \in Seq(Pieces) /\ m_index \in Seq(Nat \union {NoPosition})
    BY DEF FileTypeOK, Pieces
  <1>2. CASE m_writeFile = "good" /\ m_writeFile' \in {"good", "bad"}
             /\ HandOver(buffer, m_writeFile' = "good") /\ buffer' = << >>
    <2>1. Stream \in Seq(Pieces)
      BY <1>1, ConcatProperties DEF Stream
    <2>2. \A n \in 1..Len(m_index') : m_index'[n] \in 1..Len(Stream) /\ Stream[m_index'[n]] = Piece(life', n)
      BY <1>2 DEF GoodIndex
    <2>3. file' \in Seq(Pieces) /\ GoodIndex' /\ BadIndex'
      BY <1>1, <1>2, <2>1, <2>2, BufferWritten, IndexStays DEF Stream
    <2> QED
      BY <1>2, <2>3, EmptySeq
  <1>3. CASE m_writeFile # "good" /\ UNCHANGED <<m_writeFile, file, buffer>>
    BY <1>1, <1>3 DEF GoodIndex, BadIndex
  <1> QED
    BY <1>2, <1>3 DEF Flush

\* writeAction on a good stream: the line goes to the position that the index has for it.
LEMMA PutLineStep ==
    ASSUME FileTypeOK, GoodIndex, m_writeFile = "good", NEW line \in Pieces, PutLine(line),
           line = Piece(life, Len(m_index) + 1), life' = life, m_index' = Append(m_index, tellp)
    PROVE  /\ file' \in Seq(Pieces) /\ buffer' \in Seq(Pieces)
           /\ m_writeFile' \in {"good", "bad"}
           /\ m_index' \in Seq(Nat \union {NoPosition}) /\ Len(m_index') = Len(m_index) + 1
           /\ GoodIndex' /\ BadIndex'
  <1> DEFINE full == Append(Stream, line)
  <1>1. file \in Seq(Pieces) /\ buffer \in Seq(Pieces) /\ m_index \in Seq(Nat \union {NoPosition})
    BY DEF FileTypeOK, Pieces
  <1>2. Stream \in Seq(Pieces) /\ Len(Stream) = Len(file) + Len(buffer)
    BY <1>1, ConcatProperties DEF Stream
  <1>3. /\ full \in Seq(Pieces) /\ Len(full) = Len(Stream) + 1
        /\ \A p \in 1..Len(Stream) : full[p] = Stream[p]
        /\ full[Len(Stream) + 1] = line
    BY <1>2, AppendProperties
  <1>4. << line >> \in Seq(Pieces)
    OBVIOUS
  <1>5. full = Stream \o << line >>
    BY <1>2, AppendIsConcat
  <1>6. full = file \o Append(buffer, line) /\ Append(buffer, line) \in Seq(Pieces)
    <2>1. Append(buffer, line) = buffer \o << line >> /\ Append(buffer, line) \in Seq(Pieces)
      BY <1>1, AppendIsConcat, AppendProperties
    <2>2. (file \o buffer) \o << line >> = file \o (buffer \o << line >>)
      BY <1>1, <1>4, ConcatAssociative
    <2> QED
      BY <1>5, <2>1, <2>2 DEF Stream
  <1> HIDE DEF full
  <1>7. tellp = Len(Stream) + 1 /\ tellp \in Nat
    <2>1. tellp = Len(Stream) + 1
      BY <1>2 DEF tellp
    <2> QED
      BY <1>2, <2>1, LenProperties
  <1>8. /\ m_index' \in Seq(Nat \union {NoPosition}) /\ Len(m_index') = Len(m_index) + 1
        /\ \A n \in 1..Len(m_index) : m_index'[n] = m_index[n]
        /\ m_index'[Len(m_index) + 1] = Len(Stream) + 1
    BY <1>1, <1>7, AppendProperties
  <1>9. ASSUME NEW n \in 1..Len(m_index')
        PROVE  m_index'[n] \in 1..Len(full) /\ full[m_index'[n]] = Piece(life', n)
    <2>1. CASE n \in 1..Len(m_index)
      BY <1>2, <1>3, <1>8, <2>1 DEF GoodIndex
    <2>2. CASE n = Len(m_index) + 1
      BY <1>2, <1>3, <1>8, <2>2
    <2> QED
      BY <1>1, <1>8, <2>1, <2>2
  <1>10. CASE m_writeFile' = "good" /\ file' \in Seq(Pieces) /\ buffer' \in Seq(Pieces) /\ file' \o buffer' = full
    <2>1. GoodIndex' /\ BadIndex'
      BY <1>3, <1>8, <1>9, <1>10, IndexStays
    <2> QED
      BY <1>8, <1>10, <2>1
  <1>11. CASE UNCHANGED <<m_writeFile, file>> /\ buffer' = Append(buffer, line)
    BY <1>1, <1>6, <1>10, <1>11
  <1>12. CASE HandOver(buffer, TRUE) /\ buffer' = << line >> /\ UNCHANGED m_writeFile
    <2>1. file' = Stream
      BY <1>12 DEF HandOver, Stream
    <2> QED
      BY <1>2, <1>4, <1>5, <1>10, <1>12, <2>1
  <1>13. CASE /\ m_writeFile' \in {"good", "bad"} /\ buffer' = << >>
              /\ HandOver(Append(buffer, line), m_writeFile' = "good")
    <2>1. /\ file' \in Seq(Pieces)
          /\ \/ m_writeFile' = "good" /\ file' \o buffer' = full
             \/ /\ m_writeFile' = "bad" /\ buffer' = << >>
                /\ Len(file') \in Nat /\ Len(file') <= Len(full)
                /\ \A p \in 1..Len(file') : file'[p] \in {full[p], Piece(full[p].life, Cut)}
      BY <1>1, <1>6, <1>13, BufferWritten
    <2>2. GoodIndex' /\ BadIndex'
      BY <1>3, <1>8, <1>9, <2>1, IndexStays
    <2> QED
      BY <1>8, <1>13, <2>1, <2>2, EmptySeq
  <1> QED
    BY <1>11, <1>12, <1>13 DEF PutLine

----------------------------------------------------------------------------
(* Every step keeps the invariant.                                         *)

\* A line is a piece.
LEMMA PieceType ==
    ASSUME NEW l \in 1..MaxLives, NEW n \in Int
    PROVE  Piece(l, n) \in Pieces
  BY DEF Piece, Pieces

\* The record is added to what this life has been given.
LEMMA WrittenGrows ==
    ASSUME written \in [1..MaxLives -> Seq(Record)], life \in 1..MaxLives, NEW r \in Record,
           written' = [written EXCEPT ![life] = Append(@, r)]
    PROVE  /\ written' \in [1..MaxLives -> Seq(Record)]
           /\ Len(written'[life]) = Len(written[life]) + 1 /\ Len(written[life]) \in Nat
           /\ \A l \in 1..MaxLives : l # life => written'[l] = written[l]
  <1>1. written[life] \in Seq(Record)
    OBVIOUS
  <1>2. /\ Append(written[life], r) \in Seq(Record)
        /\ Len(Append(written[life], r)) = Len(written[life]) + 1
    BY <1>1, AppendProperties
  <1>3. Len(written[life]) \in Nat
    BY <1>1, LenProperties
  <1> QED
    BY <1>2, <1>3

\* writeAction.
LEMMA WriteActionStep ==
    ASSUME FileInv, NEW r \in Record, writeAction(r)
    PROVE  FileInv'
  <1>1. /\ life \in 1..MaxLives /\ life' = life /\ m_readFile' = m_readFile
        /\ written' = [written EXCEPT ![life] = Append(@, r)]
    BY DEF writeAction, FileInv, Counted
  <1>2. /\ file \in Seq(Pieces) /\ buffer \in Seq(Pieces)
        /\ m_index \in Seq(Nat \union {NoPosition}) /\ m_recordCount = Len(m_index)
        /\ m_readFile \in BOOLEAN /\ written \in [1..MaxLives -> Seq(Record)]
    BY DEF FileInv, FileTypeOK, Pieces
  <1>3. /\ written' \in [1..MaxLives -> Seq(Record)]
        /\ Len(written'[life]) = Len(written[life]) + 1 /\ Len(written[life]) \in Nat
        /\ \A l \in 1..MaxLives : l > life => written'[l] = << >>
    <2>1. /\ written' \in [1..MaxLives -> Seq(Record)]
          /\ Len(written'[life]) = Len(written[life]) + 1 /\ Len(written[life]) \in Nat
          /\ \A l \in 1..MaxLives : l # life => written'[l] = written[l]
      BY <1>1, <1>2, WrittenGrows
    <2>2. \A l \in 1..MaxLives : l > life => l # life /\ written[l] = << >>
      BY <1>1 DEF FileInv, Counted
    <2> QED
      BY <2>1, <2>2
  <1>4. CASE m_writeFile = "closed" /\ UNCHANGED <<m_writeFile, file, buffer, m_index, m_recordCount>>
    <2>1. FileTypeOK'
      BY <1>1, <1>3, <1>4 DEF FileInv, FileTypeOK
    <2>2. GoodIndex' /\ BadIndex' /\ Counted'
      BY <1>1, <1>3, <1>4 DEF FileInv, GoodIndex, BadIndex, Counted
    <2> QED
      BY <2>1, <2>2 DEF FileInv
  <1>5. CASE /\ m_writeFile = "good" /\ PutLine(Piece(life, m_recordCount + 1))
             /\ m_index' = Append(m_index, tellp) /\ m_recordCount' = m_recordCount + 1
    <2>1. m_recordCount \in Nat
      BY <1>2, LenProperties
    <2>2. Piece(life, m_recordCount + 1) \in Pieces
      BY <1>1, <2>1, PieceType
    <2>3. /\ file' \in Seq(Pieces) /\ buffer' \in Seq(Pieces)
          /\ m_writeFile' \in {"good", "bad"}
          /\ m_index' \in Seq(Nat \union {NoPosition}) /\ Len(m_index') = Len(m_index) + 1
          /\ GoodIndex' /\ BadIndex'
      BY <1>1, <1>2, <1>5, <2>2, PutLineStep DEF FileInv
    <2>4. FileTypeOK'
      BY <1>1, <1>2, <1>3, <1>5, <2>3 DEF FileTypeOK, Pieces
    <2>5. Counted'
      BY <1>1, <1>3, <1>5, <2>3 DEF FileInv, Counted
    <2> QED
      BY <2>3, <2>4, <2>5 DEF FileInv
  <1>6. CASE /\ m_writeFile = "bad" /\ UNCHANGED <<m_writeFile, file, buffer>>
             /\ m_index' = Append(m_index, tellp) /\ m_recordCount' = m_recordCount + 1
    <2>1. tellp = NoPosition
      BY <1>6 DEF tellp
    <2>2. /\ m_index' \in Seq(Nat \union {NoPosition}) /\ Len(m_index') = Len(m_index) + 1
          /\ \A n \in 1..Len(m_index) : m_index'[n] = m_index[n]
          /\ m_index'[Len(m_index) + 1] = NoPosition
      BY <1>2, <1>6, <2>1, AppendProperties
    <2>3. FileTypeOK'
      BY <1>1, <1>2, <1>3, <1>6, <2>2 DEF FileInv, FileTypeOK, Pieces
    <2>4. Counted' /\ GoodIndex'
      BY <1>1, <1>3, <1>6, <2>2 DEF FileInv, Counted, GoodIndex
    <2>5. BadIndex'
      <3>1. ASSUME NEW n \in 1..Len(m_index'), m_index'[n] \in 1..Len(file')
            PROVE  file'[m_index'[n]] \in {Piece(life', n), Piece(life', Cut)}
        <4>1. n # Len(m_index) + 1
          BY <2>2, <3>1 DEF NoPosition
        <4>2. n \in 1..Len(m_index)
          BY <1>2, <2>2, <4>1, LenProperties
        <4> QED
          BY <1>1, <1>6, <2>2, <3>1, <4>2 DEF FileInv, BadIndex
      <3> QED
        BY <1>6, <3>1 DEF FileInv, BadIndex
    <2> QED
      BY <2>3, <2>4, <2>5 DEF FileInv
  <1> QED
    BY <1>4, <1>5, <1>6 DEF writeAction

\* getRecentRecords.
LEMMA RecentRecordsStep ==
    ASSUME FileInv, getRecentRecords
    PROVE  FileInv'
  <1>1. UNCHANGED <<m_readFile, m_index, m_recordCount, life, written>> /\ Flush
    BY DEF getRecentRecords
  <1>2. file' \in Seq(Pieces) /\ buffer' \in Seq(Pieces) /\ GoodIndex' /\ BadIndex'
    BY <1>1, FlushStep DEF FileInv
  <1>3. /\ m_writeFile' \in {"none", "closed", "good", "bad"}
        /\ m_writeFile' \in {"good", "bad"} <=> m_writeFile \in {"good", "bad"}
        /\ m_writeFile' \in {"none", "closed"} => m_writeFile' = m_writeFile /\ buffer' = buffer
    BY <1>1 DEF Flush, FileInv, FileTypeOK
  <1>4. FileTypeOK' /\ Counted'
    BY <1>1, <1>2, <1>3 DEF FileInv, FileTypeOK, Pieces, Counted
  <1> QED
    BY <1>2, <1>4 DEF FileInv

\* The constructor.
LEMMA ConstructStep ==
    ASSUME FileInv, Construct
    PROVE  FileInv'
  <1>1. /\ life \in 0..MaxLives /\ life < MaxLives /\ life' = life + 1 /\ life' \in 1..MaxLives
        /\ m_index' = << >> /\ m_recordCount' = 0 /\ UNCHANGED <<buffer, written>>
        /\ buffer = << >> /\ file \in Seq(Pieces)
    BY FileAssumption DEF Construct, FileInv, FileTypeOK, Counted, Pieces
  <1>2. /\ m_writeFile' \in {"closed", "good", "bad"} /\ m_readFile' \in BOOLEAN
        /\ file' \in Seq(Pieces)
    <2>1. CASE UNCHANGED file
      BY <1>1, <2>1 DEF Construct
    <2>2. CASE /\ m_writeFile' \in {"good", "bad"} /\ m_readFile' = TRUE
               /\ HandOver(<< Piece(life', Opening) >>, m_writeFile' = "good")
      <3>1. << Piece(life', Opening) >> \in Seq(Pieces)
        BY <1>1, PieceType DEF Opening
      <3>2. (m_writeFile' = "good") \in BOOLEAN
        OBVIOUS
      <3>3. file' \in Seq(Pieces)
        BY <1>1, <2>2, <3>1, <3>2, HandOverResult
      <3> QED
        BY <2>2, <3>3
    <2> QED
      BY <2>1, <2>2 DEF Construct
  <1>3. FileTypeOK'
    BY <1>1, <1>2, EmptySeq DEF FileInv, FileTypeOK, Pieces
  <1>4. GoodIndex' /\ BadIndex' /\ Counted'
    <2>1. Len(m_index') = 0 /\ written[life'] = << >> /\ Len(written[life']) = 0
      BY <1>1 DEF FileInv, Counted
    <2>2. GoodIndex' /\ BadIndex'
      BY <1>1, <2>1 DEF GoodIndex, BadIndex
    <2> QED
      BY <1>1, <1>2, <2>1, <2>2 DEF FileInv, Counted
  <1> QED
    BY <1>3, <1>4 DEF FileInv

\* The destructor, and a crash.
LEMMA GoneStep ==
    ASSUME FileInv, Destroy \/ Crash
    PROVE  FileInv'
  <1>1. /\ m_writeFile' = "none" /\ m_readFile' = FALSE /\ buffer' = << >>
        /\ m_index' = << >> /\ m_recordCount' = 0 /\ UNCHANGED <<life, written>>
    BY DEF Destroy, Crash, Gone
  <1>2. /\ life \in 1..MaxLives /\ file \in Seq(Pieces) /\ buffer \in Seq(Pieces)
    BY DEF FileInv, FileTypeOK, Pieces, Counted, Destroy, Crash
  <1>3. file' \in Seq(Pieces)
    <2>1. ASSUME NEW all \in BOOLEAN, HandOver(Append(buffer, Piece(life, Ended)), all)
          PROVE  file' \in Seq(Pieces)
      <3>1. Append(buffer, Piece(life, Ended)) \in Seq(Pieces)
        BY <1>2, PieceType, AppendProperties DEF Ended
      <3> QED
        BY <1>2, <2>1, <3>1, HandOverResult
    <2>2. CASE UNCHANGED file
      BY <1>2, <2>2
    <2>3. CASE file' = Append(file, Piece(life, Cut))
      BY <1>2, <2>3, PieceType, AppendProperties DEF Cut
    <2> QED
      BY <2>1, <2>2, <2>3 DEF Destroy, Crash
  <1>4. FileTypeOK'
    BY <1>1, <1>3, EmptySeq DEF FileInv, FileTypeOK, Pieces
  <1>5. GoodIndex' /\ BadIndex' /\ Counted'
    BY <1>1 DEF FileInv, GoodIndex, BadIndex, Counted
  <1> QED
    BY <1>4, <1>5 DEF FileInv

\* FileInv is inductive.
LEMMA FileInvInductive == FileSpec => []FileInv
  <1>1. ASSUME FileInit PROVE FileInv
    <2>1. FileTypeOK
      <3>1. << >> \in Seq(Record) /\ << >> \in Seq(Pieces) /\ << >> \in Seq(Nat \union {NoPosition})
        BY EmptySeq
      <3>2. written \in [1..MaxLives -> Seq(Record)]
        BY <1>1, <3>1 DEF FileInit
      <3>3. file \in Seq(Pieces) /\ buffer \in Seq(Pieces) /\ m_index \in Seq(Nat \union {NoPosition})
        BY <1>1, <3>1 DEF FileInit
      <3>4. Len(m_index) = 0 /\ life \in 0..MaxLives
        BY <1>1, FileAssumption DEF FileInit
      <3> QED
        BY <1>1, <3>2, <3>3, <3>4 DEF FileInit, FileTypeOK, Pieces
    <2>2. GoodIndex /\ BadIndex /\ Counted
      BY <1>1 DEF FileInit, GoodIndex, BadIndex, Counted
    <2> QED
      BY <2>1, <2>2 DEF FileInv
  <1>2. ASSUME FileInv, FileNext PROVE FileInv'
    BY <1>2, ConstructStep, GoneStep, RecentRecordsStep, WriteActionStep DEF FileNext
  <1>3. ASSUME FileInv, UNCHANGED fileVars PROVE FileInv'
    <2>1. FileTypeOK' /\ Counted'
      BY <1>3 DEF fileVars, FileInv, FileTypeOK, Counted
    <2>2. GoodIndex' /\ BadIndex'
      BY <1>3 DEF fileVars, FileInv, GoodIndex, BadIndex, Stream
    <2> QED
      BY <2>1, <2>2 DEF FileInv
  <1> QED
    BY <1>1, <1>2, <1>3, PTL DEF FileSpec

----------------------------------------------------------------------------
(* What follows.                                                           *)

\* Type correctness; in particular the index has a position for each record counted.
THEOREM FileTypeCorrect == FileSpec => []FileTypeOK
  <1>1. FileInv => FileTypeOK
    BY DEF FileInv
  <1> QED
    BY <1>1, FileInvInductive, PTL

\* GET_CDR shows the last records of this life in order, whatever earlier lives have left
\* in the file and however the buffer got there; a full disk blanks or cuts, never swaps.
THEOREM GetCdrShowsTheLastRecords == FileSpec => []RecentRecordsRight
  <1>1. ASSUME FileInv PROVE RecentRecordsRight
    <2> SUFFICES ASSUME m_writeFile \in {"good", "bad"}, m_readFile, buffer = << >>,
                        NEW limit \in 0..(READ_CDR_LIMIT + 1)
                 PROVE  /\ Len(RecentRecords(limit)) <= READ_CDR_LIMIT
                        /\ Len(RecentRecords(limit)) \in {limit, READ_CDR_LIMIT, Len(written[life])}
                        /\ \A k \in 1..Len(RecentRecords(limit)) :
                              \/ RecentRecords(limit)[k] =
                                    Piece(life, Len(written[life]) - Len(RecentRecords(limit)) + k)
                              \/ m_writeFile = "bad" /\ RecentRecords(limit)[k] \in {Blank, Piece(life, Cut)}
      BY DEF RecentRecordsRight
    <2> DEFINE last == Limit(limit)
    <2>1. /\ m_recordCount = Len(m_index) /\ m_recordCount \in Nat /\ m_recordCount = Len(written[life])
      BY <1>1, LenProperties DEF FileInv, FileTypeOK, Counted
    <2>2. last \in 0..m_recordCount /\ last <= READ_CDR_LIMIT /\ last \in {limit, READ_CDR_LIMIT, m_recordCount}
      BY <2>1, FileAssumption DEF Limit
    <2> HIDE DEF last
    <2>3. RecentRecords(limit) = [k \in 1..last |-> LineAt(m_index[m_recordCount - last + k])]
      BY DEF RecentRecords, last
    <2>4. Len(RecentRecords(limit)) = last
      BY <2>2, <2>3
    <2>5. ASSUME NEW k \in 1..last
          PROVE  \/ RecentRecords(limit)[k] = Piece(life, m_recordCount - last + k)
                 \/ m_writeFile = "bad" /\ RecentRecords(limit)[k] \in {Blank, Piece(life, Cut)}
      <3> DEFINE n == m_recordCount - last + k
      <3>1. n \in 1..Len(m_index)
        BY <2>1, <2>2
      <3>2. RecentRecords(limit)[k] = LineAt(m_index[n])
        BY <2>3
      <3> HIDE DEF n
      <3>3. CASE m_writeFile = "good"
        <4>1. file \in Seq(Pieces)
          BY <1>1 DEF FileInv, FileTypeOK, Pieces
        <4>2. Stream = file
          BY <4>1, ConcatEmptySeq DEF Stream
        <4>3. m_index[n] \in 1..Len(file) /\ file[m_index[n]] = Piece(life, n)
          BY <1>1, <3>1, <3>3, <4>2 DEF FileInv, GoodIndex
        <4> QED
          BY <3>2, <4>3 DEF LineAt, n
      <3>4. CASE m_writeFile = "bad"
        <4>1. m_index[n] \in 1..Len(file) => file[m_index[n]] \in {Piece(life, n), Piece(life, Cut)}
          BY <1>1, <3>1, <3>4 DEF FileInv, BadIndex
        <4> QED
          BY <3>2, <3>4, <4>1 DEF LineAt, n
      <3> QED
        BY <3>3, <3>4
    <2> QED
      BY <2>1, <2>2, <2>4, <2>5
  <1> QED
    BY <1>1, FileInvInductive, PTL


----------------------------------------------------------------------------
(* Each life keeps a ledger.                                               *)

\* Where the records of life l stand in s.
Positions(s, l) == {p \in 1..Len(s) : s[p].life = l /\ s[p].line > 0}

\* They stand in order, and each after all of those before it.
Ordered(s, l) ==
    /\ \A p, q \in Positions(s, l) : p < q => s[p].line < s[q].line
    /\ \A p \in Positions(s, l) :
          \A k \in 1..(s[p].line - 1) : \E q \in 1..(p - 1) : s[q] = Piece(l, k)

Within(s, l) == \A p \in Positions(s, l) : s[p].line <= Len(written[l])

\* The life is over, and "CDR ended" stands behind everything it wrote.
Complete(s, l) ==
    \A p \in 1..Len(s) : s[p] = Piece(l, Ended) =>
        /\ l < life \/ (l = life /\ m_writeFile = "none")
        /\ \A k \in 1..Len(written[l]) : \E q \in 1..(p - 1) : s[q] = Piece(l, k)

LedgerInv ==
    \A l \in 1..MaxLives : Ordered(Stream, l) /\ Within(Stream, l) /\ Complete(Stream, l)

\* The records in the file are numbered from 1 on: what Stored says of them.
LEMMA StoredIs ==
    ASSUME NEW l, file \in Seq(Pieces), Ordered(file, l)
    PROVE  /\ IsFiniteSet(Lines(l)) /\ Cardinality(Lines(l)) \in Nat
           /\ Stored(l) = [k \in 1..Cardinality(Lines(l)) |-> k]
           /\ Len(Stored(l)) = Cardinality(Lines(l))
           /\ \A p \in Lines(l) : file[p].line \in 1..Cardinality(Lines(l))
           /\ \A k \in 1..Cardinality(Lines(l)) : \E p \in Lines(l) : file[p] = Piece(l, k)
  <1> DEFINE n == Cardinality(Lines(l))
             Upto(p) == Lines(l) \intersect 1..p
  <1>1. Lines(l) = Positions(file, l) /\ Lines(l) \subseteq 1..Len(file) /\ Len(file) \in Nat
    BY DEF Lines, Positions
  <1>2. IsFiniteSet(Lines(l)) /\ n \in Nat
    <2>1. IsFiniteSet(1..Len(file)) /\ Lines(l) \in SUBSET (1..Len(file))
      BY <1>1, FS_Interval
    <2>2. IsFiniteSet(Lines(l))
      BY <2>1, FS_Subset, Zenon
    <2> QED
      BY <2>2, FS_CardinalityType
  <1>3. \A p \in Lines(l) : file[p].line \in Nat \ {0} /\ file[p].life = l /\ file[p] = Piece(l, file[p].line)
    <2>1. ASSUME NEW p \in Lines(l)
          PROVE  file[p].line \in Nat \ {0} /\ file[p].life = l /\ file[p] = Piece(l, file[p].line)
      <3>1. file[p] \in Pieces
        BY <1>1, ElementOfSeq
      <3> QED
        BY <3>1 DEF Pieces, Piece, Lines
    <2> QED
      BY <2>1
  <1>4. ASSUME NEW p \in Lines(l), NEW q \in Lines(l), file[p].line = file[q].line
        PROVE  p = q
    <2>1. ~(p < q) /\ ~(q < p)
      BY <1>1, <1>3, <1>4 DEF Ordered
    <2> QED
      BY <1>1, <2>1
  <1>5. ASSUME NEW p \in Lines(l), NEW k \in 1..file[p].line
        PROVE  \E q \in Upto(p) : file[q] = Piece(l, k)
    <2>1. CASE k = file[p].line
      BY <1>1, <1>3, <2>1
    <2>2. CASE k # file[p].line
      <3>1. k \in 1..(file[p].line - 1)
        BY <1>3, <2>2
      <3>2. PICK q \in 1..(p - 1) : file[q] = Piece(l, k)
        BY <1>1, <3>1 DEF Ordered
      <3>3. q \in Upto(p)
        BY <1>1, <3>1, <3>2, <1>3 DEF Piece, Lines
      <3> QED
        BY <3>2, <3>3
    <2> QED
      BY <2>1, <2>2
  <1>6. ASSUME NEW p \in Lines(l)
        PROVE  IsFiniteSet(Upto(p)) /\ Cardinality(Upto(p)) = file[p].line /\ file[p].line <= n
    <2> DEFINE f == [q \in Upto(p) |-> file[q].line]
               m == file[p].line
    <2>1. \A q \in Upto(p) : file[q].line \in 1..m
      BY <1>1, <1>3 DEF Ordered
    <2>2. f \in Injection(Upto(p), 1..m)
      BY <1>4, <2>1 DEF Injection, IsInjective
    <2>3. \A k \in 1..m : \E q \in Upto(p) : f[q] = k
      <3> TAKE k \in 1..m
      <3>1. PICK q \in Upto(p) : file[q] = Piece(l, k)
        BY <1>5
      <3> QED
        BY <3>1 DEF Piece
    <2>4. ExistsBijection(Upto(p), 1..m)
      BY <2>2, <2>3 DEF ExistsBijection, Bijection, Injection, Surjection
    <2>5. IsFiniteSet(Upto(p)) /\ Upto(p) \in SUBSET Lines(l) /\ Cardinality(Upto(p)) <= n
      BY <1>2, FS_Subset
    <2>6. Cardinality(1..m) = Cardinality(Upto(p))
      <3> HIDE DEF m, Upto
      <3> QED
        BY <2>4, <2>5, FS_Bijection
    <2>7. Cardinality(1..m) = m
      BY <1>3, FS_Interval
    <2> QED
      BY <2>5, <2>6, <2>7
  <1>7. \A p \in Lines(l) : file[p].line \in 1..n
    <2> TAKE p \in Lines(l)
    <2>1. file[p].line \in Nat \ {0} /\ file[p].line <= n
      BY <1>3, <1>6, Zenon
    <2> HIDE DEF n
    <2> QED
      BY <1>2, <2>1
  <1>8. \A k \in 1..n : \E p \in Lines(l) : file[p].line = k
    <2> DEFINE f == [p \in Lines(l) |-> file[p].line]
    <2>1. f \in Injection(Lines(l), 1..n)
      <3> HIDE DEF n
      <3> QED
        BY <1>4, <1>7 DEF Injection, IsInjective
    <2>2. IsFiniteSet(1..n) /\ Cardinality(1..n) = n
      BY <1>2, FS_Interval
    <2>3. f \in Surjection(Lines(l), 1..n)
      <3> HIDE DEF f
      <3> QED
        BY <2>1, <2>2, FS_Injection
    <2> QED
      BY <2>3 DEF Surjection
  <1>9. \A k \in 1..n : file[CHOOSE p \in Lines(l) : Cardinality(Upto(p)) = k].line = k
    <2> TAKE k \in 1..n
    <2>1. \E p \in Lines(l) : Cardinality(Upto(p)) = k
      BY <1>6, <1>8
    <2> DEFINE p == CHOOSE q \in Lines(l) : Cardinality(Upto(q)) = k
    <2>2. p \in Lines(l) /\ Cardinality(Upto(p)) = k
      BY <2>1
    <2> QED
      BY <1>6, <2>2
  <1>10. Stored(l) = [k \in 1..n |-> k]
    BY <1>9 DEF Stored
  <1>11. Len(Stored(l)) = n
    BY <1>2, <1>10
  <1>12. \A k \in 1..n : \E p \in Lines(l) : file[p] = Piece(l, k)
    <2> HIDE DEF n
    <2> QED
      BY <1>3, <1>8
  <1> QED
    BY <1>2, <1>10, <1>11, <1>7, <1>12

----------------------------------------------------------------------------
(* How a step changes the stream: what it adds, and what a full disk or a  *)
(* crash cuts off.                                                         *)

Over(l) == l < life \/ (l = life /\ m_writeFile = "none")

\* A beginning of `full', perhaps with the beginning of a piece behind it.
Cutting(s, full) ==
    \E m \in 0..Len(full) :
        /\ Len(s) = m \/ (Len(s) = m + 1 /\ s[m + 1].line = Cut)
        /\ \A p \in 1..m : s[p] = full[p]

\* The next record, the head, or the end.
Added(line) ==
    \/ line.line = Opening
    \/ /\ line = Piece(life, Len(written[life]) + 1)
       /\ m_writeFile = "good" /\ life' = life
       /\ Len(written'[life]) = Len(written[life]) + 1
    \/ /\ line = Piece(life, Ended)
       /\ m_writeFile = "good" /\ m_writeFile' = "none" /\ life' = life /\ written' = written

Continues ==
    /\ \/ Cutting(Stream', Stream)
       \/ \E line \in Pieces : Added(line) /\ Cutting(Stream', Append(Stream, line))
    /\ Len(file') \in Nat /\ \A p \in 1..Len(file) : p \in 1..Len(file') /\ file'[p] = file[p]
    /\ \A l \in 1..MaxLives :
          /\ Len(written'[l]) \in {Len(written[l]), Len(written[l]) + 1}
          /\ Over(l) => Over(l)' /\ written'[l] = written[l]

LEMMA StreamIs ==
    ASSUME FileInv
    PROVE  /\ file \in Seq(Pieces) /\ buffer \in Seq(Pieces) /\ Stream \in Seq(Pieces)
           /\ Len(Stream) = Len(file) + Len(buffer) /\ Len(Stream) \in Nat /\ Len(file) \in Nat
           /\ \A p \in 1..Len(file) : Stream[p] = file[p]
  <1>1. file \in Seq(Pieces) /\ buffer \in Seq(Pieces)
    BY DEF FileInv, FileTypeOK, Pieces
  <1> QED
    BY <1>1, ConcatProperties DEF Stream

LEMMA CuttingKeeps ==
    ASSUME NEW l, NEW s, NEW full \in Seq(Pieces), Cutting(s, full)
    PROVE  /\ Len(s) \in Nat /\ Positions(s, l) \subseteq Positions(full, l)
           /\ \A p \in Positions(s, l) : \A q \in 1..p : q \in 1..Len(full) /\ s[q] = full[q]
           /\ \A p \in 1..Len(s) : s[p] = Piece(l, Ended) =>
                 \A q \in 1..p : q \in 1..Len(full) /\ s[q] = full[q]
  <1>1. PICK m \in 0..Len(full) :
           /\ Len(s) = m \/ (Len(s) = m + 1 /\ s[m + 1].line = Cut)
           /\ \A p \in 1..m : s[p] = full[p]
    BY DEF Cutting
  <1>2. m \in Nat /\ Len(full) \in Nat /\ Len(s) \in Nat
    BY <1>1
  <1>3. ASSUME NEW p \in 1..Len(s), s[p].line > 0 \/ s[p] = Piece(l, Ended)
        PROVE  p \in 1..m
    <2>1. s[p].line # Cut
      BY <1>3 DEF Piece, Ended, Cut
    <2> QED
      BY <1>1, <1>2, <2>1
  <1>4. ASSUME NEW p \in Positions(s, l)
        PROVE  p \in Positions(full, l) /\ \A q \in 1..p : q \in 1..Len(full) /\ s[q] = full[q]
    <2>1. p \in 1..m
      BY <1>3 DEF Positions
    <2> QED
      BY <1>1, <1>2, <2>1 DEF Positions
  <1>5. ASSUME NEW p \in 1..Len(s), s[p] = Piece(l, Ended), NEW q \in 1..p
        PROVE  q \in 1..Len(full) /\ s[q] = full[q]
    <2>1. p \in 1..m
      BY <1>3, <1>5
    <2> QED
      BY <1>1, <1>2, <2>1
  <1> QED
    BY <1>2, <1>4, <1>5

LEMMA CuttingOrdered ==
    ASSUME NEW l, NEW s, NEW full \in Seq(Pieces), Cutting(s, full), Ordered(full, l)
    PROVE  Ordered(s, l)
  <1>1. /\ Len(s) \in Nat /\ Positions(s, l) \subseteq Positions(full, l)
        /\ \A p \in Positions(s, l) : \A q \in 1..p : q \in 1..Len(full) /\ s[q] = full[q]
    BY CuttingKeeps, Zenon
  <1>2. \A p \in Positions(s, l) : p \in Nat /\ p >= 1 /\ p \in 1..p /\ s[p] = full[p]
    BY <1>1 DEF Positions
  <1>3. ASSUME NEW p \in Positions(s, l), NEW q \in Positions(s, l), p < q
        PROVE  s[p].line < s[q].line
    BY <1>1, <1>2, <1>3 DEF Ordered
  <1>4. ASSUME NEW p \in Positions(s, l), NEW k \in 1..(s[p].line - 1)
        PROVE  \E q \in 1..(p - 1) : s[q] = Piece(l, k)
    <2>1. PICK q \in 1..(p - 1) : full[q] = Piece(l, k)
      BY <1>1, <1>2, <1>4 DEF Ordered
    <2>2. q \in 1..p
      BY <1>2, <2>1
    <2> QED
      BY <1>1, <2>1, <2>2
  <1> QED
    BY <1>3, <1>4 DEF Ordered

\* The stream with what is added is still in order.
LEMMA AddedOrdered ==
    ASSUME FileInv, LedgerInv, NEW line \in Pieces, Added(line), NEW l \in 1..MaxLives,
           Len(written'[l]) \in {Len(written[l]), Len(written[l]) + 1},
           Over(l) => Over(l)' /\ written'[l] = written[l]
    PROVE  LET full == Append(Stream, line) IN
           /\ full \in Seq(Pieces) /\ Ordered(full, l)
           /\ \A p \in Positions(full, l) : full[p].line <= Len(written'[l])
           /\ \A p \in 1..Len(full) : full[p] = Piece(l, Ended) =>
                 /\ Over(l)'
                 /\ \A k \in 1..Len(written'[l]) : \E q \in 1..(p - 1) : full[q] = Piece(l, k)
  <1> DEFINE full == Append(Stream, line)
  <1>1. Stream \in Seq(Pieces) /\ Len(Stream) \in Nat
    BY StreamIs
  <1>2. /\ full \in Seq(Pieces) /\ Len(full) = Len(Stream) + 1
        /\ \A p \in 1..Len(Stream) : full[p] = Stream[p]
        /\ full[Len(Stream) + 1] = line
    BY <1>1, AppendProperties
  <1>3. /\ written[l] \in Seq(Record) /\ Len(written[l]) \in Nat /\ Len(written'[l]) \in Nat
        /\ Len(written[l]) <= Len(written'[l])
    <2>1. written[l] \in Seq(Record)
      BY DEF FileInv, FileTypeOK
    <2>2. Len(written[l]) \in Nat
      BY <2>1, LenProperties
    <2> QED
      BY <2>1, <2>2
  <1>4. Ordered(Stream, l) /\ Within(Stream, l) /\ Complete(Stream, l)
    BY DEF LedgerInv
  <1> HIDE DEF full
  \* What it held.
  <1>5. ASSUME NEW p \in Positions(full, l), p # Len(Stream) + 1
        PROVE  p \in Positions(Stream, l) /\ full[p] = Stream[p] /\ p <= Len(Stream)
    BY <1>1, <1>2, <1>5 DEF Positions
  <1>6. ASSUME NEW p \in 1..Len(full), p # Len(Stream) + 1, full[p] = Piece(l, Ended)
        PROVE  /\ Over(l)'
               /\ \A k \in 1..Len(written'[l]) : \E q \in 1..(p - 1) : full[q] = Piece(l, k)
    <2>1. p \in 1..Len(Stream) /\ Stream[p] = Piece(l, Ended)
      BY <1>1, <1>2, <1>6
    <2>2. Over(l) /\ \A k \in 1..Len(written[l]) : \E q \in 1..(p - 1) : Stream[q] = Piece(l, k)
      BY <1>4, <2>1 DEF Complete, Over
    <2>3. \A q \in 1..(p - 1) : full[q] = Stream[q]
      BY <1>1, <1>2, <2>1
    <2> QED
      BY <2>2, <2>3
  \* Every record of this life is in a good stream.
  <1>7. ASSUME m_writeFile = "good", l = life, NEW k \in 1..Len(written[l])
        PROVE  \E q \in 1..Len(Stream) : full[q] = Piece(l, k)
    <2>1. k \in 1..Len(m_index)
      BY <1>7 DEF FileInv, Counted
    <2> QED
      BY <1>2, <1>7, <2>1 DEF FileInv, GoodIndex
  <1>8. CASE Len(Stream) + 1 \notin Positions(full, l)
    <2>1. Ordered(full, l)
      <3>1. ASSUME NEW p \in Positions(full, l), NEW k \in 1..(full[p].line - 1)
            PROVE  \E q \in 1..(p - 1) : full[q] = Piece(l, k)
        <4>1. PICK q \in 1..(p - 1) : Stream[q] = Piece(l, k)
          BY <1>4, <1>5, <1>8, <3>1 DEF Ordered
        <4>2. q \in 1..Len(Stream)
          BY <1>1, <1>5, <1>8, <4>1 DEF Positions
        <4> QED
          BY <1>2, <4>1, <4>2
      <3>2. \A p, q \in Positions(full, l) : p < q => full[p].line < full[q].line
        BY <1>4, <1>5, <1>8 DEF Ordered
      <3> QED
        BY <3>1, <3>2 DEF Ordered
    <2>2. \A p \in Positions(full, l) : full[p].line <= Len(written'[l])
      <3> TAKE p \in Positions(full, l)
      <3>1. full[p].line <= Len(written[l])
        BY <1>4, <1>5, <1>8 DEF Within
      <3>2. full[p].line \in Int
        <4>1. full[p] \in Pieces
          BY <1>2, ElementOfSeq DEF Positions
        <4> QED
          BY <4>1 DEF Pieces
      <3> QED
        BY <1>3, <3>1, <3>2
    <2>3. ASSUME NEW p \in 1..Len(full), full[p] = Piece(l, Ended)
          PROVE  /\ Over(l)'
                 /\ \A k \in 1..Len(written'[l]) : \E q \in 1..(p - 1) : full[q] = Piece(l, k)
      <3>1. CASE p # Len(Stream) + 1
        BY <1>6, <2>3, <3>1
      <3>2. CASE p = Len(Stream) + 1
        <4>1. line = Piece(l, Ended)
          BY <1>2, <2>3, <3>2
        <4>2. /\ line = Piece(life, Ended) /\ m_writeFile = "good" /\ m_writeFile' = "none"
              /\ life' = life /\ written' = written
          <5>1. line.line = Ended /\ line.line # Opening
            BY <4>1 DEF Piece, Ended, Opening
          <5>2. life \in 1..MaxLives \/ m_writeFile # "good"
            BY DEF FileInv, Counted
          <5>3. m_writeFile = "good" => Piece(life, Len(written[life]) + 1).line # Ended
            <6>1. m_writeFile = "good" => Len(written[life]) \in Nat
              BY <5>2 DEF FileInv, FileTypeOK
            <6> QED
              BY <6>1 DEF Piece, Ended
          <5> QED
            BY <5>1, <5>3 DEF Added
        <4>3. l = life
          BY <4>1, <4>2 DEF Piece
        <4> QED
          BY <1>1, <1>7, <3>2, <4>2, <4>3 DEF Over
      <3> QED
        BY <3>1, <3>2
    <2> QED
      BY <1>2, <2>1, <2>2, <2>3 DEF full
  <1>9. CASE Len(Stream) + 1 \in Positions(full, l)
    <2>1. line.life = l /\ line.line > 0
      BY <1>2, <1>9 DEF Positions
    <2>2. /\ line = Piece(life, Len(written[life]) + 1) /\ m_writeFile = "good"
          /\ Len(written'[life]) = Len(written[life]) + 1
      BY <2>1 DEF Added, Opening, Piece, Ended
    <2>3. l = life /\ line.line = Len(written[l]) + 1
      BY <2>1, <2>2 DEF Piece
    <2>4. \A p \in Positions(full, l) : p # Len(Stream) + 1 => full[p].line <= Len(written[l])
      BY <1>4, <1>5 DEF Within
    <2>5. \A p \in Positions(full, l) : full[p].line \in Int /\ p \in Int /\ p <= Len(Stream) + 1
      <3> TAKE p \in Positions(full, l)
      <3>1. full[p] \in Pieces /\ p \in 1..(Len(Stream) + 1)
        BY <1>2, ElementOfSeq DEF Positions
      <3> QED
        BY <1>1, <3>1 DEF Pieces
    <2>6. ASSUME NEW p \in Positions(full, l), NEW q \in Positions(full, l), p < q
          PROVE  full[p].line < full[q].line
      <3>1. p # Len(Stream) + 1
        BY <1>1, <2>5, <2>6
      <3>2. CASE q = Len(Stream) + 1
        <4>1. full[p].line <= Len(written[l]) /\ full[q].line = Len(written[l]) + 1 /\ full[p].line \in Int
          BY <1>2, <2>3, <2>4, <2>5, <3>1, <3>2
        <4> QED
          BY <1>3, <4>1
      <3>3. CASE q # Len(Stream) + 1
        BY <1>4, <1>5, <2>6, <3>1, <3>3 DEF Ordered
      <3> QED
        BY <3>2, <3>3
    <2>7. ASSUME NEW p \in Positions(full, l), NEW k \in 1..(full[p].line - 1)
          PROVE  \E q \in 1..(p - 1) : full[q] = Piece(l, k)
      <3>1. CASE p = Len(Stream) + 1
        <4>1. k \in 1..Len(written[l])
          BY <1>2, <1>3, <2>3, <2>7, <3>1
        <4>2. p - 1 = Len(Stream)
          BY <1>1, <3>1
        <4> QED
          BY <1>7, <2>2, <2>3, <4>1, <4>2
      <3>2. CASE p # Len(Stream) + 1
        <4>1. PICK q \in 1..(p - 1) : Stream[q] = Piece(l, k)
          BY <1>4, <1>5, <2>7, <3>2 DEF Ordered
        <4>2. q \in 1..Len(Stream)
          BY <1>1, <1>5, <2>5, <3>2, <4>1
        <4> QED
          BY <1>2, <4>1, <4>2
      <3> QED
        BY <3>1, <3>2
    <2>8. \A p \in Positions(full, l) : full[p].line <= Len(written'[l])
      <3> TAKE p \in Positions(full, l)
      <3>1. CASE p = Len(Stream) + 1
        BY <1>2, <1>3, <2>2, <2>3, <3>1
      <3>2. CASE p # Len(Stream) + 1
        BY <1>3, <2>4, <2>5, <3>2
      <3> QED
        BY <3>1, <3>2
    <2>9. \A p \in 1..Len(full) : full[p] = Piece(l, Ended) => p # Len(Stream) + 1
      BY <1>2, <2>1 DEF Piece, Ended
    <2>10. Ordered(full, l)
      BY <2>6, <2>7 DEF Ordered
    <2> QED
      BY <1>2, <1>6, <2>8, <2>9, <2>10 DEF full
  <1> QED
    BY <1>8, <1>9

\* The invariant goes from the stream to what is left of it.
LEMMA ContinuesKeepsLedger ==
    ASSUME FileInv, LedgerInv, Continues
    PROVE  LedgerInv'
  <1> SUFFICES ASSUME NEW l \in 1..MaxLives
               PROVE  Ordered(Stream, l)' /\ Within(Stream, l)' /\ Complete(Stream, l)'
    BY DEF LedgerInv
  <1>1. /\ Ordered(Stream, l) /\ Within(Stream, l) /\ Complete(Stream, l)
        /\ Len(written'[l]) \in {Len(written[l]), Len(written[l]) + 1}
        /\ Over(l) => Over(l)' /\ written'[l] = written[l]
    BY DEF LedgerInv, Continues
  <1>2. Stream \in Seq(Pieces) /\ Len(written[l]) \in Nat
    BY StreamIs DEF FileInv, FileTypeOK
  <1>3. PICK full \in Seq(Pieces) :
           /\ Cutting(Stream', full) /\ Ordered(full, l)
           /\ \A p \in Positions(full, l) : full[p].line <= Len(written'[l])
           /\ \A p \in 1..Len(full) : full[p] = Piece(l, Ended) =>
                 /\ Over(l)'
                 /\ \A k \in 1..Len(written'[l]) : \E q \in 1..(p - 1) : full[q] = Piece(l, k)
    <2>1. CASE Cutting(Stream', Stream)
      <3>1. \A p \in Positions(Stream, l) : Stream[p].line <= Len(written'[l])
        <4> TAKE p \in Positions(Stream, l)
        <4>1. Stream[p] \in Pieces
          BY <1>2, ElementOfSeq DEF Positions
        <4>2. Stream[p].line \in Int /\ Stream[p].line <= Len(written[l])
          BY <1>1, <4>1 DEF Within, Pieces
        <4> QED
          BY <1>1, <1>2, <4>2
      <3>2. \A p \in 1..Len(Stream) : Stream[p] = Piece(l, Ended) =>
               /\ Over(l)'
               /\ \A k \in 1..Len(written'[l]) : \E q \in 1..(p - 1) : Stream[q] = Piece(l, k)
        BY <1>1 DEF Complete, Over
      <3> QED
        BY <1>1, <1>2, <2>1, <3>1, <3>2
    <2>2. CASE \E line \in Pieces : Added(line) /\ Cutting(Stream', Append(Stream, line))
      <3>1. PICK line \in Pieces : Added(line) /\ Cutting(Stream', Append(Stream, line))
        BY <2>2
      <3> QED
        BY <1>1, <3>1, AddedOrdered
    <2> QED
      BY <2>1, <2>2 DEF Continues
  <1>4. Ordered(Stream', l)
    BY <1>3, CuttingOrdered
  <1>5. /\ Len(Stream') \in Nat /\ Positions(Stream', l) \subseteq Positions(full, l)
        /\ \A p \in Positions(Stream', l) : \A q \in 1..p : q \in 1..Len(full) /\ Stream'[q] = full[q]
        /\ \A p \in 1..Len(Stream') : Stream'[p] = Piece(l, Ended) =>
              \A q \in 1..p : q \in 1..Len(full) /\ Stream'[q] = full[q]
    <2>1. ASSUME NEW s, Cutting(s, full)
          PROVE  /\ Len(s) \in Nat /\ Positions(s, l) \subseteq Positions(full, l)
                 /\ \A p \in Positions(s, l) : \A q \in 1..p : q \in 1..Len(full) /\ s[q] = full[q]
                 /\ \A p \in 1..Len(s) : s[p] = Piece(l, Ended) =>
                       \A q \in 1..p : q \in 1..Len(full) /\ s[q] = full[q]
      BY <2>1, CuttingKeeps, Zenon
    <2> QED
      BY <1>3, <2>1, Zenon
  <1>6. Within(Stream, l)'
    <2>1. \A p \in Positions(Stream', l) : p \in 1..p /\ p \in Positions(full, l)
      BY <1>5 DEF Positions
    <2>2. \A p \in Positions(Stream', l) : Stream'[p].line <= Len(written'[l])
      BY <1>3, <1>5, <2>1
    <2> QED
      BY <2>2 DEF Within, Positions
  <1>7. Complete(Stream, l)'
    <2>1. ASSUME NEW p \in 1..Len(Stream'), Stream'[p] = Piece(l, Ended)
          PROVE  /\ Over(l)'
                 /\ \A k \in 1..Len(written'[l]) : \E q \in 1..(p - 1) : Stream'[q] = Piece(l, k)
      <3>1. p \in 1..p /\ p \in Nat
        BY <1>5, <2>1
      <3>2. p \in 1..Len(full) /\ full[p] = Piece(l, Ended)
        BY <1>5, <2>1, <3>1
      <3>3. \A q \in 1..(p - 1) : q \in 1..p
        BY <3>1
      <3> QED
        BY <1>3, <1>5, <2>1, <3>2, <3>3
    <2> QED
      BY <2>1 DEF Complete, Over, Piece
  <1> QED
    BY <1>4, <1>6, <1>7 DEF Ordered, Positions, Piece

LEMMA CuttingOfItself ==
    ASSUME NEW s \in Seq(Pieces)
    PROVE  Cutting(s, s)
  BY DEF Cutting

\* What is handed over continues the file.
LEMMA HandOverCuts ==
    ASSUME file \in Seq(Pieces), NEW lines \in Seq(Pieces), NEW all \in BOOLEAN, HandOver(lines, all)
    PROVE  /\ Cutting(file', file \o lines)
           /\ Len(file') \in Nat /\ \A p \in 1..Len(file) : p \in 1..Len(file') /\ file'[p] = file[p]
  <1> DEFINE full == file \o lines
  <1>1. /\ full \in Seq(Pieces) /\ Len(full) = Len(file) + Len(lines)
        /\ Len(file) \in Nat /\ Len(lines) \in Nat
        /\ \A p \in 1..Len(file) : full[p] = file[p]
    BY ConcatProperties
  <1>2. CASE all
    <2>1. file' = full
      BY <1>2 DEF HandOver
    <2> HIDE DEF full
    <2>2. Cutting(full, full)
      BY <1>1, CuttingOfItself
    <2>3. Len(file') \in Nat /\ \A p \in 1..Len(file) : p \in 1..Len(file') /\ file'[p] = file[p]
      BY <1>1, <2>1
    <2> QED
      BY <2>1, <2>2, <2>3 DEF full
  <1>3. CASE ~all
    <2>1. PICK n \in 0..(Len(lines) - 1) : \E part \in BOOLEAN :
             file' = file \o SubSeq(lines, 1, n)
                          \o (IF part THEN << Piece(lines[n + 1].life, Cut) >> ELSE << >>)
      BY <1>3 DEF HandOver
    <2>2. PICK part \in BOOLEAN :
             file' = file \o SubSeq(lines, 1, n)
                          \o (IF part THEN << Piece(lines[n + 1].life, Cut) >> ELSE << >>)
      BY <2>1
    <2> DEFINE whole == file \o SubSeq(lines, 1, n)
               cut == Piece(lines[n + 1].life, Cut)
    <2>3. /\ whole \in Seq(Pieces) /\ Len(whole) = Len(file) + n
          /\ \A p \in 1..(Len(file) + n) : whole[p] = full[p]
      OBVIOUS
    <2>4. lines[n + 1] \in Pieces /\ cut \in Pieces /\ cut.line = Cut
      <3>1. n + 1 \in 1..Len(lines)
        OBVIOUS
      <3>2. lines[n + 1] \in Pieces
        BY <3>1, ElementOfSeq
      <3> QED
        BY <3>2 DEF Pieces, Piece, Cut
    <2>5. Len(file) + n \in 0..Len(full) /\ \A p \in 1..Len(file) : p \in 1..(Len(file) + n)
      BY <1>1
    <2> HIDE DEF whole, cut, full
    <2>6. CASE part
      <3>1. file' = Append(whole, cut)
        BY <2>2, <2>3, <2>4, <2>6, AppendIsConcat DEF whole, cut
      <3>2. /\ Len(file') = (Len(file) + n) + 1 /\ file'[(Len(file) + n) + 1] = cut
            /\ \A p \in 1..(Len(file) + n) : file'[p] = full[p]
        BY <2>3, <2>4, <3>1, AppendProperties
      <3>3. Cutting(file', full)
        BY <2>4, <2>5, <3>2 DEF Cutting
      <3>4. Len(file') \in Nat /\ \A p \in 1..Len(file) : p \in 1..Len(file')
        BY <1>1, <3>2
      <3> QED
        BY <1>1, <2>5, <3>2, <3>3, <3>4 DEF full
    <2>7. CASE ~part
      <3>1. file' = whole
        BY <2>2, <2>3, <2>7, ConcatEmptySeq DEF whole
      <3>2. Cutting(file', full)
        BY <2>3, <2>5, <3>1 DEF Cutting
      <3>3. Len(file') \in Nat /\ \A p \in 1..Len(file) : p \in 1..Len(file')
        BY <1>1, <2>3, <3>1
      <3> QED
        BY <1>1, <2>3, <2>5, <3>1, <3>2, <3>3 DEF full
    <2> QED
      BY <2>6, <2>7
  <1> QED
    BY <1>2, <1>3

LEMMA StreamPlus ==
    ASSUME FileInv, NEW line \in Pieces
    PROVE  /\ Append(Stream, line) = file \o Append(buffer, line)
           /\ Append(Stream, line) = Stream \o << line >>
           /\ Append(buffer, line) \in Seq(Pieces) /\ Append(Stream, line) \in Seq(Pieces)
  <1>1. file \in Seq(Pieces) /\ buffer \in Seq(Pieces) /\ Stream \in Seq(Pieces)
    BY StreamIs
  <1>2. << line >> \in Seq(Pieces)
    OBVIOUS
  <1>3. Append(buffer, line) = buffer \o << line >> /\ Append(buffer, line) \in Seq(Pieces)
    BY <1>1, AppendIsConcat, AppendProperties
  <1>4. Append(Stream, line) = Stream \o << line >> /\ Append(Stream, line) \in Seq(Pieces)
    BY <1>1, AppendIsConcat, AppendProperties
  <1>5. (file \o buffer) \o << line >> = file \o (buffer \o << line >>)
    BY <1>1, <1>2, ConcatAssociative
  <1> QED
    BY <1>3, <1>4, <1>5 DEF Stream

\* writeAction.
LEMMA WriteContinues ==
    ASSUME FileInv, NEW r \in Record, writeAction(r), FileInv'
    PROVE  Continues
  <1>1. /\ life \in 1..MaxLives /\ life' = life /\ m_writeFile # "none"
        /\ written' = [written EXCEPT ![life] = Append(@, r)]
    BY DEF writeAction, FileInv, Counted
  <1>2. /\ Len(written'[life]) = Len(written[life]) + 1 /\ Len(written[life]) \in Nat
        /\ \A l \in 1..MaxLives : l # life => written'[l] = written[l]
    BY <1>1, WrittenGrows DEF FileInv, FileTypeOK
  <1>3. \A l \in 1..MaxLives :
           /\ Len(written'[l]) \in {Len(written[l]), Len(written[l]) + 1}
           /\ Over(l) => Over(l)' /\ written'[l] = written[l]
    <2>1. \A l \in 1..MaxLives : Over(l) => l < life
      BY <1>1 DEF Over
    <2> QED
      BY <1>1, <1>2, <2>1 DEF Over
  <1>4. /\ file \in Seq(Pieces) /\ buffer \in Seq(Pieces) /\ Stream \in Seq(Pieces) /\ Len(file) \in Nat
        /\ file' \in Seq(Pieces)
    BY StreamIs DEF FileInv, FileTypeOK, Pieces
  <1>5. CASE UNCHANGED <<file, buffer>>
    <2>1. Cutting(Stream', Stream)
      BY <1>4, <1>5, CuttingOfItself DEF Stream
    <2> QED
      BY <1>3, <1>4, <1>5, <2>1 DEF Continues
  <1>6. CASE m_writeFile = "good" /\ PutLine(Piece(life, m_recordCount + 1))
    <2> DEFINE line == Piece(life, m_recordCount + 1)
    <2>1. line \in Pieces /\ Added(line)
      <3>1. m_recordCount = Len(written[life])
        BY <1>6 DEF FileInv, FileTypeOK, Counted
      <3> QED
        BY <1>1, <1>2, <1>6, <3>1, PieceType DEF Added
    <2> HIDE DEF line
    <2>2. /\ Append(Stream, line) = file \o Append(buffer, line)
          /\ Append(Stream, line) = Stream \o << line >>
          /\ Append(buffer, line) \in Seq(Pieces) /\ Append(Stream, line) \in Seq(Pieces)
      BY <2>1, StreamPlus
    <2>3. Cutting(Append(Stream, line), Append(Stream, line))
      BY <2>2, CuttingOfItself
    <2> DEFINE Kept == /\ Cutting(Stream', Append(Stream, line)) /\ Len(file') \in Nat
                       /\ \A p \in 1..Len(file) : p \in 1..Len(file') /\ file'[p] = file[p]
    <2>4. CASE UNCHANGED file /\ buffer' = Append(buffer, line)
      <3>1. Stream' = Append(Stream, line)
        BY <2>2, <2>4 DEF Stream
      <3>2. Kept
        BY <1>4, <2>3, <2>4, <3>1
      <3> QED
        BY <1>3, <2>1, <3>2 DEF Continues
    <2>5. CASE HandOver(buffer, TRUE) /\ buffer' = << line >>
      <3>1. file' = Stream /\ Stream' = Append(Stream, line)
        BY <2>2, <2>5 DEF HandOver, Stream
      <3>2. Kept
        BY <1>4, <2>3, <3>1, StreamIs
      <3> QED
        BY <1>3, <2>1, <3>2 DEF Continues
    <2>6. CASE HandOver(Append(buffer, line), m_writeFile' = "good") /\ buffer' = << >>
      <3>1. (m_writeFile' = "good") \in BOOLEAN
        OBVIOUS
      <3>2. /\ Cutting(file', Append(Stream, line)) /\ Len(file') \in Nat
            /\ \A p \in 1..Len(file) : p \in 1..Len(file') /\ file'[p] = file[p]
        BY <1>4, <2>2, <2>6, <3>1, HandOverCuts
      <3>3. Stream' = file'
        BY <1>4, <2>6, ConcatEmptySeq DEF Stream
      <3> QED
        BY <1>3, <2>1, <3>2, <3>3 DEF Continues
    <2> QED
      BY <1>6, <2>4, <2>5, <2>6 DEF PutLine, line
  <1> QED
    BY <1>5, <1>6 DEF writeAction

\* What changes neither lives nor what they were given.
LEMMA LivesStay ==
    ASSUME FileInv, UNCHANGED <<life, written>>, m_writeFile = "none" => m_writeFile' = "none"
    PROVE  \A l \in 1..MaxLives :
              /\ Len(written'[l]) \in {Len(written[l]), Len(written[l]) + 1}
              /\ Over(l) => Over(l)' /\ written'[l] = written[l]
  BY DEF Over

\* getRecentRecords.
LEMMA FlushContinues ==
    ASSUME FileInv, getRecentRecords, FileInv'
    PROVE  Continues
  <1>1. /\ file \in Seq(Pieces) /\ buffer \in Seq(Pieces) /\ Stream \in Seq(Pieces) /\ Len(file) \in Nat
        /\ file' \in Seq(Pieces)
    BY StreamIs DEF FileInv, FileTypeOK, Pieces
  <1>2. \A l \in 1..MaxLives :
           /\ Len(written'[l]) \in {Len(written[l]), Len(written[l]) + 1}
           /\ Over(l) => Over(l)' /\ written'[l] = written[l]
    BY LivesStay DEF getRecentRecords
  <1>3. CASE UNCHANGED <<file, buffer>>
    <2>1. Cutting(Stream', Stream)
      BY <1>1, <1>3, CuttingOfItself DEF Stream
    <2> QED
      BY <1>1, <1>2, <1>3, <2>1 DEF Continues
  <1>4. CASE HandOver(buffer, m_writeFile' = "good") /\ buffer' = << >>
    <2>1. (m_writeFile' = "good") \in BOOLEAN
      OBVIOUS
    <2>2. /\ Cutting(file', Stream) /\ Len(file') \in Nat
          /\ \A p \in 1..Len(file) : p \in 1..Len(file') /\ file'[p] = file[p]
      BY <1>1, <1>4, <2>1, HandOverCuts DEF Stream
    <2>3. Stream' = file'
      BY <1>1, <1>4, ConcatEmptySeq DEF Stream
    <2> QED
      BY <1>2, <2>2, <2>3 DEF Continues
  <1> QED
    BY <1>3, <1>4 DEF getRecentRecords, Flush

\* The constructor.
LEMMA ConstructContinues ==
    ASSUME FileInv, Construct, FileInv'
    PROVE  Continues
  <1>1. /\ file \in Seq(Pieces) /\ buffer \in Seq(Pieces) /\ Stream \in Seq(Pieces) /\ Len(file) \in Nat
        /\ file' \in Seq(Pieces)
    BY StreamIs DEF FileInv, FileTypeOK, Pieces
  <1>2. /\ m_writeFile = "none" /\ life \in Nat /\ life' = life + 1 /\ life' \in 1..MaxLives
        /\ buffer = << >> /\ UNCHANGED <<buffer, written>>
    BY FileAssumption DEF Construct, FileInv, FileTypeOK, Counted
  <1>3. \A l \in 1..MaxLives :
           /\ Len(written'[l]) \in {Len(written[l]), Len(written[l]) + 1}
           /\ Over(l) => Over(l)' /\ written'[l] = written[l]
    BY <1>2 DEF Over
  <1>4. Stream = file /\ Stream' = file'
    BY <1>1, <1>2, ConcatEmptySeq DEF Stream
  <1>5. CASE UNCHANGED file
    <2>1. Cutting(Stream', Stream)
      BY <1>1, <1>4, <1>5, CuttingOfItself
    <2> QED
      BY <1>1, <1>3, <1>5, <2>1 DEF Continues
  <1>6. CASE HandOver(<< Piece(life', Opening) >>, m_writeFile' = "good")
    <2> DEFINE line == Piece(life', Opening)
    <2>1. line \in Pieces /\ Added(line)
      BY <1>2, PieceType DEF Added, Opening, Piece
    <2>2. << line >> \in Seq(Pieces) /\ Append(Stream, line) = file \o << line >>
      <3> HIDE DEF line
      <3> QED
        BY <1>4, <2>1, StreamPlus
    <2>3. (m_writeFile' = "good") \in BOOLEAN
      OBVIOUS
    <2>4. HandOver(<< line >>, m_writeFile' = "good")
      BY <1>6
    <2> HIDE DEF line
    <2>5. /\ Cutting(file', Append(Stream, line)) /\ Len(file') \in Nat
          /\ \A p \in 1..Len(file) : p \in 1..Len(file') /\ file'[p] = file[p]
      BY <1>1, <2>2, <2>3, <2>4, HandOverCuts
    <2> QED
      BY <1>3, <1>4, <2>1, <2>5 DEF Continues
  <1> QED
    BY <1>5, <1>6 DEF Construct

\* The destructor.
LEMMA DestroyContinues ==
    ASSUME FileInv, Destroy, FileInv'
    PROVE  Continues
  <1>1. /\ file \in Seq(Pieces) /\ buffer \in Seq(Pieces) /\ Stream \in Seq(Pieces) /\ Len(file) \in Nat
        /\ file' \in Seq(Pieces)
    BY StreamIs DEF FileInv, FileTypeOK, Pieces
  <1>2. /\ m_writeFile' = "none" /\ buffer' = << >> /\ UNCHANGED <<life, written>>
        /\ life \in 1..MaxLives
    BY DEF Destroy, Gone, FileInv, Counted
  <1>3. \A l \in 1..MaxLives :
           /\ Len(written'[l]) \in {Len(written[l]), Len(written[l]) + 1}
           /\ Over(l) => Over(l)' /\ written'[l] = written[l]
    BY <1>2, LivesStay
  <1>4. Stream' = file'
    BY <1>1, <1>2, ConcatEmptySeq DEF Stream
  <1>5. CASE UNCHANGED file
    <2>1. Len(file) \in 0..Len(Stream) /\ \A p \in 1..Len(file) : Stream[p] = file[p]
      <3>1. Len(Stream) = Len(file) + Len(buffer) /\ Len(buffer) \in Nat
        BY <1>1, StreamIs, LenProperties
      <3> QED
        BY <1>1, <3>1, StreamIs
    <2>2. Cutting(file, Stream)
      BY <2>1 DEF Cutting
    <2> QED
      BY <1>1, <1>3, <1>4, <1>5, <2>2 DEF Continues
  <1>6. CASE m_writeFile = "good" /\ \E all \in BOOLEAN : HandOver(Append(buffer, Piece(life, Ended)), all)
    <2> DEFINE line == Piece(life, Ended)
    <2>1. line \in Pieces /\ Added(line)
      BY <1>2, <1>6, PieceType DEF Added, Ended
    <2>2. PICK all \in BOOLEAN : HandOver(Append(buffer, line), all)
      BY <1>6
    <2> HIDE DEF line
    <2>3. Append(Stream, line) = file \o Append(buffer, line) /\ Append(buffer, line) \in Seq(Pieces)
      BY <2>1, StreamPlus
    <2>4. /\ Cutting(file', Append(Stream, line)) /\ Len(file') \in Nat
          /\ \A p \in 1..Len(file) : p \in 1..Len(file') /\ file'[p] = file[p]
      BY <1>1, <2>2, <2>3, HandOverCuts
    <2> QED
      BY <1>3, <1>4, <2>1, <2>4 DEF Continues
  <1> QED
    BY <1>5, <1>6 DEF Destroy

\* A crash.
LEMMA CrashContinues ==
    ASSUME FileInv, Crash, FileInv'
    PROVE  Continues
  <1>1. /\ file \in Seq(Pieces) /\ Stream \in Seq(Pieces) /\ Len(file) \in Nat
        /\ file' \in Seq(Pieces) /\ Len(file) \in 0..Len(Stream)
        /\ \A p \in 1..Len(file) : Stream[p] = file[p]
    <2>1. /\ Len(Stream) = Len(file) + Len(buffer) /\ buffer \in Seq(Pieces)
      BY StreamIs
    <2> QED
      BY <2>1, StreamIs DEF FileInv, FileTypeOK, Pieces
  <1>2. /\ m_writeFile' = "none" /\ buffer' = << >> /\ UNCHANGED <<life, written>>
        /\ life \in 1..MaxLives
    BY DEF Crash, Gone, FileInv, Counted
  <1>3. \A l \in 1..MaxLives :
           /\ Len(written'[l]) \in {Len(written[l]), Len(written[l]) + 1}
           /\ Over(l) => Over(l)' /\ written'[l] = written[l]
    BY <1>2, LivesStay
  <1>4. Stream' = file'
    BY <1>1, <1>2, ConcatEmptySeq DEF Stream
  <1>5. CASE file' = file
    <2>1. Cutting(file, Stream)
      BY <1>1 DEF Cutting
    <2> QED
      BY <1>1, <1>3, <1>4, <1>5, <2>1 DEF Continues
  <1>6. CASE file' = Append(file, Piece(life, Cut))
    <2>1. /\ Len(file') = Len(file) + 1 /\ file'[Len(file) + 1].line = Cut
          /\ \A p \in 1..Len(file) : file'[p] = file[p]
      <3>1. Piece(life, Cut) \in Pieces /\ Piece(life, Cut).line = Cut
        BY <1>2, PieceType DEF Cut, Piece
      <3> QED
        BY <1>1, <1>6, <3>1, AppendProperties
    <2>2. Cutting(file', Stream)
      BY <1>1, <2>1 DEF Cutting
    <2> QED
      BY <1>1, <1>3, <1>4, <2>1, <2>2 DEF Continues
  <1> QED
    BY <1>5, <1>6 DEF Crash

LEMMA FileStepContinues ==
    ASSUME FileInv, FileNext, FileInv'
    PROVE  Continues
  BY WriteContinues, FlushContinues, ConstructContinues, DestroyContinues, CrashContinues
     DEF FileNext

LEMMA LedgerInit == FileInit => LedgerInv
  <1> SUFFICES ASSUME FileInit, NEW l \in 1..MaxLives
               PROVE  Ordered(Stream, l) /\ Within(Stream, l) /\ Complete(Stream, l)
    BY DEF LedgerInv
  <1>1. Len(Stream) = 0
    BY DEF FileInit, Stream
  <1>2. 1..Len(Stream) = {} /\ Positions(Stream, l) = {}
    BY <1>1 DEF Positions
  <1> QED
    BY <1>2 DEF Ordered, Within, Complete

LEMMA LedgerStep ==
    ASSUME FileInv, LedgerInv, [FileNext]_fileVars, FileInv'
    PROVE  LedgerInv'
  <1>1. CASE FileNext
    BY <1>1, FileStepContinues, ContinuesKeepsLedger
  <1>2. CASE UNCHANGED fileVars
    <2>1. Stream' = Stream
      BY <1>2 DEF fileVars, Stream
    <2> QED
      BY <1>2, <2>1 DEF fileVars, LedgerInv, Ordered, Within, Complete, Positions, Piece
  <1> QED
    BY <1>1, <1>2

\* What the file has is what the stream begins with.
LEMMA FileOrdered ==
    ASSUME FileInv, LedgerInv, NEW l \in 1..MaxLives
    PROVE  /\ file \in Seq(Pieces) /\ Ordered(file, l) /\ Lines(l) = Positions(file, l)
           /\ \A p \in Lines(l) : file[p].line <= Len(written[l])
  <1>1. /\ file \in Seq(Pieces) /\ Stream \in Seq(Pieces) /\ Len(file) \in Nat
        /\ Len(file) \in 0..Len(Stream) /\ \A p \in 1..Len(file) : Stream[p] = file[p]
    <2>1. Len(Stream) = Len(file) + Len(buffer) /\ buffer \in Seq(Pieces)
      BY StreamIs
    <2> QED
      BY <2>1, StreamIs, LenProperties
  <1>2. Cutting(file, Stream)
    BY <1>1 DEF Cutting
  <1>3. Ordered(file, l)
    BY <1>1, <1>2, CuttingOrdered DEF LedgerInv
  <1>4. Lines(l) = Positions(file, l) /\ \A p \in Lines(l) : p \in Positions(Stream, l) /\ file[p] = Stream[p]
    BY <1>1 DEF Lines, Positions
  <1> QED
    BY <1>1, <1>3, <1>4 DEF LedgerInv, Within

\* The file has no more records of a life than the life was given, and has them in order.
Numbered(l) ==
    /\ Stored(l) = [k \in 1..Len(Stored(l)) |-> k]
    /\ Len(Stored(l)) \in Nat /\ Len(Stored(l)) <= Len(written[l])
    /\ IsFiniteSet(Lines(l)) /\ Len(Stored(l)) = Cardinality(Lines(l))
    /\ \A p \in Lines(l) : file[p].line \in 1..Len(Stored(l))
    /\ \A k \in 1..Len(Stored(l)) : \E p \in Lines(l) : file[p] = Piece(l, k)

LEMMA StoredBounded ==
    ASSUME FileInv, LedgerInv, NEW l \in 1..MaxLives
    PROVE  Numbered(l)
  <1>1. /\ IsFiniteSet(Lines(l)) /\ Cardinality(Lines(l)) \in Nat
        /\ Stored(l) = [k \in 1..Cardinality(Lines(l)) |-> k]
        /\ Len(Stored(l)) = Cardinality(Lines(l))
        /\ \A p \in Lines(l) : file[p].line \in 1..Cardinality(Lines(l))
        /\ \A k \in 1..Cardinality(Lines(l)) : \E p \in Lines(l) : file[p] = Piece(l, k)
    BY FileOrdered, StoredIs
  <1>2. Len(Stored(l)) <= Len(written[l])
    <2>1. Len(written[l]) \in Nat
      BY DEF FileInv, FileTypeOK
    <2>2. CASE Cardinality(Lines(l)) = 0
      BY <1>1, <2>1, <2>2
    <2>3. CASE Cardinality(Lines(l)) # 0
      <3>1. Cardinality(Lines(l)) \in 1..Cardinality(Lines(l))
        BY <1>1, <2>3
      <3>2. PICK p \in Lines(l) : file[p] = Piece(l, Cardinality(Lines(l)))
        BY <1>1, <3>1
      <3>3. file[p].line = Cardinality(Lines(l)) /\ file[p].line <= Len(written[l])
        BY <3>2, FileOrdered DEF Piece
      <3> QED
        BY <1>1, <3>3
    <2> QED
      BY <2>2, <2>3
  <1> QED
    BY <1>1, <1>2 DEF Numbered

LEMMA AllNumbered == FileInv /\ LedgerInv => \A i \in 1..MaxLives : Numbered(i)
  BY StoredBounded

LEMMA AllNumberedNext == FileInv' /\ LedgerInv' => (\A i \in 1..MaxLives : Numbered(i))'
  BY AllNumbered, PTL

\* A step of the backend is a step of every life's ledger, or none of it.
LEMMA LedgersStep ==
    ASSUME FileInv, LedgerInv, FileInv', LedgerInv', Continues, NEW l \in 1..MaxLives
    PROVE  Life(l)!Next \/ UNCHANGED Life(l)!vars
  <1>1. /\ Stored(l) = [k \in 1..Len(Stored(l)) |-> k] /\ Len(Stored(l)) \in Nat
        /\ Len(Stored(l)) = Cardinality(Lines(l))
    BY StoredBounded DEF Numbered
  <1>2. /\ Stored(l)' = [k \in 1..Len(Stored(l)') |-> k] /\ Len(Stored(l)') \in Nat
        /\ Len(Stored(l)') = Cardinality(Lines(l)') /\ IsFiniteSet(Lines(l)')
        /\ Len(Stored(l)') <= Len(written'[l])
    <2>1. (\A i \in 1..MaxLives : Numbered(i))'
      BY AllNumberedNext
    <2>2. Numbered(l)'
      BY <2>1, Zenon
    <2> QED
      BY <2>2 DEF Numbered
  <1>3. Lines(l) \subseteq Lines(l)'
    <2>1. \A p \in 1..Len(file) : p \in 1..Len(file') /\ file'[p] = file[p]
      BY DEF Continues
    <2>2. DOMAIN file = 1..Len(file) /\ DOMAIN file' = 1..Len(file')
      BY DEF FileInv, FileTypeOK
    <2> QED
      BY <2>1, <2>2 DEF Lines
  <1>4. Len(Stored(l)) <= Len(Stored(l)')
    BY <1>1, <1>2, <1>3, FS_Subset
  <1>5. Len(written[l]) \in Nat /\ Len(written'[l]) \in {Len(written[l]), Len(written[l]) + 1}
    BY DEF FileInv, FileTypeOK, Continues
  <1>6. PICK n, m : n = Len(Stored(l)) /\ m = Len(Stored(l)')
    OBVIOUS
  <1>7. CASE m = n
    <2>1. Stored(l)' = Stored(l)
      BY <1>1, <1>2, <1>6, <1>7
    <2> QED
      BY <1>5, <2>1 DEF Life!Next, Life!Accept, Life!vars
  <1>8. CASE m # n
    <2>1. m \in (Len(Stored(l)) + 1)..Len(written'[l]) /\ Stored(l)' = [k \in 1..m |-> k]
      BY <1>1, <1>2, <1>4, <1>5, <1>6, <1>8
    <2> QED
      BY <1>5, <2>1 DEF Life!Next, Life!Store, Life!WriteThrough
  <1> QED
    BY <1>7, <1>8

LEMMA LedgerInvariant == FileSpec => [](FileInv /\ LedgerInv)
  <1>1. FileSpec => []FileInv
    BY FileInvInductive
  <1>2. FileInv /\ FileInv' /\ LedgerInv /\ [FileNext]_fileVars => LedgerInv'
    BY LedgerStep
  <1> QED
    BY <1>1, <1>2, LedgerInit, PTL DEF FileSpec

\* Each life of the backend implements the safety part of a CDR ledger: whatever the
\* buffer, a full disk, the end of the process or a crash make of it, the file shows a
\* life's records once each, in order and without a hole, and never takes one back.
THEOREM LivesAreLedgers == FileSpec => EachLifeIsALedger
  <1>1. FileInit => \A l \in 1..MaxLives : Life(l)!Init
    <2> SUFFICES ASSUME FileInit, NEW l \in 1..MaxLives PROVE Life(l)!Init
      OBVIOUS
    <2>1. Lines(l) = {} /\ Len(written[l]) = 0
      BY DEF FileInit, Lines
    <2>2. Cardinality(Lines(l)) = 0
      BY <2>1, FS_EmptySet
    <2>3. Stored(l) = << >>
      BY <2>2 DEF Stored
    <2> QED
      BY <2>1, <2>3 DEF Life!Init
  <1>2. /\ FileInv /\ LedgerInv /\ FileInv' /\ LedgerInv' /\ [FileNext]_fileVars
        => [\A l \in 1..MaxLives : Life(l)!Next \/ UNCHANGED Life(l)!vars]_fileVars
    BY FileStepContinues, LedgersStep
  <1> QED
    BY <1>1, <1>2, LedgerInvariant, PTL DEF FileSpec, EachLifeIsALedger
=============================================================================
