-------------------------- MODULE FileStreamProofs --------------------------
(***************************************************************************)
(* Proofs about FileStream, for every number of bytes and initializations. *)
(***************************************************************************)
EXTENDS FileStream, FiniteSetTheorems, SequenceTheorems, TLAPS

\* No position is behind what was ever written, and the reader's is in the file
\* as long as that is not replaced.
Within ==
    /\ Len(content) <= written
    /\ \A s \in Streams : position[s] <= written
    /\ m_fileStream["reader"] = "open" /\ ~truncated => position["reader"] <= Len(content)

\* OwnedDescriptors without counting, also when some have no owner.
OpenStreams == Closes("writer") + Closes("reader")
Descriptors == /\ OpenStreams <= descriptors /\ descriptors <= inits
               /\ ~assignFailed => descriptors = OpenStreams

IInv == /\ TypeOK
        /\ Within
        /\ Descriptors
        /\ ReadsFromTheStart
        /\ EofHidesNothing

-----------------------------------------------------------------------------
(* Sequences of bytes. *)

\* What may be said of n bytes may be said of more.
LEMMA MoreBytes ==
    ASSUME NEW m \in Nat, NEW n \in Nat, m <= n, NEW s \in Seq(1..m)
    PROVE  s \in Seq(1..n) /\ s \in Seq(Nat) /\ Len(s) \in Nat
<1>1. 1..m \subseteq 1..n /\ 1..m \subseteq Nat
  OBVIOUS
<1>2. s \in Seq(1..n)
  BY <1>1, SeqMonotonic
<1>3. s \in Seq(Nat)
  BY <1>1, SeqMonotonic
<1> QED BY <1>2, <1>3

\* What is behind the position p, and the first k bytes of it.
LEMMA Behind ==
    ASSUME NEW m \in Nat, NEW s \in Seq(1..m), NEW p \in Nat,
           NEW k \in 0..Len(SubSeq(s, p + 1, Len(s)))
    PROVE  /\ SubSeq(s, p + 1, Len(s)) \in Seq(1..m)
           /\ SubSeq(SubSeq(s, p + 1, Len(s)), 1, k) \in Seq(1..m)
           /\ p + k <= Len(s) \/ k = 0
           /\ p <= Len(s) => Len(SubSeq(s, p + 1, Len(s))) = Len(s) - p
<1> DEFINE r == SubSeq(s, p + 1, Len(s))
<1>1. /\ Len(s) \in Nat /\ \A i \in (p + 1)..Len(s) : s[i] \in 1..m
  OBVIOUS
<1>2. /\ r \in Seq(1..m)
      /\ Len(r) = IF p + 1 <= Len(s) THEN Len(s) - (p + 1) + 1 ELSE 0
  BY <1>1, SubSeqProperties
<1>3. /\ Len(r) = IF p + 1 <= Len(s) THEN Len(s) - p ELSE 0
  BY <1>1, <1>2
<1> HIDE DEF r
<1>4. \A i \in 1..k : r[i] \in 1..m
  BY <1>2 DEF r
<1>5. SubSeq(r, 1, k) \in Seq(1..m)
  BY <1>2, <1>4, SubSeqProperties DEF r
<1>6. p + k <= Len(s) \/ k = 0
  BY <1>1, <1>3 DEF r
<1>7. p <= Len(s) => Len(r) = Len(s) - p
  BY <1>1, <1>3
<1> QED BY <1>2, <1>5, <1>6, <1>7 DEF r

\* Reading on where the last read has ended leaves no gap.
LEMMA ReadingOn ==
    ASSUME NEW s \in Seq(Nat), NEW p \in 0..Len(s), NEW k \in 0..(Len(s) - p)
    PROVE  SubSeq(s, 1, p) \o SubSeq(SubSeq(s, p + 1, Len(s)), 1, k) = SubSeq(s, 1, p + k)
<1>1. CASE k = 0
  <2>1. SubSeq(SubSeq(s, p + 1, Len(s)), 1, k) = <<>>
    BY <1>1, SubSeqEmpty
  <2>2. SubSeq(s, 1, p) \in Seq(Nat)
    OBVIOUS
  <2> QED BY <1>1, <2>1, <2>2, ConcatEmptySeq
<1>2. CASE k > 0
  <2>1. /\ Len(s) \in Nat /\ p + 1 \in 1..Len(s) /\ Len(s) \in 1..Len(s)
        /\ 1 \in 1..(Len(s) - (p + 1) + 1) /\ k \in 1..(Len(s) - (p + 1) + 1)
        /\ (p + 1) + 1 - 1 = p + 1 /\ (p + 1) + k - 1 = p + k
        /\ 1 \in 1..(Len(s) + 1) /\ p \in (1 - 1)..Len(s) /\ p + k \in p..Len(s)
    BY <1>2
  <2>2. SubSeq(SubSeq(s, p + 1, Len(s)), 1, k)
           = SubSeq(s, (p + 1) + 1 - 1, (p + 1) + k - 1)
    BY <2>1, SubSeqOfSubSeq
  <2>3. SubSeq(s, 1, p) \o SubSeq(s, p + 1, p + k) = SubSeq(s, 1, p + k)
    BY <2>1, ConcatAdjacentSubSeq
  <2> QED BY <2>1, <2>2, <2>3
<1> QED BY <1>1, <1>2

\* Moving the first n bytes of b to the end of t loses none.
Moves(S, t, b, n) ==
    /\ SubSeq(b, n + 1, Len(b)) \in Seq(S)
    /\ t \o SubSeq(b, 1, n) \in Seq(S)
    /\ (t \o SubSeq(b, 1, n)) \o SubSeq(b, n + 1, Len(b)) = t \o b

\* Consuming moves bytes from the buffer to those taken.
LEMMA Consuming ==
    ASSUME NEW S, NEW t \in Seq(S), NEW b \in Seq(S), NEW n \in 0..Len(b)
    PROVE  Moves(S, t, b, n)
<1>1. /\ Len(b) \in Nat /\ 1 \in 1..(Len(b) + 1) /\ n \in (1 - 1)..Len(b)
      /\ Len(b) \in n..Len(b)
  OBVIOUS
<1>2. SubSeq(b, 1, n) \in Seq(S) /\ SubSeq(b, n + 1, Len(b)) \in Seq(S)
  <2>1. /\ \A i \in 1..n : b[i] \in S
        /\ \A i \in (n + 1)..Len(b) : b[i] \in S
    BY <1>1
  <2> QED BY <1>1, <2>1, SubSeqProperties
<1>3. SubSeq(b, 1, n) \o SubSeq(b, n + 1, Len(b)) = SubSeq(b, 1, Len(b))
  BY <1>1, ConcatAdjacentSubSeq
<1>4. SubSeq(b, 1, Len(b)) = b
  BY SubSeqFull
<1>5. t \o SubSeq(b, 1, n) \in Seq(S)
  BY <1>2, ConcatProperties
<1>6. (t \o SubSeq(b, 1, n)) \o SubSeq(b, n + 1, Len(b))
         = t \o (SubSeq(b, 1, n) \o SubSeq(b, n + 1, Len(b)))
  <2> DEFINE c == SubSeq(b, 1, n)
             d == SubSeq(b, n + 1, Len(b))
  <2>1. c \in Seq(S) /\ d \in Seq(S)
    BY <1>2
  <2> HIDE DEF c, d
  <2>2. (t \o c) \o d = t \o (c \o d)
    BY <2>1, ConcatAssociative, SMTT(60)
  <2> QED BY <2>2 DEF c, d
<1> QED BY <1>2, <1>3, <1>4, <1>5, <1>6 DEF Moves

\* Writing leaves what is in the file.
LEMMA Appending ==
    ASSUME NEW s \in Seq(Nat), NEW t \in Seq(Nat), NEW p \in 0..Len(s)
    PROVE  SubSeq(s \o t, 1, p) = SubSeq(s, 1, p)
<1>1. CASE p = 0
  <2>1. SubSeq(s \o t, 1, p) = <<>> /\ SubSeq(s, 1, p) = <<>>
    BY <1>1, SubSeqEmpty
  <2> QED BY <2>1
<1>2. CASE p > 0
  <2>1. 1 \in 1..Len(s) /\ p \in 1..Len(s)
    BY <1>2
  <2> QED BY <2>1, SubSeqOfConcat1
<1> QED BY <1>1, <1>2

-----------------------------------------------------------------------------
LEMMA InitIInv == Init => IInv
<1> SUFFICES ASSUME Init PROVE IInv
  OBVIOUS
<1>1. /\ \A s \in Streams : m_fileStream[s] = "closed" /\ position[s] = 0
      /\ descriptors = 0 /\ inits = 0
      /\ Closes("writer") = 0 /\ Closes("reader") = 0
      /\ "writer" \in Streams /\ "reader" \in Streams
  BY DEF Init, Streams, Closes
<1>2. /\ exists \in BOOLEAN /\ truncated \in BOOLEAN /\ assignFailed \in BOOLEAN
  <2>1. PICK n \in 0..1 : exists \in {n > 0, TRUE}
    BY DEF Init
  <2>2. (n > 0) \in BOOLEAN
    OBVIOUS
  <2>3. exists \in BOOLEAN
    BY <2>1, <2>2, Zenon
  <2> QED BY <2>3, Zenon DEF Init
<1>3. written \in 0..1 /\ content \in Seq(1..written) /\ Len(content) = written
  BY DEF Init
<1>4. m_buffer \in Seq(1..written) /\ taken \in Seq(1..written)
  BY DEF Init
<1>5. readEc \in {"none", "ok", "eof"} /\ readEc # "eof"
  BY DEF Init
<1>6. /\ m_fileStream \in [Streams -> {"closed", "open"}]
      /\ position \in [Streams -> 0..MaxBytes]
      /\ completion \in [Streams -> ErrorCodes \cup {"none"}]
  BY FileStreamAssumption DEF Init
<1>7. TypeOK
  BY <1>1, <1>2, <1>3, <1>4, <1>5, <1>6, FileStreamAssumption DEF TypeOK
<1>8. Within /\ ReadsFromTheStart /\ EofHidesNothing
  BY <1>1, <1>3, <1>5 DEF Within, ReadsFromTheStart, EofHidesNothing
<1>9. Descriptors
  BY <1>1 DEF Descriptors, OpenStreams
<1> QED BY <1>7, <1>8, <1>9 DEF IInv

\* The steps that leave the file and the streams as they are.
Bystander == /\ UNCHANGED <<files, streams>>
             /\ inits' \in {inits, inits + 1} /\ inits' \in 0..MaxInits
             /\ completion' \in [Streams -> ErrorCodes \cup {"none"}]
             /\ readEc' = "none"

LEMMA BystanderStep == ASSUME IInv, Bystander PROVE IInv'
<1>1. /\ exists' = exists /\ content' = content /\ written' = written
      /\ descriptors' = descriptors /\ m_fileStream' = m_fileStream
      /\ position' = position /\ m_buffer' = m_buffer /\ taken' = taken
      /\ truncated' = truncated /\ assignFailed' = assignFailed
  BY DEF Bystander, files, streams
<1>2. exists' \in BOOLEAN /\ truncated' \in BOOLEAN /\ assignFailed' \in BOOLEAN
  BY <1>1, Zenon DEF IInv, TypeOK
<1>3. PICK j \in {inits, inits + 1} : inits' = j
  BY DEF Bystander
<1> inits \in Nat /\ j \in Nat /\ inits <= j /\ descriptors \in Nat
  BY <1>3 DEF IInv, TypeOK
<1>4. descriptors' \in 0..(inits' + 2)
  <2>1. descriptors <= inits + 2
    BY DEF IInv, TypeOK
  <2>2. descriptors \in 0..(j + 2)
    BY <2>1
  <2> QED BY <1>1, <1>3, <2>2
<1>5. TypeOK'
  <2>1. /\ content' \in Seq(1..written') /\ m_buffer' \in Seq(1..written')
        /\ taken' \in Seq(1..written')
    BY <1>1 DEF IInv, TypeOK
  <2>2. /\ written' \in 0..MaxBytes
        /\ m_fileStream' \in [Streams -> {"closed", "open"}]
        /\ position' \in [Streams -> 0..MaxBytes]
    BY <1>1 DEF IInv, TypeOK
  <2>3. /\ completion' \in [Streams -> ErrorCodes \cup {"none"}]
        /\ readEc' \in {"none", "ok", "eof"} /\ inits' \in 0..MaxInits
    BY DEF Bystander
  <2> QED BY <1>2, <1>3, <1>4, <2>1, <2>2, <2>3 DEF TypeOK
<1>6. Within' /\ ReadsFromTheStart' /\ EofHidesNothing'
  BY <1>1 DEF IInv, Within, ReadsFromTheStart, EofHidesNothing, Bystander
<1>7. Descriptors'
  <2>1. descriptors <= inits
    BY DEF IInv, Descriptors
  <2>2. descriptors <= j
    BY <2>1
  <2>3. descriptors' <= inits'
    BY <1>1, <1>3, <2>2
  <2>4. /\ OpenStreams' <= descriptors'
        /\ ~assignFailed' => descriptors' = OpenStreams'
    BY <1>1 DEF IInv, Descriptors, OpenStreams, Closes
  <2> QED BY <2>3, <2>4 DEF Descriptors
<1> QED BY <1>5, <1>6, <1>7 DEF IInv

\* ::open leaves the bytes in the file or none.
LEMMA FileContent ==
    ASSUME IInv, NEW s \in Streams, OpenFile(s)
    PROVE  content' \in Seq(1..written') /\ Len(content') <= written'
<1>1. /\ written' = written /\ written \in Nat
      /\ content \in Seq(1..written) /\ Len(content) <= written
  BY DEF IInv, TypeOK, Within, OpenFile
<1>2. CASE content' = <<>>
  <2>1. <<>> \in Seq(1..written) /\ Len(<<>>) = 0
    OBVIOUS
  <2> QED BY <1>1, <1>2, <2>1
<1>3. CASE content' = content
  BY <1>1, <1>3
<1> QED BY <1>2, <1>3 DEF OpenFile

\* The stream owns the new descriptor and starts at the first byte.
LEMMA Opened ==
    ASSUME IInv, NEW s \in Streams, MayInit(s), OpenFile(s), Assign(s),
           inits' = inits + 1, inits' \in 0..MaxInits,
           completion' \in [Streams -> ErrorCodes \cup {"none"}], readEc' = "none"
    PROVE  IInv'
<1>1. /\ written' = written /\ written \in 0..MaxBytes /\ inits \in Nat
      /\ descriptors \in Nat /\ descriptors' = descriptors + 1
      /\ m_buffer' = m_buffer /\ assignFailed' = assignFailed
      /\ m_fileStream[s] = "closed"
      /\ s = "reader" => m_buffer = <<>>
  BY DEF IInv, TypeOK, OpenFile, Assign, MayInit
<1>2. /\ exists' \in BOOLEAN /\ truncated' \in BOOLEAN /\ assignFailed' \in BOOLEAN
  <2>1. (s = "writer") \in BOOLEAN
    OBVIOUS
  <2> QED BY <2>1, Zenon DEF IInv, TypeOK, OpenFile, Assign
<1>3. m_fileStream' \in [Streams -> {"closed", "open"}]
  BY DEF IInv, TypeOK, Assign
<1>4. position' \in [Streams -> 0..MaxBytes]
  BY FileStreamAssumption DEF IInv, TypeOK, Assign
<1>5. content' \in Seq(1..written') /\ Len(content') <= written'
  BY <1>1, FileContent DEF IInv, TypeOK
<1>6. m_buffer' \in Seq(1..written') /\ taken' \in Seq(1..written')
  <2>1. <<>> \in Seq(1..written)
    OBVIOUS
  <2> QED BY <1>1, <2>1 DEF IInv, TypeOK, Assign
<1>7. Within'
  <2>1. \A r \in Streams : position'[r] <= written'
    BY <1>1 DEF IInv, TypeOK, Within, Assign
  <2>2. m_fileStream'["reader"] = "open" /\ ~truncated' => position'["reader"] <= Len(content')
    <3>1. s = "reader" => position'["reader"] = 0
      BY DEF IInv, TypeOK, Assign
    <3>2. Len(content') \in Nat
      BY <1>5
    <3>3. s = "writer" => truncated'
      BY DEF Assign
    <3> QED BY <3>1, <3>2, <3>3 DEF Streams
  <2> QED BY <1>5, <2>1, <2>2 DEF Within
<1>8. ReadsFromTheStart'
  <2>1. CASE s = "writer"
    BY <2>1 DEF Assign, ReadsFromTheStart
  <2>2. CASE s = "reader"
    <3>1. /\ taken' = <<>> /\ m_buffer' = <<>>
          /\ position'["reader"] = 0
      BY <1>1, <2>2 DEF IInv, TypeOK, Assign
    <3>2. SubSeq(content', 1, 0) = <<>>
      BY <1>5, SubSeqEmpty
    <3>3. <<>> \o <<>> = <<>>
      OBVIOUS
    <3> QED BY <3>1, <3>2, <3>3 DEF ReadsFromTheStart
  <2> QED BY <2>1, <2>2 DEF Streams
<1>9. EofHidesNothing'
  BY DEF EofHidesNothing
<1>10. Descriptors'
  <2>1. OpenStreams \in Nat /\ OpenStreams' = OpenStreams + 1
    <3>1. /\ Closes(s) = 0 /\ Closes(s)' = 1
      BY <1>1 DEF Closes, Assign, IInv, TypeOK
    <3>2. \A r \in Streams : r # s => Closes(r)' = Closes(r)
      BY DEF Closes, Assign, IInv, TypeOK
    <3>3. Closes("writer") \in Nat /\ Closes("reader") \in Nat
      BY DEF Closes
    <3> QED BY <3>1, <3>2, <3>3 DEF OpenStreams, Streams
  <2> QED BY <1>1, <2>1 DEF IInv, Descriptors
<1>11. TypeOK'
  <2>1. readEc' \in {"none", "ok", "eof"}
    OBVIOUS
  <2>2. descriptors' \in 0..(inits' + 2)
    BY <1>1, <1>10 DEF Descriptors
  <2> QED BY <1>1, <1>2, <1>3, <1>4, <1>5, <1>6, <2>1, <2>2 DEF TypeOK
<1> QED BY <1>7, <1>8, <1>9, <1>10, <1>11 DEF IInv

\* The descriptor of a refused assign stays open without an owner.
LEMMA Refused ==
    ASSUME IInv, NEW s \in Streams, ~IsOpen(s), OpenFile(s), AssignIsRefused(s),
           inits' = inits + 1, inits' \in 0..MaxInits,
           completion' \in [Streams -> ErrorCodes \cup {"none"}], readEc' = "none"
    PROVE  IInv'
<1>1. /\ written' = written /\ inits \in Nat
      /\ descriptors \in Nat /\ descriptors' = descriptors + 1
      /\ m_buffer' = m_buffer /\ taken' = taken
      /\ m_fileStream' = m_fileStream /\ position' = position
      /\ m_fileStream[s] = "closed"
  BY DEF IInv, TypeOK, OpenFile, AssignIsRefused, IsOpen
<1>2. /\ exists' \in BOOLEAN /\ truncated' \in BOOLEAN
      /\ assignFailed' \in BOOLEAN /\ assignFailed'
  <2>1. (truncated \/ s = "writer") \in BOOLEAN
    OBVIOUS
  <2>2. (assignFailed \/ m_fileStream[s] = "closed") \in BOOLEAN
    OBVIOUS
  <2>3. exists' \in BOOLEAN
    BY Zenon DEF IInv, TypeOK, OpenFile
  <2> QED BY <1>1, <2>1, <2>2, <2>3, Zenon DEF AssignIsRefused
<1>3. content' \in Seq(1..written') /\ Len(content') <= written'
  BY <1>1, FileContent DEF IInv, TypeOK
<1>4. s = "writer" => truncated'
  BY DEF AssignIsRefused
<1>5. s = "reader" => m_fileStream'["reader"] # "open"
  BY <1>1
<1>6. Within' /\ ReadsFromTheStart'
  BY <1>1, <1>3, <1>4, <1>5 DEF IInv, Within, ReadsFromTheStart, Streams
<1>7. EofHidesNothing'
  BY DEF EofHidesNothing
<1>8. Descriptors'
  <2>1. OpenStreams \in Nat /\ OpenStreams' = OpenStreams
    BY <1>1 DEF OpenStreams, Closes
  <2> QED BY <1>1, <1>2, <2>1 DEF IInv, Descriptors
<1>9. TypeOK'
  <2>1. readEc' \in {"none", "ok", "eof"}
    OBVIOUS
  <2>2. descriptors' \in 0..(inits' + 2)
    BY <1>1, <1>8 DEF Descriptors
  <2>3. m_buffer' \in Seq(1..written') /\ taken' \in Seq(1..written')
    BY <1>1 DEF IInv, TypeOK
  <2>4. /\ written' \in 0..MaxBytes
        /\ m_fileStream' \in [Streams -> {"closed", "open"}]
        /\ position' \in [Streams -> 0..MaxBytes]
    BY <1>1 DEF IInv, TypeOK
  <2> QED BY <1>2, <1>3, <2>1, <2>2, <2>3, <2>4 DEF TypeOK
<1> QED BY <1>6, <1>7, <1>8, <1>9 DEF IInv

LEMMA InitStep ==
    ASSUME IInv, NEW s \in Streams, NEW ec \in ErrorCodes,
           SyncInit(s, ec) \/ AsyncInit(s, ec)
    PROVE  IInv'
<1>1. /\ MayInit(s) /\ Initialize(s, ec) /\ inits' = inits + 1 /\ readEc' = "none"
      /\ completion' \in [Streams -> ErrorCodes \cup {"none"}]
  BY DEF IInv, TypeOK, SyncInit, AsyncInit
<1>2. inits' \in 0..MaxInits
  BY <1>1, FileStreamAssumption DEF IInv, TypeOK, MayInit
<1>3. CASE UNCHANGED <<files, streams>>
  BY <1>1, <1>2, <1>3, BystanderStep DEF Bystander
<1>4. CASE OpenFile(s) /\ Assign(s)
  BY <1>1, <1>2, <1>4, Opened
<1>5. CASE ~IsOpen(s) /\ OpenFile(s) /\ AssignIsRefused(s)
  BY <1>1, <1>2, <1>5, Refused
<1> QED BY <1>1, <1>3, <1>4, <1>5 DEF Initialize

LEMMA OnDispatchStep ==
    ASSUME IInv, NEW s \in Streams, OnDispatch(s)
    PROVE  IInv'
<1>1. Bystander
  BY DEF IInv, TypeOK, OnDispatch, Bystander
<1> QED BY <1>1, BystanderStep

LEMMA WriteStep ==
    ASSUME IInv, NEW n \in 1..MaxBytes, Write(n)
    PROVE  IInv'
<1> DEFINE new == [i \in 1..n |-> written + i]
<1>1. /\ written \in Nat /\ n \in Nat /\ written' = written + n
      /\ written' \in 0..MaxBytes /\ written <= written'
      /\ content' = content \o new
      /\ position' = [position EXCEPT !["writer"] = @ + n]
      /\ m_buffer' = m_buffer /\ taken' = taken /\ m_fileStream' = m_fileStream
      /\ descriptors' = descriptors /\ inits' = inits /\ completion' = completion
      /\ readEc' = "none"
  BY FileStreamAssumption DEF IInv, TypeOK, Write, asyncs
<1>2. exists' \in BOOLEAN /\ truncated' \in BOOLEAN /\ assignFailed' \in BOOLEAN
  BY Zenon DEF IInv, TypeOK, Write
<1>3. new \in Seq(1..written') /\ Len(new) = n
  <2>1. \A i \in 1..n : written + i \in 1..(written + n)
    BY <1>1
  <2>2. new \in [1..n -> 1..written']
    BY <1>1, <2>1
  <2> QED BY <1>1, <2>2
<1> HIDE DEF new
<1>4. /\ content \in Seq(1..written') /\ content \in Seq(Nat) /\ Len(content) \in Nat
      /\ m_buffer' \in Seq(1..written') /\ taken' \in Seq(1..written')
  <2>1. content \in Seq(1..written) /\ m_buffer \in Seq(1..written) /\ taken \in Seq(1..written)
    BY DEF IInv, TypeOK
  <2> QED BY <1>1, <2>1, MoreBytes
<1>5. content' \in Seq(1..written') /\ Len(content') = Len(content) + n
  <2> DEFINE S == 1..written'
  <2>1. content \in Seq(S) /\ new \in Seq(S) /\ Len(new) = n
    BY <1>3, <1>4
  <2> HIDE DEF S
  <2>2. content \o new \in Seq(S) /\ Len(content \o new) = Len(content) + Len(new)
    BY <2>1, ConcatProperties, ZenonT(60)
  <2> QED BY <1>1, <2>1, <2>2 DEF S
<1>6. /\ position \in [Streams -> 0..MaxBytes]
      /\ \A s \in Streams : position[s] \in Nat /\ position[s] <= written
  BY DEF IInv, TypeOK, Within
<1>7. /\ position' \in [Streams -> 0..MaxBytes]
      /\ \A s \in Streams : position'[s] <= written'
      /\ position'["reader"] = position["reader"]
  <2>1. position["writer"] + n \in 0..MaxBytes /\ position["writer"] + n <= written'
    <3>1. position["writer"] \in Nat /\ position["writer"] <= written
      BY <1>6 DEF Streams
    <3>2. written' \in Nat /\ written' <= MaxBytes /\ MaxBytes \in Nat
      BY <1>1, FileStreamAssumption
    <3> QED BY <1>1, <3>1, <3>2
  <2> QED BY <1>1, <1>6, <2>1 DEF Streams
<1>8. TypeOK'
  <2>1. /\ m_fileStream' \in [Streams -> {"closed", "open"}]
        /\ completion' \in [Streams -> ErrorCodes \cup {"none"}]
        /\ inits' \in 0..MaxInits /\ descriptors' \in 0..(inits' + 2)
        /\ readEc' \in {"none", "ok", "eof"}
    BY <1>1 DEF IInv, TypeOK
  <2> QED BY <1>1, <1>2, <1>4, <1>5, <1>7, <2>1 DEF TypeOK
<1>9. Within'
  <2>1. Len(content') <= written'
    BY <1>1, <1>4, <1>5 DEF IInv, Within
  <2>2. m_fileStream'["reader"] = "open" /\ ~truncated'
           => position["reader"] <= Len(content)
    BY <1>1 DEF IInv, Within, Write
  <2>3. position["reader"] \in Nat
    BY <1>6 DEF Streams
  <2> QED BY <1>1, <1>4, <1>5, <1>7, <2>1, <2>2, <2>3 DEF Within
<1>10. ReadsFromTheStart'
  <2> SUFFICES ASSUME m_fileStream["reader"] = "open", ~truncated
               PROVE  taken \o m_buffer = SubSeq(content', 1, position["reader"])
    BY <1>1, <1>7 DEF ReadsFromTheStart, Write
  <2>1. position["reader"] \in 0..Len(content)
    BY <1>4, <1>6 DEF IInv, Within, Streams
  <2>2. new \in Seq(Nat)
    BY <1>1, <1>3, MoreBytes
  <2>3. SubSeq(content', 1, position["reader"]) = SubSeq(content, 1, position["reader"])
    BY <1>1, <1>4, <2>1, <2>2, Appending
  <2> QED BY <2>3 DEF IInv, ReadsFromTheStart
<1>11. EofHidesNothing'
  BY <1>1 DEF EofHidesNothing
<1>12. Descriptors'
  <2>1. assignFailed' = assignFailed
    BY DEF Write
  <2> QED BY <1>1, <2>1 DEF IInv, Descriptors, OpenStreams, Closes
<1> QED BY <1>8, <1>9, <1>10, <1>11, <1>12 DEF IInv

\* Reading moves bytes behind the position into the buffer.
LEMMA ReadAtLeastStep ==
    ASSUME IInv, NEW n \in 1..MaxBytes, ReadAtLeast(n)
    PROVE  IInv'
<1> DEFINE p == position["reader"]
<1>1. /\ written \in Nat /\ content \in Seq(1..written) /\ content \in Seq(Nat)
      /\ Len(content) \in Nat /\ Len(content) <= written /\ written <= MaxBytes
      /\ m_buffer \in Seq(1..written) /\ taken \in Seq(1..written)
      /\ position \in [Streams -> 0..MaxBytes] /\ p \in Nat /\ p <= written
  <2>1. /\ written \in Nat /\ written <= MaxBytes /\ content \in Seq(1..written)
        /\ m_buffer \in Seq(1..written) /\ taken \in Seq(1..written)
        /\ position \in [Streams -> 0..MaxBytes] /\ p \in Nat /\ p <= written
        /\ Len(content) <= written
    BY DEF IInv, TypeOK, Within, Streams
  <2>2. content \in Seq(Nat) /\ Len(content) \in Nat
    BY <2>1, MoreBytes
  <2> QED BY <2>1, <2>2
<1>2. PICK k \in 0..Len(Rest) :
          /\ \/ readEc' = "ok" /\ m_buffer' = m_buffer \o SubSeq(Rest, 1, k)
             \/ k = Len(Rest) /\ readEc' = "eof" /\ m_buffer' = m_buffer \o Rest
          /\ position' = [position EXCEPT !["reader"] = @ + k]
  BY DEF ReadAtLeast, AtEof
<1>3. /\ Rest \in Seq(1..written) /\ SubSeq(Rest, 1, k) \in Seq(1..written)
      /\ p + k <= Len(content) \/ k = 0
      /\ p <= Len(content) => Len(Rest) = Len(content) - p
  BY <1>1, Behind DEF Rest
<1>4. /\ m_buffer' = m_buffer \o SubSeq(Rest, 1, k)
      /\ readEc' = "eof" => k = Len(Rest)
      /\ readEc' \in {"ok", "eof"}
  <2>1. Rest \in Seq(1..written) => SubSeq(Rest, 1, Len(Rest)) = Rest
    BY SubSeqFull
  <2> QED BY <1>2, <1>3, <2>1
<1>5. /\ files' = files /\ m_fileStream' = m_fileStream /\ taken' = taken
      /\ inits' = inits /\ completion' = completion /\ written' = written
      /\ content' = content /\ descriptors' = descriptors
  BY DEF ReadAtLeast, asyncs, files
<1>6. exists' \in BOOLEAN /\ truncated' \in BOOLEAN /\ assignFailed' \in BOOLEAN
  BY Zenon DEF IInv, TypeOK, ReadAtLeast, files
<1>7. k \in Nat /\ p + k <= written
  <2>1. Len(Rest) \in Nat
    BY <1>3
  <2> QED BY <1>1, <1>3, <2>1
<1>8. /\ position' \in [Streams -> 0..MaxBytes]
      /\ \A s \in Streams : position'[s] <= written'
      /\ position'["reader"] = p + k
  <2>1. p + k \in 0..MaxBytes
    BY <1>1, <1>7, FileStreamAssumption
  <2>2. /\ position' \in [Streams -> 0..MaxBytes] /\ position'["reader"] = p + k
        /\ position'["writer"] = position["writer"]
    BY <1>1, <1>2, <2>1 DEF Streams
  <2>3. position["writer"] <= written
    BY DEF IInv, Within, Streams
  <2> QED BY <1>5, <1>7, <2>2, <2>3 DEF Streams
<1>9. m_buffer' \in Seq(1..written')
  BY <1>1, <1>3, <1>4, <1>5, ConcatProperties
<1>10. TypeOK'
  <2>1. /\ m_fileStream' \in [Streams -> {"closed", "open"}]
        /\ completion' \in [Streams -> ErrorCodes \cup {"none"}]
        /\ inits' \in 0..MaxInits /\ descriptors' \in 0..(inits' + 2)
        /\ written' \in 0..MaxBytes
    BY <1>5 DEF IInv, TypeOK
  <2>2. content' \in Seq(1..written') /\ taken' \in Seq(1..written')
    BY <1>1, <1>5
  <2>3. readEc' \in {"none", "ok", "eof"}
    BY <1>4
  <2> QED BY <1>6, <1>8, <1>9, <2>1, <2>2, <2>3 DEF TypeOK
\* Of an open reader whose file was not replaced.
<1>11. ASSUME m_fileStream["reader"] = "open", ~truncated
       PROVE  /\ p + k <= Len(content)
              /\ taken \o m_buffer' = SubSeq(content, 1, p + k)
              /\ readEc' = "eof" => p + k = Len(content)
  <2>1. p <= Len(content) /\ taken \o m_buffer = SubSeq(content, 1, p)
    BY <1>11 DEF IInv, Within, ReadsFromTheStart
  <2>2. Len(Rest) = Len(content) - p /\ p \in 0..Len(content) /\ k \in 0..(Len(content) - p)
    BY <1>1, <1>2, <1>3, <2>1
  <2>3. SubSeq(content, 1, p) \o SubSeq(Rest, 1, k) = SubSeq(content, 1, p + k)
    BY <1>1, <2>2, ReadingOn DEF Rest
  <2>4. (taken \o m_buffer) \o SubSeq(Rest, 1, k) = taken \o (m_buffer \o SubSeq(Rest, 1, k))
    <3> DEFINE c == SubSeq(Rest, 1, k)
    <3>1. c \in Seq(1..written)
      BY <1>3
    <3>2. taken \in Seq(1..written) /\ m_buffer \in Seq(1..written)
      BY <1>1
    <3> HIDE DEF c
    <3>3. (taken \o m_buffer) \o c = taken \o (m_buffer \o c)
      BY <3>1, <3>2, ConcatAssociative, SMTT(60)
    <3> QED BY <3>3 DEF c
  <2>5. taken \o m_buffer' = SubSeq(content, 1, p + k)
    BY <1>4, <2>1, <2>3, <2>4
  <2>6. p + k <= Len(content) /\ (k = Len(Rest) => p + k = Len(content))
    BY <1>1, <2>2
  <2> QED BY <1>4, <2>5, <2>6
<1>12. m_fileStream["reader"] = "open" /\ (truncated' <=> truncated)
  BY DEF ReadAtLeast
<1>13. Within'
  BY <1>1, <1>5, <1>8, <1>11, <1>12 DEF Within
<1>14. ReadsFromTheStart'
  BY <1>5, <1>8, <1>11, <1>12 DEF ReadsFromTheStart
<1>15. EofHidesNothing'
  <2>1. SubSeq(content, 1, Len(content)) = content
    BY <1>1, SubSeqFull
  <2> QED BY <1>5, <1>11, <1>12, <2>1 DEF EofHidesNothing
<1>16. Descriptors'
  <2>1. assignFailed' = assignFailed
    BY DEF ReadAtLeast
  <2> QED BY <1>5, <2>1 DEF IInv, Descriptors, OpenStreams, Closes
<1> QED BY <1>10, <1>13, <1>14, <1>15, <1>16 DEF IInv

LEMMA ConsumeStep ==
    ASSUME IInv, NEW n \in 1..MaxBytes, Consume(n)
    PROVE  IInv'
<1>1. /\ files' = files /\ m_fileStream' = m_fileStream /\ position' = position
      /\ inits' = inits /\ completion' = completion /\ written' = written
      /\ content' = content /\ descriptors' = descriptors /\ readEc' = "none"
      /\ taken' = taken \o SubSeq(m_buffer, 1, n)
      /\ m_buffer' = SubSeq(m_buffer, n + 1, Len(m_buffer))
  BY DEF Consume, asyncs, files
<1>2. exists' \in BOOLEAN /\ truncated' \in BOOLEAN /\ assignFailed' \in BOOLEAN
  BY Zenon DEF IInv, TypeOK, Consume, files
<1>3. taken \in Seq(1..written) /\ m_buffer \in Seq(1..written)
  BY DEF IInv, TypeOK
<1>4. n \in 0..Len(m_buffer)
  BY <1>3, FileStreamAssumption DEF Consume
<1>5. /\ taken' \in Seq(1..written') /\ m_buffer' \in Seq(1..written')
      /\ taken' \o m_buffer' = taken \o m_buffer
  <2> DEFINE S == 1..written
  <2>1. taken \in Seq(S) /\ m_buffer \in Seq(S)
    BY <1>3
  <2> HIDE DEF S
  <2>2. Moves(S, taken, m_buffer, n)
    BY <1>4, <2>1, Consuming
  <2> QED BY <1>1, <2>2 DEF S, Moves
<1>6. TypeOK'
  <2>1. /\ m_fileStream' \in [Streams -> {"closed", "open"}]
        /\ completion' \in [Streams -> ErrorCodes \cup {"none"}]
        /\ position' \in [Streams -> 0..MaxBytes]
        /\ inits' \in 0..MaxInits /\ descriptors' \in 0..(inits' + 2)
        /\ written' \in 0..MaxBytes /\ content' \in Seq(1..written')
        /\ readEc' \in {"none", "ok", "eof"}
    BY <1>1 DEF IInv, TypeOK
  <2> QED BY <1>2, <1>5, <2>1 DEF TypeOK
<1>7. Within' /\ ReadsFromTheStart' /\ EofHidesNothing'
  BY <1>1, <1>5 DEF IInv, Within, ReadsFromTheStart, EofHidesNothing, Consume
<1>8. Descriptors'
  <2>1. assignFailed' = assignFailed
    BY DEF Consume
  <2> QED BY <1>1, <2>1 DEF IInv, Descriptors, OpenStreams, Closes
<1> QED BY <1>6, <1>7, <1>8 DEF IInv

LEMMA CloseStep ==
    ASSUME IInv, NEW s \in Streams, Close(s)
    PROVE  IInv'
<1>1. /\ m_fileStream' = [m_fileStream EXCEPT ![s] = "closed"]
      /\ descriptors' = descriptors - Closes(s)
      /\ content' = content /\ written' = written /\ position' = position
      /\ m_buffer' = m_buffer /\ taken' = taken /\ truncated' = truncated
      /\ assignFailed' = assignFailed
      /\ inits' = inits /\ completion' = completion /\ readEc' = "none"
  BY DEF Close, asyncs
<1>2. exists' \in BOOLEAN /\ truncated' \in BOOLEAN /\ assignFailed' \in BOOLEAN
  BY Zenon DEF IInv, TypeOK, Close
<1>3. /\ m_fileStream \in [Streams -> {"closed", "open"}]
      /\ descriptors \in Nat /\ inits \in Nat
      /\ OpenStreams <= descriptors /\ descriptors <= inits
      /\ ~assignFailed => descriptors = OpenStreams
  BY DEF IInv, TypeOK, Descriptors
<1>4. /\ Closes(s) \in 0..1 /\ OpenStreams \in Nat /\ Closes(s) <= OpenStreams
      /\ OpenStreams' = OpenStreams - Closes(s)
  <2>1. Closes("writer") \in 0..1 /\ Closes("reader") \in 0..1
    BY DEF Closes
  <2>2. Closes(s)' = 0 /\ \A r \in Streams : r # s => Closes(r)' = Closes(r)
    BY <1>1, <1>3 DEF Closes
  <2> QED BY <2>1, <2>2 DEF OpenStreams, Streams
<1>5. /\ descriptors' \in Nat /\ OpenStreams' <= descriptors' /\ descriptors' <= inits
      /\ ~assignFailed => descriptors' = OpenStreams'
  BY <1>1, <1>3, <1>4
<1>6. Descriptors'
  BY <1>1, <1>5 DEF Descriptors
<1>7. m_fileStream' \in [Streams -> {"closed", "open"}]
  BY <1>1, <1>3
<1>8. m_fileStream'["reader"] = "open" => m_fileStream["reader"] = "open"
  BY <1>1, <1>3 DEF Streams
<1>9. TypeOK'
  <2>1. /\ completion' \in [Streams -> ErrorCodes \cup {"none"}]
        /\ position' \in [Streams -> 0..MaxBytes]
        /\ inits' \in 0..MaxInits
        /\ written' \in 0..MaxBytes /\ content' \in Seq(1..written')
        /\ taken' \in Seq(1..written') /\ m_buffer' \in Seq(1..written')
        /\ readEc' \in {"none", "ok", "eof"}
    BY <1>1 DEF IInv, TypeOK
  <2>2. descriptors' \in 0..(inits' + 2)
    BY <1>1, <1>3, <1>5
  <2> QED BY <1>2, <1>7, <2>1, <2>2 DEF TypeOK
<1>10. Within' /\ ReadsFromTheStart' /\ EofHidesNothing'
  BY <1>1, <1>8 DEF IInv, Within, ReadsFromTheStart, EofHidesNothing
<1> QED BY <1>6, <1>9, <1>10 DEF IInv

LEMMA NextStep == IInv /\ [Next]_vars => IInv'
<1> SUFFICES ASSUME IInv, [Next]_vars PROVE IInv'
  OBVIOUS
<1>1. CASE UNCHANGED vars
  <2>1. exists' \in BOOLEAN /\ truncated' \in BOOLEAN /\ assignFailed' \in BOOLEAN
    BY <1>1, Zenon DEF IInv, TypeOK, vars, files, streams
  <2>2. TypeOK'
    BY <1>1, <2>1 DEF IInv, TypeOK, vars, files, streams, asyncs
  <2> QED BY <1>1, <2>2 DEF IInv, Within, Descriptors, OpenStreams, Closes, ReadsFromTheStart,
                            EofHidesNothing, vars, files, streams, asyncs
<1>2. ASSUME NEW s \in Streams, NEW ec \in ErrorCodes, SyncInit(s, ec) \/ AsyncInit(s, ec)
      PROVE  IInv'
  BY <1>2, InitStep
<1>3. ASSUME NEW s \in Streams, OnDispatch(s) \/ Close(s)
      PROVE  IInv'
  BY <1>3, OnDispatchStep, CloseStep
<1>4. ASSUME NEW n \in 1..MaxBytes, Write(n) \/ ReadAtLeast(n) \/ Consume(n)
      PROVE  IInv'
  BY <1>4, WriteStep, ReadAtLeastStep, ConsumeStep
<1> QED BY <1>1, <1>2, <1>3, <1>4 DEF Next

\* The inductive invariant holds in every state of init, read, write, consume and close.
THEOREM Invariance == Spec => []IInv
<1> QED BY InitIInv, NextStep, PTL DEF Spec

-----------------------------------------------------------------------------
(***************************************************************************)
(* The types of the model, which bound the bytes and descriptors there     *)
(* are: FileStream.cpp opens one descriptor per initialization at most.    *)
(***************************************************************************)
THEOREM TypeCorrect == Spec => []TypeOK
<1>1. IInv => TypeOK
  BY DEF IInv
<1> QED BY <1>1, Invariance, PTL

(***************************************************************************)
(* What a reader has consumed and holds is the file from its first byte to *)
(* the reader's position, whatever the writer appends meanwhile.           *)
(***************************************************************************)
THEOREM ReaderMissesNothing == Spec => []ReadsFromTheStart
<1>1. IInv => ReadsFromTheStart
  BY DEF IInv
<1> QED BY <1>1, Invariance, PTL

(***************************************************************************)
(* When a read answers end of file, the reader has all of the file.        *)
(***************************************************************************)
THEOREM EofIsTheEnd == Spec => []EofHidesNothing
<1>1. IInv => EofHidesNothing
  BY DEF IInv
<1> QED BY <1>1, Invariance, PTL

(***************************************************************************)
(* As long as assign never failed, the descriptors of the process are      *)
(* those of its open streams: init and close neither leak nor overdraw.    *)
(***************************************************************************)
THEOREM DescriptorsAreOwned == Spec => []OwnedDescriptors
<1>1. IInv => OwnedDescriptors
  <2> SUFFICES ASSUME IInv, ~assignFailed
               PROVE  descriptors = Cardinality({s \in Streams : m_fileStream[s] = "open"})
    BY DEF OwnedDescriptors
  <2>1. descriptors = OpenStreams
    BY DEF IInv, Descriptors
  <2>2. CASE m_fileStream["writer"] = "open" /\ m_fileStream["reader"] = "open"
    <3>1. {s \in Streams : m_fileStream[s] = "open"} = {"writer"} \cup {"reader"}
      BY <2>2 DEF Streams
    <3>2. /\ Cardinality({"writer"}) = 1 /\ IsFiniteSet({"writer"})
          /\ "reader" \notin {"writer"}
      BY FS_Singleton
    <3>3. Cardinality({"writer"} \cup {"reader"}) = 1 + 1
      BY <3>2, FS_AddElement
    <3> QED BY <2>1, <2>2, <3>1, <3>3 DEF OpenStreams, Closes
  <2>3. CASE m_fileStream["writer"] = "open" /\ m_fileStream["reader"] # "open"
    <3>1. {s \in Streams : m_fileStream[s] = "open"} = {"writer"}
      BY <2>3 DEF Streams
    <3>2. Cardinality({"writer"}) = 1
      BY FS_Singleton
    <3> QED BY <2>1, <2>3, <3>1, <3>2 DEF OpenStreams, Closes
  <2>4. CASE m_fileStream["writer"] # "open" /\ m_fileStream["reader"] = "open"
    <3>1. {s \in Streams : m_fileStream[s] = "open"} = {"reader"}
      BY <2>4 DEF Streams
    <3>2. Cardinality({"reader"}) = 1
      BY FS_Singleton
    <3> QED BY <2>1, <2>4, <3>1, <3>2 DEF OpenStreams, Closes
  <2>5. CASE m_fileStream["writer"] # "open" /\ m_fileStream["reader"] # "open"
    <3>1. {s \in Streams : m_fileStream[s] = "open"} = {}
      BY <2>5 DEF Streams
    <3> QED BY <2>1, <2>5, <3>1, FS_EmptySet DEF OpenStreams, Closes
  <2> QED BY <2>2, <2>3, <2>4, <2>5
<1> QED BY <1>1, Invariance, PTL

\* Each step leaves the bytes of the file, or a closed writable stream opens it.
LEMMA StepKeepsBytes ==
    ASSUME IInv, Next
    PROVE  \/ Len(content') >= Len(content) /\ SubSeq(content', 1, Len(content)) = content
           \/ m_fileStream["writer"] = "closed"
<1>1. /\ written \in Nat /\ content \in Seq(1..written) /\ Len(content) \in Nat
      /\ m_fileStream["writer"] \in {"closed", "open"}
  BY DEF IInv, TypeOK, Streams
<1>2. SubSeq(content, 1, Len(content)) = content
  BY <1>1, SubSeqFull
<1>3. CASE content' = content
  BY <1>1, <1>2, <1>3
<1>4. ASSUME NEW s \in Streams, NEW ec \in ErrorCodes, Initialize(s, ec)
      PROVE  content' = content \/ m_fileStream["writer"] = "closed"
  BY <1>1, <1>4 DEF Initialize, IsOpen, OpenFile, files
<1>5. ASSUME NEW n \in 1..MaxBytes, Write(n)
      PROVE  Len(content') >= Len(content) /\ SubSeq(content', 1, Len(content)) = content
  <2> DEFINE new == [i \in 1..n |-> written + i]
  <2>1. new \in Seq(Nat) /\ content' = content \o new
    BY <1>1, <1>5 DEF Write
  <2>2. content \in Seq(Nat)
    BY <1>1, MoreBytes
  <2> HIDE DEF new
  <2>3. Len(content') = Len(content) + Len(new) /\ Len(new) \in Nat
    BY <2>1, <2>2, ConcatProperties
  <2>4. SubSeq(content', 1, Len(content)) = SubSeq(content, 1, Len(content))
    BY <1>1, <2>1, <2>2, Appending
  <2> QED BY <1>1, <1>2, <2>3, <2>4
<1>6. ASSUME NEW s \in Streams, OnDispatch(s) \/ Close(s)
      PROVE  content' = content
  BY <1>6 DEF OnDispatch, Close, files
<1>7. ASSUME NEW n \in 1..MaxBytes, ReadAtLeast(n) \/ Consume(n)
      PROVE  content' = content
  BY <1>7 DEF ReadAtLeast, Consume, files
<1> QED BY <1>3, <1>4, <1>5, <1>6, <1>7 DEF Next, SyncInit, AsyncInit

(***************************************************************************)
(* What was written is lost only when a writable stream that was closed is *)
(* opened, never by initializing one that is open.                         *)
(***************************************************************************)
THEOREM OnlyOpeningReplaces == Spec => WrittenStays
<1>1. IInv /\ [Next]_vars
         => [~(Len(content') >= Len(content) /\ SubSeq(content', 1, Len(content)) = content)
               => m_fileStream["writer"] = "closed"]_vars
  BY StepKeepsBytes
<1> QED BY <1>1, Invariance, PTL DEF Spec, WrittenStays
=============================================================================
