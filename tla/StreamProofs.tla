---------------------------- MODULE StreamProofs ----------------------------
(***************************************************************************)
(* Proofs about Stream, for every number of bytes, request size, capacity  *)
(* of the wire and, where it is not said otherwise, with the application   *)
(* consuming during a read or not.                                         *)
(***************************************************************************)
EXTENDS Stream, TLAPS

-----------------------------------------------------------------------------
(* Consecutive bytes: what joining, cutting and creating them yields. *)

(***************************************************************************)
(* Two runs of consecutive bytes, the second where the first ends, make    *)
(* one run: what commit appends to m_buffer and consume to consumed.       *)
(***************************************************************************)
LEMMA FollowsJoin ==
    ASSUME NEW s \in Seq(Nat), NEW t \in Seq(Nat), NEW k \in Nat,
           NEW j \in Nat, j = k + Len(s), Follows(s, k), Follows(t, j)
    PROVE  /\ s \o t \in Seq(Nat)
           /\ Len(s \o t) = Len(s) + Len(t)
           /\ Follows(s \o t, k)
<1>1. s \o t \in Seq(Nat) /\ Len(s \o t) = Len(s) + Len(t)
  OBVIOUS
<1>2. ASSUME NEW i \in 1..Len(s \o t) PROVE (s \o t)[i] = k + i
  <2>1. CASE i <= Len(s)
    BY <1>1, <2>1 DEF Follows
  <2>2. CASE i > Len(s)
    <3>1. i - Len(s) \in 1..Len(t) /\ (s \o t)[i] = t[i - Len(s)]
      BY <1>1, <2>2
    <3>2. t[i - Len(s)] = (k + Len(s)) + (i - Len(s))
      BY <3>1 DEF Follows
    <3> QED BY <3>1, <3>2
  <2> QED BY <2>1, <2>2, <1>1
<1> QED BY <1>1, <1>2 DEF Follows

(***************************************************************************)
(* Cutting a run after n bytes leaves two runs: consume, and a reception   *)
(* of a part of what is on the wire.                                       *)
(***************************************************************************)
LEMMA FollowsCut ==
    ASSUME NEW s \in Seq(Nat), NEW k \in Nat, NEW n \in 0..Len(s), Follows(s, k)
    PROVE  LET head == SubSeq(s, 1, n)
               tail == SubSeq(s, n + 1, Len(s))
           IN  /\ head \in Seq(Nat) /\ Len(head) = n /\ Follows(head, k)
               /\ tail \in Seq(Nat) /\ Len(tail) = Len(s) - n
               /\ Follows(tail, k + n)
<1> DEFINE head == SubSeq(s, 1, n)
           tail == SubSeq(s, n + 1, Len(s))
<1>1. head \in Seq(Nat) /\ Len(head) = n /\ \A i \in 1..n : head[i] = s[i]
  OBVIOUS
<1>2. /\ tail \in Seq(Nat) /\ Len(tail) = Len(s) - n
      /\ \A i \in 1..(Len(s) - n) : tail[i] = s[n + i]
  OBVIOUS
<1>3. Follows(head, k)
  BY <1>1 DEF Follows
<1>4. Follows(tail, k + n)
  BY <1>2 DEF Follows
<1> QED BY <1>1, <1>2, <1>3, <1>4

(***************************************************************************)
(* The bytes a write adds behind the k-th are a run.                       *)
(***************************************************************************)
LEMMA FollowsNew ==
    ASSUME NEW k \in Nat, NEW n \in Nat
    PROVE  LET s == [i \in 1..n |-> k + i]
           IN  s \in Seq(Nat) /\ Len(s) = n /\ Follows(s, k)
BY DEF Follows

\* The empty sequence is a run anywhere.
LEMMA FollowsEmpty ==
    ASSUME NEW k \in Nat PROVE <<>> \in Seq(Nat) /\ Len(<<>>) = 0 /\ Follows(<<>>, k)
BY DEF Follows

-----------------------------------------------------------------------------
(* The inductive invariant. *)

\* What is known of a read between its call and its answer.  The balance says
\* that what the caller asked for is what became available since the call,
\* less what the operation brought, plus what was requested of the socket.
ReadBalance ==
    read # NoRead =>
        /\ read.op \in {"read", "readSome"}
        /\ read.base <= Len(consumed)
        /\ read.got < read.min
        /\ read.size = Available(read.base) - read.got + read.min
        /\ read.op = "readSome" => read.size = 1 /\ read.min = 1
        /\ ~ConsumeWhilePending => read.base = Len(consumed)

StagedIsForRead == staged # <<>> => read # NoRead

\* What is known while the callback of a read runs.
AnswerHolds ==
    /\ SuccessBroughtData
    /\ ~ConsumeWhilePending => SuccessHasData
    /\ EofIsTheEnd

IInv == TypeOK /\ InOrder /\ NothingLost /\ ReadBalance /\ StagedIsForRead
               /\ AnswerHolds

LEMMA InitIInv == Init => IInv
<1> SUFFICES ASSUME Init PROVE IInv
  OBVIOUS
<1> USE DEF Init
<1>1. TypeOK
  BY DEF TypeOK, Reads, Answers, NoRead, NoAnswer
<1>2. InOrder
  BY FollowsEmpty DEF InOrder
<1>3. NothingLost /\ ReadBalance /\ StagedIsForRead
  BY DEF NothingLost, Held, ReadBalance, StagedIsForRead
<1>4. AnswerHolds
  BY DEF AnswerHolds, SuccessBroughtData, SuccessHasData, EofIsTheEnd, NoAnswer
<1> QED BY <1>1, <1>2, <1>3, <1>4 DEF IInv

\* A step that answers nothing has no answer to account for.
LEMMA NoAnswerHolds == readCb' = NoAnswer => AnswerHolds'
BY DEF AnswerHolds, SuccessBroughtData, SuccessHasData, EofIsTheEnd, NoAnswer

-----------------------------------------------------------------------------
(* One lemma per group of actions. *)

\* The peer's steps other than the one that puts bytes on the wire.
LEMMA PeerStep ==
    ASSUME IInv,
           \/ \E n \in 1..MaxRequest : AsyncWrite(n)
           \/ WriteFails
           \/ PeerClose
           \/ \E n \in 0..WireCapacity : ConnectionBreaks(n)
    PROVE  IInv'
<1> USE StreamAssumption
<1>1. ASSUME NEW n \in 1..MaxRequest, AsyncWrite(n) PROVE IInv'
  <2>1. AnswerHolds'
    BY <1>1, NoAnswerHolds DEF AsyncWrite
  <2> QED BY <1>1, <2>1 DEF IInv, AsyncWrite, TypeOK, InOrder, NothingLost, Held,
             ReadBalance, Available, StagedIsForRead, NoAnswer, Answers
<1>2. CASE WriteFails
  <2>1. AnswerHolds'
    BY <1>2, NoAnswerHolds DEF WriteFails
  <2> QED BY <1>2, <2>1 DEF IInv, WriteFails, TypeOK, InOrder, NothingLost, Held,
             ReadBalance, Available, StagedIsForRead, NoAnswer, Answers
<1>3. CASE PeerClose
  <2>1. AnswerHolds'
    BY <1>3, NoAnswerHolds DEF PeerClose
  <2> QED BY <1>3, <2>1 DEF IInv, PeerClose, TypeOK, InOrder, NothingLost, Held,
             ReadBalance, Available, StagedIsForRead, NoAnswer, Answers
<1>4. ASSUME NEW n \in 0..WireCapacity, ConnectionBreaks(n) PROVE IInv'
  <2>1. AnswerHolds'
    BY <1>4, NoAnswerHolds DEF ConnectionBreaks
  <2>2. n \in 0..Len(wire) /\ wire \in Seq(Nat)
    BY <1>4 DEF IInv, TypeOK, ConnectionBreaks
  <2>3. LET k == Len(consumed) + Len(m_buffer) + Len(staged)
        IN  k \in Nat /\ Follows(wire, k)
    BY DEF IInv, TypeOK, InOrder
  <2>4. /\ wire' \in Seq(Nat) /\ Len(wire') = n
        /\ Follows(wire', Len(consumed) + Len(m_buffer) + Len(staged))
    BY <1>4, <2>2, <2>3, FollowsCut DEF ConnectionBreaks
  <2>5. TypeOK' /\ InOrder'
    BY <1>4, <2>4 DEF IInv, ConnectionBreaks, TypeOK, InOrder, NoAnswer, Answers
  <2>6. NothingLost' /\ ReadBalance' /\ StagedIsForRead'
    BY <1>4, <2>2, <2>4 DEF IInv, ConnectionBreaks, TypeOK, NothingLost, Held,
       ReadBalance, Available, StagedIsForRead
  <2> QED BY <2>1, <2>5, <2>6 DEF IInv
<1> QED BY <1>1, <1>2, <1>3, <1>4

LEMMA WriteSomeStep ==
    ASSUME IInv, NEW n \in 1..MaxRequest, WriteSome(n) PROVE IInv'
<1> USE StreamAssumption
<1> DEFINE new == [i \in 1..n |-> sent + i]
           k == Len(consumed) + Len(m_buffer) + Len(staged)
<1>1. wire \in Seq(Nat) /\ sent \in Nat /\ n \in Nat /\ k \in Nat
  BY DEF IInv, TypeOK
<1>2. sent = k + Len(wire) /\ Follows(wire, k)
  BY DEF IInv, TypeOK, InOrder, NothingLost, Held, WriteSome
<1>3. new \in Seq(Nat) /\ Len(new) = n /\ Follows(new, sent)
  BY <1>1, FollowsNew
<1>4. wire' = wire \o new
  BY DEF WriteSome
<1>5. wire' \in Seq(Nat) /\ Len(wire') = Len(wire) + n /\ Follows(wire', k)
  <2> HIDE DEF new, k
  <2> QED BY <1>1, <1>2, <1>3, <1>4, FollowsJoin
<1>6. TypeOK' /\ InOrder'
  BY <1>1, <1>5 DEF IInv, WriteSome, TypeOK, InOrder, NoAnswer, Answers
<1>7. NothingLost' /\ ReadBalance' /\ StagedIsForRead'
  BY <1>1, <1>2, <1>5 DEF IInv, WriteSome, TypeOK, NothingLost, Held,
     ReadBalance, Available, StagedIsForRead
<1>8. AnswerHolds'
  BY NoAnswerHolds DEF WriteSome
<1> QED BY <1>6, <1>7, <1>8 DEF IInv

\* A call of asyncRead, read, asyncReadSome or readSome.
LEMMA ReadCallStep ==
    ASSUME IInv,
           \/ \E blocking \in BOOLEAN, n \in 0..MaxRequest : Read(blocking, n)
           \/ \E blocking \in BOOLEAN : ReadSome(blocking)
    PROVE  IInv'
<1> USE StreamAssumption
<1>1. ASSUME NEW blocking \in BOOLEAN, NEW n \in 0..MaxRequest, Read(blocking, n)
      PROVE  IInv'
  <2>1. CASE Buffered(n) /\ Answer("read", "ok", n, 0, Len(consumed)) /\ UNCHANGED read
    <3>1. TypeOK' /\ InOrder' /\ NothingLost' /\ ReadBalance' /\ StagedIsForRead'
      BY <1>1, <2>1 DEF IInv, Read, Answer, Answers, TypeOK, InOrder, NothingLost,
         Held, ReadBalance, Available, StagedIsForRead
    <3>2. AnswerHolds'
      BY <1>1, <2>1 DEF IInv, TypeOK, Read, Answer, Buffered, AnswerHolds,
         SuccessBroughtData, SuccessHasData, EofIsTheEnd, Available
    <3> QED BY <3>1, <3>2 DEF IInv
  <2>2. CASE ~Buffered(n) /\ ReadAtLeast("read", blocking, n, Missing(n))
    <3>1. n - Len(m_buffer) \in Nat \ {0}
      BY <2>2 DEF IInv, TypeOK, Buffered
    <3>2. TypeOK'
      BY <1>1, <2>2, <3>1 DEF IInv, Read, ReadAtLeast, Missing, TypeOK, Reads,
         Answers, NoAnswer
    <3>3. InOrder' /\ NothingLost'
      BY <1>1, <2>2 DEF IInv, Read, InOrder, NothingLost, Held
    <3>4. ReadBalance' /\ StagedIsForRead'
      BY <1>1, <2>2, <3>1 DEF IInv, TypeOK, Read, ReadAtLeast, Missing, ReadBalance,
         Available, StagedIsForRead, NoRead
    <3>5. AnswerHolds'
      BY <2>2, NoAnswerHolds DEF ReadAtLeast
    <3> QED BY <3>2, <3>3, <3>4, <3>5 DEF IInv
  <2> QED BY <1>1, <2>1, <2>2 DEF Read
<1>2. ASSUME NEW blocking \in BOOLEAN, ReadSome(blocking) PROVE IInv'
  <2>1. CASE /\ Len(m_buffer) > 0 /\ UNCHANGED read
             /\ Answer("readSome", "ok", 1, Len(m_buffer), Len(consumed))
    <3>1. TypeOK' /\ InOrder' /\ NothingLost' /\ ReadBalance' /\ StagedIsForRead'
      BY <1>2, <2>1 DEF IInv, ReadSome, Answer, Answers, TypeOK, InOrder, NothingLost,
         Held, ReadBalance, Available, StagedIsForRead
    <3>2. AnswerHolds'
      BY <1>2, <2>1 DEF IInv, TypeOK, ReadSome, Answer, AnswerHolds,
         SuccessBroughtData, SuccessHasData, EofIsTheEnd, Available
    <3> QED BY <3>1, <3>2 DEF IInv
  <2>2. CASE Len(m_buffer) = 0 /\ ReadAtLeast("readSome", blocking, 1, 1)
    <3>1. TypeOK'
      BY <1>2, <2>2 DEF IInv, ReadSome, ReadAtLeast, TypeOK, Reads, Answers, NoAnswer
    <3>2. InOrder' /\ NothingLost'
      BY <1>2, <2>2 DEF IInv, ReadSome, InOrder, NothingLost, Held
    <3>3. ReadBalance' /\ StagedIsForRead'
      BY <1>2, <2>2 DEF IInv, TypeOK, ReadSome, ReadAtLeast, ReadBalance,
         Available, StagedIsForRead, NoRead
    <3>4. AnswerHolds'
      BY <2>2, NoAnswerHolds DEF ReadAtLeast
    <3> QED BY <3>1, <3>2, <3>3, <3>4 DEF IInv
  <2> QED BY <1>2, <2>1, <2>2 DEF ReadSome
<1> QED BY <1>1, <1>2

\* consume and copyDataAndConsume, once the number of bytes is settled.
LEMMA TakeStep ==
    ASSUME IInv, MayConsume, NEW n \in 0..Len(m_buffer), Take(n) PROVE IInv'
<1>1. /\ m_buffer \in Seq(Nat) /\ consumed \in Seq(Nat) /\ Len(consumed) \in Nat
      /\ staged \in Seq(Nat) /\ wire \in Seq(Nat)
  BY DEF IInv, TypeOK
<1>2. Follows(m_buffer, Len(consumed)) /\ Follows(consumed, 0)
  BY DEF IInv, InOrder
<1>3. /\ m_buffer' \in Seq(Nat)
      /\ Len(m_buffer') = Len(m_buffer) - n
      /\ Follows(m_buffer', Len(consumed) + n)
  BY <1>1, <1>2, FollowsCut DEF Take, After
<1>4. /\ consumed' \in Seq(Nat)
      /\ Len(consumed') = Len(consumed) + n
      /\ Follows(consumed', 0)
  <2>1. PICK head : /\ head = SubSeq(m_buffer, 1, n)
                    /\ head \in Seq(Nat) /\ Len(head) = n
                    /\ Follows(head, Len(consumed))
    BY <1>1, <1>2, FollowsCut
  <2>2. consumed' = consumed \o head /\ Len(consumed) = 0 + Len(consumed)
    BY <1>1, <2>1 DEF Take
  <2>3. ASSUME NEW k \in Nat, k = 0
        PROVE  /\ consumed \o head \in Seq(Nat)
               /\ Len(consumed \o head) = Len(consumed) + Len(head)
               /\ Follows(consumed \o head, k)
    <3>1. Len(consumed) = k + Len(consumed) /\ Follows(consumed, k)
      BY <1>1, <1>2, <2>3
    <3> QED BY <1>1, <2>1, <3>1, FollowsJoin
  <2> QED BY <2>1, <2>2, <2>3
<1>5. /\ Len(m_buffer) \in Nat /\ Len(staged) \in Nat /\ Len(wire) \in Nat
      /\ Len(consumed') + Len(m_buffer') = Len(consumed) + Len(m_buffer)
      /\ Len(consumed) <= Len(consumed')
  BY <1>1, <1>3, <1>4
<1>6. TypeOK'
  BY <1>3, <1>4 DEF IInv, Take, TypeOK, NoAnswer, Answers
<1>7. InOrder'
  BY <1>3, <1>4, <1>5 DEF IInv, Take, InOrder
<1>8. NothingLost'
  BY <1>5 DEF IInv, Take, NothingLost, Held
<1>9. ReadBalance'
  <2> SUFFICES ASSUME read # NoRead PROVE ReadBalance'
    BY DEF Take, ReadBalance
  <2>1. read' = read /\ ConsumeWhilePending
    BY DEF Take, MayConsume
  <2>2. read.base \in Nat /\ Available(read.base)' = Available(read.base)
    BY <1>1, <1>3, <1>4, <1>5, <2>1 DEF IInv, TypeOK, Reads, Available
  <2> QED BY <1>5, <1>1, <1>4, <2>1, <2>2 DEF IInv, ReadBalance
<1>10. StagedIsForRead' /\ AnswerHolds'
  BY NoAnswerHolds DEF IInv, Take, StagedIsForRead
<1> QED BY <1>6, <1>7, <1>8, <1>9, <1>10 DEF IInv

LEMMA CloseStep == ASSUME IInv, Close PROVE IInv'
<1>1. TypeOK'
  BY DEF IInv, Close, TypeOK, NoAnswer, Answers
<1>2. InOrder'
  BY <1>1, FollowsEmpty DEF IInv, Close, InOrder, TypeOK
<1>3. NothingLost'
  BY DEF IInv, TypeOK, Close, NothingLost, Held
<1>4. ReadBalance' /\ StagedIsForRead'
  BY DEF IInv, Close, ReadBalance, Available, StagedIsForRead
<1>5. AnswerHolds'
  BY NoAnswerHolds DEF Close
<1> QED BY <1>1, <1>2, <1>3, <1>4, <1>5 DEF IInv

LEMMA ReceiveStep ==
    ASSUME IInv, NEW n \in 1..WireCapacity, Receive(n) PROVE IInv'
<1> USE StreamAssumption
<1>1. PICK k \in Nat : k = Len(consumed) + Len(m_buffer)
  BY DEF IInv, TypeOK
<1>2. wire \in Seq(Nat) /\ n \in 0..Len(wire) /\ staged = <<>> /\ Follows(wire, k)
  BY <1>1 DEF IInv, TypeOK, InOrder, Receive
<1>3. /\ staged' \in Seq(Nat) /\ Len(staged') = n /\ Follows(staged', k)
      /\ wire' \in Seq(Nat) /\ Len(wire') = Len(wire) - n /\ Follows(wire', k + n)
  BY <1>1, <1>2, FollowsCut DEF Receive
<1>4. TypeOK' /\ InOrder'
  BY <1>1, <1>3 DEF IInv, Receive, TypeOK, InOrder, NoAnswer, Answers
<1>5. NothingLost'
  <2>1. Len(staged) + Len(wire) = Len(staged') + Len(wire')
    BY <1>2, <1>3
  <2>2. /\ Len(staged) \in Nat /\ Len(wire) \in Nat
        /\ Len(staged') \in Nat /\ Len(wire') \in Nat
    BY <1>2, <1>3
  <2>3. /\ Len(consumed) \in Nat /\ Len(m_buffer) \in Nat
        /\ consumed' = consumed /\ m_buffer' = m_buffer
    BY DEF IInv, TypeOK, Receive
  <2>4. Held' = Held
    BY <2>1, <2>2, <2>3 DEF Held
  <2> QED BY <2>4 DEF IInv, Receive, NothingLost
<1>7. ReadBalance' /\ StagedIsForRead'
  BY DEF IInv, Receive, ReadBalance, Available, StagedIsForRead
<1>6. AnswerHolds'
  BY NoAnswerHolds DEF Receive
<1> QED BY <1>4, <1>5, <1>6, <1>7 DEF IInv

\* The handler of the read operation, whether it completes the read or not.
LEMMA OnReadStep == ASSUME IInv, OnRead PROVE IInv'
<1> DEFINE got == read.got + Len(staged)
<1>1. PICK k \in Nat : k = Len(consumed)
  BY DEF IInv, TypeOK
<1>2. /\ m_buffer \in Seq(Nat) /\ staged \in Seq(Nat) /\ wire \in Seq(Nat)
      /\ Follows(m_buffer, k) /\ Follows(staged, k + Len(m_buffer))
      /\ k + Len(m_buffer) \in Nat
  BY <1>1 DEF IInv, TypeOK, InOrder
<1>3. /\ m_buffer' \in Seq(Nat)
      /\ Len(m_buffer') = Len(m_buffer) + Len(staged)
      /\ Follows(m_buffer', k)
  BY <1>1, <1>2, FollowsJoin DEF OnRead, CommittedBuffer
<1>4. /\ staged' = <<>> /\ Len(staged') = 0 /\ staged' \in Seq(Nat)
      /\ \A x \in Nat : Follows(staged', x)
  BY FollowsEmpty DEF OnRead
<1>5. InOrder'
  <2>1. consumed' = consumed /\ wire' = wire
    BY DEF OnRead
  <2>2. k + Len(m_buffer') \in Nat
    BY <1>2, <1>3
  <2>3. k + Len(m_buffer') + Len(staged') = k + Len(m_buffer) + Len(staged)
    BY <1>2, <1>3, <1>4
  <2> QED BY <1>1, <1>3, <1>4, <2>1, <2>2, <2>3 DEF IInv, InOrder
<1>6. NothingLost'
  BY <1>1, <1>2, <1>3, <1>4 DEF IInv, NothingLost, Held, OnRead
<1>7. read # NoRead /\ read \in Reads /\ got \in Nat
  BY <1>2 DEF IInv, StagedIsForRead, OnRead, TypeOK, Reads
<1>8. CASE got >= read.min /\ read' = NoRead
           /\ Answer(read.op, "ok", read.size, got, read.base)
  <2>1. TypeOK'
    BY <1>3, <1>4, <1>7, <1>8 DEF IInv, TypeOK, OnRead, Answer, Answers, Reads, NoRead
  <2>2. ReadBalance' /\ StagedIsForRead'
    BY <1>4, <1>8 DEF ReadBalance, StagedIsForRead
  <2>6. /\ readCb'.base = read.base /\ readCb'.size = read.size
        /\ readCb'.bytes = got /\ readCb'.op = read.op
    BY <1>8 DEF Answer
  <2>7. /\ read.size = (Len(m_buffer) + (Len(consumed) - read.base)) - read.got + read.min
        /\ read.op = "readSome" => read.size = 1 /\ read.min = 1
        /\ ~ConsumeWhilePending => read.base = Len(consumed)
    BY <1>7 DEF IInv, ReadBalance, Available
  <2>8. /\ read.size \in Nat /\ read.base \in Nat /\ read.got \in Nat /\ read.min \in Nat
        /\ Len(m_buffer) \in Nat /\ Len(staged) \in Nat /\ Len(consumed) \in Nat
        /\ consumed' = consumed
    BY <1>2, <1>7 DEF IInv, TypeOK, Reads, OnRead
  <2>3. SuccessBroughtData'
    <3>1. Len(m_buffer') + (Len(consumed) - read.base) >= read.size
      BY <1>3, <1>8, <2>7, <2>8
    <3> QED BY <2>6, <2>8, <3>1 DEF SuccessBroughtData, Available
  <2>4. ASSUME ~ConsumeWhilePending PROVE SuccessHasData'
    <3>1. Len(m_buffer') >= read.size
      BY <1>3, <1>8, <2>4, <2>7, <2>8
    <3>2. ASSUME read.op = "readSome" PROVE got = Len(m_buffer')
      <4>1. read.size = 1 /\ read.min = 1 /\ read.base = Len(consumed)
        BY <2>4, <2>7, <3>2
      <4>2. read.got = Len(m_buffer)
        BY <2>7, <2>8, <4>1
      <4> QED BY <1>3, <4>2
    <3> QED BY <2>6, <3>1, <3>2 DEF SuccessHasData
  <2>5. EofIsTheEnd'
    BY <1>8 DEF Answer, EofIsTheEnd
  <2> QED BY <1>5, <1>6, <2>1, <2>2, <2>3, <2>4, <2>5 DEF IInv, AnswerHolds
<1>9. CASE got < read.min /\ read' = [read EXCEPT !.got = got] /\ readCb' = NoAnswer
  <2>1. /\ read' \in Reads /\ read'.got = got /\ read'.op = read.op
        /\ read'.base = read.base /\ read'.min = read.min /\ read'.size = read.size
    BY <1>7, <1>9 DEF Reads
  <2>2. TypeOK'
    BY <1>3, <1>4, <1>9, <2>1 DEF IInv, TypeOK, OnRead, Answers, NoAnswer
  <2>3. ReadBalance'
    BY <1>1, <1>2, <1>3, <1>7, <1>9, <2>1 DEF IInv, ReadBalance, Available, OnRead, Reads
  <2>4. StagedIsForRead' /\ AnswerHolds'
    BY <1>4, <1>9, NoAnswerHolds DEF StagedIsForRead
  <2> QED BY <1>5, <1>6, <2>2, <2>3, <2>4 DEF IInv
<1> QED BY <1>8, <1>9 DEF OnRead

LEMMA ReadFailsStep == ASSUME IInv, ReadFails PROVE IInv'
<1>1. /\ read # NoRead /\ read \in Reads
      /\ read' = NoRead /\ staged = <<>> /\ wire = <<>>
  BY DEF IInv, TypeOK, ReadFails
<1>2. TypeOK'
  BY <1>1 DEF IInv, TypeOK, ReadFails, Answer, Answers, Reads, NoRead, ReadBalance
<1>3. InOrder' /\ NothingLost' /\ ReadBalance' /\ StagedIsForRead'
  BY <1>1 DEF IInv, ReadFails, InOrder, NothingLost, Held, ReadBalance, StagedIsForRead
<1>4. SuccessBroughtData' /\ SuccessHasData'
  BY DEF IInv, TypeOK, ReadFails, Answer, SuccessBroughtData, SuccessHasData
<1>5. EofIsTheEnd'
  <2> SUFFICES ASSUME readCb'.ec = "eof" PROVE Held = Len(consumed') + Len(m_buffer')
                                            /\ Held = sent'
    BY DEF EofIsTheEnd
  <2>1. m_socket = "open" /\ conn = "eof"
    BY DEF IInv, TypeOK, ReadFails, Answer
  <2> QED BY <1>1, <2>1 DEF IInv, TypeOK, NothingLost, Held, ReadFails
<1> QED BY <1>2, <1>3, <1>4, <1>5 DEF IInv, AnswerHolds

LEMMA NextIInv == ASSUME IInv, [Next]_vars PROVE IInv'
<1>1. CASE Peer
  BY <1>1, PeerStep, WriteSomeStep DEF Peer
<1>2. CASE Application
  <2>1. CASE \/ \E blocking \in BOOLEAN, n \in 0..MaxRequest : Read(blocking, n)
             \/ \E blocking \in BOOLEAN : ReadSome(blocking)
    BY <2>1, ReadCallStep
  <2>2. ASSUME NEW size \in 0..MaxRequest, Consume(size) PROVE IInv'
    <3>1. PICK n \in 0..Len(m_buffer) : Take(n)
      BY <2>2, StreamAssumption DEF Consume, IInv, TypeOK
    <3> QED BY <2>2, <3>1, TakeStep DEF Consume
  <2>3. ASSUME NEW size \in 0..MaxRequest, CopyDataAndConsume(size) PROVE IInv'
    <3>1. size \in 0..Len(m_buffer) /\ MayConsume /\ Take(size)
      BY <2>3, StreamAssumption DEF CopyDataAndConsume, IInv, TypeOK
    <3> QED BY <3>1, TakeStep
  <2>4. CASE Close
    BY <2>4, CloseStep
  <2> QED BY <1>2, <2>1, <2>2, <2>3, <2>4 DEF Application
<1>3. CASE Operation
  BY <1>3, ReceiveStep, OnReadStep, ReadFailsStep DEF Operation
<1>4. CASE UNCHANGED vars
  BY <1>4 DEF vars, IInv, TypeOK, InOrder, NothingLost, Held, ReadBalance, Available,
     StagedIsForRead, AnswerHolds, SuccessBroughtData, SuccessHasData, EofIsTheEnd
<1> QED BY <1>1, <1>2, <1>3, <1>4 DEF Next

-----------------------------------------------------------------------------
(* The theorems. *)

\* The invariant the others follow from.
THEOREM Invariance == Spec => []IInv
BY InitIInv, NextIInv, PTL DEF Spec

(***************************************************************************)
(* Every state of the stream is well typed; in particular what is asked of *)
(* the socket never underflows (Stream.cpp:37 and :53 subtract size_t).    *)
(***************************************************************************)
THEOREM TypeCorrect == Spec => []TypeOK
BY Invariance, PTL DEF IInv

(***************************************************************************)
(* No byte is lost, repeated or reordered between the peer's socket and    *)
(* the application.                                                        *)
(***************************************************************************)
THEOREM BytesInOrder == Spec => []NoLossInOrder
BY Invariance, PTL DEF IInv, NoLossInOrder

(***************************************************************************)
(* A read that is outstanding still lacks data.                            *)
(***************************************************************************)
THEOREM ReadsWaitForData == Spec => []NoOverWaiting
<1>1. IInv => NoOverWaiting
  <2> SUFFICES ASSUME IInv, read # NoRead PROVE Available(read.base) < read.size
    BY DEF NoOverWaiting
  <2>1. read \in Reads /\ Len(m_buffer) \in Nat /\ Len(consumed) \in Nat
    BY DEF IInv, TypeOK
  <2> QED BY <2>1 DEF IInv, ReadBalance, Available, Reads
<1> QED BY <1>1, Invariance, PTL

(***************************************************************************)
(* A successful read brought what was asked for, and end of file is told   *)
(* only when all the data is there.                                        *)
(***************************************************************************)
THEOREM AnswersAreTrue == Spec => []AnswersTrue
BY Invariance, PTL DEF IInv, AnswerHolds, AnswersTrue

(***************************************************************************)
(* To an application that leaves the buffer alone while a read is          *)
(* outstanding, success means that size bytes can be consumed now.         *)
(***************************************************************************)
THEOREM SuccessMeansData == ~ConsumeWhilePending /\ Spec => []SuccessHasData
<1>1. ~ConsumeWhilePending /\ IInv => SuccessHasData
  BY DEF IInv, AnswerHolds
<1>2. CASE ConsumeWhilePending
  BY <1>2
<1>3. CASE ~ConsumeWhilePending
  <2>1. IInv => SuccessHasData
    BY <1>1, <1>3
  <2> QED BY <2>1, Invariance, PTL
<1> QED BY <1>2, <1>3

-----------------------------------------------------------------------------
(* The stream implements the channel of ByteChannel. *)

\* A run of bytes is the sequence the channel delivers.
LEMMA RunIsFollowing ==
    ASSUME NEW s \in Seq(Nat), NEW k \in Nat, Follows(s, k)
    PROVE  s = Channel!Following(k, Len(s))
<1>1. \A i \in 1..Len(s) : s[i] = k + i
  BY DEF Follows
<1>2. s = [i \in 1..Len(s) |-> s[i]]
  OBVIOUS
<1> QED BY <1>1, <1>2 DEF Channel!Following

\* Consuming is delivering, of bytes the peer has sent.
LEMMA TakeDelivers ==
    ASSUME IInv, NEW n \in 0..Len(m_buffer), Take(n) PROVE Channel!Deliver
<1> DEFINE head == SubSeq(m_buffer, 1, n)
<1>1. /\ m_buffer \in Seq(Nat) /\ Len(consumed) \in Nat /\ sent \in Nat
      /\ Len(staged) \in Nat /\ Len(wire) \in Nat
      /\ Follows(m_buffer, Len(consumed)) /\ Held <= sent
  BY DEF IInv, TypeOK, InOrder, NothingLost
<1>2. head \in Seq(Nat) /\ Len(head) = n /\ Follows(head, Len(consumed))
  BY <1>1, FollowsCut
<1>3. head = Channel!Following(Len(consumed), n)
  BY <1>1, <1>2, RunIsFollowing
<1>4. n \in 0..(sent - Len(consumed))
  BY <1>1 DEF Held
<1>5. consumed' = consumed \o head /\ sent' = sent
  BY DEF Take
<1> QED BY <1>3, <1>4, <1>5 DEF Channel!Deliver

LEMMA StepRefines ==
    ASSUME IInv, [Next]_vars PROVE [Channel!Next]_Channel!vars
<1> USE StreamAssumption
<1>1. ASSUME NEW n \in 1..MaxRequest, WriteSome(n) PROVE Channel!Send
  BY <1>1 DEF IInv, TypeOK, WriteSome, Channel!Send
<1>2. ASSUME NEW size \in 0..MaxRequest, Consume(size) PROVE Channel!Deliver
  <2>1. PICK n \in 0..Len(m_buffer) : Take(n)
    BY <1>2 DEF Consume, IInv, TypeOK
  <2> QED BY <2>1, TakeDelivers
<1>3. ASSUME NEW size \in 0..MaxRequest, CopyDataAndConsume(size)
      PROVE  Channel!Deliver
  <2>1. size \in 0..Len(m_buffer) /\ Take(size)
    BY <1>3 DEF CopyDataAndConsume, IInv, TypeOK
  <2> QED BY <2>1, TakeDelivers
<1>4. CASE \/ \E n \in 1..MaxRequest : AsyncWrite(n)
           \/ WriteFails \/ PeerClose
           \/ \E n \in 0..WireCapacity : ConnectionBreaks(n)
           \/ \E blocking \in BOOLEAN, n \in 0..MaxRequest : Read(blocking, n)
           \/ \E blocking \in BOOLEAN : ReadSome(blocking)
           \/ Close \/ Operation \/ UNCHANGED vars
  BY <1>4 DEF AsyncWrite, WriteFails, PeerClose, ConnectionBreaks, Read, ReadSome,
     Close, Operation, Receive, OnRead, ReadFails, vars, Channel!vars
<1> QED BY <1>1, <1>2, <1>3, <1>4 DEF Next, Peer, Application, Channel!Next

(***************************************************************************)
(* What the application consumes is, byte for byte and in order, what the  *)
(* peer sent, whatever is requested, received and closed in between.       *)
(***************************************************************************)
THEOREM Refinement == Spec => ImplementsChannel
<1>1. Init => Channel!Init
  BY DEF Init, Channel!Init
<1> QED BY <1>1, StepRefines, Invariance, PTL DEF Spec, ImplementsChannel, Channel!Spec
=============================================================================
