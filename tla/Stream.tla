------------------------------- MODULE Stream -------------------------------
(***************************************************************************)
(* One direction of a connected stream: a peer writes, this end reads      *)
(* through class Stream and its TCP or Unix domain socket (TcpStream,      *)
(* LocalStream).  The k-th byte the peer's socket accepts is the number k. *)
(*                                                                         *)
(* Assumed of the application, as in the tests: every call and callback    *)
(* runs on the one thread of the io_context, and a second read is not      *)
(* started while one is outstanding (both would fill the one m_buffer).    *)
(***************************************************************************)
EXTENDS Integers, Sequences

CONSTANTS MaxBytes,            \* bound on the bytes the peer writes
          MaxRequest,          \* largest size given to write, read, consume
          WireCapacity,        \* bytes the two kernels hold between the ends
          ConsumeWhilePending  \* may consume() be called during a read?

ASSUME StreamAssumption ==
    /\ MaxBytes \in Nat
    /\ MaxRequest \in Nat
    /\ WireCapacity \in Nat \ {0}
    /\ ConsumeWhilePending \in BOOLEAN

VARIABLES
    conn,      \* the connection: "up", "eof" (peer closed) or "reset"
    m_socket,  \* this end's socket: "open" or "closed"
    unsent,    \* bytes of the peer's write that its socket has not accepted
    sent,      \* how many bytes the peer's socket has accepted so far
    wire,      \* accepted bytes that this end has not received
    staged,    \* received by an async read whose handler has not run yet
    m_buffer,  \* the stream's buffer
    consumed,  \* every byte the application has taken from m_buffer
    read,      \* the outstanding read operation, or NoRead
    readCb     \* the answer whose callback is running, or NoAnswer

vars == <<conn, m_socket, unsent, sent, wire, staged, m_buffer, consumed,
          read, readCb>>

NoRead   == [op |-> "none", blocking |-> FALSE,
             size |-> 0, min |-> 0, got |-> 0, base |-> 0]
NoAnswer == [op |-> "none", ec |-> "none", size |-> 0, bytes |-> 0, base |-> 0]

\* A read operation: size is what the caller asked for, min what is asked of
\* the socket, got what it has brought; base is a history value, the number
\* of bytes consumed before the call.
Reads == [op : {"none", "read", "readSome"}, blocking : BOOLEAN,
          size : Nat, min : Nat, got : Nat, base : Nat]
Answers == [op : {"none", "read", "readSome"},
            ec : {"none", "ok", "eof", "reset", "aborted"},
            size : Nat, bytes : Nat, base : Nat]

TypeOK == /\ conn \in {"up", "eof", "reset"}
          /\ m_socket \in {"open", "closed"}
          /\ unsent \in Nat
          /\ sent \in Nat
          /\ wire \in Seq(Nat)
          /\ staged \in Seq(Nat)
          /\ m_buffer \in Seq(Nat)
          /\ consumed \in Seq(Nat)
          /\ read \in Reads
          /\ readCb \in Answers

Init == /\ conn = "up" /\ m_socket = "open"
        /\ unsent = 0 /\ sent = 0
        /\ wire = <<>> /\ staged = <<>> /\ m_buffer = <<>> /\ consumed = <<>>
        /\ read = NoRead /\ readCb = NoAnswer

-----------------------------------------------------------------------------
(* The peer: asyncWrite and write of the socket streams. *)

\* asyncWrite(data) or write(data) with size bytes; one write at a time.
AsyncWrite(size) ==
    /\ unsent = 0 /\ conn = "up"
    /\ sent + size <= MaxBytes
    /\ unsent' = size
    /\ readCb' = NoAnswer
    /\ UNCHANGED <<conn, m_socket, sent, wire, staged, m_buffer, consumed, read>>

\* async_write sends what the socket takes, again and again until all is sent.
WriteSome(n) ==
    /\ conn = "up" /\ m_socket = "open"
    /\ n <= unsent
    /\ Len(wire) + n <= WireCapacity
    /\ wire' = wire \o [i \in 1..n |-> sent + i]
    /\ sent' = sent + n
    /\ unsent' = unsent - n
    /\ readCb' = NoAnswer
    /\ UNCHANGED <<conn, m_socket, staged, m_buffer, consumed, read>>

\* A write to an end that is gone is answered with an error.
WriteFails ==
    /\ unsent > 0
    /\ conn # "up" \/ m_socket = "closed"
    /\ unsent' = 0
    /\ readCb' = NoAnswer
    /\ UNCHANGED <<conn, m_socket, sent, wire, staged, m_buffer, consumed, read>>

\* The peer closes: what its socket has accepted still arrives.
PeerClose ==
    /\ conn = "up"
    /\ conn' = "eof"
    /\ readCb' = NoAnswer
    /\ UNCHANGED <<m_socket, unsent, sent, wire, staged, m_buffer, consumed, read>>

\* The connection breaks: of what is in transit only the first n bytes arrive.
ConnectionBreaks(n) ==
    /\ conn \in {"up", "eof"}
    /\ n <= Len(wire)
    /\ conn' = "reset"
    /\ wire' = SubSeq(wire, 1, n)
    /\ readCb' = NoAnswer
    /\ UNCHANGED <<m_socket, unsent, sent, staged, m_buffer, consumed, read>>

-----------------------------------------------------------------------------
(* This end: the calls of the application. *)

\* A blocking read() or readSome() keeps the thread until it returns.
Free == ~read.blocking

Answer(op, ec, size, bytes, base) ==
    readCb' = [op |-> op, ec |-> ec, size |-> size, bytes |-> bytes, base |-> base]

\* Mutant: the buffer is never looked at.
NeverBuffered(size) == FALSE
\* The buffer already holds the required data.
Buffered(size) == Len(m_buffer) >= size

\* Mutants: the whole size is requested again; any data will do.
MissingAll(size) == size
MissingOne(size) == 1
\* What is missing of it, the size given to (async)ReadAtLeast.
Missing(size) == size - Len(m_buffer)

\* asyncReadAtLeast(min) and readAtLeast(min).
ReadAtLeast(op, blocking, size, min) ==
    /\ read' = [op |-> op, blocking |-> blocking, size |-> size,
                min |-> min, got |-> 0, base |-> Len(consumed)]
    /\ readCb' = NoAnswer

\* asyncRead(size), and read(size) when blocking: answered from the buffer in
\* the caller's own context if it holds enough, else the rest is requested.
Read(blocking, size) ==
    /\ read = NoRead
    /\ \/ /\ Buffered(size)
          /\ Answer("read", "ok", size, 0, Len(consumed))
          /\ UNCHANGED read
       \/ /\ ~Buffered(size)
          /\ ReadAtLeast("read", blocking, size, Missing(size))
    /\ UNCHANGED <<conn, m_socket, unsent, sent, wire, staged, m_buffer, consumed>>

\* asyncReadSome, and readSome when blocking.
ReadSome(blocking) ==
    /\ read = NoRead
    /\ \/ /\ Len(m_buffer) > 0
          /\ Answer("readSome", "ok", 1, Len(m_buffer), Len(consumed))
          /\ UNCHANGED read
       \/ /\ Len(m_buffer) = 0
          /\ ReadAtLeast("readSome", blocking, 1, 1)
    /\ UNCHANGED <<conn, m_socket, unsent, sent, wire, staged, m_buffer, consumed>>

\* Mutants: everything readable is dropped with the bytes taken; the last byte
\* taken stays.
NothingAfter(n) == <<>>
LastStays(n) == SubSeq(m_buffer, IF n = 0 THEN 1 ELSE n, Len(m_buffer))
\* What streambuf::consume(n) leaves.
After(n) == SubSeq(m_buffer, n + 1, Len(m_buffer))

\* Moves the first n bytes of m_buffer to the application.
Take(n) ==
    /\ consumed' = consumed \o SubSeq(m_buffer, 1, n)
    /\ m_buffer' = After(n)
    /\ readCb' = NoAnswer
    /\ UNCHANGED <<conn, m_socket, unsent, sent, wire, staged, read>>

MayConsume == Free /\ (read = NoRead \/ ConsumeWhilePending)

\* consume(size) takes what there is when there is less than size.
Consume(size) ==
    /\ MayConsume
    /\ Take(IF size <= Len(m_buffer) THEN size ELSE Len(m_buffer))

\* copyDataAndConsume(dest, size): the caller must know that size bytes are there.
CopyDataAndConsume(size) ==
    /\ MayConsume
    /\ size <= Len(m_buffer)
    /\ Take(size)

\* asyncClose and close: the socket is closed, its unread bytes are gone,
\* m_buffer is kept.  An outstanding read is answered later, by ReadFails.
Close ==
    /\ Free
    /\ m_socket = "open"
    /\ m_socket' = "closed"
    /\ wire' = <<>>
    /\ readCb' = NoAnswer
    /\ UNCHANGED <<conn, unsent, sent, staged, m_buffer, consumed, read>>

-----------------------------------------------------------------------------
(* The composed read operation of asio. *)

\* The reactor receives n bytes into the reserve of m_buffer; they become
\* readable when the operation's handler runs.
Receive(n) ==
    /\ read # NoRead /\ staged = <<>>
    /\ m_socket = "open"
    /\ n <= Len(wire)
    /\ staged' = SubSeq(wire, 1, n)
    /\ wire' = SubSeq(wire, n + 1, Len(wire))
    /\ readCb' = NoAnswer
    /\ UNCHANGED <<conn, m_socket, unsent, sent, m_buffer, consumed, read>>

\* streambuf::commit: received bytes go behind those not consumed yet.
CommittedBuffer == m_buffer \o staged

\* The handler commits them, and completes the read once min bytes have come.
OnRead ==
    /\ staged # <<>>
    /\ m_buffer' = CommittedBuffer
    /\ staged' = <<>>
    /\ LET got == read.got + Len(staged)
       IN  \/ /\ got >= read.min
              /\ read' = NoRead
              /\ Answer(read.op, "ok", read.size, got, read.base)
           \/ /\ got < read.min
              /\ read' = [read EXCEPT !.got = got]
              /\ readCb' = NoAnswer
    /\ UNCHANGED <<conn, m_socket, unsent, sent, wire, consumed>>

\* The read fails: this end has closed the socket, or nothing more can come.
ReadFails ==
    /\ read # NoRead /\ staged = <<>>
    /\ wire = <<>>
    /\ m_socket = "closed" \/ conn # "up"
    /\ read' = NoRead
    /\ Answer(read.op, IF m_socket = "closed" THEN "aborted" ELSE conn,
              read.size, read.got, read.base)
    /\ UNCHANGED <<conn, m_socket, unsent, sent, wire, staged, m_buffer, consumed>>

-----------------------------------------------------------------------------
Peer == \/ \E n \in 1..MaxRequest : AsyncWrite(n)
        \/ \E n \in 1..MaxRequest : WriteSome(n)
        \/ WriteFails
        \/ PeerClose
        \/ \E n \in 0..WireCapacity : ConnectionBreaks(n)

Application == \/ \E blocking \in BOOLEAN, n \in 0..MaxRequest : Read(blocking, n)
               \/ \E blocking \in BOOLEAN : ReadSome(blocking)
               \/ \E n \in 0..MaxRequest : Consume(n)
               \/ \E n \in 0..MaxRequest : CopyDataAndConsume(n)
               \/ Close

Operation == \/ \E n \in 1..WireCapacity : Receive(n)
             \/ OnRead
             \/ ReadFails

Next == Peer \/ Application \/ Operation

Spec == Init /\ [][Next]_vars

\* The kernels move bytes and the io_context runs handlers; the application
\* and the peer promise nothing.
Fairness == /\ WF_vars(\E n \in 1..MaxRequest : WriteSome(n))
            /\ WF_vars(WriteFails)
            /\ WF_vars(\E n \in 1..WireCapacity : Receive(n))
            /\ WF_vars(OnRead)
            /\ WF_vars(ReadFails)

FairSpec == Spec /\ Fairness

-----------------------------------------------------------------------------
(* Properties. *)

\* s holds the bytes that follow the k-th.
Follows(s, k) == \A i \in 1..Len(s) : s[i] = k + i

Held == Len(consumed) + Len(m_buffer) + Len(staged) + Len(wire)

(***************************************************************************)
(* Whatever the sizes of the requests and the chunks in which data comes,  *)
(* the application takes the bytes in the order the peer sent them, and    *)
(* m_buffer goes on exactly where the application stopped: nothing is      *)
(* skipped, repeated or swapped, not by a partial or failed read, nor by a *)
(* consume, nor by a close.                                                *)
(***************************************************************************)
InOrder == /\ Follows(consumed, 0)
           /\ Follows(m_buffer, Len(consumed))
           /\ Follows(staged, Len(consumed) + Len(m_buffer))
           /\ Follows(wire, Len(consumed) + Len(m_buffer) + Len(staged))

(***************************************************************************)
(* As long as this end is open and the connection was not broken, every    *)
(* byte the peer's socket accepted is still on its way or was given out.   *)
(***************************************************************************)
NothingLost == /\ Held <= sent
               /\ m_socket = "open" /\ conn # "reset" => Held = sent

\* Order and completeness: the two halves of "the bytes arrive".
NoLossInOrder == InOrder /\ NothingLost

\* What has become available, by now, to the caller of a read.
Available(base) == Len(m_buffer) + (Len(consumed) - base)

(***************************************************************************)
(* An outstanding read still lacks data: asyncRead(size) asks the socket   *)
(* for what the buffer does not have, and a read that waits although the   *)
(* data is there could wait forever (the peer may be waiting for it).      *)
(* Even when the caller consumes meanwhile, what was available since the   *)
(* call falls short of what was asked.                                     *)
(***************************************************************************)
NoOverWaiting == read # NoRead => Available(read.base) < read.size

(***************************************************************************)
(* A read answered with success brought what was asked, counting what the  *)
(* application has consumed since it called.                               *)
(***************************************************************************)
SuccessBroughtData ==
    readCb.ec = "ok" => Available(readCb.base) >= readCb.size

(***************************************************************************)
(* "readCb: processing callback to be executed upon data availability"     *)
(* (Stream.hpp:63): when it is executed with success, size bytes can be    *)
(* consumed.  And the count of asyncReadSome is what the buffer holds.     *)
(***************************************************************************)
SuccessHasData ==
    readCb.ec = "ok" => /\ Len(m_buffer) >= readCb.size
                        /\ readCb.op = "readSome" => readCb.bytes = Len(m_buffer)

(***************************************************************************)
(* End of file is told only when every byte the peer sent can be consumed  *)
(* or was: no data is hidden behind it.                                    *)
(***************************************************************************)
EofIsTheEnd == readCb.ec = "eof" => Len(consumed) + Len(m_buffer) = sent

\* What a callback of a read is told is true when it runs.
AnswersTrue == SuccessBroughtData /\ EofIsTheEnd

(***************************************************************************)
(* A read is always answered once all it asked for was written, or nobody  *)
(* is there to write any more, or this end has closed: also when the       *)
(* request is larger than what fits on the wire at once, and when the      *)
(* close comes between two of the receptions of one read.                  *)
(***************************************************************************)
Answerable == \/ m_socket = "closed"
              \/ conn # "up"
              \/ Available(read.base) + Len(staged) + Len(wire) + unsent >= read.size
ReadAnswered == (read # NoRead /\ Answerable) ~> (read = NoRead)

\* The stream is a reliable, ordered channel of bytes.
Channel == INSTANCE ByteChannel WITH delivered <- consumed

(***************************************************************************)
(* What the application has consumed is, at any time, the beginning of     *)
(* what the peer sent, and it grows in the order of sending.               *)
(***************************************************************************)
ImplementsChannel == Channel!Spec
=============================================================================
