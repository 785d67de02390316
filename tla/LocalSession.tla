---------------------------- MODULE LocalSession ----------------------------
(***************************************************************************)
(* A LocalServer, whose application writes to the streams it gets and      *)
(* closes them, and one LocalClientStream that connects to it, reads,      *)
(* closes and connects again.                                              *)
(*                                                                         *)
(* LocalServer has the accept loop of TcpServer on a Unix domain socket:   *)
(* its actions are the server's part of the actions below.  The "clients"  *)
(* of that module are here the successive connections of one stream.       *)
(* Each starts with an empty socket, but m_buffer belongs to the stream    *)
(* and stays, and so does a read whose handler is queued at a close.       *)
(*                                                                         *)
(* Assumed of the application: one thread, one outstanding read, no        *)
(* asyncInit of an open stream (see LocalClientStream), no consume during  *)
(* a read.  A refused connect is left out.                                 *)
(***************************************************************************)
EXTENDS TcpServer, Sequences

CONSTANTS MaxBytes,   \* bound on the bytes written to one connection
          MaxRequest  \* bound on the size of a read

ASSUME LocalSessionAssumption == /\ MaxBytes \in Nat
                                 /\ MaxRequest \in Nat \ {0}
                                 /\ Clients = 1..Cardinality(Clients)

VARIABLES
    connection,  \* the one m_socket of the client has, 0 if closed
    attempts,    \* how many connections it has begun
    sent,        \* history: bytes the server has written to each
    wire,        \* what of them the client has not received
    reading,     \* bytes the outstanding read still needs, 0 if none
    staged,      \* received for it, with the handler queued
    m_buffer,    \* of the client stream
    lastTaken    \* history: the last byte consumed

clientVars  == <<connection, attempts, reading, staged, m_buffer, lastTaken>>
streamVars  == <<sent, wire>>
sessionVars == <<vars, clientVars, streamVars>>

\* The i-th byte of connection k.
Bytes   == [connection : Clients, number : 1..MaxBytes]
NoBytes == [connection |-> 0, number |-> 0]

SessionTypeOK ==
    /\ TypeOK
    /\ connection \in 0..attempts
    /\ attempts \in 0..Cardinality(Clients)
    /\ sent \in [Clients -> 0..MaxBytes]
    /\ wire \in [Clients -> Seq(Bytes)]
    /\ reading \in 0..MaxRequest
    /\ staged \in Seq(Bytes)
    /\ m_buffer \in Seq(Bytes)
    /\ lastTaken \in Bytes \cup {NoBytes}

\* The constructors: the server's acceptor listens, the client is closed.
SessionInit == /\ Init
               /\ connection = 0 /\ attempts = 0
               /\ sent = [k \in Clients |-> 0]
               /\ wire = [k \in Clients |-> <<>>]
               /\ reading = 0 /\ staged = <<>> /\ m_buffer = <<>>
               /\ lastTaken = NoBytes

-----------------------------------------------------------------------------
(* LocalServer, and LocalServerStream, whose asyncInit answers in place. *)

LocalStart == Start /\ UNCHANGED <<clientVars, streamVars>>

\* stop, and the destructor.  The streams of the application stay.
LocalStop == Stop /\ UNCHANGED <<clientVars, streamVars>>

LocalOnAccept(k) ==
    /\ OnAccept(k) \/ OnAcceptStops(k)
    /\ UNCHANGED <<clientVars, streamVars>>

LocalOnAcceptError == OnAcceptError /\ UNCHANGED <<clientVars, streamVars>>

-----------------------------------------------------------------------------
(* The server's application on a stream it was given. *)

\* asyncWrite, write: of a connection the client has closed they fail.
ServerWrites(k) ==
    /\ client[k] = "stream" /\ connection = k /\ sent[k] < MaxBytes
    /\ sent' = [sent EXCEPT ![k] = @ + 1]
    /\ wire' = [wire EXCEPT ![k] = Append(@, [connection |-> k, number |-> sent[k] + 1])]
    /\ UNCHANGED <<vars, clientVars>>

\* asyncClose, close: what was written stays readable.
ServerCloses(k) == CloseStream(k) /\ UNCHANGED <<clientVars, streamVars>>

-----------------------------------------------------------------------------
(* The client stream. *)

\* asyncInit, init of the closed stream: connected once in the backlog.
ClientConnects ==
    LET k == attempts + 1 IN
    /\ connection = 0 /\ k \in Clients
    /\ Connect(k)
    /\ connection' = k /\ attempts' = k
    /\ UNCHANGED <<reading, staged, m_buffer, lastTaken, streamVars>>

\* asyncRead, read: what m_buffer lacks is requested.
ClientReads ==
    /\ connection # 0 /\ reading = 0
    /\ \E size \in 1..MaxRequest : /\ Len(m_buffer) < size
                                   /\ reading' = size - Len(m_buffer)
    /\ UNCHANGED <<vars, streamVars, connection, attempts, staged, m_buffer, lastTaken>>

ClientConsumes ==
    /\ reading = 0
    /\ \E n \in 1..Len(m_buffer) : /\ m_buffer' = SubSeq(m_buffer, n + 1, Len(m_buffer))
                                   /\ lastTaken' = m_buffer[n]
    /\ UNCHANGED <<vars, streamVars, connection, attempts, reading, staged>>

\* A part of what has come is received for the waiting read.
Receive ==
    /\ connection # 0 /\ reading > 0 /\ staged = <<>>
    /\ \E n \in 1..Len(wire[connection]) :
        /\ staged' = SubSeq(wire[connection], 1, n)
        /\ wire' = [wire EXCEPT ![connection] = SubSeq(@, n + 1, Len(@))]
    /\ UNCHANGED <<vars, sent, connection, attempts, reading, m_buffer, lastTaken>>

\* The queued handler of a reception commits, and receives again if need be,
\* from the connection that m_socket has by now; without one the read fails.
OnRead ==
    /\ staged # <<>>
    /\ m_buffer' = m_buffer \o staged
    /\ staged' = <<>>
    /\ reading' = IF Len(staged) < reading /\ connection # 0
                  THEN reading - Len(staged) ELSE 0
    /\ UNCHANGED <<vars, streamVars, connection, attempts, lastTaken>>

\* End of file, or reset out of the backlog.
ReadFails ==
    /\ connection # 0 /\ reading > 0 /\ staged = <<>>
    /\ client[connection] = "dropped" /\ wire[connection] = <<>>
    /\ reading' = 0
    /\ UNCHANGED <<vars, streamVars, connection, attempts, staged, m_buffer, lastTaken>>

\* Mutant: the buffer is emptied with the socket.
ClientClosesEmptied ==
    /\ connection # 0
    /\ connection' = 0
    /\ wire' = [wire EXCEPT ![connection] = <<>>]
    /\ reading' = IF staged = <<>> THEN 0 ELSE reading
    /\ m_buffer' = <<>>
    /\ UNCHANGED <<vars, sent, attempts, staged, lastTaken>>

\* asyncClose, close: a waiting read is aborted, a queued handler stays.
ClientCloses ==
    /\ connection # 0
    /\ connection' = 0
    /\ wire' = [wire EXCEPT ![connection] = <<>>]
    /\ reading' = IF staged = <<>> THEN 0 ELSE reading
    /\ UNCHANGED <<vars, sent, attempts, staged, m_buffer, lastTaken>>

-----------------------------------------------------------------------------
(* The kernel accepts. *)

KernelAccepts(k)   == Accepted(k) /\ UNCHANGED <<clientVars, streamVars>>
KernelAcceptFails  == AcceptFails /\ UNCHANGED <<clientVars, streamVars>>

SessionNext ==
    \/ LocalStart \/ LocalStop \/ LocalOnAcceptError \/ KernelAcceptFails
    \/ \E k \in Clients : \/ LocalOnAccept(k) \/ KernelAccepts(k)
                          \/ ServerWrites(k) \/ ServerCloses(k)
    \/ ClientConnects \/ ClientReads \/ ClientConsumes \/ ClientCloses
    \/ Receive \/ OnRead \/ ReadFails

SessionSpec == SessionInit /\ [][SessionNext]_sessionVars

\* The kernel moves bytes and accepts, the io_context runs handlers; nothing
\* is assumed of the two applications.
SessionFairness ==
    /\ WF_sessionVars(LocalOnAcceptError)
    /\ WF_sessionVars(\E k \in Clients : KernelAccepts(k))
    /\ \A k \in Clients : WF_sessionVars(LocalOnAccept(k))
    /\ WF_sessionVars(Receive)
    /\ WF_sessionVars(OnRead)
    /\ WF_sessionVars(ReadFails)

SessionFairSpec == SessionSpec /\ SessionFairness

-----------------------------------------------------------------------------
(* Properties, with those of TcpServer for the server's part. *)

\* What a reader sees after byte b: the next one of the connection, or the
\* first one of a later connection.
Follows(b, c) ==
    \/ c.connection = b.connection /\ c.number = b.number + 1
    \/ c.connection > b.connection /\ c.number = 1

(***************************************************************************)
(* Through closes and reconnections the application gets the bytes of      *)
(* every connection from its first on and without a gap, and those of the  *)
(* older connection, left in m_buffer or still queued at the close, before *)
(* those of the next: a reconnect costs the tail of a connection and       *)
(* nothing else.                                                           *)
(***************************************************************************)
NoGaps ==
    LET seen == <<lastTaken>> \o m_buffer \o staged
    IN  \A i \in 1..Len(seen) - 1 : Follows(seen[i], seen[i + 1])

(***************************************************************************)
(* A client that waits in a read is served or told the end, also if it     *)
(* connected behind connections it has closed already, which the server    *)
(* accepts first, if the server's application throws, or if the server     *)
(* stops: it waits on only for an application that holds its stream, or    *)
(* after an accept has failed.                                             *)
(***************************************************************************)
ReaderServed ==
    (started /\ reading > 0)
        ~> (reading = 0 \/ broken \/ \E k \in At("stream") : k = connection)
=============================================================================
