------------------------- MODULE LocalSessionProofs -------------------------
(***************************************************************************)
(* Proofs about TcpServer, for every set of clients, then about            *)
(* LocalSession, which is a TcpServer with streams, for every number of    *)
(* connections, of bytes and size of a read.                               *)
(***************************************************************************)
EXTENDS LocalSession, FiniteSetTheorems, SequenceTheorems, TLAPS

(***************************************************************************)
(* TcpServer.                                                              *)
(***************************************************************************)
\* What drives the loop is one thing: an accept that waits, or the queued
\* handler of one client.
OneAtATime ==
    /\ \A j, k \in Clients : client[j] = "accepted" /\ client[k] = "accepted" => j = k
    /\ accepts > 0 => \A k \in Clients : client[k] # "accepted"

\* A loop that was started goes on.
GoesOn == started /\ listening /\ ~broken
             => accepts = 1 \/ \E k \in Clients : client[k] = "accepted"

\* Before the start, and on a closed acceptor, no accept waits.
Quiet == /\ ~listening => accepts = 0
         /\ ~started => accepts = 0 /\ \A k \in Clients : client[k] # "accepted"

IInv == TypeOK /\ OneAtATime /\ GoesOn /\ Quiet

-----------------------------------------------------------------------------
LEMMA InitIInv == Init => IInv
<1> SUFFICES ASSUME Init PROVE IInv
  OBVIOUS
<1>1. client \in [Clients -> Places] /\ \A k \in Clients : client[k] = "idle"
  BY DEF Init, Places
<1>2. accepts = 0 /\ failures = 0 /\ ~started
  BY DEF Init
<1>3. listening \in BOOLEAN /\ started \in BOOLEAN /\ broken \in BOOLEAN
  BY Zenon DEF Init
<1> QED BY <1>1, <1>2, <1>3 DEF Init, IInv, TypeOK, OneAtATime, GoesOn, Quiet

\* Closing the acceptor accepts nobody and loses no queued handler.
LEMMA Backlog ==
    ASSUME TypeOK
    PROVE  /\ ResetBacklog \in [Clients -> Places]
           /\ \A k \in Clients :
                 ResetBacklog[k] = "accepted" <=> client[k] = "accepted"
BY DEF TypeOK, Places, ResetBacklog

LEMMA StartStep == ASSUME IInv, Start PROVE IInv'
BY DEF IInv, Start, StartTcpAccept, TypeOK, OneAtATime, GoesOn, Quiet

LEMMA StopStep == ASSUME IInv, Stop PROVE IInv'
<1>1. /\ client' \in [Clients -> Places]
      /\ \A k \in Clients : client'[k] = "accepted" <=> client[k] = "accepted"
  BY Backlog DEF IInv, Stop, CloseAcceptor
<1>2. /\ accepts' = 0 /\ failures' \in Nat /\ ~listening'
      /\ started' = started /\ broken' = broken
  BY DEF IInv, TypeOK, Stop, CloseAcceptor
<1>3. listening' \in BOOLEAN /\ started' \in BOOLEAN /\ broken' \in BOOLEAN
  BY Zenon DEF IInv, TypeOK, Stop, CloseAcceptor
<1>4. TypeOK'
  BY <1>1, <1>2, <1>3 DEF TypeOK
<1> QED BY <1>1, <1>2, <1>4 DEF IInv, OneAtATime, GoesOn, Quiet

\* The handler leaves "accepted" empty and puts the next accept in its place.
LEMMA OnAcceptStep ==
    ASSUME IInv, NEW k \in Clients, OnAccept(k)
    PROVE  IInv'
<1>1. PICK place \in NewStream : client' = [client EXCEPT ![k] = place]
  BY DEF OnAccept
<1>2. /\ accepts = 0
      /\ client' \in [Clients -> Places]
      /\ \A j \in Clients : client'[j] # "accepted"
  BY <1>1 DEF OnAccept, NewStream, IInv, TypeOK, Places, OneAtATime
<1>3. /\ listening' = listening /\ started' = started /\ broken' = broken
      /\ accepts' \in 0..1 /\ failures' \in Nat
      /\ listening => accepts' = 1
      /\ ~listening => accepts' = 0
      /\ started
  BY <1>2 DEF OnAccept, StartTcpAccept, IInv, TypeOK, Quiet
<1> QED BY <1>2, <1>3 DEF IInv, TypeOK, OneAtATime, GoesOn, Quiet

LEMMA OnAcceptStopsStep ==
    ASSUME IInv, NEW k \in Clients, OnAcceptStops(k)
    PROVE  IInv'
<1>1. /\ client' \in [Clients -> Places]
      /\ \A j \in Clients : client'[j] # "accepted"
  BY Backlog DEF IInv, OnAcceptStops, OneAtATime, Places
<1>2. accepts' = 0 /\ failures' \in Nat /\ ~listening'
  BY DEF IInv, TypeOK, OnAcceptStops
<1>3. listening' \in BOOLEAN /\ started' \in BOOLEAN /\ broken' \in BOOLEAN
  BY Zenon DEF IInv, TypeOK, OnAcceptStops
<1>4. TypeOK'
  BY <1>1, <1>2, <1>3 DEF TypeOK
<1> QED BY <1>1, <1>2, <1>4 DEF IInv, OneAtATime, GoesOn, Quiet

LEMMA OnAcceptErrorStep == ASSUME IInv, OnAcceptError PROVE IInv'
BY DEF IInv, OnAcceptError, TypeOK, OneAtATime, GoesOn, Quiet

\* Moves of a client that have nothing to do with the loop.
LEMMA ClientStep ==
    ASSUME IInv, NEW k \in Clients, Connect(k) \/ CloseStream(k)
    PROVE  IInv'
BY DEF IInv, Connect, CloseStream, TypeOK, Places, OneAtATime, GoesOn, Quiet

LEMMA AcceptedStep ==
    ASSUME IInv, NEW k \in Clients, Accepted(k)
    PROVE  IInv'
BY DEF IInv, Accepted, TypeOK, Places, OneAtATime, GoesOn, Quiet

LEMMA AcceptFailsStep == ASSUME IInv, AcceptFails PROVE IInv'
BY DEF IInv, AcceptFails, TypeOK, OneAtATime, GoesOn, Quiet

LEMMA NextIInv == IInv /\ [Next]_vars => IInv'
<1> SUFFICES ASSUME IInv, [Next]_vars PROVE IInv'
  OBVIOUS
<1>1. CASE UNCHANGED vars
  BY <1>1 DEF vars, IInv, TypeOK, OneAtATime, GoesOn, Quiet
<1>2. CASE Start
  BY <1>2, StartStep
<1>3. CASE Stop
  BY <1>3, StopStep
<1>4. CASE OnAcceptError
  BY <1>4, OnAcceptErrorStep
<1>5. CASE AcceptFails
  BY <1>5, AcceptFailsStep
<1>6. ASSUME NEW k \in Clients,
             \/ Connect(k) \/ Accepted(k)
             \/ OnAccept(k) \/ OnAcceptStops(k) \/ CloseStream(k)
      PROVE  IInv'
  BY <1>6, ClientStep, AcceptedStep, OnAcceptStep, OnAcceptStopsStep
<1> QED BY <1>1, <1>2, <1>3, <1>4, <1>5, <1>6 DEF Next

LEMMA Invariance == Spec => []IInv
BY InitIInv, NextIInv, PTL DEF Spec

-----------------------------------------------------------------------------
\* OneLoop counts what the invariant says without a cardinality.
LEMMA CountsOne == IInv => OneLoop
<1> SUFFICES ASSUME IInv, started, listening, ~broken
             PROVE  accepts + Cardinality(At("accepted")) = 1
  BY DEF OneLoop
<1>1. CASE accepts = 1
  <2>1. At("accepted") = {}
    BY <1>1 DEF IInv, OneAtATime, At
  <2> QED BY <1>1, <2>1, FS_EmptySet
<1>2. CASE accepts # 1
  <2>1. PICK k \in Clients : client[k] = "accepted"
    BY <1>2 DEF IInv, GoesOn
  <2>2. At("accepted") = {k}
    BY <2>1 DEF IInv, OneAtATime, At
  <2>3. Cardinality(At("accepted")) = 1
    BY <2>2, FS_Singleton
  <2>4. accepts = 0
    BY <1>2 DEF IInv, TypeOK
  <2> QED BY <2>3, <2>4
<1> QED BY <1>1, <1>2

(***************************************************************************)
(* Of the accept loop nothing but what TypeOK allows: in particular never  *)
(* two accepts at once on the one acceptor.                                *)
(***************************************************************************)
THEOREM TypeCorrect == Spec => []TypeOK
BY Invariance, PTL DEF IInv

(***************************************************************************)
(* A started server that was not stopped has exactly one accept loop,      *)
(* whichever handlers are queued, whatever the application throws and      *)
(* wherever it stops the server.                                           *)
(***************************************************************************)
THEOREM LoopIsSingle == Spec => []OneLoop
BY Invariance, CountsOne, PTL

-----------------------------------------------------------------------------
(***************************************************************************)
(* LocalSession.                                                           *)
(***************************************************************************)
\* Each step of a session is one of the server or leaves the server as it is.
LEMMA SessionStepIsServerStep == [SessionNext]_sessionVars => [Next]_vars
<1> SUFFICES ASSUME [SessionNext]_sessionVars PROVE [Next]_vars
  OBVIOUS
<1>1. CASE UNCHANGED sessionVars
  BY <1>1 DEF sessionVars
<1>2. CASE LocalStart \/ LocalStop \/ LocalOnAcceptError \/ KernelAcceptFails
  BY <1>2 DEF LocalStart, LocalStop, LocalOnAcceptError, KernelAcceptFails, Next
<1>3. ASSUME NEW k \in Clients, LocalOnAccept(k) \/ KernelAccepts(k) \/ ServerCloses(k)
      PROVE  Next
  BY <1>3 DEF LocalOnAccept, KernelAccepts, ServerCloses, Next
<1>4. ASSUME NEW k \in Clients, ServerWrites(k)
      PROVE  UNCHANGED vars
  BY <1>4 DEF ServerWrites
<1>5. CASE ClientConnects
  BY <1>5 DEF ClientConnects, Next
<1>6. CASE \/ ClientReads \/ ClientConsumes \/ ClientCloses
           \/ Receive \/ OnRead \/ ReadFails
  BY <1>6 DEF ClientReads, ClientConsumes, ClientCloses, Receive, OnRead, ReadFails
<1> QED BY <1>1, <1>2, <1>3, <1>4, <1>5, <1>6 DEF SessionNext

(***************************************************************************)
(* A session is a TcpServer whose clients are the connections of one       *)
(* stream: LocalServer and its streams do nothing TcpServer does not.      *)
(***************************************************************************)
THEOREM SessionImplementsServer == SessionSpec => Spec
<1>1. SessionInit => Init
  BY DEF SessionInit
<1> QED BY <1>1, SessionStepIsServerStep, PTL DEF SessionSpec, Spec

(***************************************************************************)
(* So the accept loop of LocalServer is single too, whatever its streams   *)
(* and the client do.                                                      *)
(***************************************************************************)
THEOREM SessionLoopIsSingle == SessionSpec => []OneLoop
BY SessionImplementsServer, LoopIsSingle, PTL

-----------------------------------------------------------------------------
(* What a reader sees. *)

SeenByte == Bytes \cup {NoBytes}

Joined(b, m, s) == <<b>> \o m \o s

\* r consists of b, then of m, then of s.
IsJoined(r, b, m, s) ==
    /\ r \in Seq(SeenByte)
    /\ Len(r) = 1 + Len(m) + Len(s)
    /\ r[1] = b
    /\ \A i \in 1..Len(m) : r[1 + i] = m[i]
    /\ \A i \in 1..Len(s) : r[1 + Len(m) + i] = s[i]

Seen == Joined(lastTaken, m_buffer, staged)

Chained(s) == \A i \in 1..Len(s) - 1 : Follows(s[i], s[i + 1])

\* The last byte the client has received of any connection.
Latest == Seen[Len(Seen)]

\* The bytes of k that have left the wire.
Received(k) == sent[k] - Len(wire[k])

\* The wire of a connection holds the end of what was sent on it.
WireIsTail ==
    \A k \in Clients :
        /\ Len(wire[k]) <= sent[k]
        /\ \A i \in 1..Len(wire[k]) : /\ wire[k][i].connection = k
                                      /\ wire[k][i].number = Received(k) + i
        /\ k > attempts => sent[k] = 0

\* The client has seen the bytes of its connection that left the wire, and
\* none of it if there are none.
Reached ==
    /\ Latest.connection <= attempts
    /\ connection # 0 =>
          /\ connection = attempts
          /\ Received(connection) = 0 => Latest.connection < connection
          /\ Received(connection) > 0 => Latest.connection = connection
                                         /\ Latest.number = Received(connection)

SessionIInv == /\ IInv
               /\ SessionTypeOK
               /\ WireIsTail
               /\ Reached
               /\ Chained(Seen)

LEMMA ClientNumbers ==
    /\ Cardinality(Clients) \in Nat
    /\ Clients = 1..Cardinality(Clients)
BY FS_CardinalityType, TcpServerAssumption, LocalSessionAssumption

LEMMA JoinedBytes ==
    ASSUME NEW b \in SeenByte, NEW m \in Seq(SeenByte), NEW s \in Seq(SeenByte)
    PROVE  IsJoined(Joined(b, m, s), b, m, s)
<1>1. /\ <<b>> \o m \in Seq(SeenByte) /\ Len(<<b>> \o m) = 1 + Len(m)
      /\ (<<b>> \o m)[1] = b
      /\ \A i \in 1..Len(m) : (<<b>> \o m)[1 + i] = m[i]
  OBVIOUS
<1> DEFINE f == <<b>> \o m
<1>2. /\ f \o s \in Seq(SeenByte) /\ Len(f \o s) = Len(f) + Len(s)
      /\ \A i \in 1..Len(f) : (f \o s)[i] = f[i]
      /\ \A i \in 1..Len(s) : (f \o s)[Len(f) + i] = s[i]
  BY <1>1
<1>3. Joined(b, m, s) = f \o s
  BY DEF Joined
<1> HIDE DEF f
<1>4. /\ Len(f) = 1 + Len(m) /\ Len(m) \in Nat
      /\ f[1] = b /\ \A i \in 1..Len(m) : f[1 + i] = m[i]
  BY <1>1 DEF f
<1> QED BY <1>2, <1>3, <1>4 DEF IsJoined

\* Bytes that follow the last one go on with the chain.
LEMMA ChainGrows ==
    ASSUME NEW b \in SeenByte, NEW m \in Seq(SeenByte), NEW s \in Seq(SeenByte),
           Chained(Joined(b, m, <<>>)), Chained(s),
           s # <<>> => Follows(Joined(b, m, <<>>)[1 + Len(m)], s[1])
    PROVE  Chained(Joined(b, m, s))
<1> DEFINE old == Joined(b, m, <<>>)
           new == Joined(b, m, s)
<1>a. /\ Len(new) = 1 + Len(m) + Len(s)
      /\ new[1] = b
      /\ \A i \in 1..Len(m) : new[1 + i] = m[i]
      /\ \A i \in 1..Len(s) : new[1 + Len(m) + i] = s[i]
  <2>1. IsJoined(new, b, m, s)
    BY JoinedBytes
  <2> QED BY <2>1 DEF IsJoined
<1>b. <<>> \in Seq(SeenByte) /\ Len(<<>>) = 0 /\ Len(m) \in Nat /\ Len(s) \in Nat
  OBVIOUS
<1>c. /\ Len(old) = 1 + Len(m) + Len(<<>>)
      /\ old[1] = b
      /\ \A i \in 1..Len(m) : old[1 + i] = m[i]
  <2>1. <<>> \in Seq(SeenByte)
    BY <1>b
  <2>2. IsJoined(old, b, m, <<>>)
    BY <2>1, JoinedBytes
  <2> QED BY <2>2 DEF IsJoined
<1> HIDE DEF old, new
<1>1. /\ Len(old) = 1 + Len(m) /\ Len(new) = 1 + Len(m) + Len(s)
      /\ Len(m) \in Nat /\ Len(s) \in Nat
      /\ \A i \in 1..Len(s) : new[1 + Len(m) + i] = s[i]
  BY <1>a, <1>b, <1>c
<1>2. \A i \in 1..1 + Len(m) : new[i] = old[i]
  <2>1. new[1] = b /\ old[1] = b
    BY <1>a, <1>c
  <2>2. \A i \in 1..Len(m) : new[1 + i] = m[i] /\ old[1 + i] = m[i]
    BY <1>a, <1>c
  <2>3. ASSUME NEW i \in 1..1 + Len(m), i # 1 PROVE new[i] = old[i]
    <3>1. i - 1 \in 1..Len(m) /\ 1 + (i - 1) = i
      BY <2>3, <1>1
    <3> QED BY <3>1, <2>2
  <2> QED BY <2>1, <2>3
<1>3. SUFFICES ASSUME NEW i \in 1..Len(new) - 1 PROVE Follows(new[i], new[i + 1])
  BY DEF Chained, new
<1>4. CASE i <= Len(m)
  <2>1. i \in 1..Len(old) - 1 /\ i \in 1..1 + Len(m) /\ i + 1 \in 1..1 + Len(m)
    BY <1>1, <1>4
  <2>2. Follows(old[i], old[i + 1])
    BY <2>1 DEF Chained, old
  <2> QED BY <2>1, <2>2, <1>2
<1>5. CASE i = 1 + Len(m)
  <2>1. s # <<>> /\ 1 \in 1..Len(s) /\ i \in 1..1 + Len(m)
    BY <1>1, <1>5
  <2>2. new[i] = old[i] /\ new[i + 1] = s[1]
    BY <2>1, <1>1, <1>2, <1>5
  <2> QED BY <2>1, <2>2, <1>5 DEF old
<1>6. CASE i > 1 + Len(m)
  <2> DEFINE j == i - (1 + Len(m))
  <2>1. /\ j \in 1..Len(s) - 1 /\ j \in 1..Len(s) /\ j + 1 \in 1..Len(s)
        /\ i = 1 + Len(m) + j /\ i + 1 = 1 + Len(m) + (j + 1)
    BY <1>1, <1>6
  <2> HIDE DEF j
  <2>2. new[i] = s[j] /\ new[i + 1] = s[j + 1]
    BY <2>1, <1>1
  <2> QED BY <2>1, <2>2 DEF Chained
<1>7. i \in Int /\ Len(m) \in Nat
  BY <1>1
<1> QED BY <1>4, <1>5, <1>6, <1>7

-----------------------------------------------------------------------------
(* The invariant of the composition. *)

LEMMA SeenBytes ==
    ASSUME SessionTypeOK
    PROVE  /\ lastTaken \in SeenByte
           /\ m_buffer \in Seq(SeenByte) /\ staged \in Seq(SeenByte)
           /\ Seen \in Seq(SeenByte)
           /\ Len(Seen) = 1 + Len(m_buffer) + Len(staged)
           /\ Seen[1] = lastTaken
           /\ \A i \in 1..Len(m_buffer) : Seen[1 + i] = m_buffer[i]
           /\ \A i \in 1..Len(staged) : Seen[1 + Len(m_buffer) + i] = staged[i]
           /\ Latest \in SeenByte
<1>1. /\ lastTaken \in SeenByte
      /\ m_buffer \in Seq(SeenByte) /\ staged \in Seq(SeenByte)
  BY DEF SessionTypeOK, SeenByte
<1>2. /\ Seen \in Seq(SeenByte)
      /\ Len(Seen) = 1 + Len(m_buffer) + Len(staged)
      /\ Seen[1] = lastTaken
      /\ \A i \in 1..Len(m_buffer) : Seen[1 + i] = m_buffer[i]
      /\ \A i \in 1..Len(staged) : Seen[1 + Len(m_buffer) + i] = staged[i]
  <2>1. IsJoined(Seen, lastTaken, m_buffer, staged)
    BY <1>1, JoinedBytes DEF Seen
  <2> QED BY <2>1 DEF IsJoined
<1>3. Latest \in SeenByte
  BY <1>1, <1>2 DEF Latest
<1> QED BY <1>1, <1>2, <1>3

LEMMA SeenNumbers ==
    /\ \A b \in Bytes : b.connection \in Nat \ {0} /\ b.number \in Nat \ {0}
    /\ \A b \in SeenByte : b.connection \in Nat /\ b.number \in Nat
<1>1. \A b \in Bytes : b.connection \in Nat \ {0} /\ b.number \in Nat \ {0}
  BY ClientNumbers, LocalSessionAssumption DEF Bytes
<1>2. NoBytes.connection = 0 /\ NoBytes.number = 0
  BY DEF NoBytes
<1> QED BY <1>1, <1>2 DEF SeenByte

\* The connection of the client is one of those it has begun.
LEMMA ConnectionIsClient ==
    ASSUME SessionTypeOK, connection # 0
    PROVE  connection \in Clients
BY ClientNumbers DEF SessionTypeOK

LEMMA SessionInitInv == SessionInit => SessionIInv
<1> SUFFICES ASSUME SessionInit PROVE SessionIInv
  OBVIOUS
<1>1. IInv
  BY InitIInv DEF SessionInit
<1>2. SessionTypeOK
  BY <1>1, LocalSessionAssumption, ClientNumbers
     DEF SessionInit, SessionTypeOK, IInv
<1>3. WireIsTail
  BY DEF SessionInit, WireIsTail
<1>4. Len(Seen) = 1 /\ Seen[1] = NoBytes
  <2>1. Len(m_buffer) = 0 /\ Len(staged) = 0 /\ lastTaken = NoBytes
    BY DEF SessionInit
  <2> QED BY <1>2, <2>1, SeenBytes
<1>5. Latest.connection = 0
  BY <1>4 DEF Latest, NoBytes
<1>6. Chained(Seen)
  BY <1>4 DEF Chained
<1> QED BY <1>1, <1>2, <1>3, <1>5, <1>6 DEF SessionInit, SessionIInv, Reached

\* What was seen and is on its way stays: only the server's part moves.
LEMMA StreamsStay ==
    ASSUME SessionIInv, IInv', UNCHANGED <<clientVars, streamVars>>
    PROVE  SessionIInv'
<1>1. UNCHANGED <<connection, attempts, reading, staged, m_buffer, lastTaken, sent, wire>>
  BY DEF clientVars, streamVars
<1>2. SessionTypeOK'
  BY <1>1 DEF SessionIInv, SessionTypeOK, IInv
<1>3. Seen' = Seen /\ Latest' = Latest
  BY <1>1 DEF Seen, Latest
<1> QED BY <1>1, <1>2, <1>3 DEF SessionIInv, WireIsTail, Received, Reached

\* The client waits, or no longer: nothing else changes.
LEMMA ReadingStep ==
    ASSUME SessionIInv, ClientReads \/ ReadFails
    PROVE  SessionIInv'
<1>1. /\ UNCHANGED <<vars, connection, attempts, staged, m_buffer, lastTaken, sent, wire>>
      /\ reading' \in 0..MaxRequest
  BY LocalSessionAssumption DEF ClientReads, ReadFails, streamVars, SessionIInv, SessionTypeOK
<1>2. IInv'
  BY <1>1, NextIInv DEF SessionIInv
<1>3. SessionTypeOK'
  BY <1>1, <1>2 DEF SessionIInv, SessionTypeOK, IInv
<1>4. Seen' = Seen /\ Latest' = Latest
  BY <1>1 DEF Seen, Latest
<1> QED BY <1>1, <1>2, <1>3, <1>4 DEF SessionIInv, WireIsTail, Received, Reached

LEMMA ServerWritesStep ==
    ASSUME SessionIInv, NEW k \in Clients, ServerWrites(k)
    PROVE  SessionIInv'
<1> DEFINE byte == [connection |-> k, number |-> sent[k] + 1]
<1>1. /\ UNCHANGED <<vars, connection, attempts, reading, staged, m_buffer, lastTaken>>
      /\ connection = k /\ sent[k] < MaxBytes
      /\ sent' = [sent EXCEPT ![k] = @ + 1]
      /\ wire' = [wire EXCEPT ![k] = Append(@, byte)]
  BY DEF ServerWrites, clientVars
<1>2. /\ sent \in [Clients -> 0..MaxBytes] /\ wire \in [Clients -> Seq(Bytes)]
      /\ byte \in Bytes /\ MaxBytes \in Nat
  <2>1. /\ sent \in [Clients -> 0..MaxBytes] /\ wire \in [Clients -> Seq(Bytes)]
        /\ MaxBytes \in Nat
    BY LocalSessionAssumption DEF SessionIInv, SessionTypeOK
  <2>2. sent[k] + 1 \in 1..MaxBytes
    BY <1>1, <2>1
  <2> QED BY <2>1, <2>2 DEF Bytes
<1>3. IInv'
  BY <1>1, NextIInv DEF SessionIInv
<1>4. SessionTypeOK'
  BY <1>1, <1>2, <1>3 DEF SessionIInv, SessionTypeOK, IInv
<1>5. byte.connection = k /\ byte.number = sent[k] + 1
  OBVIOUS
<1> HIDE DEF byte
<1>6. /\ Len(wire'[k]) = Len(wire[k]) + 1 /\ sent'[k] = sent[k] + 1
      /\ \A i \in 1..Len(wire[k]) : wire'[k][i] = wire[k][i]
      /\ wire'[k][Len(wire[k]) + 1] = byte
      /\ Len(wire[k]) \in Nat /\ sent[k] \in Nat
  BY <1>1, <1>2
<1>7. \A j \in Clients : j # k => sent'[j] = sent[j] /\ wire'[j] = wire[j]
  BY <1>1, <1>2
<1>8. ASSUME NEW j \in Clients PROVE Received(j)' = Received(j)
  <2>1. CASE j = k
    <3>1. /\ sent'[k] = sent[k] + 1 /\ Len(wire'[k]) = Len(wire[k]) + 1
          /\ sent[k] \in Int /\ Len(wire[k]) \in Int
      BY <1>6
    <3>2. ASSUME NEW m \in Int, NEW n \in Int PROVE (m + 1) - (n + 1) = m - n
      OBVIOUS
    <3>3. sent'[k] - Len(wire'[k]) = sent[k] - Len(wire[k])
      BY <3>1, <3>2
    <3> QED BY <2>1, <3>3 DEF Received
  <2>2. CASE j # k
    BY <2>2, <1>7 DEF Received
  <2> QED BY <2>1, <2>2
<1>9. WireIsTail'
  <2> SUFFICES ASSUME NEW j \in Clients
               PROVE  /\ Len(wire'[j]) <= sent'[j]
                      /\ \A i \in 1..Len(wire'[j]) :
                            /\ wire'[j][i].connection = j
                            /\ wire'[j][i].number = Received(j)' + i
                      /\ j > attempts' => sent'[j] = 0
    BY DEF WireIsTail
  <2>1. CASE j # k
    BY <2>1, <1>1, <1>7, <1>8 DEF SessionIInv, WireIsTail
  <2>2. CASE j = k
    <3>1. Len(wire[k]) <= sent[k] /\ ~(k > attempts)
      BY <1>1, ConnectionIsClient, ClientNumbers
         DEF SessionIInv, WireIsTail, SessionTypeOK
    <3>2. ASSUME NEW i \in 1..Len(wire'[k])
          PROVE  wire'[k][i].connection = k /\ wire'[k][i].number = Received(k) + i
      <4>1. CASE i = Len(wire[k]) + 1
        BY <4>1, <1>5, <1>6 DEF Received
      <4>2. CASE i \in 1..Len(wire[k])
        <5>1. wire[k][i].connection = k /\ wire[k][i].number = Received(k) + i
          BY <4>2 DEF SessionIInv, WireIsTail
        <5> QED BY <4>2, <5>1, <1>6
      <4> QED BY <4>1, <4>2, <1>6
    <3> QED BY <2>2, <3>1, <3>2, <1>1, <1>6, <1>8
  <2> QED BY <2>1, <2>2
<1>10. Seen' = Seen /\ Latest' = Latest
  BY <1>1 DEF Seen, Latest
<1>11. Reached'
  BY <1>1, <1>8, <1>10 DEF SessionIInv, Reached
<1> QED BY <1>3, <1>4, <1>9, <1>10, <1>11 DEF SessionIInv

\* A new connection: nothing of it has been seen.
LEMMA ClientConnectsStep ==
    ASSUME SessionIInv, ClientConnects
    PROVE  SessionIInv'
<1> DEFINE k == attempts + 1
<1>1. /\ k \in Clients /\ Connect(k) /\ connection' = k /\ attempts' = k
      /\ UNCHANGED <<reading, staged, m_buffer, lastTaken, sent, wire>>
  BY DEF ClientConnects, streamVars
<1>2. IInv'
  BY <1>1, NextIInv DEF SessionIInv, Next
<1>3. k \in 1..Cardinality(Clients) /\ Cardinality(Clients) \in Nat /\ attempts \in Nat
  BY <1>1, ClientNumbers DEF SessionIInv, SessionTypeOK
<1> HIDE DEF k
<1>4. connection' \in 0..attempts' /\ attempts' \in 0..Cardinality(Clients)
  BY <1>1, <1>3
<1>5. SessionTypeOK'
  BY <1>1, <1>2, <1>4 DEF SessionIInv, SessionTypeOK, IInv
<1>6. Seen' = Seen /\ Latest' = Latest /\ \A j \in Clients : Received(j)' = Received(j)
  BY <1>1 DEF Seen, Latest, Received
<1>7. \A j \in Clients : j > attempts' => j > attempts
  BY <1>1, <1>3, ClientNumbers DEF k
<1>8. WireIsTail'
  BY <1>1, <1>6, <1>7 DEF SessionIInv, WireIsTail
<1>9. Received(k) = 0
  <2>1. k > attempts /\ Len(wire[k]) \in Nat
    BY <1>1, <1>3 DEF k, SessionIInv, SessionTypeOK
  <2>2. sent[k] = 0 /\ Len(wire[k]) <= sent[k]
    BY <1>1, <2>1 DEF SessionIInv, WireIsTail
  <2> QED BY <2>1, <2>2 DEF Received
<1>10. Latest.connection <= attempts /\ Latest.connection \in Nat
  BY SeenBytes, SeenNumbers DEF SessionIInv, Reached
<1>11. Latest'.connection <= attempts' /\ Latest'.connection < connection'
  BY <1>1, <1>3, <1>6, <1>10 DEF k
<1>12. Received(connection)' = 0
  BY <1>1, <1>6, <1>9 DEF Received
<1>13. Reached'
  BY <1>1, <1>11, <1>12 DEF Reached
<1> QED BY <1>2, <1>5, <1>6, <1>8, <1>13 DEF SessionIInv

\* The buffer and what is queued for it stay when the socket is closed.
LEMMA ClientClosesStep ==
    ASSUME SessionIInv, ClientCloses
    PROVE  SessionIInv'
<1>1. /\ connection # 0 /\ connection' = 0
      /\ UNCHANGED <<vars, sent, attempts, staged, m_buffer, lastTaken>>
      /\ wire' = [wire EXCEPT ![connection] = <<>>]
      /\ reading' \in {0, reading}
  BY DEF ClientCloses
<1>2. IInv'
  BY <1>1, NextIInv DEF SessionIInv
<1>3. connection \in Clients /\ wire \in [Clients -> Seq(Bytes)]
      /\ sent \in [Clients -> 0..MaxBytes] /\ attempts \in Nat
  BY <1>1, ConnectionIsClient, ClientNumbers DEF SessionIInv, SessionTypeOK
<1>4. wire' \in [Clients -> Seq(Bytes)]
  BY <1>1, <1>3
<1>5. connection' \in 0..attempts' /\ reading' \in 0..MaxRequest
  BY <1>1, <1>3, LocalSessionAssumption DEF SessionIInv, SessionTypeOK
<1>6. SessionTypeOK'
  BY <1>1, <1>2, <1>4, <1>5 DEF SessionIInv, SessionTypeOK, IInv
<1>7. Seen' = Seen /\ Latest' = Latest
  BY <1>1 DEF Seen, Latest
<1>8. WireIsTail'
  <2> SUFFICES ASSUME NEW j \in Clients
               PROVE  /\ Len(wire'[j]) <= sent'[j]
                      /\ \A i \in 1..Len(wire'[j]) :
                            /\ wire'[j][i].connection = j
                            /\ wire'[j][i].number = Received(j)' + i
                      /\ j > attempts' => sent'[j] = 0
    BY DEF WireIsTail
  <2>1. CASE j = connection
    <3>1. wire'[j] = <<>> /\ Len(wire'[j]) = 0 /\ sent'[j] \in 0..MaxBytes
      BY <2>1, <1>1, <1>3
    <3>2. 0 <= sent'[j]
      BY <3>1, LocalSessionAssumption
    <3>3. j > attempts' => sent'[j] = 0
      BY <1>1 DEF SessionIInv, WireIsTail
    <3> QED BY <3>1, <3>2, <3>3
  <2>2. CASE j # connection
    <3>1. wire'[j] = wire[j] /\ sent'[j] = sent[j] /\ Received(j)' = Received(j)
      BY <2>2, <1>1, <1>3 DEF Received
    <3> QED BY <3>1, <1>1 DEF SessionIInv, WireIsTail
  <2> QED BY <2>1, <2>2
<1>9. Reached'
  BY <1>1, <1>7 DEF SessionIInv, Reached
<1> QED BY <1>2, <1>6, <1>7, <1>8, <1>9 DEF SessionIInv

\* Consuming forgets the oldest bytes.
LEMMA ClientConsumesStep ==
    ASSUME SessionIInv, ClientConsumes
    PROVE  SessionIInv'
<1>1. PICK n \in 1..Len(m_buffer) :
          /\ m_buffer' = SubSeq(m_buffer, n + 1, Len(m_buffer))
          /\ lastTaken' = m_buffer[n]
  BY DEF ClientConsumes
<1>2. UNCHANGED <<vars, connection, attempts, reading, staged, sent, wire>>
  BY DEF ClientConsumes, streamVars
<1>3. IInv'
  BY <1>2, NextIInv DEF SessionIInv
<1>4. /\ m_buffer \in Seq(Bytes) /\ Len(m_buffer) \in Nat
      /\ n \in Nat \ {0} /\ n <= Len(m_buffer)
  BY DEF SessionIInv, SessionTypeOK
<1>5. /\ m_buffer' \in Seq(Bytes) /\ Len(m_buffer') = Len(m_buffer) - n
      /\ \A i \in 1..Len(m_buffer') : m_buffer'[i] = m_buffer[n + i]
  BY <1>1, <1>4
<1>6. lastTaken' \in Bytes
  BY <1>1, <1>4
<1>7. SessionTypeOK'
  BY <1>2, <1>3, <1>5, <1>6 DEF SessionIInv, SessionTypeOK, IInv
<1>8. /\ Len(Seen) = 1 + Len(m_buffer) + Len(staged)
      /\ \A i \in 1..Len(m_buffer) : Seen[1 + i] = m_buffer[i]
      /\ \A i \in 1..Len(staged) : Seen[1 + Len(m_buffer) + i] = staged[i]
      /\ Len(staged) \in Nat
  BY SeenBytes DEF SessionIInv
<1>9. /\ Len(Seen') = 1 + Len(m_buffer') + Len(staged)
      /\ Seen'[1] = lastTaken'
      /\ \A i \in 1..Len(m_buffer') : Seen'[1 + i] = m_buffer'[i]
      /\ \A i \in 1..Len(staged) : Seen'[1 + Len(m_buffer') + i] = staged[i]
  <2>1. /\ lastTaken' \in SeenByte
        /\ m_buffer' \in Seq(SeenByte) /\ staged \in Seq(SeenByte)
    BY <1>5, <1>6, SeenBytes DEF SeenByte, SessionIInv
  <2>2. Seen' = Joined(lastTaken', m_buffer', staged)
    BY <1>2 DEF Seen
  <2>3. IsJoined(Seen', lastTaken', m_buffer', staged)
    BY <2>1, <2>2, JoinedBytes
  <2> QED BY <2>3 DEF IsJoined
<1>10. Len(Seen') = Len(Seen) - n /\ Len(Seen') \in Nat \ {0}
  BY <1>4, <1>5, <1>8, <1>9
<1>11. ASSUME NEW i \in 1..Len(Seen') PROVE Seen'[i] = Seen[n + i]
  <2>1. CASE i = 1
    BY <2>1, <1>1, <1>8, <1>9
  <2>2. CASE i > 1 /\ i <= 1 + Len(m_buffer')
    <3> DEFINE j == i - 1
    <3>1. /\ j \in 1..Len(m_buffer') /\ i = 1 + j
          /\ n + j \in 1..Len(m_buffer) /\ n + i = 1 + (n + j)
      BY <2>2, <1>4, <1>5
    <3> HIDE DEF j
    <3> QED BY <3>1, <1>5, <1>8, <1>9
  <2>3. CASE i > 1 + Len(m_buffer')
    <3> DEFINE j == i - (1 + Len(m_buffer'))
    <3>1. /\ j \in 1..Len(staged) /\ i = 1 + Len(m_buffer') + j
          /\ n + i = 1 + Len(m_buffer) + j
      BY <2>3, <1>4, <1>5, <1>8, <1>9
    <3> HIDE DEF j
    <3> QED BY <3>1, <1>8, <1>9
  <2> QED BY <2>1, <2>2, <2>3, <1>4, <1>5
<1>12. Chained(Seen)'
  <2> SUFFICES ASSUME NEW i \in 1..Len(Seen') - 1
               PROVE  Follows(Seen'[i], Seen'[i + 1])
    BY DEF Chained
  <2>1. /\ i \in 1..Len(Seen') /\ i + 1 \in 1..Len(Seen')
        /\ n + i \in 1..Len(Seen) - 1 /\ n + (i + 1) = (n + i) + 1
    BY <1>4, <1>10
  <2>2. Follows(Seen[n + i], Seen[(n + i) + 1])
    BY <2>1 DEF SessionIInv, Chained
  <2> QED BY <2>1, <2>2, <1>11
<1>13. Latest' = Latest
  <2>1. Len(Seen') \in 1..Len(Seen') /\ n + Len(Seen') = Len(Seen)
    BY <1>4, <1>8, <1>10
  <2> QED BY <2>1, <1>11 DEF Latest
<1> QED BY <1>2, <1>3, <1>7, <1>12, <1>13
        DEF SessionIInv, WireIsTail, Received, Reached

\* What was received goes to the buffer: the reader sees the same bytes.
LEMMA OnReadStep ==
    ASSUME SessionIInv, OnRead
    PROVE  SessionIInv'
<1>1. /\ m_buffer' = m_buffer \o staged /\ staged' = <<>> /\ staged # <<>>
      /\ UNCHANGED <<vars, connection, attempts, lastTaken, sent, wire>>
      /\ reading' = IF Len(staged) < reading /\ connection # 0
                    THEN reading - Len(staged) ELSE 0
  BY DEF OnRead, streamVars
<1>2. IInv'
  BY <1>1, NextIInv DEF SessionIInv
<1>3. m_buffer \in Seq(Bytes) /\ staged \in Seq(Bytes) /\ reading \in 0..MaxRequest
  BY DEF SessionIInv, SessionTypeOK
<1>4. reading' \in 0..MaxRequest
  BY <1>1, <1>3, LocalSessionAssumption
<1>5. m_buffer' \in Seq(Bytes) /\ staged' \in Seq(Bytes)
  BY <1>1, <1>3
<1>6. SessionTypeOK'
  BY <1>1, <1>2, <1>4, <1>5 DEF SessionIInv, SessionTypeOK, IInv
<1>7. Seen' = Seen
  <2>1. /\ <<lastTaken>> \in Seq(SeenByte)
        /\ m_buffer \in Seq(SeenByte) /\ staged \in Seq(SeenByte)
    BY SeenBytes DEF SessionIInv
  <2>2. (<<lastTaken>> \o m_buffer) \o staged = <<lastTaken>> \o (m_buffer \o staged)
    BY <2>1, ConcatAssociative
  <2>3. <<lastTaken>> \o (m_buffer \o staged) \in Seq(SeenByte)
    BY <2>1
  <2>4. (<<lastTaken>> \o (m_buffer \o staged)) \o <<>> = <<lastTaken>> \o (m_buffer \o staged)
    BY <2>3, ConcatEmptySeq
  <2> QED BY <1>1, <2>2, <2>4 DEF Seen, Joined
<1>8. Latest' = Latest
  BY <1>7 DEF Latest
<1> QED BY <1>1, <1>2, <1>6, <1>7, <1>8 DEF SessionIInv, WireIsTail, Received, Reached

\* The bytes received are the next ones of the connection, and follow what
\* was seen of it, or of the connection before.
LEMMA ReceiveStep ==
    ASSUME SessionIInv, Receive
    PROVE  SessionIInv'
<1> DEFINE c == connection
<1>1. /\ c # 0 /\ reading > 0 /\ staged = <<>>
      /\ UNCHANGED <<vars, sent, connection, attempts, reading, m_buffer, lastTaken>>
  BY DEF Receive
<1>2. PICK n \in 1..Len(wire[c]) :
          /\ staged' = SubSeq(wire[c], 1, n)
          /\ wire' = [wire EXCEPT ![c] = SubSeq(@, n + 1, Len(@))]
  BY DEF Receive
<1>3. /\ c \in Clients /\ wire \in [Clients -> Seq(Bytes)]
      /\ sent \in [Clients -> 0..MaxBytes]
  BY <1>1, ConnectionIsClient DEF SessionIInv, SessionTypeOK
<1> HIDE DEF c
<1>4. /\ wire[c] \in Seq(Bytes) /\ Len(wire[c]) \in Nat /\ sent[c] \in Nat
      /\ n \in Nat \ {0} /\ n <= Len(wire[c])
  BY <1>2, <1>3, LocalSessionAssumption
<1>5. /\ staged' \in Seq(Bytes) /\ Len(staged') = n
      /\ \A i \in 1..n : staged'[i] = wire[c][i]
  BY <1>2, <1>4
<1>6. /\ wire'[c] = SubSeq(wire[c], n + 1, Len(wire[c]))
      /\ \A j \in Clients : j # c => wire'[j] = wire[j]
      /\ wire' \in [Clients -> Seq(Bytes)]
  BY <1>2, <1>3, <1>4
<1>7. /\ Len(wire'[c]) = Len(wire[c]) - n
      /\ \A i \in 1..Len(wire'[c]) : wire'[c][i] = wire[c][n + i]
  BY <1>4, <1>6
<1>8. IInv'
  BY <1>1, NextIInv DEF SessionIInv
<1>9. SessionTypeOK'
  BY <1>1, <1>5, <1>6, <1>8 DEF SessionIInv, SessionTypeOK, IInv
<1>10. /\ Received(c) \in Nat /\ Received(c)' = Received(c) + n
       /\ Received(c) = sent[c] - Len(wire[c])
  <2>1. Len(wire[c]) <= sent[c]
    BY <1>3 DEF SessionIInv, WireIsTail
  <2>2. sent[c] - Len(wire[c]) \in Nat
        /\ sent[c] - (Len(wire[c]) - n) = (sent[c] - Len(wire[c])) + n
    BY <2>1, <1>4
  <2>3. Received(c)' = sent[c] - (Len(wire[c]) - n)
    <3>1. sent' = sent /\ c' = c
      BY <1>1 DEF c
    <3> QED BY <3>1, <1>7 DEF Received
  <2> QED BY <2>2, <2>3 DEF Received
<1>11. \A i \in 1..Len(wire[c]) : /\ wire[c][i].connection = c
                                  /\ wire[c][i].number = Received(c) + i
  BY <1>3 DEF SessionIInv, WireIsTail
<1>12. WireIsTail'
  <2> SUFFICES ASSUME NEW j \in Clients
               PROVE  /\ Len(wire'[j]) <= sent'[j]
                      /\ \A i \in 1..Len(wire'[j]) :
                            /\ wire'[j][i].connection = j
                            /\ wire'[j][i].number = Received(j)' + i
                      /\ j > attempts' => sent'[j] = 0
    BY DEF WireIsTail
  <2>1. j > attempts' => sent'[j] = 0
    BY <1>1 DEF SessionIInv, WireIsTail
  <2>2. CASE j = c
    <3>1. Len(wire[c]) <= sent[c] /\ sent' = sent
      BY <1>1, <1>3 DEF SessionIInv, WireIsTail
    <3>2. Len(wire'[c]) <= sent'[c]
      BY <3>1, <1>4, <1>7
    <3>3. Received(j)' = Received(c) + n
      <4>1. Received(j)' = sent'[j] - Len(wire'[j])
        BY DEF Received
      <4>2. sent'[c] - Len(wire'[c]) = Received(c) + n
        BY <3>1, <1>4, <1>7, <1>10
      <4> QED BY <4>1, <4>2, <2>2
    <3>4. ASSUME NEW i \in 1..Len(wire'[c])
          PROVE  /\ wire'[c][i].connection = c
                 /\ wire'[c][i].number = (Received(c) + n) + i
      <4>1. n + i \in 1..Len(wire[c]) /\ Received(c) + (n + i) = (Received(c) + n) + i
        BY <1>4, <1>7, <1>10
      <4> QED BY <4>1, <1>7, <1>11
    <3> QED BY <2>1, <2>2, <3>2, <3>3, <3>4
  <2>3. CASE j # c
    <3>1. wire'[j] = wire[j] /\ sent'[j] = sent[j]
      BY <2>3, <1>1, <1>6
    <3>2. Received(j)' = Received(j)
      BY <3>1 DEF Received
    <3> QED BY <2>1, <3>1, <3>2 DEF SessionIInv, WireIsTail
  <2> QED BY <2>2, <2>3
<1>13. /\ lastTaken \in SeenByte /\ m_buffer \in Seq(SeenByte)
       /\ staged' \in Seq(SeenByte) /\ Len(m_buffer) \in Nat
       /\ Len(Seen) = 1 + Len(m_buffer)
  <2>1. Len(staged) = 0
    BY <1>1
  <2> QED BY <1>5, <2>1, SeenBytes DEF SeenByte, SessionIInv
<1>14. Seen = Joined(lastTaken, m_buffer, <<>>)
       /\ Seen' = Joined(lastTaken, m_buffer, staged')
  BY <1>1 DEF Seen
<1>15. Chained(staged')
  <2> SUFFICES ASSUME NEW i \in 1..n - 1 PROVE Follows(staged'[i], staged'[i + 1])
    BY <1>5 DEF Chained
  <2>1. /\ i \in 1..n /\ i + 1 \in 1..n
        /\ i \in 1..Len(wire[c]) /\ i + 1 \in 1..Len(wire[c])
        /\ Received(c) + (i + 1) = (Received(c) + i) + 1
    <3>1. i \in 1..n /\ i + 1 \in 1..n /\ i \in Nat
      BY <1>4
    <3>2. i \in 1..Len(wire[c]) /\ i + 1 \in 1..Len(wire[c])
      BY <3>1, <1>4, <1>10
    <3>3. Received(c) + (i + 1) = (Received(c) + i) + 1
      BY <3>1, <1>10
    <3> QED BY <3>1, <3>2, <3>3
  <2> QED BY <2>1, <1>5, <1>11 DEF Follows
<1>16. Follows(Seen[1 + Len(m_buffer)], staged'[1])
  <2>1. /\ staged'[1] = wire[c][1]
        /\ wire[c][1].connection = c /\ wire[c][1].number = Received(c) + 1
    <3>1. 1 \in 1..n /\ 1 \in 1..Len(wire[c])
      BY <1>4
    <3> QED BY <3>1, <1>5, <1>11
  <2>2. Seen[1 + Len(m_buffer)] = Latest
    BY <1>13 DEF Latest
  <2>3. /\ Received(c) = 0 => Latest.connection < c
        /\ Received(c) > 0 => Latest.connection = c /\ Latest.number = Received(c)
    BY <1>1 DEF c, SessionIInv, Reached
  <2>4. CASE Received(c) = 0
    BY <2>1, <2>2, <2>3, <2>4, <1>3, ClientNumbers, SeenBytes, SeenNumbers
       DEF Follows, SessionIInv
  <2>5. CASE Received(c) > 0
    BY <2>1, <2>2, <2>3, <2>5 DEF Follows
  <2> QED BY <2>4, <2>5, <1>10
<1>17. Chained(Seen)'
  <2>1. Chained(Joined(lastTaken, m_buffer, <<>>))
    BY <1>14 DEF SessionIInv
  <2>2. Follows(Joined(lastTaken, m_buffer, <<>>)[1 + Len(m_buffer)], staged'[1])
    BY <1>14, <1>16
  <2>3. Chained(Joined(lastTaken, m_buffer, staged'))
    BY <2>1, <2>2, <1>13, <1>15, ChainGrows
  <2>4. Chained(Seen')
    BY <2>3, <1>14
  <2> QED BY <2>4 DEF Chained
<1>18. Latest' = wire[c][n]
  <2> DEFINE joined == Joined(lastTaken, m_buffer, staged')
  <2>1. /\ Len(joined) = 1 + Len(m_buffer) + Len(staged')
        /\ \A i \in 1..Len(staged') : joined[1 + Len(m_buffer) + i] = staged'[i]
    <3>1. IsJoined(joined, lastTaken, m_buffer, staged')
      BY <1>13, JoinedBytes
    <3> QED BY <3>1 DEF IsJoined
  <2>2. Latest' = joined[Len(joined)]
    BY <1>14 DEF Latest
  <2> HIDE DEF joined
  <2>3. n \in 1..Len(staged') /\ Len(joined) = 1 + Len(m_buffer) + n
    BY <2>1, <1>4, <1>5
  <2>4. joined[Len(joined)] = staged'[n] /\ staged'[n] = wire[c][n]
    BY <2>1, <2>3, <1>5
  <2> QED BY <2>2, <2>4
<1>19. Reached'
  <2>1. Latest'.connection = c /\ Latest'.number = Received(c) + n
    <3>1. n \in 1..Len(wire[c])
      BY <1>4
    <3> QED BY <3>1, <1>11, <1>18
  <2>2. c = attempts /\ c \in Nat /\ connection' = c /\ attempts' = attempts
    BY <1>1, <1>3, ClientNumbers DEF c, SessionIInv, Reached
  <2>3. Received(connection)' = Received(c) + n
    BY <2>2, <1>10 DEF c
  <2>4. Received(c) + n > 0
    BY <1>4, <1>10
  <2>5. Received(connection)' # 0
    BY <2>3, <2>4, <1>4, <1>10
  <2> QED BY <2>1, <2>2, <2>3, <2>5 DEF Reached
<1> QED BY <1>8, <1>9, <1>12, <1>17, <1>19 DEF SessionIInv

LEMMA SessionNextInv == SessionIInv /\ [SessionNext]_sessionVars => SessionIInv'
<1> SUFFICES ASSUME SessionIInv, [SessionNext]_sessionVars PROVE SessionIInv'
  OBVIOUS
<1>1. IInv'
  BY SessionStepIsServerStep, NextIInv DEF SessionIInv
<1>2. CASE UNCHANGED sessionVars
  BY <1>1, <1>2, StreamsStay DEF sessionVars
<1>3. CASE LocalStart \/ LocalStop \/ LocalOnAcceptError \/ KernelAcceptFails
  BY <1>1, <1>3, StreamsStay
     DEF LocalStart, LocalStop, LocalOnAcceptError, KernelAcceptFails
<1>4. ASSUME NEW k \in Clients, LocalOnAccept(k) \/ KernelAccepts(k) \/ ServerCloses(k)
      PROVE  SessionIInv'
  BY <1>1, <1>4, StreamsStay DEF LocalOnAccept, KernelAccepts, ServerCloses
<1>5. ASSUME NEW k \in Clients, ServerWrites(k)
      PROVE  SessionIInv'
  BY <1>5, ServerWritesStep
<1>6. CASE ClientConnects
  BY <1>6, ClientConnectsStep
<1>7. CASE ClientReads \/ ReadFails
  BY <1>7, ReadingStep
<1>8. CASE ClientConsumes
  BY <1>8, ClientConsumesStep
<1>9. CASE ClientCloses
  BY <1>9, ClientClosesStep
<1>10. CASE Receive
  BY <1>10, ReceiveStep
<1>11. CASE OnRead
  BY <1>11, OnReadStep
<1> QED BY <1>2, <1>3, <1>4, <1>5, <1>6, <1>7, <1>8, <1>9, <1>10, <1>11 DEF SessionNext

LEMMA SessionInvariance == SessionSpec => []SessionIInv
BY SessionInitInv, SessionNextInv, PTL DEF SessionSpec

(***************************************************************************)
(* The state of the composition has its type: the read never needs more    *)
(* than was asked for, and the buffer holds bytes of the connections only. *)
(***************************************************************************)
THEOREM SessionTypeCorrect == SessionSpec => []SessionTypeOK
BY SessionInvariance, PTL DEF SessionIInv

(***************************************************************************)
(* Whatever closes, reconnections and queued handlers come between, the    *)
(* reader gets each connection from its first byte on and without gaps,    *)
(* and older connections before newer ones.                                *)
(***************************************************************************)
THEOREM ReadsHaveNoGaps == SessionSpec => []NoGaps
<1>1. Chained(Seen) => NoGaps
  BY DEF Chained, Seen, Joined, NoGaps
<1> QED BY <1>1, SessionInvariance, PTL DEF SessionIInv
=============================================================================
