------------------------------ MODULE TcpServer ------------------------------
(***************************************************************************)
(* The accept loop of TcpServer: one asynchronous accept at a time, whose  *)
(* handler makes a stream of the new socket, gives it to the application   *)
(* and accepts the next.  LocalServer has the same loop on a Unix domain   *)
(* socket.                                                                 *)
(*                                                                         *)
(* asio queues the handler of a completed accept; what happens before it   *)
(* runs (a stop, another start) finds the socket already accepted.         *)
(*                                                                         *)
(* Assumed of the application: one thread, the server object outlives its  *)
(* handlers, and start is called once (each call begins a loop).           *)
(***************************************************************************)
EXTENDS Integers, FiniteSets

CONSTANTS Clients,      \* the clients that may connect
          AcceptErrors  \* may accept fail, e.g. for want of descriptors?

ASSUME TcpServerAssumption == IsFiniteSet(Clients) /\ AcceptErrors \in BOOLEAN

VARIABLES
    listening,  \* is the acceptor open?
    started,    \* has start been called?
    accepts,    \* how many asynchronous accepts wait for a client
    failures,   \* how many handlers of failed accepts are queued
    client,     \* where each client is
    broken      \* has an accept failed while the acceptor was open?

vars == <<listening, started, accepts, failures, client, broken>>

\* "accepted": the socket is accepted and the handler queued; "stream": the
\* application has the stream; "dropped": this end has closed the connection.
Places == {"idle", "backlog", "accepted", "stream", "dropped"}

TypeOK == /\ listening \in BOOLEAN
          /\ started \in BOOLEAN
          /\ accepts \in 0..1
          /\ failures \in Nat
          /\ client \in [Clients -> Places]
          /\ broken \in BOOLEAN

At(place) == {k \in Clients : client[k] = place}

\* The constructor opens the acceptor, binds it and listens.
Init == /\ listening = TRUE
        /\ started = FALSE
        /\ accepts = 0 /\ failures = 0
        /\ client = [k \in Clients |-> "idle"]
        /\ broken = FALSE

-----------------------------------------------------------------------------
\* Mutant: an accept is started by the handler and by what it calls.
AcceptTwice(open) ==
    \/ open  /\ accepts' = accepts + 2   /\ UNCHANGED failures
    \/ ~open /\ failures' = failures + 2 /\ UNCHANGED accepts
\* startTcpAccept: on a closed acceptor the accept fails at once.
StartTcpAccept(open) ==
    \/ open  /\ accepts' = accepts + 1   /\ UNCHANGED failures
    \/ ~open /\ failures' = failures + 1 /\ UNCHANGED accepts

Start ==
    /\ ~started
    /\ started' = TRUE
    /\ StartTcpAccept(listening)
    /\ UNCHANGED <<listening, client, broken>>

\* The kernel resets the connections that nobody has accepted.
ResetBacklog == [k \in Clients |-> IF client[k] = "backlog" THEN "dropped" ELSE client[k]]

\* m_tcpAcceptor.close(): waiting accepts are aborted, queued handlers stay.
CloseAcceptor ==
    /\ listening' = FALSE
    /\ accepts' = 0
    /\ failures' = failures + accepts
    /\ client' = ResetBacklog

\* stop, and the destructor.
Stop == CloseAcceptor /\ UNCHANGED <<started, broken>>

\* Mutant: an exception of the application ends the loop.
OnAcceptUncaught(k) ==
    /\ client[k] = "accepted"
    /\ \/ client' = [client EXCEPT ![k] = "stream"] /\ StartTcpAccept(listening)
       \/ client' = [client EXCEPT ![k] = "dropped"] /\ UNCHANGED <<accepts, failures>>
    /\ UNCHANGED <<listening, started, broken>>

\* A new stream answers its asyncInit in place and without an error, so the
\* application gets it, and keeps it or throws, e.g. by asking for endPointUrl
\* or remoteHost when the client has gone already.
NewStream == {"stream", "dropped"}

\* The handler of a successful accept makes a stream and gives it away.  An
\* exception is swallowed; the next accept is started in any case.
OnAccept(k) ==
    /\ client[k] = "accepted"
    /\ \E place \in NewStream : client' = [client EXCEPT ![k] = place]
    /\ StartTcpAccept(listening)
    /\ UNCHANGED <<listening, started, broken>>

\* The same when the callback stops the server before the next accept.
OnAcceptStops(k) ==
    /\ client[k] = "accepted"
    /\ listening' = FALSE
    /\ client' = [ResetBacklog EXCEPT ![k] = "stream"]
    /\ accepts' = 0
    /\ failures' = failures + accepts + 1
    /\ UNCHANGED <<started, broken>>

\* Mutant: accept again after any failure.
OnAcceptErrorRetries ==
    /\ failures > 0
    /\ \/ listening  /\ failures' = failures - 1 /\ accepts' = accepts + 1
       \/ ~listening /\ UNCHANGED <<failures, accepts>>
    /\ UNCHANGED <<listening, started, client, broken>>

\* The handler of a failed accept returns: the loop ends.
OnAcceptError ==
    /\ failures > 0
    /\ failures' = failures - 1
    /\ UNCHANGED <<listening, started, accepts, client, broken>>

\* close and asyncClose of a stream the application has been given.
CloseStream(k) ==
    /\ client[k] = "stream"
    /\ client' = [client EXCEPT ![k] = "dropped"]
    /\ UNCHANGED <<listening, started, accepts, failures, broken>>

-----------------------------------------------------------------------------
(* The kernel and the clients. *)

Connect(k) ==
    /\ client[k] = "idle" /\ listening
    /\ client' = [client EXCEPT ![k] = "backlog"]
    /\ UNCHANGED <<listening, started, accepts, failures, broken>>

Accepted(k) ==
    /\ accepts > 0
    /\ client[k] = "backlog"
    /\ client' = [client EXCEPT ![k] = "accepted"]
    /\ accepts' = accepts - 1
    /\ UNCHANGED <<listening, started, failures, broken>>

AcceptFails ==
    /\ AcceptErrors
    /\ accepts > 0
    /\ accepts' = accepts - 1
    /\ failures' = failures + 1
    /\ broken' = TRUE
    /\ UNCHANGED <<listening, started, client>>

-----------------------------------------------------------------------------
Next == \/ Start \/ Stop \/ OnAcceptError \/ AcceptFails
        \/ \E k \in Clients : \/ Connect(k) \/ Accepted(k)
                              \/ OnAccept(k) \/ OnAcceptStops(k) \/ CloseStream(k)

Spec == Init /\ [][Next]_vars

\* The kernel accepts and the io_context runs handlers; nothing is assumed of
\* the clients and the application.
Fairness == /\ WF_vars(OnAcceptError)
            /\ WF_vars(\E k \in Clients : Accepted(k))
            /\ \A k \in Clients : WF_vars(OnAccept(k))

FairSpec == Spec /\ Fairness

-----------------------------------------------------------------------------
(***************************************************************************)
(* There is exactly one accept loop as long as the server is started and   *)
(* not stopped, and no accept has failed: an accept is waiting, or the     *)
(* handler that will start the next is queued.  Neither an exception of the application nor a stop     *)
(* from inside its callback makes the loop end early or go on twice.       *)
(***************************************************************************)
OneLoop == started /\ listening /\ ~broken
              => accepts + Cardinality(At("accepted")) = 1

(***************************************************************************)
(* A stop ends the loop for good, whichever handlers are queued at that    *)
(* moment and start an accept on the closed acceptor: nothing of the       *)
(* server keeps the io_context from returning.                             *)
(***************************************************************************)
StopEndsTheLoop ==
    ~listening ~> [](accepts = 0 /\ failures = 0 /\ At("accepted") = {})

(***************************************************************************)
(* Whoever connects gets a stream or is turned away, and is not left       *)
(* hanging in the backlog of a started server, unless an accept has failed. *)
(***************************************************************************)
EveryClientServed ==
    \A k \in Clients :
        (started /\ client[k] = "backlog") ~> (client[k] # "backlog" \/ broken)
=============================================================================
