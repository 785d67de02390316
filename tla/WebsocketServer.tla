--------------------------- MODULE WebsocketServer ---------------------------
(***************************************************************************)
(* The websocket server: an IPv4 and an IPv6 acceptor, opened by start and *)
(* closed by stop, one accept loop on each, and for every accepted socket  *)
(* the upgrade to websocket, which proceeds beside the loop.  The stream   *)
(* is given to the application when the upgrade is done.                   *)
(*                                                                         *)
(* asio queues the handler of a completed operation; what happens before   *)
(* it runs finds the operation already done.  An accept may fail on an     *)
(* acceptor that listens, e.g. because clients silent in their upgrade     *)
(* have used up the descriptors; that ends its loop until the next start.  *)
(*                                                                         *)
(* Assumed of the application: one thread; the server outlives its         *)
(* handlers; start is called on a new or a stopped server, and stop after  *)
(* a start that threw.                                                     *)
(***************************************************************************)
EXTENDS Integers, FiniteSets

CONSTANTS Clients,             \* the clients that may connect
          Supported,           \* the address families of this host
          MaxStarts            \* bound on the calls of start

Families == {"v4", "v6"}

ASSUME WebsocketServerAssumption ==
    /\ IsFiniteSet(Clients)
    /\ Supported \subseteq Families /\ Supported # {}
    /\ MaxStarts \in Nat

VARIABLES
    acceptor,   \* each acceptor: "closed", "open" (not bound) or "listening"
    accepts,    \* how many asynchronous accepts wait on it
    failures,   \* how many handlers of its failed accepts are queued
    started,    \* "no", "yes" (start returned 0) or "threw"
    starts,     \* how often start was called
    broken,     \* the families on which an accept failed since their acceptor
                \* was bound (history)
    portBusy,   \* the families whose port another program holds
    client,     \* where each client is
    via         \* the family a client has connected by

vars == <<acceptor, accepts, failures, started, starts, broken, portBusy, client, via>>

\* "accepted", "upgraded" and "rejected": the handler is queued.
Places == {"idle", "backlog", "accepted", "upgrading", "upgraded", "rejected",
           "stream", "dropped"}

\* Every start adds at most one accept loop.
TypeOK == /\ acceptor \in [Families -> {"closed", "open", "listening"}]
          /\ accepts \in [Families -> 0..starts]
          /\ failures \in [Families -> Nat]
          /\ started \in {"no", "yes", "threw"}
          /\ starts \in 0..MaxStarts
          /\ broken \subseteq Families
          /\ portBusy \subseteq Families
          /\ client \in [Clients -> Places]
          /\ via \in [Clients -> Families]

AcceptedBy(f) == {k \in Clients : client[k] = "accepted" /\ via[k] = f}

Init == /\ acceptor = [f \in Families |-> "closed"]
        /\ accepts = [f \in Families |-> 0]
        /\ failures = [f \in Families |-> 0]
        /\ started = "no" /\ starts = 0
        /\ broken = {}
        /\ portBusy \in SUBSET Families
        /\ client = [k \in Clients |-> "idle"]
        /\ via \in [Clients -> Families]

-----------------------------------------------------------------------------
(* The application. *)

\* open() succeeds on a closed acceptor of a supported family, else start goes
\* on without it.
Opens(f) == f \in Supported /\ acceptor[f] = "closed"

\* bind() throws if the port is taken, and start ends there.
Throws(f) == Opens(f) /\ f \in portBusy

\* start: first IPv4, then, unless that has thrown, IPv6.
Start ==
    LET reached == IF Throws("v4") THEN {"v4"} ELSE Families
        bound   == {f \in reached : Opens(f) /\ ~Throws(f)}
        thrown  == {f \in reached : Throws(f)}
    IN  /\ started = "no" /\ starts < MaxStarts
        /\ starts' = starts + 1
        /\ acceptor' = [f \in Families |-> CASE f \in bound  -> "listening"
                                             [] f \in thrown -> "open"
                                             [] OTHER        -> acceptor[f]]
        /\ accepts' = [f \in Families |-> IF f \in bound THEN accepts[f] + 1
                                                         ELSE accepts[f]]
        /\ started' = IF thrown = {} THEN "yes" ELSE "threw"
        /\ broken' = broken \ bound
        /\ UNCHANGED <<failures, portBusy, client, via>>

\* Mutant: stop forgets the second acceptor.
OnlyV4 == {"v4"}
\* The acceptors stop closes.
Closed == Families

\* stop, and the destructor: waiting accepts are aborted; queued handlers and
\* upgrades in progress go on.
Stop ==
    /\ acceptor' = [f \in Families |-> IF f \in Closed THEN "closed" ELSE acceptor[f]]
    /\ accepts' = [f \in Families |-> IF f \in Closed THEN 0 ELSE accepts[f]]
    /\ failures' = [f \in Families |-> IF f \in Closed THEN failures[f] + accepts[f]
                                                       ELSE failures[f]]
    /\ client' = [k \in Clients |-> IF client[k] = "backlog" /\ via[k] \in Closed
                                    THEN "dropped" ELSE client[k]]
    /\ started' = "no"
    /\ UNCHANGED <<starts, broken, portBusy, via>>

-----------------------------------------------------------------------------
(* The handlers. *)

\* Mutant: an accept is started by the handler and by what it calls.
AcceptTwice(f) ==
    \/ /\ acceptor[f] = "listening"
       /\ accepts' = [accepts EXCEPT ![f] = @ + 2] /\ UNCHANGED failures
    \/ /\ acceptor[f] # "listening"
       /\ failures' = [failures EXCEPT ![f] = @ + 2] /\ UNCHANGED accepts

\* startTcpAccept: on a closed acceptor the accept fails at once.
StartTcpAccept(f) ==
    \/ /\ acceptor[f] = "listening"
       /\ accepts' = [accepts EXCEPT ![f] = @ + 1] /\ UNCHANGED failures
    \/ /\ acceptor[f] # "listening"
       /\ failures' = [failures EXCEPT ![f] = @ + 1] /\ UNCHANGED accepts

\* Mutant: the next accept has to wait for the upgrade.
OnAcceptWaits(k) ==
    /\ client[k] = "accepted"
    /\ client' = [client EXCEPT ![k] = "upgrading"]
    /\ UNCHANGED <<acceptor, accepts, failures, started, starts, broken, portBusy, via>>

\* onAccept: starts the upgrade and, at once, the next accept.
OnAccept(k) ==
    /\ client[k] = "accepted"
    /\ client' = [client EXCEPT ![k] = "upgrading"]
    /\ StartTcpAccept(via[k])
    /\ UNCHANGED <<acceptor, started, starts, broken, portBusy, via>>

\* onAccept with an error returns: the loop on f ends.
OnAcceptError(f) ==
    /\ failures[f] > 0
    /\ failures' = [failures EXCEPT ![f] = @ - 1]
    /\ UNCHANGED <<acceptor, accepts, started, starts, broken, portBusy, client, via>>

\* onUpgrade: the stream goes to the application, unless its callback throws;
\* a failed upgrade is dropped.
OnUpgrade(k) ==
    /\ \/ /\ client[k] = "upgraded"
          /\ \E place \in {"stream", "dropped"} : client' = [client EXCEPT ![k] = place]
       \/ /\ client[k] = "rejected"
          /\ client' = [client EXCEPT ![k] = "dropped"]
    /\ UNCHANGED <<acceptor, accepts, failures, started, starts, broken, portBusy, via>>

-----------------------------------------------------------------------------
(* The kernel, other programs and the clients. *)

PortFreed(f) ==
    /\ f \in portBusy
    /\ portBusy' = portBusy \ {f}
    /\ UNCHANGED <<acceptor, accepts, failures, started, starts, broken, client, via>>

Connect(k) ==
    /\ client[k] = "idle" /\ acceptor[via[k]] = "listening"
    /\ client' = [client EXCEPT ![k] = "backlog"]
    /\ UNCHANGED <<acceptor, accepts, failures, started, starts, broken, portBusy, via>>

Accepted(k) ==
    /\ client[k] = "backlog" /\ accepts[via[k]] > 0
    /\ client' = [client EXCEPT ![k] = "accepted"]
    /\ accepts' = [accepts EXCEPT ![via[k]] = @ - 1]
    /\ UNCHANGED <<acceptor, failures, started, starts, broken, portBusy, via>>

\* E.g. for want of a descriptor, also while no client is there.
AcceptFails(f) ==
    /\ accepts[f] > 0
    /\ accepts' = [accepts EXCEPT ![f] = @ - 1]
    /\ failures' = [failures EXCEPT ![f] = @ + 1]
    /\ broken' = broken \cup {f}
    /\ UNCHANGED <<acceptor, started, starts, portBusy, client, via>>

\* The client asks for the upgrade, or fails to: wrongly, or by going away.
Upgrades(k) ==
    /\ client[k] = "upgrading"
    /\ \E place \in {"upgraded", "rejected"} : client' = [client EXCEPT ![k] = place]
    /\ UNCHANGED <<acceptor, accepts, failures, started, starts, broken, portBusy, via>>

-----------------------------------------------------------------------------
Next == \/ Start \/ Stop
        \/ \E f \in Families : AcceptFails(f) \/ OnAcceptError(f) \/ PortFreed(f)
        \/ \E k \in Clients : \/ Connect(k) \/ Accepted(k) \/ OnAccept(k)
                              \/ Upgrades(k) \/ OnUpgrade(k)

Spec == Init /\ [][Next]_vars

\* The kernel accepts on both families, or fails to, and the io_context runs
\* handlers.  A client may stay silent after it has connected.
Fairness ==
    /\ \A f \in Families :
          /\ WF_vars(\E k \in Clients : via[k] = f /\ Accepted(k))
          /\ WF_vars(OnAcceptError(f))
    /\ \A k \in Clients : WF_vars(OnAccept(k)) /\ WF_vars(OnUpgrade(k))

FairSpec == Spec /\ Fairness

-----------------------------------------------------------------------------
(* Properties. *)

(***************************************************************************)
(* When start has returned 0, clients can connect by every address family  *)
(* the host has, however often the server was started, stopped, or failed  *)
(* to bind before (WebsocketStreamTest.cpp:109-132 restarts one instance). *)
(***************************************************************************)
StartedListens ==
    started = "yes" => \A f \in Supported : acceptor[f] = "listening"

(***************************************************************************)
(* An acceptor that listens is served: an accept waits, or a handler is    *)
(* queued that will start the next one, until an accept on it fails.       *)
(* Nothing else ends the loop: no error of the other family, no failed     *)
(* upgrade, no error handler left over from before a restart, no throw of  *)
(* start because of IPv6.  And a restart brings back a loop that an error  *)
(* has ended.                                                              *)
(***************************************************************************)
LoopAlive ==
    \A f \in Families \ broken : acceptor[f] = "listening" =>
        accepts[f] + Cardinality(AcceptedBy(f)) >= 1

(***************************************************************************)
(* Whoever connects is taken out of the backlog, unless an accept of that  *)
(* family fails.  A client before it that never asks for its upgrade does  *)
(* not hold it up, as long as there is a descriptor for each.              *)
(***************************************************************************)
EveryClientAccepted ==
    \A k \in Clients :
        (client[k] = "backlog") ~> (client[k] # "backlog" \/ via[k] \in broken)
=============================================================================
