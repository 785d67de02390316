----------------------- MODULE WebsocketServerProofs -----------------------
(***************************************************************************)
(* Proofs about WebsocketServer, for every set of clients, every host and  *)
(* every number of starts.                                                 *)
(***************************************************************************)
EXTENDS WebsocketServer, FiniteSetTheorems, TLAPS

\* A stopped server has no acceptor left that the next start would find open.
StoppedIsClosed == started = "no" => \A f \in Families : acceptor[f] = "closed"

\* LoopAlive without counting.
LoopGoesOn ==
    \A f \in Families \ broken : acceptor[f] = "listening" =>
        accepts[f] > 0 \/ \E k \in Clients : client[k] = "accepted" /\ via[k] = f

\* Every start adds at most one loop, and nothing else does.
LoopBound == \A f \in Families : accepts[f] + Cardinality(AcceptedBy(f)) <= starts

IInv == TypeOK /\ StoppedIsClosed /\ StartedListens /\ LoopGoesOn /\ LoopBound

-----------------------------------------------------------------------------
(* How many handlers of accepted sockets are queued. *)

LEMMA AcceptedCount ==
    ASSUME NEW f \in Families
    PROVE  IsFiniteSet(AcceptedBy(f)) /\ Cardinality(AcceptedBy(f)) \in Nat
<1>1. AcceptedBy(f) \in SUBSET Clients
  BY DEF AcceptedBy
<1>2. IsFiniteSet(AcceptedBy(f))
  BY <1>1, FS_Subset, WebsocketServerAssumption
<1> QED BY <1>2, FS_CardinalityType

\* An accepted socket is one handler more, a handled one is one less.
LEMMA CountAfterAccepted ==
    ASSUME TypeOK, NEW k \in Clients, Accepted(k)
    PROVE  /\ Cardinality(AcceptedBy(via[k])') = Cardinality(AcceptedBy(via[k])) + 1
           /\ \A f \in Families : f # via[k] => AcceptedBy(f)' = AcceptedBy(f)
<1>1. /\ client' = [client EXCEPT ![k] = "accepted"] /\ via' = via
      /\ client[k] = "backlog" /\ via[k] \in Families
      /\ client \in [Clients -> Places]
  BY DEF Accepted, TypeOK
<1>2. AcceptedBy(via[k])' = AcceptedBy(via[k]) \cup {k} /\ k \notin AcceptedBy(via[k])
  BY <1>1 DEF AcceptedBy
<1>3. \A f \in Families : f # via[k] => AcceptedBy(f)' = AcceptedBy(f)
  BY <1>1 DEF AcceptedBy
<1>4. IsFiniteSet(AcceptedBy(via[k])) /\ Cardinality(AcceptedBy(via[k])) \in Nat
  BY <1>1, AcceptedCount
<1>5. Cardinality(AcceptedBy(via[k]) \cup {k}) = Cardinality(AcceptedBy(via[k])) + 1
  BY <1>2, <1>4, FS_AddElement
<1> QED BY <1>2, <1>3, <1>5

LEMMA CountAfterOnAccept ==
    ASSUME TypeOK, NEW k \in Clients, OnAccept(k)
    PROVE  /\ Cardinality(AcceptedBy(via[k])') = Cardinality(AcceptedBy(via[k])) - 1
           /\ \A f \in Families : f # via[k] => AcceptedBy(f)' = AcceptedBy(f)
<1>1. /\ client' = [client EXCEPT ![k] = "upgrading"] /\ via' = via
      /\ client[k] = "accepted" /\ via[k] \in Families
      /\ client \in [Clients -> Places]
  BY DEF OnAccept, TypeOK
<1>2. AcceptedBy(via[k])' = AcceptedBy(via[k]) \ {k} /\ k \in AcceptedBy(via[k])
  BY <1>1 DEF AcceptedBy
<1>3. \A f \in Families : f # via[k] => AcceptedBy(f)' = AcceptedBy(f)
  BY <1>1 DEF AcceptedBy
<1>4. IsFiniteSet(AcceptedBy(via[k])) /\ Cardinality(AcceptedBy(via[k])) \in Nat
  BY <1>1, AcceptedCount
<1>5. Cardinality(AcceptedBy(via[k]) \ {k}) = Cardinality(AcceptedBy(via[k])) - 1
  BY <1>2, <1>4, FS_RemoveElement
<1> QED BY <1>2, <1>3, <1>5

-----------------------------------------------------------------------------
LEMMA InitIInv == Init => IInv
<1> SUFFICES ASSUME Init PROVE IInv
  OBVIOUS
<1>1. TypeOK
  BY WebsocketServerAssumption DEF Init, TypeOK, Places
<1>2. \A f \in Families : AcceptedBy(f) = {} /\ accepts[f] = 0 /\ acceptor[f] = "closed"
  BY DEF Init, AcceptedBy
<1>3. LoopBound
  BY <1>2, FS_EmptySet DEF Init, LoopBound
<1> QED BY <1>1, <1>2, <1>3 DEF Init, IInv, StoppedIsClosed, StartedListens, LoopGoesOn

\* After a stop every acceptor of the host opens, and a start that returned
\* has bound them all.
LEMMA StartStep == ASSUME IInv, Start PROVE IInv'
<1> DEFINE reached == IF Throws("v4") THEN {"v4"} ELSE Families
           bound   == {f \in reached : Opens(f) /\ ~Throws(f)}
           thrown  == {f \in reached : Throws(f)}
<1>1. /\ started = "no" /\ starts < MaxStarts /\ starts' = starts + 1
      /\ acceptor' = [f \in Families |-> CASE f \in bound  -> "listening"
                                           [] f \in thrown -> "open"
                                           [] OTHER        -> acceptor[f]]
      /\ accepts' = [f \in Families |-> IF f \in bound THEN accepts[f] + 1
                                                       ELSE accepts[f]]
      /\ started' = IF thrown = {} THEN "yes" ELSE "threw"
      /\ broken' = broken \ bound
      /\ UNCHANGED <<failures, portBusy, client, via>>
  BY DEF Start
<1>2. /\ \A f \in Families : acceptor[f] = "closed"
      /\ accepts \in [Families -> 0..starts] /\ starts \in 0..MaxStarts
      /\ MaxStarts \in Nat
  BY <1>1, WebsocketServerAssumption DEF IInv, TypeOK, StoppedIsClosed
<1>3. started' = "yes" => \A f \in Supported : f \in bound
  <2>1. thrown = {} => reached = Families
    OBVIOUS
  <2> QED BY <1>1, <1>2, <2>1, WebsocketServerAssumption DEF Opens
<1>b. \A f \in Families : ~(f \in bound /\ f \in thrown)
  OBVIOUS
<1> HIDE DEF reached, bound, thrown
<1>4. /\ started' \in {"yes", "threw"}
      /\ \A f \in Families : acceptor'[f] = "listening" => f \in bound
      /\ \A f \in Families : f \in bound => acceptor'[f] = "listening"
      /\ \A f \in Families : f \in bound => accepts'[f] = accepts[f] + 1
      /\ acceptor' \in [Families -> {"closed", "open", "listening"}]
      /\ starts' \in 0..MaxStarts
      /\ accepts' \in [Families -> 0..starts']
      /\ \A f \in Families : accepts'[f] <= accepts[f] + 1 /\ accepts[f] \in Nat
                             /\ accepts'[f] \in Nat
  <2>1. /\ started' \in {"yes", "threw"}
        /\ starts' \in 0..MaxStarts
    BY <1>1, <1>2
  <2>2. /\ \A f \in Families : acceptor'[f] = "listening" => f \in bound
        /\ \A f \in Families : f \in bound => acceptor'[f] = "listening"
        /\ acceptor' \in [Families -> {"closed", "open", "listening"}]
    <3>1. ASSUME NEW f \in Families
          PROVE  /\ f \in bound => acceptor'[f] = "listening"
                 /\ f \in thrown => acceptor'[f] = "open"
                 /\ f \notin bound /\ f \notin thrown => acceptor'[f] = "closed"
      BY <1>1, <1>2, <1>b
    <3>2. DOMAIN acceptor' = Families /\ acceptor' = [f \in Families |-> acceptor'[f]]
      BY <1>1
    <3>3. \A f \in Families : acceptor'[f] \in {"closed", "open", "listening"}
      BY <3>1
    <3> QED BY <3>1, <3>2, <3>3
  <2>3. /\ \A f \in Families : accepts'[f] = IF f \in bound THEN accepts[f] + 1
                                                            ELSE accepts[f]
        /\ \A f \in Families : accepts[f] \in Nat /\ accepts[f] <= starts
        /\ starts \in Nat
    BY <1>1, <1>2
  <2>4. /\ \A f \in Families : accepts'[f] \in 0..starts'
        /\ \A f \in Families : accepts'[f] <= accepts[f] + 1 /\ accepts'[f] \in Nat
    BY <1>1, <2>3
  <2>5. accepts' \in [Families -> 0..starts']
    BY <1>1, <2>3, <2>4
  <2> QED BY <2>1, <2>2, <2>3, <2>4, <2>5
<1>5. TypeOK'
  BY <1>1, <1>4 DEF IInv, TypeOK
<1>6. StoppedIsClosed' /\ StartedListens'
  BY <1>3, <1>4, WebsocketServerAssumption DEF StoppedIsClosed, StartedListens
<1>7. LoopGoesOn'
  <2>1. \A f \in Families : f \in bound => accepts'[f] > 0
    BY <1>4
  <2> QED BY <2>1, <1>4 DEF LoopGoesOn
<1>8. LoopBound'
  <2> SUFFICES ASSUME NEW f \in Families
               PROVE  accepts'[f] + Cardinality(AcceptedBy(f)') <= starts'
    BY DEF LoopBound
  <2>1. AcceptedBy(f)' = AcceptedBy(f)
    BY <1>1 DEF AcceptedBy
  <2>2. /\ accepts[f] + Cardinality(AcceptedBy(f)) <= starts
        /\ Cardinality(AcceptedBy(f)) \in Nat
    BY AcceptedCount DEF IInv, LoopBound
  <2>3. accepts'[f] <= accepts[f] + 1 /\ accepts[f] \in Nat /\ accepts'[f] \in Nat
    BY <1>4
  <2> QED BY <1>1, <1>2, <2>1, <2>2, <2>3
<1> QED BY <1>5, <1>6, <1>7, <1>8 DEF IInv

LEMMA StopStep == ASSUME IInv, Stop PROVE IInv'
<1>1. /\ acceptor' = [f \in Families |-> "closed"]
      /\ accepts' = [f \in Families |-> 0]
      /\ failures' = [f \in Families |-> failures[f] + accepts[f]]
      /\ client' = [k \in Clients |-> IF client[k] = "backlog" /\ via[k] \in Families
                                      THEN "dropped" ELSE client[k]]
      /\ started' = "no" /\ UNCHANGED <<starts, broken, portBusy, via>>
  BY DEF Stop, Closed
<1>2. TypeOK'
  BY <1>1, WebsocketServerAssumption DEF IInv, TypeOK, Places
<1>3. LoopBound'
  <2> SUFFICES ASSUME NEW f \in Families
               PROVE  accepts'[f] + Cardinality(AcceptedBy(f)') <= starts'
    BY DEF LoopBound
  <2>1. AcceptedBy(f)' = AcceptedBy(f)
    BY <1>1 DEF AcceptedBy, IInv, TypeOK
  <2>2. /\ accepts[f] + Cardinality(AcceptedBy(f)) <= starts
        /\ accepts[f] \in Nat /\ starts \in Nat /\ Cardinality(AcceptedBy(f)) \in Nat
    BY AcceptedCount, WebsocketServerAssumption DEF IInv, LoopBound, TypeOK
  <2> QED BY <1>1, <2>1, <2>2
<1> QED BY <1>1, <1>2, <1>3 DEF IInv, StoppedIsClosed, StartedListens, LoopGoesOn

\* The handler leaves and the next accept takes its place.
LEMMA OnAcceptStep ==
    ASSUME IInv, NEW k \in Clients, OnAccept(k)
    PROVE  IInv'
<1> DEFINE g == via[k]
<1>1. /\ client[k] = "accepted" /\ client' = [client EXCEPT ![k] = "upgrading"]
      /\ UNCHANGED <<acceptor, started, starts, broken, portBusy, via>>
      /\ g \in Families /\ StartTcpAccept(g)
  BY DEF OnAccept, IInv, TypeOK
<1>2. /\ Cardinality(AcceptedBy(g)') = Cardinality(AcceptedBy(g)) - 1
      /\ \A f \in Families : f # g => AcceptedBy(f)' = AcceptedBy(f)
      /\ \A f \in Families : Cardinality(AcceptedBy(f)) \in Nat
      /\ \A f \in Families : accepts[f] + Cardinality(AcceptedBy(f)) <= starts
  BY AcceptedCount, CountAfterOnAccept DEF IInv, LoopBound
<1>3. k \in AcceptedBy(g) /\ Cardinality(AcceptedBy(g)) >= 1
  <2>1. k \in AcceptedBy(g)
    BY <1>1 DEF AcceptedBy
  <2>2. Cardinality(AcceptedBy(g)) # 0
    BY <1>1, <2>1, AcceptedCount, FS_EmptySet
  <2> QED BY <1>1, <1>2, <2>1, <2>2
<1>a. g' = g
  BY <1>1
<1> HIDE DEF g
<1>4. /\ accepts \in [Families -> 0..starts] /\ failures \in [Families -> Nat]
      /\ starts \in Nat
  BY WebsocketServerAssumption DEF IInv, TypeOK
<1>5. /\ \A f \in Families : f # g => accepts'[f] = accepts[f]
      /\ acceptor[g] = "listening" => accepts'[g] = accepts[g] + 1
      /\ acceptor[g] # "listening" => accepts'[g] = accepts[g]
      /\ DOMAIN accepts' = Families /\ accepts' = [f \in Families |-> accepts'[f]]
      /\ failures' \in [Families -> Nat]
  BY <1>1, <1>4 DEF StartTcpAccept
<1>6. \A f \in Families : accepts'[f] \in 0..starts
  BY <1>1, <1>2, <1>3, <1>4, <1>5
<1>7. client' \in [Clients -> Places]
  BY <1>1 DEF IInv, TypeOK, Places
<1>8. accepts' \in [Families -> 0..starts']
  BY <1>1, <1>5, <1>6
<1>9. TypeOK'
  BY <1>1, <1>5, <1>7, <1>8 DEF IInv, TypeOK
<1>10. LoopGoesOn'
  <2> SUFFICES ASSUME NEW f \in Families \ broken, acceptor[f] = "listening"
               PROVE  accepts'[f] > 0
                      \/ \E j \in Clients : client'[j] = "accepted" /\ via[j] = f
    BY <1>1 DEF LoopGoesOn
  <2>1. CASE f = g
    BY <2>1, <1>1, <1>4, <1>5
  <2>2. CASE f # g
    <3>1. accepts[f] > 0 \/ \E j \in Clients : client[j] = "accepted" /\ via[j] = f
      BY DEF IInv, LoopGoesOn
    <3>2. \A j \in Clients : via[j] = f => client'[j] = client[j]
      BY <2>2, <1>1 DEF g, IInv, TypeOK
    <3> QED BY <2>2, <3>1, <3>2, <1>5
  <2> QED BY <2>1, <2>2
<1>11. LoopBound'
  <2> SUFFICES ASSUME NEW f \in Families
               PROVE  accepts'[f] + Cardinality(AcceptedBy(f)') <= starts'
    BY DEF LoopBound
  <2>1. CASE f = g
    <3>1. AcceptedBy(f)' = AcceptedBy(g)'
      BY <2>1, <1>a
    <3>2. accepts'[g] + Cardinality(AcceptedBy(g)') <= starts'
      BY <1>1, <1>2, <1>4, <1>5
    <3> QED BY <2>1, <3>1, <3>2
  <2>2. CASE f # g
    BY <2>2, <1>1, <1>2, <1>5
  <2> QED BY <2>1, <2>2
<1> QED BY <1>1, <1>9, <1>10, <1>11 DEF IInv, StoppedIsClosed, StartedListens

\* The accept that waited leaves and the handler takes its place.
LEMMA AcceptedStep ==
    ASSUME IInv, NEW k \in Clients, Accepted(k)
    PROVE  IInv'
<1> DEFINE g == via[k]
<1>1. /\ accepts[g] > 0 /\ client' = [client EXCEPT ![k] = "accepted"]
      /\ accepts' = [accepts EXCEPT ![g] = @ - 1]
      /\ UNCHANGED <<acceptor, failures, started, starts, broken, portBusy, via>>
      /\ g \in Families
  BY DEF Accepted, IInv, TypeOK
<1>2. /\ Cardinality(AcceptedBy(g)') = Cardinality(AcceptedBy(g)) + 1
      /\ \A f \in Families : f # g => AcceptedBy(f)' = AcceptedBy(f)
      /\ \A f \in Families : Cardinality(AcceptedBy(f)) \in Nat
      /\ \A f \in Families : accepts[f] + Cardinality(AcceptedBy(f)) <= starts
  BY AcceptedCount, CountAfterAccepted DEF IInv, LoopBound
<1>3. client'[k] = "accepted" /\ client' \in [Clients -> Places] /\ via[k] = g
  BY <1>1 DEF IInv, TypeOK, Places
<1>a. g' = g
  BY <1>1
<1> HIDE DEF g
<1>4. accepts \in [Families -> 0..starts] /\ starts \in Nat
  BY WebsocketServerAssumption DEF IInv, TypeOK
<1>5. /\ accepts' \in [Families -> 0..starts] /\ accepts'[g] = accepts[g] - 1
      /\ \A f \in Families : f # g => accepts'[f] = accepts[f]
  BY <1>1, <1>4
<1>6. TypeOK'
  BY <1>1, <1>3, <1>5 DEF IInv, TypeOK
<1>7. LoopGoesOn'
  <2> SUFFICES ASSUME NEW f \in Families \ broken, acceptor[f] = "listening"
               PROVE  accepts'[f] > 0
                      \/ \E j \in Clients : client'[j] = "accepted" /\ via[j] = f
    BY <1>1 DEF LoopGoesOn
  <2>1. CASE f = g
    BY <2>1, <1>3
  <2>2. CASE f # g
    <3>1. accepts[f] > 0 \/ \E j \in Clients : client[j] = "accepted" /\ via[j] = f
      BY DEF IInv, LoopGoesOn
    <3>2. \A j \in Clients : client[j] = "accepted" => client'[j] = "accepted"
      BY <1>1 DEF IInv, TypeOK
    <3> QED BY <2>2, <3>1, <3>2, <1>5
  <2> QED BY <2>1, <2>2
<1>8. LoopBound'
  <2> SUFFICES ASSUME NEW f \in Families
               PROVE  accepts'[f] + Cardinality(AcceptedBy(f)') <= starts'
    BY DEF LoopBound
  <2>1. CASE f = g
    <3>1. AcceptedBy(f)' = AcceptedBy(g)'
      BY <2>1, <1>a
    <3>2. accepts'[g] + Cardinality(AcceptedBy(g)') <= starts'
      BY <1>1, <1>2, <1>4, <1>5
    <3> QED BY <2>1, <3>1, <3>2
  <2>2. CASE f # g
    BY <2>2, <1>1, <1>2, <1>5
  <2> QED BY <2>1, <2>2
<1> QED BY <1>1, <1>6, <1>7, <1>8 DEF IInv, StoppedIsClosed, StartedListens

\* A failed accept leaves the loops, its family is marked, and the accepts of the
\* other family and the queued handlers are not concerned.
LEMMA AcceptFailsStep ==
    ASSUME IInv, NEW g \in Families, AcceptFails(g)
    PROVE  IInv'
<1>1. /\ accepts[g] > 0 /\ accepts' = [accepts EXCEPT ![g] = @ - 1]
      /\ failures' = [failures EXCEPT ![g] = @ + 1] /\ broken' = broken \cup {g}
      /\ UNCHANGED <<acceptor, started, starts, portBusy, client, via>>
  BY DEF AcceptFails
<1>2. accepts \in [Families -> 0..starts] /\ starts \in Nat /\ failures \in [Families -> Nat]
  BY WebsocketServerAssumption DEF IInv, TypeOK
<1>3. /\ accepts' \in [Families -> 0..starts] /\ accepts'[g] = accepts[g] - 1
      /\ \A f \in Families : f # g => accepts'[f] = accepts[f]
      /\ failures' \in [Families -> Nat]
  BY <1>1, <1>2
<1>4. TypeOK'
  BY <1>1, <1>3 DEF IInv, TypeOK
<1>5. LoopGoesOn'
  BY <1>1, <1>3 DEF IInv, LoopGoesOn
<1>6. LoopBound'
  <2> SUFFICES ASSUME NEW f \in Families
               PROVE  accepts'[f] + Cardinality(AcceptedBy(f)') <= starts'
    BY DEF LoopBound
  <2>1. AcceptedBy(f)' = AcceptedBy(f)
    BY <1>1 DEF AcceptedBy
  <2>2. /\ accepts[f] + Cardinality(AcceptedBy(f)) <= starts
        /\ Cardinality(AcceptedBy(f)) \in Nat
    BY AcceptedCount DEF IInv, LoopBound
  <2>3. accepts[f] \in Nat /\ accepts'[f] \in Nat /\ accepts'[f] <= accepts[f]
    BY <1>2, <1>3
  <2> QED BY <1>1, <1>2, <2>1, <2>2, <2>3
<1> QED BY <1>1, <1>4, <1>5, <1>6 DEF IInv, StoppedIsClosed, StartedListens

\* Steps that concern neither an acceptor nor a handler of an accept.
LEMMA OtherStep ==
    ASSUME IInv,
           \/ \E f \in Families : OnAcceptError(f) \/ PortFreed(f)
           \/ \E k \in Clients : Connect(k) \/ Upgrades(k) \/ OnUpgrade(k)
           \/ UNCHANGED vars
    PROVE  IInv'
<1>1. UNCHANGED <<acceptor, accepts, started, starts, broken, via>>
  BY DEF OnAcceptError, PortFreed, Connect, Upgrades, OnUpgrade, vars
<1>2. \A k \in Clients : client'[k] = "accepted" <=> client[k] = "accepted"
  BY DEF OnAcceptError, PortFreed, Connect, Upgrades, OnUpgrade, vars, IInv, TypeOK
<1>3. client' \in [Clients -> Places]
  BY DEF OnAcceptError, PortFreed, Connect, Upgrades, OnUpgrade, vars, IInv, TypeOK, Places
<1>4. failures' \in [Families -> Nat] /\ portBusy' \subseteq Families
  BY DEF OnAcceptError, PortFreed, Connect, Upgrades, OnUpgrade, vars, IInv, TypeOK
<1>5. TypeOK'
  BY <1>1, <1>3, <1>4 DEF IInv, TypeOK
<1>6. \A f \in Families : AcceptedBy(f)' = AcceptedBy(f)
  BY <1>1, <1>2 DEF AcceptedBy
<1> QED BY <1>1, <1>2, <1>5, <1>6
        DEF IInv, StoppedIsClosed, StartedListens, LoopGoesOn, LoopBound

LEMMA NextIInv == IInv /\ [Next]_vars => IInv'
<1> SUFFICES ASSUME IInv, [Next]_vars PROVE IInv'
  OBVIOUS
<1>1. CASE Start
  BY <1>1, StartStep
<1>2. CASE Stop
  BY <1>2, StopStep
<1>3. ASSUME NEW k \in Clients, OnAccept(k) PROVE IInv'
  BY <1>3, OnAcceptStep
<1>4. ASSUME NEW k \in Clients, Accepted(k) PROVE IInv'
  BY <1>4, AcceptedStep
<1>5. CASE \/ \E f \in Families : OnAcceptError(f) \/ PortFreed(f)
           \/ \E k \in Clients : Connect(k) \/ Upgrades(k) \/ OnUpgrade(k)
           \/ UNCHANGED vars
  BY <1>5, OtherStep
<1>6. ASSUME NEW f \in Families, AcceptFails(f) PROVE IInv'
  BY <1>6, AcceptFailsStep
<1> QED BY <1>1, <1>2, <1>3, <1>4, <1>5, <1>6 DEF Next

LEMMA Invariance == Spec => []IInv
BY InitIInv, NextIInv, PTL DEF Spec

-----------------------------------------------------------------------------
(***************************************************************************)
(* Restarts do not pile up accepts: there are never more of them on an     *)
(* acceptor than there were starts.                                        *)
(***************************************************************************)
THEOREM TypeCorrect == Spec => []TypeOK
BY Invariance, PTL DEF IInv

(***************************************************************************)
(* A start that returned 0 has left an acceptor listening for every        *)
(* address family of the host, whatever failed before.                     *)
(***************************************************************************)
THEOREM StartedServerListens == Spec => []StartedListens
BY Invariance, PTL DEF IInv

(***************************************************************************)
(* An acceptor that listens has a loop that serves it until an accept on   *)
(* it fails, through any sequence of starts, failed binds, stops, leftover *)
(* handlers and errors of the other family.  A start that binds the        *)
(* acceptor again makes that true again.                                   *)
(***************************************************************************)
THEOREM LoopStaysAlive == Spec => []LoopAlive
<1>1. IInv => LoopAlive
  <2> SUFFICES ASSUME IInv, NEW f \in Families \ broken, acceptor[f] = "listening"
               PROVE  accepts[f] + Cardinality(AcceptedBy(f)) >= 1
    BY DEF LoopAlive
  <2>1. accepts[f] \in Nat /\ Cardinality(AcceptedBy(f)) \in Nat
    BY AcceptedCount, WebsocketServerAssumption DEF IInv, TypeOK
  <2>2. CASE accepts[f] > 0
    BY <2>1, <2>2
  <2>3. CASE \E k \in Clients : client[k] = "accepted" /\ via[k] = f
    <3>1. AcceptedBy(f) # {}
      BY <2>3 DEF AcceptedBy
    <3>2. Cardinality(AcceptedBy(f)) # 0
      BY <3>1, AcceptedCount, FS_EmptySet
    <3> QED BY <2>1, <3>2
  <2> QED BY <2>2, <2>3 DEF IInv, LoopGoesOn
<1> QED BY <1>1, Invariance, PTL
=============================================================================
