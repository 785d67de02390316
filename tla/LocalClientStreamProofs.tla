----------------------- MODULE LocalClientStreamProofs -----------------------
(***************************************************************************)
(* Proofs about LocalClientStream, for every number of initializations.    *)
(***************************************************************************)
EXTENDS LocalClientStream, TLAPS

\* Nothing is known of a call before it is made, and only calls that were made
\* have handlers.  A dispatched one executes the callback that is stored, and
\* there is one.
Made == /\ \A c \in Calls : c > calls => result[c] = "none" /\ outcome[c] = "none"
        /\ \A h \in ready : /\ h.call <= calls
                            /\ h.op = "dispatch" => m_initCompletionCb > 0

\* A call with a connect or a handler under way has not been answered; it has one
\* of them, and its handler tells the outcome of its own connect.
Own == /\ \A c \in pending : result[c] = "none" /\ outcome[c] = "none"
       /\ \A h \in ready :
             /\ result[h.call] = "none" /\ h.call \notin pending
             /\ h.op = "connect" => outcome[h.call] = h.ec
             /\ h.op = "dispatch" => /\ outcome[h.call] = "none" /\ h.ec = "ok"
                                     /\ h.call = m_initCompletionCb

\* An overtaken dispatched completion executes the callback of a later call, which
\* is then answered before its own handler has run.
IInv == /\ TypeOK
        /\ Made
        /\ OvertakesDispatch \/ Own

-----------------------------------------------------------------------------
LEMMA HandlerFields ==
    ASSUME NEW op, NEW c, NEW ec
    PROVE  /\ Handler(op, c, ec).op = op
           /\ Handler(op, c, ec).call = c
           /\ Handler(op, c, ec).ec = ec
BY DEF Handler

LEMMA CallsMade ==
    ASSUME TypeOK
    PROVE  /\ \A c \in 1..calls : c \in Calls /\ c <= calls
           /\ \A c \in pending : c \in Calls /\ c <= calls
           /\ \A h \in ready : h.call \in Calls
<1>1. \A c \in 1..calls : c \in Calls /\ c <= calls
  BY LocalClientStreamAssumption DEF TypeOK, Calls
<1> QED BY <1>1 DEF TypeOK, Handlers

\* Of one call at most one handler is queued.
LEMMA OneHandler ==
    ASSUME TypeOK, Own, NEW g \in ready, NEW h \in ready, g.call = h.call
    PROVE  g = h
<1>1. g \in Handlers /\ h \in Handlers
  BY DEF TypeOK
<1>2. g.op = h.op /\ g.ec = h.ec
  BY <1>1 DEF Own, Handlers, ErrorCodes
<1> QED BY <1>1, <1>2 DEF Handlers

LEMMA InitIInv == Init => IInv
BY LocalClientStreamAssumption DEF Init, IInv, TypeOK, Made, Own, NoAnswer, Calls, ErrorCodes

LEMMA AsyncInitStep == ASSUME IInv, AsyncInit PROVE IInv'
<1> DEFINE c == calls + 1
           h == Handler("dispatch", c, "ok")
<1>1. /\ c \in Calls /\ calls' = c /\ calls' \in 0..MaxCalls /\ calls \in Nat
      /\ m_initCompletionCb' = c /\ c > 0 /\ c > calls
      /\ outcome' = outcome /\ result[c] = "none" /\ outcome[c] = "none"
      /\ result \in [Calls -> ErrorCodes \cup {"none"}]
      /\ c \notin pending /\ \A g \in ready : g.call # c /\ g.call <= c
      /\ 1..calls \subseteq 1..calls' /\ c \in 1..calls'
      /\ 0..calls \subseteq 0..calls' /\ c \in 0..calls'
  BY LocalClientStreamAssumption DEF AsyncInit, MayInit, StoredCb, IInv, TypeOK, Made,
     Calls, Handlers
<1>2. \/ OvertakesDispatch
      \/ Own /\ \A g \in ready : g.op # "dispatch"
  BY DEF AsyncInit, MayInit, IInv
<1>3. h \in Handlers /\ h.op = "dispatch" /\ h.call = c /\ h.ec = "ok"
  BY <1>1, HandlerFields DEF Handlers, Handler, ErrorCodes
<1>4. \A k \in Calls : k > calls' => result[k] = "none" /\ outcome[k] = "none"
  BY <1>1 DEF IInv, Made, Calls
<1>5. CASE Answer(c, "ok") /\ UNCHANGED <<m_socket, pending, ready>>
  <2>1. result' = [result EXCEPT ![c] = "ok"] /\ answer' = [call |-> c, ec |-> "ok"]
    BY <1>5 DEF Answer
  <2>2. TypeOK'
    BY <1>1, <1>5, <2>1 DEF IInv, TypeOK, ErrorCodes
  <2>3. \A k \in Calls : k # c => result'[k] = result[k]
    BY <1>1, <2>1
  <2>4. Made'
    BY <1>1, <1>4, <1>5, <2>3 DEF IInv, Made, Calls
  <2>5. ASSUME Own, \A g \in ready : g.op # "dispatch" PROVE Own'
    BY <1>1, <1>5, <2>3, <2>5, CallsMade DEF Own, IInv
  <2> QED BY <1>2, <2>2, <2>4, <2>5 DEF IInv
<1>6. CASE ready' = ready \cup {h} /\ NoAnswerGiven /\ UNCHANGED <<m_socket, pending>>
  <2>1. result' = result /\ answer' = NoAnswer
    BY <1>6 DEF NoAnswerGiven
  <2> HIDE DEF h
  <2>2. TypeOK'
    BY <1>1, <1>3, <1>6, <2>1 DEF IInv, TypeOK
  <2>3. Made'
    BY <1>1, <1>3, <1>4, <1>6, <2>1 DEF Made
  <2>4. ASSUME Own, \A g \in ready : g.op # "dispatch" PROVE Own'
    BY <1>1, <1>3, <1>6, <2>1, <2>4 DEF Own
  <2> QED BY <1>2, <2>2, <2>3, <2>4 DEF IInv
<1>7. CASE /\ m_socket' = "open" /\ pending' = pending \cup {c}
           /\ NoAnswerGiven /\ UNCHANGED ready
  <2>1. result' = result /\ answer' = NoAnswer
    BY <1>7 DEF NoAnswerGiven
  <2>2. TypeOK'
    BY <1>1, <1>7, <2>1 DEF IInv, TypeOK
  <2>3. Made'
    BY <1>1, <1>4, <1>7, <2>1 DEF Made
  <2>4. ASSUME Own, \A g \in ready : g.op # "dispatch" PROVE Own'
    BY <1>1, <1>7, <2>1, <2>4 DEF Own
  <2> QED BY <1>2, <2>2, <2>3, <2>4 DEF IInv
<1> QED BY <1>1, <1>5, <1>6, <1>7 DEF AsyncInit

LEMMA SyncInitStep == ASSUME IInv, SyncInit PROVE IInv'
<1> DEFINE c == calls + 1
<1>1. /\ c \in Calls /\ calls' = c /\ calls' \in 0..MaxCalls /\ calls \in Nat
      /\ UNCHANGED <<m_initCompletionCb, pending, ready, outcome>>
      /\ result \in [Calls -> ErrorCodes \cup {"none"}]
      /\ c \notin pending /\ \A g \in ready : g.call # c /\ g.call <= c
      /\ 1..calls \subseteq 1..calls' /\ c \in 1..calls' /\ 0..calls \subseteq 0..calls'
  BY LocalClientStreamAssumption DEF SyncInit, MayInit, IInv, TypeOK, Made, Calls, Handlers
<1>2. PICK ec \in ErrorCodes : Answer(c, ec) /\ m_socket' \in {"closed", "open", "connected"}
  BY DEF SyncInit, ErrorCodes, IInv, TypeOK
<1>3. result' = [result EXCEPT ![c] = ec] /\ answer' = [call |-> c, ec |-> ec]
  BY <1>2 DEF Answer
<1>4. TypeOK'
  BY <1>1, <1>2, <1>3 DEF IInv, TypeOK
<1>5. \A k \in Calls : k # c => result'[k] = result[k]
  BY <1>1, <1>3
<1>6. Made'
  BY <1>1, <1>5 DEF IInv, Made, Calls
<1>7. ASSUME Own PROVE Own'
  BY <1>1, <1>5, <1>7, CallsMade DEF Own, IInv
<1> QED BY <1>4, <1>6, <1>7 DEF IInv

\* The connects cs complete, or are cancelled.
LEMMA CompleteStep ==
    ASSUME IInv, NEW cs \in SUBSET pending, NEW ec \in ErrorCodes, Complete(cs, ec),
           m_socket' \in {"closed", "open", "connected"}
    PROVE  IInv'
<1> DEFINE new == {Handler("connect", c, ec) : c \in cs}
<1>1. /\ pending' = pending \ cs /\ ready' = ready \cup new
      /\ outcome' = [c \in Calls |-> IF c \in cs THEN ec ELSE outcome[c]]
      /\ result' = result /\ answer' = NoAnswer
      /\ m_initCompletionCb' = m_initCompletionCb /\ calls' = calls
  BY DEF Complete, NoAnswerGiven
<1>2. \A c \in cs : c \in Calls /\ c <= calls
  BY CallsMade DEF IInv
<1>3. \A h \in new : h \in Handlers /\ h.op = "connect" /\ h.ec = ec /\ h.call \in cs
  BY <1>2, HandlerFields DEF Handlers, Handler
<1> HIDE DEF new
<1>4. TypeOK'
  BY <1>1, <1>3 DEF IInv, TypeOK
<1>5. Made'
  <2>1. \A c \in Calls : c > calls => c \notin cs
    BY <1>2 DEF IInv, TypeOK, Calls
  <2>2. \A h \in new : h.call <= calls /\ h.op # "dispatch"
    BY <1>2, <1>3
  <2> QED BY <1>1, <2>1, <2>2 DEF IInv, Made
<1>6. ASSUME Own PROVE Own'
  <2>1. \A h \in ready : h.call \in Calls /\ h.call \notin cs
    BY <1>6 DEF Own, IInv, TypeOK, Handlers
  <2>2. \A c \in pending' : result'[c] = "none" /\ outcome'[c] = "none"
    BY <1>1, <1>6, CallsMade DEF Own, IInv
  <2>3. ASSUME NEW h \in ready
        PROVE  /\ result'[h.call] = "none" /\ h.call \notin pending'
               /\ h.op = "connect" => outcome'[h.call] = h.ec
               /\ h.op = "dispatch" => /\ outcome'[h.call] = "none" /\ h.ec = "ok"
                                       /\ h.call = m_initCompletionCb'
    BY <1>1, <1>6, <2>1 DEF Own
  <2>4. ASSUME NEW h \in new
        PROVE  /\ result'[h.call] = "none" /\ h.call \notin pending'
               /\ h.op = "connect" /\ outcome'[h.call] = h.ec
    BY <1>1, <1>2, <1>3, <1>6 DEF Own
  <2> QED BY <1>1, <2>2, <2>3, <2>4 DEF Own
<1> QED BY <1>4, <1>5, <1>6 DEF IInv

LEMMA CloseStep == ASSUME IInv, Close PROVE IInv'
<1>1. pending \in SUBSET pending /\ "aborted" \in ErrorCodes
  BY DEF ErrorCodes
<1> QED BY <1>1, CompleteStep DEF Close

LEMMA ConnectCompletes ==
    ASSUME IInv, NEW c \in Calls, Connected(c) \/ Refused(c)
    PROVE  IInv'
<1>1. {c} \in SUBSET pending /\ "ok" \in ErrorCodes /\ "refused" \in ErrorCodes
  BY DEF Connected, Refused, ErrorCodes
<1>2. m_socket' \in {"closed", "open", "connected"}
  BY DEF Connected, Refused, IInv, TypeOK
<1> QED BY <1>1, <1>2, CompleteStep DEF Connected, Refused

\* A handler runs and answers the call k.
LEMMA AnsweringStep ==
    ASSUME IInv, NEW h \in ready, NEW k \in 1..calls, NEW ec \in ErrorCodes,
           ready' = ready \ {h}, Answer(k, ec), Own => k = h.call,
           UNCHANGED <<m_socket, m_initCompletionCb, pending, outcome, calls>>
    PROVE  IInv'
<1>1. result' = [result EXCEPT ![k] = ec] /\ answer' = [call |-> k, ec |-> ec]
  BY DEF Answer
<1>2. k \in Calls /\ k <= calls
  BY CallsMade DEF IInv
<1>3. TypeOK'
  BY <1>1, <1>2 DEF IInv, TypeOK
<1>4. \A c \in Calls : c # k => result'[c] = result[c]
  BY <1>1, <1>2 DEF IInv, TypeOK
<1>5. Made'
  BY <1>2, <1>4 DEF IInv, Made, TypeOK, Calls
<1>6. ASSUME Own PROVE Own'
  <2>1. \A g \in ready' : g \in ready /\ g.call # k /\ g.call \in Calls
    BY <1>6, OneHandler DEF IInv, TypeOK, Handlers
  <2>2. \A c \in pending : c # k /\ c \in Calls
    BY <1>6, CallsMade DEF Own, IInv
  <2> QED BY <1>4, <1>6, <2>1, <2>2 DEF Own
<1> QED BY <1>3, <1>5, <1>6 DEF IInv

LEMMA OnConnectStep ==
    ASSUME IInv, NEW c \in Calls, NEW ec \in ErrorCodes, OnConnect(c, ec)
    PROVE  IInv'
<1> DEFINE h == Handler("connect", c, ec)
<1>1. h \in ready /\ h.call = c
  BY HandlerFields DEF OnConnect
<1>2. c \in 1..calls
  BY <1>1 DEF IInv, Made, TypeOK, Calls
<1>3. /\ ready' = ready \ {h} /\ Answer(c, ec)
      /\ UNCHANGED <<m_socket, m_initCompletionCb, pending, outcome, calls>>
  BY DEF OnConnect, BoundCb
<1> HIDE DEF h
<1> QED BY <1>1, <1>2, <1>3, AnsweringStep

LEMMA OnDispatchStep ==
    ASSUME IInv, NEW c \in Calls, OnDispatch(c)
    PROVE  IInv'
<1> DEFINE h == Handler("dispatch", c, "ok")
<1>1. h \in ready /\ h.op = "dispatch"
  BY HandlerFields DEF OnDispatch
<1>2. /\ ready' = ready \ {h} /\ Answer(m_initCompletionCb, "ok")
      /\ UNCHANGED <<m_socket, m_initCompletionCb, pending, outcome, calls>>
  BY DEF OnDispatch
<1> HIDE DEF h
<1>3. m_initCompletionCb \in 1..calls /\ "ok" \in ErrorCodes
  BY <1>1 DEF IInv, Made, TypeOK, ErrorCodes
<1>4. Own => m_initCompletionCb = h.call
  BY <1>1 DEF Own
<1> QED BY <1>1, <1>2, <1>3, <1>4, AnsweringStep

LEMMA NextIInv == ASSUME IInv, [Next]_vars PROVE IInv'
<1>1. CASE UNCHANGED vars
  BY <1>1 DEF vars, IInv, TypeOK, Made, Own
<1> QED BY <1>1, AsyncInitStep, SyncInitStep, CloseStep, ConnectCompletes, OnConnectStep,
        OnDispatchStep DEF Next

-----------------------------------------------------------------------------
(* The theorems. *)

\* The invariant the others follow from.
THEOREM Invariance == Spec => []IInv
BY InitIInv, NextIInv, PTL DEF Spec

(***************************************************************************)
(* Every state is well typed, also when dispatched completions are         *)
(* overtaken: whatever is executed is the callback of a call that was made.*)
(***************************************************************************)
THEOREM TypeCorrect == Spec => []TypeOK
BY Invariance, PTL DEF IInv

(***************************************************************************)
(* However initializations overlap, no callback is executed twice and each *)
(* connect is reported to the call that started it, if no call is made     *)
(* while the dispatched completion of an earlier one is queued.            *)
(***************************************************************************)
THEOREM OwnAnswer ==
    ASSUME ~OvertakesDispatch
    PROVE  Spec => OwnAnswerOnce
<1> DEFINE Once == \A c \in Calls : answer'.call = c =>
                       result[c] = "none" /\ outcome[c] \in {"none", answer'.ec}
<1>1. ASSUME IInv, Next PROVE Once
  <2>1. Own
    BY <1>1 DEF IInv
  <2>2. CASE answer' = NoAnswer
    BY <2>2 DEF NoAnswer, Calls
  <2>3. CASE AsyncInit \/ SyncInit
    <3>1. answer' = NoAnswer \/ answer'.call = calls + 1
      BY <2>3 DEF AsyncInit, SyncInit, Answer, NoAnswerGiven, StoredCb
    <3>2. calls + 1 > calls
      BY <1>1 DEF IInv, TypeOK
    <3> QED BY <1>1, <2>2, <3>1, <3>2 DEF IInv, Made
  <2>4. ASSUME NEW c \in Calls, Close \/ Connected(c) \/ Refused(c) PROVE Once
    <3>1. answer' = NoAnswer
      BY <2>4 DEF Close, Connected, Refused, Complete, NoAnswerGiven
    <3> QED BY <2>2, <3>1
  <2>5. ASSUME NEW c \in Calls, NEW ec \in ErrorCodes, OnConnect(c, ec) PROVE Once
    <3> DEFINE h == Handler("connect", c, ec)
    <3>1. h \in ready /\ h.op = "connect" /\ h.call = c /\ h.ec = ec
      BY <2>5, HandlerFields DEF OnConnect
    <3>2. answer'.call = c /\ answer'.ec = ec
      BY <2>5 DEF OnConnect, Answer, BoundCb
    <3> HIDE DEF h
    <3> QED BY <2>1, <3>1, <3>2 DEF Own
  <2>6. ASSUME NEW c \in Calls, OnDispatch(c) PROVE Once
    <3> DEFINE h == Handler("dispatch", c, "ok")
    <3>1. h \in ready /\ h.op = "dispatch" /\ h.call = c
      BY <2>6, HandlerFields DEF OnDispatch
    <3>2. answer'.call = m_initCompletionCb
      BY <2>6 DEF OnDispatch, Answer
    <3> HIDE DEF h
    <3> QED BY <2>1, <3>1, <3>2 DEF Own
  <2>7. ASSUME Close PROVE Once
    BY <2>2, <2>7 DEF Close, Complete, NoAnswerGiven
  <2> QED BY <1>1, <2>3, <2>4, <2>5, <2>6, <2>7 DEF Next
<1>2. ASSUME IInv, [Next]_vars PROVE [Once]_vars
  BY <1>1, <1>2
<1> QED BY <1>2, Invariance, PTL DEF Spec, OwnAnswerOnce

-----------------------------------------------------------------------------
(* LocalClientStream implements Initialization. *)

LEMMA InitRefines == Init => Promise!Init
BY DEF Init, Promise!Init, Calls, Promise!Calls, NoAnswer, Promise!NoAnswer

LEMMA CallRefines == ASSUME IInv, AsyncInit \/ SyncInit PROVE Promise!Call
<1>1. /\ calls < MaxCalls /\ calls' = calls + 1
      /\ \/ \E ec \in ErrorCodes : Answer(calls + 1, ec)
         \/ NoAnswerGiven
  BY DEF AsyncInit, SyncInit, MayInit, StoredCb, ErrorCodes
<1>2. result[calls + 1] = "none"
  <2>1. calls + 1 \in Calls /\ calls + 1 > calls
    BY <1>1, LocalClientStreamAssumption DEF IInv, TypeOK, Calls
  <2> QED BY <2>1 DEF IInv, Made
<1> QED BY <1>1, <1>2 DEF Promise!Call, Promise!Tell, Promise!TellNobody, Answer,
                          NoAnswerGiven, NoAnswer, Promise!NoAnswer

\* A handler executes the callback of the call it was made for, also the handler
\* of a dispatched completion unless it is overtaken.
LEMMA AnswerRefines ==
    ASSUME IInv, ~OvertakesDispatch, NEW h \in ready, NEW ec \in ErrorCodes,
           Answer(h.call, ec), UNCHANGED calls
    PROVE  \E c \in Promise!Calls : Promise!CallBack(c)
<1>1. h.call \in Calls /\ h.call <= calls /\ result[h.call] = "none"
  BY DEF IInv, TypeOK, Made, Own, Handlers
<1> QED BY <1>1 DEF Promise!CallBack, Promise!Tell, Answer, Calls, Promise!Calls

LEMMA StepRefines ==
    ASSUME IInv, ~OvertakesDispatch, [Next]_vars
    PROVE  [Promise!Next]_Promise!vars
<1>1. CASE AsyncInit \/ SyncInit
  BY <1>1, CallRefines DEF Promise!Next
<1>2. ASSUME NEW c \in Calls, Connected(c) \/ Refused(c) PROVE Promise!Next
  <2>1. Promise!GoOn
    BY <1>2 DEF Connected, Refused, Complete, NoAnswerGiven, NoAnswer,
       Promise!NoAnswer, Promise!GoOn, Promise!TellNobody
  <2> QED BY <2>1 DEF Promise!Next
<1>3. CASE Close
  <2>1. Promise!GoOn
    BY <1>3 DEF Close, Complete, NoAnswerGiven, NoAnswer,
       Promise!NoAnswer, Promise!GoOn, Promise!TellNobody
  <2> QED BY <2>1 DEF Promise!Next
<1>4. ASSUME NEW c \in Calls, OnDispatch(c) PROVE Promise!Next
  <2>1. /\ Handler("dispatch", c, "ok") \in ready
        /\ Handler("dispatch", c, "ok").op = "dispatch"
        /\ Answer(m_initCompletionCb, "ok") /\ UNCHANGED calls /\ "ok" \in ErrorCodes
    BY <1>4, HandlerFields DEF OnDispatch, ErrorCodes
  <2>2. Handler("dispatch", c, "ok").call = m_initCompletionCb
    BY <2>1 DEF IInv, Own
  <2> QED BY <2>1, <2>2, AnswerRefines DEF Promise!Next
<1>5. ASSUME NEW c \in Calls, NEW ec \in ErrorCodes, OnConnect(c, ec) PROVE Promise!Next
  <2>1. /\ Handler("connect", c, ec) \in ready
        /\ Handler("connect", c, ec).call = c
        /\ Answer(c, ec) /\ UNCHANGED calls
    BY <1>5, HandlerFields DEF OnConnect, BoundCb
  <2> QED BY <2>1, AnswerRefines DEF Promise!Next
<1>6. CASE UNCHANGED vars
  BY <1>6 DEF vars, Promise!vars
<1> QED BY <1>1, <1>2, <1>3, <1>4, <1>5, <1>6 DEF Next

(***************************************************************************)
(* asyncInit and init do what Initialization says, but for its fairness:   *)
(* a callback is executed only for a call that was made, and never tells   *)
(* that call a second result, however calls overlap, if none overtakes a   *)
(* completion.                                                             *)
(***************************************************************************)
THEOREM Refinement ==
    ASSUME ~OvertakesDispatch
    PROVE  Spec => Promise!Spec
<1>1. IInv /\ [Next]_vars => [Promise!Next]_Promise!vars
  BY StepRefines
<1> QED BY <1>1, InitRefines, Invariance, PTL DEF Spec, Promise!Spec
=============================================================================
