------------------------ MODULE TcpClientStreamProofs ------------------------
(***************************************************************************)
(* Proofs about TcpClientStream, for every number of initializations.      *)
(***************************************************************************)
EXTENDS TcpClientStream, TLAPS

\* Only the latest call can be unanswered.
Results == \A c \in Calls : /\ c > calls => result[c] = "none"
                            /\ c < calls => result[c] # "none"

\* Everything in progress is done for it; only timer handlers may be stale.
InProgress ==
    /\ \A w \in pending : /\ w.call = calls
                          /\ result[w.call] = "none" /\ m_initCompletionCb = w.call
    /\ \A h \in ready : h.op # "timer" =>
          /\ h.call = calls
          /\ result[h.call] = "none" /\ m_initCompletionCb = h.call

\* One operation besides the timer, waiting or with its handler queued.
OneStep ==
    /\ \A v, w \in pending : v.op = "timer" \/ w.op = "timer" \/ v = w
    /\ \A g, h \in ready : g.op = "timer" \/ h.op = "timer" \/ g = h
    /\ \A w \in pending, h \in ready : w.op = "timer" \/ h.op = "timer"

\* The timer runs only against a connect.
TimerForConnect ==
    \A w \in pending : w.op = "timer" => \/ \E v \in pending : v.op = "connect"
                                         \/ \E h \in ready : h.op = "connect"

\* What the socket is while an operation is under way.
SocketState ==
    /\ \A w \in pending : /\ w.op = "resolve" => m_socket = "closed"
                          /\ w.op = "connect" => m_socket = "open"
    /\ \A h \in ready : h.op = "resolve" => m_socket = "closed"
    /\ \A h \in ready : h.op = "connect" /\ h.ec # "ok" => m_socket # "connected"

IInv == /\ TypeOK
        /\ Results
        /\ InProgress
        /\ OneStep
        /\ TimerForConnect
        /\ SocketState
        /\ WatchedConnect
        /\ FailureIsNotConnected

-----------------------------------------------------------------------------
(* What the record constructors make, and what a cancel adds to ready. *)

LEMMA HandlerFields ==
    ASSUME NEW op, NEW c, NEW ec
    PROVE  /\ Handler(op, c, ec).op = op
           /\ Handler(op, c, ec).call = c
           /\ Handler(op, c, ec).ec = ec
           /\ Wait(op, c).op = op /\ Wait(op, c).call = c
BY DEF Handler, Wait

LEMMA AbortedHandlers ==
    ASSUME TypeOK, NEW waits \in SUBSET pending
    PROVE  /\ Aborted(waits) \subseteq Handlers
           /\ \A h \in Aborted(waits) :
                 /\ h.ec = "aborted"
                 /\ \E w \in waits : h.op = w.op /\ h.call = w.call
           /\ \A w \in waits : \E h \in Aborted(waits) : h.op = w.op /\ h.call = w.call
<1>1. ASSUME NEW w \in waits
      PROVE  /\ Handler(w.op, w.call, "aborted") \in Handlers
             /\ Handler(w.op, w.call, "aborted").ec = "aborted"
             /\ Handler(w.op, w.call, "aborted").op = w.op
             /\ Handler(w.op, w.call, "aborted").call = w.call
  BY <1>1 DEF TypeOK, Waits, Handlers, Handler, ErrorCodes
<1> QED BY <1>1 DEF Aborted

LEMMA InitIInv == Init => IInv
BY MaxCallsAssumption DEF Init, IInv, TypeOK, Results, InProgress, OneStep,
   TimerForConnect, SocketState, WatchedConnect, FailureIsNotConnected, NoAnswer,
   ErrorCodes, Calls

\* When everything is answered, nothing but timer handlers is left.
LEMMA Idle ==
    ASSUME IInv, MayInit
    PROVE  pending = {} /\ \A h \in ready : h.op = "timer"
<1>1. ASSUME NEW c \in Calls, c = calls PROVE result[c] # "none"
  BY <1>1, MaxCallsAssumption DEF MayInit, Calls, IInv, TypeOK
<1>2. \A w \in pending : w.call \in Calls
  BY DEF IInv, TypeOK, Waits
<1>3. \A h \in ready : h.call \in Calls
  BY DEF IInv, TypeOK, Handlers
<1> QED BY <1>1, <1>2, <1>3 DEF IInv, InProgress

LEMMA AsyncInitStep == ASSUME IInv, AsyncInit PROVE IInv'
<1> DEFINE c == calls + 1
<1>1. pending = {} /\ \A h \in ready : h.op = "timer"
  BY Idle DEF AsyncInit
<1>2. /\ c \in Calls /\ calls' = c /\ calls' \in 0..MaxCalls
      /\ \A k \in Calls : k <= calls => result[k] # "none"
      /\ m_initCompletionCb' = c /\ c \in 1..c /\ calls \in Nat
      /\ result \in [Calls -> ErrorCodes \cup {"none"}]
      /\ result[c] = "none" /\ m_socket' = m_socket /\ struck' = struck
  BY MaxCallsAssumption DEF AsyncInit, MayInit, IInv, TypeOK, Calls, StoredCb, Results
<1>3. CASE m_socket # "closed" /\ Answer(c, "ok") /\ UNCHANGED <<pending, ready>>
  <2>1. result' = [result EXCEPT ![c] = "ok"] /\ answer' = [call |-> c, ec |-> "ok"]
    BY <1>3 DEF Answer
  <2>2. TypeOK'
    BY <1>2, <1>3, <2>1 DEF IInv, TypeOK, ErrorCodes
  <2>3. Results'
    BY <1>2, <2>1, MaxCallsAssumption DEF IInv, Results, Calls
  <2>4. InProgress' /\ OneStep' /\ TimerForConnect' /\ SocketState' /\ WatchedConnect'
    BY <1>1, <1>2, <1>3 DEF InProgress, OneStep, TimerForConnect, SocketState,
       WatchedConnect
  <2>5. FailureIsNotConnected'
    BY <2>1 DEF FailureIsNotConnected
  <2> QED BY <2>2, <2>3, <2>4, <2>5 DEF IInv
<1>4. CASE /\ ready' = ready \cup {Handler("dispatch", c, "ok")}
           /\ UNCHANGED pending /\ NoAnswerGiven
  <2>1. result' = result /\ answer' = NoAnswer
    BY <1>4 DEF NoAnswerGiven
  <2>2. TypeOK'
    BY <1>2, <1>4, <2>1 DEF IInv, TypeOK, ErrorCodes, Handlers, Handler
  <2>3. Results'
    BY <1>2, <2>1, MaxCallsAssumption DEF IInv, Results, Calls
  <2>4. InProgress' /\ OneStep'
    BY <1>1, <1>2, <1>4, <2>1, HandlerFields DEF InProgress, OneStep
  <2>5. TimerForConnect' /\ SocketState' /\ WatchedConnect'
    BY <1>1, <1>2, <1>4, HandlerFields DEF TimerForConnect, SocketState, WatchedConnect
  <2>6. FailureIsNotConnected'
    BY <2>1 DEF FailureIsNotConnected, NoAnswer, ErrorCodes
  <2> QED BY <2>2, <2>3, <2>4, <2>5, <2>6 DEF IInv
<1>5. CASE /\ m_socket = "closed" /\ pending' = pending \cup {Wait("resolve", c)}
           /\ UNCHANGED ready /\ NoAnswerGiven
  <2>1. result' = result /\ answer' = NoAnswer
    BY <1>5 DEF NoAnswerGiven
  <2>2. TypeOK'
    BY <1>2, <1>5, <2>1 DEF IInv, TypeOK, ErrorCodes, Waits, Wait
  <2>3. Results'
    BY <1>2, <2>1, MaxCallsAssumption DEF IInv, Results, Calls
  <2>4. InProgress' /\ OneStep'
    BY <1>1, <1>2, <1>5, <2>1, HandlerFields DEF InProgress, OneStep
  <2>5. TimerForConnect' /\ SocketState' /\ WatchedConnect'
    BY <1>1, <1>2, <1>5, HandlerFields DEF TimerForConnect, SocketState, WatchedConnect
  <2>6. FailureIsNotConnected'
    BY <2>1 DEF FailureIsNotConnected, NoAnswer, ErrorCodes
  <2> QED BY <2>2, <2>3, <2>4, <2>5, <2>6 DEF IInv
<1> QED BY <1>2, <1>3, <1>4, <1>5 DEF AsyncInit

LEMMA SyncInitStep == ASSUME IInv, SyncInit PROVE IInv'
<1> DEFINE c == calls + 1
<1>1. pending = {} /\ \A h \in ready : h.op = "timer"
  BY Idle DEF SyncInit
<1>2. /\ c \in Calls /\ calls' = c /\ calls' \in 0..MaxCalls
      /\ \A k \in Calls : k <= calls => result[k] # "none"
      /\ c \in 1..c /\ calls \in Nat
      /\ result \in [Calls -> ErrorCodes \cup {"none"}]
      /\ UNCHANGED <<m_initCompletionCb, pending, ready, struck>>
  BY MaxCallsAssumption DEF SyncInit, MayInit, IInv, TypeOK, Calls
<1>3. PICK ec \in ErrorCodes : /\ Answer(c, ec)
                               /\ m_socket' \in {"closed", "open", "connected"}
                               /\ ec # "ok" => m_socket' # "connected"
  BY DEF SyncInit, ErrorCodes, IInv, TypeOK
<1>4. result' = [result EXCEPT ![c] = ec] /\ answer' = [call |-> c, ec |-> ec]
  BY <1>3 DEF Answer
<1>5. TypeOK'
  BY <1>2, <1>3, <1>4 DEF IInv, TypeOK
<1>6. Results'
  BY <1>2, <1>4, MaxCallsAssumption DEF IInv, Results, Calls, ErrorCodes
<1>7. InProgress' /\ OneStep' /\ TimerForConnect' /\ SocketState' /\ WatchedConnect'
  BY <1>1, <1>2 DEF InProgress, OneStep, TimerForConnect, SocketState, WatchedConnect
<1>8. FailureIsNotConnected'
  BY <1>3, <1>4 DEF FailureIsNotConnected
<1> QED BY <1>5, <1>6, <1>7, <1>8 DEF IInv

-----------------------------------------------------------------------------
(* Completions. *)

LEMMA CompleteStep ==
    ASSUME IInv, NEW w \in pending, NEW ec \in ErrorCodes, Complete(w, ec),
           m_socket' \in {"closed", "open", "connected"},
           w.op # "connect" => m_socket' = m_socket /\ (w.op = "timer" => ec = "ok"),
           w.op = "connect" /\ ec # "ok" => m_socket' # "connected"
    PROVE  IInv'
<1> DEFINE h == Handler(w.op, w.call, ec)
<1>1. /\ pending' = pending \ {w} /\ ready' = ready \cup {h}
      /\ result' = result /\ answer' = NoAnswer /\ struck' = struck
      /\ calls' = calls /\ m_initCompletionCb' = m_initCompletionCb
  BY DEF Complete, NoAnswerGiven
<1>2. /\ h \in Handlers /\ h.op = w.op /\ h.call = w.call /\ h.ec = ec
      /\ w \in Waits
  BY DEF IInv, TypeOK, Waits, Handlers, Handler
<1>3. w.call = calls /\ result[w.call] = "none" /\ m_initCompletionCb = w.call
  BY DEF IInv, InProgress
<1> HIDE DEF h
<1>4. TypeOK'
  BY <1>1, <1>2 DEF IInv, TypeOK
<1>5. Results' /\ FailureIsNotConnected'
  BY <1>1 DEF IInv, Results, FailureIsNotConnected, NoAnswer, ErrorCodes
<1>6. InProgress'
  BY <1>1, <1>2, <1>3 DEF IInv, InProgress
<1>7. OneStep'
  BY <1>1, <1>2 DEF IInv, OneStep
<1>8. TimerForConnect'
  BY <1>1, <1>2 DEF IInv, TimerForConnect
<1>9. SocketState'
  <2>1. CASE w.op = "connect"
    BY <1>1, <1>2, <2>1 DEF IInv, SocketState, OneStep
  <2>2. CASE w.op # "connect"
    BY <1>1, <1>2, <2>2 DEF IInv, SocketState
  <2> QED BY <2>1, <2>2
<1>10. WatchedConnect'
  <2> SUFFICES ASSUME NEW c \in Calls, Wait("connect", c) \in pending'
               PROVE  \/ Wait("timer", c) \in pending'
                      \/ Handler("timer", c, "ok") \in ready'
    BY DEF WatchedConnect
  <2>1. \/ Wait("timer", c) \in pending
        \/ Handler("timer", c, "ok") \in ready
    BY <1>1 DEF IInv, WatchedConnect
  <2>2. CASE w = Wait("timer", c)
    <3>1. h = Handler("timer", c, "ok")
      BY <2>2, HandlerFields DEF h
    <3> QED BY <1>1, <3>1
  <2> QED BY <1>1, <2>1, <2>2
<1> QED BY <1>4, <1>5, <1>6, <1>7, <1>8, <1>9, <1>10 DEF IInv

LEMMA CompletionsStep == ASSUME IInv, Completions PROVE IInv'
<1>1. PICK c \in Calls : \/ \E ec \in {"ok", "not_found"} : Resolved(c, ec)
                         \/ Connected(c) \/ Refused(c) \/ TimerExpires(c)
  BY DEF Completions
<1> USE HandlerFields DEF ErrorCodes
<1>2. ASSUME NEW ec \in {"ok", "not_found"}, Resolved(c, ec) PROVE IInv'
  <2>1. Wait("resolve", c) \in pending /\ m_socket' = m_socket
    BY <1>2 DEF Resolved, Complete
  <2> QED BY <1>2, <2>1, CompleteStep DEF Resolved, IInv, TypeOK
<1>3. CASE Connected(c)
  <2>1. Wait("connect", c) \in pending /\ m_socket' = "connected"
    BY <1>3 DEF Connected, Complete
  <2> QED BY <1>3, <2>1, CompleteStep DEF Connected
<1>4. CASE Refused(c)
  <2>1. Wait("connect", c) \in pending /\ m_socket' = m_socket /\ m_socket = "open"
    BY <1>4 DEF Refused, Complete, IInv, SocketState
  <2> QED BY <1>4, <2>1, CompleteStep DEF Refused
<1>5. CASE TimerExpires(c)
  <2>1. Wait("timer", c) \in pending /\ m_socket' = m_socket
    BY <1>5 DEF TimerExpires, Complete
  <2> QED BY <1>5, <2>1, CompleteStep DEF TimerExpires, IInv, TypeOK
<1> QED BY <1>1, <1>2, <1>3, <1>4, <1>5

-----------------------------------------------------------------------------
(* Closing the socket, by the application or by the timer. *)

\* At most the one connect in progress is aborted.
LEMMA AbortedConnect ==
    ASSUME IInv
    PROVE  \/ ConnectWaits = {} /\ Aborted(ConnectWaits) = {}
           \/ \E w \in pending : /\ w.op = "connect"
                                 /\ ConnectWaits = {w}
                                 /\ Aborted(ConnectWaits)
                                        = {Handler("connect", w.call, "aborted")}
<1>1. CASE ConnectWaits = {}
  BY <1>1 DEF Aborted
<1>2. ASSUME NEW w \in pending, w.op = "connect" PROVE ConnectWaits = {w}
  BY <1>2 DEF IInv, OneStep, ConnectWaits
<1>3. ASSUME NEW w \in pending, w.op = "connect", ConnectWaits = {w}
      PROVE  Aborted(ConnectWaits) = {Handler("connect", w.call, "aborted")}
  BY <1>3 DEF Aborted
<1> QED BY <1>1, <1>2, <1>3 DEF ConnectWaits

LEMMA ClosingStep ==
    ASSUME IInv,
           NEW handled \in SUBSET ready, \A h \in handled : h.op = "timer",
           m_socket' = "closed",
           pending' = pending \ ConnectWaits,
           ready' = (ready \ handled) \cup Aborted(ConnectWaits),
           NoAnswerGiven, struck' \subseteq Calls,
           UNCHANGED <<m_initCompletionCb, calls>>
    PROVE  IInv'
<1>1. /\ result' = result /\ answer' = NoAnswer
      /\ \A w \in pending' : w \in pending /\ w.op # "connect"
  BY DEF NoAnswerGiven, ConnectWaits
<1>2. Results' /\ FailureIsNotConnected'
  BY <1>1 DEF IInv, Results, FailureIsNotConnected, NoAnswer, ErrorCodes
<1>3. WatchedConnect'
  BY <1>1, HandlerFields DEF WatchedConnect
<1>4. CASE ConnectWaits = {} /\ Aborted(ConnectWaits) = {}
  <2>1. TypeOK'
    BY <1>1, <1>4 DEF IInv, TypeOK
  <2>2. InProgress' /\ OneStep'
    BY <1>1, <1>4 DEF IInv, InProgress, OneStep
  <2>3. TimerForConnect' /\ SocketState'
    BY <1>1, <1>4 DEF IInv, TimerForConnect, SocketState
  <2> QED BY <1>2, <1>3, <2>1, <2>2, <2>3 DEF IInv
<1>5. ASSUME NEW w \in pending, w.op = "connect", ConnectWaits = {w},
             Aborted(ConnectWaits) = {Handler("connect", w.call, "aborted")}
      PROVE  IInv'
  <2> DEFINE g == Handler("connect", w.call, "aborted")
  <2>1. /\ g \in Handlers /\ g.op = "connect" /\ g.call = w.call /\ g.ec = "aborted"
    BY DEF IInv, TypeOK, Waits, Handlers, Handler, ErrorCodes
  <2>2. ready' = (ready \ handled) \cup {g} /\ pending' = pending \ {w}
    BY <1>5
  <2> HIDE DEF g
  <2>3. TypeOK'
    BY <1>1, <2>1, <2>2 DEF IInv, TypeOK
  <2>4. InProgress'
    BY <1>1, <1>5, <2>1, <2>2 DEF IInv, InProgress
  <2>5. OneStep'
    BY <1>1, <1>5, <2>1, <2>2 DEF IInv, OneStep
  <2>6. TimerForConnect' /\ SocketState'
    BY <1>1, <1>5, <2>1, <2>2 DEF IInv, TimerForConnect, SocketState
  <2> QED BY <1>2, <1>3, <2>3, <2>4, <2>5, <2>6 DEF IInv
<1> QED BY <1>4, <1>5, AbortedConnect

LEMMA CloseStep == ASSUME IInv, Close PROVE IInv'
<1>1. PICK none \in SUBSET ready : none = {}
  OBVIOUS
<1>2. /\ ready' = (ready \ none) \cup Aborted(ConnectWaits)
      /\ struck' \subseteq Calls /\ \A h \in none : h.op = "timer"
  BY <1>1 DEF Close, CloseSocket, IInv, TypeOK
<1>3. /\ m_socket' = "closed" /\ pending' = pending \ ConnectWaits
      /\ NoAnswerGiven /\ UNCHANGED <<m_initCompletionCb, calls>>
  BY DEF Close, CloseSocket
<1> QED BY <1>2, <1>3, ClosingStep

-----------------------------------------------------------------------------
(* The handlers. *)

\* connectTimeoutCb; a cancelled one only disappears.
LEMMA OnTimerStep ==
    ASSUME IInv, NEW c \in Calls, NEW ec \in ErrorCodes, OnTimer(c, ec)
    PROVE  IInv'
<1> DEFINE handled == Handler("timer", c, ec)
<1>1. handled \in ready /\ handled.op = "timer" /\ handled.ec = ec
  BY HandlerFields DEF OnTimer
<1>2. CASE ec # "aborted"
  <2>1. {handled} \in SUBSET ready /\ \A h \in {handled} : h.op = "timer"
    BY <1>1
  <2>2. /\ m_socket' = "closed" /\ pending' = pending \ ConnectWaits
        /\ ready' = (ready \ {handled}) \cup Aborted(ConnectWaits)
        /\ NoAnswerGiven /\ struck' \subseteq Calls
        /\ UNCHANGED <<m_initCompletionCb, calls>>
    BY <1>2 DEF OnTimer, IInv, TypeOK
  <2> QED BY <2>1, <2>2, ClosingStep
<1>3. CASE ec = "aborted"
  <2> HIDE DEF handled
  <2>1. /\ ready' = ready \ {handled} /\ result' = result /\ answer' = NoAnswer
        /\ UNCHANGED <<m_socket, m_initCompletionCb, pending, calls, struck>>
    BY <1>3 DEF OnTimer, NoAnswerGiven, handled
  <2>2. TypeOK' /\ Results' /\ FailureIsNotConnected'
    BY <2>1 DEF IInv, TypeOK, Results, FailureIsNotConnected, NoAnswer, ErrorCodes
  <2>3. InProgress' /\ OneStep' /\ TimerForConnect' /\ SocketState'
    BY <1>1, <2>1 DEF IInv, InProgress, OneStep, TimerForConnect, SocketState
  <2>4. \A k \in Calls : handled # Handler("timer", k, "ok")
    BY <1>1, <1>3, HandlerFields
  <2>5. WatchedConnect'
    BY <2>1, <2>4 DEF IInv, WatchedConnect
  <2> QED BY <2>2, <2>3, <2>5 DEF IInv
<1> QED BY <1>2, <1>3

\* A handler that answers and leaves nothing pending.
LEMMA AnsweringStep ==
    ASSUME IInv, NEW h \in ready, h.op # "timer",
           NEW stale \in SUBSET Handlers, \A g \in stale : g.op = "timer",
           ready' = (ready \ {h}) \cup stale,
           pending' = {},
           Answer(m_initCompletionCb, h.ec),
           h.ec # "ok" => m_socket # "connected",
           UNCHANGED <<m_socket, m_initCompletionCb, calls, struck>>
    PROVE  IInv' /\ result[m_initCompletionCb] = "none"
<1>1. /\ h.call = calls /\ m_initCompletionCb = calls /\ result[calls] = "none"
      /\ h \in Handlers /\ calls \in Calls
  BY DEF IInv, InProgress, TypeOK, Handlers
<1>2. /\ result' = [result EXCEPT ![calls] = h.ec]
      /\ answer' = [call |-> calls, ec |-> h.ec]
  BY <1>1 DEF Answer
<1>3. h.ec \in ErrorCodes /\ "none" \notin ErrorCodes
  BY <1>1 DEF Handlers, ErrorCodes
<1>4. TypeOK'
  BY <1>1, <1>2, <1>3, MaxCallsAssumption DEF IInv, TypeOK, Calls
<1>5. Results'
  BY <1>1, <1>2, <1>3, MaxCallsAssumption DEF IInv, TypeOK, Results, Calls
<1>6. \A g \in ready' : g.op = "timer"
  BY DEF IInv, OneStep
<1>7. InProgress' /\ OneStep' /\ TimerForConnect' /\ SocketState' /\ WatchedConnect'
  BY <1>6 DEF InProgress, OneStep, TimerForConnect, SocketState, WatchedConnect
<1>8. FailureIsNotConnected'
  BY <1>2 DEF FailureIsNotConnected
<1> QED BY <1>1, <1>4, <1>5, <1>7, <1>8 DEF IInv

\* While a handler other than the timer's is queued, only the timer may wait,
\* and only if that handler is the connect's.
LEMMA OnlyTimerWaits ==
    ASSUME IInv, NEW h \in ready, h.op # "timer"
    PROVE  /\ pending = TimerWaits
           /\ h.op # "connect" => pending = {}
<1>1. \A w \in pending : w.op = "timer"
  BY DEF IInv, OneStep
<1>2. ASSUME NEW w \in pending PROVE h.op = "connect"
  <2>1. PICK g \in ready : g.op = "connect"
    BY <1>1, <1>2 DEF IInv, TimerForConnect
  <2> QED BY <2>1 DEF IInv, OneStep
<1> QED BY <1>1, <1>2 DEF TimerWaits

LEMMA OnDispatchStep ==
    ASSUME IInv, NEW c \in Calls, OnDispatch(c)
    PROVE  IInv' /\ result[m_initCompletionCb] = "none"
<1> DEFINE h == Handler("dispatch", c, "ok")
<1>1. h \in ready /\ h.op = "dispatch" /\ h.ec = "ok"
  BY HandlerFields DEF OnDispatch
<1>2. PICK stale \in SUBSET Handlers : stale = {}
  OBVIOUS
<1>3. /\ ready' = (ready \ {h}) \cup stale /\ Answer(m_initCompletionCb, h.ec)
      /\ UNCHANGED <<m_socket, m_initCompletionCb, pending, calls, struck>>
  BY <1>1, <1>2 DEF OnDispatch
<1>4. pending' = {}
  BY <1>1, <1>3, OnlyTimerWaits
<1> HIDE DEF h
<1> QED BY <1>1, <1>2, <1>3, <1>4, AnsweringStep

\* onConnect: whatever the result, the timer is cancelled and the call answered.
LEMMA OnConnectStep ==
    ASSUME IInv, NEW c \in Calls, NEW ec \in ErrorCodes, OnConnect(c, ec)
    PROVE  IInv' /\ result[m_initCompletionCb] = "none"
<1> DEFINE h == Handler("connect", c, ec)
<1>1. h \in ready /\ h.op = "connect" /\ h.ec = ec
  BY HandlerFields DEF OnConnect
<1>2. /\ Aborted(TimerWaits) \in SUBSET Handlers
      /\ \A g \in Aborted(TimerWaits) : g.op = "timer"
  BY AbortedHandlers DEF IInv, TimerWaits
<1>3. /\ ready' = (ready \ {h}) \cup Aborted(TimerWaits)
      /\ Answer(m_initCompletionCb, h.ec) /\ pending' = pending \ TimerWaits
      /\ UNCHANGED <<m_socket, m_initCompletionCb, calls, struck>>
  BY <1>1 DEF OnConnect
<1> HIDE DEF h
<1>4. pending' = {}
  BY <1>1, <1>3, OnlyTimerWaits
<1>5. h.ec # "ok" => m_socket # "connected"
  BY <1>1 DEF IInv, SocketState
<1> QED BY <1>1, <1>2, <1>3, <1>4, <1>5, AnsweringStep

\* onResolve: answers the failure, or arms the timer and starts to connect.
LEMMA OnResolveStep ==
    ASSUME IInv, NEW c \in Calls, NEW ec \in ErrorCodes, OnResolve(c, ec)
    PROVE  IInv' /\ (answer' # NoAnswer => result[m_initCompletionCb] = "none")
<1> DEFINE h == Handler("resolve", c, ec)
<1>1. /\ h \in ready /\ h.op = "resolve" /\ h.ec = ec /\ h.call = c
      /\ UNCHANGED <<m_initCompletionCb, calls, struck>>
  BY HandlerFields DEF OnResolve
<1>2. CASE /\ ready' = ready \ {h} /\ Answer(m_initCompletionCb, ec)
           /\ UNCHANGED <<m_socket, pending>>
  <2>1. PICK stale \in SUBSET Handlers : stale = {}
    OBVIOUS
  <2> HIDE DEF h
  <2>2. pending' = {}
    BY <1>1, <1>2, OnlyTimerWaits
  <2>3. m_socket # "connected"
    BY <1>1 DEF IInv, SocketState
  <2>4. ready' = (ready \ {h}) \cup stale /\ Answer(m_initCompletionCb, h.ec)
    BY <1>1, <1>2, <2>1
  <2> QED BY <1>1, <1>2, <2>1, <2>2, <2>3, <2>4, AnsweringStep
<1>3. CASE /\ ready' = (ready \ {h}) \cup Aborted(TimerWaits)
           /\ pending' = (pending \ TimerWaits) \cup Armed(c) \cup {Wait("connect", c)}
           /\ m_socket' = "open" /\ NoAnswerGiven
  <2> HIDE DEF h
  <2>1. /\ pending = {} /\ TimerWaits = {} /\ Aborted(TimerWaits) = {}
        /\ pending' = {Wait("timer", c), Wait("connect", c)}
    BY <1>1, <1>3, OnlyTimerWaits DEF TimerWaits, Aborted, Armed
  <2>2. ready' = ready \ {h} /\ result' = result /\ answer' = NoAnswer
    BY <1>3, <2>1 DEF NoAnswerGiven
  <2>3. \A g \in ready' : g \in ready /\ g.op = "timer"
    BY <1>1, <2>2 DEF IInv, OneStep
  <2>4. c = calls /\ result[c] = "none" /\ m_initCompletionCb = c
    BY <1>1 DEF IInv, InProgress
  <2>5. /\ Wait("timer", c) \in Waits /\ Wait("connect", c) \in Waits
        /\ Wait("timer", c).op = "timer" /\ Wait("connect", c).op = "connect"
        /\ Wait("timer", c).call = c /\ Wait("connect", c).call = c
    BY HandlerFields DEF Waits, Wait
  <2>6. TypeOK'
    BY <1>1, <1>3, <2>1, <2>2, <2>5 DEF IInv, TypeOK
  <2>7. Results' /\ FailureIsNotConnected'
    BY <1>1, <2>2 DEF IInv, Results, FailureIsNotConnected, NoAnswer, ErrorCodes
  <2>8. InProgress' /\ OneStep'
    BY <1>1, <2>1, <2>2, <2>3, <2>4, <2>5 DEF InProgress, OneStep
  <2>9. TimerForConnect' /\ SocketState'
    BY <1>3, <2>1, <2>3, <2>5 DEF TimerForConnect, SocketState
  <2>10. WatchedConnect'
    <3>1. ASSUME NEW k \in Calls, Wait("connect", k) \in pending' PROVE k = c
      BY <2>1, <3>1, <2>5, HandlerFields
    <3> QED BY <2>1, <3>1 DEF WatchedConnect
  <2> QED BY <2>2, <2>6, <2>7, <2>8, <2>9, <2>10 DEF IInv
<1> QED BY <1>2, <1>3 DEF OnResolve

LEMMA RunHandlerStep == ASSUME IInv, RunHandler PROVE IInv'
<1>1. PICK c \in Calls : \/ OnDispatch(c)
                         \/ \E ec \in ErrorCodes : \/ OnResolve(c, ec)
                                                   \/ OnConnect(c, ec)
                                                   \/ OnTimer(c, ec)
  BY DEF RunHandler
<1> QED BY <1>1, OnDispatchStep, OnResolveStep, OnConnectStep, OnTimerStep

LEMMA NextIInv == ASSUME IInv, [Next]_vars PROVE IInv'
<1>1. CASE Application
  BY <1>1, AsyncInitStep, SyncInitStep, CloseStep DEF Application
<1>2. CASE UNCHANGED vars
  BY <1>2 DEF vars, IInv, TypeOK, Results, InProgress, OneStep, TimerForConnect,
     SocketState, WatchedConnect, FailureIsNotConnected
<1> QED BY <1>1, <1>2, CompletionsStep, RunHandlerStep DEF Next

-----------------------------------------------------------------------------
(* The theorems. *)

\* The invariant the others follow from.
THEOREM Invariance == Spec => []IInv
BY InitIInv, NextIInv, PTL DEF Spec

(***************************************************************************)
(* Every state is well typed; in particular the callback that is executed  *)
(* is never the empty one (std::bad_function_call).                        *)
(***************************************************************************)
THEOREM TypeCorrect == Spec => []TypeOK
BY Invariance, PTL DEF IInv

(***************************************************************************)
(* While a connect is in progress its timer runs, or has expired and is    *)
(* about to close the socket: no attempt waits for ever for the remote     *)
(* host.                                                                   *)
(***************************************************************************)
THEOREM ConnectIsWatched == Spec => []WatchedConnect
BY Invariance, PTL DEF IInv

(***************************************************************************)
(* Nothing of an answered initialization keeps waiting, neither the timer  *)
(* nor a connect.                                                          *)
(***************************************************************************)
THEOREM AnsweredLeavesNothing == Spec => []NothingLeftPending
<1>1. IInv => NothingLeftPending
  BY DEF IInv, InProgress, NothingLeftPending
<1> QED BY <1>1, Invariance, PTL

(***************************************************************************)
(* Failure is told only of a stream that is not connected.                 *)
(***************************************************************************)
THEOREM FailureIsTrue == Spec => []FailureIsNotConnected
BY Invariance, PTL DEF IInv

(***************************************************************************)
(* No initialization is answered twice, whatever the order in which the    *)
(* handlers of the connect, the timer and the resolver run.                *)
(***************************************************************************)
THEOREM AnswerIsFinal == Spec => AnsweredOnce
<1> DEFINE Once == \A c \in Calls : answer'.call = c => result[c] = "none"
<1>1. ASSUME IInv, Next PROVE Once
  <2>1. CASE answer' = NoAnswer
    BY <2>1 DEF NoAnswer, Calls
  <2>2. CASE AsyncInit \/ SyncInit
    <3>1. answer' = NoAnswer \/ answer'.call = calls + 1
      BY <2>2 DEF AsyncInit, SyncInit, Answer, NoAnswerGiven, StoredCb
    <3>2. calls + 1 > calls
      BY <1>1 DEF IInv, TypeOK
    <3> QED BY <1>1, <2>1, <3>1, <3>2 DEF IInv, Results
  <2>3. CASE Close \/ Completions
    <3>1. answer' = NoAnswer
      BY <2>3 DEF Close, Completions, Resolved, Connected, Refused, TimerExpires,
         Complete, NoAnswerGiven
    <3> QED BY <2>1, <3>1
  <2>4. ASSUME NEW c \in Calls, NEW ec \in ErrorCodes,
               OnDispatch(c) \/ OnResolve(c, ec) \/ OnConnect(c, ec) \/ OnTimer(c, ec)
        PROVE  Once
    <3>1. answer' = NoAnswer \/ answer'.call = m_initCompletionCb
      BY <2>4 DEF OnDispatch, OnResolve, OnConnect, OnTimer, Answer, NoAnswerGiven
    <3>2. answer' = NoAnswer \/ result[m_initCompletionCb] = "none"
      <4>1. CASE OnTimer(c, ec)
        BY <4>1 DEF OnTimer, NoAnswerGiven
      <4> QED BY <1>1, <2>4, <4>1, OnDispatchStep, OnResolveStep, OnConnectStep
    <3> QED BY <2>1, <3>1, <3>2
  <2> QED BY <1>1, <2>2, <2>3, <2>4 DEF Next, Application, RunHandler, ErrorCodes
<1>2. ASSUME IInv, [Next]_vars PROVE [Once]_vars
  BY <1>1, <1>2
<1> QED BY <1>2, Invariance, PTL DEF Spec, AnsweredOnce

-----------------------------------------------------------------------------
(* TcpClientStream implements Initialization. *)

LEMMA InitRefines == Init => Promise!Init
BY DEF Init, Promise!Init, Calls, Promise!Calls, NoAnswer, Promise!NoAnswer

LEMMA CallRefines == ASSUME IInv, AsyncInit \/ SyncInit PROVE Promise!Call
<1>1. /\ calls < MaxCalls /\ calls' = calls + 1
      /\ \/ \E ec \in ErrorCodes : Answer(calls + 1, ec)
         \/ NoAnswerGiven
  BY DEF AsyncInit, SyncInit, MayInit, StoredCb, ErrorCodes
<1>2. result[calls + 1] = "none"
  <2>1. calls + 1 \in Calls /\ calls + 1 > calls
    BY <1>1, MaxCallsAssumption DEF IInv, TypeOK, Calls
  <2> QED BY <2>1 DEF IInv, Results
<1> QED BY <1>1, <1>2 DEF Promise!Call, Promise!Tell, Promise!TellNobody, Answer,
                          NoAnswerGiven, NoAnswer, Promise!NoAnswer

\* A handler that answers executes the callback of the call it was made for.
LEMMA AnswerRefines ==
    ASSUME IInv, NEW h \in ready, h.op # "timer", NEW ec \in ErrorCodes,
           Answer(m_initCompletionCb, ec), UNCHANGED calls
    PROVE  \E c \in Promise!Calls : Promise!CallBack(c)
<1>1. /\ m_initCompletionCb \in Calls /\ m_initCompletionCb <= calls
      /\ result[m_initCompletionCb] = "none"
  BY DEF IInv, TypeOK, InProgress, Handlers
<1> QED BY <1>1 DEF Promise!CallBack, Promise!Tell, Answer, Calls, Promise!Calls

LEMMA StepRefines ==
    ASSUME IInv, [Next]_vars PROVE [Promise!Next]_Promise!vars
<1>1. CASE AsyncInit \/ SyncInit
  BY <1>1, CallRefines DEF Promise!Next
<1>2. CASE Close \/ Completions
  <2>1. Promise!GoOn
    BY <1>2 DEF Close, Completions, Resolved, Connected, Refused, TimerExpires, Complete,
       NoAnswerGiven, NoAnswer, Promise!NoAnswer, Promise!GoOn, Promise!TellNobody
  <2> QED BY <2>1 DEF Promise!Next
<1>3. ASSUME NEW c \in Calls, OnDispatch(c) PROVE Promise!Next
  <2>1. /\ Handler("dispatch", c, "ok") \in ready
        /\ Handler("dispatch", c, "ok").op # "timer"
        /\ Answer(m_initCompletionCb, "ok") /\ UNCHANGED calls /\ "ok" \in ErrorCodes
    BY <1>3, HandlerFields DEF OnDispatch, ErrorCodes
  <2> QED BY <2>1, AnswerRefines DEF Promise!Next
<1>4. ASSUME NEW c \in Calls, NEW ec \in ErrorCodes, OnResolve(c, ec) PROVE Promise!Next
  <2>1. CASE Answer(m_initCompletionCb, ec)
    <3>1. /\ Handler("resolve", c, ec) \in ready
          /\ Handler("resolve", c, ec).op # "timer" /\ UNCHANGED calls
      BY <1>4, HandlerFields DEF OnResolve
    <3> QED BY <2>1, <3>1, AnswerRefines DEF Promise!Next
  <2>2. CASE NoAnswerGiven
    <3>1. Promise!GoOn
      BY <1>4, <2>2 DEF OnResolve, NoAnswerGiven, NoAnswer, Promise!NoAnswer,
         Promise!GoOn, Promise!TellNobody
    <3> QED BY <3>1 DEF Promise!Next
  <2> QED BY <1>4, <2>1, <2>2 DEF OnResolve
<1>5. ASSUME NEW c \in Calls, NEW ec \in ErrorCodes, OnConnect(c, ec) PROVE Promise!Next
  <2>1. /\ Handler("connect", c, ec) \in ready
        /\ Handler("connect", c, ec).op # "timer"
        /\ Answer(m_initCompletionCb, ec) /\ UNCHANGED calls
    BY <1>5, HandlerFields DEF OnConnect
  <2> QED BY <2>1, AnswerRefines DEF Promise!Next
<1>6. ASSUME NEW c \in Calls, NEW ec \in ErrorCodes, OnTimer(c, ec) PROVE Promise!Next
  <2>1. Promise!GoOn
    BY <1>6 DEF OnTimer, NoAnswerGiven, NoAnswer, Promise!NoAnswer, Promise!GoOn,
       Promise!TellNobody
  <2> QED BY <2>1 DEF Promise!Next
<1>7. CASE UNCHANGED vars
  BY <1>7 DEF vars, Promise!vars
<1> QED BY <1>1, <1>2, <1>3, <1>4, <1>5, <1>6, <1>7 DEF Next, Application, RunHandler

(***************************************************************************)
(* asyncInit and init do what Initialization says, but for its fairness:   *)
(* a callback is executed only for a call that was made, and never tells   *)
(* that call a second result.                                              *)
(***************************************************************************)
THEOREM Refinement == Spec => Promise!Spec
<1> QED BY InitRefines, StepRefines, Invariance, PTL DEF Spec, Promise!Spec
=============================================================================
