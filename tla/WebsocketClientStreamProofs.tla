--------------------- MODULE WebsocketClientStreamProofs ---------------------
(***************************************************************************)
(* Proofs about WebsocketClientStream, for every number of initializations.*)
(***************************************************************************)
EXTENDS WebsocketClientStream, TLAPS

\* Only the latest call can be unanswered.
Results == \A c \in Calls : /\ c > calls => result[c] = "none"
                            /\ c < calls => result[c] # "none"

\* Everything in progress is done for it; only timer handlers may be stale.
InProgress ==
    /\ \A w \in pending : /\ w.call = calls
                          /\ result[w.call] = "none" /\ m_initCompletionCb = w.call
    /\ \A h \in ready : h.op \notin Timers =>
          /\ h.call = calls
          /\ result[h.call] = "none" /\ m_initCompletionCb = h.call

\* One operation besides the timer, waiting or with its handler queued.
OneStep ==
    /\ \A v, w \in pending : v.op \in Timers \/ w.op \in Timers \/ v = w
    /\ \A g, h \in ready : g.op \in Timers \/ h.op \in Timers \/ g = h
    /\ \A w \in pending, h \in ready : w.op \in Timers \/ h.op \in Timers

\* The timer runs only against a connect or an upgrade.
Watchable == {"connect", "upgrade"}
TimerHasReason ==
    \A w \in pending : w.op \in Timers => \/ \E v \in pending : v.op \in Watchable
                                          \/ \E h \in ready : h.op \in Watchable

IInv == /\ TypeOK
        /\ Results
        /\ InProgress
        /\ OneStep
        /\ TimerHasReason
        /\ WatchedOperation

-----------------------------------------------------------------------------
(* What the record constructors make, and what a cancel adds to ready. *)

LEMMA HandlerFields ==
    ASSUME NEW op, NEW c, NEW ec
    PROVE  /\ Handler(op, c, ec).op = op
           /\ Handler(op, c, ec).call = c
           /\ Handler(op, c, ec).ec = ec
           /\ Wait(op, c).op = op /\ Wait(op, c).call = c
BY DEF Handler, Wait

LEMMA AbortedHandlers ==
    ASSUME TypeOK, NEW waits \in SUBSET pending
    PROVE  /\ Aborted(waits) \subseteq Handlers
           /\ \A h \in Aborted(waits) :
                 /\ h.ec = "aborted"
                 /\ \E w \in waits : h.op = w.op /\ h.call = w.call
<1>1. ASSUME NEW w \in waits
      PROVE  /\ Handler(w.op, w.call, "aborted") \in Handlers
             /\ Handler(w.op, w.call, "aborted").ec = "aborted"
             /\ Handler(w.op, w.call, "aborted").op = w.op
             /\ Handler(w.op, w.call, "aborted").call = w.call
  BY <1>1 DEF TypeOK, Waits, Handlers, Handler, ErrorCodes
<1> QED BY <1>1 DEF Aborted

LEMMA InitIInv == Init => IInv
BY MaxCallsAssumption DEF Init, IInv, TypeOK, Results, InProgress, OneStep,
   TimerHasReason, WatchedOperation, Watched, NoAnswer, ErrorCodes, Calls

\* When everything is answered, nothing but timer handlers is left.
LEMMA Idle ==
    ASSUME IInv, MayInit
    PROVE  pending = {} /\ \A h \in ready : h.op \in Timers
<1>1. ASSUME NEW c \in Calls, c = calls PROVE result[c] # "none"
  BY <1>1, MaxCallsAssumption DEF MayInit, Calls, IInv, TypeOK
<1>2. \A w \in pending : w.call \in Calls
  BY DEF IInv, TypeOK, Waits
<1>3. \A h \in ready : h.call \in Calls
  BY DEF IInv, TypeOK, Handlers
<1> QED BY <1>1, <1>2, <1>3 DEF IInv, InProgress

LEMMA AsyncInitStep == ASSUME IInv, AsyncInit PROVE IInv'
<1> DEFINE c == calls + 1
<1>1. pending = {} /\ \A h \in ready : h.op \in Timers
  BY Idle DEF AsyncInit
<1>2. /\ c \in Calls /\ calls' = c /\ calls' \in 0..MaxCalls
      /\ \A k \in Calls : k <= calls => result[k] # "none"
      /\ m_initCompletionCb' = c /\ c \in 1..c /\ calls \in Nat
      /\ result \in [Calls -> ErrorCodes \cup {"none"}]
      /\ result[c] = "none" /\ UNCHANGED <<m_stream, socket>>
  BY MaxCallsAssumption DEF AsyncInit, MayInit, IInv, TypeOK, Calls, StoredCb, Results
<1>3. CASE Answer(c, "ok") /\ UNCHANGED <<pending, ready>>
  <2>1. result' = [result EXCEPT ![c] = "ok"] /\ answer' = [call |-> c, ec |-> "ok"]
    BY <1>3 DEF Answer
  <2>2. TypeOK'
    BY <1>2, <1>3, <2>1 DEF IInv, TypeOK, ErrorCodes
  <2>3. Results'
    BY <1>2, <2>1, MaxCallsAssumption DEF IInv, Results, Calls
  <2>4. InProgress' /\ OneStep' /\ TimerHasReason' /\ WatchedOperation'
    BY <1>1, <1>2, <1>3 DEF InProgress, OneStep, TimerHasReason, WatchedOperation, Watched
  <2> QED BY <2>2, <2>3, <2>4 DEF IInv
<1>4. CASE /\ ready' = ready \cup {Handler("dispatch", c, "ok")}
           /\ UNCHANGED pending /\ NoAnswerGiven
  <2>1. result' = result /\ answer' = NoAnswer
    BY <1>4 DEF NoAnswerGiven
  <2>2. TypeOK'
    BY <1>2, <1>4, <2>1 DEF IInv, TypeOK, ErrorCodes, Handlers, Handler
  <2>3. Results'
    BY <1>2, <2>1, MaxCallsAssumption DEF IInv, Results, Calls
  <2>4. InProgress' /\ OneStep'
    BY <1>1, <1>2, <1>4, <2>1, HandlerFields DEF InProgress, OneStep
  <2>5. TimerHasReason' /\ WatchedOperation'
    BY <1>1, <1>4 DEF TimerHasReason, WatchedOperation, Watched
  <2> QED BY <2>2, <2>3, <2>4, <2>5 DEF IInv
<1>5. CASE pending' = pending \cup {Wait("resolve", c)} /\ UNCHANGED ready /\ NoAnswerGiven
  <2>1. result' = result /\ answer' = NoAnswer
    BY <1>5 DEF NoAnswerGiven
  <2>2. TypeOK'
    BY <1>2, <1>5, <2>1 DEF IInv, TypeOK, ErrorCodes, Waits, Wait, Operations
  <2>3. Results'
    BY <1>2, <2>1, MaxCallsAssumption DEF IInv, Results, Calls
  <2>4. InProgress' /\ OneStep'
    BY <1>1, <1>2, <1>5, <2>1, HandlerFields DEF InProgress, OneStep
  <2>5. TimerHasReason' /\ WatchedOperation'
    BY <1>1, <1>5, HandlerFields DEF TimerHasReason, Timers, WatchedOperation, Watched
  <2> QED BY <2>2, <2>3, <2>4, <2>5 DEF IInv
<1> QED BY <1>2, <1>3, <1>4, <1>5 DEF AsyncInit

LEMMA SyncInitStep == ASSUME IInv, SyncInit PROVE IInv'
<1> DEFINE c == calls + 1
<1>1. pending = {} /\ \A h \in ready : h.op \in Timers
  BY Idle DEF SyncInit
<1>2. /\ c \in Calls /\ calls' = c /\ calls' \in 0..MaxCalls
      /\ \A k \in Calls : k <= calls => result[k] # "none"
      /\ c \in 1..c /\ calls \in Nat
      /\ result \in [Calls -> ErrorCodes \cup {"none"}]
      /\ UNCHANGED <<m_initCompletionCb, pending, ready>>
  BY MaxCallsAssumption DEF SyncInit, MayInit, IInv, TypeOK, Calls
<1>3. PICK ec \in ErrorCodes : /\ Answer(c, ec)
                               /\ socket' \in {"closed", "open", "connected"}
                               /\ m_stream' \in {"closed", "open"}
  BY DEF SyncInit, ErrorCodes, IInv, TypeOK
<1>4. result' = [result EXCEPT ![c] = ec] /\ answer' = [call |-> c, ec |-> ec]
  BY <1>3 DEF Answer
<1>5. TypeOK'
  BY <1>2, <1>3, <1>4 DEF IInv, TypeOK
<1>6. Results'
  BY <1>2, <1>4, MaxCallsAssumption DEF IInv, Results, Calls, ErrorCodes
<1>7. InProgress' /\ OneStep' /\ TimerHasReason' /\ WatchedOperation'
  BY <1>1, <1>2 DEF InProgress, OneStep, TimerHasReason, WatchedOperation, Watched
<1> QED BY <1>5, <1>6, <1>7 DEF IInv

LEMMA CloseStep == ASSUME IInv, Close PROVE IInv'
<1>1. /\ m_stream' = "closed" /\ socket' = "closed"
      /\ result' = result /\ answer' = NoAnswer
      /\ UNCHANGED <<m_initCompletionCb, pending, ready, calls>>
  BY DEF Close, NoAnswerGiven
<1>2. TypeOK'
  BY <1>1 DEF IInv, TypeOK
<1> QED BY <1>1, <1>2 DEF IInv, Results, InProgress, OneStep, TimerHasReason,
        WatchedOperation, Watched

-----------------------------------------------------------------------------
(* Completions. *)

LEMMA CompleteStep ==
    ASSUME IInv, NEW w \in pending, NEW ec \in {"ok", "failed"}, Complete(w, ec),
           socket' \in {"closed", "open", "connected"}, w.op \in Timers => ec = "ok"
    PROVE  IInv'
<1> DEFINE h == Handler(w.op, w.call, ec)
<1>1. /\ pending' = pending \ {w} /\ ready' = ready \cup {h}
      /\ result' = result /\ answer' = NoAnswer
      /\ calls' = calls /\ m_initCompletionCb' = m_initCompletionCb /\ m_stream' = m_stream
  BY DEF Complete, NoAnswerGiven
<1>2. /\ h \in Handlers /\ h.op = w.op /\ h.call = w.call /\ h.ec = ec
      /\ w \in Waits
  BY DEF IInv, TypeOK, Waits, Handlers, Handler, ErrorCodes
<1>3. w.call = calls /\ result[w.call] = "none" /\ m_initCompletionCb = w.call
  BY DEF IInv, InProgress
<1>4. \A timer \in Timers, c \in Calls : w = Wait(timer, c) => h = Handler(timer, c, "ok")
  BY HandlerFields
<1> HIDE DEF h
<1>5. TypeOK'
  BY <1>1, <1>2 DEF IInv, TypeOK
<1>6. Results'
  BY <1>1 DEF IInv, Results
<1>7. InProgress'
  BY <1>1, <1>2, <1>3 DEF IInv, InProgress
<1>8. OneStep'
  BY <1>1, <1>2 DEF IInv, OneStep
<1>9. TimerHasReason'
  BY <1>1, <1>2 DEF IInv, TimerHasReason
<1>10. WatchedOperation'
  <2>1. \A timer \in Timers, c \in Calls :
           Wait(timer, c) \in pending \/ Handler(timer, c, "ok") \in ready
              => Wait(timer, c) \in pending' \/ Handler(timer, c, "ok") \in ready'
    BY <1>1, <1>4
  <2> QED BY <1>1, <2>1 DEF IInv, WatchedOperation, Watched, Timers
<1> QED BY <1>5, <1>6, <1>7, <1>8, <1>9, <1>10 DEF IInv

LEMMA CompletionsStep == ASSUME IInv, Completions PROVE IInv'
<1>1. PICK c \in Calls : \/ \E ec \in {"ok", "failed"} : Resolved(c, ec) \/ Upgraded(c, ec)
                         \/ Connected(c) \/ Refused(c)
                         \/ \E timer \in Timers : TimerExpires(timer, c)
  BY DEF Completions
<1>2. PICK w \in pending, ec \in {"ok", "failed"} :
          /\ Complete(w, ec) /\ socket' \in {"closed", "open", "connected"}
          /\ w.op \in Timers => ec = "ok"
  <2>1. ASSUME NEW op, NEW ec \in {"ok", "failed"}, Complete(Wait(op, c), ec)
        PROVE  Wait(op, c) \in pending /\ Wait(op, c).op = op
    BY <2>1, HandlerFields DEF Complete
  <2>2. socket' = socket \/ socket' = "connected"
    BY <1>1 DEF Resolved, Upgraded, Connected, Refused, TimerExpires
  <2>3. socket' \in {"closed", "open", "connected"}
    BY <2>2 DEF IInv, TypeOK
  <2> QED BY <1>1, <2>1, <2>3 DEF Resolved, Upgraded, Connected, Refused, TimerExpires, Timers
<1> QED BY <1>2, CompleteStep

-----------------------------------------------------------------------------
(* The handlers. *)

\* At most the one operation in progress is aborted.
LEMMA AbortedOperation ==
    ASSUME IInv
    PROVE  \/ SocketWaits = {} /\ Aborted(SocketWaits) = {}
           \/ \E w \in pending : /\ w.op \in Watchable
                                 /\ SocketWaits = {w}
                                 /\ Aborted(SocketWaits)
                                        = {Handler(w.op, w.call, "aborted")}
<1>1. CASE SocketWaits = {}
  BY <1>1 DEF Aborted
<1>2. ASSUME NEW w \in pending, w.op \in Watchable PROVE SocketWaits = {w}
  BY <1>2 DEF IInv, OneStep, SocketWaits, Watchable, Timers
<1>3. ASSUME NEW w \in pending, w.op \in Watchable, SocketWaits = {w}
      PROVE  Aborted(SocketWaits) = {Handler(w.op, w.call, "aborted")}
  BY <1>3 DEF Aborted
<1> QED BY <1>1, <1>2, <1>3 DEF SocketWaits, Watchable

\* asyncTimeoutCb; a cancelled one only disappears.
LEMMA OnTimerStep ==
    ASSUME IInv, NEW timer \in Timers, NEW c \in Calls, NEW ec \in ErrorCodes,
           OnTimer(timer, c, ec)
    PROVE  IInv'
<1> DEFINE handled == Handler(timer, c, ec)
<1>1. /\ handled \in ready /\ handled.op \in Timers /\ handled.ec = ec
      /\ result' = result /\ answer' = NoAnswer
      /\ UNCHANGED <<m_stream, m_initCompletionCb, calls>>
  BY HandlerFields DEF OnTimer, NoAnswerGiven
<1>2. Results'
  BY <1>1 DEF IInv, Results
<1>3. CASE /\ ec = "aborted" /\ ready' = ready \ {handled} /\ UNCHANGED <<socket, pending>>
  <2>1. \A t \in Timers, k \in Calls : handled # Handler(t, k, "ok")
    BY <1>1, <1>3, HandlerFields
  <2> HIDE DEF handled
  <2>2. TypeOK' /\ InProgress' /\ OneStep' /\ TimerHasReason'
    BY <1>1, <1>3 DEF IInv, TypeOK, InProgress, OneStep, TimerHasReason, Watchable, Timers
  <2>3. WatchedOperation'
    BY <1>3, <2>1 DEF IInv, WatchedOperation, Watched, Timers
  <2> QED BY <1>2, <2>2, <2>3 DEF IInv
<1>4. CASE /\ socket' = "closed" /\ pending' = pending \ SocketWaits
           /\ ready' = (ready \ {handled}) \cup Aborted(SocketWaits)
  <2>1. WatchedOperation'
    BY <1>4, HandlerFields DEF WatchedOperation, Watched, SocketWaits
  <2> HIDE DEF handled
  <2>2. CASE SocketWaits = {} /\ Aborted(SocketWaits) = {}
    <3>1. TypeOK' /\ InProgress' /\ OneStep' /\ TimerHasReason'
      BY <1>1, <1>4, <2>2 DEF IInv, TypeOK, InProgress, OneStep, TimerHasReason,
         Watchable, Timers
    <3> QED BY <1>2, <2>1, <3>1 DEF IInv
  <2>3. ASSUME NEW w \in pending, w.op \in Watchable, SocketWaits = {w},
               Aborted(SocketWaits) = {Handler(w.op, w.call, "aborted")}
        PROVE  IInv'
    <3> DEFINE g == Handler(w.op, w.call, "aborted")
    <3>1. g \in Handlers /\ g.op = w.op /\ g.call = w.call
      BY DEF IInv, TypeOK, Waits, Handlers, Handler, ErrorCodes
    <3>2. ready' = (ready \ {handled}) \cup {g} /\ pending' = pending \ {w}
      BY <1>4, <2>3
    <3> HIDE DEF g
    <3>3. TypeOK'
      BY <1>1, <1>4, <3>1, <3>2 DEF IInv, TypeOK
    <3>4. InProgress' /\ OneStep' /\ TimerHasReason'
      BY <1>1, <2>3, <3>1, <3>2 DEF IInv, InProgress, OneStep, TimerHasReason
    <3> QED BY <1>2, <2>1, <3>3, <3>4 DEF IInv
  <2> QED BY <2>2, <2>3, AbortedOperation
<1> QED BY <1>3, <1>4 DEF OnTimer

\* While the handler of another operation is queued only the timer may wait, and
\* only if that operation was a connect or an upgrade.
LEMMA OnlyTimersWait ==
    ASSUME IInv, NEW h \in ready, h.op \notin Timers
    PROVE  /\ pending = TimerWaits
           /\ h.op \notin Watchable => pending = {}
<1>1. \A w \in pending : w.op \in Timers
  BY DEF IInv, OneStep
<1>2. ASSUME NEW w \in pending PROVE h.op \in Watchable
  <2>1. PICK g \in ready : g.op \in Watchable
    BY <1>1, <1>2 DEF IInv, TimerHasReason, Watchable, Timers
  <2> QED BY <2>1 DEF IInv, OneStep, Watchable, Timers
<1> QED BY <1>1, <1>2 DEF TimerWaits

\* A handler that answers and leaves nothing pending.
LEMMA AnsweringStep ==
    ASSUME IInv, NEW h \in ready, h.op \notin Timers,
           NEW stale \in SUBSET Handlers, \A g \in stale : g.op \in Timers,
           ready' = (ready \ {h}) \cup stale,
           pending' = {},
           Answer(m_initCompletionCb, h.ec),
           m_stream' \in {"closed", "open"},
           UNCHANGED <<socket, m_initCompletionCb, calls>>
    PROVE  IInv' /\ result[m_initCompletionCb] = "none"
<1>1. /\ h.call = calls /\ m_initCompletionCb = calls /\ result[calls] = "none"
      /\ h \in Handlers /\ calls \in Calls
  BY DEF IInv, InProgress, TypeOK, Handlers
<1>2. /\ result' = [result EXCEPT ![calls] = h.ec]
      /\ answer' = [call |-> calls, ec |-> h.ec]
  BY <1>1 DEF Answer
<1>3. h.ec \in ErrorCodes /\ "none" \notin ErrorCodes
  BY <1>1 DEF Handlers, ErrorCodes
<1>4. TypeOK'
  BY <1>1, <1>2, <1>3, MaxCallsAssumption DEF IInv, TypeOK, Calls
<1>5. Results'
  BY <1>1, <1>2, <1>3, MaxCallsAssumption DEF IInv, TypeOK, Results, Calls
<1>6. \A g \in ready' : g.op \in Timers
  BY DEF IInv, OneStep
<1>7. InProgress' /\ OneStep' /\ TimerHasReason' /\ WatchedOperation'
  BY <1>6 DEF InProgress, OneStep, TimerHasReason, WatchedOperation, Watched
<1> QED BY <1>1, <1>4, <1>5, <1>7 DEF IInv

LEMMA OnDispatchStep ==
    ASSUME IInv, NEW c \in Calls, OnDispatch(c)
    PROVE  IInv' /\ result[m_initCompletionCb] = "none"
<1> DEFINE h == Handler("dispatch", c, "ok")
<1>1. h \in ready /\ h.op = "dispatch" /\ h.ec = "ok" /\ h.op \notin Timers \cup Watchable
  BY HandlerFields DEF OnDispatch, Timers, Watchable
<1>2. PICK stale \in SUBSET Handlers : stale = {}
  OBVIOUS
<1>3. /\ ready' = (ready \ {h}) \cup stale /\ Answer(m_initCompletionCb, h.ec)
      /\ UNCHANGED <<m_stream, socket, m_initCompletionCb, pending, calls>>
      /\ m_stream' \in {"closed", "open"}
  BY <1>1, <1>2 DEF OnDispatch, IInv, TypeOK
<1> HIDE DEF h
<1>4. pending' = {}
  BY <1>1, <1>3, OnlyTimersWait
<1> QED BY <1>1, <1>2, <1>3, <1>4, AnsweringStep

\* The next operation and its timer, after the handler of the last.
LEMMA NextOperation ==
    ASSUME IInv, NEW h \in ready, h.op \notin Timers,
           NEW stale \in SUBSET Handlers, \A g \in stale : g.op \in Timers,
           NEW op \in Watchable, NEW timer \in Timers,
           op = "connect" <=> timer = "connectTimer",
           ready' = (ready \ {h}) \cup stale,
           pending' = {Wait(timer, h.call), Wait(op, h.call)},
           socket' \in {"closed", "open", "connected"}, NoAnswerGiven,
           UNCHANGED <<m_stream, m_initCompletionCb, calls>>
    PROVE  IInv'
<1>1. result' = result /\ answer' = NoAnswer
  BY DEF NoAnswerGiven
<1>2. /\ h.call = calls /\ result[h.call] = "none" /\ m_initCompletionCb = h.call
      /\ h.call \in Calls
  BY DEF IInv, InProgress, TypeOK, Handlers
<1>3. /\ Wait(timer, h.call) \in Waits /\ Wait(op, h.call) \in Waits
      /\ Wait(timer, h.call).op = timer /\ Wait(op, h.call).op = op
      /\ Wait(timer, h.call).call = h.call /\ Wait(op, h.call).call = h.call
  BY <1>2, HandlerFields DEF Waits, Wait, Operations, Watchable, Timers
<1>4. \A g \in ready' : g.op \in Timers
  BY DEF IInv, OneStep
<1>5. TypeOK'
  BY <1>1, <1>3 DEF IInv, TypeOK
<1>6. Results'
  BY <1>1 DEF IInv, Results
<1>7. InProgress' /\ OneStep' /\ TimerHasReason'
  BY <1>1, <1>2, <1>3, <1>4 DEF InProgress, OneStep, TimerHasReason
<1>8. WatchedOperation'
  <2>1. ASSUME NEW o \in Watchable, NEW k \in Calls, Wait(o, k) \in pending'
        PROVE  o = op /\ k = h.call
    BY <1>3, <2>1, HandlerFields DEF Watchable, Timers
  <2>2. Wait(timer, h.call) \in pending'
    OBVIOUS
  <2> QED BY <2>1, <2>2 DEF WatchedOperation, Watched, Watchable, Timers
<1> QED BY <1>5, <1>6, <1>7, <1>8 DEF IInv

\* onResolve: answers the failure, or sets the timer and starts to connect.
LEMMA OnResolveStep ==
    ASSUME IInv, NEW c \in Calls, NEW ec \in ErrorCodes, OnResolve(c, ec)
    PROVE  IInv' /\ (answer' # NoAnswer => result[m_initCompletionCb] = "none")
<1> DEFINE h == Handler("resolve", c, ec)
<1>1. /\ h \in ready /\ h.op = "resolve" /\ h.ec = ec /\ h.call = c
      /\ h.op \notin Timers /\ h.op \notin Watchable
      /\ UNCHANGED <<m_stream, m_initCompletionCb, calls>>
      /\ m_stream' \in {"closed", "open"}
  BY HandlerFields DEF OnResolve, Timers, Watchable, IInv, TypeOK
<1>2. PICK stale \in SUBSET Handlers : stale = {}
  OBVIOUS
<1>3. pending = {} /\ TimerWaits = {} /\ Aborted(TimerWaits) = {}
  <2> HIDE DEF h
  <2>1. pending = {}
    BY <1>1, OnlyTimersWait
  <2> QED BY <2>1 DEF TimerWaits, Aborted
<1>4. CASE /\ ready' = ready \ {h} /\ Answer(m_initCompletionCb, ec)
           /\ UNCHANGED <<socket, pending>>
  <2> HIDE DEF h
  <2>1. ready' = (ready \ {h}) \cup stale /\ Answer(m_initCompletionCb, h.ec) /\ pending' = {}
    BY <1>1, <1>2, <1>3, <1>4
  <2> QED BY <1>1, <1>2, <1>4, <2>1, AnsweringStep
<1>5. CASE /\ ready' = (ready \ {h}) \cup Aborted(TimerWaits)
           /\ pending' = (pending \ TimerWaits)
                            \cup {Wait("connectTimer", c), Wait("connect", c)}
           /\ socket' = "open" /\ NoAnswerGiven
  <2> HIDE DEF h
  <2>1. /\ ready' = (ready \ {h}) \cup stale
        /\ pending' = {Wait("connectTimer", h.call), Wait("connect", h.call)}
    BY <1>1, <1>2, <1>3, <1>5
  <2>2. "connect" \in Watchable /\ "connectTimer" \in Timers
    BY DEF Watchable, Timers
  <2>3. IInv'
    BY <1>1, <1>2, <1>5, <2>1, <2>2, NextOperation
  <2> QED BY <1>5, <2>3 DEF NoAnswerGiven
<1> QED BY <1>4, <1>5 DEF OnResolve

\* The handlers of the cancelled timer.
LEMMA CancelledTimers ==
    ASSUME IInv
    PROVE  /\ Aborted(TimerWaits) \in SUBSET Handlers
           /\ \A g \in Aborted(TimerWaits) : g.op \in Timers
BY AbortedHandlers DEF IInv, TimerWaits

\* onConnect: answers the failure, or sets the timer again and starts the upgrade.
LEMMA OnConnectStep ==
    ASSUME IInv, NEW c \in Calls, NEW ec \in ErrorCodes, OnConnect(c, ec)
    PROVE  IInv' /\ (answer' # NoAnswer => result[m_initCompletionCb] = "none")
<1> DEFINE h == Handler("connect", c, ec)
           stale == Aborted(TimerWaits)
<1>1. /\ h \in ready /\ h.op = "connect" /\ h.ec = ec /\ h.call = c
      /\ h.op \notin Timers
      /\ UNCHANGED <<m_stream, socket, m_initCompletionCb, calls>>
      /\ m_stream' \in {"closed", "open"}
      /\ socket' \in {"closed", "open", "connected"}
  BY HandlerFields DEF OnConnect, Timers, IInv, TypeOK
<1>2. stale \in SUBSET Handlers /\ \A g \in stale : g.op \in Timers
  BY CancelledTimers
<1>3. pending \ TimerWaits = {}
  <2> HIDE DEF h
  <2> QED BY <1>1, OnlyTimersWait
<1>4. "upgrade" \in Watchable /\ "upgradeTimer" \in Timers
  BY DEF Watchable, Timers
<1>5. CASE /\ pending' = pending \ TimerWaits /\ ready' = (ready \ {h}) \cup stale
           /\ Answer(m_initCompletionCb, ec)
  <2> HIDE DEF h, stale
  <2> QED BY <1>1, <1>2, <1>3, <1>5, AnsweringStep
<1>6. CASE /\ pending' = (pending \ TimerWaits) \cup Armed(c) \cup {Wait("upgrade", c)}
           /\ ready' = (ready \ {h}) \cup stale /\ NoAnswerGiven
  <2>1. pending' = {Wait("upgradeTimer", h.call), Wait("upgrade", h.call)}
    BY <1>1, <1>3, <1>6 DEF Armed
  <2>2. "upgrade" = "connect" <=> "upgradeTimer" = "connectTimer"
    OBVIOUS
  <2> HIDE DEF h, stale
  <2>3. IInv'
    BY <1>1, <1>2, <1>4, <1>6, <2>1, <2>2, NextOperation
  <2> QED BY <1>6, <2>3 DEF NoAnswerGiven
<1>7. CASE /\ pending' = (pending \ TimerWaits) \cup Armed(c)
           /\ ready' = ((ready \ {h}) \cup stale) \cup {Handler("upgrade", c, "failed")}
           /\ NoAnswerGiven
  <2> DEFINE g == Handler("upgrade", c, "failed")
             w == Wait("upgradeTimer", c)
  <2>1. /\ g \in Handlers /\ g.op = "upgrade" /\ g.call = c /\ g.op \notin Timers
        /\ w \in Waits /\ w.op = "upgradeTimer" /\ w.call = c /\ w.op \in Timers
    BY <1>4, HandlerFields DEF Handler, Wait, Handlers, Waits, Operations, ErrorCodes, Timers
  <2>2. pending' = {w} /\ ready' = ((ready \ {h}) \cup stale) \cup {g}
        /\ result' = result /\ answer' = NoAnswer
    BY <1>3, <1>7 DEF Armed, NoAnswerGiven
  <2>3. c = calls /\ result[c] = "none" /\ m_initCompletionCb = c
    <3> HIDE DEF h
    <3> QED BY <1>1 DEF IInv, InProgress
  <2>4. \A k \in Calls : Wait("connect", k) # w /\ Wait("upgrade", k) # w
    BY HandlerFields
  <2> HIDE DEF h, stale, g, w
  <2>5. \A x \in ready' : x = g \/ x.op \in Timers
    BY <1>1, <1>2, <2>2 DEF IInv, OneStep
  <2>6. TypeOK'
    BY <1>1, <1>2, <2>1, <2>2 DEF IInv, TypeOK
  <2>7. Results'
    BY <1>1, <2>2 DEF IInv, Results
  <2>8. InProgress' /\ OneStep'
    BY <1>1, <2>1, <2>2, <2>3, <2>5 DEF InProgress, OneStep
  <2>9. TimerHasReason'
    BY <1>4, <2>1, <2>2 DEF TimerHasReason
  <2>10. WatchedOperation'
    BY <2>2, <2>4 DEF WatchedOperation, Watched
  <2> QED BY <2>2, <2>6, <2>7, <2>8, <2>9, <2>10 DEF IInv
<1> QED BY <1>5, <1>6, <1>7 DEF OnConnect

\* onUpgrade: whatever the result, the timer is cancelled and the call answered.
LEMMA OnUpgradeStep ==
    ASSUME IInv, NEW c \in Calls, NEW ec \in ErrorCodes, OnUpgrade(c, ec)
    PROVE  IInv' /\ result[m_initCompletionCb] = "none"
<1> DEFINE h == Handler("upgrade", c, ec)
           stale == Aborted(TimerWaits)
<1>1. /\ h \in ready /\ h.op = "upgrade" /\ h.ec = ec /\ h.op \notin Timers
      /\ m_stream' \in {"closed", "open"}
      /\ pending' = pending \ TimerWaits /\ ready' = (ready \ {h}) \cup stale
      /\ UNCHANGED <<socket, m_initCompletionCb, calls>>
  BY HandlerFields DEF OnUpgrade, Timers
<1>2. Answer(m_initCompletionCb, h.ec)
  BY <1>1 DEF OnUpgrade
<1>3. stale \in SUBSET Handlers /\ \A g \in stale : g.op \in Timers
  BY CancelledTimers
<1> HIDE DEF h, stale
<1>4. pending' = {}
  BY <1>1, OnlyTimersWait
<1> QED BY <1>1, <1>2, <1>3, <1>4, AnsweringStep

LEMMA RunHandlerStep == ASSUME IInv, RunHandler PROVE IInv'
<1>1. PICK c \in Calls :
          \/ OnDispatch(c)
          \/ \E ec \in ErrorCodes : \/ OnResolve(c, ec)
                                    \/ OnConnect(c, ec)
                                    \/ OnUpgrade(c, ec)
                                    \/ \E timer \in Timers : OnTimer(timer, c, ec)
  BY DEF RunHandler
<1> QED BY <1>1, OnDispatchStep, OnResolveStep, OnConnectStep, OnUpgradeStep, OnTimerStep

LEMMA NextIInv == ASSUME IInv, [Next]_vars PROVE IInv'
<1>1. CASE Application
  BY <1>1, AsyncInitStep, SyncInitStep, CloseStep DEF Application
<1>2. CASE UNCHANGED vars
  BY <1>2 DEF vars, IInv, TypeOK, Results, InProgress, OneStep, TimerHasReason,
     WatchedOperation, Watched
<1> QED BY <1>1, <1>2, CompletionsStep, RunHandlerStep DEF Next

-----------------------------------------------------------------------------
(* The theorems. *)

\* The invariant the others follow from.
THEOREM Invariance == Spec => []IInv
BY InitIInv, NextIInv, PTL DEF Spec

(***************************************************************************)
(* Every state is well typed; in particular the stored callback that is    *)
(* executed is the one of a call that was made.                            *)
(***************************************************************************)
THEOREM TypeCorrect == Spec => []TypeOK
BY Invariance, PTL DEF IInv

(***************************************************************************)
(* A connect and an upgrade are watched without a gap, also between the    *)
(* two, where the one timer is cancelled and set again.                    *)
(***************************************************************************)
THEOREM OperationIsWatched == Spec => []WatchedOperation
BY Invariance, PTL DEF IInv

(***************************************************************************)
(* Nothing of an answered initialization keeps waiting, in whichever phase *)
(* it ended.                                                               *)
(***************************************************************************)
THEOREM AnsweredLeavesNothing == Spec => []NothingLeftPending
<1>1. IInv => NothingLeftPending
  BY DEF IInv, InProgress, NothingLeftPending
<1> QED BY <1>1, Invariance, PTL

(***************************************************************************)
(* No initialization is answered twice, in whatever order the handlers of  *)
(* the resolver, the connect, the upgrade and both waits of the timer run. *)
(***************************************************************************)
THEOREM AnswerIsFinal == Spec => AnsweredOnce
<1> DEFINE Once == \A c \in Calls : answer'.call = c => result[c] = "none"
<1>1. ASSUME IInv, Next PROVE Once
  <2>1. CASE answer' = NoAnswer
    BY <2>1 DEF NoAnswer, Calls
  <2>2. CASE AsyncInit \/ SyncInit
    <3>1. answer' = NoAnswer \/ answer'.call = calls + 1
      BY <2>2 DEF AsyncInit, SyncInit, Answer, NoAnswerGiven, StoredCb
    <3>2. calls + 1 > calls
      BY <1>1 DEF IInv, TypeOK
    <3> QED BY <1>1, <2>1, <3>1, <3>2 DEF IInv, Results
  <2>3. CASE Close \/ Completions
    <3>1. answer' = NoAnswer
      BY <2>3 DEF Close, Completions, Resolved, Connected, Refused, Upgraded,
         TimerExpires, Complete, NoAnswerGiven
    <3> QED BY <2>1, <3>1
  <2>4. ASSUME NEW c \in Calls, NEW ec \in ErrorCodes,
               OnDispatch(c) \/ OnResolve(c, ec) \/ OnConnect(c, ec) \/ OnUpgrade(c, ec)
        PROVE  Once
    <3>1. answer' = NoAnswer \/ answer'.call = m_initCompletionCb
      BY <2>4 DEF OnDispatch, OnResolve, OnConnect, OnUpgrade, Answer, NoAnswerGiven
    <3>2. answer' = NoAnswer \/ result[m_initCompletionCb] = "none"
      BY <1>1, <2>4, OnDispatchStep, OnResolveStep, OnConnectStep, OnUpgradeStep
    <3> QED BY <2>1, <3>1, <3>2
  <2>5. ASSUME NEW timer \in Timers, NEW c \in Calls, NEW ec \in ErrorCodes,
               OnTimer(timer, c, ec)
        PROVE  Once
    BY <2>1, <2>5 DEF OnTimer, NoAnswerGiven
  <2> QED BY <1>1, <2>2, <2>3, <2>4, <2>5 DEF Next, Application, RunHandler, ErrorCodes
<1>2. ASSUME IInv, [Next]_vars PROVE [Once]_vars
  BY <1>1, <1>2
<1> QED BY <1>2, Invariance, PTL DEF Spec, AnsweredOnce

-----------------------------------------------------------------------------
(* WebsocketClientStream implements Initialization. *)

LEMMA InitRefines == Init => Promise!Init
BY DEF Init, Promise!Init, Calls, Promise!Calls, NoAnswer, Promise!NoAnswer

LEMMA CallRefines == ASSUME IInv, AsyncInit \/ SyncInit PROVE Promise!Call
<1>1. /\ calls < MaxCalls /\ calls' = calls + 1
      /\ \/ \E ec \in ErrorCodes : Answer(calls + 1, ec)
         \/ NoAnswerGiven
  BY DEF AsyncInit, SyncInit, MayInit, StoredCb, ErrorCodes
<1>2. result[calls + 1] = "none"
  <2>1. calls + 1 \in Calls /\ calls + 1 > calls
    BY <1>1, MaxCallsAssumption DEF IInv, TypeOK, Calls
  <2> QED BY <2>1 DEF IInv, Results
<1> QED BY <1>1, <1>2 DEF Promise!Call, Promise!Tell, Promise!TellNobody, Answer,
                          NoAnswerGiven, NoAnswer, Promise!NoAnswer

\* A handler that answers executes the callback of the call it was made for.
LEMMA AnswerRefines ==
    ASSUME IInv, NEW h \in ready, h.op \notin Timers, NEW ec \in ErrorCodes,
           Answer(m_initCompletionCb, ec), UNCHANGED calls
    PROVE  \E c \in Promise!Calls : Promise!CallBack(c)
<1>1. /\ m_initCompletionCb \in Calls /\ m_initCompletionCb <= calls
      /\ result[m_initCompletionCb] = "none"
  BY DEF IInv, TypeOK, InProgress, Handlers
<1> QED BY <1>1 DEF Promise!CallBack, Promise!Tell, Answer, Calls, Promise!Calls

LEMMA StepRefines ==
    ASSUME IInv, [Next]_vars PROVE [Promise!Next]_Promise!vars
<1>1. CASE AsyncInit \/ SyncInit
  BY <1>1, CallRefines DEF Promise!Next
<1>2. CASE Close \/ Completions
  <2>1. Promise!GoOn
    BY <1>2 DEF Close, Completions, Resolved, Connected, Refused, Upgraded, TimerExpires, Complete,
       NoAnswerGiven, NoAnswer, Promise!NoAnswer, Promise!GoOn, Promise!TellNobody
  <2> QED BY <2>1 DEF Promise!Next
<1>3. ASSUME NEW c \in Calls, OnDispatch(c) PROVE Promise!Next
  <2>1. /\ Handler("dispatch", c, "ok") \in ready
        /\ Handler("dispatch", c, "ok").op \notin Timers
        /\ Answer(m_initCompletionCb, "ok") /\ UNCHANGED calls /\ "ok" \in ErrorCodes
    BY <1>3, HandlerFields DEF OnDispatch, ErrorCodes, Timers
  <2> QED BY <2>1, AnswerRefines DEF Promise!Next
<1>4. ASSUME NEW c \in Calls, NEW ec \in ErrorCodes, OnResolve(c, ec) PROVE Promise!Next
  <2>1. CASE Answer(m_initCompletionCb, ec)
    <3>1. /\ Handler("resolve", c, ec) \in ready
          /\ Handler("resolve", c, ec).op \notin Timers /\ UNCHANGED calls
      BY <1>4, HandlerFields DEF OnResolve, Timers
    <3> QED BY <2>1, <3>1, AnswerRefines DEF Promise!Next
  <2>2. CASE NoAnswerGiven
    <3>1. Promise!GoOn
      BY <1>4, <2>2 DEF OnResolve, NoAnswerGiven, NoAnswer, Promise!NoAnswer,
         Promise!GoOn, Promise!TellNobody
    <3> QED BY <3>1 DEF Promise!Next
  <2> QED BY <1>4, <2>1, <2>2 DEF OnResolve
<1>5. ASSUME NEW c \in Calls, NEW ec \in ErrorCodes, OnConnect(c, ec) PROVE Promise!Next
  <2>1. CASE Answer(m_initCompletionCb, ec)
    <3>1. /\ Handler("connect", c, ec) \in ready
          /\ Handler("connect", c, ec).op \notin Timers /\ UNCHANGED calls
      BY <1>5, HandlerFields DEF OnConnect, Timers
    <3> QED BY <2>1, <3>1, AnswerRefines DEF Promise!Next
  <2>2. CASE NoAnswerGiven
    <3>1. Promise!GoOn
      BY <1>5, <2>2 DEF OnConnect, NoAnswerGiven, NoAnswer, Promise!NoAnswer,
         Promise!GoOn, Promise!TellNobody
    <3> QED BY <3>1 DEF Promise!Next
  <2> QED BY <1>5, <2>1, <2>2 DEF OnConnect
<1>6. ASSUME NEW c \in Calls, NEW ec \in ErrorCodes, OnUpgrade(c, ec) PROVE Promise!Next
  <2>1. /\ Handler("upgrade", c, ec) \in ready
        /\ Handler("upgrade", c, ec).op \notin Timers
        /\ Answer(m_initCompletionCb, ec) /\ UNCHANGED calls
    BY <1>6, HandlerFields DEF OnUpgrade, Timers
  <2> QED BY <2>1, AnswerRefines DEF Promise!Next
<1>7. ASSUME NEW timer \in Timers, NEW c \in Calls, NEW ec \in ErrorCodes,
             OnTimer(timer, c, ec)
      PROVE  Promise!Next
  <2>1. Promise!GoOn
    BY <1>7 DEF OnTimer, NoAnswerGiven, NoAnswer, Promise!NoAnswer, Promise!GoOn,
       Promise!TellNobody
  <2> QED BY <2>1 DEF Promise!Next
<1>8. CASE UNCHANGED vars
  BY <1>8 DEF vars, Promise!vars
<1> QED BY <1>1, <1>2, <1>3, <1>4, <1>5, <1>6, <1>7, <1>8
   DEF Next, Application, RunHandler

(***************************************************************************)
(* asyncInit and init do what Initialization says, but for its fairness:   *)
(* a callback is executed only for a call that was made, and never tells   *)
(* that call a second result.                                              *)
(***************************************************************************)
THEOREM Refinement == Spec => Promise!Spec
<1> QED BY InitRefines, StepRefines, Invariance, PTL DEF Spec, Promise!Spec
=============================================================================
