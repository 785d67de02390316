------------------------ MODULE WebsocketClientStream ------------------------
(***************************************************************************)
(* How a websocket client stream gets connected: asyncInit resolves the    *)
(* host, connects and upgrades to websocket.  One timer watches first the  *)
(* connect and then, armed again, the upgrade.  init does the same in one  *)
(* blocking call without a timeout.                                        *)
(*                                                                         *)
(* Completed operations, their queued handlers and cancellation are as in  *)
(* TcpClientStream; no order is assumed between queued handlers.           *)
(*                                                                         *)
(* Assumed of the application: one thread, no second initialization before *)
(* the first is answered, and close only of a stream that is open, as      *)
(* beast demands.                                                          *)
(***************************************************************************)
EXTENDS Integers

CONSTANT MaxCalls  \* bound on the initializations the application tries

ASSUME MaxCallsAssumption == MaxCalls \in Nat

Calls == 1..MaxCalls

VARIABLES
    m_stream,            \* the websocket: "open" once upgraded, else "closed"
    socket,              \* its lowest layer: "closed", "open" or "connected"
    m_initCompletionCb,  \* the call whose callback is stored, 0 before the first
    pending,             \* asynchronous operations that have not completed
    ready,               \* completed ones whose handler is queued, with the result
    calls,               \* how many initializations were called
    result,              \* what each was answered, "none" before that
    answer               \* the answer being given in this step, or NoAnswer

vars == <<m_stream, socket, m_initCompletionCb, pending, ready, calls, result, answer>>

\* "failed": not found, refused, not upgraded, or tried on a closed socket.
ErrorCodes == {"ok", "failed", "aborted"}
\* The two waits for m_asyncOperationTimer.
Timers     == {"connectTimer", "upgradeTimer"}
Operations == {"resolve", "connect", "upgrade"} \cup Timers
Waits      == [op : Operations, call : Calls]
Handlers   == [op : Operations \cup {"dispatch"}, call : Calls, ec : ErrorCodes]
NoAnswer   == [call |-> 0, ec |-> "none"]

TypeOK == /\ m_stream \in {"closed", "open"}
          /\ socket \in {"closed", "open", "connected"}
          /\ m_initCompletionCb \in 0..calls
          /\ pending \subseteq Waits
          /\ ready \subseteq Handlers
          /\ calls \in 0..MaxCalls
          /\ result \in [Calls -> ErrorCodes \cup {"none"}]
          /\ answer \in [call : 1..calls, ec : ErrorCodes] \cup {NoAnswer}

Init == /\ m_stream = "closed" /\ socket = "closed"
        /\ m_initCompletionCb = 0
        /\ pending = {} /\ ready = {}
        /\ calls = 0
        /\ result = [c \in Calls |-> "none"]
        /\ answer = NoAnswer

-----------------------------------------------------------------------------
Wait(op, c)        == [op |-> op, call |-> c]
Handler(op, c, ec) == [op |-> op, call |-> c, ec |-> ec]

\* The callback of call c is executed with ec.
Answer(c, ec) == /\ result' = [result EXCEPT ![c] = ec]
                 /\ answer' = [call |-> c, ec |-> ec]

NoAnswerGiven == answer' = NoAnswer /\ UNCHANGED result

\* The handlers of waiting operations that are cancelled.
Aborted(waits) == {Handler(w.op, w.call, "aborted") : w \in waits}

TimerWaits  == {w \in pending : w.op \in Timers}
SocketWaits == {w \in pending : w.op \in {"connect", "upgrade"}}

-----------------------------------------------------------------------------
(* The application. *)

MayInit == calls < MaxCalls /\ \A c \in 1..calls : result[c] # "none"

\* Mutant: the callback is not stored.
OldCb(c) == m_initCompletionCb
StoredCb(c) == c

\* asyncInit: an open websocket is reported as success, by a dispatched
\* handler that runs at once if this is a thread of the io_context.
AsyncInit ==
    LET c == calls + 1 IN
    /\ MayInit
    /\ calls' = c
    /\ m_initCompletionCb' = StoredCb(c)
    /\ \/ /\ m_stream = "open"
          /\ Answer(m_initCompletionCb', "ok")
          /\ UNCHANGED <<pending, ready>>
       \/ /\ m_stream = "open"
          /\ ready' = ready \cup {Handler("dispatch", c, "ok")}
          /\ UNCHANGED pending /\ NoAnswerGiven
       \/ /\ m_stream = "closed"
          /\ pending' = pending \cup {Wait("resolve", c)}
          /\ UNCHANGED ready /\ NoAnswerGiven
    /\ UNCHANGED <<m_stream, socket>>

\* init: fails before it has a socket, in the connect or in the handshake,
\* which leaves the socket connected.
SyncInit ==
    LET c == calls + 1 IN
    /\ MayInit
    /\ calls' = c
    /\ \/ m_stream = "open" /\ Answer(c, "ok") /\ UNCHANGED <<m_stream, socket>>
       \/ /\ m_stream = "closed" /\ Answer(c, "failed")
          /\ socket' \in {socket, "open", "connected"}
          /\ UNCHANGED m_stream
       \/ /\ m_stream = "closed" /\ Answer(c, "ok")
          /\ socket' = "connected" /\ m_stream' = "open"
    /\ UNCHANGED <<m_initCompletionCb, pending, ready>>

\* asyncClose and close, or the server's close frame: taken as one step, from
\* the open websocket to the closed socket.
Close ==
    /\ m_stream = "open"
    /\ m_stream' = "closed" /\ socket' = "closed"
    /\ NoAnswerGiven
    /\ UNCHANGED <<m_initCompletionCb, pending, ready, calls>>

-----------------------------------------------------------------------------
(* Operations complete: the resolver, the remote host, the clock. *)

Complete(w, ec) == /\ w \in pending
                   /\ pending' = pending \ {w}
                   /\ ready' = ready \cup {Handler(w.op, w.call, ec)}
                   /\ NoAnswerGiven
                   /\ UNCHANGED <<m_stream, m_initCompletionCb, calls>>

Resolved(c, ec) == Complete(Wait("resolve", c), ec) /\ UNCHANGED socket

Connected(c) == Complete(Wait("connect", c), "ok") /\ socket' = "connected"

Refused(c) == Complete(Wait("connect", c), "failed") /\ UNCHANGED socket

\* The server answers the upgrade request, or goes away.
Upgraded(c, ec) == Complete(Wait("upgrade", c), ec) /\ UNCHANGED socket

TimerExpires(timer, c) == Complete(Wait(timer, c), "ok") /\ UNCHANGED socket

-----------------------------------------------------------------------------
(* The handlers. *)

\* The queued completion of asyncInit on an open websocket.
OnDispatch(c) ==
    /\ Handler("dispatch", c, "ok") \in ready
    /\ ready' = ready \ {Handler("dispatch", c, "ok")}
    /\ Answer(m_initCompletionCb, "ok")
    /\ UNCHANGED <<m_stream, socket, m_initCompletionCb, pending, calls>>

\* onResolve: sets the timer, which cancels an earlier wait for it, and
\* starts to connect.
OnResolve(c, ec) ==
    LET handled == Handler("resolve", c, ec) IN
    /\ handled \in ready
    /\ \/ /\ ec # "ok"
          /\ ready' = ready \ {handled}
          /\ Answer(m_initCompletionCb, ec)
          /\ UNCHANGED <<socket, pending>>
       \/ /\ ec = "ok"
          /\ ready' = (ready \ {handled}) \cup Aborted(TimerWaits)
          /\ pending' = (pending \ TimerWaits)
                           \cup {Wait("connectTimer", c), Wait("connect", c)}
          /\ socket' = "open"
          /\ NoAnswerGiven
    /\ UNCHANGED <<m_stream, m_initCompletionCb, calls>>

\* Mutant: the timer of the connect is not set again.
NotArmed(c) == {}
\* m_asyncOperationTimer, set for the upgrade.
Armed(c) == {Wait("upgradeTimer", c)}

\* onConnect: cancels the timer; a failure is passed on, else the timer is set
\* again and the upgrade starts, which fails at once if the socket is closed.
OnConnect(c, ec) ==
    LET handled == Handler("connect", c, ec)
        others  == (ready \ {handled}) \cup Aborted(TimerWaits)
        waiting == pending \ TimerWaits
    IN
    /\ handled \in ready
    /\ \/ /\ ec # "ok"
          /\ pending' = waiting /\ ready' = others
          /\ Answer(m_initCompletionCb, ec)
       \/ /\ ec = "ok" /\ socket = "connected"
          /\ pending' = waiting \cup Armed(c) \cup {Wait("upgrade", c)}
          /\ ready' = others
          /\ NoAnswerGiven
       \/ /\ ec = "ok" /\ socket # "connected"
          /\ pending' = waiting \cup Armed(c)
          /\ ready' = others \cup {Handler("upgrade", c, "failed")}
          /\ NoAnswerGiven
    /\ UNCHANGED <<m_stream, socket, m_initCompletionCb, calls>>

\* Mutant: the timer is left running.
OnUpgradeKeepsTimer(c, ec) ==
    /\ Handler("upgrade", c, ec) \in ready
    /\ ready' = ready \ {Handler("upgrade", c, ec)}
    /\ m_stream' = IF ec = "ok" THEN "open" ELSE "closed"
    /\ Answer(m_initCompletionCb, ec)
    /\ UNCHANGED <<socket, m_initCompletionCb, pending, calls>>

\* onUpgrade: cancels the timer and passes the result on.  beast declares the
\* websocket open just before it calls.
OnUpgrade(c, ec) ==
    /\ Handler("upgrade", c, ec) \in ready
    /\ m_stream' = IF ec = "ok" THEN "open" ELSE "closed"
    /\ pending' = pending \ TimerWaits
    /\ ready' = (ready \ {Handler("upgrade", c, ec)}) \cup Aborted(TimerWaits)
    /\ Answer(m_initCompletionCb, ec)
    /\ UNCHANGED <<socket, m_initCompletionCb, calls>>

\* Mutant: the timeout is reported by the timer's own handler.
OnTimerAnswers(timer, c, ec) ==
    /\ Handler(timer, c, ec) \in ready
    /\ ready' = ready \ {Handler(timer, c, ec)}
    /\ \/ ec = "aborted" /\ NoAnswerGiven
       \/ ec # "aborted" /\ Answer(m_initCompletionCb, "aborted")
    /\ UNCHANGED <<m_stream, socket, m_initCompletionCb, pending, calls>>

\* asyncTimeoutCb: nothing if cancelled, else the lowest layer is closed, which
\* makes the operation in progress complete with "aborted".
OnTimer(timer, c, ec) ==
    LET handled == Handler(timer, c, ec) IN
    /\ handled \in ready
    /\ \/ /\ ec = "aborted"
          /\ ready' = ready \ {handled}
          /\ UNCHANGED <<socket, pending>>
       \/ /\ ec # "aborted"
          /\ socket' = "closed"
          /\ pending' = pending \ SocketWaits
          /\ ready' = (ready \ {handled}) \cup Aborted(SocketWaits)
    /\ NoAnswerGiven
    /\ UNCHANGED <<m_stream, m_initCompletionCb, calls>>

-----------------------------------------------------------------------------
Application == AsyncInit \/ SyncInit \/ Close

Completions ==
    \E c \in Calls : \/ \E ec \in {"ok", "failed"} : Resolved(c, ec) \/ Upgraded(c, ec)
                     \/ Connected(c)
                     \/ Refused(c)
                     \/ \E timer \in Timers : TimerExpires(timer, c)

RunHandler ==
    \E c \in Calls :
        \/ OnDispatch(c)
        \/ \E ec \in ErrorCodes : \/ OnResolve(c, ec)
                                  \/ OnConnect(c, ec)
                                  \/ OnUpgrade(c, ec)
                                  \/ \E timer \in Timers : OnTimer(timer, c, ec)

Next == Application \/ Completions \/ RunHandler

Spec == Init /\ [][Next]_vars

\* The resolver answers, the clock ticks, the io_context runs every handler.
\* Nothing is assumed of the remote host, which may accept and then be silent.
Fairness ==
    \A c \in Calls :
        /\ WF_vars(\E ec \in {"ok", "failed"} : Resolved(c, ec))
        /\ \A timer \in Timers : WF_vars(TimerExpires(timer, c))
        /\ WF_vars(OnDispatch(c))
        /\ \A ec \in ErrorCodes : /\ WF_vars(OnResolve(c, ec))
                                  /\ WF_vars(OnConnect(c, ec))
                                  /\ WF_vars(OnUpgrade(c, ec))
                                  /\ \A timer \in Timers : WF_vars(OnTimer(timer, c, ec))

FairSpec == Spec /\ Fairness

-----------------------------------------------------------------------------
(* Properties. *)

(***************************************************************************)
(* A connect or an upgrade in progress is always watched: its own timer    *)
(* runs, or has expired and is about to close the socket.  Between the two *)
(* phases the timer is cancelled and set again, with the handlers of both  *)
(* possibly queued.                                                        *)
(***************************************************************************)
Watched(op, timer) ==
    \A c \in Calls : Wait(op, c) \in pending =>
        \/ Wait(timer, c) \in pending
        \/ Handler(timer, c, "ok") \in ready
WatchedOperation == Watched("connect", "connectTimer") /\ Watched("upgrade", "upgradeTimer")

(***************************************************************************)
(* When an initialization is answered none of its operations is left       *)
(* waiting, in whichever of its phases it ended: the timer keeps neither   *)
(* the io_context running nor strikes at a later attempt.                  *)
(***************************************************************************)
NothingLeftPending == \A w \in pending : result[w.call] = "none"

(***************************************************************************)
(* An initialization is answered once, although a timeout, the operation   *)
(* it aborts and handlers of the other phase may be queued together.       *)
(***************************************************************************)
AnsweredOnce == [][\A c \in Calls : answer'.call = c => result[c] = "none"]_vars

Promise == INSTANCE Initialization

(***************************************************************************)
(* Every initialization is answered, once and at last, also when the remote *)
(* host accepts the connection and never answers the upgrade: two phases   *)
(* with one timer are no more than Initialization.                         *)
(***************************************************************************)
ImplementsInitialization == Promise!FairSpec
=============================================================================
