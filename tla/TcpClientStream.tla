--------------------------- MODULE TcpClientStream ---------------------------
(***************************************************************************)
(* How a TCP client stream gets connected: asyncInit resolves the host,    *)
(* connects with a timer running against it, and calls back; init does it  *)
(* in one blocking call; close may come at any time.                       *)
(*                                                                         *)
(* asio queues the handler of an operation when it has completed, and what *)
(* happens in between happens before the handler.  A cancel or a close     *)
(* makes waiting operations complete with "aborted"; those whose handler   *)
(* is queued keep their result.  No order is assumed between queued        *)
(* handlers.                                                               *)
(*                                                                         *)
(* Assumed of the application: one thread, and no second initialization    *)
(* before the first is answered (m_initCompletionCb holds one callback).   *)
(***************************************************************************)
EXTENDS Integers

CONSTANT MaxCalls  \* bound on the initializations the application tries

ASSUME MaxCallsAssumption == MaxCalls \in Nat

Calls == 1..MaxCalls

VARIABLES
    m_socket,            \* "closed", "open" (not connected) or "connected"
    m_initCompletionCb,  \* the call whose callback is stored, 0 before the first
    pending,             \* asynchronous operations that have not completed
    ready,               \* completed ones whose handler is queued, with the result
    calls,               \* how many initializations were called
    result,              \* what each was answered, "none" before that
    answer,              \* the answer being given in this step, or NoAnswer
    struck               \* the calls whose timeout has closed the socket

vars == <<m_socket, m_initCompletionCb, pending, ready, calls, result, answer, struck>>

ErrorCodes == {"ok", "not_found", "refused", "aborted"}
Waits      == [op : {"resolve", "connect", "timer"}, call : Calls]
Handlers   == [op : {"resolve", "connect", "timer", "dispatch"}, call : Calls,
               ec : ErrorCodes]
NoAnswer   == [call |-> 0, ec |-> "none"]

TypeOK == /\ m_socket \in {"closed", "open", "connected"}
          /\ m_initCompletionCb \in 0..calls
          /\ pending \subseteq Waits
          /\ ready \subseteq Handlers
          /\ calls \in 0..MaxCalls
          /\ result \in [Calls -> ErrorCodes \cup {"none"}]
          /\ answer \in [call : 1..calls, ec : ErrorCodes] \cup {NoAnswer}
          /\ struck \subseteq Calls

Init == /\ m_socket = "closed"
        /\ m_initCompletionCb = 0
        /\ pending = {} /\ ready = {}
        /\ calls = 0
        /\ result = [c \in Calls |-> "none"]
        /\ answer = NoAnswer
        /\ struck = {}

-----------------------------------------------------------------------------
Wait(op, c)        == [op |-> op, call |-> c]
Handler(op, c, ec) == [op |-> op, call |-> c, ec |-> ec]

\* The callback of call c is executed with ec.
Answer(c, ec) == /\ result' = [result EXCEPT ![c] = ec]
                 /\ answer' = [call |-> c, ec |-> ec]

NoAnswerGiven == answer' = NoAnswer /\ UNCHANGED result

\* The handlers of waiting operations that are cancelled.
Aborted(waits) == {Handler(w.op, w.call, "aborted") : w \in waits}

TimerWaits   == {w \in pending : w.op = "timer"}
ConnectWaits == {w \in pending : w.op = "connect"}

\* m_socket.close().
CloseSocket == /\ m_socket' = "closed"
               /\ pending' = pending \ ConnectWaits
               /\ ready' = ready \cup Aborted(ConnectWaits)

-----------------------------------------------------------------------------
(* The application. *)

MayInit == calls < MaxCalls /\ \A c \in 1..calls : result[c] # "none"

\* Mutant: the callback is not stored.
OldCb(c) == m_initCompletionCb
StoredCb(c) == c

\* asyncInit: an open socket is reported as success, by a dispatched handler
\* that runs at once if this is a thread of the io_context.
AsyncInit ==
    LET c == calls + 1 IN
    /\ MayInit
    /\ calls' = c
    /\ m_initCompletionCb' = StoredCb(c)
    /\ \/ /\ m_socket # "closed"
          /\ Answer(m_initCompletionCb', "ok")
          /\ UNCHANGED <<pending, ready>>
       \/ /\ m_socket # "closed"
          /\ ready' = ready \cup {Handler("dispatch", c, "ok")}
          /\ UNCHANGED pending /\ NoAnswerGiven
       \/ /\ m_socket = "closed"
          /\ pending' = pending \cup {Wait("resolve", c)}
          /\ UNCHANGED ready /\ NoAnswerGiven
    /\ UNCHANGED <<m_socket, struck>>

\* init: a failed connect leaves the socket open.
SyncInit ==
    LET c == calls + 1 IN
    /\ MayInit
    /\ calls' = c
    /\ \/ m_socket # "closed" /\ Answer(c, "ok")        /\ UNCHANGED m_socket
       \/ m_socket = "closed" /\ Answer(c, "not_found") /\ UNCHANGED m_socket
       \/ m_socket = "closed" /\ Answer(c, "refused")   /\ m_socket' = "open"
       \/ m_socket = "closed" /\ Answer(c, "ok")        /\ m_socket' = "connected"
    /\ UNCHANGED <<m_initCompletionCb, pending, ready, struck>>

\* asyncClose and close, inherited from TcpStream; no effect on a resolve.
Close ==
    /\ CloseSocket
    /\ NoAnswerGiven
    /\ UNCHANGED <<m_initCompletionCb, calls, struck>>

-----------------------------------------------------------------------------
(* Operations complete: the resolver, the remote host, the clock. *)

Complete(w, ec) == /\ w \in pending
                   /\ pending' = pending \ {w}
                   /\ ready' = ready \cup {Handler(w.op, w.call, ec)}
                   /\ NoAnswerGiven
                   /\ UNCHANGED <<m_initCompletionCb, calls, struck>>

Resolved(c, ec) == Complete(Wait("resolve", c), ec) /\ UNCHANGED m_socket

Connected(c) == Complete(Wait("connect", c), "ok") /\ m_socket' = "connected"

Refused(c) == Complete(Wait("connect", c), "refused") /\ UNCHANGED m_socket

TimerExpires(c) == Complete(Wait("timer", c), "ok") /\ UNCHANGED m_socket

-----------------------------------------------------------------------------
(* The handlers. *)

\* The queued completion of asyncInit on an open socket.
OnDispatch(c) ==
    /\ Handler("dispatch", c, "ok") \in ready
    /\ ready' = ready \ {Handler("dispatch", c, "ok")}
    /\ Answer(m_initCompletionCb, "ok")
    /\ UNCHANGED <<m_socket, m_initCompletionCb, pending, calls, struck>>

\* Mutant: connecting without a timer.
NotArmed(c) == {}
\* m_connectTimer.async_wait.
Armed(c) == {Wait("timer", c)}

\* onResolve: sets the timer, which cancels an earlier wait for it, and
\* starts to connect, which opens the socket.
OnResolve(c, ec) ==
    /\ Handler("resolve", c, ec) \in ready
    /\ \/ /\ ec # "ok"
          /\ ready' = ready \ {Handler("resolve", c, ec)}
          /\ Answer(m_initCompletionCb, ec)
          /\ UNCHANGED <<m_socket, pending>>
       \/ /\ ec = "ok"
          /\ ready' = (ready \ {Handler("resolve", c, ec)}) \cup Aborted(TimerWaits)
          /\ pending' = (pending \ TimerWaits) \cup Armed(c) \cup {Wait("connect", c)}
          /\ m_socket' = "open"
          /\ NoAnswerGiven
    /\ UNCHANGED <<m_initCompletionCb, calls, struck>>

\* Mutant: the timer is left running.
OnConnectKeepsTimer(c, ec) ==
    /\ Handler("connect", c, ec) \in ready
    /\ ready' = ready \ {Handler("connect", c, ec)}
    /\ Answer(m_initCompletionCb, ec)
    /\ UNCHANGED <<m_socket, m_initCompletionCb, pending, calls, struck>>

\* onConnect: cancels the timer and passes the result on.
OnConnect(c, ec) ==
    /\ Handler("connect", c, ec) \in ready
    /\ pending' = pending \ TimerWaits
    /\ ready' = (ready \ {Handler("connect", c, ec)}) \cup Aborted(TimerWaits)
    /\ Answer(m_initCompletionCb, ec)
    /\ UNCHANGED <<m_socket, m_initCompletionCb, calls, struck>>

\* Mutant: the timeout is reported by the timer's own handler.
OnTimerAnswers(c, ec) ==
    /\ Handler("timer", c, ec) \in ready
    /\ ready' = ready \ {Handler("timer", c, ec)}
    /\ \/ ec = "aborted" /\ NoAnswerGiven
       \/ ec # "aborted" /\ Answer(m_initCompletionCb, "aborted")
    /\ UNCHANGED <<m_socket, m_initCompletionCb, pending, calls, struck>>

\* connectTimeoutCb: nothing if cancelled, else the socket is closed, which
\* makes the connect in progress complete with "aborted".
OnTimer(c, ec) ==
    LET handled == Handler("timer", c, ec) IN
    /\ handled \in ready
    /\ \/ /\ ec = "aborted"
          /\ ready' = ready \ {handled}
          /\ UNCHANGED <<m_socket, pending, struck>>
       \/ /\ ec # "aborted"
          /\ m_socket' = "closed"
          /\ pending' = pending \ ConnectWaits
          /\ ready' = (ready \ {handled}) \cup Aborted(ConnectWaits)
          /\ struck' = struck \cup {c}
    /\ NoAnswerGiven
    /\ UNCHANGED <<m_initCompletionCb, calls>>

-----------------------------------------------------------------------------
Application == AsyncInit \/ SyncInit \/ Close

Completions == \E c \in Calls : \/ \E ec \in {"ok", "not_found"} : Resolved(c, ec)
                                \/ Connected(c)
                                \/ Refused(c)
                                \/ TimerExpires(c)

RunHandler == \E c \in Calls : \/ OnDispatch(c)
                               \/ \E ec \in ErrorCodes : \/ OnResolve(c, ec)
                                                         \/ OnConnect(c, ec)
                                                         \/ OnTimer(c, ec)

Next == Application \/ Completions \/ RunHandler

Spec == Init /\ [][Next]_vars

\* The resolver answers, the clock ticks, the io_context runs every handler.
\* Nothing is assumed of the remote host, which may never answer.
Fairness ==
    \A c \in Calls :
        /\ WF_vars(\E ec \in {"ok", "not_found"} : Resolved(c, ec))
        /\ WF_vars(TimerExpires(c))
        /\ WF_vars(OnDispatch(c))
        /\ \A ec \in ErrorCodes : /\ WF_vars(OnResolve(c, ec))
                                  /\ WF_vars(OnConnect(c, ec))
                                  /\ WF_vars(OnTimer(c, ec))

FairSpec == Spec /\ Fairness

-----------------------------------------------------------------------------
(* Properties. *)

(***************************************************************************)
(* An initialization is answered once: the timeout, the connect it aborts, *)
(* a close and the handlers already queued do not answer it again.         *)
(***************************************************************************)
AnsweredOnce == [][\A c \in Calls : answer'.call = c => result[c] = "none"]_vars

(***************************************************************************)
(* A connect in progress is always watched: the timer runs against it, or  *)
(* has expired and its handler is about to close the socket.               *)
(***************************************************************************)
WatchedConnect ==
    \A c \in Calls : Wait("connect", c) \in pending =>
        \/ Wait("timer", c) \in pending
        \/ Handler("timer", c, "ok") \in ready

(***************************************************************************)
(* When an initialization is answered none of its operations is left       *)
(* waiting: an io_context without other work returns from run() (the timer *)
(* does not keep it for the rest of its five seconds), and no operation of *)
(* an earlier attempt interferes with a later one except by a handler      *)
(* that was already queued.                                                *)
(***************************************************************************)
NothingLeftPending ==
    \A w \in pending : result[w.call] = "none"

(***************************************************************************)
(* Failure is told only of a stream that is not connected.                 *)
(***************************************************************************)
FailureIsNotConnected ==
    answer.ec \in ErrorCodes \ {"ok"} => m_socket # "connected"

Promise == INSTANCE Initialization

(***************************************************************************)
(* Every initialization is answered, once and at last, also when the remote *)
(* host never answers and when the application closes the stream in        *)
(* between: without resolver, timer and handlers this is Initialization.   *)
(***************************************************************************)
ImplementsInitialization == Promise!FairSpec

(***************************************************************************)
(* "On connection timeout error code will be operation_canceled"           *)
(* (TcpClientStream.hpp:38, TcpStreamTest.cpp:399): an attempt whose       *)
(* timeout has closed the socket is not reported with anything else.       *)
(***************************************************************************)
TimeoutReportsCanceled == \A c \in struck : result[c] \in {"none", "aborted"}

(***************************************************************************)
(* "Executed after completion to start reading/writing data"               *)
(* (Stream.hpp:50): success is told of a stream that can read and write.   *)
(***************************************************************************)
SuccessMeansConnected == answer.ec = "ok" => m_socket = "connected"
=============================================================================
