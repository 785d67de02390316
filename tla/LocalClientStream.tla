-------------------------- MODULE LocalClientStream --------------------------
(***************************************************************************)
(* How a client stream on a Unix domain socket gets connected.  There is   *)
(* no timer: the kernel of the one host answers.  And unlike in the other  *)
(* client streams the handler of a connect holds a copy of its callback;   *)
(* only the completion on an open socket uses m_initCompletionCb.          *)
(*                                                                         *)
(* So initializations may overlap here: a close and another asyncInit, or  *)
(* another asyncInit alone, before the first is answered.                  *)
(*                                                                         *)
(* Completed operations, their queued handlers and cancellation are as in  *)
(* TcpClientStream.                                                        *)
(***************************************************************************)
EXTENDS Integers

CONSTANTS MaxCalls,         \* bound on the initializations the application tries
          OvertakesDispatch \* may one be called while a dispatched completion
                            \* of an earlier one is still queued?

ASSUME LocalClientStreamAssumption ==
    /\ MaxCalls \in Nat
    /\ OvertakesDispatch \in BOOLEAN

Calls == 1..MaxCalls

VARIABLES
    m_socket,            \* "closed", "open" (not connected) or "connected"
    m_initCompletionCb,  \* the call whose callback is stored, 0 before the first
    pending,             \* the calls whose connect has not completed
    ready,               \* queued handlers, with the result
    outcome,             \* how each call's own connect completed, else "none"
    calls,               \* how many initializations were called
    result,              \* what each was answered last, "none" before that
    answer               \* the answer being given in this step, or NoAnswer

vars == <<m_socket, m_initCompletionCb, pending, ready, outcome, calls, result, answer>>

ErrorCodes == {"ok", "refused", "aborted"}
Handlers   == [op : {"connect", "dispatch"}, call : Calls, ec : ErrorCodes]
NoAnswer   == [call |-> 0, ec |-> "none"]

TypeOK == /\ m_socket \in {"closed", "open", "connected"}
          /\ m_initCompletionCb \in 0..calls
          /\ pending \subseteq 1..calls
          /\ ready \subseteq Handlers
          /\ outcome \in [Calls -> ErrorCodes \cup {"none"}]
          /\ calls \in 0..MaxCalls
          /\ result \in [Calls -> ErrorCodes \cup {"none"}]
          /\ answer \in [call : 1..calls, ec : ErrorCodes] \cup {NoAnswer}

Init == /\ m_socket = "closed"
        /\ m_initCompletionCb = 0
        /\ pending = {} /\ ready = {}
        /\ outcome = [c \in Calls |-> "none"]
        /\ calls = 0
        /\ result = [c \in Calls |-> "none"]
        /\ answer = NoAnswer

-----------------------------------------------------------------------------
Handler(op, c, ec) == [op |-> op, call |-> c, ec |-> ec]

\* The callback of call c is executed with ec.
Answer(c, ec) == /\ result' = [result EXCEPT ![c] = ec]
                 /\ answer' = [call |-> c, ec |-> ec]

NoAnswerGiven == answer' = NoAnswer /\ UNCHANGED result

\* The connects cs complete with ec: their handlers are queued.
Complete(cs, ec) ==
    /\ pending' = pending \ cs
    /\ ready' = ready \cup {Handler("connect", c, ec) : c \in cs}
    /\ outcome' = [c \in Calls |-> IF c \in cs THEN ec ELSE outcome[c]]
    /\ NoAnswerGiven
    /\ UNCHANGED <<m_initCompletionCb, calls>>

-----------------------------------------------------------------------------
(* The application. *)

MayInit == /\ calls < MaxCalls
           /\ OvertakesDispatch \/ \A h \in ready : h.op # "dispatch"

\* Mutant: the stored callback is kept when the socket is already open.
StoredWhenClosed(c) == IF m_socket = "closed" THEN c ELSE m_initCompletionCb
\* The callback asyncInit stores.
StoredCb(c) == c

\* asyncInit: an open socket is reported as success, by a dispatched handler
\* that runs at once if this is the thread of the io_context; else the socket
\* is opened and connects.
AsyncInit ==
    LET c == calls + 1 IN
    /\ MayInit
    /\ calls' = c
    /\ m_initCompletionCb' = StoredCb(c)
    /\ \/ /\ m_socket # "closed"
          /\ Answer(m_initCompletionCb', "ok")
          /\ UNCHANGED <<m_socket, pending, ready>>
       \/ /\ m_socket # "closed"
          /\ ready' = ready \cup {Handler("dispatch", c, "ok")}
          /\ NoAnswerGiven
          /\ UNCHANGED <<m_socket, pending>>
       \/ /\ m_socket = "closed"
          /\ m_socket' = "open"
          /\ pending' = pending \cup {c}
          /\ NoAnswerGiven
          /\ UNCHANGED ready
    /\ UNCHANGED outcome

\* init: a refused connect leaves the socket open.
SyncInit ==
    LET c == calls + 1 IN
    /\ MayInit
    /\ calls' = c
    /\ \/ m_socket # "closed" /\ Answer(c, "ok")      /\ UNCHANGED m_socket
       \/ m_socket = "closed" /\ Answer(c, "refused") /\ m_socket' = "open"
       \/ m_socket = "closed" /\ Answer(c, "ok")      /\ m_socket' = "connected"
    /\ UNCHANGED <<m_initCompletionCb, pending, ready, outcome>>

\* asyncClose and close, inherited from LocalStream.
Close == m_socket' = "closed" /\ Complete(pending, "aborted")

-----------------------------------------------------------------------------
(* The kernel, and the handlers. *)

Connected(c) == c \in pending /\ m_socket' = "connected" /\ Complete({c}, "ok")

Refused(c) == c \in pending /\ UNCHANGED m_socket /\ Complete({c}, "refused")

\* Mutant: the handler of a connect uses the stored callback.
LatestCb(c) == m_initCompletionCb
\* The callback bound into the handler of the connect.
BoundCb(c) == c

\* The handler of the connect is the callback itself.
OnConnect(c, ec) ==
    /\ Handler("connect", c, ec) \in ready
    /\ ready' = ready \ {Handler("connect", c, ec)}
    /\ Answer(BoundCb(c), ec)
    /\ UNCHANGED <<m_socket, m_initCompletionCb, pending, outcome, calls>>

\* The queued completion of asyncInit on an open socket.
OnDispatch(c) ==
    /\ Handler("dispatch", c, "ok") \in ready
    /\ ready' = ready \ {Handler("dispatch", c, "ok")}
    /\ Answer(m_initCompletionCb, "ok")
    /\ UNCHANGED <<m_socket, m_initCompletionCb, pending, outcome, calls>>

-----------------------------------------------------------------------------
Next == \/ AsyncInit \/ SyncInit \/ Close
        \/ \E c \in Calls : \/ Connected(c) \/ Refused(c) \/ OnDispatch(c)
                            \/ \E ec \in ErrorCodes : OnConnect(c, ec)

Spec == Init /\ [][Next]_vars

\* The kernel answers a local connect and the io_context runs every handler.
Fairness == \A c \in Calls : /\ WF_vars(Connected(c) \/ Refused(c))
                             /\ WF_vars(OnDispatch(c))
                             /\ \A ec \in ErrorCodes : WF_vars(OnConnect(c, ec))

FairSpec == Spec /\ Fairness

-----------------------------------------------------------------------------
(* Properties. *)

(***************************************************************************)
(* No callback is executed twice, however initializations overlap, with a  *)
(* close between them and old handlers still queued, and a call that       *)
(* started a connect is told how its own connect ended, not how an earlier *)
(* or a later one did: m_initCompletionCb "will be called upon completion  *)
(* of asyncInit" (Stream.hpp:97), and an initialization completes once.    *)
(***************************************************************************)
OwnAnswerOnce ==
    [][\A c \in Calls : answer'.call = c =>
          result[c] = "none" /\ outcome[c] \in {"none", answer'.ec}]_vars

Promise == INSTANCE Initialization

(***************************************************************************)
(* Every initialization is answered, once and at last, also one that a     *)
(* later call overtakes: overlapping calls are an Initialization, too.     *)
(***************************************************************************)
ImplementsInitialization == Promise!FairSpec
=============================================================================
