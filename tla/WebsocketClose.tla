--------------------------- MODULE WebsocketClose ---------------------------
(***************************************************************************)
(* An upgraded websocket connection from its first message to the end of   *)
(* its closing handshake: a WebsocketServerStream and a                    *)
(* WebsocketClientStream that read, write and close.                       *)
(*                                                                         *)
(* Closing is a handshake: a close frame is sent behind what was written   *)
(* before, and the close is answered when the frame of the peer comes.     *)
(* The peer sees the frame only in a read, and replies in it.  beast       *)
(* watches the handshake with a timer, if the close is asynchronous.       *)
(*                                                                         *)
(* A blocking read or write is like an asynchronous one whose caller does  *)
(* nothing else meanwhile, and has no action of its own.                   *)
(*                                                                         *)
(* Assumed of the application: one read and one write at a time, as beast  *)
(* demands; a blocking close with neither outstanding; one close.          *)
(***************************************************************************)
EXTENDS Integers, Sequences

CONSTANTS MaxMessages,  \* bound on the messages each end writes
          MaxRequest,   \* bound on the messages one read waits for
          WireCapacity  \* messages that the kernels hold in one direction

ASSUME WebsocketCloseAssumption == /\ MaxMessages \in Nat
                                   /\ MaxRequest \in Nat \ {0}
                                   /\ WireCapacity \in Nat \ {0}

Ends == {"client", "server"}
Other(e) == IF e = "client" THEN "server" ELSE "client"

VARIABLES
    status,            \* of beast's stream at each end
    handshakeTimeout,  \* "suggested" (30 s) or "reduced" (3 s)
    alive,             \* does the end's process respond?
    wire,              \* frames an end has sent and the other has not processed
    unsent,            \* outstanding writes, 0 or 1
    written,           \* history: messages written
    received,          \* history: messages given to the reads
    reading,           \* messages the outstanding read still waits for, 0 if none
    told,              \* history: what the last read was answered
    closing,           \* the close: "none", "async" or "blocking" while it waits, "done"
    closeEc            \* what the close was answered

vars == <<status, handshakeTimeout, alive, wire, unsent, written, received,
          reading, told, closing, closeEc>>

ErrorCodes == {"none", "ok", "closed", "eof", "aborted", "timeout"}

TypeOK == /\ status \in [Ends -> {"open", "closing", "closed", "failed"}]
          /\ handshakeTimeout \in [Ends -> {"suggested", "reduced"}]
          /\ alive \in [Ends -> BOOLEAN]
          /\ wire \in [Ends -> Seq({"message", "close"})]
          /\ unsent \in [Ends -> 0..1]
          /\ written \in [Ends -> 0..MaxMessages]
          /\ received \in [Ends -> 0..MaxMessages]
          /\ reading \in [Ends -> 0..MaxRequest]
          /\ told \in [Ends -> ErrorCodes]
          /\ closing \in [Ends -> {"none", "async", "blocking", "done"}]
          /\ closeEc \in [Ends -> ErrorCodes]

\* setOptions: suggested for a server is a handshake timeout of 30 s.
SetOptions == "suggested"

\* The constructor takes the upgraded websocket, init sets the options; the
\* client has set its own before the upgrade.
Init == /\ status = [e \in Ends |-> "open"]
        /\ handshakeTimeout = [e \in Ends |-> SetOptions]
        /\ alive = [e \in Ends |-> TRUE]
        /\ wire = [e \in Ends |-> <<>>]
        /\ unsent = [e \in Ends |-> 0]
        /\ written = [e \in Ends |-> 0] /\ received = [e \in Ends |-> 0]
        /\ reading = [e \in Ends |-> 0]
        /\ told = [e \in Ends |-> "none"]
        /\ closing = [e \in Ends |-> "none"]
        /\ closeEc = [e \in Ends |-> "none"]

Running(e)  == alive[e] /\ status[e] \in {"open", "closing"}
CloseWaits(e) == closing[e] \in {"async", "blocking"}
Incoming(e, frame) == wire[Other(e)] # <<>> /\ Head(wire[Other(e)]) = frame

-----------------------------------------------------------------------------
(* Operations are answered. *)

\* The outstanding read and the outstanding close of e, if any, are answered.
AnswerRead(e, ec) ==
    /\ reading' = [reading EXCEPT ![e] = 0]
    /\ told' = IF reading[e] > 0 THEN [told EXCEPT ![e] = ec] ELSE told

AnswerClose(e, ec) ==
    /\ closing' = IF CloseWaits(e) THEN [closing EXCEPT ![e] = "done"] ELSE closing
    /\ closeEc' = IF CloseWaits(e) THEN [closeEc EXCEPT ![e] = ec] ELSE closeEc

\* The stream of e ends, and with it all that is outstanding.
Fails(e, readEc, closingEc) ==
    /\ status' = [status EXCEPT ![e] = "failed"]
    /\ unsent' = [unsent EXCEPT ![e] = 0]
    /\ AnswerRead(e, readEc)
    /\ AnswerClose(e, closingEc)

\* The socket of e is closed: of what is on its way any part may be lost.
SocketCloses(e) ==
    \E n \in 0..Len(wire[e]) : wire' = [wire EXCEPT ![e] = SubSeq(@, 1, n)]

-----------------------------------------------------------------------------
(* The application: the operations of the two stream classes. *)

\* asyncReadAtLeast, readAtLeast.  Of an ended stream they fail at once.
ReadAtLeast(e) ==
    /\ alive[e] /\ reading[e] = 0 /\ closing[e] # "blocking"
    /\ \/ /\ status[e] \in {"open", "closing"}
          /\ \E n \in 1..MaxRequest : reading' = [reading EXCEPT ![e] = n]
          /\ UNCHANGED told
       \/ /\ status[e] \in {"closed", "failed"}
          /\ told' = [told EXCEPT ![e] = "aborted"]
          /\ UNCHANGED reading
    /\ UNCHANGED <<status, handshakeTimeout, alive, wire, unsent, written,
                   received, closing, closeEc>>

\* Mutant: the next write does not wait for the last.
WriteTwice(e) ==
    /\ alive[e] /\ status[e] = "open" /\ closing[e] = "none"
    /\ written[e] < MaxMessages
    /\ unsent' = [unsent EXCEPT ![e] = @ + 1]
    /\ written' = [written EXCEPT ![e] = @ + 1]
    /\ UNCHANGED <<status, handshakeTimeout, alive, wire, received, reading,
                   told, closing, closeEc>>

\* asyncWrite, write.  Those that come after the close are refused.
Write(e) ==
    /\ alive[e] /\ status[e] = "open" /\ closing[e] = "none"
    /\ unsent[e] = 0 /\ written[e] < MaxMessages
    /\ unsent' = [unsent EXCEPT ![e] = @ + 1]
    /\ written' = [written EXCEPT ![e] = @ + 1]
    /\ UNCHANGED <<status, handshakeTimeout, alive, wire, received, reading,
                   told, closing, closeEc>>

\* Mutant: the timeout suggested by beast is kept.
LongHandshakeTimeout == "suggested"
\* reducedHandshakeTimeout
ReducedHandshakeTimeout == "reduced"

\* The close is requested.  An ended stream answers it at once.
RequestClose(e, kind) ==
    /\ alive[e] /\ closing[e] = "none"
    /\ handshakeTimeout' = [handshakeTimeout EXCEPT ![e] = ReducedHandshakeTimeout]
    /\ \/ /\ status[e] = "open"
          /\ closing' = [closing EXCEPT ![e] = kind]
          /\ UNCHANGED closeEc
       \/ /\ status[e] \in {"closed", "failed"}
          /\ closing' = [closing EXCEPT ![e] = "done"]
          /\ closeEc' = [closeEc EXCEPT ![e] = "aborted"]
    /\ UNCHANGED <<status, alive, wire, unsent, written, received, reading, told>>

\* Mutant: the socket is closed instead, as the other streams do.
AsyncCloseSocket(e) ==
    /\ alive[e] /\ closing[e] = "none"
    /\ status' = [status EXCEPT ![e] = "closed"]
    /\ closing' = [closing EXCEPT ![e] = "done"]
    /\ closeEc' = [closeEc EXCEPT ![e] = "ok"]
    /\ unsent' = [unsent EXCEPT ![e] = 0]
    /\ AnswerRead(e, "aborted")
    /\ SocketCloses(e)
    /\ UNCHANGED <<handshakeTimeout, alive, written, received>>

\* Mutant: the close is answered in place and the socket left to beast.
AsyncCloseInPlace(e) ==
    /\ alive[e] /\ closing[e] = "none"
    /\ closing' = [closing EXCEPT ![e] = "done"]
    /\ closeEc' = [closeEc EXCEPT ![e] = "ok"]
    /\ UNCHANGED <<status, handshakeTimeout, alive, wire, unsent, written,
                   received, reading, told>>

AsyncClose(e) == RequestClose(e, "async")

Close(e) == unsent[e] = 0 /\ reading[e] = 0 /\ RequestClose(e, "blocking")

ServerReads  == ReadAtLeast("server")
ServerWrites == Write("server")
ServerCloses == AsyncClose("server") \/ Close("server")
ClientReads  == ReadAtLeast("client")
ClientWrites == Write("client")
ClientCloses == AsyncClose("client") \/ Close("client")

Application == \/ ServerReads \/ ServerWrites \/ ServerCloses
               \/ ClientReads \/ ClientWrites \/ ClientCloses

-----------------------------------------------------------------------------
(* beast and the kernels. *)

SendMessage(e) ==
    /\ Running(e) /\ unsent[e] > 0 /\ Len(wire[e]) < WireCapacity
    /\ wire' = [wire EXCEPT ![e] = Append(@, "message")]
    /\ unsent' = [unsent EXCEPT ![e] = 0]
    /\ UNCHANGED <<status, handshakeTimeout, alive, written, received, reading,
                   told, closing, closeEc>>

\* The close has the write lock: its frame is sent, behind the last message.
SendClose(e) ==
    /\ alive[e] /\ status[e] = "open" /\ CloseWaits(e) /\ unsent[e] = 0
    /\ status' = [status EXCEPT ![e] = "closing"]
    /\ wire' = [wire EXCEPT ![e] = Append(@, "close")]
    /\ UNCHANGED <<handshakeTimeout, alive, unsent, written, received, reading,
                   told, closing, closeEc>>

Consume(e) == wire' = [wire EXCEPT ![Other(e)] = Tail(@)]

DeliverMessage(e) ==
    /\ Running(e) /\ reading[e] > 0 /\ Incoming(e, "message")
    /\ Consume(e)
    /\ received' = [received EXCEPT ![e] = @ + 1]
    /\ reading' = [reading EXCEPT ![e] = @ - 1]
    /\ told' = IF reading[e] = 1 THEN [told EXCEPT ![e] = "ok"] ELSE told
    /\ UNCHANGED <<status, handshakeTimeout, alive, unsent, written, closing, closeEc>>

\* A close that waits for the peer's frame reads the messages before it.
DiscardMessage(e) ==
    /\ alive[e] /\ status[e] = "closing" /\ CloseWaits(e) /\ Incoming(e, "message")
    /\ Consume(e)
    /\ UNCHANGED <<status, handshakeTimeout, alive, unsent, written, received,
                   reading, told, closing, closeEc>>

\* A read meets the close frame: it replies and ends the stream.  A close that
\* still waits for the write lock is too late.
ReplyClose(e) ==
    /\ alive[e] /\ status[e] = "open" /\ reading[e] > 0 /\ unsent[e] = 0
    /\ Incoming(e, "close")
    /\ wire' = [wire EXCEPT ![Other(e)] = Tail(@), ![e] = Append(@, "close")]
    /\ status' = [status EXCEPT ![e] = "closed"]
    /\ AnswerRead(e, "closed")
    /\ AnswerClose(e, "aborted")
    /\ UNCHANGED <<handshakeTimeout, alive, unsent, written, received>>

\* The peer's frame after the own: the one of read and close that meets it
\* has its result, the other is aborted.
FinishClose(e) ==
    /\ alive[e] /\ status[e] = "closing" /\ Incoming(e, "close")
    /\ Consume(e)
    /\ status' = [status EXCEPT ![e] = "closed"]
    /\ \/ AnswerClose(e, "ok") /\ AnswerRead(e, "aborted")
       \/ reading[e] > 0 /\ AnswerClose(e, "aborted") /\ AnswerRead(e, "closed")
    /\ UNCHANGED <<handshakeTimeout, alive, unsent, written, received>>

\* The timer of an asynchronous close.
TimerExpires(e) ==
    /\ alive[e] /\ status[e] = "closing" /\ closing[e] = "async"
    /\ Fails(e, "aborted", "timeout")
    /\ SocketCloses(e)
    /\ UNCHANGED <<handshakeTimeout, alive, written, received>>

\* The peer's socket is closed: a read or a close finds nothing more to read,
\* a write fails whatever there is to read.
ConnectionLost(e) ==
    /\ Running(e) /\ status[Other(e)] \in {"closed", "failed"}
    /\ \/ wire[Other(e)] = <<>> /\ (reading[e] > 0 \/ status[e] = "closing")
       \/ unsent[e] > 0
    /\ Fails(e, "eof", "eof")
    /\ UNCHANGED <<handshakeTimeout, alive, wire, written, received>>

\* The process ends, or it or its host hangs and the peer learns nothing.
Dies(e) ==
    /\ alive[e]
    /\ alive' = [alive EXCEPT ![e] = FALSE]
    /\ \/ UNCHANGED <<status, wire>>
       \/ status' = [status EXCEPT ![e] = "failed"] /\ SocketCloses(e)
    /\ UNCHANGED <<handshakeTimeout, unsent, written, received, reading, told,
                   closing, closeEc>>

Connection == \E e \in Ends : \/ SendMessage(e) \/ SendClose(e)
                              \/ DeliverMessage(e) \/ DiscardMessage(e)
                              \/ ReplyClose(e) \/ FinishClose(e)
                              \/ TimerExpires(e) \/ ConnectionLost(e) \/ Dies(e)

Next == Application \/ Connection

Spec == Init /\ [][Next]_vars

\* The kernels move frames and beast reacts to them.  The timer counts only
\* when it is the short one: nobody waits for 30 s.  Nothing is assumed of
\* the applications: an end may never read.
Fairness ==
    \A e \in Ends : /\ WF_vars(SendMessage(e))
                    /\ WF_vars(SendClose(e))
                    /\ WF_vars(DeliverMessage(e))
                    /\ WF_vars(DiscardMessage(e))
                    /\ WF_vars(ReplyClose(e))
                    /\ WF_vars(FinishClose(e))
                    /\ WF_vars(ConnectionLost(e))
                    /\ WF_vars(TimerExpires(e) /\ handshakeTimeout[e] = "reduced")

FairSpec == Spec /\ Fairness

-----------------------------------------------------------------------------
(* Properties. *)

(***************************************************************************)
(* The end of the stream hides nothing: an end that did not close itself   *)
(* and is told in a read that the peer closed, or finds the connection     *)
(* gone, has got every message written before the close, also one that     *)
(* was still unsent when asyncClose was called.  Only a peer that failed   *)
(* (died, or gave up its close after the timeout) may have cut it off.     *)
(***************************************************************************)
ClosedIsTheEnd ==
    \A e \in Ends :
        told[e] \in {"closed", "eof"} /\ closing[e] = "none" /\ status[Other(e)] # "failed"
            => received[e] = written[Other(e)]

(***************************************************************************)
(* A close that is answered without an error has delivered: unless the     *)
(* peer was closing too, it has read all that was written and has ended    *)
(* its stream as well.                                                     *)
(***************************************************************************)
CloseDelivers ==
    \A e \in Ends :
        closeEc[e] = "ok" /\ closing[Other(e)] = "none"
            => /\ received[Other(e)] = written[e]
               /\ status[Other(e)] \in {"closed", "failed"}

(***************************************************************************)
(* asyncClose is answered also when the peer is dead or never reads, for   *)
(* want of which the handshake timeout is reduced.  The clock starts when  *)
(* the write lock is free: a close behind a write that cannot proceed      *)
(* waits with it, and is left out.                                         *)
(***************************************************************************)
CloseAnswered ==
    \A e \in Ends :
        (closing[e] = "async" /\ unsent[e] = 0) ~> (closing[e] = "done" \/ ~alive[e])

(***************************************************************************)
(* Whoever waits in a read when the peer closes is not left waiting.       *)
(***************************************************************************)
PeerHearsClose ==
    \A e \in Ends :
        (closing[Other(e)] # "none" /\ reading[e] > 0)
            ~> (reading[e] = 0 \/ \E o \in Ends : ~alive[o])

(***************************************************************************)
(* What the comment at reducedHandshakeTimeout says of both closes: with   *)
(* it a dead connection does not hold up the close.  The timers of beast   *)
(* watch asynchronous operations only, so the blocking close waits on.     *)
(***************************************************************************)
CloseReturns ==
    \A e \in Ends : (closing[e] = "blocking") ~> (closing[e] = "done" \/ ~alive[e])
=============================================================================
