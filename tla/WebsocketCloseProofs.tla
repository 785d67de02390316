------------------------ MODULE WebsocketCloseProofs ------------------------
(***************************************************************************)
(* Proofs about WebsocketClose, for every number of messages, every size   *)
(* of a read and every capacity of the wire.                               *)
(***************************************************************************)
EXTENDS WebsocketClose, SequenceTheorems, TLAPS

\* A close frame is the last of the frames on their way.
IsFrames(w)   == /\ w \in Seq({"message", "close"})
                 /\ \A i \in 1..Len(w) : i < Len(w) => w[i] = "message"
EndsStream(w) == Len(w) > 0 /\ w[Len(w)] = "close"
MessagesIn(w) == IF EndsStream(w) THEN Len(w) - 1 ELSE Len(w)

Frames == \A e \in Ends : IsFrames(wire[e])

\* Where the messages written at e are.  They are lost only if e fails, and
\* thrown away only by a peer that closes.
Accounted ==
    \A e \in Ends :
        /\ received[Other(e)] + MessagesIn(wire[e]) + unsent[e] <= written[e]
        /\ status[e] # "failed" /\ closing[Other(e)] = "none" =>
              received[Other(e)] + MessagesIn(wire[e]) + unsent[e] = written[e]

\* The handshake: nothing is written behind the own close frame, and an end is
\* closed only after the frames of both.
Handshake ==
    \A e \in Ends :
        /\ EndsStream(wire[e]) => status[e] # "open"
        /\ status[e] \in {"closing", "closed"} => unsent[e] = 0
        /\ status[e] = "closed" => status[Other(e)] # "open"
        /\ status[e] = "closing" => closing[e] # "none"

\* An end that was told in a read that the stream is over and did not close.
ToldTheEnd ==
    \A e \in Ends : told[e] \in {"closed", "eof"} =>
        /\ status[e] \in {"closed", "failed"}
        /\ closing[e] = "none" /\ status[Other(e)] # "failed" =>
              status[Other(e)] # "open" /\ received[e] = written[Other(e)]

\* The close frame of a peer that does not close itself is its reply, which it
\* sends after it has read everything, and so is the one that answers a close.
Replied ==
    \A e \in Ends :
        /\ EndsStream(wire[Other(e)]) /\ closing[Other(e)] = "none" =>
              /\ status[e] # "open"
              /\ status[Other(e)] \in {"closed", "failed"}
              /\ status[e] = "closing" => received[Other(e)] = written[e]
        /\ closeEc[e] = "ok" => status[e] \in {"closed", "failed"}

IInv == /\ TypeOK
        /\ Frames
        /\ Accounted
        /\ Handshake
        /\ ToldTheEnd
        /\ Replied
        /\ CloseDelivers

-----------------------------------------------------------------------------
(* The two ends, and what happens to the frames between them. *)

LEMMA TwoEnds ==
    ASSUME NEW e \in Ends
    PROVE  /\ Other(e) \in Ends /\ Other(e) # e /\ Other(Other(e)) = e
           /\ \A k \in Ends : k = e \/ k = Other(e)
BY DEF Ends, Other

LEMMA CountIsNat ==
    ASSUME NEW w, IsFrames(w)
    PROVE  /\ MessagesIn(w) \in Nat /\ EndsStream(w) \in BOOLEAN
           /\ Len(w) \in Nat /\ MessagesIn(w) <= Len(w)
BY DEF IsFrames, MessagesIn, EndsStream

LEMMA NoFrames == /\ IsFrames(<<>>) /\ MessagesIn(<<>>) = 0 /\ ~EndsStream(<<>>)
BY DEF IsFrames, MessagesIn, EndsStream

\* A frame is sent behind messages.
LEMMA SentFrame ==
    ASSUME NEW w, IsFrames(w), ~EndsStream(w), NEW frame \in {"message", "close"}
    PROVE  /\ IsFrames(Append(w, frame))
           /\ EndsStream(Append(w, frame)) <=> frame = "close"
           /\ MessagesIn(Append(w, frame))
                 = MessagesIn(w) + (IF frame = "message" THEN 1 ELSE 0)
<1> DEFINE v == Append(w, frame)
<1>1. /\ v \in Seq({"message", "close"}) /\ Len(v) = Len(w) + 1 /\ Len(w) \in Nat
      /\ \A i \in 1..Len(w) : v[i] = w[i]
      /\ v[Len(w) + 1] = frame
  BY DEF IsFrames
<1>2. \A i \in 1..Len(w) : w[i] = "message"
  BY DEF IsFrames, EndsStream
<1>3. IsFrames(v)
  BY <1>1, <1>2 DEF IsFrames
<1>4. EndsStream(v) <=> frame = "close"
  BY <1>1 DEF EndsStream
<1>5. MessagesIn(v) = MessagesIn(w) + (IF frame = "message" THEN 1 ELSE 0)
  BY <1>1, <1>4 DEF MessagesIn
<1> QED BY <1>3, <1>4, <1>5

\* The first frame is processed.
LEMMA ConsumedMessage ==
    ASSUME NEW w, IsFrames(w), w # <<>>, Head(w) = "message"
    PROVE  /\ IsFrames(Tail(w))
           /\ EndsStream(Tail(w)) <=> EndsStream(w)
           /\ MessagesIn(w) = MessagesIn(Tail(w)) + 1
<1>1. /\ Tail(w) \in Seq({"message", "close"}) /\ Len(Tail(w)) = Len(w) - 1
      /\ Len(w) \in Nat /\ Len(w) > 0 /\ w[1] = "message"
      /\ \A i \in 1..Len(Tail(w)) : Tail(w)[i] = w[i + 1]
  BY DEF IsFrames
<1>2. IsFrames(Tail(w))
  BY <1>1 DEF IsFrames
<1>3. EndsStream(Tail(w)) <=> EndsStream(w)
  <2>1. CASE Len(w) = 1
    <3>1. Len(Tail(w)) = 0 /\ w[Len(w)] = "message"
      BY <1>1, <2>1
    <3> QED BY <3>1 DEF EndsStream
  <2>2. CASE Len(w) > 1
    <3>1. Len(Tail(w)) \in 1..Len(Tail(w)) /\ Len(Tail(w)) + 1 = Len(w)
      BY <1>1, <2>2
    <3>2. Tail(w)[Len(Tail(w))] = w[Len(w)]
      BY <1>1, <3>1
    <3> QED BY <1>1, <3>1, <3>2 DEF EndsStream
  <2> QED BY <1>1, <2>1, <2>2
<1>4. MessagesIn(w) = MessagesIn(Tail(w)) + 1
  BY <1>1, <1>3 DEF MessagesIn
<1> QED BY <1>2, <1>3, <1>4

LEMMA ConsumedClose ==
    ASSUME NEW w, IsFrames(w), w # <<>>, Head(w) = "close"
    PROVE  Tail(w) = <<>> /\ EndsStream(w) /\ MessagesIn(w) = 0
<1>1. /\ Len(w) \in Nat /\ Len(w) > 0 /\ w[1] = "close"
      /\ Tail(w) \in Seq({"message", "close"}) /\ Len(Tail(w)) = Len(w) - 1
  BY DEF IsFrames
<1>2. Len(w) = 1
  BY <1>1 DEF IsFrames
<1>3. Tail(w) = <<>>
  <2>1. \A v \in Seq({"message", "close"}) : v # <<>> => Len(v) \in Nat \ {0}
    BY EmptySeq
  <2>2. Tail(w) \in Seq({"message", "close"}) /\ Len(Tail(w)) = 0
    BY <1>1, <1>2
  <2> QED BY <2>1, <2>2, Zenon
<1>4. EndsStream(w)
  BY <1>1, <1>2 DEF EndsStream
<1> QED BY <1>2, <1>3, <1>4 DEF MessagesIn

\* The last frames are lost.
LEMMA LostFrames ==
    ASSUME NEW w, IsFrames(w), NEW n \in 0..Len(w)
    PROVE  /\ IsFrames(SubSeq(w, 1, n))
           /\ EndsStream(SubSeq(w, 1, n)) => EndsStream(w)
           /\ MessagesIn(SubSeq(w, 1, n)) <= MessagesIn(w)
<1> DEFINE v == SubSeq(w, 1, n)
<1>1. /\ v \in Seq({"message", "close"}) /\ Len(v) = n /\ Len(w) \in Nat
      /\ \A i \in 1..n : v[i] = w[i]
  BY DEF IsFrames
<1>2. IsFrames(v)
  BY <1>1 DEF IsFrames
<1>3. CASE n = Len(w)
  <2>1. v = w
    BY <1>1, <1>3 DEF IsFrames
  <2>2. MessagesIn(v) = MessagesIn(w) /\ MessagesIn(w) \in Nat
    BY <2>1, CountIsNat
  <2>3. EndsStream(v) => EndsStream(w)
    BY <2>1
  <2> HIDE DEF v
  <2>4. MessagesIn(v) <= MessagesIn(w)
    BY <2>2
  <2> QED BY <1>2, <2>3, <2>4 DEF v
<1>4. CASE n < Len(w)
  <2>1. ~EndsStream(v)
    BY <1>1, <1>4 DEF IsFrames, EndsStream
  <2> QED BY <1>1, <1>2, <1>4, <2>1 DEF MessagesIn
<1> QED BY <1>3, <1>4

LEMMA Numbers ==
    ASSUME TypeOK, Frames
    PROVE  /\ \A k \in Ends : /\ MessagesIn(wire[k]) \in Nat /\ unsent[k] \in 0..1
                              /\ received[k] \in Nat /\ written[k] \in Nat
                              /\ written[k] <= MaxMessages
           /\ MaxMessages \in Nat /\ MaxRequest \in Nat
BY CountIsNat, WebsocketCloseAssumption DEF TypeOK, Frames

LEMMA InitIInv == Init => IInv
<1> SUFFICES ASSUME Init PROVE IInv
  OBVIOUS
<1>1. TypeOK
  BY WebsocketCloseAssumption DEF Init, TypeOK, SetOptions, ErrorCodes
<1>2. \A e \in Ends : /\ wire[e] = <<>> /\ received[e] = 0 /\ written[e] = 0
                      /\ unsent[e] = 0 /\ status[e] = "open" /\ told[e] = "none"
                      /\ closeEc[e] = "none"
  BY DEF Init
<1>3. Frames /\ \A e \in Ends : MessagesIn(wire[e]) = 0 /\ ~EndsStream(wire[e])
  BY <1>2, NoFrames DEF Frames
<1>4. Accounted /\ Handshake /\ ToldTheEnd /\ Replied /\ CloseDelivers
  BY <1>2, <1>3, TwoEnds DEF Accounted, Handshake, ToldTheEnd, Replied, CloseDelivers
<1> QED BY <1>1, <1>3, <1>4 DEF IInv

-----------------------------------------------------------------------------
(* The application. *)

LEMMA ReadAtLeastStep ==
    ASSUME IInv, NEW e \in Ends, ReadAtLeast(e)
    PROVE  IInv'
<1>1. /\ told' = told \/ told' = [told EXCEPT ![e] = "aborted"]
      /\ reading' \in [Ends -> 0..MaxRequest]
      /\ UNCHANGED <<status, handshakeTimeout, alive, wire, unsent, written,
                     received, closing, closeEc>>
  <2>1. CASE status[e] \in {"open", "closing"}
    <3>1. PICK n \in 1..MaxRequest : reading' = [reading EXCEPT ![e] = n]
      BY <2>1 DEF ReadAtLeast
    <3>2. reading' \in [Ends -> 0..MaxRequest]
      BY <3>1, WebsocketCloseAssumption DEF IInv, TypeOK
    <3> QED BY <2>1, <3>2 DEF ReadAtLeast
  <2>2. CASE status[e] \in {"closed", "failed"}
    BY <2>2 DEF ReadAtLeast, IInv, TypeOK
  <2> QED BY <2>1, <2>2 DEF ReadAtLeast
<1>2. TypeOK'
  BY <1>1 DEF IInv, TypeOK, ErrorCodes
<1>3. ToldTheEnd'
  BY <1>1 DEF IInv, ToldTheEnd, TypeOK
<1> QED BY <1>1, <1>2, <1>3 DEF IInv, Frames, Accounted, Handshake, Replied, CloseDelivers

LEMMA WriteStep ==
    ASSUME IInv, NEW e \in Ends, Write(e)
    PROVE  IInv'
<1>1. /\ status[e] = "open" /\ closing[e] = "none"
      /\ unsent[e] = 0 /\ written[e] < MaxMessages
      /\ unsent' = [unsent EXCEPT ![e] = @ + 1]
      /\ written' = [written EXCEPT ![e] = @ + 1]
      /\ UNCHANGED <<status, handshakeTimeout, alive, wire, received, reading,
                     told, closing, closeEc>>
  BY DEF Write
<1>2. TypeOK'
  BY <1>1, WebsocketCloseAssumption DEF IInv, TypeOK
<1>3. /\ \A k \in Ends : k # e => unsent'[k] = unsent[k] /\ written'[k] = written[k]
      /\ unsent'[e] = unsent[e] + 1 /\ written'[e] = written[e] + 1
  BY <1>1 DEF IInv, TypeOK
<1>4. Accounted'
  BY <1>1, <1>3, Numbers, TwoEnds DEF IInv, Accounted
<1>5. Handshake'
  BY <1>1, <1>3 DEF IInv, Handshake
<1>6. ToldTheEnd' /\ Replied' /\ CloseDelivers'
  BY <1>1, <1>3, TwoEnds DEF IInv, ToldTheEnd, Replied, CloseDelivers
<1> QED BY <1>1, <1>2, <1>4, <1>5, <1>6 DEF IInv, Frames

LEMMA RequestCloseStep ==
    ASSUME IInv, NEW e \in Ends, NEW kind \in {"async", "blocking"}, RequestClose(e, kind)
    PROVE  IInv'
<1>1. /\ closing[e] = "none"
      /\ handshakeTimeout' = [handshakeTimeout EXCEPT ![e] = "reduced"]
      /\ \/ closing' = [closing EXCEPT ![e] = kind] /\ UNCHANGED closeEc
         \/ /\ closing' = [closing EXCEPT ![e] = "done"]
            /\ closeEc' = [closeEc EXCEPT ![e] = "aborted"]
      /\ UNCHANGED <<status, alive, wire, unsent, written, received, reading, told>>
  BY DEF RequestClose, ReducedHandshakeTimeout
<1>2. TypeOK'
  <2>1. closing' \in [Ends -> {"none", "async", "blocking", "done"}]
    BY <1>1 DEF IInv, TypeOK
  <2>2. closeEc' \in [Ends -> ErrorCodes]
    BY <1>1 DEF IInv, TypeOK, ErrorCodes
  <2>3. handshakeTimeout' \in [Ends -> {"suggested", "reduced"}]
    BY <1>1 DEF IInv, TypeOK
  <2> QED BY <1>1, <2>1, <2>2, <2>3 DEF IInv, TypeOK
<1>3. \A k \in Ends : /\ closing'[k] = "none" => closing[k] = "none"
                      /\ closeEc'[k] = "ok" => closeEc[k] = "ok"
  BY <1>1 DEF IInv, TypeOK
<1>4. Accounted' /\ Handshake' /\ ToldTheEnd' /\ Replied' /\ CloseDelivers'
  BY <1>1, <1>3, TwoEnds DEF IInv, Accounted, Handshake, ToldTheEnd, Replied, CloseDelivers
<1> QED BY <1>1, <1>2, <1>4 DEF IInv, Frames

-----------------------------------------------------------------------------
(* The connection. *)

LEMMA SendMessageStep ==
    ASSUME IInv, NEW e \in Ends, SendMessage(e)
    PROVE  IInv'
<1>1. /\ status[e] \in {"open", "closing"} /\ unsent[e] > 0
      /\ wire' = [wire EXCEPT ![e] = Append(@, "message")]
      /\ unsent' = [unsent EXCEPT ![e] = 0]
      /\ UNCHANGED <<status, handshakeTimeout, alive, written, received, reading,
                     told, closing, closeEc>>
  BY DEF SendMessage, Running
<1>2. status[e] = "open" /\ unsent[e] = 1 /\ IsFrames(wire[e]) /\ ~EndsStream(wire[e])
  BY <1>1 DEF IInv, TypeOK, Handshake, Frames
<1>3. /\ wire'[e] = Append(wire[e], "message") /\ unsent'[e] = 0
      /\ \A k \in Ends : k # e => wire'[k] = wire[k] /\ unsent'[k] = unsent[k]
  BY <1>1 DEF IInv, TypeOK
<1>4. /\ IsFrames(wire'[e]) /\ ~EndsStream(wire'[e])
      /\ MessagesIn(wire'[e]) = MessagesIn(wire[e]) + 1
  BY <1>2, <1>3, SentFrame
<1>5. TypeOK'
  <2>1. wire' \in [Ends -> Seq({"message", "close"})]
    BY <1>1 DEF IInv, TypeOK
  <2>2. unsent' \in [Ends -> 0..1]
    BY <1>1 DEF IInv, TypeOK
  <2> QED BY <1>1, <2>1, <2>2 DEF IInv, TypeOK
<1>6. Frames'
  BY <1>3, <1>4 DEF IInv, Frames
<1>7. Accounted'
  <2>1. MessagesIn(wire[e]) \in Nat /\ received[Other(e)] \in Nat /\ written[e] \in Nat
    BY Numbers, TwoEnds DEF IInv
  <2>2. \A k \in Ends : /\ Other(k) \in Ends
                        /\ received'[Other(k)] = received[Other(k)]
                        /\ written'[k] = written[k] /\ status'[k] = status[k]
                        /\ closing'[Other(k)] = closing[Other(k)]
    BY <1>1, TwoEnds
  <2>3. MessagesIn(wire'[e]) + unsent'[e] = MessagesIn(wire[e]) + unsent[e]
    BY <1>2, <1>3, <1>4, <2>1
  <2>4. ASSUME NEW k \in Ends, k # e
        PROVE  MessagesIn(wire'[k]) = MessagesIn(wire[k]) /\ unsent'[k] = unsent[k]
    BY <1>3, <2>4
  <2>5. ASSUME NEW k \in Ends
        PROVE  received[Other(k)] + (MessagesIn(wire'[k]) + unsent'[k])
                  = received[Other(k)] + (MessagesIn(wire[k]) + unsent[k])
    BY <2>3, <2>4
  <2>6. \A k \in Ends : /\ MessagesIn(wire[k]) \in Nat /\ unsent[k] \in Nat
                        /\ received[Other(k)] \in Nat
    BY Numbers, TwoEnds DEF IInv
  <2>7. MessagesIn(wire'[e]) \in Nat /\ unsent'[e] \in Nat
    BY <1>3, <1>4, <2>1
  <2>8. \A k \in Ends : MessagesIn(wire'[k]) \in Nat /\ unsent'[k] \in Nat
    BY <2>4, <2>6, <2>7
  <2> QED BY <2>2, <2>5, <2>6, <2>8 DEF IInv, Accounted
<1>8. Handshake' /\ ToldTheEnd' /\ Replied' /\ CloseDelivers'
  BY <1>1, <1>3, <1>4, TwoEnds DEF IInv, Handshake, ToldTheEnd, Replied, CloseDelivers
<1> QED BY <1>5, <1>6, <1>7, <1>8 DEF IInv

LEMMA SendCloseStep ==
    ASSUME IInv, NEW e \in Ends, SendClose(e)
    PROVE  IInv'
<1>1. /\ status[e] = "open" /\ closing[e] # "none" /\ unsent[e] = 0
      /\ status' = [status EXCEPT ![e] = "closing"]
      /\ wire' = [wire EXCEPT ![e] = Append(@, "close")]
      /\ UNCHANGED <<handshakeTimeout, alive, unsent, written, received, reading,
                     told, closing, closeEc>>
  BY DEF SendClose, CloseWaits
<1>2. IsFrames(wire[e]) /\ ~EndsStream(wire[e])
  BY <1>1 DEF IInv, Handshake, Frames
<1>3. /\ wire'[e] = Append(wire[e], "close") /\ status'[e] = "closing"
      /\ \A k \in Ends : k # e => wire'[k] = wire[k] /\ status'[k] = status[k]
  BY <1>1 DEF IInv, TypeOK
<1>4. /\ IsFrames(wire'[e]) /\ EndsStream(wire'[e])
      /\ MessagesIn(wire'[e]) = MessagesIn(wire[e])
  BY <1>2, <1>3, SentFrame, CountIsNat
<1>5. TypeOK'
  <2>1. wire' \in [Ends -> Seq({"message", "close"})]
    BY <1>1 DEF IInv, TypeOK
  <2>2. status' \in [Ends -> {"open", "closing", "closed", "failed"}]
    BY <1>1 DEF IInv, TypeOK
  <2> QED BY <1>1, <2>1, <2>2 DEF IInv, TypeOK
<1>6. Frames'
  BY <1>3, <1>4 DEF IInv, Frames
<1>7. Accounted'
  BY <1>1, <1>3, <1>4, Numbers, TwoEnds DEF IInv, Accounted
<1>8. Handshake'
  BY <1>1, <1>3, <1>4, TwoEnds DEF IInv, Handshake
<1>9. ToldTheEnd' /\ CloseDelivers'
  BY <1>1, <1>3, <1>4, TwoEnds DEF IInv, ToldTheEnd, CloseDelivers
<1>10. Replied'
  BY <1>1, <1>3, <1>4, TwoEnds DEF IInv, Replied
<1> QED BY <1>5, <1>6, <1>7, <1>8, <1>9, <1>10 DEF IInv

\* The first frame from the peer is a message, and is taken.
LEMMA MessageTaken ==
    ASSUME IInv, NEW e \in Ends, Incoming(e, "message"), Consume(e)
    PROVE  /\ wire' \in [Ends -> Seq({"message", "close"})]
           /\ Frames'
           /\ \A k \in Ends : EndsStream(wire'[k]) <=> EndsStream(wire[k])
           /\ MessagesIn(wire[Other(e)]) = MessagesIn(wire'[Other(e)]) + 1
           /\ wire'[e] = wire[e]
<1>1. /\ wire[Other(e)] # <<>> /\ Head(wire[Other(e)]) = "message"
      /\ wire' = [wire EXCEPT ![Other(e)] = Tail(@)]
      /\ Other(e) \in Ends /\ Other(e) # e /\ wire \in [Ends -> Seq({"message", "close"})]
  BY TwoEnds DEF Incoming, Consume, IInv, TypeOK
<1>2. wire'[Other(e)] = Tail(wire[Other(e)]) /\ wire'[e] = wire[e]
  BY <1>1
<1>3. IsFrames(wire[Other(e)]) /\ IsFrames(wire[e])
  BY <1>1 DEF IInv, Frames
<1>4. /\ IsFrames(Tail(wire[Other(e)]))
      /\ EndsStream(Tail(wire[Other(e)])) <=> EndsStream(wire[Other(e)])
      /\ MessagesIn(wire[Other(e)]) = MessagesIn(Tail(wire[Other(e)])) + 1
  BY <1>1, <1>3, ConsumedMessage
<1>5. wire' \in [Ends -> Seq({"message", "close"})]
  BY <1>1
<1> QED BY <1>2, <1>3, <1>4, <1>5, TwoEnds DEF Frames

LEMMA DeliverMessageStep ==
    ASSUME IInv, NEW e \in Ends, DeliverMessage(e)
    PROVE  IInv'
<1>0. PICK o \in Ends : o = Other(e) /\ o # e /\ Other(o) = e /\ \A k \in Ends : k = e \/ k = o
  BY TwoEnds
<1>1. /\ status[e] \in {"open", "closing"} /\ reading[e] > 0
      /\ received' = [received EXCEPT ![e] = @ + 1]
      /\ reading' = [reading EXCEPT ![e] = @ - 1]
      /\ told' = [told EXCEPT ![e] = "ok"] \/ told' = told
      /\ UNCHANGED <<status, handshakeTimeout, alive, unsent, written, closing, closeEc>>
  BY DEF DeliverMessage, Running, IInv, TypeOK
<1>2. /\ wire' \in [Ends -> Seq({"message", "close"})]
      /\ Frames'
      /\ \A k \in Ends : EndsStream(wire'[k]) <=> EndsStream(wire[k])
      /\ MessagesIn(wire[o]) = MessagesIn(wire'[o]) + 1
      /\ wire'[e] = wire[e]
  BY <1>0, MessageTaken DEF DeliverMessage
<1>3. /\ \A k \in Ends : k # e => received'[k] = received[k] /\ told'[k] = told[k]
      /\ received'[e] = received[e] + 1 /\ told'[e] \in {told[e], "ok"}
  BY <1>1 DEF IInv, TypeOK
<1>4. /\ MessagesIn(wire'[o]) \in Nat /\ MessagesIn(wire[o]) \in Nat
      /\ received[e] \in Nat /\ unsent[o] \in 0..1
      /\ written[o] \in Nat /\ written[o] <= MaxMessages /\ MaxMessages \in Nat
  BY <1>0, <1>2, CountIsNat, Numbers DEF IInv, Frames
<1>5. Accounted'
  <2>2. /\ received[e] + MessagesIn(wire[o]) + unsent[o] <= written[o]
        /\ status[o] # "failed" /\ closing[e] = "none" =>
              received[e] + MessagesIn(wire[o]) + unsent[o] = written[o]
    BY <1>0 DEF IInv, Accounted
  <2>3. received'[e] + MessagesIn(wire'[o]) = received[e] + MessagesIn(wire[o])
    <3>1. received'[e] = received[e] + 1 /\ MessagesIn(wire[o]) = MessagesIn(wire'[o]) + 1
      BY <1>2, <1>3
    <3>2. received[e] \in Nat /\ MessagesIn(wire'[o]) \in Nat
      BY <1>4
    <3> QED BY <3>1, <3>2
  <2>4. /\ received'[e] + MessagesIn(wire'[o]) + unsent'[o] <= written'[o]
        /\ status'[o] # "failed" /\ closing'[e] = "none" =>
              received'[e] + MessagesIn(wire'[o]) + unsent'[o] = written'[o]
    BY <1>1, <2>2, <2>3
  <2>5. /\ received'[o] + MessagesIn(wire'[e]) + unsent'[e] <= written'[e]
        /\ status'[e] # "failed" /\ closing'[o] = "none" =>
              received'[o] + MessagesIn(wire'[e]) + unsent'[e] = written'[e]
    BY <1>0, <1>1, <1>2, <1>3 DEF IInv, Accounted
  <2> QED BY <1>0, <2>4, <2>5 DEF Accounted
<1>6. TypeOK'
  <2>1. received' \in [Ends -> 0..MaxMessages]
    <3>1. received[e] < MaxMessages
      BY <1>0, <1>2, <1>4 DEF IInv, Accounted
    <3> QED BY <1>1, <1>4, <3>1 DEF IInv, TypeOK
  <2>2. reading' \in [Ends -> 0..MaxRequest]
    BY <1>1, WebsocketCloseAssumption DEF IInv, TypeOK
  <2>3. told' \in [Ends -> ErrorCodes]
    BY <1>1 DEF IInv, TypeOK, ErrorCodes
  <2> QED BY <1>1, <1>2, <2>1, <2>2, <2>3 DEF IInv, TypeOK
<1>7. Handshake'
  BY <1>0, <1>1, <1>2 DEF IInv, Handshake
<1>8. ToldTheEnd'
  BY <1>0, <1>1, <1>3 DEF IInv, ToldTheEnd
<1>9. Replied'
  <2>1. /\ status'[e] = status[e] /\ status[e] \notin {"closed", "failed"}
        /\ status'[o] = status[o] /\ received'[o] = received[o]
        /\ UNCHANGED <<written, closing, closeEc>>
    BY <1>0, <1>1, <1>3
  <2>2. /\ EndsStream(wire'[e]) <=> EndsStream(wire[e])
        /\ EndsStream(wire'[o]) <=> EndsStream(wire[o])
    BY <1>2
  <2> QED BY <1>0, <2>1, <2>2 DEF IInv, Replied
<1>10. CloseDelivers'
  BY <1>0, <1>1, <1>3 DEF IInv, CloseDelivers
<1> QED BY <1>2, <1>5, <1>6, <1>7, <1>8, <1>9, <1>10 DEF IInv

LEMMA DiscardMessageStep ==
    ASSUME IInv, NEW e \in Ends, DiscardMessage(e)
    PROVE  IInv'
<1>0. PICK o \in Ends : o = Other(e) /\ o # e /\ Other(o) = e /\ \A k \in Ends : k = e \/ k = o
  BY TwoEnds
<1>1. /\ status[e] = "closing" /\ closing[e] # "none"
      /\ UNCHANGED <<status, handshakeTimeout, alive, unsent, written, received,
                     reading, told, closing, closeEc>>
  BY DEF DiscardMessage, CloseWaits
<1>2. /\ wire' \in [Ends -> Seq({"message", "close"})]
      /\ Frames'
      /\ \A k \in Ends : EndsStream(wire'[k]) <=> EndsStream(wire[k])
      /\ MessagesIn(wire[o]) = MessagesIn(wire'[o]) + 1
      /\ wire'[e] = wire[e]
  BY <1>0, MessageTaken DEF DiscardMessage
<1>3. /\ MessagesIn(wire'[o]) \in Nat /\ received[e] \in Nat /\ unsent[o] \in 0..1
      /\ written[o] \in Nat
  BY <1>0, <1>2, CountIsNat, Numbers DEF IInv, Frames
<1>4. TypeOK'
  BY <1>1, <1>2 DEF IInv, TypeOK
<1>5. Accounted'
  <2>1. received'[e] + MessagesIn(wire'[o]) + unsent'[o] <= written'[o]
    <3>1. received[e] + MessagesIn(wire[o]) + unsent[o] <= written[o]
      BY <1>0 DEF IInv, Accounted
    <3> QED BY <1>1, <1>2, <1>3, <3>1
  <2>2. closing'[e] # "none"
    BY <1>1
  <2>3. /\ received'[o] + MessagesIn(wire'[e]) + unsent'[e] <= written'[e]
        /\ status'[e] # "failed" /\ closing'[o] = "none" =>
              received'[o] + MessagesIn(wire'[e]) + unsent'[e] = written'[e]
    BY <1>0, <1>1, <1>2 DEF IInv, Accounted
  <2> QED BY <1>0, <2>1, <2>2, <2>3 DEF Accounted
<1>6. Handshake' /\ ToldTheEnd'
  BY <1>0, <1>1, <1>2 DEF IInv, Handshake, ToldTheEnd
<1>7. Replied' /\ CloseDelivers'
  BY <1>0, <1>1, <1>2 DEF IInv, Replied, CloseDelivers
<1> QED BY <1>2, <1>4, <1>5, <1>6, <1>7 DEF IInv

\* What the answers to an outstanding read and close change.
LEMMA Answers ==
    ASSUME TypeOK, NEW e \in Ends, NEW readEc \in ErrorCodes, NEW ec \in ErrorCodes,
           AnswerRead(e, readEc), AnswerClose(e, ec)
    PROVE  /\ reading' \in [Ends -> 0..MaxRequest] /\ told' \in [Ends -> ErrorCodes]
           /\ closing' \in [Ends -> {"none", "async", "blocking", "done"}]
           /\ closeEc' \in [Ends -> ErrorCodes]
           /\ told'[e] \in {told[e], readEc} /\ closeEc'[e] \in {closeEc[e], ec}
           /\ \A k \in Ends : /\ closing'[k] = "none" <=> closing[k] = "none"
                              /\ k # e => told'[k] = told[k] /\ closeEc'[k] = closeEc[k]
<1>1. /\ reading' \in [Ends -> 0..MaxRequest]
      /\ told' = told \/ told' = [told EXCEPT ![e] = readEc]
  BY WebsocketCloseAssumption DEF AnswerRead, TypeOK
<1>2. \/ closing' = closing /\ closeEc' = closeEc
      \/ /\ closing[e] # "none" /\ closing' = [closing EXCEPT ![e] = "done"]
         /\ closeEc' = [closeEc EXCEPT ![e] = ec]
  BY DEF AnswerClose, CloseWaits
<1>3. told' \in [Ends -> ErrorCodes] /\ told'[e] \in {told[e], readEc}
  BY <1>1 DEF TypeOK
<1>4. closeEc' \in [Ends -> ErrorCodes] /\ closeEc'[e] \in {closeEc[e], ec}
  <2>1. closeEc \in [Ends -> ErrorCodes]
    BY DEF TypeOK
  <2>2. closeEc' = closeEc \/ closeEc' = [closeEc EXCEPT ![e] = ec]
    BY <1>2
  <2> QED BY <2>1, <2>2
<1>5. closing' \in [Ends -> {"none", "async", "blocking", "done"}]
  BY <1>2 DEF TypeOK
<1>6. \A k \in Ends : closing'[k] = "none" <=> closing[k] = "none"
  BY <1>2 DEF TypeOK
<1>7. \A k \in Ends : k # e => told'[k] = told[k] /\ closeEc'[k] = closeEc[k]
  BY <1>1, <1>2 DEF TypeOK
<1> QED BY <1>1, <1>3, <1>4, <1>5, <1>6, <1>7

LEMMA ReplyCloseStep ==
    ASSUME IInv, NEW e \in Ends, ReplyClose(e)
    PROVE  IInv'
<1>0. PICK o \in Ends : o = Other(e) /\ o # e /\ Other(o) = e /\ \A k \in Ends : k = e \/ k = o
  BY TwoEnds
<1>1. /\ status[e] = "open" /\ unsent[e] = 0
      /\ wire[o] # <<>> /\ Head(wire[o]) = "close"
      /\ wire' = [wire EXCEPT ![o] = Tail(@), ![e] = Append(@, "close")]
      /\ status' = [status EXCEPT ![e] = "closed"]
      /\ UNCHANGED <<handshakeTimeout, alive, unsent, written, received>>
  BY <1>0 DEF ReplyClose, Incoming
<1>2. /\ reading' \in [Ends -> 0..MaxRequest] /\ told' \in [Ends -> ErrorCodes]
      /\ closing' \in [Ends -> {"none", "async", "blocking", "done"}]
      /\ closeEc' \in [Ends -> ErrorCodes]
      /\ told'[e] \in {told[e], "closed"} /\ closeEc'[e] \in {closeEc[e], "aborted"}
      /\ \A k \in Ends : closing'[k] = "none" <=> closing[k] = "none"
      /\ told'[o] = told[o] /\ closeEc'[o] = closeEc[o]
  BY <1>0, Answers DEF ReplyClose, IInv, ErrorCodes
<1>3. /\ wire'[o] = Tail(wire[o]) /\ wire'[e] = Append(wire[e], "close")
      /\ status'[e] = "closed" /\ status'[o] = status[o]
  BY <1>0, <1>1 DEF IInv, TypeOK
<1>4. /\ IsFrames(wire[e]) /\ IsFrames(wire[o]) /\ ~EndsStream(wire[e])
  BY <1>1 DEF IInv, Handshake, Frames
<1>5. /\ wire'[o] = <<>> /\ EndsStream(wire[o]) /\ MessagesIn(wire[o]) = 0
      /\ IsFrames(wire'[o]) /\ ~EndsStream(wire'[o]) /\ MessagesIn(wire'[o]) = 0
  BY <1>1, <1>3, <1>4, ConsumedClose, NoFrames
<1>6. /\ IsFrames(wire'[e]) /\ EndsStream(wire'[e])
      /\ MessagesIn(wire'[e]) = MessagesIn(wire[e])
  BY <1>3, <1>4, SentFrame, CountIsNat
<1>7. status[o] # "open" /\ (status[o] # "failed" => unsent[o] = 0)
  BY <1>1, <1>5 DEF IInv, Handshake, TypeOK
<1>8. /\ received[e] \in Nat /\ written[o] \in Nat /\ unsent[o] \in 0..1
  BY Numbers DEF IInv
<1>9. status[o] # "failed" /\ closing[e] = "none" => received[e] = written[o]
  BY <1>0, <1>5, <1>7, <1>8 DEF IInv, Accounted
<1>10. TypeOK'
  <2>1. wire' \in [Ends -> Seq({"message", "close"})]
    <3>1. /\ wire'[o] \in Seq({"message", "close"})
          /\ wire'[e] \in Seq({"message", "close"})
      BY <1>5, <1>6 DEF IsFrames
    <3>2. DOMAIN wire' = Ends /\ wire' = [k \in Ends |-> wire'[k]]
      BY <1>1 DEF IInv, TypeOK
    <3> QED BY <1>0, <3>1, <3>2
  <2>2. status' \in [Ends -> {"open", "closing", "closed", "failed"}]
    BY <1>1 DEF IInv, TypeOK
  <2> QED BY <1>1, <1>2, <2>1, <2>2 DEF IInv, TypeOK
<1>11. Frames'
  BY <1>0, <1>5, <1>6 DEF Frames
<1>12. Accounted'
  <2>1. /\ received'[o] + MessagesIn(wire'[e]) + unsent'[e] <= written'[e]
        /\ status'[e] # "failed" /\ closing'[o] = "none" =>
              received'[o] + MessagesIn(wire'[e]) + unsent'[e] = written'[e]
    BY <1>0, <1>1, <1>2, <1>6 DEF IInv, Accounted
  <2>2. /\ received'[e] + MessagesIn(wire'[o]) + unsent'[o] <= written'[o]
        /\ status'[o] # "failed" /\ closing'[e] = "none" =>
              received'[e] + MessagesIn(wire'[o]) + unsent'[o] = written'[o]
    <3>1. /\ received[e] + MessagesIn(wire[o]) + unsent[o] <= written[o]
          /\ status[o] # "failed" /\ closing[e] = "none" =>
                received[e] + MessagesIn(wire[o]) + unsent[o] = written[o]
      BY <1>0 DEF IInv, Accounted
    <3>2. /\ UNCHANGED <<received, unsent, written>> /\ status'[o] = status[o]
          /\ closing'[e] = "none" <=> closing[e] = "none"
          /\ MessagesIn(wire'[o]) = MessagesIn(wire[o])
      BY <1>1, <1>2, <1>3, <1>5
    <3> QED BY <3>1, <3>2
  <2> QED BY <1>0, <2>1, <2>2 DEF Accounted
<1>13. Handshake'
  BY <1>0, <1>1, <1>2, <1>3, <1>5, <1>7 DEF IInv, Handshake
<1>14. ToldTheEnd'
  BY <1>0, <1>1, <1>2, <1>3, <1>7, <1>9 DEF IInv, ToldTheEnd
<1>15. Replied'
  BY <1>0, <1>1, <1>2, <1>3, <1>5, <1>6, <1>7, <1>9 DEF IInv, Replied
<1>16. CloseDelivers'
  <2>1. closeEc'[e] # "ok"
    BY <1>1, <1>2 DEF IInv, Replied
  <2>2. closeEc'[o] = "ok" /\ closing'[e] = "none" => received'[e] = written'[o]
    BY <1>0, <1>1, <1>2 DEF IInv, CloseDelivers
  <2> QED BY <1>0, <1>3, <2>1, <2>2 DEF CloseDelivers
<1> QED BY <1>10, <1>11, <1>12, <1>13, <1>14, <1>15, <1>16 DEF IInv

LEMMA FinishCloseStep ==
    ASSUME IInv, NEW e \in Ends, FinishClose(e)
    PROVE  IInv'
<1>0. PICK o \in Ends : o = Other(e) /\ o # e /\ Other(o) = e /\ \A k \in Ends : k = e \/ k = o
  BY TwoEnds
<1>1. /\ status[e] = "closing"
      /\ wire[o] # <<>> /\ Head(wire[o]) = "close"
      /\ wire' = [wire EXCEPT ![o] = Tail(@)]
      /\ status' = [status EXCEPT ![e] = "closed"]
      /\ UNCHANGED <<handshakeTimeout, alive, unsent, written, received>>
  BY <1>0 DEF FinishClose, Incoming, Consume
<1>2. /\ reading' \in [Ends -> 0..MaxRequest] /\ told' \in [Ends -> ErrorCodes]
      /\ closing' \in [Ends -> {"none", "async", "blocking", "done"}]
      /\ closeEc' \in [Ends -> ErrorCodes]
      /\ \A k \in Ends : closing'[k] = "none" <=> closing[k] = "none"
      /\ told'[o] = told[o] /\ closeEc'[o] = closeEc[o]
  BY <1>0, Answers DEF FinishClose, IInv, ErrorCodes
<1>3. /\ wire'[o] = Tail(wire[o]) /\ wire'[e] = wire[e]
      /\ status'[e] = "closed" /\ status'[o] = status[o]
  BY <1>0, <1>1 DEF IInv, TypeOK
<1>4. IsFrames(wire[e]) /\ IsFrames(wire[o])
  BY DEF IInv, Frames
<1>5. /\ wire'[o] = <<>> /\ EndsStream(wire[o]) /\ MessagesIn(wire[o]) = 0
      /\ IsFrames(wire'[o]) /\ ~EndsStream(wire'[o]) /\ MessagesIn(wire'[o]) = 0
  BY <1>1, <1>3, <1>4, ConsumedClose, NoFrames
<1>6. closing[e] # "none" /\ unsent[e] = 0 /\ status[o] # "open"
  BY <1>1, <1>5 DEF IInv, Handshake
<1>7. closing[o] = "none" => status[o] \in {"closed", "failed"} /\ received[o] = written[e]
  BY <1>0, <1>1, <1>5 DEF IInv, Replied
<1>8. TypeOK'
  <2>1. wire' \in [Ends -> Seq({"message", "close"})]
    BY <1>0, <1>1 DEF IInv, TypeOK
  <2>2. status' \in [Ends -> {"open", "closing", "closed", "failed"}]
    BY <1>1 DEF IInv, TypeOK
  <2> QED BY <1>1, <1>2, <2>1, <2>2 DEF IInv, TypeOK
<1>9. Frames'
  BY <1>0, <1>3, <1>4, <1>5 DEF Frames
<1>10. Accounted'
  BY <1>0, <1>1, <1>2, <1>3, <1>5 DEF IInv, Accounted
<1>11. Handshake'
  BY <1>0, <1>1, <1>2, <1>3, <1>5, <1>6 DEF IInv, Handshake
<1>12. ToldTheEnd'
  BY <1>0, <1>1, <1>2, <1>3, <1>6 DEF IInv, ToldTheEnd
<1>13. Replied'
  BY <1>0, <1>1, <1>2, <1>3, <1>5, <1>6, <1>7 DEF IInv, Replied
<1>14. CloseDelivers'
  <2>1. closing'[o] = "none" =>
           status'[o] \in {"closed", "failed"} /\ received'[o] = written'[e]
    BY <1>1, <1>2, <1>3, <1>7
  <2>2. closing'[e] # "none"
    BY <1>2, <1>6
  <2> QED BY <1>0, <2>1, <2>2 DEF CloseDelivers
<1> QED BY <1>8, <1>9, <1>10, <1>11, <1>12, <1>13, <1>14 DEF IInv

\* The stream of e fails: what it had not sent, and part of what it had, is lost.
LEMMA FailedStep ==
    ASSUME IInv, TypeOK', NEW e \in Ends, NEW o \in Ends,
           o = Other(e) /\ o # e /\ Other(o) = e /\ \A k \in Ends : k = e \/ k = o,
           status' = [status EXCEPT ![e] = "failed"],
           IsFrames(wire'[e]), EndsStream(wire'[e]) => EndsStream(wire[e]),
           MessagesIn(wire'[e]) <= MessagesIn(wire[e]), wire'[o] = wire[o],
           unsent'[e] \in 0..unsent[e], unsent'[o] = unsent[o],
           UNCHANGED <<written, received>>,
           \A k \in Ends : closing'[k] = "none" <=> closing[k] = "none",
           told'[o] = told[o] /\ told'[e] \in {told[e], "aborted", "eof"},
           told'[e] = "eof" => told[e] = "eof" \/ closing[e] # "none" \/ status[o] = "failed",
           closeEc'[o] = closeEc[o] /\ closeEc'[e] \in {closeEc[e], "timeout", "eof"}
    PROVE  IInv'
<1>1. status'[e] = "failed" /\ status'[o] = status[o]
  BY DEF IInv, TypeOK
<1>2. Frames'
  BY DEF IInv, Frames
<1>3. Accounted'
  <2>1. /\ received'[o] + MessagesIn(wire'[e]) + unsent'[e] <= written'[e]
    <3>1. received[o] + MessagesIn(wire[e]) + unsent[e] <= written[e]
      BY DEF IInv, Accounted
    <3>2. /\ MessagesIn(wire[e]) \in Nat /\ MessagesIn(wire'[e]) \in Nat
          /\ received[o] \in Nat /\ written[e] \in Nat
          /\ unsent[e] \in Nat /\ unsent'[e] \in Nat /\ unsent'[e] <= unsent[e]
      BY Numbers, CountIsNat DEF IInv
    <3> QED BY <3>1, <3>2
  <2>2. /\ received'[e] + MessagesIn(wire'[o]) + unsent'[o] <= written'[o]
        /\ status'[o] # "failed" /\ closing'[e] = "none" =>
              received'[e] + MessagesIn(wire'[o]) + unsent'[o] = written'[o]
    <3>1. /\ received[e] + MessagesIn(wire[o]) + unsent[o] <= written[o]
          /\ status[o] # "failed" /\ closing[e] = "none" =>
                received[e] + MessagesIn(wire[o]) + unsent[o] = written[o]
      BY DEF IInv, Accounted
    <3> QED BY <1>1, <3>1
  <2> QED BY <1>1, <2>1, <2>2 DEF Accounted
<1>4. Handshake'
  BY <1>1 DEF IInv, Handshake
<1>5. ToldTheEnd'
  BY <1>1 DEF IInv, ToldTheEnd
<1>6. Replied'
  BY <1>1 DEF IInv, Replied
<1>7. CloseDelivers'
  BY <1>1 DEF IInv, CloseDelivers
<1> QED BY <1>2, <1>3, <1>4, <1>5, <1>6, <1>7 DEF IInv

LEMMA SocketClosed ==
    ASSUME IInv, NEW e \in Ends, SocketCloses(e)
    PROVE  /\ wire' \in [Ends -> Seq({"message", "close"})]
           /\ EndsStream(wire'[e]) => EndsStream(wire[e])
           /\ MessagesIn(wire'[e]) <= MessagesIn(wire[e])
           /\ IsFrames(wire'[e])
           /\ \A k \in Ends : k # e => wire'[k] = wire[k]
<1>1. PICK n \in 0..Len(wire[e]) : wire' = [wire EXCEPT ![e] = SubSeq(@, 1, n)]
  BY DEF SocketCloses
<1>2. IsFrames(wire[e]) /\ wire \in [Ends -> Seq({"message", "close"})]
  BY DEF IInv, Frames, TypeOK
<1>3. wire'[e] = SubSeq(wire[e], 1, n) /\ \A k \in Ends : k # e => wire'[k] = wire[k]
  BY <1>1, <1>2
<1>4. /\ IsFrames(wire'[e])
      /\ EndsStream(wire'[e]) => EndsStream(wire[e])
      /\ MessagesIn(wire'[e]) <= MessagesIn(wire[e])
  BY <1>2, <1>3, LostFrames
<1>5. wire' \in [Ends -> Seq({"message", "close"})]
  <2>1. SubSeq(wire[e], 1, n) \in Seq({"message", "close"})
    BY <1>3, <1>4 DEF IsFrames
  <2> QED BY <1>1, <1>2, <2>1
<1> QED BY <1>3, <1>4, <1>5

LEMMA TimerExpiresStep ==
    ASSUME IInv, NEW e \in Ends, TimerExpires(e)
    PROVE  IInv'
<1>0. PICK o \in Ends : o = Other(e) /\ o # e /\ Other(o) = e /\ \A k \in Ends : k = e \/ k = o
  BY TwoEnds
<1>1. /\ status' = [status EXCEPT ![e] = "failed"]
      /\ unsent' = [unsent EXCEPT ![e] = 0]
      /\ AnswerRead(e, "aborted") /\ AnswerClose(e, "timeout") /\ SocketCloses(e)
      /\ UNCHANGED <<handshakeTimeout, alive, written, received>>
  BY DEF TimerExpires, Fails
<1>2. /\ reading' \in [Ends -> 0..MaxRequest] /\ told' \in [Ends -> ErrorCodes]
      /\ closing' \in [Ends -> {"none", "async", "blocking", "done"}]
      /\ closeEc' \in [Ends -> ErrorCodes]
      /\ told'[e] \in {told[e], "aborted"} /\ closeEc'[e] \in {closeEc[e], "timeout"}
      /\ \A k \in Ends : closing'[k] = "none" <=> closing[k] = "none"
      /\ told'[o] = told[o] /\ closeEc'[o] = closeEc[o]
  BY <1>0, <1>1, Answers DEF IInv, ErrorCodes
<1>3. unsent' \in [Ends -> 0..1] /\ unsent'[e] \in 0..unsent[e] /\ unsent'[o] = unsent[o]
  <2>1. unsent \in [Ends -> 0..1] /\ unsent[e] \in 0..1
    BY DEF IInv, TypeOK
  <2>2. unsent' \in [Ends -> 0..1] /\ unsent'[e] = 0 /\ unsent'[o] = unsent[o]
    BY <1>0, <1>1, <2>1
  <2> QED BY <2>1, <2>2
<1>4. status' \in [Ends -> {"open", "closing", "closed", "failed"}]
  BY <1>1 DEF IInv, TypeOK
<1>5. TypeOK'
  BY <1>1, <1>2, <1>3, <1>4, SocketClosed DEF IInv, TypeOK
<1>6. /\ IsFrames(wire'[e]) /\ (EndsStream(wire'[e]) => EndsStream(wire[e]))
      /\ MessagesIn(wire'[e]) <= MessagesIn(wire[e]) /\ wire'[o] = wire[o]
  BY <1>0, <1>1, SocketClosed
<1>7. /\ told'[e] \in {told[e], "aborted", "eof"}
      /\ told'[e] = "eof" => told[e] = "eof" \/ closing[e] # "none" \/ status[o] = "failed"
      /\ closeEc'[e] \in {closeEc[e], "timeout", "eof"}
  BY <1>2
<1> QED BY <1>0, <1>1, <1>2, <1>3, <1>5, <1>6, <1>7, FailedStep

\* A peer is closed only after the own close frame, so an end that has not closed
\* finds the connection gone only if the peer failed.
LEMMA ConnectionLostStep ==
    ASSUME IInv, NEW e \in Ends, ConnectionLost(e)
    PROVE  IInv'
<1>0. PICK o \in Ends : o = Other(e) /\ o # e /\ Other(o) = e /\ \A k \in Ends : k = e \/ k = o
  BY TwoEnds
<1>1. /\ status[e] \in {"open", "closing"} /\ status[o] \in {"closed", "failed"}
      /\ status' = [status EXCEPT ![e] = "failed"]
      /\ unsent' = [unsent EXCEPT ![e] = 0]
      /\ AnswerRead(e, "eof") /\ AnswerClose(e, "eof")
      /\ UNCHANGED <<handshakeTimeout, alive, wire, written, received>>
  BY <1>0 DEF ConnectionLost, Fails, Running
<1>2. /\ reading' \in [Ends -> 0..MaxRequest] /\ told' \in [Ends -> ErrorCodes]
      /\ closing' \in [Ends -> {"none", "async", "blocking", "done"}]
      /\ closeEc' \in [Ends -> ErrorCodes]
      /\ told'[e] \in {told[e], "eof"} /\ closeEc'[e] \in {closeEc[e], "eof"}
      /\ \A k \in Ends : closing'[k] = "none" <=> closing[k] = "none"
      /\ told'[o] = told[o] /\ closeEc'[o] = closeEc[o]
  BY <1>0, <1>1, Answers DEF IInv, ErrorCodes
<1>3. unsent' \in [Ends -> 0..1] /\ unsent'[e] \in 0..unsent[e] /\ unsent'[o] = unsent[o]
  <2>1. unsent \in [Ends -> 0..1] /\ unsent[e] \in 0..1
    BY DEF IInv, TypeOK
  <2>2. unsent' \in [Ends -> 0..1] /\ unsent'[e] = 0 /\ unsent'[o] = unsent[o]
    BY <1>0, <1>1, <2>1
  <2> QED BY <2>1, <2>2
<1>4. status' \in [Ends -> {"open", "closing", "closed", "failed"}]
  BY <1>1 DEF IInv, TypeOK
<1>5. closing[e] # "none" \/ status[o] = "failed"
  BY <1>0, <1>1 DEF IInv, Handshake
<1>6. IsFrames(wire'[e]) /\ MessagesIn(wire'[e]) <= MessagesIn(wire[e])
  BY <1>1, Numbers DEF IInv, Frames
<1>7. TypeOK'
  BY <1>1, <1>2, <1>3, <1>4 DEF IInv, TypeOK
<1>8. /\ told'[e] \in {told[e], "aborted", "eof"}
      /\ told'[e] = "eof" => told[e] = "eof" \/ closing[e] # "none" \/ status[o] = "failed"
      /\ closeEc'[e] \in {closeEc[e], "timeout", "eof"}
      /\ EndsStream(wire'[e]) => EndsStream(wire[e])
      /\ wire'[o] = wire[o]
  BY <1>1, <1>2, <1>5
<1> QED BY <1>0, <1>1, <1>2, <1>3, <1>6, <1>7, <1>8, FailedStep

LEMMA DiesStep ==
    ASSUME IInv, NEW e \in Ends, Dies(e)
    PROVE  IInv'
<1>0. PICK o \in Ends : o = Other(e) /\ o # e /\ Other(o) = e /\ \A k \in Ends : k = e \/ k = o
  BY TwoEnds
<1>1. /\ alive' = [alive EXCEPT ![e] = FALSE]
      /\ UNCHANGED <<handshakeTimeout, unsent, written, received, reading, told,
                     closing, closeEc>>
  BY DEF Dies
<1>2. alive' \in [Ends -> BOOLEAN]
  BY <1>1, Zenon DEF IInv, TypeOK
<1>3. CASE UNCHANGED <<status, wire>>
  <2>1. TypeOK'
    BY <1>1, <1>2, <1>3 DEF IInv, TypeOK
  <2> QED BY <1>1, <1>3, <2>1 DEF IInv, Frames, Accounted, Handshake, ToldTheEnd,
          Replied, CloseDelivers
<1>4. CASE status' = [status EXCEPT ![e] = "failed"] /\ SocketCloses(e)
  <2>1. status' \in [Ends -> {"open", "closing", "closed", "failed"}]
    BY <1>4 DEF IInv, TypeOK
  <2>2. TypeOK'
    BY <1>1, <1>2, <1>4, <2>1, SocketClosed DEF IInv, TypeOK
  <2>3. unsent'[e] \in 0..unsent[e]
    <3>1. unsent'[e] = unsent[e] /\ unsent[e] \in 0..1
      BY <1>1 DEF IInv, TypeOK
    <3> QED BY <3>1
  <2>4. \A k \in Ends : closing'[k] = "none" <=> closing[k] = "none"
    BY <1>1
  <2> QED BY <1>0, <1>1, <1>4, <2>2, <2>3, <2>4, SocketClosed, FailedStep
<1> QED BY <1>3, <1>4 DEF Dies

-----------------------------------------------------------------------------
LEMMA NextIInv == IInv /\ [Next]_vars => IInv'
<1> SUFFICES ASSUME IInv, [Next]_vars PROVE IInv'
  OBVIOUS
<1>1. CASE Application
  <2>1. PICK e \in Ends : \/ ReadAtLeast(e) \/ Write(e)
                          \/ \E kind \in {"async", "blocking"} : RequestClose(e, kind)
    BY <1>1 DEF Application, ServerReads, ServerWrites, ServerCloses, ClientReads,
       ClientWrites, ClientCloses, AsyncClose, Close, Ends
  <2> QED BY <2>1, ReadAtLeastStep, WriteStep, RequestCloseStep
<1>2. CASE Connection
  BY <1>2, SendMessageStep, SendCloseStep, DeliverMessageStep, DiscardMessageStep,
     ReplyCloseStep, FinishCloseStep, TimerExpiresStep, ConnectionLostStep, DiesStep
     DEF Connection
<1>3. CASE UNCHANGED vars
  BY <1>3 DEF vars, IInv, TypeOK, Frames, Accounted, Handshake, ToldTheEnd, Replied,
     CloseDelivers
<1> QED BY <1>1, <1>2, <1>3 DEF Next

LEMMA Invariance == Spec => []IInv
BY InitIInv, NextIInv, PTL DEF Spec

-----------------------------------------------------------------------------
(* Theorems. *)

(***************************************************************************)
(* The variables keep their types: in particular the reads are given no    *)
(* more messages than were written.                                        *)
(***************************************************************************)
THEOREM TypeCorrect == Spec => []TypeOK
<1>1. IInv => TypeOK
  BY DEF IInv
<1> QED BY <1>1, Invariance, PTL

(***************************************************************************)
(* WebsocketServerStream and WebsocketClientStream: an end that is told    *)
(* that the peer closed or finds the connection gone, and did not close    *)
(* itself, has got every message of a peer that did not fail, whatever was *)
(* outstanding or on its way when either end closed.                       *)
(***************************************************************************)
THEOREM ClosedIsTheEndHolds == Spec => []ClosedIsTheEnd
<1>1. IInv => ClosedIsTheEnd
  BY DEF IInv, ToldTheEnd, ClosedIsTheEnd
<1> QED BY <1>1, Invariance, PTL

(***************************************************************************)
(* A close that is answered without an error has delivered everything      *)
(* written before it to a peer that is not closing too, and has ended the  *)
(* stream at both ends.                                                    *)
(***************************************************************************)
THEOREM CloseDeliversHolds == Spec => []CloseDelivers
<1>1. IInv => CloseDelivers
  BY DEF IInv
<1> QED BY <1>1, Invariance, PTL

=============================================================================
