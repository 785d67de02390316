--------------------------- MODULE Initialization ---------------------------
(***************************************************************************)
(* What a client stream promises of its initializations, without resolver, *)
(* socket, timer, handlers or close: each is answered with one error code, *)
(* once and at last, and no callback runs that nobody gave.                *)
(***************************************************************************)
EXTENDS Integers

CONSTANTS MaxCalls,   \* bound on the initializations the application tries
          ErrorCodes  \* what may be told

Calls == 1..MaxCalls

VARIABLES calls,   \* how many initializations were called
          result,  \* what each was answered, "none" before that
          answer   \* the answer being given in this step, or NoAnswer

vars == <<calls, result, answer>>

NoAnswer == [call |-> 0, ec |-> "none"]

TypeOK == /\ calls \in 0..MaxCalls
          /\ result \in [Calls -> ErrorCodes \cup {"none"}]
          /\ answer \in [call : 1..calls, ec : ErrorCodes] \cup {NoAnswer}

Init == /\ calls = 0
        /\ result = [c \in Calls |-> "none"]
        /\ answer = NoAnswer

-----------------------------------------------------------------------------
Tell(c) == /\ result[c] = "none"
           /\ \E ec \in ErrorCodes : /\ result' = [result EXCEPT ![c] = ec]
                                     /\ answer' = [call |-> c, ec |-> ec]

TellNobody == answer' = NoAnswer /\ UNCHANGED result

\* An initialization is called, and may be answered in place.
Call == /\ calls < MaxCalls
        /\ calls' = calls + 1
        /\ Tell(calls + 1) \/ TellNobody

\* The callback of an earlier call is executed.
CallBack(c) == c <= calls /\ Tell(c) /\ UNCHANGED calls

\* Anything else goes on.
GoOn == TellNobody /\ UNCHANGED calls

Next == Call \/ GoOn \/ \E c \in Calls : CallBack(c)

Spec == Init /\ [][Next]_vars

FairSpec == Spec /\ \A c \in Calls : WF_vars(CallBack(c))
=============================================================================
