----------------------------- MODULE FileStream -----------------------------
(***************************************************************************)
(* Two file streams on one file: a writable one, whose opening replaces    *)
(* the file, and one that reads it, in any order and at the same time.     *)
(* The k-th byte ever written is the number k.                             *)
(*                                                                         *)
(* A read of a file does not wait: it is one step here, from the request   *)
(* of n missing bytes to its answer; Stream models what may come between.  *)
(*                                                                         *)
(* Assumed of the application: no second initialization of a stream before *)
(* the first is answered, and a reader is opened with an empty buffer      *)
(* (m_buffer survives a close).                                            *)
(***************************************************************************)
EXTENDS Integers, Sequences, FiniteSets

CONSTANTS MaxBytes,    \* bound on the bytes in existence
          MaxInits     \* bound on the initializations

ASSUME FileStreamAssumption ==
    /\ MaxBytes \in Nat \ {0}
    /\ MaxInits \in Nat

Streams == {"writer", "reader"}

VARIABLES
    exists,        \* is there a file?
    content,       \* the bytes in it
    written,       \* how many bytes were ever written
    m_fileStream,  \* each stream's handle: "closed" or "open"
    position,      \* where each reads or writes next
    descriptors,   \* how many descriptors of the process are on the file
    inits,         \* how many initializations were called
    completion,    \* what a queued completion of asyncInit will tell
    m_buffer,      \* the reader's buffer
    taken,         \* the bytes consumed from it since the reader was opened
    truncated,     \* was the file replaced since then?
    assignFailed,  \* did assign ever fail on a closed stream?
    readEc         \* the answer to a read in this step

files   == <<exists, content, written, descriptors>>
streams == <<m_fileStream, position, m_buffer, taken, truncated, assignFailed>>
asyncs  == <<inits, completion>>
vars    == <<files, streams, asyncs, readEc>>

ErrorCodes == {"ok", "denied", "assign"}

TypeOK == /\ exists \in BOOLEAN
          /\ content \in Seq(1..written)
          /\ written \in 0..MaxBytes
          /\ m_fileStream \in [Streams -> {"closed", "open"}]
          /\ position \in [Streams -> 0..MaxBytes]
          /\ descriptors \in 0..(inits + 2)
          /\ inits \in 0..MaxInits
          /\ completion \in [Streams -> ErrorCodes \cup {"none"}]
          /\ m_buffer \in Seq(1..written)
          /\ taken \in Seq(1..written)
          /\ truncated \in BOOLEAN
          /\ assignFailed \in BOOLEAN
          /\ readEc \in {"none", "ok", "eof"}

Init == /\ \E n \in 0..1 : /\ written = n
                           /\ content = [i \in 1..n |-> i]
                           /\ exists \in {n > 0, TRUE}
        /\ m_fileStream = [s \in Streams |-> "closed"]
        /\ position = [s \in Streams |-> 0]
        /\ descriptors = 0 /\ inits = 0
        /\ completion = [s \in Streams |-> "none"]
        /\ m_buffer = <<>> /\ taken = <<>>
        /\ truncated = FALSE /\ assignFailed = FALSE
        /\ readEc = "none"

-----------------------------------------------------------------------------
\* Mutant: nobody looks whether the stream is open already.
NeverOpen(s) == FALSE
IsOpen(s) == m_fileStream[s] = "open"

\* ::open with the flags of s: a writable stream creates or empties the file.
OpenFile(s) ==
    \/ /\ s = "writer"
       /\ exists' = TRUE /\ content' = <<>>
       /\ descriptors' = descriptors + 1
       /\ UNCHANGED written
    \/ /\ s = "reader" /\ exists
       /\ descriptors' = descriptors + 1
       /\ UNCHANGED <<exists, content, written>>

\* m_fileStream.assign takes the descriptor over, if it is closed.
Assign(s) ==
    /\ m_fileStream[s] = "closed"
    /\ m_fileStream' = [m_fileStream EXCEPT ![s] = "open"]
    /\ position' = [position EXCEPT ![s] = 0]
    /\ taken' = IF s = "reader" THEN <<>> ELSE taken
    /\ truncated' = (s = "writer")
    /\ UNCHANGED <<m_buffer, assignFailed>>

\* If it is open, or no watch is left, or the file is special, the descriptor stays open and nobody owns it.
AssignIsRefused(s) ==
    /\ assignFailed' = (assignFailed \/ m_fileStream[s] = "closed")
    /\ truncated' = (truncated \/ s = "writer")
    /\ UNCHANGED <<m_fileStream, position, m_buffer, taken>>

\* What init does when it returns ec.
Initialize(s, ec) ==
    \/ IsOpen(s)  /\ ec = "ok"     /\ UNCHANGED <<files, streams>>
    \/ ~IsOpen(s) /\ ec = "denied" /\ UNCHANGED <<files, streams>>
    \/ ~IsOpen(s) /\ ec = "ok"     /\ OpenFile(s) /\ Assign(s)
    \/ ~IsOpen(s) /\ ec = "assign" /\ OpenFile(s) /\ AssignIsRefused(s)

MayInit(s) == /\ inits < MaxInits
              /\ completion[s] = "none"
              /\ s = "reader" /\ m_fileStream[s] = "closed" => m_buffer = <<>>

SyncInit(s, ec) ==
    /\ MayInit(s)
    /\ Initialize(s, ec)
    /\ inits' = inits + 1
    /\ UNCHANGED completion
    /\ readEc' = "none"

\* asyncInit: init, and a dispatched completion with a copy of the error code,
\* which runs at once if this is the thread of the io_context.
AsyncInit(s, ec) ==
    /\ MayInit(s)
    /\ Initialize(s, ec)
    /\ inits' = inits + 1
    /\ \/ UNCHANGED completion
       \/ completion' = [completion EXCEPT ![s] = ec]
    /\ readEc' = "none"

OnDispatch(s) ==
    /\ completion[s] # "none"
    /\ completion' = [completion EXCEPT ![s] = "none"]
    /\ readEc' = "none"
    /\ UNCHANGED <<files, streams, inits>>

\* asyncWrite and write: the file system takes the next n bytes, all of the
\* data or fewer when it fails.
Write(n) ==
    /\ m_fileStream["writer"] = "open"
    /\ written + n <= MaxBytes
    /\ content' = content \o [i \in 1..n |-> written + i]
    /\ written' = written + n
    /\ position' = [position EXCEPT !["writer"] = @ + n]
    /\ readEc' = "none"
    /\ UNCHANGED <<exists, descriptors, m_fileStream, m_buffer, taken, truncated,
                   assignFailed, asyncs>>

\* What is in the file behind the reader's position; nothing if it was replaced
\* by a shorter one.
Rest == SubSeq(content, position["reader"] + 1, Len(content))

\* Mutant: the end of the file is told without the bytes before it.
NothingAtEof(n) == <<>>
\* The bytes that come with the end of file, when n were asked for.
AtEof(n) == Rest

\* asyncReadAtLeast and readAtLeast.
ReadAtLeast(n) ==
    /\ m_fileStream["reader"] = "open"
    /\ \E k \in 0..Len(Rest) :
          LET got == SubSeq(Rest, 1, k) IN
          /\ \/ k >= n /\ readEc' = "ok" /\ m_buffer' = m_buffer \o got
             \/ /\ k = Len(Rest) /\ k < n
                /\ readEc' = "eof" /\ m_buffer' = m_buffer \o AtEof(n)
          /\ position' = [position EXCEPT !["reader"] = @ + k]
    /\ UNCHANGED <<files, m_fileStream, taken, truncated, assignFailed, asyncs>>

\* consume of the application, by whatever amount.
Consume(n) ==
    /\ n <= Len(m_buffer)
    /\ taken' = taken \o SubSeq(m_buffer, 1, n)
    /\ m_buffer' = SubSeq(m_buffer, n + 1, Len(m_buffer))
    /\ readEc' = "none"
    /\ UNCHANGED <<files, m_fileStream, position, truncated, assignFailed, asyncs>>

\* Mutant: the descriptor is closed again when the stream is closed already.
ClosesAlways(s) == 1
\* How many descriptors m_fileStream.close() closes.
Closes(s) == IF m_fileStream[s] = "open" THEN 1 ELSE 0

\* asyncClose, which calls back in place, and close.
Close(s) ==
    /\ m_fileStream' = [m_fileStream EXCEPT ![s] = "closed"]
    /\ descriptors' = descriptors - Closes(s)
    /\ readEc' = "none"
    /\ UNCHANGED <<exists, content, written, position, m_buffer, taken, truncated,
                   assignFailed, asyncs>>

-----------------------------------------------------------------------------
Next == \/ \E s \in Streams : \/ \E ec \in ErrorCodes : SyncInit(s, ec) \/ AsyncInit(s, ec)
                              \/ OnDispatch(s)
                              \/ Close(s)
        \/ \E n \in 1..MaxBytes : Write(n) \/ ReadAtLeast(n) \/ Consume(n)

Spec == Init /\ [][Next]_vars

-----------------------------------------------------------------------------
(* Properties. *)

(***************************************************************************)
(* What was written is lost only when a writable stream that was closed is *)
(* opened ("Existing one will be replaced!", FileStream.cpp:11), never by  *)
(* initializing an open stream again, which may happen at any time.        *)
(***************************************************************************)
WrittenStays ==
    [][~(Len(content') >= Len(content) /\ SubSeq(content', 1, Len(content)) = content)
          => m_fileStream["writer"] = "closed"]_vars

(***************************************************************************)
(* A reader gets the file from its first byte, in order and without gaps,  *)
(* while the file grows, over an end of file that was told before, over    *)
(* repeated initializations and closes; unless the file is replaced        *)
(* meanwhile.                                                              *)
(***************************************************************************)
ReadsFromTheStart ==
    m_fileStream["reader"] = "open" /\ ~truncated
        => taken \o m_buffer = SubSeq(content, 1, position["reader"])

(***************************************************************************)
(* End of file is told when the reader has all that is in the file.        *)
(***************************************************************************)
EofHidesNothing ==
    readEc = "eof" /\ ~truncated => taken \o m_buffer = content

(***************************************************************************)
(* As long as no assign fails, every descriptor belongs to an open stream: *)
(* repeated initializations and closes neither leak one nor close one that *)
(* is not theirs.                                                          *)
(***************************************************************************)
OwnedDescriptors ==
    ~assignFailed =>
        descriptors = Cardinality({s \in Streams : m_fileStream[s] = "open"})
=============================================================================
