--------------------------- MODULE ResourceAccess ---------------------------
(* Reading the bytes of a Resource at its Provider: representations and       *)
(* videos streamed under a permit (resource_access/service.py and the HTTP    *)
(* response of pdi_resource_access/app.py), and text read in windows          *)
(* (resource_access/text_service.py).                                         *)
EXTENDS Integers, Sequences, FiniteSets, SequencesExt

CONSTANTS
    Requests,
    MaxActive,          \* MAX_ACTIVE_STREAMS
    MaxRepresentation,  \* the byte limit of a representation
    MaxCloses,          \* bound of the model: calls of close per response
    Texts,              \* contents of a file: the widths of its characters in UTF-8
    TextSources,        \* the Sources of one Resource, smallest identifier first
    MaxText, Window,    \* MAX_TEXT_SOURCE_BYTES and the max_bytes of the client
    MaxTextChanges      \* bound of the model

ASSUME AccessAssumption ==
    /\ MaxActive \in Nat \ {0} /\ MaxRepresentation \in Nat /\ MaxCloses \in Nat
    /\ IsFiniteSet(Requests)
    /\ Window \in Nat /\ Window >= 4    \* MIN_TEXT_WINDOW_BYTES
    /\ \A text \in Texts : text \in Seq(1..4)
    /\ TextSources \subseteq Nat /\ TextSources # {}

VARIABLES
    request,            \* per request: its step
    body,               \* bytes of the body so far, and the limit on them
    gone,               \* the client has disconnected
    closes,             \* calls of close so far
    permits, queue      \* the semaphore

streamVars == <<request, body, gone, closes, permits, queue>>

Unlimited == -1
NoBody == [got |-> 0, limit |-> Unlimited]
Holding == {"opening", "open", "body", "closing"}
Holders == {s \in Requests : request[s] \in Holding}

InitStreams(step) ==
    /\ request = [s \in Requests |-> step] /\ body = [s \in Requests |-> NoBody]
    /\ gone = [s \in Requests |-> FALSE] /\ closes = [s \in Requests |-> 0]
    /\ permits = MaxActive /\ queue = <<>>

Step(s, pc) == request' = [request EXCEPT ![s] = pc]

\* open_representation and open_video need exactly one eligible Source.
Resolve(s, eligible) ==
    /\ request[s] = "new"
    /\ IF eligible # 1 THEN Step(s, "failed") /\ UNCHANGED <<permits, queue>>
       ELSE IF permits > 0 /\ queue = <<>>
       THEN Step(s, "opening") /\ permits' = permits - 1 /\ UNCHANGED queue
       ELSE Step(s, "waiting") /\ queue' = Append(queue, s) /\ UNCHANGED permits
    /\ UNCHANGED <<body, gone, closes>>

\* asyncio.Semaphore serves its waiters in order.
Acquire ==
    /\ queue # <<>> /\ permits > 0
    /\ Step(Head(queue), "opening") /\ queue' = Tail(queue) /\ permits' = permits - 1
    /\ UNCHANGED <<body, gone, closes>>

\* A waiter is cancelled: it never held anything.
CancelWaiting(i) ==
    /\ i \in DOMAIN queue /\ Step(queue[i], "failed")
    /\ queue' = RemoveAt(queue, i)
    /\ UNCHANGED <<body, gone, closes, permits>>

\* Mutant: close does not remember that it was called.
FinishAgain(s) == Step(s, "closing")

\* finish: the first call closes, every later one returns at once.
Finish(s) == IF request[s] \in {"closing", "closed"} THEN UNCHANGED request ELSE Step(s, "closing")

\* The Provider fails, or the task is cancelled: there is nothing to close but the permit.
OpenFails(s) == request[s] = "opening" /\ Finish(s) /\ UNCHANGED <<body, gone, closes, permits, queue>>

\* What the Provider answers is checked before anything is sent; a video has no byte limit.
Opened(s, video, valid, declared) ==
    /\ request[s] = "opening"
    /\ IF ~valid \/ (~video /\ declared > MaxRepresentation)
       THEN Finish(s) /\ UNCHANGED body
       ELSE /\ Step(s, "open")
            /\ body' = [body EXCEPT ![s].limit = IF video THEN Unlimited ELSE MaxRepresentation]
    /\ UNCHANGED <<gone, closes, permits, queue>>

Start(s) ==
    /\ request[s] = "open" /\ ~gone[s] /\ Step(s, "body")
    /\ UNCHANGED <<body, gone, closes, permits, queue>>

\* A chunk goes to the client unless it is beyond the limit.
Chunk(s, n) ==
    /\ request[s] = "body" /\ ~gone[s]
    /\ LET got == body[s].got + n
       IN  IF body[s].limit # Unlimited /\ got > body[s].limit
           THEN Finish(s) /\ UNCHANGED body
           ELSE body' = [body EXCEPT ![s].got = got] /\ UNCHANGED request
    /\ UNCHANGED <<gone, closes, permits, queue>>

\* The stream ends or breaks; the body closes in its finally clause.
BodyEnds(s) ==
    /\ request[s] = "body" /\ ~gone[s] /\ Finish(s)
    /\ UNCHANGED <<body, gone, closes, permits, queue>>

\* The client goes; the task that sends the body is cancelled, begun or not.
Disconnect(s) ==
    /\ request[s] \in {"open", "body"} /\ ~gone[s] /\ gone' = [gone EXCEPT ![s] = TRUE]
    /\ UNCHANGED <<request, body, closes, permits, queue>>

\* Mutant: there is no background task, a body never begun closes nothing.
CloseBegun(s) ==
    /\ closes[s] < MaxCloses /\ request[s] \in {"body", "closing", "closed"}
    /\ request[s] = "body" => gone[s]
    /\ closes' = [closes EXCEPT ![s] = @ + 1] /\ Finish(s)
    /\ UNCHANGED <<body, gone, permits, queue>>

\* aclose by the background task, by the body around the stream, by its finalizer.
Close(s) ==
    /\ closes[s] < MaxCloses /\ request[s] \in {"open", "body", "closing", "closed"}
    /\ request[s] \in {"open", "body"} => gone[s]
    /\ closes' = [closes EXCEPT ![s] = @ + 1] /\ Finish(s)
    /\ UNCHANGED <<body, gone, permits, queue>>

\* The upstream response is closed, or fails to; the permit goes back.
Release(s) ==
    /\ request[s] = "closing" /\ Step(s, "closed") /\ permits' = permits + 1
    /\ body' = [body EXCEPT ![s] = NoBody] /\ UNCHANGED <<gone, closes, queue>>

StreamNext ==
    \/ Acquire \/ \E i \in DOMAIN queue : CancelWaiting(i)
    \/ \E s \in Requests :
           \/ \E n \in 0..2 : Resolve(s, n)
           \/ OpenFails(s)
           \/ \E video \in BOOLEAN, valid \in BOOLEAN, n \in {1, MaxRepresentation + 1} :
                  Opened(s, video, valid, n)
           \/ Start(s) \/ (body[s].got <= MaxRepresentation /\ \E n \in {0, 1} : Chunk(s, n))
           \/ BodyEnds(s) \/ Disconnect(s) \/ Close(s) \/ Release(s)

StreamSpec == InitStreams("new") /\ [][StreamNext]_streamVars

\* A response that is over is closed, and closing ends; how long a client reads is its own affair.
StreamFairness ==
    \A s \in Requests : WF_streamVars(Close(s)) /\ WF_streamVars(Release(s))

-----------------------------------------------------------------------------
(* Text in windows                                                            *)

VARIABLES
    live, blob,         \* per Source: the file at the Provider, what PDI synchronized
    textChanges,
    reader,             \* the step of read_text
    chosenText,         \* the content of the selected digest
    at,                 \* offset_bytes
    windows             \* what has been answered: content, first byte, byte behind the last

textVars == <<live, blob, textChanges, reader, chosenText, at, windows>>

InitText(contents, changes, step) ==
    /\ live \in [TextSources -> contents] /\ blob = live /\ textChanges = changes
    /\ reader = step /\ chosenText = <<>> /\ at = 0 /\ windows = <<>>

ByteCount(text) == FoldSeq(+, 0, text)
Boundaries(text) == {ByteCount(SubSeq(text, 1, n)) : n \in 0..Len(text)}

EditFile(s, text) ==
    /\ textChanges < MaxTextChanges /\ text # live[s]
    /\ live' = [live EXCEPT ![s] = text] /\ textChanges' = textChanges + 1
    /\ UNCHANGED <<blob, reader, chosenText, at, windows>>

SyncFile(s) ==
    /\ blob[s] # live[s] /\ blob' = [blob EXCEPT ![s] = live[s]]
    /\ UNCHANGED <<live, textChanges, reader, chosenText, at, windows>>

\* _select_source: all eligible Sources have one digest, and the file is not too large.
SelectSource ==
    /\ reader = "ask"
    /\ chosenText' = blob[CHOOSE s \in TextSources : \A o \in TextSources : s <= o]
    /\ reader' = IF Cardinality(Range(blob)) # 1 \/ ByteCount(chosenText') > MaxText
                 THEN "failed" ELSE "read"
    /\ UNCHANGED <<live, blob, textChanges, at, windows>>

\* The whole file, and its digest against the one of the Blob.
ReadComplete ==
    /\ reader = "read"
    /\ LET text == live[CHOOSE s \in TextSources : \A o \in TextSources : s <= o]
       IN  reader' = IF text = chosenText THEN "cut" ELSE "failed"
    /\ UNCHANGED <<live, blob, textChanges, chosenText, at, windows>>

\* Mutant: a window ends where its bytes are used up.
WindowEndAnywhere(text, from) == IF from + Window < ByteCount(text) THEN from + Window ELSE ByteCount(text)

\* The last boundary within the window.
WindowEnd(text, from) ==
    CHOOSE e \in Boundaries(text) :
        e <= from + Window /\ \A b \in Boundaries(text) : b <= from + Window => b <= e

\* A window from a boundary to a boundary; the client goes on where it ends.
CutWindow ==
    /\ reader = "cut"
    /\ IF at \notin Boundaries(chosenText)
       THEN reader' = "failed" /\ UNCHANGED <<at, windows>>
       ELSE LET end == WindowEnd(chosenText, at)
            IN  /\ windows' = Append(windows, <<chosenText, at, end>>)
                /\ at' = end
                /\ reader' = IF end < ByteCount(chosenText) THEN "ask" ELSE "done"
    /\ UNCHANGED <<live, blob, textChanges, chosenText>>

TextNext ==
    \/ \E s \in TextSources : SyncFile(s) \/ \E text \in Texts : EditFile(s, text)
    \/ SelectSource \/ ReadComplete \/ CutWindow

TextSpec == InitText(Texts, 0, "ask") /\ [][TextNext]_textVars

-----------------------------------------------------------------------------
(* Properties                                                                 *)

AccessTypeOK ==
    /\ request \in [Requests -> Holding \cup {"new", "waiting", "failed", "closed"}]
    /\ gone \in [Requests -> BOOLEAN] /\ closes \in [Requests -> 0..MaxCloses]
    /\ permits \in Nat /\ queue \in Seq(Requests)

\* Every permit is either free or held by exactly one request: none is lost on the way of a failure
\* or a cancellation, and none is given back twice however often a response is closed. And no one
\* waits twice.
PermitsBalance ==
    /\ AccessTypeOK
    /\ permits + Cardinality(Holders) = MaxActive
    /\ \A i \in DOMAIN queue : request[queue[i]] = "waiting"
    /\ \A i, j \in DOMAIN queue : i # j => queue[i] # queue[j]

\* A client that has gone does not keep its permit, whether its body had begun or not.
PermitsReturn == \A s \in Requests : []<>(gone[s] => request[s] \notin Holding)

\* Windows of one content adjoin, end between characters, and get on until all of it is given,
\* whatever happens to the file between them; text of another content is told apart by its digest.
WindowsAreWhole ==
    /\ \A w \in DOMAIN windows :
           LET text == windows[w][1]
               from == windows[w][2]
               end == windows[w][3]
           IN  /\ {from, end} \subseteq Boundaries(text) /\ end <= from + Window
               /\ end = from => from = ByteCount(text)
               /\ w > 1 => from = windows[w - 1][3]
    /\ reader = "done" => Last(windows)[3] = ByteCount(Last(windows)[1])
=============================================================================
