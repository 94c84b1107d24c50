------------------------------ MODULE SseStream ------------------------------
(***************************************************************************)
(* sseStream of packages/horizon-client/src/streaming.ts: one connect()    *)
(* loop that fetches an event stream, parses the blocks of each chunk it   *)
(* reads, hands them to onMessage, and reconnects from the last event id.  *)
(* The server and the network are external; everything the client awaits   *)
(* is one of their actions.                                                *)
(***************************************************************************)
EXTENDS Integers, Sequences

CONSTANTS
  Cursors,            \* the values of opts.cursor a caller passes
  NoCursor,           \* opts.cursor left undefined
  Now,                \* the cursor 'now'
  NoId,               \* a block without an id line
  NoRetry,            \* a block without a (numeric) retry line
  DefaultRetry,       \* DEFAULT_RETRY_MS
  Unparsable,         \* ids of the events whose data JSON.parse refuses
  Chatter,            \* blocks without an id the server may interleave
  ErrorHandlerThrows, \* TRUE: the caller's onError may itself throw
  MaxLog,             \* bound: events the server's log ever holds
  MaxWire             \* bound: blocks sent and not yet dispatched

ASSUME StreamAssumption ==
  /\ Cursors \subseteq Nat \cup {NoCursor, Now}
  /\ NoCursor # Now
  /\ NoCursor \notin Int
  /\ Now \notin Int
  /\ NoId \notin Int
  /\ NoRetry \notin Int
  /\ DefaultRetry \in Int
  /\ Unparsable \subseteq Nat
  /\ Chatter \subseteq [id : {NoId}, data : BOOLEAN, retry : Int \cup {NoRetry}]
  /\ ErrorHandlerThrows \in BOOLEAN
  /\ MaxLog \in Nat
  /\ MaxWire \in Nat

VARIABLES
  pc,            \* where connect() is suspended
  closed,        \* the flag close() sets
  aborted,       \* controller.signal is aborted
  retryMs,       \* delay before the next connection
  lastEventId,   \* cursor of the next connection
  start,         \* opts.cursor, for the properties only
  wire,          \* blocks the server sent on this connection, not dispatched
  piped,         \* a chunk is in the TextDecoderStream pipe: the next read()
                 \* returns it, whatever becomes of the response
  arrived,       \* how many leading blocks of wire the last read() returned
  buffer,        \* <<>>, or <<b>> when it holds the first part of block b
  published,     \* external: length of the server's log
  serverPos,     \* external: last event the server wrote on this connection
  presented,     \* history: ids handed to onMessage, in order
  refused,       \* history: ids whose data JSON.parse refused; onError was
                 \* given the error in their place
  reportedWhile  \* history: the values of closed when the outer catch
                 \* called onError

signalVars == <<closed, aborted>>
handledVars == <<retryMs, lastEventId, presented, refused>>
loopVars == <<pc, start, arrived, buffer, reportedWhile, handledVars>>
clientVars == <<loopVars, signalVars, piped>>
networkVars == <<wire, published, serverPos>>
vars == <<clientVars, networkVars>>

PC == {"fetching", "reading", "arrived", "dispatch", "caught", "sleep",
       "done", "died"}

Block == [id : Nat \cup {NoId}, data : BOOLEAN, retry : Int \cup {NoRetry}]

EventBlock(e) == [id |-> e, data |-> TRUE, retry |-> NoRetry]
IsEvent(b) == b.id # NoId

(* A connection is up: read() may be called on its body. *)
Connected == pc \in {"reading", "arrived", "dispatch"}
(* connect() has returned, or rejected: nothing of the stream is left. *)
Finished == pc \in {"done", "died"}

Init ==
  /\ pc = "fetching"
  /\ closed = FALSE
  /\ aborted = FALSE
  /\ retryMs = DefaultRetry
  /\ start \in Cursors
  /\ lastEventId = start
  /\ wire = <<>>
  /\ piped = FALSE
  /\ arrived = 0
  /\ buffer = <<>>
  /\ published \in 0..MaxLog
  /\ serverPos = 0
  /\ presented = <<>>
  /\ refused = {}
  /\ reportedWhile = {}

-----------------------------------------------------------------------------
(* The server and its log. *)

Publish ==
  /\ published < MaxLog
  /\ published' = published + 1
  /\ UNCHANGED <<clientVars, wire, serverPos>>

(* Mutants: the resumption cursor is ignored; it is off by one. *)
MutantPositionIgnoresCursor(c) == 0
MutantPositionSkipsOne(c) ==
  IF c = NoCursor THEN 0 ELSE IF c = Now THEN published ELSE c + 1

(* Where a request with cursor c starts to read the log. *)
PositionOf(c) == IF c = NoCursor THEN 0 ELSE IF c = Now THEN published ELSE c

(* What the server writes after the abort reaches nobody. *)
SendEvent ==
  /\ Connected
  /\ ~aborted
  /\ Len(wire) < MaxWire
  /\ serverPos < published
  /\ wire' = Append(wire, EventBlock(serverPos + 1))
  /\ serverPos' = serverPos + 1
  /\ UNCHANGED <<clientVars, published>>

SendChatter ==
  /\ Connected
  /\ ~aborted
  /\ Len(wire) < MaxWire
  /\ \E b \in Chatter : wire' = Append(wire, b)
  /\ UNCHANGED <<clientVars, published, serverPos>>

(* The pipe takes a chunk off the body, one at a time and never while the  *)
(* loop runs.  An abort breaks the body behind it: no other chunk follows, *)
(* but the one in the pipe is still decoded for the next read().           *)
PipeChunk ==
  /\ pc \in {"reading", "arrived"}
  /\ ~aborted
  /\ ~piped
  /\ Len(wire) > arrived
  /\ piped' = TRUE
  /\ UNCHANGED <<loopVars, signalVars, networkVars>>

-----------------------------------------------------------------------------
(* The loop of connect(). *)

(* while (!closed) is evaluated with flag as the value of closed: the next *)
(* request is sent, or connect() returns.                                  *)
LoopTop(flag) == IF flag THEN "done" ELSE "fetching"

(* Mutant: the buffer outlives its connection. *)
MutantFetchKeepsBuffer ==
  /\ pc = "fetching"
  /\ pc' = "reading"
  /\ wire' = <<>>
  /\ serverPos' = PositionOf(lastEventId)
  /\ UNCHANGED <<signalVars, handledVars, start, piped, arrived, buffer,
                 published, reportedWhile>>

(* fetch resolves with an ok response that has a body: a fresh buffer.     *)
(* The response may be there already when close() comes.                   *)
FetchOk ==
  /\ pc = "fetching"
  /\ pc' = "reading"
  /\ wire' = <<>>
  /\ buffer' = <<>>
  /\ serverPos' = PositionOf(lastEventId)
  /\ UNCHANGED <<signalVars, handledVars, start, piped, arrived, published,
                 reportedWhile>>

(* fetch rejects (network, abort), or the status or the body is refused. *)
FetchFails ==
  /\ pc = "fetching"
  /\ pc' = "caught"
  /\ UNCHANGED <<signalVars, handledVars, networkVars, start, piped, arrived,
                 buffer, reportedWhile>>

(* read() resolves with the chunk in the pipe: the rest of n blocks and,   *)
(* if half, the first part of the block after them.  Its continuation has  *)
(* not run yet, and does not look at closed when it does.                  *)
ReadChunk(n, half) ==
  /\ pc = "reading"
  /\ piped
  /\ half => n < Len(wire)
  /\ n = 0 => half /\ buffer = <<>>
  /\ pc' = "arrived"
  /\ piped' = FALSE
  /\ arrived' = n
  /\ buffer' = IF half THEN <<wire[n + 1]>> ELSE <<>>
  /\ UNCHANGED <<signalVars, handledVars, networkVars, start, reportedWhile>>

(* Mutant: the end of the body ends the stream. *)
MutantReadDoneStops ==
  /\ pc = "reading"
  /\ ~piped
  /\ pc' = "done"
  /\ wire' = <<>>
  /\ UNCHANGED <<signalVars, handledVars, start, piped, arrived, buffer,
                 published, serverPos, reportedWhile>>

(* read() reports the end of the body, once the pipe is empty.  What was   *)
(* not dispatched, a block cut in two included, goes with the connection.  *)
ReadDone ==
  /\ pc = "reading"
  /\ ~piped
  /\ pc' = IF closed THEN "done" ELSE "sleep"
  /\ wire' = <<>>
  /\ UNCHANGED <<signalVars, handledVars, start, piped, arrived, buffer,
                 published, serverPos, reportedWhile>>

(* read() rejects: the connection broke, or the signal was aborted. *)
ReadFails ==
  /\ pc = "reading"
  /\ pc' = "caught"
  /\ wire' = <<>>
  /\ piped' = FALSE
  /\ UNCHANGED <<signalVars, handledVars, start, arrived, buffer, published,
                 serverPos, reportedWhile>>

-----------------------------------------------------------------------------
(* The blocks of one chunk.  Their loop awaits nothing: only the callbacks *)
(* it calls can close the stream before it ends.                           *)

InChunk == pc \in {"arrived", "dispatch"}

(* The loop goes on to the next block of the chunk. *)
NextBlock ==
  /\ pc' = "dispatch"
  /\ wire' = Tail(wire)
  /\ arrived' = arrived - 1
  /\ UNCHANGED <<start, piped, buffer, published, serverPos, reportedWhile>>

(* Mutant: an event with data is dropped like one without.               *)
MutantDropAnyBlock ==
  /\ InChunk
  /\ arrived > 0
  /\ NextBlock
  /\ UNCHANGED <<signalVars, handledVars>>

(* parseSSE emits no event for a block without data: its id and its retry  *)
(* are dropped with it.                                                    *)
DropBlock ==
  /\ InChunk
  /\ arrived > 0
  /\ ~Head(wire).data
  /\ NextBlock
  /\ UNCHANGED <<signalVars, handledVars>>

(* The retry and the id of an event are taken, then JSON.parse and         *)
(* onMessage run.  An exception of either goes to onError and the event is *)
(* not tried again; when it is JSON.parse that throws, onMessage never     *)
(* sees the event.                                                         *)
TakeEvent(b) ==
  /\ retryMs' = IF b.retry = NoRetry THEN retryMs ELSE b.retry
  /\ \/ /\ ~IsEvent(b)
        /\ UNCHANGED <<lastEventId, presented, refused>>
     \/ /\ IsEvent(b) /\ b.id \notin Unparsable
        /\ lastEventId' = b.id
        /\ presented' = Append(presented, b.id)
        /\ UNCHANGED refused
     \/ /\ IsEvent(b) /\ b.id \in Unparsable
        /\ lastEventId' = b.id
        /\ refused' = refused \cup {b.id}
        /\ UNCHANGED presented

(* A callback returns, having called close() or not. *)
CallbackMayClose ==
  \/ UNCHANGED signalVars
  \/ closed' = TRUE /\ aborted' = TRUE

Present ==
  /\ InChunk
  /\ arrived > 0
  /\ Head(wire).data
  /\ TakeEvent(Head(wire))
  /\ CallbackMayClose
  /\ NextBlock

(* JSON.parse or onMessage threw, and then onError: the outer catch takes  *)
(* over and the rest of the chunk is left to the next connection.          *)
PresentRethrows ==
  /\ ErrorHandlerThrows
  /\ InChunk
  /\ arrived > 0
  /\ Head(wire).data
  /\ TakeEvent(Head(wire))
  /\ CallbackMayClose
  /\ pc' = "caught"
  /\ wire' = <<>>
  /\ piped' = FALSE
  /\ arrived' = 0
  /\ UNCHANGED <<start, buffer, published, serverPos, reportedWhile>>

ChunkDone ==
  /\ InChunk
  /\ arrived = 0
  /\ pc' = "reading"
  /\ UNCHANGED <<signalVars, handledVars, networkVars, start, piped, arrived,
                 buffer, reportedWhile>>

-----------------------------------------------------------------------------
(* Errors, the reconnect delay and close(). *)

(* What the outer catch, the timer and close() leave alone. *)
streamVars == <<handledVars, networkVars, start, piped, arrived, buffer>>

(* The outer catch of a closed stream returns without a word. *)
CatchClosed ==
  /\ pc = "caught"
  /\ closed
  /\ pc' = "done"
  /\ UNCHANGED <<signalVars, reportedWhile, streamVars>>

(* Mutant: the error is reported whether the stream is closed or not.      *)
MutantCatchReportsAlways ==
  /\ pc = "caught"
  /\ reportedWhile' = reportedWhile \cup {closed}
  /\ CallbackMayClose
  /\ pc' = IF closed' THEN "done" ELSE "sleep"
  /\ UNCHANGED streamVars

CatchReports ==
  /\ pc = "caught"
  /\ ~closed
  /\ reportedWhile' = reportedWhile \cup {closed}
  /\ CallbackMayClose
  /\ pc' = IF closed' THEN "done" ELSE "sleep"
  /\ UNCHANGED streamVars

(* onError throws out of the catch: connect() rejects, nobody awaits it,   *)
(* and the stream is dead without having been closed.                      *)
CatchThrows ==
  /\ pc = "caught"
  /\ ~closed
  /\ ErrorHandlerThrows
  /\ reportedWhile' = reportedWhile \cup {closed}
  /\ CallbackMayClose
  /\ pc' = "died"
  /\ UNCHANGED streamVars

(* close() does not clear the timer: it is when it fires that the loop     *)
(* sees the flag.                                                          *)
TimerFires ==
  /\ pc = "sleep"
  /\ pc' = LoopTop(closed)
  /\ UNCHANGED <<signalVars, reportedWhile, streamVars>>

(* Mutant: close() leaves the request running. *)
MutantCloseWithoutAbort ==
  /\ pc \notin {"dispatch", "caught"}
  /\ closed' = TRUE
  /\ UNCHANGED <<pc, aborted, reportedWhile, streamVars>>

(* The caller closes the stream from outside a callback; it cannot run in  *)
(* the middle of a chunk or of a catch.                                    *)
Close ==
  /\ pc \notin {"dispatch", "caught"}
  /\ closed' = TRUE
  /\ aborted' = TRUE
  /\ UNCHANGED <<pc, reportedWhile, streamVars>>

Read == \E n \in 0..Len(wire), half \in BOOLEAN : ReadChunk(n, half)

(* What runs by itself once what it waits for is there. *)
Step ==
  \/ DropBlock \/ Present \/ PresentRethrows \/ ChunkDone
  \/ CatchClosed \/ CatchReports \/ CatchThrows \/ TimerFires

Next ==
  \/ Publish \/ SendEvent \/ SendChatter \/ PipeChunk
  \/ FetchOk \/ FetchFails \/ Read \/ ReadDone \/ ReadFails
  \/ DropBlock \/ Present \/ PresentRethrows \/ ChunkDone
  \/ CatchClosed \/ CatchReports \/ CatchThrows \/ TimerFires
  \/ Close

Spec == Init /\ [][Next]_vars

(* A chunk that holds at least one event enters the pipe. *)
PipeEvent ==
  PipeChunk /\ \E i \in (arrived + 1)..Len(wire) : IsEvent(wire[i])

(* A read that completes at least one event. *)
ReadEvent ==
  \E n \in 1..Len(wire) :
    /\ \E i \in 1..n : IsEvent(wire[i])
    /\ ReadChunk(n, FALSE)

(* A read that completes everything the server has sent. *)
ReadAll == wire # <<>> /\ ReadChunk(Len(wire), FALSE)

(* The client's own steps are taken; an aborted fetch or read rejects;     *)
(* what was sent is read or lost; and a network that is asked again and    *)
(* again answers at some point.                                            *)
Fairness ==
  /\ WF_vars(Step)
  /\ WF_vars(aborted /\ (FetchFails \/ ReadFails))
  /\ WF_vars(PipeChunk)
  /\ WF_vars(ReadAll)
  /\ SF_vars(FetchOk)
  /\ SF_vars(SendEvent)
  /\ SF_vars(PipeEvent)
  /\ SF_vars(ReadEvent)

FairSpec == Spec /\ Fairness

-----------------------------------------------------------------------------
(* Properties. *)

Cursor == Nat \cup {NoCursor, Now}

(* Every variable keeps to the values its declaration in streaming.ts      *)
(* allows.                                                                 *)
TypeOK ==
  /\ pc \in PC
  /\ closed \in BOOLEAN
  /\ aborted = closed
  /\ retryMs \in Int
  /\ lastEventId \in Cursor
  /\ start \in Cursors
  /\ wire \in Seq(Block)
  /\ piped \in BOOLEAN
  /\ arrived \in 0..Len(wire)
  /\ buffer \in Seq(Block)
  /\ published \in 0..MaxLog
  /\ serverPos \in Nat
  /\ presented \in Seq(Nat)
  /\ refused \subseteq Nat
  /\ reportedWhile \subseteq BOOLEAN

(* The events the loop is through with. *)
Handled == {presented[i] : i \in DOMAIN presented} \cup refused

(* However often the connection breaks, and wherever in a block: the       *)
(* events that went to onMessage, or whose parse error went to onError,    *)
(* are a stretch of the log that none is missing from; the last one is the *)
(* cursor the next connection resumes from, and they begin right after the *)
(* caller's cursor when that names a position.  onMessage is given them in *)
(* order and none twice, and none whose error was reported in its place.   *)
ResumesWithoutGapOrRepeat ==
  /\ \A i, j \in DOMAIN presented : i < j => presented[i] < presented[j]
  /\ \A i \in DOMAIN presented : presented[i] \notin refused
  /\ Handled = {} => lastEventId = start
  /\ Handled # {} =>
       /\ lastEventId \in Handled
       /\ \E first \in Handled :
            /\ Handled = first..lastEventId
            /\ start \in Nat => first = start + 1
            /\ start = NoCursor => first = 1

(* s carries the events after b up to end: increasing, none missing. *)
Continues(b, s, end) ==
  /\ \A i \in DOMAIN s : IsEvent(s[i]) =>
       b < s[i].id /\ s[i].id <= end /\ s[i].data
  /\ \A i, j \in DOMAIN s :
       i < j /\ IsEvent(s[i]) /\ IsEvent(s[j]) => s[i].id < s[j].id
  /\ \A e \in (b + 1)..end : \E i \in DOMAIN s : IsEvent(s[i]) /\ s[i].id = e

(* What is in flight on a connection is exactly the stretch of the log     *)
(* from the cursor of the next connection to where the server stands:      *)
(* dropping it at any moment and asking again from the cursor loses        *)
(* nothing.                                                                *)
WireContinuesCursor ==
  /\ Connected =>
       \E b \in 0..serverPos :
         /\ lastEventId \in Nat => b = lastEventId
         /\ lastEventId = NoCursor => b = 0
         /\ Continues(b, wire, serverPos)
  /\ \A i \in DOMAIN wire : IsEvent(wire[i]) => wire[i].id <= published
  /\ ~InChunk => arrived = 0

(* The half block the parser keeps is the first part of the very block     *)
(* this connection delivers next: what a broken connection left in the     *)
(* buffer is never glued to the first block of its successor.              *)
BufferOfThisConnection ==
  Connected /\ buffer # <<>> =>
    /\ Len(wire) > arrived
    /\ buffer[1] = wire[arrived + 1]

(* After close() no request is sent and nothing more enters the pipe: of   *)
(* the chunks not yet read, the loop still reads the one that is in it, if *)
(* any, and onMessage gets events of no other chunk than that one and the  *)
(* one the loop was in.  The rejections that the abort causes never reach  *)
(* onError.                                                                *)
ClosedStreamOnlyDrains ==
  [][closed => /\ pc' = "fetching" => pc = "fetching"
               /\ piped' => piped
               /\ pc = "reading" /\ pc' = "arrived" => piped /\ ~piped'
               /\ Handled' # Handled => InChunk
               /\ TRUE \notin reportedWhile']_vars

(* An event in the log of a stream that resumes from a known position is   *)
(* handed over, or its parse error is, unless the stream is closed, it     *)
(* died of its own onError, or the callbacks throw again and again: what   *)
(* follows in the chunk is then dropped every time.                        *)
EveryEventPresented ==
  \/ []<><<PresentRethrows>>_vars
  \/ \A e \in 1..MaxLog :
       (e <= published /\ start # Now /\ ~closed)
         ~> \/ closed \/ pc = "died"
            \/ start \in Nat /\ e <= start
            \/ e \in Handled

(* A closed stream comes to rest, whatever it was waiting for: a fetch, a  *)
(* read, or the reconnect timer.                                           *)
CloseTerminates == closed ~> Finished

(* The stream implements the feed it promises; the cursor of the feed is   *)
(* the id kept for the next connection.                                    *)
Feed == INSTANCE ResumableFeed WITH cursor <- lastEventId, open <- ~closed
ImplementsFeed == Feed!FeedSpec
=============================================================================
