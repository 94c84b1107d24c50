---------------------------- MODULE ResumableFeed ----------------------------
(***************************************************************************)
(* What a Horizon event stream promises its consumer, with no connection,  *)
(* buffer, timer or retry in sight.  The server keeps a growing log of     *)
(* events 1..published.  The stream holds a cursor, the id of the last     *)
(* event it handled, and handles the event right after the cursor: it goes *)
(* to onMessage, or is refused when it cannot be parsed; nothing is        *)
(* skipped, repeated or reordered.  Only a stream opened at the tip        *)
(* ("now") is free to choose its first event.                              *)
(***************************************************************************)
EXTENDS Integers, Sequences

CONSTANTS
  Cursors,    \* the values of opts.cursor a caller passes
  NoCursor,   \* opts.cursor left undefined: the log is read from its start
  Now,        \* the cursor 'now': the log is read from its tip
  Unparsable, \* ids of the events whose data cannot be parsed
  MaxLog      \* bound on the length of the server's log

VARIABLES
  published, \* number of events in the server's log
  cursor,    \* last event handled, or the caller's cursor before that
  presented, \* history: the ids handed to onMessage, in order
  refused,   \* history: the ids of the events that could not be parsed
  open       \* FALSE once close() was called

feedVars == <<published, cursor, presented, refused, open>>

FeedInit ==
  /\ published \in 0..MaxLog
  /\ cursor \in Cursors
  /\ presented = <<>>
  /\ refused = {}
  /\ open = TRUE

(* The events the feed may handle next. *)
IsNext(e) ==
  /\ e \in 1..published
  /\ cursor \in Nat => e = cursor + 1
  /\ cursor = NoCursor => e = 1

Publish ==
  /\ published < MaxLog
  /\ published' = published + 1
  /\ UNCHANGED <<cursor, presented, refused, open>>

(* A consumer's callback may close the stream it is called from. *)
HandOver(e) ==
  /\ IsNext(e)
  /\ e \notin Unparsable
  /\ cursor' = e
  /\ presented' = Append(presented, e)
  /\ open' \in {open, FALSE}
  /\ UNCHANGED <<published, refused>>

(* An event that cannot be parsed is passed by; the consumer is told, and  *)
(* may close the stream then too.                                          *)
Refuse(e) ==
  /\ IsNext(e)
  /\ e \in Unparsable
  /\ cursor' = e
  /\ refused' = refused \cup {e}
  /\ open' \in {open, FALSE}
  /\ UNCHANGED <<published, presented>>

Close ==
  /\ open' = FALSE
  /\ UNCHANGED <<published, cursor, presented, refused>>

FeedNext ==
  \/ Publish
  \/ \E e \in 1..MaxLog : HandOver(e) \/ Refuse(e)
  \/ Close

FeedSpec == FeedInit /\ [][FeedNext]_feedVars
=============================================================================
