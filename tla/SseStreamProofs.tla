--------------------------- MODULE SseStreamProofs ---------------------------
(***************************************************************************)
(* Proofs about SseStream, for every log length, buffer size, cursor,      *)
(* chatter and callback behaviour.                                         *)
(***************************************************************************)
EXTENDS SseStream, TLAPS

(***************************************************************************)
(* Type correctness.                                                       *)
(***************************************************************************)
TypeInv == TypeOK /\ (~InChunk => arrived = 0)

(* The names SseStream gives to groups of variables stand for the tuples.  *)
USE DEF signalVars, handledVars, loopVars, clientVars, networkVars, streamVars

LEMMA TypeInvInit == Init => TypeInv
<1> SUFFICES ASSUME Init PROVE TypeInv
  OBVIOUS
<1> USE StreamAssumption DEF Init
<1>1. start \in Cursors /\ lastEventId \in Cursor
  BY DEF Cursor
<1>2. wire \in Seq(Block) /\ buffer \in Seq(Block) /\ presented \in Seq(Nat)
  OBVIOUS
<1>3. Len(wire) = 0 /\ arrived \in 0..Len(wire)
  OBVIOUS
<1>4. pc \in PC
  BY DEF PC
<1>5. QED
  BY <1>1, <1>2, <1>3, <1>4 DEF TypeInv, TypeOK

LEMMA EventIds ==
  ASSUME NEW b \in Block, IsEvent(b)
  PROVE  b.id \in Nat
BY DEF Block, IsEvent

LEMMA TakeEventType ==
  ASSUME TypeInv, NEW b \in Block, TakeEvent(b)
  PROVE  /\ retryMs' \in Int
         /\ lastEventId' \in Cursor
         /\ presented' \in Seq(Nat)
         /\ refused' \subseteq Nat
<1>1. retryMs' \in Int
  BY DEF TypeInv, TypeOK, TakeEvent, Block
<1>2. lastEventId \in Cursor /\ presented \in Seq(Nat) /\ refused \subseteq Nat
  BY DEF TypeInv, TypeOK
<1>3. CASE IsEvent(b)
  <2>1. b.id \in Nat
    BY <1>3, EventIds
  <2>2. /\ lastEventId' = b.id
        /\ presented' = presented \/ presented' = Append(presented, b.id)
        /\ refused' = refused \/ refused' = refused \cup {b.id}
    BY <1>3 DEF TakeEvent
  <2>3. lastEventId' \in Cursor
    BY <2>1, <2>2 DEF Cursor
  <2>4. presented' \in Seq(Nat)
    BY <1>2, <2>1, <2>2
  <2>5. refused' \subseteq Nat
    BY <1>2, <2>1, <2>2
  <2>6. QED
    BY <1>1, <2>3, <2>4, <2>5
<1>4. CASE ~IsEvent(b)
  BY <1>1, <1>2, <1>4 DEF TakeEvent
<1>5. QED
  BY <1>3, <1>4

(* Taking the first of the blocks of a chunk off the wire. *)
LEMMA TailType ==
  ASSUME TypeInv, arrived > 0
  PROVE  /\ Head(wire) \in Block
         /\ Tail(wire) \in Seq(Block)
         /\ arrived - 1 \in 0..Len(Tail(wire))
BY DEF TypeInv, TypeOK

LEMMA TypeInvStep == TypeInv /\ [Next]_vars => TypeInv'
<1> SUFFICES ASSUME TypeInv, [Next]_vars PROVE TypeInv'
  OBVIOUS
<1> USE StreamAssumption
<1>1. CASE Publish
  BY <1>1 DEF Publish, TypeInv, TypeOK, InChunk
<1>2. CASE SendEvent
  BY <1>2 DEF SendEvent, TypeInv, TypeOK, InChunk, EventBlock, Block
<1>3. CASE SendChatter
  BY <1>3 DEF SendChatter, TypeInv, TypeOK, InChunk, Block
<1>4. CASE FetchOk
  BY <1>4 DEF FetchOk, TypeInv, TypeOK, InChunk, PositionOf, Cursor, PC
<1>5. CASE FetchFails
  BY <1>5 DEF FetchFails, TypeInv, TypeOK, InChunk, PC
<1>6. CASE Read
  <2>1. PICK n \in 0..Len(wire), half \in BOOLEAN : ReadChunk(n, half)
    BY <1>6 DEF Read
  <2>2. buffer' \in Seq(Block)
    BY <2>1 DEF ReadChunk, TypeInv, TypeOK
  <2>3. QED
    BY <2>1, <2>2 DEF ReadChunk, TypeInv, TypeOK, InChunk, PC
<1>7. CASE ReadDone
  BY <1>7 DEF ReadDone, TypeInv, TypeOK, InChunk, PC
<1>8. CASE ReadFails
  <2>1. wire' \in Seq(Block) /\ arrived' \in 0..Len(wire')
    BY <1>8 DEF ReadFails, TypeInv, TypeOK, InChunk
  <2>2. QED
    BY <1>8, <2>1 DEF ReadFails, TypeInv, TypeOK, InChunk, PC
<1>9. CASE DropBlock
  BY <1>9 DEF DropBlock, NextBlock, TypeInv, TypeOK, InChunk, PC
<1>10. CASE Present
  <2> USE DEF Present, NextBlock, InChunk
  <2>1. /\ retryMs' \in Int
        /\ lastEventId' \in Cursor
        /\ presented' \in Seq(Nat)
        /\ refused' \subseteq Nat
    BY <1>10, TailType, TakeEventType
  <2>2. wire' \in Seq(Block) /\ arrived' \in 0..Len(wire')
    BY <1>10, TailType
  <2>3. closed' \in BOOLEAN /\ aborted' = closed'
    BY <1>10 DEF CallbackMayClose, TypeInv, TypeOK
  <2>4. QED
    BY <1>10, <2>1, <2>2, <2>3 DEF TypeInv, TypeOK, PC
<1>11. CASE PresentRethrows
  <2> USE DEF PresentRethrows, InChunk
  <2>1. /\ retryMs' \in Int
        /\ lastEventId' \in Cursor
        /\ presented' \in Seq(Nat)
        /\ refused' \subseteq Nat
    BY <1>11, TailType, TakeEventType
  <2>2. wire' \in Seq(Block) /\ arrived' \in 0..Len(wire')
    BY <1>11
  <2>3. closed' \in BOOLEAN /\ aborted' = closed'
    BY <1>11 DEF CallbackMayClose, TypeInv, TypeOK
  <2>4. QED
    BY <1>11, <2>1, <2>2, <2>3 DEF TypeInv, TypeOK, PC
<1>12. CASE ChunkDone
  BY <1>12 DEF ChunkDone, TypeInv, TypeOK, InChunk, PC
<1>13. CASE CatchClosed
  BY <1>13 DEF CatchClosed, TypeInv, TypeOK, InChunk, PC
<1>14. CASE CatchReports
  BY <1>14 DEF CatchReports, TypeInv, TypeOK, InChunk, PC, CallbackMayClose
<1>15. CASE CatchThrows
  BY <1>15 DEF CatchThrows, TypeInv, TypeOK, InChunk, PC, CallbackMayClose
<1>16. CASE TimerFires
  BY <1>16 DEF TimerFires, TypeInv, TypeOK, InChunk, PC, LoopTop
<1>17. CASE Close
  BY <1>17 DEF Close, TypeInv, TypeOK, InChunk
<1>18. CASE UNCHANGED vars
  BY <1>18 DEF vars, TypeInv, TypeOK, InChunk
<1>19. CASE PipeChunk
  BY <1>19 DEF PipeChunk, TypeInv, TypeOK, InChunk
<1>20. QED
  BY <1>1, <1>2, <1>3, <1>4, <1>5, <1>6, <1>7, <1>8, <1>9, <1>10, <1>11,
     <1>12, <1>13, <1>14, <1>15, <1>16, <1>17, <1>18, <1>19 DEF Next

(* Every variable of the stream keeps to its type. *)
THEOREM TypeCorrect == Spec => []TypeOK
<1>1. TypeInv => TypeOK
  BY DEF TypeInv
<1>2. QED
  BY TypeInvInit, TypeInvStep, <1>1, PTL DEF Spec

(***************************************************************************)
(* Sequences of blocks that continue from a cursor.                        *)
(***************************************************************************)
LEMMA ContinuesEmpty ==
  ASSUME NEW b \in Nat
  PROVE  Continues(b, <<>>, b)
BY DEF Continues

LEMMA ContinuesAppendEvent ==
  ASSUME NEW s \in Seq(Block), NEW b \in Nat, NEW end \in Nat, b <= end,
         Continues(b, s, end)
  PROVE  Continues(b, Append(s, EventBlock(end + 1)), end + 1)
<1> DEFINE c == EventBlock(end + 1)
           t == Append(s, c)
<1>1. c \in Block /\ IsEvent(c) /\ c.id = end + 1 /\ c.data
  BY StreamAssumption DEF EventBlock, Block, IsEvent
<1>2. /\ DOMAIN t = 1..(Len(s) + 1)
      /\ \A i \in DOMAIN s : i \in DOMAIN t /\ t[i] = s[i]
      /\ t[Len(s) + 1] = c
      /\ DOMAIN s = 1..Len(s)
  BY <1>1
<1>3. \A i \in DOMAIN s : IsEvent(s[i]) => s[i].id \in Nat
  BY EventIds
<1> HIDE DEF c, t
<1>4. \A i \in DOMAIN t : IsEvent(t[i]) =>
        b < t[i].id /\ t[i].id <= end + 1 /\ t[i].data
  BY <1>1, <1>2, <1>3 DEF Continues
<1>5. \A i, j \in DOMAIN t :
        i < j /\ IsEvent(t[i]) /\ IsEvent(t[j]) => t[i].id < t[j].id
  BY <1>1, <1>2, <1>3 DEF Continues
<1>6. ASSUME NEW e \in (b + 1)..(end + 1)
      PROVE  \E i \in DOMAIN t : IsEvent(t[i]) /\ t[i].id = e
  <2>1. CASE e = end + 1
    BY <2>1, <1>1, <1>2
  <2>2. CASE e # end + 1
    <3>1. e \in (b + 1)..end
      BY <2>2
    <3>2. PICK i \in DOMAIN s : IsEvent(s[i]) /\ s[i].id = e
      BY <3>1 DEF Continues
    <3>3. QED
      BY <3>2, <1>2
  <2>3. QED
    BY <2>1, <2>2
<1>7. QED
  BY <1>4, <1>5, <1>6 DEF Continues, t, c

LEMMA ContinuesAppendOther ==
  ASSUME NEW s \in Seq(Block), NEW b \in Nat, NEW end \in Nat,
         NEW c \in Block, ~IsEvent(c), Continues(b, s, end)
  PROVE  Continues(b, Append(s, c), end)
<1> DEFINE t == Append(s, c)
<1>1. /\ DOMAIN t = 1..(Len(s) + 1)
      /\ \A i \in DOMAIN s : i \in DOMAIN t /\ t[i] = s[i]
      /\ t[Len(s) + 1] = c
      /\ DOMAIN s = 1..Len(s)
  OBVIOUS
<1> HIDE DEF t
<1>2. \A i \in DOMAIN t : IsEvent(t[i]) => i \in DOMAIN s
  BY <1>1
<1>3. QED
  BY <1>1, <1>2 DEF Continues, t

LEMMA ContinuesTail ==
  ASSUME NEW s \in Seq(Block), s # <<>>, NEW b \in Nat, NEW end \in Nat,
         Continues(b, s, end)
  PROVE  /\ IsEvent(Head(s)) =>
              /\ Head(s).id = b + 1
              /\ b + 1 <= end
              /\ Continues(b + 1, Tail(s), end)
         /\ ~IsEvent(Head(s)) => Continues(b, Tail(s), end)
<1> DEFINE t == Tail(s)
<1>1. /\ DOMAIN t = 1..(Len(s) - 1)
      /\ \A i \in DOMAIN t : i + 1 \in DOMAIN s /\ t[i] = s[i + 1]
      /\ DOMAIN s = 1..Len(s)
      /\ Len(s) \in Nat /\ Len(s) > 0
      /\ Head(s) = s[1]
  OBVIOUS
<1>2. \A i \in DOMAIN s : IsEvent(s[i]) => s[i].id \in Nat
  BY EventIds
<1> HIDE DEF t
<1>3. \A i, j \in DOMAIN t :
        i < j /\ IsEvent(t[i]) /\ IsEvent(t[j]) => t[i].id < t[j].id
  <2> SUFFICES ASSUME NEW i \in DOMAIN t, NEW j \in DOMAIN t,
                      i < j, IsEvent(t[i]), IsEvent(t[j])
               PROVE  t[i].id < t[j].id
    OBVIOUS
  <2>1. i + 1 < j + 1
    BY <1>1
  <2>2. QED
    BY <1>1, <2>1 DEF Continues
<1>4. ASSUME NEW e \in (b + 1)..end, ~(IsEvent(s[1]) /\ s[1].id = e)
      PROVE  \E i \in DOMAIN t : IsEvent(t[i]) /\ t[i].id = e
  <2>1. PICK i \in DOMAIN s : IsEvent(s[i]) /\ s[i].id = e
    BY DEF Continues
  <2>2. i # 1 /\ i - 1 \in DOMAIN t /\ t[i - 1] = s[i]
    BY <2>1, <1>1, <1>4
  <2>3. QED
    BY <2>1, <2>2
<1>5. CASE IsEvent(Head(s))
  <2>1. b < s[1].id /\ s[1].id <= end /\ s[1].id \in Nat
    BY <1>5, <1>1, <1>2 DEF Continues
  <2>2. s[1].id = b + 1
    <3>1. b + 1 \in (b + 1)..end
      BY <2>1
    <3>2. PICK i \in DOMAIN s : IsEvent(s[i]) /\ s[i].id = b + 1
      BY <3>1 DEF Continues
    <3>3. i = 1 \/ s[1].id < s[i].id
      BY <3>2, <1>1, <1>5 DEF Continues
    <3>4. QED
      BY <3>2, <3>3, <2>1
  <2>3. \A i \in DOMAIN t : IsEvent(t[i]) =>
          b + 1 < t[i].id /\ t[i].id <= end /\ t[i].data
    BY <1>5, <2>2, <1>1, <1>2 DEF Continues
  <2>4. \A e \in (b + 2)..end : \E i \in DOMAIN t : IsEvent(t[i]) /\ t[i].id = e
    BY <2>2, <1>4
  <2>5. Continues(b + 1, t, end)
    BY <2>3, <2>4, <1>3 DEF Continues
  <2>6. QED
    BY <1>5, <2>1, <2>2, <2>5, <1>1 DEF t
<1>6. CASE ~IsEvent(Head(s))
  <2>1. \A i \in DOMAIN t : IsEvent(t[i]) =>
          b < t[i].id /\ t[i].id <= end /\ t[i].data
    BY <1>1 DEF Continues
  <2>2. \A e \in (b + 1)..end : \E i \in DOMAIN t : IsEvent(t[i]) /\ t[i].id = e
    BY <1>6, <1>1, <1>4
  <2>3. QED
    BY <2>1, <2>2, <1>3, <1>6 DEF Continues, t
<1>7. QED
  BY <1>5, <1>6

(***************************************************************************)
(* Delivery.  What was presented so far is a stretch of the log; for the   *)
(* next event to extend it, what is in flight must continue the cursor, so *)
(* the invariant carries both.                                             *)
(***************************************************************************)
IndInv == TypeInv /\ ResumesWithoutGapOrRepeat /\ WireContinuesCursor

LEMMA IndInvInit == Init => IndInv
<1> SUFFICES ASSUME Init PROVE IndInv
  OBVIOUS
<1>1. ResumesWithoutGapOrRepeat
  BY DEF Init, ResumesWithoutGapOrRepeat, Handled
<1>2. WireContinuesCursor
  BY DEF Init, WireContinuesCursor, Connected
<1>3. QED
  BY <1>1, <1>2, TypeInvInit DEF IndInv

(* The block the loop handles next, seen from the cursor. *)
LEMMA HeadOfChunk ==
  ASSUME IndInv, InChunk, arrived > 0
  PROVE  /\ Head(wire) \in Block
         /\ IsEvent(Head(wire)) =>
              /\ Head(wire).data
              /\ Head(wire).id \in Nat
              /\ Head(wire).id \in 0..serverPos
              /\ Head(wire).id \in 1..published
              /\ lastEventId \in Nat => Head(wire).id = lastEventId + 1
              /\ lastEventId = NoCursor => Head(wire).id = 1
              /\ Continues(Head(wire).id, Tail(wire), serverPos)
         /\ ~IsEvent(Head(wire)) =>
              \E b \in 0..serverPos :
                /\ lastEventId \in Nat => b = lastEventId
                /\ lastEventId = NoCursor => b = 0
                /\ Continues(b, Tail(wire), serverPos)
<1>1. /\ wire \in Seq(Block) /\ wire # <<>> /\ serverPos \in Nat
      /\ Head(wire) = wire[1] /\ 1 \in DOMAIN wire /\ Head(wire) \in Block
      /\ published \in Nat
  BY StreamAssumption DEF IndInv, TypeInv, TypeOK
<1>2. PICK b \in 0..serverPos :
             /\ lastEventId \in Nat => b = lastEventId
             /\ lastEventId = NoCursor => b = 0
             /\ Continues(b, wire, serverPos)
  BY DEF IndInv, WireContinuesCursor, Connected, InChunk
<1>3. b \in Nat /\ b \in Int
  BY <1>1, <1>2
<1>4. /\ IsEvent(Head(wire)) =>
           /\ Head(wire).id = b + 1
           /\ b + 1 <= serverPos
           /\ Continues(b + 1, Tail(wire), serverPos)
      /\ ~IsEvent(Head(wire)) => Continues(b, Tail(wire), serverPos)
  <2>1. wire \in Seq(Block) /\ wire # <<>> /\ serverPos \in Nat
    BY <1>1
  <2>2. Continues(b, wire, serverPos)
    BY <1>2
  <2>3. QED
    BY <2>1, <2>2, <1>3, ContinuesTail, Zenon
<1>5. CASE IsEvent(Head(wire))
  <2>1. Head(wire).data
    <3>1. Continues(b, wire, serverPos) /\ IsEvent(wire[1])
      BY <1>1, <1>2, <1>5
    <3>2. wire[1].data
      BY <1>1, <3>1, Zenon DEF Continues
    <3>3. QED
      BY <1>1, <3>2, Zenon
  <2>2. Head(wire).id <= published
    <3>1. \A i \in DOMAIN wire : IsEvent(wire[i]) => wire[i].id <= published
      BY DEF IndInv, WireContinuesCursor
    <3>2. QED
      BY <1>1, <1>5, <3>1, Zenon
  <2>3. Head(wire).id = b + 1 /\ b + 1 <= serverPos
    BY <1>4, <1>5
  <2>4. /\ Head(wire).id \in Nat
        /\ Head(wire).id \in 0..serverPos
        /\ Head(wire).id \in 1..published
    BY <2>2, <2>3, <1>3, <1>1
  <2>5. /\ lastEventId \in Nat => Head(wire).id = lastEventId + 1
        /\ lastEventId = NoCursor => Head(wire).id = 1
    BY <1>2, <1>3, <2>3
  <2>6. Continues(Head(wire).id, Tail(wire), serverPos)
    BY <1>4, <1>5, <2>3, Zenon
  <2>7. QED
    BY <1>1, <1>5, <2>1, <2>4, <2>5, <2>6, Zenon
<1>6. CASE ~IsEvent(Head(wire))
  BY <1>1, <1>2, <1>4, <1>6, Zenon
<1>7. QED
  BY <1>5, <1>6

(* One more event is handled: it is presented, or it is refused. *)
LEMMA TakeEventHandles ==
  ASSUME TypeInv, NEW b \in Block, TakeEvent(b), IsEvent(b)
  PROVE  /\ lastEventId' = b.id
         /\ Handled' = Handled \cup {b.id}
         /\ \/ presented' = presented /\ refused' = refused \cup {b.id}
            \/ presented' = Append(presented, b.id) /\ refused' = refused
<1>1. presented \in Seq(Nat) /\ b.id \in Nat
  BY EventIds DEF TypeInv, TypeOK
<1>2. /\ lastEventId' = b.id
      /\ \/ presented' = presented /\ refused' = refused \cup {b.id}
         \/ presented' = Append(presented, b.id) /\ refused' = refused
  BY DEF TakeEvent
<1>3. CASE presented' = presented /\ refused' = refused \cup {b.id}
  BY <1>2, <1>3 DEF Handled
<1>4. CASE presented' = Append(presented, b.id) /\ refused' = refused
  <2>1. /\ DOMAIN presented' = DOMAIN presented \cup {Len(presented) + 1}
        /\ \A i \in DOMAIN presented : presented'[i] = presented[i]
        /\ presented'[Len(presented) + 1] = b.id
    BY <1>1, <1>4
  <2>2. {presented'[i] : i \in DOMAIN presented'}
          = {presented[i] : i \in DOMAIN presented} \cup {b.id}
    BY <2>1
  <2>3. QED
    BY <1>2, <1>4, <2>2 DEF Handled
<1>5. QED
  BY <1>2, <1>3, <1>4

(* The stretch handled so far ends at the cursor. *)
LEMMA HandledBelowCursor ==
  ASSUME TypeInv, ResumesWithoutGapOrRepeat, Handled # {}
  PROVE  /\ Handled \subseteq Nat
         /\ lastEventId \in Nat
         /\ \A h \in Handled : h <= lastEventId
<1>1. Handled \subseteq Nat
  <2>1. presented \in Seq(Nat) /\ refused \subseteq Nat
    BY DEF TypeInv, TypeOK
  <2>2. \A i \in DOMAIN presented : presented[i] \in Nat
    BY <2>1
  <2>3. QED
    BY <2>1, <2>2 DEF Handled
<1>2. PICK first \in Handled : Handled = first..lastEventId
  BY DEF ResumesWithoutGapOrRepeat
<1>3. lastEventId \in Nat
  BY <1>1 DEF ResumesWithoutGapOrRepeat
<1>4. QED
  BY <1>1, <1>2, <1>3

(* The event after the cursor extends the stretch handled so far. *)
LEMMA TakeEventExtends ==
  ASSUME TypeInv, ResumesWithoutGapOrRepeat, NEW b \in Block, TakeEvent(b),
         start' = start,
         IsEvent(b) => /\ b.id \in Nat
                       /\ lastEventId \in Nat => b.id = lastEventId + 1
                       /\ lastEventId = NoCursor => b.id = 1
  PROVE  ResumesWithoutGapOrRepeat'
<1>1. CASE ~IsEvent(b)
  BY <1>1 DEF TakeEvent, ResumesWithoutGapOrRepeat, Handled
<1>2. CASE IsEvent(b)
  <2>1. /\ lastEventId' = b.id /\ b.id \in Nat
        /\ Handled' = Handled \cup {b.id}
        /\ \/ presented' = presented /\ refused' = refused \cup {b.id}
           \/ presented' = Append(presented, b.id) /\ refused' = refused
    BY <1>2, TakeEventHandles
  <2>2. presented \in Seq(Nat) /\ refused \subseteq Nat
    BY DEF TypeInv, TypeOK
  <2>3. \A h \in Handled : h \in Nat /\ h < b.id
    BY <1>2, HandledBelowCursor
  <2>4. /\ \A i \in DOMAIN presented : presented[i] \in Nat /\ presented[i] < b.id
        /\ \A h \in refused : h \in Nat /\ h < b.id
    BY <2>3 DEF Handled
  <2>5. /\ \A i, j \in DOMAIN presented' : i < j => presented'[i] < presented'[j]
        /\ \A i \in DOMAIN presented' : presented'[i] \notin refused'
    <3>1. CASE presented' = presented /\ refused' = refused \cup {b.id}
      BY <2>1, <2>4, <3>1 DEF ResumesWithoutGapOrRepeat
    <3>2. CASE presented' = Append(presented, b.id) /\ refused' = refused
      <4>1. /\ DOMAIN presented' = 1..(Len(presented) + 1)
            /\ DOMAIN presented = 1..Len(presented) /\ Len(presented) \in Nat
            /\ \A i \in DOMAIN presented : presented'[i] = presented[i]
            /\ presented'[Len(presented) + 1] = b.id
        BY <2>1, <2>2, <3>2
      <4>2. \A i \in DOMAIN presented' : presented'[i] \notin refused'
        BY <2>1, <2>4, <3>2, <4>1 DEF ResumesWithoutGapOrRepeat
      <4>3. \A i, j \in DOMAIN presented' : i < j => presented'[i] < presented'[j]
        BY <2>4, <4>1 DEF ResumesWithoutGapOrRepeat
      <4>4. QED
        BY <4>2, <4>3
    <3>3. QED
      BY <2>1, <3>1, <3>2
  <2>6. \E first \in Handled' :
          /\ Handled' = first..b.id
          /\ start \in Nat => first = start + 1
          /\ start = NoCursor => first = 1
    <3>1. CASE Handled = {}
      <4>1. lastEventId = start
        BY <3>1 DEF ResumesWithoutGapOrRepeat
      <4>2. Handled' = b.id..b.id
        BY <2>1, <3>1
      <4>3. QED
        BY <1>2, <2>1, <4>1, <4>2
    <3>2. CASE Handled # {}
      <4>1. PICK first \in Handled :
                   /\ Handled = first..lastEventId
                   /\ start \in Nat => first = start + 1
                   /\ start = NoCursor => first = 1
        BY <3>2 DEF ResumesWithoutGapOrRepeat
      <4>2. lastEventId \in Nat /\ first \in Nat /\ first <= lastEventId
        BY <3>2, HandledBelowCursor
      <4>3. Handled' = first..b.id
        BY <1>2, <2>1, <4>1, <4>2
      <4>4. QED
        BY <2>1, <4>1, <4>3
    <3>3. QED
      BY <3>1, <3>2
  <2>7. QED
    BY <2>1, <2>5, <2>6 DEF ResumesWithoutGapOrRepeat
<1>3. QED
  BY <1>1, <1>2

(* Steps that handle no event. *)
LEMMA SameStretch ==
  ASSUME ResumesWithoutGapOrRepeat,
         UNCHANGED <<presented, refused, lastEventId, start>>
  PROVE  ResumesWithoutGapOrRepeat'
BY DEF ResumesWithoutGapOrRepeat, Handled

LEMMA SameWire ==
  ASSUME WireContinuesCursor, TypeInv',
         UNCHANGED <<lastEventId, wire, serverPos, published>>,
         Connected' => Connected
  PROVE  WireContinuesCursor'
BY DEF WireContinuesCursor, TypeInv

(* Steps that drop the connection: nothing is in flight any more. *)
LEMMA NoConnection ==
  ASSUME TypeInv', ~Connected', wire' = <<>>
  PROVE  WireContinuesCursor'
BY DEF WireContinuesCursor, TypeInv

LEMMA DeliverStep ==
  ASSUME IndInv, InChunk, arrived > 0, TakeEvent(Head(wire)), start' = start
  PROVE  ResumesWithoutGapOrRepeat'
<1>1. TypeInv /\ ResumesWithoutGapOrRepeat
  BY DEF IndInv
<1>2. /\ Head(wire) \in Block
      /\ IsEvent(Head(wire)) => /\ Head(wire).id \in Nat
                                /\ lastEventId \in Nat => Head(wire).id = lastEventId + 1
                                /\ lastEventId = NoCursor => Head(wire).id = 1
  BY HeadOfChunk
<1>3. QED
  BY <1>1, <1>2, TakeEventExtends, Zenon

LEMMA PresentWire ==
  ASSUME IndInv, TypeInv', Present
  PROVE  WireContinuesCursor'
<1> USE DEF Present, NextBlock
<1>1. /\ wire' = Tail(wire) /\ published' = published /\ serverPos' = serverPos
      /\ pc' = "dispatch"
  OBVIOUS
<1>2. \A i \in DOMAIN Tail(wire) :
        IsEvent(Tail(wire)[i]) => Tail(wire)[i].id <= published
  <2>1. wire \in Seq(Block) /\ wire # <<>>
    BY DEF IndInv, TypeInv, TypeOK
  <2>2. \A i \in DOMAIN Tail(wire) :
          i + 1 \in DOMAIN wire /\ Tail(wire)[i] = wire[i + 1]
    BY <2>1
  <2>3. QED
    BY <2>2 DEF IndInv, WireContinuesCursor
<1>3. CASE IsEvent(Head(wire))
  <2>1. /\ Head(wire).id \in 0..serverPos
        /\ Head(wire).id \in Nat
        /\ Continues(Head(wire).id, Tail(wire), serverPos)
    BY <1>3, HeadOfChunk
  <2>2. lastEventId' = Head(wire).id
    BY <1>3 DEF TakeEvent
  <2>3. lastEventId' # NoCursor
    BY <2>1, <2>2, StreamAssumption
  <2>4. QED
    BY <1>1, <1>2, <2>1, <2>2, <2>3 DEF WireContinuesCursor, InChunk
<1>4. CASE ~IsEvent(Head(wire))
  <2>1. PICK b \in 0..serverPos :
               /\ lastEventId \in Nat => b = lastEventId
               /\ lastEventId = NoCursor => b = 0
               /\ Continues(b, Tail(wire), serverPos)
    BY <1>4, HeadOfChunk
  <2>2. lastEventId' = lastEventId
    BY <1>4 DEF TakeEvent
  <2>3. QED
    BY <1>1, <1>2, <2>1, <2>2 DEF WireContinuesCursor, InChunk
<1>5. QED
  BY <1>3, <1>4

LEMMA DropBlockWire ==
  ASSUME IndInv, TypeInv', DropBlock
  PROVE  WireContinuesCursor'
<1> USE DEF DropBlock, NextBlock
<1>1. /\ wire' = Tail(wire) /\ published' = published /\ serverPos' = serverPos
      /\ pc' = "dispatch" /\ lastEventId' = lastEventId
  OBVIOUS
<1>2. \A i \in DOMAIN Tail(wire) :
        IsEvent(Tail(wire)[i]) => Tail(wire)[i].id <= published
  <2>1. wire \in Seq(Block) /\ wire # <<>>
    BY DEF IndInv, TypeInv, TypeOK
  <2>2. \A i \in DOMAIN Tail(wire) :
          i + 1 \in DOMAIN wire /\ Tail(wire)[i] = wire[i + 1]
    BY <2>1
  <2>3. QED
    BY <2>2 DEF IndInv, WireContinuesCursor
<1>3. ~IsEvent(Head(wire))
  BY HeadOfChunk
<1>4. PICK b \in 0..serverPos :
             /\ lastEventId \in Nat => b = lastEventId
             /\ lastEventId = NoCursor => b = 0
             /\ Continues(b, Tail(wire), serverPos)
  BY <1>3, HeadOfChunk
<1>5. QED
  BY <1>1, <1>2, <1>4 DEF WireContinuesCursor, InChunk

(* The server extends what is in flight at its end only. *)
LEMMA SendWire ==
  ASSUME IndInv, TypeInv', SendEvent \/ SendChatter
  PROVE  WireContinuesCursor'
<1>1. /\ wire \in Seq(Block) /\ serverPos \in Nat /\ published \in Nat
      /\ pc' = pc /\ lastEventId' = lastEventId /\ published' = published
      /\ Connected /\ Connected'
  BY StreamAssumption
  DEF IndInv, TypeInv, TypeOK, SendEvent, SendChatter, Connected
<1>2. PICK b \in 0..serverPos :
             /\ lastEventId \in Nat => b = lastEventId
             /\ lastEventId = NoCursor => b = 0
             /\ Continues(b, wire, serverPos)
  BY <1>1 DEF IndInv, WireContinuesCursor
<1>3. b \in Nat /\ b <= serverPos
  BY <1>1, <1>2
<1>4. \A i \in DOMAIN wire : IsEvent(wire[i]) => wire[i].id <= published
  BY DEF IndInv, WireContinuesCursor
<1>5. CASE SendEvent
  <2>1. wire' = Append(wire, EventBlock(serverPos + 1)) /\ serverPos' = serverPos + 1
    BY <1>5 DEF SendEvent
  <2>2. Continues(b, wire', serverPos')
    BY <1>1, <1>2, <1>3, <2>1, ContinuesAppendEvent
  <2>3. EventBlock(serverPos + 1) \in Block /\ EventBlock(serverPos + 1).id <= published
    BY <1>1, <1>5, StreamAssumption DEF EventBlock, Block, SendEvent
  <2>4. \A i \in DOMAIN wire' : IsEvent(wire'[i]) => wire'[i].id <= published
    BY <1>1, <1>4, <2>1, <2>3
  <2>5. b \in 0..serverPos'
    BY <1>1, <1>3, <2>1
  <2>6. QED
    BY <1>1, <1>2, <2>2, <2>4, <2>5 DEF WireContinuesCursor, TypeInv
<1>6. CASE SendChatter
  <2>1. PICK c \in Chatter : wire' = Append(wire, c)
    BY <1>6 DEF SendChatter
  <2>2. c \in Block /\ ~IsEvent(c) /\ serverPos' = serverPos
    BY <1>6, StreamAssumption DEF SendChatter, Block, IsEvent
  <2>3. Continues(b, wire', serverPos')
    BY <1>1, <1>2, <1>3, <2>1, <2>2, ContinuesAppendOther
  <2>4. \A i \in DOMAIN wire' : IsEvent(wire'[i]) => wire'[i].id <= published
    BY <1>1, <1>4, <2>1, <2>2
  <2>5. QED
    BY <1>1, <1>2, <2>2, <2>3, <2>4 DEF WireContinuesCursor, TypeInv
<1>7. QED
  BY <1>5, <1>6

(* A new connection starts where the cursor says. *)
LEMMA FetchOkWire ==
  ASSUME IndInv, TypeInv', FetchOk
  PROVE  WireContinuesCursor'
<1>1. /\ wire' = <<>> /\ lastEventId' = lastEventId /\ serverPos' \in Nat
      /\ lastEventId \in Nat => serverPos' = lastEventId
      /\ lastEventId = NoCursor => serverPos' = 0
  BY StreamAssumption DEF FetchOk, PositionOf, IndInv, TypeInv, TypeOK, Cursor
<1>2. Continues(serverPos', wire', serverPos') /\ serverPos' \in 0..serverPos'
  BY <1>1, ContinuesEmpty
<1>3. QED
  BY <1>1, <1>2 DEF WireContinuesCursor, TypeInv

LEMMA IndInvStep == IndInv /\ [Next]_vars => IndInv'
<1> SUFFICES ASSUME IndInv, [Next]_vars PROVE IndInv'
  OBVIOUS
<1>1. TypeInv /\ TypeInv' /\ ResumesWithoutGapOrRepeat /\ WireContinuesCursor
  BY TypeInvStep DEF IndInv
<1> DEFINE Goal == ResumesWithoutGapOrRepeat' /\ WireContinuesCursor'
<1> SUFFICES Goal
  BY <1>1 DEF IndInv
<1>2. CASE Publish
  <2>1. ResumesWithoutGapOrRepeat'
    BY <1>1, <1>2, SameStretch DEF Publish
  <2>2. published' = published + 1 /\ published \in Nat /\ wire \in Seq(Block)
    BY <1>1, <1>2, StreamAssumption DEF Publish, TypeInv, TypeOK
  <2>3. \A i \in DOMAIN wire : IsEvent(wire[i]) => wire[i].id <= published'
    <3>1. \A i \in DOMAIN wire : IsEvent(wire[i]) => wire[i].id \in Nat
      BY <2>2, EventIds
    <3>2. QED
      BY <1>1, <2>2, <3>1 DEF WireContinuesCursor
  <2>4. WireContinuesCursor'
    BY <1>1, <1>2, <2>3 DEF WireContinuesCursor, TypeInv, Publish, Connected
  <2>5. QED
    BY <2>1, <2>4
<1>3. CASE SendEvent
  BY <1>1, <1>3, SendWire, SameStretch DEF SendEvent
<1>4. CASE SendChatter
  BY <1>1, <1>4, SendWire, SameStretch DEF SendChatter
<1>5. CASE FetchOk
  BY <1>1, <1>5, FetchOkWire, SameStretch DEF FetchOk
<1>6. CASE FetchFails
  BY <1>1, <1>6, SameWire, SameStretch DEF FetchFails, Connected
<1>7. CASE Read
  BY <1>1, <1>7, SameWire, SameStretch DEF Read, ReadChunk, Connected
<1>8. CASE ReadDone
  BY <1>1, <1>8, NoConnection, SameStretch DEF ReadDone, Connected
<1>9. CASE ReadFails
  BY <1>1, <1>9, NoConnection, SameStretch DEF ReadFails, Connected
<1>10. CASE DropBlock
  BY <1>1, <1>10, DropBlockWire, SameStretch DEF DropBlock, NextBlock
<1>11. CASE Present
  BY <1>1, <1>11, PresentWire, DeliverStep DEF Present, NextBlock
<1>12. CASE PresentRethrows
  BY <1>1, <1>12, NoConnection, DeliverStep DEF PresentRethrows, Connected
<1>13. CASE ChunkDone
  BY <1>1, <1>13, SameWire, SameStretch DEF ChunkDone, InChunk, Connected
<1>14. CASE CatchClosed
  BY <1>1, <1>14, SameWire, SameStretch DEF CatchClosed, Connected
<1>15. CASE CatchReports
  BY <1>1, <1>15, SameWire, SameStretch DEF CatchReports, Connected
<1>16. CASE CatchThrows
  BY <1>1, <1>16, SameWire, SameStretch DEF CatchThrows, Connected
<1>17. CASE TimerFires
  BY <1>1, <1>17, SameWire, SameStretch DEF TimerFires, LoopTop, Connected
<1>18. CASE Close
  BY <1>1, <1>18, SameWire, SameStretch DEF Close, Connected
<1>19. CASE UNCHANGED vars
  BY <1>1, <1>19, SameWire, SameStretch DEF vars, Connected
<1>20. CASE PipeChunk
  BY <1>1, <1>20, SameWire, SameStretch DEF PipeChunk, Connected
<1>21. QED
  BY <1>2, <1>3, <1>4, <1>5, <1>6, <1>7, <1>8, <1>9, <1>10, <1>11, <1>12,
     <1>13, <1>14, <1>15, <1>16, <1>17, <1>18, <1>19, <1>20 DEF Next

(* Delivery resumes after any failure without a gap, a repeat or a         *)
(* reordering: sseStream's cursor handling, for every log and every        *)
(* splitting of the response into chunks.                                  *)
THEOREM NoGapNoRepeat == Spec => []ResumesWithoutGapOrRepeat
<1>1. IndInv => ResumesWithoutGapOrRepeat
  BY DEF IndInv
<1>2. QED
  BY IndInvInit, IndInvStep, <1>1, PTL DEF Spec

(* What is in flight always continues the cursor of the next connection.   *)
THEOREM InFlightContinuesCursor == Spec => []WireContinuesCursor
<1>1. IndInv => WireContinuesCursor
  BY DEF IndInv
<1>2. QED
  BY IndInvInit, IndInvStep, <1>1, PTL DEF Spec

(***************************************************************************)
(* Refinement of the resumable feed.                                       *)
(***************************************************************************)
LEMMA FeedInitImplemented == Init => Feed!FeedInit
BY DEF Init, Feed!FeedInit

LEMMA DeliverImplemented ==
  ASSUME IndInv, InChunk, arrived > 0, TakeEvent(Head(wire)), CallbackMayClose,
         published' = published
  PROVE  [Feed!FeedNext]_Feed!feedVars
<1>1. CASE IsEvent(Head(wire))
  <2> DEFINE e == Head(wire).id
  <2>1. /\ e \in 1..published /\ e \in 1..MaxLog
        /\ lastEventId \in Nat => e = lastEventId + 1
        /\ lastEventId = NoCursor => e = 1
    <3>1. published \in 0..MaxLog
      BY DEF IndInv, TypeInv, TypeOK
    <3>2. QED
      BY <1>1, <3>1, HeadOfChunk, StreamAssumption
  <2>2. /\ lastEventId' = e
        /\ \/ /\ e \notin Unparsable
              /\ presented' = Append(presented, e) /\ refused' = refused
           \/ /\ e \in Unparsable
              /\ presented' = presented /\ refused' = refused \cup {e}
    BY <1>1 DEF TakeEvent
  <2>3. (~closed') \in {~closed, FALSE}
    <3>1. CASE closed' = closed
      BY <3>1, Zenon
    <3>2. CASE closed' = TRUE
      <4>1. (~closed') = FALSE
        BY <3>2, Zenon
      <4>2. QED
        BY <4>1
    <3>3. QED
      BY <3>1, <3>2 DEF CallbackMayClose
  <2> HIDE DEF e
  <2>4. Feed!HandOver(e) \/ Feed!Refuse(e)
    BY <2>1, <2>2, <2>3 DEF Feed!HandOver, Feed!Refuse, Feed!IsNext
  <2>5. QED
    BY <2>1, <2>4 DEF Feed!FeedNext
<1>2. CASE ~IsEvent(Head(wire))
  <2>1. UNCHANGED <<lastEventId, presented, refused>>
    BY <1>2 DEF TakeEvent
  <2>2. CASE closed' = closed
    BY <2>1, <2>2 DEF Feed!feedVars
  <2>3. CASE closed' = TRUE
    BY <2>1, <2>3 DEF Feed!FeedNext, Feed!Close
  <2>4. QED
    BY <2>2, <2>3 DEF CallbackMayClose
<1>3. QED
  BY <1>1, <1>2

LEMMA FeedStepImplemented ==
  IndInv /\ [Next]_vars => [Feed!FeedNext]_Feed!feedVars
<1> SUFFICES ASSUME IndInv, [Next]_vars PROVE [Feed!FeedNext]_Feed!feedVars
  OBVIOUS
<1>1. CASE Publish
  BY <1>1 DEF Publish, Feed!FeedNext, Feed!Publish
<1>2. CASE Present
  BY <1>2, DeliverImplemented DEF Present, NextBlock
<1>3. CASE PresentRethrows
  BY <1>3, DeliverImplemented DEF PresentRethrows
<1>4. CASE \/ SendEvent \/ SendChatter \/ PipeChunk
           \/ FetchOk \/ FetchFails \/ Read
           \/ ReadDone \/ ReadFails \/ DropBlock \/ ChunkDone \/ CatchClosed
           \/ TimerFires \/ UNCHANGED vars
  <2>1. UNCHANGED <<published, lastEventId, presented, refused, closed>>
    BY <1>4 DEF SendEvent, SendChatter, PipeChunk, FetchOk, FetchFails, Read,
                ReadChunk, ReadDone, ReadFails, DropBlock, NextBlock, ChunkDone, CatchClosed,
                TimerFires, vars
  <2>2. QED
    BY <2>1 DEF Feed!feedVars
<1>5. CASE CatchReports \/ CatchThrows \/ Close
  <2>1. /\ UNCHANGED <<published, lastEventId, presented, refused>>
        /\ closed' = closed \/ closed' = TRUE
    BY <1>5 DEF CatchReports, CatchThrows, Close, CallbackMayClose
  <2>2. CASE closed' = closed
    BY <2>1, <2>2 DEF Feed!feedVars
  <2>3. CASE closed' = TRUE
    BY <2>1, <2>3 DEF Feed!FeedNext, Feed!Close
  <2>4. QED
    BY <2>1, <2>2, <2>3
<1>6. QED
  BY <1>1, <1>2, <1>3, <1>4, <1>5 DEF Next

(* The connect loop implements the resumable feed: every step of it maps   *)
(* to a step of the feed or to a stutter.                                  *)
THEOREM StreamImplementsFeed == Spec => ImplementsFeed
<1>1. Spec => []IndInv
  BY IndInvInit, IndInvStep, PTL DEF Spec
<1>2. Spec => Feed!FeedInit /\ [][Feed!FeedNext]_Feed!feedVars
  BY <1>1, FeedInitImplemented, FeedStepImplemented, PTL DEF Spec
<1>3. QED
  BY <1>2 DEF ImplementsFeed, Feed!FeedSpec

(***************************************************************************)
(* The parse buffer.  It only ever holds the first part of the block after *)
(* those that have arrived: taking a block moves both by one.              *)
(***************************************************************************)
BufferInv == TypeInv /\ BufferOfThisConnection

LEMMA BufferTake ==
  ASSUME BufferInv, arrived > 0, Connected, buffer' = buffer,
         wire' = Tail(wire), arrived' = arrived - 1
  PROVE  BufferOfThisConnection'
<1>1. wire \in Seq(Block) /\ arrived \in 0..Len(wire)
  BY DEF BufferInv, TypeInv, TypeOK
<1>2. CASE buffer = <<>>
  BY <1>2 DEF BufferOfThisConnection
<1>3. CASE buffer # <<>>
  <2>1. Len(wire) > arrived /\ buffer[1] = wire[arrived + 1]
    BY <1>3 DEF BufferInv, BufferOfThisConnection
  <2>2. Len(Tail(wire)) = Len(wire) - 1 /\ Tail(wire)[arrived] = wire[arrived + 1]
    BY <1>1, <2>1
  <2>3. Len(wire') > arrived' /\ buffer'[1] = wire'[arrived' + 1]
    BY <1>1, <2>1, <2>2
  <2>4. QED
    BY <2>3 DEF BufferOfThisConnection
<1>4. QED
  BY <1>2, <1>3

LEMMA BufferSend ==
  ASSUME BufferInv, Connected, UNCHANGED <<buffer, arrived>>,
         NEW b \in Block, wire' = Append(wire, b)
  PROVE  BufferOfThisConnection'
<1>1. wire \in Seq(Block) /\ arrived \in 0..Len(wire)
  BY DEF BufferInv, TypeInv, TypeOK
<1>2. /\ Len(wire') = Len(wire) + 1
      /\ arrived < Len(wire) => wire'[arrived + 1] = wire[arrived + 1]
  BY <1>1
<1>3. QED
  BY <1>1, <1>2 DEF BufferInv, BufferOfThisConnection

LEMMA BufferInvStep == BufferInv /\ [Next]_vars => BufferInv'
<1> SUFFICES ASSUME BufferInv, [Next]_vars PROVE BufferOfThisConnection'
  BY TypeInvStep DEF BufferInv
<1> USE DEF Connected
<1>1. TypeInv /\ TypeInv'
  BY TypeInvStep DEF BufferInv
<1>2. CASE SendEvent
  <2>1. EventBlock(serverPos + 1) \in Block
    BY <1>1 DEF TypeInv, TypeOK, EventBlock, Block
  <2>2. QED
    BY <1>2, <2>1, BufferSend DEF SendEvent
<1>3. CASE SendChatter
  <2>1. Chatter \subseteq Block
    BY StreamAssumption DEF Block
  <2>2. QED
    BY <1>3, <2>1, BufferSend DEF SendChatter
<1>4. CASE FetchOk
  BY <1>4 DEF FetchOk, BufferOfThisConnection
<1>5. ASSUME NEW n \in 0..Len(wire), NEW half \in BOOLEAN, ReadChunk(n, half)
      PROVE  BufferOfThisConnection'
  <2>1. /\ wire' = wire /\ arrived' = n
        /\ buffer' = IF half THEN <<wire[n + 1]>> ELSE <<>>
        /\ half => n < Len(wire)
    BY <1>5 DEF ReadChunk
  <2>2. wire \in Seq(Block)
    BY <1>1 DEF TypeInv, TypeOK
  <2>3. CASE half
    BY <2>1, <2>2, <2>3 DEF BufferOfThisConnection
  <2>4. CASE ~half
    BY <2>1, <2>4 DEF BufferOfThisConnection
  <2>5. QED
    BY <2>3, <2>4
<1>6. CASE DropBlock \/ Present
  <2>1. arrived > 0 /\ Connected /\ buffer' = buffer
        /\ wire' = Tail(wire) /\ arrived' = arrived - 1
    BY <1>6 DEF DropBlock, Present, NextBlock, InChunk
  <2>2. QED
    BY <2>1, BufferTake
<1>7. CASE \/ FetchFails \/ ReadDone \/ ReadFails \/ PresentRethrows
           \/ CatchClosed \/ CatchReports \/ CatchThrows \/ TimerFires
  <2>1. ~Connected'
    BY <1>7 DEF FetchFails, ReadDone, ReadFails, PresentRethrows, CatchClosed,
                CatchReports, CatchThrows, TimerFires, LoopTop
  <2>2. QED
    BY <2>1 DEF BufferOfThisConnection
<1>8. CASE Publish \/ PipeChunk \/ ChunkDone \/ Close \/ UNCHANGED vars
  <2>1. UNCHANGED <<wire, arrived, buffer>> /\ Connected' = Connected
    BY <1>8 DEF Publish, PipeChunk, ChunkDone, Close, vars, InChunk
  <2>2. QED
    BY <2>1 DEF BufferInv, BufferOfThisConnection
<1>9. QED
  BY <1>2, <1>3, <1>4, <1>5, <1>6, <1>7, <1>8 DEF Next, Read

(* The first part of a block is never glued to a block it is not part of,  *)
(* wherever chunks and connections end.                                    *)
THEOREM BufferContinues == Spec => []BufferOfThisConnection
<1>1. Init => BufferInv
  BY TypeInvInit DEF Init, BufferInv, BufferOfThisConnection
<1>2. BufferInv => BufferOfThisConnection
  BY DEF BufferInv
<1>3. QED
  BY <1>1, <1>2, BufferInvStep, PTL DEF Spec

(***************************************************************************)
(* What a closed stream no longer does.                                    *)
(***************************************************************************)
QuietInv == TypeInv /\ TRUE \notin reportedWhile

(* The step of ClosedStreamOnlyDrains. *)
OnlyDrains ==
  closed => /\ pc' = "fetching" => pc = "fetching"
            /\ piped' => piped
            /\ pc = "reading" /\ pc' = "arrived" => piped /\ ~piped'
            /\ Handled' # Handled => InChunk
            /\ TRUE \notin reportedWhile'

LEMMA QuietStep ==
  QuietInv /\ [Next]_vars => QuietInv' /\ [OnlyDrains]_vars
<1> SUFFICES ASSUME QuietInv, [Next]_vars
             PROVE  TRUE \notin reportedWhile' /\ OnlyDrains
  BY TypeInvStep DEF QuietInv
<1> USE DEF OnlyDrains
<1>1. aborted = closed /\ TRUE \notin reportedWhile
  BY DEF QuietInv, TypeInv, TypeOK
<1>2. UNCHANGED <<presented, refused>> => Handled' = Handled
  BY DEF Handled
<1>3. CASE Read
  BY <1>1, <1>2, <1>3 DEF Read, ReadChunk
<1>4. CASE CatchReports \/ CatchThrows
  BY <1>1, <1>2, <1>4 DEF CatchReports, CatchThrows
<1>5. CASE TimerFires
  BY <1>1, <1>2, <1>5 DEF TimerFires, LoopTop
<1>6. CASE DropBlock \/ Present \/ PresentRethrows
  <2>1. /\ InChunk /\ pc' \in {"dispatch", "caught"}
        /\ reportedWhile' = reportedWhile /\ (piped' => piped)
    BY <1>6 DEF DropBlock, Present, NextBlock, PresentRethrows
  <2>2. QED
    BY <1>1, <2>1
<1>7. CASE PipeChunk
  BY <1>1, <1>2, <1>7 DEF PipeChunk
<1>8. CASE \/ Publish \/ SendEvent \/ SendChatter \/ FetchOk \/ FetchFails
           \/ ReadDone \/ ReadFails \/ ChunkDone \/ CatchClosed \/ Close
           \/ UNCHANGED vars
  <2>1. /\ UNCHANGED <<presented, refused, reportedWhile>>
        /\ piped' => piped
    BY <1>8 DEF Publish, SendEvent, SendChatter, FetchOk, FetchFails,
       ReadDone, ReadFails, ChunkDone, CatchClosed, Close, vars
  <2>2. pc' = pc \/ pc' \in {"reading", "caught", "done", "sleep"}
    BY <1>8 DEF Publish, SendEvent, SendChatter, FetchOk, FetchFails,
       ReadDone, ReadFails, ChunkDone, CatchClosed, Close, vars
  <2>3. QED
    BY <1>1, <1>2, <2>1, <2>2
<1>9. QED
  BY <1>3, <1>4, <1>5, <1>6, <1>7, <1>8 DEF Next

(* A closed stream sends no request, takes nothing more off the network    *)
(* and reports no error of its connection; the loop still reads the one    *)
(* chunk that was in the pipe, and hands over events of no chunk but that  *)
(* one and the one it was in.                                              *)
THEOREM ClosedDrains == Spec => ClosedStreamOnlyDrains
<1>1. Init => QuietInv
  BY TypeInvInit DEF Init, QuietInv
<1>2. Spec => [][OnlyDrains]_vars
  BY <1>1, QuietStep, PTL DEF Spec
<1>3. QED
  BY <1>2 DEF ClosedStreamOnlyDrains, OnlyDrains
=============================================================================
