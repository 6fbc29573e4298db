----------------------------- MODULE StreamProofs -----------------------------
(***************************************************************************)
(* For streams of any length, however they are cut: statuses are fresh     *)
(* where they are written and in order where they are read.                *)
(*                                                                         *)
(* The strengthening of FreshAtTick says that no event claims more than    *)
(* the row, and that the row a handler is about to send was read after the *)
(* event before; that of InOrder, that the data of a call has been read;   *)
(* that of AlignedDelivery, that whole events have been.                   *)
(***************************************************************************)
EXTENDS StatusStream, SequenceTheorems, TLAPS

EventType == [name : {"status", "error"}, version : Nat, asOf : Nat]
CallType == [name : Nat, data : Nat, whole : BOOLEAN]

TypesHold ==
  /\ row \in Nat /\ tx \in Nat /\ consumed \in Nat
  /\ events \in Seq(EventType) /\ calls \in Seq(CallType)

NotAhead == \A e \in 1..Len(events) : events[e].asOf <= row

ReadAfter ==
  /\ handler = "start" => Len(events) = 0
  /\ handler # "start" /\ handler # "ended" => Len(events) > 0
  /\ handler = "send" => tx >= events[Len(events)].asOf

AlreadyRead == \A i \in 1..Len(calls) : Pieces * calls[i].data <= consumed

IInv == TypesHold /\ NotAhead /\ ReadAfter /\ FreshAtTick /\ AlreadyRead /\ InOrder

\* The numbers in the records.
LEMMA Fields ==
  ASSUME TypesHold
  PROVE  /\ Len(events) \in Nat /\ Len(calls) \in Nat
         /\ \A e \in 1..Len(events) : events[e].asOf \in Nat
         /\ \A i \in 1..Len(calls) : calls[i].data \in Nat /\ calls[i].name \in Nat
<1>1. Len(events) \in Nat /\ \A e \in 1..Len(events) : events[e] \in EventType
  BY DEF TypesHold
<1>2. Len(calls) \in Nat /\ \A i \in 1..Len(calls) : calls[i] \in CallType
  BY DEF TypesHold
<1>3. \A e \in EventType : e.asOf \in Nat
  BY DEF EventType
<1>4. \A c \in CallType : c.data \in Nat /\ c.name \in Nat
  BY DEF CallType
<1> QED
  BY <1>1, <1>2, <1>3, <1>4

\* Where the data is that one Read passes on, and whose name goes with it: a
\* name before the data's own would have been overwritten by it, and so would
\* the data, by that of the next event, if the name were later still.
LEMMA ReportsNear ==
  ASSUME NEW lo \in Int, NEW hi \in Int, Len(events) \in Nat,
         NEW n \in 1..Len(events), NEW d \in 1..Len(events), Reports(lo..hi, n, d)
  PROVE  lo <= Pieces * (d - 1) + 5 /\ Pieces * d <= hi /\ n \in {d, d + 1}
<1> USE DEF Pieces, TagPieces, SomeNamePieces, DataPieces, JsonPieces
<1>1. /\ \A e \in Holding(lo..hi, TagPieces) : e <= n
      /\ \A e \in Holding(lo..hi, DataPieces) : e <= d
      /\ n \in Holding(lo..hi, TagPieces) /\ d \in Holding(lo..hi, JsonPieces)
  BY DEF Reports, Last
<1>2. lo <= 7 * (n - 1) + 1 /\ 7 * (n - 1) + 2 <= hi
  <2>1. 1 \in TagPieces /\ 2 \in TagPieces
    OBVIOUS
  <2> QED
    BY <1>1, <2>1 DEF Holding
<1>3. lo <= 7 * (d - 1) + 5 /\ 7 * (d - 1) + 7 <= hi
  <2>1. 5 \in JsonPieces /\ 7 \in JsonPieces
    OBVIOUS
  <2> QED
    BY <1>1, <2>1 DEF Holding
<1>4. ~ (n < d)
  <2> SUFFICES ASSUME n < d PROVE d \in Holding(lo..hi, TagPieces)
    BY <1>1
  <2>1. \A p \in TagPieces : Pieces * (d - 1) + p \in lo..hi
    BY <1>2, <1>3
  <2> QED
    BY <2>1 DEF Holding
<1>5. ~ (n > d + 1)
  <2> SUFFICES ASSUME n > d + 1 PROVE d + 1 \in Holding(lo..hi, DataPieces)
    BY <1>1
  <2>1. \A p \in DataPieces : Pieces * ((d + 1) - 1) + p \in lo..hi
    BY <1>2, <1>3
  <2> QED
    BY <2>1 DEF Holding
<1> QED
  BY <1>3, <1>4, <1>5

\* One event more: the row it says was read after the event before it.
LEMMA EmitKeeps ==
  ASSUME IInv, NEW name \in {"status", "error"}, NEW version \in Nat,
         NEW goto \in {"select", "ended"}, Emit(name, version, goto),
         name = "status" /\ Len(events) > 0 => version >= events[Len(events)].asOf,
         UNCHANGED <<row, tx, consumed, calls>>
  PROVE  IInv'
<1> USE DEF IInv
<1>1. CASE /\ events' = Append(events, [name |-> name, version |-> version, asOf |-> row])
           /\ handler' = goto
  <2>1. [name |-> name, version |-> version, asOf |-> row] \in EventType
    BY DEF TypesHold, EventType
  <2>2. TypesHold'
    BY <1>1, <2>1 DEF TypesHold
  <2>3. Len(events') = Len(events) + 1 /\ Len(events) \in Nat
    BY <1>1 DEF TypesHold
  <2>4. \A e \in 1..Len(events) : events'[e] = events[e] /\ e \in 1..Len(events')
    BY <1>1, <2>1, <2>3 DEF TypesHold
  <2>5. events'[Len(events) + 1] = [name |-> name, version |-> version, asOf |-> row]
    BY <1>1, <2>1, <2>3 DEF TypesHold
  <2>6. NotAhead'
    BY <2>2, <2>3, <2>4, <2>5 DEF NotAhead, TypesHold
  <2>7. ReadAfter'
    BY <1>1, <2>3 DEF ReadAfter
  <2>8. FreshAtTick'
    <3> SUFFICES ASSUME NEW e \in 2..Len(events'), events'[e].name = "status"
                 PROVE  events'[e].version >= events'[e - 1].asOf
      BY DEF FreshAtTick
    <3>1. CASE e = Len(events) + 1
      BY <3>1, <2>3, <2>4, <2>5
    <3>2. CASE e \in 2..Len(events)
      <4>1. events'[e] = events[e] /\ events'[e - 1] = events[e - 1]
        BY <3>2, <2>3, <2>4
      <4> QED
        BY <4>1, <3>2 DEF FreshAtTick
    <3> QED
      BY <3>1, <3>2, <2>3
  <2> QED
    BY <2>2, <2>6, <2>7, <2>8 DEF AlreadyRead, InOrder
<1>2. CASE handler' = "ended" /\ UNCHANGED events
  BY <1>2 DEF TypesHold, NotAhead, ReadAfter, FreshAtTick, AlreadyRead, InOrder
<1> QED
  BY <1>1, <1>2 DEF Emit

LEMMA ReadKeeps == ASSUME IInv, Read PROVE IInv'
<1> USE DEF IInv
<1>1. PICK last \in Written :
        /\ last > consumed /\ consumed' = last /\ OnEvent((consumed + 1)..last)
  BY DEF Read
<1>2. UNCHANGED <<row, handler, tx, events>> /\ consumed' \in Nat /\ consumed' > consumed
      /\ consumed \in Nat
  BY <1>1 DEF Read, server, Written, Pieces, TypesHold
<1>3. NotAhead' /\ ReadAfter' /\ FreshAtTick'
  BY <1>2 DEF NotAhead, ReadAfter, FreshAtTick
<1>4. CASE UNCHANGED calls
  <2>1. TypesHold' /\ InOrder'
    BY <1>2, <1>4 DEF TypesHold, InOrder
  <2>2. AlreadyRead'
    BY <1>2, <1>4, Fields DEF AlreadyRead, Pieces
  <2> QED
    BY <1>3, <2>1, <2>2
<1>5. ASSUME NEW n \in 1..Len(events), NEW d \in 1..Len(events),
             Reports((consumed + 1)..last, n, d), NEW w \in BOOLEAN,
             calls' = Append(calls, [name |-> n, data |-> d, whole |-> w])
      PROVE  IInv'
  <2>1. Len(events) \in Nat /\ Len(calls) \in Nat /\ n \in Nat /\ d \in Nat
    BY DEF TypesHold
  <2>2. consumed + 1 <= Pieces * (d - 1) + 5 /\ Pieces * d <= last /\ n \in {d, d + 1}
    BY <1>1, <1>2, <1>5, <2>1, ReportsNear
  <2>3. [name |-> n, data |-> d, whole |-> w] \in CallType
    BY <2>1 DEF CallType
  <2>4. TypesHold'
    BY <1>2, <1>5, <2>3 DEF TypesHold
  <2>5. /\ Len(calls') = Len(calls) + 1
        /\ \A i \in 1..Len(calls) : calls'[i] = calls[i]
        /\ calls'[Len(calls) + 1] = [name |-> n, data |-> d, whole |-> w]
    BY <1>5, <2>3 DEF TypesHold
  <2>6. \A i \in 1..Len(calls) : calls[i].data \in Nat /\ calls[i].name \in Nat
    BY Fields
  <2>7. AlreadyRead'
    BY <1>1, <1>2, <2>1, <2>2, <2>5, <2>6 DEF AlreadyRead, Pieces
  <2>8. \A i \in 1..Len(calls) : calls[i].data < d
    BY <1>2, <2>1, <2>2, <2>6 DEF AlreadyRead, Pieces
  <2>9. InOrder'
    <3> SUFFICES ASSUME NEW i \in 1..Len(calls')
                 PROVE  /\ calls'[i].name \in {calls'[i].data, calls'[i].data + 1}
                        /\ i > 1 => calls'[i - 1].data < calls'[i].data
      BY DEF InOrder
    <3>1. CASE i = Len(calls) + 1
      BY <3>1, <2>1, <2>2, <2>5, <2>8
    <3>2. CASE i \in 1..Len(calls)
      <4>1. calls'[i] = calls[i] /\ (i > 1 => calls'[i - 1] = calls[i - 1])
        BY <3>2, <2>1, <2>5
      <4> QED
        BY <4>1, <3>2 DEF InOrder
    <3> QED
      BY <3>1, <3>2, <2>1, <2>5
  <2> QED
    BY <1>3, <2>4, <2>7, <2>9
<1>6. CASE \E n, d \in 1..Len(events) :
             /\ Reports((consumed + 1)..last, n, d)
             /\ calls' = Append(calls, [name |-> n, data |-> d,
                  whole |-> n \in Holding((consumed + 1)..last, NamePieces)])
  <2>1. \A n : (n \in Holding((consumed + 1)..last, NamePieces)) \in BOOLEAN
    OBVIOUS
  <2> QED
    BY <1>5, <1>6, <2>1
<1> QED
  BY <1>1, <1>4, <1>6 DEF OnEvent

LEMMA InitIInv == Init => IInv
  BY StreamAssumption DEF Init, IInv, TypesHold, NotAhead, ReadAfter, FreshAtTick, AlreadyRead, InOrder,
     EventType, CallType

LEMMA NextIInv == IInv /\ [Next]_vars => IInv'
<1> SUFFICES ASSUME IInv, [Next]_vars PROVE IInv'
  OBVIOUS
<1> USE DEF IInv
<1>1. CASE UNCHANGED vars \/ ContextDone \/ Tick \/ Leave \/ Stop
  <2>1. /\ UNCHANGED <<row, tx, events, consumed, calls>>
        /\ handler' = handler \/ handler' = "ended"
             \/ (handler = "select" /\ handler' = "query")
    BY <1>1 DEF vars, server, client, ContextDone, Tick, Leave, Stop
  <2> QED
    BY <2>1 DEF TypesHold, NotAhead, ReadAfter, FreshAtTick, AlreadyRead, InOrder
<1>2. CASE UpdateRow
  <2>1. row' = row + 1 /\ UNCHANGED <<handler, tx, events, consumed, calls>>
    BY <1>2 DEF UpdateRow, server, client
  <2>2. \A e \in 1..Len(events) : events[e].asOf \in Nat
    BY Fields
  <2>3. TypesHold'
    BY <2>1 DEF TypesHold
  <2>4. NotAhead'
    BY <2>1, <2>2 DEF NotAhead, TypesHold
  <2> QED
    BY <2>1, <2>3, <2>4 DEF ReadAfter, FreshAtTick, AlreadyRead, InOrder
<1>3. CASE Open
  <2>1. handler = "start" /\ Emit("status", 0, "select") /\ UNCHANGED <<row, tx, consumed, calls>>
    BY <1>3 DEF Open, client
  <2> QED
    BY <2>1, EmitKeeps DEF ReadAfter
<1>4. CASE GetTransaction
  <2>1. /\ UNCHANGED <<row, events, consumed, calls>> /\ handler = "query"
        /\ \/ tx' = row /\ handler' = "send"
           \/ UNCHANGED tx /\ handler' = "sendError"
    BY <1>4 DEF GetTransaction, client
  <2>2. Len(events) > 0 /\ Len(events) \in Nat
    BY <2>1 DEF ReadAfter, TypesHold
  <2>3. events[Len(events)].asOf <= row /\ events[Len(events)].asOf \in Nat
    BY <2>2, Fields DEF NotAhead
  <2>4. TypesHold' /\ ReadAfter'
    BY <2>1, <2>2, <2>3 DEF TypesHold, ReadAfter
  <2> QED
    BY <2>1, <2>4 DEF NotAhead, FreshAtTick, AlreadyRead, InOrder
<1>5. CASE SendStatus
  <2>1. handler = "send" /\ Emit("status", tx, "select") /\ UNCHANGED <<row, tx, consumed, calls>>
    BY <1>5 DEF SendStatus, client
  <2>2. tx \in Nat /\ tx >= events[Len(events)].asOf
    BY <2>1 DEF TypesHold, ReadAfter
  <2> QED
    BY <2>1, <2>2, EmitKeeps
<1>6. CASE SendError
  <2>1. Emit("error", 0, "ended") /\ UNCHANGED <<row, tx, consumed, calls>>
    BY <1>6 DEF SendError, client
  <2> QED
    BY <2>1, EmitKeeps
<1>7. CASE Read
  BY <1>7, ReadKeeps
<1> QED
  BY <1>1, <1>2, <1>3, <1>4, <1>5, <1>6, <1>7 DEF Next, HandlerStep, ReaderStep

\* streamHandler: a status is at least as new as the row was when the event
\* before it was written, for streams and rows of any length.
THEOREM StatusesFresh == Spec => []FreshAtTick
  BY InitIInv, NextIInv, PTL DEF Spec, IInv

\* StreamStatus: onEvent is passed the data of a later event every time, with
\* its own name or that of the next one, however the stream is cut.
THEOREM CallsInOrder == Spec => []InOrder
  BY InitIInv, NextIInv, PTL DEF Spec, IInv

-----------------------------------------------------------------------------
(* Reads that return whole events.                                         *)

\* The calls of onEvent for the first m events.
Delivered(m) == [e \in 1..m |-> [name |-> e, data |-> e, whole |-> TRUE]]

AlignedInv == aligned => \E m \in Nat : consumed = Pieces * m /\ calls = Delivered(m)

\* The chunk of one event holds that event, and no other.
LEMMA ChunkHolds ==
  ASSUME Len(events) \in Nat, NEW e \in 1..Len(events), NEW pieces \in SUBSET (1..Pieces),
         pieces # {}
  PROVE  Holding(Pieces * (e - 1) + 1..Pieces * e, pieces) = {e}
<1>1. e \in Holding(Pieces * (e - 1) + 1..Pieces * e, pieces)
  BY DEF Holding, Pieces
<1>2. ASSUME NEW d \in Holding(Pieces * (e - 1) + 1..Pieces * e, pieces) PROVE d = e
  <2>1. PICK p \in pieces : TRUE
    OBVIOUS
  <2>2. /\ p \in 1..7 /\ d \in 1..Len(events)
        /\ 7 * (d - 1) + p \in 7 * (e - 1) + 1..7 * e
    BY <2>1 DEF Holding, Pieces
  <2> QED
    BY <2>2
<1> QED
  BY <1>1, <1>2

LEMMA DeliveredNext ==
  ASSUME NEW m \in Nat
  PROVE  Delivered(m + 1) = Append(Delivered(m), [name |-> m + 1, data |-> m + 1, whole |-> TRUE])
<1> DEFINE c == [name |-> m + 1, data |-> m + 1, whole |-> TRUE]
<1>1. \A e \in Nat : [name |-> e, data |-> e, whole |-> TRUE] \in CallType
  BY DEF CallType
<1>2. /\ Delivered(m) \in Seq(CallType) /\ Len(Delivered(m)) = m
      /\ Delivered(m + 1) \in Seq(CallType) /\ Len(Delivered(m + 1)) = m + 1
  BY <1>1 DEF Delivered
<1>3. /\ Append(Delivered(m), c) \in Seq(CallType) /\ Len(Append(Delivered(m), c)) = m + 1
      /\ \A i \in 1..m : Append(Delivered(m), c)[i] = Delivered(m)[i]
      /\ Append(Delivered(m), c)[m + 1] = c
  BY <1>1, <1>2
<1>4. /\ \A i \in 1..m : Delivered(m + 1)[i] = Delivered(m)[i]
      /\ Delivered(m + 1)[m + 1] = c
  BY DEF Delivered
<1> HIDE DEF c
<1>5. \A i \in 1..m + 1 : Delivered(m + 1)[i] = Append(Delivered(m), c)[i]
  BY <1>3, <1>4
<1>6. Delivered(m + 1) = Append(Delivered(m), c)
  BY <1>2, <1>3, <1>5, SeqEqual
<1> QED
  BY <1>6 DEF c

\* A Read of one event calls onEvent once, for that event.
LEMMA ReadDelivers == ASSUME IInv, AlignedInv, Read PROVE AlignedInv'
<1> SUFFICES ASSUME aligned'
             PROVE  \E m \in Nat : consumed' = Pieces * m /\ calls' = Delivered(m)
  BY DEF AlignedInv
<1>1. PICK last \in Written :
        /\ last > consumed /\ consumed' = last /\ OnEvent((consumed + 1)..last)
        /\ aligned' = (aligned /\ \E e \in 1..Len(events) :
                         (consumed + 1)..last = Pieces * (e - 1) + 1..Pieces * e)
  BY DEF Read
<1>2. PICK e \in 1..Len(events) : (consumed + 1)..last = Pieces * (e - 1) + 1..Pieces * e
  BY <1>1
<1>3. PICK m \in Nat : consumed = Pieces * m /\ calls = Delivered(m)
  BY <1>1 DEF AlignedInv
<1>4. Len(events) \in Nat /\ last \in Nat /\ e \in Nat
  BY <1>1, <1>2 DEF IInv, TypesHold, Written, Pieces
<1>5. last = 7 * e /\ e = m + 1
  <2>1. 7 * m + 1 \in 7 * (e - 1) + 1..7 * e /\ last \in 7 * (e - 1) + 1..7 * e
    BY <1>1, <1>2, <1>3, <1>4 DEF Pieces
  <2>2. 7 * e \in 7 * m + 1..last
    BY <1>2, <1>3, <1>4 DEF Pieces
  <2> QED
    BY <1>4, <2>1, <2>2
<1> DEFINE chunk == (consumed + 1)..last
<1>6. \A pieces \in SUBSET (1..Pieces) : pieces # {} => Holding(chunk, pieces) = {e}
  BY <1>2, <1>4, ChunkHolds
<1> HIDE DEF chunk
<1>7. /\ Holding(chunk, TagPieces) = {e} /\ Holding(chunk, SomeNamePieces) = {e}
      /\ Holding(chunk, NamePieces) = {e} /\ Holding(chunk, DataPieces) = {e}
      /\ Holding(chunk, JsonPieces) = {e}
  <2>1. \A pieces \in {TagPieces, SomeNamePieces, NamePieces, DataPieces, JsonPieces} :
          pieces \in SUBSET (1..Pieces) /\ (1 \in pieces \/ 5 \in pieces)
    BY DEF Pieces, TagPieces, SomeNamePieces, NamePieces, DataPieces, JsonPieces
  <2> QED
    BY <1>6, <2>1
<1>8. \A n, d \in 1..Len(events) : Reports(chunk, n, d) <=> n = e /\ d = e
  BY <1>4, <1>7 DEF Reports, Last
<1>9. calls' = Append(calls, [name |-> e, data |-> e, whole |-> TRUE])
  <2>1. OnEvent(chunk)
    BY <1>1 DEF chunk
  <2>2. PICK n \in 1..Len(events), d \in 1..Len(events) :
          /\ Reports(chunk, n, d)
          /\ calls' = Append(calls, [name |-> n, data |-> d,
                                     whole |-> n \in Holding(chunk, NamePieces)])
    BY <1>8, <2>1 DEF OnEvent
  <2>3. n = e /\ d = e /\ (n \in Holding(chunk, NamePieces)) = TRUE
    BY <1>7, <1>8, <2>2
  <2> QED
    BY <2>2, <2>3
<1> QED
  BY <1>1, <1>3, <1>5, <1>9, DeliveredNext DEF Pieces

\* StreamStatus with a connection that hands it event by event: one call of
\* onEvent for every event, with its own name and data.
THEOREM EventsDelivered == Spec => []AlignedDelivery
<1>1. Init => AlignedInv
  <2> SUFFICES ASSUME Init PROVE consumed = Pieces * 0 /\ calls = Delivered(0)
    BY DEF AlignedInv
  <2> QED
    BY DEF Init, Pieces, Delivered
<1>2. IInv /\ AlignedInv /\ [Next]_vars => AlignedInv'
  <2>1. CASE UNCHANGED client
    BY <2>1 DEF AlignedInv, client
  <2>2. Stop => UNCHANGED <<consumed, calls, aligned>>
    BY DEF Stop
  <2> QED
    BY <2>1, <2>2, ReadDelivers
       DEF Next, HandlerStep, ReaderStep, UpdateRow, ContextDone, Open, Tick, Leave,
           GetTransaction, SendStatus, SendError, vars, AlignedInv
<1>3. AlignedInv => AlignedDelivery
  <2> SUFFICES ASSUME NEW m \in Nat, consumed = Pieces * m, calls = Delivered(m)
               PROVE  calls = Delivered(consumed \div Pieces)
    BY DEF AlignedInv, AlignedDelivery, Delivered
  <2> QED
    BY DEF Pieces
<1> QED
  BY <1>1, <1>2, <1>3, InitIInv, NextIInv, PTL DEF Spec
=============================================================================
