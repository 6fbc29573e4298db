----------------------------- MODULE StatusStream -----------------------------
(***************************************************************************)
(* GET /transactions/{id}/stream: streamHandler of internal/api/handlers.go *)
(* reads the row of the transaction every two seconds and writes it as a   *)
(* server-sent event; StreamStatus of pkg/client reads the body of the     *)
(* answer and calls onEvent.  Between them is a byte stream: a Read returns *)
(* any number of the bytes that have been written.                         *)
(*                                                                         *)
(*   handler  start -Open-> select -Tick-> query -GetTransaction-> send    *)
(*            -SendStatus-> select;  -SendError-> or -Leave-> ended        *)
(*   reader   reading -Read-> reading -Stop-> returned                     *)
(*                                                                         *)
(* The row is the number of times the engine has updated it since          *)
(* SaveTransaction.  An event is seven pieces of text, cut where a Read    *)
(* that ends there makes a difference to StreamStatus.                     *)
(***************************************************************************)
EXTENDS Sequences, Integers

CONSTANTS
  NullReadable,  \* see TransactionStore: can a row be read before its first update
  MaxUpdates,    \* bound: updates of the row
  MaxEvents      \* bound: events of the stream

ASSUME StreamAssumption ==
  /\ NullReadable \in BOOLEAN
  /\ MaxUpdates \in Nat
  /\ MaxEvents \in Nat \ {0}

VARIABLES
  known,      \* is there a row with this id
  row,        \* updates of the row so far
  ctx,        \* the context of the request
  handler,    \* where streamHandler is
  tx,         \* the row it read at this tick
  events,     \* what it has written; asOf is the row when it was written
  reader,     \* is StreamStatus still reading
  consumed,   \* pieces it has read
  calls,      \* its calls of onEvent: whose name, whose data
  aligned     \* history: every Read returned exactly one event

server == <<ctx, handler, tx, events>>
client == <<reader, consumed, calls, aligned>>
vars == <<known, row, server, client>>

\* "eve" "nt:" " sta" "tus\n" "da" "ta: {..." "...}\n\n"
Pieces == 7
TagPieces == 1..2       \* event: is seen, the name may be empty
SomeNamePieces == 1..3  \* ... or truncated
NamePieces == 1..4
DataPieces == 5..6      \* data: is seen, the JSON is truncated
JsonPieces == 5..7

Written == 1..Pieces * Len(events)

Init ==
  /\ known \in BOOLEAN
  /\ row \in IF known THEN 0..MaxUpdates ELSE {0}
  /\ ctx = "live" /\ handler = "start" /\ tx = 0 /\ events = <<>>
  /\ reader = "reading" /\ consumed = 0 /\ calls = <<>> /\ aligned = TRUE

-----------------------------------------------------------------------------

\* A worker or Retry updates the status of the transaction.
UpdateRow ==
  /\ known /\ row < MaxUpdates
  /\ row' = row + 1
  /\ UNCHANGED <<known, server, client>>

\* Wrong on purpose: no Timeout middleware.
ContextDoneByClient ==
  /\ ctx = "live" /\ reader = "returned"
  /\ ctx' = "done"
  /\ UNCHANGED <<known, row, handler, tx, events, client>>

\* The client hangs up, or chi's Timeout middleware ends the request after
\* 60 seconds, whatever the handler is doing.
ContextDone ==
  /\ ctx = "live"
  /\ ctx' = "done"
  /\ UNCHANGED <<known, row, handler, tx, events, client>>

\* sendSSEEvent.  The connection may be gone before the context is done.
Emit(name, version, goto) ==
  \/ /\ events' = Append(events, [name |-> name, version |-> version, asOf |-> row])
     /\ handler' = goto
  \/ handler' = "ended" /\ UNCHANGED events

\* The first event says pending, whatever the row says or whether there is
\* one: version 0.
Open ==
  /\ handler = "start"
  /\ Emit("status", 0, "select")
  /\ UNCHANGED <<known, row, ctx, tx, client>>

\* The two cases of the select.  When both are ready either is taken.
Tick ==
  /\ handler = "select" /\ Len(events) < MaxEvents
  /\ handler' = "query"
  /\ UNCHANGED <<known, row, ctx, tx, events, client>>

Leave ==
  /\ handler = "select" /\ ctx = "done"
  /\ handler' = "ended"
  /\ UNCHANGED <<known, row, ctx, tx, events, client>>

\* Wrong on purpose: a row that was read once is not read again.
GetTransactionCached ==
  /\ handler = "query"
  /\ \/ /\ known /\ ctx = "live" /\ (row > 0 \/ NullReadable)
        /\ tx' = (IF tx > 0 THEN tx ELSE row) /\ handler' = "send"
     \/ handler' = "sendError" /\ UNCHANGED tx
  /\ UNCHANGED <<known, row, ctx, events, client>>

\* store.GetTransaction on the request's context.  No row, a row with NULLs,
\* a context that is done and a failing database are all the same error.
GetTransaction ==
  /\ handler = "query"
  /\ \/ /\ known /\ ctx = "live" /\ (row > 0 \/ NullReadable)
        /\ tx' = row /\ handler' = "send"
     \/ handler' = "sendError" /\ UNCHANGED tx
  /\ UNCHANGED <<known, row, ctx, events, client>>

SendStatus ==
  /\ handler = "send"
  /\ Emit("status", tx, "select")
  /\ UNCHANGED <<known, row, ctx, tx, client>>

\* "transaction not found"; the error of writing it is dropped.
SendError ==
  /\ handler = "sendError"
  /\ Emit("error", 0, "ended")
  /\ UNCHANGED <<known, row, ctx, tx, client>>

-----------------------------------------------------------------------------

\* The events of which a chunk of the stream holds all of these pieces.
Holding(chunk, pieces) ==
  {e \in 1..Len(events) : \A p \in pieces : Pieces * (e - 1) + p \in chunk}

Last(e, S) == e \in S /\ \A d \in S : d <= e

\* Wrong on purpose: event and data are declared outside the loop and keep
\* what an earlier Read left in them.
ReportsKept(chunk, n, d) ==
  LET seen == {p \in Written : \E c \in chunk : p <= c}
  IN  /\ Last(n, Holding(seen, TagPieces)) /\ n \in Holding(seen, SomeNamePieces)
      /\ Last(d, Holding(seen, DataPieces)) /\ d \in Holding(seen, JsonPieces)

\* Wrong on purpose: one event type is dispatched.
ReportsStatusOnly(chunk, n, d) ==
  /\ Last(n, Holding(chunk, TagPieces)) /\ n \in Holding(chunk, SomeNamePieces)
  /\ Last(d, Holding(chunk, DataPieces)) /\ d \in Holding(chunk, JsonPieces)
  /\ events[d].name = "status"

\* One Read is taken for one event: of the lines of the chunk the last one
\* that begins with event: and the last one that begins with data: are passed
\* to onEvent, here those of the events n and d, unless one is missing, the
\* name is empty or the data is not JSON.
Reports(chunk, n, d) ==
  /\ Last(n, Holding(chunk, TagPieces)) /\ n \in Holding(chunk, SomeNamePieces)
  /\ Last(d, Holding(chunk, DataPieces)) /\ d \in Holding(chunk, JsonPieces)

OnEvent(chunk) ==
  \/ \E n, d \in 1..Len(events) :
       /\ Reports(chunk, n, d)
       /\ calls' = Append(calls, [name |-> n, data |-> d,
                                  whole |-> n \in Holding(chunk, NamePieces)])
  \/ /\ ~ \E n, d \in 1..Len(events) : Reports(chunk, n, d)
     /\ UNCHANGED calls

Read ==
  /\ reader = "reading"
  /\ \E last \in Written :
       LET chunk == (consumed + 1)..last
       IN  /\ last > consumed
           /\ consumed' = last
           /\ OnEvent(chunk)
           /\ aligned' = (aligned /\ \E e \in 1..Len(events) :
                            chunk = Pieces * (e - 1) + 1..Pieces * e)
  /\ UNCHANGED <<known, row, server, reader>>

\* Read returns an error: the end of the body, perhaps along with its last
\* bytes, which are not looked at, or the 30 second timeout of the client.
Stop ==
  /\ reader = "reading"
  /\ reader' = "returned"
  /\ UNCHANGED <<known, row, server, consumed, calls, aligned>>

-----------------------------------------------------------------------------

HandlerStep == Open \/ Tick \/ Leave \/ GetTransaction \/ SendStatus \/ SendError
ReaderStep == Read \/ Stop

Next == UpdateRow \/ ContextDone \/ HandlerStep \/ ReaderStep

Spec == Init /\ [][Next]_vars

\* A handler that can go on does, and the 60 seconds pass.
FairSpec == Spec /\ WF_vars(HandlerStep) /\ WF_vars(ContextDone)

-----------------------------------------------------------------------------

\* onEvent is passed the data of a later event at every call, and the name
\* of that event or of the one after it: however the stream is cut, no
\* status is reported twice or after one that was read later.
InOrder ==
  \A i \in 1..Len(calls) :
    /\ calls[i].name \in {calls[i].data, calls[i].data + 1}
    /\ i > 1 => calls[i - 1].data < calls[i].data

\* Every status but the first is at least as new as the row was when the
\* event before it was written: a status that ended is not reported after
\* its successor, and the next event shows every update a caller who saw
\* the last one could know of.
FreshAtTick ==
  \A e \in 2..Len(events) :
    events[e].name = "status" => events[e].version >= events[e - 1].asOf

\* As long as every Read returns one whole event, onEvent is called once for
\* each event that was read, in order and with its own name and data.
AlignedDelivery ==
  aligned =>
    calls = [e \in 1..consumed \div Pieces |-> [name |-> e, data |-> e, whole |-> TRUE]]

\* The handler lets go of its connection and its ticker: at the context's end
\* at the latest, whichever case of the select is taken then.
HandlerReturns == <>(handler = "ended")
=============================================================================
