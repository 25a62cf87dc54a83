------------------------------ MODULE Producer -------------------------------
(***************************************************************************)
(* The Kinesis producer: stream/producer/producer.go, flush.go, pool.go,   *)
(* with the batches of module Batch.                                       *)
(*                                                                         *)
(*   Put() -> inputChan -> aggregate() -> outputChan -> flush workers      *)
(*                                                                         *)
(* Put() compresses a message into a buffer of messagePool and sends the   *)
(* buffer; aggregate() collects buffers into a batch and sends the batch   *)
(* when it is full, on the ticker, and when the producer is closed; a      *)
(* flush worker compiles the batch into entries from entryPool, gives the  *)
(* message buffers back, and calls Kinesis until every record is stored or *)
(* the call fails.                                                         *)
(*                                                                         *)
(* A buffer or an entry is a cell whose content is read when it is used,   *)
(* so that one given back to its pool too early can be overwritten.  Cells *)
(* that the code leaves to the garbage collector count as free: memory     *)
(* that is allocated anew.                                                 *)
(***************************************************************************)
EXTENDS Batch, FiniteSets

CONSTANTS
    Messages,       \* messages that are Put(), once each
    RawSize,        \* [Messages -> Nat]: messageProtoSize() of the message
    PackedSizes,    \* [Messages -> SUBSET Nat]: the same of what gozstd may make of it
    Buffers,        \* memory for message buffers
    Entries,        \* memory for request entries
    Workers,        \* cfg.MaxConnections flush workers
    inputBufferSize,
    outputBufferSize,
    None            \* no buffer, no content

ASSUME ProducerAssumption ==
    /\ RawSize \in [Messages -> Nat]
    /\ PackedSizes \in [Messages -> SUBSET (Nat \ {0})]
    /\ inputBufferSize \in Nat \ {0}
    /\ outputBufferSize \in Nat \ {0}
    /\ IsFiniteSet(Messages) /\ IsFiniteSet(Buffers) /\ IsFiniteSet(Entries)
    /\ LET fitting == {m \in Messages : RawSize[m] <= EntryCapacity}
       IN /\ Cardinality(Buffers) >= Cardinality(fitting)
          /\ Cardinality(Entries) >= Cardinality(fitting)
          \* What gozstd adds to a message that does not compress is nothing
          \* beside the size of a request: an empty batch takes it.
          /\ \A m \in fitting : \A size \in PackedSizes[m] : ~Refused(EmptyBatch, size)
    /\ None \notin Buffers
    /\ \A m \in Messages : \A size \in PackedSizes[m] : [message |-> m, size |-> size] # None

VARIABLES
    status,       \* [Messages -> ...]: progress of Put(), then the outcome
    content,      \* [Buffers -> message and packed size, or None]
    freeBuffers,  \* memory not in use, or in messagePool
    inputChan,    \* Seq(Buffers)
    agg,          \* control state of aggregate()
    batch,        \* counters of currentBatch
    batched,      \* currentBatch.messages: Seq(Buffers)
    pending,      \* msg, while the batch that refused it is sent
    tick,         \* is a tick waiting in flushTicker.C?
    outputChan,   \* Seq(Seq(Buffers)): batches
    wstate,       \* [Workers -> ...]: control state of the flush workers
    held,         \* [Workers -> Seq(Buffers)]: b.messages
    compressed,   \* [Workers -> Nat]: messagesCompressed
    records,      \* [Workers -> Seq(Entries)]: request.Records
    entryData,    \* [Entries -> Seq(Messages)]: messages encoded in an entry
    freeEntries,  \* memory not in use, or in entryPool
    confirmed,    \* history: how often Kinesis answered that it stored a message
    doubtful,     \* history: messages stored by a send whose answer was lost
    closer        \* progress of Close()

putVars    == <<status, content, freeBuffers>>
aggVars    == <<inputChan, agg, batch, batched, pending, tick>>
workerVars == <<wstate, held, compressed, records>>
entryVars  == <<entryData, freeEntries>>
producerVars == <<status, content, freeBuffers, inputChan, agg, batch, batched,
                  pending, tick, outputChan, wstate, held, compressed, records,
                  entryData, freeEntries, confirmed, doubtful, closer>>

PutStates    == {"idle", "sending", "accepted", "rejected", "delivered", "lost"}
AggStates    == {"select", "sendSize", "sendInterval", "sendDrain", "ended"}
WorkerStates == {"idle", "compile", "request", "ended"}
CloseStates  == {"open", "waitAggregate", "waitFlush", "closed"}

InputClosed == closer # "open"
OutputClosed == closer \in {"waitFlush", "closed"}

ProducerInit ==
    /\ status = [m \in Messages |-> "idle"]
    /\ content = [b \in Buffers |-> None]
    /\ freeBuffers = Buffers
    /\ inputChan = <<>>
    /\ agg = "select"
    /\ batch = EmptyBatch
    /\ batched = <<>>
    /\ pending = None
    /\ tick = FALSE
    /\ outputChan = <<>>
    /\ wstate = [w \in Workers |-> "idle"]
    /\ held = [w \in Workers |-> <<>>]
    /\ compressed = [w \in Workers |-> 0]
    /\ records = [w \in Workers |-> <<>>]
    /\ entryData = [e \in Entries |-> <<>>]
    /\ freeEntries = Entries
    /\ confirmed = [m \in Messages |-> 0]
    /\ doubtful = {}
    /\ closer = "open"

-----------------------------------------------------------------------------
(***************************************************************************)
(* Put().                                                                  *)
(***************************************************************************)

\* ErrRecordSizeExceeded: the message as it comes, not yet compressed, is too large.
PutRejected(m) ==
    /\ closer = "open"
    /\ status[m] = "idle"
    /\ RawSize[m] > EntryCapacity
    /\ status' = [status EXCEPT ![m] = "rejected"]
    /\ UNCHANGED <<content, freeBuffers, aggVars, outputChan, workerVars, entryVars,
                   confirmed, doubtful, closer>>

\* The message is compressed into a buffer of the pool.
PutPacks(m, b, size) ==
    /\ closer = "open"
    /\ status[m] = "idle"
    /\ RawSize[m] <= EntryCapacity
    /\ b \in freeBuffers
    /\ size \in PackedSizes[m]
    /\ status' = [status EXCEPT ![m] = "sending"]
    /\ content' = [content EXCEPT ![b] = [message |-> m, size |-> size]]
    /\ freeBuffers' = freeBuffers \ {b}
    /\ UNCHANGED <<aggVars, outputChan, workerVars, entryVars, confirmed, doubtful, closer>>

\* inputChan <- message, once the channel has room.
PutSends(m, b) ==
    /\ status[m] = "sending"
    /\ b \notin freeBuffers
    /\ content[b] # None /\ content[b].message = m
    /\ Len(inputChan) < inputBufferSize
    /\ inputChan' = Append(inputChan, b)
    /\ status' = [status EXCEPT ![m] = "accepted"]
    /\ UNCHANGED <<content, freeBuffers, agg, batch, batched, pending, tick, outputChan,
                   workerVars, entryVars, confirmed, doubtful, closer>>

-----------------------------------------------------------------------------
(***************************************************************************)
(* aggregate(): the select over inputChan and the ticker.                  *)
(***************************************************************************)

\* A message arrives; tryAddMessage() takes it or the batch has to be sent.
AggReceives ==
    /\ agg = "select"
    /\ inputChan # <<>>
    /\ inputChan' = Tail(inputChan)
    /\ LET b == Head(inputChan)
           size == content[b].size
       IN IF Refused(batch, size)
          THEN /\ agg' = "sendSize"
               /\ pending' = b
               /\ UNCHANGED <<batch, batched>>
          ELSE /\ batch' = Added(batch, size)
               /\ batched' = Append(batched, b)
               /\ UNCHANGED <<agg, pending>>
    /\ UNCHANGED <<putVars, tick, outputChan, workerVars, entryVars, confirmed, doubtful, closer>>

\* inputChan is closed and empty.
AggDrains ==
    /\ agg = "select"
    /\ inputChan = <<>>
    /\ InputClosed
    /\ agg' = "sendDrain"
    /\ UNCHANGED <<putVars, inputChan, batch, batched, pending, tick, outputChan,
                   workerVars, entryVars, confirmed, doubtful, closer>>

\* Mutant: lastSend is renewed by each tick.
AggTickNeverFlushes(elapsed) ==
    /\ agg = "select"
    /\ tick
    /\ tick' = FALSE
    /\ UNCHANGED <<putVars, inputChan, agg, batch, batched, pending, outputChan, workerVars,
                   entryVars, confirmed, doubtful, closer>>

\* A tick: flush if the last send is longer ago than the interval.
AggTick(elapsed) ==
    /\ agg = "select"
    /\ tick
    /\ tick' = FALSE
    /\ agg' = IF elapsed THEN "sendInterval" ELSE "select"
    /\ UNCHANGED <<putVars, inputChan, batch, batched, pending, outputChan, workerVars,
                   entryVars, confirmed, doubtful, closer>>

\* Mutant: whatever the reason to send, msg becomes the first of the next batch.
AggSendsAlwaysAdds ==
    /\ agg \in {"sendSize", "sendInterval", "sendDrain"}
    /\ Len(outputChan) < outputBufferSize
    /\ outputChan' = Append(outputChan, batched)
    /\ agg' = IF agg = "sendDrain" THEN "ended" ELSE "select"
    /\ pending' = None
    /\ batch' = EmptyBatch
    /\ batched' = <<pending>>
    /\ UNCHANGED <<putVars, inputChan, tick, workerVars, entryVars, confirmed, doubtful, closer>>

\* Mutant: the aggregator does not return after the last batch.
AggSendsNoReturn ==
    /\ agg \in {"sendSize", "sendInterval", "sendDrain"}
    /\ Len(outputChan) < outputBufferSize
    /\ outputChan' = Append(outputChan, batched)
    /\ agg' = "select"
    /\ pending' = None
    /\ IF agg = "sendSize" /\ ~Refused(EmptyBatch, content[pending].size)
       THEN /\ batch' = Added(EmptyBatch, content[pending].size)
            /\ batched' = <<pending>>
       ELSE /\ batch' = EmptyBatch
            /\ batched' = <<>>
    /\ UNCHANGED <<putVars, inputChan, tick, workerVars, entryVars, confirmed, doubtful, closer>>

\* send(): the batch goes to outputChan once there is room, and the message
\* it refused becomes the first of the next one.
AggSends ==
    /\ agg \in {"sendSize", "sendInterval", "sendDrain"}
    /\ Len(outputChan) < outputBufferSize
    /\ outputChan' = Append(outputChan, batched)
    /\ agg' = IF agg = "sendDrain" THEN "ended" ELSE "select"
    /\ pending' = None
    /\ IF agg = "sendSize" /\ ~Refused(EmptyBatch, content[pending].size)
       THEN /\ batch' = Added(EmptyBatch, content[pending].size)
            /\ batched' = <<pending>>
       ELSE /\ batch' = EmptyBatch
            /\ batched' = <<>>
    /\ UNCHANGED <<putVars, inputChan, tick, workerVars, entryVars, confirmed, doubtful, closer>>

\* The ticker fires until Close() stops it.
Tick ==
    /\ closer = "open"
    /\ ~tick
    /\ tick' = TRUE
    /\ UNCHANGED <<putVars, inputChan, agg, batch, batched, pending, outputChan,
                   workerVars, entryVars, confirmed, doubtful, closer>>

Aggregator == AggReceives \/ AggDrains \/ (\E elapsed \in BOOLEAN : AggTick(elapsed)) \/ AggSends

-----------------------------------------------------------------------------
(***************************************************************************)
(* The flush workers: flush(), compileBatch(), sendRequest().              *)
(***************************************************************************)

\* Mutant: the message buffers are given back before they are compiled.
TakeBatchReleases(w) ==
    /\ wstate[w] = "idle"
    /\ outputChan # <<>>
    /\ outputChan' = Tail(outputChan)
    /\ IF Head(outputChan) = <<>>
       THEN UNCHANGED <<workerVars, freeBuffers>>
       ELSE /\ wstate' = [wstate EXCEPT ![w] = "compile"]
            /\ held' = [held EXCEPT ![w] = Head(outputChan)]
            /\ compressed' = [compressed EXCEPT ![w] = 0]
            /\ records' = [records EXCEPT ![w] = <<>>]
            /\ freeBuffers' = freeBuffers \cup ToSet(Head(outputChan))
    /\ UNCHANGED <<status, content, aggVars, entryVars, confirmed, doubtful, closer>>

\* A batch is taken from outputChan; flush() does nothing with an empty one.
TakeBatch(w) ==
    /\ wstate[w] = "idle"
    /\ outputChan # <<>>
    /\ outputChan' = Tail(outputChan)
    /\ IF Head(outputChan) = <<>>
       THEN UNCHANGED workerVars
       ELSE /\ wstate' = [wstate EXCEPT ![w] = "compile"]
            /\ held' = [held EXCEPT ![w] = Head(outputChan)]
            /\ compressed' = [compressed EXCEPT ![w] = 0]
            /\ records' = [records EXCEPT ![w] = <<>>]
    /\ UNCHANGED <<putVars, aggVars, entryVars, confirmed, doubtful, closer>>

MessagesIn(buffers) == [i \in DOMAIN buffers |-> content[buffers[i]].message]
SizesIn(buffers)    == [i \in DOMAIN buffers |-> content[buffers[i]].size]

\* One round of compileBatch(): compileMessages() encodes messages into an
\* entry of the pool.  When the first message alone is too large it encodes
\* none; such a round adds an empty entry, which is left out, and the loop
\* goes on.
CompileEntry(w) ==
    /\ wstate[w] = "compile"
    /\ compressed[w] < Len(held[w])
    /\ LET rest == SubSeq(held[w], compressed[w] + 1, Len(held[w]))
           n == CompiledLength(SizesIn(rest))
       IN /\ compressed' = [compressed EXCEPT ![w] = @ + n]
          /\ \/ /\ n = 0
                /\ UNCHANGED <<records, entryVars>>
             \/ /\ n > 0
                /\ \E e \in freeEntries :
                      /\ entryData' = [entryData EXCEPT ![e] = MessagesIn(SubSeq(rest, 1, n))]
                      /\ freeEntries' = freeEntries \ {e}
                      /\ records' = [records EXCEPT ![w] = Append(@, e)]
    /\ UNCHANGED <<putVars, aggVars, outputChan, wstate, held, confirmed, doubtful, closer>>

\* The message buffers go back to the pool, emptied.
ReleaseBuffers(w) ==
    /\ freeBuffers' = freeBuffers \cup ToSet(held[w])
    /\ content' = [b \in Buffers |-> IF b \in ToSet(held[w]) THEN None ELSE content[b]]
    /\ held' = [held EXCEPT ![w] = <<>>]

\* The entries go back to the pool, emptied.
ReleaseEntries(w) ==
    /\ freeEntries' = freeEntries \cup ToSet(records[w])
    /\ entryData' = [e \in Entries |-> IF e \in ToSet(records[w]) THEN <<>> ELSE entryData[e]]
    /\ records' = [records EXCEPT ![w] = <<>>]

Settled(M, fate) == [m \in Messages |-> IF m \in M THEN fate ELSE status[m]]

\* Protobuf refuses to encode an entry: the whole batch is given up.
CompileFails(w) ==
    /\ wstate[w] = "compile"
    /\ compressed[w] < Len(held[w])
    /\ status' = Settled(ToSet(MessagesIn(held[w])), "lost")
    /\ ReleaseBuffers(w)
    /\ ReleaseEntries(w)
    /\ wstate' = [wstate EXCEPT ![w] = "idle"]
    /\ UNCHANGED <<aggVars, outputChan, compressed, confirmed, doubtful, closer>>

\* The batch is compiled: its buffers are released before the request is sent.
Compiled(w) ==
    /\ wstate[w] = "compile"
    /\ compressed[w] = Len(held[w])
    /\ ReleaseBuffers(w)
    /\ wstate' = [wstate EXCEPT ![w] = "request"]
    /\ UNCHANGED <<status, aggVars, outputChan, compressed, records, entryVars, confirmed, doubtful,
                   closer>>

\* The messages of a set of entries.
Encoded(E) == UNION {ToSet(entryData[e]) : e \in E}

\* Kinesis answers that it has stored these entries.
Confirmed(E) == [m \in Messages |-> confirmed[m] + IF m \in Encoded(E) THEN 1 ELSE 0]

\* Kinesis stores every record of the request; flush() returns.
RequestStored(w) ==
    /\ wstate[w] = "request"
    /\ confirmed' = Confirmed(ToSet(records[w]))
    /\ status' = Settled(Encoded(ToSet(records[w])), "delivered")
    /\ ReleaseEntries(w)
    /\ wstate' = [wstate EXCEPT ![w] = "idle"]
    /\ UNCHANGED <<content, freeBuffers, aggVars, outputChan, held, compressed, doubtful,
                   closer>>

\* Mutant: all records of the request are sent again.
RequestRetriesAll(w, failed) ==
    /\ wstate[w] = "request"
    /\ failed # {}
    /\ failed \subseteq DOMAIN records[w]
    /\ LET kept == {records[w][i] : i \in DOMAIN records[w] \ failed}
       IN /\ confirmed' = Confirmed(kept)
          /\ status' = Settled(Encoded(kept), "delivered")
    /\ UNCHANGED <<content, freeBuffers, aggVars, outputChan, wstate, held, compressed,
                   records, entryVars, doubtful, closer>>

\* failures(): the failed records, in the order they had.
Failures(request, failed) ==
    [k \in 1..Cardinality(failed) |->
        request[CHOOSE i \in failed : Cardinality({j \in failed : j <= i}) = k]]

\* Kinesis fails some of the records; these are sent again after a pause.
\* The others are no part of request.Records any more when flush() releases
\* its entries.
RequestPartlyStored(w, failed) ==
    /\ wstate[w] = "request"
    /\ failed # {}
    /\ failed \subseteq DOMAIN records[w]
    /\ LET again == {records[w][i] : i \in failed}
           kept  == ToSet(records[w]) \ again
       IN /\ confirmed' = Confirmed(kept)
          /\ status' = Settled(Encoded(kept), "delivered")
          /\ records' = [records EXCEPT ![w] = Failures(@, failed)]
          /\ freeEntries' = freeEntries \cup kept
          /\ entryData' = [e \in Entries |-> IF e \in kept THEN <<>> ELSE entryData[e]]
    /\ UNCHANGED <<content, freeBuffers, aggVars, outputChan, wstate, held, compressed,
                   doubtful, closer>>

\* A send has no answer, and Kinesis has stored the records that arrived.
\* The client has the default retryer of the SDK (stream.go:32-40): inside
\* the one call of sendRequest() it sends the whole request again.
RequestResent(w, arrived) ==
    /\ wstate[w] = "request"
    /\ arrived \subseteq ToSet(records[w])
    /\ doubtful' = doubtful \cup Encoded(arrived)
    /\ UNCHANGED <<putVars, aggVars, outputChan, workerVars, entryVars, confirmed, closer>>

\* The call returns an error: the messages are given up, those that Kinesis
\* has stored by then included.
RequestFails(w, arrived) ==
    /\ wstate[w] = "request"
    /\ arrived \subseteq ToSet(records[w])
    /\ doubtful' = doubtful \cup Encoded(arrived)
    /\ status' = Settled(Encoded(ToSet(records[w])), "lost")
    /\ ReleaseEntries(w)
    /\ wstate' = [wstate EXCEPT ![w] = "idle"]
    /\ UNCHANGED <<content, freeBuffers, aggVars, outputChan, held, compressed, confirmed,
                   closer>>

\* outputChan is closed and empty: the range loop ends.
WorkerEnds(w) ==
    /\ wstate[w] = "idle"
    /\ outputChan = <<>>
    /\ OutputClosed
    /\ wstate' = [wstate EXCEPT ![w] = "ended"]
    /\ UNCHANGED <<putVars, aggVars, outputChan, held, compressed, records, entryVars,
                   confirmed, doubtful, closer>>

WorkerStep(w) ==
    \/ TakeBatch(w)
    \/ CompileEntry(w)
    \/ CompileFails(w)
    \/ Compiled(w)
    \/ RequestStored(w)
    \/ \E failed \in SUBSET (1..Cardinality(Entries)) : RequestPartlyStored(w, failed)
    \/ \E arrived \in SUBSET Entries : RequestResent(w, arrived) \/ RequestFails(w, arrived)
    \/ WorkerEnds(w)

-----------------------------------------------------------------------------
(***************************************************************************)
(* Close().  Its caller has seen every Put() return and calls none later   *)
(* (services.close() runs after the bid server was shut down).             *)
(***************************************************************************)
CloseInput ==
    /\ closer = "open"
    /\ \A m \in Messages : status[m] # "sending"
    /\ closer' = "waitAggregate"
    /\ UNCHANGED <<putVars, aggVars, outputChan, workerVars, entryVars, confirmed, doubtful>>

CloseOutput ==
    /\ closer = "waitAggregate"
    /\ agg = "ended"
    /\ closer' = "waitFlush"
    /\ UNCHANGED <<putVars, aggVars, outputChan, workerVars, entryVars, confirmed, doubtful>>

\* Mutant: Close() does not wait for the flush workers.
CloseReturnsEarly ==
    /\ closer = "waitFlush"
    /\ closer' = "closed"
    /\ UNCHANGED <<putVars, aggVars, outputChan, workerVars, entryVars, confirmed, doubtful>>

CloseReturns ==
    /\ closer = "waitFlush"
    /\ \A w \in Workers : wstate[w] = "ended"
    /\ closer' = "closed"
    /\ UNCHANGED <<putVars, aggVars, outputChan, workerVars, entryVars, confirmed, doubtful>>

ProducerEnded == closer = "closed" /\ UNCHANGED producerVars

ProducerNext ==
    \/ \E m \in Messages :
          \/ PutRejected(m)
          \/ \E b \in Buffers, size \in PackedSizes[m] : PutPacks(m, b, size)
          \/ \E b \in Buffers : PutSends(m, b)
    \/ Aggregator
    \/ Tick
    \/ \E w \in Workers : WorkerStep(w)
    \/ CloseInput
    \/ CloseOutput
    \/ CloseReturns
    \/ ProducerEnded

ProducerSafe == ProducerInit /\ [][ProducerNext]_producerVars

(***************************************************************************)
(* Fairness.  Goroutines run.  A sender blocked on inputChan is served in  *)
(* its turn, and the select of aggregate() chooses at random between a     *)
(* message and a tick (strong fairness).  The ticker fires until it is     *)
(* stopped; lastSend does not move between two batches, so of the ticks    *)
(* that come one finally finds the interval over, unless a batch is sent   *)
(* for another reason.  Calls of Kinesis return, and some call of a        *)
(* request is not failed in part: sendRequest() does not limit its         *)
(* retries.  Nothing is assumed of errors.                                 *)
(***************************************************************************)
WorkerProgress(w) ==
    TakeBatch(w) \/ CompileEntry(w) \/ Compiled(w) \/ RequestStored(w) \/ WorkerEnds(w)

ProducerFairness ==
    /\ \A m \in Messages :
          SF_producerVars(\E b \in Buffers : PutSends(m, b))
    /\ SF_producerVars(AggReceives)
    /\ SF_producerVars(AggTick(TRUE) \/ AggSends)
    /\ WF_producerVars(AggSends)
    /\ WF_producerVars(AggDrains)
    /\ WF_producerVars(Tick)
    /\ \A w \in Workers : WF_producerVars(WorkerProgress(w))
    /\ WF_producerVars(CloseOutput \/ CloseReturns)

ProducerSpec == ProducerSafe /\ ProducerFairness

-----------------------------------------------------------------------------
ProducerTypeOK ==
    /\ status \in [Messages -> PutStates]
    /\ content \in [Buffers -> [message : Messages, size : Nat] \cup {None}]
    /\ freeBuffers \subseteq Buffers
    /\ inputChan \in Seq(Buffers) /\ Len(inputChan) <= inputBufferSize
    /\ agg \in AggStates
    /\ batch \in [totalMessageSize : Nat, entryMessageSize : Nat, entryNumber : Nat]
    /\ batched \in Seq(Buffers)
    /\ pending \in Buffers \cup {None}
    /\ tick \in BOOLEAN
    /\ outputChan \in Seq(Seq(Buffers)) /\ Len(outputChan) <= outputBufferSize
    /\ wstate \in [Workers -> WorkerStates]
    /\ held \in [Workers -> Seq(Buffers)]
    /\ compressed \in [Workers -> Nat]
    /\ records \in [Workers -> Seq(Entries)]
    /\ entryData \in [Entries -> Seq(Messages)]
    /\ freeEntries \subseteq Entries
    /\ confirmed \in [Messages -> Nat]
    /\ doubtful \subseteq Messages
    /\ closer \in CloseStates

\* The positions of a sequence of buffers that hold message m.
At(buffers, m) ==
    {i \in DOMAIN buffers : content[buffers[i]] # None /\ content[buffers[i]].message = m}

\* What worker w has not yet compiled.
Uncompiled(w) == SubSeq(held[w], compressed[w] + 1, Len(held[w]))

\* The positions of an entry that hold message m.
Encodings(e, m) == {i \in DOMAIN entryData[e] : entryData[e][i] = m}

\* Where message m is on its way: each place of the pipeline that holds it.
Places(m) ==
    ({"input"} \X At(inputChan, m))
    \cup ({"pending"} \X At(IF pending = None THEN <<>> ELSE <<pending>>, m))
    \cup ({"batch"} \X At(batched, m))
    \cup (UNION {{<<"output", i>>} \X At(outputChan[i], m) : i \in DOMAIN outputChan})
    \cup (UNION {{<<"worker", w>>} \X At(Uncompiled(w), m) :
                     w \in {v \in Workers : wstate[v] = "compile"}})
    \cup (UNION {UNION {{<<"request", w, k>>} \X Encodings(records[w][k], m) :
                           k \in DOMAIN records[w]} : w \in Workers})

(***************************************************************************)
(* A message that was accepted and is not settled is in one place of the   *)
(* pipeline, intact: no step drops it, takes it twice, or gives its memory *)
(* back to a pool (flush.go:22-27, 31-35) while it is still read.  No      *)
(* other message is anywhere.                                              *)
(***************************************************************************)
InOnePlace ==
    \A m \in Messages :
        Cardinality(Places(m)) = IF status[m] = "accepted" THEN 1 ELSE 0

(***************************************************************************)
(* The producer's own retries send a record that failed, and only such a   *)
(* record: Kinesis confirms once a message that counts as delivered, and   *)
(* no other, whichever records of a request fail (failures(),              *)
(* flush.go:121-130) and whatever becomes of the sends.  A message is in   *)
(* the stream more often, or although it was given up, only if the answer  *)
(* to a send was lost; and nothing that was settled is sent again.         *)
(***************************************************************************)
ConfirmedOnce ==
    /\ \A m \in Messages : confirmed[m] = IF status[m] = "delivered" THEN 1 ELSE 0
    /\ \A m \in doubtful : status[m] \in {"accepted", "delivered", "lost"}
    /\ \A w \in Workers : wstate[w] = "request" =>
          \A m \in Encoded(ToSet(records[w])) : status[m] = "accepted"

(***************************************************************************)
(* The producer does what module Delivery says: what was accepted is       *)
(* settled once, and when Close() returns nothing is left ("This method    *)
(* causes the remaining unsent messages to be flushed", producer.go:138).  *)
(***************************************************************************)
Deliver == INSTANCE Delivery WITH
    outcome <- [m \in Messages |->
                   IF status[m] \in {"idle", "sending"} THEN "open" ELSE status[m]],
    closed  <- closer = "closed"

DeliversAsPromised == Deliver!DeliverySpec

(***************************************************************************)
(* Put() returns: full channels and failing calls of Kinesis delay the     *)
(* sender (producer.go:99), they never block it for good; and a message    *)
(* does not stay in the producer: even when no other message comes to fill *)
(* its batch, the ticker sends it (producer.go:190-193).                   *)
(***************************************************************************)
MessagesMoveOn ==
    \A m \in Messages :
        /\ status[m] = "sending" ~> status[m] # "sending"
        /\ status[m] = "accepted" ~> status[m] \in {"delivered", "lost"}

(***************************************************************************)
(* Close() comes to an end: the aggregator drains inputChan before         *)
(* outputChan is closed under the workers (producer.go:143-147).           *)
(***************************************************************************)
CloseEnds == closer = "waitAggregate" ~> closer = "closed"
=============================================================================
