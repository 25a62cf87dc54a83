------------------------------ MODULE Batching -------------------------------
(***************************************************************************)
(* The life of one batch: the aggregate goroutine adds messages until one  *)
(* is refused, or flushes earlier, and a flush worker compiles the batch   *)
(* into the entries of a request.  The two sides split the messages into   *)
(* entries independently, batch.tryAddMessage() by counting while it adds, *)
(* compileBatch() by filling one entry after the other; the size limits of *)
(* Kinesis hold only if they agree.                                        *)
(***************************************************************************)
EXTENDS Batch

CONSTANT Sizes   \* sizes of the messages put into the batch

\* Put() checks a message before it is compressed (producer.go:88-93): what
\* is batched may be larger than an entry.
ASSUME SizesAssumption == Sizes \subseteq Nat \ {0}

VARIABLES
    stage,      \* "adding", "compiling", "compiled"
    batch,      \* totalMessageSize, entryMessageSize, entryNumber
    messages,   \* batch.messages, as a sequence of sizes
    compressed, \* messagesCompressed
    request     \* request.Records: one sequence of sizes per entry

batchVars == <<stage, batch, messages, compressed, request>>

BatchInit ==
    /\ stage = "adding"
    /\ batch = EmptyBatch
    /\ messages = <<>>
    /\ compressed = 0
    /\ request = <<>>

\* tryAddMessage() returns true.
AddMessage(size) ==
    /\ stage = "adding"
    /\ ~Refused(batch, size)
    /\ batch' = Added(batch, size)
    /\ messages' = Append(messages, size)
    /\ UNCHANGED <<stage, compressed, request>>

\* The batch is sent: a message was refused, the interval is over, or the
\* producer is closed.  flush() does nothing with an empty batch.
SendBatch ==
    /\ stage = "adding"
    /\ messages # <<>>
    /\ stage' = "compiling"
    /\ UNCHANGED <<batch, messages, compressed, request>>

\* Bound: how many entries are compiled.  The loop of compileBatch() never
\* ends once compileMessages() has met a message that fits no entry: every
\* further round appends an empty entry.
MaxEntries == maxEntriesPerRequest + 1

\* Mutant: messagesCompressed skips the message that did not fit.
CompileEntrySkips ==
    /\ stage = "compiling"
    /\ compressed < Len(messages)
    /\ Len(request) < MaxEntries
    /\ LET rest == SubSeq(messages, compressed + 1, Len(messages))
           n == CompiledLength(rest)
       IN /\ request' = Append(request, SubSeq(rest, 1, n))
          /\ compressed' = compressed + n + 1
    /\ UNCHANGED <<stage, batch, messages>>

\* One round of the loop of compileBatch().
CompileEntry ==
    /\ stage = "compiling"
    /\ compressed < Len(messages)
    /\ Len(request) < MaxEntries
    /\ LET rest == SubSeq(messages, compressed + 1, Len(messages))
           n == CompiledLength(rest)
       IN /\ request' = Append(request, SubSeq(rest, 1, n))
          /\ compressed' = compressed + n
    /\ UNCHANGED <<stage, batch, messages>>

FinishCompile ==
    /\ stage = "compiling"
    /\ compressed = Len(messages)
    /\ stage' = "compiled"
    /\ UNCHANGED <<batch, messages, compressed, request>>

BatchNext ==
    \/ \E size \in Sizes : AddMessage(size)
    \/ SendBatch
    \/ CompileEntry
    \/ FinishCompile

BatchSpec == BatchInit /\ [][BatchNext]_batchVars

-----------------------------------------------------------------------------
BatchTypeOK ==
    /\ stage \in {"adding", "compiling", "compiled"}
    /\ batch \in [totalMessageSize : Nat, entryMessageSize : Nat, entryNumber : Nat]
    /\ messages \in Seq(Sizes)
    /\ compressed \in 0..Len(messages)
    /\ request \in Seq(Seq(Sizes))

\* Data and partition keys of the entries that were compiled.
CompiledSize(entries) ==
    FoldLeft(LAMBDA n, entry : n + entryTotalMetadataSize + SumOf(entry), 0, entries)

(***************************************************************************)
(* A request that is compiled is what tryAddMessage() counted: as many     *)
(* entries, as many bytes (TestCompileSize checks the bytes for random     *)
(* sizes), all messages, in order.  No entry is ever larger than Kinesis   *)
(* allows, and none is empty unless the message that comes next fits into  *)
(* no entry: then compileBatch() does not get any further.                 *)
(***************************************************************************)
CompiledAsCounted ==
    /\ stage = "compiled" =>
        /\ Len(request) = batch.entryNumber + 1
        /\ CompiledSize(request) = requestTotalSize(batch)
        /\ FlattenSeq(request) = messages
    /\ \A i \in DOMAIN request :
        /\ entryMetadataSize + SumOf(request[i]) <= maxEntrySize
        /\ request[i] = <<>> =>
              compressed < Len(messages) /\ messages[compressed + 1] > EntryCapacity

(***************************************************************************)
(* A batch never grows beyond what one PutRecords request may carry, in    *)
(* bytes, in bytes per entry and in entries, whatever is put into it; only *)
(* a message that alone is larger than an entry makes the current entry    *)
(* too large.  tryAddMessage() compares entryNumber, which is one less     *)
(* than the number of entries, with maxEntriesPerRequest and would let one *)
(* entry too many in; the limit on the number of entries holds because of  *)
(* the limit on the bytes (BatchAssumption).                               *)
(***************************************************************************)
RequestFits ==
    /\ requestTotalSize(batch) <= maxRequestSize
    /\ batch.entryNumber + 1 <= maxEntriesPerRequest
    /\ \/ entrySize(batch) <= maxEntrySize
       \/ messages # <<>> /\ Last(messages) > EntryCapacity
=============================================================================
