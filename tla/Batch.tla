-------------------------------- MODULE Batch --------------------------------
(***************************************************************************)
(* A batch of messages for one PutRecords request: stream/producer/        *)
(* batch.go, and the way batch_compiler.go cuts it into entries.           *)
(*                                                                         *)
(* A message is known here by its size as a record of an aggregate, the    *)
(* result of messageProtoSize() (module RecordSize).  The limits and       *)
(* metadata sizes are parameters so that small ones can be model-checked.  *)
(***************************************************************************)
EXTENDS Integers, Sequences, SequencesExt

CONSTANTS
    maxEntriesPerRequest,
    maxEntrySize,
    maxRequestSize,
    entryMetadataSize,      \* magic number, checksum, partition key table
    partitionKeySize        \* the partition key of the request entry

entryTotalMetadataSize == entryMetadataSize + partitionKeySize

\* What is left of an entry for its records.
EntryCapacity == maxEntrySize - entryMetadataSize

\* The limits relate as those of const.go do (Batching_proofs): two entries
\* in a row always fill more than one, so that the size limit of the request
\* is met long before the limit on the number of entries.
ASSUME BatchAssumption ==
    /\ maxEntriesPerRequest \in Nat \ {0}
    /\ maxEntrySize \in Nat
    /\ maxRequestSize \in Nat
    /\ entryMetadataSize \in Nat
    /\ partitionKeySize \in Nat
    /\ EntryCapacity > 0
    /\ maxEntrySize + partitionKeySize <= maxRequestSize
    /\ 2 * maxRequestSize < maxEntriesPerRequest * (EntryCapacity + 1)

-----------------------------------------------------------------------------
(***************************************************************************)
(* batch.go.  entryNumber is the number of entries minus one.              *)
(***************************************************************************)
EmptyBatch == [totalMessageSize |-> 0, entryMessageSize |-> 0, entryNumber |-> 0]

requestTotalSize(b) ==
    (b.entryNumber + 1) * entryTotalMetadataSize + b.totalMessageSize

entrySize(b) == entryMetadataSize + b.entryMessageSize

OverflowsRequest(b, size) == size + requestTotalSize(b) > maxRequestSize
OverflowsEntry(b, size)   == size + entrySize(b) > maxEntrySize

\* Mutant: the metadata of a new entry is not counted.
CannotOpenEntryLoose(b, size) == b.entryNumber = maxEntriesPerRequest

\* A new entry does not fit into the batch.
CannotOpenEntry(b, size) ==
    \/ b.entryNumber = maxEntriesPerRequest
    \/ OverflowsRequest(b, size + entryTotalMetadataSize)

\* tryAddMessage() returns false.
Refused(b, size) ==
    \/ OverflowsRequest(b, size)
    \/ OverflowsEntry(b, size) /\ CannotOpenEntry(b, size)

\* The batch after tryAddMessage() returned true.
Added(b, size) ==
    [totalMessageSize |-> b.totalMessageSize + size,
     entryMessageSize |-> IF OverflowsEntry(b, size) THEN size
                          ELSE b.entryMessageSize + size,
     entryNumber      |-> IF OverflowsEntry(b, size) THEN b.entryNumber + 1
                          ELSE b.entryNumber]

-----------------------------------------------------------------------------
(***************************************************************************)
(* batch_compiler.go                                                       *)
(***************************************************************************)
SumOf(sizes) == FoldLeft(+, 0, sizes)

\* Mutant: the entry is full when it reaches maxEntrySize.
FitStrict(sizes, n) == entryMetadataSize + SumOf(SubSeq(sizes, 1, n)) < maxEntrySize

\* The first n messages fit into one entry.
Fit(sizes, n) == entryMetadataSize + SumOf(SubSeq(sizes, 1, n)) <= maxEntrySize

\* How many messages compileMessages() puts into one entry: it stops before
\* the first one that would make the entry too large.
CompiledLength(sizes) ==
    CHOOSE n \in 0..Len(sizes) :
        /\ n > 0 => Fit(sizes, n)
        /\ n < Len(sizes) => ~Fit(sizes, n + 1)
=============================================================================
