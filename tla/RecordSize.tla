----------------------------- MODULE RecordSize ------------------------------
(***************************************************************************)
(* The byte counts the Kinesis producer reckons with: stream/producer/     *)
(* size.go and const.go, against the protobuf wire format of messages.proto *)
(* that the counts stand for.                                              *)
(*                                                                         *)
(* A message of l bytes becomes a Record {partition_key_index = 0, data},  *)
(* an element of AggregatedRecord.records.  The comment on                 *)
(* messageProtoSize() says that its overhead "was established              *)
(* experimentally"; here it is compared with what the encoding takes.      *)
(***************************************************************************)
EXTENDS Integers

\* One more byte for every threshold that is passed.
Above(l, threshold) == IF l > threshold THEN 1 ELSE 0

-----------------------------------------------------------------------------
(***************************************************************************)
(* size.go                                                                 *)
(***************************************************************************)

messageProtoSize(l) ==
    l + 6 + Above(l, 123) + Above(l, 127) + Above(l, 16378) + Above(l, 16383)

ksuidPartitionKeySize       == 20
ksuidPartitionKeyStringSize == 27
magicNumberSize             == 4
md5Size                     == 16

recordMetadataSize     == 9 + ksuidPartitionKeySize
aggregateMetadataSize  == magicNumberSize + md5Size
entryMetadataSize      == aggregateMetadataSize + recordMetadataSize
entryTotalMetadataSize == entryMetadataSize + ksuidPartitionKeyStringSize

maxEntriesPerRequest == 500
maxEntrySize         == 51200
maxRequestSize       == 5 * 1048576

\* Put() lets in a message of raw bytes; what it sends on is compressed.
Accepted(raw) == messageProtoSize(raw) + entryMetadataSize <= maxEntrySize

\* compileMessages() puts a compressed message into an entry of its own.
Compilable(packed) == messageProtoSize(packed) + entryMetadataSize <= maxEntrySize

-----------------------------------------------------------------------------
(***************************************************************************)
(* The protobuf wire format: a length is a varint of seven bits per byte,  *)
(* a string, bytes or message field is its tag, its length and its         *)
(* content, a small integer field is its tag and one byte.                 *)
(***************************************************************************)
VarintSize(n)   == 1 + Above(n, 127) + Above(n, 16383) + Above(n, 2097151)
BytesField(n)   == 1 + VarintSize(n) + n
SmallIntField   == 2

EncodedRecord(l) == BytesField(SmallIntField + BytesField(l))

\* The data of an entry that holds one message: magic number, aggregate with
\* one partition key and one record, checksum.
EncodedEntry(l) ==
    magicNumberSize + BytesField(ksuidPartitionKeyStringSize) + EncodedRecord(l) + md5Size

\* Beyond this length messageProtoSize() would be one byte short.
MaxLength == 2097145

=============================================================================
