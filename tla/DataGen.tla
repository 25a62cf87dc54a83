-------------------------------- MODULE DataGen --------------------------------
(*****************************************************************************)
(* The data generator that fills the tables of the bidder: a goroutine makes *)
(* the records of a table from a range of keys and offers them on an         *)
(* unbuffered channel; a work group of writers takes them, each with a       *)
(* connection of its own.  A DynamoDB connection buffers items, writes them  *)
(* in batches and is flushed by a ticker as well; an Aerospike one writes    *)
(* each record, a budget batch in two steps.  A key stands for its AES       *)
(* encryption, which is a permutation; prices and budgets are the number of  *)
(* the run that made them ("generation").                                    *)
(*****************************************************************************)
EXTENDS Naturals, Sequences, FiniteSets, SequencesExt, Functions

CONSTANTS Configs,   \* the flags a run may be started with
          Default,   \* the defaults of the flags
          putManyBatchLimit,
          MaxRuns    \* bound: runs of the generator

ASSUME DataGenAssumption ==
  /\ Configs \subseteq
       [Type : {"budgets", "campaigns", "devices", "audiences"}, Output : {"dynamodb", "aerospike"},
        KeyLow : Nat, KeyHigh : Nat, MinAudiences : Nat, MaxAudiences : Nat, MaxAudienceID : Nat,
        Concurrency : Nat, BudgetBatchSize : Nat]
  /\ {Default.KeyLow, Default.KeyHigh, Default.MinAudiences, Default.MaxAudiences,
      Default.MaxAudienceID} \subseteq Nat
  /\ {Default.Concurrency, Default.BudgetBatchSize} \subseteq Nat \ {0}
  /\ putManyBatchLimit \in Nat \ {0} /\ MaxRuns \in Nat

VARIABLES cfg,         \* the configuration of the last process
          generation,  \* number of the run
          offered,     \* records the generator has still to send
          writers,     \* the writers: what each does, its record and its buffer
          last,        \* GenerateX(): some writer has failed
          returned,    \* "running", or what the last process returned
          stored,      \* the records of the table, by ID
          list,        \* the budget batch keys of Aerospike
          orphans,     \* batches not written since the keys were cleared
          filled       \* the keys of the runs that returned nil

dataVars == <<cfg, generation, offered, writers, last, returned, stored, list, orphans, filled>>

Unless(a, default) == IF a = 0 THEN default ELSE a

Least(a, b) == IF a < b THEN a ELSE b

\* Config.Resolve(); a device has up to MaxAudiences different audiences, so
\* there must be as many.
Resolve(c) ==
  LET none == c.MinAudiences = 0 /\ c.MaxAudiences = 0
      most == IF none THEN Default.MaxAudiences ELSE c.MaxAudiences
      id == Unless(c.MaxAudienceID, Default.MaxAudienceID)
  IN [c EXCEPT !.KeyLow = Unless(@, Default.KeyLow),
               !.KeyHigh = Unless(@, Default.KeyHigh),
               !.MaxAudiences = most,
               !.MinAudiences = Least(Unless(@, Default.MinAudiences), most),
               !.MaxAudienceID = IF id < most THEN most ELSE id,
               !.Concurrency = IF @ < 1 THEN Default.Concurrency ELSE @,
               !.BudgetBatchSize = Unless(@, Default.BudgetBatchSize)]

-----------------------------------------------------------------------------
(* The records.                                                              *)

Keys(c) == [i \in 1 .. (c.KeyHigh + 1) - c.KeyLow |-> c.KeyLow + i - 1]

\* AudiencesConcat() and AudiencesSlice().
AudiencesOf(seed, c) ==
  [i \in 1 .. (seed % (c.MaxAudiences - c.MinAudiences + 1)) + c.MinAudiences |->
     ((seed + i - 1) % c.MaxAudienceID) + 1]

Record(id, data) == [id |-> id, data |-> data]

\* BudgetGenerator().
BudgetBatches(c) ==
  [id \in 1 .. ((Len(Keys(c)) + c.BudgetBatchSize) - 1) \div c.BudgetBatchSize |->
     Record(id, SubSeq(Keys(c), (id - 1) * c.BudgetBatchSize + 1,
                       Least(id * c.BudgetBatchSize, Len(Keys(c)))))]

\* ReversedAudienceGenerator() and reverseIndex: from the audiences of each
\* campaign to the campaigns of each audience; the map is read in any order.
ReverseIndex(c) ==
  LET Pairs(key) == [i \in DOMAIN AudiencesOf(key, c) |-> <<key, AudiencesOf(key, c)[i]>>]
      Add(index, pair) ==
        [a \in DOMAIN index \cup {pair[2]} |->
           (IF a \in DOMAIN index THEN index[a] ELSE <<>>)
             \o (IF a = pair[2] THEN <<pair[1]>> ELSE <<>>)]
  IN FoldLeft(Add, <<>>, FlattenSeq([i \in DOMAIN Keys(c) |-> Pairs(Keys(c)[i])]))

Records(c) ==
  CASE c.Type = "budgets" -> BudgetBatches(c)
    [] c.Type = "campaigns" -> [i \in DOMAIN Keys(c) |-> Record(Keys(c)[i], "price")]
    [] c.Type = "devices" ->
         [i \in DOMAIN Keys(c) |-> Record(Keys(c)[i], AudiencesOf(Keys(c)[i], c))]
    [] c.Type = "audiences" ->
         [i \in 1 .. Cardinality(DOMAIN ReverseIndex(c)) |->
            LET id == SetToSeq(DOMAIN ReverseIndex(c))[i] IN Record(id, ReverseIndex(c)[id])]

-----------------------------------------------------------------------------
(* A run.                                                                    *)

Idle == [pc |-> "take", record |-> <<>>, buffer |-> <<>>]

DataInit ==
  /\ cfg \in {Resolve(c) : c \in Configs}
  /\ generation = 0 /\ offered = <<>> /\ writers = <<>> /\ last = FALSE
  /\ returned = "none" /\ stored = <<>> /\ list = <<>>
  /\ orphans = {} /\ filled = {}

\* main() and GenerateX(): a process fills the table again, with flags of its
\* own.
Generate ==
  /\ returned # "running" /\ generation < MaxRuns
  /\ generation' = generation + 1
  /\ cfg' \in {Resolve(c) : c \in Configs}
  /\ cfg'.Type = cfg.Type /\ cfg'.Output = cfg.Output
  /\ offered' = Records(cfg')
  /\ writers' = [w \in 1 .. cfg'.Concurrency |-> Idle]
  /\ last' = FALSE /\ returned' = "running"
  /\ UNCHANGED <<stored, list, orphans, filled>>

\* ClearBudgetBatches(), a command of its own: only the list of keys is cut,
\* and the batches stay.
ClearBudgetBatches ==
  /\ returned # "running" /\ cfg.Output = "aerospike"
  /\ list # <<>> /\ list' = <<>> /\ orphans' = DOMAIN stored
  /\ UNCHANGED <<cfg, generation, offered, writers, last, returned, stored, filled>>

Storing(record) ==
  [id \in DOMAIN stored \cup {record.id} |->
     IF id = record.id THEN [generation |-> generation, data |-> record.data] ELSE stored[id]]

\* A failed call may have been applied all the same.
Applied(new, old) == {new, old}

WriterGoes(w, pc) ==
  writers' = [writers EXCEPT ![w].pc = pc, ![w].record = IF pc = "bins" THEN @ ELSE <<>>]

WriterFails(w) == WriterGoes(w, "done") /\ last' = TRUE

Take(w) ==
  /\ writers[w].pc = "take" /\ offered # <<>>
  /\ writers' = [writers EXCEPT ![w].pc = "put", ![w].record = Head(offered)]
  /\ offered' = Tail(offered)
  /\ UNCHANGED <<cfg, generation, last, returned, stored, list, orphans, filled>>

\* The channel is closed.
TakeNone(w) ==
  /\ writers[w].pc = "take" /\ offered = <<>>
  /\ WriterGoes(w, IF cfg.Output = "dynamodb" THEN "close" ELSE "done")
  /\ UNCHANGED <<cfg, generation, offered, last, returned, stored, list, orphans, filled>>

-----------------------------------------------------------------------------
(* DynamoDB.  The lock of the buffer is held during the whole call.          *)

AddToBuffer(w) ==
  /\ cfg.Output = "dynamodb" /\ writers[w].pc = "put"
  /\ writers' = [writers EXCEPT ![w].pc = "limit",
                                ![w].record = <<>>,
                                ![w].buffer = Append(@, writers[w].record)]
  /\ UNCHANGED <<cfg, generation, offered, last, returned, stored, list, orphans, filled>>

Cut(w) == SubSeq(writers[w].buffer, 1, Least(Len(writers[w].buffer), putManyBatchLimit))

StoringAll(records) ==
  [id \in DOMAIN stored \cup {r.id : r \in records} |->
     IF \E r \in records : r.id = id
     THEN [generation |-> generation, data |-> (CHOOSE r \in records : r.id = id).data]
     ELSE stored[id]]

\* flushBatchFromBuffer(): the items that were not processed go back.
Flushed(w, pc) ==
  \E unprocessed \in SUBSET Range(Cut(w)) :
    /\ stored' = StoringAll(Range(Cut(w)) \ unprocessed)
    /\ writers' = [writers EXCEPT ![w].pc = pc,
                     ![w].buffer = SubSeq(@, Len(Cut(w)) + 1, Len(@)) \o SetToSeq(unprocessed)]

FlushFails(w) == stored' \in Applied(StoringAll(Range(Cut(w))), stored)

\* The rest of PutBuffered().
FlushFull(w) ==
  /\ writers[w].pc = "limit"
  /\ UNCHANGED <<cfg, generation, offered, returned, list, orphans, filled>>
  /\ IF Len(writers[w].buffer) < putManyBatchLimit
     THEN WriterGoes(w, "take") /\ UNCHANGED <<last, stored>>
     ELSE \/ Flushed(w, "take") /\ UNCHANGED last
          \/ FlushFails(w) /\ WriterFails(w)

\* Mutant: one batch is flushed when the connection is closed.
CloseConnectionOnce(w) ==
  /\ writers[w].pc = "close"
  /\ UNCHANGED <<cfg, generation, offered, returned, list, orphans, filled>>
  /\ IF writers[w].buffer = <<>>
     THEN WriterGoes(w, "done") /\ UNCHANGED <<last, stored>>
     ELSE \/ Flushed(w, "done") /\ UNCHANGED last
          \/ FlushFails(w) /\ WriterFails(w)

\* Close(): flushBuffer() until the buffer is empty.
CloseConnection(w) ==
  /\ writers[w].pc = "close"
  /\ UNCHANGED <<cfg, generation, offered, returned, list, orphans, filled>>
  /\ IF writers[w].buffer = <<>>
     THEN WriterGoes(w, "done") /\ UNCHANGED <<last, stored>>
     ELSE \/ Flushed(w, "close") /\ UNCHANGED last
          \/ FlushFails(w) /\ WriterFails(w)

\* The ticker's goroutine, which lives as long as the process and ignores
\* errors.
TickFlush(w) ==
  /\ returned = "running" /\ writers[w].buffer # <<>>
  /\ \/ Flushed(w, writers[w].pc)
     \/ FlushFails(w) /\ UNCHANGED writers
  /\ UNCHANGED <<cfg, generation, offered, last, returned, list, orphans, filled>>

-----------------------------------------------------------------------------
(* Aerospike.                                                                *)

\* Mutant: an error of the append is not looked at.
AppendKeyIgnored(w) ==
  /\ cfg.Output = "aerospike" /\ writers[w].pc = "put" /\ cfg.Type = "budgets"
  /\ list' \in Applied(Append(list, writers[w].record.id), list)
  /\ WriterGoes(w, "bins")
  /\ UNCHANGED <<cfg, generation, offered, last, returned, stored, orphans, filled>>

\* PutRecord() of a budget batch: first its key, then its bytes.
AppendKey(w) ==
  /\ cfg.Output = "aerospike" /\ writers[w].pc = "put" /\ cfg.Type = "budgets"
  /\ \/ list' = Append(list, writers[w].record.id) /\ WriterGoes(w, "bins") /\ UNCHANGED last
     \/ list' \in Applied(Append(list, writers[w].record.id), list) /\ WriterFails(w)
  /\ UNCHANGED <<cfg, generation, offered, returned, stored, orphans, filled>>

PutBins(w) ==
  /\ cfg.Output = "aerospike"
  /\ writers[w].pc = (IF cfg.Type = "budgets" THEN "bins" ELSE "put")
  /\ \/ stored' = Storing(writers[w].record) /\ WriterGoes(w, "take") /\ UNCHANGED last
     \/ stored' \in Applied(Storing(writers[w].record), stored) /\ WriterFails(w)
  /\ orphans' = IF stored' = stored THEN orphans ELSE orphans \ {writers[w].record.id}
  /\ UNCHANGED <<cfg, generation, offered, returned, list, filled>>

-----------------------------------------------------------------------------

\* wg.Wait(), and the generator is left where it is when every writer failed.
Return ==
  /\ returned = "running" /\ \A w \in DOMAIN writers : writers[w].pc = "done"
  /\ returned' = IF last THEN "error" ELSE "nil"
  /\ filled' = IF last THEN filled ELSE filled \cup (cfg.KeyLow .. cfg.KeyHigh)
  /\ UNCHANGED <<cfg, generation, offered, writers, last, stored, list, orphans>>

DataNext ==
  \/ Generate \/ ClearBudgetBatches \/ Return
  \/ \E w \in DOMAIN writers :
       \/ Take(w) \/ TakeNone(w) \/ AddToBuffer(w) \/ FlushFull(w) \/ CloseConnection(w)
       \/ TickFlush(w) \/ AppendKey(w) \/ PutBins(w)

-----------------------------------------------------------------------------

Written(id) == id \in DOMAIN stored /\ stored[id].generation = generation

\* A run that reports no error has written everything: each key its row, each
\* campaign its budget in exactly one batch, each audience exactly the
\* campaigns that target it, once, although writers fail, calls leave items
\* unprocessed and the ticker flushes behind the writers' backs.  Whatever
\* flags are given, a device has different audiences, between the two limits:
\* the bidder looks each of them up.
WrittenWhenNil ==
  returned = "nil" =>
    \A key \in cfg.KeyLow .. cfg.KeyHigh :
      CASE cfg.Type = "budgets" ->
             Cardinality({id \in DOMAIN stored : Written(id) /\ key \in Range(stored[id].data)}) = 1
        [] cfg.Type = "audiences" ->
             \A a \in 1 .. cfg.MaxAudienceID :
               a \in Range(AudiencesOf(key, cfg)) <=>
                 /\ a \in DOMAIN stored /\ Written(a)
                 /\ Cardinality({i \in DOMAIN stored[a].data : stored[a].data[i] = key}) = 1
        [] cfg.Type = "devices" ->
             /\ Written(key)
             /\ IsInjective(stored[key].data)
             /\ Len(stored[key].data) \in cfg.MinAudiences .. cfg.MaxAudiences
        [] OTHER -> Written(key)
=============================================================================
