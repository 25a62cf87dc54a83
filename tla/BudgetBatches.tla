----------------------------- MODULE BudgetBatches -----------------------------
(*****************************************************************************)
(* How the bidder reads budgets from Aerospike (BudgetRepository.FetchAll)   *)
(* while the data generator writes them: either it reads the list of batch   *)
(* keys and then the batches one by one, or it scans the set.  The runs of   *)
(* the generator may differ in their ranges and in the size of their         *)
(* batches, so a batch may be replaced by one of other campaigns.            *)
(*****************************************************************************)
EXTENDS DataGen

VARIABLES reader,    \* FetchAll(): what it does, and what is left to read
          consumed,  \* the batches whose budgets were given to consume(), by ID
          owed       \* the batches a read must deliver, as they were when it began

readerVars == <<reader, consumed, owed>>

At(pc, todo) == [pc |-> pc, todo |-> todo]

ReaderInit == reader = At("idle", <<>>) /\ consumed = <<>> /\ owed = <<>>

Consumed(id) ==
  [b \in DOMAIN consumed \cup {id} |-> IF b = id THEN stored[id] ELSE consumed[b]]

\* What the list of keys stands for: a batch whose key was cleared is left out
\* on purpose until it is written again.
Promised == [id \in DOMAIN stored \ orphans |-> stored[id]]

\* getAll() reads the list; without one the key is not found.
GetKeys ==
  /\ reader.pc \in {"idle", "nil", "error"}
  /\ owed' = Promised /\ consumed' = <<>>
  /\ reader' = IF list = <<>> THEN At("error", <<>>) ELSE At("getAll", list)

\* A listed batch that is not stored yet fails the whole read.
GetBatch ==
  /\ reader.pc = "getAll" /\ reader.todo # <<>>
  /\ IF Head(reader.todo) \in DOMAIN stored
     THEN /\ reader' = At("getAll", Tail(reader.todo))
          /\ consumed' = Consumed(Head(reader.todo))
     ELSE /\ reader' = At("error", <<>>)
          /\ UNCHANGED consumed
  /\ UNCHANGED owed

\* scan(): the set as it was, in any order, each record as it is when it is
\* reached.
ScanAll ==
  /\ reader.pc \in {"idle", "nil", "error"}
  /\ owed' = stored /\ consumed' = <<>>
  /\ reader' = At("scan", SetToSeq(DOMAIN stored))

ScanRecord ==
  /\ reader.pc = "scan"
  /\ \E i \in DOMAIN reader.todo :
       /\ reader' = At("scan", RemoveAt(reader.todo, i))
       /\ consumed' = Consumed(reader.todo[i])
  /\ UNCHANGED owed

ReadFails ==
  /\ reader.pc \in {"getAll", "scan"}
  /\ reader' = At("error", <<>>)
  /\ UNCHANGED <<consumed, owed>>

ReadEnds ==
  /\ reader.pc \in {"getAll", "scan"} /\ reader.todo = <<>>
  /\ reader' = At("nil", <<>>)
  /\ UNCHANGED <<consumed, owed>>

ReaderNext ==
  /\ cfg.Type = "budgets" /\ cfg.Output = "aerospike"
  /\ GetKeys \/ GetBatch \/ ScanAll \/ ScanRecord \/ ReadFails \/ ReadEnds

\* The bidder reads while the generator runs.
BudgetsNext ==
  \/ DataNext /\ UNCHANGED readerVars
  \/ ReaderNext /\ UNCHANGED dataVars

BudgetsSpec == DataInit /\ ReaderInit /\ [][BudgetsNext]_<<dataVars, readerVars>>

-----------------------------------------------------------------------------

\* "reads all budgets records stored in the database": a read that returns nil
\* has consumed every batch that it owes, as it was when the read began or as a
\* later run made it, while runs of any ranges and batch sizes replace batches,
\* fail half way or are left without their keys.  A scan owes whatever is
\* stored; the list of keys, whatever was written since the keys were last
\* cleared.  So every campaign of a run that returned nil is consumed
\* (WrittenWhenNil), unless another run moves it to another batch meanwhile.
ReadsAllStored ==
  reader.pc = "nil" =>
    \A id \in DOMAIN owed :
      /\ id \in DOMAIN consumed
      /\ consumed[id] = owed[id] \/ consumed[id].generation > owed[id].generation
=============================================================================
