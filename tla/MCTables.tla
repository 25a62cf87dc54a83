------------------------------- MODULE MCTables -------------------------------
(*****************************************************************************)
(* Instance of the four parts through which rows and records travel: the     *)
(* generator that writes tables and the reader of its budget batches, the    *)
(* caches and the campaign lookup, the query of a device, and the batches of *)
(* the stream.  They do not share state, so a behaviour is about one of them *)
(* ("focus").                                                                *)
(*****************************************************************************)
EXTENDS Targeting, Batching, DeviceQuery, DeviceNumbers

CONSTANTS c1, c2, bad, aud1, aud2, unknown

VARIABLES focus

\* Two valid campaigns and an invalid one, two audiences that share a campaign,
\* one of them with a duplicate; a device may carry an unknown audience.
MCTargets == [a \in Audiences |-> IF a = aud1 THEN <<c1, bad>> ELSE <<c2, c1, c2>>]

MCAudienceIDs == {<<>>, <<aud1>>, <<aud2, aud1>>, <<unknown, aud2>>}

\* An encoding with padding and one without.
MCRows == [d \in {"d1", "d3"} |-> IF d = "d1" THEN 1 ELSE 3]

Flags(type, output, low, high, min, max, id, n, size) ==
  [Type |-> type, Output |-> output, KeyLow |-> low, KeyHigh |-> high, MinAudiences |-> min,
   MaxAudiences |-> max, MaxAudienceID |-> id, Concurrency |-> n, BudgetBatchSize |-> size]

MCDefault == Flags("", "", 1, 4, 1, 2, 3, 1, 2)

\* Ranges that end inside a batch, flags left out, limits in the wrong order
\* and fewer audience IDs than audiences; Aerospike has one writer.  A table may
\* be filled again with more campaigns, with fewer, or with larger batches, and
\* its range divided between two runs.
MCConfigs ==
  { Flags("budgets", "aerospike", 1, 3, 0, 0, 0, 0, 2),
    Flags("budgets", "aerospike", 0, 4, 0, 0, 0, 0, 3),
    Flags("budgets", "aerospike", 2, 3, 0, 0, 0, 0, 2),
    Flags("budgets", "dynamodb", 0, 5, 0, 0, 0, 2, 2),
    Flags("budgets", "dynamodb", 1, 3, 0, 0, 0, 1, 2),
    Flags("campaigns", "dynamodb", 2, 4, 0, 0, 0, 2, 0),
    Flags("audiences", "dynamodb", 1, 3, 2, 1, 2, 2, 0),
    Flags("devices", "dynamodb", 0, 3, 0, 3, 2, 2, 0),
    Flags("devices", "dynamodb", 3, 4, 0, 3, 2, 1, 0),
    Flags("devices", "aerospike", 0, 2, 2, 3, 1, 0, 0),
    Flags("devices", "aerospike", 3, 0, 1, 2, 1, 0, 0) }

MCInit ==
  /\ Init /\ BatchInit /\ QueryInit /\ DataInit /\ ReaderInit
  /\ focus \in {"lookup", "batch", "query", "data"}
  /\ focus = "query" \/ mode = "sdk"
  /\ focus = "data" \/ (cfg.Type = "campaigns")

MCNext ==
  /\ UNCHANGED focus
  /\ \/ focus = "lookup" /\ Next /\ UNCHANGED <<batchVars, queryVars, dataVars, readerVars>>
     \/ focus = "batch" /\ BatchNext /\ UNCHANGED <<vars, queryVars, dataVars, readerVars>>
     \/ focus = "query" /\ QueryNext /\ UNCHANGED <<vars, batchVars, dataVars, readerVars>>
     \/ focus = "data" /\ BudgetsNext /\ UNCHANGED <<vars, batchVars, queryVars>>

MCSpec == MCInit /\ [][MCNext]_<<vars, batchVars, queryVars, dataVars, readerVars, focus>>

-----------------------------------------------------------------------------

\* The type invariants of the lookup and of the batch.
TablesTypeOK == TypeOK /\ BatchTypeOK
=============================================================================
