------------------------------ MODULE Targeting ------------------------------
(***************************************************************************)
(* From a device to the campaigns that target it: the campaign and the     *)
(* audience cache (cache/campaign.go, cache/audience.go), which are read   *)
(* once when the bidder starts, and getAudienceCampaigns() of the auction  *)
(* with its two pools (auction/auction.go, auction/pool.go).               *)
(*                                                                         *)
(* Neither pool clears what it hands out again: the buffers of an earlier  *)
(* auction are cut to length 0 where they are used, and the lookup table   *)
(* that removes duplicates is not cleared at all but stamped with the      *)
(* number of the run.                                                      *)
(*                                                                         *)
(* Indices of campaigns count from 1 here.  A list of campaigns that is    *)
(* filtered keeps the positions it had in the database record, so that     *)
(* its order and its duplicates remain.                                    *)
(***************************************************************************)
EXTENDS Integers, Sequences, FiniteSets

CONSTANTS
    Campaigns,    \* campaign IDs with a record in the database
    Valid,        \* those that pass IsValid()
    Audiences,    \* audience IDs with a record in the database
    Targets,      \* audience -> the list of campaign IDs in its record
    AudienceIDs,  \* what the device query may append to device.AudienceIDs
    Handlers,     \* goroutines that run auctions
    Tables,       \* identities of campaignLookup objects
    Buffers,      \* identities of persistentData objects
    MaxRunID,     \* bound: runs per lookup table
    NoObject      \* no buffer, or no lookup table

Elements(s) == {s[i] : i \in DOMAIN s}

ASSUME TargetingAssumption ==
    /\ IsFiniteSet(Campaigns)
    /\ Valid \subseteq Campaigns
    /\ Targets \in [Audiences -> Seq(Campaigns)]
    /\ \A ids \in AudienceIDs : ids \in Seq(Elements(ids))
    /\ MaxRunID \in Nat
    /\ NoObject \notin Tables \cup Buffers

VARIABLES
    phase,         \* "campaigns", "audiences", "serving", "failed"
    data,          \* Campaign.data
    idToIndex,     \* Campaign.idToIndex
    audienceData,  \* Audience.data: audience -> position -> campaign index
    tablePool,     \* campaignLookupPool: the tables waiting in it
    table,         \* [Tables -> runID and lookup]
    bufferPool,    \* Auction.pool: the persistentData waiting in it
    buffer,        \* [Buffers -> audienceIDs and campaignIndices]
    pc,            \* [Handlers -> where the auction is]
    mine,          \* [Handlers -> the table and the buffer it holds]
    loop,          \* [Handlers -> audience i, and the positions still to do]
    asked          \* history: the audiences of the device the auction is for

cacheVars == <<phase, data, idToIndex, audienceData>>
auctionVars == <<tablePool, table, bufferPool, buffer, pc, mine, loop, asked>>
vars == <<phase, data, idToIndex, audienceData, tablePool, table, bufferPool,
          buffer, pc, mine, loop, asked>>

Extend(f, x, y) == [z \in DOMAIN f \cup {x} |-> IF z = x THEN y ELSE f[z]]

NewTable  == [runID |-> 0, lookup |-> <<>>]
NewBuffer == [audienceIDs |-> <<>>, campaignIndices |-> <<>>]
LoopStart == [i |-> 0, todo |-> {}]

Init ==
    /\ phase = "campaigns"
    /\ data = <<>>
    /\ idToIndex = [c \in {} |-> 0]
    /\ audienceData = [a \in {} |-> <<>>]
    /\ tablePool = {}
    /\ table = [t \in Tables |-> NewTable]
    /\ bufferPool = {}
    /\ buffer = [b \in Buffers |-> NewBuffer]
    /\ pc = [h \in Handlers |-> "idle"]
    /\ mine = [h \in Handlers |-> [table |-> NoObject, buffer |-> NoObject]]
    /\ loop = [h \in Handlers |-> LoopStart]
    /\ asked = [h \in Handlers |-> <<>>]

-----------------------------------------------------------------------------
(***************************************************************************)
(* newCampaign() and newAudience(): the consumers of the two scans.  A     *)
(* scan delivers the records of a table in any order.                      *)
(***************************************************************************)
\* A valid campaign gets the next index; an invalid one is dropped, which
\* leaves no trace here.
ConsumeCampaign(c) ==
    /\ phase = "campaigns"
    /\ c \in Valid \ DOMAIN idToIndex
    /\ idToIndex' = Extend(idToIndex, c, Len(data) + 1)
    /\ data' = Append(data, c)
    /\ UNCHANGED <<phase, audienceData, auctionVars>>

CampaignsRead ==
    /\ phase = "campaigns"
    /\ Valid \subseteq DOMAIN idToIndex
    /\ phase' = "audiences"
    /\ UNCHANGED <<data, idToIndex, audienceData, auctionVars>>

\* Mutant: an ID that is not found gives Go's zero index instead of none.
ConsumeAudienceUnchecked(a) ==
    /\ phase = "audiences"
    /\ a \notin DOMAIN audienceData
    /\ LET Index(c) == IF c \in DOMAIN idToIndex THEN idToIndex[c] ELSE 0
       IN audienceData' = Extend(audienceData, a, [p \in DOMAIN Targets[a] |-> Index(Targets[a][p])])
    /\ UNCHANGED <<phase, data, idToIndex, auctionVars>>

\* Campaigns that are not in the campaign cache are left out.
ConsumeAudience(a) ==
    /\ phase = "audiences"
    /\ a \notin DOMAIN audienceData
    /\ LET found == {p \in DOMAIN Targets[a] : Targets[a][p] \in DOMAIN idToIndex}
       IN audienceData' = Extend(audienceData, a, [p \in found |-> idToIndex[Targets[a][p]]])
    /\ UNCHANGED <<phase, data, idToIndex, auctionVars>>

AudiencesRead ==
    /\ phase = "audiences"
    /\ Audiences \subseteq DOMAIN audienceData
    /\ phase' = "serving"
    /\ UNCHANGED <<data, idToIndex, audienceData, auctionVars>>

\* A scan fails: cache.New() returns the error and the bidder does not start.
ScanFails ==
    /\ phase \in {"campaigns", "audiences"}
    /\ phase' = "failed"
    /\ UNCHANGED <<data, idToIndex, audienceData, auctionVars>>

-----------------------------------------------------------------------------
(***************************************************************************)
(* The pools.  sync.Pool hands out any of its objects, or none although it *)
(* has some, and drops objects whenever it likes.  An object in no pool    *)
(* that nobody holds does not exist and stands for the next one allocated. *)
(***************************************************************************)
TableAvailable(t)  == \A h \in Handlers : mine[h].table # t
BufferAvailable(b) == \A h \in Handlers : mine[h].buffer # b

Collect ==
    /\ \/ \E t \in tablePool :
            /\ tablePool' = tablePool \ {t}
            /\ table' = [table EXCEPT ![t] = NewTable]
            /\ UNCHANGED <<bufferPool, buffer>>
       \/ \E b \in bufferPool :
            /\ bufferPool' = bufferPool \ {b}
            /\ buffer' = [buffer EXCEPT ![b] = NewBuffer]
            /\ UNCHANGED <<tablePool, table>>
    /\ UNCHANGED <<cacheVars, pc, mine, loop, asked>>

\* Run(): pool.get(), then getDevice() cuts the list of audiences.
Run(h) ==
    /\ phase = "serving"
    /\ pc[h] = "idle"
    /\ \E b \in Buffers :
         /\ BufferAvailable(b)
         /\ buffer' = [buffer EXCEPT ![b].audienceIDs = <<>>]
         /\ bufferPool' = bufferPool \ {b}
         /\ mine' = [mine EXCEPT ![h].buffer = b]
    /\ pc' = [pc EXCEPT ![h] = "device"]
    /\ UNCHANGED <<cacheVars, tablePool, table, loop, asked>>

\* The device query appends the audiences of the device.
GetDevice(h) ==
    /\ pc[h] = "device"
    /\ \E ids \in AudienceIDs :
         /\ buffer' = [buffer EXCEPT ![mine[h].buffer].audienceIDs = @ \o ids]
         /\ asked' = [asked EXCEPT ![h] = ids]
    /\ pc' = [pc EXCEPT ![h] = "getLookup"]
    /\ UNCHANGED <<cacheVars, tablePool, table, bufferPool, mine, loop>>

\* The device is unknown, or the query fails: run() returns, and Run() puts
\* the buffer back.
DeviceFails(h) ==
    /\ pc[h] = "device"
    /\ bufferPool' = bufferPool \cup {mine[h].buffer}
    /\ mine' = [mine EXCEPT ![h].buffer = NoObject]
    /\ asked' = [asked EXCEPT ![h] = <<>>]
    /\ pc' = [pc EXCEPT ![h] = "idle"]
    /\ UNCHANGED <<cacheVars, tablePool, table, buffer, loop>>

\* Mutant: the run number is not increased.
NextRunSame(tab) ==
    [runID  |-> IF tab.runID = 0 THEN 1 ELSE tab.runID,
     lookup |-> IF Len(tab.lookup) < Len(data)
                THEN [i \in 1..Len(data) |-> 0] ELSE tab.lookup]

\* The table after l.runID++ and, when it is too short, make([]int, n).
NextRun(tab) ==
    [runID  |-> tab.runID + 1,
     lookup |-> IF Len(tab.lookup) < Len(data)
                THEN [i \in 1..Len(data) |-> 0] ELSE tab.lookup]

\* getAudienceCampaigns() up to its loop.
GetLookup(h) ==
    /\ pc[h] = "getLookup"
    /\ \E t \in Tables :
         /\ TableAvailable(t)
         /\ table[t].runID < MaxRunID
         /\ table' = [table EXCEPT ![t] = NextRun(@)]
         /\ tablePool' = tablePool \ {t}
         /\ mine' = [mine EXCEPT ![h].table = t]
    /\ buffer' = [buffer EXCEPT ![mine[h].buffer].campaignIndices = <<>>]
    /\ pc' = [pc EXCEPT ![h] = "adding"]
    /\ UNCHANGED <<cacheVars, bufferPool, loop, asked>>

\* Audience.Get(): a missing key gives an empty list.
CampaignsOf(a) == IF a \in DOMAIN audienceData THEN audienceData[a] ELSE <<>>

\* The outer loop goes on with the next audience.
NextAudience(h) ==
    LET audienceIDs == buffer[mine[h].buffer].audienceIDs
        i == loop[h].i + 1
    IN
    /\ pc[h] = "adding"
    /\ loop[h].todo = {}
    /\ i <= Len(audienceIDs)
    /\ loop' = [loop EXCEPT ![h] = [i |-> i, todo |-> DOMAIN CampaignsOf(audienceIDs[i])]]
    /\ UNCHANGED <<cacheVars, tablePool, table, bufferPool, buffer, pc, mine, asked>>

\* One round of the inner loop.
AddCampaign(h) ==
    LET t == mine[h].table
        b == mine[h].buffer
        list == CampaignsOf(buffer[b].audienceIDs[loop[h].i])
    IN
    /\ pc[h] = "adding"
    /\ \E p \in loop[h].todo :
         /\ \A q \in loop[h].todo : p <= q
         /\ loop' = [loop EXCEPT ![h].todo = @ \ {p}]
         /\ IF table[t].lookup[list[p]] # table[t].runID
            THEN /\ buffer' = [buffer EXCEPT ![b].campaignIndices = Append(@, list[p])]
                 /\ table' = [table EXCEPT ![t].lookup[list[p]] = table[t].runID]
            ELSE UNCHANGED <<buffer, table>>
    /\ UNCHANGED <<cacheVars, tablePool, bufferPool, pc, mine, asked>>

\* The loop is over: campaignLookupPool.put(), and the indices are returned.
PutLookup(h) ==
    /\ pc[h] = "adding"
    /\ loop[h].todo = {}
    /\ loop[h].i = Len(buffer[mine[h].buffer].audienceIDs)
    /\ tablePool' = tablePool \cup {mine[h].table}
    /\ mine' = [mine EXCEPT ![h].table = NoObject]
    /\ loop' = [loop EXCEPT ![h] = LoopStart]
    /\ pc' = [pc EXCEPT ![h] = "choosing"]
    /\ UNCHANGED <<cacheVars, table, bufferPool, buffer, asked>>

\* chooseCampaign() has read the indices; Run() puts the buffer back.
PutBuffer(h) ==
    /\ pc[h] = "choosing"
    /\ bufferPool' = bufferPool \cup {mine[h].buffer}
    /\ mine' = [mine EXCEPT ![h].buffer = NoObject]
    /\ asked' = [asked EXCEPT ![h] = <<>>]
    /\ pc' = [pc EXCEPT ![h] = "idle"]
    /\ UNCHANGED <<cacheVars, tablePool, table, buffer, loop>>

Auction(h) ==
    \/ Run(h) \/ GetDevice(h) \/ DeviceFails(h) \/ GetLookup(h)
    \/ NextAudience(h) \/ AddCampaign(h) \/ PutLookup(h) \/ PutBuffer(h)

Loading ==
    \/ \E c \in Valid : ConsumeCampaign(c)
    \/ \E a \in Audiences : ConsumeAudience(a)
    \/ CampaignsRead \/ AudiencesRead \/ ScanFails

Next == Loading \/ Collect \/ \E h \in Handlers : Auction(h)

Spec == Init /\ [][Next]_vars

-----------------------------------------------------------------------------
Indices == 1..Len(data)

\* Every variable holds a value of its kind; in particular the audience
\* cache refers to campaigns that are in the campaign cache
\* (cache/audience.go, newAudience).
TypeOK ==
    /\ phase \in {"campaigns", "audiences", "serving", "failed"}
    /\ data \in Seq(Valid)
    /\ idToIndex \in [DOMAIN idToIndex -> Indices] /\ DOMAIN idToIndex \subseteq Valid
    /\ DOMAIN audienceData \subseteq Audiences
    /\ \A a \in DOMAIN audienceData : \A p \in DOMAIN audienceData[a] : audienceData[a][p] \in Indices
    /\ tablePool \subseteq Tables /\ bufferPool \subseteq Buffers
    /\ \A t \in Tables : table[t].runID \in Nat /\ table[t].lookup \in Seq(Nat)
    /\ \A b \in Buffers : buffer[b].campaignIndices \in Seq(Indices)
    /\ pc \in [Handlers -> {"idle", "device", "getLookup", "adding", "choosing"}]
    /\ \A h \in Handlers : mine[h].table \in Tables \cup {NoObject}
                        /\ mine[h].buffer \in Buffers \cup {NoObject}

\* The campaign cache's index leads back to the campaign: the audience cache,
\* the budget table and the auctions all address campaigns by this index
\* (cache/campaign.go, newCampaign).
IndexFaithful ==
    \A c \in DOMAIN idToIndex : data[idToIndex[c]] = c

\* The campaigns in the records of these audiences that are valid.
Targeting(ids) ==
    {c \in Valid : \E i \in DOMAIN ids : ids[i] \in Audiences /\ c \in Elements(Targets[ids[i]])}

\* What getAudienceCampaigns() returns is each valid campaign that one of the
\* device's audiences is targeted by, once, and nothing of an auction that
\* used the same buffer or the same lookup table before: a duplicate would
\* be charged twice by chooseCampaign(), a leftover would sell the
\* impression to a campaign that does not target the device.
TargetedExactly ==
    \A h \in Handlers : pc[h] = "choosing" =>
        LET indices == buffer[mine[h].buffer].campaignIndices
        IN /\ \A i, j \in DOMAIN indices : indices[i] = indices[j] => i = j
           /\ {data[indices[i]] : i \in DOMAIN indices} = Targeting(asked[h])
=============================================================================
