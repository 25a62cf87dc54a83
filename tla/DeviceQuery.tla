------------------------------ MODULE DeviceQuery ------------------------------
(*****************************************************************************)
(* The lookup of a device: cache.Device.Get(), the DynamoDB repository with  *)
(* its three ways to ask, and the low-level one in full: the pool of query   *)
(* objects, the credentials and the signer made from them, the body, the     *)
(* signature with its key that is kept for a day, and the decoding of the    *)
(* answer into a buffer that is used again.  A hash is the term of what was  *)
(* hashed; credentials are the number of the period they are valid in.       *)
(*****************************************************************************)
EXTENDS Naturals, Sequences, FiniteSets, Functions

CONSTANTS Lookups,    \* the goroutines that ask
          QueryObjects,    \* the low-level query objects
          Rows,       \* the devices of the table: how many audiences each has
          MaxPeriod,  \* bound: how often credentials expire
          MaxDay,     \* bound: days
          None

ASSUME QueryAssumption ==
  /\ Cardinality(Lookups) <= Cardinality(QueryObjects)
  /\ Rows \in [DOMAIN Rows -> Nat] /\ MaxPeriod \in Nat /\ MaxDay \in Nat
  /\ None \notin Nat   \* no date

Devices == DOMAIN Rows \cup {"zero", "unknown", "malformed"}

VARIABLES mode,     \* how the repository asks: "lowlevel", "sdk", or "disabled"
          period,   \* the credentials that are valid now
          day,      \* time.Now().UTC()
          query,    \* what each lookup does
          object,   \* the LowLevel objects, each with its Signer
          sent      \* the signed request each lookup has sent

queryVars == <<mode, period, day, query, object, sent>>

Quiet == [pc |-> "idle", device |-> None, holds |-> None, result |-> 0, error |-> "nil"]

\* aws.Credentials{}, which do not expire.
NoCredentials == 0

Expired(credentials) == credentials # NoCredentials /\ credentials # period

NewSigner(credentials) == [credentials |-> credentials, key |-> None, keyDate |-> None]

NewLowLevel(credentials) ==
  [credentials |-> credentials, signer |-> NewSigner(credentials), body |-> None]

QueryInit ==
  /\ mode \in {"lowlevel", "sdk", "disabled"}
  /\ period = 1 /\ day = 1
  /\ query = [l \in Lookups |-> Quiet]
  /\ object = [o \in QueryObjects |-> None]
  /\ sent = [l \in Lookups |-> None]

Sha256(data) == [hash |-> "sha256", of |-> data]
Hmac(key, data) == [hash |-> "hmac", key |-> key, of |-> data]

\* Get() is left with an error, or with a number of audience IDs.
Ends(l, error, result) ==
  query' = [query EXCEPT ![l].pc = "put", ![l].error = error, ![l].result = result]

Goes(l, pc) == query' = [query EXCEPT ![l].pc = pc]

-----------------------------------------------------------------------------
(* The cache and the repository.                                             *)

\* cache.Device.Get(): the zero ID is not asked for, and a disabled query
\* makes no audience or five up.
Get(l) ==
  /\ query[l].pc = "idle"
  /\ \E d \in Devices :
       LET asked == [Quiet EXCEPT !.device = d]
       IN \/ /\ d = "zero"
             /\ query' = [query EXCEPT ![l] = [asked EXCEPT !.pc = "put", !.error = "not found"]]
          \/ /\ d # "zero" /\ mode = "disabled"
             /\ \E n \in {0, 5} :
                  query' = [query EXCEPT ![l] = [asked EXCEPT !.pc = "put", !.result = n]]
          \/ /\ d # "zero" /\ mode # "disabled"
             /\ query' = [query EXCEPT ![l] = [asked EXCEPT !.pc = mode]]
  /\ UNCHANGED <<mode, period, day, object, sent>>

\* getDeviceDAX() and getDeviceDynamoDB(), each to its deadline.
AskSDK(l) ==
  /\ query[l].pc = "sdk"
  /\ LET d == query[l].device
     IN \/ d \in DOMAIN Rows /\ Ends(l, "nil", Rows[d])
        \/ d = "unknown" /\ Ends(l, "not found", 0)
        \/ d = "malformed" /\ Ends(l, "bad response format", 0)
        \/ \E error \in {"timeout", "other"} : Ends(l, error, 0)
  /\ UNCHANGED <<mode, period, day, object, sent>>

Held == {query[l].holds : l \in Lookups}

\* devicePool.Get(): an object nobody holds, which sync.Pool may have dropped;
\* lowlevel.New() retrieves credentials, or fails.
GetObject(l) ==
  /\ query[l].pc = "lowlevel"
  /\ \E o \in QueryObjects \ Held : \E contents \in {object[o], None} :
       \/ /\ contents # None
          /\ query' = [query EXCEPT ![l].pc = "renew", ![l].holds = o]
          /\ UNCHANGED object
       \/ /\ contents = None
          /\ query' = [query EXCEPT ![l].pc = "renew", ![l].holds = o]
          /\ object' = [object EXCEPT ![o] = NewLowLevel(period)]
       \/ contents = None /\ Ends(l, "other", 0) /\ UNCHANGED object
  /\ UNCHANGED <<mode, period, day, sent>>

-----------------------------------------------------------------------------
(* The low-level query.                                                      *)

\* renewCredentials(): the result of Retrieve() is assigned although it failed.
RenewCredentials(l) ==
  LET o == query[l].holds
  IN /\ query[l].pc = "renew"
     /\ \/ /\ Expired(object[o].credentials)
           /\ object' = [object EXCEPT ![o].credentials = period, ![o].signer = NewSigner(period)]
           /\ Goes(l, "body")
        \/ /\ Expired(object[o].credentials)
           /\ object' = [object EXCEPT ![o].credentials = NoCredentials]
           /\ Ends(l, "other", 0)
        \/ ~Expired(object[o].credentials) /\ Goes(l, "body") /\ UNCHANGED object
     /\ UNCHANGED <<mode, period, day, sent>>

\* buildBody(), into the object's templateBuffer.
BuildBody(l) ==
  /\ query[l].pc = "body"
  /\ object' = [object EXCEPT ![query[l].holds].body = query[l].device]
  /\ Goes(l, "sign")
  /\ UNCHANGED <<mode, period, day, sent>>

Secret(credentials) == [secret |-> credentials]

DerivedKey(credentials, date) ==
  Hmac(Hmac(Hmac(Hmac(Secret(credentials), date), "region"), "service"), "aws4_request")

\* Mutant: the key is made once.
KeyMadeOnce(signer) ==
  IF signer.keyDate = None
  THEN [signer EXCEPT !.key = DerivedKey(signer.credentials, day), !.keyDate = day]
  ELSE signer

\* The first half of buildSignature(): the key of the day.
KeyOfTheDay(signer) ==
  IF day # signer.keyDate
  THEN [signer EXCEPT !.key = DerivedKey(signer.credentials, day), !.keyDate = day]
  ELSE signer

CanonicalString(payload, date, token) ==
  [payload |-> Sha256(payload), date |-> date, token |-> token]

StringToSign(canonical, date) == [date |-> date, canonical |-> Sha256(canonical)]

\* SignRequest() and the headers: the access key and the session token are
\* those the signer was made with.
SignAndSend(l) ==
  LET o == query[l].holds
      signer == KeyOfTheDay(object[o].signer)
      token == signer.credentials
  IN /\ query[l].pc = "sign"
     /\ object' = [object EXCEPT ![o].signer = signer]
     /\ sent' = [sent EXCEPT ![l] =
          [body |-> object[o].body, date |-> day, accessKey |-> signer.credentials, token |-> token,
           signature |-> Hmac(signer.key,
                              StringToSign(CanonicalString(object[o].body, day, token), day))]]
     /\ Goes(l, "sent")
     /\ UNCHANGED <<mode, period, day>>

\* Bytes in the binary attribute; the base64 text of n bytes is padded, and
\* base64.DecodedLen() counts the padding in.
IDLen == 16
EncodedLen(n) == ((n + 2) \div 3) * 4
DecodedLen(n) == (n \div 4) * 3

\* Mutant: the loop stops before an ID that ends with the buffer.
DecodedIDsShort(audiences) == (DecodedLen(EncodedLen(audiences * IDLen)) - 1) \div IDLen

\* The loop of parseResponse() over the whole base64Buffer.
DecodedIDs(audiences) == ((DecodedLen(EncodedLen(audiences * IDLen)) + IDLen) - 1) \div IDLen

\* httpClient.Do() and parseResponse().  DynamoDB answers a signed request that
\* it accepts, else with a message.
Answer(l) ==
  /\ query[l].pc = "sent"
  /\ LET d == sent[l].body
     IN \/ sent[l].accessKey = period /\ d \in DOMAIN Rows /\ Ends(l, "nil", DecodedIDs(Rows[d]))
        \/ sent[l].accessKey = period /\ d \in {"unknown", "malformed"} /\ Ends(l, "not found", 0)
        \/ \E error \in {"timeout", "other"} : Ends(l, error, 0)
  /\ UNCHANGED <<mode, period, day, object, sent>>

\* The deferred Put(), and Get() returns.
Put(l) ==
  /\ query[l].pc = "put"
  /\ query' = [query EXCEPT ![l] = Quiet]
  /\ sent' = [sent EXCEPT ![l] = None]
  /\ UNCHANGED <<mode, period, day, object>>

CredentialsExpire ==
  /\ period < MaxPeriod /\ period' = period + 1
  /\ UNCHANGED <<mode, day, query, object, sent>>

Midnight ==
  /\ day < MaxDay /\ day' = day + 1
  /\ UNCHANGED <<mode, period, query, object, sent>>

QueryNext ==
  \/ CredentialsExpire \/ Midnight
  \/ \E l \in Lookups :
       \/ Get(l) \/ AskSDK(l) \/ GetObject(l) \/ RenewCredentials(l) \/ BuildBody(l)
       \/ SignAndSend(l) \/ Answer(l) \/ Put(l)

-----------------------------------------------------------------------------

\* Every request carries the signature of AWS version 4 for its own device,
\* its own date and the credentials its headers name, whatever the object was
\* used for before: key, date, credentials and body always belong together.
SignatureHolds ==
  \A l \in Lookups :
    sent[l] # None =>
      /\ sent[l].body = query[l].device
      /\ sent[l].signature =
           Hmac(DerivedKey(sent[l].accessKey, sent[l].date),
                StringToSign(CanonicalString(query[l].device, sent[l].date, sent[l].accessKey),
                             sent[l].date))

\* A lookup that succeeds returns the audiences of its device, and the
\* low-level one at most one ID more: none when their number is a multiple of
\* three, whose encoding has no padding.
AudiencesKept ==
  \A l \in Lookups :
    (query[l].pc = "put" /\ query[l].error = "nil" /\ mode # "disabled") =>
      LET n == Rows[query[l].device]
      IN query[l].result \in
           (IF mode = "lowlevel" /\ n % 3 # 0 THEN {n + 1} ELSE {n})

\* "Signers credentials can't be changed, so a new Signer is required": the
\* signer of an object has the object's credentials, so that the object signs
\* with credentials that are renewed when they expire.
SignerIsCurrent ==
  \A o \in QueryObjects : object[o] # None => object[o].signer.credentials = object[o].credentials
=============================================================================
